------------------------------- MODULE HubLog -------------------------------
(***************************************************************************)
(* The hub's log: one file a month, opened when the first line of a month is *)
(* written, and files of more than a year ago removed when the hub starts.   *)
(*                                                                          *)
(* The clock counts days of DaysPerMonth, so that the file of a month holds  *)
(* lines of different ages.  The clock does not go back (see the README).    *)
(***************************************************************************)
EXTENDS Naturals

CONSTANTS
    DaysPerMonth,
    Year,          \* months the log is kept for (12)
    MaxDay         \* when the run ends

ASSUME LogAssumption == DaysPerMonth \in Nat \ {0} /\ Year \in Nat \ {0} /\ MaxDay \in Nat

VARIABLES
    now,       \* the day
    running,   \* the hub runs
    curMonth,  \* l.curMonth
    isOpen,    \* l.file is open
    inFile,    \* days of the lines in each month's file; {} if there is none
    lines,     \* history: days a line was logged on
    reported   \* history: days a line was lost on, with a message on stderr

logVars == <<now, running, curMonth, isOpen, inFile, lines, reported>>

Days   == 0 .. MaxDay
MonthOf(day) == day \div DaysPerMonth
Months == 0 .. MonthOf(MaxDay)

LogTypeOK ==
    /\ now \in Days /\ curMonth \in Months
    /\ running \in BOOLEAN /\ isOpen \in BOOLEAN
    /\ inFile \in [Months -> SUBSET Days]
    /\ lines \subseteq Days /\ reported \subseteq Days

LogInit ==
    /\ now = 0 /\ running = FALSE /\ curMonth = 0 /\ isOpen = FALSE
    /\ inFile = [m \in Months |-> {}]
    /\ lines = {} /\ reported = {}

\* cleanup removes the file of a month that began a year ago, to the hour.
TooOld(m) == m * DaysPerMonth + Year * DaysPerMonth <= now

Cleaned == [m \in Months |-> IF TooOld(m) THEN {} ELSE inFile[m]]

\* New: open this month's file, then clean up.  The hub does not start without it.
StartLog ==
    /\ ~ running
    /\ running' = TRUE
    /\ curMonth' = MonthOf(now) /\ isOpen' = TRUE
    /\ inFile' = Cleaned
    /\ UNCHANGED <<now, lines, reported>>

\* The program ends or is killed.
EndLog ==
    /\ running
    /\ running' = FALSE /\ isOpen' = FALSE
    /\ UNCHANGED <<now, curMonth, inFile, lines, reported>>

Put(m) ==
    /\ lines' = lines \cup {now}
    /\ inFile' = IF isOpen' THEN [inFile EXCEPT ![m] = @ \cup {now}] ELSE inFile

\* logf in the month of the open file.
Write ==
    /\ running /\ MonthOf(now) = curMonth
    /\ UNCHANGED isOpen
    /\ Put(curMonth)
    /\ UNCHANGED <<now, running, curMonth, reported>>

\* Mutant: the month is noted before the file is known to open.
RotateFailsLate ==
    /\ running /\ MonthOf(now) # curMonth
    /\ isOpen' = FALSE
    /\ curMonth' = MonthOf(now)
    /\ lines' = lines \cup {now} /\ reported' = reported \cup {now}
    /\ UNCHANGED <<now, running, inFile>>

\* logf in a new month: rotate closes the old file and opens the new one, ...
Rotate ==
    /\ running /\ MonthOf(now) # curMonth
    /\ isOpen' = TRUE
    /\ curMonth' = MonthOf(now)
    /\ Put(curMonth')
    /\ UNCHANGED <<now, running, reported>>

\* ... or fails to, with the old one closed.
RotateFails ==
    /\ running /\ MonthOf(now) # curMonth
    /\ isOpen' = FALSE
    /\ lines' = lines \cup {now} /\ reported' = reported \cup {now}
    /\ UNCHANGED <<now, running, curMonth, inFile>>

NextDay ==
    /\ now < MaxDay
    /\ now' = now + 1
    /\ UNCHANGED <<running, curMonth, isOpen, inFile, lines, reported>>

LogNext == StartLog \/ EndLog \/ Write \/ Rotate \/ RotateFails \/ NextDay

LogSpec == LogInit /\ [][LogNext]_logVars

-----------------------------------------------------------------------------
\* A line of the last eleven months is in the file of its month, or was reported
\* on stderr, although opening a file may fail and the hub is restarted at any
\* time.  (Not of the last twelve: the file of the month a year ago goes whole.)
LinesKept ==
    \A day \in lines \ reported :
        day > now - (Year - 1) * DaysPerMonth => day \in inFile[MonthOf(day)]
=============================================================================
