----------------------------- MODULE ScaleLine -----------------------------
(***************************************************************************)
(* Whose answer a command on the serial line gets: sendCommandLocked, which *)
(* writes a command and takes the next line for its answer, and what Weigh, *)
(* Tare, Zero, watchdogCheck and tryConnect make of that line.              *)
(*                                                                          *)
(* ScaleClient has the goroutines; here c.mu is held by whoever is on the   *)
(* line, so that one command follows another.  The scale works off what it  *)
(* was asked, in order, and may leave a command unanswered; an answer may   *)
(* come after commandTimeout, but less than a second commandTimeout late.   *)
(* Closing the port takes nothing back that was written: what is answered   *)
(* while it is closed may be lost, or be read by whoever opens it again.    *)
(* A port that fails at once, as a pulled cable's does, is ScaleClient's.   *)
(***************************************************************************)
EXTENDS Naturals, Sequences

CONSTANTS
    Loads,  \* what the scale can show
    None    \* no answer was given to the caller (yet)

ASSUME LineAssumption ==
    Loads # {} /\ "done" \notin Loads /\ None \notin Loads \cup {"done"}

VARIABLES
    up,        \* c.connected, and the port is open
    op,        \* who is on the line, if anybody
    asked,     \* commands the scale has yet to deal with
    answers,   \* lines that can be read
    load,      \* what the scale shows
    did,       \* whether the scale carried out the last command
    told,      \* what the last caller was told: a weight, "done", or None
    since,     \* history: loads shown since the last command was written
    before,    \* history: loads shown since the command before it
    late       \* history: a keepalive was repeated on this port, or the port
               \* closed and opened again, while an answer was still due

lineVars == <<up, op, asked, answers, load, did, told, since, before, late>>

Kinds == {"ST", "US", "OL", "TA", "ZR", "other"}
Lines == [kind : Kinds, load : Loads]

LineTypeOK ==
    /\ up \in BOOLEAN /\ did \in BOOLEAN /\ late \in BOOLEAN
    /\ op \in {"none", "weigh", "tare", "zero", "keepalive", "retry", "probe"}
    /\ asked \in Seq({"Q", "T", "R"})
    /\ answers \in Seq(Lines)
    /\ load \in Loads
    /\ told \in Loads \cup {"done", None}
    /\ since \subseteq Loads /\ before \subseteq Loads

LineInit ==
    /\ up = FALSE /\ op = "none"
    /\ asked = <<>> /\ answers = <<>>
    /\ load \in Loads
    /\ did = FALSE /\ told = None
    /\ since = {load} /\ before = {load}
    /\ late = FALSE

-----------------------------------------------------------------------------
\* The command each caller writes: CmdWeigh, CmdTare or CmdZero.
Command(who) ==
    IF who = "tare" THEN "T" ELSE IF who = "zero" THEN "R" ELSE "Q"

\* ParseWeighResponse and the switch of Weigh.  A line that is not a weight is
\* an unexpected header if it has a comma, and else a parse error.
WeighOutcomes(kind) ==
    IF kind \in {"ST", "US"} THEN {"weight"}
    ELSE IF kind = "OL" THEN {"overload"}
    ELSE {"unexpected", "failed"}

\* ParseAckResponse: QT, TA and ZR, whichever command was sent.
Ack(kind) == kind \in {"TA", "ZR"}

\* The line after a command is written (port.Write).
Written(who, unanswered) ==
    /\ op' = who
    /\ asked' = Append(unanswered, Command(who))
    /\ did' = FALSE /\ told' = None
    /\ since' = {load} /\ before' = since
    /\ UNCHANGED load

\* Weigh, Tare, Zero and the keepalive of watchdogCheck while connected.
Begin(who) ==
    /\ op = "none" /\ up
    /\ Written(who, asked)
    /\ UNCHANGED <<up, answers, late>>

\* tryConnect opens the port and asks for a weight to see who is there.  What was
\* answered on the closed port may be lost or be there to be read.
Open ==
    /\ op = "none" /\ ~ up
    /\ Written("probe", asked)
    /\ answers' \in {answers, <<>>}
    /\ late' = (asked # <<>> \/ answers' # <<>>)
    /\ UNCHANGED up

\* closePortLocked, and the close of a probe that failed: the scale knows nothing
\* of it, and answers what it was asked.
ClosePort ==
    /\ up' = FALSE
    /\ late' = (late \/ asked # <<>>)

\* A caller reads the next line and returns.
WeighReads ==
    /\ op = "weigh" /\ answers # <<>>
    /\ op' = "none"
    /\ \E outcome \in WeighOutcomes(Head(answers).kind) :
           /\ told' = IF outcome = "weight" THEN Head(answers).load ELSE None
           /\ IF outcome = "failed" THEN ClosePort ELSE UNCHANGED <<up, late>>
    /\ answers' = Tail(answers)
    /\ UNCHANGED <<asked, load, did, since, before>>

\* Mutant: nobody waits for the acknowledgement.
AckNotRead ==
    /\ op \in {"tare", "zero"}
    /\ op' = "none"
    /\ UNCHANGED <<up, asked, answers, load, did, told, since, before, late>>

AckReads ==
    /\ op \in {"tare", "zero"} /\ answers # <<>>
    /\ op' = "none"
    /\ told' = IF Ack(Head(answers).kind) THEN "done" ELSE None
    /\ answers' = Tail(answers)
    /\ UNCHANGED <<up, asked, load, did, since, before, late>>

\* For the keepalive and the probe any line will do.
CheckReads ==
    /\ op \in {"keepalive", "retry", "probe"} /\ answers # <<>>
    /\ op' = "none" /\ up' = TRUE
    /\ answers' = Tail(answers)
    /\ UNCHANGED <<asked, load, did, told, since, before, late>>

\* No line within commandTimeout: nothing, or the beginning of one, which is
\* dropped.  What is still due then, of the command and of the line.
NoLine == answers = <<>> /\ Len(asked) <= 1

StillDue ==
    {[commands |-> asked, lines |-> <<>>]} \cup
    (IF asked = <<>> THEN {}
     ELSE {[commands |-> Tail(asked), lines |-> <<[kind |-> "other", load |-> load]>>]})

\* Mutant: Weigh, too, keeps a port whose answer did not come.
TimeoutKeeps ==
    /\ op \in {"weigh", "tare", "zero", "retry", "probe"} /\ NoLine
    /\ op' = "none" /\ up' = (op # "probe")
    /\ UNCHANGED <<asked, answers, late, load, did, told, since, before>>

\* Every caller gives up a port it could read no line from...
Timeout ==
    /\ op \in {"weigh", "tare", "zero", "retry", "probe"} /\ NoLine
    /\ op' = "none"
    /\ ClosePort
    /\ \E due \in StillDue : asked' = due.commands /\ answers' = due.lines
    /\ UNCHANGED <<load, did, told, since, before>>

\* ... but the first keepalive that fails, which is repeated on the same port.
Repeat ==
    /\ op = "keepalive" /\ NoLine
    /\ \E due \in StillDue : Written("retry", due.commands) /\ answers' = due.lines
    /\ late' = (late \/ asked # <<>>)
    /\ UNCHANGED up

-----------------------------------------------------------------------------
(***************************************************************************)
(* The scale and who uses it.                                              *)
(***************************************************************************)
Answer(kind) ==
    /\ asked' = Tail(asked)
    /\ answers' = Append(answers, [kind |-> kind, load |-> load'])
    /\ did' = (Len(asked) = 1)

\* Q is answered with the weight, stable or not, or with an overload.
Weighs ==
    /\ asked # <<>> /\ Head(asked) = "Q"
    /\ load' = load
    /\ \E kind \in {"ST", "US", "OL"} : Answer(kind)
    /\ UNCHANGED <<up, op, told, since, before, late>>

\* T and R are carried out, which changes the weight shown.
Tares ==
    /\ asked # <<>> /\ Head(asked) \in {"T", "R"}
    /\ load' \in Loads
    /\ Answer(IF Head(asked) = "T" THEN "TA" ELSE "ZR")
    /\ since' = since \cup {load'} /\ before' = before \cup {load'}
    /\ UNCHANGED <<up, op, told, late>>

\* A command is refused with a line of another form, or not answered at all.
Refuses ==
    /\ asked # <<>>
    /\ asked' = Tail(asked)
    /\ answers' \in {answers, Append(answers, [kind |-> "other", load |-> load])}
    /\ UNCHANGED <<up, op, load, did, told, since, before, late>>

ChangeLoad ==
    /\ load' \in Loads
    /\ since' = since \cup {load'} /\ before' = before \cup {load'}
    /\ UNCHANGED <<up, op, asked, answers, did, told, late>>

LineNext ==
    \/ \E who \in {"weigh", "tare", "zero", "keepalive"} : Begin(who)
    \/ Open \/ WeighReads \/ AckReads \/ CheckReads \/ Timeout \/ Repeat
    \/ Weighs \/ Tares \/ Refuses \/ ChangeLoad

LineSpec == LineInit /\ [][LineNext]_lineVars

-----------------------------------------------------------------------------
\* However often a keepalive or a reconnect fails, at most one answer is left over
\* when the next command is written: the line does not fall behind further and
\* further.
OneBehind == op = "none" => Len(asked) + Len(answers) <= 1

\* A weight is one the scale showed since the command was written, and a tare or
\* zero that was acknowledged has been carried out; after a keepalive was
\* repeated, or the port closed and opened again, while an answer was due, a
\* weight may be the one asked for by the command before, never an older one.
AnswersBelong ==
    /\ told \in Loads => told \in (IF late THEN before ELSE since)
    /\ told = "done" => did \/ late
=============================================================================
