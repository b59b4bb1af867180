----------------------------- MODULE QueueWatch -----------------------------
(***************************************************************************)
(* What the hub says of the CUPS queue: QueueSnapshot, which reads backend, *)
(* jobs and printer state one after the other, the ledger of first-seen     *)
(* times that snapshots share (annotateJobAges), DiagnoseQueue, and the two *)
(* operations that rest on a snapshot, CancelJob and RestartJob.            *)
(*                                                                          *)
(* Each watcher is a goroutine of an HTTP request.  CUPS, the printer and   *)
(* staff change the queue between any two of its steps.  Time is a Tick     *)
(* that ages what is waiting; ages are capped at Patience.                  *)
(***************************************************************************)
EXTENDS Naturals, FiniteSets

CONSTANTS
    Jobs,      \* job ids; CUPS keeps the id of a job that is restarted
    Shows,     \* watchers that show the queue (GET /printer/queue)
    Acts,      \* watchers that cancel or restart a job
    Patience,  \* stalledAfterSec in ticks
    Recent     \* how many completed jobs RecentJobs lists

Watchers == Shows \cup Acts

ASSUME WatchAssumption ==
    /\ Shows \cap Acts = {}
    /\ Patience \in Nat \ {0}
    /\ Recent \in Nat

VARIABLES
    job,        \* each job in CUPS
    enabled,    \* FALSE when CUPS stopped the queue
    ready,      \* whether Status finds a usable backend
    registered, \* whether CUPS holds the queue at all
    seen,       \* b.jobSeen: ticks since first seen; Unseen if absent
    at,         \* where each watcher is
    target,     \* what an acting watcher was asked to do, with which job
    sReady,     \* snapshot: BackendReady (used by Shows only, as sState)
    sJobs,      \* snapshot: Jobs
    sState      \* snapshot: QueueState

cups  == <<job, enabled, ready, registered>>
local == <<at, target, sReady, sJobs, sState>>
watchVars == <<cups, seen, local>>

-----------------------------------------------------------------------------
\* "new": not submitted yet; "gone": canceled, or dropped from the history.
JobStates == {"new", "waiting", "printing", "completed", "gone"}

\* Outside the ages the ledger keeps.
Unseen == Patience + 1

\* What lpstat -W not-completed lists.
Pending == {j \in Jobs : job[j] \in {"waiting", "printing"}}

Completed == {j \in Jobs : job[j] = "completed"}

\* lpstat -p, as parsePrinterState reads it.
PrinterState ==
    IF \E j \in Jobs : job[j] = "printing" THEN "printing"
    ELSE IF enabled THEN "idle" ELSE "disabled"

\* normalizePrinterQueueState.  An unreadable state ("") counts as stalled.
QueueState(state, jobs) ==
    IF jobs = {} THEN "cleared"
    ELSE IF state = "printing" THEN "printing" ELSE "stalled"

\* DiagnoseQueue for a registered printer; aged: OldestJobAgeSec >= stalledAfterSec.
Diagnose(backendReady, jobs, queueState, aged) ==
    IF ~ backendReady THEN "printer_unreachable"
    ELSE IF jobs = {} THEN "ok"
    ELSE IF queueState = "stalled" \/ aged THEN "queue_stalled"
    ELSE "queue_backlog"

WatchTypeOK ==
    /\ job \in [Jobs -> JobStates]
    /\ enabled \in BOOLEAN /\ ready \in BOOLEAN /\ registered \in BOOLEAN
    /\ seen \in [Jobs -> 0 .. Unseen]
    /\ at \in [Watchers -> {"idle", "jobs", "state", "annotate", "recent", "restart", "cancel"}]
    /\ target \in [Acts -> ({"restart", "cancel"} \X Jobs) \cup {<<>>}]
    /\ sReady \in [Watchers -> BOOLEAN]
    /\ sJobs \in [Watchers -> SUBSET Jobs]
    /\ sState \in [Watchers -> {"cleared", "printing", "stalled"}]

WatchInit ==
    /\ job = [j \in Jobs |-> "new"]
    /\ enabled = TRUE /\ ready = TRUE /\ registered = TRUE
    /\ seen = [j \in Jobs |-> Unseen]
    /\ at = [w \in Watchers |-> "idle"]
    /\ target = [w \in Acts |-> <<>>]
    /\ sReady = [w \in Watchers |-> FALSE]
    /\ sJobs = [w \in Watchers |-> {}]
    /\ sState = [w \in Watchers |-> "cleared"]

-----------------------------------------------------------------------------
(***************************************************************************)
(* CUPS, the printer and staff.                                            *)
(***************************************************************************)
Hub == <<seen, local>>

Submit(j) ==
    /\ registered /\ job[j] = "new"
    /\ job' = [job EXCEPT ![j] = "waiting"]
    /\ UNCHANGED <<enabled, ready, registered, Hub>>

Start(j) ==
    /\ enabled /\ job[j] = "waiting" /\ \A k \in Jobs : job[k] # "printing"
    /\ job' = [job EXCEPT ![j] = "printing"]
    /\ UNCHANGED <<enabled, ready, registered, Hub>>

Finish(j) ==
    /\ job[j] = "printing" /\ ready
    /\ job' = [job EXCEPT ![j] = "completed"]
    /\ UNCHANGED <<enabled, ready, registered, Hub>>

\* The backend fails and CUPS stops the queue, the job still in it.
Stall(j) ==
    /\ job[j] = "printing"
    /\ job' = [job EXCEPT ![j] = "waiting"]
    /\ enabled' = FALSE
    /\ UNCHANGED <<ready, registered, Hub>>

Enable ==
    /\ ~ enabled
    /\ enabled' = TRUE
    /\ UNCHANGED <<job, ready, registered, Hub>>

\* Somebody cancels the job, or CUPS drops it from its history.
Drop(j) ==
    /\ job[j] \in {"waiting", "printing", "completed"}
    /\ job' = [job EXCEPT ![j] = "gone"]
    /\ UNCHANGED <<enabled, ready, registered, Hub>>

Replug ==
    /\ ready' = ~ ready
    /\ UNCHANGED <<job, enabled, registered, Hub>>

\* The queue is deleted, with its jobs, or created again.
Register ==
    /\ registered' = ~ registered
    /\ job' = [j \in Jobs |-> IF job[j] = "new" THEN "new" ELSE "gone"]
    /\ UNCHANGED <<enabled, ready, Hub>>

Older(age) == IF age < Patience THEN age + 1 ELSE age

Tick ==
    /\ seen' = [j \in Jobs |-> IF seen[j] = Unseen THEN Unseen ELSE Older(seen[j])]
    /\ UNCHANGED <<cups, local>>

-----------------------------------------------------------------------------
(***************************************************************************)
(* QueueSnapshot.                                                          *)
(***************************************************************************)
\* Return to idle, forgetting what was read.
Leave(w) ==
    /\ at' = [at EXCEPT ![w] = "idle"]
    /\ target' = IF w \in Acts THEN [target EXCEPT ![w] = <<>>] ELSE target
    /\ sReady' = [sReady EXCEPT ![w] = FALSE]
    /\ sJobs' = [sJobs EXCEPT ![w] = {}]
    /\ sState' = [sState EXCEPT ![w] = "cleared"]

\* GET /printer/queue: Status finds the printer and looks at its backend.  Without
\* a queue the snapshot is empty, printer_missing, and the ledger is not looked at:
\* nothing changes, and a request that acts finds no job.
Status(w) ==
    /\ at[w] = "idle" /\ registered
    /\ at' = [at EXCEPT ![w] = "jobs"]
    /\ sReady' = [sReady EXCEPT ![w] = ready]
    /\ UNCHANGED <<cups, seen, target, sJobs, sState>>

\* A request that acts names a job, which may have left the queue long ago.
Ask(w, deed, j) ==
    /\ at[w] = "idle" /\ registered
    /\ at' = [at EXCEPT ![w] = "jobs"]
    /\ target' = [target EXCEPT ![w] = <<deed, j>>]
    /\ UNCHANGED <<cups, seen, sReady, sJobs, sState>>

\* DELETE /printer/jobs/{id}.
AskCancel(w, j) == Ask(w, "cancel", j)

\* POST /printer/jobs/{id}/restart.
AskRestart(w, j) == Ask(w, "restart", j)

ReadJobs(w) ==
    /\ at[w] = "jobs" /\ registered
    /\ at' = [at EXCEPT ![w] = "state"]
    /\ sJobs' = [sJobs EXCEPT ![w] = Pending]
    /\ UNCHANGED <<cups, seen, target, sReady, sState>>

\* lpstat fails: the whole snapshot does.
JobsUnreadable(w) ==
    /\ at[w] = "jobs"
    /\ Leave(w)
    /\ UNCHANGED <<cups, seen>>

\* The printer's state, and from it and the jobs read before the queue's.  A
\* backend that was not ready makes it stalled.
ReadState(w) ==
    /\ at[w] = "state"
    /\ \E state \in {PrinterState, ""} :
           sState' = [sState EXCEPT ![w] =
                        IF ~ sReady[w] /\ sJobs[w] # {} THEN "stalled"
                        ELSE QueueState(state, sJobs[w])]
    /\ at' = [at EXCEPT ![w] = "annotate"]
    /\ UNCHANGED <<cups, seen, target, sReady, sJobs>>

\* A request that acts makes nothing of the state it reads.
SkipState(w) ==
    /\ at[w] = "state"
    /\ at' = [at EXCEPT ![w] = "annotate"]
    /\ UNCHANGED <<cups, seen, target, sReady, sJobs, sState>>

\* Mutant: what has left the queue is not forgotten.
AnnotatedKeeping(jobs) ==
    [j \in Jobs |-> IF j \in jobs /\ seen[j] = Unseen THEN 0 ELSE seen[j]]

\* Mutant: a job that is still waiting is first seen again by every snapshot.
AnnotatedAnew(jobs) == [j \in Jobs |-> IF j \in jobs THEN 0 ELSE Unseen]

\* annotateJobAges on the ledger: what is listed and unknown is first seen now,
\* what is not listed is forgotten.
Annotated(jobs) ==
    [j \in Jobs |-> IF j \notin jobs THEN Unseen
                    ELSE IF seen[j] = Unseen THEN 0 ELSE seen[j]]

\* What DiagnoseQueue makes of the snapshot once its ages are looked up.
Diagnosis(w) ==
    Diagnose(sReady[w], sJobs[w], sState[w],
             \E j \in sJobs[w] : Annotated(sJobs[w])[j] = Patience)

\* The snapshot is complete: its ages are looked up, and the Diagnosis is sent.
Show(w) ==
    /\ at[w] = "annotate"
    /\ seen' = Annotated(sJobs[w])
    /\ Leave(w)
    /\ UNCHANGED cups

\* The same for a request that acts; where it goes on is told by the caller.
Looked(w, then) ==
    /\ at[w] = "annotate"
    /\ seen' = Annotated(sJobs[w])
    /\ at' = [at EXCEPT ![w] = then]
    /\ UNCHANGED <<cups, target, sReady, sJobs, sState>>

\* CancelJob and jobBelongsToPrinter find the job in the snapshot, ...
Find(w) == target[w][2] \in sJobs[w] /\ Looked(w, target[w][1])

\* ... a restart looks among the completed ones next, ...
FindLater(w) ==
    target[w][2] \notin sJobs[w] /\ target[w][1] = "restart" /\ Looked(w, "recent")

\* ... and a cancel is refused.
NotFound(w) ==
    /\ at[w] = "annotate"
    /\ target[w][1] = "cancel" /\ target[w][2] \notin sJobs[w]
    /\ seen' = Annotated(sJobs[w])
    /\ Leave(w)
    /\ UNCHANGED cups

\* RecentJobs, the newest Recent of the completed jobs in some order.
ReadRecent(w) ==
    /\ at[w] = "recent"
    /\ \E shown \in SUBSET Completed :
           /\ Cardinality(shown) <= Recent
           /\ IF target[w][2] \in shown
              THEN /\ at' = [at EXCEPT ![w] = "restart"]
                   /\ UNCHANGED <<target, sReady, sJobs, sState>>
              ELSE Leave(w)
    /\ UNCHANGED <<cups, seen>>

\* lp -i job -H restart: CUPS takes back a completed job, under its old id, and
\* refuses any other.
Restart(w) ==
    /\ at[w] = "restart"
    /\ LET j == target[w][2] IN
       job' = IF job[j] = "completed" THEN [job EXCEPT ![j] = "waiting"] ELSE job
    /\ Leave(w)
    /\ UNCHANGED <<enabled, ready, registered, seen>>

\* cancel -x job.
Cancel(w) ==
    /\ at[w] = "cancel"
    /\ LET j == target[w][2] IN
       job' = IF j \in Pending THEN [job EXCEPT ![j] = "gone"] ELSE job
    /\ Leave(w)
    /\ UNCHANGED <<enabled, ready, registered, seen>>

-----------------------------------------------------------------------------
Snapshot(w) ==
    \/ ReadJobs(w) \/ JobsUnreadable(w)
    \/ w \in Shows /\ ReadState(w)
    \/ w \in Acts /\ SkipState(w)

Queue ==
    \/ \E j \in Jobs : Submit(j) \/ Start(j) \/ Finish(j) \/ Stall(j) \/ Drop(j)
    \/ Enable \/ Replug \/ Register

WatchNext ==
    \/ \E w \in Watchers : Snapshot(w)
    \/ \E w \in Shows : Status(w) \/ Show(w)
    \/ \E w \in Acts, j \in Jobs : AskCancel(w, j) \/ AskRestart(w, j)
    \/ \E w \in Acts : at[w] = "annotate" /\ (Find(w) \/ FindLater(w) \/ NotFound(w))
    \/ \E w \in Acts : ReadRecent(w) \/ Restart(w) \/ Cancel(w)
    \/ Queue \/ Tick

\* A request that was begun is finished, and time passes; that CUPS and those
\* who look at the queue do anything is not assumed.
WatchFairness ==
    /\ WF_watchVars(Tick)
    /\ \A w \in Watchers : WF_watchVars(Snapshot(w))
    /\ \A w \in Shows : WF_watchVars(Show(w))

WatchSpec == WatchInit /\ [][WatchNext]_watchVars
WatchFairSpec == WatchSpec /\ WatchFairness

-----------------------------------------------------------------------------
(***************************************************************************)
(* Properties.                                                             *)
(***************************************************************************)
Blocking == {"printer_missing", "printer_unreachable", "queue_stalled"}

Shown(w) == at[w] = "annotate" /\ at'[w] = "idle"

\* A job that stays in the queue for ever is noticed: from some time on nobody is
\* told that printing is fine or in progress, although snapshots are annotated
\* in another order than the queue was read in, and an old one that misses the
\* job makes the ledger forget it.
StallNoticed ==
    \A j \in Jobs :
        <>[](j \in Pending) /\ []<>(\E w \in Shows : at[w] = "annotate")
            => <>[][\A w \in Shows : Shown(w) => Diagnosis(w) \in Blocking]_watchVars

\* The ledger stays the size of the backlog: a job that is out of the queue for
\* good is forgotten as long as snapshots are taken, although one that listed
\* it may be annotated after one that did not.
LedgerForgets ==
    \A j \in Jobs :
        <>[](j \notin Pending) /\ []<>(\E w \in Shows : at[w] = "annotate")
            => <>[](seen[j] = Unseen)
=============================================================================
