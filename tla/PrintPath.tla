----------------------------- MODULE PrintPath -----------------------------
(***************************************************************************)
(* The way of a label from POST /printer/print to the printer: requests    *)
(* that hold the printer mutex, submit a job to the CUPS queue and wait    *)
(* for it (internal/printer), the CUPS scheduler, the rakuql backend and   *)
(* the result file it leaves for the hub (internal/printer/qlbackend), and *)
(* the operators who cancel jobs meanwhile.  Sending a job is Delivery.    *)
(*                                                                         *)
(* A request submits at most one job, so the job has the request's name.   *)
(* Deadlines are not clocked: a wait may end at any poll.                  *)
(***************************************************************************)
EXTENDS Delivery

CONSTANTS
    Tests,      \* the requests that are POST /printer/test, a subset of Jobs
    NoJob,      \* a value that is not a job
    Faults      \* what may go wrong around the hub, a subset of Hazards

\* "keep": CUPS keeps a failed job and stops the queue; "cups": lpstat and lp
\* fail at times; "cable": the printer goes off the USB bus; "opener": another
\* process has the printer open.
Hazards == {"keep", "cups", "cable", "opener"}

ASSUME PathAssumption ==
    /\ Tests \subseteq Jobs
    /\ NoJob \notin Jobs
    /\ Faults \subseteq Hazards

VARIABLES
    pc,       \* where each request is in PrintLabel or TestPrint
    mutex,    \* the request that holds Brother.mu, or NoJob
    answer,   \* what the tablet was told
    queue,    \* the jobs CUPS lists as not completed
    stopped,  \* whether CUPS stopped the queue
    backend,  \* what the backend process does
    current,  \* the job it runs for
    signaled, \* jobs that CUPS canceled (SIGTERM to a running backend)
    result,   \* the result files
    readable, \* whether CUPS answers lpstat
    node      \* the printer's usblp node: "free", "busy" or "absent"

requests == <<pc, mutex, answer>>
cups     == <<queue, stopped, readable, signaled>>
process  == <<backend, current, result>>
vars     == <<delivery, requests, cups, process, node>>

Answers == {"none", "refused", "unreadable", "pending", "sent", "printed",
            "unconfirmed", "failed", "canceled", "testOk"}

TypeOK ==
    /\ DeliveryTypeOK
    /\ pc \in [Jobs -> {"idle", "lock", "status", "submit", "wait", "confirm", "done"}]
    /\ mutex \in Jobs \cup {NoJob}
    /\ answer \in [Jobs -> Answers]
    /\ queue \subseteq Jobs
    /\ stopped \in BOOLEAN
    /\ backend \in {"idle", "open", "send", "sending", "write", "exit"}
    /\ current \in Jobs \cup {NoJob}
    /\ signaled \subseteq Jobs
    /\ result \in [Jobs -> Outcomes \cup {"none"}]
    /\ readable \in BOOLEAN
    /\ node \in {"free", "busy", "absent"}

Init ==
    /\ DeliveryInit
    /\ pc = [r \in Jobs |-> "idle"]
    /\ mutex = NoJob
    /\ answer = [r \in Jobs |-> "none"]
    /\ queue = {}
    /\ stopped = FALSE
    /\ backend = "idle"
    /\ current = NoJob
    /\ signaled = {}
    /\ result = [r \in Jobs |-> "none"]
    /\ readable = TRUE
    /\ node = "free"

-----------------------------------------------------------------------------
(***************************************************************************)
(* A print request.                                                        *)
(***************************************************************************)
Goto(r, label) == pc' = [pc EXCEPT ![r] = label]

\* TestPrint drops the PrintResult and keeps the error.
Told(r, a) ==
    IF r \in Tests /\ a \in {"sent", "printed", "pending", "unconfirmed"} THEN "testOk" ELSE a

\* Return: the deferred unlock runs and the tablet is answered.
Return(r, a) ==
    /\ Goto(r, "done")
    /\ answer' = [answer EXCEPT ![r] = Told(r, a)]
    /\ mutex' = NoJob

Arrive(r) ==
    /\ pc[r] = "idle"
    /\ Goto(r, "lock")
    /\ UNCHANGED <<delivery, mutex, answer, cups, process, node>>

Lock(r) ==
    /\ pc[r] = "lock" /\ mutex = NoJob
    /\ mutex' = r
    /\ Goto(r, "status")
    /\ UNCHANGED <<delivery, answer, cups, process, node>>

\* Status and validateStatus: CUPS knows the queue and its printer is on USB.
StatusReady(r) ==
    /\ pc[r] = "status"
    /\ readable /\ node # "absent"
    /\ Goto(r, "submit")
    /\ UNCHANGED <<delivery, mutex, answer, cups, process, node>>

StatusRefuses(r) ==
    /\ pc[r] = "status"
    /\ ~ readable \/ node = "absent"
    /\ Return(r, "refused")
    /\ UNCHANGED <<delivery, cups, process, node>>

\* Rendering, encoding, the temporary file or lp fails.
SubmitRefused(r) ==
    /\ pc[r] = "submit"
    /\ Return(r, "refused")
    /\ UNCHANGED <<delivery, cups, process, node>>

\* lp queues the job.
Submit(r) ==
    /\ pc[r] = "submit" /\ readable
    /\ queue' = queue \cup {r}
    /\ Goto(r, "wait")
    /\ UNCHANGED <<delivery, mutex, answer, stopped, readable, signaled, process, node>>

\* lp queues the job and its output shows no "request id is".
SubmitUntold(r) ==
    /\ pc[r] = "submit" /\ readable
    /\ queue' = queue \cup {r}
    /\ Return(r, "sent")
    /\ UNCHANGED <<delivery, stopped, readable, signaled, process, node>>

\* waitForQueueJob: a poll does not find the job.
PollGone(r) ==
    /\ pc[r] = "wait"
    /\ readable /\ r \notin queue
    /\ Goto(r, "confirm")
    /\ UNCHANGED <<delivery, mutex, answer, cups, process, node>>

\* Mutant: no deadline.
PollAgain(r) ==
    /\ pc[r] = "wait"
    /\ readable /\ r \in queue
    /\ UNCHANGED <<delivery, requests, cups, process, node>>

\* The deadline, with the job still in the queue.
PollDeadline(r) ==
    /\ pc[r] = "wait"
    /\ readable /\ r \in queue
    /\ Return(r, "pending")
    /\ UNCHANGED <<delivery, cups, process, node>>

\* The deadline, and the queue could not be read.
PollUnreadable(r) ==
    /\ pc[r] = "wait"
    /\ ~ readable
    /\ Return(r, "unreadable")
    /\ UNCHANGED <<delivery, cups, process, node>>

\* confirmWithPrinter finds the backend's result.
ConfirmFound(r) ==
    /\ pc[r] = "confirm"
    /\ result[r] # "none"
    /\ Return(r, result[r])
    /\ UNCHANGED <<delivery, cups, process, node>>

\* Mutant: a job that left the queue is taken for a printed one.
ConfirmTrusting(r) ==
    /\ pc[r] = "confirm"
    /\ result[r] = "none"
    /\ Return(r, "printed")
    /\ UNCHANGED <<delivery, cups, process, node>>

\* No result within three seconds: the CUPS state is all there is to tell.
ConfirmMissing(r) ==
    /\ pc[r] = "confirm"
    /\ result[r] = "none"
    /\ Return(r, "sent")
    /\ UNCHANGED <<delivery, cups, process, node>>

Handle(r) ==
    \/ StatusReady(r) \/ StatusRefuses(r) \/ SubmitRefused(r) \/ Submit(r) \/ SubmitUntold(r)
    \/ PollGone(r) \/ PollDeadline(r) \/ PollUnreadable(r)
    \/ ConfirmFound(r) \/ ConfirmMissing(r)

-----------------------------------------------------------------------------
(***************************************************************************)
(* CUPS and the backend.                                                   *)
(***************************************************************************)
\* CUPS runs the backend for a queued job, in whatever order; a job it kept
\* starts over.
StartJob ==
    /\ backend = "idle" /\ ~ stopped
    /\ \E j \in queue :
          /\ current' = j
          /\ held' = [held EXCEPT ![j] = 0]
          /\ out' = [out EXCEPT ![j] = 0]
          /\ lost' = [lost EXCEPT ![j] = FALSE]
          /\ outcome' = [outcome EXCEPT ![j] = "none"]
    /\ backend' = "open"
    /\ UNCHANGED <<requests, cups, result, node>>

\* openWithRetry gets the printer.
OpenDevice ==
    /\ backend = "open" /\ node = "free"
    /\ backend' = "send"
    /\ UNCHANGED <<delivery, requests, cups, current, result, node>>

\* The backend reports a failure before it has the printer.
FailUnsent ==
    /\ backend = "open"
    /\ outcome' = [outcome EXCEPT ![current] = "failed"]
    /\ backend' = "write"
    /\ UNCHANGED <<held, out, lost, requests, cups, current, result, node>>

\* Mutant: another opener is waited for without a deadline.
OpenWaits == node = "absent" /\ FailUnsent

\* openWithRetry does not, for openWait (absent) or busyWait (busy).
OpenFails == node # "free" /\ FailUnsent

\* The job's data cannot be read or is no raster data.
DataUnreadable == FailUnsent

\* preflight resets the printer: it drops what earlier jobs left there.
SendResets ==
    /\ backend = "send"
    /\ IF lost[current] THEN UNCHANGED delivery ELSE Drop(Jobs \ {current})
    /\ backend' = "sending"
    /\ UNCHANGED <<requests, cups, current, result, node>>

\* Send writes on, unless the job was canceled.
SendTakes ==
    /\ backend = "sending" /\ current \notin signaled
    /\ Take(current)
    /\ UNCHANGED <<requests, cups, process, node>>

\* Mutant: a canceled job is reported before the printer is reset.
SendConcludesFirst ==
    /\ backend = "sending"
    /\ \E o \in Outcomes :
           /\ o = "canceled" => current \in signaled
           /\ o = "printed" => out[current] = Labels
           /\ outcome' = [outcome EXCEPT ![current] = o]
    /\ backend' = "write"
    /\ UNCHANGED <<held, out, lost, requests, cups, current, result, node>>

\* Send returns.
SendConcludes ==
    /\ backend = "sending"
    /\ \E o \in Outcomes :
           /\ o = "canceled" => current \in signaled
           /\ Conclude(current, o)
    /\ backend' = "write"
    /\ UNCHANGED <<requests, cups, current, result, node>>

\* WriteResult, by a rename.
WriteResult ==
    /\ backend = "write"
    /\ result' = [result EXCEPT ![current] = outcome[current]]
    /\ backend' = "exit"
    /\ UNCHANGED <<delivery, requests, cups, current, node>>

\* WriteResult fails, which is only logged.
WriteResultFails ==
    /\ backend = "write"
    /\ backend' = "exit"
    /\ UNCHANGED <<delivery, requests, cups, current, result, node>>

\* The backend exits and CUPS drops the job, or keeps a failed one and
\* stops the queue, by the queue's error policy.
BackendExits ==
    /\ backend = "exit"
    /\ backend' = "idle" /\ current' = NoJob
    /\ \/ /\ queue' = queue \ {current}
          /\ UNCHANGED stopped
       \/ /\ "keep" \in Faults /\ outcome[current] = "failed" /\ current \in queue
          /\ stopped' = TRUE
          /\ UNCHANGED queue
    /\ UNCHANGED <<delivery, requests, readable, signaled, result, node>>

Opening == OpenDevice \/ OpenFails
Backend == StartJob \/ Opening \/ DataUnreadable \/ SendResets \/ SendTakes \/ SendConcludes
           \/ WriteResult \/ WriteResultFails \/ BackendExits

-----------------------------------------------------------------------------
(***************************************************************************)
(* Operators.                                                              *)
(***************************************************************************)
\* CancelJob: the job is in the snapshot, and cancel -x drops it at once; CUPS
\* signals the backend that runs it.
CancelJob(j) ==
    /\ readable /\ j \in queue
    /\ queue' = queue \ {j}
    /\ signaled' = signaled \cup {j}
    /\ UNCHANGED <<delivery, requests, stopped, readable, process, node>>

\* DELETE /printer/queue: cancel -a.  While lpstat fails, Status's error is
\* dropped, nothing is canceled and the answer is "cleared" all the same.
ClearQueue ==
    /\ readable
    /\ queue' = {}
    /\ signaled' = signaled \cup queue
    /\ UNCHANGED <<delivery, requests, stopped, readable, process, node>>

\* cupsenable, or CUPS restarted: a stopped queue runs again.
EnableQueue ==
    /\ stopped
    /\ stopped' = FALSE
    /\ UNCHANGED <<delivery, requests, queue, readable, signaled, process, node>>

-----------------------------------------------------------------------------
(***************************************************************************)
(* CUPS, the cable and the printer.                                        *)
(***************************************************************************)
\* lpstat fails for a while.
CupsFails ==
    /\ "cups" \in Faults /\ readable
    /\ readable' = FALSE
    /\ UNCHANGED <<delivery, requests, queue, stopped, signaled, process, node>>

CupsRecovers ==
    /\ ~ readable
    /\ readable' = TRUE
    /\ UNCHANGED <<delivery, requests, queue, stopped, signaled, process, node>>

\* Another process opens the printer, when the backend has not, or closes it.
OpenerToggles ==
    /\ "opener" \in Faults
    /\ \/ node = "free" /\ backend \notin {"send", "sending"} /\ node' = "busy"
       \/ node = "busy" /\ node' = "free"
    /\ UNCHANGED <<delivery, requests, cups, process>>

\* The printer goes off the bus; a job that is being sent loses it.
Cut ==
    /\ "cable" \in Faults
    /\ node # "absent" /\ node' = "absent"
    /\ IF backend \in {"send", "sending"} THEN Lose(current) ELSE UNCHANGED delivery
    /\ UNCHANGED <<requests, cups, process>>

Replug ==
    /\ node = "absent" /\ backend \notin {"send", "sending"}
    /\ node' = "free"
    /\ UNCHANGED <<delivery, requests, cups, process>>

\* A label comes out.
LabelOut(j) ==
    /\ ComeOut(j)
    /\ UNCHANGED <<requests, cups, process, node>>

-----------------------------------------------------------------------------
Operators == ClearQueue \/ EnableQueue \/ \E j \in Jobs : CancelJob(j)

Environment == \/ CupsFails \/ CupsRecovers \/ OpenerToggles \/ Cut \/ Replug
               \/ \E j \in Jobs : LabelOut(j)

Next == \/ \E r \in Jobs : Arrive(r) \/ Lock(r) \/ Handle(r)
        \/ Backend \/ Operators \/ Environment

\* Handlers run on (every exec.Command returns), Go's mutex hands over to the
\* longest waiter, CUPS starts jobs and reaps backends, and Send returns
\* (QLSender!SendEnds).  Tablets, operators, CUPS's health and the printer are
\* not fair.
Fairness ==
    /\ \A r \in Jobs : SF_vars(Lock(r)) /\ WF_vars(Handle(r))
    /\ WF_vars(StartJob) /\ WF_vars(Opening)
    /\ WF_vars(SendResets) /\ WF_vars(SendConcludes)
    /\ WF_vars(WriteResult \/ WriteResultFails) /\ WF_vars(BackendExits)

Spec == Init /\ [][Next]_vars /\ Fairness

-----------------------------------------------------------------------------
(***************************************************************************)
(* Properties.                                                             *)
(***************************************************************************)
Done == {"sent", "printed"}

\* "Printed" reaches the tablet only when every label of that job came out.
PrintedIsTrue == \A r \in Jobs : answer[r] = "printed" => out[r] = Labels

\* After the tablet was told that the job failed or was canceled, no label of
\* it comes out, unless the link to the printer was lost under it.
FailedIsFinal ==
    [][\A r \in Jobs : answer[r] \in {"failed", "canceled"} /\ ~ lost[r] => out'[r] = out[r]]_vars

\* Every print request is answered, however CUPS and the printer behave.
EveryRequestAnswered == \A r \in Jobs : pc[r] = "lock" ~> pc[r] = "done"

\* A job does not stay in the queue for good, unless CUPS stopped the queue
\* over a failed job.
JobsLeave == \A j \in Jobs : j \in queue ~> j \notin queue \/ stopped

\* raw.go:210: the tablet shows "done" as 印刷しました; a job canceled before its
\* labels came out must not be answered so.
CanceledIsNotDone ==
    [][\A r \in Jobs : answer[r] = "none" /\ answer'[r] \in Done /\ r \in signaled
                           => out[r] = Labels]_vars
=============================================================================
