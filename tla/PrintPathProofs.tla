-------------------------- MODULE PrintPathProofs --------------------------
(***************************************************************************)
(* What TLAPS proves about the print path, for any number of requests and  *)
(* of labels in a job.                                                     *)
(***************************************************************************)
EXTENDS PrintPath, TLAPS

-----------------------------------------------------------------------------
(***************************************************************************)
(* The inductive invariant behind "printed".                               *)
(***************************************************************************)
\* A job has no more labels than it has.
Bounded == \A j \in Jobs : held[j] + out[j] <= Labels

\* A running backend runs for a job, and has not reported it before it writes
\* the result.
Running ==
    /\ backend # "idle" => current \in Jobs
    /\ backend \in {"open", "send", "sending"} => outcome[current] = "none"

\* A request that has not come to lp is unknown to CUPS and to the backend.
NotSubmitted ==
    \A r \in Jobs : pc[r] \in {"idle", "lock", "status", "submit"} =>
        /\ r \notin queue /\ current # r
        /\ outcome[r] = "none" /\ result[r] = "none"

\* A result file says "printed" only if Send did, and Send only if all came out.
ResultTrue ==
    \A j \in Jobs :
        /\ result[j] = "printed" => outcome[j] = "printed"
        /\ outcome[j] = "printed" => out[j] = Labels

\* A printed job stays in the queue only until its backend has exited, so CUPS
\* never runs it again.
PrintedLeaves ==
    \A j \in queue : outcome[j] = "printed" => current = j /\ backend \in {"write", "exit"}

\* A request looks for the result only after its job left the queue.
AnswerTrue ==
    \A r \in Jobs :
        /\ pc[r] = "confirm" => r \notin queue
        /\ answer[r] = "printed" => pc[r] = "done" /\ r \notin queue /\ outcome[r] = "printed"

PathInv == TypeOK /\ Bounded /\ Running /\ NotSubmitted /\ ResultTrue /\ PrintedLeaves /\ AnswerTrue

-----------------------------------------------------------------------------
\* Every step of a request, CUPS, the backend, an operator and the printer keeps
\* the invariant.
LEMMA PathStep ==
    ASSUME PathInv, [Next]_vars
    PROVE  PathInv'
<1> USE PathAssumption, LabelsAssumption
    DEF Goto, delivery, requests, cups, process, Outcomes, Answers
<1>t. TypeOK BY DEF PathInv
<1>b. Bounded BY DEF PathInv
<1>r. Running BY DEF PathInv
<1>n. NotSubmitted BY DEF PathInv
<1>u. ResultTrue BY DEF PathInv
<1>l. PrintedLeaves BY DEF PathInv
<1>a. AnswerTrue BY DEF PathInv
<1>1. ASSUME NEW r \in Jobs, Arrive(r) \/ Lock(r) \/ Handle(r) PROVE PathInv'
  <2>1. TypeOK'
    BY <1>t, <1>b, <1>r, <1>1
    DEF TypeOK, DeliveryTypeOK, Bounded, Running, Arrive, Lock, Handle,
        StatusReady, StatusRefuses, SubmitRefused, Submit, SubmitUntold,
        PollGone, PollDeadline, PollUnreadable, ConfirmFound, ConfirmMissing,
        Told, Return
  <2>2. NotSubmitted'
    BY <1>t, <1>r, <1>n, <1>1
    DEF TypeOK, DeliveryTypeOK, Running, NotSubmitted, Arrive, Lock, Handle,
        StatusReady, StatusRefuses, SubmitRefused, Submit, SubmitUntold,
        PollGone, PollDeadline, PollUnreadable, ConfirmFound, ConfirmMissing,
        Told, Return
  <2>3. PrintedLeaves'
    BY <1>t, <1>r, <1>n, <1>l, <1>1
    DEF TypeOK, DeliveryTypeOK, Running, NotSubmitted, PrintedLeaves, Arrive,
        Lock, Handle, StatusReady, StatusRefuses, SubmitRefused, Submit,
        SubmitUntold, PollGone, PollDeadline, PollUnreadable, ConfirmFound,
        ConfirmMissing, Told, Return
  <2>4. AnswerTrue'
    BY <1>t, <1>r, <1>u, <1>a, <1>1
    DEF TypeOK, DeliveryTypeOK, Running, ResultTrue, AnswerTrue, Arrive, Lock,
        Handle, StatusReady, StatusRefuses, SubmitRefused, Submit,
        SubmitUntold, PollGone, PollDeadline, PollUnreadable, ConfirmFound,
        ConfirmMissing, Told, Return
  <2>5. Bounded' /\ Running' /\ ResultTrue'
    BY <1>t, <1>b, <1>r, <1>u, <1>1
    DEF TypeOK, DeliveryTypeOK, Bounded, Running, ResultTrue, Arrive, Lock,
        Handle, StatusReady, StatusRefuses, SubmitRefused, Submit,
        SubmitUntold, PollGone, PollDeadline, PollUnreadable, ConfirmFound,
        ConfirmMissing, Told, Return
  <2> QED
    BY <2>1, <2>2, <2>3, <2>4, <2>5 DEF PathInv
<1>2. CASE StartJob
  <2>1. TypeOK'
    BY <1>t, <1>b, <1>r, <1>2
    DEF TypeOK, DeliveryTypeOK, Bounded, Running, StartJob
  <2>2. Bounded'
    BY <1>t, <1>b, <1>r, <1>2
    DEF TypeOK, DeliveryTypeOK, Bounded, Running, StartJob
  <2>3. Running'
    BY <1>t, <1>r, <1>2
    DEF TypeOK, DeliveryTypeOK, Running, StartJob
  <2>4. NotSubmitted'
    BY <1>t, <1>r, <1>n, <1>2
    DEF TypeOK, DeliveryTypeOK, Running, NotSubmitted, StartJob
  <2>5. ResultTrue'
    BY <1>t, <1>b, <1>r, <1>u, <1>l, <1>2
    DEF TypeOK, DeliveryTypeOK, Bounded, Running, ResultTrue, PrintedLeaves,
        StartJob
  <2>6. PrintedLeaves'
    BY <1>t, <1>r, <1>n, <1>l, <1>2
    DEF TypeOK, DeliveryTypeOK, Running, NotSubmitted, PrintedLeaves, StartJob
  <2>7. AnswerTrue'
    BY <1>t, <1>r, <1>u, <1>a, <1>2
    DEF TypeOK, DeliveryTypeOK, Running, ResultTrue, AnswerTrue, StartJob
  <2> QED
    BY <2>1, <2>2, <2>3, <2>4, <2>5, <2>6, <2>7 DEF PathInv
<1>3. CASE OpenDevice
  <2>1. TypeOK'
    BY <1>t, <1>b, <1>r, <1>3
    DEF TypeOK, DeliveryTypeOK, Bounded, Running, OpenDevice
  <2>2. Running'
    BY <1>t, <1>r, <1>3
    DEF TypeOK, DeliveryTypeOK, Running, OpenDevice
  <2>3. PrintedLeaves'
    BY <1>t, <1>r, <1>n, <1>l, <1>3
    DEF TypeOK, DeliveryTypeOK, Running, NotSubmitted, PrintedLeaves,
        OpenDevice
  <2>4. Bounded' /\ NotSubmitted' /\ ResultTrue' /\ AnswerTrue'
    BY <1>t, <1>b, <1>r, <1>n, <1>u, <1>a, <1>3
    DEF Running, TypeOK, DeliveryTypeOK, Bounded, NotSubmitted, ResultTrue,
        AnswerTrue, OpenDevice
  <2> QED
    BY <2>1, <2>2, <2>3, <2>4 DEF PathInv
<1>4. CASE OpenFails \/ DataUnreadable
  <2>1. TypeOK'
    BY <1>t, <1>b, <1>r, <1>4
    DEF TypeOK, DeliveryTypeOK, Bounded, Running, OpenFails, DataUnreadable,
        FailUnsent
  <2>2. Running'
    BY <1>t, <1>r, <1>4
    DEF TypeOK, DeliveryTypeOK, Running, OpenFails, DataUnreadable, FailUnsent
  <2>3. NotSubmitted'
    BY <1>t, <1>r, <1>n, <1>4
    DEF TypeOK, DeliveryTypeOK, Running, NotSubmitted, OpenFails,
        DataUnreadable, FailUnsent
  <2>4. ResultTrue'
    BY <1>t, <1>b, <1>r, <1>u, <1>l, <1>4
    DEF TypeOK, DeliveryTypeOK, Bounded, Running, ResultTrue, PrintedLeaves,
        OpenFails, DataUnreadable, FailUnsent
  <2>5. PrintedLeaves'
    BY <1>t, <1>r, <1>n, <1>l, <1>4
    DEF TypeOK, DeliveryTypeOK, Running, NotSubmitted, PrintedLeaves,
        OpenFails, DataUnreadable, FailUnsent
  <2>6. AnswerTrue'
    BY <1>t, <1>r, <1>u, <1>a, <1>4
    DEF TypeOK, DeliveryTypeOK, Running, ResultTrue, AnswerTrue, OpenFails,
        DataUnreadable, FailUnsent
  <2>7. Bounded'
    BY <1>t, <1>b, <1>r, <1>4
    DEF Running, TypeOK, DeliveryTypeOK, Bounded, OpenFails, DataUnreadable,
        FailUnsent
  <2> QED
    BY <2>1, <2>2, <2>3, <2>4, <2>5, <2>6, <2>7 DEF PathInv
<1>5. CASE SendResets
  <2>1. TypeOK'
    BY <1>t, <1>b, <1>r, <1>5
    DEF TypeOK, DeliveryTypeOK, Bounded, Running, SendResets, Drop
  <2>2. Bounded'
    BY <1>t, <1>b, <1>r, <1>5
    DEF TypeOK, DeliveryTypeOK, Bounded, Running, SendResets, Drop
  <2>3. Running'
    BY <1>t, <1>r, <1>5
    DEF TypeOK, DeliveryTypeOK, Running, SendResets, Drop
  <2>4. PrintedLeaves'
    BY <1>t, <1>r, <1>n, <1>l, <1>5
    DEF TypeOK, DeliveryTypeOK, Running, NotSubmitted, PrintedLeaves,
        SendResets, Drop
  <2>5. NotSubmitted' /\ ResultTrue' /\ AnswerTrue'
    BY <1>t, <1>r, <1>n, <1>u, <1>a, <1>5
    DEF Running, TypeOK, DeliveryTypeOK, NotSubmitted, ResultTrue, AnswerTrue,
        SendResets, Drop
  <2> QED
    BY <2>1, <2>2, <2>3, <2>4, <2>5 DEF PathInv
<1>6. CASE SendTakes
  <2>1. TypeOK'
    BY <1>t, <1>b, <1>r, <1>6
    DEF TypeOK, DeliveryTypeOK, Bounded, Running, SendTakes, Take
  <2>2. Bounded'
    BY <1>t, <1>b, <1>r, <1>6
    DEF TypeOK, DeliveryTypeOK, Bounded, Running, SendTakes, Take
  <2>3. Running' /\ NotSubmitted' /\ ResultTrue' /\ PrintedLeaves' /\ AnswerTrue'
    BY <1>t, <1>r, <1>n, <1>u, <1>l, <1>a, <1>6
    DEF TypeOK, DeliveryTypeOK, Running, NotSubmitted, ResultTrue,
        PrintedLeaves, AnswerTrue, SendTakes, Take
  <2> QED
    BY <2>1, <2>2, <2>3 DEF PathInv
<1>7. CASE SendConcludes
  <2>1. TypeOK'
    BY <1>t, <1>b, <1>r, <1>7
    DEF TypeOK, DeliveryTypeOK, Bounded, Running, SendConcludes, Conclude
  <2>2. Bounded'
    BY <1>t, <1>b, <1>r, <1>7
    DEF TypeOK, DeliveryTypeOK, Bounded, Running, SendConcludes, Conclude
  <2>3. Running'
    BY <1>t, <1>r, <1>7
    DEF TypeOK, DeliveryTypeOK, Running, SendConcludes, Conclude
  <2>4. NotSubmitted'
    BY <1>t, <1>r, <1>n, <1>7
    DEF TypeOK, DeliveryTypeOK, Running, NotSubmitted, SendConcludes, Conclude
  <2>5. ResultTrue'
    BY <1>t, <1>b, <1>r, <1>u, <1>l, <1>7
    DEF TypeOK, DeliveryTypeOK, Bounded, Running, ResultTrue, PrintedLeaves,
        SendConcludes, Conclude
  <2>6. PrintedLeaves'
    BY <1>t, <1>r, <1>n, <1>l, <1>7
    DEF TypeOK, DeliveryTypeOK, Running, NotSubmitted, PrintedLeaves,
        SendConcludes, Conclude
  <2>7. AnswerTrue'
    BY <1>t, <1>r, <1>u, <1>a, <1>7
    DEF TypeOK, DeliveryTypeOK, Running, ResultTrue, AnswerTrue,
        SendConcludes, Conclude
  <2> QED
    BY <2>1, <2>2, <2>3, <2>4, <2>5, <2>6, <2>7 DEF PathInv
<1>8. CASE WriteResult \/ WriteResultFails
  <2>1. TypeOK'
    BY <1>t, <1>b, <1>r, <1>8
    DEF TypeOK, DeliveryTypeOK, Bounded, Running, WriteResult,
        WriteResultFails
  <2>2. NotSubmitted'
    BY <1>t, <1>r, <1>n, <1>8
    DEF TypeOK, DeliveryTypeOK, Running, NotSubmitted, WriteResult,
        WriteResultFails
  <2>3. ResultTrue'
    BY <1>t, <1>b, <1>r, <1>u, <1>l, <1>8
    DEF TypeOK, DeliveryTypeOK, Bounded, Running, ResultTrue, PrintedLeaves,
        WriteResult, WriteResultFails
  <2>4. PrintedLeaves'
    BY <1>t, <1>r, <1>n, <1>l, <1>8
    DEF TypeOK, DeliveryTypeOK, Running, NotSubmitted, PrintedLeaves,
        WriteResult, WriteResultFails
  <2>5. Bounded' /\ Running' /\ AnswerTrue'
    BY <1>t, <1>b, <1>r, <1>a, <1>8
    DEF TypeOK, DeliveryTypeOK, Bounded, Running, AnswerTrue, WriteResult,
        WriteResultFails
  <2> QED
    BY <2>1, <2>2, <2>3, <2>4, <2>5 DEF PathInv
<1>9. CASE BackendExits
  <2>1. TypeOK'
    BY <1>t, <1>b, <1>r, <1>9
    DEF TypeOK, DeliveryTypeOK, Bounded, Running, BackendExits
  <2>2. Running'
    BY <1>t, <1>r, <1>9
    DEF TypeOK, DeliveryTypeOK, Running, BackendExits
  <2>3. NotSubmitted'
    BY <1>t, <1>r, <1>n, <1>9
    DEF TypeOK, DeliveryTypeOK, Running, NotSubmitted, BackendExits
  <2>4. PrintedLeaves'
    BY <1>t, <1>r, <1>n, <1>l, <1>9
    DEF TypeOK, DeliveryTypeOK, Running, NotSubmitted, PrintedLeaves,
        BackendExits
  <2>5. AnswerTrue'
    BY <1>t, <1>r, <1>u, <1>a, <1>9
    DEF TypeOK, DeliveryTypeOK, Running, ResultTrue, AnswerTrue, BackendExits
  <2>6. Bounded' /\ ResultTrue'
    BY <1>t, <1>b, <1>r, <1>u, <1>9
    DEF Running, TypeOK, DeliveryTypeOK, Bounded, ResultTrue, BackendExits
  <2> QED
    BY <2>1, <2>2, <2>3, <2>4, <2>5, <2>6 DEF PathInv
<1>10. CASE Operators
  <2>1. TypeOK'
    BY <1>t, <1>b, <1>r, <1>10
    DEF TypeOK, DeliveryTypeOK, Bounded, Running, Operators, CancelJob,
        ClearQueue, EnableQueue
  <2>2. NotSubmitted'
    BY <1>t, <1>r, <1>n, <1>10
    DEF TypeOK, DeliveryTypeOK, Running, NotSubmitted, Operators, CancelJob,
        ClearQueue, EnableQueue
  <2>3. PrintedLeaves'
    BY <1>t, <1>r, <1>n, <1>l, <1>10
    DEF TypeOK, DeliveryTypeOK, Running, NotSubmitted, PrintedLeaves,
        Operators, CancelJob, ClearQueue, EnableQueue
  <2>4. AnswerTrue'
    BY <1>t, <1>r, <1>u, <1>a, <1>10
    DEF TypeOK, DeliveryTypeOK, Running, ResultTrue, AnswerTrue, Operators,
        CancelJob, ClearQueue, EnableQueue
  <2>5. Bounded' /\ Running' /\ ResultTrue'
    BY <1>t, <1>b, <1>r, <1>u, <1>10
    DEF TypeOK, DeliveryTypeOK, Bounded, Running, ResultTrue, Operators,
        CancelJob, ClearQueue, EnableQueue
  <2> QED
    BY <2>1, <2>2, <2>3, <2>4, <2>5 DEF PathInv
<1>11. CASE Environment
  <2>1. TypeOK'
    <3>1. CASE Cut
      <4>1. DeliveryTypeOK'
        <5>1. CASE backend \in {"send", "sending"}
          <6>1. Lose(current) /\ current \in Jobs
            BY <1>r, <3>1, <5>1 DEF Running, Cut
          <6>2. PICK h \in {0, held[current]} : held' = [held EXCEPT ![current] = h]
            BY <6>1 DEF Lose
          <6>3. h \in 0 .. Labels
            BY <1>t, <6>1, <6>2 DEF TypeOK, DeliveryTypeOK
          <6> QED
            BY <1>t, <6>1, <6>2, <6>3 DEF TypeOK, DeliveryTypeOK, Lose
        <5>2. CASE backend \notin {"send", "sending"}
          BY <1>t, <3>1, <5>2 DEF TypeOK, DeliveryTypeOK, Cut
        <5> QED
          BY <5>1, <5>2
      <4> QED
        BY <1>t, <3>1, <4>1 DEF TypeOK, Cut
    <3>2. ASSUME NEW j \in Jobs, LabelOut(j) PROVE TypeOK'
      BY <1>t, <1>b, <3>2 DEF TypeOK, DeliveryTypeOK, Bounded, LabelOut, ComeOut
    <3>3. CASE CupsFails \/ CupsRecovers \/ OpenerToggles \/ Replug
      BY <1>t, <3>3
      DEF TypeOK, DeliveryTypeOK, CupsFails, CupsRecovers, OpenerToggles, Replug
    <3> QED
      BY <1>11, <3>1, <3>2, <3>3 DEF Environment
  <2>2. Bounded'
    BY <1>t, <1>b, <1>r, <1>11
    DEF TypeOK, DeliveryTypeOK, Bounded, Running, Environment, CupsFails,
        CupsRecovers, OpenerToggles, Cut, Replug, LabelOut, Lose, ComeOut
  <2>3. ResultTrue'
    BY <1>t, <1>b, <1>r, <1>u, <1>l, <1>11
    DEF TypeOK, DeliveryTypeOK, Bounded, Running, ResultTrue, PrintedLeaves,
        Environment, CupsFails, CupsRecovers, OpenerToggles, Cut, Replug,
        LabelOut, Lose, ComeOut
  <2>4. Running' /\ NotSubmitted' /\ PrintedLeaves' /\ AnswerTrue'
    BY <1>t, <1>r, <1>n, <1>l, <1>a, <1>11
    DEF TypeOK, DeliveryTypeOK, Running, NotSubmitted, PrintedLeaves,
        AnswerTrue, Environment, CupsFails, CupsRecovers, OpenerToggles, Cut,
        Replug, LabelOut, Lose, ComeOut
  <2> QED
    BY <2>1, <2>2, <2>3, <2>4 DEF PathInv
<1>12. CASE UNCHANGED vars
  <2>1. TypeOK' /\ Bounded' /\ Running' /\ NotSubmitted' /\ ResultTrue' /\ PrintedLeaves' /\ AnswerTrue'
    BY <1>t, <1>b, <1>r, <1>n, <1>u, <1>l, <1>a, <1>12
    DEF TypeOK, DeliveryTypeOK, Bounded, Running, NotSubmitted, ResultTrue,
        PrintedLeaves, AnswerTrue, vars
  <2> QED
    BY <2>1 DEF PathInv
<1> QED
  BY <1>1, <1>2, <1>3, <1>4, <1>5, <1>6, <1>7, <1>8, <1>9, <1>10, <1>11, <1>12
  DEF Next, Backend, Opening

\* Nothing is queued, running or answered at first.
LEMMA PathStart == Init => PathInv
<1> SUFFICES ASSUME Init PROVE PathInv
  OBVIOUS
<1> USE PathAssumption, LabelsAssumption DEF Init, DeliveryInit
<1>0. 0 \in 0 .. Labels /\ 0 + 0 <= Labels
  OBVIOUS
<1>1. TypeOK
  <2>1. DeliveryTypeOK
    BY <1>0 DEF DeliveryTypeOK, Outcomes
  <2> QED
    BY <2>1 DEF TypeOK, Answers, Outcomes
<1>2. Bounded
  BY <1>0 DEF Bounded
<1>3. Running /\ PrintedLeaves /\ AnswerTrue
  BY DEF Running, PrintedLeaves, AnswerTrue
<1>4. NotSubmitted
  BY DEF NotSubmitted
<1>5. ResultTrue
  BY DEF ResultTrue
<1> QED
  BY <1>1, <1>2, <1>3, <1>4, <1>5 DEF PathInv

\* The invariant holds in every execution.
LEMMA PathInvariant == Spec => []PathInv
<1>1. PathInv /\ [Next]_vars => PathInv'
  BY PathStep
<1> QED
  BY <1>1, PathStart, PTL DEF Spec

\* Every variable of the print path keeps its type; in particular no job ever
\* has more labels in and out of the printer than it consists of.
THEOREM PathTypes == Spec => []TypeOK
<1>1. PathInv => TypeOK
  BY DEF PathInv
<1> QED
  BY <1>1, PathInvariant, PTL

\* A tablet that was told "printed" (印刷しました) has all labels of that job,
\* whatever CUPS, the cable and the operators do, also when CUPS keeps a failed
\* job and runs it again under the same result file.
THEOREM PrintedCorrect == Spec => []PrintedIsTrue
<1>1. PathInv => PrintedIsTrue
  BY DEF PathInv, PrintedIsTrue, AnswerTrue, ResultTrue
<1> QED
  BY <1>1, PathInvariant, PTL

-----------------------------------------------------------------------------
(***************************************************************************)
(* A CUPS that drops failed jobs runs no job twice.                        *)
(***************************************************************************)
\* Every job whose outcome is known leaves the queue with its backend.
ReportedLeaves ==
    \A j \in queue : outcome[j] # "none" => current = j /\ backend \in {"write", "exit"}

\* A result file tells the outcome of its job.
ResultCurrent == \A j \in Jobs : result[j] # "none" => result[j] = outcome[j]

\* The printer has nothing of a job before its backend starts to send.
NotHeldYet == backend \in {"open", "send"} => held[current] = 0

\* The printer has nothing left of a job that failed or was canceled.
FailedGone ==
    \A j \in Jobs : outcome[j] \in {"failed", "canceled"} /\ ~ lost[j] => held[j] = 0

\* What the tablet was told of a failure or a cancel is the outcome, and the job
\* is gone.
AnswerFinal ==
    \A r \in Jobs : answer[r] \in {"failed", "canceled"} =>
        pc[r] = "done" /\ r \notin queue /\ outcome[r] = answer[r]

OnceInv == ReportedLeaves /\ ResultCurrent /\ NotHeldYet /\ FailedGone /\ AnswerFinal

\* Every step keeps that invariant, too.
LEMMA OnceStep ==
    ASSUME "keep" \notin Faults, PathInv, OnceInv, [Next]_vars
    PROVE  OnceInv'
<1> USE PathAssumption, LabelsAssumption
    DEF Goto, delivery, requests, cups, process, Outcomes, Answers
<1>t. TypeOK BY DEF PathInv
<1>b. Bounded BY DEF PathInv
<1>r. Running BY DEF PathInv
<1>n. NotSubmitted BY DEF PathInv
<1>u. ResultTrue BY DEF PathInv
<1>l. PrintedLeaves BY DEF PathInv
<1>a. AnswerTrue BY DEF PathInv
<1>p. ReportedLeaves BY DEF OnceInv
<1>c. ResultCurrent BY DEF OnceInv
<1>h. NotHeldYet BY DEF OnceInv
<1>f. FailedGone BY DEF OnceInv
<1>z. AnswerFinal BY DEF OnceInv
<1>1. ASSUME NEW r \in Jobs, Arrive(r) \/ Lock(r) \/ Handle(r) PROVE OnceInv'
  <2>1. ReportedLeaves'
    BY <1>t, <1>r, <1>n, <1>p, <1>1
    DEF TypeOK, DeliveryTypeOK, Running, NotSubmitted, ReportedLeaves, Arrive,
        Lock, Handle, StatusReady, StatusRefuses, SubmitRefused, Submit,
        SubmitUntold, PollGone, PollDeadline, PollUnreadable, ConfirmFound,
        ConfirmMissing, Told, Return
  <2>2. AnswerFinal'
    BY <1>t, <1>r, <1>n, <1>a, <1>p, <1>c, <1>z, <1>1
    DEF TypeOK, DeliveryTypeOK, Running, NotSubmitted, AnswerTrue,
        ReportedLeaves, ResultCurrent, AnswerFinal, Arrive, Lock, Handle,
        StatusReady, StatusRefuses, SubmitRefused, Submit, SubmitUntold,
        PollGone, PollDeadline, PollUnreadable, ConfirmFound, ConfirmMissing,
        Told, Return
  <2>3. ResultCurrent' /\ NotHeldYet' /\ FailedGone'
    BY <1>t, <1>r, <1>c, <1>h, <1>f, <1>1
    DEF Running, TypeOK, DeliveryTypeOK, ResultCurrent, NotHeldYet,
        FailedGone, Arrive, Lock, Handle, StatusReady, StatusRefuses,
        SubmitRefused, Submit, SubmitUntold, PollGone, PollDeadline,
        PollUnreadable, ConfirmFound, ConfirmMissing, Told, Return
  <2> QED
    BY <2>1, <2>2, <2>3 DEF OnceInv
<1>2. CASE StartJob
  <2>1. ReportedLeaves'
    BY <1>t, <1>r, <1>n, <1>p, <1>2
    DEF TypeOK, DeliveryTypeOK, Running, NotSubmitted, ReportedLeaves,
        StartJob
  <2>2. ResultCurrent'
    BY <1>t, <1>r, <1>n, <1>p, <1>c, <1>2
    DEF TypeOK, DeliveryTypeOK, Running, NotSubmitted, ReportedLeaves,
        ResultCurrent, StartJob
  <2>3. NotHeldYet'
    BY <1>t, <1>b, <1>r, <1>h, <1>2
    DEF TypeOK, DeliveryTypeOK, Bounded, Running, NotHeldYet, StartJob
  <2>4. FailedGone'
    BY <1>t, <1>b, <1>r, <1>h, <1>f, <1>p, <1>2
    DEF TypeOK, DeliveryTypeOK, Bounded, Running, NotHeldYet, FailedGone,
        ReportedLeaves, StartJob
  <2>5. AnswerFinal'
    BY <1>t, <1>r, <1>n, <1>a, <1>p, <1>c, <1>z, <1>2
    DEF TypeOK, DeliveryTypeOK, Running, NotSubmitted, AnswerTrue,
        ReportedLeaves, ResultCurrent, AnswerFinal, StartJob
  <2> QED
    BY <2>1, <2>2, <2>3, <2>4, <2>5 DEF OnceInv
<1>3. CASE OpenDevice
  <2>1. ReportedLeaves'
    BY <1>t, <1>r, <1>n, <1>p, <1>3
    DEF TypeOK, DeliveryTypeOK, Running, NotSubmitted, ReportedLeaves,
        OpenDevice
  <2>2. NotHeldYet'
    BY <1>t, <1>b, <1>r, <1>h, <1>3
    DEF TypeOK, DeliveryTypeOK, Bounded, Running, NotHeldYet, OpenDevice
  <2>3. ResultCurrent' /\ FailedGone' /\ AnswerFinal'
    BY <1>t, <1>r, <1>c, <1>f, <1>z, <1>3
    DEF Running, TypeOK, DeliveryTypeOK, ResultCurrent, FailedGone,
        AnswerFinal, OpenDevice
  <2> QED
    BY <2>1, <2>2, <2>3 DEF OnceInv
<1>4. CASE OpenFails \/ DataUnreadable
  <2>1. ReportedLeaves'
    BY <1>t, <1>r, <1>n, <1>p, <1>4
    DEF TypeOK, DeliveryTypeOK, Running, NotSubmitted, ReportedLeaves,
        OpenFails, DataUnreadable, FailUnsent
  <2>2. ResultCurrent'
    BY <1>t, <1>r, <1>n, <1>p, <1>c, <1>4
    DEF TypeOK, DeliveryTypeOK, Running, NotSubmitted, ReportedLeaves,
        ResultCurrent, OpenFails, DataUnreadable, FailUnsent
  <2>3. NotHeldYet'
    BY <1>t, <1>b, <1>r, <1>h, <1>4
    DEF TypeOK, DeliveryTypeOK, Bounded, Running, NotHeldYet, OpenFails,
        DataUnreadable, FailUnsent
  <2>4. FailedGone'
    BY <1>t, <1>b, <1>r, <1>h, <1>f, <1>p, <1>4
    DEF TypeOK, DeliveryTypeOK, Bounded, Running, NotHeldYet, FailedGone,
        ReportedLeaves, OpenFails, DataUnreadable, FailUnsent
  <2>5. AnswerFinal'
    BY <1>t, <1>r, <1>n, <1>a, <1>p, <1>c, <1>z, <1>4
    DEF TypeOK, DeliveryTypeOK, Running, NotSubmitted, AnswerTrue,
        ReportedLeaves, ResultCurrent, AnswerFinal, OpenFails, DataUnreadable,
        FailUnsent
  <2> QED
    BY <2>1, <2>2, <2>3, <2>4, <2>5 DEF OnceInv
<1>5. CASE SendResets
  <2>1. ReportedLeaves'
    BY <1>t, <1>r, <1>n, <1>p, <1>5
    DEF TypeOK, DeliveryTypeOK, Running, NotSubmitted, ReportedLeaves,
        SendResets, Drop
  <2>2. NotHeldYet'
    BY <1>t, <1>b, <1>r, <1>h, <1>5
    DEF TypeOK, DeliveryTypeOK, Bounded, Running, NotHeldYet, SendResets, Drop
  <2>3. FailedGone'
    BY <1>t, <1>b, <1>r, <1>h, <1>f, <1>p, <1>5
    DEF TypeOK, DeliveryTypeOK, Bounded, Running, NotHeldYet, FailedGone,
        ReportedLeaves, SendResets, Drop
  <2>4. ResultCurrent' /\ AnswerFinal'
    BY <1>t, <1>r, <1>c, <1>z, <1>5
    DEF Running, TypeOK, DeliveryTypeOK, ResultCurrent, AnswerFinal,
        SendResets, Drop
  <2> QED
    BY <2>1, <2>2, <2>3, <2>4 DEF OnceInv
<1>6. CASE SendTakes
  <2>1. FailedGone'
    BY <1>t, <1>b, <1>r, <1>h, <1>f, <1>p, <1>6
    DEF TypeOK, DeliveryTypeOK, Bounded, Running, NotHeldYet, FailedGone,
        ReportedLeaves, SendTakes, Take
  <2>2. ReportedLeaves' /\ ResultCurrent' /\ NotHeldYet' /\ AnswerFinal'
    BY <1>t, <1>r, <1>p, <1>c, <1>h, <1>z, <1>6
    DEF Running, TypeOK, DeliveryTypeOK, ReportedLeaves, ResultCurrent,
        NotHeldYet, AnswerFinal, SendTakes, Take
  <2> QED
    BY <2>1, <2>2 DEF OnceInv
<1>7. CASE SendConcludes
  <2>1. ReportedLeaves'
    BY <1>t, <1>r, <1>n, <1>p, <1>7
    DEF TypeOK, DeliveryTypeOK, Running, NotSubmitted, ReportedLeaves,
        SendConcludes, Conclude
  <2>2. ResultCurrent'
    BY <1>t, <1>r, <1>n, <1>p, <1>c, <1>7
    DEF TypeOK, DeliveryTypeOK, Running, NotSubmitted, ReportedLeaves,
        ResultCurrent, SendConcludes, Conclude
  <2>3. NotHeldYet'
    BY <1>t, <1>b, <1>r, <1>h, <1>7
    DEF TypeOK, DeliveryTypeOK, Bounded, Running, NotHeldYet, SendConcludes,
        Conclude
  <2>4. FailedGone'
    BY <1>t, <1>b, <1>r, <1>h, <1>f, <1>p, <1>7
    DEF TypeOK, DeliveryTypeOK, Bounded, Running, NotHeldYet, FailedGone,
        ReportedLeaves, SendConcludes, Conclude
  <2>5. AnswerFinal'
    BY <1>t, <1>r, <1>n, <1>a, <1>p, <1>c, <1>z, <1>7
    DEF TypeOK, DeliveryTypeOK, Running, NotSubmitted, AnswerTrue,
        ReportedLeaves, ResultCurrent, AnswerFinal, SendConcludes, Conclude
  <2> QED
    BY <2>1, <2>2, <2>3, <2>4, <2>5 DEF OnceInv
<1>8. CASE WriteResult \/ WriteResultFails
  <2>1. ReportedLeaves'
    BY <1>t, <1>r, <1>n, <1>p, <1>8
    DEF TypeOK, DeliveryTypeOK, Running, NotSubmitted, ReportedLeaves,
        WriteResult, WriteResultFails
  <2>2. ResultCurrent'
    BY <1>t, <1>r, <1>n, <1>p, <1>c, <1>8
    DEF TypeOK, DeliveryTypeOK, Running, NotSubmitted, ReportedLeaves,
        ResultCurrent, WriteResult, WriteResultFails
  <2>3. NotHeldYet' /\ FailedGone' /\ AnswerFinal'
    BY <1>t, <1>r, <1>h, <1>f, <1>z, <1>8
    DEF Running, TypeOK, DeliveryTypeOK, NotHeldYet, FailedGone, AnswerFinal,
        WriteResult, WriteResultFails
  <2> QED
    BY <2>1, <2>2, <2>3 DEF OnceInv
<1>9. CASE BackendExits
  <2>1. ReportedLeaves'
    BY <1>t, <1>r, <1>n, <1>p, <1>9
    DEF TypeOK, DeliveryTypeOK, Running, NotSubmitted, ReportedLeaves,
        BackendExits
  <2>2. AnswerFinal'
    BY <1>t, <1>r, <1>n, <1>a, <1>p, <1>c, <1>z, <1>9
    DEF TypeOK, DeliveryTypeOK, Running, NotSubmitted, AnswerTrue,
        ReportedLeaves, ResultCurrent, AnswerFinal, BackendExits
  <2>3. ResultCurrent' /\ NotHeldYet' /\ FailedGone'
    BY <1>t, <1>r, <1>c, <1>h, <1>f, <1>9
    DEF Running, TypeOK, DeliveryTypeOK, ResultCurrent, NotHeldYet,
        FailedGone, BackendExits
  <2> QED
    BY <2>1, <2>2, <2>3 DEF OnceInv
<1>10. CASE Operators
  <2>1. ReportedLeaves'
    BY <1>t, <1>r, <1>n, <1>p, <1>10
    DEF TypeOK, DeliveryTypeOK, Running, NotSubmitted, ReportedLeaves,
        Operators, CancelJob, ClearQueue, EnableQueue
  <2>2. AnswerFinal'
    BY <1>t, <1>r, <1>n, <1>a, <1>p, <1>c, <1>z, <1>10
    DEF TypeOK, DeliveryTypeOK, Running, NotSubmitted, AnswerTrue,
        ReportedLeaves, ResultCurrent, AnswerFinal, Operators, CancelJob,
        ClearQueue, EnableQueue
  <2>3. ResultCurrent' /\ NotHeldYet' /\ FailedGone'
    BY <1>t, <1>r, <1>c, <1>h, <1>f, <1>10
    DEF Running, TypeOK, DeliveryTypeOK, ResultCurrent, NotHeldYet,
        FailedGone, Operators, CancelJob, ClearQueue, EnableQueue
  <2> QED
    BY <2>1, <2>2, <2>3 DEF OnceInv
<1>11. CASE Environment
  <2>1. NotHeldYet'
    BY <1>t, <1>b, <1>r, <1>h, <1>11
    DEF TypeOK, DeliveryTypeOK, Bounded, Running, NotHeldYet, Environment,
        CupsFails, CupsRecovers, OpenerToggles, Cut, Replug, LabelOut, Lose,
        ComeOut
  <2>2. FailedGone'
    BY <1>t, <1>b, <1>r, <1>h, <1>f, <1>p, <1>11
    DEF TypeOK, DeliveryTypeOK, Bounded, Running, NotHeldYet, FailedGone,
        ReportedLeaves, Environment, CupsFails, CupsRecovers, OpenerToggles,
        Cut, Replug, LabelOut, Lose, ComeOut
  <2>3. ReportedLeaves' /\ ResultCurrent' /\ AnswerFinal'
    BY <1>t, <1>r, <1>p, <1>c, <1>z, <1>11
    DEF Running, TypeOK, DeliveryTypeOK, ReportedLeaves, ResultCurrent,
        AnswerFinal, Environment, CupsFails, CupsRecovers, OpenerToggles, Cut,
        Replug, LabelOut, Lose, ComeOut
  <2> QED
    BY <2>1, <2>2, <2>3 DEF OnceInv
<1>12. CASE UNCHANGED vars
  <2>1. ReportedLeaves' /\ ResultCurrent' /\ NotHeldYet' /\ FailedGone' /\ AnswerFinal'
    BY <1>t, <1>r, <1>p, <1>c, <1>h, <1>f, <1>z, <1>12
    DEF Running, TypeOK, DeliveryTypeOK, ReportedLeaves, ResultCurrent,
        NotHeldYet, FailedGone, AnswerFinal, vars
  <2> QED
    BY <2>1 DEF OnceInv
<1> QED
  BY <1>1, <1>2, <1>3, <1>4, <1>5, <1>6, <1>7, <1>8, <1>9, <1>10, <1>11, <1>12
  DEF Next, Backend, Opening

\* No label of a job comes out after the tablet was told that the job failed or
\* was canceled, provided that CUPS drops failed jobs (it would otherwise run
\* them again), unless the link was lost under the job.
THEOREM FailedStaysFailed ==
    ASSUME "keep" \notin Faults
    PROVE  Spec => FailedIsFinal
<1>1. Init => OnceInv
  BY PathAssumption
  DEF Init, DeliveryInit, OnceInv, ReportedLeaves, ResultCurrent, NotHeldYet, FailedGone, AnswerFinal
<1>2. PathInv /\ OnceInv /\ [Next]_vars => OnceInv'
  BY OnceStep
<1>3. ASSUME PathInv, OnceInv, [Next]_vars, NEW r \in Jobs,
             answer[r] \in {"failed", "canceled"}, ~ lost[r]
      PROVE  out'[r] = out[r]
  <2>1. held[r] = 0 /\ r \notin queue /\ current \in Jobs \cup {NoJob}
    BY <1>3 DEF PathInv, TypeOK, OnceInv, FailedGone, AnswerFinal
  <2>2. DeliveryTypeOK
    BY <1>3 DEF PathInv, TypeOK
  <2>3. CASE StartJob
    BY <1>3, <2>1, <2>2, <2>3 DEF StartJob, DeliveryTypeOK, PathInv, TypeOK
  <2>4. CASE Environment
    BY <2>1, <2>2, <2>4
    DEF DeliveryTypeOK, delivery, Environment, CupsFails, CupsRecovers, OpenerToggles,
        Cut, Replug, LabelOut, Lose, ComeOut
  <2>5. CASE ~ StartJob /\ ~ Environment
    BY <1>3, <2>5
    DEF Next, vars, delivery, Backend, Opening, Arrive, Lock, Handle, StatusReady, StatusRefuses, SubmitRefused,
        Submit, SubmitUntold, PollGone, PollDeadline,
        PollUnreadable, ConfirmFound, ConfirmMissing, Told, Return,
        OpenDevice, OpenFails, DataUnreadable, FailUnsent, SendResets, Drop,
        SendTakes, Take, SendConcludes, Conclude, WriteResult, WriteResultFails,
        BackendExits, Operators, CancelJob, ClearQueue, EnableQueue
  <2> QED
    BY <2>3, <2>4, <2>5
<1>4. PathInv /\ OnceInv /\ [Next]_vars =>
        [\A r \in Jobs : answer[r] \in {"failed", "canceled"} /\ ~ lost[r] => out'[r] = out[r]]_vars
  BY <1>3
<1> QED
  BY <1>1, <1>2, <1>4, PathInvariant, PTL DEF Spec, FailedIsFinal
=============================================================================
