------------------------------ MODULE QLSender ------------------------------
(***************************************************************************)
(* Sender.Send of the rakuql CUPS backend (internal/printer/qlbackend): it *)
(* asks the Brother QL printer for its status, sends the raster data and   *)
(* follows the printer's notifications to an outcome.  The printer and the *)
(* USB cable are the environment; `wire` holds the status frames that the  *)
(* reader goroutine (readFrames) can deliver, in the printer's order.      *)
(*                                                                         *)
(* A chunk of print data is one label.  Timers are not clocked: the        *)
(* seconds of a wait for an answer outlast the milliseconds a frame needs, *)
(* so such a wait ends only when no frame is readable; the per-label timer *)
(* runs out at any moment, frame or no frame.                              *)
(***************************************************************************)
EXTENDS Naturals, Sequences

CONSTANTS
    Pages,        \* labels in the job, job.Pages
    RollCheck,    \* job.Media.Known
    BusyRetries,  \* how often to ask a busy printer again
    OldLabels,    \* labels of an earlier job the printer may still hold
    OldErrors,    \* whether such a label may still stop the printer
    Leftovers,    \* sequences of frames the printer may have queued earlier
    MaxTroubles   \* how many times the environment may interfere

\* Status frames by what Send tells apart.  An answer can be fine ("ready"), say
\* busy, name a problem ("refused"), say both ("busyRefused"), name only the roll
\* mismatch ("wrongRoll"), show another roll than the job's ("mismatch"), or be
\* typed "error occurred" and name nothing ("error").  "trouble" is a phase
\* change or other frame with error bits.
Answers == {"ready", "busy", "busyRefused", "refused", "wrongRoll", "mismatch", "error"}
Frames  == Answers \cup {"completed", "trouble", "cooling", "receiving", "off"}

ASSUME SenderAssumption ==
    /\ Pages \in Nat \ {0}
    /\ RollCheck \in BOOLEAN
    /\ BusyRetries \in Nat
    /\ OldLabels \in Nat
    /\ OldErrors \in BOOLEAN
    /\ Leftovers \subseteq Seq(Frames)
    /\ MaxTroubles \in Nat

\* Status.Problems() is not empty.
Problems == {"refused", "busyRefused", "wrongRoll", "trouble"}

\* Status.Busy().
Busy == {"busy", "busyRefused"}

VARIABLES
    pc,        \* where Send is
    attempt,   \* preflight's attempts at a busy printer
    sent,      \* labels written to the device
    completed, \* res.Completed
    late,      \* pr.completed of the running probe
    heard,     \* whether a frame came since the data was sent
    muted,     \* res.Muted
    outcome,   \* res.Outcome, "none" until Send returns
    wire,      \* frames that can be read
    asked,     \* status requests the printer has not answered
    buffer,    \* labels of this job the printer holds and has not printed
    old,       \* labels of an earlier job it holds
    out,       \* labels of this job that came out
    mode,      \* "ok", "halted" by an error, or "mute": prints, answers nothing
    link,      \* "up", or "down": unplugged, or takes no more data
    troubles   \* how often the environment interfered

sender  == <<pc, attempt, sent, completed, late, heard, muted, outcome>>
printer == <<asked, buffer, old, out, mode, link, troubles>>
vars    == <<sender, wire, printer>>

PCs == {"drain", "ask", "await", "write", "wait", "probe", "abort", "abortDrain",
        "midJob", "midDrain", "midAsk", "midProbe", "settle", "done"}

TypeOK ==
    /\ pc \in PCs
    /\ attempt \in 0 .. BusyRetries
    /\ sent \in 0 .. Pages
    /\ completed \in 0 .. Pages
    /\ late \in Nat
    /\ heard \in BOOLEAN
    /\ muted \in BOOLEAN
    /\ outcome \in {"none", "printed", "failed", "unconfirmed", "canceled"}
    /\ wire \in Seq(Frames)
    /\ asked \in Nat
    /\ buffer \in 0 .. Pages
    /\ old \in 0 .. OldLabels
    /\ out \in 0 .. Pages
    /\ mode \in {"ok", "halted", "mute"}
    /\ link \in {"up", "down"}
    /\ troubles \in 0 .. MaxTroubles

Init ==
    /\ pc = "drain"
    /\ attempt = 0 /\ sent = 0 /\ completed = 0 /\ late = 0
    /\ heard = FALSE /\ muted = FALSE
    /\ outcome = "none"
    /\ wire \in Leftovers
    /\ asked = 0 /\ buffer = 0 /\ out = 0
    /\ old \in 0 .. OldLabels
    /\ mode \in {"ok", "halted", "mute"}
    /\ link = "up"
    /\ troubles = 0

-----------------------------------------------------------------------------
Min2(a, b) == IF a < b THEN a ELSE b

Hear(frame) == wire # <<>> /\ Head(wire) = frame /\ wire' = Tail(wire)
HearOneOf(S) == wire # <<>> /\ Head(wire) \in S /\ wire' = Tail(wire)

Goto(label) == pc' = label

Conclude(o) == pc' = "done" /\ outcome' = o

\* cmdReset reaches the printer: whatever it holds is dropped.  A write to a
\* printer that takes no data fails, and the error is ignored.
ResetPrinter ==
    IF link = "up" THEN buffer' = 0 /\ old' = 0 ELSE UNCHANGED <<buffer, old>>

\* cmdStatusRequest reaches the printer.
Request == IF link = "up" THEN asked' = asked + 1 ELSE UNCHANGED asked

-----------------------------------------------------------------------------
(***************************************************************************)
(* 1. Before sending.                                                      *)
(***************************************************************************)
\* drainFor reads off what an earlier job left.
DrainLeftover ==
    /\ pc = "drain"
    /\ HearOneOf(Frames)
    /\ UNCHANGED <<sender, printer>>

DrainQuiet ==
    /\ pc = "drain"
    /\ wire = <<>>
    /\ Goto("ask")
    /\ UNCHANGED <<attempt, sent, completed, late, heard, muted, outcome, wire, printer>>

\* Mutant: the request goes out without the reset before it.
PreflightNoReset ==
    /\ pc = "ask" /\ link = "up"
    /\ Request
    /\ Goto("await")
    /\ UNCHANGED <<attempt, sent, completed, late, heard, muted, outcome, wire,
                   buffer, old, out, mode, link, troubles>>

\* preflight: reset and status request in one write.
Preflight ==
    /\ pc = "ask" /\ link = "up"
    /\ ResetPrinter
    /\ Request
    /\ Goto("await")
    /\ UNCHANGED <<attempt, sent, completed, late, heard, muted, outcome, wire,
                   out, mode, link, troubles>>

PreflightRefused ==
    /\ pc = "ask" /\ link = "down"
    /\ Conclude("failed")
    /\ UNCHANGED <<attempt, sent, completed, late, heard, muted, wire, printer>>

\* awaitReply skips everything that is not an answer.
AwaitSkips ==
    /\ pc = "await"
    /\ HearOneOf(Frames \ Answers)
    /\ UNCHANGED <<sender, printer>>

\* Mutant: a busy printer is asked again without counting.
AwaitBusyForever ==
    /\ pc = "await"
    /\ HearOneOf(Busy)
    /\ link = "up" /\ Request
    /\ UNCHANGED <<sender, buffer, old, out, mode, link, troubles>>

\* Mutant: one attempt too many.
AwaitBusyOnceMore ==
    /\ pc = "await" /\ attempt <= BusyRetries
    /\ HearOneOf(Busy)
    /\ attempt' = attempt + 1
    /\ Request
    /\ UNCHANGED <<pc, outcome>>
    /\ UNCHANGED <<sent, completed, late, heard, muted, buffer, old, out, mode, link, troubles>>

\* The printer says it is busy: ask again after a second.
AwaitBusy ==
    /\ pc = "await" /\ attempt < BusyRetries
    /\ HearOneOf(Busy)
    /\ attempt' = attempt + 1
    /\ Request
    /\ IF link = "up" THEN UNCHANGED <<pc, outcome>> ELSE Conclude("failed")
    /\ UNCHANGED <<sent, completed, late, heard, muted, buffer, old, out, mode, link, troubles>>

\* The answers that keep the job from being sent: a problem, or another roll.
\* Without a roll check the roll is no reason to refuse.
Refusals == {"refused", "busyRefused"} \cup IF RollCheck THEN {"wrongRoll", "mismatch"} ELSE {}

\* The answer awaitReply got is the one preflight goes by.
Final == IF attempt = BusyRetries THEN Answers ELSE Answers \ Busy

AnswerRefuses ==
    /\ pc = "await"
    /\ HearOneOf(Final \cap Refusals)
    /\ Conclude("failed")
    /\ UNCHANGED <<attempt, sent, completed, late, heard, muted, printer>>

\* A good answer, an error that names nothing, or busy after the last attempt.
AnswerAccepts ==
    /\ pc = "await"
    /\ HearOneOf(Final \ Refusals)
    /\ Goto("write")
    /\ UNCHANGED <<attempt, sent, completed, late, heard, muted, outcome, printer>>

\* PreflightTimeout, or the frames channel was closed: send anyway.
AwaitTimeout ==
    /\ pc = "await"
    /\ wire = <<>>
    /\ muted' = TRUE
    /\ Goto("write")
    /\ UNCHANGED <<attempt, sent, completed, late, heard, outcome, wire, printer>>

-----------------------------------------------------------------------------
(***************************************************************************)
(* 2. Sending.                                                             *)
(***************************************************************************)
Write ==
    /\ pc = "write" /\ link = "up"
    /\ buffer' = buffer + 1
    /\ sent' = sent + 1
    /\ Goto(IF sent + 1 = Pages THEN "wait" ELSE "write")
    /\ UNCHANGED <<attempt, completed, late, heard, muted, outcome, wire,
                   asked, old, out, mode, link, troubles>>

WriteRefused ==
    /\ pc = "write" /\ link = "down"
    /\ Goto("abort")
    /\ UNCHANGED <<attempt, sent, completed, late, heard, muted, outcome, wire, printer>>

\* CUPS cancels the job (SIGTERM) between two chunks or during the wait.
Cancel ==
    /\ pc \in {"write", "wait"}
    /\ ResetPrinter
    /\ Conclude("canceled")
    /\ UNCHANGED <<attempt, sent, completed, late, heard, muted, wire,
                   asked, out, mode, link, troubles>>

-----------------------------------------------------------------------------
(***************************************************************************)
(* 3. Waiting for every label.                                             *)
(***************************************************************************)
HearCompleted ==
    /\ pc = "wait"
    /\ Hear("completed")
    /\ heard' = TRUE
    /\ completed' = completed + 1
    /\ Goto(IF completed + 1 = Pages THEN "settle" ELSE "wait")
    /\ UNCHANGED <<attempt, sent, late, muted, outcome, printer>>

\* The error path of a printer that says what is wrong, or only that it stopped.
HearProblem ==
    /\ pc = "wait"
    /\ HearOneOf(Problems \cup {"error"})
    /\ heard' = TRUE
    /\ Goto("midJob")
    /\ UNCHANGED <<attempt, sent, completed, late, muted, outcome, printer>>

HearTurnedOff ==
    /\ pc = "wait"
    /\ Hear("off")
    /\ heard' = TRUE
    /\ Goto("abort")
    /\ UNCHANGED <<attempt, sent, completed, late, muted, outcome, printer>>

\* Cooling restarts the timer; the rest is ignored.
HearOther ==
    /\ pc = "wait"
    /\ HearOneOf({"ready", "busy", "mismatch", "cooling", "receiving"})
    /\ heard' = TRUE
    /\ UNCHANGED <<pc, attempt, sent, completed, late, muted, outcome, printer>>

\* The device is gone: readFrames closed the channel.
ChannelClosed ==
    /\ pc = "wait" /\ link = "down"
    /\ wire = <<>>
    /\ Goto("abort")
    /\ UNCHANGED <<attempt, sent, completed, late, heard, muted, outcome, wire, printer>>

\* PerPageTimeout on a printer that never said anything.
TimeoutUnconfirmed ==
    /\ pc = "wait" /\ muted /\ ~ heard
    /\ Conclude("unconfirmed")
    /\ UNCHANGED <<attempt, sent, completed, late, heard, muted, wire, printer>>

\* PerPageTimeout: ask the printer how it is before calling the job lost.
TimeoutProbes ==
    /\ pc = "wait" /\ (~ muted \/ heard)
    /\ late' = 0
    /\ Request
    /\ Goto(IF link = "up" THEN "probe" ELSE "abort")
    /\ UNCHANGED <<attempt, sent, completed, heard, muted, outcome, wire,
                   buffer, old, out, mode, link, troubles>>

ProbeCompleted ==
    /\ pc = "probe"
    /\ Hear("completed")
    /\ late' = late + 1
    /\ UNCHANGED <<pc, attempt, sent, completed, heard, muted, outcome, printer>>

ProbeSkips ==
    /\ pc = "probe"
    /\ HearOneOf(Frames \ (Answers \cup {"completed"}))
    /\ UNCHANGED <<sender, printer>>

\* Mutant: the answer stands for the labels still missing.
JudgeTrusting ==
    /\ completed' = Pages
    /\ Goto("settle")

\* Count the completions that came late; all of them make the job printed.
Judge ==
    /\ completed' = Min2(Pages, completed + late)
    /\ Goto(IF completed' = Pages THEN "settle" ELSE "abort")

\* The probe is answered, or PreflightTimeout passes (or the channel closes).
ProbeEnds ==
    /\ pc = "probe"
    /\ HearOneOf(Answers) \/ (wire = <<>> /\ UNCHANGED wire)
    /\ Judge
    /\ UNCHANGED <<attempt, sent, late, heard, muted, outcome, printer>>

-----------------------------------------------------------------------------
(***************************************************************************)
(* Ways to fail after data was sent, and the end of a good job.            *)
(***************************************************************************)
\* Mutant: the failed job stays in the printer.
AbortKeepsBuffer ==
    /\ pc = "abort"
    /\ Goto("abortDrain")
    /\ UNCHANGED <<attempt, sent, completed, late, heard, muted, outcome, wire, printer>>

\* abort: clear the printer's buffer ...
Abort ==
    /\ pc = "abort"
    /\ ResetPrinter
    /\ Goto("abortDrain")
    /\ UNCHANGED <<attempt, sent, completed, late, heard, muted, outcome, wire,
                   asked, out, mode, link, troubles>>

\* ... read what it still says, and report the failure.
AbortDrains ==
    /\ pc = "abortDrain"
    /\ \/ HearOneOf(Frames) /\ UNCHANGED <<pc, outcome>>
       \/ wire = <<>> /\ UNCHANGED wire /\ Conclude("failed")
    /\ UNCHANGED <<attempt, sent, completed, late, heard, muted, printer>>

\* failMidJob: clear the buffer, read, ask, and report what was wrong.
MidJobReset ==
    /\ pc = "midJob"
    /\ ResetPrinter
    /\ Goto("midDrain")
    /\ UNCHANGED <<attempt, sent, completed, late, heard, muted, outcome, wire,
                   asked, out, mode, link, troubles>>

MidJobDrains ==
    /\ pc = "midDrain"
    /\ \/ HearOneOf(Frames) /\ UNCHANGED pc
       \/ wire = <<>> /\ UNCHANGED wire /\ Goto("midAsk")
    /\ UNCHANGED <<attempt, sent, completed, late, heard, muted, outcome, printer>>

MidJobAsks ==
    /\ pc = "midAsk"
    /\ Request
    /\ IF link = "up" THEN Goto("midProbe") /\ UNCHANGED outcome ELSE Conclude("failed")
    /\ UNCHANGED <<attempt, sent, completed, late, heard, muted, wire,
                   buffer, old, out, mode, link, troubles>>

MidJobProbes ==
    /\ pc = "midProbe"
    /\ \/ HearOneOf(Frames \ Answers) /\ UNCHANGED <<pc, outcome>>
       \/ HearOneOf(Answers) /\ Conclude("failed")
       \/ wire = <<>> /\ UNCHANGED wire /\ Conclude("failed")
    /\ UNCHANGED <<attempt, sent, completed, late, heard, muted, printer>>

\* Read on until the printer is back at "receiving".
SettleReads ==
    /\ pc = "settle"
    /\ HearOneOf(Frames \ {"receiving"})
    /\ UNCHANGED <<sender, printer>>

\* "receiving", SettleTimeout or a closed channel: the job is printed.
Settle ==
    /\ pc = "settle"
    /\ Hear("receiving") \/ UNCHANGED wire
    /\ Conclude("printed")
    /\ muted' = FALSE
    /\ UNCHANGED <<attempt, sent, completed, late, heard, printer>>

-----------------------------------------------------------------------------
(***************************************************************************)
(* The printer and the cable.                                              *)
(***************************************************************************)
\* A mute printer sends nothing; a frame may also get lost.
Emit(frames) == wire' = IF mode = "mute" \/ link = "down" THEN wire ELSE wire \o frames

\* A label of the earlier job comes out.
PrintOld ==
    /\ mode # "halted" /\ old > 0
    /\ old' = old - 1
    /\ Emit(<<"completed">>)
    /\ UNCHANGED <<sender, asked, buffer, out, mode, link, troubles>>

\* A label of this job comes out.
PrintLabel ==
    /\ mode # "halted" /\ old = 0 /\ buffer > 0
    /\ buffer' = buffer - 1
    /\ out' = out + 1
    /\ Emit(IF buffer = 1 THEN <<"completed", "receiving">> ELSE <<"completed">>)
    /\ UNCHANGED <<sender, asked, old, mode, link, troubles>>

\* Any answer to a status request; a halted printer says that it is.
Halted == {"refused", "busyRefused", "error"}

Answer ==
    /\ asked > 0 /\ mode # "mute" /\ link = "up"
    /\ asked' = asked - 1
    /\ \E a \in IF mode = "halted" THEN Halted ELSE Answers \ Halted :
           Emit(<<a>>)
    /\ UNCHANGED <<sender, buffer, old, out, mode, link, troubles>>

\* The printer stops with an error, announced by an error frame or a phase
\* change with error bits, or not announced.
Halt ==
    /\ troubles < MaxTroubles
    /\ mode = "ok" /\ (old = 0 \/ OldErrors)
    /\ mode' = "halted"
    /\ \E f \in {<<"error">>, <<"trouble">>, <<>>} : Emit(f)
    /\ troubles' = troubles + 1
    /\ UNCHANGED <<sender, asked, buffer, old, out, link>>

\* Staff close the cover: what is still in the buffer prints.
Recover ==
    /\ mode = "halted"
    /\ mode' = "ok"
    /\ UNCHANGED <<sender, wire, asked, buffer, old, out, link, troubles>>

\* The printer stops answering and goes on printing.
GoMute ==
    /\ troubles < MaxTroubles
    /\ mode = "ok"
    /\ mode' = "mute"
    /\ troubles' = troubles + 1
    /\ UNCHANGED <<sender, wire, asked, buffer, old, out, link>>

\* The head is cooled; the printer stops by itself and goes on.
Cool ==
    /\ troubles < MaxTroubles
    /\ mode = "ok" /\ buffer > 0
    /\ Emit(<<"cooling">>)
    /\ troubles' = troubles + 1
    /\ UNCHANGED <<sender, asked, buffer, old, out, mode, link>>

\* A frame is lost on the way.
LoseFrame ==
    /\ troubles < MaxTroubles
    /\ HearOneOf(Frames)
    /\ troubles' = troubles + 1
    /\ UNCHANGED <<sender, asked, buffer, old, out, mode, link>>

\* The printer is switched off: it says so and forgets everything.
TurnOff ==
    /\ troubles < MaxTroubles
    /\ link = "up"
    /\ Emit(<<"off">>)
    /\ link' = "down"
    /\ asked' = 0 /\ buffer' = 0 /\ old' = 0
    /\ troubles' = troubles + 1
    /\ UNCHANGED <<sender, out, mode>>

\* The cable is pulled, or the printer takes no more data: it keeps what it has.
CutOff ==
    /\ troubles < MaxTroubles
    /\ link = "up"
    /\ link' = "down"
    /\ troubles' = troubles + 1
    /\ UNCHANGED <<sender, wire, asked, buffer, old, out, mode>>

-----------------------------------------------------------------------------
Send ==
    \/ DrainLeftover \/ DrainQuiet \/ Preflight \/ PreflightRefused
    \/ AwaitSkips \/ AwaitBusy \/ AnswerRefuses \/ AnswerAccepts \/ AwaitTimeout
    \/ Write \/ WriteRefused
    \/ HearCompleted \/ HearProblem \/ HearTurnedOff \/ HearOther
    \/ ChannelClosed \/ TimeoutUnconfirmed \/ TimeoutProbes
    \/ ProbeCompleted \/ ProbeSkips \/ ProbeEnds
    \/ Abort \/ AbortDrains \/ MidJobReset \/ MidJobDrains \/ MidJobAsks \/ MidJobProbes
    \/ SettleReads \/ Settle

Printer ==
    \/ PrintOld \/ PrintLabel \/ Answer \/ Halt \/ Recover \/ GoMute \/ Cool
    \/ LoseFrame \/ TurnOff \/ CutOff

Next == Send \/ Cancel \/ Printer

\* The backend runs: its timers fire and its reads return.  The printer, the
\* staff and CUPS's cancel are not fair.
Spec == Init /\ [][Next]_vars /\ WF_vars(Send)

-----------------------------------------------------------------------------
(***************************************************************************)
(* Properties.                                                             *)
(***************************************************************************)
\* "Printed: the printer reported every label as printed": every label the
\* result counts really came out, so no completion of an earlier job, no probe
\* and no answer is ever taken for one of this job's labels.
CompletedCameOut ==
    /\ completed <= out
    /\ outcome = "printed" => out = Pages

\* A job reported failed or canceled does not print later, when the cover is
\* closed or the head has cooled: the reachable printer holds nothing of it.
NothingLeftToPrint ==
    outcome \in {"failed", "canceled"} /\ link = "up" => buffer = 0

\* Send delivers: it takes labels, concludes and clears the printer only as the
\* abstract specification allows, so that what PrintPath builds on Delivery
\* holds of this code.
D == INSTANCE Delivery WITH
        Jobs <- {1}, Labels <- Pages,
        held <- [j \in {1} |-> buffer], out <- [j \in {1} |-> out],
        lost <- [j \in {1} |-> link = "down"], outcome <- [j \in {1} |-> outcome]

Delivers == D!DeliverySpec

\* Whatever the printer does, Send ends with an outcome.
SendEnds == <>(outcome # "none")
=============================================================================
