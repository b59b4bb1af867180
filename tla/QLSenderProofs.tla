--------------------------- MODULE QLSenderProofs ---------------------------
(***************************************************************************)
(* What TLAPS proves about Sender.Send, for any number of labels, retries, *)
(* labels and frames of earlier jobs, and troubles with the printer.       *)
(***************************************************************************)
EXTENDS QLSender, FiniteSetTheorems, TLAPS

-----------------------------------------------------------------------------
SenderTypeOK ==
    /\ pc \in PCs
    /\ attempt \in 0 .. BusyRetries
    /\ sent \in 0 .. Pages
    /\ completed \in 0 .. Pages
    /\ late \in Nat
    /\ outcome \in {"none", "printed", "failed", "unconfirmed", "canceled"}

FlagTypeOK == heard \in BOOLEAN /\ muted \in BOOLEAN

WireTypeOK == wire \in Seq(Frames)

PrinterTypeOK ==
    /\ asked \in Nat
    /\ buffer \in Nat
    /\ old \in 0 .. OldLabels
    /\ out \in Nat
    /\ mode \in {"ok", "halted", "mute"}
    /\ link \in {"up", "down"}
    /\ troubles \in 0 .. MaxTroubles

\* The loop over the pages: nothing is sent or counted before its time, and what
\* the printer has or has printed of this job was sent to it.
Written ==
    /\ pc \in {"drain", "ask", "await"} => sent = 0
    /\ pc \in {"drain", "ask", "await", "write"} => completed = 0
    /\ pc = "write" => sent < Pages
    /\ pc = "wait" => completed < Pages
    /\ buffer + out <= sent

\* Send has an outcome exactly when it has returned.
Concluded == outcome # "none" <=> pc = "done"

\* After the reset on a way to failure nothing is in a printer that listens.
Emptied ==
    link = "up" /\ (\/ pc \in {"abortDrain", "midDrain", "midAsk", "midProbe"}
                    \/ outcome \in {"failed", "canceled"})
        => buffer = 0

SenderInv == SenderTypeOK /\ FlagTypeOK /\ WireTypeOK /\ PrinterTypeOK
             /\ Written /\ Concluded /\ Emptied

\* A frame read or lost leaves frames on the wire, and a notification adds some.
LEMMA WireKept ==
    ASSUME WireTypeOK,
           \/ wire' = wire
           \/ wire # <<>> /\ wire' = Tail(wire)
           \/ \E f, g \in Frames : wire' \in {wire \o <<f>>, wire \o <<f, g>>, wire \o <<>>}
    PROVE  WireTypeOK'
<1>1. CASE wire' = wire
  BY <1>1 DEF WireTypeOK
<1>2. CASE wire # <<>> /\ wire' = Tail(wire)
  BY <1>2 DEF WireTypeOK
<1>3. ASSUME NEW f \in Frames, NEW g \in Frames,
             wire' \in {wire \o <<f>>, wire \o <<f, g>>, wire \o <<>>}
      PROVE  WireTypeOK'
  <2>1. <<f>> \in Seq(Frames) /\ <<f, g>> \in Seq(Frames) /\ <<>> \in Seq(Frames)
    OBVIOUS
  <2>2. \A s \in Seq(Frames) : wire \o s \in Seq(Frames)
    BY DEF WireTypeOK
  <2> QED
    BY <1>3, <2>1, <2>2 DEF WireTypeOK
<1> QED
  BY <1>1, <1>2, <1>3

\* Every step of Send, the printer and the cable keeps the invariant.
LEMMA SenderStep ==
    ASSUME SenderInv, [Next]_vars
    PROVE  SenderInv'
<1> USE SenderAssumption DEF PCs, Goto, Conclude, ResetPrinter, Request, Min2, Judge, sender, printer
<1>s. SenderTypeOK BY DEF SenderInv
<1>f. FlagTypeOK BY DEF SenderInv
<1>w. WireTypeOK BY DEF SenderInv
<1>p. PrinterTypeOK BY DEF SenderInv
<1>b. Written BY DEF SenderInv
<1>c. Concluded BY DEF SenderInv
<1>e. Emptied BY DEF SenderInv
\* The drain and the request.
<1>1. CASE    DrainLeftover \/ DrainQuiet \/ Preflight \/ PreflightRefused
  <2>1. SenderTypeOK'
    BY <1>s, <1>b, <1>1
    DEF SenderTypeOK, Written, DrainLeftover, DrainQuiet, Preflight,
        PreflightRefused
  <2>2. FlagTypeOK'
    BY <1>f, <1>1
    DEF FlagTypeOK, DrainLeftover, DrainQuiet, Preflight, PreflightRefused
  <2>3. WireTypeOK'
    <3>1. wire' = wire \/ (wire # <<>> /\ wire' = Tail(wire))
      BY <1>1
      DEF DrainLeftover, DrainQuiet, Preflight, PreflightRefused, Hear,
          HearOneOf
    <3> QED
      BY <1>w, <3>1, WireKept
  <2>4. PrinterTypeOK'
    BY <1>p, <1>1
    DEF PrinterTypeOK, DrainLeftover, DrainQuiet, Preflight, PreflightRefused
  <2>5. Written'
    BY <1>s, <1>p, <1>b, <1>1
    DEF SenderTypeOK, PrinterTypeOK, Written, DrainLeftover, DrainQuiet,
        Preflight, PreflightRefused
  <2>6. Concluded'
    BY <1>s, <1>c, <1>1
    DEF SenderTypeOK, Concluded, DrainLeftover, DrainQuiet, Preflight,
        PreflightRefused
  <2>7. Emptied'
    BY <1>s, <1>p, <1>b, <1>c, <1>e, <1>1
    DEF SenderTypeOK, PrinterTypeOK, Written, Concluded, Emptied,
        DrainLeftover, DrainQuiet, Preflight, PreflightRefused
  <2> QED
    BY <2>1, <2>2, <2>3, <2>4, <2>5, <2>6, <2>7 DEF SenderInv
\* The answer.
<1>2. CASE    AwaitSkips \/ AwaitBusy \/ AnswerRefuses \/ AnswerAccepts
           \/ AwaitTimeout
  <2>1. SenderTypeOK'
    BY <1>s, <1>b, <1>2
    DEF SenderTypeOK, Written, AwaitSkips, AwaitBusy, AnswerRefuses,
        AnswerAccepts, AwaitTimeout
  <2>2. FlagTypeOK'
    BY <1>f, <1>2
    DEF FlagTypeOK, AwaitSkips, AwaitBusy, AnswerRefuses, AnswerAccepts,
        AwaitTimeout
  <2>3. WireTypeOK'
    <3>1. wire' = wire \/ (wire # <<>> /\ wire' = Tail(wire))
      BY <1>2
      DEF AwaitSkips, AwaitBusy, AnswerRefuses, AnswerAccepts, AwaitTimeout,
          Hear, HearOneOf
    <3> QED
      BY <1>w, <3>1, WireKept
  <2>4. PrinterTypeOK'
    BY <1>p, <1>2
    DEF PrinterTypeOK, AwaitSkips, AwaitBusy, AnswerRefuses, AnswerAccepts,
        AwaitTimeout
  <2>5. Written'
    BY <1>s, <1>p, <1>b, <1>2
    DEF SenderTypeOK, PrinterTypeOK, Written, AwaitSkips, AwaitBusy,
        AnswerRefuses, AnswerAccepts, AwaitTimeout
  <2>6. Concluded'
    BY <1>s, <1>c, <1>2
    DEF SenderTypeOK, Concluded, AwaitSkips, AwaitBusy, AnswerRefuses,
        AnswerAccepts, AwaitTimeout
  <2>7. Emptied'
    BY <1>s, <1>p, <1>b, <1>c, <1>e, <1>2
    DEF SenderTypeOK, PrinterTypeOK, Written, Concluded, Emptied, AwaitSkips,
        AwaitBusy, AnswerRefuses, AnswerAccepts, AwaitTimeout
  <2> QED
    BY <2>1, <2>2, <2>3, <2>4, <2>5, <2>6, <2>7 DEF SenderInv
\* Sending.
<1>3. CASE    Write \/ WriteRefused \/ Cancel
  <2>1. SenderTypeOK'
    BY <1>s, <1>b, <1>3
    DEF SenderTypeOK, Written, Write, WriteRefused, Cancel
  <2>2. FlagTypeOK'
    BY <1>f, <1>3
    DEF FlagTypeOK, Write, WriteRefused, Cancel
  <2>3. WireTypeOK'
    <3>1. wire' = wire \/ (wire # <<>> /\ wire' = Tail(wire))
      BY <1>3
      DEF Write, WriteRefused, Cancel, Hear, HearOneOf
    <3> QED
      BY <1>w, <3>1, WireKept
  <2>4. PrinterTypeOK'
    BY <1>p, <1>3
    DEF PrinterTypeOK, Write, WriteRefused, Cancel
  <2>5. Written'
    BY <1>s, <1>p, <1>b, <1>3
    DEF SenderTypeOK, PrinterTypeOK, Written, Write, WriteRefused, Cancel
  <2>6. Concluded'
    BY <1>s, <1>c, <1>3
    DEF SenderTypeOK, Concluded, Write, WriteRefused, Cancel
  <2>7. Emptied'
    BY <1>s, <1>p, <1>b, <1>c, <1>e, <1>3
    DEF SenderTypeOK, PrinterTypeOK, Written, Concluded, Emptied, Write,
        WriteRefused, Cancel
  <2> QED
    BY <2>1, <2>2, <2>3, <2>4, <2>5, <2>6, <2>7 DEF SenderInv
\* Waiting.
<1>4. CASE    HearCompleted \/ HearProblem \/ HearTurnedOff \/ HearOther
           \/ ChannelClosed \/ TimeoutUnconfirmed
  <2>1. SenderTypeOK'
    BY <1>s, <1>b, <1>4
    DEF SenderTypeOK, Written, HearCompleted, HearProblem, HearTurnedOff,
        HearOther, ChannelClosed, TimeoutUnconfirmed
  <2>2. FlagTypeOK'
    BY <1>f, <1>4
    DEF FlagTypeOK, HearCompleted, HearProblem, HearTurnedOff, HearOther,
        ChannelClosed, TimeoutUnconfirmed
  <2>3. WireTypeOK'
    <3>1. wire' = wire \/ (wire # <<>> /\ wire' = Tail(wire))
      BY <1>4
      DEF HearCompleted, HearProblem, HearTurnedOff, HearOther, ChannelClosed,
          TimeoutUnconfirmed, Hear, HearOneOf
    <3> QED
      BY <1>w, <3>1, WireKept
  <2>4. PrinterTypeOK'
    BY <1>p, <1>4
    DEF PrinterTypeOK, HearCompleted, HearProblem, HearTurnedOff, HearOther,
        ChannelClosed, TimeoutUnconfirmed
  <2>5. Written'
    BY <1>s, <1>p, <1>b, <1>4
    DEF SenderTypeOK, PrinterTypeOK, Written, HearCompleted, HearProblem,
        HearTurnedOff, HearOther, ChannelClosed, TimeoutUnconfirmed
  <2>6. Concluded'
    BY <1>s, <1>c, <1>4
    DEF SenderTypeOK, Concluded, HearCompleted, HearProblem, HearTurnedOff,
        HearOther, ChannelClosed, TimeoutUnconfirmed
  <2>7. Emptied'
    BY <1>s, <1>p, <1>b, <1>c, <1>e, <1>4
    DEF SenderTypeOK, PrinterTypeOK, Written, Concluded, Emptied,
        HearCompleted, HearProblem, HearTurnedOff, HearOther, ChannelClosed,
        TimeoutUnconfirmed
  <2> QED
    BY <2>1, <2>2, <2>3, <2>4, <2>5, <2>6, <2>7 DEF SenderInv
\* The probe and the end.
<1>5. CASE    TimeoutProbes \/ ProbeCompleted \/ ProbeSkips \/ ProbeEnds
           \/ SettleReads \/ Settle
  <2>1. SenderTypeOK'
    BY <1>s, <1>b, <1>5
    DEF SenderTypeOK, Written, TimeoutProbes, ProbeCompleted, ProbeSkips,
        ProbeEnds, SettleReads, Settle
  <2>2. FlagTypeOK'
    BY <1>f, <1>5
    DEF FlagTypeOK, TimeoutProbes, ProbeCompleted, ProbeSkips, ProbeEnds,
        SettleReads, Settle
  <2>3. WireTypeOK'
    <3>1. wire' = wire \/ (wire # <<>> /\ wire' = Tail(wire))
      BY <1>5
      DEF TimeoutProbes, ProbeCompleted, ProbeSkips, ProbeEnds, SettleReads,
          Settle, Hear, HearOneOf
    <3> QED
      BY <1>w, <3>1, WireKept
  <2>4. PrinterTypeOK'
    BY <1>p, <1>5
    DEF PrinterTypeOK, TimeoutProbes, ProbeCompleted, ProbeSkips, ProbeEnds,
        SettleReads, Settle
  <2>5. Written'
    BY <1>s, <1>p, <1>b, <1>5
    DEF SenderTypeOK, PrinterTypeOK, Written, TimeoutProbes, ProbeCompleted,
        ProbeSkips, ProbeEnds, SettleReads, Settle
  <2>6. Concluded'
    BY <1>s, <1>c, <1>5
    DEF SenderTypeOK, Concluded, TimeoutProbes, ProbeCompleted, ProbeSkips,
        ProbeEnds, SettleReads, Settle
  <2>7. Emptied'
    BY <1>s, <1>p, <1>b, <1>c, <1>e, <1>5
    DEF SenderTypeOK, PrinterTypeOK, Written, Concluded, Emptied,
        TimeoutProbes, ProbeCompleted, ProbeSkips, ProbeEnds, SettleReads,
        Settle
  <2> QED
    BY <2>1, <2>2, <2>3, <2>4, <2>5, <2>6, <2>7 DEF SenderInv
\* Ways to fail.
<1>6. CASE    Abort \/ AbortDrains \/ MidJobReset \/ MidJobDrains
           \/ MidJobAsks \/ MidJobProbes
  <2>1. SenderTypeOK'
    BY <1>s, <1>b, <1>6
    DEF SenderTypeOK, Written, Abort, AbortDrains, MidJobReset, MidJobDrains,
        MidJobAsks, MidJobProbes
  <2>2. FlagTypeOK'
    BY <1>f, <1>6
    DEF FlagTypeOK, Abort, AbortDrains, MidJobReset, MidJobDrains, MidJobAsks,
        MidJobProbes
  <2>3. WireTypeOK'
    <3>1. wire' = wire \/ (wire # <<>> /\ wire' = Tail(wire))
      BY <1>6
      DEF Abort, AbortDrains, MidJobReset, MidJobDrains, MidJobAsks,
          MidJobProbes, Hear, HearOneOf
    <3> QED
      BY <1>w, <3>1, WireKept
  <2>4. PrinterTypeOK'
    BY <1>p, <1>6
    DEF PrinterTypeOK, Abort, AbortDrains, MidJobReset, MidJobDrains,
        MidJobAsks, MidJobProbes
  <2>5. Written'
    BY <1>s, <1>p, <1>b, <1>6
    DEF SenderTypeOK, PrinterTypeOK, Written, Abort, AbortDrains, MidJobReset,
        MidJobDrains, MidJobAsks, MidJobProbes
  <2>6. Concluded'
    BY <1>s, <1>c, <1>6
    DEF SenderTypeOK, Concluded, Abort, AbortDrains, MidJobReset,
        MidJobDrains, MidJobAsks, MidJobProbes
  <2>7. Emptied'
    BY <1>s, <1>p, <1>b, <1>c, <1>e, <1>6
    DEF SenderTypeOK, PrinterTypeOK, Written, Concluded, Emptied, Abort,
        AbortDrains, MidJobReset, MidJobDrains, MidJobAsks, MidJobProbes
  <2> QED
    BY <2>1, <2>2, <2>3, <2>4, <2>5, <2>6, <2>7 DEF SenderInv
\* The printer prints a label of the job.
<1>7. CASE    PrintLabel
  <2>1. SenderTypeOK'
    BY <1>s, <1>b, <1>7
    DEF SenderTypeOK, Written, PrintLabel
  <2>2. FlagTypeOK'
    BY <1>f, <1>7
    DEF FlagTypeOK, PrintLabel
  <2>3. WireTypeOK'
    BY <1>w, <1>7, WireKept
    DEF PrintLabel, Hear, HearOneOf, Emit, Halted, Answers, Frames
  <2>4. PrinterTypeOK'
    BY <1>p, <1>7
    DEF PrinterTypeOK, PrintLabel
  <2>5. Written'
    BY <1>s, <1>p, <1>b, <1>7
    DEF SenderTypeOK, PrinterTypeOK, Written, PrintLabel
  <2>6. Concluded'
    BY <1>s, <1>c, <1>7
    DEF SenderTypeOK, Concluded, PrintLabel
  <2>7. Emptied'
    BY <1>s, <1>p, <1>b, <1>c, <1>e, <1>7
    DEF SenderTypeOK, PrinterTypeOK, Written, Concluded, Emptied, PrintLabel
  <2> QED
    BY <2>1, <2>2, <2>3, <2>4, <2>5, <2>6, <2>7 DEF SenderInv
\* The printer prints an old label or answers.
<1>8. CASE    PrintOld \/ Answer \/ Cool
  <2>1. SenderTypeOK'
    BY <1>s, <1>b, <1>8
    DEF SenderTypeOK, Written, PrintOld, Answer, Cool
  <2>2. FlagTypeOK'
    BY <1>f, <1>8
    DEF FlagTypeOK, PrintOld, Answer, Cool
  <2>3. WireTypeOK'
    BY <1>w, <1>8, WireKept
    DEF PrintOld, Answer, Cool, Hear, HearOneOf, Emit, Halted, Answers, Frames
  <2>4. PrinterTypeOK'
    BY <1>p, <1>8
    DEF PrinterTypeOK, PrintOld, Answer, Cool
  <2>5. Written'
    BY <1>s, <1>p, <1>b, <1>8
    DEF SenderTypeOK, PrinterTypeOK, Written, PrintOld, Answer, Cool
  <2>6. Concluded'
    BY <1>s, <1>c, <1>8
    DEF SenderTypeOK, Concluded, PrintOld, Answer, Cool
  <2>7. Emptied'
    BY <1>s, <1>p, <1>b, <1>c, <1>e, <1>8
    DEF SenderTypeOK, PrinterTypeOK, Written, Concluded, Emptied, PrintOld,
        Answer, Cool
  <2> QED
    BY <2>1, <2>2, <2>3, <2>4, <2>5, <2>6, <2>7 DEF SenderInv
\* The printer stops and goes on, or is lost.
<1>9. CASE    Halt \/ Recover \/ GoMute \/ LoseFrame \/ TurnOff \/ CutOff
  <2>1. SenderTypeOK'
    BY <1>s, <1>b, <1>9
    DEF SenderTypeOK, Written, Halt, Recover, GoMute, LoseFrame, TurnOff,
        CutOff
  <2>2. FlagTypeOK'
    BY <1>f, <1>9
    DEF FlagTypeOK, Halt, Recover, GoMute, LoseFrame, TurnOff, CutOff
  <2>3. WireTypeOK'
    BY <1>w, <1>9, WireKept
    DEF Halt, Recover, GoMute, LoseFrame, TurnOff, CutOff, Hear, HearOneOf,
        Emit, Halted, Answers, Frames
  <2>4. PrinterTypeOK'
    <3>1. CASE Halt
      <4>1. /\ troubles < MaxTroubles /\ troubles' = troubles + 1
            /\ mode' = "halted"
            /\ UNCHANGED <<asked, buffer, old, out, link>>
        BY <3>1 DEF Halt
      <4> QED
        BY <1>p, <4>1 DEF PrinterTypeOK
    <3>2. CASE    Recover \/ GoMute \/ LoseFrame \/ TurnOff \/ CutOff
      BY <1>p, <3>2
      DEF PrinterTypeOK, Recover, GoMute, LoseFrame, TurnOff, CutOff
    <3> QED
      BY <1>9, <3>1, <3>2
  <2>5. Written'
    BY <1>s, <1>p, <1>b, <1>9
    DEF SenderTypeOK, PrinterTypeOK, Written, Halt, Recover, GoMute,
        LoseFrame, TurnOff, CutOff
  <2>6. Concluded'
    BY <1>s, <1>c, <1>9
    DEF SenderTypeOK, Concluded, Halt, Recover, GoMute, LoseFrame, TurnOff,
        CutOff
  <2>7. Emptied'
    BY <1>s, <1>p, <1>b, <1>c, <1>e, <1>9
    DEF SenderTypeOK, PrinterTypeOK, Written, Concluded, Emptied, Halt,
        Recover, GoMute, LoseFrame, TurnOff, CutOff
  <2> QED
    BY <2>1, <2>2, <2>3, <2>4, <2>5, <2>6, <2>7 DEF SenderInv
<1>10. CASE UNCHANGED vars
  BY <1>s, <1>f, <1>w, <1>p, <1>b, <1>c, <1>e, <1>10
  DEF SenderInv, SenderTypeOK, FlagTypeOK, WireTypeOK, PrinterTypeOK,
      Written, Concluded, Emptied, vars
<1> QED
  BY <1>1, <1>2, <1>3, <1>4, <1>5, <1>6, <1>7, <1>8, <1>9, <1>10
  DEF Next, Send, Printer

\* At first nothing is sent, whatever an earlier job left behind.
LEMMA SenderStart == Init => SenderInv
<1> SUFFICES ASSUME Init PROVE SenderInv
  OBVIOUS
<1> USE SenderAssumption DEF Init
<1>1. SenderTypeOK
  BY DEF SenderTypeOK, PCs
<1>2. FlagTypeOK /\ WireTypeOK
  BY DEF FlagTypeOK, WireTypeOK
<1>3. PrinterTypeOK
  BY DEF PrinterTypeOK
<1>4. Written /\ Concluded /\ Emptied
  BY DEF Written, Concluded, Emptied
<1> QED
  BY <1>1, <1>2, <1>3, <1>4 DEF SenderInv

\* The invariant holds in every execution.
LEMMA SenderInvariant == Spec => []SenderInv
<1>1. SenderInv /\ [Next]_vars => SenderInv'
  BY SenderStep
<1> QED
  BY <1>1, SenderStart, PTL DEF Spec

\* Every variable of Send and of the printer keeps its type; in particular no
\* retry and no label is counted beyond its limit.
THEOREM SenderTypes == Spec => []TypeOK
<1>1. SenderInv => TypeOK
  <2> SUFFICES ASSUME SenderInv PROVE TypeOK
    OBVIOUS
  <2>1. buffer \in 0 .. Pages /\ out \in 0 .. Pages
    BY SenderAssumption DEF SenderInv, SenderTypeOK, PrinterTypeOK, Written
  <2> QED
    BY <2>1 DEF SenderInv, SenderTypeOK, FlagTypeOK, WireTypeOK, PrinterTypeOK, TypeOK
<1> QED
  BY <1>1, SenderInvariant, PTL

\* A job that Send reported failed or canceled has nothing in a printer that can
\* be reached: no label of it comes out when staff close the cover.
THEOREM NothingLeft == Spec => []NothingLeftToPrint
<1>1. SenderInv => NothingLeftToPrint
  BY DEF SenderInv, Emptied, NothingLeftToPrint
<1> QED
  BY <1>1, SenderInvariant, PTL

-----------------------------------------------------------------------------
\* The frames of a sequence that report a label.
Reports(s) == {i \in DOMAIN s : s[i] = "completed"}

\* How many labels it reports.
Count(s) == Cardinality(Reports(s))

HasAnswer(s) == \E i \in DOMAIN s : s[i] \in Answers

\* No label is reported behind an answer.
Ordered(s) == \A i \in Reports(s), k \in DOMAIN s : s[k] \in Answers => i < k

\* A sequence reports finitely many labels.
LEMMA ReportsFinite ==
    ASSUME NEW s \in Seq(Frames)
    PROVE  IsFiniteSet(Reports(s)) /\ Count(s) \in Nat
<1>1. Len(s) \in Nat /\ DOMAIN s = 1 .. Len(s)
  OBVIOUS
<1>2. IsFiniteSet(1 .. Len(s))
  BY <1>1, FS_Interval
<1>3. Reports(s) \in SUBSET (1 .. Len(s))
  BY <1>1 DEF Reports
<1>4. IsFiniteSet(Reports(s))
  BY <1>2, <1>3, FS_Subset
<1> QED
  BY <1>4, FS_CardinalityType DEF Count

\* An empty wire reports nothing and answers nothing.
LEMMA NothingReported ==
    Count(<<>>) = 0 /\ ~ HasAnswer(<<>>) /\ Ordered(<<>>)
<1>1. Reports(<<>>) = {}
  BY DEF Reports
<1> QED
  BY <1>1, FS_EmptySet DEF Count, HasAnswer, Ordered

\* A frame put on the wire: what it adds to the reports and the answers, and when
\* reports still come before answers.
LEMMA FrameSent ==
    ASSUME NEW s \in Seq(Frames), NEW f \in Frames
    PROVE  /\ s \o <<f>> \in Seq(Frames)
           /\ Count(s \o <<f>>) = Count(s) + (IF f = "completed" THEN 1 ELSE 0)
           /\ HasAnswer(s \o <<f>>) <=> HasAnswer(s) \/ f \in Answers
           /\ Ordered(s) /\ (f = "completed" => ~ HasAnswer(s)) => Ordered(s \o <<f>>)
<1> DEFINE t == s \o <<f>>
<1>1. /\ t \in Seq(Frames) /\ Len(s) \in Nat
      /\ DOMAIN s = 1 .. Len(s) /\ DOMAIN t = 1 .. Len(s) + 1
      /\ \A i \in 1 .. Len(s) : t[i] = s[i]
      /\ t[Len(s) + 1] = f
  OBVIOUS
<1> HIDE DEF t
<1>2. Reports(t) = IF f = "completed" THEN Reports(s) \cup {Len(s) + 1} ELSE Reports(s)
  BY <1>1 DEF Reports
<1>3. Len(s) + 1 \notin Reports(s)
  BY <1>1 DEF Reports
<1>4. Count(t) = Count(s) + (IF f = "completed" THEN 1 ELSE 0)
  <2>1. IsFiniteSet(Reports(s)) /\ Count(s) \in Nat
    BY ReportsFinite
  <2>2. Cardinality(Reports(s) \cup {Len(s) + 1}) = Count(s) + 1
    BY <1>3, <2>1, FS_AddElement DEF Count
  <2> QED
    BY <1>2, <2>1, <2>2 DEF Count
<1>5. HasAnswer(t) <=> HasAnswer(s) \/ f \in Answers
  BY <1>1 DEF HasAnswer
<1>6. ASSUME Ordered(s), f = "completed" => ~ HasAnswer(s)
      PROVE  Ordered(t)
  <2> SUFFICES ASSUME NEW i \in 1 .. Len(s) + 1, t[i] = "completed",
                      NEW k \in 1 .. Len(s) + 1, t[k] \in Answers
               PROVE  i < k
    BY <1>1 DEF Ordered, Reports
  <2>1. CASE k = Len(s) + 1
    BY <1>1, <2>1 DEF Answers
  <2>2. CASE k # Len(s) + 1
    <3>1. k \in 1 .. Len(s) /\ s[k] \in Answers
      BY <1>1, <2>2
    <3>2. i \in 1 .. Len(s) /\ s[i] = "completed"
      BY <1>1, <1>6, <3>1 DEF HasAnswer
    <3> QED
      BY <1>1, <1>6, <3>1, <3>2 DEF Ordered, Reports
  <2> QED
    BY <2>1, <2>2
<1> QED
  BY <1>1, <1>4, <1>5, <1>6 DEF t

\* A frame taken off the wire: what is left, and that nothing is reported behind
\* the first answer.
LEMMA FrameRead ==
    ASSUME NEW s \in Seq(Frames), s # <<>>
    PROVE  /\ Tail(s) \in Seq(Frames) /\ Head(s) \in Frames
           /\ Count(s) = Count(Tail(s)) + (IF Head(s) = "completed" THEN 1 ELSE 0)
           /\ HasAnswer(Tail(s)) => HasAnswer(s)
           /\ Ordered(s) => Ordered(Tail(s))
           /\ Ordered(s) /\ Head(s) \in Answers => Count(Tail(s)) = 0
<1> DEFINE t == Tail(s)
<1>1. /\ t \in Seq(Frames) /\ Len(s) \in Nat \ {0}
      /\ DOMAIN s = 1 .. Len(s) /\ DOMAIN t = 1 .. Len(s) - 1
      /\ \A i \in 1 .. Len(s) - 1 : t[i] = s[i + 1]
      /\ Head(s) = s[1] /\ Head(s) \in Frames
  OBVIOUS
<1> HIDE DEF t
<1> DEFINE next == [i \in Reports(t) |-> i + 1]
           later == Reports(s) \ {1}
<1>2. ExistsBijection(Reports(t), later)
  <2>1. next \in Bijection(Reports(t), later)
    <3>1. \A i \in Reports(t) : i + 1 \in later /\ i \in Nat
      BY <1>1 DEF Reports
    <3>2. \A k \in later : k - 1 \in Reports(t) /\ (k - 1) + 1 = k
      BY <1>1 DEF Reports
    <3>3. next \in [Reports(t) -> later]
      BY <3>1
    <3>4. \A a, b \in Reports(t) : next[a] = next[b] => a = b
      BY <3>1
    <3>5. \A k \in later : \E i \in Reports(t) : next[i] = k
      BY <3>2
    <3> HIDE DEF next, later
    <3> QED
      BY <3>3, <3>4, <3>5 DEF Bijection, Injection, Surjection, IsInjective
  <2> QED
    BY <2>1 DEF ExistsBijection
<1>3. Cardinality(later) = Count(t)
  BY <1>1, <1>2, ReportsFinite, FS_Bijection DEF Count
<1>4. 1 \in Reports(s) <=> Head(s) = "completed"
  BY <1>1 DEF Reports
<1>5. Cardinality(later) = IF 1 \in Reports(s) THEN Count(s) - 1 ELSE Count(s)
  BY ReportsFinite, FS_RemoveElement DEF Count
<1>6. Count(s) = Count(t) + (IF Head(s) = "completed" THEN 1 ELSE 0)
  BY <1>1, <1>3, <1>4, <1>5, ReportsFinite
<1>7. HasAnswer(t) => HasAnswer(s)
  <2> SUFFICES ASSUME NEW k \in 1 .. Len(s) - 1, t[k] \in Answers PROVE HasAnswer(s)
    BY <1>1 DEF HasAnswer
  <2>1. k + 1 \in DOMAIN s /\ s[k + 1] \in Answers
    BY <1>1
  <2> QED
    BY <2>1 DEF HasAnswer
<1>8. ASSUME Ordered(s) PROVE Ordered(t)
  <2> SUFFICES ASSUME NEW i \in 1 .. Len(s) - 1, t[i] = "completed",
                      NEW k \in 1 .. Len(s) - 1, t[k] \in Answers
               PROVE  i < k
    BY <1>1 DEF Ordered, Reports
  <2>1. i + 1 \in Reports(s) /\ k + 1 \in DOMAIN s /\ s[k + 1] \in Answers
    BY <1>1 DEF Reports
  <2>2. i + 1 < k + 1
    BY <1>8, <2>1 DEF Ordered
  <2> QED
    BY <2>2
<1>9. ASSUME Ordered(s), Head(s) \in Answers PROVE Count(t) = 0
  <2>1. \A i \in Reports(s) : i < 1
    BY <1>1, <1>9 DEF Ordered
  <2>2. Reports(s) = {}
    BY <1>1, <2>1 DEF Reports
  <2>3. Count(s) = 0
    BY <2>2, FS_EmptySet DEF Count
  <2> QED
    BY <1>1, <1>6, <2>3, ReportsFinite
<1> QED
  BY <1>1, <1>6, <1>7, <1>8, <1>9 DEF t

\* What a notification of the printer does to the wire, if it gets there.
LEMMA Emitted ==
    ASSUME wire \in Seq(Frames), NEW f \in Frames,
           Emit(<<f>>) \/ Emit(<<f, "receiving">>) \/ Emit(<<>>)
    PROVE  /\ Count(wire') \in Nat
           /\ Count(wire') <= Count(wire) + (IF f = "completed" THEN 1 ELSE 0)
           /\ HasAnswer(wire') => HasAnswer(wire) \/ f \in Answers
           /\ Ordered(wire) /\ (f = "completed" => ~ HasAnswer(wire)) => Ordered(wire')
<1>1. CASE wire' = wire
  BY <1>1, ReportsFinite
<1>2. CASE wire' = wire \o <<f>>
  BY <1>2, FrameSent, ReportsFinite
<1>3. CASE wire' = wire \o <<f, "receiving">>
  <2> DEFINE mid == wire \o <<f>>
  <2>1. "receiving" \in Frames \ Answers
    BY DEF Frames, Answers
  <2>2. /\ mid \in Seq(Frames)
        /\ Count(mid) = Count(wire) + (IF f = "completed" THEN 1 ELSE 0)
        /\ HasAnswer(mid) <=> HasAnswer(wire) \/ f \in Answers
        /\ Ordered(wire) /\ (f = "completed" => ~ HasAnswer(wire)) => Ordered(mid)
    BY FrameSent
  <2>3. wire' = mid \o <<"receiving">>
    BY <1>3
  <2> HIDE DEF mid
  <2>4. /\ wire' \in Seq(Frames)
        /\ Count(wire') = Count(mid)
        /\ HasAnswer(wire') <=> HasAnswer(mid)
        /\ Ordered(mid) => Ordered(wire')
    BY <2>1, <2>2, <2>3, FrameSent, ReportsFinite
  <2> QED
    BY <2>2, <2>4, ReportsFinite
<1>4. wire \o <<>> = wire
  OBVIOUS
<1> QED
  BY <1>1, <1>2, <1>3, <1>4 DEF Emit

-----------------------------------------------------------------------------
\* What Send has counted so far; a running probe keeps its own count.
Told == completed + (IF pc = "probe" THEN late ELSE 0)

\* The reset of preflight leaves nothing of earlier jobs, and no answer can be on
\* the wire before something was asked, except the error of a printer that has
\* printed them.
OldGone ==
    /\ pc \notin {"drain", "ask", "done"} => old = 0
    /\ pc \in {"drain", "ask"} => asked = 0
    /\ pc = "ask" /\ HasAnswer(wire) => old = 0

\* Behind an answer no label of an earlier job is reported any more.
ReportsFirst == pc \in {"ask", "await"} => Ordered(wire)

\* Each report, counted or still on the wire, is one of a label of this job.
Accounted ==
    /\ pc \in {"write", "wait", "probe", "settle"} => Told + Count(wire) <= out
    /\ completed <= out
    /\ pc = "settle" \/ outcome = "printed" => completed = Pages

CountInv == OldGone /\ ReportsFirst /\ Accounted

\* Every step keeps the account.  Without OldErrors: a printer that stops on an
\* earlier job's label answers before that label is reported.
LEMMA CountStep ==
    ASSUME ~ OldErrors, SenderInv, CountInv, [Next]_vars
    PROVE  CountInv'
<1> USE SenderAssumption DEF PCs, Goto, Conclude, ResetPrinter, Request, sender, printer
<1>s. SenderTypeOK BY DEF SenderInv
<1>p. PrinterTypeOK BY DEF SenderInv
<1>w. wire \in Seq(Frames) BY DEF SenderInv, WireTypeOK
<1>b. Written BY DEF SenderInv
<1>c. Concluded BY DEF SenderInv
<1>o. OldGone BY DEF CountInv
<1>f. ReportsFirst BY DEF CountInv
<1>a. Accounted BY DEF CountInv
<1>n. Count(wire) \in Nat
  BY <1>w, ReportsFinite
<1>e. wire = <<>> => Count(wire) = 0 /\ ~ HasAnswer(wire) /\ Ordered(wire)
  BY NothingReported
<1>r. ASSUME wire # <<>>, wire' = Tail(wire)
      PROVE  /\ Count(wire') \in Nat
             /\ Count(wire) = Count(wire') + (IF Head(wire) = "completed" THEN 1 ELSE 0)
             /\ HasAnswer(wire') => HasAnswer(wire)
             /\ Ordered(wire) => Ordered(wire')
             /\ Ordered(wire) /\ Head(wire) \in Answers => Count(wire') = 0
  BY <1>r, <1>w, FrameRead, ReportsFinite
\* The drain and the request.
<1>1. CASE DrainLeftover \/ DrainQuiet \/ Preflight \/ PreflightRefused
  <2>1. OldGone'
    BY <1>s, <1>p, <1>o, <1>e, <1>r, <1>1
    DEF OldGone, Hear, HearOneOf, SenderTypeOK, PrinterTypeOK, DrainLeftover,
        DrainQuiet, Preflight, PreflightRefused
  <2>2. ReportsFirst'
    BY <1>s, <1>p, <1>f, <1>e, <1>r, <1>1
    DEF ReportsFirst, Hear, HearOneOf, DrainLeftover, DrainQuiet, Preflight,
        PreflightRefused
  <2>3. Accounted'
    BY <1>s, <1>p, <1>b, <1>c, <1>a, <1>n, <1>e, <1>r, <1>1
    DEF Accounted, Told, Written, Concluded, Hear, HearOneOf, SenderTypeOK,
        PrinterTypeOK, DrainLeftover, DrainQuiet, Preflight, PreflightRefused
  <2> QED
    BY <2>1, <2>2, <2>3 DEF CountInv
\* The answer.
<1>2. CASE AwaitSkips \/ AwaitBusy \/ AnswerRefuses \/ AnswerAccepts \/
           AwaitTimeout
  <2>1. OldGone'
    BY <1>s, <1>p, <1>o, <1>e, <1>r, <1>2
    DEF OldGone, Hear, HearOneOf, AwaitSkips, AwaitBusy, AnswerRefuses,
        AnswerAccepts, AwaitTimeout
  <2>2. ReportsFirst'
    BY <1>s, <1>p, <1>f, <1>e, <1>r, <1>2
    DEF ReportsFirst, Hear, HearOneOf, AwaitSkips, AwaitBusy, AnswerRefuses,
        AnswerAccepts, AwaitTimeout
  <2>3. Accounted'
    BY <1>s, <1>p, <1>b, <1>c, <1>f, <1>a, <1>n, <1>e, <1>r, <1>2
    DEF Accounted, Told, Written, Concluded, ReportsFirst, Final, Hear,
        HearOneOf, SenderTypeOK, PrinterTypeOK, AwaitSkips, AwaitBusy,
        AnswerRefuses, AnswerAccepts, AwaitTimeout
  <2> QED
    BY <2>1, <2>2, <2>3 DEF CountInv
\* Sending.
<1>3. CASE Write \/ WriteRefused \/ Cancel
  <2>1. OldGone'
    BY <1>s, <1>p, <1>o, <1>e, <1>r, <1>3
    DEF OldGone, Hear, HearOneOf, Write, WriteRefused, Cancel
  <2>2. ReportsFirst'
    BY <1>s, <1>p, <1>f, <1>e, <1>r, <1>3
    DEF ReportsFirst, Hear, HearOneOf, Write, WriteRefused, Cancel
  <2>3. Accounted'
    BY <1>s, <1>p, <1>b, <1>c, <1>a, <1>n, <1>e, <1>r, <1>3
    DEF Accounted, Told, Written, Concluded, Hear, HearOneOf, SenderTypeOK,
        PrinterTypeOK, Write, WriteRefused, Cancel
  <2> QED
    BY <2>1, <2>2, <2>3 DEF CountInv
\* Waiting: a report leaves the wire and is counted.
<1>4. CASE HearCompleted \/ HearProblem \/ HearTurnedOff \/ HearOther \/
           ChannelClosed \/ TimeoutUnconfirmed
  <2>1. OldGone'
    BY <1>s, <1>p, <1>o, <1>e, <1>r, <1>4
    DEF OldGone, Hear, HearOneOf, HearCompleted, HearProblem, HearTurnedOff,
        HearOther, ChannelClosed, TimeoutUnconfirmed
  <2>2. ReportsFirst'
    BY <1>s, <1>p, <1>f, <1>e, <1>r, <1>4
    DEF ReportsFirst, Hear, HearOneOf, HearCompleted, HearProblem,
        HearTurnedOff, HearOther, ChannelClosed, TimeoutUnconfirmed
  <2>3. Accounted'
    <3>1. CASE HearCompleted
      <4>1. wire # <<>> /\ Head(wire) = "completed" /\ wire' = Tail(wire)
        BY <3>1 DEF HearCompleted, Hear
      <4>2. Count(wire) = Count(wire') + 1 /\ Count(wire') \in Nat
        BY <4>1, <1>r
      <4>3. /\ pc = "wait" /\ pc' = IF completed + 1 = Pages THEN "settle" ELSE "wait"
            /\ completed' = completed + 1
            /\ UNCHANGED <<late, outcome, out>>
        BY <3>1 DEF HearCompleted
      <4> QED
        BY <1>s, <1>p, <1>c, <1>a, <1>n, <4>2, <4>3
        DEF Accounted, Told, Concluded, SenderTypeOK, PrinterTypeOK
    <3>2. CASE    HearProblem \/ HearTurnedOff \/ HearOther
               \/ ChannelClosed \/ TimeoutUnconfirmed
      <4>1. Count(wire') \in Nat /\ Count(wire') <= Count(wire)
        BY <1>n, <1>r, <3>2
        DEF HearProblem, HearTurnedOff, HearOther, ChannelClosed,
            TimeoutUnconfirmed, Hear, HearOneOf
      <4>2. /\ pc = "wait" /\ pc' \in {"wait", "midJob", "abort", "done"}
            /\ outcome' \in {outcome, "unconfirmed"}
            /\ UNCHANGED <<completed, late, out>>
        BY <3>2
        DEF HearProblem, HearTurnedOff, HearOther, ChannelClosed,
            TimeoutUnconfirmed
      <4> QED
        BY <1>s, <1>p, <1>c, <1>a, <1>n, <4>1, <4>2
        DEF Accounted, Told, Concluded, SenderTypeOK, PrinterTypeOK
    <3> QED
      BY <1>4, <3>1, <3>2
  <2> QED
    BY <2>1, <2>2, <2>3 DEF CountInv
\* The probe and the end: late reports are counted apart, and judged.
<1>5. CASE TimeoutProbes \/ ProbeCompleted \/ ProbeSkips \/ ProbeEnds \/
           SettleReads \/ Settle
  <2>1. OldGone'
    BY <1>s, <1>p, <1>o, <1>e, <1>r, <1>5
    DEF OldGone, Hear, HearOneOf, Judge, TimeoutProbes, ProbeCompleted,
        ProbeSkips, ProbeEnds, SettleReads, Settle
  <2>2. ReportsFirst'
    BY <1>s, <1>p, <1>f, <1>e, <1>r, <1>5
    DEF ReportsFirst, Hear, HearOneOf, Judge, TimeoutProbes, ProbeCompleted,
        ProbeSkips, ProbeEnds, SettleReads, Settle
  <2>3. Accounted'
    <3>1. CASE ProbeCompleted
      <4>1. wire # <<>> /\ Head(wire) = "completed" /\ wire' = Tail(wire)
        BY <3>1 DEF ProbeCompleted, Hear
      <4>2. Count(wire) = Count(wire') + 1 /\ Count(wire') \in Nat
        BY <4>1, <1>r
      <4>3. /\ pc = "probe" /\ late' = late + 1
            /\ UNCHANGED <<pc, completed, outcome, out>>
        BY <3>1 DEF ProbeCompleted
      <4> QED
        BY <1>s, <1>p, <1>c, <1>a, <1>n, <4>2, <4>3
        DEF Accounted, Told, Concluded, SenderTypeOK, PrinterTypeOK
    <3>2. CASE ProbeEnds
      <4>1. Count(wire') \in Nat /\ Count(wire') <= Count(wire)
        BY <1>n, <1>r, <3>2 DEF ProbeEnds, HearOneOf
      <4>2. /\ pc = "probe" /\ pc' = IF completed' = Pages THEN "settle" ELSE "abort"
            /\ completed' = Min2(Pages, completed + late)
            /\ UNCHANGED <<late, outcome, out>>
        BY <3>2 DEF ProbeEnds, Judge
      <4> QED
        BY <1>s, <1>p, <1>c, <1>a, <1>n, <4>1, <4>2
        DEF Accounted, Told, Concluded, Min2, SenderTypeOK, PrinterTypeOK
    <3>3. CASE TimeoutProbes \/ ProbeSkips \/ SettleReads \/ Settle
      <4>1. Count(wire') \in Nat /\ Count(wire') <= Count(wire)
        BY <1>n, <1>r, <3>3
        DEF TimeoutProbes, ProbeSkips, SettleReads, Settle, Hear, HearOneOf
      <4>2. /\ UNCHANGED <<completed, out>>
            /\ \/ pc = "wait" /\ pc' \in {"probe", "abort"} /\ late' = 0 /\ outcome' = outcome
               \/ pc = "probe" /\ UNCHANGED <<pc, late, outcome>>
               \/ pc = "settle" /\ UNCHANGED <<pc, late, outcome>>
               \/ pc = "settle" /\ pc' = "done" /\ outcome' = "printed"
        BY <3>3 DEF TimeoutProbes, ProbeSkips, SettleReads, Settle
      <4> QED
        BY <1>s, <1>p, <1>c, <1>a, <1>n, <4>1, <4>2
        DEF Accounted, Told, Concluded, SenderTypeOK, PrinterTypeOK
    <3> QED
      BY <1>5, <3>1, <3>2, <3>3
  <2> QED
    BY <2>1, <2>2, <2>3 DEF CountInv
\* Ways to fail.
<1>6. CASE Abort \/ AbortDrains \/ MidJobReset \/ MidJobDrains \/ MidJobAsks \/
           MidJobProbes
  <2>1. OldGone'
    BY <1>s, <1>p, <1>o, <1>e, <1>r, <1>6
    DEF OldGone, Hear, HearOneOf, Abort, AbortDrains, MidJobReset,
        MidJobDrains, MidJobAsks, MidJobProbes
  <2>2. ReportsFirst'
    BY <1>s, <1>p, <1>f, <1>e, <1>r, <1>6
    DEF ReportsFirst, Hear, HearOneOf, Abort, AbortDrains, MidJobReset,
        MidJobDrains, MidJobAsks, MidJobProbes
  <2>3. Accounted'
    BY <1>s, <1>p, <1>b, <1>c, <1>a, <1>n, <1>e, <1>r, <1>6
    DEF Accounted, Told, Written, Concluded, Hear, HearOneOf, SenderTypeOK,
        PrinterTypeOK, Abort, AbortDrains, MidJobReset, MidJobDrains,
        MidJobAsks, MidJobProbes
  <2> QED
    BY <2>1, <2>2, <2>3 DEF CountInv
\* A label of the job comes out, and is reported once or not at all.
<1>7. CASE PrintLabel
  <2>1. /\ buffer > 0 /\ out' = out + 1
        /\ Emit(<<"completed">>) \/ Emit(<<"completed", "receiving">>)
        /\ UNCHANGED <<sender, asked, old>>
    BY <1>7 DEF PrintLabel
  <2>2. Count(wire') \in Nat /\ Count(wire') <= Count(wire) + 1
    BY <1>w, <2>1, Emitted DEF Frames
  <2>3. pc \notin {"drain", "ask", "await"}
    BY <1>b, <1>p, <2>1 DEF Written, PrinterTypeOK
  <2>4. OldGone' /\ ReportsFirst'
    BY <1>o, <2>1, <2>3 DEF OldGone, ReportsFirst
  <2>5. Accounted'
    BY <1>s, <1>p, <1>a, <1>n, <2>1, <2>2
    DEF Accounted, Told, SenderTypeOK, PrinterTypeOK
  <2> QED
    BY <2>4, <2>5 DEF CountInv
\* A label of an earlier job comes out: then Send has not asked yet.
<1>8. CASE PrintOld
  <2>1. /\ old > 0 /\ old' = old - 1 /\ Emit(<<"completed">>)
        /\ UNCHANGED <<sender, asked, out>>
    BY <1>8 DEF PrintOld
  <2>2. pc \in {"drain", "ask", "done"} /\ (pc = "ask" => ~ HasAnswer(wire))
    BY <1>p, <1>o, <2>1 DEF OldGone, PrinterTypeOK
  <2>3. /\ HasAnswer(wire') => HasAnswer(wire)
        /\ Ordered(wire) /\ ~ HasAnswer(wire) => Ordered(wire')
    BY <1>w, <2>1, Emitted DEF Frames, Answers
  <2>4. OldGone' /\ ReportsFirst'
    BY <1>o, <1>f, <2>1, <2>2, <2>3 DEF OldGone, ReportsFirst
  <2>5. Accounted'
    BY <1>a, <2>1, <2>2 DEF Accounted, Told
  <2> QED
    BY <2>4, <2>5 DEF CountInv
\* The rest of what the printer says reports no label; without old labels in the
\* printer an error may come before anything was asked.
<1>9. CASE Answer \/ Halt \/ Cool \/ TurnOff
  <2>1. \E f \in Frames \ {"completed"} :
            /\ Emit(<<f>>) \/ Emit(<<>>)
            /\ f \in Answers => asked > 0 \/ old = 0
    <3>1. CASE Answer
      BY <3>1 DEF Answer, Halted, Answers, Frames
    <3>2. CASE Halt
      BY <3>2 DEF Halt, Answers, Frames
    <3>3. CASE Cool
      BY <3>3 DEF Cool, Answers, Frames
    <3>4. CASE TurnOff
      BY <3>4 DEF TurnOff, Answers, Frames
    <3> QED
      BY <1>9, <3>1, <3>2, <3>3, <3>4
  <2>2. /\ old' \in {old, 0} /\ (asked > 0 \/ asked' = asked \/ asked' = 0)
        /\ UNCHANGED <<sender, out>>
    BY <1>9 DEF Answer, Halt, Cool, TurnOff
  <2>3. PICK f \in Frames \ {"completed"} :
            /\ Emit(<<f>>) \/ Emit(<<>>)
            /\ f \in Answers => asked > 0 \/ old = 0
    BY <2>1
  <2>4. /\ Count(wire') \in Nat /\ Count(wire') <= Count(wire)
        /\ HasAnswer(wire') => HasAnswer(wire) \/ f \in Answers
        /\ Ordered(wire) => Ordered(wire')
    <3>1. f \in Frames /\ f # "completed" /\ (Emit(<<f>>) \/ Emit(<<>>))
      BY <2>3
    <3>2. /\ Count(wire') \in Nat
          /\ Count(wire') <= Count(wire) + (IF f = "completed" THEN 1 ELSE 0)
          /\ HasAnswer(wire') => HasAnswer(wire) \/ f \in Answers
          /\ Ordered(wire) /\ (f = "completed" => ~ HasAnswer(wire)) => Ordered(wire')
      BY <1>w, <3>1, Emitted
    <3> QED
      BY <1>n, <3>1, <3>2
  <2>5. OldGone'
    BY <1>p, <1>o, <2>2, <2>3, <2>4 DEF OldGone, PrinterTypeOK
  <2>6. ReportsFirst'
    BY <1>f, <2>2, <2>4 DEF ReportsFirst
  <2>7. Accounted'
    BY <1>s, <1>p, <1>a, <1>n, <2>2, <2>4
    DEF Accounted, Told, SenderTypeOK, PrinterTypeOK
  <2> QED
    BY <2>5, <2>6, <2>7 DEF CountInv
\* Nothing is said, or a frame is lost.
<1>10. CASE Recover \/ GoMute \/ LoseFrame \/ CutOff
  <2>1. UNCHANGED <<sender, asked, old, out>>
    BY <1>10 DEF Recover, GoMute, LoseFrame, CutOff
  <2>2. /\ Count(wire') \in Nat /\ Count(wire') <= Count(wire)
        /\ HasAnswer(wire') => HasAnswer(wire)
        /\ Ordered(wire) => Ordered(wire')
    BY <1>n, <1>r, <1>10 DEF Recover, GoMute, LoseFrame, CutOff, HearOneOf
  <2>3. OldGone' /\ ReportsFirst'
    BY <1>o, <1>f, <2>1, <2>2 DEF OldGone, ReportsFirst
  <2>4. Accounted'
    BY <1>s, <1>p, <1>a, <1>n, <2>1, <2>2
    DEF Accounted, Told, SenderTypeOK, PrinterTypeOK
  <2> QED
    BY <2>3, <2>4 DEF CountInv
<1>11. CASE UNCHANGED vars
  BY <1>o, <1>f, <1>a, <1>11
  DEF CountInv, OldGone, ReportsFirst, Accounted, Told, vars
<1> QED
  BY <1>1, <1>2, <1>3, <1>4, <1>5, <1>6, <1>7, <1>8, <1>9, <1>10, <1>11
  DEF Next, Send, Printer

\* The account holds in every execution.
LEMMA CountInvariant ==
    ASSUME ~ OldErrors
    PROVE  Spec => []CountInv
<1>1. Init => CountInv
  BY SenderAssumption DEF Init, CountInv, OldGone, ReportsFirst, Accounted
<1>2. SenderInv /\ CountInv /\ [Next]_vars => CountInv'
  BY CountStep
<1> QED
  BY <1>1, <1>2, SenderInvariant, PTL DEF Spec

\* Each label that Send counts as completed has come out of the printer, and a
\* job that is reported printed has come out to the last label: no report of an
\* earlier job, no late one and no answer is mistaken for one, however frames are
\* lost or delayed.  A printer that stops on an earlier job's label is excepted.
THEOREM CompletedIsOut ==
    ASSUME ~ OldErrors
    PROVE  Spec => []CompletedCameOut
<1>1. SenderInv /\ CountInv => CompletedCameOut
  BY SenderAssumption
  DEF SenderInv, SenderTypeOK, PrinterTypeOK, Written, CountInv, Accounted,
      CompletedCameOut
<1> QED
  BY <1>1, SenderInvariant, CountInvariant, PTL

-----------------------------------------------------------------------------
(***************************************************************************)
(* Send implements Delivery.                                               *)
(***************************************************************************)
\* The printer takes a label.
LEMMA Taken ==
    ASSUME PrinterTypeOK, outcome = "none", link = "up", buffer + out < Pages,
           buffer' = buffer + 1, UNCHANGED <<out, link, outcome>>
    PROVE  D!DeliveryNext
<1>1. D!Take(1)
  BY DEF D!Take
<1> QED
  BY <1>1 DEF D!DeliveryNext

\* A label comes out.
LEMMA CameOut ==
    ASSUME PrinterTypeOK, buffer > 0, buffer' = buffer - 1, out' = out + 1,
           UNCHANGED <<link, outcome>>
    PROVE  D!DeliveryNext
<1>1. D!ComeOut(1)
  BY DEF D!ComeOut, PrinterTypeOK
<1> QED
  BY <1>1 DEF D!DeliveryNext

\* A reset reaches the printer, or does not.
LEMMA Dropped ==
    ASSUME ResetPrinter, UNCHANGED <<out, link, outcome>>
    PROVE  [D!DeliveryNext]_D!delivery
<1>1. CASE buffer' = 0
  <2>1. D!Drop({1})
    BY <1>1 DEF D!Drop
  <2> QED
    BY <2>1 DEF D!DeliveryNext
<1>2. CASE buffer' = buffer
  BY <1>2 DEF D!delivery
<1> QED
  BY <1>1, <1>2 DEF ResetPrinter

\* The printer is lost, with or without the labels it holds.
LEMMA Lost ==
    ASSUME buffer' \in {0, buffer}, link' = "down", UNCHANGED <<out, outcome>>
    PROVE  D!DeliveryNext
<1>1. D!Lose(1)
  <2>1. \E h \in {0, buffer} : [j \in {1} |-> buffer'] = [[j \in {1} |-> buffer] EXCEPT ![1] = h]
    BY DEF D!Lose
  <2> QED
    BY <2>1 DEF D!Lose
<1> QED
  BY <1>1 DEF D!DeliveryNext

\* Send returns: all out if it says so, nothing left behind if it says failed.
LEMMA Reported ==
    ASSUME NEW o \in {"printed", "failed", "unconfirmed", "canceled"},
           outcome = "none", outcome' = o, buffer' \in {0, buffer},
           o = "printed" => out = Pages,
           o \in {"failed", "canceled"} => buffer' = 0 \/ link = "down",
           UNCHANGED <<out, link>>
    PROVE  D!DeliveryNext
<1>1. D!Conclude(1, o)
  <2>1. \E h \in {0, buffer} : [j \in {1} |-> buffer'] = [[j \in {1} |-> buffer] EXCEPT ![1] = h]
    OBVIOUS
  <2> QED
    BY <2>1 DEF D!Conclude
<1> QED
  BY <1>1 DEF D!DeliveryNext, D!Outcomes

\* Each step of Send, the printer or the cable is one of Delivery's, or changes
\* nothing that Delivery speaks of.
LEMMA DeliveryStep ==
    ASSUME ~ OldErrors, SenderInv, CountInv, [Next]_vars
    PROVE  [D!DeliveryNext]_D!delivery
<1> USE SenderAssumption DEF sender, printer
<1>p. PrinterTypeOK BY DEF SenderInv
<1>b. Written BY DEF SenderInv
<1>c. Concluded BY DEF SenderInv
<1>e. Emptied BY DEF SenderInv
<1>q. SenderTypeOK BY DEF SenderInv
\* A step that does not touch the job.
<1>s. ASSUME UNCHANGED <<buffer, out, link, outcome>>
      PROVE  [D!DeliveryNext]_D!delivery
  BY <1>s DEF D!delivery
\* The ends of a job.
<1>f. ASSUME pc # "done", outcome' = "failed", UNCHANGED <<buffer, out, link>>,
             buffer = 0 \/ link = "down"
      PROVE  [D!DeliveryNext]_D!delivery
  BY <1>c, <1>f, Reported DEF Concluded
<1>1. CASE    DrainLeftover \/ DrainQuiet \/ AwaitSkips \/ AnswerAccepts \/ AwaitTimeout
           \/ WriteRefused \/ HearCompleted \/ HearProblem \/ HearTurnedOff \/ HearOther
           \/ ChannelClosed \/ TimeoutProbes \/ ProbeCompleted \/ ProbeSkips \/ ProbeEnds
           \/ MidJobDrains \/ SettleReads
  BY <1>1, <1>s
  DEF DrainLeftover, DrainQuiet, AwaitSkips, AnswerAccepts, AwaitTimeout,
      WriteRefused, HearCompleted, HearProblem, HearTurnedOff, HearOther,
      ChannelClosed, TimeoutProbes, ProbeCompleted, ProbeSkips, ProbeEnds,
      MidJobDrains, SettleReads
<1>2. CASE Preflight \/ Abort \/ MidJobReset
  BY <1>2, Dropped DEF Preflight, Abort, MidJobReset
<1>3. CASE PreflightRefused \/ AnswerRefuses
  <2>1. pc \in {"ask", "await"} /\ outcome' = "failed" /\ UNCHANGED <<buffer, out, link>>
        /\ (pc = "ask" => link = "down")
    BY <1>3 DEF PreflightRefused, AnswerRefuses, Conclude
  <2>2. pc = "await" => buffer = 0
    BY <1>p, <1>b DEF PrinterTypeOK, Written
  <2> QED
    BY <1>f, <2>1, <2>2
<1>4. CASE AwaitBusy \/ MidJobAsks
  <2>1. /\ pc # "done" /\ UNCHANGED <<buffer, out, link>>
        /\ outcome' = outcome \/ (link # "up" /\ outcome' = "failed")
    BY <1>4 DEF AwaitBusy, MidJobAsks, Conclude
  <2> QED
    BY <1>f, <1>s, <1>p, <2>1 DEF PrinterTypeOK
<1>5. CASE AbortDrains \/ MidJobProbes
  <2>1. /\ pc \in {"abortDrain", "midProbe"} /\ UNCHANGED <<buffer, out, link>>
        /\ outcome' \in {outcome, "failed"}
    BY <1>5 DEF AbortDrains, MidJobProbes, Conclude
  <2>2. buffer = 0 \/ link = "down"
    BY <1>p, <1>e, <2>1 DEF PrinterTypeOK, Emptied
  <2> QED
    BY <1>f, <1>s, <2>1, <2>2
<1>6. CASE Write
  <2>1. pc = "write" /\ link = "up" /\ buffer' = buffer + 1 /\ UNCHANGED <<out, link, outcome>>
    BY <1>6 DEF Write
  <2>2. outcome = "none" /\ buffer + out < Pages
    BY <1>q, <1>p, <1>b, <1>c, <2>1 DEF SenderTypeOK, PrinterTypeOK, Written, Concluded
  <2> QED
    BY <1>p, <2>1, <2>2, Taken
<1>7. CASE Cancel
  <2>1. /\ pc # "done" /\ outcome' = "canceled" /\ ResetPrinter
        /\ UNCHANGED <<out, link>>
    BY <1>7 DEF Cancel, Conclude
  <2>2. buffer' \in {0, buffer} /\ (buffer' = 0 \/ link = "down")
    BY <1>p, <2>1 DEF ResetPrinter, PrinterTypeOK
  <2> QED
    BY <1>c, <2>1, <2>2, Reported DEF Concluded
<1>8. CASE TimeoutUnconfirmed
  BY <1>c, <1>8, Reported DEF TimeoutUnconfirmed, Conclude, Concluded
<1>9. CASE Settle
  <2>1. pc = "settle" /\ outcome' = "printed" /\ UNCHANGED <<buffer, out, link>>
    BY <1>9 DEF Settle, Conclude
  <2>2. out = Pages
    BY <1>q, <1>p, <1>b, <2>1
    DEF SenderTypeOK, PrinterTypeOK, Written, CountInv, Accounted
  <2> QED
    BY <1>c, <2>1, <2>2, Reported DEF Concluded
<1>10. CASE PrintLabel
  BY <1>p, <1>10, CameOut DEF PrintLabel
<1>11. CASE TurnOff \/ CutOff
  BY <1>11, Lost DEF TurnOff, CutOff
<1>12. CASE PrintOld \/ Answer \/ Halt \/ Recover \/ GoMute \/ Cool \/ LoseFrame
  BY <1>12, <1>s DEF PrintOld, Answer, Halt, Recover, GoMute, Cool, LoseFrame
<1>13. CASE UNCHANGED vars
  BY <1>13, <1>s DEF vars
<1> QED
  BY <1>1, <1>2, <1>3, <1>4, <1>5, <1>6, <1>7, <1>8, <1>9, <1>10, <1>11, <1>12, <1>13
  DEF Next, Send, Printer

\* Send keeps the promises PrintPath rests on: it sends no label too many, says
\* "printed" only when all came out, reports once, and leaves nothing of a failed
\* or canceled job in a printer that can still be told.
THEOREM SendDelivers ==
    ASSUME ~ OldErrors
    PROVE  Spec => Delivers
<1>1. Init => D!DeliveryInit
  BY DEF Init, D!DeliveryInit
<1>2. SenderInv /\ CountInv /\ [Next]_vars => [D!DeliveryNext]_D!delivery
  BY DeliveryStep
<1> QED
  BY <1>1, <1>2, SenderInvariant, CountInvariant, PTL
  DEF Spec, Delivers, D!DeliverySpec
=============================================================================
