--------------------------- MODULE ScaleLineProofs ---------------------------
(***************************************************************************)
(* What TLAPS proves about the answers on the serial line, for any set of   *)
(* weights and any number of commands, repeats and late answers.            *)
(***************************************************************************)
EXTENDS ScaleLine, TLAPS

-----------------------------------------------------------------------------
\* Answers that can be read or are still due.
Due == Len(asked) + Len(answers)

\* At most one answer is left over from another command, and none as long as no
\* keepalive was repeated, and no port closed, while an answer was due.
CountInv ==
    /\ op = "none" => Due <= 1
    /\ Due <= 2
    /\ ~ late => Due <= (IF op = "none" THEN 0 ELSE 1)

\* What was shown when: an answer left over was given since the command before,
\* and the one behind it since the last.
LoadInv ==
    /\ load \in since /\ since \subseteq before
    /\ op = "none" /\ Len(answers) = 1 => answers[1].load \in since
    /\ Len(answers) >= 1 => answers[1].load \in (IF late THEN before ELSE since)
    /\ Len(answers) = 2 => answers[2].load \in since

\* Nobody is told anything before it returns, and without a leftover an
\* acknowledgement is that of the last command.
ToldInv ==
    /\ op # "none" => told = None
    /\ ~ late /\ Len(answers) >= 1 /\ Ack(answers[1].kind) => did

LineInv == LineTypeOK /\ CountInv /\ LoadInv /\ ToldInv /\ AnswersBelong

\* What Head, Tail and Append make of a line's two sequences.
LEMMA SeqFacts ==
    ASSUME NEW S, NEW s \in Seq(S), NEW e \in S
    PROVE  /\ Append(s, e) \in Seq(S) /\ Len(Append(s, e)) = Len(s) + 1
           /\ Len(s) \in Nat
           /\ \A i \in 1 .. Len(s) : Append(s, e)[i] = s[i]
           /\ Append(s, e)[Len(s) + 1] = e
           /\ s # <<>> => /\ Head(s) = s[1] /\ Head(s) \in S /\ Len(s) >= 1
                          /\ Tail(s) \in Seq(S) /\ Len(Tail(s)) = Len(s) - 1
                          /\ \A i \in 1 .. Len(s) - 1 : Tail(s)[i] = s[i + 1]
           /\ s = <<>> => Len(s) = 0
OBVIOUS

\* What a caller that writes a command leaves: the answers there were are then
\* those of the command before.
LEMMA WrittenKeeps ==
    ASSUME LineInv, NEW who \in {"weigh", "tare", "zero", "keepalive", "retry", "probe"},
           NEW unanswered \in Seq({"Q", "T", "R"}), Written(who, unanswered)
    PROVE  /\ op' = who /\ op' # "none" /\ load' \in since' /\ since' \subseteq before'
           /\ asked' \in Seq({"Q", "T", "R"}) /\ Len(asked') = Len(unanswered) + 1
           /\ since' \subseteq Loads /\ before' = since /\ before' \subseteq Loads
           /\ load' \in Loads /\ told' = None /\ did' = FALSE
           /\ AnswersBelong'
<1>1. Command(who) \in {"Q", "T", "R"}
  BY DEF Command
<1>2. asked' \in Seq({"Q", "T", "R"}) /\ Len(asked') = Len(unanswered) + 1
  BY <1>1, SeqFacts DEF Written
<1> QED
  BY <1>2, LineAssumption DEF Written, LineInv, LineTypeOK, LoadInv, AnswersBelong

\* A caller that reads the next line leaves at most the answer that is left over.
LEMMA ReadKeeps ==
    ASSUME LineInv, op # "none", answers # <<>>, op' = "none", answers' = Tail(answers),
           UNCHANGED <<asked, load, did, since, before, late>>
    PROVE  /\ answers' \in Seq(Lines) /\ CountInv' /\ LoadInv' /\ ToldInv'
           /\ Head(answers) \in Lines
           /\ Head(answers).load \in (IF late THEN before ELSE since)
           /\ Ack(Head(answers).kind) => did \/ late
<1>1. /\ answers \in Seq(Lines) /\ Len(asked) \in Nat /\ Len(answers) \in Nat
      /\ late \in BOOLEAN
  BY DEF LineInv, LineTypeOK
<1>2. /\ Head(answers) = answers[1] /\ Head(answers) \in Lines /\ Len(answers) >= 1
      /\ answers' \in Seq(Lines) /\ Len(answers') = Len(answers) - 1
      /\ \A i \in 1 .. Len(answers) - 1 : answers'[i] = answers[i + 1]
  BY <1>1
<1>3. /\ Len(asked) + Len(answers) <= 2
      /\ ~ late => Len(asked) + Len(answers) <= 1
  BY DEF LineInv, CountInv, Due
<1>4. CountInv'
  BY <1>1, <1>2, <1>3 DEF CountInv, Due
<1>5. Len(answers') >= 1 => Len(answers) = 2 /\ Len(answers') = 1 /\ answers'[1] = answers[2]
  <2> SUFFICES ASSUME Len(answers') >= 1
               PROVE  Len(answers) = 2 /\ Len(answers') = 1 /\ answers'[1] = answers[2]
    OBVIOUS
  <2>1. Len(answers) = 2 /\ Len(answers') = 1
    BY <1>1, <1>2, <1>3
  <2> QED
    BY <1>2, <2>1
<1>6. LoadInv'
  <2>1. /\ load \in since /\ since \subseteq before
        /\ Len(answers) = 2 => answers[2].load \in since
    BY DEF LineInv, LoadInv
  <2>2. Len(answers') >= 1 => answers'[1].load \in since'
    BY <1>5, <2>1
  <2>3. ~ (Len(answers') = 2)
    <3> SUFFICES ASSUME Len(answers') = 2 PROVE FALSE
      OBVIOUS
    <3>1. Len(asked) + Len(answers) <= 2
      BY <1>3
    <3>2. Len(answers) = 3
      BY <1>1, <1>2
    <3> QED
      BY <1>1, <3>1, <3>2
  <2>4. load' \in since' /\ since' \subseteq before'
    BY <2>1
  <2>5. Len(answers') = 1 => Len(answers') >= 1
    OBVIOUS
  <2> QED
    BY <2>2, <2>3, <2>4, <2>5 DEF LoadInv
<1>7. ~ late => ~ Len(answers') >= 1
  BY <1>1, <1>2, <1>3
<1>8. ToldInv'
  BY <1>7 DEF ToldInv
<1> QED
  BY <1>2, <1>4, <1>6, <1>8 DEF LineInv, LoadInv, ToldInv

\* What is still due when no line could be read: at most the answer there was to
\* come, and if its beginning was read, a line that is no answer.
LEMMA DueFacts ==
    ASSUME LineInv, NoLine, NEW due \in StillDue
    PROVE  /\ due.commands \in Seq({"Q", "T", "R"}) /\ due.lines \in Seq(Lines)
           /\ Len(due.commands) + Len(due.lines) = Len(asked) /\ Len(asked) <= 1
           /\ Len(due.commands) \in Nat /\ Len(due.lines) \in {0, 1}
           /\ asked = <<>> <=> Len(asked) = 0
           /\ Len(due.lines) >= 1 =>
                /\ asked # <<>>
                /\ due.lines[1].load = load /\ due.lines[1].kind = "other"
<1>1. /\ asked \in Seq({"Q", "T", "R"}) /\ Len(asked) \in Nat /\ Len(asked) <= 1
      /\ load \in Loads
  BY DEF LineInv, LineTypeOK, NoLine
<1>2. CASE due = [commands |-> asked, lines |-> <<>>]
  <2>1. due.commands = asked /\ due.lines = <<>>
    BY <1>2
  <2>2. Len(due.lines) = 0 /\ due.lines \in Seq(Lines)
    BY <2>1
  <2> QED
    BY <1>1, <2>1, <2>2
<1>3. CASE /\ asked # <<>>
           /\ due = [commands |-> Tail(asked),
                     lines |-> <<[kind |-> "other", load |-> load]>>]
  <2>1. due.commands = Tail(asked) /\ due.lines = <<[kind |-> "other", load |-> load]>>
    BY <1>3
  <2>2. [kind |-> "other", load |-> load] \in Lines
    BY <1>1 DEF Lines, Kinds
  <2>3. /\ due.lines \in Seq(Lines) /\ Len(due.lines) = 1
        /\ due.lines[1].load = load /\ due.lines[1].kind = "other"
    BY <2>1, <2>2
  <2>4. /\ due.commands \in Seq({"Q", "T", "R"}) /\ Len(due.commands) = Len(asked) - 1
        /\ Len(asked) = 1
    BY <1>1, <1>3, <2>1
  <2> QED
    BY <1>1, <1>3, <2>3, <2>4
<1> QED
  BY <1>2, <1>3 DEF StillDue

\* A caller that gives up a port it could read no line from leaves what is due.
LEMMA CloseKeeps ==
    ASSUME LineInv, NoLine, ClosePort, op # "none", op' = "none",
           NEW due \in StillDue, asked' = due.commands, answers' = due.lines,
           UNCHANGED <<load, did, told, since, before>>
    PROVE  LineInv'
<1>1. /\ asked' \in Seq({"Q", "T", "R"}) /\ answers' \in Seq(Lines)
      /\ Len(asked') + Len(answers') = Len(asked) /\ Len(asked) <= 1
      /\ Len(asked') \in Nat /\ Len(answers') \in {0, 1}
      /\ asked = <<>> <=> Len(asked) = 0
      /\ Len(answers') >= 1 =>
           /\ asked # <<>> /\ answers'[1].load = load /\ answers'[1].kind = "other"
  BY DueFacts
<1>2. /\ up' = FALSE /\ late' = (late \/ asked # <<>>) /\ late \in BOOLEAN
      /\ load \in since /\ since \subseteq before /\ told = None
  BY DEF ClosePort, LineInv, LineTypeOK, LoadInv, ToldInv
<1>3. LineTypeOK'
  BY <1>1, <1>2 DEF LineInv, LineTypeOK
<1>4. CountInv'
  <2> DEFINE all == Len(asked)
             commands == Len(asked')
             lines == Len(answers')
  <2>1. ~ late' => all = 0
    <3>1. ~ late' => asked = <<>>
      BY <1>2
    <3>2. asked = <<>> => all = 0
      BY <1>1
    <3> QED
      BY <3>1, <3>2
  <2>2. commands \in Nat /\ lines \in Nat /\ commands + lines = all /\ all <= 1
    <3>1. commands \in Nat
      BY <1>1
    <3>2. lines \in {0, 1}
      BY <1>1
    <3>3. lines \in Nat
      BY <3>2
    <3>4. commands + lines = all
      BY <1>1
    <3>5. all <= 1
      BY <1>1
    <3> QED
      BY <3>1, <3>3, <3>4, <3>5
  <2> HIDE DEF all, commands, lines
  <2>3. commands + lines <= 1 /\ commands + lines <= 2
    BY <2>2
  <2>4. ~ late' => commands + lines <= 0
    BY <2>1, <2>2
  <2> QED
    BY <2>3, <2>4 DEF CountInv, Due, commands, lines
<1>5. LoadInv'
  BY <1>1, <1>2 DEF LoadInv
<1>6. ToldInv'
  BY <1>1, <1>2 DEF ToldInv, Ack
<1>7. AnswersBelong'
  BY <1>2, LineAssumption DEF AnswersBelong
<1> QED
  BY <1>3, <1>4, <1>5, <1>6, <1>7 DEF LineInv

\* Every step of a caller, the port and the scale keeps the invariant.
LEMMA LineStep ==
    ASSUME LineInv, [LineNext]_lineVars
    PROVE  LineInv'
<1> USE LineAssumption DEF Due
<1>t. LineTypeOK /\ CountInv /\ LoadInv /\ ToldInv /\ AnswersBelong
  BY DEF LineInv
<1>a. /\ asked \in Seq({"Q", "T", "R"}) /\ answers \in Seq(Lines)
      /\ Len(asked) \in Nat /\ Len(answers) \in Nat
      /\ answers # <<>> => /\ Head(answers) = answers[1] /\ Head(answers) \in Lines
                          /\ Len(answers) >= 1
                          /\ Tail(answers) \in Seq(Lines)
                          /\ Len(Tail(answers)) = Len(answers) - 1
                          /\ \A i \in 1 .. Len(answers) - 1 : Tail(answers)[i] = answers[i + 1]
      /\ asked # <<>> => /\ Tail(asked) \in Seq({"Q", "T", "R"})
                        /\ Len(Tail(asked)) = Len(asked) - 1
                        /\ Len(asked) >= 1
      /\ answers = <<>> => Len(answers) = 0
      /\ asked = <<>> => Len(asked) = 0
  BY <1>t DEF LineTypeOK
\* A command is written.
<1>1. ASSUME NEW who \in {"weigh", "tare", "zero", "keepalive"}, Begin(who)
      PROVE  LineInv'
  <2>1. op = "none" /\ answers' = answers /\ up' = up /\ late' = late
    BY <1>1 DEF Begin
  <2>2. Written(who, asked)
    BY <1>1 DEF Begin
  <2>3. /\ op' = who /\ load' \in since' /\ since' \subseteq before'
        /\ asked' \in Seq({"Q", "T", "R"}) /\ Len(asked') = Len(asked) + 1
        /\ since' \subseteq Loads /\ before' = since /\ before' \subseteq Loads
        /\ load' \in Loads /\ told' = None /\ did' = FALSE
        /\ AnswersBelong'
    BY <1>a, <2>2, WrittenKeeps
  <2>4. LineTypeOK'
    BY <1>t, <2>1, <2>3 DEF LineTypeOK
  <2>5. CountInv'
    BY <1>t, <1>a, <2>1, <2>3 DEF CountInv
  <2>6. LoadInv'
    <3>1. Len(answers) <= 1 /\ (~ late => Len(answers) = 0)
      BY <1>t, <1>a, <2>1 DEF CountInv
    <3>2. Len(answers) >= 1 => answers[1].load \in since
      <4>1. ASSUME Len(answers) >= 1 PROVE Len(answers) = 1
        <5>1. Len(answers) <= 1 /\ Len(answers) \in Nat
          BY <1>a, <3>1
        <5>2. \A n \in Nat : n <= 1 /\ n >= 1 => n = 1
          OBVIOUS
        <5> QED
          BY <4>1, <5>1, <5>2
      <4>2. op = "none" /\ Len(answers) = 1 => answers[1].load \in since
        BY <1>t DEF LoadInv
      <4>3. op = "none"
        BY <2>1
      <4> QED
        BY <4>1, <4>2, <4>3
    <3>3. op' # "none"
      BY <2>3
    <3> QED
      BY <1>a, <2>1, <2>3, <3>1, <3>2, <3>3 DEF LoadInv
  <2>7. ToldInv'
    BY <1>t, <1>a, <2>1, <2>3 DEF ToldInv, CountInv
  <2> QED
    BY <2>3, <2>4, <2>5, <2>6, <2>7 DEF LineInv
<1>2. CASE Open
  <2>1. /\ op = "none" /\ answers' \in {answers, <<>>} /\ up' = up
        /\ late' = (asked # <<>> \/ answers' # <<>>)
    BY <1>2 DEF Open
  <2>2. Written("probe", asked)
    BY <1>2 DEF Open
  <2>3. /\ op' = "probe" /\ load' \in since' /\ since' \subseteq before'
        /\ asked' \in Seq({"Q", "T", "R"}) /\ Len(asked') = Len(asked) + 1
        /\ since' \subseteq Loads /\ before' = since /\ before' \subseteq Loads
        /\ load' \in Loads /\ told' = None /\ did' = FALSE
        /\ AnswersBelong'
    BY <1>a, <2>2, WrittenKeeps
  <2>4. /\ answers' \in Seq(Lines) /\ Len(answers') \in Nat
        /\ Len(answers') <= Len(answers)
        /\ ~ late' => Len(asked) = 0 /\ Len(answers') = 0
        /\ Len(answers') >= 1 => late' /\ answers' = answers
    <3>1. ~ late' => asked = <<>> /\ answers' = <<>>
      BY <2>1
    <3>2. answers' # <<>> => late' /\ answers' = answers
      BY <2>1
    <3>3. Len(<<>>) = 0 /\ <<>> \in Seq(Lines)
      OBVIOUS
    <3>4. CASE answers' = <<>>
      <4>1. Len(answers') = 0 /\ answers' \in Seq(Lines)
        BY <3>3, <3>4
      <4>2. ~ (Len(answers') >= 1)
        BY <4>1
      <4>3. Len(answers') \in Nat /\ Len(answers') <= Len(answers)
        BY <1>a, <4>1
      <4> QED
        BY <1>a, <3>1, <4>1, <4>2, <4>3
    <3>5. CASE answers' # <<>>
      <4>1. late' /\ answers' = answers
        BY <3>2, <3>5
      <4>2. Len(answers') \in Nat /\ Len(answers') <= Len(answers)
        BY <1>a, <4>1
      <4> QED
        BY <1>a, <4>1, <4>2
    <3> QED
      BY <3>4, <3>5
  <2>5. Len(asked) + Len(answers) <= 1
    BY <1>t, <2>1 DEF CountInv
  <2>6. LineTypeOK'
    BY <1>t, <2>1, <2>3, <2>4 DEF LineTypeOK
  <2>7. CountInv'
    BY <1>a, <2>3, <2>4, <2>5 DEF CountInv
  <2>8. LoadInv'
    <3>0. Len(answers') <= 1 /\ Len(answers) <= 1
      <4>1. /\ Len(asked) \in Nat /\ Len(answers) \in Nat /\ Len(answers') \in Nat
            /\ Len(answers') <= Len(answers) /\ Len(asked) + Len(answers) <= 1
        BY <1>a, <2>4, <2>5
      <4> QED
        BY <4>1
    <3>1. ~ (Len(answers') = 2)
      BY <3>0
    <3>2. Len(answers') >= 1 => answers'[1].load \in since
      <4> SUFFICES ASSUME Len(answers') >= 1 PROVE answers'[1].load \in since
        OBVIOUS
      <4>1. answers' = answers /\ Len(answers) \in Nat
        BY <1>a, <2>4
      <4>2. Len(answers) = 1
        <5>1. Len(answers) >= 1 /\ Len(answers) <= 1 /\ Len(answers) \in Nat
          BY <3>0, <4>1
        <5>2. \A n \in Nat : n <= 1 /\ n >= 1 => n = 1
          OBVIOUS
        <5> QED
          BY <5>1, <5>2
      <4> QED
        BY <1>t, <2>1, <4>1, <4>2 DEF LoadInv
    <3> QED
      BY <2>3, <2>4, <3>1, <3>2 DEF LoadInv
  <2>9. ToldInv'
    BY <2>3, <2>4 DEF ToldInv
  <2> QED
    BY <2>3, <2>6, <2>7, <2>8, <2>9 DEF LineInv
<1>3. CASE Repeat
  <2>1. /\ op = "keepalive" /\ NoLine /\ up' = up /\ late' = (late \/ asked # <<>>)
    BY <1>3 DEF Repeat
  <2>2. PICK due \in StillDue : Written("retry", due.commands) /\ answers' = due.lines
    BY <1>3 DEF Repeat
  <2>3. /\ due.commands \in Seq({"Q", "T", "R"}) /\ answers' \in Seq(Lines)
        /\ Len(due.commands) + Len(answers') = Len(asked) /\ Len(asked) <= 1
        /\ Len(due.commands) \in Nat /\ Len(answers') \in {0, 1}
        /\ asked = <<>> <=> Len(asked) = 0
        /\ Len(answers') >= 1 =>
             /\ asked # <<>> /\ answers'[1].load = load /\ answers'[1].kind = "other"
    BY <2>1, <2>2, DueFacts
  <2>4. PICK unanswered \in Seq({"Q", "T", "R"}) :
           unanswered = due.commands /\ Written("retry", unanswered)
    BY <2>2, <2>3
  <2>5. /\ op' = "retry" /\ load' \in since' /\ since' \subseteq before'
        /\ asked' \in Seq({"Q", "T", "R"}) /\ Len(asked') = Len(due.commands) + 1
        /\ since' \subseteq Loads /\ before' = since /\ before' \subseteq Loads
        /\ load' \in Loads /\ told' = None /\ did' = FALSE
        /\ AnswersBelong'
    BY <2>4, WrittenKeeps
  <2>6. LineTypeOK'
    BY <1>t, <2>1, <2>3, <2>5 DEF LineTypeOK
  <2>7. CountInv'
    <3>1. ~ late' => Len(asked) = 0
      BY <2>1, <2>3
    <3>2. op' # "none" /\ Len(asked') + Len(answers') = Len(asked) + 1
      BY <1>a, <2>3, <2>5
    <3> QED
      BY <1>a, <2>3, <3>1, <3>2 DEF CountInv
  <2>8. Len(answers') >= 1 => late'
    BY <2>1, <2>3
  <2>9. load \in since
    BY <1>t DEF LoadInv
  <2>10. LoadInv'
    BY <2>3, <2>5, <2>8, <2>9 DEF LoadInv
  <2>11. ToldInv'
    BY <2>5, <2>8 DEF ToldInv
  <2> QED
    BY <2>5, <2>6, <2>7, <2>10, <2>11 DEF LineInv
\* A caller returns: with a line, or giving up the port.
<1>4. CASE WeighReads
  <2>1. PICK outcome \in WeighOutcomes(Head(answers).kind) :
           /\ told' = IF outcome = "weight" THEN Head(answers).load ELSE None
           /\ IF outcome = "failed" THEN ClosePort ELSE UNCHANGED <<up, late>>
    BY <1>4 DEF WeighReads
  <2>2. /\ op = "weigh" /\ answers # <<>> /\ op' = "none" /\ answers' = Tail(answers)
        /\ UNCHANGED <<asked, load, did, since, before>>
    BY <1>4 DEF WeighReads
  <2>3. told' \in {Head(answers).load, None} /\ Head(answers).load \in Loads
    BY <1>a, <2>1, <2>2 DEF Lines
  <2>4. /\ answers' \in Seq(Lines) /\ CountInv' /\ LoadInv' /\ ToldInv'
        /\ Head(answers).load \in (IF late THEN before ELSE since)
        /\ late' = late /\ up' \in BOOLEAN
    <3>1. CASE outcome # "failed"
      <4>1. UNCHANGED <<up, late>>
        BY <2>1, <3>1
      <4> QED
        BY <1>t, <2>2, <4>1, ReadKeeps DEF LineTypeOK
    <3>2. CASE outcome = "failed"
      <4>1. up' = FALSE /\ late' = (late \/ asked # <<>>) /\ late \in BOOLEAN
        BY <1>t, <2>1, <3>2 DEF ClosePort, LineTypeOK
      <4>2. asked # <<>> => late
        BY <1>t, <1>a, <2>2 DEF CountInv
      <4>3. UNCHANGED late
        BY <4>1, <4>2
      <4> QED
        BY <2>2, <4>1, <4>3, ReadKeeps
    <3> QED
      BY <3>1, <3>2
  <2>5. LineTypeOK'
    BY <1>t, <2>2, <2>3, <2>4 DEF LineTypeOK
  <2>6. told' # "done" /\ (told' \in Loads => told' = Head(answers).load)
    BY <2>3, LineAssumption
  <2>7. AnswersBelong'
    BY <2>2, <2>4, <2>6 DEF AnswersBelong
  <2> QED
    BY <2>4, <2>5, <2>7 DEF LineInv
<1>5. CASE AckReads
  <2>1. /\ op \in {"tare", "zero"} /\ answers # <<>> /\ op' = "none"
        /\ told' = IF Ack(Head(answers).kind) THEN "done" ELSE None
        /\ answers' = Tail(answers)
        /\ UNCHANGED <<up, asked, load, did, since, before, late>>
    BY <1>5 DEF AckReads
  <2>2. /\ answers' \in Seq(Lines) /\ CountInv' /\ LoadInv' /\ ToldInv'
        /\ Ack(Head(answers).kind) => did \/ late
    BY <2>1, ReadKeeps
  <2>3. LineTypeOK'
    BY <1>t, <2>1, <2>2 DEF LineTypeOK
  <2>4. told' \notin Loads /\ (told' = "done" => Ack(Head(answers).kind))
    BY <2>1, LineAssumption
  <2>5. AnswersBelong'
    BY <2>1, <2>2, <2>4 DEF AnswersBelong
  <2> QED
    BY <2>2, <2>3, <2>5 DEF LineInv
<1>6. CASE CheckReads
  <2>1. /\ op \in {"keepalive", "retry", "probe"} /\ answers # <<>>
        /\ op' = "none" /\ up' = TRUE /\ answers' = Tail(answers)
        /\ UNCHANGED <<asked, load, did, told, since, before, late>>
    BY <1>6 DEF CheckReads
  <2>2. /\ answers' \in Seq(Lines) /\ CountInv' /\ LoadInv' /\ ToldInv'
        /\ Ack(Head(answers).kind) => did \/ late
    BY <2>1, ReadKeeps
  <2>3. LineTypeOK'
    BY <1>t, <2>1, <2>2 DEF LineTypeOK
  <2>4. AnswersBelong'
    BY <1>t, <2>1 DEF AnswersBelong
  <2> QED
    BY <2>2, <2>3, <2>4 DEF LineInv
<1>7. CASE Timeout
  <2>1. /\ op # "none" /\ op' = "none" /\ NoLine /\ ClosePort
        /\ UNCHANGED <<load, did, told, since, before>>
    BY <1>7 DEF Timeout
  <2>2. PICK due \in StillDue : asked' = due.commands /\ answers' = due.lines
    BY <1>7 DEF Timeout
  <2> QED
    BY <2>1, <2>2, CloseKeeps
\* The scale.
<1>8. ASSUME NEW kind \in Kinds, load' \in Loads, Answer(kind), asked # <<>>,
             \/ load' = load /\ UNCHANGED <<since, before>>
             \/ since' = since \cup {load'} /\ before' = before \cup {load'},
             UNCHANGED <<up, op, told, late>>
      PROVE  LineInv'
  <2> DEFINE line == [kind |-> kind, load |-> load']
  <2>0. ~ late => Len(asked) = 1
    <3>1. Len(asked) >= 1 /\ Len(asked) \in Nat /\ Len(answers) \in Nat
      BY <1>a, <1>8
    <3> SUFFICES ASSUME ~ late PROVE Len(asked) = 1
      OBVIOUS
    <3>2. Len(asked) + Len(answers) <= 1
      BY <1>t DEF CountInv
    <3>3. \A m, n \in Nat : m + n <= 1 /\ m >= 1 => m = 1
      OBVIOUS
    <3> QED
      BY <3>1, <3>2, <3>3
  <2>1. line \in Lines /\ line.load = load' /\ line.kind = kind
    BY <1>8 DEF Lines
  <2>2. asked' = Tail(asked) /\ answers' = Append(answers, line) /\ did' = (Len(asked) = 1)
    BY <1>8 DEF Answer
  <2>3. /\ answers' \in Seq(Lines) /\ Len(answers') = Len(answers) + 1
        /\ \A i \in 1 .. Len(answers) : answers'[i] = answers[i]
        /\ answers'[Len(answers) + 1] = line
    BY <1>a, <2>1, <2>2, SeqFacts
  <2>4. load' \in since' /\ since' \subseteq before' /\ since \subseteq since' /\ before \subseteq before'
    BY <1>t, <1>8 DEF LoadInv
  <2> HIDE DEF line
  <2>5. LineTypeOK'
    BY <1>t, <1>a, <1>8, <2>2, <2>3 DEF LineTypeOK
  <2>6. CountInv'
    BY <1>t, <1>a, <1>8, <2>2, <2>3 DEF CountInv
  <2>7. LoadInv'
    <3>1. op' = "none" /\ Len(answers') = 1 => answers'[1].load \in since'
      BY <1>a, <2>1, <2>3, <2>4
    <3>2. Len(answers') >= 1 => answers'[1].load \in (IF late' THEN before' ELSE since')
      <4>1. CASE Len(answers) = 0
        BY <4>1, <2>1, <2>3, <2>4
      <4>2. CASE Len(answers) >= 1
        BY <4>2, <1>t, <1>8, <2>3, <2>4 DEF LoadInv
      <4> QED
        BY <4>1, <4>2, <1>a
    <3>3. Len(answers') = 2 => answers'[2].load \in since'
      BY <1>a, <2>1, <2>3, <2>4
    <3> QED
      BY <2>4, <3>1, <3>2, <3>3 DEF LoadInv
  <2>8. ToldInv'
    <3>1. op' # "none" => told' = None
      BY <1>t, <1>8 DEF ToldInv
    <3>2. ~ late => Len(asked) = 1
      BY <1>8, <2>0
    <3> QED
      BY <3>1, <3>2, <1>8, <2>2 DEF ToldInv
  <2>9. AnswersBelong'
    <3>1. ~ late => did'
      BY <1>8, <2>0, <2>2
    <3> QED
      BY <1>t, <1>8, <2>4, <3>1 DEF AnswersBelong
  <2> QED
    BY <2>5, <2>6, <2>7, <2>8, <2>9 DEF LineInv
<1>9. CASE Weighs \/ Tares
  <2>1. CASE Weighs
    <3>1. PICK kind \in {"ST", "US", "OL"} : Answer(kind)
      BY <2>1 DEF Weighs
    <3>2. kind \in Kinds /\ load' \in Loads /\ asked # <<>> /\ load' = load
          /\ UNCHANGED <<since, before>> /\ UNCHANGED <<up, op, told, late>>
      BY <1>t, <2>1 DEF Weighs, Kinds, LineTypeOK
    <3> QED
      BY <1>8, <3>1, <3>2
  <2>2. CASE Tares
    <3>1. PICK kind \in {"TA", "ZR"} : Answer(kind)
      BY <2>2 DEF Tares
    <3>2. kind \in Kinds /\ load' \in Loads /\ asked # <<>>
          /\ since' = since \cup {load'} /\ before' = before \cup {load'}
          /\ UNCHANGED <<up, op, told, late>>
      BY <2>2 DEF Tares, Kinds
    <3> QED
      BY <1>8, <3>1, <3>2
  <2> QED
    BY <1>9, <2>1, <2>2
<1>10. CASE Refuses
  <2> DEFINE line == [kind |-> "other", load |-> load]
  <2>1. line \in Lines /\ line.load = load /\ line.kind = "other"
    BY <1>t DEF LineTypeOK, Lines, Kinds
  <2>2. asked # <<>> /\ asked' = Tail(asked) /\ answers' \in {answers, Append(answers, line)}
        /\ UNCHANGED <<up, op, load, did, told, since, before, late>>
    BY <1>10 DEF Refuses
  <2>3. CASE answers' = answers
    <3>1. LineTypeOK'
      BY <1>t, <1>a, <2>2, <2>3 DEF LineTypeOK
    <3>2. CountInv' /\ LoadInv' /\ ToldInv' /\ AnswersBelong'
      BY <1>t, <1>a, <2>2, <2>3 DEF CountInv, LoadInv, ToldInv, AnswersBelong
    <3> QED
      BY <3>1, <3>2 DEF LineInv
  <2>4. CASE answers' = Append(answers, line)
    <3>1. /\ answers' \in Seq(Lines) /\ Len(answers') = Len(answers) + 1
          /\ \A i \in 1 .. Len(answers) : answers'[i] = answers[i]
          /\ answers'[Len(answers) + 1] = line
      BY <1>a, <2>1, <2>4, SeqFacts
    <3> HIDE DEF line
    <3>2. LineTypeOK'
      BY <1>t, <1>a, <2>2, <3>1 DEF LineTypeOK
    <3>3. CountInv'
      BY <1>t, <1>a, <2>2, <3>1 DEF CountInv
    <3>4. CASE Len(answers) = 0
      <4>1. Len(answers') = 1 /\ answers'[1] = line
        BY <3>1, <3>4
      <4> QED
        BY <1>t, <2>1, <2>2, <3>2, <3>3, <4>1
        DEF LineInv, LoadInv, ToldInv, AnswersBelong, Ack
    <3>5. CASE Len(answers) >= 1
      <4>1. answers'[1] = answers[1] /\ Len(answers') >= 2
            /\ (Len(answers') = 2 => answers'[2] = line)
        BY <1>a, <3>1, <3>5
      <4> QED
        BY <1>t, <2>1, <2>2, <3>2, <3>3, <3>5, <4>1
        DEF LineInv, LoadInv, ToldInv, AnswersBelong
    <3> QED
      BY <1>a, <3>4, <3>5
  <2> QED
    BY <2>2, <2>3, <2>4
<1>11. CASE ChangeLoad
  <2>1. /\ load' \in Loads
        /\ since' = since \cup {load'} /\ before' = before \cup {load'}
        /\ UNCHANGED <<up, op, asked, answers, did, told, late>>
    BY <1>11 DEF ChangeLoad
  <2>2. LineTypeOK'
    BY <1>t, <2>1 DEF LineTypeOK
  <2>3. CountInv' /\ LoadInv' /\ ToldInv' /\ AnswersBelong'
    BY <1>t, <2>1 DEF CountInv, LoadInv, ToldInv, AnswersBelong
  <2> QED
    BY <2>2, <2>3 DEF LineInv
<1>12. CASE UNCHANGED lineVars
  BY <1>t, <1>12
  DEF lineVars, LineInv, LineTypeOK, CountInv, LoadInv, ToldInv, AnswersBelong
<1> QED
  BY <1>1, <1>2, <1>3, <1>4, <1>5, <1>6, <1>7, <1>9, <1>10, <1>11, <1>12 DEF LineNext

LEMMA LineStart == LineInit => LineInv
<1> SUFFICES ASSUME LineInit PROVE LineInv
  OBVIOUS
<1>1. Len(asked) = 0 /\ Len(answers) = 0
  BY DEF LineInit
<1>2. LineTypeOK
  <2>1. <<>> \in Seq({"Q", "T", "R"}) /\ <<>> \in Seq(Lines)
    OBVIOUS
  <2> QED
    BY <2>1 DEF LineInit, LineTypeOK
<1> QED
  BY <1>1, <1>2, LineAssumption
  DEF LineInit, LineInv, CountInv, LoadInv, ToldInv, AnswersBelong, Due

LEMMA LineInvariant == LineSpec => []LineInv
<1>1. LineInv /\ [LineNext]_lineVars => LineInv'
  BY LineStep
<1> QED
  BY <1>1, LineStart, PTL DEF LineSpec

\* Every variable of the line keeps its type.
THEOREM LineTypes == LineSpec => []LineTypeOK
<1>1. LineInv => LineTypeOK
  BY DEF LineInv
<1> QED
  BY <1>1, LineInvariant, PTL

\* However often a keepalive or a reconnect fails, the next command finds at most
\* one answer before its own: neither the repeat of watchdogCheck nor a port
\* opened again at once can let the line fall behind further and further.
THEOREM NeverFurtherBehind == LineSpec => []OneBehind
<1>1. LineInv => OneBehind
  BY DEF LineInv, CountInv, OneBehind, Due
<1> QED
  BY <1>1, LineInvariant, PTL

\* A caller is told a weight of its own command, and an acknowledged tare or zero
\* was carried out; after a keepalive was repeated, or the port closed and opened
\* again, while an answer was due, the weight is at worst of the command before.
THEOREM AnswersRight == LineSpec => []AnswersBelong
<1>1. LineInv => AnswersBelong
  BY DEF LineInv
<1> QED
  BY <1>1, LineInvariant, PTL
=============================================================================
