---------------------------- MODULE FrameReader ----------------------------
(***************************************************************************)
(* readFrames, which finds the printer's status frames in whatever pieces   *)
(* reads return.  A frame begins with two head bytes (0x80 0x20) and is      *)
(* FrameSize long; anything may come before, between and after frames.      *)
(***************************************************************************)
EXTENDS Naturals, Sequences, SequencesExt

CONSTANTS
    Head1, Head2,  \* 0x80 and 0x20
    Payload,       \* other bytes
    FrameSize,     \* StatusSize (32)
    StreamLength   \* how many bytes the printer sends

Bytes == {Head1, Head2} \cup Payload

ASSUME FrameAssumption ==
    /\ Head1 # Head2 /\ {Head1, Head2} \cap Payload = {}
    /\ FrameSize \in Nat /\ FrameSize >= 2
    /\ StreamLength \in Nat

VARIABLES
    sent,   \* what the printer sends in all
    got,    \* how many bytes of it have been read
    buf,    \* bytes read and not dealt with
    frames  \* frames passed on

frameVars == <<sent, got, buf, frames>>

\* Where the first frame head of the bytes from i on is, 0 if there is none.
HeadFrom(s, i) ==
    LET at == {k \in i .. Len(s) - 1 : s[k] = Head1 /\ s[k + 1] = Head2}
    IN  IF at = {} THEN 0 ELSE CHOOSE k \in at : \A j \in at : k <= j

\* Mutant: without a head the buffer is emptied, a first half of one included.
RestEmpty(s, i) ==
    IF HeadFrom(s, i) = 0 THEN <<>> ELSE SubSeq(s, HeadFrom(s, i), Len(s))

\* What is kept of a buffer without a whole frame from i on: the frame that has
\* begun, or a last byte that may begin one.
Rest(s, i) ==
    IF HeadFrom(s, i) # 0 THEN SubSeq(s, HeadFrom(s, i), Len(s))
    ELSE IF i <= Len(s) /\ s[Len(s)] = Head1 THEN <<Head1>> ELSE <<>>

\* One turn of the loop over the buffer, at i: the frames from there on and what is
\* left, where next[j] is what the turn at j gives.
Turn(s, next, i) ==
    LET head == HeadFrom(s, i)
        end  == head + FrameSize
    IN  IF head = 0 \/ end > Len(s) + 1 THEN [frames |-> <<>>, rest |-> Rest(s, i)]
        ELSE [frames |-> <<SubSeq(s, head, end - 1)>> \o next[end].frames,
              rest   |-> next[end].rest]

Turns(s) ==
    LET from[i \in 1 .. Len(s) + 1] == Turn(s, from, i) IN from

\* Mutant: a frame is passed on before its last byte has come.
ExtractTorn(s) ==
    IF HeadFrom(s, 1) = 0 THEN [frames |-> <<>>, rest |-> Rest(s, 1)]
    ELSE [frames |-> <<SubSeq(s, HeadFrom(s, 1), Len(s))>>, rest |-> <<>>]

\* The frames of a buffer and what is left of it.
Extract(s) == Turns(s)[1]

FrameInit ==
    /\ sent \in [1 .. StreamLength -> Bytes]
    /\ got = 0 /\ buf = <<>> /\ frames = <<>>

\* A read returns the next bytes, any number of them; one that returns nothing
\* changes nothing.
ReadChunk ==
    \E n \in got + 1 .. StreamLength :
        LET all == buf \o SubSeq(sent, got + 1, n) IN
        /\ got' = n
        /\ frames' = frames \o Extract(all).frames
        /\ buf' = Extract(all).rest
        /\ UNCHANGED sent

FrameNext == ReadChunk

FrameSpec == FrameInit /\ [][FrameNext]_frameVars

FrameTypeOK ==
    /\ got \in 0 .. StreamLength
    /\ buf \in Seq(Bytes)
    /\ frames \in Seq([1 .. FrameSize -> Bytes])

-----------------------------------------------------------------------------
\* Whether a frame starts at i of a stream, if others start at the positions starts:
\* it is there as a whole, and none of the others is over it.
IsFrameStart(s, starts, i) ==
    /\ i + FrameSize - 1 <= Len(s)
    /\ s[i] = Head1 /\ s[i + 1] = Head2
    /\ \A k \in starts : k < i => k + FrameSize <= i

\* The frames passed on are those that somebody who sees all of the stream finds,
\* each starting at the first head after the last, whatever pieces it was read in:
\* a head, a frame or what is between them may be torn anywhere, and no byte
\* counts for two frames or is held back.
FramesFound ==
    LET s == SubSeq(sent, 1, got) IN
    /\ \E at \in [DOMAIN frames -> 1 .. got] :
          /\ \A j, k \in DOMAIN frames : j < k => at[j] < at[k]
          /\ {at[k] : k \in DOMAIN frames}
                = {i \in 1 .. got : IsFrameStart(s, {at[k] : k \in DOMAIN frames}, i)}
          /\ \A k \in DOMAIN frames : frames[k] = SubSeq(s, at[k], at[k] + FrameSize - 1)
    /\ Len(buf) < FrameSize
=============================================================================
