---------------------------- MODULE ScannerProofs ----------------------------
(***************************************************************************)
(* What TLAPS proves about the barcode scanner, for any kind of scan, any   *)
(* number of scans and of polls, and a reader that is unplugged at any time. *)
(***************************************************************************)
EXTENDS Scanner, SequenceTheorems, TLAPS

-----------------------------------------------------------------------------
\* a was typed before b.
Before(a, b) == a.scan < b.scan \/ (a.scan = b.scan /\ a.pos < b.pos)

NotAfter(a, b) == a.scan < b.scan \/ (a.scan = b.scan /\ a.pos <= b.pos)

Sorted(s) == \A i, j \in DOMAIN s : i < j => Before(s[i], s[j])

AllBefore(s, t) == \A i \in DOMAIN s, j \in DOMAIN t : Before(s[i], t[j])

\* The newest scan that is kept or was handed out, and what comes after it.
Newer(n) == n > given /\ (latest # <<>> => n > latest[1].scan)

\* Types of what the order is about.
KeyTypes ==
    /\ typing \in [scan : 0 .. MaxScans, pos : 1 .. Len(Program)]
    /\ kbuf \in Seq(Events) /\ hand \in Seq(Events) /\ data \in Seq(Events)
    /\ current \in Seq(Chars) /\ latest \in Seq(Chars)
    /\ given \in Nat

\* The events on their way stay in the order they were typed in, through the
\* kernel's buffer, the goroutine's batch and the loop's.
InOrder ==
    /\ Sorted(data) /\ Sorted(hand) /\ Sorted(kbuf)
    /\ AllBefore(data, hand) /\ AllBefore(data, kbuf) /\ AllBefore(hand, kbuf)
    /\ \A s \in {data, hand, kbuf} : AllBefore(current, s)
    /\ \A s \in {data, hand, kbuf, current} : \A i \in DOMAIN s : NotAfter(s[i], typing)

\* Everything on its way is of a newer scan than the one that is kept, and that
\* one is newer than the last one handed out.
AllNewer ==
    /\ latest # <<>> => latest[1].scan > given
    /\ \A s \in {data, hand, kbuf, current} : \A i \in DOMAIN s : Newer(s[i].scan)
    /\ typing.scan >= given /\ (latest # <<>> => typing.scan >= latest[1].scan)
    /\ typing.pos < Len(Program) => Newer(typing.scan)

ScanInv == KeyTypes /\ InOrder /\ AllNewer

\* A scan is at least an Enter, which is its only one and its last event.
LEMMA ProgramIs ==
    /\ Len(Program) \in Nat /\ Len(Program) >= 1
    /\ 1 \in 1 .. Len(Program) /\ Len(Program) \in 1 .. Len(Program)
    /\ DOMAIN Program = 1 .. Len(Program) /\ MaxScans \in Nat
<1>1. Len(Program) \in Nat /\ Len(Program) >= 1 /\ DOMAIN Program = 1 .. Len(Program)
  BY ScannerAssumption
<1>2. \A n \in Nat : n >= 1 => 1 \in 1 .. n /\ n \in 1 .. n
  OBVIOUS
<1> QED
  BY <1>1, <1>2, ScannerAssumption

LEMMA EventIs ==
    /\ \A e \in Events : e.scan \in Nat /\ e.pos \in 1 .. Len(Program)
    /\ \A c \in Chars : c.scan \in Nat /\ c.pos \in 1 .. Len(Program)
<1>1. \A e \in Events \cup Chars : e.scan \in 1 .. MaxScans /\ e.pos \in DOMAIN Program
  BY DEF Events, Chars, Scans
<1>2. \A n \in 1 .. MaxScans : n \in Nat
  OBVIOUS
<1> QED
  BY <1>1, <1>2, ProgramIs

\* What an empty sequence, an appended event and a handled one do to the order.
LEMMA SeqOrder ==
    ASSUME NEW s \in Seq(Events)
    PROVE  /\ <<>> \in Seq(Events) /\ <<>> \in Seq(Chars) /\ DOMAIN <<>> = {}
           /\ DOMAIN s = 1 .. Len(s) /\ Len(s) \in Nat
           /\ s # <<>> => /\ Head(s) = s[1] /\ Head(s) \in Events /\ 1 \in DOMAIN s
                          /\ Tail(s) \in Seq(Events)
                          /\ \A i \in DOMAIN Tail(s) :
                                i \in Nat /\ i + 1 \in DOMAIN s /\ 1 < i + 1 /\ Tail(s)[i] = s[i + 1]
  OBVIOUS

LEMMA TailOrder ==
    ASSUME NEW s \in Seq(Events), s # <<>>, Sorted(s)
    PROVE  /\ Tail(s) \in Seq(Events) /\ Sorted(Tail(s))
           /\ Head(s) \in Events /\ Head(s) = s[1] /\ 1 \in DOMAIN s
           /\ \A i \in DOMAIN Tail(s) : Before(Head(s), Tail(s)[i])
           /\ \A i \in DOMAIN Tail(s) : \E k \in DOMAIN s : Tail(s)[i] = s[k]
  BY SeqOrder DEF Sorted

LEMMA AppendOrder ==
    ASSUME NEW S, NEW s \in Seq(S), NEW e \in S
    PROVE  /\ Append(s, e) \in Seq(S)
           /\ \A i \in DOMAIN Append(s, e) :
                 \/ i \in DOMAIN s /\ Append(s, e)[i] = s[i]
                 \/ i = Len(s) + 1 /\ Append(s, e)[i] = e
           /\ Len(s) \in Nat /\ DOMAIN s = 1 .. Len(s)
           /\ s # <<>> => Append(s, e)[1] = s[1]
           /\ s = <<>> => Append(s, e)[1] = e
           /\ Append(s, e) # <<>>
<1>1. Append(s, e) \in Seq(S) /\ Len(Append(s, e)) = Len(s) + 1 /\ Len(s) \in Nat
  OBVIOUS
<1>2. /\ DOMAIN s = 1 .. Len(s) /\ DOMAIN Append(s, e) = 1 .. Len(s) + 1
      /\ \A i \in 1 .. Len(s) : Append(s, e)[i] = s[i]
      /\ Append(s, e)[Len(s) + 1] = e
  OBVIOUS
<1>3. \A i \in DOMAIN Append(s, e) : i \in DOMAIN s \/ i = Len(s) + 1
  BY <1>1, <1>2
<1>4. s # <<>> => 1 \in 1 .. Len(s)
  OBVIOUS
<1>5. s = <<>> => Len(s) + 1 = 1
  OBVIOUS
<1>6. Append(s, e) # <<>>
  BY <1>1
<1> QED
  BY <1>1, <1>2, <1>3, <1>4, <1>5, <1>6

LEMMA ScanStart == ScannerInit => ScanInv
<1> SUFFICES ASSUME ScannerInit PROVE ScanInv
  OBVIOUS
<1>1. KeyTypes
  <2>1. /\ typing = [scan |-> 0, pos |-> Len(Program)] /\ given = 0
        /\ kbuf = <<>> /\ hand = <<>> /\ data = <<>> /\ current = <<>> /\ latest = <<>>
    BY DEF ScannerInit
  <2>2. 0 \in 0 .. MaxScans /\ 0 \in Nat /\ Len(Program) \in 1 .. Len(Program)
    BY ProgramIs
  <2>3. <<>> \in Seq(Events) /\ <<>> \in Seq(Chars)
    OBVIOUS
  <2> QED
    BY <2>1, <2>2, <2>3 DEF KeyTypes
<1> QED
  BY <1>1, ProgramIs
  DEF ScannerInit, ScanInv, InOrder, AllNewer, Sorted, AllBefore, Newer

-----------------------------------------------------------------------------
\* The kernel's buffer is emptied, and the rest of a scan may not be typed.
LEMMA UnplugKeeps ==
    ASSUME ScanInv, kbuf' = <<>>,
           typing' = typing \/ typing' = [typing EXCEPT !.pos = Len(Program)],
           UNCHANGED <<hand, data, current, latest, given>>
    PROVE  ScanInv'
<1> USE DEF ScanInv
<1>1. /\ typing' \in [scan : 0 .. MaxScans, pos : 1 .. Len(Program)]
      /\ typing'.scan = typing.scan /\ typing.pos <= typing'.pos
      /\ typing' = typing \/ typing'.pos = Len(Program)
  BY ProgramIs DEF KeyTypes
<1>2. KeyTypes'
  BY <1>1 DEF KeyTypes
<1>3. InOrder'
  <2>1. /\ Sorted(data') /\ Sorted(hand') /\ Sorted(kbuf')
        /\ AllBefore(data', hand') /\ AllBefore(data', kbuf') /\ AllBefore(hand', kbuf')
        /\ \A t \in {data', hand', kbuf'} : AllBefore(current', t)
    BY DEF InOrder, Sorted, AllBefore
  <2>2. ASSUME NEW t \in {data', hand', kbuf', current'}, NEW i \in DOMAIN t
        PROVE  NotAfter(t[i], typing')
    <3>1. t \in {data, hand, current} /\ t \in Seq(Events) \cup Seq(Chars)
      BY <2>2 DEF KeyTypes
    <3>2. NotAfter(t[i], typing)
      BY <2>2, <3>1 DEF InOrder
    <3>3. t[i] \in Events \cup Chars
      BY <2>2, <3>1
    <3>4. t[i].scan \in Nat /\ t[i].pos \in 1 .. Len(Program)
      BY <3>3, EventIs
    <3> QED
      BY <1>1, <3>2, <3>4, ProgramIs DEF NotAfter, KeyTypes
  <2> QED
    BY <2>1, <2>2 DEF InOrder
<1>4. AllNewer'
  BY <1>1, ProgramIs DEF AllNewer, Newer
<1> QED
  BY <1>2, <1>3, <1>4

\* A scan goes on, or the next begins.
LEMMA TypeKeeps ==
    ASSUME ScanInv, Type
    PROVE  ScanInv'
<1> USE DEF ScanInv
<1>1. /\ typing.scan \in 0 .. MaxScans /\ typing.pos \in 1 .. Len(Program)
      /\ typing = [scan |-> typing.scan, pos |-> typing.pos]
  BY DEF KeyTypes
<1>0. typing.scan \in Nat
  BY <1>1
<1>2. \/ /\ typing.pos < Len(Program)
         /\ typing' = [scan |-> typing.scan, pos |-> typing.pos + 1]
      \/ /\ typing.scan < MaxScans
         /\ typing' = [scan |-> typing.scan + 1, pos |-> 1]
  BY <1>1 DEF Type
<1>3. /\ UNCHANGED <<hand, data, current, latest, given>>
      /\ kbuf' \in {kbuf, Append(kbuf, typing')}
  BY DEF Type, goroutine, keys
<1>4. /\ typing' \in [scan : 0 .. MaxScans, pos : 1 .. Len(Program)]
      /\ Before(typing, typing') /\ typing'.scan >= typing.scan
      /\ typing'.scan \in Nat /\ (typing.pos < Len(Program) \/ typing'.scan > typing.scan)
  <2>1. CASE typing.pos < Len(Program) /\ typing' = [scan |-> typing.scan, pos |-> typing.pos + 1]
    <3>1. typing.pos + 1 \in 1 .. Len(Program) /\ typing.pos < typing.pos + 1
      BY <1>1, <2>1, ProgramIs
    <3> QED
      BY <1>1, <2>1, <3>1 DEF Before
  <2>2. CASE typing.scan < MaxScans /\ typing' = [scan |-> typing.scan + 1, pos |-> 1]
    <3>1. 1 \in 1 .. Len(Program)
      BY ProgramIs
    <3>2. typing.scan + 1 \in 0 .. MaxScans /\ typing.scan < typing.scan + 1
      BY <1>1, <1>2, <2>2, ProgramIs
    <3> QED
      BY <1>1, <2>2, <3>1, <3>2 DEF Before
  <2> QED
    BY <1>2, <2>1, <2>2
\* What is typed is newer than what is kept or was handed out.
<1>5. Newer(typing'.scan)
  <2>1. /\ given \in Nat /\ (latest # <<>> => latest[1].scan \in Nat)
    <3>1. latest # <<>> => latest[1] \in Chars
      BY DEF KeyTypes
    <3> QED
      BY <3>1, EventIs DEF KeyTypes
  <2> QED
    BY <1>1, <1>4, <2>1 DEF AllNewer, Newer, KeyTypes
\* ... and comes after every event on its way.
<1>6. ASSUME NEW t \in {data, hand, kbuf, current}, NEW i \in DOMAIN t
      PROVE  Before(t[i], typing') /\ NotAfter(t[i], typing')
  <2>1. t \in Seq(Events) \cup Seq(Chars)
    BY DEF KeyTypes
  <2>2. t[i] \in Events \cup Chars
    BY <2>1
  <2>3. t[i].scan \in Nat /\ t[i].pos \in Nat /\ typing'.scan \in Nat /\ typing'.pos \in Nat
    BY <1>4, <2>2, EventIs
  <2>4. NotAfter(t[i], typing)
    BY <1>6 DEF InOrder
  <2>5. typing.pos \in Nat
    BY <1>1
  <2> QED
    BY <1>1, <1>4, <2>3, <2>4, <2>5 DEF Before, NotAfter
<1>7. typing' \in Events
  <2>1. typing'.scan > given /\ given \in Nat
    BY <1>5 DEF Newer, KeyTypes
  <2>2. typing'.scan \in 1 .. MaxScans
    <3>1. \A n, m, k \in Nat : n \in 0 .. m /\ n > k => n \in 1 .. m
      OBVIOUS
    <3> QED
      BY <1>4, <2>1, <3>1, ProgramIs
  <2> QED
    BY <1>4, <2>2, ProgramIs DEF Events, Scans
<1>8. /\ given' = given /\ latest' = latest
      /\ \A n : Newer(n) <=> Newer(n)'
  BY <1>3 DEF Newer
<1>n. /\ latest' # <<>> => latest'[1].scan > given'
      /\ typing'.scan >= given' /\ (latest' # <<>> => typing'.scan >= latest'[1].scan)
      /\ typing'.pos < Len(Program) =>
            typing'.scan > given' /\ (latest' # <<>> => typing'.scan > latest'[1].scan)
  <2>1. \A n, m \in Nat : n > m => n >= m
    OBVIOUS
  <2>2. given \in Nat /\ (latest # <<>> => latest[1].scan \in Nat)
    <3>1. latest # <<>> => latest[1] \in Chars
      BY DEF KeyTypes
    <3> QED
      BY <3>1, EventIs DEF KeyTypes
  <2> QED
    BY <1>4, <1>5, <1>8, <2>1, <2>2 DEF AllNewer, Newer
<1>9. CASE kbuf' = kbuf
  <2>1. KeyTypes'
    BY <1>3, <1>4, <1>9 DEF KeyTypes
  <2>2. InOrder'
    <3>1. \A t \in {data', hand', kbuf', current'} : \A i \in DOMAIN t : NotAfter(t[i], typing')
      BY <1>3, <1>6, <1>9
    <3>2. UNCHANGED <<data, hand, kbuf, current>>
      BY <1>3, <1>9
    <3> QED
      BY <3>1, <3>2 DEF InOrder
  <2>3. AllNewer'
    BY <1>3, <1>n, <1>9 DEF AllNewer, Newer
  <2> QED
    BY <2>1, <2>2, <2>3
<1>10. CASE kbuf' = Append(kbuf, typing')
  <2>1. /\ kbuf' \in Seq(Events) /\ Len(kbuf) \in Nat /\ DOMAIN kbuf = 1 .. Len(kbuf)
        /\ \A i \in DOMAIN kbuf' :
              \/ i \in DOMAIN kbuf /\ kbuf'[i] = kbuf[i]
              \/ i = Len(kbuf) + 1 /\ kbuf'[i] = typing'
    <3>1. kbuf \in Seq(Events)
      BY DEF KeyTypes
    <3> QED
      BY <1>7, <1>10, <3>1, AppendOrder
  <2>2. KeyTypes'
    BY <1>3, <1>4, <2>1 DEF KeyTypes
  <2>3. Sorted(kbuf')
    <3> SUFFICES ASSUME NEW i \in DOMAIN kbuf', NEW k \in DOMAIN kbuf', i < k
                 PROVE  Before(kbuf'[i], kbuf'[k])
      BY DEF Sorted
    <3>1. i \in DOMAIN kbuf /\ kbuf'[i] = kbuf[i]
      BY <2>1
    <3>2. CASE k \in DOMAIN kbuf /\ kbuf'[k] = kbuf[k]
      BY <3>1, <3>2 DEF InOrder, Sorted
    <3>3. CASE kbuf'[k] = typing'
      BY <1>6, <3>1, <3>3
    <3> QED
      BY <2>1, <3>2, <3>3
  <2>4. ASSUME NEW t \in {data, hand, current} PROVE AllBefore(t, kbuf')
    <3> SUFFICES ASSUME NEW i \in DOMAIN t, NEW k \in DOMAIN kbuf'
                 PROVE  Before(t[i], kbuf'[k])
      BY DEF AllBefore
    <3>1. AllBefore(t, kbuf)
      BY <2>4 DEF InOrder
    <3>2. CASE k \in DOMAIN kbuf /\ kbuf'[k] = kbuf[k]
      BY <3>1, <3>2 DEF AllBefore
    <3>3. CASE kbuf'[k] = typing'
      BY <1>6, <2>4, <3>3
    <3> QED
      BY <2>1, <3>2, <3>3
  <2>5. ASSUME NEW i \in DOMAIN kbuf' PROVE NotAfter(kbuf'[i], typing') /\ Newer(kbuf'[i].scan)
    <3>1. NotAfter(typing', typing')
      BY <1>4, EventIs, <1>7 DEF NotAfter
    <3>2. CASE i \in DOMAIN kbuf /\ kbuf'[i] = kbuf[i]
      BY <1>6, <3>2 DEF AllNewer
    <3>3. CASE kbuf'[i] = typing'
      BY <1>5, <3>1, <3>3
    <3> QED
      BY <2>1, <3>2, <3>3
  <2>6. InOrder'
    BY <1>3, <1>6, <2>3, <2>4, <2>5 DEF InOrder
  <2>7. AllNewer'
    <3>1. \A t \in {data', hand', kbuf', current'} : \A i \in DOMAIN t : Newer(t[i].scan)
      BY <1>3, <2>5 DEF AllNewer
    <3> QED
      BY <1>3, <1>n, <3>1 DEF AllNewer, Newer
  <2> QED
    BY <2>2, <2>6, <2>7
<1> QED
  BY <1>3, <1>9, <1>10

\* What was typed is passed on as it is, or dropped with the device.
LEMMA PassKeeps ==
    ASSUME ScanInv, UNCHANGED <<typing, latest, given>>,
           \/ hand = <<>> /\ hand' = kbuf /\ kbuf' = <<>> /\ UNCHANGED <<data, current>>
           \/ data = <<>> /\ data' = hand /\ hand' = <<>> /\ UNCHANGED <<kbuf, current>>
           \/ data' = <<>> /\ hand' = <<>> /\ kbuf' = <<>> /\ current' = <<>>
    PROVE  ScanInv'
<1> USE DEF ScanInv
<1>0. /\ <<>> \in Seq(Events) /\ <<>> \in Seq(Chars)
      /\ Sorted(<<>>) /\ \A t : AllBefore(<<>>, t) /\ AllBefore(t, <<>>)
  BY DEF Sorted, AllBefore
<1>1. /\ {data', hand', kbuf'} \subseteq {data, hand, kbuf, <<>>}
      /\ current' \in {current, <<>>}
  OBVIOUS
<1>2. KeyTypes'
  BY <1>0 DEF KeyTypes
<1>3. InOrder'
  <2>1. /\ Sorted(data') /\ Sorted(hand') /\ Sorted(kbuf')
        /\ AllBefore(data', hand') /\ AllBefore(data', kbuf') /\ AllBefore(hand', kbuf')
        /\ \A t \in {data', hand', kbuf'} : AllBefore(current', t)
    BY <1>0 DEF InOrder
  <2>2. ASSUME NEW t \in {data', hand', kbuf', current'}, NEW i \in DOMAIN t
        PROVE  NotAfter(t[i], typing')
    <3>1. t \in {data, hand, kbuf, current}
      BY <1>1, <2>2
    <3> QED
      BY <2>2, <3>1 DEF InOrder
  <2> QED
    BY <2>1, <2>2 DEF InOrder
<1>4. AllNewer'
  <2>1. ASSUME NEW t \in {data', hand', kbuf', current'}, NEW i \in DOMAIN t
        PROVE  Newer(t[i].scan)
    <3>1. t \in {data, hand, kbuf, current}
      BY <1>1, <2>1
    <3> QED
      BY <2>1, <3>1 DEF AllNewer
  <2> QED
    BY <2>1 DEF AllNewer, Newer
<1> QED
  BY <1>2, <1>3, <1>4

\* A shift or a key is handled.
LEMMA KeyKeeps ==
    ASSUME ScanInv, data # <<>>, data' = Tail(data),
           UNCHANGED <<hand, kbuf, typing, latest, given>>,
           \/ current' = current
           \/ current' = Append(current, [scan    |-> Head(data).scan,
                                          pos     |-> Head(data).pos,
                                          shifted |-> shifted]),
           shifted \in BOOLEAN
    PROVE  ScanInv'
<1> USE DEF ScanInv
<1> DEFINE h == Head(data)
           char == [scan |-> h.scan, pos |-> h.pos, shifted |-> shifted]
<1>1. /\ data' \in Seq(Events) /\ Sorted(data') /\ h \in Events /\ h = data[1]
      /\ 1 \in DOMAIN data
      /\ \A i \in DOMAIN data' : Before(h, data'[i])
      /\ \A i \in DOMAIN data' : \E k \in DOMAIN data : data'[i] = data[k]
  BY TailOrder DEF KeyTypes, InOrder
<1>2. char \in Chars /\ char.scan = h.scan /\ char.pos = h.pos
  BY <1>1 DEF Events, Chars
<1> HIDE DEF char, h
<1>3. /\ current' \in Seq(Chars)
      /\ \A i \in DOMAIN current' :
            \/ i \in DOMAIN current /\ current'[i] = current[i]
            \/ current'[i] = char
  <2>1. CASE current' = current
    BY <2>1 DEF KeyTypes
  <2>2. CASE current' = Append(current, char)
    <3>1. current \in Seq(Chars)
      BY DEF KeyTypes
    <3> QED
      BY <1>2, <2>2, <3>1, AppendOrder
  <2> QED
    BY <2>1, <2>2 DEF char, h
<1>4. KeyTypes'
  BY <1>1, <1>3 DEF KeyTypes
\* The handled event stands where it stood, now as a character.
<1>5. ASSUME NEW t \in {data', hand, kbuf}, NEW k \in DOMAIN t PROVE Before(h, t[k])
  <2>1. CASE t = data'
    BY <1>1, <1>5, <2>1
  <2>2. CASE t \in {hand, kbuf}
    BY <1>1, <1>5, <2>2 DEF InOrder, AllBefore
  <2> QED
    BY <1>5, <2>1, <2>2
<1>6. InOrder'
  <2>1. AllBefore(data', hand) /\ AllBefore(data', kbuf)
    BY <1>1 DEF InOrder, AllBefore
  <2>2. ASSUME NEW t \in {data', hand, kbuf} PROVE AllBefore(current', t)
    <3> SUFFICES ASSUME NEW i \in DOMAIN current', NEW k \in DOMAIN t
                 PROVE  Before(current'[i], t[k])
      BY DEF AllBefore
    <3>1. CASE i \in DOMAIN current /\ current'[i] = current[i]
      <4>1. \E u \in {data, hand, kbuf} : \E m \in DOMAIN u : t[k] = u[m]
        BY <1>1, <2>2
      <4> QED
        BY <3>1, <4>1 DEF InOrder, AllBefore
    <3>2. CASE current'[i] = char
      BY <1>2, <1>5, <2>2, <3>2 DEF Before
    <3> QED
      BY <1>3, <3>1, <3>2
  <2>3. ASSUME NEW t \in {data', hand, kbuf}, NEW i \in DOMAIN t PROVE NotAfter(t[i], typing)
    <3>1. \E u \in {data, hand, kbuf} : \E m \in DOMAIN u : t[i] = u[m]
      BY <1>1, <2>3
    <3> QED
      BY <3>1 DEF InOrder
  <2>4. ASSUME NEW i \in DOMAIN current' PROVE NotAfter(current'[i], typing)
    <3>1. NotAfter(h, typing)
      BY <1>1 DEF InOrder
    <3> QED
      BY <1>2, <1>3, <2>4, <3>1 DEF InOrder, NotAfter
  <2> QED
    BY <1>1, <2>1, <2>2, <2>3, <2>4 DEF InOrder
<1>7. AllNewer'
  <2>1. ASSUME NEW t \in {data', hand, kbuf}, NEW i \in DOMAIN t PROVE Newer(t[i].scan)
    <3>1. \E u \in {data, hand, kbuf} : \E m \in DOMAIN u : t[i] = u[m]
      BY <1>1, <2>1
    <3> QED
      BY <3>1 DEF AllNewer
  <2>2. ASSUME NEW i \in DOMAIN current' PROVE Newer(current'[i].scan)
    <3>1. Newer(h.scan)
      BY <1>1 DEF AllNewer
    <3> QED
      BY <1>2, <1>3, <2>2, <3>1 DEF AllNewer
  <2> QED
    BY <2>1, <2>2 DEF AllNewer, Newer
<1> QED
  BY <1>4, <1>6, <1>7

\* Enter: what comes after it is of a newer scan, because it ends its own.
LEMMA EnterKeeps ==
    ASSUME ScanInv, HandleEnter
    PROVE  ScanInv'
<1> USE DEF ScanInv
<1> DEFINE h == Head(data)
<1>0. /\ data # <<>> /\ Program[h.pos] = "enter"
      /\ latest' = IF current # <<>> THEN current ELSE latest
      /\ current' = <<>> /\ data' = Tail(data)
      /\ UNCHANGED <<hand, kbuf, typing, given>>
  BY DEF HandleEnter, Kind, device, goroutine
<1>1. /\ data' \in Seq(Events) /\ Sorted(data') /\ h \in Events /\ h = data[1]
      /\ 1 \in DOMAIN data
      /\ \A i \in DOMAIN data' : Before(h, data'[i])
      /\ \A i \in DOMAIN data' : \E k \in DOMAIN data : data'[i] = data[k]
  BY <1>0, TailOrder DEF KeyTypes, InOrder
<1>2. h.pos = Len(Program) /\ h.scan \in Nat
  BY <1>0, <1>1, EventIs, ProgramIs, ScannerAssumption
<1> HIDE DEF h
<1>3. <<>> \in Seq(Events) /\ <<>> \in Seq(Chars) /\ DOMAIN <<>> = {}
  OBVIOUS
<1>4. KeyTypes'
  BY <1>0, <1>1, <1>3 DEF KeyTypes
<1>5. ASSUME NEW t \in {data', hand, kbuf}, NEW i \in DOMAIN t
      PROVE  /\ Before(h, t[i]) /\ NotAfter(t[i], typing) /\ Newer(t[i].scan)
             /\ t[i] \in Events
  <2>1. Before(h, t[i])
    BY <1>1, <1>5 DEF InOrder, AllBefore
  <2>2. \E u \in {data, hand, kbuf} : \E m \in DOMAIN u : t[i] = u[m]
    BY <1>1, <1>5
  <2>3. t \in Seq(Events)
    BY <1>1, <1>5 DEF KeyTypes
  <2> QED
    BY <2>1, <2>2, <2>3 DEF InOrder, AllNewer
<1>6. InOrder'
  <2>1. AllBefore(data', hand) /\ AllBefore(data', kbuf)
    BY <1>1 DEF InOrder, AllBefore
  <2>2. \A t : AllBefore(current', t)
    BY <1>0, <1>3 DEF AllBefore
  <2>3. \A t \in {data', hand, kbuf, current'} : \A i \in DOMAIN t : NotAfter(t[i], typing)
    BY <1>0, <1>3, <1>5
  <2> QED
    BY <1>0, <1>1, <2>1, <2>2, <2>3 DEF InOrder
<1>7. CASE current = <<>>
  <2>1. latest' = latest
    BY <1>0, <1>7
  <2>2. \A t \in {data', hand, kbuf, current'} : \A i \in DOMAIN t : Newer(t[i].scan)
    BY <1>0, <1>3, <1>5
  <2>3. AllNewer'
    BY <1>0, <2>1, <2>2 DEF AllNewer, Newer
  <2> QED
    BY <1>4, <1>6, <2>3
<1>8. CASE current # <<>>
  <2> DEFINE c == current[1]
  <2>1. latest' = current /\ latest' # <<>> /\ 1 \in DOMAIN current /\ c \in Chars
    BY <1>0, <1>8 DEF KeyTypes
  <2>2. c.scan \in Nat /\ typing.scan \in Nat /\ typing.pos \in Nat /\ Len(Program) \in Nat
    BY <2>1, EventIs, ProgramIs DEF KeyTypes
  <2>3. /\ Before(c, h) /\ NotAfter(c, typing) /\ NotAfter(h, typing) /\ Newer(c.scan)
    BY <1>1, <2>1 DEF InOrder, AllBefore, AllNewer
  <2>4. latest'[1] = c
    BY <2>1
  <2> HIDE DEF c
  <2>5. c.scan <= h.scan /\ c.scan <= typing.scan /\ c.scan > given
    BY <1>2, <2>2, <2>3 DEF Before, NotAfter, Newer
  <2>6. ASSUME typing.pos < Len(Program) PROVE typing.scan > c.scan
    <3>1. h.scan < typing.scan
      BY <1>2, <2>2, <2>3, <2>6 DEF NotAfter
    <3> QED
      BY <1>2, <2>2, <2>5, <3>1
  <2>7. ASSUME NEW t \in {data', hand, kbuf}, NEW i \in DOMAIN t
        PROVE  t[i].scan > given /\ t[i].scan > c.scan
    <3>1. t[i].scan \in Nat /\ t[i].pos \in 1 .. Len(Program) /\ Before(h, t[i])
          /\ Newer(t[i].scan)
      BY <1>5, <2>7, EventIs
    <3>2. ~ (h.pos < t[i].pos)
      BY <1>2, <2>2, <3>1
    <3>3. h.scan < t[i].scan
      BY <3>1, <3>2 DEF Before
    <3> QED
      BY <1>2, <2>2, <2>5, <3>1, <3>3 DEF Newer
  <2>8. AllNewer'
    <3>1. typing.scan >= given /\ (typing.pos < Len(Program) => typing.scan > given)
      BY DEF AllNewer, Newer
    <3>2. typing.scan >= c.scan
      BY <2>2, <2>5
    <3>3. \A t \in {data', hand', kbuf', current'} : \A i \in DOMAIN t :
             t[i].scan > given /\ t[i].scan > c.scan
      BY <1>0, <1>3, <2>7
    <3> QED
      BY <1>0, <2>1, <2>4, <2>5, <2>6, <3>1, <3>2, <3>3 DEF AllNewer, Newer
  <2> QED
    BY <1>4, <1>6, <2>8
<1> QED
  BY <1>7, <1>8

\* A poll takes the scan that is kept.
LEMMA ConsumeKeepsOrder ==
    ASSUME ScanInv, NEW p, Consume(p)
    PROVE  ScanInv'
<1> USE DEF ScanInv
<1>1. /\ given' = (IF latest # <<>> THEN latest[1].scan ELSE given) /\ latest' = <<>>
      /\ UNCHANGED <<typing, kbuf, hand, data, current>>
  BY DEF Consume, device, goroutine, keys
<1>2. latest # <<>> => latest[1] \in Chars
  BY DEF KeyTypes
<1>3. KeyTypes'
  <2>1. given' \in Nat /\ <<>> \in Seq(Chars)
    BY <1>1, <1>2, EventIs DEF KeyTypes
  <2> QED
    BY <1>1, <2>1 DEF KeyTypes
<1>4. InOrder'
  BY <1>1 DEF InOrder
<1>5. AllNewer'
  BY <1>1 DEF AllNewer, Newer
<1> QED
  BY <1>3, <1>4, <1>5

\* Every step of the reader, the hub and the polls keeps the order.
LEMMA ScanStep ==
    ASSUME ScanInv, shifted \in BOOLEAN, [ScannerNext]_scannerVars
    PROVE  ScanInv' /\ shifted' \in BOOLEAN
<1> USE DEF device, goroutine, keys
<1>1. CASE UNCHANGED <<typing, kbuf, hand, data, current, latest, given, shifted>>
  BY <1>1 DEF ScanInv, KeyTypes, InOrder, AllNewer, Newer
<1>2. CASE UNCHANGED scannerVars
  BY <1>1, <1>2 DEF scannerVars
<1>3. CASE Plug
  <2>1. CASE plugged
    BY <1>3, <2>1, UnplugKeeps DEF Plug
  <2>2. CASE ~ plugged
    BY <1>1, <1>3, <2>2 DEF Plug
  <2> QED
    BY <2>1, <2>2
<1>4. CASE Type
  BY <1>4, TypeKeeps DEF Type
<1>5. CASE ReadBatch
  BY <1>5, PassKeeps DEF ReadBatch, Reading
<1>6. CASE OpenDevice
  BY <1>6, PassKeeps DEF OpenDevice
<1>7. CASE TakeBatch
  BY <1>7, PassKeeps DEF TakeBatch
<1>8. CASE HandleShift \/ HandleKey
  <2>1. CASE HandleShift
    BY <2>1, KeyKeeps DEF HandleShift
  <2>2. CASE HandleKey
    BY <2>2, KeyKeeps DEF HandleKey
  <2> QED
    BY <1>8, <2>1, <2>2
<1>9. CASE HandleEnter
  BY <1>9, EnterKeeps DEF HandleEnter
<1>10. CASE StopSeen
  BY <1>10, UnplugKeeps DEF StopSeen
<1>11. ASSUME NEW p \in Pollers, SeesConnected(p) \/ Consume(p)
       PROVE  ScanInv' /\ shifted' \in BOOLEAN
  BY <1>1, <1>11, ConsumeKeepsOrder DEF SeesConnected, Consume
<1>12. CASE \/ ReadError \/ StartScanner \/ Detect \/ DetectFails \/ WaitOver \/ OpenFails
            \/ TakeError \/ Stop
  BY <1>1, <1>12 DEF ReadError, StartScanner, Detect, DetectFails, WaitOver, OpenFails, TakeError, Stop
<1> QED
  BY <1>2, <1>3, <1>4, <1>5, <1>6, <1>7, <1>8, <1>9, <1>10, <1>11, <1>12
  DEF ScannerNext, Loop

LEMMA ScanInvariant == ScannerSpec => [](ScanInv /\ shifted \in BOOLEAN)
<1>1. ScannerInit => ScanInv /\ shifted \in BOOLEAN
  BY ScanStart DEF ScannerInit
<1>2. (ScanInv /\ shifted \in BOOLEAN) /\ [ScannerNext]_scannerVars
         => (ScanInv /\ shifted \in BOOLEAN)'
  BY ScanStep
<1> QED
  BY <1>1, <1>2, PTL DEF ScannerSpec

\* A poll is handed a newer scan than every poll before it: the one scan that is
\* kept is never one that was handed out, or older than one that was.
THEOREM ScansGrowNewer == ScannerSpec => NewestOnce
<1>1. ScanInv => [\A p \in Pollers : p \in poll /\ p \notin poll' /\ latest # <<>>
                    => latest[1].scan > given]_scannerVars
  BY DEF ScanInv, AllNewer
<1> QED
  BY <1>1, ScanInvariant, PTL DEF NewestOnce

-----------------------------------------------------------------------------
\* What the order of the events does not depend on.
FlagTypes ==
    /\ plugged \in BOOLEAN /\ alive \in BOOLEAN /\ err \in BOOLEAN
    /\ connected \in BOOLEAN /\ stopping \in BOOLEAN
    /\ whole \subseteq Scans /\ given \in 0 .. MaxScans
    /\ loop \in {"off", "detect", "open", "read", "wait", "done"}
    /\ poll \subseteq Pollers

LEMMA FlagStart == ScannerInit => FlagTypes
<1> SUFFICES ASSUME ScannerInit PROVE FlagTypes
  OBVIOUS
<1>1. 0 \in 0 .. MaxScans
  BY ScannerAssumption
<1> QED
  BY <1>1 DEF ScannerInit, FlagTypes

LEMMA FlagStep ==
    ASSUME ScanInv, FlagTypes, [ScannerNext]_scannerVars
    PROVE  FlagTypes'
<1> USE DEF device, goroutine, keys
<1>t. KeyTypes /\ MaxScans \in Nat
  BY ScannerAssumption DEF ScanInv
<1>1. CASE Type
  <2>1. /\ typing.scan \in 0 .. MaxScans /\ typing.pos \in 1 .. Len(Program)
        /\ typing = [scan |-> typing.scan, pos |-> typing.pos]
    BY <1>t DEF KeyTypes
  <2>2. typing'.pos = 1 => typing'.scan \in Scans
    <3>1. CASE typing.pos < Len(Program)
      <4>1. typing'.pos = typing.pos + 1
        BY <1>1, <2>1, <3>1 DEF Type
      <4> QED
        BY <2>1, <4>1
    <3>2. CASE ~ (typing.pos < Len(Program))
      <4>1. typing.scan < MaxScans /\ typing'.scan = typing.scan + 1
        BY <1>1, <3>2 DEF Type
      <4> QED
        BY <1>t, <2>1, <4>1 DEF Scans
    <3> QED
      BY <3>1, <3>2
  <2> QED
    BY <1>1, <2>2 DEF Type, FlagTypes
<1>2. ASSUME NEW p \in Pollers, Consume(p) PROVE FlagTypes'
  <2>1. latest # <<>> => latest[1] \in Chars
    BY <1>t DEF KeyTypes
  <2>2. latest # <<>> => latest[1].scan \in 0 .. MaxScans
    BY <1>t, <2>1 DEF Chars, Scans
  <2> QED
    BY <1>2, <2>2 DEF Consume, FlagTypes
<1>3. ASSUME NEW p \in Pollers, SeesConnected(p) PROVE FlagTypes'
  BY <1>3 DEF SeesConnected, FlagTypes
<1>4. CASE Plug
  BY <1>4 DEF Plug, FlagTypes
<1>5. CASE ReadBatch \/ ReadError
  BY <1>5 DEF ReadBatch, ReadError, FlagTypes
<1>6. CASE StartScanner \/ Stop
  BY <1>6 DEF StartScanner, Stop, FlagTypes
<1>7. CASE Detect \/ DetectFails \/ WaitOver \/ OpenDevice \/ OpenFails
  BY <1>7 DEF Detect, DetectFails, WaitOver, OpenDevice, OpenFails, FlagTypes
<1>8. CASE TakeBatch \/ TakeError \/ HandleShift \/ HandleKey \/ HandleEnter
  BY <1>8 DEF TakeBatch, TakeError, HandleShift, HandleKey, HandleEnter, FlagTypes
<1>9. CASE StopSeen
  BY <1>9 DEF StopSeen, FlagTypes
<1>10. CASE UNCHANGED scannerVars
  BY <1>10 DEF scannerVars, FlagTypes
<1> QED
  BY <1>1, <1>2, <1>3, <1>4, <1>5, <1>6, <1>7, <1>8, <1>9, <1>10 DEF ScannerNext, Loop

\* Every variable of the reader, the goroutine that reads it and the client's loop
\* keeps its type, for any program of keys and any number of scans.
THEOREM ScannerTypes == ScannerSpec => []ScannerTypeOK
<1>1. (ScanInv /\ shifted \in BOOLEAN) /\ FlagTypes /\ [ScannerNext]_scannerVars => FlagTypes'
  BY FlagStep
<1>2. (ScanInv /\ shifted \in BOOLEAN) /\ FlagTypes => ScannerTypeOK
  BY ProgramIs DEF ScanInv, KeyTypes, FlagTypes, ScannerTypeOK
<1> QED
  BY <1>1, <1>2, FlagStart, ScanInvariant, PTL DEF ScannerSpec

-----------------------------------------------------------------------------
(***************************************************************************)
(* A scan that is kept is of one code.                                     *)
(***************************************************************************)
\* Whether shift is held after the positions n to m.
HeldFrom(n, m) ==
    \E i \in n .. m : Program[i] = "shift" /\ \A k \in i .. m : Program[k] # "unshift"

\* f is the event typed after e.
TypedNext(e, f) ==
    \/ f.scan = e.scan /\ f.pos = e.pos + 1
    \/ f.scan > e.scan /\ e.pos = Len(Program) /\ f.pos = 1

Linked(s) == \A i \in 1 .. Len(s) - 1 : TypedNext(s[i], s[i + 1])

\* What was typed and is not handled yet, in the order it will be.
Unhandled == data \o hand \o kbuf

\* The events n to m of scan s have been handled, and none but them.
AtFrom(n, s, m) ==
    /\ n <= m + 1
    /\ \A i \in DOMAIN current : current[i].scan = s
    /\ \A i, k \in DOMAIN current : i < k => current[i].pos < current[k].pos
    /\ {current[i].pos : i \in DOMAIN current} = {k \in Keys : n <= k /\ k <= m}
    /\ shifted = HeldFrom(n, m)
    /\ s \in whole => /\ n = 1
                      /\ \A i \in DOMAIN current :
                             current[i].shifted = ShiftHeld(current[i].pos)

HandledTo(s, m) == \E n \in DOMAIN Program : AtFrom(n, s, m)

\* A device that is open is read; one that is opened later comes in the middle of
\* a scan only if that began without it.
Session ==
    /\ alive => loop = "read" /\ ~ err
    /\ ~ alive /\ loop # "done" => typing.pos = Len(Program) \/ typing.scan \notin whole
    /\ whole \subseteq 1 .. typing.scan

\* An open device loses no event.
Stream ==
    /\ Linked(Unhandled)
    /\ alive /\ Unhandled # <<>> => Unhandled[Len(Unhandled)] = typing

\* What was handled is all that came before the next event.
Progress ==
    /\ Unhandled # <<>> => HandledTo(Head(Unhandled).scan, Head(Unhandled).pos - 1)
    /\ alive /\ Unhandled = <<>> =>
           IF typing.pos = Len(Program) THEN current = <<>> /\ ~ shifted
           ELSE HandledTo(typing.scan, typing.pos)

CodeInv == Session /\ Stream /\ Progress /\ WholeScans

\* What reading, appending and cutting do to linked events.
LEMMA LinkedTail ==
    ASSUME NEW s \in Seq(Events), s # <<>>, Linked(s)
    PROVE  /\ Linked(Tail(s))
           /\ Tail(s) # <<>> => /\ TypedNext(Head(s), Head(Tail(s)))
                                /\ Tail(s)[Len(Tail(s))] = s[Len(s)]
                                /\ Head(Tail(s)) \in Events
           /\ Tail(s) = <<>> => s[Len(s)] = Head(s)
<1>1. /\ Len(s) \in Nat \ {0} /\ Len(Tail(s)) = Len(s) - 1 /\ Head(s) = s[1]
      /\ \A i \in 1 .. Len(s) - 1 : Tail(s)[i] = s[i + 1]
      /\ Tail(s) \in Seq(Events)
  OBVIOUS
<1>2. Linked(Tail(s))
  BY <1>1 DEF Linked
<1>3. ASSUME Tail(s) # <<>>
      PROVE  /\ TypedNext(Head(s), Head(Tail(s)))
             /\ Tail(s)[Len(Tail(s))] = s[Len(s)]
             /\ Head(Tail(s)) \in Events
  <2>1. Len(s) > 1 /\ Head(Tail(s)) = Tail(s)[1] /\ Head(Tail(s)) \in Events
    BY <1>1, <1>3
  <2> QED
    BY <1>1, <2>1 DEF Linked
<1>4. ASSUME Tail(s) = <<>> PROVE s[Len(s)] = Head(s)
  BY <1>1, <1>4
<1> QED
  BY <1>2, <1>3, <1>4

LEMMA LinkedAppend ==
    ASSUME NEW s \in Seq(Events), NEW e \in Events, Linked(s),
           s # <<>> => TypedNext(s[Len(s)], e)
    PROVE  /\ Linked(Append(s, e)) /\ Append(s, e) # <<>>
           /\ Append(s, e)[Len(Append(s, e))] = e
           /\ Head(Append(s, e)) = IF s = <<>> THEN e ELSE Head(s)
<1>1. /\ Len(s) \in Nat /\ Len(Append(s, e)) = Len(s) + 1
      /\ \A i \in 1 .. Len(s) : Append(s, e)[i] = s[i]
      /\ Append(s, e)[Len(s) + 1] = e
      /\ Append(s, e) \in Seq(Events)
      /\ s # <<>> => Len(s) > 0 /\ Head(s) = s[1]
      /\ s = <<>> => Len(s) = 0
  OBVIOUS
<1>2. Append(s, e) # <<>> /\ Head(Append(s, e)) = Append(s, e)[1]
  BY <1>1
<1>3. ASSUME NEW i \in 1 .. Len(s)
      PROVE  TypedNext(Append(s, e)[i], Append(s, e)[i + 1])
  <2>1. CASE i = Len(s)
    BY <1>1, <2>1
  <2>2. CASE i # Len(s)
    BY <1>1, <2>2 DEF Linked
  <2> QED
    BY <2>1, <2>2
<1>4. Linked(Append(s, e))
  BY <1>1, <1>3 DEF Linked
<1> QED
  BY <1>1, <1>2, <1>4

LEMMA LinkedPrefix ==
    ASSUME NEW s \in Seq(Events), NEW t \in Seq(Events), Linked(s \o t)
    PROVE  /\ Linked(s)
           /\ s # <<>> => s \o t # <<>> /\ Head(s \o t) = Head(s)
<1>1. /\ Len(s) \in Nat /\ Len(t) \in Nat /\ Len(s \o t) = Len(s) + Len(t)
      /\ \A i \in 1 .. Len(s) : (s \o t)[i] = s[i]
      /\ s \o t \in Seq(Events)
      /\ s # <<>> => Len(s) > 0 /\ Head(s) = s[1]
  OBVIOUS
<1>2. Linked(s)
  BY <1>1 DEF Linked
<1> QED
  BY <1>1, <1>2

\* The first element of a concatenation, and the rest.
LEMMA ConcatFirst ==
    ASSUME NEW S, NEW s \in Seq(S), NEW t \in Seq(S), s # <<>>
    PROVE  /\ s \o t \in Seq(S) /\ s \o t # <<>>
           /\ Head(s \o t) = Head(s)
           /\ Tail(s) \o t = Tail(s \o t)
<1>1. /\ s \o t \in Seq(S) /\ Len(s \o t) = Len(s) + Len(t)
      /\ Len(s) \in Nat \ {0} /\ Len(t) \in Nat
      /\ \A i \in 1 .. Len(s) : (s \o t)[i] = s[i]
  OBVIOUS
<1>2. s \o t # <<>> /\ Head(s \o t) = Head(s)
  BY <1>1
<1>3. /\ Tail(s) \o t \in Seq(S) /\ Tail(s \o t) \in Seq(S)
      /\ Len(Tail(s) \o t) = Len(Tail(s \o t))
  BY <1>1, <1>2
<1>4. \A i \in 1 .. Len(Tail(s) \o t) : (Tail(s) \o t)[i] = Tail(s \o t)[i]
  BY <1>1, <1>2
<1> QED
  BY <1>1, <1>2, <1>3, <1>4, SeqEqual

\* The events on their way, as one sequence.
LEMMA PendingIs ==
    ASSUME KeyTypes
    PROVE  /\ Unhandled \in Seq(Events)
           /\ Unhandled # <<>> => Head(Unhandled) \in Events
           /\ data # <<>> => /\ Unhandled # <<>> /\ Head(Unhandled) = Head(data)
                             /\ Tail(data) \o hand \o kbuf = Tail(Unhandled)
           /\ data = <<>> => Unhandled = hand \o kbuf
           /\ hand = <<>> => Unhandled = data \o kbuf
           /\ kbuf = <<>> => Unhandled = data \o hand
<1>1. data \in Seq(Events) /\ hand \in Seq(Events) /\ kbuf \in Seq(Events)
  BY DEF KeyTypes
<1>2. Unhandled \in Seq(Events)
  BY <1>1 DEF Unhandled
<1>3. Unhandled # <<>> => Head(Unhandled) \in Events
  BY <1>2
<1>4. ASSUME data # <<>>
      PROVE  /\ Unhandled # <<>> /\ Head(Unhandled) = Head(data)
             /\ Tail(data) \o hand \o kbuf = Tail(Unhandled)
  <2>1. /\ data \o hand \in Seq(Events) /\ data \o hand # <<>>
        /\ Head(data \o hand) = Head(data) /\ Tail(data) \o hand = Tail(data \o hand)
    BY <1>1, <1>4, ConcatFirst
  <2>2. PICK b : b = data \o hand
    OBVIOUS
  <2>3. b \in Seq(Events) /\ b # <<>> /\ Head(b) = Head(data) /\ Tail(b) = Tail(data) \o hand
    BY <2>1, <2>2
  <2>4. /\ b \o kbuf # <<>> /\ Head(b \o kbuf) = Head(b)
        /\ Tail(b) \o kbuf = Tail(b \o kbuf)
    BY <1>1, <2>3, ConcatFirst
  <2> QED
    BY <2>2, <2>3, <2>4 DEF Unhandled
<1>5. /\ \A s \in Seq(Events) : <<>> \o s = s /\ s \o <<>> = s
  OBVIOUS
<1>6. data \o hand \in Seq(Events)
  BY <1>1
<1> QED
  BY <1>1, <1>2, <1>3, <1>4, <1>5, <1>6 DEF Unhandled

-----------------------------------------------------------------------------
\* Shift after one more event, and at the Enter.
LEMMA HeldOn ==
    ASSUME NEW n \in DOMAIN Program, NEW m \in DOMAIN Program, n <= m
    PROVE  /\ Program[m] = "shift" => HeldFrom(n, m)
           /\ Program[m] = "unshift" => ~ HeldFrom(n, m)
           /\ Program[m] \notin {"shift", "unshift"} => (HeldFrom(n, m) <=> HeldFrom(n, m - 1))
           /\ m = Len(Program) => ~ HeldFrom(n, m - 1)
<1> USE ProgramIs
<1>1. Program[m] = "shift" => HeldFrom(n, m)
  BY DEF HeldFrom
<1>2. Program[m] = "unshift" => ~ HeldFrom(n, m)
  BY DEF HeldFrom
<1>3. ASSUME Program[m] \notin {"shift", "unshift"}
      PROVE  HeldFrom(n, m) <=> HeldFrom(n, m - 1)
  <2>1. ASSUME HeldFrom(n, m) PROVE HeldFrom(n, m - 1)
    <3>1. PICK i \in n .. m : Program[i] = "shift" /\ \A k \in i .. m : Program[k] # "unshift"
      BY <2>1 DEF HeldFrom
    <3>2. i \in n .. m - 1 /\ \A k \in i .. m - 1 : k \in i .. m
      BY <1>3, <3>1
    <3> QED
      BY <3>1, <3>2 DEF HeldFrom
  <2>2. ASSUME HeldFrom(n, m - 1) PROVE HeldFrom(n, m)
    <3>1. PICK i \in n .. m - 1 : /\ Program[i] = "shift"
                                  /\ \A k \in i .. m - 1 : Program[k] # "unshift"
      BY <2>2 DEF HeldFrom
    <3>2. i \in n .. m /\ \A k \in i .. m : k \in i .. m - 1 \/ k = m
      BY <3>1
    <3> QED
      BY <1>3, <3>1, <3>2 DEF HeldFrom
  <2> QED
    BY <2>1, <2>2
<1>4. ASSUME m = Len(Program), HeldFrom(n, m - 1) PROVE FALSE
  <2>1. PICK i \in n .. m - 1 : /\ Program[i] = "shift"
                                /\ \A k \in i .. m - 1 : Program[k] # "unshift"
    BY <1>4 DEF HeldFrom
  <2>2. PICK k \in i .. Len(Program) : Program[k] = "unshift"
    BY <2>1, ScannerAssumption
  <2>3. k = m
    <3>1. n \in Nat /\ m \in Nat /\ i \in n .. m - 1 /\ k \in i .. m
      BY <1>4, <2>1, <2>2
    <3>2. k # m => k \in i .. m - 1
      BY <3>1
    <3> QED
      BY <2>1, <2>2, <3>2
  <2>4. Program[m] = "enter"
    BY <1>4, ScannerAssumption
  <2> QED
    BY <2>2, <2>3, <2>4
<1> QED
  BY <1>1, <1>2, <1>3, <1>4

\* After a step that drops what was handled: a scan of which only what comes from
\* n on will be.
LEMMA AtFirst ==
    ASSUME current' = <<>>, shifted' = FALSE, NEW s, NEW n \in DOMAIN Program,
           s \in whole' => n = 1
    PROVE  AtFrom(n, s, n - 1)'
<1>1. DOMAIN current' = {}
  OBVIOUS
<1>2. ~ HeldFrom(n, n - 1)
  BY ProgramIs DEF HeldFrom
<1>3. {k \in Keys : n <= k /\ k <= n - 1} = {}
  BY ProgramIs DEF Keys
<1>4. shifted' = HeldFrom(n, n - 1)
  BY <1>2, Zenon DEF HeldFrom
<1>5. n <= (n - 1) + 1
  BY ProgramIs
<1>6. {current'[i].pos : i \in DOMAIN current'} = {}
  BY <1>1
<1> QED
  BY <1>1, <1>3, <1>4, <1>5, <1>6 DEF AtFrom

\* A scan whose events up to m are handled: the history of others does not matter.
LEMMA AtStays ==
    ASSUME NEW s, NEW m, HandledTo(s, m), UNCHANGED <<current, shifted>>,
           s \in whole' => s \in whole
    PROVE  HandledTo(s, m)'
BY DEF HandledTo, AtFrom

\* The next event of the scan is handled, unless it is its Enter.
LEMMA AtNext ==
    ASSUME KeyTypes, shifted \in BOOLEAN, NEW e \in Events, HandledTo(e.scan, e.pos - 1),
           Program[e.pos] # "enter", UNCHANGED whole,
           \/ /\ Program[e.pos] \in {"shift", "unshift"}
              /\ shifted' = (Program[e.pos] = "shift") /\ current' = current
           \/ /\ Program[e.pos] \in {"key", "up"} /\ shifted' = shifted
              /\ current' = IF Program[e.pos] = "up" THEN current
                            ELSE Append(current, [scan    |-> e.scan,
                                                  pos     |-> e.pos,
                                                  shifted |-> shifted])
    PROVE  HandledTo(e.scan, e.pos)'
<1> USE ProgramIs
<1>e. e.pos \in DOMAIN Program /\ e.scan \in Scans
  BY DEF Events
<1>1. PICK n \in DOMAIN Program : AtFrom(n, e.scan, e.pos - 1)
  BY DEF HandledTo
<1>2. n <= e.pos
  BY <1>1, <1>e DEF AtFrom
<1>3. shifted' = HeldFrom(n, e.pos)
  <2>1. shifted = HeldFrom(n, e.pos - 1)
    BY <1>1 DEF AtFrom
  <2>2. CASE Program[e.pos] = "shift"
    <3>1. HeldFrom(n, e.pos) /\ shifted' = TRUE
      BY <1>e, <1>2, <2>2, HeldOn
    <3> QED
      BY <3>1, Zenon DEF HeldFrom
  <2>3. CASE Program[e.pos] = "unshift"
    <3>1. ~ HeldFrom(n, e.pos) /\ shifted' = FALSE
      BY <1>e, <1>2, <2>3, HeldOn
    <3> QED
      BY <3>1, Zenon DEF HeldFrom
  <2>4. CASE Program[e.pos] \in {"key", "up"}
    <3>1. (HeldFrom(n, e.pos) <=> HeldFrom(n, e.pos - 1)) /\ shifted' = shifted
      BY <1>e, <1>2, <2>4, HeldOn
    <3> QED
      BY <2>1, <3>1, Zenon DEF HeldFrom
  <2> QED
    BY <2>2, <2>3, <2>4
<1>4. CASE Program[e.pos] # "key"
  <2>1. current' = current
    BY <1>4
  <2>2. {k \in Keys : n <= k /\ k <= e.pos} = {k \in Keys : n <= k /\ k <= e.pos - 1}
    BY <1>e, <1>4 DEF Keys
  <2>3. n <= e.pos + 1
    BY <1>2, <1>e
  <2>4. AtFrom(n, e.scan, e.pos)'
    BY <1>1, <1>3, <2>1, <2>2, <2>3 DEF AtFrom
  <2> QED
    BY <2>4 DEF HandledTo
<1>5. CASE Program[e.pos] = "key"
  <2> DEFINE c == [scan |-> e.scan, pos |-> e.pos, shifted |-> shifted]
  <2>1. current' = Append(current, c) /\ shifted' = shifted
    BY <1>5
  <2>2. current \in Seq(Chars) /\ c \in Chars
    BY <1>e DEF KeyTypes, Chars
  <2>3. c.scan = e.scan /\ c.pos = e.pos /\ c.shifted = shifted
    OBVIOUS
  <2> HIDE DEF c
  <2>4. /\ Len(current) \in Nat /\ DOMAIN current = 1 .. Len(current)
        /\ DOMAIN current' = 1 .. Len(current) + 1
        /\ \A i \in DOMAIN current : current'[i] = current[i]
        /\ current'[Len(current) + 1] = c
    BY <2>1, <2>2
  <2>5. \A i \in DOMAIN current' : i \in DOMAIN current \/ i = Len(current) + 1
    BY <2>4
  <2>6. \A i \in DOMAIN current : current[i].pos \in Keys /\ current[i].pos <= e.pos - 1
    BY <1>1 DEF AtFrom
  <2>7. \A i \in DOMAIN current' : current'[i].scan = e.scan
    BY <1>1, <2>3, <2>4, <2>5 DEF AtFrom
  <2>8. ASSUME NEW i \in DOMAIN current', NEW k \in DOMAIN current', i < k
        PROVE  current'[i].pos < current'[k].pos
    <3>1. i \in DOMAIN current
      BY <2>4, <2>5, <2>8
    <3>2. CASE k \in DOMAIN current
      BY <1>1, <2>4, <2>8, <3>1, <3>2 DEF AtFrom
    <3>3. CASE k = Len(current) + 1
      BY <1>e, <2>3, <2>4, <2>6, <3>1, <3>3 DEF Keys
    <3> QED
      BY <2>5, <3>2, <3>3
  <2>9. {current'[i].pos : i \in DOMAIN current'} = {k \in Keys : n <= k /\ k <= e.pos}
    <3>1. {current'[i].pos : i \in DOMAIN current'}
             = {current[i].pos : i \in DOMAIN current} \cup {e.pos}
      BY <2>3, <2>4, <2>5
    <3>2. {current[i].pos : i \in DOMAIN current} = {k \in Keys : n <= k /\ k <= e.pos - 1}
      BY <1>1 DEF AtFrom
    <3>3. \A k \in Keys : k <= e.pos <=> k <= e.pos - 1 \/ k = e.pos
      BY <1>e DEF Keys
    <3>4. e.pos \in Keys
      BY <1>e, <1>5 DEF Keys
    <3> QED
      BY <1>2, <1>e, <3>1, <3>2, <3>3, <3>4
  <2>10. ASSUME e.scan \in whole'
         PROVE  n = 1 /\ \A i \in DOMAIN current' : current'[i].shifted = ShiftHeld(current'[i].pos)
    <3>1. n = 1 /\ \A i \in DOMAIN current : current[i].shifted = ShiftHeld(current[i].pos)
      BY <1>1, <2>10 DEF AtFrom
    <3>2. c.shifted = ShiftHeld(c.pos)
      BY <1>3, <2>1, <2>3, <3>1 DEF HeldFrom, ShiftHeld
    <3> QED
      BY <2>4, <2>5, <3>1, <3>2
  <2>11. AtFrom(n, e.scan, e.pos)'
    BY <1>2, <1>3, <1>e, <2>7, <2>8, <2>9, <2>10 DEF AtFrom
  <2> QED
    BY <2>11 DEF HandledTo
<1> QED
  BY <1>4, <1>5

-----------------------------------------------------------------------------
\* A step that handles nothing, and takes nothing but the scan that is kept.
LEMMA IdleKeeps ==
    ASSUME ScanInv, CodeInv, Unhandled' = Unhandled, alive' = alive,
           UNCHANGED <<typing, whole, current, shifted>>,
           latest' \in {latest, <<>>}, Session'
    PROVE  CodeInv'
<1>1. Stream'
  BY DEF CodeInv, Stream
<1>2. Progress'
  BY AtStays DEF CodeInv, Progress
<1>3. WholeScans'
  BY DEF CodeInv, WholeScans
<1> QED
  BY <1>1, <1>2, <1>3 DEF CodeInv

\* The device goes away, and what the kernel still held of it.
LEMMA LossKeeps ==
    ASSUME ScanInv, CodeInv, kbuf' = <<>>, ~ alive',
           UNCHANGED <<data, hand, whole, current, shifted, latest>>, Session'
    PROVE  CodeInv'
<1>1. data \o hand \in Seq(Events) /\ kbuf \in Seq(Events) /\ Unhandled' = data \o hand
  <2>1. data' \o hand' \o kbuf' = (data \o hand) \o <<>>
    OBVIOUS
  <2> QED
    BY <2>1 DEF Unhandled, ScanInv, KeyTypes
<1>2. Unhandled = Unhandled' \o kbuf
  BY <1>1 DEF Unhandled
<1>3. /\ Linked(Unhandled')
      /\ Unhandled' # <<>> => Unhandled # <<>> /\ Head(Unhandled) = Head(Unhandled')
  BY <1>1, <1>2, LinkedPrefix DEF CodeInv, Stream
<1>4. Stream'
  BY <1>3 DEF Stream
<1>5. Progress'
  BY <1>3, AtStays DEF CodeInv, Progress
<1>6. WholeScans'
  BY DEF CodeInv, WholeScans
<1> QED
  BY <1>4, <1>5, <1>6 DEF CodeInv

\* The device is opened: whatever was of the one before is dropped.
LEMMA OpenKeepsCode ==
    ASSUME ScanInv, CodeInv, OpenDevice
    PROVE  CodeInv'
<1>1. /\ loop = "open" /\ loop' = "read" /\ alive' = TRUE /\ err' = FALSE
      /\ data' = <<>> /\ hand' = <<>> /\ kbuf' = <<>> /\ current' = <<>> /\ shifted' = FALSE
      /\ UNCHANGED <<typing, whole, latest>>
  BY DEF OpenDevice, device
<1>2. Unhandled' = <<>>
  <2>1. <<>> \o <<>> \o <<>> = <<>>
    OBVIOUS
  <2> QED
    BY <1>1, <2>1 DEF Unhandled
<1>3. Session'
  BY <1>1 DEF CodeInv, Session
<1>4. Stream'
  <2>1. Linked(<<>>)
    BY DEF Linked
  <2> QED
    BY <1>2, <2>1 DEF Stream
<1>5. typing.pos \in 1 .. Len(Program)
  BY DEF ScanInv, KeyTypes
<1>6. ASSUME typing.pos # Len(Program) PROVE HandledTo(typing.scan, typing.pos)'
  <2>1. typing.scan \notin whole
    BY <1>1, <1>6 DEF CodeInv, Session
  <2>2. typing.pos + 1 \in DOMAIN Program
    BY <1>5, <1>6, ProgramIs
  <2>3. AtFrom(typing.pos + 1, typing.scan, (typing.pos + 1) - 1)'
    BY <1>1, <2>1, <2>2, AtFirst
  <2>4. (typing.pos + 1) - 1 = typing.pos
    BY <1>5, ProgramIs
  <2> QED
    BY <1>1, <2>2, <2>3, <2>4 DEF HandledTo
<1>7. Progress'
  BY <1>1, <1>2, <1>6 DEF Progress
<1>8. WholeScans'
  BY <1>1 DEF CodeInv, WholeScans
<1> QED
  BY <1>3, <1>4, <1>7, <1>8 DEF CodeInv

\* The next event to handle has been typed.
LEMMA HeadTyped ==
    ASSUME KeyTypes, InOrder, Unhandled # <<>>
    PROVE  Head(Unhandled).scan <= typing.scan
<1>1. data \in Seq(Events) /\ hand \in Seq(Events) /\ kbuf \in Seq(Events)
  BY DEF KeyTypes
<1>2. \A s \in {data, hand, kbuf} : s # <<>> => Head(s).scan <= typing.scan
  <2> SUFFICES ASSUME NEW s \in {data, hand, kbuf}, s # <<>>
               PROVE  Head(s).scan <= typing.scan
    OBVIOUS
  <2>1. s \in Seq(Events) /\ 1 \in DOMAIN s /\ Head(s) = s[1] /\ s[1] \in Events
    BY <1>1, SeqOrder
  <2>2. NotAfter(s[1], typing)
    BY <2>1 DEF InOrder
  <2>3. s[1].scan \in Nat /\ typing.scan \in Nat
    BY <2>1, EventIs, ProgramIs DEF KeyTypes
  <2> QED
    BY <2>1, <2>2, <2>3 DEF NotAfter
<1>3. CASE data # <<>>
  BY <1>2, <1>3, PendingIs
<1>4. CASE data = <<>> /\ hand # <<>>
  <2>1. Head(hand \o kbuf) = Head(hand) /\ Unhandled = hand \o kbuf
    BY <1>1, <1>4, ConcatFirst, PendingIs
  <2> QED
    BY <1>2, <1>4, <2>1
<1>5. CASE data = <<>> /\ hand = <<>>
  <2>1. Unhandled = kbuf
    BY <1>1, <1>5, PendingIs
  <2> QED
    BY <1>2, <2>1
<1> QED
  BY <1>3, <1>4, <1>5

\* Appending to the second of two sequences appends to both.
LEMMA AppendConcat ==
    ASSUME NEW S, NEW s \in Seq(S), NEW t \in Seq(S), NEW e \in S
    PROVE  s \o Append(t, e) = Append(s \o t, e)
<1>1. /\ s \o Append(t, e) \in Seq(S) /\ Append(s \o t, e) \in Seq(S)
      /\ Len(s \o Append(t, e)) = Len(Append(s \o t, e))
  OBVIOUS
<1>2. \A i \in 1 .. Len(s \o Append(t, e)) : (s \o Append(t, e))[i] = Append(s \o t, e)[i]
  OBVIOUS
<1> QED
  BY <1>1, <1>2, SeqEqual

\* The next event is typed; a scan begins after the end of another.
LEMMA TypeKeepsCode ==
    ASSUME ScanInv, CodeInv, Type
    PROVE  CodeInv'
<1> USE ProgramIs
<1>t. typing.scan \in 0 .. MaxScans /\ typing.scan \in Nat /\ typing.pos \in 1 .. Len(Program)
  <2>1. typing \in [scan : 0 .. MaxScans, pos : 1 .. Len(Program)]
    BY DEF ScanInv, KeyTypes
  <2>2. \A n \in 0 .. MaxScans : n \in Nat
    OBVIOUS
  <2> QED
    BY <2>1, <2>2
<1>2. \E f \in Events :
         /\ f = typing' /\ TypedNext(typing, f)
         /\ f.pos = 1 => typing.pos = Len(Program) /\ f.scan = typing.scan + 1
         /\ f.pos # 1 => f.scan = typing.scan /\ f.pos = typing.pos + 1
                         /\ typing.pos # Len(Program)
  <2>1. typing \in [scan : 0 .. MaxScans, pos : 1 .. Len(Program)]
    BY DEF ScanInv, KeyTypes
  <2>2. CASE typing.pos < Len(Program)
    <3>1. typing' = [typing EXCEPT !.pos = typing.pos + 1]
      BY <2>2 DEF Type
    <3>2. typing'.scan = typing.scan /\ typing'.pos = typing.pos + 1
          /\ typing' = [scan |-> typing.scan, pos |-> typing.pos + 1]
      BY <2>1, <3>1
    <3>3. typing.scan # 0
      BY <2>2 DEF ScanInv, AllNewer, Newer, KeyTypes
    <3> QED
      BY <1>t, <2>2, <3>2, <3>3 DEF TypedNext, Events, Scans
  <2>3. CASE ~ (typing.pos < Len(Program))
    <3>1. typing' = [scan |-> typing.scan + 1, pos |-> 1] /\ typing.scan < MaxScans
      BY <2>3 DEF Type
    <3>2. typing'.scan = typing.scan + 1 /\ typing'.pos = 1 /\ typing.pos = Len(Program)
      BY <1>t, <2>3, <3>1
    <3> QED
      BY <1>t, <3>1, <3>2 DEF TypedNext, Events, Scans
  <2> QED
    BY <2>2, <2>3
<1>e. PICK e \in Events :
         /\ e = typing' /\ TypedNext(typing, e)
         /\ e.pos = 1 => typing.pos = Len(Program) /\ e.scan = typing.scan + 1
         /\ e.pos # 1 => e.scan = typing.scan /\ e.pos = typing.pos + 1
                         /\ typing.pos # Len(Program)
  BY <1>2
<1>1. /\ whole' = (IF e.pos = 1 /\ alive THEN whole \cup {e.scan} ELSE whole)
      /\ kbuf' = (IF alive THEN Append(kbuf, e) ELSE kbuf)
      /\ UNCHANGED <<alive, data, hand, err, loop, current, shifted, latest>>
  BY <1>e DEF Type, goroutine, keys
<1>n. e.scan \in Nat /\ typing.scan <= e.scan /\ 1 <= e.scan
  <2>1. e.scan \in 1 .. MaxScans
    BY DEF Events, Scans
  <2> QED
    BY <1>t, <1>e, <2>1
<1>3. \A w \in whole : w \in Nat /\ 1 <= w /\ w <= typing.scan
  BY <1>t DEF CodeInv, Session
<1>4. ASSUME NEW w, w <= typing.scan, w \in whole' PROVE w \in whole
  <2>1. e.pos = 1 => w # e.scan
    BY <1>t, <1>e, <1>4
  <2> QED
    BY <1>1, <1>4, <2>1
<1>5. Session'
  <2>1. whole' \subseteq 1 .. e.scan
    <3>2. \A w \in whole' : w \in whole \/ w = e.scan
      BY <1>1
    <3> QED
      BY <1>t, <1>n, <1>3, <3>2
  <2>2. alive => loop = "read" /\ ~ err
    BY DEF CodeInv, Session
  <2>3. ASSUME ~ alive, loop # "done"
        PROVE  e.pos = Len(Program) \/ e.scan \notin whole'
    <3>1. whole' = whole
      BY <1>1, <2>3
    <3> QED
      BY <1>t, <1>e, <1>3, <2>3, <3>1 DEF CodeInv, Session
  <2> QED
    BY <1>e, <1>1, <2>1, <2>2, <2>3 DEF Session
<1>p. /\ Unhandled \in Seq(Events) /\ Linked(Unhandled)
      /\ alive /\ Unhandled # <<>> => Unhandled[Len(Unhandled)] = typing
      /\ Unhandled # <<>> => Head(Unhandled) \in Events
  BY PendingIs DEF ScanInv, CodeInv, Stream
<1>q. Unhandled' = IF alive THEN Append(Unhandled, e) ELSE Unhandled
  <2>1. data \o hand \in Seq(Events) /\ kbuf \in Seq(Events)
    BY DEF ScanInv, KeyTypes
  <2>2. \A s, t \in Seq(Events) : s \o Append(t, e) = Append(s \o t, e)
    BY AppendConcat
  <2> QED
    BY <1>1, <2>1, <2>2 DEF Unhandled
<1>6. Stream'
  BY <1>1, <1>e, <1>p, <1>q, LinkedAppend DEF Stream
<1>7. Progress'
  <2>1. CASE Unhandled # <<>>
    <3>1. PICK h \in Events : h = Head(Unhandled)
      BY <1>p, <2>1
    <3>2. Unhandled' # <<>> /\ Head(Unhandled') = h
      BY <1>e, <1>p, <1>q, <2>1, <3>1, LinkedAppend
    <3>3. h.scan <= typing.scan
      BY <2>1, <3>1, HeadTyped DEF ScanInv
    <3>4. HandledTo(h.scan, h.pos - 1)
      BY <2>1, <3>1 DEF CodeInv, Progress
    <3>5. HandledTo(h.scan, h.pos - 1)'
      BY <1>1, <1>4, <3>3, <3>4, AtStays
    <3> QED
      BY <3>2, <3>5 DEF Progress
  <2>2. CASE Unhandled = <<>> /\ alive
    <3>1. Unhandled' # <<>> /\ Head(Unhandled') = e
      BY <1>e, <1>p, <1>q, <2>2, LinkedAppend
    <3>2. HandledTo(e.scan, e.pos - 1)'
      <4>1. CASE e.pos = 1
        <5>1. current' = <<>> /\ shifted' = FALSE /\ 1 \in DOMAIN Program
          BY <1>1, <1>e, <2>2, <4>1 DEF CodeInv, Progress
        <5>2. AtFrom(1, e.scan, 1 - 1)'
          BY <5>1, AtFirst
        <5> QED
          BY <4>1, <5>1, <5>2 DEF HandledTo
      <4>2. CASE e.pos # 1
        <5>1. HandledTo(e.scan, e.pos - 1)
          <6>1. HandledTo(typing.scan, typing.pos) /\ typing.scan = e.scan /\ typing.pos = e.pos - 1
            BY <1>t, <1>e, <2>2, <4>2 DEF CodeInv, Progress
          <6> QED
            BY <6>1
        <5>2. e.scan <= typing.scan
          BY <1>t, <1>e, <4>2
        <5> QED
          BY <1>1, <1>4, <5>1, <5>2, AtStays
      <4> QED
        BY <4>1, <4>2
    <3> QED
      BY <3>1, <3>2 DEF Progress
  <2>3. CASE Unhandled = <<>> /\ ~ alive
    BY <1>1, <1>q, <2>3 DEF Progress
  <2> QED
    BY <2>1, <2>2, <2>3
<1>8. WholeScans'
  <2> SUFFICES ASSUME latest # <<>> PROVE WholeScans'
    BY <1>1 DEF WholeScans
  <2>1. latest[1].scan <= typing.scan
    BY <1>t DEF ScanInv, AllNewer, KeyTypes, Chars
  <2>2. latest[1].scan \in whole' => latest[1].scan \in whole
    BY <1>4, <2>1
  <2> QED
    BY <1>1, <2>2 DEF CodeInv, WholeScans
<1> QED
  BY <1>5, <1>6, <1>7, <1>8 DEF CodeInv

-----------------------------------------------------------------------------
\* The first event is handled: which one is next.
LEMMA HandledIs ==
    ASSUME ScanInv, CodeInv, data # <<>>, data' = Tail(data),
           UNCHANGED <<hand, kbuf, typing, alive, whole, loop, err>>
    PROVE  /\ Session' /\ Stream'
           /\ Head(data) \in Events /\ HandledTo(Head(data).scan, Head(data).pos - 1)
           /\ Unhandled' # <<>> => /\ Head(Unhandled') \in Events
                                 /\ TypedNext(Head(data), Head(Unhandled'))
           /\ alive' /\ Unhandled' = <<>> => typing' = Head(data)
<1>1. /\ Unhandled \in Seq(Events) /\ Unhandled # <<>> /\ Linked(Unhandled)
      /\ Head(Unhandled) = Head(data) /\ Head(data) \in Events
      /\ Tail(data) \o hand \o kbuf = Tail(Unhandled)
  BY PendingIs DEF ScanInv, CodeInv, Stream
<1>2. Unhandled' = Tail(Unhandled)
  BY <1>1 DEF Unhandled
<1>3. /\ Linked(Unhandled')
      /\ Unhandled' # <<>> => /\ TypedNext(Head(Unhandled), Head(Unhandled'))
                            /\ Unhandled'[Len(Unhandled')] = Unhandled[Len(Unhandled)]
                            /\ Head(Unhandled') \in Events
      /\ Unhandled' = <<>> => Unhandled[Len(Unhandled)] = Head(Unhandled)
  BY <1>1, <1>2, LinkedTail
<1>4. alive => Unhandled[Len(Unhandled)] = typing
  BY <1>1 DEF CodeInv, Stream
<1>5. Stream'
  BY <1>3, <1>4 DEF Stream
<1>6. Session'
  BY DEF CodeInv, Session
<1>7. HandledTo(Head(data).scan, Head(data).pos - 1)
  BY <1>1 DEF CodeInv, Progress
<1> QED
  BY <1>1, <1>3, <1>4, <1>5, <1>6, <1>7

\* A shift or a key: its scan goes on, because it is not its Enter.
LEMMA KeyKeepsCode ==
    ASSUME ScanInv, CodeInv, shifted \in BOOLEAN, HandleShift \/ HandleKey
    PROVE  CodeInv'
<1> USE ProgramIs
<1>1. /\ data # <<>> /\ data' = Tail(data)
      /\ UNCHANGED <<hand, kbuf, typing, alive, whole, loop, err, latest>>
  BY DEF HandleShift, HandleKey, device, goroutine
<1>2. PICK h \in Events : h = Head(data)
  BY <1>1, HandledIs
<1>3. /\ Session' /\ Stream' /\ HandledTo(h.scan, h.pos - 1)
      /\ Unhandled' # <<>> => Head(Unhandled') \in Events /\ TypedNext(h, Head(Unhandled'))
      /\ alive' /\ Unhandled' = <<>> => typing' = h
  BY <1>1, <1>2, HandledIs
<1>4. /\ Program[h.pos] \in {"shift", "unshift", "key", "up"}
      /\ h.pos \in 1 .. Len(Program) /\ h.pos # Len(Program)
  <2>1. Program[h.pos] \in {"shift", "unshift", "key", "up"}
    BY <1>2 DEF HandleShift, HandleKey, Kind
  <2>2. h.pos \in 1 .. Len(Program)
    BY EventIs
  <2> QED
    BY <2>1, <2>2, ScannerAssumption
<1>5. HandledTo(h.scan, h.pos)'
  <2>1. KeyTypes /\ Program[h.pos] # "enter"
    BY <1>4 DEF ScanInv
  <2>2. CASE HandleShift
    <3>1. Program[h.pos] \in {"shift", "unshift"} /\ current' = current
          /\ shifted' = (Program[h.pos] = "shift")
      BY <1>2, <2>2 DEF HandleShift, Kind
    <3> QED
      BY <1>1, <1>3, <2>1, <3>1, AtNext
  <2>3. CASE HandleKey
    <3>1. Program[h.pos] \in {"key", "up"} /\ shifted' = shifted
          /\ current' = IF Program[h.pos] = "up" THEN current
                        ELSE Append(current, [scan    |-> h.scan,
                                              pos     |-> h.pos,
                                              shifted |-> shifted])
      BY <1>2, <2>3 DEF HandleKey, Kind
    <3> QED
      BY <1>1, <1>3, <2>1, <3>1, AtNext
  <2> QED
    BY <2>2, <2>3
<1>6. Progress'
  <2>1. ASSUME Unhandled' # <<>> PROVE HandledTo(Head(Unhandled).scan, Head(Unhandled).pos - 1)'
    <3>1. PICK f \in Events : f = Head(Unhandled')
      BY <1>3, <2>1
    <3>2. f.scan = h.scan /\ f.pos - 1 = h.pos
      BY <1>3, <1>4, <2>1, <3>1, EventIs DEF TypedNext
    <3>3. HandledTo(f.scan, f.pos - 1)'
      BY <1>5, <3>2
    <3> QED
      BY <3>1, <3>3
  <2>2. ASSUME alive', Unhandled' = <<>>
        PROVE  typing'.pos # Len(Program) /\ HandledTo(typing.scan, typing.pos)'
    BY <1>3, <1>4, <1>5, <2>2
  <2> QED
    BY <2>1, <2>2 DEF Progress
<1>7. WholeScans'
  BY <1>1 DEF CodeInv, WholeScans
<1> QED
  BY <1>3, <1>6, <1>7 DEF CodeInv

\* Enter: all of the scan's events have been handled, and what comes next is the
\* first event of another.
LEMMA EnterKeepsCode ==
    ASSUME ScanInv, CodeInv, HandleEnter
    PROVE  CodeInv'
<1> USE ProgramIs
<1>1. /\ data # <<>> /\ data' = Tail(data)
      /\ UNCHANGED <<hand, kbuf, typing, alive, whole, loop, err, shifted>>
      /\ latest' = (IF current # <<>> THEN current ELSE latest)
      /\ current' = <<>>
  BY DEF HandleEnter, device, goroutine
<1>2. PICK h \in Events : h = Head(data)
  BY <1>1, HandledIs
<1>3. /\ Session' /\ Stream' /\ HandledTo(h.scan, h.pos - 1)
      /\ Unhandled' # <<>> => Head(Unhandled') \in Events /\ TypedNext(h, Head(Unhandled'))
      /\ alive' /\ Unhandled' = <<>> => typing' = h
  BY <1>1, <1>2, HandledIs
<1>4. h.pos = Len(Program)
  BY <1>2, EventIs, ScannerAssumption DEF HandleEnter, Kind
<1>5. PICK n \in DOMAIN Program : AtFrom(n, h.scan, Len(Program) - 1)
  BY <1>3, <1>4 DEF HandledTo
<1>6. shifted' = FALSE
  <2>1. ~ HeldFrom(n, Len(Program) - 1)
    BY HeldOn
  <2>2. shifted = HeldFrom(n, Len(Program) - 1)
    BY <1>5 DEF AtFrom
  <2> QED
    BY <1>1, <2>1, <2>2, Zenon DEF HeldFrom
<1>7. Progress'
  <2>1. ASSUME Unhandled' # <<>> PROVE HandledTo(Head(Unhandled).scan, Head(Unhandled).pos - 1)'
    <3>1. PICK f \in Events : f = Head(Unhandled')
      BY <1>3, <2>1
    <3>2. f.pos = 1
      <4>1. f.pos \in 1 .. Len(Program)
        BY EventIs
      <4> QED
        BY <1>3, <1>4, <2>1, <3>1, <4>1 DEF TypedNext
    <3>3. AtFrom(1, f.scan, 1 - 1)'
      BY <1>1, <1>6, AtFirst
    <3>4. HandledTo(f.scan, f.pos - 1)'
      BY <3>2, <3>3 DEF HandledTo
    <3> QED
      BY <3>1, <3>4
  <2>2. ASSUME alive', Unhandled' = <<>> PROVE typing'.pos = Len(Program) /\ ~ shifted'
    BY <1>3, <1>4, <1>6, <2>2
  <2> QED
    BY <1>1, <2>1, <2>2 DEF Progress
<1>8. WholeScans'
  <2>1. CASE current = <<>>
    BY <1>1, <2>1 DEF CodeInv, WholeScans
  <2>2. CASE current # <<>>
    <3>1. latest' = current /\ current \in Seq(Chars) /\ 1 \in DOMAIN current
      BY <1>1, <2>2 DEF ScanInv, KeyTypes
    <3>2. /\ \A i \in DOMAIN current : current[i].scan = h.scan
          /\ \A i, k \in DOMAIN current : i < k => current[i].pos < current[k].pos
          /\ {current[i].pos : i \in DOMAIN current}
                = {k \in Keys : n <= k /\ k <= Len(Program) - 1}
          /\ h.scan \in whole => /\ n = 1
                                 /\ \A i \in DOMAIN current :
                                        current[i].shifted = ShiftHeld(current[i].pos)
      BY <1>5 DEF AtFrom
    <3>3. \A k \in Keys : k \in 1 .. Len(Program) /\ k <= Len(Program) - 1
      <4>1. \A k \in Keys : k \in 1 .. Len(Program) /\ k # Len(Program)
        BY ScannerAssumption DEF Keys
      <4> QED
        BY <4>1
    <3>4. {current[i].pos : i \in DOMAIN current} = {k \in Keys : k >= n}
      BY <3>2, <3>3
    <3>5. n = 1 => {k \in Keys : k >= n} = Keys
      BY <3>3
    <3>6. latest'[1].scan = h.scan
      BY <3>1, <3>2
    <3>7. h.scan \in whole' => /\ {current[i].pos : i \in DOMAIN current} = Keys
                               /\ \A i \in DOMAIN current :
                                      current[i].shifted = ShiftHeld(current[i].pos)
      BY <1>1, <3>2, <3>4, <3>5
    <3> QED
      BY <3>1, <3>2, <3>4, <3>6, <3>7 DEF WholeScans
  <2> QED
    BY <2>1, <2>2
<1> QED
  BY <1>3, <1>7, <1>8 DEF CodeInv

LEMMA CodeStart == ScannerInit => CodeInv
<1> SUFFICES ASSUME ScannerInit PROVE CodeInv
  OBVIOUS
<1>1. Unhandled = <<>>
  BY DEF ScannerInit, Unhandled
<1> QED
  BY <1>1 DEF ScannerInit, CodeInv, Session, Stream, Linked, Progress, WholeScans

\* Every step keeps the account of the scan that is being read.
LEMMA CodeStep ==
    ASSUME ScanInv, shifted \in BOOLEAN, CodeInv, [ScannerNext]_scannerVars
    PROVE  CodeInv'
<1> USE DEF device, goroutine, keys
<1>s. Session
  BY DEF CodeInv
<1>1. ASSUME UNCHANGED <<kbuf, hand, data, typing, whole, alive, err, current, shifted>>,
             latest' \in {latest, <<>>},
             \/ loop' = loop
             \/ ~ alive /\ loop # "done"
      PROVE  CodeInv'
  <2>1. Unhandled' = Unhandled
    BY <1>1 DEF Unhandled
  <2>2. Session'
    BY <1>s, <1>1 DEF Session
  <2> QED
    BY <1>1, <2>1, <2>2, IdleKeeps
<1>2. CASE UNCHANGED scannerVars
  BY <1>1, <1>2 DEF scannerVars
<1>3. CASE Plug
  <2>1. CASE plugged
    <3>1. /\ kbuf' = <<>> /\ alive' = FALSE
          /\ UNCHANGED <<data, hand, whole, current, shifted, latest, loop, err>>
          /\ typing' = [typing EXCEPT !.pos = Len(Program)]
      BY <1>3, <2>1 DEF Plug
    <3>2. typing'.pos = Len(Program) /\ typing'.scan = typing.scan
      BY <3>1 DEF ScanInv, KeyTypes
    <3>3. Session'
      BY <1>s, <3>1, <3>2 DEF Session
    <3> QED
      BY <3>1, <3>3, LossKeeps
  <2>2. CASE ~ plugged
    BY <1>1, <1>3, <2>2 DEF Plug
  <2> QED
    BY <2>1, <2>2
<1>4. CASE Type
  BY <1>4, TypeKeepsCode
<1>5. CASE ReadBatch \/ TakeBatch
  <2>1. data \in Seq(Events) /\ hand \in Seq(Events) /\ kbuf \in Seq(Events)
    BY DEF ScanInv, KeyTypes
  <2>2. \A s \in Seq(Events) : <<>> \o s = s /\ s \o <<>> = s
    OBVIOUS
  <2>3. Unhandled' = Unhandled
    <3>1. CASE ReadBatch
      <4>1. hand = <<>> /\ hand' = kbuf /\ kbuf' = <<>> /\ data' = data
        BY <3>1 DEF ReadBatch, Reading
      <4>2. data \o kbuf \in Seq(Events)
        BY <2>1
      <4> QED
        BY <2>1, <2>2, <4>1, <4>2 DEF Unhandled
    <3>2. CASE TakeBatch
      BY <2>1, <2>2, <3>2 DEF TakeBatch, Unhandled
    <3> QED
      BY <1>5, <3>1, <3>2
  <2>4. UNCHANGED <<alive, typing, whole, current, shifted, loop, err, latest>>
    BY <1>5 DEF ReadBatch, TakeBatch
  <2>5. Session'
    BY <1>s, <2>4 DEF Session
  <2> QED
    BY <2>3, <2>4, <2>5, IdleKeeps
<1>6. CASE OpenDevice
  BY <1>6, OpenKeepsCode
<1>7. CASE HandleShift \/ HandleKey
  BY <1>7, KeyKeepsCode
<1>8. CASE HandleEnter
  BY <1>8, EnterKeepsCode
<1>9. CASE StopSeen
  <2>1. /\ kbuf' = <<>> /\ alive' = FALSE /\ loop' = "done"
        /\ UNCHANGED <<data, hand, typing, whole, current, shifted, latest, err>>
    BY <1>9 DEF StopSeen
  <2>2. Session'
    BY <1>s, <2>1 DEF Session
  <2> QED
    BY <2>1, <2>2, LossKeeps
<1>10. CASE ReadError
  <2>1. Unhandled' = Unhandled
    BY <1>10 DEF ReadError, Unhandled
  <2>2. Session'
    BY <1>s, <1>10 DEF ReadError, Session
  <2> QED
    BY <1>10, <2>1, <2>2, IdleKeeps DEF ReadError
<1>11. CASE StartScanner \/ Detect \/ DetectFails \/ WaitOver \/ OpenFails \/ TakeError \/ Stop
  <2>1. CASE StartScanner \/ Detect \/ DetectFails \/ WaitOver \/ OpenFails \/ TakeError
    <3>1. ~ alive /\ loop # "done"
      BY <1>s, <2>1
      DEF Session, StartScanner, Detect, DetectFails, WaitOver, OpenFails, TakeError
    <3> QED
      BY <1>1, <2>1, <3>1
      DEF StartScanner, Detect, DetectFails, WaitOver, OpenFails, TakeError
  <2>2. CASE Stop
    BY <1>1, <2>2 DEF Stop
  <2> QED
    BY <1>11, <2>1, <2>2
<1>12. ASSUME NEW p \in Pollers, SeesConnected(p) \/ Consume(p) PROVE CodeInv'
  BY <1>1, <1>12 DEF SeesConnected, Consume
<1> QED
  BY <1>2, <1>3, <1>4, <1>5, <1>6, <1>7, <1>8, <1>9, <1>10, <1>11, <1>12
  DEF ScannerNext, Loop

\* What GET /scanner/scan hands out is one code: the last characters of a single
\* scan in their order, and all of them, each in its right case, if the device was
\* open when the scan began, however the reader was unplugged before and however
\* its events came in batches.
THEOREM ScansAreWhole == ScannerSpec => []WholeScans
<1>1. ScannerInit => CodeInv
  BY CodeStart
<1>2. (ScanInv /\ shifted \in BOOLEAN) /\ CodeInv /\ [ScannerNext]_scannerVars => CodeInv'
  BY CodeStep
<1>3. CodeInv => WholeScans
  BY DEF CodeInv
<1> QED
  BY <1>1, <1>2, <1>3, ScanInvariant, PTL DEF ScannerSpec
=============================================================================
