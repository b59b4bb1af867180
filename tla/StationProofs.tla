--------------------------- MODULE StationProofs ---------------------------
(***************************************************************************)
(* What TLAPS proves about the parts of the station: the monthly log, for  *)
(* any number of months, restarts and failures at any time; the frame      *)
(* reader, for any bytes and whatever pieces reads return; the Wi-Fi       *)
(* profiles, for names of any length and any characters; the choice of the *)
(* printer, for any set of queues, any configuration and any number of     *)
(* changes while Status looks; the types of the queue watch; and that the  *)
(* parts keep their types side by side.                                    *)
(***************************************************************************)
EXTENDS MCStation, RasterProofs, ScaleLineProofs, ScannerProofs

-----------------------------------------------------------------------------
\* The month of a day: DaysPerMonth days belong to it.
LEMMA DivFacts ==
    ASSUME NEW d \in Nat, NEW m \in Nat \ {0}
    PROVE  d \div m \in Nat /\ m * (d \div m) <= d /\ d < m * (d \div m) + m
OBVIOUS

\* A later day is in no earlier month.
LEMMA DivMono ==
    ASSUME NEW d \in Nat, NEW e \in Nat, d <= e, NEW m \in Nat \ {0}
    PROVE  d \div m <= e \div m
<1> DEFINE x == d \div m
           y == e \div m
<1>1. x \in Nat /\ y \in Nat /\ m * x <= d /\ e < m * y + m
  BY DivFacts
<1> HIDE DEF x, y
<1>2. m * x < m * y + m
  BY <1>1
<1>3. ASSUME y < x PROVE FALSE
  <2>1. PICK k \in Nat : x = y + 1 + k
    <3>1. x - y - 1 \in Nat /\ x = y + 1 + (x - y - 1)
      BY <1>1, <1>3
    <3> QED
      BY <3>1
  <2>2. m * x = m * y + m + m * k /\ m * k \in Nat
    BY <1>1, <2>1
  <2> QED
    BY <1>1, <1>2, <2>2
<1>4. x <= y
  BY <1>1, <1>3
<1> QED
  BY <1>4 DEF x, y

\* The file of a line of the last Year - 1 months is not too old to keep.
LEMMA Young ==
    ASSUME NEW d \in Nat, NEW n \in Nat, NEW D \in Nat \ {0}, NEW Y \in Nat \ {0},
           d > n - (Y - 1) * D
    PROVE  ~ ((d \div D) * D + Y * D <= n)
<1> DEFINE q == d \div D
<1>1. q \in Nat /\ d < D * q + D
  BY DivFacts
<1> HIDE DEF q
<1>2. (Y - 1) * D = Y * D - D /\ q * D = D * q /\ q * D \in Nat /\ Y * D \in Nat
  BY <1>1
<1>3. ~ (q * D + Y * D <= n)
  BY <1>1, <1>2
<1> QED
  BY <1>3 DEF q

-----------------------------------------------------------------------------
(***************************************************************************)
(* A line can only go missing unreported if it is written while the file of *)
(* an earlier month, or none, is open: a hub without an open file has to    *)
(* remember an earlier month, so that the next line tries to rotate again.  *)
(***************************************************************************)
LogInv ==
    /\ LogTypeOK
    /\ \A day \in lines : day <= now
    /\ curMonth <= MonthOf(now)
    /\ running /\ ~ isOpen => curMonth < MonthOf(now)
    /\ LinesKept

\* Every day has a month the log knows.
LEMMA MonthKnown ==
    ASSUME NEW day \in Days
    PROVE  MonthOf(day) \in Months
<1>1. MaxDay \in Nat /\ DaysPerMonth \in Nat \ {0} /\ day \in Nat /\ day <= MaxDay
  BY LogAssumption DEF Days
<1>2. day \div DaysPerMonth \in Nat /\ MaxDay \div DaysPerMonth \in Nat
  BY <1>1, DivFacts
<1>3. day \div DaysPerMonth <= MaxDay \div DaysPerMonth
  BY <1>1, DivMono
<1> QED
  BY <1>2, <1>3 DEF MonthOf, Months

LEMMA LogStart == LogInit => LogInv
<1> SUFFICES ASSUME LogInit PROVE LogInv
  OBVIOUS
<1>1. 0 \in Days
  BY LogAssumption DEF Days
<1>2. MonthOf(0) \in Months /\ MonthOf(0) \in Nat
  <2>1. MonthOf(0) \in Months
    BY <1>1, MonthKnown
  <2>2. 0 \div DaysPerMonth \in Nat
    BY LogAssumption, DivFacts
  <2> QED
    BY <2>1, <2>2 DEF MonthOf
<1>3. 0 \in Months
  <2>1. MaxDay \div DaysPerMonth \in Nat
    BY LogAssumption, DivFacts
  <2> QED
    BY <2>1 DEF Months, MonthOf
<1>4. LogTypeOK
  BY <1>1, <1>3 DEF LogInit, LogTypeOK
<1> QED
  BY <1>2, <1>4 DEF LogInit, LogInv, LinesKept

\* Every step of the hub and of the clock keeps the invariant.
LEMMA LogStep ==
    ASSUME LogInv, [LogNext]_logVars
    PROVE  LogInv'
<1>a. DaysPerMonth \in Nat \ {0} /\ Year \in Nat \ {0} /\ MaxDay \in Nat
  BY LogAssumption
<1>t. /\ LogTypeOK /\ LinesKept
      /\ \A day \in lines : day <= now
      /\ curMonth <= MonthOf(now) /\ (running /\ ~ isOpen => curMonth < MonthOf(now))
  BY DEF LogInv
<1>n. /\ now \in Days /\ now \in Nat /\ now <= MaxDay /\ curMonth \in Nat
      /\ lines \subseteq Days /\ reported \subseteq Days
      /\ inFile \in [Months -> SUBSET Days]
      /\ Days \subseteq Nat
  BY <1>a, <1>t DEF LogTypeOK, Days, Months
<1>m. MonthOf(now) \in Months /\ MonthOf(now) \in Nat
  BY <1>n, MonthKnown DEF Months
<1>1. CASE StartLog
  <2>1. /\ running' = TRUE /\ curMonth' = MonthOf(now) /\ isOpen' = TRUE
        /\ inFile' = Cleaned /\ now' = now /\ lines' = lines /\ reported' = reported
    BY <1>1 DEF StartLog
  <2>2. \A m \in Months : Cleaned[m] \subseteq inFile[m]
    BY DEF Cleaned
  <2>3. Cleaned \in [Months -> SUBSET Days]
    BY <1>n DEF Cleaned
  <2>4. LogTypeOK'
    BY <1>t, <1>m, <2>1, <2>3 DEF LogTypeOK
  <2>5. LinesKept'
    <3> SUFFICES ASSUME NEW day \in lines' \ reported',
                        day > now' - (Year - 1) * DaysPerMonth
                 PROVE  day \in inFile'[MonthOf(day)]
      BY DEF LinesKept
    <3>1. day \in lines \ reported /\ day \in Days /\ day \in Nat
          /\ day > now - (Year - 1) * DaysPerMonth
      BY <1>n, <2>1
    <3>2. day \in inFile[MonthOf(day)] /\ MonthOf(day) \in Months
      BY <1>t, <3>1, MonthKnown DEF LinesKept
    <3>3. ~ TooOld(MonthOf(day))
      BY <1>a, <1>n, <3>1, Young DEF TooOld, MonthOf
    <3> QED
      BY <2>1, <3>2, <3>3 DEF Cleaned
  <2>6. MonthOf(now') = MonthOf(now)
    BY <2>1
  <2> QED
    BY <1>t, <1>m, <2>1, <2>4, <2>5, <2>6 DEF LogInv
<1>2. CASE EndLog
  <2>1. /\ running' = FALSE /\ isOpen' = FALSE
        /\ UNCHANGED <<now, curMonth, inFile, lines, reported>>
    BY <1>2 DEF EndLog
  <2> QED
    BY <1>t, <2>1 DEF LogInv, LogTypeOK, LinesKept, MonthOf
\* A line goes to the open file, which is that of this month.
<1>3. ASSUME isOpen', now' = now, running' = running, reported' = reported,
             curMonth' = MonthOf(now), Put(curMonth')
      PROVE  LogInv'
  <2>1. /\ lines' = lines \cup {now}
        /\ inFile' = [inFile EXCEPT ![MonthOf(now)] = @ \cup {now}]
    BY <1>3 DEF Put
  <2>2. \A m \in Months : inFile[m] \subseteq inFile'[m]
    BY <1>n, <2>1
  <2>3. now \in inFile'[MonthOf(now)]
    BY <1>n, <1>m, <2>1
  <2>4. inFile' \in [Months -> SUBSET Days] /\ isOpen' \in BOOLEAN
    <3>1. inFile' \in [Months -> SUBSET Days]
      BY <1>n, <1>m, <2>1
    <3>2. isOpen' = TRUE \/ isOpen' \in BOOLEAN
      BY <1>3
    <3> QED
      BY <1>3, <3>1
  <2>5. LogTypeOK'
    BY <1>t, <1>n, <1>m, <1>3, <2>1, <2>4 DEF LogTypeOK
  <2>6. LinesKept'
    <3> SUFFICES ASSUME NEW day \in lines' \ reported',
                        day > now' - (Year - 1) * DaysPerMonth
                 PROVE  day \in inFile'[MonthOf(day)]
      BY DEF LinesKept
    <3>1. CASE day = now
      BY <2>3, <3>1
    <3>2. CASE day # now
      <4>1. day \in lines \ reported /\ day \in Days
            /\ day > now - (Year - 1) * DaysPerMonth
        BY <1>n, <1>3, <2>1, <3>2
      <4>2. day \in inFile[MonthOf(day)] /\ MonthOf(day) \in Months
        BY <1>t, <4>1, MonthKnown DEF LinesKept
      <4> QED
        BY <2>2, <4>2
    <3> QED
      BY <3>1, <3>2
  <2>7. \A day \in lines' : day <= now'
    BY <1>t, <1>n, <1>3, <2>1
  <2>8. MonthOf(now') = MonthOf(now)
    BY <1>3
  <2> QED
    BY <1>m, <1>3, <2>5, <2>6, <2>7, <2>8 DEF LogInv
<1>4. CASE Write
  <2>1. running /\ MonthOf(now) = curMonth /\ isOpen' = isOpen /\ Put(curMonth)
        /\ UNCHANGED <<now, running, curMonth, reported>>
    BY <1>4 DEF Write
  <2>2. isOpen
    BY <1>t, <1>m, <1>n, <2>1
  <2> QED
    BY <1>3, <2>1, <2>2
<1>5. CASE Rotate
  BY <1>3, <1>5 DEF Rotate
<1>6. CASE RotateFails
  <2>1. /\ MonthOf(now) # curMonth /\ isOpen' = FALSE
        /\ lines' = lines \cup {now} /\ reported' = reported \cup {now}
        /\ UNCHANGED <<now, running, curMonth, inFile>>
    BY <1>6 DEF RotateFails
  <2>2. LogTypeOK'
    BY <1>t, <1>n, <2>1 DEF LogTypeOK
  <2>3. LinesKept'
    BY <1>t, <2>1 DEF LinesKept
  <2>4. \A day \in lines' : day <= now'
    BY <1>t, <1>n, <2>1
  <2>5. MonthOf(now') = MonthOf(now)
    BY <2>1
  <2>6. curMonth < MonthOf(now)
    BY <1>t, <1>n, <1>m, <2>1
  <2> QED
    BY <1>t, <2>1, <2>2, <2>3, <2>4, <2>5, <2>6 DEF LogInv
<1>7. CASE NextDay
  <2>1. /\ now < MaxDay /\ now' = now + 1
        /\ UNCHANGED <<running, curMonth, isOpen, inFile, lines, reported>>
    BY <1>7 DEF NextDay
  <2>2. now' \in Days /\ now' \in Nat /\ now <= now'
    BY <1>a, <1>n, <2>1 DEF Days
  <2>3. MonthOf(now') \in Nat /\ MonthOf(now) <= MonthOf(now')
    <3>1. now \div DaysPerMonth <= now' \div DaysPerMonth
      BY <1>a, <1>n, <2>2, DivMono
    <3>2. now' \div DaysPerMonth \in Nat
      BY <1>a, <2>2, DivFacts
    <3> QED
      BY <3>1, <3>2 DEF MonthOf
  <2>4. LogTypeOK'
    BY <1>t, <2>1, <2>2 DEF LogTypeOK
  <2>5. LinesKept'
    <3> SUFFICES ASSUME NEW day \in lines' \ reported',
                        day > now' - (Year - 1) * DaysPerMonth
                 PROVE  day \in inFile'[MonthOf(day)]
      BY DEF LinesKept
    <3>1. day \in lines \ reported /\ day \in Nat
      BY <1>n, <2>1
    <3>2. (Year - 1) * DaysPerMonth \in Nat
      BY <1>a
    <3>3. day > now - (Year - 1) * DaysPerMonth
      BY <1>n, <2>1, <3>1, <3>2
    <3> QED
      BY <1>t, <2>1, <3>1, <3>3 DEF LinesKept
  <2>6. \A day \in lines' : day <= now'
    BY <1>t, <1>n, <2>1
  <2>7. curMonth' <= MonthOf(now') /\ (running' /\ ~ isOpen' => curMonth' < MonthOf(now'))
    BY <1>t, <1>n, <1>m, <2>1, <2>3
  <2> QED
    BY <2>4, <2>5, <2>6, <2>7 DEF LogInv
<1>8. CASE UNCHANGED logVars
  BY <1>t, <1>8 DEF logVars, LogInv, LogTypeOK, LinesKept, MonthOf
<1> QED
  BY <1>1, <1>2, <1>4, <1>5, <1>6, <1>7, <1>8 DEF LogNext

LEMMA LogInvariant == LogSpec => []LogInv
<1>1. LogInv /\ [LogNext]_logVars => LogInv'
  BY LogStep
<1> QED
  BY <1>1, LogStart, PTL DEF LogSpec

\* Every variable of the log keeps its type.
THEOREM LogTypes == LogSpec => []LogTypeOK
<1>1. LogInv => LogTypeOK
  BY DEF LogInv
<1> QED
  BY <1>1, LogInvariant, PTL

\* A line of the last Year - 1 months is in the file of its month or its loss was
\* reported, whenever rotations fail, the hub is restarted and files are removed.
THEOREM LogKeepsLines == LogSpec => []LinesKept
<1>1. LogInv => LinesKept
  BY DEF LogInv
<1> QED
  BY <1>1, LogInvariant, PTL

-----------------------------------------------------------------------------
\* A head begins at j, as far as the bytes say.
MayBegin(s, j) == s[j] = Head1 /\ (j < Len(s) => s[j + 1] = Head2)

Turned(f, s, i) == f = [k \in i .. Len(s) + 1 |-> Turn(s, f, k)]

LEMMA HeadIs ==
    ASSUME NEW s \in Seq(Bytes), NEW i \in 1 .. Len(s) + 1
    PROVE  /\ HeadFrom(s, i) = 0 =>
                 \A k \in i .. Len(s) - 1 : ~ (s[k] = Head1 /\ s[k + 1] = Head2)
           /\ HeadFrom(s, i) # 0 =>
                 /\ HeadFrom(s, i) \in i .. Len(s) - 1
                 /\ s[HeadFrom(s, i)] = Head1 /\ s[HeadFrom(s, i) + 1] = Head2
                 /\ \A k \in i .. HeadFrom(s, i) - 1 : ~ (s[k] = Head1 /\ s[k + 1] = Head2)
<1> DEFINE heads == {k \in i .. Len(s) - 1 : s[k] = Head1 /\ s[k + 1] = Head2}
<1>0. Len(s) \in Nat /\ i \in Nat /\ i >= 1
  OBVIOUS
<1>1. CASE heads = {}
  <2>1. HeadFrom(s, i) = 0
    BY <1>1 DEF HeadFrom
  <2> QED
    BY <1>1, <2>1
<1>2. CASE heads # {}
  <2>1. heads \subseteq Nat
    BY <1>0
  <2>2. \E x \in heads : \A y \in heads : x <= y
    BY <1>2, <2>1, LeastNat
  <2>3. HeadFrom(s, i) = CHOOSE k \in heads : \A j \in heads : k <= j
    BY <1>2 DEF HeadFrom
  <2>4. HeadFrom(s, i) \in heads /\ \A y \in heads : HeadFrom(s, i) <= y
    BY <2>2, <2>3
  <2>5. PICK h \in heads : h = HeadFrom(s, i)
    BY <2>4
  <2>6. h \in i .. Len(s) - 1 /\ s[h] = Head1 /\ s[h + 1] = Head2 /\ h # 0
    BY <1>0, <2>5
  <2>7. ASSUME NEW k \in i .. h - 1 PROVE ~ (s[k] = Head1 /\ s[k + 1] = Head2)
    <3>1. k \in i .. Len(s) - 1 /\ ~ (h <= k)
      BY <1>0, <2>6
    <3> QED
      BY <2>4, <2>5, <3>1
  <2> QED
    BY <2>5, <2>6, <2>7
<1> QED
  BY <1>1, <1>2

\* A turn only uses what later turns give.
LEMMA TurnLocal ==
    ASSUME NEW s \in Seq(Bytes), NEW i \in 1 .. Len(s) + 1, NEW f, NEW g,
           \A k \in i + 1 .. Len(s) + 1 : f[k] = g[k]
    PROVE  Turn(s, f, i) = Turn(s, g, i)
<1>1. CASE HeadFrom(s, i) = 0 \/ HeadFrom(s, i) + FrameSize > Len(s) + 1
  BY <1>1 DEF Turn
<1>2. CASE ~ (HeadFrom(s, i) = 0 \/ HeadFrom(s, i) + FrameSize > Len(s) + 1)
  <2>1. HeadFrom(s, i) \in i .. Len(s) - 1
    BY <1>2, HeadIs
  <2>2. HeadFrom(s, i) + FrameSize \in i + 1 .. Len(s) + 1
    BY <1>2, <2>1, FrameAssumption
  <2>3. f[HeadFrom(s, i) + FrameSize] = g[HeadFrom(s, i) + FrameSize]
    BY <2>2
  <2> QED
    BY <1>2, <2>3 DEF Turn
<1> QED
  BY <1>1, <1>2

\* The turns of a buffer exist, from its end to its beginning: the recursion of
\* Turns is one.
LEMMA TurnsIs ==
    ASSUME NEW s \in Seq(Bytes)
    PROVE  Turned(Turns(s), s, 1)
<1> DEFINE n == Len(s) + 1
           S == {k \in Nat : k < n => \E f : Turned(f, s, n - k)}
<1>0. Len(s) \in Nat /\ n \in Nat /\ n = Len(s) + 1
  OBVIOUS
<1>1. 0 \in S
  <2> DEFINE g == [k \in n - 0 .. n |-> Turn(s, <<>>, k)]
  <2>1. n - 0 .. n = {n}
    BY <1>0
  <2>2. Turn(s, <<>>, n) = Turn(s, g, n)
    <3>1. n \in 1 .. Len(s) + 1 /\ n + 1 .. Len(s) + 1 = {}
      BY <1>0
    <3> HIDE DEF g
    <3> QED
      BY <3>1, TurnLocal
  <2>3. g = [k \in n - 0 .. n |-> Turn(s, g, k)]
    <3>1. \A k \in n - 0 .. n : Turn(s, <<>>, k) = Turn(s, g, k)
      BY <2>1, <2>2
    <3> QED
      BY <3>1
  <2>4. Turned(g, s, n - 0)
    BY <2>3 DEF Turned
  <2> QED
    BY <2>4
<1>2. ASSUME NEW k \in Nat, k \in S PROVE k + 1 \in S
  <2> SUFFICES ASSUME k + 1 < n PROVE \E f : Turned(f, s, n - (k + 1))
    OBVIOUS
  <2>1. PICK f : Turned(f, s, n - k)
    BY <1>0, <1>2
  <2> DEFINE m == n - (k + 1)
             g == [j \in m .. n |-> IF j = m THEN Turn(s, f, m) ELSE f[j]]
  <2>2. m \in 1 .. Len(s) + 1 /\ n - k = m + 1 /\ m .. n = {m} \cup (m + 1 .. n)
        /\ m \notin m + 1 .. n
    BY <1>0
  <2>3. f = [j \in m + 1 .. n |-> Turn(s, f, j)]
    BY <2>1, <2>2 DEF Turned
  <2>4. \A j \in m + 1 .. n : g[j] = f[j]
    BY <2>2
  <2>5. g[m] = Turn(s, f, m) /\ DOMAIN g = m .. n
    BY <2>2
  <2> HIDE DEF g, m
  <2>6. Turn(s, f, m) = Turn(s, g, m)
    BY <2>2, <2>4, TurnLocal
  <2>7. ASSUME NEW j \in m + 1 .. n PROVE f[j] = Turn(s, g, j)
    <3>1. j \in 1 .. Len(s) + 1 /\ \A i \in j + 1 .. n : i \in m + 1 .. n
      BY <1>0, <2>2, <2>7
    <3>2. Turn(s, f, j) = Turn(s, g, j)
      BY <2>4, <3>1, TurnLocal
    <3> QED
      BY <2>3, <3>2
  <2>8. \A j \in m .. n : g[j] = Turn(s, g, j)
    BY <2>2, <2>4, <2>5, <2>6, <2>7
  <2>9. g = [j \in m .. n |-> Turn(s, g, j)]
    BY <2>5, <2>8 DEF g
  <2> QED
    BY <2>9 DEF Turned, m
<1>3. Nat \subseteq S
  <2> HIDE DEF S
  <2> QED
    BY <1>1, <1>2, SetInduction
<1>4. \E f : Turned(f, s, 1)
  <2>1. Len(s) \in S /\ Len(s) < n /\ n - Len(s) = 1
    BY <1>0, <1>3
  <2> QED
    BY <2>1
<1>5. \E f : f = [k \in 1 .. Len(s) + 1 |-> Turn(s, f, k)]
  BY <1>4 DEF Turned
<1>6. Turns(s) = CHOOSE f : f = [k \in 1 .. Len(s) + 1 |-> Turn(s, f, k)]
  BY Zenon DEF Turns
<1> QED
  BY <1>5, <1>6, Zenon DEF Turned

-----------------------------------------------------------------------------
\* The frames that are found in s from i on and that end before p, at the positions
\* heads: each begins with a head, and every head before p is in one of them.
Chain(s, heads, i, p) ==
    /\ \A k \in DOMAIN heads : heads[k] \in Nat /\ i <= heads[k] /\ heads[k] + FrameSize <= p
                            /\ MayBegin(s, heads[k])
    /\ \A j, k \in DOMAIN heads : j < k => heads[j] + FrameSize <= heads[k]
    /\ \A j \in i .. p - 1 : MayBegin(s, j) =>
           \E k \in DOMAIN heads : heads[k] <= j /\ j < heads[k] + FrameSize

FrameAt(s, j) == SubSeq(s, j, (j + FrameSize) - 1)

AnyFrame(s) == {FrameAt(s, n) : n \in Nat}

FramesOf(s, heads) == [k \in DOMAIN heads |-> FrameAt(s, heads[k])]

\* Sequences of one element.
LEMMA OneElement ==
    ASSUME NEW S, NEW s \in Seq(S), NEW t \in Seq(S), Len(s) = 1, Len(t) = 1, s[1] = t[1]
    PROVE  s = t
<1>1. \A i \in 1 .. Len(s) : s[i] = t[i]
  <2>1. \A i \in 1 .. 1 : i = 1
    OBVIOUS
  <2> QED
    BY <2>1
<1> QED
  BY <1>1, SeqEqual

\* What a turn leaves begins where no head was before it.
LEMMA RestIs ==
    ASSUME NEW s \in Seq(Bytes), NEW i \in 1 .. Len(s) + 1
    PROVE  \E p \in i .. Len(s) + 1 :
              /\ Rest(s, i) = SubSeq(s, p, Len(s))
              /\ \A j \in i .. p - 1 : ~ MayBegin(s, j)
              /\ IF HeadFrom(s, i) = 0 THEN p >= Len(s) ELSE p = HeadFrom(s, i)
<1>0. Len(s) \in Nat /\ i \in Nat /\ i >= 1
  OBVIOUS
<1>1. CASE HeadFrom(s, i) # 0
  <2>1. PICK h \in i .. Len(s) - 1 : h = HeadFrom(s, i)
    BY <1>1, HeadIs
  <2>2. \A j \in i .. h - 1 : ~ (s[j] = Head1 /\ s[j + 1] = Head2)
    BY <1>1, <2>1, HeadIs
  <2>3. ASSUME NEW j \in i .. h - 1 PROVE ~ MayBegin(s, j)
    <3>1. j < Len(s)
      BY <1>0, <2>1
    <3> QED
      BY <2>2, <3>1 DEF MayBegin
  <2>4. h \in i .. Len(s) + 1 /\ Rest(s, i) = SubSeq(s, h, Len(s))
    BY <1>0, <1>1, <2>1 DEF Rest
  <2> QED
    BY <1>1, <2>1, <2>3, <2>4
<1>2. CASE HeadFrom(s, i) = 0 /\ i <= Len(s) /\ s[Len(s)] = Head1
  <2>1. ASSUME NEW j \in i .. Len(s) - 1 PROVE ~ MayBegin(s, j)
    <3>1. j < Len(s)
      BY <1>0
    <3> QED
      BY <1>2, <3>1, HeadIs DEF MayBegin
  <2>2. Rest(s, i) = <<s[Len(s)]>>
    BY <1>2 DEF Rest
  <2>3. SubSeq(s, Len(s), Len(s)) = <<s[Len(s)]>>
    <3>1. /\ SubSeq(s, Len(s), Len(s)) \in Seq(Bytes)
          /\ Len(SubSeq(s, Len(s), Len(s))) = 1
          /\ SubSeq(s, Len(s), Len(s))[1] = s[Len(s)]
      BY <1>0, <1>2, SubSeqProperties
    <3>2. <<s[Len(s)]>> \in Seq(Bytes) /\ Len(<<s[Len(s)]>>) = 1 /\ <<s[Len(s)]>>[1] = s[Len(s)]
      BY <1>0, <1>2
    <3> QED
      BY <3>1, <3>2, OneElement
  <2>4. Len(s) \in i .. Len(s) + 1
    BY <1>0, <1>2
  <2> QED
    BY <1>0, <1>2, <2>1, <2>2, <2>3, <2>4
<1>3. CASE HeadFrom(s, i) = 0 /\ ~ (i <= Len(s) /\ s[Len(s)] = Head1)
  <2>1. ASSUME NEW j \in i .. (Len(s) + 1) - 1 PROVE ~ MayBegin(s, j)
    <3>1. j < Len(s) \/ j = Len(s)
      BY <1>0
    <3> QED
      BY <1>0, <1>3, <3>1, HeadIs DEF MayBegin
  <2>2. Rest(s, i) = <<>> /\ SubSeq(s, Len(s) + 1, Len(s)) = <<>>
    BY <1>0, <1>3 DEF Rest
  <2>3. Len(s) + 1 \in i .. Len(s) + 1 /\ Len(s) + 1 >= Len(s)
    BY <1>0
  <2> QED
    BY <1>3, <2>1, <2>2, <2>3
<1> QED
  BY <1>1, <1>2, <1>3

LEMMA ChainNone ==
    ASSUME NEW s, NEW i \in Nat, NEW p \in Nat, \A j \in i .. p - 1 : ~ MayBegin(s, j)
    PROVE  Chain(s, <<>>, i, p)
BY DEF Chain

\* The first frame.
LEMMA ChainOne ==
    ASSUME NEW s, NEW i \in Nat, NEW h \in Nat, i <= h, MayBegin(s, h),
           \A j \in i .. h - 1 : ~ MayBegin(s, j)
    PROVE  Chain(s, <<h>>, i, h + FrameSize)
<1>0. FrameSize \in Nat /\ FrameSize >= 2
  BY FrameAssumption
<1>1. DOMAIN <<h>> = {1} /\ <<h>>[1] = h
  OBVIOUS
<1>2. ASSUME NEW j \in i .. (h + FrameSize) - 1, MayBegin(s, j)
      PROVE  h <= j /\ j < h + FrameSize
  <2>1. j \notin i .. h - 1
    BY <1>2
  <2> QED
    BY <1>0, <2>1
<1> QED
  BY <1>0, <1>1, <1>2 DEF Chain

LEMMA ChainJoin ==
    ASSUME NEW s, NEW i \in Nat, NEW p \in Nat, NEW q \in Nat, i <= p, p <= q,
           NEW a \in Seq(Nat), NEW b \in Seq(Nat), Chain(s, a, i, p), Chain(s, b, p, q)
    PROVE  Chain(s, a \o b, i, q)
<1> DEFINE c == a \o b
<1>0. FrameSize \in Nat /\ FrameSize >= 2
  BY FrameAssumption
<1>1. /\ c \in Seq(Nat) /\ Len(c) = Len(a) + Len(b) /\ Len(a) \in Nat /\ Len(b) \in Nat
      /\ \A k \in 1 .. Len(a) : c[k] = a[k]
      /\ \A k \in Len(a) + 1 .. Len(c) : k - Len(a) \in 1 .. Len(b) /\ c[k] = b[k - Len(a)]
      /\ DOMAIN a = 1 .. Len(a) /\ DOMAIN b = 1 .. Len(b) /\ DOMAIN c = 1 .. Len(c)
  OBVIOUS
<1>2. ASSUME NEW k \in DOMAIN b PROVE c[Len(a) + k] = b[k] /\ Len(a) + k \in DOMAIN c
  <2>1. PICK m \in Nat : m = Len(a) + k
    BY <1>1
  <2>2. m \in Len(a) + 1 .. Len(c) /\ m \in 1 .. Len(c) /\ m - Len(a) = k
    BY <1>1, <2>1
  <2>3. c[m] = b[m - Len(a)]
    BY <1>1, <2>2
  <2> QED
    BY <1>1, <2>1, <2>2, <2>3
<1> HIDE DEF c
<1>3. \A k \in DOMAIN c : k \in DOMAIN a \/ k \in Len(a) + 1 .. Len(c)
  BY <1>1
<1>4. ASSUME NEW k \in DOMAIN a
      PROVE  c[k] \in Nat /\ i <= c[k] /\ c[k] + FrameSize <= p /\ MayBegin(s, c[k])
             /\ k \in DOMAIN c
  BY <1>1 DEF Chain
<1>5. ASSUME NEW k \in Len(a) + 1 .. Len(c)
      PROVE  c[k] \in Nat /\ p <= c[k] /\ c[k] + FrameSize <= q /\ MayBegin(s, c[k])
  BY <1>1 DEF Chain
<1>6. ASSUME NEW k \in DOMAIN c
      PROVE  c[k] \in Nat /\ i <= c[k] /\ c[k] + FrameSize <= q /\ MayBegin(s, c[k])
  BY <1>0, <1>3, <1>4, <1>5
<1>7. ASSUME NEW j \in DOMAIN c, NEW k \in DOMAIN c, j < k
      PROVE  c[j] + FrameSize <= c[k]
  <2>1. CASE j \in DOMAIN a /\ k \in DOMAIN a
    BY <1>1, <1>7, <2>1 DEF Chain
  <2>2. CASE j \in DOMAIN a /\ k \in Len(a) + 1 .. Len(c)
    BY <1>0, <1>4, <1>5, <1>6, <2>2
  <2>3. CASE j \in Len(a) + 1 .. Len(c) /\ k \in Len(a) + 1 .. Len(c)
    <3>1. /\ j - Len(a) \in DOMAIN b /\ k - Len(a) \in DOMAIN b
          /\ c[j] = b[j - Len(a)] /\ c[k] = b[k - Len(a)]
      BY <1>1, <2>3
    <3>2. j - Len(a) < k - Len(a)
      BY <1>1, <1>7, <2>3
    <3> QED
      BY <3>1, <3>2 DEF Chain
  <2>4. ~ (j \in Len(a) + 1 .. Len(c) /\ k \in DOMAIN a)
    BY <1>1, <1>7
  <2> QED
    BY <1>3, <2>1, <2>2, <2>3, <2>4
<1>8. ASSUME NEW j \in i .. q - 1, MayBegin(s, j)
      PROVE  \E k \in DOMAIN c : c[k] <= j /\ j < c[k] + FrameSize
  <2>1. CASE j \in i .. p - 1
    <3>1. PICK k \in DOMAIN a : a[k] <= j /\ j < a[k] + FrameSize
      BY <1>8, <2>1 DEF Chain
    <3> QED
      BY <1>1, <1>4, <3>1
  <2>2. CASE j \in p .. q - 1
    <3>1. PICK k \in DOMAIN b : b[k] <= j /\ j < b[k] + FrameSize
      BY <1>8, <2>2 DEF Chain
    <3> QED
      BY <1>2, <3>1
  <2> QED
    BY <2>1, <2>2
<1>9. Chain(s, c, i, q)
  BY <1>6, <1>7, <1>8 DEF Chain
<1> QED
  BY <1>9 DEF c

LEMMA FramesIs ==
    ASSUME NEW s, NEW a \in Seq(Nat)
    PROVE  /\ FramesOf(s, a) \in Seq(AnyFrame(s))
           /\ Len(FramesOf(s, a)) = Len(a) /\ DOMAIN a = 1 .. Len(a) /\ Len(a) \in Nat
           /\ \A k \in 1 .. Len(a) : FramesOf(s, a)[k] = FrameAt(s, a[k])
<1>1. Len(a) \in Nat /\ DOMAIN a = 1 .. Len(a) /\ \A k \in 1 .. Len(a) : a[k] \in Nat
  OBVIOUS
<1>2. FramesOf(s, a) \in [1 .. Len(a) -> AnyFrame(s)]
  BY <1>1 DEF FramesOf, AnyFrame
<1>3. \A k \in 1 .. Len(a) : FramesOf(s, a)[k] = FrameAt(s, a[k])
  BY <1>1 DEF FramesOf
<1>4. FramesOf(s, a) \in Seq(AnyFrame(s)) /\ Len(FramesOf(s, a)) = Len(a)
  BY <1>1, <1>2
<1> QED
  BY <1>1, <1>3, <1>4

LEMMA FramesOne ==
    ASSUME NEW s, NEW h \in Nat
    PROVE  FramesOf(s, <<h>>) = <<FrameAt(s, h)>>
<1> DEFINE c == <<h>>
<1>1. c \in Seq(Nat) /\ Len(c) = 1 /\ c[1] = h
  OBVIOUS
<1>2. FrameAt(s, h) \in AnyFrame(s)
  BY DEF AnyFrame
<1>3. <<FrameAt(s, h)>> \in Seq(AnyFrame(s)) /\ Len(<<FrameAt(s, h)>>) = 1
      /\ <<FrameAt(s, h)>>[1] = FrameAt(s, h)
  BY <1>2
<1> HIDE DEF c
<1>4. FramesOf(s, c) \in Seq(AnyFrame(s)) /\ Len(FramesOf(s, c)) = 1
      /\ \A k \in 1 .. 1 : FramesOf(s, c)[k] = FrameAt(s, c[k])
  <2>1. FramesOf(s, c) \in Seq(AnyFrame(s)) /\ Len(FramesOf(s, c)) = Len(c)
        /\ \A k \in 1 .. Len(c) : FramesOf(s, c)[k] = FrameAt(s, c[k])
    BY <1>1, FramesIs
  <2> QED
    BY <1>1, <2>1
<1>5. FramesOf(s, c)[1] = FrameAt(s, h)
  BY <1>1, <1>4
<1>6. FramesOf(s, c) = <<FrameAt(s, h)>>
  BY <1>3, <1>4, <1>5, OneElement
<1> QED
  BY <1>6 DEF c

LEMMA FramesJoin ==
    ASSUME NEW s, NEW a \in Seq(Nat), NEW b \in Seq(Nat)
    PROVE  FramesOf(s, a) \o FramesOf(s, b) = FramesOf(s, a \o b)
<1> DEFINE T == AnyFrame(s)
<1>1. FramesOf(s, a) \in Seq(T) /\ FramesOf(s, b) \in Seq(T) /\ FramesOf(s, a \o b) \in Seq(T)
      /\ Len(FramesOf(s, a)) = Len(a) /\ Len(FramesOf(s, b)) = Len(b)
      /\ Len(FramesOf(s, a \o b)) = Len(a) + Len(b)
  <2>2. a \o b \in Seq(Nat) /\ Len(a \o b) = Len(a) + Len(b)
    OBVIOUS
  <2> QED
    BY <2>2, FramesIs
<1>2. /\ Len(a) \in Nat /\ Len(b) \in Nat
      /\ \A k \in 1 .. Len(a) : (a \o b)[k] = a[k]
      /\ \A k \in Len(a) + 1 .. Len(a) + Len(b) :
             k - Len(a) \in 1 .. Len(b) /\ (a \o b)[k] = b[k - Len(a)]
      /\ DOMAIN a = 1 .. Len(a) /\ DOMAIN b = 1 .. Len(b)
      /\ DOMAIN (a \o b) = 1 .. Len(a) + Len(b)
  OBVIOUS
<1> HIDE DEF T
<1>3. FramesOf(s, a) \o FramesOf(s, b) \in Seq(T)
      /\ Len(FramesOf(s, a) \o FramesOf(s, b)) = Len(a) + Len(b)
      /\ \A k \in 1 .. Len(a) + Len(b) :
            (FramesOf(s, a) \o FramesOf(s, b))[k] =
                IF k <= Len(a) THEN FramesOf(s, a)[k] ELSE FramesOf(s, b)[k - Len(a)]
  <2>1. PICK u \in Seq(T), v \in Seq(T) : u = FramesOf(s, a) /\ v = FramesOf(s, b)
    BY <1>1
  <2>2. /\ u \o v \in Seq(T) /\ Len(u \o v) = Len(u) + Len(v)
        /\ \A k \in 1 .. Len(u) + Len(v) :
              (u \o v)[k] = IF k <= Len(u) THEN u[k] ELSE v[k - Len(u)]
    BY ConcatProperties
  <2>3. Len(u) = Len(a) /\ Len(v) = Len(b)
    BY <1>1, <2>1
  <2> QED
    BY <2>1, <2>2, <2>3, Zenon
<1>4. ASSUME NEW k \in 1 .. Len(a) + Len(b)
      PROVE  (FramesOf(s, a) \o FramesOf(s, b))[k] = FramesOf(s, a \o b)[k]
  <2>1. FramesOf(s, a \o b)[k] = FrameAt(s, (a \o b)[k])
    BY <1>2 DEF FramesOf
  <2>2. CASE k <= Len(a)
    <3>1. k \in 1 .. Len(a)
      BY <1>2, <2>2
    <3>2. FramesOf(s, a)[k] = FrameAt(s, a[k])
      BY <1>2, <3>1 DEF FramesOf
    <3> QED
      BY <1>2, <1>3, <2>1, <2>2, <3>1, <3>2
  <2>3. CASE ~ (k <= Len(a))
    <3>1. k \in Len(a) + 1 .. Len(a) + Len(b)
      BY <1>2, <2>3
    <3>2. FramesOf(s, b)[k - Len(a)] = FrameAt(s, b[k - Len(a)])
      BY <1>2, <3>1 DEF FramesOf
    <3> QED
      BY <1>2, <1>3, <2>1, <2>3, <3>1, <3>2
  <2> QED
    BY <2>2, <2>3
<1> QED
  BY <1>1, <1>3, <1>4, SeqEqual

-----------------------------------------------------------------------------
\* The turns from i on find the frames from there on, and leave less than one.
Finds(s, i) ==
    \E heads \in Seq(Nat), p \in i .. Len(s) + 1 :
       /\ Turns(s)[i].frames = FramesOf(s, heads)
       /\ Turns(s)[i].rest = SubSeq(s, p, Len(s))
       /\ Chain(s, heads, i, p)
       /\ Len(s) + 1 - p < FrameSize

LEMMA TurnFinds ==
    ASSUME NEW s \in Seq(Bytes), NEW i \in 1 .. Len(s) + 1,
           \A j \in i + 1 .. Len(s) + 1 : Finds(s, j)
    PROVE  Finds(s, i)
<1>0. Len(s) \in Nat /\ i \in Nat /\ i >= 1 /\ FrameSize \in Nat /\ FrameSize >= 2
  BY FrameAssumption
<1>1. Turns(s)[i] = Turn(s, Turns(s), i)
  <2> DEFINE f == Turns(s)
  <2>1. f = [k \in 1 .. Len(s) + 1 |-> Turn(s, f, k)]
    BY TurnsIs DEF Turned
  <2> HIDE DEF f
  <2>2. f[i] = Turn(s, f, i)
    <3> DEFINE g == [k \in 1 .. Len(s) + 1 |-> Turn(s, f, k)]
    <3>1. g[i] = Turn(s, f, i)
      OBVIOUS
    <3>2. f = g
      BY <2>1
    <3> HIDE DEF g
    <3> QED
      BY <3>1, <3>2
  <2> QED
    BY <2>2 DEF f
<1>2. PICK p \in i .. Len(s) + 1 :
         /\ Rest(s, i) = SubSeq(s, p, Len(s))
         /\ \A j \in i .. p - 1 : ~ MayBegin(s, j)
         /\ IF HeadFrom(s, i) = 0 THEN p >= Len(s) ELSE p = HeadFrom(s, i)
  BY RestIs
<1>3. CASE HeadFrom(s, i) = 0 \/ HeadFrom(s, i) + FrameSize > Len(s) + 1
  <2>1. Turns(s)[i] = [frames |-> <<>>, rest |-> Rest(s, i)]
    BY <1>1, <1>3 DEF Turn
  <2>2. FramesOf(s, <<>>) = <<>>
    BY DEF FramesOf
  <2>3. Chain(s, <<>>, i, p)
    BY <1>0, <1>2, ChainNone
  <2>4. Len(s) + 1 - p < FrameSize
    BY <1>0, <1>2, <1>3
  <2>5. <<>> \in Seq(Nat) /\ Turns(s)[i].frames = FramesOf(s, <<>>)
        /\ Turns(s)[i].rest = SubSeq(s, p, Len(s))
    BY <1>2, <2>1, <2>2
  <2> QED
    BY <2>3, <2>4, <2>5 DEF Finds
<1>4. CASE ~ (HeadFrom(s, i) = 0 \/ HeadFrom(s, i) + FrameSize > Len(s) + 1)
  <2>1. PICK h \in i .. Len(s) - 1 : h = HeadFrom(s, i)
    BY <1>4, HeadIs
  <2>2. h \in Nat /\ h >= i /\ h + FrameSize \in i + 1 .. Len(s) + 1 /\ p = h
    BY <1>0, <1>2, <1>4, <2>1
  <2>3. s[h] = Head1 /\ s[h + 1] = Head2 /\ MayBegin(s, h)
    BY <1>4, <2>1, HeadIs DEF MayBegin
  <2>4. Chain(s, <<h>>, i, h + FrameSize)
    BY <1>0, <1>2, <2>2, <2>3, ChainOne
  <2>5. PICK heads \in Seq(Nat), q \in h + FrameSize .. Len(s) + 1 :
           /\ Turns(s)[h + FrameSize].frames = FramesOf(s, heads)
           /\ Turns(s)[h + FrameSize].rest = SubSeq(s, q, Len(s))
           /\ Chain(s, heads, h + FrameSize, q)
           /\ Len(s) + 1 - q < FrameSize
    BY <2>2 DEF Finds
  <2>6. <<h>> \in Seq(Nat) /\ <<h>> \o heads \in Seq(Nat)
    BY <2>2
  <2>7. Chain(s, <<h>> \o heads, i, q)
    <3>1. h + FrameSize \in Nat /\ q \in Nat /\ i <= h + FrameSize /\ h + FrameSize <= q
      BY <1>0, <2>2, <2>5
    <3> QED
      BY <1>0, <2>4, <2>5, <2>6, <3>1, ChainJoin
  <2>t. Turns(s)[i] = [frames |-> <<FrameAt(s, h)>> \o Turns(s)[h + FrameSize].frames,
                       rest   |-> Turns(s)[h + FrameSize].rest]
    BY <1>1, <1>4, <2>1 DEF Turn, FrameAt
  <2>8. Turns(s)[i].frames = FramesOf(s, <<h>> \o heads)
    <3>1. FramesOf(s, <<h>>) = <<FrameAt(s, h)>>
      BY <2>2, FramesOne
    <3>2. Turns(s)[i].frames = <<FrameAt(s, h)>> \o FramesOf(s, heads)
      <4>1. Turns(s)[i].frames = <<FrameAt(s, h)>> \o Turns(s)[h + FrameSize].frames
        <5>1. PICK f, r : /\ f = <<FrameAt(s, h)>> \o Turns(s)[h + FrameSize].frames
                          /\ r = Turns(s)[h + FrameSize].rest
          OBVIOUS
        <5>2. Turns(s)[i] = [frames |-> f, rest |-> r]
          BY <2>t, <5>1
        <5>3. Turns(s)[i].frames = f
          BY <5>2
        <5> QED
          BY <5>1, <5>3
      <4>2. Turns(s)[h + FrameSize].frames = FramesOf(s, heads)
        BY <2>5
      <4> QED
        BY <4>1, <4>2
    <3> QED
      <4> DEFINE a == <<h>>
      <4>1. a \in Seq(Nat) /\ heads \in Seq(Nat)
        BY <2>5, <2>6
      <4> HIDE DEF a
      <4>2. FramesOf(s, a) \o FramesOf(s, heads) = FramesOf(s, a \o heads)
        BY <4>1, FramesJoin
      <4>3. FramesOf(s, <<h>>) \o FramesOf(s, heads) = FramesOf(s, <<h>> \o heads)
        BY <4>2 DEF a
      <4> QED
        BY <3>1, <3>2, <4>3, Zenon
  <2>9. Turns(s)[i].rest = SubSeq(s, q, Len(s)) /\ q \in i .. Len(s) + 1
    BY <1>0, <2>2, <2>5, <2>t
  <2> QED
    BY <2>5, <2>6, <2>7, <2>8, <2>9 DEF Finds
<1> QED
  BY <1>3, <1>4

\* From the end of the buffer to its beginning, every turn does.
LEMMA ExtractFinds ==
    ASSUME NEW s \in Seq(Bytes)
    PROVE  Finds(s, 1)
<1> DEFINE n == Len(s) + 1
           S == {k \in Nat : \A i \in 1 .. n : n - i <= k => Finds(s, i)}
<1>0. Len(s) \in Nat /\ n \in Nat /\ n = Len(s) + 1
  OBVIOUS
<1>1. 0 \in S
  <2> SUFFICES ASSUME NEW i \in 1 .. n, n - i <= 0 PROVE Finds(s, i)
    BY <1>0
  <2>1. i + 1 .. Len(s) + 1 = {}
    BY <1>0
  <2> QED
    BY <2>1, TurnFinds
<1>2. ASSUME NEW k \in Nat, k \in S PROVE k + 1 \in S
  <2> SUFFICES ASSUME NEW i \in 1 .. n, n - i <= k + 1 PROVE Finds(s, i)
    BY <1>0
  <2>1. ASSUME NEW j \in i + 1 .. Len(s) + 1 PROVE Finds(s, j)
    <3>1. j \in 1 .. n /\ n - j <= k
      BY <1>0, <2>1
    <3> QED
      BY <1>2, <3>1
  <2> QED
    BY <2>1, TurnFinds
<1>3. Nat \subseteq S
  <2> HIDE DEF S
  <2> QED
    BY <1>1, <1>2, SetInduction
<1>4. Len(s) \in S
  <2> HIDE DEF S
  <2> QED
    BY <1>0, <1>3
<1>5. n - 1 <= Len(s) /\ 1 \in 1 .. n
  BY <1>0
<1> QED
  BY <1>4, <1>5

-----------------------------------------------------------------------------
\* The bytes p to n of a stream, and positions in them as positions in the stream.
Part(t, p, n) == SubSeq(t, p, n)

Shift(a, p) == [k \in DOMAIN a |-> (a[k] + p) - 1]

Shifted(t, n, p, s, a, q, b) ==
    /\ b \in Seq(Nat) /\ (p + q) - 1 \in p .. n + 1
    /\ Chain(t, b, p, (p + q) - 1)
    /\ FramesOf(s, a) = FramesOf(t, b)
    /\ SubSeq(s, q, Len(s)) = SubSeq(t, (p + q) - 1, n)
    /\ Len(s) + 1 - q = n + 1 - ((p + q) - 1)

\* What is found in the bytes p to n of a stream is found there in the stream.
LEMMA ChainShift ==
    ASSUME NEW t \in Seq(Bytes), NEW n \in 0 .. Len(t), NEW p \in 1 .. n + 1,
           NEW s, s = Part(t, p, n),
           NEW a \in Seq(Nat), NEW q \in 1 .. Len(s) + 1, Chain(s, a, 1, q),
           NEW b, b = Shift(a, p)
    PROVE  Shifted(t, n, p, s, a, q, b)
<1>p. s = SubSeq(t, p, n)
  BY DEF Part
<1> DEFINE r == (p + q) - 1
<1>0. /\ FrameSize \in Nat /\ FrameSize >= 2 /\ Len(t) \in Nat
      /\ n \in Nat /\ n <= Len(t) /\ p \in Nat /\ p >= 1 /\ p <= n + 1
  BY FrameAssumption
<1>1. /\ s \in Seq(Bytes) /\ Len(s) = (n + 1) - p
      /\ \A i \in 1 .. (n + 1) - p : s[i] = t[(p + i) - 1]
  <2>1. \A i \in p .. n : t[i] \in Bytes
    BY <1>0
  <2>2. /\ s \in Seq(Bytes) /\ Len(s) = IF p <= n THEN n - p + 1 ELSE 0
        /\ \A i \in 1 .. n - p + 1 : s[i] = t[p + i - 1]
    BY <1>0, <1>p, <2>1, SubSeqProperties
  <2>3. n - p + 1 = (n + 1) - p /\ \A i \in 1 .. (n + 1) - p : p + i - 1 = (p + i) - 1
    BY <1>0
  <2>4. Len(s) = (n + 1) - p
    BY <1>0, <2>2
  <2> QED
    BY <2>2, <2>3, <2>4
<1>2. q \in Nat /\ q >= 1 /\ q <= (n + 2) - p /\ r \in p .. n + 1 /\ r \in Nat
      /\ Len(s) + 1 - q = n + 1 - r
  BY <1>0, <1>1
<1>r. r = (p + q) - 1
  OBVIOUS
<1> HIDE DEF r
<1>3. /\ b \in Seq(Nat) /\ DOMAIN b = DOMAIN a
      /\ \A k \in DOMAIN a : a[k] \in Nat /\ b[k] = (a[k] + p) - 1 /\ b[k] \in Nat
  <2>1. \A k \in DOMAIN a : a[k] \in Nat /\ (a[k] + p) - 1 \in Nat
    BY <1>0
  <2>2. DOMAIN a = 1 .. Len(a) /\ Len(a) \in Nat
    OBVIOUS
  <2> DEFINE c == [k \in DOMAIN a |-> (a[k] + p) - 1]
  <2>3. c \in [1 .. Len(a) -> Nat]
    BY <2>1, <2>2
  <2>4. b = c /\ DOMAIN c = DOMAIN a /\ \A k \in DOMAIN a : c[k] = (a[k] + p) - 1
    <3>1. b = c
      BY DEF Shift
    <3> QED
      BY <3>1
  <2> HIDE DEF c
  <2>5. PICK m \in Nat : m = Len(a)
    BY <2>2
  <2>6. c \in [1 .. m -> Nat]
    BY <2>3, <2>5
  <2>7. c \in Seq(Nat)
    BY <2>6, IsASeq
  <2> QED
    BY <2>1, <2>4, <2>7
\* A head is one in both, if the bytes that are looked at are within n.
<1>4. ASSUME NEW i \in 1 .. Len(s)
      PROVE  MayBegin(t, (p + i) - 1) => MayBegin(s, i)
  <2>1. s[i] = t[(p + i) - 1]
    BY <1>1
  <2>2. ASSUME i < Len(s) PROVE s[i + 1] = t[((p + i) - 1) + 1] /\ (p + i) - 1 < Len(t)
    <3>1. i + 1 \in 1 .. (n + 1) - p /\ (p + (i + 1)) - 1 = ((p + i) - 1) + 1
      BY <1>0, <1>1, <2>2
    <3>2. (p + i) - 1 < Len(t)
      BY <1>0, <1>1, <2>2
    <3> QED
      BY <1>1, <3>1, <3>2
  <2> QED
    BY <2>1, <2>2 DEF MayBegin
<1>5. ASSUME NEW k \in DOMAIN a
      PROVE  /\ p <= b[k] /\ b[k] + FrameSize <= r /\ MayBegin(t, b[k])
             /\ FrameAt(s, a[k]) = FrameAt(t, b[k])
  <2>1. a[k] \in Nat /\ 1 <= a[k] /\ a[k] + FrameSize <= q /\ MayBegin(s, a[k])
    BY DEF Chain
  <2>2. PICK x \in Nat : x = a[k]
    BY <2>1
  <2>3. b[k] = (x + p) - 1 /\ 1 <= x /\ x + FrameSize <= q /\ MayBegin(s, x)
    BY <1>3, <2>1, <2>2
  <2>4. p <= b[k] /\ b[k] + FrameSize <= r
    BY <1>0, <1>2, <1>r, <2>3
  <2>5. x \in 1 .. (n + 1) - p /\ x + 1 \in 1 .. (n + 1) - p /\ x < Len(s)
        /\ (p + x) - 1 = b[k] /\ (p + (x + 1)) - 1 = b[k] + 1
    BY <1>0, <1>1, <1>2, <2>3
  <2>6. s[x] = t[b[k]] /\ s[x + 1] = t[b[k] + 1]
    BY <1>1, <2>5
  <2>7. MayBegin(t, b[k])
    BY <2>3, <2>5, <2>6 DEF MayBegin
  <2>8. FrameAt(s, x) = FrameAt(t, b[k])
    <3> DEFINE e == (x + FrameSize) - 1
    <3>0. x + FrameSize <= (n + 2) - p /\ n - p + 1 = (n + 1) - p
      BY <1>0, <1>2, <2>3
    <3>1. x \in 1 .. n - p + 1 /\ e \in 1 .. n - p + 1 /\ p \in 1 .. Len(t) /\ n \in 1 .. Len(t)
      <4>1. x \in Nat /\ x >= 1 /\ x <= (n + 1) - p /\ e <= (n + 1) - p /\ e >= 1 /\ e \in Nat
        BY <1>0, <2>3, <3>0
      <4>2. p <= n /\ n >= 1
        BY <1>0, <4>1
      <4> HIDE DEF e
      <4> QED
        BY <1>0, <3>0, <4>1, <4>2
    <3> HIDE DEF e
    <3>2. SubSeq(SubSeq(t, p, n), x, e) = SubSeq(t, p + x - 1, p + e - 1)
      BY <3>1, SubSeqOfSubSeq
    <3> USE DEF e
    <3>3. p + x - 1 = (x + p) - 1 /\ p + e - 1 = (((x + p) - 1) + FrameSize) - 1
      BY <1>0
    <3>4. p + x - 1 = b[k] /\ p + e - 1 = (b[k] + FrameSize) - 1
      BY <2>3, <3>3
    <3> QED
      BY <1>p, <3>2, <3>4 DEF FrameAt
  <2> QED
    BY <2>2, <2>4, <2>7, <2>8
<1>6. Chain(t, b, p, r)
  <2>1. \A k \in DOMAIN b : b[k] \in Nat /\ p <= b[k] /\ b[k] + FrameSize <= r /\ MayBegin(t, b[k])
    <3>1. \A k \in DOMAIN b : b[k] \in Nat
      BY <1>3
    <3> QED
      BY <1>3, <1>5, <3>1
  <2>2. ASSUME NEW j \in DOMAIN b, NEW k \in DOMAIN b, j < k
        PROVE  b[j] + FrameSize <= b[k]
    <3>1. a[j] + FrameSize <= a[k] /\ a[j] \in Nat /\ a[k] \in Nat
      BY <1>3, <2>2 DEF Chain
    <3>2. b[j] = (a[j] + p) - 1 /\ b[k] = (a[k] + p) - 1
      BY <1>3
    <3>3. PICK x \in Nat, y \in Nat : x = a[j] /\ y = a[k]
      BY <3>1
    <3>4. x + FrameSize <= y
      BY <3>1, <3>3
    <3>5. ((x + p) - 1) + FrameSize <= (y + p) - 1
      BY <1>0, <3>4
    <3> QED
      BY <3>2, <3>3, <3>5
  <2>3. ASSUME NEW j \in p .. r - 1, MayBegin(t, j)
        PROVE  \E k \in DOMAIN b : b[k] <= j /\ j < b[k] + FrameSize
    <3>1. PICK i \in 1 .. q - 1 : j = (p + i) - 1
      <4>1. (j + 1) - p \in 1 .. q - 1 /\ j = (p + ((j + 1) - p)) - 1
        BY <1>0, <1>2, <1>r
      <4> QED
        BY <4>1
    <3>2. i \in 1 .. Len(s)
      BY <1>0, <1>1, <1>2
    <3>3. PICK k \in DOMAIN a : a[k] <= i /\ i < a[k] + FrameSize
      BY <1>4, <2>3, <3>1, <3>2 DEF Chain
    <3>4. b[k] <= j /\ j < b[k] + FrameSize
      <4>1. PICK x \in Nat : x = a[k]
        BY <1>3
      <4>2. b[k] = (x + p) - 1
        BY <1>3, <4>1
      <4>3. i \in Nat /\ x <= i /\ i < x + FrameSize
        BY <3>1, <3>3, <4>1
      <4>4. (x + p) - 1 <= (p + i) - 1 /\ (p + i) - 1 < ((x + p) - 1) + FrameSize
        BY <1>0, <4>3
      <4> QED
        BY <3>1, <4>2, <4>4
    <3> QED
      BY <1>3, <3>4
  <2> QED
    BY <2>1, <2>2, <2>3 DEF Chain
<1>7. FramesOf(s, a) = FramesOf(t, b)
  <2>1. \A k \in DOMAIN a : FrameAt(s, a[k]) = FrameAt(t, b[k])
    BY <1>5
  <2> QED
    BY <1>3, <2>1 DEF FramesOf
<1>8. SubSeq(s, q, Len(s)) = SubSeq(t, r, n)
  <2>1. CASE q = Len(s) + 1
    <3>1. r = n + 1 /\ Len(s) < q /\ n < r
      BY <1>0, <1>1, <1>r, <2>1
    <3>2. SubSeq(s, q, Len(s)) = <<>> /\ SubSeq(t, r, n) = <<>>
      <4>1. Len(s) \in Int /\ q \in Int /\ r \in Int /\ n \in Int
        BY <1>0, <1>1, <1>2
      <4> QED
        BY <1>1, <3>1, <4>1, SubSeqEmpty
    <3> QED
      BY <3>2
  <2>2. CASE q # Len(s) + 1
    <3>1. q \in 1 .. n - p + 1 /\ Len(s) \in 1 .. n - p + 1 /\ p \in 1 .. Len(t) /\ n \in 1 .. Len(t)
      BY <1>0, <1>1, <1>2, <2>2
    <3>2. SubSeq(SubSeq(t, p, n), q, Len(s)) = SubSeq(t, p + q - 1, p + Len(s) - 1)
      BY <3>1, SubSeqOfSubSeq
    <3>3. p + q - 1 = r /\ p + Len(s) - 1 = n
      <4>1. p \in Nat /\ q \in Nat /\ n \in Nat /\ r = (p + q) - 1
        BY <1>0, <1>2, <1>r
      <4>2. PICK m \in Nat : m = Len(s) /\ m = (n + 1) - p
        BY <1>1
      <4>3. p + q - 1 = r
        BY <4>1
      <4>4. p + m - 1 = n
        BY <4>1, <4>2
      <4> QED
        BY <4>2, <4>3, <4>4
    <3> QED
      BY <1>p, <3>2, <3>3
  <2> QED
    BY <2>1, <2>2
<1> QED
  BY <1>2, <1>3, <1>6, <1>7, <1>8 DEF r, Shifted

FoundIn(t, n, p, s, a, q) ==
    \E b \in Seq(Nat), r \in p .. n + 1 :
       /\ Chain(t, b, p, r)
       /\ FramesOf(s, a) = FramesOf(t, b)
       /\ SubSeq(s, q, Len(s)) = SubSeq(t, r, n)
       /\ Len(s) + 1 - q = n + 1 - r

LEMMA FoundShift ==
    ASSUME NEW t \in Seq(Bytes), NEW n \in 0 .. Len(t), NEW p \in 1 .. n + 1,
           NEW s, s = Part(t, p, n),
           NEW a \in Seq(Nat), NEW q \in 1 .. Len(s) + 1, Chain(s, a, 1, q)
    PROVE  FoundIn(t, n, p, s, a, q)
<1>1. PICK b : b = Shift(a, p)
  OBVIOUS
<1>2. Shifted(t, n, p, s, a, q, b)
  BY <1>1, ChainShift
<1> QED
  BY <1>2 DEF Shifted, FoundIn

-----------------------------------------------------------------------------
(***************************************************************************)
(* The invariant: the frames passed on are those at some positions before p *)
(* that leave out no head before p, and the buffer holds what was read from *)
(* p on, less than a frame.                                                 *)
(***************************************************************************)
FrameInv ==
    /\ sent \in Seq(Bytes) /\ Len(sent) = StreamLength /\ got \in 0 .. StreamLength
    /\ \E heads \in Seq(Nat), p \in 1 .. got + 1 :
          /\ frames = FramesOf(sent, heads)
          /\ buf = SubSeq(sent, p, got)
          /\ Chain(sent, heads, 1, p)
          /\ (got + 1) - p < FrameSize

LEMMA FrameStart == FrameInit => FrameInv
<1> SUFFICES ASSUME FrameInit PROVE FrameInv
  OBVIOUS
<1>1. StreamLength \in Nat /\ FrameSize \in Nat /\ FrameSize >= 2
  BY FrameAssumption
<1>2. sent \in Seq(Bytes) /\ Len(sent) = StreamLength /\ got \in 0 .. StreamLength
  <2>1. sent \in [1 .. StreamLength -> Bytes] /\ got = 0
    BY DEF FrameInit
  <2> QED
    BY <1>1, <2>1
<1>3. got = 0 /\ frames = <<>> /\ buf = <<>>
  BY DEF FrameInit
<1>4. FramesOf(sent, <<>>) = <<>>
  BY DEF FramesOf
<1>5. SubSeq(sent, 1, 0) = <<>>
  BY SubSeqEmpty
<1>6. Chain(sent, <<>>, 1, 1)
  <2>1. \A j \in 1 .. 1 - 1 : ~ MayBegin(sent, j)
    OBVIOUS
  <2> QED
    BY <2>1, ChainNone
<1>7. <<>> \in Seq(Nat) /\ 1 \in 1 .. got + 1 /\ (got + 1) - 1 < FrameSize
  BY <1>1, <1>3
<1> QED
  BY <1>2, <1>3, <1>4, <1>5, <1>6, <1>7 DEF FrameInv

\* A chunk that is read goes on where the buffer and the frames before it end.
LEMMA ChunkFinds ==
    ASSUME FrameInv, NEW n \in got + 1 .. StreamLength, NEW all,
           all = buf \o SubSeq(sent, got + 1, n)
    PROVE  \E heads \in Seq(Nat), p \in 1 .. n + 1 :
              /\ frames \o Extract(all).frames = FramesOf(sent, heads)
              /\ Extract(all).rest = SubSeq(sent, p, n)
              /\ Chain(sent, heads, 1, p)
              /\ (n + 1) - p < FrameSize
<1>0. /\ StreamLength \in Nat /\ sent \in Seq(Bytes) /\ Len(sent) = StreamLength
      /\ got \in 0 .. StreamLength /\ FrameSize \in Nat /\ got \in Nat /\ n \in Nat
  BY FrameAssumption DEF FrameInv
<1>1. PICK heads \in Seq(Nat), p \in 1 .. got + 1 :
          /\ frames = FramesOf(sent, heads)
          /\ buf = SubSeq(sent, p, got)
          /\ Chain(sent, heads, 1, p)
  BY DEF FrameInv
<1>2. p \in 1 .. Len(sent) + 1 /\ got \in p - 1 .. Len(sent) /\ n \in got .. Len(sent)
      /\ n \in 0 .. Len(sent) /\ p \in 1 .. n + 1 /\ p \in Nat
  BY <1>0
<1>3. all = SubSeq(sent, p, n)
  BY <1>0, <1>1, <1>2, ConcatAdjacentSubSeq
<1>4. all \in Seq(Bytes)
  <2>1. p \in Int /\ n \in Int /\ \A i \in p .. n : sent[i] \in Bytes
    BY <1>0, <1>2
  <2>2. SubSeq(sent, p, n) \in Seq(Bytes)
    BY <2>1, SubSeqProperties
  <2> QED
    BY <1>3, <2>2
<1>5. PICK a \in Seq(Nat), q \in 1 .. Len(all) + 1 :
          /\ Extract(all).frames = FramesOf(all, a)
          /\ Extract(all).rest = SubSeq(all, q, Len(all))
          /\ Chain(all, a, 1, q)
          /\ Len(all) + 1 - q < FrameSize
  BY <1>4, ExtractFinds DEF Finds, Extract
<1>6. PICK b \in Seq(Nat), r \in p .. n + 1 :
          /\ Chain(sent, b, p, r)
          /\ FramesOf(all, a) = FramesOf(sent, b)
          /\ SubSeq(all, q, Len(all)) = SubSeq(sent, r, n)
          /\ Len(all) + 1 - q = n + 1 - r
  <2>1. n \in 0 .. Len(sent) /\ p \in 1 .. n + 1 /\ Chain(all, a, 1, q)
    BY <1>2, <1>5
  <2>2. all = Part(sent, p, n)
    BY <1>3 DEF Part
  <2>3. FoundIn(sent, n, p, all, a, q)
    BY <1>0, <2>1, <2>2, FoundShift
  <2> QED
    BY <2>3 DEF FoundIn
<1>7. heads \o b \in Seq(Nat) /\ r \in 1 .. n + 1 /\ r \in Nat /\ p <= r /\ 1 <= p
  BY <1>1, <1>2, <1>6
<1>8. Chain(sent, heads \o b, 1, r)
  BY <1>1, <1>2, <1>6, <1>7, ChainJoin
<1>9. frames \o Extract(all).frames = FramesOf(sent, heads \o b)
  <2>1. FramesOf(sent, heads) \o FramesOf(sent, b) = FramesOf(sent, heads \o b)
    BY <1>1, <1>6, FramesJoin
  <2> QED
    BY <1>1, <1>5, <1>6, <2>1
<1>10. (n + 1) - r < FrameSize
  BY <1>0, <1>4, <1>5, <1>6, <1>7
<1>11. Extract(all).rest = SubSeq(sent, r, n)
  BY <1>5, <1>6
<1> QED
  BY <1>7, <1>8, <1>9, <1>10, <1>11

LEMMA FrameStep ==
    ASSUME FrameInv, [FrameNext]_frameVars
    PROVE  FrameInv'
<1>1. CASE ReadChunk
  <2>1. PICK n \in got + 1 .. StreamLength :
           LET all == buf \o SubSeq(sent, got + 1, n) IN
           /\ got' = n
           /\ frames' = frames \o Extract(all).frames
           /\ buf' = Extract(all).rest
           /\ UNCHANGED sent
    BY <1>1 DEF ReadChunk
  <2> DEFINE all == buf \o SubSeq(sent, got + 1, n)
  <2>2. \E heads \in Seq(Nat), p \in 1 .. n + 1 :
              /\ frames \o Extract(all).frames = FramesOf(sent, heads)
              /\ Extract(all).rest = SubSeq(sent, p, n)
              /\ Chain(sent, heads, 1, p)
              /\ (n + 1) - p < FrameSize
    BY ChunkFinds
  <2>3. got' = n /\ sent' = sent /\ frames' = frames \o Extract(all).frames
        /\ buf' = Extract(all).rest
    BY <2>1
  <2> HIDE DEF all
  <2>4. PICK heads \in Seq(Nat), p \in 1 .. n + 1 :
              /\ frames' = FramesOf(sent, heads)
              /\ buf' = SubSeq(sent, p, n)
              /\ Chain(sent, heads, 1, p)
              /\ (n + 1) - p < FrameSize
    BY <2>2, <2>3
  <2>5. frames' = FramesOf(sent', heads) /\ buf' = SubSeq(sent', p, got')
        /\ Chain(sent', heads, 1, p) /\ (got' + 1) - p < FrameSize /\ p \in 1 .. got' + 1
    BY <2>3, <2>4
  <2>6. sent' \in Seq(Bytes) /\ Len(sent') = StreamLength /\ got' \in 0 .. StreamLength
    BY <2>3, FrameAssumption DEF FrameInv
  <2> QED
    BY <2>5, <2>6 DEF FrameInv
<1>2. CASE UNCHANGED frameVars
  BY <1>2 DEF frameVars, FrameInv
<1> QED
  BY <1>1, <1>2 DEF FrameNext

LEMMA FrameInvariant == FrameSpec => []FrameInv
<1>1. FrameInv /\ [FrameNext]_frameVars => FrameInv'
  BY FrameStep
<1> QED
  BY <1>1, FrameStart, PTL DEF FrameSpec

\* What is known of the frames of the part of a stream that was read.
LEMMA FoundIs ==
    ASSUME FrameInv
    PROVE  FramesFound /\ FrameTypeOK
<1>0. /\ StreamLength \in Nat /\ sent \in Seq(Bytes) /\ Len(sent) = StreamLength
      /\ got \in 0 .. StreamLength /\ FrameSize \in Nat /\ FrameSize >= 2 /\ got \in Nat
      /\ \A i \in 1 .. StreamLength : sent[i] \in Bytes
  BY FrameAssumption DEF FrameInv
<1>1. PICK heads \in Seq(Nat), p \in 1 .. got + 1 :
          /\ frames = FramesOf(sent, heads)
          /\ buf = SubSeq(sent, p, got)
          /\ Chain(sent, heads, 1, p)
          /\ (got + 1) - p < FrameSize
  BY DEF FrameInv
<1> DEFINE s  == SubSeq(sent, 1, got)
           ps == {heads[k] : k \in DOMAIN heads}
<1>2. s \in Seq(Bytes) /\ Len(s) = got /\ \A i \in 1 .. got : s[i] = sent[i]
  <2>1. \A i \in 1 .. got : sent[i] \in Bytes
    BY <1>0
  <2>2. /\ s \in Seq(Bytes) /\ Len(s) = IF 1 <= got THEN got - 1 + 1 ELSE 0
        /\ \A i \in 1 .. got - 1 + 1 : s[i] = sent[1 + i - 1]
    BY <1>0, <2>1, SubSeqProperties
  <2>3. got - 1 + 1 = got /\ \A i \in 1 .. got : 1 + i - 1 = i
    BY <1>0
  <2> HIDE DEF s
  <2> QED
    BY <1>0, <2>2, <2>3
<1> HIDE DEF s
<1>3. DOMAIN frames = DOMAIN heads /\ DOMAIN heads = 1 .. Len(heads) /\ Len(heads) \in Nat
      /\ \A k \in DOMAIN heads : frames[k] = FrameAt(sent, heads[k])
  BY <1>1 DEF FramesOf
<1>4. ASSUME NEW k \in DOMAIN heads
      PROVE  /\ heads[k] \in 1 .. got /\ (heads[k] + FrameSize) - 1 <= got
             /\ s[heads[k]] = Head1 /\ s[heads[k] + 1] = Head2
             /\ frames[k] = SubSeq(s, heads[k], (heads[k] + FrameSize) - 1)
             /\ frames[k] \in [1 .. FrameSize -> Bytes]
  <2>1. PICK x \in Nat : x = heads[k]
    OBVIOUS
  <2>2. 1 <= x /\ x + FrameSize <= p /\ MayBegin(sent, x)
    BY <1>1, <2>1 DEF Chain
  <2>3. x \in 1 .. got /\ x + 1 \in 1 .. got /\ (x + FrameSize) - 1 <= got /\ x < Len(sent)
    BY <1>0, <2>2
  <2>4. s[x] = Head1 /\ s[x + 1] = Head2
    BY <1>2, <2>2, <2>3 DEF MayBegin
  <2>5. FrameAt(sent, x) = SubSeq(s, x, (x + FrameSize) - 1)
    <3> DEFINE e == (x + FrameSize) - 1
    <3>1. x \in 1 .. got - 1 + 1 /\ e \in 1 .. got - 1 + 1 /\ 1 \in 1 .. Len(sent)
          /\ got \in 1 .. Len(sent) /\ 1 + x - 1 = x /\ 1 + e - 1 = e
      BY <1>0, <2>2, <2>3
    <3> HIDE DEF e
    <3>2. SubSeq(SubSeq(sent, 1, got), x, e) = SubSeq(sent, x, e)
      BY <1>0, <3>1, SubSeqOfSubSeq
    <3> QED
      BY <3>2 DEF FrameAt, s, e
  <2>6. FrameAt(sent, x) \in [1 .. FrameSize -> Bytes]
    <3> DEFINE e == (x + FrameSize) - 1
               f == SubSeq(sent, x, e)
    <3>1. x \in Int /\ e \in Int /\ x <= e /\ e - x + 1 = FrameSize
          /\ \A i \in x .. e : sent[i] \in Bytes
      BY <1>0, <2>2, <2>3
    <3> HIDE DEF e
    <3>2. f \in Seq(Bytes) /\ Len(f) = FrameSize
      BY <3>1, SubSeqProperties
    <3> HIDE DEF f
    <3>3. f \in [1 .. FrameSize -> Bytes]
      BY <3>2
    <3> QED
      BY <3>3 DEF FrameAt, e, f
  <2> QED
    BY <1>3, <2>1, <2>3, <2>4, <2>5, <2>6
<1>5. ASSUME NEW j \in DOMAIN heads, NEW k \in DOMAIN heads
      PROVE  /\ j < k => heads[j] + FrameSize <= heads[k]
             /\ heads[j] < heads[k] => heads[j] + FrameSize <= heads[k]
  <2>1. j \in Nat /\ k \in Nat /\ heads[j] \in Nat /\ heads[k] \in Nat
    BY <1>3
  <2>2. (j < k => heads[j] + FrameSize <= heads[k]) /\ (k < j => heads[k] + FrameSize <= heads[j])
    BY <1>1 DEF Chain
  <2> QED
    BY <1>0, <2>1, <2>2
<1>6. heads \in [DOMAIN frames -> 1 .. got]
  BY <1>3, <1>4
<1>7. ASSUME NEW i \in 1 .. got PROVE i \in ps <=> IsFrameStart(s, ps, i)
  <2>1. ASSUME i \in ps PROVE IsFrameStart(s, ps, i)
    <3>1. PICK k \in DOMAIN heads : i = heads[k]
      BY <2>1
    <3>2. i + FrameSize - 1 <= Len(s) /\ s[i] = Head1 /\ s[i + 1] = Head2
      <4>1. i + FrameSize - 1 = (i + FrameSize) - 1
        BY <1>0
      <4> QED
        BY <1>2, <1>4, <3>1, <4>1
    <3>3. \A j \in ps : j < i => j + FrameSize <= i
      BY <1>5, <3>1
    <3> QED
      BY <3>2, <3>3 DEF IsFrameStart
  <2>2. ASSUME IsFrameStart(s, ps, i) PROVE i \in ps
    <3>1. /\ i + FrameSize - 1 <= got /\ s[i] = Head1 /\ s[i + 1] = Head2
          /\ \A j \in ps : j < i => j + FrameSize <= i
      BY <1>2, <2>2 DEF IsFrameStart
    <3>2. i \in Nat /\ i + 1 \in 1 .. got /\ i \in 1 .. p - 1
      BY <1>0, <1>1, <3>1
    <3>3. MayBegin(sent, i)
      BY <1>2, <3>1, <3>2 DEF MayBegin
    <3>4. PICK k \in DOMAIN heads : heads[k] <= i /\ i < heads[k] + FrameSize
      BY <1>1, <3>2, <3>3 DEF Chain
    <3>5. heads[k] \in ps /\ heads[k] \in Nat
      OBVIOUS
    <3>6. ~ (heads[k] < i)
      <4>1. PICK x \in Nat : x = heads[k]
        BY <3>5
      <4>2. x < i => x + FrameSize <= i
        BY <3>1, <3>5, <4>1
      <4> QED
        BY <1>0, <3>2, <3>4, <4>1, <4>2
    <3>7. heads[k] = i
      BY <3>2, <3>4, <3>5, <3>6
    <3> QED
      BY <3>5, <3>7
  <2> QED
    BY <2>1, <2>2
<1>8. {heads[k] : k \in DOMAIN frames}
         = {i \in 1 .. got : IsFrameStart(s, {heads[k] : k \in DOMAIN frames}, i)}
  <2>1. {heads[k] : k \in DOMAIN frames} = ps /\ ps \subseteq 1 .. got
    BY <1>3, <1>4
  <2> HIDE DEF ps
  <2>2. ps = {i \in 1 .. got : IsFrameStart(s, ps, i)}
    BY <1>7, <2>1
  <2> QED
    BY <2>1, <2>2
<1>9. \A j, k \in DOMAIN frames : j < k => heads[j] < heads[k]
  <2> SUFFICES ASSUME NEW j \in DOMAIN heads, NEW k \in DOMAIN heads, j < k PROVE heads[j] < heads[k]
    BY <1>3
  <2>1. heads[j] \in Nat /\ heads[k] \in Nat
    OBVIOUS
  <2> QED
    BY <1>0, <1>5, <2>1
<1>10. \A k \in DOMAIN frames : frames[k] = SubSeq(s, heads[k], heads[k] + FrameSize - 1)
  <2> SUFFICES ASSUME NEW k \in DOMAIN heads
               PROVE  frames[k] = SubSeq(s, heads[k], heads[k] + FrameSize - 1)
    BY <1>3
  <2>1. (heads[k] + FrameSize) - 1 = heads[k] + FrameSize - 1
    <3>1. heads[k] \in Nat
      OBVIOUS
    <3> QED
      BY <1>0, <3>1
  <2> QED
    BY <1>4, <2>1
<1>11. buf \in Seq(Bytes) /\ Len(buf) < FrameSize
  <2>1. p \in Int /\ got \in Int /\ \A i \in p .. got : sent[i] \in Bytes
    BY <1>0
  <2>2. buf \in Seq(Bytes) /\ Len(buf) = IF p <= got THEN got - p + 1 ELSE 0
    BY <1>1, <2>1, SubSeqProperties
  <2> QED
    BY <1>0, <1>1, <2>1, <2>2
<1>12. frames \in Seq([1 .. FrameSize -> Bytes])
  <2>1. frames = [k \in DOMAIN heads |-> FrameAt(sent, heads[k])]
    BY <1>1 DEF FramesOf
  <2>2. frames \in [1 .. Len(heads) -> [1 .. FrameSize -> Bytes]]
    BY <1>3, <1>4, <2>1
  <2> QED
    BY <1>3, <2>2
<1>13. FramesFound
  <2>1. \E a \in [DOMAIN frames -> 1 .. got] :
          /\ \A j, k \in DOMAIN frames : j < k => a[j] < a[k]
          /\ {a[k] : k \in DOMAIN frames}
                = {i \in 1 .. got : IsFrameStart(s, {a[k] : k \in DOMAIN frames}, i)}
          /\ \A k \in DOMAIN frames : frames[k] = SubSeq(s, a[k], a[k] + FrameSize - 1)
    BY <1>6, <1>8, <1>9, <1>10
  <2> QED
    BY <1>11, <2>1 DEF FramesFound, s
<1>14. FrameTypeOK
  BY <1>0, <1>11, <1>12 DEF FrameTypeOK
<1> QED
  BY <1>13, <1>14

\* What was read and what was passed on keep their types: a frame is one as a whole.
THEOREM FrameTypes == FrameSpec => []FrameTypeOK
<1>1. FrameInv => FrameTypeOK
  BY FoundIs
<1> QED
  BY <1>1, FrameInvariant, PTL

\* The frames passed on are those of the stream, for any bytes, any size of a frame
\* and whatever pieces the reads return.
THEOREM FramesAreFound == FrameSpec => []FramesFound
<1>1. FrameInv => FramesFound
  BY FoundIs
<1> QED
  BY <1>1, FrameInvariant, PTL

-----------------------------------------------------------------------------
(***************************************************************************)
(* Splitting a line of nmcli.  A rune more is one turn of the loop more,    *)
(* and by induction over the characters of a name its escapes are undone.   *)
(***************************************************************************)
Text == Letter \cup {"W", "E"}

RunesTo(f, s, n) == f = [i \in 0 .. n |-> IF i = 0 THEN NoFields ELSE Rune(s[i], f[i - 1])]

EscapesTo(f, s, n) == f = [i \in 0 .. n |-> IF i = 0 THEN <<>> ELSE Escape(s[i], f[i - 1])]

\* What Runes and Escapes are defined by exists up to every length.
LEMMA RunesMore ==
    ASSUME NEW s, NEW n \in Nat, NEW f, RunesTo(f, s, n)
    PROVE  \E g : RunesTo(g, s, n + 1)
<1> DEFINE g == [i \in 0 .. n + 1 |-> IF i = n + 1 THEN Rune(s[n + 1], f[n]) ELSE f[i]]
<1>1. DOMAIN g = 0 .. n + 1 /\ (\A i \in 0 .. n : g[i] = f[i]) /\ g[n + 1] = Rune(s[n + 1], f[n])
  OBVIOUS
<1>2. \A i \in 0 .. n : f[i] = IF i = 0 THEN NoFields ELSE Rune(s[i], f[i - 1])
  <2> DEFINE h == [i \in 0 .. n |-> IF i = 0 THEN NoFields ELSE Rune(s[i], f[i - 1])]
  <2>1. f = h
    BY DEF RunesTo
  <2>2. \A i \in 0 .. n : h[i] = IF i = 0 THEN NoFields ELSE Rune(s[i], f[i - 1])
    OBVIOUS
  <2> HIDE DEF h
  <2> QED
    BY <2>1, <2>2
<1>3. ASSUME NEW i \in 0 .. n + 1
      PROVE  g[i] = IF i = 0 THEN NoFields ELSE Rune(s[i], g[i - 1])
  <2> HIDE DEF g
  <2>1. CASE i = n + 1
    <3>1. i # 0 /\ i - 1 = n /\ n \in 0 .. n
      BY <2>1
    <3> QED
      BY <1>1, <2>1, <3>1
  <2>2. CASE i # n + 1
    <3>1. i \in 0 .. n /\ (i # 0 => i - 1 \in 0 .. n)
      BY <2>2
    <3> QED
      BY <1>1, <1>2, <3>1
  <2> QED
    BY <2>1, <2>2
<1>4. g = [i \in 0 .. n + 1 |-> IF i = 0 THEN NoFields ELSE Rune(s[i], g[i - 1])]
  BY <1>3
<1> QED
  BY <1>4 DEF RunesTo

LEMMA RunesIs ==
    ASSUME NEW s, Len(s) \in Nat
    PROVE  /\ Runes(s)[0] = NoFields
           /\ \A i \in 1 .. Len(s) : Runes(s)[i] = Rune(s[i], Runes(s)[i - 1])
<1> DEFINE S == {n \in Nat : \E f : RunesTo(f, s, n)}
<1>1. 0 \in S
  <2> DEFINE g == [i \in 0 .. 0 |-> NoFields]
  <2>1. g = [i \in 0 .. 0 |-> IF i = 0 THEN NoFields ELSE Rune(s[i], g[i - 1])]
    <3>1. \A i \in 0 .. 0 : i = 0
      OBVIOUS
    <3> QED
      BY <3>1
  <2> QED
    BY <2>1 DEF RunesTo
<1>2. \A n \in Nat : n \in S => n + 1 \in S
  BY RunesMore
<1>3. Nat \subseteq S
  <2> HIDE DEF S
  <2> QED
    BY <1>1, <1>2, SetInduction
<1>4. \E f : f = [i \in 0 .. Len(s) |-> IF i = 0 THEN NoFields ELSE Rune(s[i], f[i - 1])]
  BY <1>3 DEF RunesTo
<1>5. Runes(s) = CHOOSE f : f = [i \in 0 .. Len(s) |->
                                    IF i = 0 THEN NoFields ELSE Rune(s[i], f[i - 1])]
  BY Zenon DEF Runes
<1> DEFINE f == Runes(s)
           h == [i \in 0 .. Len(s) |-> IF i = 0 THEN NoFields ELSE Rune(s[i], f[i - 1])]
<1>6. f = h
  BY <1>4, <1>5, Zenon
<1>7. \A i \in 0 .. Len(s) : h[i] = IF i = 0 THEN NoFields ELSE Rune(s[i], f[i - 1])
  OBVIOUS
<1>8. \A i \in 0 .. Len(s) : f[i] = IF i = 0 THEN NoFields ELSE Rune(s[i], f[i - 1])
  <2> HIDE DEF h
  <2> QED
    BY <1>6, <1>7
<1> HIDE DEF f
<1>9. f[0] = NoFields /\ \A i \in 1 .. Len(s) : f[i] = Rune(s[i], f[i - 1])
  <2>1. 0 \in 0 .. Len(s) /\ \A i \in 1 .. Len(s) : i \in 0 .. Len(s) /\ i # 0
    OBVIOUS
  <2> QED
    BY <1>8, <2>1
<1> QED
  BY <1>9 DEF f

LEMMA EscapesMore ==
    ASSUME NEW s, NEW n \in Nat, NEW f, EscapesTo(f, s, n)
    PROVE  \E g : EscapesTo(g, s, n + 1)
<1> DEFINE g == [i \in 0 .. n + 1 |-> IF i = n + 1 THEN Escape(s[n + 1], f[n]) ELSE f[i]]
<1>1. DOMAIN g = 0 .. n + 1 /\ (\A i \in 0 .. n : g[i] = f[i]) /\ g[n + 1] = Escape(s[n + 1], f[n])
  OBVIOUS
<1>2. \A i \in 0 .. n : f[i] = IF i = 0 THEN <<>> ELSE Escape(s[i], f[i - 1])
  <2> DEFINE h == [i \in 0 .. n |-> IF i = 0 THEN <<>> ELSE Escape(s[i], f[i - 1])]
  <2>1. f = h
    BY DEF EscapesTo
  <2>2. \A i \in 0 .. n : h[i] = IF i = 0 THEN <<>> ELSE Escape(s[i], f[i - 1])
    OBVIOUS
  <2> HIDE DEF h
  <2> QED
    BY <2>1, <2>2
<1>3. ASSUME NEW i \in 0 .. n + 1
      PROVE  g[i] = IF i = 0 THEN <<>> ELSE Escape(s[i], g[i - 1])
  <2> HIDE DEF g
  <2>1. CASE i = n + 1
    <3>1. i # 0 /\ i - 1 = n /\ n \in 0 .. n
      BY <2>1
    <3> QED
      BY <1>1, <2>1, <3>1
  <2>2. CASE i # n + 1
    <3>1. i \in 0 .. n /\ (i # 0 => i - 1 \in 0 .. n)
      BY <2>2
    <3> QED
      BY <1>1, <1>2, <3>1
  <2> QED
    BY <2>1, <2>2
<1>4. g = [i \in 0 .. n + 1 |-> IF i = 0 THEN <<>> ELSE Escape(s[i], g[i - 1])]
  BY <1>3
<1> QED
  BY <1>4 DEF EscapesTo

LEMMA EscapesIs ==
    ASSUME NEW s, Len(s) \in Nat
    PROVE  /\ Escapes(s)[0] = <<>>
           /\ \A i \in 1 .. Len(s) : Escapes(s)[i] = Escape(s[i], Escapes(s)[i - 1])
<1> DEFINE S == {n \in Nat : \E f : EscapesTo(f, s, n)}
<1>1. 0 \in S
  <2> DEFINE g == [i \in 0 .. 0 |-> <<>>]
  <2>1. g = [i \in 0 .. 0 |-> IF i = 0 THEN <<>> ELSE Escape(s[i], g[i - 1])]
    <3>1. \A i \in 0 .. 0 : i = 0
      OBVIOUS
    <3> QED
      BY <3>1
  <2> QED
    BY <2>1 DEF EscapesTo
<1>2. \A n \in Nat : n \in S => n + 1 \in S
  BY EscapesMore
<1>3. Nat \subseteq S
  <2> HIDE DEF S
  <2> QED
    BY <1>1, <1>2, SetInduction
<1>4. \E f : f = [i \in 0 .. Len(s) |-> IF i = 0 THEN <<>> ELSE Escape(s[i], f[i - 1])]
  BY <1>3 DEF EscapesTo
<1>5. Escapes(s) = CHOOSE f : f = [i \in 0 .. Len(s) |->
                                    IF i = 0 THEN <<>> ELSE Escape(s[i], f[i - 1])]
  BY Zenon DEF Escapes
<1> DEFINE f == Escapes(s)
           h == [i \in 0 .. Len(s) |-> IF i = 0 THEN <<>> ELSE Escape(s[i], f[i - 1])]
<1>6. f = h
  BY <1>4, <1>5, Zenon
<1>7. \A i \in 0 .. Len(s) : h[i] = IF i = 0 THEN <<>> ELSE Escape(s[i], f[i - 1])
  OBVIOUS
<1>8. \A i \in 0 .. Len(s) : f[i] = IF i = 0 THEN <<>> ELSE Escape(s[i], f[i - 1])
  <2> HIDE DEF h
  <2> QED
    BY <1>6, <1>7
<1> HIDE DEF f
<1>9. f[0] = <<>> /\ \A i \in 1 .. Len(s) : f[i] = Escape(s[i], f[i - 1])
  <2>1. 0 \in 0 .. Len(s) /\ \A i \in 1 .. Len(s) : i \in 0 .. Len(s) /\ i # 0
    OBVIOUS
  <2> QED
    BY <1>8, <2>1
<1> QED
  BY <1>9 DEF f

\* A line with a character more.
LEMMA RunesAppend ==
    ASSUME NEW s \in Seq(Text), NEW c \in Text
    PROVE  Runes(Append(s, c))[Len(Append(s, c))] = Rune(c, Runes(s)[Len(s)])
<1> DEFINE t == Append(s, c)
           f == Runes(s)
           g == Runes(t)
<1>0. /\ Len(s) \in Nat /\ Len(t) = Len(s) + 1 /\ t[Len(s) + 1] = c
      /\ \A i \in 1 .. Len(s) : t[i] = s[i]
  OBVIOUS
<1> HIDE DEF t
<1>1. /\ f[0] = NoFields /\ g[0] = NoFields
      /\ \A i \in 1 .. Len(s) : f[i] = Rune(s[i], f[i - 1])
      /\ \A i \in 1 .. Len(s) + 1 : g[i] = Rune(t[i], g[i - 1])
  BY <1>0, RunesIs
<1> HIDE DEF f, g
<1> DEFINE S == {i \in Nat : i <= Len(s) => g[i] = f[i]}
<1>2. 0 \in S
  BY <1>1
<1>3. ASSUME NEW i \in Nat, i \in S PROVE i + 1 \in S
  <2> SUFFICES ASSUME i + 1 <= Len(s) PROVE g[i + 1] = f[i + 1]
    OBVIOUS
  <2>1. i + 1 \in 1 .. Len(s) /\ i + 1 \in 1 .. Len(s) + 1 /\ (i + 1) - 1 = i
    BY <1>0
  <2>2. g[i] = f[i] /\ t[i + 1] = s[i + 1]
    BY <1>0, <1>3, <2>1
  <2>3. g[i + 1] = Rune(t[i + 1], g[i]) /\ f[i + 1] = Rune(s[i + 1], f[i])
    BY <1>1, <2>1
  <2> QED
    BY <2>2, <2>3
<1>4. Nat \subseteq S
  <2> HIDE DEF S
  <2> QED
    BY <1>2, <1>3, SetInduction
<1>5. g[Len(s)] = f[Len(s)]
  BY <1>0, <1>4
<1>6. g[Len(s) + 1] = Rune(c, f[Len(s)])
  <2>1. Len(s) + 1 \in 1 .. Len(s) + 1 /\ (Len(s) + 1) - 1 = Len(s)
    BY <1>0
  <2>2. g[Len(s) + 1] = Rune(t[Len(s) + 1], g[(Len(s) + 1) - 1])
    BY <1>1, <2>1
  <2> QED
    BY <1>0, <1>5, <2>1, <2>2
<1> QED
  BY <1>0, <1>6 DEF f, g, t

\* What was read of a line: the fields before and the one being read.
Read(line, fields, cur) ==
    /\ line \in Seq(Text)
    /\ Runes(line)[Len(line)] = [fields |-> fields, cur |-> cur, escaped |-> FALSE]

\* A plain character.
LEMMA ReadPlain ==
    ASSUME NEW s, NEW fields, NEW cur, Read(s, fields, cur), NEW c \in Text,
           c # Colon, c # Backslash
    PROVE  Read(Append(s, c), fields, Append(cur, c))
<1>1. s \in Seq(Text) /\ Append(s, c) \in Seq(Text)
  BY DEF Read
<1>2. Runes(Append(s, c))[Len(Append(s, c))]
         = Rune(c, [fields |-> fields, cur |-> cur, escaped |-> FALSE])
  BY <1>1, RunesAppend DEF Read
<1>3. Rune(c, [fields |-> fields, cur |-> cur, escaped |-> FALSE])
         = [fields |-> fields, cur |-> Append(cur, c), escaped |-> FALSE]
  BY DEF Rune
<1> QED
  BY <1>1, <1>2, <1>3 DEF Read

\* An escaped one.
LEMMA ReadEscaped ==
    ASSUME NEW s, NEW fields, NEW cur, Read(s, fields, cur), NEW c \in Text
    PROVE  Read(Append(Append(s, Backslash), c), fields, Append(cur, c))
<1> DEFINE t == Append(s, Backslash)
<1>1. s \in Seq(Text) /\ Backslash \in Text /\ t \in Seq(Text) /\ Append(t, c) \in Seq(Text)
  BY DEF Read, Text, Letter
<1>2. Runes(t)[Len(t)] = Rune(Backslash, [fields |-> fields, cur |-> cur, escaped |-> FALSE])
  BY <1>1, RunesAppend DEF Read
<1>3. Rune(Backslash, [fields |-> fields, cur |-> cur, escaped |-> FALSE])
         = [fields |-> fields, cur |-> cur, escaped |-> TRUE]
  BY DEF Rune
<1>4. Runes(Append(t, c))[Len(Append(t, c))] = Rune(c, Runes(t)[Len(t)])
  BY <1>1, RunesAppend
<1>5. Rune(c, [fields |-> fields, cur |-> cur, escaped |-> TRUE])
         = [fields |-> fields, cur |-> Append(cur, c), escaped |-> FALSE]
  BY DEF Rune
<1> HIDE DEF t
<1>6. Read(Append(t, c), fields, Append(cur, c))
  BY <1>1, <1>2, <1>3, <1>4, <1>5 DEF Read
<1> QED
  BY <1>6 DEF t

\* The end of a field.
LEMMA ReadColon ==
    ASSUME NEW s, NEW fields, NEW cur, Read(s, fields, cur)
    PROVE  Read(Append(s, Colon), Append(fields, cur), <<>>)
<1>1. s \in Seq(Text) /\ Colon \in Text /\ Append(s, Colon) \in Seq(Text) /\ Colon # Backslash
  BY NetAssumption DEF Read, Text, Letter
<1>2. Runes(Append(s, Colon))[Len(Append(s, Colon))]
         = Rune(Colon, [fields |-> fields, cur |-> cur, escaped |-> FALSE])
  BY <1>1, RunesAppend DEF Read
<1>3. Rune(Colon, [fields |-> fields, cur |-> cur, escaped |-> FALSE])
         = [fields |-> Append(fields, cur), cur |-> <<>>, escaped |-> FALSE]
  BY <1>1 DEF Rune
<1> QED
  BY <1>1, <1>2, <1>3 DEF Read

\* A beginning of a name, one character longer.
LEMMA PrefixMore ==
    ASSUME NEW s \in Seq(Letter), NEW k \in Nat, k + 1 <= Len(s)
    PROVE  Append(SubSeq(s, 1, k), s[k + 1]) = SubSeq(s, 1, k + 1)
<1> DEFINE a == SubSeq(s, 1, k)
           b == SubSeq(s, 1, k + 1)
<1>0. Len(s) \in Nat /\ \A i \in 1 .. Len(s) : s[i] \in Letter
  OBVIOUS
<1>1. a \in Seq(Letter) /\ Len(a) = k /\ \A i \in 1 .. k : a[i] = s[i]
  <2>1. \A i \in 1 .. k : s[i] \in Letter
    BY <1>0
  <2>2. /\ a \in Seq(Letter) /\ Len(a) = IF 1 <= k THEN k - 1 + 1 ELSE 0
        /\ \A i \in 1 .. k - 1 + 1 : a[i] = s[1 + i - 1]
    BY <2>1, SubSeqProperties
  <2>3. k - 1 + 1 = k /\ \A i \in 1 .. k : 1 + i - 1 = i
    OBVIOUS
  <2> HIDE DEF a
  <2> QED
    BY <2>2, <2>3
<1>2. b \in Seq(Letter) /\ Len(b) = k + 1 /\ \A i \in 1 .. k + 1 : b[i] = s[i]
  <2>1. k + 1 \in Int /\ 1 <= k + 1 /\ \A i \in 1 .. k + 1 : s[i] \in Letter
    BY <1>0
  <2>2. /\ b \in Seq(Letter) /\ Len(b) = (k + 1) - 1 + 1
        /\ \A i \in 1 .. (k + 1) - 1 + 1 : b[i] = s[1 + i - 1]
    BY <2>1, SubSeqProperties
  <2>3. (k + 1) - 1 + 1 = k + 1 /\ \A i \in 1 .. k + 1 : 1 + i - 1 = i
    OBVIOUS
  <2> HIDE DEF b
  <2> QED
    BY <2>2, <2>3
<1> HIDE DEF a, b
<1>3. Append(a, s[k + 1]) \in Seq(Letter) /\ Len(Append(a, s[k + 1])) = k + 1
      /\ \A i \in 1 .. k + 1 : Append(a, s[k + 1])[i] = s[i]
  <2>1. s[k + 1] \in Letter
    BY <1>0
  <2>2. Append(a, s[k + 1]) \in Seq(Letter) /\ Len(Append(a, s[k + 1])) = k + 1
        /\ Append(a, s[k + 1])[k + 1] = s[k + 1]
        /\ \A i \in 1 .. k : Append(a, s[k + 1])[i] = a[i]
    BY <1>1, <2>1
  <2>3. \A i \in 1 .. k + 1 : i = k + 1 \/ i \in 1 .. k
    OBVIOUS
  <2> QED
    BY <1>1, <2>2, <2>3
<1>4. Append(a, s[k + 1]) = b
  BY <1>2, <1>3, SeqEqual
<1> QED
  BY <1>4 DEF a, b

\* The escapes of a name are undone.
LEMMA EscapedRead ==
    ASSUME NEW s \in Seq(Letter)
    PROVE  Read(Escaped(s), <<>>, s)
<1> DEFINE f == Escapes(s)
           S == {k \in Nat : k <= Len(s) => Read(f[k], <<>>, SubSeq(s, 1, k))}
<1>0. Len(s) \in Nat /\ \A i \in 1 .. Len(s) : s[i] \in Letter
  OBVIOUS
<1>1. f[0] = <<>> /\ \A i \in 1 .. Len(s) : f[i] = Escape(s[i], f[i - 1])
  BY <1>0, EscapesIs
<1> HIDE DEF f
<1>2. 0 \in S
  <2> DEFINE e == <<>>
  <2>1. e \in Seq(Text) /\ Len(e) = 0 /\ SubSeq(s, 1, 0) = e
    BY SubSeqEmpty
  <2> HIDE DEF e
  <2>2. Runes(e)[0] = NoFields
    BY <2>1, RunesIs
  <2>3. Read(e, <<>>, e)
    BY <2>1, <2>2 DEF Read, NoFields, e
  <2> QED
    BY <1>1, <2>1, <2>3 DEF e
<1>3. ASSUME NEW k \in Nat, k \in S PROVE k + 1 \in S
  <2> SUFFICES ASSUME k + 1 <= Len(s) PROVE Read(f[k + 1], <<>>, SubSeq(s, 1, k + 1))
    OBVIOUS
  <2>1. k <= Len(s) /\ k + 1 \in 1 .. Len(s) /\ (k + 1) - 1 = k
    BY <1>0
  <2>2. f[k + 1] = Escape(s[k + 1], f[k]) /\ s[k + 1] \in Letter /\ s[k + 1] \in Text
    BY <1>0, <1>1, <2>1 DEF Text
  <2>3. Read(f[k], <<>>, SubSeq(s, 1, k))
    BY <1>3, <2>1
  <2>4. Read(f[k + 1], <<>>, Append(SubSeq(s, 1, k), s[k + 1]))
    <3>1. CASE s[k + 1] \in {Colon, Backslash}
      <4>1. f[k + 1] = Append(Append(f[k], Backslash), s[k + 1])
        BY <2>2, <3>1 DEF Escape
      <4> QED
        BY <2>2, <2>3, <4>1, ReadEscaped
    <3>2. CASE s[k + 1] \notin {Colon, Backslash}
      <4>1. f[k + 1] = Append(f[k], s[k + 1])
        BY <2>2, <3>2 DEF Escape
      <4> QED
        BY <2>2, <2>3, <3>2, <4>1, ReadPlain
    <3> QED
      BY <3>1, <3>2
  <2> QED
    BY <2>4, PrefixMore
<1>4. Nat \subseteq S
  <2> HIDE DEF S
  <2> QED
    BY <1>2, <1>3, SetInduction
<1>5. Read(f[Len(s)], <<>>, SubSeq(s, 1, Len(s)))
  BY <1>0, <1>4
<1>6. SubSeq(s, 1, Len(s)) = s
  BY SubSeqFull
<1> QED
  BY <1>5, <1>6 DEF Escaped, f

\* Tuples that get longer.
LEMMA TwoElements ==
    ASSUME NEW x, NEW y
    PROVE  Append(<<x>>, y) = <<x, y>>
<1> DEFINE S == {x, y}
           a == <<x>>
           b == <<x, y>>
<1>1. x \in S /\ y \in S
  OBVIOUS
<1> HIDE DEF S
<1>2. a \in Seq(S) /\ Len(a) = 1 /\ a[1] = x /\ b \in Seq(S) /\ Len(b) = 2 /\ b[1] = x /\ b[2] = y
  BY <1>1
<1> HIDE DEF a, b
<1>3. Append(a, y) \in Seq(S) /\ Len(Append(a, y)) = 2 /\ Append(a, y)[1] = x /\ Append(a, y)[2] = y
  <2>1. /\ Append(a, y) \in Seq(S) /\ Len(Append(a, y)) = Len(a) + 1
        /\ \A i \in 1 .. Len(a) : Append(a, y)[i] = a[i]
        /\ Append(a, y)[Len(a) + 1] = y
    <3>1. a \in Seq(S) /\ y \in S
      BY <1>1, <1>2
    <3> QED
      BY <3>1, AppendProperties
  <2>2. Len(a) + 1 = 2 /\ 1 \in 1 .. Len(a)
    BY <1>2
  <2> QED
    BY <1>2, <2>1, <2>2
<1>4. \A i \in 1 .. Len(b) : Append(a, y)[i] = b[i]
  <2>1. \A i \in 1 .. 2 : i = 1 \/ i = 2
    OBVIOUS
  <2> QED
    BY <1>2, <1>3, <2>1
<1>5. Append(a, y) = b
  BY <1>2, <1>3, <1>4, SeqEqual
<1> QED
  BY <1>5 DEF a, b

LEMMA ThreeElements ==
    ASSUME NEW x, NEW y, NEW z
    PROVE  Append(<<x, y>>, z) = <<x, y, z>>
<1> DEFINE S == {x, y, z}
           a == <<x, y>>
           b == <<x, y, z>>
<1>1. x \in S /\ y \in S /\ z \in S
  OBVIOUS
<1> HIDE DEF S
<1>2. a \in Seq(S) /\ Len(a) = 2 /\ a[1] = x /\ a[2] = y
      /\ b \in Seq(S) /\ Len(b) = 3 /\ b[1] = x /\ b[2] = y /\ b[3] = z
  BY <1>1
<1> HIDE DEF a, b
<1>3. Append(a, z) \in Seq(S) /\ Len(Append(a, z)) = 3
      /\ Append(a, z)[1] = x /\ Append(a, z)[2] = y /\ Append(a, z)[3] = z
  <2>1. /\ Append(a, z) \in Seq(S) /\ Len(Append(a, z)) = Len(a) + 1
        /\ \A i \in 1 .. Len(a) : Append(a, z)[i] = a[i]
        /\ Append(a, z)[Len(a) + 1] = z
    <3>1. a \in Seq(S) /\ z \in S
      BY <1>1, <1>2
    <3> QED
      BY <3>1, AppendProperties
  <2>2. Len(a) + 1 = 3 /\ 1 \in 1 .. Len(a) /\ 2 \in 1 .. Len(a)
    BY <1>2
  <2> QED
    BY <1>2, <2>1, <2>2
<1>4. \A i \in 1 .. Len(b) : Append(a, z)[i] = b[i]
  <2>1. \A i \in 1 .. 3 : i = 1 \/ i = 2 \/ i = 3
    OBVIOUS
  <2> QED
    BY <1>2, <1>3, <2>1
<1>5. Append(a, z) = b
  BY <1>2, <1>3, <1>4, SeqEqual
<1> QED
  BY <1>5 DEF a, b

-----------------------------------------------------------------------------
\* A profile's line is split into its name, its type and no device.
LEMMA LineSplit ==
    ASSUME NEW p \in Profiles
    PROVE  /\ Line(p) \in Seq(Text)
           /\ SplitFields(Line(p)) = <<p.name, IF p.wireless THEN <<"W">> ELSE <<"E">>, <<>> >>
<1> DEFINE w == IF p.wireless THEN "W" ELSE "E"
<1>1. p.name \in Seq(Letter)
  BY DEF Profiles, ProfileNames
<1>2. w \in Text /\ w # Colon /\ w # Backslash
  BY NetAssumption DEF Text
<1>3. w = (IF p.wireless THEN "W" ELSE "E")
  OBVIOUS
<1> HIDE DEF w
<1>a. Append(<<>>, p.name) = <<p.name>> /\ Append(<<>>, w) = <<w>>
  OBVIOUS
<1>b. Append(<<p.name>>, <<w>>) = <<p.name, <<w>> >>
  BY TwoElements
<1>c. Append(<<p.name, <<w>> >>, <<>>) = <<p.name, <<w>>, <<>> >>
  BY ThreeElements
<1> DEFINE l1 == Append(Escaped(p.name), Colon)
           l2 == Append(l1, w)
           l3 == Append(l2, Colon)
<1>d. l1 = Append(Escaped(p.name), Colon) /\ l2 = Append(l1, w) /\ l3 = Append(l2, Colon)
  OBVIOUS
<1>l. Line(p) = l3
  BY <1>3 DEF Line
<1> HIDE DEF l1, l2, l3
<1>4. Read(l1, <<p.name>>, <<>>)
  <2>1. Read(Append(Escaped(p.name), Colon), Append(<<>>, p.name), <<>>)
    BY <1>1, EscapedRead, ReadColon
  <2> QED
    BY <1>a, <1>d, <2>1, Zenon
<1>5. Read(l2, <<p.name>>, <<w>>)
  <2>1. Read(Append(l1, w), <<p.name>>, Append(<<>>, w))
    BY <1>2, <1>4, ReadPlain
  <2> QED
    BY <1>a, <1>d, <2>1, Zenon
<1>6. Read(l3, <<p.name, <<w>> >>, <<>>)
  <2>1. Read(Append(l2, Colon), Append(<<p.name>>, <<w>>), <<>>)
    BY <1>5, ReadColon
  <2> QED
    BY <1>b, <1>d, <2>1, Zenon
<1>7. l3 \in Seq(Text)
      /\ Runes(l3)[Len(l3)] = [fields |-> <<p.name, <<w>> >>, cur |-> <<>>, escaped |-> FALSE]
  BY <1>6, Zenon DEF Read
<1>8. SplitFields(Line(p)) = <<p.name, <<w>>, <<>> >>
  <2>1. Runes(l3)[Len(l3)].fields = <<p.name, <<w>> >> /\ Runes(l3)[Len(l3)].cur = <<>>
    BY <1>7
  <2>2. SplitFields(l3) = Append(<<p.name, <<w>> >>, <<>>)
    BY <2>1, Zenon DEF SplitFields
  <2> QED
    BY <1>c, <1>l, <2>2, Zenon
<1>9. <<w>> = IF p.wireless THEN <<"W">> ELSE <<"E">>
  BY <1>3
<1> QED
  BY <1>7, <1>8, <1>9, <1>l, Zenon

\* The names that Status knows are those of the wireless profiles.
LEMMA KnownIs ==
    ASSUME NEW S, S \subseteq Profiles
    PROVE  Known({Line(p) : p \in S}) = {p.name : p \in {q \in S : q.wireless}}
<1> DEFINE Three(p) == <<p.name, IF p.wireless THEN <<"W">> ELSE <<"E">>, <<>> >>
<1>1. ASSUME NEW p \in S
      PROVE  /\ SplitFields(Line(p)) = Three(p)
             /\ Three(p)[1] = p.name /\ Len(Three(p)) = 3
             /\ (Three(p)[2] = <<"W">>) <=> p.wireless
  <2>1. SplitFields(Line(p)) = Three(p)
    BY LineSplit
  <2>2. Three(p)[1] = p.name /\ Len(Three(p)) = 3
        /\ Three(p)[2] = IF p.wireless THEN <<"W">> ELSE <<"E">>
    OBVIOUS
  <2>3. <<"E">> # <<"W">>
    <3>1. <<"E">>[1] = "E" /\ <<"W">>[1] = "W" /\ "E" # "W"
      OBVIOUS
    <3> QED
      BY <3>1
  <2>4. p.wireless \in BOOLEAN
    BY DEF Profiles
  <2> HIDE DEF Three
  <2> QED
    BY <2>1, <2>2, <2>3, <2>4
<1>2. ASSUME NEW n \in Known({Line(p) : p \in S}) PROVE \E p \in S : p.wireless /\ p.name = n
  <2>1. PICK f \in {SplitFields(line) : line \in {Line(p) : p \in S}} :
           f[1] = n /\ f[2] = <<"W">>
    BY <1>2 DEF Known
  <2>2. PICK p \in S : f = SplitFields(Line(p))
    BY <2>1
  <2> HIDE DEF Three
  <2> QED
    BY <1>1, <2>1, <2>2
<1>3. ASSUME NEW p \in S, p.wireless PROVE p.name \in Known({Line(q) : q \in S})
  <2> HIDE DEF Three
  <2>1. SplitFields(Line(p)) \in {SplitFields(line) : line \in {Line(q) : q \in S}}
    OBVIOUS
  <2>2. PICK f : f = SplitFields(Line(p))
    OBVIOUS
  <2>3. Len(f) >= 3 /\ f[2] = <<"W">> /\ f[1] = p.name
    BY <1>1, <1>3, <2>2
  <2> QED
    BY <2>1, <2>2, <2>3 DEF Known
<1> QED
  BY <1>2, <1>3

\* The profile that is brought up was among those that were listed.
NetInv ==
    /\ NetTypeOK
    /\ stage \in {"up", "ok"} => wanted \in {p.name : p \in {q \in held : q.wireless}}
    /\ stage = "unknown" => wanted \notin {p.name : p \in {q \in held : q.wireless}}

LEMMA NetStart == NetInit => NetInv
<1> SUFFICES ASSUME NetInit PROVE NetInv
  OBVIOUS
<1>1. saved \subseteq Profiles
  BY NetAssumption DEF NetInit
<1> QED
  BY <1>1 DEF NetInit, NetInv, NetTypeOK

LEMMA NetStep ==
    ASSUME NetInv, [NetNext]_netVars
    PROVE  NetInv'
<1> USE DEF NetInv, NetTypeOK
<1>1. CASE ReadDevices
  BY <1>1 DEF ReadDevices
<1>2. CASE ReadAssociations
  BY <1>2 DEF ReadAssociations
<1>3. CASE ReadProfiles
  <2>1. CASE /\ listing' = {Line(p) : p \in saved} /\ held' = saved
             /\ stage' = IF wanted \in Known(listing') THEN "up" ELSE "unknown"
             /\ UNCHANGED <<saved, wanted>>
    <3>1. Known({Line(p) : p \in saved}) = {p.name : p \in {q \in saved : q.wireless}}
      BY KnownIs
    <3>2. \A line \in listing' : line \in Seq(Letter \cup {"W", "E"})
      BY <2>1, LineSplit DEF Text
    <3>3. stage' = IF wanted \in {p.name : p \in {q \in saved : q.wireless}} THEN "up" ELSE "unknown"
      BY <2>1, <3>1
    <3>4. saved' = saved /\ held' = saved /\ wanted' = wanted
      BY <2>1
    <3> QED
      BY <3>2, <3>3, <3>4
  <2>2. CASE stage' = "error" /\ UNCHANGED <<listing, held, saved, wanted>>
    BY <2>2
  <2> QED
    BY <1>3, <2>1, <2>2 DEF ReadProfiles
<1>4. CASE BringUp
  BY <1>4 DEF BringUp
<1>5. CASE Delete
  BY <1>5 DEF Delete
<1>6. CASE UNCHANGED netVars
  BY <1>6 DEF netVars
<1> QED
  BY <1>1, <1>2, <1>3, <1>4, <1>5, <1>6 DEF NetNext

LEMMA NetInvariant == NetSpec => []NetInv
<1>1. NetInv /\ [NetNext]_netVars => NetInv'
  BY NetStep
<1> QED
  BY <1>1, NetStart, PTL DEF NetSpec

\* The lines of nmcli are texts of names and types.
THEOREM NetTypes == NetSpec => []NetTypeOK
<1>1. NetInv => NetTypeOK
  BY DEF NetInv
<1> QED
  BY <1>1, NetInvariant, PTL

\* Only a wireless profile that was held is brought up and none that was is called
\* unknown, for names of any length and any characters, and any profiles.
THEOREM OnlySavedProfiles == NetSpec => []SavedOnly
<1>1. NetInv => SavedOnly
  BY DEF NetInv, SavedOnly
<1> QED
  BY <1>1, NetInvariant, PTL
-----------------------------------------------------------------------------
(***************************************************************************)
(* The choice of the printer.                                              *)
(***************************************************************************)
\* What Min picks out of the positions of a list.
LEMMA LeastIs ==
    ASSUME NEW S \in SUBSET Nat, S # {}
    PROVE  Min(S) \in S /\ \A m \in S : Min(S) <= m
<1>1. \E n \in S : \A m \in S : n <= m
  BY LeastNat
<1> QED
  BY <1>1 DEF Min

\* The name resolvePrinter settles for, if the site configured one: a configured
\* name, or one that looks like a label printer.
LEMMA ResolvedName ==
    ASSUME NEW config \in Seq(Queues), config # <<>>, NEW names \in Seq(Queues), NEW d
    PROVE  LET chose == ResolvePrinter(config, names, d)[1]
           IN  chose \in ToSet(config) \/ Score[chose] > 0
<1> DEFINE found == {i \in DOMAIN config : config[i] \in ToSet(names)}
           best == {i \in DOMAIN names :
                       /\ Score[names[i]] > 0
                       /\ \A k \in DOMAIN names : Score[names[k]] <= Score[names[i]]}
<1>1. DOMAIN config \in SUBSET Nat /\ DOMAIN names \in SUBSET Nat
  OBVIOUS
<1>2. FirstListed(config, names) # NoQueue => FirstListed(config, names) \in ToSet(config)
  <2>1. CASE found = {}
    BY <2>1 DEF FirstListed
  <2>2. CASE found # {}
    <3>1. Min(found) \in found
      BY <1>1, <2>2, LeastIs
    <3> QED
      BY <2>2, <3>1 DEF FirstListed, ToSet
  <2> QED
    BY <2>1, <2>2
<1>3. DetectBrotherQL(names) # NoQueue => Score[DetectBrotherQL(names)] > 0
  <2>1. CASE best = {}
    BY <2>1 DEF DetectBrotherQL
  <2>2. CASE best # {}
    <3>1. Min(best) \in best
      BY <1>1, <2>2, LeastIs
    <3> QED
      BY <2>2, <3>1 DEF DetectBrotherQL
  <2> QED
    BY <2>1, <2>2
<1>4. config[1] \in ToSet(config)
  BY DEF ToSet
<1> HIDE DEF found, best
<1> QED
  BY <1>2, <1>3, <1>4 DEF ResolvePrinter

-----------------------------------------------------------------------------
(***************************************************************************)
(* PinnedWins is not inductive: that a configured queue that was always     *)
(* there is only passed over when its lpstat fails, and is then found in    *)
(* the list of all, is what Status's progress has to say.                   *)
(***************************************************************************)
ChoiceTypes ==
    /\ dests \in Seq(Queues) /\ listed \in Seq(Queues)
    /\ configured \in Seq(Queues) /\ tried \in 0 .. Len(configured)
    /\ failed \subseteq Queues

\* The names asked about so far were missing at the time, or asking failed; and the
\* list of all queues has the ones that never go.
PassedOver ==
    /\ stable \subseteq Held
    /\ \A i \in 1 .. tried : configured[i] \in stable => configured[i] \in failed
    /\ statusAt \in {"default", "resolve"} => stable \subseteq ToSet(listed)

NamedOrLikely ==
    statusAt \in {"attributes", "done"} /\ configured # <<>> =>
        chosen \in ToSet(configured) \/ Score[chosen] > 0

\* Nothing is usable before Status is done.
UsableLast == usable => statusAt = "done"

SelectInv == ChoiceTypes /\ PassedOver /\ PinnedWins /\ NamedOrLikely /\ UsableLast

\* selectConfiguredPrinter finds a listed name, and none before it is listed.
LEMMA ListedWins ==
    ASSUME NEW config \in Seq(Queues), NEW names, NEW d,
           NEW i \in DOMAIN config, config[i] \in ToSet(names)
    PROVE  \E k \in DOMAIN config : k <= i /\ ResolvePrinter(config, names, d)[1] = config[k]
<1> DEFINE found == {k \in DOMAIN config : config[k] \in ToSet(names)}
<1>1. found \in SUBSET Nat /\ i \in found
  OBVIOUS
<1>2. Min(found) \in found /\ Min(found) <= i
  BY <1>1, LeastIs
<1>3. FirstListed(config, names) = config[Min(found)]
  BY <1>1 DEF FirstListed
<1>4. config[Min(found)] \in Queues
  BY <1>2
<1>5. ResolvePrinter(config, names, d)[1] = config[Min(found)]
  BY <1>3, <1>4, SelectAssumption DEF ResolvePrinter
<1> QED
  BY <1>2, <1>5

LEMMA ListingIs ==
    ASSUME NEW s \in Listings(Queues)
    PROVE  s \in Seq(Queues)
<1>1. PICK n \in 0 .. Cardinality(Queues) : s \in [1 .. n -> Queues]
  BY DEF Listings
<1>2. n \in Nat
  OBVIOUS
<1> QED
  BY <1>1, <1>2

LEMMA SelectStart == SelectInit => SelectInv
<1> SUFFICES ASSUME SelectInit PROVE SelectInv
  OBVIOUS
<1>0. dests \in Listings(Queues) /\ configured \in Configs
  BY DEF SelectInit
<1>1. dests \in Seq(Queues)
  BY <1>0, ListingIs
<1>2. configured \in Seq(Queues) /\ <<>> \in Seq(Queues)
  BY <1>0, SelectAssumption
<1>3. Len(configured) \in Nat
  BY <1>2
<1>4. ChoiceTypes
  <2>1. tried = 0 /\ listed = <<>> /\ failed = {}
    BY DEF SelectInit
  <2>2. 0 \in 0 .. Len(configured)
    BY <1>3
  <2> QED
    BY <1>1, <1>2, <2>1, <2>2 DEF ChoiceTypes
<1>5. 1 .. 0 = {}
  OBVIOUS
<1>6. PassedOver
  BY <1>5 DEF SelectInit, PassedOver
<1> QED
  BY <1>4, <1>6 DEF SelectInit, SelectInv, PinnedWins, NamedOrLikely, UsableLast

\* Every step of Status, and of whoever changes the queues, keeps the invariant.
LEMMA SelectStep ==
    ASSUME SelectInv, [SelectNext]_selectVars
    PROVE  SelectInv'
<1> USE DEF world, asking, choice
<1>t. ChoiceTypes /\ PassedOver /\ PinnedWins /\ NamedOrLikely /\ UsableLast
  BY DEF SelectInv
<1>n. /\ configured \in Seq(Queues) /\ tried \in Nat /\ Len(configured) \in Nat
      /\ tried <= Len(configured) /\ DOMAIN configured = 1 .. Len(configured)
      /\ dests \in Seq(Queues) /\ listed \in Seq(Queues)
  BY <1>t DEF ChoiceTypes
<1>1. CASE AskFinds
  <2>1. /\ statusAt = "ask" /\ tried < Len(configured) /\ configured[tried + 1] \in Held
        /\ chosen' = configured[tried + 1] /\ listed' = <<chosen'>>
        /\ statusAt' = "attributes"
        /\ UNCHANGED <<dests, configured, stable, tried, failed, usable>>
    BY <1>1 DEF AskFinds
  <2>2. tried + 1 \in DOMAIN configured /\ chosen' \in Queues
    BY <1>n, <2>1
  <2>3. ChoiceTypes'
    BY <1>t, <2>1, <2>2 DEF ChoiceTypes
  <2>4. PassedOver'
    BY <1>t, <2>1 DEF PassedOver, Held
  <2>5. PinnedWins'
    <3> SUFFICES ASSUME NEW i \in DOMAIN configured', configured'[i] \in stable'
                 PROVE  \E k \in DOMAIN configured' : /\ chosen' = configured'[k]
                                                      /\ k <= i \/ configured'[i] \in failed'
      BY DEF PinnedWins
    <3>1. i \in DOMAIN configured /\ configured[i] \in stable
      BY <2>1
    <3>2. tried + 1 <= i \/ configured[i] \in failed
      <4>1. CASE i \in 1 .. tried
        BY <1>t, <3>1, <4>1 DEF PassedOver
      <4>2. CASE i \notin 1 .. tried
        BY <1>n, <3>1, <4>2
      <4> QED
        BY <4>1, <4>2
    <3> QED
      BY <2>1, <2>2, <3>2
  <2>6. NamedOrLikely' /\ UsableLast'
    BY <1>t, <2>1, <2>2 DEF NamedOrLikely, UsableLast, ToSet
  <2> QED
    BY <2>3, <2>4, <2>5, <2>6 DEF SelectInv
<1>2. CASE AskMisses
  <2>1. /\ statusAt = "ask" /\ tried < Len(configured)
        /\ configured[tried + 1] \notin Held \/ configured[tried + 1] \in failed'
        /\ tried' = tried + 1 /\ failed \subseteq failed'
        /\ failed' \subseteq failed \cup {configured[tried + 1]}
        /\ UNCHANGED <<dests, configured, stable, statusAt, listed, chosen, usable>>
    BY <1>2 DEF AskMisses
  <2>2. ChoiceTypes'
    <3>1. configured[tried + 1] \in Queues
      BY <1>n, <2>1
    <3> QED
      BY <1>t, <1>n, <2>1, <3>1 DEF ChoiceTypes
  <2>3. PassedOver'
    <3>1. stable' \subseteq Held'
      BY <1>t, <2>1 DEF PassedOver, Held
    <3>2. ASSUME NEW i \in 1 .. tried' PROVE configured'[i] \in stable' => configured'[i] \in failed'
      <4>1. i \in 1 .. tried \/ i = tried + 1
        BY <1>n, <2>1
      <4> QED
        BY <1>t, <2>1, <4>1 DEF PassedOver
    <3> QED
      BY <2>1, <3>1, <3>2 DEF PassedOver
  <2> QED
    BY <1>t, <2>1, <2>2, <2>3 DEF SelectInv, PinnedWins, NamedOrLikely, UsableLast
<1>3. CASE AskedAll
  <2>1. /\ statusAt = "ask" /\ tried = Len(configured) /\ statusAt' = "list"
        /\ UNCHANGED <<dests, configured, stable, tried, failed, listed, chosen, usable>>
    BY <1>3 DEF AskedAll
  <2> QED
    BY <1>t, <2>1 DEF SelectInv, ChoiceTypes, PassedOver, PinnedWins, NamedOrLikely,
                      UsableLast, Held
<1>4. CASE List \/ ReadDefault
  <2>1. /\ statusAt \in {"list", "default"}
        /\ statusAt' \in {"default", "resolve", "error"} /\ listed' \in {listed, dests}
        /\ statusAt = "list" /\ statusAt' # "error" => listed' = dests
        /\ statusAt = "default" => listed' = listed
        /\ UNCHANGED <<dests, configured, stable, tried, failed, chosen, usable>>
    BY <1>4 DEF List, ReadDefault
  <2>2. ChoiceTypes'
    BY <1>t, <2>1 DEF ChoiceTypes
  <2>3. PassedOver'
    BY <1>t, <2>1 DEF PassedOver, Held
  <2> QED
    BY <1>t, <2>1, <2>2, <2>3 DEF SelectInv, PinnedWins, NamedOrLikely,
                            UsableLast, Held
<1>5. CASE Resolve
  <2>1. /\ statusAt = "resolve" /\ statusAt' = "attributes"
        /\ chosen' = ResolvePrinter(configured, listed, dflt)[1]
        /\ UNCHANGED <<dests, configured, stable, tried, failed, listed, usable>>
    BY <1>5 DEF Resolve
  <2>2. ChoiceTypes' /\ PassedOver' /\ UsableLast'
    BY <1>t, <2>1 DEF ChoiceTypes, PassedOver, UsableLast, Held
  \* A configured name that is stable is in the list, and so is the one chosen.
  <2>3. PinnedWins'
    <3> SUFFICES ASSUME NEW i \in DOMAIN configured', configured'[i] \in stable'
                 PROVE  \E k \in DOMAIN configured' : chosen' = configured'[k] /\ k <= i
      BY DEF PinnedWins
    <3>1. i \in DOMAIN configured /\ configured[i] \in ToSet(listed)
      BY <1>t, <2>1 DEF PassedOver
    <3> QED
      BY <1>n, <2>1, <3>1, ListedWins
  <2>4. NamedOrLikely'
    BY <1>n, <2>1, ResolvedName DEF NamedOrLikely
  <2> QED
    BY <2>2, <2>3, <2>4 DEF SelectInv
<1>6. CASE Attributes
  <2>1. /\ statusAt = "attributes" /\ statusAt' = "done"
        /\ UNCHANGED <<dests, configured, stable, tried, failed, listed, chosen>>
    BY <1>6 DEF Attributes
  <2> QED
    BY <1>t, <2>1 DEF SelectInv, ChoiceTypes, PassedOver, PinnedWins, NamedOrLikely,
                      UsableLast, Held
<1>7. CASE Reconfigure
  <2>1. /\ dests' \in Listings(Queues) \cup {dests} /\ stable' = stable \cap ToSet(dests')
        /\ UNCHANGED <<configured, statusAt, tried, failed, listed, chosen, usable>>
    BY <1>7 DEF Reconfigure
  <2>2. ChoiceTypes'
    BY <1>t, <2>1, ListingIs DEF ChoiceTypes
  <2>3. PassedOver'
    BY <1>t, <2>1 DEF PassedOver, Held
  <2> QED
    BY <1>t, <2>1, <2>2, <2>3 DEF SelectInv, PinnedWins, NamedOrLikely, UsableLast
<1>8. CASE UNCHANGED selectVars
  BY <1>t, <1>8 DEF selectVars, SelectInv, ChoiceTypes, PassedOver, PinnedWins,
                    NamedOrLikely, UsableLast, Held
<1> QED
  BY <1>1, <1>2, <1>3, <1>4, <1>5, <1>6, <1>7, <1>8 DEF SelectNext

LEMMA SelectInvariant == SelectSpec => []SelectInv
<1>1. SelectInv /\ [SelectNext]_selectVars => SelectInv'
  BY SelectStep
<1> QED
  BY <1>1, SelectStart, PTL DEF SelectSpec

\* While CUPS holds a configured queue all the time, a configured queue is selected:
\* that one or one configured before it, unless the lpstat about it failed.
THEOREM PinnedAlwaysWins == SelectSpec => []PinnedWins
<1>1. SelectInv => PinnedWins
  BY DEF SelectInv
<1> QED
  BY <1>1, SelectInvariant, PTL

\* As soon as the site names a printer, labels go to a named queue or to one that
\* looks like a Brother QL: the promise of resolvePrinter's comment fails only
\* without a PRINTER_NAME.
THEOREM NamedSiteIsSafe == SelectSpec => [](configured # <<>> => LabelPrinterOnly)
<1>1. SelectInv => (configured # <<>> => LabelPrinterOnly)
  BY DEF SelectInv, NamedOrLikely, UsableLast, LabelPrinterOnly
<1> QED
  BY <1>1, SelectInvariant, PTL

\* What resolvePrinter returns.
LEMMA ResolvedTypes ==
    ASSUME NEW config \in Seq(Queues), NEW names \in Seq(Queues),
           NEW d \in Queues \cup {NoQueue}
    PROVE  /\ ResolvePrinter(config, names, d)[1] \in Queues \cup {NoQueue}
           /\ ResolvePrinter(config, names, d)[2] \in
                 {"configured", "cups-default", "auto-detected", "first-available", "unresolved"}
<1> DEFINE found == {i \in DOMAIN config : config[i] \in ToSet(names)}
           best == {i \in DOMAIN names :
                       /\ Score[names[i]] > 0
                       /\ \A k \in DOMAIN names : Score[names[k]] <= Score[names[i]]}
<1>1. DOMAIN config \in SUBSET Nat /\ DOMAIN names \in SUBSET Nat
  OBVIOUS
<1>2. FirstListed(config, names) \in Queues \cup {NoQueue}
  <2>1. CASE found = {}
    BY <2>1 DEF FirstListed
  <2>2. CASE found # {}
    <3>1. Min(found) \in DOMAIN config
      BY <1>1, <2>2, LeastIs
    <3> QED
      BY <2>2, <3>1 DEF FirstListed
  <2> QED
    BY <2>1, <2>2
<1>3. DetectBrotherQL(names) \in Queues \cup {NoQueue}
  <2>1. CASE best = {}
    BY <2>1 DEF DetectBrotherQL
  <2>2. CASE best # {}
    <3>1. Min(best) \in DOMAIN names
      BY <1>1, <2>2, LeastIs
    <3> QED
      BY <2>2, <3>1 DEF DetectBrotherQL
  <2> QED
    BY <2>1, <2>2
<1>4. (config # <<>> => config[1] \in Queues) /\ (names # <<>> => names[1] \in Queues)
  OBVIOUS
<1> HIDE DEF found, best
<1> QED
  BY <1>2, <1>3, <1>4 DEF ResolvePrinter

\* What resolvePrinter returns is one of the names it was given.
LEMMA ResolvedFrom ==
    ASSUME NEW config \in Seq(Queues), NEW names \in Seq(Queues),
           NEW d \in Queues \cup {NoQueue}
    PROVE  ResolvePrinter(config, names, d)[1] \in
               ToSet(config) \cup ToSet(names) \cup {d, NoQueue}
<1> DEFINE found == {i \in DOMAIN config : config[i] \in ToSet(names)}
           best == {i \in DOMAIN names :
                       /\ Score[names[i]] > 0
                       /\ \A k \in DOMAIN names : Score[names[k]] <= Score[names[i]]}
<1>1. DOMAIN config \in SUBSET Nat /\ DOMAIN names \in SUBSET Nat
  OBVIOUS
<1>2. FirstListed(config, names) \in ToSet(config) \cup {NoQueue}
  <2>1. CASE found = {}
    BY <2>1 DEF FirstListed
  <2>2. CASE found # {}
    <3>1. Min(found) \in DOMAIN config
      BY <1>1, <2>2, LeastIs
    <3> QED
      BY <2>2, <3>1 DEF FirstListed, ToSet
  <2> QED
    BY <2>1, <2>2
<1>3. DetectBrotherQL(names) \in ToSet(names) \cup {NoQueue}
  <2>1. CASE best = {}
    BY <2>1 DEF DetectBrotherQL
  <2>2. CASE best # {}
    <3>1. Min(best) \in DOMAIN names
      BY <1>1, <2>2, LeastIs
    <3> QED
      BY <2>2, <3>1 DEF DetectBrotherQL, ToSet
  <2> QED
    BY <2>1, <2>2
<1>4. config # <<>> => config[1] \in ToSet(config)
  BY DEF ToSet
<1>5. names # <<>> => names[1] \in ToSet(names)
  BY DEF ToSet
<1> HIDE DEF found, best
<1> QED
  BY <1>2, <1>3, <1>4, <1>5 DEF ResolvePrinter

SelectedTypes == SelectInv /\ SelectTypeOK

LEMMA SelectedStart == SelectInit => SelectedTypes
<1> SUFFICES ASSUME SelectInit PROVE SelectedTypes
  OBVIOUS
<1>1. SelectInv
  BY SelectStart
<1>2. dests \in Listings(Queues) /\ IsInjective(dests) /\ Held \in SUBSET Queues
  <2>1. dests \in Listings(Queues)
    BY DEF SelectInit
  <2> QED
    BY <2>1 DEF Listings, Held
<1>3. 0 \in 0 .. MaxChanges
  BY SelectAssumption
<1>4. /\ default \in Held \cup {NoQueue} /\ configured \in Configs
      /\ statusAt = "ask" /\ dflt = NoQueue /\ chosen = NoQueue /\ source = ""
      /\ usable = FALSE /\ changes = 0 /\ stable = Held
  BY DEF SelectInit
<1>5. ChoiceTypes
  BY <1>1 DEF SelectInv
<1> QED
  BY <1>1, <1>2, <1>3, <1>4, <1>5 DEF SelectedTypes, SelectTypeOK, ChoiceTypes

LEMMA SelectedStep ==
    ASSUME SelectedTypes, [SelectNext]_selectVars
    PROVE  SelectedTypes'
<1> USE DEF world, asking, choice
<1>t. SelectInv /\ SelectTypeOK /\ ChoiceTypes
  BY DEF SelectedTypes, SelectInv
<1>n. SelectInv' /\ ChoiceTypes'
  BY <1>t, SelectStep DEF SelectInv
<1>s. ASSUME /\ dests' \in {dests} /\ default' \in {default}
             /\ configured' = configured /\ changes' = changes /\ stable' = stable
             /\ statusAt' \in {"ask", "list", "default", "resolve", "attributes", "done", "error"}
             /\ dflt' \in Queues \cup {NoQueue} /\ chosen' \in Queues \cup {NoQueue}
             /\ source' \in {"", "configured", "cups-default", "auto-detected",
                             "first-available", "unresolved"}
             /\ usable' \in BOOLEAN
      PROVE  SelectedTypes'
  BY <1>t, <1>n, <1>s DEF SelectedTypes, SelectTypeOK, ChoiceTypes
<1>1. CASE AskFinds
  <2>1. configured[tried + 1] \in Held /\ Held \subseteq Queues
    BY <1>t, <1>1 DEF AskFinds, Held, ToSet, ChoiceTypes
  <2> QED
    BY <1>t, <1>s, <1>1, <2>1 DEF AskFinds, SelectTypeOK
<1>2. CASE AskMisses \/ AskedAll \/ List
  BY <1>t, <1>s, <1>2 DEF AskMisses, AskedAll, List, SelectTypeOK
<1>3. CASE ReadDefault
  BY <1>t, <1>s, <1>3 DEF ReadDefault, SelectTypeOK
<1>4. CASE Resolve
  <2>1. /\ configured \in Seq(Queues) /\ listed \in Seq(Queues)
        /\ dflt \in Queues \cup {NoQueue}
    BY <1>t DEF ChoiceTypes, SelectTypeOK
  <2>2. /\ chosen' \in Queues \cup {NoQueue}
        /\ source' \in {"configured", "cups-default", "auto-detected", "first-available",
                        "unresolved"}
    BY <1>4, <2>1, ResolvedTypes DEF Resolve
  <2> QED
    BY <1>t, <1>s, <1>4, <2>2 DEF Resolve, SelectTypeOK
<1>5. CASE Attributes
  <2>1. \A b \in BOOLEAN : Ready(b) \in BOOLEAN
    BY DEF Ready
  <2>2. usable' \in BOOLEAN
    BY <1>5, <2>1 DEF Attributes
  <2> QED
    BY <1>t, <1>s, <1>5, <2>2 DEF Attributes, SelectTypeOK
<1>6. CASE Reconfigure
  <2>1. /\ changes < MaxChanges /\ changes' = changes + 1
        /\ stable' = stable \cap ToSet(dests')
        /\ UNCHANGED <<configured, statusAt, dflt, chosen, source, usable>>
    BY <1>6 DEF Reconfigure
  <2>2. changes' \in 0 .. MaxChanges
    <3>1. changes \in 0 .. MaxChanges /\ MaxChanges \in Nat
      BY <1>t, SelectAssumption DEF SelectTypeOK
    <3> QED
      BY <2>1, <3>1
  <2>3. dests' \in Seq(Queues) /\ IsInjective(dests') /\ default' \in Queues \cup {NoQueue}
    <3>1. CASE /\ dests' \in Listings(Queues)
               /\ default' = IF default \in ToSet(dests') THEN default ELSE NoQueue
      BY <1>t, <1>n, <3>1 DEF SelectTypeOK, Listings, ChoiceTypes
    <3>2. CASE default' \in Held \cup {NoQueue} /\ dests' = dests
      <4>1. dests \in Seq(Queues) /\ IsInjective(dests)
        BY <1>t DEF SelectTypeOK
      <4>2. Held \subseteq Queues
        BY <4>1 DEF Held, ToSet
      <4> QED
        BY <3>2, <4>1, <4>2
    <3> QED
      BY <1>6, <3>1, <3>2 DEF Reconfigure
  <2> QED
    BY <1>t, <1>n, <2>1, <2>2, <2>3 DEF SelectedTypes, SelectTypeOK, ChoiceTypes
<1>7. CASE UNCHANGED selectVars
  BY <1>t, <1>s, <1>7 DEF selectVars, SelectTypeOK
<1> QED
  BY <1>1, <1>2, <1>3, <1>4, <1>5, <1>6, <1>7 DEF SelectNext

\* Nothing is selected before Status has resolved a name, and then it is a name that
\* the site configured or that CUPS told, if there is one.
ChosenKnown ==
    IF statusAt \in {"attributes", "done"}
    THEN chosen \in ToSet(configured) \cup ToSet(listed) \cup {dflt, NoQueue}
    ELSE chosen = NoQueue

LEMMA KnownStep ==
    ASSUME SelectedTypes, ChosenKnown, [SelectNext]_selectVars
    PROVE  ChosenKnown'
<1> USE DEF world, asking, choice
<1>t. /\ configured \in Seq(Queues) /\ listed \in Seq(Queues)
      /\ tried \in 0 .. Len(configured) /\ dflt \in Queues \cup {NoQueue}
  BY DEF SelectedTypes, SelectInv, ChoiceTypes, SelectTypeOK
<1>1. CASE AskFinds
  <2>1. /\ statusAt' = "attributes" /\ chosen' = configured[tried + 1]
        /\ tried < Len(configured) /\ configured' = configured
    BY <1>1 DEF AskFinds
  <2>2. tried + 1 \in DOMAIN configured
    BY <1>t, <2>1
  <2>3. chosen' \in ToSet(configured')
    BY <2>1, <2>2 DEF ToSet
  <2> QED
    BY <2>1, <2>3 DEF ChosenKnown
<1>2. CASE AskMisses \/ AskedAll \/ List \/ ReadDefault
  <2>1. /\ statusAt \in {"ask", "list", "default"} /\ chosen' = chosen
        /\ statusAt' \in {"ask", "list", "default", "resolve", "error"}
    BY <1>2 DEF AskMisses, AskedAll, List, ReadDefault
  <2> QED
    BY <2>1 DEF ChosenKnown
<1>3. CASE Resolve
  <2>1. /\ statusAt' = "attributes" /\ chosen' = ResolvePrinter(configured, listed, dflt)[1]
        /\ UNCHANGED <<configured, listed, dflt>>
    BY <1>3 DEF Resolve
  <2>2. chosen' \in ToSet(configured) \cup ToSet(listed) \cup {dflt, NoQueue}
    BY <1>t, <2>1, ResolvedFrom
  <2> QED
    BY <2>1, <2>2 DEF ChosenKnown
<1>4. CASE Attributes
  <2>1. /\ statusAt = "attributes" /\ statusAt' = "done"
        /\ UNCHANGED <<configured, listed, dflt, chosen>>
    BY <1>4 DEF Attributes
  <2> QED
    BY <2>1 DEF ChosenKnown
<1>5. CASE Reconfigure \/ UNCHANGED selectVars
  <2>1. UNCHANGED <<configured, statusAt, listed, dflt, chosen>>
    BY <1>5 DEF Reconfigure, selectVars
  <2> QED
    BY <2>1 DEF ChosenKnown
<1> QED
  BY <1>1, <1>2, <1>3, <1>4, <1>5 DEF SelectNext

\* Every variable of the selection keeps its type, and what Status selects is a name
\* that the site configured, that the listing of all queues shows or that is the
\* default, for any queues and however they change while it looks.
THEOREM SelectTypes == SelectSpec => [](SelectTypeOK /\ ChosenKnown)
<1>1. SelectInit => SelectedTypes /\ ChosenKnown
  BY SelectedStart DEF SelectInit, ChosenKnown
<1>2. SelectedTypes /\ ChosenKnown /\ [SelectNext]_selectVars => SelectedTypes' /\ ChosenKnown'
  BY SelectedStep, KnownStep
<1>3. SelectedTypes => SelectTypeOK
  BY DEF SelectedTypes
<1> QED
  BY <1>1, <1>2, <1>3, PTL DEF SelectSpec

-----------------------------------------------------------------------------
(***************************************************************************)
(* The queue watch.  WatchTypeOK is not inductive: what a request that acts *)
(* goes on to do is what it was asked, which it forgets when it leaves.    *)
(***************************************************************************)
\* Who acts was told what to do with which job, and does nothing else.
Told ==
    \A w \in Acts :
        /\ at[w] # "idle" => target[w] \in {"restart", "cancel"} \X Jobs
        /\ at[w] = "cancel" => target[w][1] = "cancel"
        /\ at[w] \in {"recent", "restart"} => target[w][1] = "restart"

WatchInv == WatchTypeOK /\ Told

\* Whoever leaves forgets what was read.
LEMMA LeaveKeeps ==
    ASSUME WatchInv, NEW w \in Watchers, Leave(w), job' \in [Jobs -> JobStates],
           seen' \in [Jobs -> 0 .. Unseen], UNCHANGED <<enabled, ready, registered>>
    PROVE  WatchInv'
<1>t. WatchTypeOK /\ Told
  BY DEF WatchInv
<1>1. /\ at' = [at EXCEPT ![w] = "idle"]
      /\ target' = IF w \in Acts THEN [target EXCEPT ![w] = <<>>] ELSE target
      /\ sReady' = [sReady EXCEPT ![w] = FALSE]
      /\ sJobs' = [sJobs EXCEPT ![w] = {}]
      /\ sState' = [sState EXCEPT ![w] = "cleared"]
  BY DEF Leave
<1>2. WatchTypeOK'
  BY <1>t, <1>1 DEF WatchTypeOK
<1>3. Told'
  BY <1>t, <1>1 DEF Told, WatchTypeOK, Watchers
<1> QED
  BY <1>2, <1>3 DEF WatchInv

\* The ledger's ages stay within its bounds.
LEMMA AgesAre ==
    ASSUME WatchTypeOK
    PROVE  /\ \A jobs \in SUBSET Jobs : Annotated(jobs) \in [Jobs -> 0 .. Unseen]
           /\ [j \in Jobs |-> IF seen[j] = Unseen THEN Unseen ELSE Older(seen[j])]
                 \in [Jobs -> 0 .. Unseen]
<1>1. Unseen \in 0 .. Unseen /\ 0 \in 0 .. Unseen /\ Patience \in Nat
  BY WatchAssumption DEF Unseen
<1>2. \A a \in 0 .. Unseen : Older(a) \in 0 .. Unseen
  BY <1>1 DEF Older, Unseen
<1> QED
  BY <1>1, <1>2 DEF WatchTypeOK, Annotated

\* A step of a request that goes on.
LEMMA GoesOn ==
    ASSUME WatchInv, NEW w \in Watchers, NEW to, at' = [at EXCEPT ![w] = to],
           to \in {"jobs", "state", "annotate", "recent", "restart", "cancel"},
           at[w] # "idle" \/ w \in Shows,
           to = "cancel" => target[w][1] = "cancel",
           to \in {"recent", "restart"} => target[w][1] = "restart",
           UNCHANGED <<job, enabled, ready, registered, target>>,
           seen' \in [Jobs -> 0 .. Unseen],
           sReady' \in [Watchers -> BOOLEAN], sJobs' \in [Watchers -> SUBSET Jobs],
           sState' \in [Watchers -> {"cleared", "printing", "stalled"}]
    PROVE  WatchInv'
<1>t. WatchTypeOK /\ Told
  BY DEF WatchInv
<1>1. WatchTypeOK'
  BY <1>t DEF WatchTypeOK
<1>2. Told'
  BY <1>t, WatchAssumption DEF Told, WatchTypeOK, Watchers
<1> QED
  BY <1>1, <1>2 DEF WatchInv

LEMMA WatchStart == WatchInit => WatchInv
<1> SUFFICES ASSUME WatchInit PROVE WatchInv
  OBVIOUS
<1>1. Unseen \in 0 .. Unseen
  BY WatchAssumption DEF Unseen
<1> QED
  BY <1>1 DEF WatchInit, WatchInv, WatchTypeOK, Told, JobStates, Watchers

LEMMA WatchStep ==
    ASSUME WatchInv, [WatchNext]_watchVars
    PROVE  WatchInv'
<1> USE DEF cups, local, Hub
<1>t. WatchTypeOK /\ Told
  BY DEF WatchInv
<1>1. ASSUME NEW w \in Watchers, Snapshot(w) PROVE WatchInv'
  <2>1. CASE ReadJobs(w)
    <3>1. Pending \in SUBSET Jobs
      BY DEF Pending
    <3> QED
      BY <1>t, <2>1, <3>1, GoesOn DEF ReadJobs, WatchTypeOK
  <2>2. CASE JobsUnreadable(w)
    BY <1>t, <2>2, LeaveKeeps DEF JobsUnreadable, WatchTypeOK
  <2>3. CASE ReadState(w)
    <3>1. \A state, jobs : QueueState(state, jobs) \in {"cleared", "printing", "stalled"}
      BY DEF QueueState
    <3>2. PICK q \in {"cleared", "printing", "stalled"} : sState' = [sState EXCEPT ![w] = q]
      BY <2>3, <3>1 DEF ReadState
    <3>3. sState' \in [Watchers -> {"cleared", "printing", "stalled"}]
      BY <1>t, <3>2 DEF WatchTypeOK
    <3> QED
      BY <1>t, <2>3, <3>3, GoesOn DEF ReadState, WatchTypeOK
  <2>4. CASE SkipState(w)
    BY <1>t, <2>4, GoesOn DEF SkipState, WatchTypeOK
  <2> QED
    BY <1>1, <2>1, <2>2, <2>3, <2>4 DEF Snapshot
<1>2. ASSUME NEW w \in Shows, Status(w) PROVE WatchInv'
  BY <1>t, <1>2, GoesOn DEF Status, WatchTypeOK, Watchers
<1>3. ASSUME NEW w \in Watchers, at[w] = "annotate", seen' = Annotated(sJobs[w]), Leave(w),
             UNCHANGED cups
      PROVE  WatchInv'
  BY <1>t, <1>3, AgesAre, LeaveKeeps DEF WatchTypeOK
<1>4. ASSUME NEW w \in Acts, NEW j \in Jobs, AskCancel(w, j) \/ AskRestart(w, j)
      PROVE  WatchInv'
  <2>1. PICK deed \in {"restart", "cancel"} : Ask(w, deed, j)
    BY <1>4 DEF AskCancel, AskRestart
  <2>2. /\ at' = [at EXCEPT ![w] = "jobs"] /\ target' = [target EXCEPT ![w] = <<deed, j>>]
        /\ <<deed, j>> \in {"restart", "cancel"} \X Jobs
        /\ UNCHANGED <<cups, seen, sReady, sJobs, sState>>
    BY <2>1 DEF Ask
  <2>3. WatchTypeOK'
    BY <1>t, <2>2 DEF WatchTypeOK
  <2>4. Told'
    BY <1>t, <2>2 DEF Told, WatchTypeOK, Watchers
  <2> QED
    BY <2>3, <2>4 DEF WatchInv
<1>5. ASSUME NEW w \in Acts, at[w] = "annotate", Find(w) \/ FindLater(w) PROVE WatchInv'
  <2>1. w \in Watchers /\ target[w] \in {"restart", "cancel"} \X Jobs
    BY <1>t, <1>5 DEF Told, Watchers
  <2>2. target[w][1] \in {"restart", "cancel"}
    BY <2>1
  <2>3. PICK to \in {"recent", "restart", "cancel"} :
           /\ Looked(w, to)
           /\ to = "cancel" => target[w][1] = "cancel"
           /\ to \in {"recent", "restart"} => target[w][1] = "restart"
    BY <1>5, <2>2 DEF Find, FindLater
  <2> QED
    BY <1>t, <2>1, <2>3, AgesAre, GoesOn DEF Looked, WatchTypeOK
<1>6. ASSUME NEW w \in Acts, NotFound(w) PROVE WatchInv'
  BY <1>3, <1>6 DEF NotFound, Watchers
<1>7. ASSUME NEW w \in Acts, ReadRecent(w) PROVE WatchInv'
  <2>0. w \in Watchers
    BY DEF Watchers
  <2>1. CASE Leave(w)
    BY <1>t, <1>7, <2>0, <2>1, LeaveKeeps DEF ReadRecent, WatchTypeOK
  <2>2. CASE at' = [at EXCEPT ![w] = "restart"] /\ UNCHANGED <<target, sReady, sJobs, sState>>
    <3>1. target[w][1] = "restart"
      BY <1>t, <1>7 DEF ReadRecent, Told
    <3> QED
      BY <1>t, <1>7, <2>0, <2>2, <3>1, GoesOn DEF ReadRecent, WatchTypeOK
  <2> QED
    BY <1>7, <2>1, <2>2 DEF ReadRecent
<1>8. ASSUME NEW w \in Acts, Restart(w) \/ Cancel(w) PROVE WatchInv'
  <2>1. w \in Watchers /\ Leave(w) /\ UNCHANGED <<enabled, ready, registered, seen>>
    BY <1>8 DEF Restart, Cancel, Watchers
  <2>2. job' \in [Jobs -> JobStates]
    BY <1>t, <1>8 DEF Restart, Cancel, WatchTypeOK, JobStates
  <2> QED
    BY <1>t, <2>1, <2>2, LeaveKeeps DEF WatchTypeOK
<1>9. CASE Queue
  <2>1. /\ job' \in [Jobs -> JobStates] /\ enabled' \in BOOLEAN /\ ready' \in BOOLEAN
        /\ registered' \in BOOLEAN
    <3>1. ASSUME NEW j \in Jobs, Submit(j) \/ Start(j) \/ Finish(j) \/ Stall(j) \/ Drop(j)
          PROVE  /\ job' \in [Jobs -> JobStates] /\ enabled' \in BOOLEAN
                 /\ ready' \in BOOLEAN /\ registered' \in BOOLEAN
      BY <1>t, <3>1 DEF Submit, Start, Finish, Stall, Drop, WatchTypeOK, JobStates
    <3>2. CASE Enable \/ Replug
      BY <1>t, <3>2 DEF Enable, Replug, WatchTypeOK
    <3>3. CASE Register
      BY <1>t, <3>3 DEF Register, WatchTypeOK, JobStates
    <3> QED
      BY <1>9, <3>1, <3>2, <3>3 DEF Queue
  <2>2. UNCHANGED <<seen, at, target, sReady, sJobs, sState>>
    BY <1>9 DEF Queue, Submit, Start, Finish, Stall, Drop, Enable, Replug, Register
  <2> QED
    BY <1>t, <2>1, <2>2 DEF WatchInv, WatchTypeOK, Told
<1>10. CASE Tick
  BY <1>t, <1>10, AgesAre DEF Tick, WatchInv, WatchTypeOK, Told
<1>11. CASE UNCHANGED watchVars
  BY <1>t, <1>11 DEF watchVars, WatchInv, WatchTypeOK, Told
<1>12. ASSUME NEW w \in Shows, Show(w) PROVE WatchInv'
  BY <1>3, <1>12 DEF Show, Watchers
<1> QED
  BY <1>1, <1>2, <1>4, <1>5, <1>6, <1>7, <1>8, <1>9, <1>10, <1>11, <1>12 DEF WatchNext

\* Every variable of the watch keeps its type, and a request is only about to cancel
\* a job when it was asked to cancel that one, and to restart it when it was asked
\* to restart it, whatever CUPS, the printer and staff do between its steps.
THEOREM WatchTypes == WatchSpec => [](WatchTypeOK /\ Told)
<1>1. WatchInv /\ [WatchNext]_watchVars => WatchInv'
  BY WatchStep
<1>2. WatchInv => WatchTypeOK /\ Told
  BY DEF WatchInv
<1> QED
  BY <1>1, <1>2, WatchStart, PTL DEF WatchSpec

-----------------------------------------------------------------------------
(***************************************************************************)
(* The station: its parts next to each other.                              *)
(***************************************************************************)
\* What a part allows holds of it in the station, where it moves alone.
LEMMA StationIsWatch == StationSpec => WatchSpec
<1>1. StationInit => WatchInit
  BY DEF StationInit
<1>2. [StationNext]_stationVars => [WatchNext]_watchVars
  BY DEF StationNext, stationVars
<1> QED
  BY <1>1, <1>2, PTL DEF StationSpec, WatchSpec

LEMMA StationIsSelect == StationSpec => SelectSpec
<1>1. StationInit => SelectInit
  BY DEF StationInit
<1>2. [StationNext]_stationVars => [SelectNext]_selectVars
  BY DEF StationNext, stationVars
<1> QED
  BY <1>1, <1>2, PTL DEF StationSpec, SelectSpec

LEMMA StationIsLine == StationSpec => LineSpec
<1>1. StationInit => LineInit
  BY DEF StationInit
<1>2. [StationNext]_stationVars => [LineNext]_lineVars
  BY DEF StationNext, stationVars
<1> QED
  BY <1>1, <1>2, PTL DEF StationSpec, LineSpec

LEMMA StationIsScanner == StationSpec => ScannerSpec
<1>1. StationInit => ScannerInit
  BY DEF StationInit
<1>2. [StationNext]_stationVars => [ScannerNext]_scannerVars
  BY DEF StationNext, stationVars
<1> QED
  BY <1>1, <1>2, PTL DEF StationSpec, ScannerSpec

LEMMA StationIsRaster == StationSpec => RasterSpec
<1>1. StationInit => RasterInit
  BY DEF StationInit
<1>2. [StationNext]_stationVars => [RasterNext]_rasterVars
  BY DEF StationNext, stationVars
<1> QED
  BY <1>1, <1>2, PTL DEF StationSpec, RasterSpec

LEMMA StationIsFrame == StationSpec => FrameSpec
<1>1. StationInit => FrameInit
  BY DEF StationInit
<1>2. [StationNext]_stationVars => [FrameNext]_frameVars
  BY DEF StationNext, stationVars
<1> QED
  BY <1>1, <1>2, PTL DEF StationSpec, FrameSpec

LEMMA StationIsLog == StationSpec => LogSpec
<1>1. StationInit => LogInit
  BY DEF StationInit
<1>2. [StationNext]_stationVars => [LogNext]_logVars
  BY DEF StationNext, stationVars
<1> QED
  BY <1>1, <1>2, PTL DEF StationSpec, LogSpec

LEMMA StationIsNet == StationSpec => NetSpec
<1>1. StationInit => NetInit
  BY DEF StationInit
<1>2. [StationNext]_stationVars => [NetNext]_netVars
  BY DEF StationNext, stationVars
<1> QED
  BY <1>1, <1>2, PTL DEF StationSpec, NetSpec

\* Whatever a part of the hub does, its values are those the code can hold: among
\* them that Status asks about configured names only, that the ledger holds ages up
\* to the patience, and that no scan is handed out that was not typed.
THEOREM StationTypes == StationSpec => []StationTypeOK
<1>1. StationInit => part \in Parts
  BY DEF StationInit
<1>2. part \in Parts /\ [StationNext]_stationVars => (part \in Parts)'
  BY DEF StationNext, stationVars
<1>3. (part \in Parts /\ WatchTypeOK /\ SelectTypeOK /\ LineTypeOK /\ ScannerTypeOK
       /\ RasterTypeOK /\ FrameTypeOK /\ LogTypeOK /\ NetTypeOK) => StationTypeOK
  BY DEF StationTypeOK
<1> QED
  BY <1>1, <1>2, <1>3, StationIsWatch, StationIsSelect, StationIsLine, StationIsScanner,
     StationIsRaster, StationIsFrame, StationIsLog, StationIsNet, WatchTypes, SelectTypes,
     LineTypes, ScannerTypes, RasterTypes, FrameTypes, LogTypes, NetTypes, PTL DEF StationSpec
=============================================================================
