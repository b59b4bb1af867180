---------------------------- MODULE RasterProofs ----------------------------
(***************************************************************************)
(* That the backend counts the labels of every job, of any number of labels *)
(* of any size: proofs about RasterJob.                                     *)
(***************************************************************************)
EXTENDS RasterJob, SequenceTheorems, FiniteSetTheorems, WellFoundedInduction, TLAPS

Byte == 0 .. 255

-----------------------------------------------------------------------------
(***************************************************************************)
(* Induction over the natural numbers, for sets: the least element that is  *)
(* not in the set would have a predecessor that is.                         *)
(***************************************************************************)
LEMMA LeastNat ==
    ASSUME NEW T, T \subseteq Nat, T # {}
    PROVE  \E x \in T : \A y \in T : x <= y
<1>1. PICK x \in T : \A y \in T : ~ (<<y, x>> \in OpToRel(<, Nat))
  BY NatLessThanWellFounded, WFMin
<1>2. \A y \in T : ~ (y < x)
  BY <1>1 DEF OpToRel
<1>3. \A y \in T : x <= y
  <2>1. x \in Nat /\ \A y \in T : y \in Nat
    OBVIOUS
  <2> QED
    BY <1>2, <2>1
<1> QED
  BY <1>3

LEMMA SetInduction ==
    ASSUME NEW S, 0 \in S, \A n \in Nat : n \in S => n + 1 \in S
    PROVE  Nat \subseteq S
<1> DEFINE T == Nat \ S
<1> SUFFICES ASSUME T # {} PROVE FALSE
  OBVIOUS
<1>1. PICK x \in T : \A y \in T : x <= y
  BY LeastNat
<1>2. x \in Nat /\ x # 0 /\ x \notin S
  OBVIOUS
<1>3. x - 1 \in Nat /\ (x - 1) + 1 = x /\ ~ (x <= x - 1)
  BY <1>2
<1>4. x - 1 \in S
  BY <1>1, <1>3
<1> QED
  BY <1>2, <1>3, <1>4

\* From the end to the beginning of a stream.
LEMMA DownInduction ==
    ASSUME NEW N \in Nat, NEW S, \A i \in 1 .. N : (i + 1 .. N) \subseteq S => i \in S
    PROVE  1 .. N \subseteq S
<1> DEFINE T == {N - i : i \in (1 .. N) \ S}
<1> SUFFICES ASSUME T # {} PROVE FALSE
  OBVIOUS
<1>1. T \subseteq Nat
  OBVIOUS
<1>2. PICK x \in T : \A y \in T : x <= y
  BY <1>1, LeastNat
<1>3. PICK i \in (1 .. N) \ S : x = N - i
  OBVIOUS
<1>4. ASSUME NEW j \in i + 1 .. N, j \notin S PROVE FALSE
  <2>1. j \in (1 .. N) \ S /\ ~ (x <= N - j)
    BY <1>3, <1>4
  <2>2. N - j \in T
    BY <2>1
  <2> QED
    BY <1>2, <2>1, <2>2
<1> QED
  BY <1>3, <1>4

(***************************************************************************)
(* A function that is defined by what it is at places of a lower rank.      *)
(***************************************************************************)
Recursive(D, N, rank, V, step) ==
    /\ N \in Nat /\ rank \in [D -> 0 .. N] /\ V # {} /\ step \in [D -> [[D -> V] -> V]]
    /\ \A i \in D : \A f, g \in [D -> V] :
          (\A j \in D : rank[j] < rank[i] => f[j] = g[j]) => step[i][f] = step[i][g]

LEMMA Recursion ==
    ASSUME NEW D, NEW N, NEW rank, NEW V, NEW step, Recursive(D, N, rank, V, step)
    PROVE  \E f \in [D -> V] : \A i \in D : f[i] = step[i][f]
<1>0. /\ N \in Nat /\ rank \in [D -> 0 .. N] /\ V # {} /\ step \in [D -> [[D -> V] -> V]]
      /\ \A i \in D : rank[i] \in Nat /\ rank[i] < N + 1
  <2>1. N \in Nat /\ rank \in [D -> 0 .. N] /\ V # {} /\ step \in [D -> [[D -> V] -> V]]
    BY DEF Recursive
  <2>2. \A i \in D : rank[i] \in 0 .. N
    BY <2>1
  <2>3. \A x \in 0 .. N : x \in Nat /\ x < N + 1
    BY <2>1
  <2> QED
    BY <2>1, <2>2, <2>3
<1>v. PICK v \in V : TRUE
  BY <1>0
<1> DEFINE Upto(f, k) == \A i \in D : rank[i] < k => f[i] = step[i][f]
           S == {k \in Nat : \E f \in [D -> V] : Upto(f, k)}
<1>1. 0 \in S
  <2>1. [i \in D |-> v] \in [D -> V]
    BY <1>v
  <2>2. \A i \in D : ~ (rank[i] < 0)
    BY <1>0
  <2> QED
    BY <2>1, <2>2
<1>2. ASSUME NEW k \in Nat, k \in S PROVE k + 1 \in S
  <2>1. PICK f \in [D -> V] : Upto(f, k)
    BY <1>2
  <2> DEFINE g == [i \in D |-> IF rank[i] = k THEN step[i][f] ELSE f[i]]
  <2>2. g \in [D -> V]
    BY <1>0
  <2>3. \A j \in D : rank[j] < k => g[j] = f[j]
    OBVIOUS
  <2>4. \A i \in D : rank[i] = k => g[i] = step[i][f]
    OBVIOUS
  <2> HIDE DEF g
  <2>5. ASSUME NEW i \in D, rank[i] < k + 1 PROVE g[i] = step[i][g]
    <3>1. rank[i] \in Nat /\ \A j \in D : rank[j] \in Nat
      BY <1>0
    <3>2. \A j \in D : rank[j] < rank[i] => g[j] = f[j]
      BY <2>3, <2>5, <3>1
    <3>3. step[i][g] = step[i][f]
      BY <2>2, <3>2 DEF Recursive
    <3>4. CASE rank[i] = k
      BY <2>4, <3>3, <3>4
    <3>5. CASE rank[i] < k
      BY <2>1, <2>3, <3>3, <3>5
    <3>6. rank[i] = k \/ rank[i] < k
      <4>1. PICK m \in Nat : m = rank[i]
        BY <3>1
      <4>2. m < k + 1
        BY <2>5, <4>1
      <4>3. m = k \/ m < k
        BY <4>2
      <4> QED
        BY <4>1, <4>3
    <3> QED
      BY <3>4, <3>5, <3>6
  <2> QED
    BY <2>2, <2>5
<1>3. N + 1 \in S
  <2> HIDE DEF S
  <2> QED
    BY <1>0, <1>1, <1>2, SetInduction
<1>4. PICK f \in [D -> V] : Upto(f, N + 1)
  BY <1>3
<1> QED
  BY <1>0, <1>4

-----------------------------------------------------------------------------
(***************************************************************************)
(* The walk over a stream.                                                 *)
(***************************************************************************)
\* What a command's length says of the bytes it was read from.
LEMMA LengthIs ==
    ASSUME NEW s \in Seq(Byte), NEW i \in 1 .. Len(s)
    PROVE  /\ CommandLength(s, i) \in Nat
           /\ Follows(s, i) => i + CommandLength(s, i) \in i + 1 .. Len(s) + 1
<1>1. Len(s) \in Nat /\ i \in Nat /\ \A j \in DOMAIN s : s[j] \in Byte
  OBVIOUS
<1>2. \A j : ByteAt(s, j) \in Nat
  <2>0. Byte \subseteq Nat
    BY DEF Byte
  <2>1. \A j \in DOMAIN s : s[j] \in Nat
    BY <1>1, <2>0
  <2> QED
    BY <2>1 DEF ByteAt
<1>3. \A x : EscLength(x) \in Nat
  BY DEF EscLength
<1>4. CommandLength(s, i) \in Nat
  <2>1. PICK a, b \in Nat : a = ByteAt(s, i + 1) /\ b = ByteAt(s, i + 2)
    BY <1>2
  <2>2. 3 + b \in Nat /\ 3 + a + 256 * b \in Nat
    OBVIOUS
  <2>3. 3 + ByteAt(s, i + 2) \in Nat /\ 3 + ByteAt(s, i + 1) + 256 * ByteAt(s, i + 2) \in Nat
    BY <2>1, <2>2
  <2>4. 0 \in Nat /\ 1 \in Nat /\ 2 \in Nat /\ EscLength(ByteAt(s, i + 2)) \in Nat
    BY <1>3
  <2> QED
    BY <2>3, <2>4, Zenon DEF CommandLength
<1> QED
  BY <1>1, <1>4 DEF Follows

LEMMA WalkIs ==
    ASSUME NEW s \in Seq(Byte)
    PROVE  /\ Walk(s) \in [1 .. Len(s) + 1 -> SUBSET Nat]
           /\ \A i \in 1 .. Len(s) + 1 : Walk(s)[i] = StartsFrom(s, Walk(s), i)
<1> DEFINE D == 1 .. Len(s) + 1
           N == Len(s) + 1
           V == SUBSET Nat
           rank == [i \in D |-> N - i]
           step == [i \in D |-> [f \in [D -> V] |-> StartsFrom(s, f, i)]]
<1>0. Len(s) \in Nat /\ N \in Nat
  OBVIOUS
<1>1. ASSUME NEW i \in D, NEW f \in [D -> V] PROVE StartsFrom(s, f, i) \in V
  <2>1. CASE i <= Len(s) /\ Follows(s, i)
    <3>1. i \in 1 .. Len(s)
      BY <1>0, <2>1
    <3>2. i + CommandLength(s, i) \in D
      BY <1>0, <2>1, <3>1, LengthIs
    <3>3. f[i + CommandLength(s, i)] \in V
      BY <3>2
    <3> QED
      BY <1>0, <3>1, <3>3 DEF StartsFrom
  <2>2. CASE ~ (i <= Len(s) /\ Follows(s, i))
    BY <1>0, <2>2 DEF StartsFrom
  <2> QED
    BY <2>1, <2>2
<1>2. ASSUME NEW i \in D, NEW f \in [D -> V], NEW g \in [D -> V],
             \A j \in D : rank[j] < rank[i] => f[j] = g[j]
      PROVE  StartsFrom(s, f, i) = StartsFrom(s, g, i)
  <2>1. CASE i <= Len(s) /\ Follows(s, i)
    <3>1. i \in 1 .. Len(s)
      BY <1>0, <2>1
    <3>2. PICK j \in i + 1 .. Len(s) + 1 : j = i + CommandLength(s, i)
      BY <2>1, <3>1, LengthIs
    <3>3. j \in D /\ N - j < N - i
      BY <1>0, <3>2
    <3>4. f[j] = g[j]
      BY <1>2, <3>3
    <3> QED
      BY <3>2, <3>4 DEF StartsFrom
  <2>2. CASE ~ (i <= Len(s) /\ Follows(s, i))
    BY <1>0, <2>2 DEF StartsFrom
  <2> QED
    BY <2>1, <2>2
<1>3. rank \in [D -> 0 .. N]
  BY <1>0
<1>4. step \in [D -> [[D -> V] -> V]]
  BY <1>1
<1>5. Recursive(D, N, rank, V, step)
  <2>1. \A i \in D : \A f, g \in [D -> V] :
           (\A j \in D : rank[j] < rank[i] => f[j] = g[j]) => step[i][f] = step[i][g]
    BY <1>2
  <2>2. V # {}
    OBVIOUS
  <2> HIDE DEF D, N, V, rank, step
  <2> QED
    BY <1>0, <1>3, <1>4, <2>1, <2>2 DEF Recursive
<1>6. \A i \in D : \A f \in [D -> V] : step[i][f] = StartsFrom(s, f, i)
  OBVIOUS
<1>8. PICK f \in [D -> V] : \A i \in D : f[i] = step[i][f]
  <2> HIDE DEF D, N, V, rank, step
  <2> QED
    BY <1>5, Recursion
<1>9. f = [i \in 1 .. Len(s) + 1 |-> StartsFrom(s, f, i)]
  BY <1>6, <1>8
<1>10. Walk(s) = CHOOSE g : g = [i \in 1 .. Len(s) + 1 |-> StartsFrom(s, g, i)]
  BY Zenon DEF Walk
<1> DEFINE w == Walk(s)
<1>11. w = [i \in D |-> StartsFrom(s, w, i)]
  BY <1>9, <1>10, Zenon
<1>12. \A i \in D : w[i] = StartsFrom(s, w, i)
  <2> HIDE DEF w
  <2> QED
    BY <1>11
<1> HIDE DEF w
<1> DEFINE S == {i \in D : w[i] \subseteq Nat}
<1>13. ASSUME NEW i \in 1 .. N, (i + 1 .. N) \subseteq S PROVE i \in S
  <2>1. CASE i <= Len(s) /\ Follows(s, i)
    <3>1. i \in 1 .. Len(s)
      BY <1>0, <2>1
    <3>2. PICK j \in i + 1 .. N : j = i + CommandLength(s, i)
      BY <2>1, <3>1, LengthIs
    <3>3. w[i] = {i} \cup w[j]
      <4>1. w[i] = StartsFrom(s, w, i) /\ ~ (i > Len(s))
        BY <1>0, <1>12, <3>1
      <4> QED
        BY <2>1, <3>2, <4>1 DEF StartsFrom
    <3>4. w[j] \subseteq Nat
      BY <1>13, <3>2
    <3> QED
      BY <3>3, <3>4
  <2>2. CASE ~ (i <= Len(s) /\ Follows(s, i))
    <3>1. w[i] = StartsFrom(s, w, i)
      BY <1>12
    <3>2. w[i] = {} \/ w[i] = {0}
      BY <1>0, <2>2, <3>1 DEF StartsFrom
    <3> QED
      BY <3>2
  <2> QED
    BY <2>1, <2>2
<1>14. 1 .. N \subseteq S
  <2> HIDE DEF S, N
  <2> QED
    BY <1>0, <1>13, DownInduction
<1>15. w \in [D -> SUBSET Nat]
  <2>1. DOMAIN w = D
    BY <1>11
  <2>2. w = [i \in D |-> w[i]]
    BY <1>11
  <2> QED
    BY <1>14, <2>2
<1> QED
  BY <1>12, <1>15 DEF w
LEMMA WalkOn ==
    ASSUME NEW s \in Seq(Byte)
    PROVE  /\ Walk(s)[Len(s) + 1] = {}
           /\ \A i \in 1 .. Len(s) :
                 IF Follows(s, i) THEN Walk(s)[i] = {i} \cup Walk(s)[i + CommandLength(s, i)]
                 ELSE Walk(s)[i] = {0}
<1>0. Len(s) \in Nat
  OBVIOUS
<1>1. Walk(s)[Len(s) + 1] = StartsFrom(s, Walk(s), Len(s) + 1)
  BY <1>0, WalkIs
<1>2. Walk(s)[Len(s) + 1] = {}
  BY <1>0, <1>1 DEF StartsFrom
<1>3. ASSUME NEW i \in 1 .. Len(s)
      PROVE  IF Follows(s, i) THEN Walk(s)[i] = {i} \cup Walk(s)[i + CommandLength(s, i)]
             ELSE Walk(s)[i] = {0}
  <2>1. Walk(s)[i] = StartsFrom(s, Walk(s), i) /\ ~ (i > Len(s))
    BY <1>0, WalkIs
  <2> QED
    BY <2>1 DEF StartsFrom
<1> QED
  BY <1>2, <1>3

-----------------------------------------------------------------------------
(***************************************************************************)
(* What the parser looks at.                                               *)
(***************************************************************************)
Prints == {PagePrint, LastPagePrint}

PrintsFrom(s, i) == {j \in Walk(s)[i] : s[j] \in Prints}

Expands(s, j) == s[j] = ESC /\ s[j + 1] = 105 /\ s[j + 2] = 75

Marks(s, j) == /\ s[j] = ESC /\ s[j + 1] = 105 /\ s[j + 2] = 122
               /\ (s[j + 3] \div 2) % 4 = 3

Coloured(s, j) == s[j] = 119 \/ (Expands(s, j) /\ s[j + 3] % 2 = 1)

\* A command of a black job for the roll that is asked for.
Black(s, j, o) ==
    /\ Convertible(s, j) /\ ~ Coloured(s, j)
    /\ Marks(s, j) => ~ o.nocheck /\ s[j + 5] = 62

\* From i on there are k labels, and the last byte prints one.  If h is not 0, the
\* expanded mode was set, and if it is 2 the roll was asked for as well.
Coded(s, i, k, h, o) ==
    /\ Walk(s)[i] \subseteq i .. Len(s)
    /\ \A j \in Walk(s)[i] : Black(s, j, o)
    /\ i <= Len(s) => Len(s) \in Walk(s)[i] /\ s[Len(s)] \in Prints
    /\ Cardinality(PrintsFrom(s, i)) = k
    /\ h >= 1 => \E j \in Walk(s)[i] : Expands(s, j)
    /\ h >= 2 => o.nocheck \/ \E j \in Walk(s)[i] : Marks(s, j)

LEMMA CodedEnd ==
    ASSUME NEW s \in Seq(Byte), NEW o
    PROVE  Coded(s, Len(s) + 1, 0, 0, o)
<1>1. Walk(s)[Len(s) + 1] = {} /\ Len(s) \in Nat
  BY WalkOn
<1>2. PrintsFrom(s, Len(s) + 1) = {}
  BY <1>1 DEF PrintsFrom
<1>3. Cardinality(PrintsFrom(s, Len(s) + 1)) = 0
  BY <1>2, FS_EmptySet
<1>4. ~ (Len(s) + 1 <= Len(s)) /\ ~ (0 >= 1) /\ ~ (0 >= 2)
  BY <1>1
<1> QED
  BY <1>1, <1>3, <1>4 DEF Coded

\* What the command at i adds to h.
Adds(s, i, o, h, g) ==
    \/ g = h
    \/ g = 1 /\ Expands(s, i)
    \/ g = 2 /\ h = 1 /\ (o.nocheck \/ Marks(s, i))

\* Before a command that prints nothing.
LEMMA CodedMore ==
    ASSUME NEW s \in Seq(Byte), NEW o, NEW i \in 1 .. Len(s), NEW e,
           e = i + CommandLength(s, i), Black(s, i, o), s[i] \notin Prints,
           NEW k \in Nat \ {0}, NEW h \in 0 .. 2, Coded(s, e, k, h, o),
           NEW g \in 0 .. 2, Adds(s, i, o, h, g)
    PROVE  Coded(s, i, k, g, o)
<1>0. Len(s) \in Nat /\ i \in Nat
  OBVIOUS
<1>1. Follows(s, i)
  BY DEF Black, Convertible
<1>2. Walk(s)[i] = {i} \cup Walk(s)[e]
  BY <1>1, WalkOn
<1>3. e \in i + 1 .. Len(s) + 1
  BY <1>1, LengthIs
<1>4. Walk(s)[i] \subseteq i .. Len(s)
  <2>1. Walk(s)[e] \subseteq e .. Len(s)
    BY DEF Coded
  <2> QED
    BY <1>0, <1>2, <1>3, <2>1
<1>5. \A j \in Walk(s)[i] : Black(s, j, o)
  BY <1>2 DEF Coded
<1>6. PrintsFrom(s, i) = PrintsFrom(s, e)
  BY <1>2 DEF PrintsFrom
<1>7. Cardinality(PrintsFrom(s, i)) = k
  BY <1>6 DEF Coded
<1>8. e <= Len(s)
  <2>1. CASE e = Len(s) + 1
    <3>1. PrintsFrom(s, e) = {}
      BY <2>1, WalkOn DEF PrintsFrom
    <3> QED
      BY <1>6, <1>7, <3>1, FS_EmptySet
  <2> QED
    BY <1>0, <1>3, <2>1
<1>9. Len(s) \in Walk(s)[i] /\ s[Len(s)] \in Prints
  BY <1>2, <1>8 DEF Coded
<1>10. /\ g >= 1 => \E j \in Walk(s)[i] : Expands(s, j)
       /\ g >= 2 => o.nocheck \/ \E j \in Walk(s)[i] : Marks(s, j)
  <2>1. /\ h >= 1 => \E j \in Walk(s)[i] : Expands(s, j)
        /\ h >= 2 => o.nocheck \/ \E j \in Walk(s)[i] : Marks(s, j)
    BY <1>2 DEF Coded
  <2>2. i \in Walk(s)[i]
    BY <1>2
  <2> QED
    BY <2>1, <2>2 DEF Adds
<1> QED
  BY <1>4, <1>5, <1>7, <1>9, <1>10 DEF Coded

\* Before a print command.
LEMMA CodedPrint ==
    ASSUME NEW s \in Seq(Byte), NEW o, NEW i \in 1 .. Len(s), s[i] \in Prints,
           NEW k \in Nat, NEW h \in 0 .. 2, Coded(s, i + 1, k, h, o)
    PROVE  Coded(s, i, k + 1, h, o)
<1>0. Len(s) \in Nat /\ i \in Nat
  OBVIOUS
<1>1. CommandLength(s, i) = 1
  BY DEF CommandLength, Prints
<1>2. Follows(s, i)
  BY <1>0, <1>1 DEF Follows
<1>3. Walk(s)[i] = {i} \cup Walk(s)[i + 1]
  BY <1>1, <1>2, WalkOn
<1>4. Walk(s)[i + 1] \subseteq i + 1 .. Len(s)
  BY DEF Coded
<1>5. Walk(s)[i] \subseteq i .. Len(s)
  BY <1>0, <1>3, <1>4
<1>6. Black(s, i, o)
  BY <1>2 DEF Black, Convertible, Coloured, Expands, Marks, Prints, PagePrint, LastPagePrint, ESC
<1>7. \A j \in Walk(s)[i] : Black(s, j, o)
  BY <1>3, <1>6 DEF Coded
<1>8. PrintsFrom(s, i) = PrintsFrom(s, i + 1) \cup {i} /\ i \notin PrintsFrom(s, i + 1)
  BY <1>0, <1>3, <1>4 DEF PrintsFrom
<1>9. IsFiniteSet(PrintsFrom(s, i + 1))
  <2>1. PrintsFrom(s, i + 1) \in SUBSET (i + 1 .. Len(s))
    BY <1>4 DEF PrintsFrom
  <2>2. IsFiniteSet(i + 1 .. Len(s))
    BY <1>0, FS_Interval
  <2> QED
    BY <2>1, <2>2, FS_Subset
<1>10. Cardinality(PrintsFrom(s, i)) = k + 1
  <2>1. Cardinality(PrintsFrom(s, i + 1)) = k
    BY DEF Coded
  <2> QED
    BY <1>8, <1>9, <2>1, FS_AddElement
<1>11. Len(s) \in Walk(s)[i] /\ s[Len(s)] \in Prints
  <2>1. CASE i = Len(s)
    BY <1>3, <2>1
  <2>2. CASE i + 1 <= Len(s)
    BY <1>3, <2>2 DEF Coded
  <2> QED
    BY <1>0, <2>1, <2>2
<1>12. /\ h >= 1 => \E j \in Walk(s)[i] : Expands(s, j)
       /\ h >= 2 => o.nocheck \/ \E j \in Walk(s)[i] : Marks(s, j)
  BY <1>3 DEF Coded
<1> QED
  BY <1>5, <1>7, <1>10, <1>11, <1>12 DEF Coded
-----------------------------------------------------------------------------
(***************************************************************************)
(* Pieces of a stream.                                                     *)
(***************************************************************************)
\* The stream holds the bytes c at p.
At(s, p, c) ==
    /\ p \in Nat \ {0} /\ p + Len(c) <= Len(s) + 1
    /\ \A k \in 1 .. Len(c) : s[(p + k) - 1] = c[k]

LEMMA AtWhole ==
    ASSUME NEW s \in Seq(Byte)
    PROVE  At(s, 1, s) /\ 1 + Len(s) = Len(s) + 1
<1>1. Len(s) \in Nat /\ \A k \in 1 .. Len(s) : (1 + k) - 1 = k
  OBVIOUS
<1>2. \A k \in 1 .. Len(s) : s[(1 + k) - 1] = s[k]
  BY <1>1
<1> QED
  BY <1>1, <1>2 DEF At

\* One piece after the other.
Both(s, p, a, b) ==
    /\ At(s, p, a) /\ At(s, p + Len(a), b)
    /\ p + Len(a \o b) = (p + Len(a)) + Len(b)

LEMMA AtJoin ==
    ASSUME NEW s \in Seq(Byte), NEW a \in Seq(Byte), NEW b \in Seq(Byte), NEW p,
           At(s, p, a \o b)
    PROVE  Both(s, p, a, b)
<1>1. /\ Len(a \o b) = Len(a) + Len(b) /\ Len(a) \in Nat /\ Len(b) \in Nat /\ Len(s) \in Nat
      /\ \A k \in 1 .. Len(a) + Len(b) :
            (a \o b)[k] = IF k <= Len(a) THEN a[k] ELSE b[k - Len(a)]
  BY ConcatProperties
<1>2. /\ p \in Nat \ {0} /\ p + (Len(a) + Len(b)) <= Len(s) + 1
      /\ \A k \in 1 .. Len(a) + Len(b) : s[(p + k) - 1] = (a \o b)[k]
  BY <1>1 DEF At
<1>3. At(s, p, a)
  <2>1. \A k \in 1 .. Len(a) : k \in 1 .. Len(a) + Len(b) /\ k <= Len(a)
    BY <1>1
  <2>2. \A k \in 1 .. Len(a) : s[(p + k) - 1] = a[k]
    BY <1>1, <1>2, <2>1
  <2>3. p + Len(a) <= Len(s) + 1
    BY <1>1, <1>2
  <2> QED
    BY <1>2, <2>2, <2>3 DEF At
<1>4. At(s, p + Len(a), b)
  <2>1. ASSUME NEW k \in 1 .. Len(b) PROVE s[((p + Len(a)) + k) - 1] = b[k]
    <3>1. Len(a) + k \in 1 .. Len(a) + Len(b) /\ ~ (Len(a) + k <= Len(a))
          /\ (Len(a) + k) - Len(a) = k /\ (p + (Len(a) + k)) - 1 = ((p + Len(a)) + k) - 1
      BY <1>1, <1>2
    <3>2. s[(p + (Len(a) + k)) - 1] = (a \o b)[Len(a) + k]
      BY <1>2, <3>1
    <3>3. (a \o b)[Len(a) + k] = b[(Len(a) + k) - Len(a)]
      BY <1>1, <3>1
    <3> QED
      BY <3>1, <3>2, <3>3
  <2>2. p + Len(a) \in Nat \ {0} /\ (p + Len(a)) + Len(b) <= Len(s) + 1
    BY <1>1, <1>2
  <2> QED
    BY <2>1, <2>2 DEF At
<1>5. p + Len(a \o b) = (p + Len(a)) + Len(b)
  BY <1>1, <1>2
<1> QED
  BY <1>3, <1>4, <1>5 DEF Both

\* The bytes of a piece, counted from its beginning.
Holds(s, p, c) ==
    /\ p \in 1 .. Len(s) /\ p + Len(c) \in p + 1 .. Len(s) + 1
    /\ s[p] = c[1]
    /\ \A k \in 1 .. Len(c) - 1 : p + k \in 1 .. Len(s) /\ s[p + k] = c[k + 1]

LEMMA AtBytes ==
    ASSUME NEW s \in Seq(Byte), NEW c \in Seq(Byte), NEW p, At(s, p, c), Len(c) # 0
    PROVE  Holds(s, p, c)
<1>1. Len(c) \in Nat /\ Len(s) \in Nat /\ Len(c) >= 1 /\ p \in Nat /\ p >= 1
      /\ p + Len(c) <= Len(s) + 1
  BY DEF At
<1>2. (p + 1) - 1 = p /\ 1 \in 1 .. Len(c)
  BY <1>1
<1>3. s[p] = c[1]
  BY <1>2 DEF At
<1>4. ASSUME NEW k \in 1 .. Len(c) - 1 PROVE p + k \in 1 .. Len(s) /\ s[p + k] = c[k + 1]
  <2>1. k + 1 \in 1 .. Len(c) /\ (p + (k + 1)) - 1 = p + k /\ p + k \in 1 .. Len(s)
    BY <1>1
  <2> QED
    BY <2>1 DEF At
<1> QED
  BY <1>1, <1>3, <1>4 DEF Holds

-----------------------------------------------------------------------------
\* FlattenSeq, from the first sequence on.
Flattened(n, V, ss, fl) ==
    /\ fl \in [1 .. n -> Seq(V)] /\ FlattenSeq(ss) = fl[n] /\ fl[1] = ss[1]
    /\ \A i \in 2 .. n : fl[i] = fl[i - 1] \o ss[i]

LEMMA FlatIs ==
    ASSUME NEW n \in Nat \ {0}, NEW V, NEW ss \in [1 .. n -> Seq(V)]
    PROVE  \E fl : Flattened(n, V, ss, fl)
<1> DEFINE D == 1 .. n
           W == Seq(V)
           Step(f, i) == IF i = 1 THEN ss[i] ELSE f[i - 1] \o ss[i]
           rank == [i \in D |-> i]
           step == [i \in D |-> [f \in [D -> W] |-> Step(f, i)]]
<1>1. \A i \in D : i = 1 \/ (i - 1 \in D /\ i - 1 < i)
  OBVIOUS
<1>2. \A i \in D : \A f \in [D -> W] : Step(f, i) \in W
  <2>1. ASSUME NEW i \in D, NEW f \in [D -> W] PROVE Step(f, i) \in W
    <3>1. CASE i = 1
      BY <3>1
    <3>2. CASE i # 1
      <4>1. f[i - 1] \in W /\ ss[i] \in W
        BY <1>1, <3>2
      <4> QED
        BY <3>2, <4>1
    <3> QED
      BY <3>1, <3>2
  <2> QED
    BY <2>1
<1>3. Recursive(D, n, rank, W, step)
  <2>1. \A i \in D : \A f, g \in [D -> W] :
           (\A j \in D : rank[j] < rank[i] => f[j] = g[j]) => step[i][f] = step[i][g]
    <3>1. ASSUME NEW i \in D, NEW f \in [D -> W], NEW g \in [D -> W],
                 \A j \in D : j < i => f[j] = g[j]
          PROVE  Step(f, i) = Step(g, i)
      BY <1>1, <3>1
    <3>2. \A i \in D : rank[i] = i /\ \A f \in [D -> W] : step[i][f] = Step(f, i)
      OBVIOUS
    <3> HIDE DEF rank, step, Step, W, D
    <3>3. ASSUME NEW i \in D, NEW f \in [D -> W], NEW g \in [D -> W],
                 \A j \in D : rank[j] < rank[i] => f[j] = g[j]
          PROVE  step[i][f] = step[i][g]
      <4>1. \A j \in D : j < i => f[j] = g[j]
        BY <3>2, <3>3
      <4>2. Step(f, i) = Step(g, i)
        BY <3>1, <4>1
      <4> QED
        BY <3>2, <4>2
    <3> QED
      BY <3>3
  <2>2. W # {}
    <3>1. <<>> \in W
      OBVIOUS
    <3> QED
      BY <3>1
  <2>3. rank \in [D -> 0 .. n] /\ step \in [D -> [[D -> W] -> W]]
    BY <1>2
  <2> HIDE DEF rank, step, Step, W, D
  <2> QED
    BY <2>1, <2>2, <2>3 DEF Recursive
<1>4. PICK f \in [D -> W] : \A i \in D : f[i] = step[i][f]
  <2> HIDE DEF D, W, rank, step
  <2> QED
    BY <1>3, Recursion
<1>5. \A i \in D : f[i] = Step(f, i)
  BY <1>4
<1>6. f = [i \in 1 .. n |-> IF i = 1 THEN ss[i] ELSE f[i - 1] \o ss[i]]
  BY <1>5
<1>7. Len(ss) = n
  OBVIOUS
<1> DEFINE fl == CHOOSE g : g = [i \in 1 .. n |-> IF i = 1 THEN ss[i] ELSE g[i - 1] \o ss[i]]
<1>8. FlattenSeq(ss) = fl[n]
  <2>1. n # 0
    OBVIOUS
  <2> QED
    BY <1>7, <2>1, Zenon DEF FlattenSeq
<1>9. fl = [i \in 1 .. n |-> IF i = 1 THEN ss[i] ELSE fl[i - 1] \o ss[i]]
  BY <1>6, Zenon
<1> HIDE DEF fl
<1>10. fl[1] = ss[1] /\ \A i \in 2 .. n : fl[i] = fl[i - 1] \o ss[i]
  <2>1. \A i \in 1 .. n : fl[i] = IF i = 1 THEN ss[i] ELSE fl[i - 1] \o ss[i]
    BY <1>9
  <2>2. 1 \in 1 .. n /\ \A i \in 2 .. n : i \in 1 .. n /\ i # 1
    OBVIOUS
  <2> QED
    BY <2>1, <2>2
<1> DEFINE S == {i \in Nat : i + 1 \in 1 .. n => fl[i + 1] \in Seq(V)}
<1>11. 0 \in S
  BY <1>10
<1>12. ASSUME NEW i \in Nat, i \in S PROVE i + 1 \in S
  <2> SUFFICES ASSUME (i + 1) + 1 \in 1 .. n PROVE fl[(i + 1) + 1] \in Seq(V)
    OBVIOUS
  <2>1. i + 1 \in 1 .. n /\ (i + 1) + 1 \in 2 .. n /\ ((i + 1) + 1) - 1 = i + 1
    OBVIOUS
  <2>2. fl[(i + 1) + 1] = fl[i + 1] \o ss[(i + 1) + 1]
    BY <1>10, <2>1
  <2>3. fl[i + 1] \in Seq(V) /\ ss[(i + 1) + 1] \in Seq(V)
    BY <1>12, <2>1
  <2> QED
    BY <2>2, <2>3
<1>13. Nat \subseteq S
  <2> HIDE DEF S
  <2> QED
    BY <1>11, <1>12, SetInduction
<1>14. ASSUME NEW i \in 1 .. n PROVE fl[i] \in Seq(V)
  <2>1. i - 1 \in Nat /\ (i - 1) + 1 = i
    OBVIOUS
  <2>2. i - 1 \in S
    BY <1>13, <2>1
  <2> QED
    BY <2>1, <2>2
<1>15. fl \in [1 .. n -> Seq(V)]
  BY <1>9, <1>14
<1>16. Flattened(n, V, ss, fl)
  BY <1>8, <1>10, <1>15 DEF Flattened
<1> QED
  BY <1>16
LEMMA FlatType ==
    ASSUME NEW n \in Nat \ {0}, NEW V, NEW ss \in [1 .. n -> Seq(V)]
    PROVE  FlattenSeq(ss) \in Seq(V)
<1>1. PICK fl : Flattened(n, V, ss, fl)
  BY FlatIs
<1> QED
  BY <1>1 DEF Flattened

\* The sequences ss are in the stream one after the other, from p to e: the i-th one
\* from f[i - 1] to f[i].
Laid(s, n, ss, p, e, f) ==
    /\ f \in [0 .. n -> Nat] /\ f[0] = p /\ f[n] = e
    /\ \A i \in 1 .. n : f[i] = f[i - 1] + Len(ss[i]) /\ At(s, f[i - 1], ss[i])

LEMMA FlatAt ==
    ASSUME NEW s \in Seq(Byte), NEW n \in Nat \ {0}, NEW ss \in [1 .. n -> Seq(Byte)],
           NEW p, At(s, p, FlattenSeq(ss))
    PROVE  \E f : Laid(s, n, ss, p, p + Len(FlattenSeq(ss)), f)
<1>0. p \in Nat
  BY DEF At
<1>f. PICK fl : Flattened(n, Byte, ss, fl)
  BY FlatIs
<1>1. /\ fl \in [1 .. n -> Seq(Byte)] /\ FlattenSeq(ss) = fl[n] /\ fl[1] = ss[1]
      /\ \A i \in 2 .. n : fl[i] = fl[i - 1] \o ss[i]
  BY <1>f DEF Flattened
<1> DEFINE S == {i \in 1 .. n : At(s, p, fl[i])}
<1>2. ASSUME NEW i \in 1 .. n, (i + 1 .. n) \subseteq S PROVE i \in S
  <2>1. CASE i = n
    BY <1>1, <2>1
  <2>2. CASE i # n
    <3>1. i + 1 \in 2 .. n /\ i + 1 \in i + 1 .. n /\ (i + 1) - 1 = i
      BY <2>2
    <3>2. At(s, p, fl[i] \o ss[i + 1])
      BY <1>1, <1>2, <3>1
    <3>3. fl[i] \in Seq(Byte) /\ ss[i + 1] \in Seq(Byte)
      BY <1>1, <3>1
    <3>4. At(s, p, fl[i])
      BY <3>2, <3>3, AtJoin DEF Both
    <3> QED
      BY <3>4
  <2> QED
    BY <2>1, <2>2
<1>3. 1 .. n \subseteq S
  <2> HIDE DEF S
  <2> QED
    BY <1>2, DownInduction
<1> DEFINE f == [i \in 0 .. n |-> IF i = 0 THEN p ELSE p + Len(fl[i])]
<1>4. ASSUME NEW i \in 1 .. n PROVE Len(fl[i]) \in Nat
  <2>1. fl[i] \in Seq(Byte)
    BY <1>1
  <2> QED
    BY <2>1
<1>5. /\ f[0] = p /\ f \in [0 .. n -> Nat]
      /\ \A i \in 1 .. n : f[i] = p + Len(fl[i])
  BY <1>0, <1>4
<1> HIDE DEF f
<1>6. f[n] = p + Len(FlattenSeq(ss))
  BY <1>1, <1>5
<1>7. ASSUME NEW i \in 1 .. n PROVE f[i] = f[i - 1] + Len(ss[i]) /\ At(s, f[i - 1], ss[i])
  <2>1. CASE i = 1
    <3>1. f[i - 1] = p /\ f[i] = p + Len(ss[i])
      BY <1>1, <1>5, <2>1
    <3>2. At(s, p, ss[i])
      BY <1>1, <1>3, <2>1
    <3> QED
      BY <3>1, <3>2
  <2>2. CASE i # 1
    <3>1. i \in 2 .. n /\ i - 1 \in 1 .. n
      BY <2>2
    <3>2. fl[i] = fl[i - 1] \o ss[i] /\ fl[i - 1] \in Seq(Byte) /\ ss[i] \in Seq(Byte)
      BY <1>1, <3>1
    <3>3. At(s, p, fl[i - 1] \o ss[i])
      BY <1>3, <3>2
    <3>4. PICK a \in Seq(Byte), b \in Seq(Byte) : a = fl[i - 1] /\ b = ss[i]
      BY <3>2
    <3>5. At(s, p + Len(a), b) /\ p + Len(a \o b) = (p + Len(a)) + Len(b)
      <4>1. At(s, p, a \o b)
        BY <3>3, <3>4
      <4> QED
        BY <4>1, AtJoin DEF Both
    <3>6. f[i - 1] = p + Len(a) /\ f[i] = p + Len(a \o b)
      BY <1>5, <3>1, <3>2, <3>4
    <3> QED
      BY <3>4, <3>5, <3>6
  <2> QED
    BY <2>1, <2>2
<1>8. Laid(s, n, ss, p, p + Len(FlattenSeq(ss)), f)
  BY <1>5, <1>6, <1>7 DEF Laid
<1> QED
  BY <1>8

-----------------------------------------------------------------------------
(***************************************************************************)
(* The stream of EncodePages.                                              *)
(***************************************************************************)
\* The commands that start with ESC i.
EscCommand(s, i, x) ==
    /\ s[i] = ESC /\ s[i + 1] = 105 /\ s[i + 2] = x
    /\ i \in 1 .. Len(s) /\ i + 1 \in 1 .. Len(s) /\ i + 2 \in 1 .. Len(s)
    /\ i + EscLength(x) \in i + 1 .. Len(s) + 1

LEMMA EscCoded ==
    ASSUME NEW s \in Seq(Byte), NEW i, NEW x \in {97, 77, 65, 75, 100, 122},
           EscCommand(s, i, x)
    PROVE  CommandLength(s, i) = EscLength(x) /\ Convertible(s, i) /\ s[i] \notin Prints
<1>1. s[i] = 27 /\ s[i + 1] = 105 /\ s[i + 2] = x /\ Len(s) \in Nat /\ i \in Nat
  BY DEF EscCommand, ESC
<1>2. ByteAt(s, i + 1) = 105 /\ ByteAt(s, i + 2) = x
  BY <1>1 DEF ByteAt, EscCommand
<1>3. CommandLength(s, i) = EscLength(x)
  BY <1>1, <1>2 DEF CommandLength, ESC, PagePrint, LastPagePrint
<1>4. EscLength(x) # 0
  BY DEF EscLength
<1>5. Follows(s, i)
  BY <1>3, <1>4 DEF Follows, EscCommand
<1> QED
  BY <1>1, <1>3, <1>5 DEF Convertible, Prints, PagePrint, LastPagePrint
\* A row is a command.
LEMMA RowIs ==
    ASSUME NEW row \in Rows
    PROVE  /\ EncodeRow(row) \in Seq(Byte) /\ Len(EncodeRow(row)) = 3 + RowBytes
           /\ EncodeRow(row)[1] = 103 /\ EncodeRow(row)[2] = 0 /\ EncodeRow(row)[3] = RowBytes
           /\ RowBytes \in 1 .. 255
<1>1. RowBytes \in Nat /\ RowBytes \in 1 .. 255 /\ RowData \subseteq Byte
  <2>1. RowBytes \in 1 .. 255 /\ RowData \subseteq 0 .. 255
    BY RasterAssumption
  <2> QED
    BY <2>1 DEF Byte
<1>2. row \in [1 .. RowBytes -> Byte]
  BY <1>1 DEF Rows
<1>3. row \in Seq(Byte) /\ Len(row) = RowBytes
  BY <1>1, <1>2, IsASeq
<1> DEFINE g == <<103, 0, RowBytes>>
<1>4. g \in Seq(Byte) /\ Len(g) = 3 /\ g[1] = 103 /\ g[2] = 0 /\ g[3] = RowBytes
  <2>1. 103 \in Byte /\ 0 \in Byte /\ RowBytes \in Byte
    BY <1>1 DEF Byte
  <2> QED
    BY <2>1
<1>5. EncodeRow(row) = g \o row
  BY DEF EncodeRow
<1> HIDE DEF g
<1>6. /\ g \o row \in Seq(Byte) /\ Len(g \o row) = Len(g) + Len(row)
      /\ \A k \in 1 .. Len(g) + Len(row) :
            (g \o row)[k] = IF k <= Len(g) THEN g[k] ELSE row[k - Len(g)]
  <2>1. g \in Seq(Byte) /\ row \in Seq(Byte)
    BY <1>3, <1>4
  <2> QED
    BY <2>1, ConcatProperties
<1>7. \A k \in 1 .. 3 : (g \o row)[k] = g[k]
  BY <1>1, <1>3, <1>4, <1>6
<1> QED
  BY <1>1, <1>3, <1>4, <1>5, <1>6, <1>7

LEMMA RowCoded ==
    ASSUME NEW s \in Seq(Byte), NEW o, NEW row \in Rows, NEW p, NEW e,
           At(s, p, EncodeRow(row)), e = p + Len(EncodeRow(row)),
           NEW k \in Nat \ {0}, NEW h \in 0 .. 2, Coded(s, e, k, h, o)
    PROVE  Coded(s, p, k, h, o)
<1> DEFINE c == EncodeRow(row)
<1>1. /\ c \in Seq(Byte) /\ Len(c) = 3 + RowBytes /\ Len(c) # 0
      /\ c[1] = 103 /\ c[2] = 0 /\ c[3] = RowBytes /\ RowBytes \in 1 .. 255
  <2>1. /\ c \in Seq(Byte) /\ Len(c) = 3 + RowBytes
        /\ c[1] = 103 /\ c[2] = 0 /\ c[3] = RowBytes /\ RowBytes \in 1 .. 255
    BY RowIs
  <2>2. 3 + RowBytes # 0
    BY <2>1
  <2> QED
    BY <2>1, <2>2
<1>2. At(s, p, c)
  OBVIOUS
<1> HIDE DEF c
<1>3. /\ p \in 1 .. Len(s) /\ p + Len(c) \in p + 1 .. Len(s) + 1
      /\ s[p] = c[1]
      /\ \A j \in 1 .. Len(c) - 1 : p + j \in 1 .. Len(s) /\ s[p + j] = c[j + 1]
  <2>1. Holds(s, p, c)
    BY <1>1, <1>2, AtBytes
  <2> QED
    BY <2>1 DEF Holds
<1>4. s[p] = 103 /\ s[p + 1] = 0 /\ s[p + 2] = RowBytes /\ p + 2 \in 1 .. Len(s)
  <2>1. 1 \in 1 .. Len(c) - 1 /\ 2 \in 1 .. Len(c) - 1 /\ 1 + 1 = 2 /\ 2 + 1 = 3
    BY <1>1
  <2>2. s[p + 1] = c[1 + 1] /\ s[p + 2] = c[2 + 1] /\ p + 2 \in 1 .. Len(s)
    BY <1>3, <2>1
  <2> QED
    BY <1>1, <1>3, <2>1, <2>2
<1>5. ByteAt(s, p + 2) = RowBytes
  BY <1>4 DEF ByteAt
<1>6. CommandLength(s, p) = 3 + RowBytes
  BY <1>4, <1>5 DEF CommandLength, PagePrint, LastPagePrint
<1>7. Follows(s, p)
  BY <1>1, <1>3, <1>6 DEF Follows
<1>8. Black(s, p, o) /\ s[p] \notin Prints
  BY <1>4, <1>7 DEF Black, Convertible, Coloured, Marks, Expands, Prints, PagePrint,
                   LastPagePrint, ESC
<1>9. e = p + CommandLength(s, p)
  BY <1>1, <1>6 DEF c
<1>10. Adds(s, p, o, h, h)
  BY DEF Adds
<1> QED
  BY <1>3, <1>8, <1>9, <1>10, CodedMore

RowsOf(image) == [y \in DOMAIN image |-> EncodeRow(image[y])]

LEMMA RowsAre ==
    ASSUME NEW n \in Nat \ {0}, NEW image \in [1 .. n -> Rows]
    PROVE  /\ RowsOf(image) \in [1 .. n -> Seq(Byte)]
           /\ \A y \in 1 .. n : RowsOf(image)[y] = EncodeRow(image[y]) /\ image[y] \in Rows
<1>1. \A y \in 1 .. n : image[y] \in Rows /\ EncodeRow(image[y]) \in Seq(Byte)
  BY RowIs
<1> QED
  BY <1>1 DEF RowsOf

LEMMA RowsCoded ==
    ASSUME NEW s \in Seq(Byte), NEW o, NEW n \in Nat \ {0}, NEW image \in [1 .. n -> Rows],
           NEW p, NEW e, At(s, p, FlattenSeq(RowsOf(image))),
           e = p + Len(FlattenSeq(RowsOf(image))),
           NEW k \in Nat \ {0}, NEW h \in 0 .. 2, Coded(s, e, k, h, o)
    PROVE  Coded(s, p, k, h, o)
<1>1. /\ RowsOf(image) \in [1 .. n -> Seq(Byte)]
      /\ \A y \in 1 .. n : RowsOf(image)[y] = EncodeRow(image[y]) /\ image[y] \in Rows
  BY RowsAre
<1>2. PICK f : Laid(s, n, RowsOf(image), p, e, f)
  BY <1>1, FlatAt
<1>3. /\ f \in [0 .. n -> Nat] /\ f[0] = p /\ f[n] = e
      /\ \A y \in 1 .. n : /\ f[y] = f[y - 1] + Len(EncodeRow(image[y]))
                           /\ At(s, f[y - 1], EncodeRow(image[y]))
  BY <1>1, <1>2 DEF Laid
<1> DEFINE S == {y \in 1 .. n : Coded(s, f[y - 1], k, h, o)}
<1>4. ASSUME NEW y \in 1 .. n, (y + 1 .. n) \subseteq S PROVE y \in S
  <2>1. Coded(s, f[y], k, h, o)
    <3>1. CASE y = n
      BY <1>3, <3>1
    <3>2. CASE y # n
      <4>1. y + 1 \in y + 1 .. n /\ (y + 1) - 1 = y
        BY <3>2
      <4> QED
        BY <1>4, <4>1
    <3> QED
      BY <3>1, <3>2
  <2>2. PICK q : q = f[y - 1]
    OBVIOUS
  <2>3. At(s, q, EncodeRow(image[y])) /\ f[y] = q + Len(EncodeRow(image[y])) /\ image[y] \in Rows
    BY <1>1, <1>3, <2>2
  <2>4. Coded(s, q, k, h, o)
    BY <2>1, <2>3, RowCoded
  <2> QED
    BY <2>2, <2>4
<1>5. 1 .. n \subseteq S
  <2> HIDE DEF S
  <2> QED
    BY <1>4, DownInduction
<1>6. 1 \in S /\ 1 - 1 = 0
  BY <1>5
<1> QED
  BY <1>3, <1>6
\* The commands before the rows of a page.
Options == [cut : BOOLEAN, nocheck : BOOLEAN]

Info(rows, nocheck, first) ==
    <<ESC, 105, 122, IF nocheck THEN 192 ELSE 206, 10, 62, 0,
      rows % 256, rows \div 256, 0, 0, IF first THEN 0 ELSE 1, 0>>

Margin == <<ESC, 105, 100, 35, 0>>

PrintOf(last) == <<IF last THEN LastPagePrint ELSE PagePrint>>

LEMMA HeaderTypes ==
    /\ \A h \in Heights, b, c \in BOOLEAN : Info(h, b, c) \in Seq(Byte)
    /\ Margin \in Seq(Byte)
    /\ \A o \in Options : EncodeCut(o) \in Seq(Byte)
    /\ \A b \in BOOLEAN : PrintOf(b) \in Seq(Byte)
<1>1. \A x \in {0, 1, 8, 10, 12, 26, 27, 35, 62, 64, 65, 75, 77, 100, 105, 122, 192, 206} :
         x \in Byte
  BY DEF Byte
<1>2. ASSUME NEW h \in Heights PROVE h % 256 \in Byte /\ h \div 256 \in Byte
  <2>1. h \in Nat /\ h \div 256 < 256
    BY RasterAssumption
  <2>2. h % 256 \in 0 .. 255 /\ h \div 256 \in Nat
    BY <2>1
  <2> QED
    BY <2>1, <2>2 DEF Byte
<1>3. ASSUME NEW h \in Heights, NEW b \in BOOLEAN, NEW c \in BOOLEAN
      PROVE  Info(h, b, c) \in Seq(Byte)
  <2>1. PICK x \in Byte, y \in Byte, u \in Byte, z \in Byte :
           /\ x = h % 256 /\ y = h \div 256
           /\ u = (IF b THEN 192 ELSE 206) /\ z = (IF c THEN 0 ELSE 1)
    BY <1>1, <1>2
  <2>2. Info(h, b, c) = <<27, 105, 122, u, 10, 62, 0, x, y, 0, 0, z, 0>>
    BY <2>1 DEF Info, ESC
  <2>3. <<27, 105, 122, u, 10, 62, 0, x, y, 0, 0, z, 0>> \in Seq(Byte)
    BY <1>1
  <2> QED
    BY <2>2, <2>3
<1>4. Margin \in Seq(Byte)
  BY <1>1 DEF Margin, ESC
<1>5. ASSUME NEW o \in Options PROVE EncodeCut(o) \in Seq(Byte)
  BY <1>1 DEF EncodeCut, ESC
<1>6. ASSUME NEW b \in BOOLEAN PROVE PrintOf(b) \in Seq(Byte)
  BY <1>1 DEF PrintOf, PagePrint, LastPagePrint
<1> QED
  BY <1>3, <1>4, <1>5, <1>6

\* Before a command that starts with ESC i.
LEMMA EscMore ==
    ASSUME NEW s \in Seq(Byte), NEW o, NEW i, NEW x \in {97, 77, 65, 75, 100, 122},
           EscCommand(s, i, x), NEW e, e = i + EscLength(x),
           ~ Coloured(s, i), Marks(s, i) => ~ o.nocheck /\ s[i + 5] = 62,
           NEW k \in Nat \ {0}, NEW h \in 0 .. 2, Coded(s, e, k, h, o),
           NEW g \in 0 .. 2, Adds(s, i, o, h, g)
    PROVE  Coded(s, i, k, g, o)
<1>1. /\ CommandLength(s, i) = EscLength(x) /\ Convertible(s, i) /\ s[i] \notin Prints
  BY EscCoded
<1>2. i \in 1 .. Len(s)
  BY DEF EscCommand
<1>3. Black(s, i, o)
  BY <1>1 DEF Black
<1>4. e = i + CommandLength(s, i)
  BY <1>1
<1> QED
  BY <1>1, <1>2, <1>3, <1>4, CodedMore

LEMMA InfoCoded ==
    ASSUME NEW s \in Seq(Byte), NEW o \in Options, NEW rows \in Heights, NEW first \in BOOLEAN,
           NEW p, NEW e, At(s, p, Info(rows, o.nocheck, first)),
           e = p + Len(Info(rows, o.nocheck, first)),
           NEW k \in Nat \ {0}, Coded(s, e, k, 1, o)
    PROVE  Coded(s, p, k, 2, o)
<1> DEFINE c == Info(rows, o.nocheck, first)
<1>0. o.nocheck \in BOOLEAN
  BY DEF Options
<1>1. c \in Seq(Byte)
  BY <1>0, HeaderTypes
<1>2. /\ Len(c) = 13 /\ c[1] = 27 /\ c[2] = 105 /\ c[3] = 122
      /\ c[4] = (IF o.nocheck THEN 192 ELSE 206) /\ c[6] = 62
  BY DEF Info, ESC
<1>3. At(s, p, c) /\ e = p + Len(c)
  OBVIOUS
<1> HIDE DEF c
<1>l. Len(c) # 0
  BY <1>2
<1>4. Holds(s, p, c)
  BY <1>1, <1>l, <1>3, AtBytes
<1>5. /\ p \in 1 .. Len(s) /\ p + 13 \in p + 1 .. Len(s) + 1 /\ s[p] = c[1]
      /\ \A j \in 1 .. 12 : p + j \in 1 .. Len(s) /\ s[p + j] = c[j + 1]
  BY <1>2, <1>4 DEF Holds
<1>6. /\ s[p] = 27 /\ s[p + 1] = 105 /\ s[p + 2] = 122
      /\ s[p + 3] = (IF o.nocheck THEN 192 ELSE 206) /\ s[p + 5] = 62
      /\ p + 1 \in 1 .. Len(s) /\ p + 2 \in 1 .. Len(s)
  <2>1. /\ s[p + 1] = c[1 + 1] /\ s[p + 2] = c[2 + 1] /\ s[p + 3] = c[3 + 1]
        /\ s[p + 5] = c[5 + 1] /\ p + 1 \in 1 .. Len(s) /\ p + 2 \in 1 .. Len(s)
    <3>1. 1 \in 1 .. 12 /\ 2 \in 1 .. 12 /\ 3 \in 1 .. 12 /\ 5 \in 1 .. 12
      OBVIOUS
    <3> QED
      BY <1>5, <3>1
  <2>2. 1 + 1 = 2 /\ 2 + 1 = 3 /\ 3 + 1 = 4 /\ 5 + 1 = 6
    OBVIOUS
  <2> QED
    BY <1>2, <1>5, <2>1, <2>2
<1>7. Marks(s, p) <=> ~ o.nocheck
  <2>1. (192 \div 2) % 4 # 3 /\ (206 \div 2) % 4 = 3
    OBVIOUS
  <2>2. CASE o.nocheck
    BY <1>6, <2>1, <2>2 DEF Marks
  <2>3. CASE ~ o.nocheck
    BY <1>6, <2>1, <2>3 DEF Marks, ESC
  <2> QED
    BY <2>2, <2>3
<1>8. EscLength(122) = 13
  BY DEF EscLength
<1>9. EscCommand(s, p, 122)
  BY <1>5, <1>6, <1>8 DEF EscCommand, ESC
<1>10. e = p + EscLength(122)
  BY <1>2, <1>3, <1>8
<1>11. ~ Coloured(s, p) /\ Adds(s, p, o, 1, 2)
  BY <1>6, <1>7 DEF Coloured, Expands, Adds
<1> QED
  BY <1>6, <1>7, <1>9, <1>10, <1>11, EscMore

LEMMA MarginCoded ==
    ASSUME NEW s \in Seq(Byte), NEW o, NEW p, NEW e, At(s, p, Margin), e = p + Len(Margin),
           NEW k \in Nat \ {0}, NEW h \in 0 .. 2, Coded(s, e, k, h, o)
    PROVE  Coded(s, p, k, h, o)
<1>1. Margin \in Seq(Byte)
  BY HeaderTypes
<1>2. Len(Margin) = 5 /\ Margin[1] = 27 /\ Margin[2] = 105 /\ Margin[3] = 100
  BY DEF Margin, ESC
<1>l. Len(Margin) # 0
  BY <1>2
<1>3. Holds(s, p, Margin)
  BY <1>1, <1>l, AtBytes
<1>4. /\ p \in 1 .. Len(s) /\ p + 5 \in p + 1 .. Len(s) + 1 /\ s[p] = Margin[1]
      /\ \A j \in 1 .. 4 : p + j \in 1 .. Len(s) /\ s[p + j] = Margin[j + 1]
  BY <1>2, <1>3 DEF Holds
<1>5. /\ s[p] = 27 /\ s[p + 1] = 105 /\ s[p + 2] = 100
      /\ p + 1 \in 1 .. Len(s) /\ p + 2 \in 1 .. Len(s)
  <2>1. /\ s[p + 1] = Margin[1 + 1] /\ s[p + 2] = Margin[2 + 1]
        /\ p + 1 \in 1 .. Len(s) /\ p + 2 \in 1 .. Len(s)
    <3>1. 1 \in 1 .. 4 /\ 2 \in 1 .. 4
      OBVIOUS
    <3> QED
      BY <1>4, <3>1
  <2>2. 1 + 1 = 2 /\ 2 + 1 = 3
    OBVIOUS
  <2> QED
    BY <1>2, <1>4, <2>1, <2>2
<1>6. ~ Marks(s, p)
  BY <1>5 DEF Marks
<1>7. EscLength(100) = 5
  BY DEF EscLength
<1>8. EscCommand(s, p, 100)
  BY <1>4, <1>5, <1>7 DEF EscCommand, ESC
<1>9. e = p + EscLength(100)
  BY <1>2, <1>7
<1>10. ~ Coloured(s, p) /\ Adds(s, p, o, h, h)
  BY <1>5 DEF Coloured, Expands, Adds
<1> QED
  BY <1>6, <1>8, <1>9, <1>10, EscMore

\* One of the commands of EncodeCut.
Four(s, p, x, y) ==
    /\ p \in Nat /\ p >= 1 /\ p + 4 <= Len(s) + 1
    /\ s[p] = 27 /\ s[p + 1] = 105 /\ s[p + 2] = x /\ s[p + 3] = y

LEMMA FourIs ==
    ASSUME NEW s \in Seq(Byte), NEW p, NEW x \in {97, 77, 65, 75}, NEW y, Four(s, p, x, y)
    PROVE  /\ EscCommand(s, p, x) /\ EscLength(x) = 4 /\ ~ Marks(s, p)
           /\ Coloured(s, p) => x = 75 /\ y % 2 = 1
           /\ Expands(s, p) <=> x = 75
<1>0. /\ p \in Nat /\ p >= 1 /\ p + 4 <= Len(s) + 1 /\ Len(s) \in Nat
      /\ s[p] = 27 /\ s[p + 1] = 105 /\ s[p + 2] = x /\ s[p + 3] = y
  BY DEF Four
<1>1. ~ Marks(s, p)
  BY <1>0 DEF Marks
<1>2. EscLength(x) = 4
  BY DEF EscLength
<1>3. /\ p \in 1 .. Len(s) /\ p + 1 \in 1 .. Len(s) /\ p + 2 \in 1 .. Len(s)
      /\ p + 4 \in p + 1 .. Len(s) + 1
  BY <1>0
<1>4. EscCommand(s, p, x)
  BY <1>0, <1>2, <1>3 DEF EscCommand, ESC
<1> QED
  BY <1>0, <1>1, <1>2, <1>4 DEF Coloured, Expands, ESC

LEMMA FourCoded ==
    ASSUME NEW s \in Seq(Byte), NEW o, NEW p, NEW x \in {97, 77, 65}, NEW y,
           Four(s, p, x, y), NEW e, e = p + 4,
           NEW k \in Nat \ {0}, NEW h \in 0 .. 2, Coded(s, e, k, h, o)
    PROVE  Coded(s, p, k, h, o)
<1>1. x \in {97, 77, 65, 75} /\ x # 75
  OBVIOUS
<1>2. EscCommand(s, p, x) /\ EscLength(x) = 4 /\ ~ Marks(s, p) /\ ~ Coloured(s, p)
  BY <1>1, FourIs
<1>3. e = p + EscLength(x) /\ x \in {97, 77, 65, 75, 100, 122} /\ Adds(s, p, o, h, h)
  BY <1>2 DEF Adds
<1> QED
  BY <1>2, <1>3, EscMore

LEMMA ModeCoded ==
    ASSUME NEW s \in Seq(Byte), NEW o, NEW p, NEW y, y % 2 # 1,
           Four(s, p, 75, y), NEW e, e = p + 4,
           NEW k \in Nat \ {0}, NEW h \in 0 .. 2, Coded(s, e, k, h, o)
    PROVE  Coded(s, p, k, 1, o)
<1>1. PICK x \in {97, 77, 65, 75} : x = 75
  OBVIOUS
<1>2. /\ EscCommand(s, p, x) /\ EscLength(x) = 4 /\ ~ Marks(s, p)
      /\ Coloured(s, p) => x = 75 /\ y % 2 = 1
      /\ Expands(s, p) <=> x = 75
  BY <1>1, FourIs
<1>3. e = p + EscLength(x) /\ x \in {97, 77, 65, 75, 100, 122}
      /\ Adds(s, p, o, h, 1) /\ ~ Coloured(s, p)
  BY <1>1, <1>2 DEF Adds
<1> QED
  BY <1>2, <1>3, EscMore

LEMMA CutCoded ==
    ASSUME NEW s \in Seq(Byte), NEW o \in Options, NEW p, NEW e, At(s, p, EncodeCut(o)),
           e = p + Len(EncodeCut(o)),
           NEW k \in Nat \ {0}, NEW h \in 0 .. 2, Coded(s, e, k, h, o)
    PROVE  Coded(s, p, k, 1, o)
<1> DEFINE c == EncodeCut(o)
<1>0. Len(s) \in Nat /\ 64 \in Byte /\ 1 \in Byte /\ 8 \in Byte /\ 0 \in Byte
      /\ 8 % 2 # 1 /\ 0 % 2 # 1
  BY DEF Byte
<1>1. c \in Seq(Byte)
  BY HeaderTypes
<1>2. At(s, p, c) /\ e = p + Len(c)
  OBVIOUS
<1>3. CASE o.cut
  <2>1. c = <<27, 105, 77, 64, 27, 105, 65, 1, 27, 105, 75, 8>>
    BY <1>3 DEF EncodeCut, ESC
  <2> HIDE DEF c
  <2>2. /\ Len(c) = 12 /\ c[1] = 27 /\ c[2] = 105 /\ c[3] = 77 /\ c[4] = 64
        /\ c[5] = 27 /\ c[6] = 105 /\ c[7] = 65 /\ c[8] = 1
        /\ c[9] = 27 /\ c[10] = 105 /\ c[11] = 75 /\ c[12] = 8
    BY <2>1
  <2>l. Len(c) # 0
    BY <2>2
  <2>3. Holds(s, p, c)
    BY <1>1, <1>2, <2>l, AtBytes
  <2>4. /\ p \in 1 .. Len(s) /\ p + 12 \in p + 1 .. Len(s) + 1 /\ s[p] = c[1]
        /\ \A j \in 1 .. 11 : s[p + j] = c[j + 1]
    BY <2>2, <2>3 DEF Holds
  <2>5. /\ s[p] = 27 /\ s[p + 1] = 105 /\ s[p + 2] = 77 /\ s[p + 3] = 64
        /\ s[p + 4] = 27 /\ s[p + 5] = 105 /\ s[p + 6] = 65 /\ s[p + 7] = 1
        /\ s[p + 8] = 27 /\ s[p + 9] = 105 /\ s[p + 10] = 75 /\ s[p + 11] = 8
    BY <2>2, <2>4
  <2>6. PICK q, u : q = p + 4 /\ u = p + 8
    OBVIOUS
  <2>7. /\ p \in Nat /\ p >= 1 /\ p + 4 <= Len(s) + 1 /\ q \in Nat /\ q >= 1
        /\ q + 4 <= Len(s) + 1 /\ u \in Nat /\ u >= 1 /\ u + 4 <= Len(s) + 1
    <3>1. PICK n \in Nat : n = Len(s)
      BY <1>0
    <3>2. p \in 1 .. n /\ p + 12 \in p + 1 .. n + 1
      BY <2>4, <3>1
    <3>3. p \in Nat /\ p >= 1 /\ p + 12 <= n + 1
      BY <3>2
    <3> QED
      BY <2>6, <3>1, <3>3
  <2>8. /\ p + 5 = q + 1 /\ p + 6 = q + 2 /\ p + 7 = q + 3 /\ u = q + 4
        /\ p + 9 = u + 1 /\ p + 10 = u + 2 /\ p + 11 = u + 3 /\ e = u + 4
    <3>1. e = p + 12
      BY <1>2, <2>2
    <3> QED
      BY <2>6, <2>7, <3>1
  <2>9. Four(s, p, 77, 64) /\ Four(s, q, 65, 1) /\ Four(s, u, 75, 8)
    BY <2>5, <2>6, <2>7, <2>8 DEF Four
  <2>10. Coded(s, u, k, 1, o)
    BY <1>0, <2>8, <2>9, ModeCoded
  <2>m. PICK m \in 0 .. 2 : m = 1
    OBVIOUS
  <2>x. PICK x \in {97, 77, 65}, y \in {97, 77, 65} : x = 65 /\ y = 77
    OBVIOUS
  <2>11. Coded(s, q, k, m, o)
    <3>1. Four(s, q, x, 1) /\ u = q + 4 /\ Coded(s, u, k, m, o)
      BY <2>8, <2>9, <2>10, <2>m, <2>x
    <3> QED
      BY <3>1, FourCoded
  <2>12. Coded(s, p, k, m, o)
    <3>1. Four(s, p, y, 64) /\ q = p + 4
      BY <2>6, <2>9, <2>x
    <3> QED
      BY <2>11, <3>1, FourCoded
  <2> QED
    BY <2>m, <2>12
<1>4. CASE ~ o.cut
  <2>1. c = <<27, 105, 75, 0>>
    BY <1>4 DEF EncodeCut, ESC
  <2> HIDE DEF c
  <2>2. Len(c) = 4 /\ c[1] = 27 /\ c[2] = 105 /\ c[3] = 75 /\ c[4] = 0
    BY <2>1
  <2>l. Len(c) # 0
    BY <2>2
  <2>3. Holds(s, p, c)
    BY <1>1, <1>2, <2>l, AtBytes
  <2>4. /\ p \in 1 .. Len(s) /\ p + 4 \in p + 1 .. Len(s) + 1 /\ s[p] = c[1]
        /\ \A j \in 1 .. 3 : s[p + j] = c[j + 1]
    BY <2>2, <2>3 DEF Holds
  <2>5. s[p] = 27 /\ s[p + 1] = 105 /\ s[p + 2] = 75 /\ s[p + 3] = 0
    BY <2>2, <2>4
  <2>6. Four(s, p, 75, 0) /\ e = p + 4
    <3>1. PICK n \in Nat : n = Len(s)
      BY <1>0
    <3>2. p \in 1 .. n /\ p + 4 \in p + 1 .. n + 1
      BY <2>4, <3>1
    <3>3. p \in Nat /\ p >= 1 /\ p + 4 <= n + 1
      BY <3>2
    <3>4. Four(s, p, 75, 0)
      BY <2>5, <3>1, <3>3 DEF Four
    <3> QED
      BY <1>2, <2>2, <3>4
  <2> QED
    BY <1>0, <2>6, ModeCoded
<1> QED
  BY <1>3, <1>4
\* A page, from its beginning p to its end e.
LEMMA PageIs ==
    ASSUME NEW image \in Labels, NEW o \in Options, NEW first \in BOOLEAN, NEW last \in BOOLEAN
    PROVE  /\ EncodePage(image, o, first, last)
                = (((Info(Len(image), o.nocheck, first) \o EncodeCut(o)) \o Margin)
                      \o FlattenSeq(RowsOf(image))) \o PrintOf(last)
           /\ Len(image) \in Heights /\ Len(image) \in Nat \ {0}
           /\ image \in [1 .. Len(image) -> Rows]
           /\ FlattenSeq(RowsOf(image)) \in Seq(Byte)
<1>1. PICK h \in Heights : image \in [1 .. h -> Rows]
  BY DEF Labels
<1>2. h \in Nat \ {0}
  BY RasterAssumption
<1>3. Len(image) = h
  BY <1>1, <1>2
<1>4. RowsOf(image) \in [1 .. h -> Seq(Byte)]
  BY <1>1, <1>2, RowsAre
<1>5. FlattenSeq(RowsOf(image)) \in Seq(Byte)
  BY <1>2, <1>4, FlatType
<1>6. EncodePage(image, o, first, last)
         = (((Info(Len(image), o.nocheck, first) \o EncodeCut(o)) \o Margin)
               \o FlattenSeq(RowsOf(image))) \o PrintOf(last)
  BY DEF EncodePage, Info, Margin, RowsOf, PrintOf
<1> QED
  BY <1>1, <1>2, <1>3, <1>5, <1>6

LEMMA PageType ==
    ASSUME NEW image \in Labels, NEW o \in Options, NEW first \in BOOLEAN, NEW last \in BOOLEAN
    PROVE  EncodePage(image, o, first, last) \in Seq(Byte)
<1>1. /\ Info(Len(image), o.nocheck, first) \in Seq(Byte) /\ EncodeCut(o) \in Seq(Byte)
      /\ Margin \in Seq(Byte) /\ PrintOf(last) \in Seq(Byte)
      /\ FlattenSeq(RowsOf(image)) \in Seq(Byte)
  <2>1. o.nocheck \in BOOLEAN
    BY DEF Options
  <2> QED
    BY <2>1, HeaderTypes, PageIs
<1>2. PICK a, b, c, d, z \in Seq(Byte) :
         /\ a = Info(Len(image), o.nocheck, first) /\ b = EncodeCut(o) /\ c = Margin
         /\ d = FlattenSeq(RowsOf(image)) /\ z = PrintOf(last)
  BY <1>1
<1>3. (((a \o b) \o c) \o d) \o z \in Seq(Byte)
  OBVIOUS
<1>4. EncodePage(image, o, first, last) = (((a \o b) \o c) \o d) \o z
  BY <1>2, PageIs
<1> QED
  BY <1>3, <1>4

LEMMA PageCoded ==
    ASSUME NEW s \in Seq(Byte), NEW image \in Labels, NEW o \in Options,
           NEW first \in BOOLEAN, NEW last \in BOOLEAN, NEW p, NEW e,
           At(s, p, EncodePage(image, o, first, last)),
           e = p + Len(EncodePage(image, o, first, last)),
           NEW k \in Nat, NEW h \in 0 .. 2, Coded(s, e, k, h, o)
    PROVE  Coded(s, p, k + 1, 2, o)
<1>1. PICK a, b, c, d, z :
         /\ a = Info(Len(image), o.nocheck, first) /\ b = EncodeCut(o) /\ c = Margin
         /\ d = FlattenSeq(RowsOf(image)) /\ z = PrintOf(last)
  OBVIOUS
<1>2. a \in Seq(Byte) /\ b \in Seq(Byte) /\ c \in Seq(Byte) /\ d \in Seq(Byte) /\ z \in Seq(Byte)
  <2>1. o.nocheck \in BOOLEAN /\ Len(image) \in Heights
    BY PageIs DEF Options
  <2> QED
    BY <1>1, <2>1, HeaderTypes, PageIs
<1>3. PICK x, y, u : x = a \o b /\ y = x \o c /\ u = y \o d
  OBVIOUS
<1>s. x \in Seq(Byte) /\ y \in Seq(Byte) /\ u \in Seq(Byte)
  <2>1. x \in Seq(Byte)
    BY <1>2, <1>3
  <2>2. y \in Seq(Byte)
    BY <1>2, <1>3, <2>1
  <2> QED
    BY <1>2, <1>3, <2>1, <2>2
<1>4. EncodePage(image, o, first, last) = u \o z
  BY <1>1, <1>3, PageIs
<1>5. At(s, p, u) /\ At(s, p + Len(u), z) /\ e = (p + Len(u)) + Len(z)
  <2>1. At(s, p, u \o z) /\ e = p + Len(u \o z)
    BY <1>4
  <2>2. Both(s, p, u, z)
    BY <1>2, <1>s, <2>1, AtJoin
  <2> QED
    BY <2>1, <2>2 DEF Both
<1>6. At(s, p, y) /\ At(s, p + Len(y), d) /\ p + Len(u) = (p + Len(y)) + Len(d)
  <2>1. At(s, p, y \o d)
    BY <1>3, <1>5
  <2>2. Both(s, p, y, d)
    BY <1>2, <1>s, <2>1, AtJoin
  <2> QED
    BY <1>3, <2>2 DEF Both
<1>7. At(s, p, x) /\ At(s, p + Len(x), c) /\ p + Len(y) = (p + Len(x)) + Len(c)
  <2>1. At(s, p, x \o c)
    BY <1>3, <1>6
  <2>2. Both(s, p, x, c)
    BY <1>2, <1>s, <2>1, AtJoin
  <2> QED
    BY <1>3, <2>2 DEF Both
<1>8. At(s, p, a) /\ At(s, p + Len(a), b) /\ p + Len(x) = (p + Len(a)) + Len(b)
  <2>1. At(s, p, a \o b)
    BY <1>3, <1>7
  <2>2. Both(s, p, a, b)
    BY <1>2, <2>1, AtJoin
  <2> QED
    BY <1>3, <2>2 DEF Both
<1>9. PICK q1, q2, q3, q4 :
         q1 = p + Len(a) /\ q2 = p + Len(x) /\ q3 = p + Len(y) /\ q4 = p + Len(u)
  OBVIOUS
<1>10. k + 1 \in Nat \ {0} /\ 0 \in 0 .. 2 /\ 1 \in 0 .. 2
  OBVIOUS
<1>11. Coded(s, q4, k + 1, h, o)
  <2>1. Len(z) = 1 /\ z[1] \in Prints
    BY <1>1 DEF PrintOf, Prints
  <2>2. Len(z) # 0
    BY <2>1
  <2>3. Holds(s, q4, z)
    BY <1>2, <1>5, <1>9, <2>2, AtBytes
  <2>4. q4 \in 1 .. Len(s) /\ s[q4] \in Prints
    BY <2>1, <2>3 DEF Holds
  <2>5. e = q4 + 1
    BY <1>5, <1>9, <2>1
  <2>6. Coded(s, q4 + 1, k, h, o)
    BY <2>5
  <2> QED
    BY <2>4, <2>6, CodedPrint
<1>12. Coded(s, q3, k + 1, h, o)
  <2>1. /\ image \in [1 .. Len(image) -> Rows] /\ Len(image) \in Nat \ {0}
    BY PageIs
  <2>2. /\ At(s, q3, FlattenSeq(RowsOf(image)))
        /\ q4 = q3 + Len(FlattenSeq(RowsOf(image)))
    BY <1>1, <1>6, <1>9
  <2> QED
    BY <1>10, <1>11, <2>1, <2>2, RowsCoded
<1>13. Coded(s, q2, k + 1, h, o)
  <2>1. At(s, q2, Margin) /\ q3 = q2 + Len(Margin)
    BY <1>1, <1>7, <1>9
  <2> QED
    BY <1>10, <1>12, <2>1, MarginCoded
<1>14. Coded(s, q1, k + 1, 1, o)
  <2>1. At(s, q1, EncodeCut(o)) /\ q2 = q1 + Len(EncodeCut(o))
    BY <1>1, <1>8, <1>9
  <2> QED
    BY <1>10, <1>13, <2>1, CutCoded
<1> QED
  <2>1. PICK rows \in Heights : rows = Len(image)
    BY PageIs
  <2>2. /\ At(s, p, Info(rows, o.nocheck, first))
        /\ q1 = p + Len(Info(rows, o.nocheck, first))
    BY <1>1, <1>8, <1>9, <2>1
  <2> QED
    BY <1>10, <1>14, <2>2, InfoCoded

\* All pages: each counts one label.
PagesOf(pages, o) ==
    [i \in DOMAIN pages |-> EncodePage(pages[i], o, i = 1, i = Len(pages))]

LEMMA PagesAre ==
    ASSUME NEW n \in Nat \ {0}, NEW pages \in [1 .. n -> Labels], NEW o \in Options
    PROVE  /\ PagesOf(pages, o) \in [1 .. n -> Seq(Byte)] /\ Len(pages) = n
           /\ \A i \in 1 .. n : /\ PagesOf(pages, o)[i] = EncodePage(pages[i], o, i = 1, i = n)
                                /\ pages[i] \in Labels
<1>1. Len(pages) = n /\ DOMAIN pages = 1 .. n
  OBVIOUS
<1>2. \A i \in 1 .. n : pages[i] \in Labels /\ EncodePage(pages[i], o, i = 1, i = n) \in Seq(Byte)
  BY PageType
<1> QED
  BY <1>1, <1>2 DEF PagesOf

LEMMA PagesCoded ==
    ASSUME NEW s \in Seq(Byte), NEW n \in Nat \ {0}, NEW pages \in [1 .. n -> Labels],
           NEW o \in Options, NEW p, At(s, p, FlattenSeq(PagesOf(pages, o))),
           p + Len(FlattenSeq(PagesOf(pages, o))) = Len(s) + 1
    PROVE  Coded(s, p, n, 2, o)
<1>1. /\ PagesOf(pages, o) \in [1 .. n -> Seq(Byte)]
      /\ \A i \in 1 .. n : /\ PagesOf(pages, o)[i] = EncodePage(pages[i], o, i = 1, i = n)
                           /\ pages[i] \in Labels
  BY PagesAre
<1> DEFINE ss == PagesOf(pages, o)
<1>2. PICK f : Laid(s, n, ss, p, Len(s) + 1, f)
  <2>1. ss \in [1 .. n -> Seq(Byte)] /\ At(s, p, FlattenSeq(ss))
    BY <1>1
  <2>2. p + Len(FlattenSeq(ss)) = Len(s) + 1
    OBVIOUS
  <2> HIDE DEF ss
  <2>3. \E f : Laid(s, n, ss, p, p + Len(FlattenSeq(ss)), f)
    BY <2>1, FlatAt
  <2> QED
    BY <2>2, <2>3
<1>3. /\ f \in [0 .. n -> Nat] /\ f[0] = p /\ f[n] = Len(s) + 1
      /\ \A i \in 1 .. n : f[i] = f[i - 1] + Len(ss[i]) /\ At(s, f[i - 1], ss[i])
  BY <1>2 DEF Laid
<1> HIDE DEF ss
<1> DEFINE S == {i \in 1 .. n : Coded(s, f[i - 1], (n - i) + 1, 2, o)}
<1>4. ASSUME NEW i \in 1 .. n, (i + 1 .. n) \subseteq S PROVE i \in S
  <2>1. \E h \in 0 .. 2 : Coded(s, f[i], n - i, h, o)
    <3>1. CASE i = n
      <4>1. Coded(s, f[i], 0, 0, o)
        BY <1>3, <3>1, CodedEnd
      <4>2. n - i = 0 /\ 0 \in 0 .. 2
        BY <3>1
      <4> QED
        BY <4>1, <4>2
    <3>2. CASE i # n
      <4>1. i + 1 \in i + 1 .. n /\ (i + 1) - 1 = i /\ (n - (i + 1)) + 1 = n - i /\ 2 \in 0 .. 2
        BY <3>2
      <4> QED
        BY <1>4, <4>1
    <3> QED
      BY <3>1, <3>2
  <2>2. PICK h \in 0 .. 2 : Coded(s, f[i], n - i, h, o)
    BY <2>1
  <2>3. PICK q, e : q = f[i - 1] /\ e = f[i]
    OBVIOUS
  <2>4. PICK first \in BOOLEAN, last \in BOOLEAN : first = (i = 1) /\ last = (i = n)
    OBVIOUS
  <2>5. /\ At(s, q, EncodePage(pages[i], o, first, last))
        /\ e = q + Len(EncodePage(pages[i], o, first, last)) /\ pages[i] \in Labels
    <3>1. ss[i] = EncodePage(pages[i], o, i = 1, i = n) /\ pages[i] \in Labels
      BY <1>1 DEF ss
    <3>2. EncodePage(pages[i], o, i = 1, i = n) = EncodePage(pages[i], o, first, last)
      BY <2>4
    <3>3. PICK c : c = EncodePage(pages[i], o, first, last)
      OBVIOUS
    <3>4. ss[i] = c
      BY <3>1, <3>2, <3>3
    <3>5. At(s, q, c) /\ e = q + Len(c)
      BY <1>3, <2>3, <3>4
    <3> QED
      BY <3>1, <3>3, <3>5
  <2>6. PICK k \in Nat : k = n - i
    OBVIOUS
  <2>7. Coded(s, e, k, h, o)
    BY <2>2, <2>3, <2>6
  <2>8. Coded(s, q, k + 1, 2, o)
    BY <2>5, <2>7, PageCoded
  <2> QED
    BY <2>3, <2>6, <2>8
<1>5. 1 .. n \subseteq S
  <2> HIDE DEF S
  <2> QED
    BY <1>4, DownInduction
<1>6. 1 \in S /\ 1 - 1 = 0 /\ (n - 1) + 1 = n
  BY <1>5
<1> QED
  BY <1>3, <1>6
\* The zeros and the two commands before the pages.
LEMMA ZeroCoded ==
    ASSUME NEW s \in Seq(Byte), NEW o, NEW i \in 1 .. Len(s), s[i] = 0,
           NEW k \in Nat \ {0}, NEW h \in 0 .. 2, Coded(s, i + 1, k, h, o)
    PROVE  Coded(s, i, k, h, o)
<1>1. CommandLength(s, i) = 1
  BY DEF CommandLength
<1>2. Follows(s, i)
  BY <1>1 DEF Follows
<1>3. Black(s, i, o) /\ s[i] \notin Prints
  BY <1>2 DEF Black, Convertible, Coloured, Expands, Marks, Prints, PagePrint, LastPagePrint,
              ESC
<1>4. PICK e : e = i + 1
  OBVIOUS
<1>5. e = i + CommandLength(s, i) /\ Coded(s, e, k, h, o) /\ Adds(s, i, o, h, h)
  BY <1>1, <1>4 DEF Adds
<1> QED
  BY <1>3, <1>5, CodedMore

Opening == <<ESC, 64>>

Mode == <<ESC, 105, 97, 1>>

Zeros == [i \in 1 .. Invalidates |-> 0]

LEMMA StartCoded ==
    ASSUME NEW s \in Seq(Byte), NEW o, NEW p, NEW e, At(s, p, Opening), e = p + Len(Opening),
           NEW k \in Nat \ {0}, NEW h \in 0 .. 2, Coded(s, e, k, h, o)
    PROVE  Coded(s, p, k, h, o)
<1>1. Opening \in Seq(Byte) /\ Len(Opening) = 2 /\ Opening[1] = 27 /\ Opening[2] = 64
  <2>1. 27 \in Byte /\ 64 \in Byte
    BY DEF Byte
  <2> QED
    BY <2>1 DEF Opening, ESC
<1>2. Len(Opening) # 0
  BY <1>1
<1>3. Holds(s, p, Opening)
  BY <1>1, <1>2, AtBytes
<1>4. /\ p \in 1 .. Len(s) /\ p + 2 \in p + 1 .. Len(s) + 1 /\ s[p] = 27 /\ s[p + 1] = 64
      /\ p + 1 \in 1 .. Len(s)
  <2>1. 1 \in 1 .. Len(Opening) - 1 /\ 1 + 1 = 2
    BY <1>1
  <2> QED
    BY <1>1, <1>3, <2>1 DEF Holds
<1>5. ByteAt(s, p + 1) = 64
  BY <1>4 DEF ByteAt
<1>6. CommandLength(s, p) = 2
  BY <1>4, <1>5 DEF CommandLength, ESC, PagePrint, LastPagePrint
<1>7. Follows(s, p)
  BY <1>4, <1>6 DEF Follows
<1>8. Black(s, p, o) /\ s[p] \notin Prints
  BY <1>4, <1>7 DEF Black, Convertible, Coloured, Expands, Marks, Prints, PagePrint,
                   LastPagePrint, ESC
<1>9. e = p + CommandLength(s, p) /\ Adds(s, p, o, h, h)
  BY <1>1, <1>6 DEF Adds
<1> QED
  BY <1>4, <1>8, <1>9, CodedMore

LEMMA ModeSet ==
    ASSUME NEW s \in Seq(Byte), NEW o, NEW p, NEW e, At(s, p, Mode), e = p + Len(Mode),
           NEW k \in Nat \ {0}, NEW h \in 0 .. 2, Coded(s, e, k, h, o)
    PROVE  Coded(s, p, k, h, o)
<1>1. /\ Mode \in Seq(Byte) /\ Len(Mode) = 4
      /\ Mode[1] = 27 /\ Mode[2] = 105 /\ Mode[3] = 97 /\ Mode[4] = 1
  <2>1. 27 \in Byte /\ 105 \in Byte /\ 97 \in Byte /\ 1 \in Byte
    BY DEF Byte
  <2> QED
    BY <2>1 DEF Mode, ESC
<1>2. Len(Mode) # 0
  BY <1>1
<1>3. Holds(s, p, Mode)
  BY <1>1, <1>2, AtBytes
<1>4. p \in 1 .. Len(s) /\ p + 4 \in p + 1 .. Len(s) + 1 /\ s[p] = 27
  BY <1>1, <1>3 DEF Holds
<1>5. s[p + 1] = 105 /\ s[p + 2] = 97 /\ s[p + 3] = 1
  <2>1. /\ 1 \in 1 .. Len(Mode) - 1 /\ 2 \in 1 .. Len(Mode) - 1 /\ 3 \in 1 .. Len(Mode) - 1
        /\ 1 + 1 = 2 /\ 2 + 1 = 3 /\ 3 + 1 = 4
    BY <1>1
  <2> QED
    BY <1>1, <1>3, <2>1 DEF Holds
<1>6. Four(s, p, 97, 1)
  BY <1>4, <1>5 DEF Four
<1>7. e = p + 4
  BY <1>1
<1>8. PICK x \in {97, 77, 65} : x = 97
  OBVIOUS
<1> QED
  BY <1>6, <1>7, <1>8, FourCoded

-----------------------------------------------------------------------------
(***************************************************************************)
(* The stream of a job: as many labels as there are pages, for the roll that *)
(* is asked for, and in black.                                              *)
(***************************************************************************)
PageLists == UNION {[1 .. n -> Labels] : n \in 1 .. MaxPages}

LEMMA JobIs ==
    ASSUME NEW pages \in PageLists, NEW o \in Options
    PROVE  /\ Len(pages) \in Nat \ {0} /\ pages \in [1 .. Len(pages) -> Labels]
           /\ EncodePages(pages, o)
                = ((Zeros \o Opening) \o Mode) \o FlattenSeq(PagesOf(pages, o))
           /\ Zeros \in Seq(Byte) /\ Opening \in Seq(Byte) /\ Mode \in Seq(Byte)
           /\ FlattenSeq(PagesOf(pages, o)) \in Seq(Byte)
<1>1. PICK n \in 1 .. MaxPages : pages \in [1 .. n -> Labels]
  BY DEF PageLists
<1>2. n \in Nat \ {0}
  BY RasterAssumption
<1>3. Len(pages) = n
  BY <1>1, <1>2
<1>4. PagesOf(pages, o) \in [1 .. n -> Seq(Byte)]
  BY <1>1, <1>2, PagesAre
<1>5. FlattenSeq(PagesOf(pages, o)) \in Seq(Byte)
  BY <1>2, <1>4, FlatType
<1>6. 27 \in Byte /\ 64 \in Byte /\ 105 \in Byte /\ 97 \in Byte /\ 1 \in Byte /\ 0 \in Byte
  BY DEF Byte
<1>7. Opening \in Seq(Byte) /\ Mode \in Seq(Byte)
  BY <1>6 DEF Opening, Mode, ESC
<1>8. Zeros \in Seq(Byte)
  <2>1. Invalidates \in Nat
    BY RasterAssumption
  <2> QED
    BY <1>6, <2>1, IsASeq DEF Zeros
<1>9. EncodePages(pages, o) = ((Zeros \o Opening) \o Mode) \o FlattenSeq(PagesOf(pages, o))
  BY DEF EncodePages, Zeros, Opening, Mode, PagesOf
<1> QED
  BY <1>1, <1>2, <1>3, <1>5, <1>7, <1>8, <1>9

LEMMA JobType ==
    ASSUME NEW pages \in PageLists, NEW o \in Options
    PROVE  EncodePages(pages, o) \in Seq(Byte)
<1>1. PICK a, b, c, d \in Seq(Byte) :
         a = Zeros /\ b = Opening /\ c = Mode /\ d = FlattenSeq(PagesOf(pages, o))
  BY JobIs
<1>2. ((a \o b) \o c) \o d \in Seq(Byte)
  OBVIOUS
<1> QED
  BY <1>1, <1>2, JobIs

LEMMA JobCoded ==
    ASSUME NEW pages \in PageLists, NEW o \in Options, NEW s, s = EncodePages(pages, o)
    PROVE  Coded(s, 1, Len(pages), 2, o)
<1>0. s \in Seq(Byte)
  BY JobType
<1>1. PICK a, b, c, d \in Seq(Byte) :
         a = Zeros /\ b = Opening /\ c = Mode /\ d = FlattenSeq(PagesOf(pages, o))
  BY JobIs
<1>2. PICK x, y : x = a \o b /\ y = x \o c
  OBVIOUS
<1>3. x \in Seq(Byte) /\ y \in Seq(Byte)
  <2>1. x \in Seq(Byte)
    BY <1>2
  <2> QED
    BY <1>2, <2>1
<1>4. s = y \o d
  BY <1>1, <1>2, JobIs
<1>5. At(s, 1, y) /\ At(s, 1 + Len(y), d) /\ Len(s) + 1 = (1 + Len(y)) + Len(d)
  <2>1. At(s, 1, y \o d) /\ 1 + Len(y \o d) = Len(s) + 1
    BY <1>0, <1>4, AtWhole
  <2>2. Both(s, 1, y, d)
    BY <1>0, <1>3, <2>1, AtJoin
  <2> QED
    BY <2>1, <2>2 DEF Both
<1>6. At(s, 1, x) /\ At(s, 1 + Len(x), c) /\ 1 + Len(y) = (1 + Len(x)) + Len(c)
  <2>1. At(s, 1, x \o c)
    BY <1>2, <1>5
  <2>2. Both(s, 1, x, c)
    BY <1>0, <1>3, <2>1, AtJoin
  <2> QED
    BY <1>2, <2>2 DEF Both
<1>7. At(s, 1, a) /\ At(s, 1 + Len(a), b) /\ 1 + Len(x) = (1 + Len(a)) + Len(b)
  <2>1. At(s, 1, a \o b)
    BY <1>2, <1>6
  <2>2. Both(s, 1, a, b)
    BY <1>0, <2>1, AtJoin
  <2> QED
    BY <1>2, <2>2 DEF Both
<1>8. PICK n \in Nat \ {0}, two \in 0 .. 2 : n = Len(pages) /\ two = 2
  BY JobIs
<1>9. PICK q1, q2, q3 : q1 = 1 + Len(a) /\ q2 = 1 + Len(x) /\ q3 = 1 + Len(y)
  OBVIOUS
<1>10. Coded(s, q3, n, two, o)
  <2>1. pages \in [1 .. n -> Labels]
    BY <1>8, JobIs
  <2>2. /\ At(s, q3, FlattenSeq(PagesOf(pages, o)))
        /\ q3 + Len(FlattenSeq(PagesOf(pages, o))) = Len(s) + 1
    BY <1>1, <1>5, <1>9
  <2> QED
    BY <1>0, <1>8, <2>1, <2>2, PagesCoded
<1>11. Coded(s, q2, n, two, o)
  <2>1. At(s, q2, Mode) /\ q3 = q2 + Len(Mode)
    BY <1>1, <1>6, <1>9
  <2> QED
    BY <1>0, <1>10, <2>1, ModeSet
<1>12. Coded(s, q1, n, two, o)
  <2>1. At(s, q1, Opening) /\ q2 = q1 + Len(Opening)
    BY <1>1, <1>7, <1>9
  <2> QED
    BY <1>0, <1>11, <2>1, StartCoded
<1>13. /\ Invalidates \in Nat /\ Len(s) \in Nat /\ q1 = Invalidates + 1
       /\ \A i \in 1 .. Invalidates : i \in 1 .. Len(s) /\ s[i] = 0
  <2>1. Invalidates \in Nat /\ Len(s) \in Nat
    BY <1>0, RasterAssumption
  <2>2. Len(a) = Invalidates /\ \A i \in 1 .. Invalidates : a[i] = 0
    BY <1>1, <2>1 DEF Zeros
  <2>3. 1 + Len(a) <= Len(s) + 1 /\ \A i \in 1 .. Len(a) : s[(1 + i) - 1] = a[i]
    BY <1>7 DEF At
  <2>4. \A i \in 1 .. Invalidates : (1 + i) - 1 = i /\ i \in 1 .. Len(s)
    BY <2>1, <2>2, <2>3
  <2> QED
    BY <1>9, <2>1, <2>2, <2>3, <2>4
<1> DEFINE S == {i \in 1 .. Invalidates : Coded(s, i, n, two, o)}
<1>14. ASSUME NEW i \in 1 .. Invalidates, (i + 1 .. Invalidates) \subseteq S PROVE i \in S
  <2>1. Coded(s, i + 1, n, two, o)
    <3>1. CASE i = Invalidates
      BY <1>12, <1>13, <3>1
    <3>2. CASE i # Invalidates
      <4>1. i + 1 \in i + 1 .. Invalidates
        BY <1>13, <3>2
      <4> QED
        BY <1>14, <4>1
    <3> QED
      BY <3>1, <3>2
  <2> QED
    BY <1>0, <1>13, <2>1, ZeroCoded
<1>15. 1 .. Invalidates \subseteq S
  <2> HIDE DEF S
  <2> QED
    BY <1>13, <1>14, DownInduction
<1>16. Coded(s, 1, n, two, o)
  <2>1. CASE Invalidates = 0
    BY <1>12, <1>13, <2>1
  <2>2. CASE Invalidates # 0
    <3>1. 1 \in 1 .. Invalidates
      BY <1>13, <2>2
    <3> QED
      BY <1>15, <3>1
  <2> QED
    BY <2>1, <2>2
<1> QED
  BY <1>8, <1>16
-----------------------------------------------------------------------------
(***************************************************************************)
(* What ParseJob makes of a stream it can follow.                          *)
(***************************************************************************)
Parsed(s, k, o, two) ==
    /\ Walk(s)[1] \subseteq 1 .. Len(s)
    /\ Cardinality(PrintsFrom(s, 1)) = k
    /\ \A j \in Walk(s)[1] : Marks(s, j) => ~ o.nocheck /\ s[j + 5] = 62
    /\ o.nocheck \/ \E j \in Walk(s)[1] : Marks(s, j)
    /\ two <=> \E j \in Walk(s)[1] : Coloured(s, j)

LEMMA JobRead ==
    ASSUME NEW s \in Seq(Byte), NEW k \in Nat \ {0}, NEW o \in Options, NEW two \in BOOLEAN,
           Parsed(s, k, o, two)
    PROVE  ParseJob(s) = [pages    |-> k,
                          width    |-> IF o.nocheck THEN 0 ELSE 62,
                          twoColor |-> two]
<1> DEFINE w == Walk(s)[1]
           marked == {i \in w : /\ s[i] = ESC /\ s[i + 1] = 105 /\ s[i + 2] = 122
                                /\ (s[i + 3] \div 2) % 4 = 3}
<1>1. w \subseteq 1 .. Len(s) /\ 0 \notin w /\ Len(s) \in Nat
  BY DEF Parsed
<1>2. {i \in w : s[i] \in {PagePrint, LastPagePrint}} = PrintsFrom(s, 1)
  BY DEF PrintsFrom, Prints
<1>3. Cardinality(PrintsFrom(s, 1)) = k /\ PrintsFrom(s, 1) # {}
  <2>1. Cardinality(PrintsFrom(s, 1)) = k
    BY DEF Parsed
  <2> QED
    BY <2>1, FS_EmptySet
<1>4. marked = {i \in w : Marks(s, i)}
  BY DEF Marks
<1>5. RollAsked(s, w) = IF o.nocheck THEN 0 ELSE 62
  <2>0. o.nocheck \in BOOLEAN
    BY DEF Options
  <2>1. RollAsked(s, w) = IF marked = {} THEN 0
                          ELSE s[(CHOOSE i \in marked : \A k_1 \in marked : i <= k_1) + 5]
    BY DEF RollAsked
  <2>2. CASE o.nocheck
    <3>1. marked = {}
      BY <1>4, <2>2 DEF Parsed
    <3> QED
      BY <2>1, <2>2, <3>1
  <2>3. CASE ~ o.nocheck
    <3>1. marked # {} /\ \A i \in marked : s[i + 5] = 62
      BY <1>4, <2>3 DEF Parsed
    <3>2. marked \subseteq Nat
      BY <1>1
    <3>3. \E i \in marked : \A m \in marked : i <= m
      <4> HIDE DEF marked
      <4> QED
        BY <3>1, <3>2, LeastNat
    <3>4. (CHOOSE i \in marked : \A m \in marked : i <= m) \in marked
      <4> HIDE DEF marked
      <4> QED
        BY <3>3
    <3> QED
      BY <2>1, <2>3, <3>1, <3>4
  <2> QED
    BY <2>0, <2>2, <2>3
<1>6. two = \E i \in w : \/ s[i] = 119
                         \/ /\ s[i] = ESC /\ s[i + 1] = 105 /\ s[i + 2] = 75
                            /\ s[i + 3] % 2 = 1
  <2>1. two <=> \E i \in w : Coloured(s, i)
    BY DEF Parsed
  <2> QED
    BY <2>1, Zenon DEF Coloured, Expands
<1> QED
  <2>1. ParseJob(s) =
          [pages    |-> Cardinality(PrintsFrom(s, 1)),
           width    |-> RollAsked(s, w),
           twoColor |-> \E i \in w : \/ s[i] = 119
                                     \/ /\ s[i] = ESC /\ s[i + 1] = 105 /\ s[i + 2] = 75
                                        /\ s[i + 3] % 2 = 1]
    BY <1>1, <1>2, <1>3, Zenon DEF ParseJob, Starts
  <2> HIDE DEF w
  <2> QED
    BY <1>3, <1>5, <1>6, <2>1, Zenon

LEMMA BlackRead ==
    ASSUME NEW s \in Seq(Byte), NEW k \in Nat \ {0}, NEW o \in Options, NEW two,
           Coded(s, 1, k, two, o), two = 2
    PROVE  ParseJob(s) = [pages    |-> k,
                          width    |-> IF o.nocheck THEN 0 ELSE 62,
                          twoColor |-> FALSE]
<1>1. \A j \in Walk(s)[1] : ~ Coloured(s, j) /\ (Marks(s, j) => ~ o.nocheck /\ s[j + 5] = 62)
  BY DEF Coded, Black
<1>2. Walk(s)[1] \subseteq 1 .. Len(s) /\ Cardinality(PrintsFrom(s, 1)) = k
  BY DEF Coded
<1>3. o.nocheck \/ \E j \in Walk(s)[1] : Marks(s, j)
  BY DEF Coded
<1>4. Parsed(s, k, o, FALSE)
  BY <1>1, <1>2, <1>3 DEF Parsed
<1> QED
  BY <1>4, JobRead

-----------------------------------------------------------------------------
(***************************************************************************)
(* A command is as long wherever it stands in full.                        *)
(***************************************************************************)
\* The bytes of a command that s holds at i are at p of t, too.
Copied(s, i, t, p) ==
    \A k \in 0 .. CommandLength(s, i) - 1 : p + k \in 1 .. Len(t) /\ t[p + k] = s[i + k]

LEMMA SameLength ==
    ASSUME NEW s \in Seq(Byte), NEW t \in Seq(Byte), NEW i \in 1 .. Len(s), NEW p \in Nat,
           Follows(s, i), Copied(s, i, t, p)
    PROVE  CommandLength(t, p) = CommandLength(s, i) /\ Follows(t, p)
<1>0. PICK n \in Nat : n = CommandLength(s, i)
  BY LengthIs
<1>1. n # 0 /\ i + n <= Len(s) + 1 /\ Len(s) \in Nat /\ Len(t) \in Nat
  BY <1>0 DEF Follows
<1>2. \A k \in 0 .. n - 1 : p + k \in 1 .. Len(t) /\ t[p + k] = s[i + k] /\ i + k \in 1 .. Len(s)
  <2>1. \A k \in 0 .. n - 1 : p + k \in 1 .. Len(t) /\ t[p + k] = s[i + k]
    BY <1>0 DEF Copied
  <2>2. \A k \in 0 .. n - 1 : i + k \in 1 .. Len(s)
    BY <1>1
  <2> QED
    BY <2>1, <2>2
<1>3. t[p] = s[i] /\ p \in 1 .. Len(t)
  <2>1. 0 \in 0 .. n - 1 /\ p + 0 = p /\ i + 0 = i
    BY <1>1
  <2> QED
    BY <1>2, <2>1
<1>4. n >= 2 => ByteAt(t, p + 1) = ByteAt(s, i + 1)
  <2>1. n >= 2 => 1 \in 0 .. n - 1
    OBVIOUS
  <2> QED
    BY <1>2, <2>1 DEF ByteAt
<1>5. n >= 3 => ByteAt(t, p + 2) = ByteAt(s, i + 2)
  <2>1. n >= 3 => 2 \in 0 .. n - 1
    OBVIOUS
  <2> QED
    BY <1>2, <2>1 DEF ByteAt
<1>6. \A j : ByteAt(s, j) \in Nat
  <2>0. Byte \subseteq Nat
    BY DEF Byte
  <2>1. \A j \in DOMAIN s : s[j] \in Byte
    OBVIOUS
  <2>2. \A j \in DOMAIN s : s[j] \in Nat
    BY <2>0, <2>1
  <2> QED
    BY <2>2 DEF ByteAt
<1>7. \A x : EscLength(x) = 0 \/ EscLength(x) \in {3, 4, 5, 13}
  BY DEF EscLength
<1>8. CommandLength(t, p) = n
  <2>1. CASE s[i] \in {0, PagePrint, LastPagePrint, 90, 77}
    BY <1>0, <1>3, <2>1 DEF CommandLength
  <2>2. CASE s[i] \in {103, 119}
    <3>1. s[i] \notin {0, PagePrint, LastPagePrint, 90} /\ s[i] # 77
      BY <2>2 DEF PagePrint, LastPagePrint
    <3>2. n = 3 + ByteAt(s, i + 2) /\ CommandLength(t, p) = 3 + ByteAt(t, p + 2)
      BY <1>0, <1>3, <2>2, <3>1 DEF CommandLength
    <3>3. n >= 3
      BY <1>6, <3>2
    <3> QED
      BY <1>5, <3>2, <3>3
  <2>3. CASE s[i] = 71
    <3>1. s[i] \notin {0, PagePrint, LastPagePrint, 90} /\ s[i] # 77 /\ s[i] \notin {103, 119}
      BY <2>3 DEF PagePrint, LastPagePrint
    <3>2. /\ n = 3 + ByteAt(s, i + 1) + 256 * ByteAt(s, i + 2)
          /\ CommandLength(t, p) = 3 + ByteAt(t, p + 1) + 256 * ByteAt(t, p + 2)
      BY <1>0, <1>3, <2>3, <3>1 DEF CommandLength
    <3>3. n >= 3
      <4>1. PICK a \in Nat, b \in Nat : a = ByteAt(s, i + 1) /\ b = ByteAt(s, i + 2)
        BY <1>6
      <4>2. n = 3 + a + 256 * b
        BY <3>2, <4>1
      <4> QED
        BY <4>2
    <3>4. n >= 2
      BY <3>3
    <3> QED
      BY <1>4, <1>5, <3>2, <3>3, <3>4
  <2>4. CASE /\ s[i] \notin {0, PagePrint, LastPagePrint, 90} /\ s[i] # 77
             /\ s[i] \notin {103, 119} /\ s[i] # 71
    <3>1. n = IF s[i] = ESC /\ ByteAt(s, i + 1) = 64 THEN 2
              ELSE IF s[i] = ESC /\ ByteAt(s, i + 1) = 105 THEN EscLength(ByteAt(s, i + 2))
              ELSE 0
      BY <1>0, <2>4 DEF CommandLength
    <3>2. CommandLength(t, p)
            = IF s[i] = ESC /\ ByteAt(t, p + 1) = 64 THEN 2
              ELSE IF s[i] = ESC /\ ByteAt(t, p + 1) = 105 THEN EscLength(ByteAt(t, p + 2))
              ELSE 0
      BY <1>3, <2>4 DEF CommandLength
    <3>3. CASE s[i] = ESC /\ ByteAt(s, i + 1) = 64
      <4>1. n = 2
        BY <3>1, <3>3
      <4>2. ByteAt(t, p + 1) = ByteAt(s, i + 1)
        BY <1>4, <4>1
      <4> QED
        BY <3>2, <3>3, <4>1, <4>2
    <3>4. CASE ~ (s[i] = ESC /\ ByteAt(s, i + 1) = 64)
      <4>0. n = IF s[i] = ESC /\ ByteAt(s, i + 1) = 105 THEN EscLength(ByteAt(s, i + 2)) ELSE 0
        BY <3>1, <3>4, Zenon
      <4>n. n # 0
        BY <1>1
      <4>1. s[i] = ESC /\ ByteAt(s, i + 1) = 105 /\ n = EscLength(ByteAt(s, i + 2))
        BY <4>0, <4>n, Zenon
      <4>2. n >= 2 /\ n >= 3
        <5>1. n \in {3, 4, 5, 13}
          BY <1>7, <4>n, <4>1, Zenon
        <5> QED
          BY <5>1
      <4>3. ByteAt(t, p + 1) = 105 /\ ByteAt(t, p + 2) = ByteAt(s, i + 2)
        BY <1>4, <1>5, <4>1, <4>2
      <4> QED
        BY <3>2, <4>1, <4>3
    <3> QED
      BY <3>3, <3>4
  <2> QED
    BY <2>1, <2>2, <2>3, <2>4
<1>9. p + n <= Len(t) + 1
  <2>1. n - 1 \in 0 .. n - 1
    BY <1>1
  <2>2. p + (n - 1) \in 1 .. Len(t)
    BY <1>2, <2>1
  <2> QED
    BY <1>1, <2>2
<1> QED
  BY <1>0, <1>1, <1>8, <1>9 DEF Follows

-----------------------------------------------------------------------------
(***************************************************************************)
(* A job that ends too early.                                              *)
(***************************************************************************)
Shortened(s, n, t) ==
    /\ t \in Seq(Byte) /\ Len(t) = n /\ \A j \in 1 .. n : t[j] = s[j]
    /\ 0 \in Walk(t)[1] \/ Walk(t)[1] \subseteq Walk(s)[1] \cap (1 .. n)

LEMMA CutWalk ==
    ASSUME NEW s \in Seq(Byte), NEW n \in 0 .. Len(s) - 1, NEW t, t = SubSeq(s, 1, n)
    PROVE  Shortened(s, n, t)
<1>0. Len(s) \in Nat /\ n \in Nat /\ n < Len(s)
  OBVIOUS
<1>1. t \in Seq(Byte) /\ Len(t) = n /\ \A j \in 1 .. n : t[j] = s[j]
  <2>1. \A j \in 1 .. n : j \in 1 .. Len(s)
    BY <1>0
  <2>2. 1 \in 1 .. Len(s) + 1 /\ n \in 1 - 1 .. Len(s)
    BY <1>0
  <2>3. Len(t) = n /\ \A j \in 1 .. n : t[j] = s[j]
    BY <1>0
  <2>4. t \in Seq(Byte)
    BY <1>0
  <2> QED
    BY <2>3, <2>4
<1> DEFINE N == n + 1
           S == {i \in 1 .. N : 0 \in Walk(t)[i] \/ Walk(t)[i] \subseteq Walk(s)[i] \cap (1 .. n)}
<1>2. ASSUME NEW i \in 1 .. N, (i + 1 .. N) \subseteq S PROVE i \in S
  <2>1. CASE i = N
    BY <1>1, <2>1, WalkOn
  <2>2. CASE i # N
    <3>1. i \in 1 .. Len(t) /\ i \in 1 .. Len(s)
      BY <1>0, <1>1, <2>2
    <3>2. CASE Follows(t, i)
      <4>1. PICK e \in i + 1 .. N : e = i + CommandLength(t, i)
        BY <1>1, <3>1, <3>2, LengthIs
      <4>2. Copied(t, i, s, i)
        <5>1. PICK m \in Nat : m = CommandLength(t, i)
          BY <1>1, <3>1, LengthIs
        <5>2. \A k \in 0 .. m - 1 : i + k \in 1 .. n /\ i + k \in 1 .. Len(s)
          BY <1>0, <4>1, <5>1
        <5>3. \A k \in 0 .. m - 1 : i + k \in 1 .. Len(s) /\ s[i + k] = t[i + k]
          BY <1>1, <5>2
        <5> QED
          BY <5>1, <5>3 DEF Copied
      <4>3. CommandLength(s, i) = CommandLength(t, i) /\ Follows(s, i)
        <5>1. i \in Nat
          OBVIOUS
        <5> QED
          BY <1>1, <3>1, <3>2, <4>2, <5>1, SameLength
      <4>4. Walk(t)[i] = {i} \cup Walk(t)[e] /\ Walk(s)[i] = {i} \cup Walk(s)[e]
        BY <1>1, <3>1, <3>2, <4>1, <4>3, WalkOn
      <4>5. 0 \in Walk(t)[e] \/ Walk(t)[e] \subseteq Walk(s)[e] \cap (1 .. n)
        BY <1>2, <4>1
      <4> QED
        BY <1>1, <3>1, <4>4, <4>5
    <3>3. CASE ~ Follows(t, i)
      <4>1. Walk(t)[i] = {0}
        BY <1>1, <3>1, <3>3, WalkOn
      <4> QED
        BY <4>1
    <3> QED
      BY <3>2, <3>3
  <2> QED
    BY <2>1, <2>2
<1>3. 1 .. N \subseteq S
  <2>1. N \in Nat
    BY <1>0
  <2> HIDE DEF S, N
  <2> QED
    BY <1>2, <2>1, DownInduction
<1>4. 1 \in S
  BY <1>0, <1>3
<1> QED
  BY <1>1, <1>4 DEF Shortened

LEMMA CutRead ==
    ASSUME NEW s \in Seq(Byte), NEW k \in Nat \ {0}, NEW o \in Options, NEW h,
           Coded(s, 1, k, h, o), 1 <= Len(s),
           NEW n \in 0 .. Len(s) - 1, NEW t, t = SubSeq(s, 1, n)
    PROVE  ParseJob(t).pages < k
<1>1. /\ t \in Seq(Byte) /\ Len(t) = n /\ \A j \in 1 .. n : t[j] = s[j]
      /\ 0 \in Walk(t)[1] \/ Walk(t)[1] \subseteq Walk(s)[1] \cap (1 .. n)
  <2>1. Shortened(s, n, t)
    BY CutWalk
  <2> QED
    BY <2>1 DEF Shortened
<1> DEFINE w == Walk(t)[1]
           pages == IF 0 \in w THEN {} ELSE {i \in w : t[i] \in {PagePrint, LastPagePrint}}
<1>2. pages \subseteq PrintsFrom(s, 1) \ {Len(s)}
  <2>1. \A j \in 1 .. n : j # Len(s)
    OBVIOUS
  <2> QED
    BY <1>1, <2>1 DEF PrintsFrom, Prints
<1>3. Len(s) \in PrintsFrom(s, 1) /\ Cardinality(PrintsFrom(s, 1)) = k
  BY DEF Coded, PrintsFrom
<1>4. IsFiniteSet(PrintsFrom(s, 1))
  <2>1. PrintsFrom(s, 1) \in SUBSET (1 .. Len(s))
    BY DEF Coded, PrintsFrom
  <2>2. IsFiniteSet(1 .. Len(s))
    <3>1. 1 \in Int /\ Len(s) \in Int
      OBVIOUS
    <3> QED
      BY <3>1, FS_Interval
  <2> QED
    BY <2>1, <2>2, FS_Subset
<1>5. /\ IsFiniteSet(PrintsFrom(s, 1) \ {Len(s)})
      /\ Cardinality(PrintsFrom(s, 1) \ {Len(s)}) = k - 1
  BY <1>3, <1>4, FS_RemoveElement
<1>6. Cardinality(pages) <= k - 1 /\ Cardinality(pages) \in Nat
  <2> HIDE DEF pages
  <2>1. pages \in SUBSET (PrintsFrom(s, 1) \ {Len(s)})
    BY <1>2
  <2>2. PICK T : T = PrintsFrom(s, 1) \ {Len(s)}
    OBVIOUS
  <2>3. IsFiniteSet(T) /\ Cardinality(T) = k - 1 /\ pages \in SUBSET T
    BY <1>5, <2>1, <2>2
  <2>4. IsFiniteSet(pages) /\ Cardinality(pages) <= Cardinality(T)
    BY <2>3, FS_Subset
  <2>5. Cardinality(pages) \in Nat
    BY <2>4, FS_CardinalityType
  <2> QED
    BY <2>3, <2>4, <2>5
<1>7. ParseJob(t).pages = IF pages = {} THEN 0 ELSE Cardinality(pages)
  <2>1. CASE pages = {}
    <3>1. ParseJob(t) = NoJob
      BY <2>1, Zenon DEF ParseJob, Starts
    <3> QED
      BY <2>1, <3>1 DEF NoJob
  <2>2. CASE pages # {}
    <3>1. PICK r, d : ParseJob(t) = [pages |-> Cardinality(pages), width |-> r, twoColor |-> d]
      BY <2>2, Zenon DEF ParseJob, Starts
    <3> HIDE DEF pages
    <3> QED
      BY <2>2, <3>1
  <2> QED
    BY <2>1, <2>2
<1> QED
  <2> HIDE DEF pages
  <2>1. PICK c \in Nat : c = Cardinality(pages)
    BY <1>6
  <2>2. c <= k - 1
    BY <1>6, <2>1
  <2>3. ParseJob(t).pages = 0 \/ ParseJob(t).pages = c
    BY <1>7, <2>1
  <2>4. c < k /\ 0 < k
    BY <2>2
  <2> QED
    BY <2>3, <2>4
-----------------------------------------------------------------------------
(***************************************************************************)
(* The commands of a two-colour job.                                       *)
(***************************************************************************)
\* A command that starts with ESC is held with the bytes that tell what it is.
EscShape(s, i) ==
    \/ CommandLength(s, i) = 2 /\ s[i + 1] = 64
    \/ /\ s[i + 1] = 105 /\ CommandLength(s, i) = EscLength(s[i + 2])
       /\ CommandLength(s, i) \in {3, 4, 5, 13}

LEMMA EscIs ==
    ASSUME NEW s \in Seq(Byte), NEW i \in 1 .. Len(s), Follows(s, i), s[i] = 27
    PROVE  EscShape(s, i)
<1>1. CommandLength(s, i) # 0 /\ i + CommandLength(s, i) <= Len(s) + 1
  BY DEF Follows
<1>2. CommandLength(s, i) =
        IF ByteAt(s, i + 1) = 64 THEN 2
        ELSE IF ByteAt(s, i + 1) = 105 THEN EscLength(ByteAt(s, i + 2)) ELSE 0
  BY DEF CommandLength, ESC, PagePrint, LastPagePrint
<1>3. \A j : ByteAt(s, j) # 255 => ByteAt(s, j) = s[j]
  BY DEF ByteAt
<1>4. CASE ByteAt(s, i + 1) = 64
  BY <1>2, <1>3, <1>4 DEF EscShape
<1>5. CASE ByteAt(s, i + 1) # 64
  <2>1. ByteAt(s, i + 1) = 105 /\ CommandLength(s, i) = EscLength(ByteAt(s, i + 2))
    BY <1>1, <1>2, <1>5
  <2>2. EscLength(255) = 0 /\ \A x : EscLength(x) = 0 \/ EscLength(x) \in {3, 4, 5, 13}
    BY DEF EscLength
  <2>3. ByteAt(s, i + 2) # 255
    BY <1>1, <2>1, <2>2
  <2>4. s[i + 1] = 105 /\ ByteAt(s, i + 2) = s[i + 2]
    BY <1>3, <2>1, <2>3
  <2> QED
    BY <1>1, <2>1, <2>2, <2>4 DEF EscShape
<1> QED
  BY <1>4, <1>5

\* A row of one colour.
IsRed(a) == a \in Seq(Byte) /\ Len(a) >= 3 /\ a[1] = 119 /\ a[3] = Len(a) - 3

LEMMA RedIs ==
    ASSUME NEW x \in Byte, NEW m \in Byte, NEW c \in Seq(Byte), Len(c) = m
    PROVE  IsRed(<<119, x, m>> \o c)
<1> DEFINE g == <<119, x, m>>
<1>1. g \in Seq(Byte) /\ Len(g) = 3 /\ g[1] = 119 /\ g[3] = m
  <2>1. 119 \in Byte
    BY DEF Byte
  <2> QED
    BY <2>1
<1>2. m \in Nat
  BY DEF Byte
<1> HIDE DEF g
<1>3. /\ g \o c \in Seq(Byte) /\ Len(g \o c) = Len(g) + Len(c)
      /\ \A k \in 1 .. Len(g) + Len(c) :
            (g \o c)[k] = IF k <= Len(g) THEN g[k] ELSE c[k - Len(g)]
  <2>1. g \in Seq(Byte) /\ c \in Seq(Byte)
    BY <1>1
  <2> QED
    BY <2>1, ConcatProperties
<1>4. 1 \in 1 .. 3 + m /\ 3 \in 1 .. 3 + m
  BY <1>2
<1>5. Len(g \o c) = 3 + m /\ (g \o c)[1] = 119 /\ (g \o c)[3] = m
  BY <1>1, <1>3, <1>4
<1>6. IsRed(g \o c)
  BY <1>2, <1>3, <1>5 DEF IsRed
<1> QED
  BY <1>6 DEF g

LEMMA ConvertRow ==
    ASSUME NEW s \in Seq(Byte), NEW i \in 1 .. Len(s), Follows(s, i), s[i] = 103
    PROVE  \E a, b : Rewritten(s, i) = a \o b /\ IsRed(a) /\ IsRed(b)
<1>0. PICK n \in Nat : n = CommandLength(s, i)
  BY LengthIs
<1>1. n = 3 + ByteAt(s, i + 2) /\ i + n <= Len(s) + 1 /\ Len(s) \in Nat
  BY <1>0 DEF CommandLength, Follows, PagePrint, LastPagePrint
<1>2. PICK m \in Byte : m = ByteAt(s, i + 2)
  <2>1. \A j \in DOMAIN s : s[j] \in Byte
    OBVIOUS
  <2>2. 255 \in Byte
    BY DEF Byte
  <2> QED
    BY <2>1, <2>2 DEF ByteAt
<1>3. m \in Nat /\ n - 3 = m /\ n = m + 3
  <2>1. m \in Nat
    BY DEF Byte
  <2> QED
    BY <1>1, <1>2, <2>1
<1> DEFINE c == SubSeq(s, i + 3, i + n - 1)
           z == [k \in 1 .. n - 3 |-> 0]
<1>4. c \in Seq(Byte) /\ Len(c) = m
  <2>1. PICK x \in Int, y \in Int : x = i + 3 /\ y = i + n - 1
    OBVIOUS
  <2>2. \A j \in x .. y : s[j] \in Byte
    <3>1. \A j \in x .. y : j \in 1 .. Len(s)
      BY <1>1, <1>3, <2>1
    <3> QED
      BY <3>1
  <2>3. /\ SubSeq(s, x, y) \in Seq(Byte)
        /\ Len(SubSeq(s, x, y)) = IF x <= y THEN y - x + 1 ELSE 0
    BY <2>2, SubSeqProperties
  <2>4. (IF x <= y THEN y - x + 1 ELSE 0) = m
    BY <1>3, <2>1
  <2> QED
    BY <2>1, <2>3, <2>4
<1>5. z \in Seq(Byte) /\ Len(z) = m
  <2>1. z = [k \in 1 .. m |-> 0] /\ 0 \in Byte
    BY <1>3 DEF Byte
  <2>2. [k \in 1 .. m |-> 0] \in Seq(Byte) /\ Len([k \in 1 .. m |-> 0]) = m
    BY <1>3, <2>1, IsASeq
  <2> QED
    BY <2>1, <2>2
<1>6. Rewritten(s, i) = (<<119, 1, m>> \o c) \o (<<119, 2, m>> \o z)
  <2>1. Rewritten(s, i) = (<<119, 1, n - 3>> \o c) \o (<<119, 2, n - 3>> \o z)
    BY <1>0, Zenon DEF Rewritten
  <2> HIDE DEF c, z
  <2> QED
    BY <1>3, <2>1
<1> HIDE DEF c, z
<1>7. 1 \in Byte /\ 2 \in Byte
  BY DEF Byte
<1>8. IsRed(<<119, 1, m>> \o c) /\ IsRed(<<119, 2, m>> \o z)
  BY <1>4, <1>5, <1>7, RedIs
<1> QED
  BY <1>6, <1>8

LEMMA ConvertMode ==
    ASSUME NEW s \in Seq(Byte), NEW i \in 1 .. Len(s), Follows(s, i), Expands(s, i)
    PROVE  \E x \in Byte : Rewritten(s, i) = <<27, 105, 75, x>> /\ x % 2 = 1
<1>1. s[i] = 27 /\ s[i + 1] = 105 /\ s[i + 2] = 75
  BY DEF Expands, ESC
<1>2. EscLength(75) = 4
  BY DEF EscLength
<1>3. CommandLength(s, i) = 4
  <2>1. EscShape(s, i)
    BY <1>1, EscIs
  <2> QED
    BY <1>1, <1>2, <2>1 DEF EscShape
<1>4. i + 4 <= Len(s) + 1 /\ Len(s) \in Nat
  BY <1>3 DEF Follows
<1>5. PICK y \in Byte : y = s[i + 3]
  <2>1. i + 3 \in 1 .. Len(s)
    BY <1>4
  <2> QED
    BY <2>1
<1> DEFINE x == y + (IF y % 2 = 0 THEN 1 ELSE 0)
<1>6. x \in Byte /\ x % 2 = 1
  <2>1. y \in Nat /\ y <= 255
    BY DEF Byte
  <2>2. CASE y % 2 = 0
    <3>1. x = y + 1 /\ (y + 1) % 2 = 1 /\ y # 255
      BY <2>1, <2>2
    <3> QED
      BY <2>1, <3>1 DEF Byte
  <2>3. CASE y % 2 # 0
    <3>1. x = y /\ y % 2 = 1
      BY <2>1, <2>3
    <3> QED
      BY <3>1
  <2> QED
    BY <2>2, <2>3
<1>7. Rewritten(s, i) = <<ESC, 105, 75, x>>
  <2>1. Rewritten(s, i) = <<ESC, 105, 75, s[i + 3] + (IF s[i + 3] % 2 = 0 THEN 1 ELSE 0)>>
    <3>1. s[i] # 103 /\ s[i] = ESC
      BY <1>1 DEF ESC
    <3> QED
      BY <1>1, <3>1, Zenon DEF Rewritten
  <2> QED
    BY <1>5, <2>1
<1> HIDE DEF x
<1> QED
  BY <1>6, <1>7 DEF ESC

\* All other commands are copied: c is the n bytes from i on.
Taken(s, i, n, c) ==
    c \in Seq(Byte) /\ Len(c) = n /\ \A k \in 1 .. n : c[k] = s[(i + k) - 1]

LEMMA ConvertOther ==
    ASSUME NEW s \in Seq(Byte), NEW i \in 1 .. Len(s), Follows(s, i), s[i] # 103,
           ~ Expands(s, i), NEW n \in Nat, n = CommandLength(s, i)
    PROVE  Taken(s, i, n, Rewritten(s, i))
<1>1. n # 0 /\ i + n <= Len(s) + 1 /\ Len(s) \in Nat
  BY DEF Follows
<1>2. PICK m \in Int : m = i + n - 1
  OBVIOUS
<1>3. Rewritten(s, i) = SubSeq(s, i, m)
  <2>1. Rewritten(s, i) = SubSeq(s, i, i + n - 1)
    BY Zenon DEF Rewritten, Expands
  <2> QED
    BY <1>2, <2>1
<1>4. \A j \in i .. m : s[j] \in Byte
  <2>1. \A j \in i .. m : j \in 1 .. Len(s)
    BY <1>1, <1>2
  <2> QED
    BY <2>1
<1>5. /\ SubSeq(s, i, m) \in Seq(Byte)
      /\ Len(SubSeq(s, i, m)) = IF i <= m THEN m - i + 1 ELSE 0
      /\ \A k \in 1 .. m - i + 1 : SubSeq(s, i, m)[k] = s[i + k - 1]
  <2>1. i \in Int
    OBVIOUS
  <2> QED
    BY <1>4, <2>1, SubSeqProperties
<1>6. i <= m /\ m - i + 1 = n /\ \A k \in 1 .. n : i + k - 1 = (i + k) - 1
  BY <1>1, <1>2
<1> QED
  BY <1>3, <1>5, <1>6 DEF Taken

LEMMA RewrittenType ==
    ASSUME NEW s \in Seq(Byte), NEW i \in 1 .. Len(s), Follows(s, i)
    PROVE  Rewritten(s, i) \in Seq(Byte)
<1>1. CASE s[i] = 103
  <2>1. PICK a, b : Rewritten(s, i) = a \o b /\ IsRed(a) /\ IsRed(b)
    BY <1>1, ConvertRow
  <2>2. a \in Seq(Byte) /\ b \in Seq(Byte)
    BY <2>1 DEF IsRed
  <2> QED
    BY <2>1, <2>2
<1>2. CASE s[i] # 103 /\ Expands(s, i)
  <2>1. PICK x \in Byte : Rewritten(s, i) = <<27, 105, 75, x>>
    BY <1>2, ConvertMode
  <2>2. 27 \in Byte /\ 105 \in Byte /\ 75 \in Byte
    BY DEF Byte
  <2> QED
    BY <2>1, <2>2
<1>3. CASE s[i] # 103 /\ ~ Expands(s, i)
  <2>1. PICK n \in Nat : n = CommandLength(s, i)
    BY LengthIs
  <2> QED
    BY <1>3, <2>1, ConvertOther DEF Taken
<1> QED
  BY <1>1, <1>2, <1>3

\* The whole stream.
LEMMA RewrittenIs ==
    ASSUME NEW s \in Seq(Byte)
    PROVE  /\ RewrittenAll(s) \in [1 .. Len(s) + 1 -> Seq(Byte)]
           /\ \A i \in 1 .. Len(s) + 1 :
                 RewrittenAll(s)[i] = RewrittenFrom(s, RewrittenAll(s), i)
<1> DEFINE D == 1 .. Len(s) + 1
           N == Len(s) + 1
           V == Seq(Byte)
           rank == [i \in D |-> N - i]
           step == [i \in D |-> [f \in [D -> V] |-> RewrittenFrom(s, f, i)]]
           Goes(i) == ~ (i > Len(s)) /\ Convertible(s, i)
<1>0. Len(s) \in Nat /\ N \in Nat /\ <<>> \in V
  OBVIOUS
<1>a. \A i \in D : \A f : ~ Goes(i) => RewrittenFrom(s, f, i) = <<>>
  BY DEF RewrittenFrom
<1>b. ASSUME NEW i \in D, NEW f, Goes(i)
      PROVE  /\ Rewritten(s, i) \in V
             /\ \E j \in i + 1 .. N : RewrittenFrom(s, f, i) = Rewritten(s, i) \o f[j]
                                      /\ j = i + CommandLength(s, i)
  <2>1. i \in 1 .. Len(s) /\ Follows(s, i)
    BY <1>0, <1>b DEF Convertible
  <2>2. PICK j \in i + 1 .. N : j = i + CommandLength(s, i)
    BY <2>1, LengthIs
  <2>3. RewrittenFrom(s, f, i) = Rewritten(s, i) \o f[i + CommandLength(s, i)]
    BY <1>b DEF RewrittenFrom
  <2>4. Rewritten(s, i) \in V
    BY <2>1, RewrittenType
  <2> QED
    BY <2>2, <2>3, <2>4
<1>1. ASSUME NEW i \in D, NEW f \in [D -> V] PROVE RewrittenFrom(s, f, i) \in V
  <2>1. CASE Goes(i)
    <3>1. Rewritten(s, i) \in V
      BY <1>b, <2>1
    <3>2. PICK j \in i + 1 .. N : RewrittenFrom(s, f, i) = Rewritten(s, i) \o f[j]
      BY <1>b, <2>1
    <3>3. j \in D
      BY <1>0, <3>2
    <3>4. PICK a \in V, b \in V : a = Rewritten(s, i) /\ b = f[j]
      BY <3>1, <3>3
    <3> QED
      BY <3>2, <3>4
  <2>2. CASE ~ Goes(i)
    BY <1>0, <1>a, <2>2
  <2> QED
    BY <2>1, <2>2
<1>2. ASSUME NEW i \in D, NEW f \in [D -> V], NEW g \in [D -> V],
             \A j \in D : rank[j] < rank[i] => f[j] = g[j]
      PROVE  RewrittenFrom(s, f, i) = RewrittenFrom(s, g, i)
  <2>1. CASE Goes(i)
    <3>1. PICK j \in i + 1 .. N : RewrittenFrom(s, f, i) = Rewritten(s, i) \o f[j]
                                  /\ j = i + CommandLength(s, i)
      BY <1>b, <2>1
    <3>2. RewrittenFrom(s, g, i) = Rewritten(s, i) \o g[j]
      BY <1>b, <2>1, <3>1
    <3>3. j \in D /\ N - j < N - i
      BY <1>0, <3>1
    <3>4. f[j] = g[j]
      BY <1>2, <3>3
    <3> QED
      BY <3>1, <3>2, <3>4
  <2>2. CASE ~ Goes(i)
    BY <1>a, <2>2
  <2> QED
    BY <2>1, <2>2
<1>3. rank \in [D -> 0 .. N]
  BY <1>0
<1>4. step \in [D -> [[D -> V] -> V]]
  BY <1>1
<1>5. Recursive(D, N, rank, V, step)
  <2>1. \A i \in D : \A f, g \in [D -> V] :
           (\A j \in D : rank[j] < rank[i] => f[j] = g[j]) => step[i][f] = step[i][g]
    BY <1>2
  <2>2. V # {}
    BY <1>0
  <2> HIDE DEF D, N, V, rank, step
  <2> QED
    BY <1>0, <1>3, <1>4, <2>1, <2>2 DEF Recursive
<1>6. \A i \in D : \A f \in [D -> V] : step[i][f] = RewrittenFrom(s, f, i)
  OBVIOUS
<1>7. PICK f \in [D -> V] : \A i \in D : f[i] = step[i][f]
  <2> HIDE DEF D, N, V, rank, step
  <2> QED
    BY <1>5, Recursion
<1>8. f = [i \in 1 .. Len(s) + 1 |-> RewrittenFrom(s, f, i)]
  BY <1>6, <1>7
<1>9. RewrittenAll(s) = CHOOSE g : g = [i \in 1 .. Len(s) + 1 |-> RewrittenFrom(s, g, i)]
  BY Zenon DEF RewrittenAll
<1> DEFINE w == RewrittenAll(s)
<1>10. w = [i \in D |-> RewrittenFrom(s, w, i)]
  BY <1>8, <1>9, Zenon
<1>11. \A i \in D : w[i] = RewrittenFrom(s, w, i)
  <2> HIDE DEF w
  <2> QED
    BY <1>10
<1> HIDE DEF w, V
<1> DEFINE S == {i \in D : w[i] \in V}
<1>12. ASSUME NEW i \in 1 .. N, (i + 1 .. N) \subseteq S PROVE i \in S
  <2>1. CASE Goes(i)
    <3>1. Rewritten(s, i) \in V
      BY <1>b, <2>1
    <3>2. PICK j \in i + 1 .. N : RewrittenFrom(s, w, i) = Rewritten(s, i) \o w[j]
      BY <1>b, <2>1
    <3>3. w[j] \in V
      BY <1>12, <3>2
    <3>4. Rewritten(s, i) \o w[j] \in V
      <4>1. PICK a, b : a = Rewritten(s, i) /\ b = w[j]
        OBVIOUS
      <4>2. a \in Seq(Byte) /\ b \in Seq(Byte)
        BY <3>1, <3>3, <4>1 DEF V
      <4>3. a \o b \in Seq(Byte)
        BY <4>2
      <4> QED
        BY <4>1, <4>3 DEF V
    <3> QED
      BY <1>11, <3>2, <3>4
  <2>2. CASE ~ Goes(i)
    BY <1>0, <1>a, <1>11, <2>2
  <2> QED
    BY <2>1, <2>2
<1>13. 1 .. N \subseteq S
  <2> HIDE DEF S, N
  <2> QED
    BY <1>0, <1>12, DownInduction
<1>14. w \in [D -> V]
  <2>1. w = [i \in D |-> w[i]]
    BY <1>10
  <2> QED
    BY <1>13, <2>1
<1> QED
  BY <1>11, <1>14 DEF w, V
-----------------------------------------------------------------------------
(***************************************************************************)
(* The walk over a two-colour job keeps to the walk over the black one.    *)
(***************************************************************************)
Convertibles(s, i) == \A j \in Walk(s)[i] : j # 0 /\ Convertible(s, j)

\* What t says from p on is what s says from i on, in two colours.
Recoloured(s, i, t, p) ==
    /\ Walk(s)[i] \subseteq i .. Len(s) /\ Walk(t)[p] \subseteq p .. Len(t)
    /\ Cardinality(PrintsFrom(t, p)) = Cardinality(PrintsFrom(s, i))
    /\ \A j \in Walk(t)[p] :
          Marks(t, j) => \E l \in Walk(s)[i] : Marks(s, l) /\ t[j + 5] = s[l + 5]
    /\ \A l \in Walk(s)[i] : Marks(s, l) => \E j \in Walk(t)[p] : Marks(t, j)
    /\ \A l \in Walk(s)[i] : Expands(s, l) => \E j \in Walk(t)[p] : Coloured(t, j)

\* The command of t at p does what that of s at i did.
Matches(s, i, t, p) ==
    /\ Follows(s, i) /\ Follows(t, p)
    /\ s[i] \in Prints <=> t[p] \in Prints
    /\ Marks(t, p) => Marks(s, i) /\ t[p + 5] = s[i + 5]
    /\ Marks(s, i) => Marks(t, p)
    /\ Expands(s, i) => Coloured(t, p)

\* One more command counts one more label, or none.
LEMMA OneMore ==
    ASSUME NEW s \in Seq(Byte), NEW i \in 1 .. Len(s), Follows(s, i),
           NEW e, e = i + CommandLength(s, i), Walk(s)[e] \subseteq e .. Len(s)
    PROVE  /\ Walk(s)[i] = {i} \cup Walk(s)[e] /\ Walk(s)[i] \subseteq i .. Len(s)
           /\ Cardinality(PrintsFrom(s, i))
                = Cardinality(PrintsFrom(s, e)) + (IF s[i] \in Prints THEN 1 ELSE 0)
<1>0. Len(s) \in Nat /\ i \in Nat /\ e \in i + 1 .. Len(s) + 1
  BY LengthIs
<1>1. Walk(s)[i] = {i} \cup Walk(s)[e]
  BY WalkOn
<1>2. Walk(s)[i] \subseteq i .. Len(s) /\ i \notin Walk(s)[e]
  BY <1>0, <1>1
<1>3. IsFiniteSet(PrintsFrom(s, e)) /\ Cardinality(PrintsFrom(s, e)) \in Nat
  <2>1. PrintsFrom(s, e) \in SUBSET (e .. Len(s))
    BY DEF PrintsFrom
  <2>2. IsFiniteSet(e .. Len(s))
    <3>1. e \in Int /\ Len(s) \in Int
      BY <1>0
    <3> QED
      BY <3>1, FS_Interval
  <2>3. IsFiniteSet(PrintsFrom(s, e))
    BY <2>1, <2>2, FS_Subset
  <2> QED
    BY <2>3, FS_CardinalityType
<1>4. CASE s[i] \in Prints
  <2>1. PrintsFrom(s, i) = PrintsFrom(s, e) \cup {i} /\ i \notin PrintsFrom(s, e)
    BY <1>1, <1>2, <1>4 DEF PrintsFrom
  <2>2. Cardinality(PrintsFrom(s, i)) = Cardinality(PrintsFrom(s, e)) + 1
    BY <1>3, <2>1, FS_AddElement
  <2> QED
    BY <1>1, <1>2, <1>4, <2>2
<1>5. CASE s[i] \notin Prints
  <2>1. PrintsFrom(s, i) = PrintsFrom(s, e)
    BY <1>1, <1>5 DEF PrintsFrom
  <2> QED
    BY <1>1, <1>2, <1>3, <1>5, <2>1
<1> QED
  BY <1>4, <1>5

LEMMA TurnedMore ==
    ASSUME NEW s \in Seq(Byte), NEW i \in 1 .. Len(s), NEW t \in Seq(Byte), NEW p \in 1 .. Len(t),
           NEW e, e = i + CommandLength(s, i), NEW q, q = p + CommandLength(t, p),
           Matches(s, i, t, p), Recoloured(s, e, t, q)
    PROVE  Recoloured(s, i, t, p)
<1>0. /\ Follows(s, i) /\ Follows(t, p)
      /\ Walk(s)[e] \subseteq e .. Len(s) /\ Walk(t)[q] \subseteq q .. Len(t)
  BY DEF Matches, Recoloured
<1>1. /\ Walk(s)[i] = {i} \cup Walk(s)[e] /\ Walk(s)[i] \subseteq i .. Len(s)
      /\ Cardinality(PrintsFrom(s, i))
           = Cardinality(PrintsFrom(s, e)) + (IF s[i] \in Prints THEN 1 ELSE 0)
  BY <1>0, OneMore
<1>2. /\ Walk(t)[p] = {p} \cup Walk(t)[q] /\ Walk(t)[p] \subseteq p .. Len(t)
      /\ Cardinality(PrintsFrom(t, p))
           = Cardinality(PrintsFrom(t, q)) + (IF t[p] \in Prints THEN 1 ELSE 0)
  BY <1>0, OneMore
<1>3. Cardinality(PrintsFrom(t, p)) = Cardinality(PrintsFrom(s, i))
  <2>1. Cardinality(PrintsFrom(t, q)) = Cardinality(PrintsFrom(s, e))
    BY DEF Recoloured
  <2>2. (IF s[i] \in Prints THEN 1 ELSE 0) = (IF t[p] \in Prints THEN 1 ELSE 0)
    BY DEF Matches
  <2> QED
    BY <1>1, <1>2, <2>1, <2>2
<1>4. ASSUME NEW j \in Walk(t)[p], Marks(t, j)
      PROVE  \E l \in Walk(s)[i] : Marks(s, l) /\ t[j + 5] = s[l + 5]
  <2>1. CASE j = p
    BY <1>1, <1>4, <2>1 DEF Matches
  <2>2. CASE j \in Walk(t)[q]
    <3>1. \E l \in Walk(s)[e] : Marks(s, l) /\ t[j + 5] = s[l + 5]
      BY <1>4, <2>2 DEF Recoloured
    <3> QED
      BY <1>1, <3>1
  <2> QED
    BY <1>2, <2>1, <2>2
<1>5. ASSUME NEW l \in Walk(s)[i], Marks(s, l) PROVE \E j \in Walk(t)[p] : Marks(t, j)
  <2>1. CASE l = i
    BY <1>2, <1>5, <2>1 DEF Matches
  <2>2. CASE l \in Walk(s)[e]
    <3>1. \E j \in Walk(t)[q] : Marks(t, j)
      BY <1>5, <2>2 DEF Recoloured
    <3> QED
      BY <1>2, <3>1
  <2> QED
    BY <1>1, <2>1, <2>2
<1>6. ASSUME NEW l \in Walk(s)[i], Expands(s, l) PROVE \E j \in Walk(t)[p] : Coloured(t, j)
  <2>1. CASE l = i
    BY <1>2, <1>6, <2>1 DEF Matches
  <2>2. CASE l \in Walk(s)[e]
    <3>1. \E j \in Walk(t)[q] : Coloured(t, j)
      BY <1>6, <2>2 DEF Recoloured
    <3> QED
      BY <1>2, <3>1
  <2> QED
    BY <1>1, <2>1, <2>2
<1> QED
  BY <1>1, <1>2, <1>3, <1>4, <1>5, <1>6 DEF Recoloured

\* A row of one colour prints nothing and says nothing of the roll.
RedAt(t, p, a) ==
    /\ p \in 1 .. Len(t) /\ t[p] = 119 /\ Follows(t, p) /\ CommandLength(t, p) = Len(a)
    /\ t[p] \notin Prints /\ ~ Marks(t, p)

LEMMA RedRow ==
    ASSUME NEW t \in Seq(Byte), NEW p, NEW a, At(t, p, a), IsRed(a)
    PROVE  RedAt(t, p, a)
<1>1. a \in Seq(Byte) /\ Len(a) >= 3 /\ a[1] = 119 /\ a[3] = Len(a) - 3 /\ Len(a) \in Nat
  BY DEF IsRed
<1>2. Len(a) # 0
  BY <1>1
<1>3. Holds(t, p, a)
  BY <1>1, <1>2, AtBytes
<1>4. /\ p \in 1 .. Len(t) /\ p + Len(a) \in p + 1 .. Len(t) + 1 /\ t[p] = 119
      /\ p + 2 \in 1 .. Len(t) /\ t[p + 2] = Len(a) - 3
  <2>1. 2 \in 1 .. Len(a) - 1 /\ 2 + 1 = 3
    BY <1>1
  <2> QED
    BY <1>1, <1>3, <2>1 DEF Holds
<1>5. ByteAt(t, p + 2) = Len(a) - 3
  BY <1>4 DEF ByteAt
<1>6. CommandLength(t, p) = 3 + (Len(a) - 3)
  BY <1>4, <1>5 DEF CommandLength, PagePrint, LastPagePrint
<1>7. CommandLength(t, p) = Len(a)
  BY <1>1, <1>6
<1>8. Follows(t, p)
  BY <1>1, <1>2, <1>4, <1>7 DEF Follows
<1>9. t[p] \notin Prints /\ ~ Marks(t, p)
  BY <1>4 DEF Prints, PagePrint, LastPagePrint, Marks, ESC
<1> QED
  BY <1>4, <1>7, <1>8, <1>9 DEF RedAt

LEMMA TurnedRed ==
    ASSUME NEW s \in Seq(Byte), NEW i, NEW t \in Seq(Byte), NEW p, NEW a, RedAt(t, p, a),
           NEW q, q = p + Len(a), Recoloured(s, i, t, q)
    PROVE  Recoloured(s, i, t, p)
<1>1. /\ p \in 1 .. Len(t) /\ Follows(t, p) /\ q = p + CommandLength(t, p)
      /\ t[p] \notin Prints /\ ~ Marks(t, p)
  BY DEF RedAt
<1>2. Walk(t)[q] \subseteq q .. Len(t)
  BY DEF Recoloured
<1>3. /\ Walk(t)[p] = {p} \cup Walk(t)[q] /\ Walk(t)[p] \subseteq p .. Len(t)
      /\ Cardinality(PrintsFrom(t, p))
           = Cardinality(PrintsFrom(t, q)) + (IF t[p] \in Prints THEN 1 ELSE 0)
  BY <1>1, <1>2, OneMore
<1>4. PrintsFrom(t, p) = PrintsFrom(t, q)
  BY <1>1, <1>3 DEF PrintsFrom
<1>5. Cardinality(PrintsFrom(t, p)) = Cardinality(PrintsFrom(s, i))
  BY <1>4 DEF Recoloured
<1>6. ASSUME NEW j \in Walk(t)[p], Marks(t, j)
      PROVE  \E l \in Walk(s)[i] : Marks(s, l) /\ t[j + 5] = s[l + 5]
  <2>1. j \in Walk(t)[q]
    BY <1>1, <1>3, <1>6
  <2> QED
    BY <1>6, <2>1 DEF Recoloured
<1>7. /\ \A l \in Walk(s)[i] : Marks(s, l) => \E j \in Walk(t)[p] : Marks(t, j)
      /\ \A l \in Walk(s)[i] : Expands(s, l) => \E j \in Walk(t)[p] : Coloured(t, j)
  <2>1. \A j \in Walk(t)[q] : j \in Walk(t)[p]
    BY <1>3
  <2> QED
    BY <2>1 DEF Recoloured
<1>8. Walk(s)[i] \subseteq i .. Len(s)
  BY DEF Recoloured
<1> QED
  BY <1>3, <1>5, <1>6, <1>7, <1>8 DEF Recoloured
\* A row becomes two.
LEMMA TurnedRow ==
    ASSUME NEW s \in Seq(Byte), NEW i \in 1 .. Len(s), NEW t \in Seq(Byte), NEW p,
           Follows(s, i), s[i] = 103, At(t, p, Rewritten(s, i)),
           NEW e, e = i + CommandLength(s, i), NEW q, q = p + Len(Rewritten(s, i)),
           Recoloured(s, e, t, q)
    PROVE  Recoloured(s, i, t, p)
<1>1. PICK a, b : Rewritten(s, i) = a \o b /\ IsRed(a) /\ IsRed(b)
  BY ConvertRow
<1>2. a \in Seq(Byte) /\ b \in Seq(Byte)
  BY <1>1 DEF IsRed
<1>3. PICK r : r = p + Len(a)
  OBVIOUS
<1>4. At(t, p, a) /\ At(t, r, b) /\ q = r + Len(b)
  <2>1. At(t, p, a \o b) /\ q = p + Len(a \o b)
    BY <1>1
  <2>2. Both(t, p, a, b)
    BY <1>2, <2>1, AtJoin
  <2> QED
    BY <1>3, <2>1, <2>2 DEF Both
<1>5. RedAt(t, p, a) /\ RedAt(t, r, b)
  BY <1>1, <1>4, RedRow
<1>6. Matches(s, i, t, r)
  BY <1>5 DEF RedAt, Matches, Marks, Expands, Prints, PagePrint, LastPagePrint, ESC
<1>7. r \in 1 .. Len(t) /\ q = r + CommandLength(t, r)
  BY <1>4, <1>5 DEF RedAt
<1>8. Recoloured(s, i, t, r)
  BY <1>6, <1>7, TurnedMore
<1> QED
  BY <1>3, <1>5, <1>8, TurnedRed

\* The expanded mode is set in two colours.
LEMMA TurnedMode ==
    ASSUME NEW s \in Seq(Byte), NEW i \in 1 .. Len(s), NEW t \in Seq(Byte), NEW p,
           Follows(s, i), Expands(s, i), At(t, p, Rewritten(s, i)),
           NEW e, e = i + CommandLength(s, i), NEW q, q = p + Len(Rewritten(s, i)),
           Recoloured(s, e, t, q)
    PROVE  Recoloured(s, i, t, p)
<1>1. PICK y \in Byte : Rewritten(s, i) = <<27, 105, 75, y>> /\ y % 2 = 1
  BY ConvertMode
<1>2. PICK c : c = <<27, 105, 75, y>>
  OBVIOUS
<1>3. /\ c \in Seq(Byte) /\ Len(c) = 4 /\ Len(c) # 0
      /\ c[1] = 27 /\ c[2] = 105 /\ c[3] = 75 /\ c[4] = y
  <2>1. 27 \in Byte /\ 105 \in Byte /\ 75 \in Byte
    BY DEF Byte
  <2> QED
    BY <1>2, <2>1
<1>4. At(t, p, c) /\ q = p + 4
  BY <1>1, <1>2, <1>3
<1>5. Holds(t, p, c)
  BY <1>3, <1>4, AtBytes
<1>6. /\ p \in 1 .. Len(t) /\ p + 4 \in p + 1 .. Len(t) + 1
      /\ t[p] = 27 /\ t[p + 1] = 105 /\ t[p + 2] = 75 /\ t[p + 3] = y
  <2>1. /\ 1 \in 1 .. Len(c) - 1 /\ 2 \in 1 .. Len(c) - 1 /\ 3 \in 1 .. Len(c) - 1
        /\ 1 + 1 = 2 /\ 2 + 1 = 3 /\ 3 + 1 = 4
    BY <1>3
  <2> QED
    BY <1>3, <1>5, <2>1 DEF Holds
<1>7. Four(t, p, 75, y)
  BY <1>6 DEF Four
<1>8. PICK x \in {97, 77, 65, 75, 100, 122} : x = 75
  OBVIOUS
<1>9. EscCommand(t, p, x) /\ EscLength(x) = 4
  <2>1. x \in {97, 77, 65, 75} /\ Four(t, p, x, y)
    BY <1>7, <1>8
  <2> QED
    BY <2>1, FourIs
<1>10. CommandLength(t, p) = 4 /\ Follows(t, p) /\ t[p] \notin Prints
  <2>1. CommandLength(t, p) = EscLength(x) /\ Convertible(t, p) /\ t[p] \notin Prints
    BY <1>9, EscCoded
  <2> QED
    BY <1>9, <2>1 DEF Convertible
<1>11. ~ Marks(t, p) /\ Coloured(t, p) /\ ~ Marks(s, i) /\ s[i] \notin Prints
  BY <1>1, <1>6 DEF Marks, Coloured, Expands, ESC, Prints, PagePrint, LastPagePrint
<1>12. Matches(s, i, t, p)
  BY <1>10, <1>11 DEF Matches
<1>13. q = p + CommandLength(t, p)
  BY <1>4, <1>10
<1> QED
  BY <1>6, <1>12, <1>13, TurnedMore

\* Every other command is as it was.
LEMMA TurnedOther ==
    ASSUME NEW s \in Seq(Byte), NEW i \in 1 .. Len(s), NEW t \in Seq(Byte), NEW p,
           Follows(s, i), s[i] # 103, ~ Expands(s, i), At(t, p, Rewritten(s, i)),
           NEW e, e = i + CommandLength(s, i), NEW q, q = p + Len(Rewritten(s, i)),
           Recoloured(s, e, t, q)
    PROVE  Recoloured(s, i, t, p)
<1>1. PICK n \in Nat : n = CommandLength(s, i)
  BY LengthIs
<1>2. PICK c : c = Rewritten(s, i)
  OBVIOUS
<1>3. /\ c \in Seq(Byte) /\ Len(c) = n /\ \A k \in 1 .. n : c[k] = s[(i + k) - 1]
  <2>1. Taken(s, i, n, c)
    BY <1>1, <1>2, ConvertOther
  <2> QED
    BY <2>1 DEF Taken
<1>4. n # 0 /\ Len(c) # 0
  BY <1>1, <1>3 DEF Follows
<1>5. At(t, p, c) /\ q = p + n
  BY <1>2, <1>3
<1>6. Holds(t, p, c)
  BY <1>3, <1>4, <1>5, AtBytes
<1>7. /\ p \in 1 .. Len(t) /\ p + n \in p + 1 .. Len(t) + 1 /\ t[p] = s[i]
      /\ \A k \in 1 .. n - 1 : p + k \in 1 .. Len(t) /\ t[p + k] = s[i + k]
  <2>1. /\ p \in 1 .. Len(t) /\ p + n \in p + 1 .. Len(t) + 1 /\ t[p] = c[1]
        /\ \A k \in 1 .. n - 1 : p + k \in 1 .. Len(t) /\ t[p + k] = c[k + 1]
    BY <1>3, <1>6 DEF Holds
  <2>2. \A k \in 1 .. n - 1 : k + 1 \in 1 .. n /\ (i + (k + 1)) - 1 = i + k
    BY <1>4
  <2>3. 1 \in 1 .. n /\ (i + 1) - 1 = i
    BY <1>4
  <2>4. t[p] = s[i]
    BY <1>3, <2>1, <2>3
  <2>5. ASSUME NEW k \in 1 .. n - 1 PROVE p + k \in 1 .. Len(t) /\ t[p + k] = s[i + k]
    <3>1. c[k + 1] = s[(i + (k + 1)) - 1]
      BY <1>3, <2>2
    <3> QED
      BY <2>1, <2>2, <3>1
  <2> QED
    BY <2>1, <2>4, <2>5
<1>8. Copied(s, i, t, p)
  <2>1. ASSUME NEW k \in 0 .. n - 1 PROVE p + k \in 1 .. Len(t) /\ t[p + k] = s[i + k]
    <3>1. CASE k = 0
      BY <1>7, <3>1
    <3>2. CASE k # 0
      <4>1. k \in 1 .. n - 1
        BY <3>2
      <4> QED
        BY <1>7, <4>1
    <3> QED
      BY <3>1, <3>2
  <2> QED
    BY <1>1, <2>1 DEF Copied
<1>9. CommandLength(t, p) = n /\ Follows(t, p)
  <2>1. p \in Nat
    BY <1>7
  <2> QED
    BY <1>1, <1>8, <2>1, SameLength
<1>10. s[i] = 27 => EscShape(s, i)
  BY EscIs
<1>11. s[i] = 27 => EscShape(t, p)
  BY <1>7, <1>9, EscIs
<1>12. EscLength(122) = 13
  BY DEF EscLength
<1>13. n = 13 => /\ t[p + 1] = s[i + 1] /\ t[p + 2] = s[i + 2] /\ t[p + 3] = s[i + 3]
                 /\ t[p + 5] = s[i + 5]
  <2>1. n = 13 => /\ 1 \in 1 .. n - 1 /\ 2 \in 1 .. n - 1 /\ 3 \in 1 .. n - 1 /\ 5 \in 1 .. n - 1
    OBVIOUS
  <2> QED
    BY <1>7, <2>1
<1>14. ASSUME Marks(s, i) PROVE n = 13
  <2>1. s[i] = 27 /\ s[i + 1] = 105 /\ s[i + 2] = 122
    BY <1>14 DEF Marks, ESC
  <2>2. s[i + 1] # 64 /\ EscLength(s[i + 2]) = 13
    BY <1>12, <2>1
  <2> QED
    BY <1>1, <1>10, <2>1, <2>2 DEF EscShape
<1>15. ASSUME Marks(t, p) PROVE n = 13
  <2>1. t[p] = 27 /\ t[p + 1] = 105 /\ t[p + 2] = 122
    BY <1>15 DEF Marks, ESC
  <2>2. t[p + 1] # 64 /\ EscLength(t[p + 2]) = 13 /\ s[i] = 27
    BY <1>7, <1>12, <2>1
  <2> QED
    BY <1>9, <1>11, <2>2 DEF EscShape
<1>16. Matches(s, i, t, p)
  <2>1. ASSUME Marks(t, p) PROVE Marks(s, i) /\ t[p + 5] = s[i + 5]
    <3>1. /\ t[p] = s[i] /\ t[p + 1] = s[i + 1] /\ t[p + 2] = s[i + 2] /\ t[p + 3] = s[i + 3]
          /\ t[p + 5] = s[i + 5]
      BY <1>7, <1>13, <1>15, <2>1
    <3>2. t[p] = ESC /\ t[p + 1] = 105 /\ t[p + 2] = 122 /\ (t[p + 3] \div 2) % 4 = 3
      BY <2>1, Zenon DEF Marks
    <3>3. PICK y : y = t[p + 3]
      OBVIOUS
    <3>4. (y \div 2) % 4 = 3 /\ y = s[i + 3]
      BY <3>1, <3>2, <3>3
    <3>5. (s[i + 3] \div 2) % 4 = 3
      BY <3>4
    <3>6. s[i] = ESC /\ s[i + 1] = 105 /\ s[i + 2] = 122
      BY <3>1, <3>2
    <3> QED
      BY <3>1, <3>5, <3>6, Zenon DEF Marks
  <2>2. Marks(s, i) => Marks(t, p)
    BY <1>7, <1>13, <1>14 DEF Marks
  <2> QED
    BY <1>7, <1>9, <2>1, <2>2 DEF Matches
<1>17. q = p + CommandLength(t, p)
  BY <1>5, <1>9
<1> QED
  BY <1>7, <1>16, <1>17, TurnedMore

LEMMA TurnedNext ==
    ASSUME NEW s \in Seq(Byte), NEW i \in 1 .. Len(s), NEW t \in Seq(Byte), NEW p,
           Follows(s, i), At(t, p, Rewritten(s, i)),
           NEW e, e = i + CommandLength(s, i), NEW q, q = p + Len(Rewritten(s, i)),
           Recoloured(s, e, t, q)
    PROVE  Recoloured(s, i, t, p)
<1>1. CASE s[i] = 103
  BY <1>1, TurnedRow
<1>2. CASE s[i] # 103 /\ Expands(s, i)
  BY <1>2, TurnedMode
<1>3. CASE s[i] # 103 /\ ~ Expands(s, i)
  BY <1>3, TurnedOther
<1> QED
  BY <1>1, <1>2, <1>3

\* From the end of the streams to their beginning.
LEMMA TurnedWalk ==
    ASSUME NEW s \in Seq(Byte), Convertibles(s, 1), NEW t, t = RewrittenAll(s)[1]
    PROVE  t \in Seq(Byte) /\ Recoloured(s, 1, t, 1)
<1> DEFINE r == RewrittenAll(s)
           N == Len(s) + 1
<1>0. Len(s) \in Nat /\ N \in Nat /\ 1 \in 1 .. N
  OBVIOUS
<1>1. r \in [1 .. N -> Seq(Byte)] /\ \A i \in 1 .. N : r[i] = RewrittenFrom(s, r, i)
  BY RewrittenIs
<1>2. t \in Seq(Byte) /\ t = r[1] /\ Len(t) \in Nat
  BY <1>0, <1>1
<1> HIDE DEF r
<1> DEFINE Ends(i, p) == At(t, p, r[i]) /\ p + Len(r[i]) = Len(t) + 1
           S == {i \in 1 .. N : Convertibles(s, i) => \A p : Ends(i, p) => Recoloured(s, i, t, p)}
<1>3. ASSUME NEW i \in 1 .. N, (i + 1 .. N) \subseteq S PROVE i \in S
  <2> SUFFICES ASSUME Convertibles(s, i), NEW p, Ends(i, p) PROVE Recoloured(s, i, t, p)
    OBVIOUS
  <2>1. CASE i = N
    <3>1. r[i] = <<>>
      BY <1>0, <1>1, <2>1 DEF RewrittenFrom
    <3>2. p = Len(t) + 1
      <4>1. Len(r[i]) = 0 /\ p \in Nat
        BY <3>1 DEF At
      <4> QED
        BY <4>1
    <3>3. Walk(s)[i] = {} /\ Walk(t)[p] = {}
      BY <1>2, <2>1, <3>2, WalkOn
    <3>4. PrintsFrom(s, i) = {} /\ PrintsFrom(t, p) = {}
      BY <3>3 DEF PrintsFrom
    <3>5. Cardinality(PrintsFrom(t, p)) = Cardinality(PrintsFrom(s, i))
      BY <3>4
    <3> QED
      BY <3>3, <3>5 DEF Recoloured
  <2>2. CASE i # N
    <3>1. i \in 1 .. Len(s) /\ ~ (i > Len(s))
      BY <1>0, <2>2
    <3>2. Follows(s, i)
      <4>1. CASE ~ Follows(s, i)
        <5>1. Walk(s)[i] = {0}
          BY <3>1, <4>1, WalkOn
        <5> QED
          BY <5>1 DEF Convertibles
      <4> QED
        BY <4>1
    <3>3. PICK e \in i + 1 .. N : e = i + CommandLength(s, i)
      BY <3>1, <3>2, LengthIs
    <3>4. Walk(s)[i] = {i} \cup Walk(s)[e]
      BY <3>1, <3>2, <3>3, WalkOn
    <3>5. Convertible(s, i) /\ Convertibles(s, e)
      BY <3>4 DEF Convertibles
    <3>6. r[i] = Rewritten(s, i) \o r[e]
      BY <1>1, <3>1, <3>3, <3>5 DEF RewrittenFrom
    <3>7. PICK c, d : c = Rewritten(s, i) /\ d = r[e]
      OBVIOUS
    <3>8. c \in Seq(Byte) /\ d \in Seq(Byte)
      <4>1. e \in 1 .. N
        BY <1>0, <3>3
      <4> QED
        BY <1>1, <3>1, <3>2, <3>7, <4>1, RewrittenType
    <3>9. At(t, p, c \o d) /\ p + Len(c \o d) = Len(t) + 1
      BY <3>6, <3>7
    <3>10. PICK q : q = p + Len(c)
      OBVIOUS
    <3>11. At(t, p, c) /\ At(t, q, d) /\ q + Len(d) = Len(t) + 1
      <4>1. Both(t, p, c, d)
        BY <1>2, <3>8, <3>9, AtJoin
      <4> QED
        BY <3>9, <3>10, <4>1 DEF Both
    <3>12. Recoloured(s, e, t, q)
      BY <1>3, <3>3, <3>5, <3>7, <3>11
    <3>13. At(t, p, Rewritten(s, i)) /\ q = p + Len(Rewritten(s, i))
      BY <3>7, <3>10, <3>11
    <3> QED
      BY <1>2, <3>1, <3>2, <3>3, <3>12, <3>13, TurnedNext
  <2> QED
    BY <2>1, <2>2
<1>4. 1 .. N \subseteq S
  <2> HIDE DEF S, N
  <2> QED
    BY <1>0, <1>3, DownInduction
<1>5. 1 \in S
  BY <1>0, <1>4
<1>6. At(t, 1, t) /\ 1 + Len(t) = Len(t) + 1
  BY <1>2, AtWhole
<1>7. Ends(1, 1)
  BY <1>2, <1>6
<1>8. Recoloured(s, 1, t, 1)
  BY <1>5, <1>7
<1> QED
  BY <1>2, <1>8

LEMMA ColourRead ==
    ASSUME NEW s \in Seq(Byte), NEW k \in Nat \ {0}, NEW o \in Options, NEW two,
           Coded(s, 1, k, two, o), two = 2, NEW t, t = ToTwoColor(s)
    PROVE  /\ t \in Seq(Byte)
           /\ ParseJob(t) = [pages    |-> k,
                             width    |-> IF o.nocheck THEN 0 ELSE 62,
                             twoColor |-> TRUE]
<1>1. Walk(s)[1] \subseteq 1 .. Len(s) /\ \A j \in Walk(s)[1] : Black(s, j, o)
  BY DEF Coded
<1>2. Convertibles(s, 1)
  <2>1. 0 \notin Walk(s)[1]
    BY <1>1
  <2> QED
    BY <1>1, <2>1 DEF Convertibles, Black
<1>3. t = RewrittenAll(s)[1]
  BY <1>2, Zenon DEF ToTwoColor, Starts, Convertibles
<1>4. t \in Seq(Byte) /\ Recoloured(s, 1, t, 1)
  BY <1>2, <1>3, TurnedWalk
<1>5. Walk(t)[1] \subseteq 1 .. Len(t) /\ Cardinality(PrintsFrom(t, 1)) = k
  BY <1>4 DEF Recoloured, Coded
<1>6. \A j \in Walk(t)[1] : Marks(t, j) => ~ o.nocheck /\ t[j + 5] = 62
  <2>1. \A j \in Walk(t)[1] : Marks(t, j) => \E l \in Walk(s)[1] : Marks(s, l) /\ t[j + 5] = s[l + 5]
    BY <1>4 DEF Recoloured
  <2>2. \A l \in Walk(s)[1] : Marks(s, l) => ~ o.nocheck /\ s[l + 5] = 62
    BY <1>1 DEF Black
  <2> QED
    BY <2>1, <2>2
<1>7. o.nocheck \/ \E j \in Walk(t)[1] : Marks(t, j)
  <2>1. o.nocheck \/ \E l \in Walk(s)[1] : Marks(s, l)
    BY DEF Coded
  <2> QED
    BY <1>4, <2>1 DEF Recoloured
<1>8. \E j \in Walk(t)[1] : Coloured(t, j)
  <2>1. \E l \in Walk(s)[1] : Expands(s, l)
    BY DEF Coded
  <2> QED
    BY <1>4, <2>1 DEF Recoloured
<1>9. Parsed(t, k, o, TRUE)
  BY <1>5, <1>6, <1>7, <1>8 DEF Parsed
<1> QED
  BY <1>4, <1>9, JobRead
-----------------------------------------------------------------------------
(***************************************************************************)
(* The job on its way.                                                     *)
(***************************************************************************)
Job == EncodePages(images, opts)

RasterInv ==
    /\ images \in PageLists /\ opts \in Options
    /\ phase \in {"hub", "encoded", "twocolor", "cut"}
    /\ phase = "hub" => stream = <<>>
    /\ phase = "encoded" => stream = Job
    /\ phase = "twocolor" => stream = ToTwoColor(Job)
    /\ phase = "cut" => \E n \in 0 .. Len(Job) - 1 : stream = SubSeq(Job, 1, n)

LEMMA RasterStarts == RasterInit => RasterInv
BY DEF RasterInit, RasterInv, PageLists, Options

LEMMA RasterSteps == RasterInv /\ [RasterNext]_rasterVars => RasterInv'
<1> SUFFICES ASSUME RasterInv, [RasterNext]_rasterVars PROVE RasterInv'
  OBVIOUS
<1>1. CASE Encode
  BY <1>1 DEF Encode, RasterInv, Job
<1>2. CASE Convert
  BY <1>2 DEF Convert, RasterInv, Job
<1>3. CASE CutShort
  BY <1>3 DEF CutShort, RasterInv, Job
<1>4. CASE UNCHANGED rasterVars
  BY <1>4 DEF rasterVars, RasterInv, Job
<1> QED
  BY <1>1, <1>2, <1>3, <1>4 DEF RasterNext

LEMMA RasterKept == RasterSpec => []RasterInv
<1>1. RasterInit => RasterInv
  BY RasterStarts
<1>2. RasterInv /\ [RasterNext]_rasterVars => RasterInv'
  BY RasterSteps
<1> QED
  BY <1>1, <1>2, PTL DEF RasterSpec

\* What the parser makes of the job, whatever has become of it.
LEMMA RasterReads ==
    ASSUME RasterInv
    PROVE  LabelsCounted /\ stream \in Seq(Byte)
<1>1. images \in PageLists /\ opts \in Options
  BY DEF RasterInv
<1>2. PICK s : s = Job
  OBVIOUS
<1>3. PICK k \in Nat \ {0}, two \in {2} : k = Len(images)
  BY <1>1, JobIs
<1>4. s \in Seq(Byte) /\ Coded(s, 1, k, two, opts)
  BY <1>1, <1>2, <1>3, JobType, JobCoded DEF Job
<1>5. /\ phase \in {"hub", "encoded", "twocolor", "cut"}
      /\ phase = "hub" => stream = <<>>
      /\ phase = "encoded" => stream = s
      /\ phase = "twocolor" => stream = ToTwoColor(s)
      /\ phase = "cut" => \E n \in 0 .. Len(s) - 1 : stream = SubSeq(s, 1, n)
  BY <1>2 DEF RasterInv
<1>6. CASE phase = "hub"
  BY <1>5, <1>6 DEF LabelsCounted
<1>7. CASE phase = "encoded"
  <2>1. stream = s
    BY <1>5, <1>7
  <2>2. ParseJob(s) = [pages    |-> k,
                       width    |-> IF opts.nocheck THEN 0 ELSE 62,
                       twoColor |-> FALSE]
    BY <1>1, <1>3, <1>4, BlackRead
  <2>3. (phase = "twocolor") = FALSE /\ phase # "cut"
    BY <1>7
  <2> QED
    BY <1>3, <1>4, <1>7, <2>1, <2>2, <2>3 DEF LabelsCounted
<1>8. CASE phase = "twocolor"
  <2>1. stream = ToTwoColor(s)
    BY <1>5, <1>8
  <2>2. /\ stream \in Seq(Byte)
        /\ ParseJob(stream) = [pages    |-> k,
                               width    |-> IF opts.nocheck THEN 0 ELSE 62,
                               twoColor |-> TRUE]
    BY <1>1, <1>3, <1>4, <2>1, ColourRead
  <2>3. (phase = "twocolor") = TRUE /\ phase # "cut"
    BY <1>8
  <2> QED
    BY <1>3, <1>8, <2>2, <2>3 DEF LabelsCounted
<1>9. CASE phase = "cut"
  <2>1. PICK n \in 0 .. Len(s) - 1 : stream = SubSeq(s, 1, n)
    BY <1>5, <1>9
  <2>2. 1 <= Len(s)
    BY <1>4, <2>1
  <2>3. ParseJob(stream).pages < k
    BY <1>1, <1>4, <2>1, <2>2, CutRead
  <2>4. stream \in Seq(Byte)
    BY <1>4, <2>1
  <2> QED
    BY <1>3, <1>9, <2>3, <2>4 DEF LabelsCounted
<1> QED
  BY <1>5, <1>6, <1>7, <1>8, <1>9

\* Every job is a stream of bytes: the lengths, the numbers of rows and the flags
\* that EncodePages writes and the bit that ToTwoColor sets fit their bytes.
THEOREM RasterTypes == RasterSpec => []RasterTypeOK
<1>1. RasterInv => RasterTypeOK
  BY RasterReads DEF RasterInv, RasterTypeOK, Options, Byte
<1> QED
  BY <1>1, RasterKept, PTL

\* For every number of labels of every size, whatever the rows show: the backend
\* counts them, and knows the roll, before and after the job is rewritten for two
\* colours, and wherever the job is cut it never counts as many.
THEOREM EveryLabelCounted == RasterSpec => []LabelsCounted
<1>1. RasterInv => LabelsCounted
  BY RasterReads
<1> QED
  BY <1>1, RasterKept, PTL
=============================================================================
