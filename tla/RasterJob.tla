----------------------------- MODULE RasterJob -----------------------------
(***************************************************************************)
(* The raster stream of a job: EncodePages (package qlraster), which the hub *)
(* sends, and the backend's ParseJob, which counts the labels to wait for,  *)
(* and ToTwoColor, which rewrites the job for a red/black roll.             *)
(*                                                                          *)
(* A stream is a sequence of bytes.  What a row shows is taken as it is, any *)
(* RowBytes bytes, so that rows can hold every byte that starts a command;  *)
(* rows and the invalidate are shortened.                                   *)
(***************************************************************************)
EXTENDS Naturals, Sequences, FiniteSets, SequencesExt

CONSTANTS
    RowData,     \* the bytes a row may hold
    RowBytes,    \* length of a row (90)
    Heights,     \* how many rows a label may have
    MaxPages,    \* labels of a job
    Invalidates  \* InvalidateBytes (400)

ASSUME RasterAssumption ==
    /\ RowData \subseteq 0 .. 255
    /\ RowBytes \in 1 .. 255
    /\ Heights \subseteq Nat \ {0} /\ \A h \in Heights : h \div 256 < 256
    /\ MaxPages \in Nat \ {0} /\ Invalidates \in Nat

VARIABLES
    images,  \* what the labels show: a sequence of rows each
    opts,    \* Options
    stream,  \* the job as it is
    phase    \* who has handled it: "hub", "encoded", "twocolor", "cut"

rasterVars == <<images, opts, stream, phase>>

Rows == [1 .. RowBytes -> RowData]
Labels == UNION {[1 .. h -> Rows] : h \in Heights}

ESC == 27
PagePrint == 12       \* 0x0C
LastPagePrint == 26   \* 0x1A

-----------------------------------------------------------------------------
(***************************************************************************)
(* EncodePages.                                                            *)
(***************************************************************************)
EncodeRow(row) == <<103, 0, RowBytes>> \o row   \* g

\* ESC i M, ESC i A and ESC i K: how the label is cut.
EncodeCut(o) ==
    IF o.cut THEN <<ESC, 105, 77, 64, ESC, 105, 65, 1, ESC, 105, 75, 8>>
    ELSE <<ESC, 105, 75, 0>>

\* ESC i z, whose flags leave the roll out if it is not to be checked, then the
\* cut, the margin (ESC i d) and the rows.
EncodePage(image, o, first, last) ==
    <<ESC, 105, 122, IF o.nocheck THEN 192 ELSE 206, 10, 62, 0,
      Len(image) % 256, Len(image) \div 256, 0, 0, IF first THEN 0 ELSE 1, 0>>
      \o EncodeCut(o)
      \o <<ESC, 105, 100, 35, 0>>
      \o FlattenSeq([y \in DOMAIN image |-> EncodeRow(image[y])])
      \o <<IF last THEN LastPagePrint ELSE PagePrint>>

\* Invalidate, ESC @, raster mode, and the pages.
EncodePages(pages, o) ==
    [i \in 1 .. Invalidates |-> 0] \o <<ESC, 64>> \o <<ESC, 105, 97, 1>>
      \o FlattenSeq([i \in DOMAIN pages |->
                        EncodePage(pages[i], o, i = 1, i = Len(pages))])

-----------------------------------------------------------------------------
(***************************************************************************)
(* ParseJob and ToTwoColor.                                                *)
(***************************************************************************)
\* The byte at i, or one that starts nothing if the stream ends before.
ByteAt(s, i) == IF i \in DOMAIN s THEN s[i] ELSE 255

\* Length of ESC i x, 0 if the backend does not know it.
EscLength(x) ==
    IF x = 83 THEN 3
    ELSE IF x \in {97, 77, 65, 75} THEN 4
    ELSE IF x = 100 THEN 5
    ELSE IF x = 122 THEN 13 ELSE 0

\* Mutant: a row is taken to be as long as its data, without its length byte.
CommandLengthRow(s, i) ==
    LET c == s[i] IN
    IF c \in {0, PagePrint, LastPagePrint, 90} THEN 1
    ELSE IF c = 77 THEN 2
    ELSE IF c \in {103, 119} THEN 2 + ByteAt(s, i + 2)
    ELSE IF c = 71 THEN 3 + ByteAt(s, i + 1) + 256 * ByteAt(s, i + 2)
    ELSE IF c = ESC /\ ByteAt(s, i + 1) = 64 THEN 2
    ELSE IF c = ESC /\ ByteAt(s, i + 1) = 105 THEN EscLength(ByteAt(s, i + 2))
    ELSE 0

\* Length of the command at i, 0 if it is not known.
CommandLength(s, i) ==
    LET c == s[i] IN
    IF c \in {0, PagePrint, LastPagePrint, 90} THEN 1                     \* 90: Z
    ELSE IF c = 77 THEN 2                                         \* M
    ELSE IF c \in {103, 119} THEN 3 + ByteAt(s, i + 2)            \* g, w
    ELSE IF c = 71 THEN 3 + ByteAt(s, i + 1) + 256 * ByteAt(s, i + 2)   \* G
    ELSE IF c = ESC /\ ByteAt(s, i + 1) = 64 THEN 2
    ELSE IF c = ESC /\ ByteAt(s, i + 1) = 105 THEN EscLength(ByteAt(s, i + 2))
    ELSE 0

\* Whether there is a command at i that the stream holds in full.
Follows(s, i) == CommandLength(s, i) # 0 /\ i + CommandLength(s, i) <= Len(s) + 1

\* Where commands start from i on, if next[j] says so from j on; 0 stands for one
\* that is not known or that the stream ends in.
StartsFrom(s, next, i) ==
    IF i > Len(s) THEN {}
    ELSE IF Follows(s, i) THEN {i} \cup next[i + CommandLength(s, i)] ELSE {0}

Walk(s) == LET from[i \in 1 .. Len(s) + 1] == StartsFrom(s, from, i) IN from

Starts(s) == Walk(s)[1]

NoJob == [pages |-> 0, width |-> 0, twoColor |-> FALSE]

\* The first ESC i z that marks kind and width as valid says which roll.
RollAsked(s, starts) ==
    LET marked == {i \in starts : /\ s[i] = ESC /\ s[i + 1] = 105 /\ s[i + 2] = 122
                                  /\ (s[i + 3] \div 2) % 4 = 3}
    IN  IF marked = {} THEN 0
        ELSE s[(CHOOSE i \in marked : \A k \in marked : i <= k) + 5]

\* A stream that cannot be followed, or has no print command, is refused.
ParseJob(s) ==
    LET starts == Starts(s)
        pages  == IF 0 \in starts THEN {}
                  ELSE {i \in starts : s[i] \in {PagePrint, LastPagePrint}}
    IN  IF pages = {} THEN NoJob
        ELSE [pages    |-> Cardinality(pages),
              width    |-> RollAsked(s, starts),
              twoColor |-> \E i \in starts :
                              \/ s[i] = 119
                              \/ /\ s[i] = ESC /\ s[i + 1] = 105 /\ s[i + 2] = 75
                                 /\ s[i + 3] % 2 = 1]

\* One command of a two-colour job: a row is followed by an empty red one, and
\* ESC i K has the bit for two colours.
Rewritten(s, i) ==
    LET n == CommandLength(s, i) IN
    IF s[i] = 103
    THEN (<<119, 1, n - 3>> \o SubSeq(s, i + 3, i + n - 1))
           \o (<<119, 2, n - 3>> \o [k \in 1 .. n - 3 |-> 0])
    ELSE IF s[i] = ESC /\ s[i + 1] = 105 /\ s[i + 2] = 75
    THEN <<ESC, 105, 75, s[i + 3] + (IF s[i + 3] % 2 = 0 THEN 1 ELSE 0)>>
    ELSE SubSeq(s, i, i + n - 1)

\* Whether ToTwoColor can convert the command of a job that ParseJob followed: the
\* raster lines of other forms, compression and zero lines are refused.
Convertible(s, i) ==
    /\ Follows(s, i)
    /\ s[i] \notin {71, 90, 77, 119}
    /\ s[i] = 103 => s[i + 1] = 0

\* The commands from i on rewritten, if next[j] are those from j on.
RewrittenFrom(s, next, i) ==
    IF i > Len(s) \/ ~ Convertible(s, i) THEN <<>>
    ELSE Rewritten(s, i) \o next[i + CommandLength(s, i)]

RewrittenAll(s) == LET to[i \in 1 .. Len(s) + 1] == RewrittenFrom(s, to, i) IN to

\* The rewritten stream, or the old one where it cannot be converted: the job is
\* then sent as it was.
ToTwoColor(s) ==
    IF \A i \in Starts(s) : i # 0 /\ Convertible(s, i) THEN RewrittenAll(s)[1] ELSE s

-----------------------------------------------------------------------------
(***************************************************************************)
(* A job on its way to the printer.                                        *)
(***************************************************************************)
RasterInit ==
    /\ images \in UNION {[1 .. n -> Labels] : n \in 1 .. MaxPages}
    /\ opts \in [cut : BOOLEAN, nocheck : BOOLEAN]
    /\ stream = <<>> /\ phase = "hub"

Encode ==
    /\ phase = "hub"
    /\ stream' = EncodePages(images, opts)
    /\ phase' = "encoded"
    /\ UNCHANGED <<images, opts>>

\* The backend finds a red/black roll in the printer.
Convert ==
    /\ phase = "encoded" /\ ~ ParseJob(stream).twoColor
    /\ stream' = ToTwoColor(stream)
    /\ phase' = "twocolor"
    /\ UNCHANGED <<images, opts>>

\* Spooling stops: the backend gets the beginning of the job only.
CutShort ==
    /\ phase = "encoded"
    /\ \E n \in 0 .. Len(stream) - 1 : stream' = SubSeq(stream, 1, n)
    /\ phase' = "cut"
    /\ UNCHANGED <<images, opts>>

RasterNext == Encode \/ Convert \/ CutShort

RasterSpec == RasterInit /\ [][RasterNext]_rasterVars

RasterTypeOK ==
    /\ opts \in [cut : BOOLEAN, nocheck : BOOLEAN]
    /\ stream \in Seq(0 .. 255)
    /\ phase \in {"hub", "encoded", "twocolor", "cut"}

-----------------------------------------------------------------------------
\* Whatever the rows hold, the backend counts the labels of the job and knows the
\* roll it was made for, before and after it was rewritten for two colours; and a
\* job that was cut short is never taken for the whole: it is refused, or fewer
\* labels are waited for.
LabelsCounted ==
    /\ phase \in {"encoded", "twocolor"} =>
           ParseJob(stream) = [pages    |-> Len(images),
                               width    |-> IF opts.nocheck THEN 0 ELSE 62,
                               twoColor |-> phase = "twocolor"]
    /\ phase = "cut" => ParseJob(stream).pages < Len(images)
=============================================================================
