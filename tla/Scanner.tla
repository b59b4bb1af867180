------------------------------ MODULE Scanner ------------------------------
(***************************************************************************)
(* The barcode scanner: a reader that types each scan as key events, the    *)
(* kernel's buffer of an open input device, the goroutine of readDevice     *)
(* that reads it, the loop that turns events into scans and opens the device *)
(* again, and the polls of GET /scanner/scan, which take the one scan that  *)
(* is kept.  The reader can be unplugged in the middle of a scan and plugged *)
(* in again at any time.                                                    *)
(*                                                                          *)
(* A scan is a number, its events are the positions of Program.  Read       *)
(* events of another type than EV_KEY are left out, which the loop skips.   *)
(***************************************************************************)
EXTENDS Naturals, Sequences, SequencesExt

CONSTANTS
    Program,  \* the kinds of the events a scan is typed as, in order
    MaxScans, \* how many scans are typed
    Pollers   \* handlers of GET /scanner/scan

ASSUME ScannerAssumption ==
    /\ Program \in Seq({"shift", "unshift", "key", "up", "enter"})
    /\ Program # <<>> /\ \A i \in DOMAIN Program : Program[i] = "enter" <=> i = Len(Program)
    \* The reader types like a keyboard: it lets go of shift before it presses Enter.
    /\ \A i \in DOMAIN Program :
           Program[i] = "shift" => \E k \in i .. Len(Program) : Program[k] = "unshift"
    /\ MaxScans \in Nat

VARIABLES
    plugged,    \* the reader is on USB
    typing,     \* the scan being typed and how far
    whole,      \* history: scans that began with the device open
    alive,      \* the open device still exists
    kbuf,       \* events of the open device not read yet
    hand,       \* data: a batch the goroutine has read and not passed on
    err,        \* errCh holds an error, and the goroutine has ended
    loop,       \* where Client.loop and readDevice are
    data,       \* events of the batch that are not handled yet
    current,    \* characters since the last Enter
    shifted,
    connected,  \* c.connected
    latest,     \* c.latest, <<>> if nil
    stopping,   \* ctx is done
    poll,       \* handlers that have seen Connected()
    given       \* history: the newest scan handed out

device == <<plugged, typing, whole>>
goroutine == <<hand, err>>
keys   == <<data, current, shifted>>
scannerVars == <<device, alive, kbuf, goroutine, loop, keys, connected, latest,
                 stopping, poll, given>>

Scans  == 1 .. MaxScans
Events == [scan : Scans, pos : DOMAIN Program]
Chars  == [scan : Scans, pos : DOMAIN Program, shifted : BOOLEAN]

ScannerTypeOK ==
    /\ plugged \in BOOLEAN /\ alive \in BOOLEAN /\ err \in BOOLEAN
    /\ shifted \in BOOLEAN /\ connected \in BOOLEAN /\ stopping \in BOOLEAN
    /\ typing \in [scan : 0 .. MaxScans, pos : 0 .. Len(Program)]
    /\ whole \subseteq Scans /\ given \in 0 .. MaxScans
    /\ kbuf \in Seq(Events) /\ hand \in Seq(Events) /\ data \in Seq(Events)
    /\ current \in Seq(Chars) /\ latest \in Seq(Chars)
    /\ loop \in {"off", "detect", "open", "read", "wait", "done"}
    /\ poll \subseteq Pollers

ScannerInit ==
    /\ plugged = FALSE
    /\ typing = [scan |-> 0, pos |-> Len(Program)] /\ whole = {}
    /\ alive = FALSE /\ kbuf = <<>> /\ hand = <<>> /\ err = FALSE
    /\ loop = "off" /\ data = <<>> /\ current = <<>> /\ shifted = FALSE
    /\ connected = FALSE /\ latest = <<>> /\ stopping = FALSE
    /\ poll = {} /\ given = 0

-----------------------------------------------------------------------------
(***************************************************************************)
(* The reader.                                                             *)
(***************************************************************************)
\* What remains of a scan when the reader is unplugged is not typed.
Plug ==
    /\ plugged' = ~ plugged
    /\ IF plugged
       THEN /\ typing' = [typing EXCEPT !.pos = Len(Program)]
            /\ alive' = FALSE /\ kbuf' = <<>>
       ELSE UNCHANGED <<typing, alive, kbuf>>
    /\ UNCHANGED <<whole, goroutine, loop, keys, connected, latest, stopping, poll, given>>

\* The next event of the scan, or the first of the next one.
Type ==
    /\ plugged
    /\ IF typing.pos < Len(Program)
       THEN typing' = [typing EXCEPT !.pos = @ + 1]
       ELSE typing.scan < MaxScans /\ typing' = [scan |-> typing.scan + 1, pos |-> 1]
    /\ whole' = IF typing'.pos = 1 /\ alive THEN whole \cup {typing'.scan} ELSE whole
    /\ kbuf' = IF alive THEN Append(kbuf, typing') ELSE kbuf
    /\ UNCHANGED <<plugged, alive, goroutine, loop, keys, connected, latest, stopping,
                   poll, given>>

-----------------------------------------------------------------------------
(***************************************************************************)
(* The goroutine that reads.                                               *)
(***************************************************************************)
Reading == loop = "read" /\ hand = <<>> /\ ~ err

ReadBatch ==
    /\ Reading /\ alive /\ kbuf # <<>>
    /\ hand' = kbuf /\ kbuf' = <<>>
    /\ UNCHANGED <<device, alive, err, loop, keys, connected, latest, stopping, poll, given>>

ReadError ==
    /\ Reading /\ ~ alive
    /\ err' = TRUE
    /\ UNCHANGED <<device, alive, kbuf, hand, loop, keys, connected, latest, stopping,
                   poll, given>>

-----------------------------------------------------------------------------
(***************************************************************************)
(* Client.loop and readDevice.                                             *)
(***************************************************************************)
\* Start, if a scanner is configured.
StartScanner ==
    /\ loop = "off" /\ ~ stopping
    /\ loop' = "detect"
    /\ UNCHANGED <<device, alive, kbuf, goroutine, keys, connected, latest, stopping,
                   poll, given>>

\* DetectDevice finds the reader among the kernel's input devices, ...
Detect ==
    /\ loop = "detect" /\ ~ stopping /\ plugged
    /\ loop' = "open"
    /\ UNCHANGED <<device, alive, kbuf, goroutine, keys, connected, latest, stopping,
                   poll, given>>

\* ... or does not, and the loop waits for reconnectDelay.
DetectFails ==
    /\ loop = "detect" /\ ~ stopping /\ ~ plugged
    /\ loop' = "wait" /\ connected' = FALSE
    /\ UNCHANGED <<device, alive, kbuf, goroutine, keys, latest, stopping, poll, given>>

WaitOver ==
    /\ loop = "wait"
    /\ loop' = "detect"
    /\ UNCHANGED <<device, alive, kbuf, goroutine, keys, connected, latest, stopping,
                   poll, given>>

\* Mutant: characters and shift survive the device.
OpenKeeping ==
    /\ loop = "open" /\ plugged
    /\ loop' = "read" /\ connected' = TRUE
    /\ alive' = TRUE /\ kbuf' = <<>> /\ hand' = <<>> /\ err' = FALSE
    /\ data' = <<>>
    /\ UNCHANGED <<device, current, shifted, latest, stopping, poll, given>>

OpenDevice ==
    /\ loop = "open" /\ plugged
    /\ loop' = "read" /\ connected' = TRUE
    /\ alive' = TRUE /\ kbuf' = <<>> /\ hand' = <<>> /\ err' = FALSE
    /\ data' = <<>> /\ current' = <<>> /\ shifted' = FALSE
    /\ UNCHANGED <<device, latest, stopping, poll, given>>

\* It was unplugged since.
OpenFails ==
    /\ loop = "open" /\ ~ plugged
    /\ loop' = "wait"
    /\ UNCHANGED <<device, alive, kbuf, goroutine, keys, connected, latest, stopping,
                   poll, given>>

TakeBatch ==
    /\ loop = "read" /\ data = <<>> /\ hand # <<>>
    /\ data' = hand /\ hand' = <<>>
    /\ UNCHANGED <<device, alive, kbuf, err, loop, current, shifted, connected, latest,
                   stopping, poll, given>>

\* Mutant: the error is looked at once only, and the loop reads on.
ErrorIgnored ==
    /\ loop = "read" /\ data = <<>> /\ err
    /\ connected' = FALSE
    /\ UNCHANGED <<device, alive, kbuf, goroutine, loop, keys, latest, stopping, poll, given>>

TakeError ==
    /\ loop = "read" /\ data = <<>> /\ err
    /\ loop' = "wait" /\ connected' = FALSE
    /\ UNCHANGED <<device, alive, kbuf, goroutine, keys, latest, stopping, poll, given>>

Kind == Program[Head(data).pos]

\* Shift is tracked.
HandleShift ==
    /\ data # <<>> /\ Kind \in {"shift", "unshift"}
    /\ shifted' = (Kind = "shift")
    /\ data' = Tail(data)
    /\ UNCHANGED <<device, alive, kbuf, goroutine, loop, current, connected, latest,
                   stopping, poll, given>>

\* A key that is pressed adds its character, one that is released does nothing.
HandleKey ==
    /\ data # <<>> /\ Kind \in {"key", "up"}
    /\ current' = IF Kind = "up" THEN current
                  ELSE Append(current, [scan    |-> Head(data).scan,
                                        pos     |-> Head(data).pos,
                                        shifted |-> shifted])
    /\ data' = Tail(data)
    /\ UNCHANGED <<device, alive, kbuf, goroutine, loop, shifted, connected, latest,
                   stopping, poll, given>>

\* Enter ends the scan, which replaces the one that is kept.
HandleEnter ==
    /\ data # <<>> /\ Kind = "enter"
    /\ latest' = IF current # <<>> THEN current ELSE latest
    /\ current' = <<>>
    /\ data' = Tail(data)
    /\ UNCHANGED <<device, alive, kbuf, goroutine, loop, shifted, connected, stopping,
                   poll, given>>

Stop ==
    /\ ~ stopping /\ stopping' = TRUE
    /\ UNCHANGED <<device, alive, kbuf, goroutine, loop, keys, connected, latest, poll, given>>

\* ctx.Done in one of the three selects; readDevice closes the device.
StopSeen ==
    /\ stopping
    /\ loop \in {"detect", "wait", "read"} /\ (loop = "read" => data = <<>>)
    /\ loop' = "done"
    /\ alive' = FALSE /\ kbuf' = <<>>
    /\ connected' = IF loop = "read" THEN FALSE ELSE connected
    /\ UNCHANGED <<device, goroutine, keys, latest, stopping, poll, given>>

-----------------------------------------------------------------------------
(***************************************************************************)
(* HandleScannerScan: Connected, then Consume.                             *)
(***************************************************************************)
SeesConnected(p) ==
    /\ p \notin poll /\ connected
    /\ poll' = poll \cup {p}
    /\ UNCHANGED <<device, alive, kbuf, goroutine, loop, keys, connected, latest,
                   stopping, given>>

\* Mutant: the scan stays to be read again.
ConsumeKeeps(p) ==
    /\ p \in poll
    /\ poll' = poll \ {p}
    /\ given' = IF latest # <<>> THEN latest[1].scan ELSE given
    /\ UNCHANGED <<device, alive, kbuf, goroutine, loop, keys, connected, stopping, latest>>

Consume(p) ==
    /\ p \in poll
    /\ poll' = poll \ {p}
    /\ given' = IF latest # <<>> THEN latest[1].scan ELSE given
    /\ latest' = <<>>
    /\ UNCHANGED <<device, alive, kbuf, goroutine, loop, keys, connected, stopping>>

Loop ==
    \/ Detect \/ DetectFails \/ WaitOver \/ OpenDevice \/ OpenFails \/ TakeBatch \/ TakeError
    \/ HandleShift \/ HandleKey \/ HandleEnter \/ StopSeen

ScannerNext ==
    \/ Plug \/ Type
    \/ ReadBatch \/ ReadError
    \/ StartScanner \/ Loop \/ Stop
    \/ \E p \in Pollers : SeesConnected(p) \/ Consume(p)

\* The goroutines run on and the tablet polls; nothing is assumed of the reader.
ScannerFairness ==
    /\ WF_scannerVars(ReadBatch \/ ReadError)
    /\ WF_scannerVars(Loop)
    /\ \A p \in Pollers : WF_scannerVars(SeesConnected(p) \/ Consume(p))

ScannerSpec == ScannerInit /\ [][ScannerNext]_scannerVars
ScannerFairSpec == ScannerSpec /\ ScannerFairness

-----------------------------------------------------------------------------
Keys == {i \in DOMAIN Program : Program[i] = "key"}

\* Whether shift is held at a position.
ShiftHeld(n) == \E i \in 1 .. n : Program[i] = "shift" /\ \A k \in i .. n : Program[k] # "unshift"

\* A scan that is kept for the tablet is of one code: its last characters, and,
\* if the device was open when the scan began, all of them with the right case,
\* although readers are unplugged within scans and events come in any batches.
WholeScans ==
    latest # <<>> =>
        LET s    == latest[1].scan
            read == {latest[i].pos : i \in DOMAIN latest}
        IN  /\ \A i \in DOMAIN latest : latest[i].scan = s
            /\ \A i, k \in DOMAIN latest : i < k => latest[i].pos < latest[k].pos
            /\ \E n \in DOMAIN Program : read = {k \in Keys : k >= n}
            /\ s \in whole =>
                  /\ read = Keys
                  /\ \A i \in DOMAIN latest : latest[i].shifted = ShiftHeld(latest[i].pos)

\* A scan is handed out once, and never after a newer one.
NewestOnce == [][\A p \in Pollers : p \in poll /\ p \notin poll' /\ latest # <<>>
                    => latest[1].scan > given]_scannerVars

\* The hub finds the reader again: one that stays plugged in is connected in the
\* end, and what has been read off it is then handed out, unless a newer scan is,
\* even if the reader was unplugged in between.
ScansArrive ==
    <>[](plugged /\ ~ stopping /\ loop # "off") =>
        /\ <>[]connected
        /\ \A s \in Scans :
              (\E e \in ToSet(hand) \cup ToSet(data) : e.scan = s /\ Program[e.pos] = "enter")
                  ~> (given >= s \/ s \notin whole)
=============================================================================
