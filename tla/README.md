# raku-sika-hub: verification project

raku-sika-hub is a Go program that runs on a small Linux machine in a game-meat
plant. Tablets talk to it over HTTP and WebSocket; it talks to an A&D scale on a
USB serial line, to a Brother QL label printer through CUPS and a CUPS backend of
its own (`rakuql`), and to a barcode scanner on an input device.

This directory holds TLA+ models of the program, the TLC configurations that check
them, and proofs checked by TLAPS. `PROJECT.json` is the machine-readable index:
components, runs, mutants, the map from definitions to source lines, findings,
hazards and theorems.

    tlc -workers 2 -config ScaleSole.cfg MCScaleClient      # one run
    tlapm ScaleClientProofs.tla                              # the proofs

## 1. The system

### Components, their state and their operations

| Component | Source | State | Operations | Correct when |
|---|---|---|---|---|
| scale client | `internal/scale/client.go` | `mu`, `port`, atomics `connected` and `portName`, weigh cache, the loop's context | `Weigh`, `Tare`, `Zero`, `HealthCheck`, `TryConnect`, `reconnectLoop`, `watchdogCheck`, `Start`, `Stop` | one goroutine on the line; `connected` means a usable port; no handle leaks; the status subscribers see is the state; a weight from before a tare is forgotten; the hub reconnects |
| scale line | `internal/scale/client.go`, `protocol.go`, `serial.go`, `port.go`, `detector.go` | the open descriptor, what is still to be read | write a command, read a line, parse it, repeat a keepalive | an answer belongs to its command; the line never falls behind further and further; a second opener is refused |
| QL sender | `internal/printer/qlbackend/send.go`, `status.go`, `device.go` | the `Result` under construction, the frames read ahead, the printer's own buffer | `Send`, `preflight`, `awaitReply`, `probe`, `drain`, `abort`, `failMidJob`, `cancel` | "printed" only if every label came out; a failed job leaves nothing in the printer; `Send` ends |
| rakuql backend | `internal/printer/qlbackend/main.go`, `results.go` | the device descriptor, result files | `run`, `openWithRetry`, `WriteResult`, `prune` | a result before every exit; gives up on an absent or busy device |
| raster jobs | `internal/printer/qlraster`, `qlbackend/job.go` | none | `EncodePages`, `ParseJob`, `ToTwoColor` | what the hub encodes, the backend parses |
| print requests | `internal/printer/brother.go`, `raw.go`, `queue_wait.go`, `httpapi/handler.go` | `Brother.mu`, the CUPS queue, the request's deadline | `PrintLabel`, `TestPrint`, `waitForQueueJob`, `confirmWithPrinter`, `CancelJob`, clear | every request is answered; the answer is true |
| queue snapshot | `brother.go`, `diagnosis.go` | `jobSeen` ledger under `jobSeenMu` | `QueueSnapshot`, `annotateJobAges`, `DiagnoseQueue`, `RestartJob` | a stalled job is noticed for good; what left the queue is forgotten |
| printer selection | `brother.go`, `detect.go` | none | `Status`, `resolvePrinter`, `DetectBrotherQL`, `validateStatus` | a label goes to the printer the site named, or to a label printer |
| WebSocket hub | `internal/ws` | client set, one bounded queue per client | register, broadcast, dispatch | order and recency of what a client sees; client limit |
| HTTP API | `internal/httpapi` | none of its own | handlers, filters, admin pages | as the components it calls |
| barcode scanner | `internal/scanner` | the last unread scan, key state | read events, poll | a scan is delivered whole and once; the reader is found again |
| application | `internal/app`, `main.go` | goroutines, tickers | `Start`, `Stop`, periodic broadcasts | clean shutdown |
| logging | `internal/logging` | the month's open file | write, rotate, clean up | a line is kept for the time promised, or its loss is reported |
| Wi-Fi administration | `internal/netadmin` | none | `Status`, `Activate` | only a saved profile is brought up, whatever its name |
| configuration, label rendering, label data, timing trace | `config`, `printer/label*.go`, `build.go`, `types.go`, `experience.go` | none | | see section 8 |

### Interactions and hard behaviour

* The **scale client** is called by the HTTP handlers (which dial the scale
  themselves when it is not connected), by WebSocket goroutines (which never dial),
  by its own loop (reconnect and watchdog ticks) and by the shutdown. The fields
  `connected` and `port` change in different critical sections, and `tryConnect`
  opens the port and announces the connection outside the mutex. Hard: overlap of
  two `tryConnect` calls, the unlock inside `Weigh`'s retry loop, replug, shutdown.
* A **print request** holds the printer mutex, submits to CUPS with `lp`, polls
  `lpstat` until the job is gone, then looks for the result file that the backend
  wrote before it exited. CUPS starts the **backend**, which opens the usblp node
  (others may hold it) and runs **Send**. Operators cancel and clear meanwhile, and
  CUPS by its error policy drops or keeps a failed job. Hard: three processes and a
  file with no lock between them, jobs that leave the queue for another reason than
  having been printed, a job that CUPS runs twice.
* **Send** follows asynchronous status frames of a printer that also remembers the
  previous job: stale frames, late completions, a head that cools, a cover that is
  opened and closed again, a printer that prints and answers nothing, a cable.
* A **serial command** takes the next line for its answer. An answer that comes after
  the timeout is still there for the next command, on the port that was kept or on the
  one that is opened next.
* A **queue snapshot** is put together from several calls of CUPS, and snapshots of
  concurrent requests share the ledger of first-seen times. Hard: the queue changes
  between the calls, and snapshots reach the ledger in another order than they were
  read in. The **choice of the printer** is put together in the same way.
* The **barcode scanner** types into a kernel buffer that three parties empty at their
  own pace: the reading goroutine, the loop, the tablet. Hard: a reader unplugged in the
  middle of a scan and plugged in again.
* The **WebSocket hub** drops what a slow client cannot take, and sends the initial
  state of a connection concurrently with broadcasts of changes.

The hazards that follow from this are listed with their lines in `PROJECT.json`;
each names the properties that catch it, or says why none does.

## 2. Modules

| Module | Models |
|---|---|
| `ScaleClient` | the scale client, its callers in `httpapi` and `ws`, the shutdown of `app` |
| `ScaleClientProofs` | type correctness and every safety invariant of `ScaleClient`, proved |
| `Delivery` | abstract: what sending a job promises |
| `QLSender` | `Sender.Send` against a misbehaving printer; implements `Delivery` |
| `QLSenderProofs` | type correctness and the safety invariants of `QLSender`, and that it implements `Delivery`, proved |
| `PrintPath` | requests, CUPS, the backend process and result files; built on `Delivery` |
| `PrintPathProofs` | type correctness and both safety properties of `PrintPath`, proved |
| `WSHub` | the WebSocket hub, its connections and pumps, the broadcasts of `app` |
| `WSHubProofs` | type correctness and the two safety properties of `WSHub`, proved |
| `ScaleLine`, `ScaleLineProofs` | commands and late answers on the serial line; all its properties, proved |
| `QueueWatch` | queue snapshots, the ledger, the diagnosis, cancel and restart by a snapshot |
| `PrinterSelect` | `Brother.Status` and `resolvePrinter` while queues change |
| `Scanner`, `ScannerProofs` | the barcode scanner from key events to polls; that scans are whole and grow newer, proved |
| `RasterJob`, `RasterProofs` | `EncodePages`, `ParseJob`, `ToTwoColor` over byte streams; that every label is counted, proved |
| `FrameReader` | `readFrames` over the pieces that reads return |
| `HubLog` | the monthly log |
| `NetAdmin` | `Activate` and the escapes of nmcli |
| `StationProofs` | the properties of `HubLog`, `FrameReader` and `NetAdmin`, the safety of `PrinterSelect` and the types of all parts of `MCStation`, proved |
| `MCScaleClient`, `MCQLSender`, `MCPrintPath`, `MCWSHub`, `MCPrinterSelect` | values of constants and symmetry for TLC |
| `MCHubPeers` | one connection of the hub with everything that happens, or two next to the health broadcast |
| `MCStation` | the parts that share no state, one per behaviour |

### ScaleClient

State follows the struct: `lock` is `c.mu`, `port` is `c.port`, `connected` and
`named` the two atomics, `cache`/`cacheAge` the weigh cache (the weight itself is
abstracted to whether it was read before the last acknowledged tare: `tareAge` is
a history variable), `handle[p]` the local `port` of a `tryConnect` in progress,
`open` and `stale` what the operating system holds, `lastStatus` the argument of
the latest `onStatus`. Each goroutine has a `pc`; an action is the code between two
points where another goroutine can interfere. A command on the line
(`sendCommandLocked`) is one step, since the mutex is held throughout, with these
outcomes: answered, refused, failed, and, if `c.port` is nil, a panic, which
`net/http` recovers and a WebSocket goroutine does not.

`tryConnect` is five actions (`OpenPort`, `Attach`, the probe, `StoreName`,
`StoreConnected`, `NotifyUp`) because the code takes and drops the mutex in the
middle; `Weigh`'s retry is `WeighUnstable` (unlock) and `Relock`.

Assumed of the environment: `Exclusive` says whether `serial.Open` refuses a device
that is open already (the library sets TIOCEXCL); a descriptor whose device was
unplugged does not count, because the new device node is another one. `Unplugs`
lets the cable be pulled. The runs say which of the two they assume.

### Delivery and QLSender

`Delivery` is the promise of `Send` for a set of jobs: the printer takes labels
(`Take`), labels come out, also after the job was reported (`ComeOut`), the link
may be lost (`Lose`), and `Conclude` reports an outcome: "printed" only if every
label came out; "failed" and "canceled" only with nothing left in the printer,
unless the link is lost.

`QLSender` models `Send` with one action per branch of its select statements: the
drain before the job, `preflight` with reset, request and busy retries, the write
of the pages, the wait per label, `probe`, `abort`, `failMidJob`, `cancel` and the
settling at the end. Status frames are classified by what the code tells apart.
The printer keeps a FIFO `wire` of frames; it prints, halts, recovers, goes mute,
cools, loses frames, is switched off or cut off (`MaxTroubles` bounds how often).
It may start with labels of an earlier job (`OldLabels`) and with unread frames
(`Leftovers`).

Assumed of the printer and the build: a reset that reaches the printer empties its
buffer; frames are not reordered; the drain ends only when nothing more is
readable; the waits of seconds for an answer do not end while a frame is readable
(a frame needs milliseconds), whereas the per-label timer may run out at any
moment. `OldErrors` says whether an earlier job's label can still stop the printer
after the drain: with FALSE the runs pass, with TRUE the finding `sender_stale`
appears.

### PrintPath

A request submits at most one job, so requests and jobs share names. `queue` is
what `lpstat` lists, `backend`/`current` the backend process and its job, `result`
the result files, `node` the usblp device, `signaled` the jobs CUPS canceled,
`answer` what the tablet was told. The labels and the outcome of `Send` are the
variables of `Delivery`, and the backend's sending steps are `Delivery`'s actions
(`SendTakes` is `Take`, `SendConcludes` is `Conclude`), so that `PrintPath` rests on
the promise that `QLSender` is checked to keep. Deadlines are not clocked: a wait
may end at any poll. `Faults` chooses what may go wrong: "keep" (CUPS keeps a failed
job and stops the queue), "cups" (lpstat and lp fail), "cable", "opener" (another
process opens the printer).

### WSHub

`registered` is `Hub.clients`; per connection, `reader` is where `handleWS` is,
`writer` where its write pump is, `sendCh` the queue, `conn` the connection as the
network has it, `handling` the handler goroutine of a request (one at a time).
`cast[b]` is a call of `Broadcast` by goroutine `b`: waiting with its message, or
iterating over the clients in `todo` under the read lock. `Register` and
`Unregister` take the lock for writing, so they wait until nobody iterates; the
model leaves out that a waiting writer holds up new readers, which only removes
behaviours. `SendCurrentStatus` is one action per read and per send. A message is
abstracted to the state of scale or printer that it carries, and `view` is what the
tablet was last told. A peer may close the connection or vanish (`silent`): the
kernel then takes writes for a while. `MaxEvents` bounds changes of scale and printer
and requests; connections come and go without bound.

### ScaleLine

`ScaleClient` takes a command and its answer for one step; `ScaleLine` opens that step
up. Whoever is on the line (`op`) holds `c.mu`, so commands follow each other. `asked`
is what the scale has yet to deal with, `answers` the lines that can be read, `told`
what the caller makes of its line. The scale answers, refuses, stays silent, and takes
its time: `Timeout` may come first, and the answer afterwards. Every caller closes the
port after a timeout, except the first keepalive of `watchdogCheck`, which is repeated on
the same port. Closing it takes nothing back from the scale: a request for a weight
(`handler.go:171`) or the reconnect loop opens the port again at once, and the answer that
was due can be the line that the probe, or the command after it, reads. What the scale
sends while the port is closed may be lost or be there when it is opened (`Open`). A
timeout may also drop the beginning of a line, whose rest is then the next line
(`StillDue`). From a repeat or a reopening with an answer due on (`late`) a weight may be
the previous command's. `OneBehind` and `AnswersBelong` say that it gets no worse.

Assumed: an answer is less than one `commandTimeout` late (`NoLine`: a timeout finds at
most one command undealt with), and a port that fails at once, as that of a pulled cable
does, takes what is on the line with it; that case is `ScaleClient`'s. While an answer is
left over a tare can be acknowledged by the acknowledgement of an earlier command;
`AnswersBelong` leaves that case out (`did \/ late`).
A line that `Weigh` cannot parse closes the port, too; a leftover may be lost with it.
The retries of an unstable weight are weighs of their own here.

### QueueWatch, PrinterSelect

A watcher of `QueueWatch` is the goroutine of a request: `Shows` show the queue, `Acts`
cancel or restart a job (`AskCancel`, `AskRestart`) that a snapshot lists or, for a
restart, that is among the completed ones. Its steps are the calls of CUPS (`Status`,
`ReadJobs`, `ReadState`) and the annotation under `jobSeenMu` (`Show`, `Looked`); CUPS, the
printer and staff act between any two. `seen` is the ledger, as ages that `Tick` lets
grow up to `Patience`. Job numbers grow without bound in CUPS; here a finite set is
used, and a restarted job keeps its number, as CUPS does it.

`PrinterSelect` is one call of `Brother.Status`: each configured name is asked about (and
passed over when it is missing or its `lpstat -p` fails, `AskMisses`),
then everything is listed, then the default is read, and `ResolvePrinter` decides, with
`Reconfigure` in between at any point. Texts of `lpstat` are taken as read and
`scoreBrotherQL` is the constant `Score`.

### Scanner

`typing` is the reader, `kbuf` the kernel's buffer of the open device, `hand` what the
reading goroutine has read, `data` what the loop has yet to handle, `current` the
characters since the last Enter, `latest` the scan that is kept. A scan is typed as
`Program`; a character is kept as the scan and position it comes from, so that
characters of two scans can be told apart. `plugged` means present and openable.
Unplugging ends the scan and loses what the kernel holds, not what the goroutine has read.

### RasterJob, FrameReader

Both are byte streams read by code that counts on lengths. `RasterJob` encodes labels
as the hub does, with rows of any bytes, may cut the stream short or convert it for two
colours, and asks the backend's parser how many labels it holds. `FrameReader` delivers
every stream of a length in every way of cutting it to pieces, and compares the frames
with those somebody finds who sees the whole stream. Loops over bytes are recursive
functions over positions (`Turns`, `Walk`): `Turn(s, next, i)` is the body of the loop at
`i`, and `next` what the loop makes of the rest. The prover can reason about this form.

### HubLog, NetAdmin

`HubLog` counts days; `inFile` are the days of the lines of each month's file. A
rotation may fail, the hub may end at any time, and cleanup runs when it starts. Note
that it removes a file when the *first* day of its month is a year ago, so that lines are
certain to be kept for eleven months, not for the year of `logger.go:36`; `LinesKept`
states what is kept. `NetAdmin` follows `Activate`: names are sequences of characters
because nmcli escapes colons and backslashes and `splitFields` takes the escapes out:
`Escapes` and `Runes` are the loops over the characters, with `Escape` and `Rune` as their
bodies. `Holdings` are the profiles that NetworkManager may hold when the page is asked.

## 3. Runs

| Run | Module, cfg | Shows |
|---|---|---|
| `scale_sole` | `MCScaleClient`, `ScaleSole` | two HTTP and two WebSocket callers, the loop, the watchdog and the shutdown, no unplug: `TypeOK`, `SerialExclusion`, `ConnectedHasPort`, `NoLeak`, `UpReported`, `CacheForgetsTare`, `StopIsFinal` |
| `scale_live` | `MCScaleClient`, `ScaleLive` | with replugs, a request that dials as the loop does, a WebSocket health check, and two handles, so that two dials can both be open: `NoUseAfterClose`, and under fairness `RequestsAnswered`, `Reconnects` |
| `scale_concurrent` | `MCScaleClient`, `ScaleConcurrent` | violation: a replug and two overlapping `tryConnect` calls leave `connected` without a port |
| `sender_job` | `MCQLSender`, `SenderJob` | `CompletedCameOut`, `NothingLeftToPrint`, `SendEnds`, and the refinement `Delivers` |
| `sender_stale` | `MCQLSender`, `SenderStale` | violation: an old error between drain and reset is taken for the answer |
| `path_safe` | `MCPrintPath`, `PathSafe` | `TypeOK`, `PrintedIsTrue` and `FailedIsFinal` with a CUPS that drops failed jobs, although the cable is pulled and `lpstat` fails |
| `path_answers` | `MCPrintPath`, `PathAnswers` | `EveryRequestAnswered`, `JobsLeave`, with another process that may keep the printer open and a queue that may stop for good |
| `path_canceled` | `MCPrintPath`, `PathCanceled` | violation of `CanceledIsNotDone`: a canceled job is answered "done" |
| `hub_views` | `MCHubPeers`, `HubViews` | for one connection and for two `RegistryTrue` and `IterationStable`, and for one under fairness `ScaleShown`, `LostLeave`, `StopEmpties` |
| `hub_printer` | `MCWSHub`, `HubPrinter` | violation of `PrinterShown`: a status read for a new client overtakes, in its queue, the broadcast of a change |
| `station` | `MCStation`, `Station` | the parts that share no state, one per behaviour: `OneBehind`, `AnswersBelong` (line); `StallNoticed`, `LedgerForgets` (queue watch); `PinnedWins`, `LabelPrinterOnly` (selection, for sites that name a printer); `WholeScans`, `NewestOnce`, `ScansArrive` (scanner); `LabelsCounted` (raster); `FramesFound` (frames); `LinesKept` (log); `SavedOnly` (Wi-Fi) |
| `select_unrelated` | `MCPrinterSelect`, `SelectUnrelated` | violation: with no `PRINTER_NAME` an unrelated default is used for labels |

Every property of a passing run has a mutant in `PROJECT.json`: a small change of one
action, kept next to that action under a comment `Mutant`, that makes TLC find the
property violated.

### Bounds, and why they are enough

* Scale: two HTTP slots and two WebSocket slots are one weigh, one tare and one
  health check besides a second weigh, next to the loop; a slot is used again without
  limit. Races here need two goroutines and a third that observes. Two handles are
  needed for a leak (one published, one lost); a third shows nothing new. With
  `MaxRetries = 2` Weigh unlocks and locks again once; `TTL = 2` ticks distinguishes
  fresh, ageing and expired. `scale_live` has one slot of each kind (the WebSocket one
  asks for the health) and `TTL = 0`, so that no weight is answered from the cache: the
  loop and the request are the two that dial, and the third party changes nothing but
  the lock.
* Sender: two labels distinguish first, last and a label missing in between; one
  busy retry, one label and three leftovers of the earlier job; two troubles, since
  one trouble and its late consequences, or two of them in any order, cover each
  pair of error paths.
* Print path: two requests are the least with contention for the mutex, a second job
  in the queue behind a stuck one, and a reset by one job that hits the other's
  labels. Two labels per job let a job be half printed.
* WebSocket hub: one connection that ends and is used again without limit, a queue of
  two, and one change or request, from either state of scale and printer, next to any
  number of health broadcasts: the greeting, its drops and each order of greeting and
  announcement occur. In the other behaviours of `hub_views` two connections come and go
  while the health broadcast iterates, so that one can join or leave when the other has
  been served; with the changes as well the states are too many for a run. The liveness
  properties are about one connection at a time, so the fairness of `PeersSpec` asks for
  `peers = {c1}` and the behaviours of two count for safety only; the safety properties are
  proved for any number of connections, and `hub_printer` runs with two.
* Station: the parts share no variable, so `part`, chosen in the initial state and never
  changed, says which of them the behaviour is about; the others stay in one initial
  state. The state spaces add up instead of multiplying, and a property of one part is
  checked in that part's behaviours as in a run of its own. A part nobody uses owes no
  step, so the fairness of the others does not stop it.
  - Queue watch: two watchers that show and one that acts annotate their snapshots in each
    order; one job with a patience of one tick is stalled, drained, canceled and restarted.
  - Selection: three queues, a model that is known, a QL of another name and an unrelated
    one; two changes, the least that replace one queue by another between two questions, and
  any `lpstat` may fail.
  - Line: two loads tell an old weight from a new one; time needs no bound.
  - Scanner: two scans, each with a shifted character, one without, and a key release, are
    the least of which one can run into the other; the reader is plugged without bound.
  - Raster: two labels of one row of two bytes from a zero, a print command (26) and an
    escape (27): each pair of bytes that could be taken for a command. Frames: three
    bytes long, streams of seven: two frames and a byte to spare, and every byte but one
    of those a frame is made of may also be noise.
  - Log: months of two days, a year of two months, eight days: a file is removed, and
    written again after the month has come and gone. Wi-Fi: names of at most two
    characters from a colon, a backslash and a letter, two profiles.
* `CHECK_DEADLOCK FALSE` is set where the system may stop: when the requests of a
  bounded run are done, `Send` has returned, a WebSocket goroutine crashed the
  process, or a bounded part of the station is through.

## 4. Fairness

* Go runs every runnable goroutine; `sync.Mutex` in starvation mode serves a waiter
  after 1 ms, and `select` picks at random among ready cases: strong fairness for
  acquisitions of a mutex and for `LoopExit`; weak fairness for the rest of a handler.
* Every serial command ends by `commandTimeout`, tickers go on: weak fairness of the
  keepalive and the reconnect tick. The watchdog only tries the mutex (`TryLock`), and
  gives up when it is held: strong fairness of its tick, since requests leave the mutex
  free between them and the ticker goes on.
* `Reconnects` assumes that the scale answers for good from some moment on (`steady`);
  nothing else about the scale, clients, signals or the cable is fair. And it assumes a
  state that overlapping dials have not broken yet (`Mendable`): no handle leaked, no
  flag set or about to be set without a port, no dial underway with a handle from before
  a replug. Without that it is false of the code: a leaked handle makes every later open
  find the device busy, and a client that is connected without a port is passed over by
  the watchdog (`client.go:328`). How such states arise is the finding `scale_concurrent`.
  Dials that begin in a mendable state may overlap in any way.
* In `QLSender` only `Send` is fair: timers fire and reads return. The printer, staff
  and cancels are not.
* In `PrintPath` the handlers run on, CUPS starts jobs and reaps backends, and
  `SendConcludes` is fair, which is what `SendEnds` of `QLSender` shows. Every
  `exec.Command` is assumed to return; the hub sets no timeout on `lp` and `lpstat`.
* In `WSHub` goroutines run on (strong fairness for the write lock, as `RWMutex` lets a
  waiting writer in before new readers), the loops' tickers tick, a stopping program
  closes its listener, and TCP gives up on a peer that acknowledges nothing. Tablets,
  scale and printer are not fair.
* In `QueueWatch` a request that was begun goes on and time passes; CUPS, the printer and
  staff are not fair, and `StallNoticed` and `LedgerForgets` assume in their own premise
  that somebody goes on looking at the queue (the tablet polls it).
* In `Scanner` the two goroutines run on and the tablet polls; nothing is assumed of the
  reader, and `ScansArrive` speaks of one that stays plugged in from some moment on.

## 5. Refinement

`Delivers` in `QLSender` is `Delivery!DeliverySpec` under the mapping held = buffer,
out = out, lost = (link is down), outcome = outcome: each step of `Send`, of the
printer and of the cable is a step of `Delivery` or leaves its variables alone. TLC
checks it in `sender_job`, `SendDelivers` proves it for any number of labels, retries and
troubles, and `PrintPath` EXTENDS `Delivery`, so its runs use exactly
that promise and none of `Send`'s detail.

## 6. Proofs

TLAPS checks these theorems for every value of the constants that the modules'
assumptions allow: any number of requests, handles, labels, retries, leftovers and
troubles. The runs above show the same properties on small instances.

| Theorem | States |
|---|---|
| `ScaleClientProofs!TypeCorrect` | `[]TypeOK`; `Weigh` never counts beyond `maxWeighRetries` |
| `ScaleClientProofs!LockCorrect` | `[]SerialExclusion` |
| `ScaleClientProofs!PortsStayOpen` | `[]NoUseAfterClose`, also with replugs and overlapping dials |
| `ScaleClientProofs!SoleConnector` | `ConnectedHasPort`, `NoLeak`, `UpReported`, `StopIsFinal`, if `Exclusive` and not `Unplugs` |
| `ScaleClientProofs!NoHandleLeaks` | `[]NoLeak`, under the same conditions |
| `ScaleClientProofs!UpIsReported` | `[]UpReported`, under the same conditions |
| `ScaleClientProofs!StopLeavesNothing` | `[]StopIsFinal`, under the same conditions |
| `ScaleClientProofs!CacheForgets` | `[]CacheForgetsTare`, for any TTL |
| `ScaleLineProofs!LineTypes` | `[]LineTypeOK` |
| `ScaleLineProofs!NeverFurtherBehind` | `[]OneBehind` |
| `ScaleLineProofs!AnswersRight` | `[]AnswersBelong` |
| `QLSenderProofs!SenderTypes` | `[]TypeOK` |
| `QLSenderProofs!NothingLeft` | `[]NothingLeftToPrint` |
| `QLSenderProofs!CompletedIsOut` | `[]CompletedCameOut`, if not `OldErrors` |
| `QLSenderProofs!SendDelivers` | `Delivers`: `QLSender` implements `Delivery`, if not `OldErrors` |
| `PrintPathProofs!PathTypes` | `[]TypeOK` |
| `PrintPathProofs!PrintedCorrect` | `[]PrintedIsTrue`, whatever the `Faults` |
| `PrintPathProofs!FailedStaysFailed` | `FailedIsFinal`, if "keep" is not among the `Faults` |
| `WSHubProofs!HubTypes` | `[]TypeOK`; no queue exceeds its capacity |
| `WSHubProofs!RegistryCorrect` | `[]RegistryTrue` |
| `WSHubProofs!IterationSafe` | `IterationStable`: nobody joins or leaves the registry under an iteration |
| `StationProofs!PinnedAlwaysWins` | `[]PinnedWins`, for any queues, any number of changes and whichever `lpstat` fails |
| `StationProofs!NamedSiteIsSafe` | `LabelPrinterOnly` wherever a printer is configured |
| `StationProofs!SelectTypes` | `[]SelectTypeOK`, and what is selected is a name that the site configured or that CUPS told (`ChosenKnown`) |
| `StationProofs!WatchTypes` | `[]WatchTypeOK`, and a request cancels or restarts only as and what it was asked (`Told`), for any number of jobs and watchers |
| `ScannerProofs!ScansGrowNewer` | `NewestOnce`, for any number of scans and any program of keys that ends in its one Enter |
| `ScannerProofs!ScansAreWhole` | `[]WholeScans`, under the same conditions |
| `ScannerProofs!ScannerTypes` | `[]ScannerTypeOK`, under the same conditions |
| `RasterProofs!RasterTypes` | `[]RasterTypeOK` |
| `RasterProofs!EveryLabelCounted` | `[]LabelsCounted`, for any number of labels of any height, rows of any bytes and any number of padding bytes |
| `StationProofs!LogTypes` | `[]LogTypeOK` |
| `StationProofs!LogKeepsLines` | `[]LinesKept`, for months and years of any length |
| `StationProofs!FrameTypes` | `[]FrameTypeOK` |
| `StationProofs!FramesAreFound` | `[]FramesFound`, for streams and frames of any length |
| `StationProofs!NetTypes` | `[]NetTypeOK` |
| `StationProofs!OnlySavedProfiles` | `[]SavedOnly`, for names of any length and any set of profiles |
| `StationProofs!StationTypes` | `[]StationTypeOK`: the parts keep their types next to each other |

Assumptions are those named in the modules (`ProcsAssumption`, `BoundsAssumption`,
`SenderAssumption`, `LabelsAssumption`, `PathAssumption`,
`HubAssumption`, `LineAssumption`, `WatchAssumption`, `SelectAssumption`, `ScannerAssumption`,
`RasterAssumption`, `LogAssumption`, `FrameAssumption`, `NetAssumption`) and, where the theorem says
so, on the environment. They are needed: `scale_concurrent` shows that `SoleConnector`
fails with replugs, `sender_stale` that a report of an old job can be counted with
`OldErrors`, a CUPS that keeps failed jobs breaks `FailedIsFinal`, and
`select_unrelated` that `NamedSiteIsSafe` needs a configured name.

The arguments:

* `NoUseAfterClose` is not inductive: the handle a goroutine is about to publish must
  differ from the one another goroutine closes. `PortInv` adds that all handles in
  flight and `c.port` are pairwise distinct.
* `ConnectedHasPort` needs an owner: with an exclusive open and no replug, at most one
  goroutine is between opening the device and announcing it (`OneOwner`), the client is
  offline meanwhile (`OwnerOffline`), and what is open is the owner's handle or, without
  an owner, `c.port` (`OwnerHandle`, `NoOwner`). `SoleInv` joins these with what the
  holder of the mutex may rely on; `NoDialers` gives `StopIsFinal`.
* `NothingLeftToPrint` needs that nothing refills the printer after the reset of an
  error path: `Emptied` follows the path from the reset to the report, `Written` says
  that before the data is written the printer has nothing of the job (so a refusal
  leaves nothing), and `Concluded` that no write follows an outcome.
* `CompletedCameOut` and `Delivers` need an account of the completion reports: those that
  `Send` has counted and those still on the wire are together at most the labels that came
  out since the job's data was written (`CountStep`). What is on the wire is counted as the
  cardinality of the set of positions that hold a completion; `FrameSent`, `FrameRead` and
  `Emitted` say how it moves when a frame joins or leaves the queue. Reports of an
  earlier job are out of the way by then: they stand before any answer on the wire
  (`ReportsFirst`), and an answer means that the reset was carried out (`OldGone`), which is
  what `OldErrors` would break.
* `SendDelivers` goes through the actions of `QLSender` and maps each to an action of
  `Delivery` or a stutter: `Taken`, `CameOut`, `Dropped`, `Lost` and `Reported` are those
  steps, and the account above says that "printed" is reported only when all is out.
* `PrintedIsTrue` needs that CUPS never runs a printed job again, for the second run
  would start counting from zero under the old result file: `PrintedLeaves` says that a
  printed job is in the queue only while its backend exits, `AnswerTrue` that a request
  reads a result only after its job left the queue, and `NotSubmitted` that a job enters
  the queue once.
* `FailedIsFinal` needs `OnceInv`: a job whose outcome is known leaves the queue with
  its backend, so its result file is its outcome, and the printer holds nothing of it.
* `IterationStable` is an action property: `Register` and `Unregister` take the lock for
  writing, which a broadcast that iterates holds for reading (`IterationStep`).
* `RegistryTrue` needs `PumpStarted`: when a connection enters the read loop its pump was
  started, and when it is admitted no pump of an earlier connection runs.
* `CacheForgetsTare` needs that a cached reading from before a tare is at least as old as
  that tare, in ticks up to the TTL: both ages grow by the same ticks.
* `OneBehind` is not inductive: a command that is written while an answer is left over has
  two coming. `CountInv` bounds what is due while somebody is on the line by two, or by one
  as long as no keepalive was repeated and no port closed with an answer due; `DueFacts`
  says what a timeout leaves, on the same port or for the next one; `LoadInv` says of the
  first and the second line since when their load was shown, and `ToldInv` carries it to
  the caller.
* `PinnedWins` needs to know why a name was passed over: `PassedOver` says that each
  configured name that `Status` went past was missing at some moment or its `lpstat` failed,
  and that a list of all queues shows those that CUPS never lost, among which
  `resolvePrinter` then takes the first configured one (`ListedWins`).
* `NewestOnce` needs that everything on its way is ordered: in `ScanInv` the scans of what
  was given, kept, typed and read grow from one stage to the next, and strictly past an
  Enter, which ends a scan.
* `WholeScans` is about characters that three parties hold between them. `CodeInv` follows
  a session of the reader, from plugging it in to pulling it: what `data`, `hand` and the
  kernel's buffer hold is, one after the other, a piece of what was typed without a gap, and
  up to the present key while the device is open (`Stream`); `current` is what was typed of
  the scan before that piece (`Progress`); and a scan that the cable interrupted is not among
  the whole ones (`Session`). A scan then ends at its own Enter and holds each of its
  characters.
* `FramesFound` says what a loop computes. `TurnsIs` shows that the recursive function
  exists and obeys its equation, `TurnFinds` by downward induction over the buffer that its
  frames are a `Chain`: each starts at the first head after the one before, and what is left
  begins where the next may begin. The invariant places the buffer in the stream
  (`FrameInv`), and `ChainJoin` puts the frames of one read after those of the earlier ones.
* `SavedOnly` needs that `splitFields` takes out what nmcli put in: `EscapedRead`, by
  induction over the characters of a name, and `LineSplit` for the three fields of a line.
* `LabelsCounted` follows the three loops over one stream. `Coded` says what the stream holds
  from a position on: so many labels of so many rows, all of it black, and a last byte that
  prints. The stream is built from its end, command by command (`ZeroCoded`, `ModeCoded`,
  `CutCoded`, `RowCoded`, ... and `PagesCoded`, which walks the labels backwards), after
  `FlatIs` has said where each piece of the flattened sequence stands; `JobRead` reads the
  number off. A shortened stream agrees with the whole one on every command that it holds in
  full (`CutWalk`, by `SameLength`), so it loses at least the last print (`CutRead`). Each
  command of the black stream becomes one or two of the two-colour one, which show the same
  label in two colours (`Recoloured`, `TurnedWalk`).
* `StationTypeOK` is that of its parts, since a behaviour of the station is one of each
  part's own specification (`StationIs...`). Of these, `WatchTypeOK` is not inductive: what
  a request that acts goes on to do is what it was asked (`Told`).
* `LinesKept` needs that `curMonth` is never ahead of the clock, and behind it when the
  file is closed, so that the next line tries to open it again.

Each `...Step` lemma goes through the actions one after the other.

Induction: the library's induction theorems take an operator as their parameter, which
the provers cannot instantiate. `LeastNat` (a set of numbers that is not empty has a least
one, from the well-foundedness of the numbers), `SetInduction` and `DownInduction` state it for
sets instead, and that a recursive function exists is itself proved by induction: `Recursion`
does it once for functions that call themselves on arguments of a smaller rank (`WalkIs`,
`RewrittenIs`, `FlatIs` cite it), `TurnsIs`, `RunesIs` and `EscapesIs` for their own.

Every safety property of the runs is proved. Only model-checked is all liveness
(`RequestsAnswered`, `Reconnects`, `SendEnds`, `EveryRequestAnswered`, `JobsLeave`,
`ScaleShown`, `LostLeave`, `StopEmpties`, `StallNoticed`, `LedgerForgets`, `ScansArrive`), and
in `scale_sole` the absence of deadlock: liveness under fairness and ENABLED are out of the
reach of the prover.

## 7. Findings

* `scale_concurrent` (`client.go:363`): "Safe to call concurrently" does not hold over
  a replug; the client can stay connected with a nil port.
* `sender_stale` (`send.go:118`): the drain does not cover the time in which the reset
  is written; an old error can be taken for the answer, and an old completion be
  counted.
* `path_canceled` (`raw.go:196`): a job that was canceled before the backend wrote a
  result is answered "done".
* `hub_printer` (`ws/handler.go:110`): a tablet that connects while the printer changes
  can be shown the old state until the next change.
* `select_unrelated` (`brother.go:1131`): with no `PRINTER_NAME` (the default) and no queue
  that looks like a Brother QL, the CUPS default or the first queue is used for labels,
  although `brother.go:1113` and `README.md:204` say that an unrelated default never is.

Met while modelling and kept as hazards, without a run: `DELETE /printer/queue` answers
"cleared" while `lpstat` fails; a test print is answered "complete" whatever the printer
said; a probe sends a status request while labels may be printing, against the raster
document; the last `onStatus` call can say connected while the client is not
(`client.go:399`), until the next health broadcast; the
`printerConnected` of the health broadcast means that a queue is selected, that of
`printer_status` that it is ready; two connections can pass the client limit together;
a queue that is read while a job prints and whose state is read after it printed is
shown as stalled (`brother.go:873`), until the next poll; a log line is only certain to be
kept for eleven months, not a year (`logger.go:36`); a Wi-Fi profile may come up although
its request timed out (`network.go:81`); and `FailedIsFinal` does not hold with a CUPS
that keeps failed jobs: the job
runs again under the same id, and until it ends the result file is the first run's.

## 8. Not modelled, and why

* Label rendering: pixel layout by font metrics, without state; a third of the code.
  Label data: one pure pass over the request.
* The driver (ipp-usb) path of printing with its media options, and the queue profile
  shown to staff (`profileDetail`): texts of `lpoptions` and `ipptool`.
* The texts that are taken as read: what `lp`, `lpstat` and `lpoptions` print, the digits of
  a weight, the bits of a status frame, key codes; of nmcli, all but the escapes.
* Which serial port or input device is the right one by its ids. Events that the kernel
  drops when its buffer overflows (SYN_DROPPED), which the scanner does not look at.
* A clock that is set back: log lines then go to an older file.
* Request decoding, LAN and CORS filters, admin pages, configuration: no state after
  start. The timing trace: log lines only.
* The exit of the process while `Stop` still runs (`main.go:43`): a hazard only.
* Clocks: budgets in seconds (60 s cap of the confirm wait, 3 s for the result file) are
  abstracted to "may end at any poll".

## 9. Plan

Done: the scale (`ScaleClient`, `ScaleLine`), the printer (`QLSender`, `Delivery`,
`PrintPath`, `QueueWatch`, `PrinterSelect`, `RasterJob`, `FrameReader`), the WebSocket hub
(`WSHub`), `Scanner`, `HubLog` and `NetAdmin`, with their runs and proofs. What is left, in
this order:

1. Proofs: every safety property that a run checks is proved. What the liveness properties
   rest on could be too, as far as it is safety: that whoever waits for the mutex of the
   scale or for a hub event waits for somebody who can go on.
2. `PrintPath` with clocked budgets: the 60 s cap of `rawConfirmWait` against the backend's
   own waits, and a second request for a label whose first answer was an error.
3. The creation and pruning of result files (`results.go`), and the driver path of
   `PrintLabel`.
