---------------------------- MODULE ScaleClient ----------------------------
(***************************************************************************)
(* The client of the A&D scale (internal/scale/client.go) together with    *)
(* the HTTP and WebSocket handlers that call it and the shutdown sequence  *)
(* of internal/app.  The processes are                                     *)
(*                                                                         *)
(*   Loop    the goroutine of reconnectLoop (reconnect and watchdog ticks) *)
(*   Http    slots for requests to POST /scale/weigh, /tare and /zero      *)
(*   Ws      slots for the weigh, tare, zero and health WebSocket messages *)
(*                                                                         *)
(* One action is one stretch of code between two points at which another   *)
(* goroutine can see or change the shared state: c.mu, c.port, the two     *)
(* atomics connected and portName, the weigh cache, and the order in which *)
(* onStatus is called.  A serial exchange (sendCommandLocked) is one step  *)
(* with the outcomes the line can produce.                                 *)
(***************************************************************************)
EXTENDS Naturals, FiniteSets

CONSTANTS
    Loop,        \* the reconnect loop's goroutine
    Http,        \* slots for concurrent HTTP requests
    Ws,          \* slots for concurrent WebSocket requests
    Op,          \* the operation the requests of a slot perform
    Handles,     \* handles serial.Open can return; more open handles than these is EMFILE
    NoPort,      \* the nil Port
    Free,        \* c.mu when nobody holds it
    MaxRetries,  \* maxWeighRetries
    TTL,         \* weighCacheTTL in clock ticks
    Exclusive,   \* whether serial.Open refuses a device that is already open
    Unplugs,     \* whether the cable can be pulled and put back
    Settles      \* whether the scale may become reliable for good

Procs == {Loop} \cup Http \cup Ws

\* Tare and Zero have the same body; both are "adjust".
Ops == {"weigh", "adjust", "health"}

ASSUME ProcsAssumption ==
    /\ Loop \notin Http \cup Ws
    /\ Http \cap Ws = {}
    /\ Free \notin Procs
    /\ NoPort \notin Handles
    /\ Op \in [Http \cup Ws -> Ops]
    /\ \A p \in Http : Op[p] # "health"
ASSUME BoundsAssumption ==
    /\ MaxRetries \in Nat \ {0}
    /\ TTL \in Nat
    /\ Exclusive \in BOOLEAN
    /\ Unplugs \in BOOLEAN
    /\ Settles \in BOOLEAN

VARIABLES
    pc,         \* where each goroutine is
    tries,      \* i of the loop in Weigh
    handle,     \* the local `port` of tryConnect, before it is published
    lock,       \* c.mu
    port,       \* c.port
    connected,  \* c.connected
    named,      \* whether c.portName holds a name
    lastStatus, \* the argument of the latest onStatus call
    cache,      \* c.cachedWeigh: "none", or whether it predates the last tare/zero
    cacheAge,   \* ticks since c.cacheTime, up to TTL
    tareAge,    \* ticks since the last acknowledged tare/zero, up to TTL
    open,       \* handles the operating system holds open
    stale,      \* open handles whose device was unplugged
    plugged,    \* whether the scale is on the bus
    steady,     \* from now on the scale stays plugged in and answers
    stop,       \* "running", "signalled" (ctx cancelled), "stopped" (Stop returned)
    panicked    \* "no", "recovered" (net/http), "crashed" (a WebSocket goroutine)

proc  == <<pc, tries, handle>>
flags == <<connected, named>>
cached == <<cache, cacheAge, tareAge>>
device == <<open, stale, plugged, steady>>
vars  == <<proc, lock, port, flags, lastStatus, cached, device, stop, panicked>>

-----------------------------------------------------------------------------
PCs == {"idle", "done", "dial", "attach", "probe", "name", "up", "notifyUp",
        "recheck", "cache", "lock", "send", "sleep", "keepalive", "retry",
        "notifyDown"}

\* The places where the goroutine holds c.mu.
LockedPCs == {"probe", "send", "keepalive", "retry", "notifyDown"}

Ages == 0 .. TTL

ProcTypeOK ==
    /\ pc \in [Procs -> PCs]
    /\ tries \in [Procs -> 0 .. MaxRetries - 1]
    /\ handle \in [Procs -> Handles \cup {NoPort}]

ClientTypeOK ==
    /\ lock \in Procs \cup {Free}
    /\ port \in Handles \cup {NoPort}
    /\ connected \in BOOLEAN
    /\ named \in BOOLEAN
    /\ lastStatus \in BOOLEAN

CacheTypeOK ==
    /\ cache \in {"none", "current", "old"}
    /\ cacheAge \in Ages
    /\ tareAge \in Ages

DeviceTypeOK ==
    /\ open \subseteq Handles
    /\ stale \subseteq open
    /\ plugged \in BOOLEAN
    /\ steady \in BOOLEAN

AppTypeOK ==
    /\ stop \in {"running", "signalled", "stopped"}
    /\ panicked \in {"no", "recovered", "crashed"}

TypeOK == ProcTypeOK /\ ClientTypeOK /\ CacheTypeOK /\ DeviceTypeOK /\ AppTypeOK

\* NewClient and Start: the loop's first act is tryConnect.
Init ==
    /\ pc = [p \in Procs |-> IF p = Loop THEN "dial" ELSE "idle"]
    /\ tries = [p \in Procs |-> 0]
    /\ handle = [p \in Procs |-> NoPort]
    /\ lock = Free
    /\ port = NoPort
    /\ connected = FALSE
    /\ named = FALSE
    /\ lastStatus = FALSE
    /\ cache = "none"
    /\ cacheAge = TTL
    /\ tareAge = TTL
    /\ open = {}
    /\ stale = {}
    /\ plugged = TRUE
    /\ steady = FALSE
    /\ stop = "running"
    /\ panicked = "no"

-----------------------------------------------------------------------------
(***************************************************************************)
(* The serial line.  A command on a handle whose device is present may be  *)
(* answered; it may fail (write error, read error, timeout, a line that    *)
(* does not parse) unless the scale has become steady.                     *)
(***************************************************************************)
MayAnswer == plugged /\ port \in open \ stale
MayFail   == ~ (MayAnswer /\ steady)

Goto(p, label) == pc' = [pc EXCEPT ![p] = label]

\* Unlock c.mu and end the request, or go back to the loop's select.
Return(p) ==
    /\ lock' = Free
    /\ Goto(p, "idle")
    /\ tries' = [tries EXCEPT ![p] = 0]

\* port.Close() followed by c.port = nil.
ClosePort ==
    /\ open' = open \ {port}
    /\ stale' = stale \ {port}
    /\ port' = NoPort

\* Mutant: the flag survives the port.
DisconnectKeepsFlag(p) ==
    /\ ClosePort
    /\ Goto(p, "notifyDown")
    /\ UNCHANGED <<lock, flags>>

\* Mutant: c.mu is released before the status is sent.
DisconnectUnlocks(p) ==
    /\ ClosePort
    /\ connected' = FALSE
    /\ named' = FALSE
    /\ Goto(p, "notifyDown")
    /\ lock' = Free

\* closePortLocked with c.mu held; setStatusLocked(false) follows.
Disconnect(p) ==
    /\ ClosePort
    /\ connected' = FALSE
    /\ named' = FALSE
    /\ Goto(p, "notifyDown")
    /\ UNCHANGED lock

\* setStatusLocked(false, "") and the deferred unlock.
NotifyDown(p) ==
    /\ pc[p] = "notifyDown"
    /\ lastStatus' = FALSE
    /\ Return(p)
    /\ UNCHANGED <<handle, port, flags, cached, device, stop, panicked>>

-----------------------------------------------------------------------------
(***************************************************************************)
(* Entry points of the handlers.                                           *)
(***************************************************************************)
\* Weigh looks at its cache first; Tare and Zero take c.mu at once.
Entry(o) == IF o = "weigh" THEN "cache" ELSE "lock"

\* HandleScaleWeigh, HandleScaleTare, HandleScaleZero up to TryConnect.
BeginHTTP(p) ==
    /\ p \in Http
    /\ pc[p] = "idle"
    /\ stop = "running"
    /\ Goto(p, IF connected THEN Entry(Op[p]) ELSE "dial")
    /\ UNCHANGED <<tries, handle, lock, port, flags, lastStatus, cached, device, stop, panicked>>

\* The handler's second Connected() test, after TryConnect: 503 or go on.
Recheck(p) ==
    /\ pc[p] = "recheck"
    /\ Goto(p, IF connected THEN Entry(Op[p]) ELSE "idle")
    /\ UNCHANGED <<tries, handle, lock, port, flags, lastStatus, cached, device, stop, panicked>>

\* handleWeigh, handleTare and handleZero refuse when not connected and never
\* dial; handleHealth goes straight to HealthCheck.
BeginWS(p) ==
    /\ p \in Ws
    /\ pc[p] = "idle"
    /\ Op[p] = "health" \/ connected
    /\ Goto(p, Entry(Op[p]))
    /\ UNCHANGED <<tries, handle, lock, port, flags, lastStatus, cached, device, stop, panicked>>

-----------------------------------------------------------------------------
(***************************************************************************)
(* tryConnect, by the loop and by HTTP requests.                           *)
(***************************************************************************)
AfterDial(p) == IF p = Loop THEN "idle" ELSE "recheck"

\* Whether serial.Open refuses: the device is open already, by a handle that
\* was not orphaned by an unplug.
Busy == Exclusive /\ open \ stale # {}

\* DetectPort and openPort succeed, without c.mu.
OpenPort(p) ==
    /\ pc[p] = "dial"
    /\ plugged
    /\ ~ Busy
    /\ \E h \in Handles \ open :
           /\ handle' = [handle EXCEPT ![p] = h]
           /\ open' = open \cup {h}
    /\ Goto(p, "attach")
    /\ UNCHANGED <<tries, lock, port, flags, lastStatus, cached, stale, plugged, steady, stop, panicked>>

\* DetectPort or openPort fails.
OpenFails(p) ==
    /\ pc[p] = "dial"
    /\ \/ ~ plugged
       \/ ~ steady
       \/ Busy
       \/ Handles \subseteq open
    /\ Goto(p, AfterDial(p))
    /\ UNCHANGED <<tries, handle, lock, port, flags, lastStatus, cached, device, stop, panicked>>

\* c.mu.Lock(); c.port = port -- whatever c.port was.
Attach(p) ==
    /\ pc[p] = "attach"
    /\ lock = Free
    /\ lock' = p
    /\ port' = handle[p]
    /\ handle' = [handle EXCEPT ![p] = NoPort]
    /\ Goto(p, "probe")
    /\ UNCHANGED <<tries, flags, lastStatus, cached, device, stop, panicked>>

\* The scale answers the probe; c.mu.Unlock().
ProbeAnswered(p) ==
    /\ pc[p] = "probe"
    /\ MayAnswer
    /\ lock' = Free
    /\ Goto(p, "name")
    /\ UNCHANGED <<tries, handle, port, flags, lastStatus, cached, device, stop, panicked>>

\* Mutant: c.port = nil without closing the handle.
ProbeFailsLeaks(p) ==
    /\ pc[p] = "probe"
    /\ MayFail
    /\ port' = NoPort
    /\ lock' = Free
    /\ Goto(p, AfterDial(p))
    /\ UNCHANGED <<tries, handle, flags, lastStatus, cached, device, stop, panicked>>

\* Mutant: the handle is closed and c.port keeps pointing at it.
ProbeFailsDangles(p) ==
    /\ pc[p] = "probe"
    /\ MayFail
    /\ open' = open \ {port}
    /\ stale' = stale \ {port}
    /\ lock' = Free
    /\ Goto(p, AfterDial(p))
    /\ UNCHANGED <<tries, handle, port, flags, lastStatus, cached, plugged, steady, stop, panicked>>

\* The probe fails: close, c.port = nil, unlock.  connected is not touched.
ProbeFails(p) ==
    /\ pc[p] = "probe"
    /\ MayFail
    /\ ClosePort
    /\ lock' = Free
    /\ Goto(p, AfterDial(p))
    /\ UNCHANGED <<tries, handle, flags, lastStatus, cached, plugged, steady, stop, panicked>>

\* c.portName.Store(portName), without c.mu.
StoreName(p) ==
    /\ pc[p] = "name"
    /\ named' = TRUE
    /\ Goto(p, "up")
    /\ UNCHANGED <<tries, handle, lock, port, connected, lastStatus, cached, device, stop, panicked>>

\* c.connected.Store(true), without c.mu.
StoreConnected(p) ==
    /\ pc[p] = "up"
    /\ connected' = TRUE
    /\ Goto(p, "notifyUp")
    /\ UNCHANGED <<tries, handle, lock, port, named, lastStatus, cached, device, stop, panicked>>

\* onStatus(true, portName), without c.mu.
NotifyUp(p) ==
    /\ pc[p] = "notifyUp"
    /\ lastStatus' = TRUE
    /\ Goto(p, AfterDial(p))
    /\ UNCHANGED <<tries, handle, lock, port, flags, cached, device, stop, panicked>>

-----------------------------------------------------------------------------
(***************************************************************************)
(* Weigh, Tare, Zero and HealthCheck.                                      *)
(***************************************************************************)
CacheValid == cache # "none" /\ cacheAge < TTL

\* Mutant: a hit renews the cached reading.
CacheHitRenews(p) ==
    /\ pc[p] = "cache"
    /\ CacheValid
    /\ cacheAge' = 0
    /\ Goto(p, "idle")
    /\ UNCHANGED <<tries, handle, lock, port, flags, lastStatus, cache, tareAge, device, stop, panicked>>

\* Weigh answers from the cache, without c.mu and without looking at connected.
CacheHit(p) ==
    /\ pc[p] = "cache"
    /\ CacheValid
    /\ Goto(p, "idle")
    /\ UNCHANGED <<tries, handle, lock, port, flags, lastStatus, cached, device, stop, panicked>>

CacheMiss(p) ==
    /\ pc[p] = "cache"
    /\ ~ CacheValid
    /\ Goto(p, "lock")
    /\ UNCHANGED <<tries, handle, lock, port, flags, lastStatus, cached, device, stop, panicked>>

\* c.mu.Lock() and the connected test of Weigh, Tare and Zero.
Lock(p) ==
    /\ pc[p] = "lock"
    /\ Op[p] # "health"
    /\ lock = Free
    /\ IF connected THEN lock' = p /\ Goto(p, "send") /\ UNCHANGED tries
                    ELSE Return(p)
    /\ UNCHANGED <<handle, port, flags, lastStatus, cached, device, stop, panicked>>

\* HealthCheck: it only looks at the flag and the pointer, and repairs
\* "connected but port is nil".
HealthCheck(p) ==
    /\ pc[p] = "lock"
    /\ Op[p] = "health"
    /\ lock = Free
    /\ IF connected /\ port = NoPort
       THEN /\ lock' = p
            /\ connected' = FALSE
            /\ named' = FALSE
            /\ Goto(p, "notifyDown")
            /\ UNCHANGED tries
       ELSE Return(p) /\ UNCHANGED flags
    /\ UNCHANGED <<handle, port, lastStatus, cached, device, stop, panicked>>

\* Weigh finds its context cancelled before sending.
WeighCanceled(p) ==
    /\ pc[p] = "send"
    /\ Op[p] = "weigh"
    /\ Return(p)
    /\ UNCHANGED <<handle, port, flags, lastStatus, cached, device, stop, panicked>>

\* An ST line: remember the reading and return it.
WeighStable(p) ==
    /\ pc[p] = "send" /\ Op[p] = "weigh" /\ stop = "running"
    /\ MayAnswer
    /\ cache' = "current"
    /\ cacheAge' = 0
    /\ Return(p)
    /\ UNCHANGED <<handle, port, flags, lastStatus, tareAge, device, stop, panicked>>

\* Mutant: one retry too many.
WeighUnstableOneMore(p) ==
    /\ pc[p] = "send" /\ Op[p] = "weigh" /\ stop = "running"
    /\ MayAnswer
    /\ IF tries[p] < MaxRetries
       THEN lock' = Free /\ Goto(p, "sleep") /\ tries' = [tries EXCEPT ![p] = @ + 1]
       ELSE Return(p)
    /\ UNCHANGED <<handle, port, flags, lastStatus, cached, device, stop, panicked>>

\* A US line: report progress, then wait without c.mu or, the last time, give up.
WeighUnstable(p) ==
    /\ pc[p] = "send" /\ Op[p] = "weigh" /\ stop = "running"
    /\ MayAnswer
    /\ IF tries[p] < MaxRetries - 1
       THEN lock' = Free /\ Goto(p, "sleep") /\ tries' = [tries EXCEPT ![p] = @ + 1]
       ELSE Return(p)
    /\ UNCHANGED <<handle, port, flags, lastStatus, cached, device, stop, panicked>>

\* Mutant: the error path forgets the unlock.
WeighRefusedKeepsLock(p) ==
    /\ pc[p] = "send" /\ Op[p] = "weigh" /\ stop = "running"
    /\ MayAnswer
    /\ Goto(p, "idle")
    /\ UNCHANGED <<tries, handle, lock, port, flags, lastStatus, cached, device, stop, panicked>>

\* OL, or a header that is none of ST, US, OL: an error, but the port stays open.
WeighRefused(p) ==
    /\ pc[p] = "send" /\ Op[p] = "weigh" /\ stop = "running"
    /\ MayAnswer
    /\ Return(p)
    /\ UNCHANGED <<handle, port, flags, lastStatus, cached, device, stop, panicked>>

\* Mutant: the retry goes on without locking again.
RelockWithoutLock(p) ==
    /\ pc[p] = "sleep"
    /\ Goto(p, IF connected THEN "send" ELSE "idle")
    /\ UNCHANGED <<tries, handle, lock, port, flags, lastStatus, cached, device, stop, panicked>>

\* weighRetryDelay is over: lock again and test connected again.
Relock(p) ==
    /\ pc[p] = "sleep"
    /\ lock = Free
    /\ IF connected THEN lock' = p /\ Goto(p, "send") /\ UNCHANGED tries
                    ELSE Return(p)
    /\ UNCHANGED <<handle, port, flags, lastStatus, cached, device, stop, panicked>>

\* The context is cancelled during the wait: lock only for the deferred unlock.
SleepCanceled(p) ==
    /\ pc[p] = "sleep"
    /\ lock = Free
    /\ Return(p)
    /\ UNCHANGED <<handle, port, flags, lastStatus, cached, device, stop, panicked>>

\* The scale acknowledges tare or zero: every reading taken so far is out of date.
AdjustAcknowledged(p) ==
    /\ pc[p] = "send"
    /\ Op[p] = "adjust"
    /\ MayAnswer
    /\ cache' = IF cache = "current" THEN "old" ELSE cache
    /\ tareAge' = 0
    /\ Return(p)
    /\ UNCHANGED <<handle, port, flags, lastStatus, cacheAge, device, stop, panicked>>

\* Some other line than QT, TA or ZR: an error, but the port stays open.
AdjustRefused(p) ==
    /\ pc[p] = "send"
    /\ Op[p] = "adjust"
    /\ MayAnswer
    /\ Return(p)
    /\ UNCHANGED <<handle, port, flags, lastStatus, cached, device, stop, panicked>>

\* sendCommandLocked, or ParseWeighResponse, returns an error.
SendFails(p) ==
    /\ pc[p] = "send"
    /\ Op[p] = "weigh" => stop = "running"
    /\ port # NoPort
    /\ MayFail
    /\ Disconnect(p)
    /\ UNCHANGED <<tries, handle, lastStatus, cached, plugged, steady, stop, panicked>>

\* c.port is nil in sendCommandLocked: the goroutine panics and the deferred
\* unlock runs.  net/http recovers; nothing recovers a WebSocket goroutine.
SendPanics(p) ==
    /\ pc[p] = "send"
    /\ Op[p] = "weigh" => stop = "running"
    /\ port = NoPort
    /\ panicked' = IF p \in Ws THEN "crashed" ELSE "recovered"
    /\ Return(p)
    /\ UNCHANGED <<handle, port, flags, lastStatus, cached, device, stop>>

-----------------------------------------------------------------------------
(***************************************************************************)
(* reconnectLoop and watchdogCheck.                                        *)
(***************************************************************************)
ReconnectTick ==
    /\ pc[Loop] = "idle"
    /\ ~ connected
    /\ Goto(Loop, "dial")
    /\ UNCHANGED <<tries, handle, lock, port, flags, lastStatus, cached, device, stop, panicked>>

\* TryLock succeeds and there is something to check; otherwise the tick has no effect.
WatchdogTick ==
    /\ pc[Loop] = "idle"
    /\ connected
    /\ lock = Free
    /\ port # NoPort
    /\ lock' = Loop
    /\ Goto(Loop, "keepalive")
    /\ UNCHANGED <<tries, handle, port, flags, lastStatus, cached, device, stop, panicked>>

KeepaliveAnswered ==
    /\ pc[Loop] \in {"keepalive", "retry"}
    /\ MayAnswer
    /\ Return(Loop)
    /\ UNCHANGED <<handle, port, flags, lastStatus, cached, device, stop, panicked>>

KeepaliveFails ==
    /\ pc[Loop] = "keepalive"
    /\ MayFail
    /\ Goto(Loop, "retry")
    /\ UNCHANGED <<tries, handle, lock, port, flags, lastStatus, cached, device, stop, panicked>>

KeepaliveFailsTwice ==
    /\ pc[Loop] = "retry"
    /\ MayFail
    /\ Disconnect(Loop)
    /\ UNCHANGED <<tries, handle, lastStatus, cached, plugged, steady, stop, panicked>>

\* <-ctx.Done() in the loop's select, and close(c.done).
LoopExit ==
    /\ pc[Loop] = "idle"
    /\ stop # "running"
    /\ Goto(Loop, "done")
    /\ UNCHANGED <<tries, handle, lock, port, flags, lastStatus, cached, device, stop, panicked>>

-----------------------------------------------------------------------------
(***************************************************************************)
(* Shutdown, time and the cable.                                           *)
(***************************************************************************)
\* SIGINT or SIGTERM: the context of every goroutine is cancelled.
Signal ==
    /\ stop = "running"
    /\ stop' = "signalled"
    /\ UNCHANGED <<proc, lock, port, flags, lastStatus, cached, device, panicked>>

\* Mutant: Stop cancels the loop but does not wait for <-c.done.
StopClientEarly ==
    /\ stop = "signalled"
    /\ \A p \in Http : pc[p] = "idle"
    /\ lock = Free
    /\ ClosePort
    /\ connected' = FALSE
    /\ named' = FALSE
    /\ stop' = "stopped"
    /\ UNCHANGED <<proc, lock, lastStatus, cached, plugged, steady, panicked>>

\* App.Stop: Shutdown waits for the HTTP requests, Stop for the loop, then the
\* port is closed.  No status is sent.
StopClient ==
    /\ stop = "signalled"
    /\ \A p \in Http : pc[p] = "idle"
    /\ pc[Loop] = "done"
    /\ lock = Free
    /\ ClosePort
    /\ connected' = FALSE
    /\ named' = FALSE
    /\ stop' = "stopped"
    /\ UNCHANGED <<proc, lock, lastStatus, cached, plugged, steady, panicked>>

Older(age) == IF age < TTL THEN age + 1 ELSE age

Tick ==
    /\ cacheAge' = Older(cacheAge)
    /\ tareAge' = Older(tareAge)
    /\ UNCHANGED <<proc, lock, port, flags, lastStatus, cache, device, stop, panicked>>

Unplug ==
    /\ Unplugs /\ plugged /\ ~ steady
    /\ plugged' = FALSE
    /\ stale' = open
    /\ UNCHANGED <<proc, lock, port, flags, lastStatus, cached, open, steady, stop, panicked>>

Plug ==
    /\ ~ plugged
    /\ plugged' = TRUE
    /\ UNCHANGED <<proc, lock, port, flags, lastStatus, cached, open, stale, steady, stop, panicked>>

\* The scale is repaired for good: only liveness properties look at it.
Settle ==
    /\ Settles /\ plugged /\ ~ steady
    /\ steady' = TRUE
    /\ UNCHANGED <<proc, lock, port, flags, lastStatus, cached, open, stale, plugged, stop, panicked>>

-----------------------------------------------------------------------------
Dial(p) ==
    \/ OpenPort(p) \/ OpenFails(p) \/ Attach(p) \/ ProbeAnswered(p) \/ ProbeFails(p)
    \/ StoreName(p) \/ StoreConnected(p) \/ NotifyUp(p)

Operate(p) ==
    \/ Recheck(p) \/ CacheHit(p) \/ CacheMiss(p) \/ Lock(p) \/ HealthCheck(p)
    \/ WeighCanceled(p) \/ WeighStable(p) \/ WeighUnstable(p) \/ WeighRefused(p)
    \/ Relock(p) \/ SleepCanceled(p) \/ AdjustAcknowledged(p) \/ AdjustRefused(p)
    \/ SendFails(p) \/ SendPanics(p)

Keepalive == KeepaliveAnswered \/ KeepaliveFails \/ KeepaliveFailsTwice

Begin == \E p \in Procs : BeginHTTP(p) \/ BeginWS(p)

Environment == Begin \/ Signal \/ Tick \/ Unplug \/ Plug \/ Settle

Next ==
    /\ panicked # "crashed"
    /\ \/ \E p \in Procs : Dial(p) \/ Operate(p) \/ NotifyDown(p)
       \/ Keepalive \/ ReconnectTick \/ WatchdogTick \/ LoopExit \/ StopClient
       \/ Environment

Spec == Init /\ [][Next]_vars

(***************************************************************************)
(* Fairness.  Go runs every runnable goroutine; sync.Mutex hands itself to *)
(* a waiter that has starved for 1ms and select picks at random among the  *)
(* ready cases, hence strong fairness for acquisitions and for LoopExit.   *)
(* Every command ends within commandTimeout and the tickers keep firing.   *)
(* The watchdog only tries the mutex; requests leave it free in between,   *)
(* and its ticks come at times of their own, so it gets it in the end.     *)
(* Clients, signals, the cable and the scale are not fair.                 *)
(***************************************************************************)
Acquire(p) == Attach(p) \/ Lock(p) \/ HealthCheck(p) \/ Relock(p)

Progress(p) ==
    \/ OpenPort(p) \/ OpenFails(p) \/ ProbeAnswered(p) \/ ProbeFails(p)
    \/ StoreName(p) \/ StoreConnected(p) \/ NotifyUp(p) \/ NotifyDown(p)
    \/ Recheck(p) \/ CacheHit(p) \/ CacheMiss(p)
    \/ WeighStable(p) \/ WeighUnstable(p) \/ WeighRefused(p)
    \/ AdjustAcknowledged(p) \/ AdjustRefused(p) \/ SendFails(p) \/ SendPanics(p)
    \/ stop # "running" /\ WeighCanceled(p)

Fairness ==
    /\ \A p \in Procs : WF_vars(Progress(p)) /\ SF_vars(Acquire(p))
    /\ WF_vars(Keepalive)
    /\ WF_vars(ReconnectTick)
    /\ SF_vars(WatchdogTick)
    /\ SF_vars(LoopExit)
    /\ SF_vars(StopClient)

FairSpec == Spec /\ Fairness

-----------------------------------------------------------------------------
(***************************************************************************)
(* Properties.                                                             *)
(***************************************************************************)
\* c.mu serialises the serial line: whoever talks on the port, or is between
\* closing it and reporting that, is the holder of the mutex, across Weigh's
\* unlock and relock around its 500ms wait.
SerialExclusion ==
    \A p \in Procs : pc[p] \in LockedPCs <=> lock = p

\* Whenever the client says it is connected there is a port to talk on:
\* sendCommandLocked uses c.port without a nil test, relying on this.
ConnectedHasPort == connected => port # NoPort

\* No goroutine ever holds a handle that was closed under it, however many
\* tryConnect calls overlap: c.port and each unpublished handle are open.
NoUseAfterClose ==
    /\ port # NoPort => port \in open
    /\ \A p \in Procs : pc[p] = "attach" => handle[p] \in open

\* Every handle the operating system holds is either the published c.port or
\* still local to a tryConnect that has not published it.
NoLeak ==
    open \subseteq {port} \cup {handle[p] : p \in {q \in Procs : pc[q] = "attach"}}

\* A connection nobody is still announcing has been announced, and no later
\* onStatus(false) contradicts it.
UpReported ==
    connected => lastStatus \/ \E p \in Procs : pc[p] = "notifyUp"

\* A reading in the cache that predates an acknowledged tare or zero is at
\* least as old as that tare: such readings are gone weighCacheTTL after it.
CacheForgetsTare == cache = "old" => tareAge <= cacheAge

\* Once Stop has returned nothing is open, and nothing gets opened again.
StopIsFinal ==
    stop = "stopped" => open = {} /\ port = NoPort /\ ~ connected

\* Any request to the scale is answered, whatever the line does.
RequestsAnswered ==
    \A p \in Http \cup Ws : pc[p] # "idle" ~> pc[p] = "idle"

\* What two dials that overlap across a replug may leave behind, and nothing in
\* the code mends: a handle nobody closes, which keeps the device busy; a flag
\* that is set, or about to be, without a port; a dial with a handle of before.
Mendable ==
    /\ NoLeak
    /\ (connected \/ \E p \in Procs : pc[p] \in {"name", "up"}) => port # NoPort
    /\ stale # {} => \A p \in Procs : pc[p] \notin {"attach", "probe", "name", "up"}

Usable == connected /\ port \in open \ stale

\* Once the scale answers, the hub comes to be connected on a live port and
\* stays so until it is told to stop, whatever dials overlap from then on and
\* whatever dead port it was left with: unless overlapping dials have broken the
\* client before (then connected may stay TRUE without a port for ever, or each
\* open find the device busy).
Reconnects == steady /\ Mendable ~> [](Usable \/ stop # "running")
=============================================================================
