------------------------- MODULE ScaleClientProofs -------------------------
(***************************************************************************)
(* What TLAPS proves about the scale client, for any number of concurrent  *)
(* requests, handles and retries.                                          *)
(***************************************************************************)
EXTENDS ScaleClient, TLAPS

-----------------------------------------------------------------------------
\* Every step of the client, its callers and the cable keeps the types: in
\* particular Weigh's retry counter stays below maxWeighRetries.
THEOREM TypeCorrect == Spec => []TypeOK
<1> USE ProcsAssumption, BoundsAssumption
<1>1. Init => TypeOK
  <2> SUFFICES ASSUME Init PROVE TypeOK
    OBVIOUS
  <2>1. ProcTypeOK BY DEF Init, ProcTypeOK, PCs
  <2>2. ClientTypeOK BY DEF Init, ClientTypeOK
  <2>3. CacheTypeOK BY DEF Init, CacheTypeOK, Ages
  <2>4. DeviceTypeOK BY DEF Init, DeviceTypeOK
  <2>5. AppTypeOK BY DEF Init, AppTypeOK
  <2> QED BY <2>1, <2>2, <2>3, <2>4, <2>5 DEF TypeOK
<1>2. TypeOK /\ [Next]_vars => TypeOK'
  <2> SUFFICES ASSUME TypeOK, [Next]_vars PROVE TypeOK'
    OBVIOUS
  <2>0. /\ ProcTypeOK /\ ClientTypeOK /\ CacheTypeOK
        /\ DeviceTypeOK /\ AppTypeOK
    BY DEF TypeOK
  <2> USE DEF PCs, Ages, Goto, Return, ClosePort, device, cached, flags, proc
  <2>1. ASSUME NEW p \in Procs, Dial(p) PROVE TypeOK'
    <3>1. ProcTypeOK'
      BY <2>0, <2>1 DEF ProcTypeOK,
       Dial, OpenPort, OpenFails, Attach, ProbeAnswered, ProbeFails,
       StoreName, StoreConnected, NotifyUp, AfterDial
    <3>2. ClientTypeOK'
      BY <2>0, <2>1 DEF ClientTypeOK, ProcTypeOK,
       Dial, OpenPort, OpenFails, Attach, ProbeAnswered, ProbeFails,
       StoreName, StoreConnected, NotifyUp, AfterDial
    <3>3. CacheTypeOK'
      BY <2>0, <2>1 DEF CacheTypeOK,
       Dial, OpenPort, OpenFails, Attach, ProbeAnswered, ProbeFails,
       StoreName, StoreConnected, NotifyUp, AfterDial
    <3>4. DeviceTypeOK'
      BY <2>0, <2>1 DEF DeviceTypeOK,
       Dial, OpenPort, OpenFails, Attach, ProbeAnswered, ProbeFails,
       StoreName, StoreConnected, NotifyUp, AfterDial
    <3>5. AppTypeOK'
      BY <2>0, <2>1 DEF AppTypeOK,
       Dial, OpenPort, OpenFails, Attach, ProbeAnswered, ProbeFails,
       StoreName, StoreConnected, NotifyUp, AfterDial
    <3> QED
      BY <3>1, <3>2, <3>3, <3>4, <3>5 DEF TypeOK
  <2>2. ASSUME NEW p \in Procs, Operate(p) PROVE TypeOK'
    <3>1. ProcTypeOK'
      BY <2>0, <2>2 DEF ProcTypeOK,
       Operate, Recheck, CacheHit, CacheMiss, Lock, HealthCheck,
       WeighCanceled, WeighStable, WeighUnstable, WeighRefused, Relock,
       SleepCanceled, AdjustAcknowledged, AdjustRefused, SendFails, SendPanics,
       Disconnect, Entry
    <3>2. ClientTypeOK'
      BY <2>0, <2>2 DEF ClientTypeOK, ProcTypeOK,
       Operate, Recheck, CacheHit, CacheMiss, Lock, HealthCheck,
       WeighCanceled, WeighStable, WeighUnstable, WeighRefused, Relock,
       SleepCanceled, AdjustAcknowledged, AdjustRefused, SendFails, SendPanics,
       Disconnect, Entry
    <3>3. CacheTypeOK'
      BY <2>0, <2>2 DEF CacheTypeOK,
       Operate, Recheck, CacheHit, CacheMiss, Lock, HealthCheck,
       WeighCanceled, WeighStable, WeighUnstable, WeighRefused, Relock,
       SleepCanceled, AdjustAcknowledged, AdjustRefused, SendFails, SendPanics,
       Disconnect, Entry
    <3>4. DeviceTypeOK'
      BY <2>0, <2>2 DEF DeviceTypeOK,
       Operate, Recheck, CacheHit, CacheMiss, Lock, HealthCheck,
       WeighCanceled, WeighStable, WeighUnstable, WeighRefused, Relock,
       SleepCanceled, AdjustAcknowledged, AdjustRefused, SendFails, SendPanics,
       Disconnect, Entry
    <3>5. AppTypeOK'
      BY <2>0, <2>2 DEF AppTypeOK,
       Operate, Recheck, CacheHit, CacheMiss, Lock, HealthCheck,
       WeighCanceled, WeighStable, WeighUnstable, WeighRefused, Relock,
       SleepCanceled, AdjustAcknowledged, AdjustRefused, SendFails, SendPanics,
       Disconnect, Entry
    <3> QED
      BY <3>1, <3>2, <3>3, <3>4, <3>5 DEF TypeOK
  <2>3. ASSUME NEW p \in Procs, NotifyDown(p) PROVE TypeOK'
    <3>1. ProcTypeOK'
      BY <2>0, <2>3 DEF ProcTypeOK,
       NotifyDown
    <3>2. ClientTypeOK'
      BY <2>0, <2>3 DEF ClientTypeOK, ProcTypeOK,
       NotifyDown
    <3>3. CacheTypeOK'
      BY <2>0, <2>3 DEF CacheTypeOK,
       NotifyDown
    <3>4. DeviceTypeOK'
      BY <2>0, <2>3 DEF DeviceTypeOK,
       NotifyDown
    <3>5. AppTypeOK'
      BY <2>0, <2>3 DEF AppTypeOK,
       NotifyDown
    <3> QED
      BY <3>1, <3>2, <3>3, <3>4, <3>5 DEF TypeOK
  <2>4. CASE Keepalive \/ ReconnectTick \/ WatchdogTick \/ LoopExit \/ StopClient
    <3>1. ProcTypeOK'
      BY <2>0, <2>4 DEF ProcTypeOK,
       Keepalive, KeepaliveAnswered, KeepaliveFails, KeepaliveFailsTwice,
       ReconnectTick, WatchdogTick, LoopExit, StopClient, Disconnect, Procs
    <3>2. ClientTypeOK'
      BY <2>0, <2>4 DEF ClientTypeOK, ProcTypeOK,
       Keepalive, KeepaliveAnswered, KeepaliveFails, KeepaliveFailsTwice,
       ReconnectTick, WatchdogTick, LoopExit, StopClient, Disconnect, Procs
    <3>3. CacheTypeOK'
      BY <2>0, <2>4 DEF CacheTypeOK,
       Keepalive, KeepaliveAnswered, KeepaliveFails, KeepaliveFailsTwice,
       ReconnectTick, WatchdogTick, LoopExit, StopClient, Disconnect, Procs
    <3>4. DeviceTypeOK'
      BY <2>0, <2>4 DEF DeviceTypeOK,
       Keepalive, KeepaliveAnswered, KeepaliveFails, KeepaliveFailsTwice,
       ReconnectTick, WatchdogTick, LoopExit, StopClient, Disconnect, Procs
    <3>5. AppTypeOK'
      BY <2>0, <2>4 DEF AppTypeOK,
       Keepalive, KeepaliveAnswered, KeepaliveFails, KeepaliveFailsTwice,
       ReconnectTick, WatchdogTick, LoopExit, StopClient, Disconnect, Procs
    <3> QED
      BY <3>1, <3>2, <3>3, <3>4, <3>5 DEF TypeOK
  <2>5. CASE Environment
    <3>1. ProcTypeOK'
      BY <2>0, <2>5 DEF ProcTypeOK,
       Environment, Begin, BeginHTTP, BeginWS, Entry, Signal, Tick,
       Unplug, Plug, Settle, Older
    <3>2. ClientTypeOK'
      BY <2>0, <2>5 DEF ClientTypeOK, ProcTypeOK,
       Environment, Begin, BeginHTTP, BeginWS, Entry, Signal, Tick,
       Unplug, Plug, Settle, Older
    <3>3. CacheTypeOK'
      BY <2>0, <2>5 DEF CacheTypeOK,
       Environment, Begin, BeginHTTP, BeginWS, Entry, Signal, Tick,
       Unplug, Plug, Settle, Older
    <3>4. DeviceTypeOK'
      BY <2>0, <2>5 DEF DeviceTypeOK,
       Environment, Begin, BeginHTTP, BeginWS, Entry, Signal, Tick,
       Unplug, Plug, Settle, Older
    <3>5. AppTypeOK'
      BY <2>0, <2>5 DEF AppTypeOK,
       Environment, Begin, BeginHTTP, BeginWS, Entry, Signal, Tick,
       Unplug, Plug, Settle, Older
    <3> QED
      BY <3>1, <3>2, <3>3, <3>4, <3>5 DEF TypeOK
  <2>6. CASE UNCHANGED vars
    <3>1. ProcTypeOK'
      BY <2>0, <2>6 DEF ProcTypeOK,
       vars
    <3>2. ClientTypeOK'
      BY <2>0, <2>6 DEF ClientTypeOK, ProcTypeOK,
       vars
    <3>3. CacheTypeOK'
      BY <2>0, <2>6 DEF CacheTypeOK,
       vars
    <3>4. DeviceTypeOK'
      BY <2>0, <2>6 DEF DeviceTypeOK,
       vars
    <3>5. AppTypeOK'
      BY <2>0, <2>6 DEF AppTypeOK,
       vars
    <3> QED
      BY <3>1, <3>2, <3>3, <3>4, <3>5 DEF TypeOK
  <2> QED
    BY <2>1, <2>2, <2>3, <2>4, <2>5, <2>6 DEF Next
<1> QED
  BY <1>1, <1>2, PTL DEF Spec

-----------------------------------------------------------------------------
\* c.mu serialises the serial line: a goroutine is between a Lock and its
\* Unlock exactly when the mutex names it as the holder.
THEOREM LockCorrect == Spec => []SerialExclusion
<1> USE ProcsAssumption
<1>1. Init => SerialExclusion
  BY DEF Init, SerialExclusion, LockedPCs, Procs
<1>2. TypeOK /\ SerialExclusion /\ [Next]_vars => SerialExclusion'
  <2> SUFFICES ASSUME TypeOK, SerialExclusion, [Next]_vars
               PROVE  SerialExclusion'
    OBVIOUS
  <2>0. ProcTypeOK /\ ClientTypeOK
    BY DEF TypeOK
  <2> USE <2>0 DEF ProcTypeOK, ClientTypeOK, SerialExclusion, LockedPCs, PCs,
                   Goto, Return, flags, proc
  <2>1. ASSUME NEW p \in Procs, Dial(p) PROVE SerialExclusion'
    BY <2>1 DEF Dial, OpenPort, OpenFails, Attach, ProbeAnswered, ProbeFails,
       StoreName, StoreConnected, NotifyUp, AfterDial
  <2>2. ASSUME NEW p \in Procs, Operate(p) PROVE SerialExclusion'
    BY <2>2 DEF Operate, Recheck, CacheHit, CacheMiss, Lock, HealthCheck,
       WeighCanceled, WeighStable, WeighUnstable, WeighRefused, Relock,
       SleepCanceled, AdjustAcknowledged, AdjustRefused, SendFails, SendPanics,
       Disconnect, Entry
  <2>3. ASSUME NEW p \in Procs, NotifyDown(p) PROVE SerialExclusion'
    BY <2>3 DEF NotifyDown
  <2>4. CASE Keepalive \/ ReconnectTick \/ WatchdogTick \/ LoopExit \/ StopClient
    BY <2>4 DEF Keepalive, KeepaliveAnswered, KeepaliveFails, KeepaliveFailsTwice,
       ReconnectTick, WatchdogTick, LoopExit, StopClient, Disconnect, Procs
  <2>5. CASE Environment
    BY <2>5 DEF Environment, Begin, BeginHTTP, BeginWS, Entry, Signal, Tick,
       Unplug, Plug, Settle
  <2>6. CASE UNCHANGED vars
    BY <2>6 DEF vars
  <2> QED
    BY <2>1, <2>2, <2>3, <2>4, <2>5, <2>6 DEF Next
<1> QED
  BY <1>1, <1>2, TypeCorrect, PTL DEF Spec

-----------------------------------------------------------------------------
\* Tare and Zero leave the cached reading in place: such a reading is still never
\* served longer than weighCacheTTL after them, because its age is at least theirs
\* and both grow alike.
THEOREM CacheForgets == Spec => []CacheForgetsTare
<1> USE ProcsAssumption, BoundsAssumption
<1>1. Init => CacheForgetsTare
  BY DEF Init, CacheForgetsTare
<1>2. TypeOK /\ CacheForgetsTare /\ [Next]_vars => CacheForgetsTare'
  <2> SUFFICES ASSUME TypeOK, CacheForgetsTare, [Next]_vars
               PROVE  CacheForgetsTare'
    OBVIOUS
  <2>0. cacheAge \in 0 .. TTL /\ tareAge \in 0 .. TTL
    BY DEF TypeOK, CacheTypeOK, Ages
  <2> USE DEF CacheForgetsTare
  \* The three steps that touch the cache or the clock.
  <2>1. ASSUME NEW p \in Procs, WeighStable(p) PROVE CacheForgetsTare'
    BY <2>1 DEF WeighStable
  <2>2. ASSUME NEW p \in Procs, AdjustAcknowledged(p) PROVE CacheForgetsTare'
    BY <2>0, <2>2 DEF AdjustAcknowledged
  <2>3. CASE Tick
    BY <2>0, <2>3 DEF Tick, Older
  \* Every other step leaves both alone.
  <2>4. CASE UNCHANGED cached
    BY <2>4 DEF cached
  <2>5. ASSUME NEW p \in Procs, Operate(p)
        PROVE  WeighStable(p) \/ AdjustAcknowledged(p) \/ UNCHANGED cached
    BY <2>5 DEF Operate, Recheck, CacheHit, CacheMiss, Lock, HealthCheck,
       WeighCanceled, WeighUnstable, WeighRefused, Relock,
       SleepCanceled, AdjustRefused, SendFails, SendPanics
  <2>6. ASSUME NEW p \in Procs, Dial(p) \/ NotifyDown(p) PROVE UNCHANGED cached
    BY <2>6 DEF Dial, OpenPort, OpenFails, Attach, ProbeAnswered, ProbeFails,
       StoreName, StoreConnected, NotifyUp, NotifyDown
  <2>7. CASE Keepalive \/ ReconnectTick \/ WatchdogTick \/ LoopExit \/ StopClient
    BY <2>4, <2>7 DEF Keepalive, KeepaliveAnswered, KeepaliveFails, KeepaliveFailsTwice,
       ReconnectTick, WatchdogTick, LoopExit, StopClient
  <2>8. CASE Environment
    BY <2>3, <2>4, <2>8 DEF Environment, Begin, BeginHTTP, BeginWS, Signal, Unplug,
       Plug, Settle
  <2>9. CASE UNCHANGED vars
    BY <2>4, <2>9 DEF vars
  <2> QED
    BY <2>1, <2>2, <2>4, <2>5, <2>6, <2>7, <2>8, <2>9 DEF Next
<1> QED
  BY <1>1, <1>2, TypeCorrect, PTL DEF Spec

-----------------------------------------------------------------------------
(***************************************************************************)
(* NoUseAfterClose is not inductive by itself: closing c.port must not     *)
(* close a handle that another tryConnect still holds, so the unpublished  *)
(* handles have to differ from c.port and from each other.                 *)
(***************************************************************************)
HandlesApart ==
    \A p \in Procs : pc[p] = "attach" =>
        /\ handle[p] # port
        /\ \A q \in Procs \ {p} : pc[q] = "attach" => handle[q] # handle[p]

PortInv == NoUseAfterClose /\ HandlesApart

\* No goroutine talks on, or publishes, a handle that was closed under it,
\* whatever the number of overlapping tryConnect calls and unplugs.
THEOREM PortsStayOpen == Spec => []NoUseAfterClose
<1> USE ProcsAssumption
<1>1. Init => PortInv
  BY DEF Init, PortInv, NoUseAfterClose, HandlesApart
<1>2. TypeOK /\ PortInv /\ [Next]_vars => PortInv'
  <2> SUFFICES ASSUME TypeOK, PortInv, [Next]_vars PROVE PortInv'
    OBVIOUS
  <2>0. ProcTypeOK /\ ClientTypeOK /\ DeviceTypeOK
    BY DEF TypeOK
  <2> USE <2>0 DEF ProcTypeOK, ClientTypeOK, DeviceTypeOK, PortInv,
                   NoUseAfterClose, HandlesApart, PCs, Goto, Return, ClosePort,
                   flags, proc, device
  <2>1. ASSUME NEW p \in Procs, Dial(p) PROVE PortInv'
    BY <2>1 DEF Dial, OpenPort, OpenFails, Attach, ProbeAnswered, ProbeFails,
       StoreName, StoreConnected, NotifyUp, AfterDial
  <2>2. ASSUME NEW p \in Procs, Operate(p) PROVE PortInv'
    BY <2>2 DEF Operate, Recheck, CacheHit, CacheMiss, Lock, HealthCheck,
       WeighCanceled, WeighStable, WeighUnstable, WeighRefused, Relock,
       SleepCanceled, AdjustAcknowledged, AdjustRefused, SendFails, SendPanics,
       Disconnect, Entry
  <2>3. ASSUME NEW p \in Procs, NotifyDown(p) PROVE PortInv'
    BY <2>3 DEF NotifyDown
  <2>4. CASE Keepalive \/ ReconnectTick \/ WatchdogTick \/ LoopExit \/ StopClient
    BY <2>4 DEF Keepalive, KeepaliveAnswered, KeepaliveFails, KeepaliveFailsTwice,
       ReconnectTick, WatchdogTick, LoopExit, StopClient, Disconnect, Procs
  <2>5. CASE Environment
    BY <2>5 DEF Environment, Begin, BeginHTTP, BeginWS, Entry, Signal, Tick,
       Unplug, Plug, Settle
  <2>6. CASE UNCHANGED vars
    BY <2>6 DEF vars
  <2> QED
    BY <2>1, <2>2, <2>3, <2>4, <2>5, <2>6 DEF Next
<1>3. PortInv => NoUseAfterClose
  BY DEF PortInv
<1> QED
  BY <1>1, <1>2, <1>3, TypeCorrect, PTL DEF Spec

-----------------------------------------------------------------------------
(***************************************************************************)
(* With an exclusive serial.Open and a cable that stays in, the handle is  *)
(* what keeps two tryConnect calls apart: from OpenPort to StoreConnected  *)
(* its holder, the owner, is alone, although it holds c.mu only in between.*)
(***************************************************************************)
OwnerPCs == {"attach", "probe", "name", "up"}
Owner(p) == pc[p] \in OwnerPCs

\* Whoever is connecting does so while disconnected ...
OwnerOffline == \A p \in Procs : Owner(p) => ~ connected

\* ... and alone.
OneOwner == \A p, q \in Procs : Owner(p) /\ Owner(q) => p = q

\* The one open handle is the owner's local one, or c.port.
OwnerHandle ==
    \A p \in Procs :
        /\ pc[p] = "attach" => port = NoPort /\ open = {handle[p]}
        /\ pc[p] \in {"probe", "name", "up"} => port # NoPort /\ open = {port}

\* Without an owner the flag, the pointer and the device agree.
NoOwner ==
    (\A p \in Procs : ~ Owner(p)) =>
        /\ connected <=> port # NoPort
        /\ open = IF port = NoPort THEN {} ELSE {port}

\* The flag changes only in the hands of the mutex's holder.
HolderSees ==
    \A p \in Procs :
        /\ pc[p] \in {"send", "keepalive", "retry"} => connected
        /\ pc[p] = "notifyDown" => ~ connected /\ port = NoPort

\* WebSocket requests never dial.
WsNeverDials ==
    \A p \in Ws : pc[p] \notin {"dial", "attach", "probe", "name", "up", "notifyUp", "recheck"}

\* After Stop nobody who may dial is left.
NoDialers ==
    stop = "stopped" =>
        /\ pc[Loop] = "done"
        /\ \A p \in Http : pc[p] = "idle"
        /\ ~ connected /\ port = NoPort

SoleInv ==
    /\ stale = {} /\ plugged
    /\ OwnerOffline /\ OneOwner /\ OwnerHandle /\ NoOwner
    /\ HolderSees /\ UpReported /\ WsNeverDials /\ NoDialers

\* The step of the induction, one group of actions at a time.
LEMMA SoleStep ==
    ASSUME Exclusive, ~ Unplugs, TypeOK, SerialExclusion, SoleInv, [Next]_vars
    PROVE  SoleInv'
<1> USE ProcsAssumption DEF Goto, Return, flags, proc, device, ProcTypeOK
<1>t. ProcTypeOK /\ port \in Handles \cup {NoPort} /\ open \subseteq Handles
  BY DEF TypeOK, ClientTypeOK, DeviceTypeOK
<1>p. Loop \in Procs /\ Http \subseteq Procs /\ Ws \subseteq Procs
  BY DEF Procs
<1>a. stale = {} /\ plugged
  BY DEF SoleInv
<1>b. OneOwner
  BY DEF SoleInv
<1>c. OwnerHandle
  BY DEF SoleInv
<1>d. NoOwner
  BY DEF SoleInv
<1>e. HolderSees
  BY DEF SoleInv
<1>f. UpReported
  BY DEF SoleInv
<1>g. WsNeverDials
  BY DEF SoleInv
<1>i. OwnerOffline
  BY DEF SoleInv
<1>j. NoDialers
  BY DEF SoleInv
<1>h. SerialExclusion
  OBVIOUS
<1>1. ASSUME NEW p \in Procs, Dial(p) PROVE SoleInv'
  <2>1. stale' = {} /\ plugged'
    BY <1>t, <1>p, <1>a, <1>1
    DEF Dial, OpenPort, OpenFails, Attach, ProbeAnswered, ProbeFails,
         StoreName, StoreConnected, NotifyUp, AfterDial, Busy, ClosePort
  <2>2. OwnerOffline'
    BY <1>t, <1>p, <1>a, <1>b, <1>c, <1>d, <1>i, <1>1
    DEF OwnerOffline, OneOwner, OwnerHandle, NoOwner, Owner, OwnerPCs,
         Dial, OpenPort, OpenFails, Attach, ProbeAnswered, ProbeFails,
         StoreName, StoreConnected, NotifyUp, AfterDial, Busy, ClosePort
  <2>3. OneOwner'
    <3> SUFFICES ASSUME NEW q \in Procs, NEW r \in Procs, Owner(q)', Owner(r)'
                 PROVE  q = r
      BY DEF OneOwner
    <3>1. CASE OpenPort(p)
      <4>1. \A o \in Procs : ~ Owner(o)
        BY <1>a, <1>c, <3>1 DEF OpenPort, Busy, OwnerHandle, Owner, OwnerPCs
      <4> QED
        BY <1>t, <3>1, <4>1 DEF OpenPort, Owner, OwnerPCs
    <3>2. CASE ~ OpenPort(p)
      <4>1. Owner(q) /\ Owner(r)
        BY <1>t, <1>1, <3>2
        DEF Owner, OwnerPCs, Dial, OpenFails, Attach, ProbeAnswered, ProbeFails,
           StoreName, StoreConnected, NotifyUp, AfterDial, ClosePort
      <4> QED
        BY <4>1, <1>b DEF OneOwner
    <3> QED
      BY <3>1, <3>2
  <2>4. OwnerHandle'
    BY ZenonT(60), <1>t, <1>p, <1>a, <1>b, <1>c, <1>d, <1>e, <1>i, <1>1
    DEF OwnerOffline, OneOwner, OwnerHandle, NoOwner, HolderSees, Owner, OwnerPCs,
         Dial, OpenPort, OpenFails, Attach, ProbeAnswered, ProbeFails,
         StoreName, StoreConnected, NotifyUp, AfterDial, Busy, ClosePort
  <2>5. NoOwner'
    BY <1>t, <1>p, <1>a, <1>b, <1>c, <1>d, <1>e, <1>i, <1>1
    DEF OwnerOffline, OneOwner, OwnerHandle, NoOwner, HolderSees, Owner, OwnerPCs,
         Dial, OpenPort, OpenFails, Attach, ProbeAnswered, ProbeFails,
         StoreName, StoreConnected, NotifyUp, AfterDial, Busy, ClosePort
  <2>6. HolderSees'
    BY <1>t, <1>p, <1>c, <1>e, <1>h, <1>i, <1>1
    DEF OwnerOffline, OwnerHandle, HolderSees, SerialExclusion, LockedPCs, Owner, OwnerPCs,
         Dial, OpenPort, OpenFails, Attach, ProbeAnswered, ProbeFails,
         StoreName, StoreConnected, NotifyUp, AfterDial, Busy, ClosePort
  <2>7. UpReported'
    BY <1>t, <1>p, <1>e, <1>f, <1>1
    DEF UpReported, HolderSees,
         Dial, OpenPort, OpenFails, Attach, ProbeAnswered, ProbeFails,
         StoreName, StoreConnected, NotifyUp, AfterDial, Busy, ClosePort
  <2>8. WsNeverDials'
    BY <1>t, <1>p, <1>g, <1>1
    DEF WsNeverDials,
         Dial, OpenPort, OpenFails, Attach, ProbeAnswered, ProbeFails,
         StoreName, StoreConnected, NotifyUp, AfterDial, Busy, ClosePort
  <2>9. NoDialers'
    <3>1. stop' = stop /\ pc[p] \notin {"idle", "done"} /\ p \notin Ws
      BY <1>t, <1>g, <1>1 DEF WsNeverDials, Dial, OpenPort, OpenFails, Attach, ProbeAnswered, ProbeFails,
           StoreName, StoreConnected, NotifyUp, AfterDial, Busy, ClosePort
    <3> QED
      BY <1>j, <3>1 DEF NoDialers, Procs
  <2> QED
    BY <2>1, <2>2, <2>3, <2>4, <2>5, <2>6, <2>7, <2>8, <2>9 DEF SoleInv
<1>2. ASSUME NEW p \in Procs, Operate(p) PROVE SoleInv'
  <2>1. stale' = {} /\ plugged'
    BY <1>t, <1>p, <1>a, <1>2
    DEF Operate, Recheck, CacheHit, CacheMiss, Lock, HealthCheck,
         WeighCanceled, WeighStable, WeighUnstable, WeighRefused, Relock,
         SleepCanceled, AdjustAcknowledged, AdjustRefused, SendFails, SendPanics,
         Disconnect, Entry, ClosePort
  <2>2. OwnerOffline'
    BY <1>t, <1>p, <1>a, <1>b, <1>c, <1>d, <1>i, <1>2
    DEF OwnerOffline, OneOwner, OwnerHandle, NoOwner, Owner, OwnerPCs,
         Operate, Recheck, CacheHit, CacheMiss, Lock, HealthCheck,
         WeighCanceled, WeighStable, WeighUnstable, WeighRefused, Relock,
         SleepCanceled, AdjustAcknowledged, AdjustRefused, SendFails, SendPanics,
         Disconnect, Entry, ClosePort
  <2>3. OneOwner'
    <3> SUFFICES ASSUME NEW q \in Procs, NEW r \in Procs, Owner(q)', Owner(r)'
                 PROVE  q = r
      BY DEF OneOwner
    <3>1. Owner(q) /\ Owner(r)
      BY <1>t, <1>p, <1>2
      DEF Owner, OwnerPCs, Operate, Recheck, CacheHit, CacheMiss, Lock, HealthCheck,
           WeighCanceled, WeighStable, WeighUnstable, WeighRefused, Relock,
           SleepCanceled, AdjustAcknowledged, AdjustRefused, SendFails, SendPanics,
           Disconnect, Entry, ClosePort
    <3> QED
      BY <3>1, <1>b DEF OneOwner
  <2>4. OwnerHandle'
    BY ZenonT(60), <1>t, <1>p, <1>a, <1>b, <1>c, <1>d, <1>e, <1>i, <1>2
    DEF OwnerOffline, OneOwner, OwnerHandle, NoOwner, HolderSees, Owner, OwnerPCs,
         Operate, Recheck, CacheHit, CacheMiss, Lock, HealthCheck,
         WeighCanceled, WeighStable, WeighUnstable, WeighRefused, Relock,
         SleepCanceled, AdjustAcknowledged, AdjustRefused, SendFails, SendPanics,
         Disconnect, Entry, ClosePort
  <2>5. NoOwner'
    BY <1>t, <1>p, <1>a, <1>b, <1>c, <1>d, <1>e, <1>i, <1>2
    DEF OwnerOffline, OneOwner, OwnerHandle, NoOwner, HolderSees, Owner, OwnerPCs,
         Operate, Recheck, CacheHit, CacheMiss, Lock, HealthCheck,
         WeighCanceled, WeighStable, WeighUnstable, WeighRefused, Relock,
         SleepCanceled, AdjustAcknowledged, AdjustRefused, SendFails, SendPanics,
         Disconnect, Entry, ClosePort
  <2>6. HolderSees'
    BY <1>t, <1>p, <1>c, <1>e, <1>h, <1>i, <1>2
    DEF OwnerOffline, OwnerHandle, HolderSees, SerialExclusion, LockedPCs, Owner, OwnerPCs,
         Operate, Recheck, CacheHit, CacheMiss, Lock, HealthCheck,
         WeighCanceled, WeighStable, WeighUnstable, WeighRefused, Relock,
         SleepCanceled, AdjustAcknowledged, AdjustRefused, SendFails, SendPanics,
         Disconnect, Entry, ClosePort
  <2>7. UpReported'
    BY <1>t, <1>p, <1>e, <1>f, <1>2
    DEF UpReported, HolderSees,
         Operate, Recheck, CacheHit, CacheMiss, Lock, HealthCheck,
         WeighCanceled, WeighStable, WeighUnstable, WeighRefused, Relock,
         SleepCanceled, AdjustAcknowledged, AdjustRefused, SendFails, SendPanics,
         Disconnect, Entry, ClosePort
  <2>8. WsNeverDials'
    BY <1>t, <1>p, <1>g, <1>2
    DEF WsNeverDials,
         Operate, Recheck, CacheHit, CacheMiss, Lock, HealthCheck,
         WeighCanceled, WeighStable, WeighUnstable, WeighRefused, Relock,
         SleepCanceled, AdjustAcknowledged, AdjustRefused, SendFails, SendPanics,
         Disconnect, Entry, ClosePort
  <2>9. NoDialers'
    BY <1>t, <1>p, <1>g, <1>j, <1>2
    DEF WsNeverDials, NoDialers,
         Operate, Recheck, CacheHit, CacheMiss, Lock, HealthCheck,
         WeighCanceled, WeighStable, WeighUnstable, WeighRefused, Relock,
         SleepCanceled, AdjustAcknowledged, AdjustRefused, SendFails, SendPanics,
         Disconnect, Entry, ClosePort
  <2> QED
    BY <2>1, <2>2, <2>3, <2>4, <2>5, <2>6, <2>7, <2>8, <2>9 DEF SoleInv
<1>3. ASSUME NEW p \in Procs, NotifyDown(p) PROVE SoleInv'
  <2>1. stale' = {} /\ plugged'
    BY <1>t, <1>p, <1>a, <1>3
    DEF NotifyDown
  <2>2. OwnerOffline'
    BY <1>t, <1>p, <1>a, <1>b, <1>c, <1>d, <1>i, <1>3
    DEF OwnerOffline, OneOwner, OwnerHandle, NoOwner, Owner, OwnerPCs,
         NotifyDown
  <2>3. OneOwner'
    <3> SUFFICES ASSUME NEW q \in Procs, NEW r \in Procs, Owner(q)', Owner(r)'
                 PROVE  q = r
      BY DEF OneOwner
    <3>1. Owner(q) /\ Owner(r)
      BY <1>t, <1>p, <1>3
      DEF Owner, OwnerPCs, NotifyDown
    <3> QED
      BY <3>1, <1>b DEF OneOwner
  <2>4. OwnerHandle'
    BY <1>t, <1>p, <1>a, <1>b, <1>c, <1>d, <1>e, <1>i, <1>3
    DEF OwnerOffline, OneOwner, OwnerHandle, NoOwner, HolderSees, Owner, OwnerPCs,
         NotifyDown
  <2>5. NoOwner'
    BY <1>t, <1>p, <1>a, <1>b, <1>c, <1>d, <1>e, <1>i, <1>3
    DEF OwnerOffline, OneOwner, OwnerHandle, NoOwner, HolderSees, Owner, OwnerPCs,
         NotifyDown
  <2>6. HolderSees'
    BY <1>t, <1>p, <1>c, <1>e, <1>h, <1>i, <1>3
    DEF OwnerOffline, OwnerHandle, HolderSees, SerialExclusion, LockedPCs, Owner, OwnerPCs,
         NotifyDown
  <2>7. UpReported'
    BY <1>t, <1>p, <1>e, <1>f, <1>3
    DEF UpReported, HolderSees,
         NotifyDown
  <2>8. WsNeverDials'
    BY <1>t, <1>p, <1>g, <1>3
    DEF WsNeverDials,
         NotifyDown
  <2>9. NoDialers'
    BY <1>t, <1>p, <1>g, <1>j, <1>3
    DEF WsNeverDials, NoDialers,
         NotifyDown
  <2> QED
    BY <2>1, <2>2, <2>3, <2>4, <2>5, <2>6, <2>7, <2>8, <2>9 DEF SoleInv
<1>4. CASE Keepalive \/ ReconnectTick \/ WatchdogTick \/ LoopExit \/ StopClient
  <2>1. stale' = {} /\ plugged'
    BY <1>t, <1>p, <1>a, <1>4
    DEF Keepalive, KeepaliveAnswered, KeepaliveFails, KeepaliveFailsTwice,
         ReconnectTick, WatchdogTick, LoopExit, StopClient, Disconnect,
         ClosePort
  <2>2. OwnerOffline'
    BY <1>t, <1>p, <1>a, <1>b, <1>c, <1>d, <1>i, <1>4
    DEF OwnerOffline, OneOwner, OwnerHandle, NoOwner, Owner, OwnerPCs,
         Keepalive, KeepaliveAnswered, KeepaliveFails, KeepaliveFailsTwice,
         ReconnectTick, WatchdogTick, LoopExit, StopClient, Disconnect,
         ClosePort
  <2>3. OneOwner'
    <3> SUFFICES ASSUME NEW q \in Procs, NEW r \in Procs, Owner(q)', Owner(r)'
                 PROVE  q = r
      BY DEF OneOwner
    <3>1. Owner(q) /\ Owner(r)
      BY <1>t, <1>p, <1>4
      DEF Owner, OwnerPCs, Keepalive, KeepaliveAnswered, KeepaliveFails, KeepaliveFailsTwice,
           ReconnectTick, WatchdogTick, LoopExit, StopClient, Disconnect,
           ClosePort
    <3> QED
      BY <3>1, <1>b DEF OneOwner
  <2>4. OwnerHandle'
    BY ZenonT(60), <1>t, <1>p, <1>a, <1>b, <1>c, <1>d, <1>e, <1>i, <1>g, <1>4
    DEF OwnerOffline, OneOwner, OwnerHandle, NoOwner, HolderSees, Owner, OwnerPCs, WsNeverDials, Procs,
         Keepalive, KeepaliveAnswered, KeepaliveFails, KeepaliveFailsTwice,
         ReconnectTick, WatchdogTick, LoopExit, StopClient, Disconnect,
         ClosePort
  <2>5. NoOwner'
    BY <1>t, <1>p, <1>a, <1>b, <1>c, <1>d, <1>e, <1>i, <1>4
    DEF OwnerOffline, OneOwner, OwnerHandle, NoOwner, HolderSees, Owner, OwnerPCs,
         Keepalive, KeepaliveAnswered, KeepaliveFails, KeepaliveFailsTwice,
         ReconnectTick, WatchdogTick, LoopExit, StopClient, Disconnect,
         ClosePort
  <2>6. HolderSees'
    BY <1>t, <1>p, <1>c, <1>e, <1>h, <1>i, <1>4
    DEF OwnerOffline, OwnerHandle, HolderSees, SerialExclusion, LockedPCs, Owner, OwnerPCs,
         Keepalive, KeepaliveAnswered, KeepaliveFails, KeepaliveFailsTwice,
         ReconnectTick, WatchdogTick, LoopExit, StopClient, Disconnect,
         ClosePort
  <2>7. UpReported'
    BY <1>t, <1>p, <1>e, <1>f, <1>4
    DEF UpReported, HolderSees,
         Keepalive, KeepaliveAnswered, KeepaliveFails, KeepaliveFailsTwice,
         ReconnectTick, WatchdogTick, LoopExit, StopClient, Disconnect,
         ClosePort
  <2>8. WsNeverDials'
    BY <1>t, <1>p, <1>g, <1>4
    DEF WsNeverDials,
         Keepalive, KeepaliveAnswered, KeepaliveFails, KeepaliveFailsTwice,
         ReconnectTick, WatchdogTick, LoopExit, StopClient, Disconnect,
         ClosePort
  <2>9. NoDialers'
    BY <1>t, <1>p, <1>g, <1>j, <1>4
    DEF WsNeverDials, NoDialers,
         Keepalive, KeepaliveAnswered, KeepaliveFails, KeepaliveFailsTwice,
         ReconnectTick, WatchdogTick, LoopExit, StopClient, Disconnect,
         ClosePort
  <2> QED
    BY <2>1, <2>2, <2>3, <2>4, <2>5, <2>6, <2>7, <2>8, <2>9 DEF SoleInv
<1>5. CASE Environment
  <2>1. stale' = {} /\ plugged'
    BY <1>t, <1>p, <1>a, <1>5
    DEF Environment, Begin, BeginHTTP, BeginWS, Entry, Signal, Tick,
         Unplug, Plug, Settle
  <2>2. OwnerOffline'
    BY <1>t, <1>p, <1>a, <1>b, <1>c, <1>d, <1>i, <1>5
    DEF OwnerOffline, OneOwner, OwnerHandle, NoOwner, Owner, OwnerPCs,
         Environment, Begin, BeginHTTP, BeginWS, Entry, Signal, Tick,
         Unplug, Plug, Settle
  <2>3. OneOwner'
    <3> SUFFICES ASSUME NEW q \in Procs, NEW r \in Procs, Owner(q)', Owner(r)'
                 PROVE  q = r
      BY DEF OneOwner
    <3>1. Owner(q) /\ Owner(r)
      BY <1>t, <1>p, <1>5
      DEF Owner, OwnerPCs, Environment, Begin, BeginHTTP, BeginWS, Entry, Signal, Tick,
           Unplug, Plug, Settle
    <3> QED
      BY <3>1, <1>b DEF OneOwner
  <2>4. OwnerHandle'
    BY ZenonT(60), <1>t, <1>p, <1>a, <1>b, <1>c, <1>d, <1>e, <1>i, <1>5
    DEF OwnerOffline, OneOwner, OwnerHandle, NoOwner, HolderSees, Owner, OwnerPCs,
         Environment, Begin, BeginHTTP, BeginWS, Entry, Signal, Tick,
         Unplug, Plug, Settle
  <2>5. NoOwner'
    BY <1>t, <1>p, <1>a, <1>b, <1>c, <1>d, <1>e, <1>i, <1>5
    DEF OwnerOffline, OneOwner, OwnerHandle, NoOwner, HolderSees, Owner, OwnerPCs,
         Environment, Begin, BeginHTTP, BeginWS, Entry, Signal, Tick,
         Unplug, Plug, Settle
  <2>6. HolderSees'
    BY <1>t, <1>p, <1>c, <1>e, <1>h, <1>i, <1>5
    DEF OwnerOffline, OwnerHandle, HolderSees, SerialExclusion, LockedPCs, Owner, OwnerPCs,
         Environment, Begin, BeginHTTP, BeginWS, Entry, Signal, Tick,
         Unplug, Plug, Settle
  <2>7. UpReported'
    BY <1>t, <1>p, <1>e, <1>f, <1>5
    DEF UpReported, HolderSees,
         Environment, Begin, BeginHTTP, BeginWS, Entry, Signal, Tick,
         Unplug, Plug, Settle
  <2>8. WsNeverDials'
    BY <1>t, <1>p, <1>g, <1>5
    DEF WsNeverDials,
         Environment, Begin, BeginHTTP, BeginWS, Entry, Signal, Tick,
         Unplug, Plug, Settle
  <2>9. NoDialers'
    BY <1>t, <1>p, <1>g, <1>j, <1>5
    DEF WsNeverDials, NoDialers,
         Environment, Begin, BeginHTTP, BeginWS, Entry, Signal, Tick,
         Unplug, Plug, Settle
  <2> QED
    BY <2>1, <2>2, <2>3, <2>4, <2>5, <2>6, <2>7, <2>8, <2>9 DEF SoleInv
<1>6. CASE UNCHANGED vars
  <2>1. stale' = {} /\ plugged'
    BY <1>t, <1>p, <1>a, <1>6
    DEF vars
  <2>2. OwnerOffline'
    BY <1>t, <1>p, <1>a, <1>b, <1>c, <1>d, <1>i, <1>6
    DEF OwnerOffline, OneOwner, OwnerHandle, NoOwner, Owner, OwnerPCs,
         vars
  <2>3. OneOwner'
    <3> SUFFICES ASSUME NEW q \in Procs, NEW r \in Procs, Owner(q)', Owner(r)'
                 PROVE  q = r
      BY DEF OneOwner
    <3>1. Owner(q) /\ Owner(r)
      BY <1>t, <1>p, <1>6
      DEF Owner, OwnerPCs, vars
    <3> QED
      BY <3>1, <1>b DEF OneOwner
  <2>4. OwnerHandle'
    BY <1>t, <1>p, <1>a, <1>b, <1>c, <1>d, <1>e, <1>i, <1>6
    DEF OwnerOffline, OneOwner, OwnerHandle, NoOwner, HolderSees, Owner, OwnerPCs,
         vars
  <2>5. NoOwner'
    BY <1>t, <1>p, <1>a, <1>b, <1>c, <1>d, <1>e, <1>i, <1>6
    DEF OwnerOffline, OneOwner, OwnerHandle, NoOwner, HolderSees, Owner, OwnerPCs,
         vars
  <2>6. HolderSees'
    BY <1>t, <1>p, <1>c, <1>e, <1>h, <1>i, <1>6
    DEF OwnerOffline, OwnerHandle, HolderSees, SerialExclusion, LockedPCs, Owner, OwnerPCs,
         vars
  <2>7. UpReported'
    BY <1>t, <1>p, <1>e, <1>f, <1>6
    DEF UpReported, HolderSees,
         vars
  <2>8. WsNeverDials'
    BY <1>t, <1>p, <1>g, <1>6
    DEF WsNeverDials,
         vars
  <2>9. NoDialers'
    BY <1>t, <1>p, <1>g, <1>j, <1>6
    DEF WsNeverDials, NoDialers,
         vars
  <2> QED
    BY <2>1, <2>2, <2>3, <2>4, <2>5, <2>6, <2>7, <2>8, <2>9 DEF SoleInv
<1> QED
  BY <1>1, <1>2, <1>3, <1>4, <1>5, <1>6 DEF Next

\* One connection at a time: where serial.Open is exclusive and the cable stays
\* in, connected implies a port, no handle leaks, an announced connection is
\* not contradicted, and nothing is left or comes back after Stop -- although
\* tryConnect opens, names and announces the port outside c.mu.
THEOREM SoleConnector ==
    ASSUME Exclusive, ~ Unplugs
    PROVE  Spec => [](ConnectedHasPort /\ NoLeak /\ UpReported /\ StopIsFinal)
<1> USE ProcsAssumption
<1>1. Init => SoleInv
  <2> SUFFICES ASSUME Init PROVE SoleInv
    OBVIOUS
  <2>1. \A p \in Procs : pc[p] \in {"idle", "dial"}
    BY DEF Init
  <2>2. \A p \in Ws : pc[p] = "idle"
    BY DEF Init, Procs
  <2>3. OwnerOffline /\ OneOwner /\ OwnerHandle /\ HolderSees
    BY <2>1 DEF OwnerOffline, OneOwner, OwnerHandle, HolderSees, Owner, OwnerPCs
  <2>4. NoOwner /\ UpReported /\ NoDialers
    BY DEF Init, NoOwner, UpReported, NoDialers
  <2>5. WsNeverDials
    BY <2>2 DEF WsNeverDials
  <2> QED
    BY <2>3, <2>4, <2>5 DEF Init, SoleInv
<1>2. TypeOK /\ SerialExclusion /\ SoleInv /\ [Next]_vars => SoleInv'
  BY SoleStep
<1>3. SoleInv => ConnectedHasPort /\ NoLeak /\ UpReported /\ StopIsFinal
  <2> SUFFICES ASSUME SoleInv
               PROVE  ConnectedHasPort /\ NoLeak /\ UpReported /\ StopIsFinal
    OBVIOUS
  <2> USE DEF SoleInv, NoOwner, OwnerHandle, Owner, OwnerPCs
  <2>1. ConnectedHasPort
    BY DEF ConnectedHasPort, OwnerOffline
  <2>2. NoLeak
    BY DEF NoLeak
  <2>3. StopIsFinal
    <3> SUFFICES ASSUME stop = "stopped" PROVE open = {} /\ port = NoPort /\ ~ connected
      BY DEF StopIsFinal
    <3>1. \A p \in Procs : ~ Owner(p)
      BY DEF NoDialers, WsNeverDials, Procs
    <3> QED
      BY <3>1 DEF NoDialers
  <2> QED
    BY <2>1, <2>2, <2>3
<1> QED
  BY <1>1, <1>2, <1>3, TypeCorrect, LockCorrect, PTL DEF Spec

-----------------------------------------------------------------------------
(***************************************************************************)
(* The parts of it, one by one.                                            *)
(***************************************************************************)
\* No handle leaks: what the operating system holds open is c.port, or is still
\* with the tryConnect that will publish it, whoever closed what meanwhile.
THEOREM NoHandleLeaks ==
    ASSUME Exclusive, ~ Unplugs
    PROVE  Spec => []NoLeak
<1>1. ConnectedHasPort /\ NoLeak /\ UpReported /\ StopIsFinal => NoLeak
  OBVIOUS
<1> QED
  BY <1>1, SoleConnector, PTL

\* onStatus(true) is called, or about to be, for each connection that is up, and
\* no onStatus(false) of an earlier one overtakes it.
THEOREM UpIsReported ==
    ASSUME Exclusive, ~ Unplugs
    PROVE  Spec => []UpReported
<1>1. ConnectedHasPort /\ NoLeak /\ UpReported /\ StopIsFinal => UpReported
  OBVIOUS
<1> QED
  BY <1>1, SoleConnector, PTL

\* Stop leaves nothing open, and no connectLoop that it interrupted opens the
\* port again.
THEOREM StopLeavesNothing ==
    ASSUME Exclusive, ~ Unplugs
    PROVE  Spec => []StopIsFinal
<1>1. ConnectedHasPort /\ NoLeak /\ UpReported /\ StopIsFinal => StopIsFinal
  OBVIOUS
<1> QED
  BY <1>1, SoleConnector, PTL
=============================================================================
