---------------------------- MODULE WSHubProofs ----------------------------
(***************************************************************************)
(* What TLAPS proves about the WebSocket hub, for any number of clients    *)
(* and of goroutines that broadcast, and any capacity of the queues.       *)
(***************************************************************************)
EXTENDS WSHub, TLAPS

\* Before the pump runs there is no pump of an earlier connection, and the read
\* loop is only entered when the pump has been started.
PumpStarted ==
    \A c \in Clients :
        /\ reader[c] = "admitted" => writer[c] = "none"
        /\ reader[c] \in {"read", "done"} => writer[c] # "none"

HubInv == TypeOK /\ PumpStarted /\ RegistryTrue

-----------------------------------------------------------------------------
\* Send and the loop of Broadcast keep every queue within its capacity.
LEMMA PutTyped ==
    ASSUME TypeOK, NEW c \in Clients, NEW m \in Message, Put(c, m)
    PROVE  /\ sendCh' \in [Clients -> Seq(Message)]
           /\ \A k \in Clients : Len(sendCh'[k]) <= QueueSize
<1> USE HubAssumption
<1>1. sendCh \in [Clients -> Seq(Message)] /\ \A k \in Clients : Len(sendCh[k]) <= QueueSize
  BY DEF TypeOK
<1>2. CASE Len(sendCh[c]) < QueueSize /\ writer[c] \in {"none", "run"}
  <2>1. sendCh' = [sendCh EXCEPT ![c] = Append(@, m)]
    BY <1>2 DEF Put
  <2>2. Append(sendCh[c], m) \in Seq(Message) /\ Len(Append(sendCh[c], m)) = Len(sendCh[c]) + 1
    BY <1>1
  <2>3. Len(sendCh[c]) \in Nat
    BY <1>1
  <2> QED
    BY <1>1, <1>2, <2>1, <2>2, <2>3
<1>3. CASE ~ (Len(sendCh[c]) < QueueSize /\ writer[c] \in {"none", "run"})
  BY <1>1, <1>3 DEF Put
<1> QED
  BY <1>2, <1>3

\* What a client knows after a message is again a view.
LEMMA HearTyped ==
    ASSUME NEW v \in [scale : Views, printer : Views], NEW m \in Message
    PROVE  Hear(v, m) \in [scale : Views, printer : Views]
BY DEF Hear, Told, Views, Message

\* Every step of a connection, a handler, a broadcast and the world keeps the types.
LEMMA TypeStep ==
    ASSUME TypeOK, [Next]_vars
    PROVE  TypeOK'
<1> USE HubAssumption DEF world, sockets
<1>m. Other \in Message /\ \A up \in BOOLEAN : About("scale", up) \in Message /\ About("printer", up) \in Message
  BY DEF Other, About, Message
<1>v. NewView \in [scale : Views, printer : Views]
  BY DEF NewView, Views
<1>i. Idle \in [stage : {"idle", "reread", "wait", "send"}, msg : Message, todo : SUBSET Clients]
  BY <1>m DEF Idle
<1>e. ASSUME Happens PROVE events' \in 0 .. MaxEvents
  BY <1>e DEF Happens, TypeOK
<1>c. Clients \subseteq Casters /\ Dialers \subseteq Casters /\ Loops \subseteq Casters
  BY DEF Casters
<1>1. ASSUME NEW c \in Clients, Connect(c) PROVE TypeOK'
  <2>1. sendCh' \in [Clients -> Seq(Message)] /\ \A k \in Clients : Len(sendCh'[k]) <= QueueSize
    BY <1>1 DEF Connect, TypeOK
  <2> QED
    BY <1>1, <1>v, <2>1 DEF Connect, TypeOK
<1>2. ASSUME NEW c \in Clients, AcceptFails(c) PROVE TypeOK'
  BY <1>2, <1>v DEF AcceptFails, HangUp, TypeOK
<1>3. ASSUME NEW c \in Clients, Register(c) PROVE TypeOK'
  BY <1>3 DEF Register, Greeting, TypeOK
<1>4. ASSUME NEW c \in Clients, Greets(c) PROVE TypeOK'
  <2>1. CASE ReadStatus(c)
    <3>1. seen' \in [Clients -> BOOLEAN]
      BY <2>1 DEF ReadStatus, TypeOK
    <3>2. \E at \in Greeting : reader' = [reader EXCEPT ![c] = at]
      BY <2>1, Zenon DEF ReadStatus, Greeting
    <3>3. reader' \in [Clients -> {"none", "admitted", "read", "done"} \cup Greeting]
      BY <3>2 DEF TypeOK
    <3> QED
      BY <2>1, <3>1, <3>3 DEF ReadStatus, TypeOK
  <2>2. CASE SendScale(c)
    <3>1. sendCh' \in [Clients -> Seq(Message)] /\ \A k \in Clients : Len(sendCh'[k]) <= QueueSize
      BY <2>2, <1>m, PutTyped DEF SendScale, TypeOK
    <3> QED
      BY <2>2, <3>1 DEF SendScale, Greeting, TypeOK
  <2>3. CASE SendPrinter(c)
    <3>1. sendCh' \in [Clients -> Seq(Message)] /\ \A k \in Clients : Len(sendCh'[k]) <= QueueSize
      BY <2>3, <1>m, PutTyped DEF SendPrinter, TypeOK
    <3> QED
      BY <2>3, <3>1 DEF SendPrinter, Greeting, TypeOK
  <2> QED
    BY <1>4, <2>1, <2>2, <2>3 DEF Greets
<1>5. ASSUME NEW c \in Clients, ReadFails(c) PROVE TypeOK'
  BY <1>5, <1>v DEF ReadFails, HangUp, TypeOK
<1>6. ASSUME NEW c \in Clients, Requests(c) PROVE TypeOK'
  <2>1. CASE RequestRefused(c)
    <3>1. sendCh' \in [Clients -> Seq(Message)] /\ \A k \in Clients : Len(sendCh'[k]) <= QueueSize
      BY <2>1, <1>m, PutTyped DEF RequestRefused
    <3> QED
      BY <2>1, <1>e, <3>1 DEF RequestRefused, TypeOK
  <2>2. CASE RequestStatus(c)
    BY <2>2, <1>e DEF RequestStatus, Greeting, TypeOK
  <2>3. CASE RequestHandled(c)
    BY <2>3, <1>e DEF RequestHandled, TypeOK
  <2> QED
    BY <1>6, <2>1, <2>2, <2>3 DEF Requests
<1>7. ASSUME NEW c \in Clients, Answer(c) PROVE TypeOK'
  <2>1. /\ UNCHANGED <<app, world, last, registered, conn, reader, writer, seen, view>>
        /\ handling' = [handling EXCEPT ![c] = "none"]
        /\ Put(c, Other)
        /\ Announce(c, Other) \/ UNCHANGED cast
    BY <1>7 DEF Answer, AnswerScale, AnswerPrint
  <2>2. sendCh' \in [Clients -> Seq(Message)] /\ \A k \in Clients : Len(sendCh'[k]) <= QueueSize
    BY <2>1, <1>m, PutTyped
  <2>3. cast' \in [Casters -> [stage : {"idle", "reread", "wait", "send"}, msg : Message, todo : SUBSET Clients]]
    <3>1. [stage |-> "wait", msg |-> Other, todo |-> {}] \in [stage : {"idle", "reread", "wait", "send"}, msg : Message, todo : SUBSET Clients]
      BY <1>m
    <3>2. cast \in [Casters -> [stage : {"idle", "reread", "wait", "send"}, msg : Message, todo : SUBSET Clients]] /\ c \in Casters
      BY <1>c DEF TypeOK
    <3> QED
      BY <2>1, <3>1, <3>2 DEF Announce
  <2>4. handling' \in [Clients -> {"none", "scale", "print"}]
    BY <2>1 DEF TypeOK
  <2>5. UNCHANGED <<app, world, last, registered, conn, reader, writer, seen, view>>
    BY <2>1
  <2> QED
    BY <2>2, <2>3, <2>4, <2>5 DEF TypeOK
<1>8. ASSUME NEW c \in Clients, Pumps(c) PROVE TypeOK'
  <2>1. CASE WriteOk(c)
    <3>1. /\ Head(sendCh[c]) \in Message /\ Tail(sendCh[c]) \in Seq(Message)
          /\ Len(Tail(sendCh[c])) <= QueueSize
      BY <2>1 DEF WriteOk, TypeOK
    <3>2. sendCh' \in [Clients -> Seq(Message)] /\ \A k \in Clients : Len(sendCh'[k]) <= QueueSize
      BY <2>1, <3>1 DEF WriteOk, TypeOK
    <3>3. view' \in [Clients -> [scale : Views, printer : Views]]
      BY <2>1, <3>1, HearTyped DEF WriteOk, TypeOK
    <3> QED
      BY <2>1, <3>2, <3>3 DEF WriteOk, TypeOK
  <2>2. CASE WriteFails(c)
    <3>1. sendCh' \in [Clients -> Seq(Message)] /\ \A k \in Clients : Len(sendCh'[k]) <= QueueSize
      BY <2>2 DEF WriteFails, EndPump, TypeOK
    <3> QED
      BY <2>2, <1>v, <3>1 DEF WriteFails, EndPump, HangUp, TypeOK
  <2>3. CASE PumpStops(c)
    <3>1. sendCh' \in [Clients -> Seq(Message)] /\ \A k \in Clients : Len(sendCh'[k]) <= QueueSize
      BY <2>3 DEF PumpStops, EndPump, TypeOK
    <3> QED
      BY <2>3, <3>1 DEF PumpStops, EndPump, TypeOK
  <2> QED
    BY <1>8, <2>1, <2>2, <2>3 DEF Pumps
<1>9. ASSUME NEW c \in Clients, Unregister(c) PROVE TypeOK'
  BY <1>9, <1>v DEF Unregister, HangUp, TypeOK
<1>10. ASSUME NEW c \in Clients, PeerGoes(c) PROVE TypeOK'
  BY <1>10, <1>v DEF PeerGoes, HangUp, TypeOK
<1>11. ASSUME NEW b \in Casters, Broadcasting(b) PROVE TypeOK'
  <2>1. CASE BeginBroadcast(b)
    <3>1. cast' \in [Casters -> [stage : {"idle", "reread", "wait", "send"}, msg : Message, todo : SUBSET Clients]]
      <4>1. cast[b].msg \in Message /\ registered \in SUBSET Clients
        BY DEF TypeOK
      <4>2. cast \in [Casters -> [stage : {"idle", "reread", "wait", "send"}, msg : Message, todo : SUBSET Clients]]
        BY DEF TypeOK
      <4> QED
        BY <2>1, <1>i, <4>1, <4>2 DEF BeginBroadcast
    <3> QED
      BY <2>1, <3>1 DEF BeginBroadcast, TypeOK
  <2>2. ASSUME NEW c \in Clients, Deliver(b, c) PROVE TypeOK'
    <3>1. cast[b].msg \in Message
      BY DEF TypeOK
    <3>2. sendCh' \in [Clients -> Seq(Message)] /\ \A k \in Clients : Len(sendCh'[k]) <= QueueSize
      BY <2>2, <3>1, PutTyped DEF Deliver
    <3>3. cast' \in [Casters -> [stage : {"idle", "reread", "wait", "send"}, msg : Message, todo : SUBSET Clients]]
      <4>1. cast \in [Casters -> [stage : {"idle", "reread", "wait", "send"}, msg : Message, todo : SUBSET Clients]]
        BY DEF TypeOK
      <4>2. CASE cast[b].todo = {c}
        BY <2>2, <1>i, <4>1, <4>2 DEF Deliver
      <4>3. CASE cast[b].todo # {c}
        BY <2>2, <4>1, <4>3 DEF Deliver
      <4> QED
        BY <4>2, <4>3
    <3> QED
      BY <2>2, <3>2, <3>3 DEF Deliver, TypeOK
  <2> QED
    BY <1>11, <2>1, <2>2 DEF Broadcasting
<1>12. ASSUME NEW d \in Dialers, ScaleConnects(d) PROVE TypeOK'
  BY <1>12, <1>m, <1>e, <1>c DEF ScaleConnects, Announce, TypeOK
<1>13. CASE ScaleLost
  BY <1>13, <1>m, <1>e, <1>c DEF ScaleLost, Announce, Loops, TypeOK
<1>14. CASE HealthTick
  BY <1>14, <1>m, <1>c DEF HealthTick, Announce, Loops, TypeOK
<1>15. CASE PrinterTick
  BY <1>15, <1>c, <1>m DEF PrinterTick, Loops, TypeOK
<1>16. CASE PrinterReread
  BY <1>16, <1>m, <1>c DEF PrinterReread, Announce, Loops, TypeOK
<1>17. CASE PrinterTurns
  BY <1>17, <1>e DEF PrinterTurns, TypeOK
<1>18. CASE Stopping
  BY <1>18 DEF Stopping, TypeOK
<1>19. CASE UNCHANGED vars
  BY <1>19 DEF vars, TypeOK
<1> QED
  BY <1>1, <1>2, <1>3, <1>4, <1>5, <1>6, <1>7, <1>8, <1>9, <1>10, <1>11, <1>12,
     <1>13, <1>14, <1>15, <1>16, <1>17, <1>18, <1>19
  DEF Next, Client

-----------------------------------------------------------------------------
\* Every step keeps the registry in accord with the goroutines.
LEMMA RegistryStep ==
    ASSUME TypeOK, PumpStarted, RegistryTrue, [Next]_vars
    PROVE  PumpStarted' /\ RegistryTrue'
<1> USE DEF world, sockets, Greeting
<1>1. ASSUME NEW c \in Clients, Connect(c) PROVE PumpStarted' /\ RegistryTrue'
  BY <1>1 DEF Connect, TypeOK, PumpStarted, RegistryTrue
<1>2. ASSUME NEW c \in Clients, AcceptFails(c) PROVE PumpStarted' /\ RegistryTrue'
  BY <1>2 DEF AcceptFails, TypeOK, PumpStarted, RegistryTrue
<1>3. ASSUME NEW c \in Clients, Register(c) PROVE PumpStarted' /\ RegistryTrue'
  BY <1>3 DEF Register, TypeOK, PumpStarted, RegistryTrue
<1>4. ASSUME NEW c \in Clients, Greets(c) PROVE PumpStarted' /\ RegistryTrue'
  <2>1. CASE ReadStatus(c)
    <3>1. \E at \in {"sendScale", "sendPrinter"} : reader' = [reader EXCEPT ![c] = at]
      BY <2>1, Zenon DEF ReadStatus
    <3>2. reader[c] \in Greeting /\ registered' = registered /\ writer' = writer
      BY <2>1, Zenon DEF ReadStatus
    <3> QED
      BY <3>1, <3>2 DEF TypeOK, PumpStarted, RegistryTrue
  <2>2. CASE SendScale(c)
    BY <2>2 DEF SendScale, TypeOK, PumpStarted, RegistryTrue
  <2>3. CASE SendPrinter(c)
    BY <2>3 DEF SendPrinter, TypeOK, PumpStarted, RegistryTrue
  <2> QED
    BY <1>4, <2>1, <2>2, <2>3 DEF Greets
<1>5. ASSUME NEW c \in Clients, ReadFails(c) PROVE PumpStarted' /\ RegistryTrue'
  BY <1>5 DEF ReadFails, TypeOK, PumpStarted, RegistryTrue
<1>6. ASSUME NEW c \in Clients, Requests(c) PROVE PumpStarted' /\ RegistryTrue'
  BY <1>6 DEF Requests, RequestRefused, RequestStatus, RequestHandled, Reads,
              TypeOK, PumpStarted, RegistryTrue
<1>7. ASSUME NEW c \in Clients, Pumps(c) PROVE PumpStarted' /\ RegistryTrue'
  <2>1. CASE WriteOk(c)
    BY <2>1 DEF WriteOk, PumpStarted, RegistryTrue
  <2>2. CASE WriteFails(c) \/ PumpStops(c)
    <3>1. /\ writer[c] = "run" /\ writer' = [writer EXCEPT ![c] = "leave"]
          /\ reader' = reader /\ registered' = registered
      BY <2>2 DEF WriteFails, PumpStops, EndPump
    <3>2. PumpStarted'
      BY <3>1 DEF TypeOK, PumpStarted
    <3>3. RegistryTrue'
      BY <3>1 DEF TypeOK, RegistryTrue
    <3> QED
      BY <3>2, <3>3
  <2> QED
    BY <1>7, <2>1, <2>2 DEF Pumps
<1>8. ASSUME NEW c \in Clients, Unregister(c) PROVE PumpStarted' /\ RegistryTrue'
  BY <1>8 DEF Unregister, TypeOK, PumpStarted, RegistryTrue
<1>9. CASE UNCHANGED <<registered, reader, writer>>
  BY <1>9 DEF PumpStarted, RegistryTrue
<1>10. ASSUME NEW c \in Clients, Answer(c) \/ PeerGoes(c) PROVE UNCHANGED <<registered, reader, writer>>
  BY <1>10 DEF Answer, AnswerScale, AnswerPrint, PeerGoes
<1>11. ASSUME NEW b \in Casters, Broadcasting(b) PROVE UNCHANGED <<registered, reader, writer>>
  BY <1>11 DEF Broadcasting, BeginBroadcast, Deliver
<1>12. ASSUME NEW d \in Dialers, ScaleConnects(d) PROVE UNCHANGED <<registered, reader, writer>>
  BY <1>12 DEF ScaleConnects
<1>13. CASE \/ ScaleLost \/ HealthTick \/ PrinterTick \/ PrinterReread \/ PrinterTurns
            \/ Stopping \/ UNCHANGED vars
  BY <1>9, <1>13 DEF ScaleLost, HealthTick, PrinterTick, PrinterReread, PrinterTurns, Stopping, vars
<1> QED
  BY <1>1, <1>2, <1>3, <1>4, <1>5, <1>6, <1>7, <1>8, <1>9, <1>10, <1>11, <1>12, <1>13
  DEF Next, Client

\* Only Register and Unregister write the map, and neither does while a broadcast
\* iterates over it.
LEMMA IterationStep ==
    ASSUME Next, NEW b \in Casters, cast[b].stage = "send"
    PROVE  UNCHANGED registered
<1> USE DEF world, sockets
<1>1. ASSUME NEW c \in Clients, Client(c) PROVE UNCHANGED registered
  <2>1. ~ Register(c) /\ ~ Unregister(c)
    BY DEF Register, Unregister, NobodyCasts
  <2> QED
    BY <1>1, <2>1
    DEF Client, Connect, AcceptFails, Greets, ReadStatus, SendScale, SendPrinter, ReadFails,
        Requests, RequestRefused, RequestStatus, RequestHandled, Answer, AnswerScale, AnswerPrint,
        Pumps, WriteOk, WriteFails, PumpStops, EndPump, PeerGoes
<1>2. ASSUME NEW a \in Casters, Broadcasting(a) PROVE UNCHANGED registered
  BY <1>2 DEF Broadcasting, BeginBroadcast, Deliver
<1>3. ASSUME NEW d \in Dialers, ScaleConnects(d) PROVE UNCHANGED registered
  BY <1>3 DEF ScaleConnects
<1>4. CASE ScaleLost \/ HealthTick \/ PrinterTick \/ PrinterReread \/ PrinterTurns \/ Stopping
  BY <1>4 DEF ScaleLost, HealthTick, PrinterTick, PrinterReread, PrinterTurns, Stopping
<1> QED
  BY <1>1, <1>2, <1>3, <1>4 DEF Next

-----------------------------------------------------------------------------
\* The inductive invariant holds in every execution.
LEMMA HubInvariant == Spec => []HubInv
<1>1. Init => HubInv
  <2> SUFFICES ASSUME Init PROVE HubInv
    OBVIOUS
  <2>1. TypeOK
    BY HubAssumption DEF Init, TypeOK, Idle, Other, Message, Views, NewView, Greeting
  <2>2. PumpStarted /\ RegistryTrue
    BY DEF Init, PumpStarted, RegistryTrue, Greeting
  <2> QED
    BY <2>1, <2>2 DEF HubInv
<1>2. HubInv /\ [Next]_vars => HubInv'
  BY TypeStep, RegistryStep DEF HubInv
<1> QED
  BY <1>1, <1>2, PTL DEF Spec

\* Every variable of the hub keeps its type, and no queue exceeds its capacity.
THEOREM HubTypes == Spec => []TypeOK
BY HubInvariant, PTL DEF HubInv

\* The registry holds exactly the connections that some goroutine will take out
\* again, however many clients come, go and vanish.
THEOREM RegistryCorrect == Spec => []RegistryTrue
BY HubInvariant, PTL DEF HubInv

\* No step of anybody registers or removes a client, served or not, while some
\* goroutine is in the loop of Broadcast.
THEOREM IterationSafe == Spec => IterationStable
<1>1. [Next]_vars => [(\E b \in Casters : cast[b].stage = "send") => UNCHANGED registered]_vars
  BY IterationStep DEF vars
<1> QED
  BY <1>1, PTL DEF Spec, IterationStable
=============================================================================
