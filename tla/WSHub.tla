------------------------------- MODULE WSHub -------------------------------
(***************************************************************************)
(* The WebSocket hub (internal/ws) and the periodic broadcasts of          *)
(* internal/app: the registry of clients, one bounded queue and one write  *)
(* pump per client, the read loop that dispatches requests, the status     *)
(* sent on connect, and the broadcasts that go on meanwhile.               *)
(*                                                                         *)
(* What a message says is abstracted to the state of the scale or of the   *)
(* printer that it carries; every other message only takes room.           *)
(***************************************************************************)
EXTENDS Integers, Sequences, FiniteSets

CONSTANTS
    Clients,    \* connections; one that has ended can be used again
    Dialers,    \* goroutines that may be announcing a connection of the scale
    MaxClients, \* maxClients
    QueueSize,  \* the capacity of sendCh
    MaxEvents   \* bounds changes of scale and printer, and requests

Loops == {"loss", "ticker", "health"}

ASSUME HubAssumption ==
    /\ MaxClients \in Nat /\ QueueSize \in Nat \ {0} /\ MaxEvents \in Nat
    /\ Clients \cap Dialers = {} /\ (Clients \cup Dialers) \cap Loops = {}

\* The goroutines that call Broadcast: the onStatus callback for a connection
\* and for its loss, the two loops of App, and the print handler of a client.
Casters == Clients \cup Dialers \cup Loops

Message == [about : {"scale", "printer", "other"}, up : BOOLEAN]
Other == [about |-> "other", up |-> FALSE]
About(what, up) == [about |-> what, up |-> up]

VARIABLES
    app,         \* "running", "stopping" (the context is done), "closed" (no listener)
    scale,       \* the scale client's connected flag
    printer,     \* whether Status finds the printer ready
    last,        \* last of runPrinterStatusBroadcast
    cast,        \* where each caster is in its broadcast
    registered,  \* Hub.clients
    conn,        \* the connection as the network has it
    reader,      \* where handleWS is: the goroutine that reads
    writer,      \* where the write pump is
    seen,        \* what SendCurrentStatus read and has not sent yet
    handling,    \* which handler goroutine of the client runs
    sendCh,      \* the client's queue
    view,        \* what the client was last told of scale and printer
    events       \* changes and requests so far

world   == <<scale, printer, events>>
sockets == <<conn, reader, writer, seen, handling>>
vars    == <<app, world, last, cast, registered, sockets, sendCh, view>>

Views == {"unknown", "up", "down"}
Greeting == {"readScale", "sendScale", "readPrinter", "sendPrinter"}
Idle == [stage |-> "idle", msg |-> Other, todo |-> {}]

\* Every pc, queue and view has its type; no queue exceeds its capacity.
TypeOK ==
    /\ app \in {"running", "stopping", "closed"}
    /\ scale \in BOOLEAN /\ printer \in BOOLEAN /\ last \in BOOLEAN
    /\ cast \in [Casters -> [stage : {"idle", "reread", "wait", "send"},
                             msg : Message, todo : SUBSET Clients]]
    /\ registered \subseteq Clients
    /\ conn \in [Clients -> {"none", "open", "silent", "closed"}]
    /\ reader \in [Clients -> {"none", "admitted", "read", "done"} \cup Greeting]
    /\ writer \in [Clients -> {"none", "run", "leave", "done"}]
    /\ seen \in [Clients -> BOOLEAN]
    /\ handling \in [Clients -> {"none", "scale", "print"}]
    /\ sendCh \in [Clients -> Seq(Message)]
    /\ \A c \in Clients : Len(sendCh[c]) <= QueueSize
    /\ view \in [Clients -> [scale : Views, printer : Views]]
    /\ events \in 0 .. MaxEvents

NewView == [scale |-> "unknown", printer |-> "unknown"]

Init ==
    /\ app = "running"
    /\ scale \in BOOLEAN /\ printer \in BOOLEAN /\ last = printer
    /\ cast = [b \in Casters |-> Idle]
    /\ registered = {}
    /\ conn = [c \in Clients |-> "none"]
    /\ reader = [c \in Clients |-> "none"]
    /\ writer = [c \in Clients |-> "none"]
    /\ seen = [c \in Clients |-> FALSE]
    /\ handling = [c \in Clients |-> "none"]
    /\ sendCh = [c \in Clients |-> <<>>]
    /\ view = [c \in Clients |-> NewView]
    /\ events = 0

\* Hub.mu: Register and Unregister need it for writing, Broadcast for reading.
NobodyCasts == \A b \in Casters : cast[b].stage # "send"

\* Mutant: the queue takes one message more.
PutOneMore(c, m) ==
    sendCh' = IF Len(sendCh[c]) <= QueueSize /\ writer[c] \in {"none", "run"}
              THEN [sendCh EXCEPT ![c] = Append(@, m)] ELSE sendCh

\* WSClient.Send, and the body of Broadcast's loop: a message for a full queue
\* is dropped.  The queue of a client whose pump has ended is never read.
Put(c, m) ==
    sendCh' = IF Len(sendCh[c]) < QueueSize /\ writer[c] \in {"none", "run"}
              THEN [sendCh EXCEPT ![c] = Append(@, m)] ELSE sendCh

\* The connection ends, by a close or without a word, and what its client was
\* told is of no account any more.
HangUp(c, how) ==
    /\ conn' = [conn EXCEPT ![c] = how]
    /\ view' = [view EXCEPT ![c] = NewView]

\* A goroutine comes to call Broadcast with message m.
Announce(b, m) == cast' = [cast EXCEPT ![b] = [stage |-> "wait", msg |-> m, todo |-> {}]]

Happens == events < MaxEvents /\ events' = events + 1

-----------------------------------------------------------------------------
(***************************************************************************)
(* A connection: handleWS.                                                 *)
(***************************************************************************)
\* Mutant: connections are still taken after the listener was closed.
ConnectAlways(c) ==
    /\ reader[c] \in {"none", "done"} /\ writer[c] \in {"none", "done"}
    /\ handling[c] = "none" /\ cast[c] = Idle
    /\ Cardinality(registered) < MaxClients
    /\ reader' = [reader EXCEPT ![c] = "admitted"]
    /\ writer' = [writer EXCEPT ![c] = "none"]
    /\ conn' = [conn EXCEPT ![c] = "open"]
    /\ view' = [view EXCEPT ![c] = NewView]
    /\ sendCh' = [sendCh EXCEPT ![c] = <<>>]
    /\ UNCHANGED <<app, world, last, cast, registered, seen, handling>>

\* A connection arrives and passes the client limit, which is tested before
\* it is registered.  At the limit it is answered 429, which changes nothing.
Connect(c) ==
    /\ app # "closed"
    /\ reader[c] \in {"none", "done"} /\ writer[c] \in {"none", "done"}
    /\ handling[c] = "none" /\ cast[c] = Idle
    /\ Cardinality(registered) < MaxClients
    /\ reader' = [reader EXCEPT ![c] = "admitted"]
    /\ writer' = [writer EXCEPT ![c] = "none"]
    /\ conn' = [conn EXCEPT ![c] = "open"]
    /\ view' = [view EXCEPT ![c] = NewView]
    /\ sendCh' = [sendCh EXCEPT ![c] = <<>>]
    /\ UNCHANGED <<app, world, last, cast, registered, seen, handling>>

\* The handshake fails, or the origin is refused.
AcceptFails(c) ==
    /\ reader[c] = "admitted"
    /\ reader' = [reader EXCEPT ![c] = "none"]
    /\ HangUp(c, "none")
    /\ UNCHANGED <<app, world, last, cast, registered, writer, seen, handling, sendCh>>

\* The connection is accepted and registered; broadcasts reach it from now on.
Register(c) ==
    /\ reader[c] = "admitted" /\ NobodyCasts
    /\ registered' = registered \cup {c}
    /\ reader' = [reader EXCEPT ![c] = "readScale"]
    /\ UNCHANGED <<app, world, last, cast, conn, writer, seen, handling, sendCh, view>>

\* SendCurrentStatus reads a status, and queues it later.
ReadStatus(c) ==
    /\ \/ /\ reader[c] = "readScale"
          /\ seen' = [seen EXCEPT ![c] = scale]
          /\ reader' = [reader EXCEPT ![c] = "sendScale"]
       \/ /\ reader[c] = "readPrinter"
          /\ seen' = [seen EXCEPT ![c] = printer]
          /\ reader' = [reader EXCEPT ![c] = "sendPrinter"]
    /\ UNCHANGED <<app, world, last, cast, registered, conn, writer, handling, sendCh, view>>

SendScale(c) ==
    /\ reader[c] = "sendScale"
    /\ Put(c, About("scale", seen[c]))
    /\ reader' = [reader EXCEPT ![c] = "readPrinter"]
    /\ seen' = [seen EXCEPT ![c] = FALSE]
    /\ UNCHANGED <<app, world, last, cast, registered, conn, writer, handling, view>>

\* The end of SendCurrentStatus; on connect the write pump starts after it.
SendPrinter(c) ==
    /\ reader[c] = "sendPrinter"
    /\ Put(c, About("printer", seen[c]))
    /\ reader' = [reader EXCEPT ![c] = "read"]
    /\ seen' = [seen EXCEPT ![c] = FALSE]
    /\ writer' = [writer EXCEPT ![c] = IF @ = "none" THEN "run" ELSE @]
    /\ UNCHANGED <<app, world, last, cast, registered, conn, handling, view>>

\* The context of the connection: done when handleWS returns or the hub stops.
ContextDone(c) == reader[c] = "done" \/ app # "running"

\* conn.Read fails: the peer or the pump closed the connection, or the hub stops.
ReadFails(c) ==
    /\ reader[c] = "read" /\ (conn[c] = "closed" \/ app # "running")
    /\ reader' = [reader EXCEPT ![c] = "done"]
    /\ HangUp(c, "closed")
    /\ UNCHANGED <<app, world, last, cast, registered, writer, seen, handling, sendCh>>

-----------------------------------------------------------------------------
(***************************************************************************)
(* Requests: HandleMessage and its handlers.                               *)
(***************************************************************************)
Reads(c) == reader[c] = "read" /\ conn[c] = "open"

\* A request that is answered by the read loop itself, with an error.
RequestRefused(c) ==
    /\ Reads(c) /\ Happens
    /\ Put(c, Other)
    /\ UNCHANGED <<app, scale, printer, last, cast, registered, sockets, view>>

\* "status": SendCurrentStatus, in the read loop.
RequestStatus(c) ==
    /\ Reads(c) /\ Happens
    /\ reader' = [reader EXCEPT ![c] = "readScale"]
    /\ UNCHANGED <<app, scale, printer, last, cast, registered,
                   conn, writer, seen, handling, sendCh, view>>

\* The other requests get a goroutine, which may outlive the connection.
RequestHandled(c) ==
    /\ Reads(c) /\ handling[c] = "none" /\ cast[c] = Idle /\ Happens
    /\ \E kind \in {"scale", "print"} : handling' = [handling EXCEPT ![c] = kind]
    /\ UNCHANGED <<app, scale, printer, last, cast, registered,
                   conn, reader, writer, seen, sendCh, view>>

\* Weigh, tare, zero and health: the handler answers.  (The progress messages
\* of a weigh would only take more room.)
AnswerScale(c) ==
    /\ handling[c] = "scale"
    /\ handling' = [handling EXCEPT ![c] = "none"]
    /\ Put(c, Other)
    /\ UNCHANGED <<app, world, last, cast, registered, conn, reader, writer, seen, view>>

\* Print: the handler answers, and then tells all clients, unless the request
\* was invalid.
AnswerPrint(c) ==
    /\ handling[c] = "print"
    /\ handling' = [handling EXCEPT ![c] = "none"]
    /\ Put(c, Other)
    /\ Announce(c, Other) \/ UNCHANGED cast
    /\ UNCHANGED <<app, world, last, registered, conn, reader, writer, seen, view>>

Answer(c) == AnswerScale(c) \/ AnswerPrint(c)

-----------------------------------------------------------------------------
(***************************************************************************)
(* The write pump.                                                         *)
(***************************************************************************)
Told(up) == IF up THEN "up" ELSE "down"

\* What a client knows after a message.
Hear(v, m) ==
    CASE m.about = "scale"   -> [v EXCEPT !.scale = Told(m.up)]
      [] m.about = "printer" -> [v EXCEPT !.printer = Told(m.up)]
      [] OTHER               -> v

\* A message is written; of a peer that is gone without a word, the kernel
\* takes it all the same.
WriteOk(c) ==
    /\ writer[c] = "run" /\ sendCh[c] # <<>> /\ ~ ContextDone(c)
    /\ conn[c] \in {"open", "silent"}
    /\ sendCh' = [sendCh EXCEPT ![c] = Tail(@)]
    /\ view' = IF conn[c] = "open" THEN [view EXCEPT ![c] = Hear(@, Head(sendCh[c]))] ELSE view
    /\ UNCHANGED <<app, world, last, cast, registered, sockets>>

EndPump(c) ==
    /\ writer' = [writer EXCEPT ![c] = "leave"]
    /\ sendCh' = [sendCh EXCEPT ![c] = <<>>]
    /\ UNCHANGED <<app, world, last, cast, registered, reader, seen, handling>>

\* The write fails or takes longer than 5 s, which closes the connection.
WriteFails(c) ==
    /\ writer[c] = "run" /\ sendCh[c] # <<>>
    /\ HangUp(c, "closed")
    /\ EndPump(c)

\* The pump sees that its context is done.
PumpStops(c) ==
    /\ writer[c] = "run" /\ ContextDone(c)
    /\ EndPump(c) /\ UNCHANGED <<conn, view>>

\* Mutant: the pump ends without its deferred Unregister.
UnregisterForgotten(c) ==
    /\ writer[c] = "leave"
    /\ writer' = [writer EXCEPT ![c] = "done"]
    /\ HangUp(c, "closed")
    /\ UNCHANGED <<app, world, last, cast, registered, reader, seen, handling, sendCh>>

\* Mutant: Unregister does not take the mutex.
UnregisterUnlocked(c) ==
    /\ writer[c] = "leave"
    /\ registered' = registered \ {c}
    /\ writer' = [writer EXCEPT ![c] = "done"]
    /\ HangUp(c, "closed")
    /\ UNCHANGED <<app, world, last, cast, reader, seen, handling, sendCh>>

\* The pump's deferred calls: Unregister, and then CloseNow.
Unregister(c) ==
    /\ writer[c] = "leave" /\ NobodyCasts
    /\ registered' = registered \ {c}
    /\ writer' = [writer EXCEPT ![c] = "done"]
    /\ HangUp(c, "closed")
    /\ UNCHANGED <<app, world, last, cast, reader, seen, handling, sendCh>>

-----------------------------------------------------------------------------
(***************************************************************************)
(* Broadcasts.                                                             *)
(***************************************************************************)
\* Broadcast takes the mutex for reading.
BeginBroadcast(b) ==
    /\ cast[b].stage = "wait"
    /\ cast' = IF registered = {} THEN [cast EXCEPT ![b] = Idle]
               ELSE [cast EXCEPT ![b] = [stage |-> "send", msg |-> @.msg, todo |-> registered]]
    /\ UNCHANGED <<app, world, last, registered, sockets, sendCh, view>>

\* One round of its loop, over a map, so in any order.
Deliver(b, c) ==
    /\ cast[b].stage = "send" /\ c \in cast[b].todo
    /\ Put(c, cast[b].msg)
    /\ cast' = IF cast[b].todo = {c} THEN [cast EXCEPT ![b] = Idle]
               ELSE [cast EXCEPT ![b].todo = @ \ {c}]
    /\ UNCHANGED <<app, world, last, registered, sockets, view>>

\* tryConnect: the flag is set, and announced later, without the mutex.
ScaleConnects(d) ==
    /\ ~ scale /\ cast[d] = Idle /\ cast["loss"] = Idle /\ Happens
    /\ scale' = TRUE
    /\ Announce(d, About("scale", TRUE))
    /\ UNCHANGED <<app, printer, last, registered, sockets, sendCh, view>>

\* The scale is lost, which is announced under the scale client's mutex.
ScaleLost ==
    /\ scale /\ cast["loss"] = Idle /\ Happens
    /\ scale' = FALSE
    /\ Announce("loss", About("scale", FALSE))
    /\ UNCHANGED <<app, printer, last, registered, sockets, sendCh, view>>

\* Mutant: a health broadcast is sent only while the scale is not connected.
HealthTickOffline ==
    /\ ~ scale /\ app = "running" /\ cast["health"] = Idle /\ registered # {}
    /\ Announce("health", About("scale", scale))
    /\ UNCHANGED <<app, world, last, registered, sockets, sendCh, view>>

\* runHealthBroadcast, every 30 s if there is a client.
HealthTick ==
    /\ app = "running" /\ cast["health"] = Idle /\ registered # {}
    /\ Announce("health", About("scale", scale))
    /\ UNCHANGED <<app, world, last, registered, sockets, sendCh, view>>

\* runPrinterStatusBroadcast, every second: the state is compared, and read
\* again for the message.
PrinterTick ==
    /\ app = "running" /\ cast["ticker"] = Idle /\ printer # last
    /\ last' = printer
    /\ cast' = [cast EXCEPT !["ticker"] = [stage |-> "reread", msg |-> Other, todo |-> {}]]
    /\ UNCHANGED <<app, world, registered, sockets, sendCh, view>>

PrinterReread ==
    /\ cast["ticker"].stage = "reread"
    /\ Announce("ticker", About("printer", printer))
    /\ UNCHANGED <<app, world, last, registered, sockets, sendCh, view>>

-----------------------------------------------------------------------------
(***************************************************************************)
(* The printer, the network, and the end of the program.                   *)
(***************************************************************************)
PrinterTurns ==
    /\ Happens
    /\ printer' = ~ printer
    /\ UNCHANGED <<app, scale, last, cast, registered, sockets, sendCh, view>>

\* A tablet closes its connection, or goes without a word (Wi-Fi, battery).
PeerGoes(c) ==
    /\ conn[c] = "open" /\ reader[c] # "admitted"
    /\ \E how \in {"closed", "silent"} : HangUp(c, how)
    /\ UNCHANGED <<app, world, last, cast, registered, reader, writer, seen, handling, sendCh>>

\* A signal ends the context, and App.Stop closes the listener.
Stopping ==
    /\ \/ app = "running" /\ app' = "stopping"
       \/ app = "stopping" /\ app' = "closed"
    /\ UNCHANGED <<world, last, cast, registered, sockets, sendCh, view>>

Greets(c) == ReadStatus(c) \/ SendScale(c) \/ SendPrinter(c)
Pumps(c) == WriteOk(c) \/ WriteFails(c) \/ PumpStops(c)
Requests(c) == RequestRefused(c) \/ RequestStatus(c) \/ RequestHandled(c)


Client(c) == \/ Connect(c) \/ AcceptFails(c) \/ Register(c) \/ Greets(c) \/ ReadFails(c)
             \/ Requests(c) \/ Answer(c) \/ Pumps(c) \/ Unregister(c) \/ PeerGoes(c)

Broadcasting(b) == BeginBroadcast(b) \/ \E c \in Clients : Deliver(b, c)

Next ==
    \/ \E c \in Clients : Client(c)
    \/ \E b \in Casters : Broadcasting(b)
    \/ \E d \in Dialers : ScaleConnects(d)
    \/ ScaleLost \/ HealthTick \/ PrinterTick \/ PrinterReread \/ PrinterTurns \/ Stopping

Spec == Init /\ [][Next]_vars

\* Goroutines that can go on do so, tickers tick, a stopping program closes its
\* listener, and TCP gives up on a peer that acknowledges nothing.  Nothing
\* else is fair: neither clients nor scale, printer or network.
FairTo(c) ==
    /\ SF_vars(Register(c)) /\ SF_vars(Unregister(c))
    /\ WF_vars(Greets(c) \/ ReadFails(c)) /\ WF_vars(Answer(c)) /\ WF_vars(Pumps(c))
    /\ SF_vars(conn[c] = "silent" /\ WriteFails(c))
    /\ WF_vars(Broadcasting(c))

FairTicks ==
    /\ \A b \in Dialers \cup Loops : WF_vars(Broadcasting(b))
    /\ WF_vars(HealthTick) /\ WF_vars(PrinterTick \/ PrinterReread)
    /\ WF_vars(app = "stopping" /\ Stopping)

Fairness == FairTicks /\ \A c \in Clients : FairTo(c)

FairSpec == Spec /\ Fairness

-----------------------------------------------------------------------------
(***************************************************************************)
(* Properties.                                                             *)
(***************************************************************************)
\* Hub.clients is exactly the set of connections that some goroutine will take
\* out again: handleWS until it has started the pump, the pump from then on.
\* An entry without one would use up the client limit for ever, and a running
\* pump without an entry would leave a tablet without broadcasts.
RegistryTrue ==
    \A c \in Clients :
        c \in registered <=> \/ reader[c] \in Greeting /\ writer[c] = "none"
                             \/ writer[c] \in {"run", "leave"}

\* While any broadcast iterates over Hub.clients, nobody writes that map: no
\* client is registered, and none is removed, be it one that is still to be
\* served or one that has been (Go aborts the program when a map is written
\* during an iteration in another goroutine).
IterationStable ==
    [][(\E b \in Casters : cast[b].stage = "send") => UNCHANGED registered]_vars

Served(c) == conn[c] = "open" /\ reader[c] # "admitted"

\* Whatever status was overtaken or dropped on the way (SendCurrentStatus
\* against onStatus, a full queue): while the scale's state lasts, a client
\* that stays comes to be shown it, by the health broadcast.
ScaleShown ==
    \A c \in Clients, up \in BOOLEAN :
        <>[](Served(c) /\ scale = up) => <>[](view[c].scale = Told(up))

\* A connection that was closed, or whose peer vanished, leaves the registry,
\* and so makes room below the client limit, although nobody sends pings.
LostLeave ==
    \A c \in Clients : conn[c] \in {"silent", "closed"} ~> c \notin registered

\* After the signal, every connection is unregistered, and none comes back.
StopEmpties == app # "running" ~> [](registered = {})

\* "printer_status" is broadcast when the printer's state changes
\* (message.go:115): when all that was sent has arrived, and the ticker has
\* seen the printer as it is, each client that listens was told the same.
PrinterShown ==
    (printer = last /\ \A b \in Casters : cast[b] = Idle)
        => \A c \in Clients :
               (conn[c] = "open" /\ reader[c] = "read" /\ writer[c] = "run" /\ sendCh[c] = <<>>)
                   => view[c].printer = Told(printer)
=============================================================================
