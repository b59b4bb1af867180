----------------------------- MODULE MCHubPeers -----------------------------
(* One connection of the hub, or two of them, in one instance. *)
EXTENDS MCWSHub

VARIABLE peers  \* the connections that take part in a behaviour

\* One connection while everything happens, or two of them while the health
\* broadcast is all that is sent.
PeersInit ==
    /\ Init
    /\ \/ peers = {c1}
       \/ peers = Clients /\ ~ scale /\ ~ printer

PeersNext ==
    /\ Next /\ UNCHANGED peers
    /\ \A c \in Clients \ peers : reader'[c] = "none"
    /\ peers = Clients => UNCHANGED <<app, events>>

\* Behaviours of two connections are checked for safety only: they do not count
\* as fair, which leaves the liveness properties those of one.
PeersSpec ==
    /\ PeersInit /\ [][PeersNext]_<<vars, peers>>
    /\ FairTicks /\ FairTo(c1) /\ []<>(peers = {c1})
=============================================================================
