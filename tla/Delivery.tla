------------------------------ MODULE Delivery ------------------------------
(***************************************************************************)
(* What sending a print job promises, whatever happens on the USB cable:   *)
(* the abstract specification of Sender.Send (internal/printer/qlbackend). *)
(* QLSender implements it for one job; PrintPath builds on it for the jobs *)
(* of a CUPS queue.                                                        *)
(***************************************************************************)
EXTENDS Naturals

CONSTANTS
    Jobs,    \* print jobs
    Labels   \* labels in each job

ASSUME LabelsAssumption == Labels \in Nat \ {0}

VARIABLES
    held,    \* labels of each job that the printer has and has not printed
    out,     \* labels of each job that came out
    lost,    \* jobs whose printer can no longer be told anything
    outcome  \* what Send reported of each job, "none" before

delivery == <<held, out, lost, outcome>>

Outcomes == {"printed", "failed", "unconfirmed", "canceled"}

DeliveryTypeOK ==
    /\ held \in [Jobs -> 0 .. Labels]
    /\ out \in [Jobs -> 0 .. Labels]
    /\ lost \in [Jobs -> BOOLEAN]
    /\ outcome \in [Jobs -> Outcomes \cup {"none"}]

DeliveryInit ==
    /\ held = [j \in Jobs |-> 0]
    /\ out = [j \in Jobs |-> 0]
    /\ lost = [j \in Jobs |-> FALSE]
    /\ outcome = [j \in Jobs |-> "none"]

\* Mutant: the page loop runs once too often.
TakeOneMore(j) ==
    /\ outcome[j] = "none" /\ ~ lost[j]
    /\ held[j] + out[j] <= Labels
    /\ held' = [held EXCEPT ![j] = @ + 1]
    /\ UNCHANGED <<out, lost, outcome>>

\* The printer takes one more label.
Take(j) ==
    /\ outcome[j] = "none" /\ ~ lost[j]
    /\ held[j] + out[j] < Labels
    /\ held' = [held EXCEPT ![j] = @ + 1]
    /\ UNCHANGED <<out, lost, outcome>>

\* A label comes out, also after the job was reported.
ComeOut(j) ==
    /\ held[j] > 0
    /\ held' = [held EXCEPT ![j] = @ - 1]
    /\ out' = [out EXCEPT ![j] = @ + 1]
    /\ UNCHANGED <<lost, outcome>>

\* The printer is told to drop the jobs it holds.
Drop(S) ==
    /\ held' = [j \in Jobs |-> IF j \in S THEN 0 ELSE held[j]]
    /\ UNCHANGED <<out, lost, outcome>>

\* The printer is switched off (and drops the job), or can no longer be told
\* anything (and keeps it).
Lose(j) ==
    /\ lost' = [lost EXCEPT ![j] = TRUE]
    /\ \E h \in {0, held[j]} : held' = [held EXCEPT ![j] = h]
    /\ UNCHANGED <<out, outcome>>

\* The promise.  "Printed" is said only when every label came out; a job that
\* failed or was canceled leaves nothing behind that could print later, unless
\* the printer could not be told.
Conclude(j, o) ==
    /\ outcome[j] = "none"
    /\ outcome' = [outcome EXCEPT ![j] = o]
    /\ \E h \in {0, held[j]} : held' = [held EXCEPT ![j] = h]
    /\ o = "printed" => out[j] = Labels
    /\ o \in {"failed", "canceled"} => held'[j] = 0 \/ lost[j]
    /\ UNCHANGED <<out, lost>>

DeliveryNext ==
    \E j \in Jobs :
        \/ Take(j) \/ ComeOut(j) \/ Drop({j}) \/ Lose(j)
        \/ \E o \in Outcomes : Conclude(j, o)

DeliverySpec == DeliveryInit /\ [][DeliveryNext]_delivery
=============================================================================
