--------------------------- MODULE PrinterSelect ---------------------------
(***************************************************************************)
(* Which CUPS queue labels are printed on: Brother.Status, which asks about *)
(* each configured name, else lists all destinations and the default, and   *)
(* resolves a name from them, while somebody may add and remove queues.     *)
(* Queues are names; Score is what scoreBrotherQL makes of a name.          *)
(***************************************************************************)
EXTENDS Naturals, Sequences, FiniteSets, SequencesExt

CONSTANTS
    Queues,     \* names a queue may have
    Score,      \* scoreBrotherQL: 300 for a known model, 100 for a QL, 0 else
    Configs,    \* what PRINTER_NAME may be parsed to, sequences of names
    NoQueue,    \* the empty name
    MaxChanges  \* how often queues and default change during the call

ASSUME SelectAssumption ==
    /\ IsFiniteSet(Queues)
    /\ Score \in [Queues -> {0, 100, 300}]
    /\ Configs \subseteq Seq(Queues)
    /\ NoQueue \notin Queues
    /\ MaxChanges \in Nat

VARIABLES
    dests,       \* the queues CUPS holds, in the order lpstat lists them
    default,     \* the default destination
    configured,  \* parseConfiguredPrinterNames(b.name)
    statusAt,    \* where Status is
    tried,       \* how many of the configured names were asked about
    listed,      \* status.Available
    dflt,        \* status.DefaultName
    chosen,      \* status.SelectedName
    source,      \* status.Source
    usable,      \* status.Ready() and validateStatus(status) = nil
    changes,     \* how often CUPS changed so far
    stable,      \* history: the queues that CUPS held all the time
    failed       \* history: configured names whose lpstat failed

world  == <<dests, default, configured, changes, stable>>
asking == <<tried, failed>>
choice == <<listed, dflt, chosen, source, usable>>
selectVars == <<world, statusAt, asking, choice>>

Held == ToSet(dests)

\* The sequence of a set's elements that a listing shows: any order of them.
Listings(names) == {s \in UNION {[1 .. n -> names] : n \in 0 .. Cardinality(names)} :
                      IsInjective(s) /\ ToSet(s) \in SUBSET names}

SelectTypeOK ==
    /\ dests \in Seq(Queues) /\ IsInjective(dests)
    /\ default \in Queues \cup {NoQueue}
    /\ configured \in Configs
    /\ statusAt \in {"ask", "list", "default", "resolve", "attributes", "done", "error"}
    /\ tried \in 0 .. Len(configured)
    /\ listed \in Seq(Queues)
    /\ dflt \in Queues \cup {NoQueue}
    /\ chosen \in Queues \cup {NoQueue}
    /\ source \in {"", "configured", "cups-default", "auto-detected",
                   "first-available", "unresolved"}
    /\ usable \in BOOLEAN
    /\ changes \in 0 .. MaxChanges
    /\ stable \subseteq Queues
    /\ failed \subseteq Queues

-----------------------------------------------------------------------------
\* DetectBrotherQL: the first of the listed names with the best score above 0.
DetectBrotherQL(names) ==
    LET best == {i \in DOMAIN names :
                    /\ Score[names[i]] > 0
                    /\ \A k \in DOMAIN names : Score[names[k]] <= Score[names[i]]}
    IN  IF best = {} THEN NoQueue ELSE names[Min(best)]

\* selectConfiguredPrinter: the first configured name that is listed.
FirstListed(config, names) ==
    LET found == {i \in DOMAIN config : config[i] \in ToSet(names)}
    IN  IF found = {} THEN NoQueue ELSE config[Min(found)]

\* Mutant: the configured name is not kept when nothing matches.
ResolveAnything(config, names, d) ==
    IF FirstListed(config, names) # NoQueue
    THEN <<FirstListed(config, names), "configured">>
    ELSE IF d \in ToSet(names) /\ Score[d] > 0 THEN <<d, "cups-default">>
    ELSE IF DetectBrotherQL(names) # NoQueue THEN <<DetectBrotherQL(names), "auto-detected">>
    ELSE IF d # NoQueue THEN <<d, "cups-default">>
    ELSE IF names # <<>> THEN <<names[1], "first-available">>
    ELSE <<NoQueue, "unresolved">>

\* resolvePrinter: the name, and how it was found.
ResolvePrinter(config, names, d) ==
    IF FirstListed(config, names) # NoQueue
    THEN <<FirstListed(config, names), "configured">>
    ELSE IF d \in ToSet(names) /\ Score[d] > 0 THEN <<d, "cups-default">>
    ELSE IF DetectBrotherQL(names) # NoQueue THEN <<DetectBrotherQL(names), "auto-detected">>
    ELSE IF config # <<>> THEN <<config[1], "configured">>
    ELSE IF d # NoQueue THEN <<d, "cups-default">>
    ELSE IF names # <<>> THEN <<names[1], "first-available">>
    ELSE <<NoQueue, "unresolved">>

SelectInit ==
    /\ dests \in Listings(Queues)
    /\ default \in Held \cup {NoQueue}
    /\ configured \in Configs
    /\ statusAt = "ask" /\ tried = 0
    /\ listed = <<>> /\ dflt = NoQueue
    /\ chosen = NoQueue /\ source = "" /\ usable = FALSE
    /\ changes = 0
    /\ stable = Held /\ failed = {}

\* Mutant: the last configured name that is there wins.
AskFindsLast ==
    /\ statusAt = "ask" /\ tried < Len(configured)
    /\ configured[tried + 1] \in Held
    /\ chosen' = Last(SelectSeq(configured, LAMBDA n : n \in Held))
    /\ source' = "configured"
    /\ listed' = <<chosen'>>
    /\ statusAt' = "attributes"
    /\ UNCHANGED <<world, asking, dflt, usable>>

\* firstExistingPrinter asks about the next configured name, and it is there.
AskFinds ==
    /\ statusAt = "ask" /\ tried < Len(configured)
    /\ configured[tried + 1] \in Held
    /\ chosen' = configured[tried + 1]
    /\ source' = "configured"
    /\ listed' = <<chosen'>>
    /\ statusAt' = "attributes"
    /\ UNCHANGED <<world, asking, dflt, usable>>

\* It is not there, or its lpstat fails, which is taken for the same.
AskMisses ==
    /\ statusAt = "ask" /\ tried < Len(configured)
    /\ \/ configured[tried + 1] \notin Held /\ failed' = failed
       \/ failed' = failed \cup {configured[tried + 1]}
    /\ tried' = tried + 1
    /\ UNCHANGED <<world, statusAt, choice>>

AskedAll ==
    /\ statusAt = "ask" /\ tried = Len(configured)
    /\ statusAt' = "list"
    /\ UNCHANGED <<world, asking, choice>>

\* statusFromAllDestinations: lpstat -p, which may fail.
List ==
    /\ statusAt = "list"
    /\ \/ listed' = dests /\ statusAt' = "default"
       \/ listed' = listed /\ statusAt' = "error"
    /\ UNCHANGED <<world, asking, dflt, chosen, source, usable>>

\* lpstat -d; a failure leaves no default.
ReadDefault ==
    /\ statusAt = "default"
    /\ dflt' \in {default, NoQueue}
    /\ statusAt' = "resolve"
    /\ UNCHANGED <<world, asking, listed, chosen, source, usable>>

Resolve ==
    /\ statusAt = "resolve"
    /\ LET r == ResolvePrinter(configured, listed, dflt) IN
       chosen' = r[1] /\ source' = r[2]
    /\ statusAt' = "attributes"
    /\ UNCHANGED <<world, asking, listed, dflt, usable>>

\* PrinterStatus.Ready: a configured queue that was not listed is not ready, and
\* neither is one without a usable backend.
Ready(backendReady) ==
    /\ chosen # NoQueue
    /\ source = "configured" => chosen \in ToSet(listed)
    /\ backendReady

\* Device, state and backend of the selected queue; one that CUPS does not hold by
\* now has no device URI and no usable backend.
Attributes ==
    /\ statusAt = "attributes"
    /\ \E backendReady \in BOOLEAN :
           /\ backendReady => chosen \in Held
           /\ usable' = Ready(backendReady)
    /\ statusAt' = "done"
    /\ UNCHANGED <<world, asking, listed, dflt, chosen, source>>

\* Somebody adds or removes a queue, or changes the default.
Reconfigure ==
    /\ statusAt \notin {"done", "error"} /\ changes < MaxChanges
    /\ changes' = changes + 1
    /\ \/ /\ dests' \in Listings(Queues)
          /\ \E q \in Queues : Held \ {q} = ToSet(dests') \ {q}
          /\ default' = IF default \in ToSet(dests') THEN default ELSE NoQueue
       \/ default' \in Held \cup {NoQueue} /\ dests' = dests
    /\ stable' = stable \cap ToSet(dests')
    /\ UNCHANGED <<configured, statusAt, asking, choice>>

SelectNext ==
    \/ AskFinds \/ AskMisses \/ AskedAll \/ List \/ ReadDefault \/ Resolve
    \/ Attributes \/ Reconfigure

SelectSpec == SelectInit /\ [][SelectNext]_selectVars

-----------------------------------------------------------------------------
\* While CUPS holds a configured queue all the time a configured queue wins,
\* however queues and default change while Status looks and whichever lpstat
\* fails; and unless the question about that very queue failed, nothing but a
\* name configured before it is selected instead of it.
PinnedWins ==
    statusAt \in {"attributes", "done"} =>
        \A i \in DOMAIN configured :
            configured[i] \in stable =>
                \E k \in DOMAIN configured :
                    /\ chosen = configured[k]
                    /\ k <= i \/ configured[i] \in failed

\* Labels go to a printer that looks like a Brother QL or that the site named:
\* an unrelated default is never silently used for labels.
LabelPrinterOnly ==
    usable => chosen \in ToSet(configured) \/ Score[chosen] > 0
=============================================================================
