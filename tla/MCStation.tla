----------------------------- MODULE MCStation -----------------------------
(***************************************************************************)
(* The parts of the station that share no state with another, next to each  *)
(* other: a behaviour is one of a single part, chosen at the start, while    *)
(* the others stay as they are when nothing uses them.                      *)
(***************************************************************************)
EXTENDS QueueWatch, MCPrinterSelect, ScaleLine, Scanner, RasterJob, FrameReader,
        HubLog, NetAdmin

VARIABLE part

stationVars == <<part, watchVars, selectVars, lineVars, scannerVars, rasterVars,
                 frameVars, logVars, netVars>>

\* What a reader types: a shifted character, one that is not, and Enter.
TypedScan == <<"shift", "key", "unshift", "key", "up", "enter">>

\* No profile, one, or two of whatever names.
TwoProfiles == {{}} \cup {{p, q} : p, q \in Profiles}

Parts == {"watch", "select", "line", "scanner", "raster", "frames", "log", "net"}

\* One initial state of each part that the behaviour is not about.
Idle ==
    /\ IF part = "select" THEN TRUE
       ELSE dests = <<>> /\ default = NoQueue /\ configured = <<pinned>>
    /\ IF part = "line" THEN TRUE ELSE load = CHOOSE l \in Loads : TRUE
    /\ IF part = "raster" THEN TRUE
       ELSE /\ images = << <<CHOOSE row \in Rows : TRUE>> >>
            /\ opts = [cut |-> TRUE, nocheck |-> FALSE]
    /\ IF part = "frames" THEN TRUE ELSE sent = [i \in 1 .. StreamLength |-> Head1]
    /\ IF part = "net" THEN TRUE ELSE saved = {} /\ wanted = <<Colon>>

StationInit ==
    /\ part \in Parts
    /\ Idle
    /\ WatchInit /\ SelectInit /\ LineInit /\ ScannerInit
    /\ RasterInit /\ FrameInit /\ LogInit /\ NetInit

StationNext ==
    \/ part = "watch" /\ WatchNext
       /\ UNCHANGED <<part, selectVars, lineVars, scannerVars, rasterVars, frameVars,
                      logVars, netVars>>
    \/ part = "select" /\ SelectNext
       /\ UNCHANGED <<part, watchVars, lineVars, scannerVars, rasterVars, frameVars,
                      logVars, netVars>>
    \/ part = "line" /\ LineNext
       /\ UNCHANGED <<part, watchVars, selectVars, scannerVars, rasterVars, frameVars,
                      logVars, netVars>>
    \/ part = "scanner" /\ ScannerNext
       /\ UNCHANGED <<part, watchVars, selectVars, lineVars, rasterVars, frameVars,
                      logVars, netVars>>
    \/ part = "raster" /\ RasterNext
       /\ UNCHANGED <<part, watchVars, selectVars, lineVars, scannerVars, frameVars,
                      logVars, netVars>>
    \/ part = "frames" /\ FrameNext
       /\ UNCHANGED <<part, watchVars, selectVars, lineVars, scannerVars, rasterVars,
                      logVars, netVars>>
    \/ part = "log" /\ LogNext
       /\ UNCHANGED <<part, watchVars, selectVars, lineVars, scannerVars, rasterVars,
                      frameVars, netVars>>
    \/ part = "net" /\ NetNext
       /\ UNCHANGED <<part, watchVars, selectVars, lineVars, scannerVars, rasterVars,
                      frameVars, logVars>>

\* A part that nothing uses owes no step, so that its fairness holds by itself.
StationSpec ==
    /\ StationInit /\ [][StationNext]_stationVars
    /\ WatchFairness /\ ScannerFairness

StationTypeOK ==
    /\ part \in Parts
    /\ WatchTypeOK /\ SelectTypeOK /\ LineTypeOK /\ ScannerTypeOK
    /\ RasterTypeOK /\ FrameTypeOK /\ LogTypeOK /\ NetTypeOK
=============================================================================
