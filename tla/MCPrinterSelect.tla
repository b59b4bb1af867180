-------------------------- MODULE MCPrinterSelect --------------------------
EXTENDS PrinterSelect, TLC

CONSTANTS ql, pinned, laser  \* queues: a known model, a QL, another printer

QueueScores == (ql :> 300) @@ (pinned :> 100) @@ (laser :> 0)

\* Sites that name queues, which CUPS may hold or not.
SiteConfigs == {<<pinned>>, <<pinned, laser>>, <<laser, ql>>}

\* The default configuration names none.
DefaultConfigs == {<<>>}
=============================================================================
