--------------------------- MODULE MCLinkMonitor ---------------------------
(* Either library, a ping and an attempt each tick, one outage, one late      *)
(* answer.                                                                   *)
EXTENDS LinkMonitor
=============================================================================
