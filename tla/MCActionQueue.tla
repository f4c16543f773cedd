--------------------------- MODULE MCActionQueue ---------------------------
(***************************************************************************)
(* Instances of ActionQueue for TLC: an ordinary request, one for an        *)
(* exclusive action and one that names no action of the application.       *)
(***************************************************************************)
EXTENDS ActionQueue

CONSTANTS plain, exclusive, unknown

MCRequests   == {plain, exclusive, unknown}
MCRegistered == {plain, exclusive}
MCExclusive  == {exclusive}
MCResults    == {"SUCCESS"}
=============================================================================
