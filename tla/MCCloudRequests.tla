--------------------------- MODULE MCCloudRequests ---------------------------
(***************************************************************************)
(* Values for CloudRequests: two threads that publish, identifiers of two  *)
(* bits, two to a word, so that the counter wraps and two messages share a *)
(* word; two downloads and the upload of an archive, which take turns at   *)
(* the places of an array.                                                 *)
(***************************************************************************)
EXTENDS CloudRequests

CONSTANTS c1, c2, down1, down2, tar

MCOneCaller  == {c1}
MCTwoCallers == {c1, c2}
MCTransfers  == {down1, down2, tar}
MCUploads    == {tar}

(* Bounds: from the third message on, by when the counter is about to wrap,  *)
(* only behaviours in which the numbering is undisturbed and no reply has    *)
(* come; once the array is no stack any more, two transfers.                 *)
LateMessages == Len(issued) > 2 => ~ raced /\ heard = {} /\ replies = {}
Disturbances == disturbed => Cardinality({f \in Transfers : ~ Fresh(f)}) <= 2
Bounds == LateMessages /\ Disturbances
=============================================================================
