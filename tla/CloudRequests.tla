---------------------------- MODULE CloudRequests ----------------------------
(***************************************************************************)
(* What the tr50 plug-in asks of the cloud and matches with replies, one   *)
(* kind in each behaviour: the messages with their identifiers (module     *)
(* Transactions) and the file transfers with their places in an array      *)
(* (FileTransfers).  The two have their identifiers apart and share no     *)
(* state; a behaviour of one of them is followed with the other in its     *)
(* initial state.                                                          *)
(***************************************************************************)
EXTENDS Transactions, FileTransfers

VARIABLE part

cloudVars == <<part, vars, fileVars>>

CloudInit == part \in {"messages", "files"} /\ Init /\ FileInit

CloudNext ==
  /\ UNCHANGED part
  /\ \/ part = "messages" /\ Next /\ UNCHANGED fileVars
     \/ part = "files" /\ FileNext /\ UNCHANGED vars

CloudSpec == CloudInit /\ [][CloudNext]_cloudVars
=============================================================================
