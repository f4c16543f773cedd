----------------------------- MODULE MCMailbox -----------------------------
(***************************************************************************)
(* Instances of Mailbox for TLC: more requests than records, two workers.   *)
(***************************************************************************)
EXTENDS Mailbox

CONSTANTS mail1, mail2, mail3, worker1, worker2

MCMails   == {mail1, mail2, mail3}
MCWorkers == {worker1, worker2}
=============================================================================
