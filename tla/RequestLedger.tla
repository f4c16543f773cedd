---------------------------- MODULE RequestLedger ----------------------------
(***************************************************************************)
(* What the library promises of the action requests it receives, without   *)
(* threads, locks or records: a ledger with a line for each request.       *)
(***************************************************************************)
EXTENDS Naturals, Sequences, FiniteSets

CONSTANTS
  Requests,      \* the requests the cloud may send
  Registered,    \* those that name an action of the application
  Exclusive,     \* those whose action tolerates no other beside it
  Results,       \* what an action may return
  Capacity,      \* requests the library holds at a time
  MemoryFails    \* may a request be refused for lack of memory?

VARIABLES
  stage,         \* how far each request has come
  order,         \* the queued requests, oldest first
  verdict,       \* what is to be reported of a finished request
  outcome,       \* what was reported of each request
  used           \* places in use

vars == <<stage, order, verdict, outcome, used>>

Init ==
  /\ stage = [r \in Requests |-> "inbox"]
  /\ order = <<>>
  /\ verdict = [r \in Requests |-> "none"]
  /\ outcome = [r \in Requests |-> <<>>]
  /\ used = 0

Advance(r, from, to) == /\ stage[r] = from
                        /\ stage' = [stage EXCEPT ![r] = to]

Accept(r) ==
  /\ Advance(r, "inbox", "accepted")
  /\ used < Capacity
  /\ used' = used + 1
  /\ UNCHANGED <<order, verdict, outcome>>

Refuse(r) ==
  /\ Advance(r, "inbox", "refused")
  /\ used = Capacity \/ MemoryFails
  /\ UNCHANGED <<order, verdict, outcome, used>>

Queue(r) ==
  /\ Advance(r, "accepted", "queued")
  /\ order' = Append(order, r)
  /\ UNCHANGED <<verdict, outcome, used>>

Take ==
  /\ order # <<>>
  /\ Advance(Head(order), "queued", "taken")
  /\ order' = Tail(order)
  /\ UNCHANGED <<verdict, outcome, used>>

Running == {r \in Requests : stage[r] = "running"}

Run(r) ==
  /\ r \in Registered
  /\ Running # {} => r \notin Exclusive /\ Running \cap Exclusive = {}
  /\ Advance(r, "taken", "running")
  /\ UNCHANGED <<order, verdict, outcome, used>>

Finish(r, result) ==
  /\ Advance(r, "running", "finished")
  /\ verdict' = [verdict EXCEPT ![r] = result]
  /\ UNCHANGED <<order, outcome, used>>

(* Not executed: the action is unknown, or the library is about to quit.   *)
Skip(r) ==
  /\ Advance(r, "taken", "finished")
  /\ verdict' = [verdict EXCEPT ![r] = "NOT_FOUND"]
  /\ UNCHANGED <<order, outcome, used>>

Report(r) ==
  /\ Advance(r, "finished", "reported")
  /\ outcome' = [outcome EXCEPT ![r] = <<verdict[r]>>]
  /\ verdict' = [verdict EXCEPT ![r] = "none"]
  /\ UNCHANGED <<order, used>>

(* A place is given back, once for each request reported.                  *)
Unreported == {r \in Requests : stage[r] \notin {"inbox", "refused", "reported"}}
Release ==
  /\ used > Cardinality(Unreported)
  /\ used' = used - 1
  /\ UNCHANGED <<stage, order, verdict, outcome>>

Next ==
  \/ \E r \in Requests : \/ Accept(r) \/ Refuse(r) \/ Queue(r) \/ Run(r)
                         \/ Skip(r) \/ Report(r)
                         \/ \E result \in Results : Finish(r, result)
  \/ Take
  \/ Release

Spec == Init /\ [][Next]_vars
=============================================================================
