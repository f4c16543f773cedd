---------------------------- MODULE Transactions ----------------------------
(***************************************************************************)
(* Transactions: how a message to the cloud gets its identifier, and how   *)
(* the cloud's reply to it becomes the status iot_transaction_status gives.*)
(*                                                                         *)
(* Any thread of the application or of the library publishes through       *)
(* iot_plugin_perform, which numbers the message and calls the tr50        *)
(* plug-in for the steps BEFORE, DURING and AFTER.  The plug-in keeps the  *)
(* status of each identifier in two bits of an array of words; the MQTT    *)
(* thread writes into the same array when a reply arrives.  Nothing locks  *)
(* the counter or the array, so every load and every store is a step.      *)
(***************************************************************************)
EXTENDS Integers, Sequences

CONSTANTS
  Callers,   \* threads that publish
  Mqtt,      \* the thread that hears the replies
  TxnMax,    \* the largest iot_transaction_t
  DataBlks,  \* statuses that fit in a word of data->transactions
  MaxCalls   \* bound on the messages published

ASSUME WidthAssumption == /\ TxnMax \in Nat \ {0}
                          /\ DataBlks \in Nat \ {0}
                          /\ (TxnMax + 1) % DataBlks = 0
                          /\ MaxCalls \in Nat
ASSUME ThreadsAssumption == Mqtt \notin Callers

Threads  == Callers \cup {Mqtt}
Ids      == 0 .. TxnMax
Chunks   == 0 .. (TxnMax + 1) \div DataBlks - 1
Items    == 0 .. DataBlks - 1
Statuses == {"UNKNOWN", "INVOKED", "FAILURE", "SUCCESS"}
Steps    == {"BEFORE", "DURING", "AFTER"}

VARIABLES
  transaction_count,  \* lib->transaction_count
  transactions,       \* data->transactions, word by word
  pc, step,           \* each thread's place, and its step of iot_plugin_perform
  call, txn,          \* its message (a place in issued) and the identifier of it
  tx_status, chunk,   \* the status it is writing and the word it has loaded
  sent, replies,      \* messages and replies on their way
  issued,             \* history: the identifiers given, in order
  heard, unsent,      \* history: the replies heard, and the messages that
                      \* could not be published
  returned,           \* history: the messages whose call is over
  raced               \* history: have two threads taken identifiers at once?

vars == <<transaction_count, transactions, pc, step, call, txn, tx_status,
          chunk, sent, replies, issued, heard, unsent, returned, raced>>

Calls == 1 .. MaxCalls
NoCall == 0
Clean == [i \in Items |-> "UNKNOWN"]

(***************************************************************************)
(* tr50_transaction_status: two bits at a place computed from the id.      *)
(***************************************************************************)
Chunk(id) == id \div DataBlks
Item(id)  == id % DataBlks
Status(id) == transactions[Chunk(id)][Item(id)]

Init ==
  /\ transaction_count = 0
  /\ transactions = [b \in Chunks |-> Clean]
  /\ pc = [t \in Threads |-> "idle"]
  /\ step = [t \in Threads |-> "BEFORE"]
  /\ call = [t \in Threads |-> NoCall]
  /\ txn = [t \in Threads |-> 0]
  /\ tx_status = [t \in Threads |-> "UNKNOWN"]
  /\ chunk = [t \in Threads |-> Clean]
  /\ sent = {} /\ replies = {} /\ issued = <<>>
  /\ heard = {} /\ unsent = {} /\ returned = {} /\ raced = FALSE

idVars    == <<transaction_count, issued, call, txn>>
tableVars == <<transactions, tx_status, chunk>>
wireVars  == <<sent, replies, heard, unsent>>

(***************************************************************************)
(* iot_plugin_perform: zero is no identifier, so the counter steps over it,*)
(* and *txn = lib->transaction_count++ is a load and a store.  The counter *)
(* that is raised from zero is loaded again or not, as the compiler likes. *)
(***************************************************************************)
\* Mutants: the counter restarts one early; it does not wrap.
NextIdShort(id) == (id + 1) % TxnMax
NextIdWide(id)  == id + 1

NextId(id) == (id + 1) % (TxnMax + 1)

Numbering(c) == pc[c] \in {"skip_zero", "load_id", "store_id"}

\* Mutant: zero is an identifier.
UseZero(c) ==
  /\ pc[c] = "idle" /\ Len(issued) < MaxCalls
  /\ pc' = [pc EXCEPT ![c] = "load_id"]
  /\ raced' = (raced \/ \E d \in Callers : Numbering(d))
  /\ UNCHANGED <<idVars, tableVars, wireVars, step, returned>>

TestZero(c) ==
  /\ pc[c] = "idle" /\ Len(issued) < MaxCalls
  /\ pc' = [pc EXCEPT ![c] = IF transaction_count = 0 THEN "skip_zero" ELSE "load_id"]
  /\ raced' = (raced \/ \E d \in Callers : Numbering(d))
  /\ UNCHANGED <<idVars, tableVars, wireVars, step, returned>>

SkipZero(c) ==
  /\ pc[c] = "skip_zero"
  /\ \E count \in {0, transaction_count} : transaction_count' = NextId(count)
  /\ pc' = [pc EXCEPT ![c] = "load_id"]
  /\ UNCHANGED <<issued, call, txn, tableVars, wireVars, step, returned, raced>>

LoadId(c) ==
  /\ pc[c] = "load_id" /\ Len(issued) < MaxCalls
  /\ txn' = [txn EXCEPT ![c] = transaction_count]
  /\ issued' = Append(issued, transaction_count)
  /\ call' = [call EXCEPT ![c] = Len(issued) + 1]
  /\ pc' = [pc EXCEPT ![c] = "store_id"]
  /\ UNCHANGED <<transaction_count, tableVars, wireVars, step, returned, raced>>

StoreId(c) ==
  /\ pc[c] = "store_id"
  /\ transaction_count' = NextId(txn[c])
  /\ pc' = [pc EXCEPT ![c] = "set"]
  /\ step' = [step EXCEPT ![c] = "BEFORE"]
  /\ tx_status' = [tx_status EXCEPT ![c] = "INVOKED"]
  /\ UNCHANGED <<issued, call, txn, transactions, chunk, wireVars, returned, raced>>

(***************************************************************************)
(* tr50_transaction_status_set: the word is loaded, its two bits replaced, *)
(* and the word stored.                                                    *)
(***************************************************************************)
\* Mutant: the first two bits, whatever the identifier.
WithStatusFirst(word, id, status) == [word EXCEPT ![0] = status]

WithStatus(word, id, status) == [word EXCEPT ![Item(id)] = status]

LoadWord(t) ==
  /\ pc[t] = "set"
  /\ chunk' = [chunk EXCEPT ![t] = transactions[Chunk(txn[t])]]
  /\ pc' = [pc EXCEPT ![t] = "store"]
  /\ UNCHANGED <<idVars, transactions, tx_status, wireVars, step, returned, raced>>

StoreWord(t) ==
  /\ pc[t] = "store"
  /\ transactions' = [transactions EXCEPT
       ![Chunk(txn[t])] = WithStatus(chunk[t], txn[t], tx_status[t])]

(***************************************************************************)
(* tr50_execute sets INVOKED at the head of every step, and only the step  *)
(* DURING publishes.  A publication that failed has set FAILURE as well,   *)
(* but the loop of iot_plugin_perform goes on to the step AFTER.           *)
(***************************************************************************)
NextStep(c) ==
  IF step[c] = "AFTER"
  THEN /\ pc' = [pc EXCEPT ![c] = "idle"]
       /\ returned' = returned \cup {call[c]}
       /\ UNCHANGED <<step, tx_status>>
  ELSE /\ pc' = [pc EXCEPT ![c] = "set"]
       /\ step' = [step EXCEPT ![c] = IF step[c] = "BEFORE" THEN "DURING" ELSE "AFTER"]
       /\ tx_status' = [tx_status EXCEPT ![c] = "INVOKED"]
       /\ UNCHANGED returned

Stored(c) ==
  /\ StoreWord(c)
  /\ IF step[c] = "DURING" /\ tx_status[c] = "INVOKED"
     THEN /\ pc' = [pc EXCEPT ![c] = "publish"]
          /\ UNCHANGED <<step, tx_status, returned>>
     ELSE NextStep(c)
  /\ UNCHANGED <<idVars, chunk, wireVars, raced>>

Publish(c) ==
  /\ pc[c] = "publish"
  /\ sent' = sent \cup {call[c]}
  /\ NextStep(c)
  /\ UNCHANGED <<idVars, transactions, chunk, replies, heard, unsent, raced>>

PublishFails(c) ==
  /\ pc[c] = "publish"
  /\ unsent' = unsent \cup {call[c]}
  /\ tx_status' = [tx_status EXCEPT ![c] = "FAILURE"]
  /\ pc' = [pc EXCEPT ![c] = "set"]
  /\ UNCHANGED <<idVars, transactions, chunk, step, sent, replies, heard, returned, raced>>

(***************************************************************************)
(* The cloud replies to a message once, with success or not, or never.     *)
(***************************************************************************)
ReplyTo(n, success) == [to |-> n, success |-> success]

Reply(n, success) ==
  /\ n \in sent
  /\ sent' = sent \ {n}
  /\ replies' = replies \cup {ReplyTo(n, success)}
  /\ UNCHANGED <<idVars, tableVars, pc, step, heard, unsent, returned, raced>>

(***************************************************************************)
(* tr50_on_message: the key of the reply is the identifier; a key of zero  *)
(* is not one.                                                             *)
(***************************************************************************)
Outcome(r) == IF r.success THEN "SUCCESS" ELSE "FAILURE"

Hear(r) ==
  /\ pc[Mqtt] = "idle" /\ r \in replies
  /\ replies' = replies \ {r}
  /\ heard' = heard \cup {r}
  /\ txn' = [txn EXCEPT ![Mqtt] = issued[r.to]]
  /\ tx_status' = [tx_status EXCEPT ![Mqtt] = Outcome(r)]
  /\ pc' = [pc EXCEPT ![Mqtt] = IF issued[r.to] > 0 THEN "set" ELSE "idle"]
  /\ UNCHANGED <<transaction_count, issued, call, transactions, chunk, sent,
                 unsent, step, returned, raced>>

Heard ==
  /\ StoreWord(Mqtt)
  /\ pc' = [pc EXCEPT ![Mqtt] = "idle"]
  /\ UNCHANGED <<idVars, tx_status, chunk, wireVars, step, returned, raced>>

Perform(c) == \/ TestZero(c) \/ SkipZero(c) \/ LoadId(c) \/ StoreId(c)
              \/ Stored(c) \/ Publish(c) \/ PublishFails(c)

Next == \/ \E c \in Callers : Perform(c)
        \/ \E t \in Threads : LoadWord(t)
        \/ \E n \in Calls, b \in BOOLEAN : Reply(n, b)
        \/ \E r \in replies : Hear(r)
        \/ Heard

Spec == Init /\ [][Next]_vars

-----------------------------------------------------------------------------
(***************************************************************************)
(* Properties.                                                             *)
(***************************************************************************)

\* Every variable has its type, and no identifier leaves the array of words.
TypeOK ==
  /\ transaction_count \in Ids
  /\ transactions \in [Chunks -> [Items -> Statuses]]
  /\ pc \in [Threads -> {"idle", "skip_zero", "load_id", "store_id", "set", "store",
                         "publish"}]
  /\ step \in [Threads -> Steps]
  /\ call \in [Threads -> 0 .. Len(issued)]
  /\ txn \in [Threads -> Ids]
  /\ tx_status \in [Threads -> Statuses]
  /\ chunk \in [Threads -> [Items -> Statuses]]
  /\ issued \in Seq(Ids) /\ Len(issued) <= MaxCalls
  /\ sent \subseteq 1 .. Len(issued)
  /\ replies \subseteq [to : 1 .. Len(issued), success : BOOLEAN]
  /\ heard \subseteq [to : 1 .. Len(issued), success : BOOLEAN]
  /\ unsent \subseteq 1 .. Len(issued)
  /\ returned \subseteq 0 .. Len(issued)
  /\ raced \in BOOLEAN

\* What is recorded of an identifier was so of a message with that
\* identifier: INVOKED that it was numbered, FAILURE that it could not be
\* published or the cloud refused it, SUCCESS that the cloud accepted it.  The
\* loads and stores of several threads in one word lose statuses
\* (tr50_transaction_status_set), but never move one to another identifier.
Caused(id, status) ==
  status # "UNKNOWN" =>
    \E n \in 1 .. Len(issued) :
      /\ issued[n] = id
      /\ status = "FAILURE" => n \in unsent \/ ReplyTo(n, FALSE) \in heard
      /\ status = "SUCCESS" => ReplyTo(n, TRUE) \in heard
StatusHasCause == \A id \in Ids : Caused(id, Status(id))

\* A message with identifier 0 would never have its reply recorded
\* (tr50_on_message wants msg_id > 0): as long as no two threads take
\* identifiers at once no message gets it, also after the 8-bit counter has
\* wrapped (iot_plugin_perform).
NoDeafId == ~ raced => \A n \in 1 .. Len(issued) : issued[n] # 0

\* As long as no two threads take identifiers at once, TxnMax messages in a row
\* have identifiers of their own, whichever threads publish them
\* (iot_plugin_perform).
IdsDistinct ==
  ~ raced => \A m, n \in 1 .. Len(issued) :
    m < n /\ issued[m] = issued[n] => n - m >= TxnMax

Quiet == \A t \in Threads : pc[t] = "idle"

\* Once the call is over and the reply to the message has been heard, the
\* status of its identifier is that reply, if no other message shares the
\* identifier (iot_transaction_status).
AnswerKept ==
  Quiet => \A n \in returned \ {NoCall} :
    (\A m \in 1 .. Len(issued) : m # n => issued[m] # issued[n])
    => \A r \in heard : r.to = n => Status(issued[n]) = Outcome(r)

\* Once the call is over, the status of its identifier is SUCCESS only if the
\* cloud returned success for that very message (iot_transaction_status).
StatusIsOwn ==
  Quiet => \A n \in returned \ {NoCall} :
    Status(issued[n]) = "SUCCESS" => ReplyTo(n, TRUE) \in heard
=============================================================================
