------------------------- MODULE Transactions_proofs -------------------------
(***************************************************************************)
(* Proofs about Transactions, for any number of publishing threads and any *)
(* width of the identifiers and of the words.                              *)
(***************************************************************************)
EXTENDS Transactions, TLAPS

\* An identifier is found again from its word and its place in the word
\* (the shift and the mask of tr50_transaction_status_set).
LEMMA Division ==
  ASSUME NEW id \in Nat
  PROVE  /\ Chunk(id) \in Nat
         /\ Item(id) \in 0 .. DataBlks - 1
         /\ id = DataBlks * Chunk(id) + Item(id)
  BY WidthAssumption, SMT DEF Chunk, Item

LEMMA Cancel ==
  ASSUME NEW d \in Nat \ {0}, NEW x \in Nat, NEW y \in Nat, d * x < d * y
  PROVE  x < y
<1> SUFFICES ASSUME x >= y PROVE FALSE
  BY SMT
<1>1. PICK k \in Nat : x = y + k
  <2>1. x - y \in Nat /\ x = y + (x - y)
    BY SMT
  <2>2. QED
    BY <2>1
<1>2. d * x = d * y + d * k /\ d * k >= 0 /\ d * y \in Nat
  BY <1>1, SMT
<1>3. QED
  BY <1>2, SMT

LEMMA InTheArray ==
  ASSUME NEW id \in Ids
  PROVE  Chunk(id) \in Chunks /\ Item(id) \in Items
<1> DEFINE q == (TxnMax + 1) \div DataBlks
<1>1. TxnMax + 1 = DataBlks * q /\ q \in Nat
  BY WidthAssumption, SMT
<1>2. id \in Nat /\ id < TxnMax + 1
  BY WidthAssumption DEF Ids
<1>3. Chunk(id) < q
  <2> HIDE DEF q
  <2>1. DataBlks * Chunk(id) < DataBlks * q
    BY <1>1, <1>2, Division, WidthAssumption
  <2>2. QED
    BY <2>1, <1>1, <1>2, Division, WidthAssumption, Cancel
<1>4. QED
  BY <1>1, <1>2, <1>3, Division DEF Chunks, Items

LEMMA OnePlace ==
  ASSUME NEW a \in Ids, NEW b \in Ids, Chunk(a) = Chunk(b), Item(a) = Item(b)
  PROVE  a = b
<1>1. a \in Nat /\ b \in Nat
  BY WidthAssumption DEF Ids
<1>2. QED
  BY <1>1, Division

-----------------------------------------------------------------------------
(***************************************************************************)
(* The invariant.  A status travels from a message to tx_status, to the    *)
(* word a thread has loaded, and to the array: what is true of the array   *)
(* is only inductive together with what is true on the way.                *)
(***************************************************************************)
CallInv ==
  \A c \in Callers : pc[c] \in {"store_id", "set", "store", "publish"} =>
    call[c] \in 1 .. Len(issued) /\ issued[call[c]] = txn[c]

WritingHasCause ==
  \A t \in Threads : pc[t] \in {"set", "store"} => Caused(txn[t], tx_status[t])

LoadedHasCause ==
  \A t \in Threads : pc[t] = "store" =>
    \A id \in Ids : Chunk(id) = Chunk(txn[t]) => Caused(id, chunk[t][Item(id)])

IInv == TypeOK /\ CallInv /\ WritingHasCause /\ LoadedHasCause /\ StatusHasCause

LEMMA Numbers == /\ 0 \in Ids /\ MaxCalls \in Nat
                 /\ \A id \in Ids : NextId(id) \in Ids
<1>1. \A id \in Ids : (id + 1) % (TxnMax + 1) \in 0 .. TxnMax
  BY WidthAssumption, SMT DEF Ids
<1>2. QED
  BY <1>1, WidthAssumption DEF Ids, NextId

LEMMA InitInv == Init => IInv
<1> SUFFICES ASSUME Init PROVE IInv
  OBVIOUS
<1>1. \A id \in Ids : Status(id) = "UNKNOWN"
  BY InTheArray DEF Init, Status, Clean
<1>2. TypeOK
  <2>1. /\ transaction_count \in Ids /\ transactions \in [Chunks -> [Items -> Statuses]]
        /\ chunk \in [Threads -> [Items -> Statuses]]
    <3>1. Clean \in [Items -> Statuses]
      BY DEF Clean, Statuses
    <3>2. QED
      BY Numbers, <3>1 DEF Init
  <2>2. issued \in Seq(Ids) /\ Len(issued) = 0 /\ Len(issued) <= MaxCalls /\ raced \in BOOLEAN
    <3>1. issued = <<>> /\ raced = FALSE
      BY DEF Init
    <3>2. <<>> \in Seq(Ids) /\ Len(<<>>) = 0
      OBVIOUS
    <3>3. 0 <= MaxCalls
      BY Numbers
    <3>4. QED
      BY <3>1, <3>2, <3>3
  <2>3. /\ pc \in [Threads -> {"idle", "skip_zero", "load_id", "store_id", "set", "store",
                             "publish"}]
        /\ step \in [Threads -> Steps] /\ tx_status \in [Threads -> Statuses]
        /\ txn \in [Threads -> Ids] /\ call \in [Threads -> 0 .. 0]
    BY Numbers DEF Init, Statuses, Steps, NoCall
  <2>4. sent = {} /\ replies = {} /\ heard = {} /\ unsent = {} /\ returned = {}
    BY DEF Init
  <2>5. QED
    BY <2>1, <2>2, <2>3, <2>4 DEF TypeOK
<1>3. CallInv /\ WritingHasCause /\ LoadedHasCause /\ StatusHasCause
  BY <1>1 DEF Init, CallInv, WritingHasCause, LoadedHasCause, StatusHasCause, Caused, Threads
<1>4. QED
  BY <1>2, <1>3 DEF IInv

\* The two steps that write a status to the array keep its type.
LEMMA StoreTypes ==
  ASSUME TypeOK, NEW t \in Threads, StoreWord(t)
  PROVE  transactions' \in [Chunks -> [Items -> Statuses]]
<1>1. txn[t] \in Ids /\ tx_status[t] \in Statuses /\ chunk[t] \in [Items -> Statuses]
  BY DEF TypeOK
<1>2. Item(txn[t]) \in Items /\ Chunk(txn[t]) \in Chunks
  BY <1>1, InTheArray
<1>3. WithStatus(chunk[t], txn[t], tx_status[t]) \in [Items -> Statuses]
  BY <1>1, <1>2 DEF WithStatus
<1>4. QED
  BY <1>2, <1>3 DEF StoreWord, TypeOK

LEMMA NextStepTypes ==
  ASSUME TypeOK, NEW c \in Callers, NextStep(c),
         call[c] \in 0 .. Len(issued)
  PROVE  /\ pc' \in [Threads -> {"idle", "skip_zero", "load_id", "store_id", "set",
                                  "store", "publish"}]
         /\ step' \in [Threads -> Steps]
         /\ tx_status' \in [Threads -> Statuses]
         /\ returned' \subseteq 0 .. Len(issued)
  BY DEF NextStep, TypeOK, Threads, Steps, Statuses

LEMMA TypeStep == IInv /\ [Next]_vars => TypeOK'
<1>a. SUFFICES ASSUME IInv, [Next]_vars PROVE TypeOK'
  OBVIOUS
<1>b. TypeOK /\ CallInv
  BY <1>a DEF IInv
<1>1. ASSUME NEW c \in Callers, TestZero(c) PROVE TypeOK'
  BY <1>b, <1>1 DEF TypeOK, TestZero, Threads, idVars, tableVars, wireVars
<1>2. ASSUME NEW c \in Callers, SkipZero(c) PROVE TypeOK'
  <2>1. transaction_count' \in Ids
    BY <1>b, <1>2, Numbers DEF SkipZero, TypeOK
  <2>2. QED
    BY <2>1, <1>b, <1>2 DEF TypeOK, SkipZero, Threads, tableVars, wireVars
<1>3. ASSUME NEW c \in Callers, LoadId(c) PROVE TypeOK'
  <2>1. /\ issued' \in Seq(Ids) /\ Len(issued') = Len(issued) + 1
        /\ Len(issued) \in Nat /\ Len(issued') <= MaxCalls
    BY <1>b, <1>3, Numbers DEF LoadId, TypeOK
  <2>2. call' \in [Threads -> 0 .. Len(issued')]
    BY <2>1, <1>b, <1>3 DEF LoadId, TypeOK, Threads
  <2>3. 1 .. Len(issued) \subseteq 1 .. Len(issued') /\ 0 .. Len(issued) \subseteq 0 .. Len(issued')
    BY <2>1
  <2>4. /\ sent' \subseteq 1 .. Len(issued') /\ unsent' \subseteq 1 .. Len(issued')
        /\ returned' \subseteq 0 .. Len(issued')
        /\ replies' \subseteq [to : 1 .. Len(issued'), success : BOOLEAN]
        /\ heard' \subseteq [to : 1 .. Len(issued'), success : BOOLEAN]
    <3>1. [to : 1 .. Len(issued), success : BOOLEAN]
            \subseteq [to : 1 .. Len(issued'), success : BOOLEAN]
      BY <2>3
    <3>2. QED
      BY <3>1, <2>3, <1>b, <1>3 DEF LoadId, TypeOK, wireVars
  <2>5. QED
    BY <2>1, <2>2, <2>4, <1>b, <1>3 DEF TypeOK, LoadId, Threads, tableVars
<1>4. ASSUME NEW c \in Callers, StoreId(c) PROVE TypeOK'
  <2>1. transaction_count' \in Ids
    BY <1>b, <1>4, Numbers DEF StoreId, TypeOK, Threads
  <2>2. QED
    BY <2>1, <1>b, <1>4 DEF TypeOK, StoreId, Threads, wireVars, Statuses, Steps
<1>5. ASSUME NEW c \in Callers, Stored(c) PROVE TypeOK'
  <2>1. c \in Threads /\ StoreWord(c) /\ call[c] \in 0 .. Len(issued)
    BY <1>b, <1>5 DEF Threads, Stored, TypeOK
  <2>2. transactions' \in [Chunks -> [Items -> Statuses]]
    BY <2>1, <1>b, StoreTypes
  <2>3. CASE NextStep(c)
    BY <2>1, <2>2, <2>3, <1>b, <1>5, NextStepTypes DEF TypeOK, Stored, idVars, wireVars
  <2>4. CASE /\ pc' = [pc EXCEPT ![c] = "publish"]
             /\ UNCHANGED <<step, tx_status, returned>>
    BY <2>1, <2>2, <2>4, <1>b, <1>5 DEF TypeOK, Stored, idVars, wireVars
  <2>5. QED
    BY <2>3, <2>4, <1>5 DEF Stored
<1>6. ASSUME NEW c \in Callers, Publish(c) PROVE TypeOK'
  <2>1. call[c] \in 1 .. Len(issued) /\ call[c] \in 0 .. Len(issued)
    BY <1>b, <1>6 DEF Publish, CallInv, TypeOK, Threads
  <2>2. NextStep(c) /\ sent' \subseteq 1 .. Len(issued)
    BY <2>1, <1>b, <1>6 DEF Publish, TypeOK
  <2>3. QED
    BY <2>1, <2>2, <1>b, <1>6, NextStepTypes DEF TypeOK, Publish, idVars
<1>7. ASSUME NEW c \in Callers, PublishFails(c) PROVE TypeOK'
  <2>1. call[c] \in 1 .. Len(issued)
    BY <1>b, <1>7 DEF PublishFails, CallInv
  <2>2. QED
    BY <2>1, <1>b, <1>7 DEF TypeOK, PublishFails, Threads, idVars, Statuses
<1>8. ASSUME NEW t \in Threads, LoadWord(t) PROVE TypeOK'
  <2>1. transactions[Chunk(txn[t])] \in [Items -> Statuses]
    BY <1>b, <1>8, InTheArray DEF TypeOK
  <2>2. QED
    BY <2>1, <1>b, <1>8 DEF TypeOK, LoadWord, idVars, wireVars
<1>9. ASSUME NEW n \in Calls, NEW b \in BOOLEAN, Reply(n, b) PROVE TypeOK'
  BY <1>b, <1>9 DEF TypeOK, Reply, ReplyTo, idVars, tableVars
<1>10. ASSUME NEW r \in replies, Hear(r) PROVE TypeOK'
  <2>1. r \in [to : 1 .. Len(issued), success : BOOLEAN] /\ issued[r.to] \in Ids
    BY <1>b, <1>10 DEF TypeOK
  <2>2. Outcome(r) \in Statuses /\ Mqtt \in Threads
    BY DEF Outcome, Statuses, Threads
  <2>3. QED
    BY <2>1, <2>2, <1>b, <1>10 DEF TypeOK, Hear
<1>11. ASSUME Heard PROVE TypeOK'
  <2>1. transactions' \in [Chunks -> [Items -> Statuses]]
    BY <1>b, <1>11, StoreTypes DEF Heard, Threads
  <2>2. QED
    BY <2>1, <1>b, <1>11 DEF TypeOK, Heard, Threads, idVars, wireVars
<1>12. ASSUME UNCHANGED vars PROVE TypeOK'
  BY <1>b, <1>12 DEF TypeOK, vars
<1>13. QED
  BY <1>a, <1>1, <1>2, <1>3, <1>4, <1>5, <1>6, <1>7, <1>8, <1>9, <1>10, <1>11, <1>12
     DEF Next, Perform

\* Histories only grow, so a cause stays a cause.
LEMMA HistoryGrows ==
  ASSUME TypeOK, [Next]_vars
  PROVE  /\ heard \subseteq heard' /\ unsent \subseteq unsent'
         /\ 1 .. Len(issued) \subseteq 1 .. Len(issued')
         /\ \A n \in 1 .. Len(issued) : issued'[n] = issued[n]
<1>1. ASSUME NEW c \in Callers, LoadId(c)
      PROVE  /\ 1 .. Len(issued) \subseteq 1 .. Len(issued')
             /\ \A n \in 1 .. Len(issued) : issued'[n] = issued[n]
  BY <1>1, Numbers DEF LoadId, TypeOK
<1>2. \/ issued' = issued
      \/ \E c \in Callers : LoadId(c)
  BY DEF Next, Perform, vars, TestZero, SkipZero, StoreId, LoadWord, Stored, Publish,
         PublishFails, Reply, Hear, Heard, idVars
<1>3. heard \subseteq heard'
  BY DEF Next, Perform, vars, TestZero, SkipZero, LoadId, StoreId, LoadWord, Stored,
         Publish, PublishFails, Reply, Hear, Heard, wireVars
<1>4. unsent \subseteq unsent'
  BY DEF Next, Perform, vars, TestZero, SkipZero, LoadId, StoreId, LoadWord, Stored,
         Publish, PublishFails, Reply, Hear, Heard, wireVars
<1>5. QED
  BY <1>1, <1>2, <1>3, <1>4

LEMMA CauseKept ==
  ASSUME TypeOK, [Next]_vars, NEW id, NEW status, Caused(id, status)
  PROVE  Caused(id, status)'
  BY HistoryGrows DEF Caused

\* A step that writes a word leaves every status of the array with a cause:
\* those it has loaded have one, and so has the one it puts in.
LEMMA StoreHasCause ==
  ASSUME IInv, [Next]_vars, NEW t \in Threads, StoreWord(t)
  PROVE  StatusHasCause'
<1>1. txn[t] \in Ids /\ tx_status[t] \in Statuses /\ chunk[t] \in [Items -> Statuses]
  BY DEF IInv, TypeOK
<1>2. SUFFICES ASSUME NEW id \in Ids, NEW s, s = Status(id)' PROVE Caused(id, s)'
  BY DEF StatusHasCause, Caused
<1>3. Chunk(id) \in Chunks /\ Item(id) \in Items /\ Item(txn[t]) \in Items
      /\ Chunk(txn[t]) \in Chunks
  BY <1>1, InTheArray
<1>4. TypeOK
  BY DEF IInv
<1>5. CASE Chunk(id) # Chunk(txn[t])
  <2>1. Status(id)' = Status(id)
    BY <1>3, <1>4, <1>5 DEF StoreWord, Status, TypeOK
  <2>2. Caused(id, Status(id))
    BY DEF IInv, StatusHasCause
  <2>3. Caused(id, s)
    BY <2>1, <2>2, <1>2
  <2>4. QED
    BY <2>3, <1>4, CauseKept
<1>6. CASE Chunk(id) = Chunk(txn[t]) /\ Item(id) # Item(txn[t])
  <2>1. Status(id)' = chunk[t][Item(id)]
    BY <1>1, <1>3, <1>4, <1>6 DEF StoreWord, WithStatus, Status, TypeOK
  <2>2. Caused(id, chunk[t][Item(id)])
    BY <1>6 DEF IInv, LoadedHasCause, StoreWord
  <2>3. Caused(id, s)
    BY <2>1, <2>2, <1>2
  <2>4. QED
    BY <2>3, <1>4, CauseKept
<1>7. CASE Chunk(id) = Chunk(txn[t]) /\ Item(id) = Item(txn[t])
  <2>1. id = txn[t]
    BY <1>1, <1>7, OnePlace
  <2>2. Status(id)' = tx_status[t]
    BY <1>1, <1>3, <1>4, <1>7 DEF StoreWord, WithStatus, Status, TypeOK
  <2>3. Caused(id, tx_status[t])
    BY <2>1 DEF IInv, WritingHasCause, StoreWord
  <2>4. Caused(id, s)
    BY <2>2, <2>3, <1>2
  <2>5. QED
    BY <2>4, <1>4, CauseKept
<1>8. QED
  BY <1>5, <1>6, <1>7

LEMMA ArrayStep == IInv /\ [Next]_vars => StatusHasCause'
<1>a. SUFFICES ASSUME IInv, [Next]_vars PROVE StatusHasCause'
  OBVIOUS
<1>b. TypeOK /\ StatusHasCause
  BY <1>a DEF IInv
<1>1. CASE transactions' = transactions
  <2>1. ASSUME NEW id \in Ids PROVE Caused(id, Status(id))'
    <3>1. PICK s : s = Status(id) /\ s = Status(id)'
      BY <1>1 DEF Status
    <3>2. Caused(id, s)
      BY <1>b, <3>1 DEF StatusHasCause
    <3>3. Caused(id, s)'
      BY <1>a, <1>b, <3>2, CauseKept
    <3>4. QED
      BY <3>1, <3>3 DEF Caused
  <2>2. QED
    BY <2>1 DEF StatusHasCause
<1>2. CASE \E t \in Threads : StoreWord(t)
  BY <1>a, <1>2, StoreHasCause
<1>3. QED
  BY <1>a, <1>1, <1>2 DEF Next, Perform, vars, TestZero, SkipZero, LoadId, StoreId,
       LoadWord, Stored, Publish, PublishFails, Reply, Hear, Heard, tableVars, Threads

LEMMA LoadedStep == IInv /\ [Next]_vars => LoadedHasCause'
<1>a. SUFFICES ASSUME IInv, [Next]_vars PROVE LoadedHasCause'
  OBVIOUS
<1>b. TypeOK /\ StatusHasCause /\ LoadedHasCause
  BY <1>a DEF IInv
<1>c. SUFFICES ASSUME NEW t \in Threads, pc'[t] = "store",
                      NEW id \in Ids, Chunk(id) = Chunk(txn'[t])
               PROVE  Caused(id, chunk[t][Item(id)])'
  BY DEF LoadedHasCause
<1>d. SUFFICES ASSUME NEW s, s = chunk'[t][Item(id)] PROVE Caused(id, s)'
  BY DEF Caused
<1>1. CASE LoadWord(t)
  <2>1. chunk'[t][Item(id)] = Status(id)
    BY <1>b, <1>c, <1>1 DEF LoadWord, TypeOK, Status, idVars
  <2>2. Caused(id, Status(id))
    BY <1>b DEF StatusHasCause
  <2>3. Caused(id, s)
    BY <2>1, <2>2, <1>d
  <2>4. QED
    BY <2>3, <1>a, <1>b, CauseKept
<1>2. CASE pc[t] = "store" /\ txn'[t] = txn[t] /\ chunk'[t] = chunk[t]
  <2>1. Caused(id, chunk[t][Item(id)])
    BY <1>b, <1>c, <1>2 DEF LoadedHasCause
  <2>2. Caused(id, s)
    BY <2>1, <1>2, <1>d
  <2>3. QED
    BY <2>2, <1>a, <1>b, CauseKept
<1>3. \/ LoadWord(t)
      \/ pc[t] = "store" /\ txn'[t] = txn[t] /\ chunk'[t] = chunk[t]
  <2>1. ASSUME NEW c \in Callers, Perform(c)
        PROVE  pc[t] = "store" /\ txn'[t] = txn[t] /\ chunk'[t] = chunk[t]
    BY <1>b, <1>c, <2>1 DEF Perform, TypeOK, TestZero, SkipZero, LoadId, StoreId, Stored,
         NextStep, Publish, PublishFails, idVars, tableVars, Threads
  <2>2. ASSUME NEW u \in Threads, LoadWord(u), u # t
        PROVE  pc[t] = "store" /\ txn'[t] = txn[t] /\ chunk'[t] = chunk[t]
    BY <1>b, <1>c, <2>2 DEF LoadWord, TypeOK, idVars
  <2>3. ASSUME NEW r \in replies, Hear(r)
        PROVE  pc[t] = "store" /\ txn'[t] = txn[t] /\ chunk'[t] = chunk[t]
    BY <1>b, <1>c, <2>3 DEF Hear, TypeOK
  <2>4. ASSUME Heard
        PROVE  pc[t] = "store" /\ txn'[t] = txn[t] /\ chunk'[t] = chunk[t]
    BY <1>b, <1>c, <2>4 DEF Heard, TypeOK, idVars
  <2>5. QED
    BY <1>a, <1>c, <2>1, <2>2, <2>3, <2>4 DEF Next, Reply, vars, idVars, tableVars
<1>4. QED
  BY <1>1, <1>2, <1>3

LEMMA CallStep == IInv /\ [Next]_vars => CallInv'
<1>a. SUFFICES ASSUME IInv, [Next]_vars PROVE CallInv'
  OBVIOUS
<1>b. TypeOK /\ CallInv
  BY <1>a DEF IInv
<1>c. SUFFICES ASSUME NEW c \in Callers, pc'[c] \in {"store_id", "set", "store", "publish"}
               PROVE  call'[c] \in 1 .. Len(issued') /\ issued'[call'[c]] = txn'[c]
  BY DEF CallInv
<1>1. CASE LoadId(c)
  <2>1. c \in Threads /\ Len(issued) \in Nat
    BY <1>b DEF TypeOK, Threads
  <2>2. call'[c] = Len(issued) + 1 /\ txn'[c] = transaction_count
    BY <1>b, <1>1, <2>1 DEF LoadId, TypeOK
  <2>3. Len(issued') = Len(issued) + 1 /\ issued'[Len(issued) + 1] = transaction_count
    BY <1>b, <1>1 DEF LoadId, TypeOK
  <2>4. QED
    BY <2>1, <2>2, <2>3
<1>2. CASE /\ pc[c] \in {"store_id", "set", "store", "publish"}
           /\ call'[c] = call[c] /\ txn'[c] = txn[c]
  <2>1. call[c] \in 1 .. Len(issued) /\ issued[call[c]] = txn[c]
    BY <1>b, <1>2 DEF CallInv
  <2>2. QED
    BY <2>1, <1>2, <1>a, <1>b, HistoryGrows
<1>3. \/ LoadId(c)
      \/ /\ pc[c] \in {"store_id", "set", "store", "publish"}
         /\ call'[c] = call[c] /\ txn'[c] = txn[c]
  <2>1. ASSUME NEW d \in Callers, Perform(d), ~ LoadId(c)
        PROVE  /\ pc[c] \in {"store_id", "set", "store", "publish"}
               /\ call'[c] = call[c] /\ txn'[c] = txn[c]
    BY <1>b, <1>c, <2>1 DEF Perform, TypeOK, TestZero, SkipZero, LoadId, StoreId, Stored,
         StoreWord, NextStep, Publish, PublishFails, idVars, Threads
  <2>2. ASSUME NEW u \in Threads, LoadWord(u)
        PROVE  /\ pc[c] \in {"store_id", "set", "store", "publish"}
               /\ call'[c] = call[c] /\ txn'[c] = txn[c]
    BY <1>b, <1>c, <2>2 DEF LoadWord, TypeOK, idVars
  <2>3. ASSUME NEW r \in replies, Hear(r)
        PROVE  /\ pc[c] \in {"store_id", "set", "store", "publish"}
               /\ call'[c] = call[c] /\ txn'[c] = txn[c]
    BY <1>b, <1>c, <2>3, ThreadsAssumption DEF Hear, TypeOK
  <2>4. ASSUME Heard
        PROVE  /\ pc[c] \in {"store_id", "set", "store", "publish"}
               /\ call'[c] = call[c] /\ txn'[c] = txn[c]
    BY <1>b, <1>c, <2>4, ThreadsAssumption DEF Heard, TypeOK, idVars
  <2>5. QED
    BY <1>a, <1>c, <2>1, <2>2, <2>3, <2>4 DEF Next, Reply, vars, idVars
<1>4. QED
  BY <1>1, <1>2, <1>3

\* A message that has been numbered is a cause of INVOKED.
LEMMA InvokedHasCause ==
  ASSUME IInv, [Next]_vars, NEW c \in Callers, txn'[c] = txn[c],
         pc[c] \in {"store_id", "set", "store", "publish"}
  PROVE  Caused(txn[c], "INVOKED")'
<1>1. call[c] \in 1 .. Len(issued) /\ issued[call[c]] = txn[c]
  BY DEF IInv, CallInv
<1>2. Caused(txn[c], "INVOKED")
  BY <1>1 DEF Caused
<1>3. TypeOK
  BY DEF IInv
<1>4. QED
  BY <1>2, <1>3, CauseKept DEF Caused

LEMMA WritingStep == IInv /\ [Next]_vars => WritingHasCause'
<1>a. SUFFICES ASSUME IInv, [Next]_vars PROVE WritingHasCause'
  OBVIOUS
<1>b. TypeOK /\ CallInv /\ WritingHasCause
  BY <1>a DEF IInv
<1>c. SUFFICES ASSUME NEW t \in Threads, pc'[t] \in {"set", "store"}
               PROVE  Caused(txn[t], tx_status[t])'
  BY DEF WritingHasCause
<1>d. SUFFICES ASSUME NEW id, id = txn'[t], NEW s, s = tx_status'[t]
               PROVE  Caused(id, s)'
  BY DEF Caused
<1>1. CASE /\ pc[t] \in {"set", "store"}
           /\ txn'[t] = txn[t] /\ tx_status'[t] = tx_status[t]
  <2>1. Caused(txn[t], tx_status[t])
    BY <1>b, <1>1 DEF WritingHasCause
  <2>2. Caused(id, s)
    BY <2>1, <1>1, <1>d
  <2>3. QED
    BY <2>2, <1>a, <1>b, CauseKept
<1>2. ASSUME t \in Callers, pc[t] \in {"store_id", "set", "store", "publish"},
             txn'[t] = txn[t], tx_status'[t] = "INVOKED"
      PROVE  Caused(id, s)'
  BY <1>2, <1>a, <1>d, InvokedHasCause DEF Caused
<1>3. ASSUME t \in Callers, PublishFails(t) PROVE Caused(id, s)'
  <2>1. call[t] \in 1 .. Len(issued) /\ issued[call[t]] = txn[t]
    BY <1>b, <1>3 DEF CallInv, PublishFails
  <2>2. txn' = txn /\ issued' = issued /\ call[t] \in unsent' /\ tx_status'[t] = "FAILURE"
    BY <1>b, <1>3 DEF PublishFails, TypeOK, idVars
  <2>3. QED
    BY <2>1, <2>2, <1>d DEF Caused
<1>4. ASSUME NEW r \in replies, Hear(r), t = Mqtt PROVE Caused(id, s)'
  <2>1. r \in [to : 1 .. Len(issued), success : BOOLEAN]
    BY <1>b DEF TypeOK
  <2>2. /\ issued' = issued /\ txn'[t] = issued[r.to] /\ r \in heard'
        /\ tx_status'[t] = Outcome(r)
    BY <1>b, <1>4 DEF Hear, TypeOK
  <2>3. r = ReplyTo(r.to, r.success) /\ r.success \in BOOLEAN /\ r.to \in 1 .. Len(issued)
    BY <2>1 DEF ReplyTo
  <2>4. CASE r.success = TRUE
    BY <1>d, <2>2, <2>3, <2>4 DEF Caused, Outcome
  <2>5. CASE r.success = FALSE
    BY <1>d, <2>2, <2>3, <2>5 DEF Caused, Outcome
  <2>6. QED
    BY <2>3, <2>4, <2>5
<1>5. \/ /\ pc[t] \in {"set", "store"}
         /\ txn'[t] = txn[t] /\ tx_status'[t] = tx_status[t]
      \/ /\ t \in Callers /\ pc[t] \in {"store_id", "set", "store", "publish"}
         /\ txn'[t] = txn[t] /\ tx_status'[t] = "INVOKED"
      \/ t \in Callers /\ PublishFails(t)
      \/ \E r \in replies : Hear(r) /\ t = Mqtt
  <2> DEFINE Same == /\ pc[t] \in {"set", "store"}
                     /\ txn'[t] = txn[t] /\ tx_status'[t] = tx_status[t]
             Invoked == /\ t \in Callers
                        /\ pc[t] \in {"store_id", "set", "store", "publish"}
                        /\ txn'[t] = txn[t] /\ tx_status'[t] = "INVOKED"
  <2>1. ASSUME NEW c \in Callers, Perform(c), ~ PublishFails(c) PROVE Same \/ Invoked
    BY <1>b, <1>c, <2>1 DEF Perform, TypeOK, TestZero, SkipZero, LoadId, StoreId, Stored,
         StoreWord, NextStep, Publish, idVars, tableVars, Threads
  <2>2. ASSUME NEW c \in Callers, PublishFails(c), c # t PROVE Same
    BY <1>b, <1>c, <2>2 DEF PublishFails, TypeOK, idVars
  <2>3. ASSUME NEW u \in Threads, LoadWord(u) PROVE Same
    BY <1>b, <1>c, <2>3 DEF LoadWord, TypeOK, idVars
  <2>4. ASSUME NEW r \in replies, Hear(r), t # Mqtt PROVE Same
    BY <1>b, <1>c, <2>4 DEF Hear, TypeOK
  <2>5. ASSUME Heard PROVE Same
    BY <1>b, <1>c, <2>5 DEF Heard, TypeOK, idVars
  <2>6. ASSUME \/ \E n \in Calls, b \in BOOLEAN : Reply(n, b)
               \/ UNCHANGED vars
        PROVE  Same
    BY <1>c, <2>6 DEF Reply, vars, idVars, tableVars
  <2>7. QED
    BY <1>a, <2>1, <2>2, <2>3, <2>4, <2>5, <2>6 DEF Next
<1>6. QED
  BY <1>1, <1>2, <1>3, <1>4, <1>5

-----------------------------------------------------------------------------
(***************************************************************************)
(* Theorems.                                                               *)
(***************************************************************************)

\* The five parts together are kept by every step.
THEOREM StatusInductive == Spec => []IInv
<1>1. IInv /\ [Next]_vars => IInv'
  BY TypeStep, CallStep, WritingStep, LoadedStep, ArrayStep DEF IInv
<1>2. QED
  BY <1>1, InitInv, PTL DEF Spec

\* Types, with identifiers and words of any width: the counter wraps inside
\* iot_transaction_t, and every identifier has its two bits in the array
\* (iot_plugin_perform, tr50_transaction_status_set).
THEOREM TransactionTypes == Spec => []TypeOK
<1>1. IInv => TypeOK
  BY DEF IInv
<1>2. QED
  BY <1>1, StatusInductive, PTL

\* No interleaving of the unlocked loads and stores invents a status or moves
\* one to another identifier (tr50_transaction_status_set).
THEOREM StatusCaused == Spec => []StatusHasCause
<1>1. IInv => StatusHasCause
  BY DEF IInv
<1>2. QED
  BY <1>1, StatusInductive, PTL

-----------------------------------------------------------------------------
(***************************************************************************)
(* As long as no two threads take identifiers at once, nothing comes       *)
(* between a thread's test of the counter and its load, so the identifier  *)
(* it loads is not zero, and nothing between its load and its store, so    *)
(* the identifiers go round, from 1 to TxnMax.                             *)
(***************************************************************************)
OnLap(n, id) == id \in 1 .. TxnMax /\ \E k \in Nat : n = TxnMax * k + id

LEMMA NextIdValue ==
  ASSUME NEW id \in Ids
  PROVE  NextId(id) = IF id = TxnMax THEN 0 ELSE id + 1
<1>1. id \in Nat /\ id <= TxnMax /\ TxnMax \in Nat \ {0}
  BY WidthAssumption DEF Ids
<1>2. CASE id = TxnMax
  <2>1. (TxnMax + 1) % (TxnMax + 1) = 0
    BY <1>1, SMT
  <2>2. QED
    BY <1>2, <2>1 DEF NextId
<1>3. CASE id # TxnMax
  <2>1. id + 1 \in 0 .. TxnMax
    BY <1>1, <1>3
  <2>2. (id + 1) % (TxnMax + 1) = id + 1
    BY <1>1, <2>1, SMT
  <2>3. QED
    BY <1>3, <2>2 DEF NextId
<1>4. QED
  BY <1>2, <1>3

\* The identifier after the last of a lap is the first of the next.
LEMMA NextOnLap ==
  ASSUME NEW n \in Nat, NEW id \in Ids, OnLap(n, id)
  PROVE  OnLap(n + 1, IF NextId(id) = 0 THEN 1 ELSE NextId(id))
<1>1. id \in 1 .. TxnMax /\ TxnMax \in Nat \ {0}
  BY WidthAssumption DEF OnLap
<1>2. PICK k \in Nat : n = TxnMax * k + id
  BY DEF OnLap
<1>3. CASE id = TxnMax
  <2>1. k + 1 \in Nat /\ n + 1 = TxnMax * (k + 1) + 1
    BY <1>1, <1>2, <1>3, SMT
  <2>2. NextId(id) = 0
    BY <1>3, NextIdValue
  <2>3. 1 \in 1 .. TxnMax
    BY <1>1
  <2>4. OnLap(n + 1, 1)
    BY <2>1, <2>3 DEF OnLap
  <2>5. QED
    BY <2>2, <2>4
<1>4. CASE id # TxnMax
  <2>1. NextId(id) = id + 1 /\ id + 1 # 0 /\ id + 1 \in 1 .. TxnMax
    BY <1>1, <1>4, NextIdValue
  <2>2. n + 1 = TxnMax * k + (id + 1)
    <3>1. TxnMax * k \in Nat
      BY <1>1, SMT
    <3>2. QED
      BY <3>1, <1>1, <1>2
  <2>3. QED
    BY <1>2, <2>1, <2>2 DEF OnLap
<1>5. QED
  BY <1>3, <1>4

\* Two messages with one identifier are at least a lap apart.
LEMMA LapsApart ==
  ASSUME NEW m \in Nat, NEW n \in Nat, NEW id, m < n, OnLap(m, id), OnLap(n, id)
  PROVE  n - m >= TxnMax
<1>1. id \in Nat /\ TxnMax \in Nat \ {0}
  BY WidthAssumption DEF OnLap
<1>2. PICK j \in Nat : m = TxnMax * j + id
  BY DEF OnLap
<1>3. PICK k \in Nat : n = TxnMax * k + id
  BY DEF OnLap
<1>4. TxnMax * j \in Nat /\ TxnMax * k \in Nat
  BY <1>1, SMT
<1>5. TxnMax * j < TxnMax * k
  BY <1>1, <1>2, <1>3, <1>4
<1>6. j < k
  BY <1>1, <1>5, Cancel
<1>7. PICK d \in Nat : k = j + 1 + d
  <2>1. k - j - 1 \in Nat /\ k = j + 1 + (k - j - 1)
    BY <1>6
  <2>2. QED
    BY <2>1
<1>8. TxnMax * k = TxnMax * j + TxnMax + TxnMax * d /\ TxnMax * d \in Nat
  BY <1>1, <1>7, SMT
<1>9. QED
  BY <1>1, <1>2, <1>3, <1>4, <1>8

One == \A c, d \in Callers : Numbering(c) /\ Numbering(d) => c = d
Positive == \A n \in 1 .. Len(issued) : issued[n] # 0
Tested == \A c \in Callers : /\ pc[c] = "skip_zero" => transaction_count = 0
                             /\ pc[c] = "load_id" => transaction_count # 0
Given == \A n \in 1 .. Len(issued) : OnLap(n, issued[n])
Storing == \A c \in Callers : pc[c] = "store_id" => OnLap(Len(issued), txn[c])
Upcoming == OnLap(Len(issued) + 1, IF transaction_count = 0 THEN 1 ELSE transaction_count)
Coming == (\A c \in Callers : pc[c] # "store_id") => Upcoming

Turns == One /\ Positive /\ Tested /\ Given /\ Storing /\ Coming
TurnInv == ~ raced => Turns

LEMMA TurnsInit == Init => TurnInv
<1> SUFFICES ASSUME Init PROVE Turns
  BY DEF TurnInv
<1>1. OnLap(1, 1)
  <2>1. 1 \in 1 .. TxnMax /\ 0 \in Nat /\ 1 = TxnMax * 0 + 1
    BY WidthAssumption
  <2>2. QED
    BY <2>1 DEF OnLap
<1>2. Len(issued) = 0 /\ transaction_count = 0 /\ \A c \in Callers : pc[c] = "idle"
  BY DEF Init, Threads
<1>3. QED
  BY <1>1, <1>2 DEF Turns, One, Numbering, Positive, Tested, Given, Storing, Coming, Upcoming

\* A thread that takes no identifier.
LEMMA TurnsKept ==
  ASSUME Turns, UNCHANGED <<transaction_count, issued>>,
         \A c \in Callers : /\ Numbering(c)' => pc'[c] = pc[c]
                            /\ pc'[c] = "store_id" => txn'[c] = txn[c]
                            /\ pc[c] = "store_id" => pc'[c] = "store_id"
  PROVE  Turns'
<1>1. One'
  BY DEF Turns, One, Numbering
<1>2. Positive' /\ Given'
  BY DEF Turns, Positive, Given
<1>3. Tested' /\ Storing'
  BY DEF Turns, Tested, Storing, Numbering
<1>4. Coming'
  BY DEF Turns, Coming, Upcoming
<1>5. QED
  BY <1>1, <1>2, <1>3, <1>4 DEF Turns

\* A thread tests the counter while no other takes an identifier.
LEMMA TestTurns ==
  ASSUME TypeOK, Turns, NEW c \in Callers, TestZero(c), ~ raced'
  PROVE  Turns'
<1>1. /\ \A d \in Callers : ~ Numbering(d)
      /\ UNCHANGED <<transaction_count, issued, txn>> /\ pc[c] = "idle"
      /\ pc' = [pc EXCEPT ![c] = IF transaction_count = 0 THEN "skip_zero" ELSE "load_id"]
  BY DEF TestZero, idVars
<1>2. /\ \A d \in Callers : d # c => pc'[d] = pc[d]
      /\ pc'[c] = IF transaction_count = 0 THEN "skip_zero" ELSE "load_id"
  BY <1>1 DEF TypeOK, Threads
<1>3. One'
  BY <1>1, <1>2 DEF One, Numbering
<1>4. Positive' /\ Given'
  BY <1>1 DEF Turns, Positive, Given
<1>5. Tested' /\ Storing'
  BY <1>1, <1>2 DEF Tested, Storing, Numbering
<1>6. Upcoming'
  BY <1>1 DEF Turns, Coming, Upcoming, Numbering
<1>7. QED
  BY <1>3, <1>4, <1>5, <1>6 DEF Turns, Coming

LEMMA AfterZero == NextId(0) = 1
  BY NextIdValue, WidthAssumption DEF Ids

LEMMA SkipTurns ==
  ASSUME TypeOK, Turns, NEW c \in Callers, SkipZero(c)
  PROVE  Turns'
<1>1. /\ pc[c] = "skip_zero" /\ transaction_count = 0 /\ transaction_count' = 1
      /\ UNCHANGED <<issued, txn>> /\ pc' = [pc EXCEPT ![c] = "load_id"]
  BY AfterZero DEF SkipZero, Turns, Tested
<1>2. \A d \in Callers : d # c => pc'[d] = pc[d] /\ ~ Numbering(d)
  BY <1>1 DEF TypeOK, Threads, Turns, One, Numbering
<1>3. pc'[c] = "load_id"
  BY <1>1 DEF TypeOK, Threads
<1>4. One'
  BY <1>2 DEF One, Numbering
<1>5. Positive' /\ Given'
  BY <1>1 DEF Turns, Positive, Given
<1>6. Tested' /\ Storing'
  BY <1>1, <1>2, <1>3 DEF Tested, Storing, Numbering
<1>7. Upcoming'
  <2>1. \A d \in Callers : pc[d] # "store_id"
    BY <1>1, <1>2 DEF Numbering
  <2>2. OnLap(Len(issued) + 1, 1)
    BY <1>1, <2>1 DEF Turns, Coming, Upcoming
  <2>3. QED
    BY <1>1, <2>2 DEF Upcoming
<1>8. QED
  BY <1>4, <1>5, <1>6, <1>7 DEF Turns, Coming

LEMMA LoadTurns ==
  ASSUME TypeOK, Turns, NEW c \in Callers, LoadId(c)
  PROVE  Turns'
<1>1. /\ pc[c] = "load_id" /\ transaction_count # 0 /\ transaction_count' = transaction_count
      /\ txn' = [txn EXCEPT ![c] = transaction_count] /\ pc' = [pc EXCEPT ![c] = "store_id"]
      /\ issued' = Append(issued, transaction_count)
  BY DEF LoadId, Turns, Tested
<1>2. \A d \in Callers : d # c => pc'[d] = pc[d] /\ ~ Numbering(d)
  BY <1>1 DEF TypeOK, Threads, Turns, One, Numbering
<1>3. pc'[c] = "store_id" /\ txn'[c] = transaction_count
  BY <1>1 DEF TypeOK, Threads
<1>4. /\ Len(issued) \in Nat /\ Len(issued') = Len(issued) + 1
      /\ issued'[Len(issued) + 1] = transaction_count
      /\ \A n \in 1 .. Len(issued) : issued'[n] = issued[n]
  BY <1>1 DEF TypeOK
<1>5. OnLap(Len(issued) + 1, transaction_count)
  <2>1. \A d \in Callers : pc[d] # "store_id"
    BY <1>1, <1>2 DEF Numbering
  <2>2. QED
    BY <1>1, <2>1 DEF Turns, Coming, Upcoming
<1>6. ASSUME NEW n \in 1 .. Len(issued') PROVE issued'[n] # 0 /\ OnLap(n, issued'[n])
  <2>1. n \in 1 .. Len(issued) \/ n = Len(issued) + 1
    BY <1>4
  <2>2. QED
    BY <1>1, <1>4, <1>5, <2>1 DEF Turns, Positive, Given
<1>7. One'
  BY <1>2 DEF One, Numbering
<1>8. Tested' /\ Storing'
  BY <1>1, <1>2, <1>3, <1>4, <1>5 DEF Tested, Storing, Numbering
<1>9. QED
  BY <1>3, <1>6, <1>7, <1>8 DEF Turns, Positive, Given, Coming

LEMMA StoreTurns ==
  ASSUME TypeOK, Turns, NEW c \in Callers, StoreId(c)
  PROVE  Turns'
<1>1. /\ pc[c] = "store_id" /\ transaction_count' = NextId(txn[c])
      /\ UNCHANGED <<issued, txn>> /\ pc' = [pc EXCEPT ![c] = "set"]
  BY DEF StoreId
<1>2. \A d \in Callers : d # c => pc'[d] = pc[d] /\ ~ Numbering(d)
  BY <1>1 DEF TypeOK, Threads, Turns, One, Numbering
<1>3. pc'[c] = "set" /\ txn[c] \in Ids /\ Len(issued) \in Nat
  BY <1>1 DEF TypeOK, Threads
<1>4. One'
  BY <1>2, <1>3 DEF One, Numbering
<1>5. Positive' /\ Given'
  BY <1>1 DEF Turns, Positive, Given
<1>6. Tested' /\ Storing'
  BY <1>2, <1>3 DEF Tested, Storing, Numbering
<1>7. OnLap(Len(issued), txn[c])
  BY <1>1 DEF Turns, Storing
<1>8. Upcoming'
  BY <1>1, <1>3, <1>7, NextOnLap DEF Upcoming
<1>9. QED
  BY <1>4, <1>5, <1>6, <1>8 DEF Turns, Coming

LEMMA TurnStep ==
  ASSUME TypeOK, TurnInv, [Next]_vars
  PROVE  TurnInv'
<1> SUFFICES ASSUME ~ raced' PROVE Turns'
  BY DEF TurnInv
<1>1. ~ raced
  BY DEF Next, Perform, vars, TestZero, SkipZero, LoadId, StoreId, LoadWord, Stored, Publish,
         PublishFails, Reply, Hear, Heard
<1>2. Turns
  BY <1>1 DEF TurnInv
<1>3. ASSUME NEW c \in Callers, TestZero(c) \/ SkipZero(c) \/ LoadId(c) \/ StoreId(c)
      PROVE  Turns'
  BY <1>2, <1>3, TestTurns, SkipTurns, LoadTurns, StoreTurns
<1>4. ASSUME NEW c \in Callers, Stored(c) \/ Publish(c) \/ PublishFails(c) PROVE Turns'
  <2>1. /\ UNCHANGED <<transaction_count, issued, txn>>
        /\ pc[c] \in {"store", "publish"} /\ \E p \in {"idle", "set", "publish"} : pc' = [pc EXCEPT ![c] = p]
    BY <1>4 DEF Stored, Publish, PublishFails, StoreWord, NextStep, idVars
  <2>2. QED
    BY <1>2, <2>1, TurnsKept DEF TypeOK, Threads, Numbering
<1>5. ASSUME NEW t \in Threads, LoadWord(t) PROVE Turns'
  <2>1. /\ UNCHANGED <<transaction_count, issued, txn>>
        /\ pc[t] = "set" /\ pc' = [pc EXCEPT ![t] = "store"]
    BY <1>5 DEF LoadWord, idVars
  <2>2. QED
    BY <1>2, <2>1, TurnsKept DEF TypeOK, Threads, Numbering
<1>6. ASSUME NEW r \in replies, Hear(r) PROVE Turns'
  <2>1. /\ UNCHANGED <<transaction_count, issued>>
        /\ \A c \in Callers : pc'[c] = pc[c] /\ txn'[c] = txn[c]
    BY <1>6, ThreadsAssumption DEF Hear, TypeOK, Threads
  <2>2. QED
    BY <1>2, <2>1, TurnsKept
<1>7. CASE Heard
  <2>1. /\ UNCHANGED <<transaction_count, issued>>
        /\ \A c \in Callers : pc'[c] = pc[c] /\ txn'[c] = txn[c]
    BY <1>7, ThreadsAssumption DEF Heard, TypeOK, Threads, idVars
  <2>2. QED
    BY <1>2, <2>1, TurnsKept
<1>8. CASE (\E n \in Calls, b \in BOOLEAN : Reply(n, b)) \/ UNCHANGED vars
  <2>1. UNCHANGED <<transaction_count, issued, pc, txn>>
    BY <1>8 DEF Reply, vars, idVars
  <2>2. QED
    BY <1>2, <2>1, TurnsKept
<1>9. QED
  BY <1>3, <1>4, <1>5, <1>6, <1>7, <1>8 DEF Next, Perform

LEMMA TurnsInductive == Spec => []TurnInv
<1>1. TypeOK /\ TurnInv /\ [Next]_vars => TurnInv'
  BY TurnStep
<1>2. QED
  BY <1>1, TurnsInit, TransactionTypes, PTL DEF Spec

\* For any number of publishing threads: as long as no two take identifiers at
\* once, no message gets the identifier whose reply tr50_on_message does not
\* record, however often the counter wraps (iot_plugin_perform).
THEOREM RepliesAreRecorded == Spec => []NoDeafId
<1>1. TurnInv => NoDeafId
  BY DEF TurnInv, Turns, Positive, NoDeafId
<1>2. QED
  BY <1>1, TurnsInductive, PTL

\* For any number of publishing threads: as long as no two take identifiers at
\* once, an identifier comes again only after all others have been given, for any
\* width of the counter (iot_plugin_perform).
THEOREM IdentifiersGoRound == Spec => []IdsDistinct
<1>1. TypeOK /\ TurnInv => IdsDistinct
  <2> SUFFICES ASSUME TypeOK, Turns, NEW m \in 1 .. Len(issued), NEW n \in 1 .. Len(issued),
                      m < n, issued[m] = issued[n]
               PROVE  n - m >= TxnMax
    BY DEF IdsDistinct, TurnInv
  <2>1. m \in Nat /\ n \in Nat /\ OnLap(m, issued[m]) /\ OnLap(n, issued[m])
    BY DEF Turns, Given, TypeOK
  <2>2. QED
    BY <2>1, LapsApart
<1>2. QED
  BY <1>1, TransactionTypes, TurnsInductive, PTL
=============================================================================
