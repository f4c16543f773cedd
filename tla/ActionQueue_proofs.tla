------------------------- MODULE ActionQueue_proofs -------------------------
(***************************************************************************)
(* Proofs about ActionQueue, for any number of records, worker threads,     *)
(* requests and connects, and whatever faults are allowed.                  *)
(***************************************************************************)
EXTENDS ActionQueue, FiniteSetTheorems, TLAPS

(* A worker holds a record exactly between taking and releasing it, the     *)
(* MQTT thread between allocating and submitting it.                        *)
Holding == {"look", "lock", "run", "complete", "clear", "release"}
HandsInv ==
  /\ \A w \in Workers : held[w] # NoSlot <=> worker[w] \in Holding
  /\ incoming # NoSlot <=> mqtt \in {"fill", "submit"}

(* The handles tell which threads exist, and how far iot_loop_start and     *)
(* iot_loop_stop have come tells which handles are set.                     *)
ThreadInv ==
  /\ \A w \in Workers : worker[w] # "none" <=> w \in worker_thread
  /\ main # "none" <=> main_thread
  /\ app = "start workers" => main_thread /\ \A w \in worker_thread : w < index
  /\ app = "start flag" => main_thread
  /\ app \in {"broadcast", "stop workers", "stop link"} => ~main_thread
  /\ app = "stop workers" => \A w \in worker_thread : w >= index
  /\ app = "stop link" => worker_thread = {}
  /\ app \in {"idle", "start main", "stop main"} /\ ~main_thread => worker_thread = {}

(* The lock is held by the workers that execute an action, as its flag says.*)
LockInv ==
  /\ \A w \in Workers : w \in readers <=> worker[w] = "run" /\ Request(w) \notin Exclusive
  /\ \A w \in Workers : w \in writers <=> worker[w] = "run" /\ Request(w) \in Exclusive
  /\ \A w \in writers : readers = {} /\ writers = {w}

IInv == /\ TypeOK /\ HandsInv /\ ThreadInv
        /\ NoSlotShared /\ NoSlotLost /\ LockInv

-----------------------------------------------------------------------------
(* Counting records.                                                        *)

LEMMA SlotsFinite ==
  /\ IsFiniteSet(Slots)
  /\ Cardinality(Slots) = IOT_ACTION_QUEUE_MAX
  /\ \A s \in Slots : /\ IsFiniteSet(Slots \ {s})
                      /\ Cardinality(Slots \ {s}) = IOT_ACTION_QUEUE_MAX - 1
<1>1. /\ IsFiniteSet(Slots)
      /\ Cardinality(Slots) = IOT_ACTION_QUEUE_MAX
  BY SizesAssumption, FS_Interval DEF Slots
<1> QED  BY <1>1, FS_RemoveElement

(* Distinct records, all different from one that is elsewhere, are fewer    *)
(* than there are.                                                          *)
LEMMA FewerThanAll ==
  ASSUME NEW s \in Slots, NEW S, NEW f \in [S -> Slots \ {s}],
         \A i, j \in S : i # j => f[i] # f[j]
  PROVE  IsFiniteSet(S) /\ Cardinality(S) < IOT_ACTION_QUEUE_MAX
<1>1. f \in Injection(S, Slots \ {s})
  BY DEF Injection, IsInjective
<1>2. IsFiniteSet(S) /\ Cardinality(S) <= IOT_ACTION_QUEUE_MAX - 1
  BY <1>1, SlotsFinite, FS_Injection
<1> QED  BY <1>2, SizesAssumption, FS_CardinalityType

(* A thread about to queue a record finds room for it.                      *)
LEMMA RoomToQueue ==
  ASSUME TypeOK, NoSlotShared, incoming # NoSlot
  PROVE  Len(request_queue_wait) < IOT_ACTION_QUEUE_MAX
<1> DEFINE L == Len(request_queue_wait)
<1>1. L \in Nat /\ incoming \in Slots
  BY DEF TypeOK
<1>2. incoming \notin SlotsWaiting
  BY <1>1 DEF NoSlotShared, SlotIncoming
<1>3. request_queue_wait \in [1 .. L -> Slots \ {incoming}]
  <2>1. request_queue_wait \in Seq(Slots)
    BY DEF TypeOK
  <2>2. \A i \in 1 .. L : request_queue_wait[i] # incoming
    BY <1>2 DEF SlotsWaiting
  <2> QED  BY <2>1, <2>2
<1>4. \A i, j \in 1 .. L : i # j => request_queue_wait[i] # request_queue_wait[j]
  BY DEF NoSlotShared
<1>5. Cardinality(1 .. L) < IOT_ACTION_QUEUE_MAX
  BY <1>1, <1>3, <1>4, FewerThanAll
<1>6. Cardinality(1 .. L) = L
  <2>1. 1 \in Int /\ L \in Int
    BY <1>1
  <2>2. Cardinality(1 .. L) = IF 1 > L THEN 0 ELSE L - 1 + 1
    BY <2>1, FS_Interval, Zenon
  <2> QED  BY <1>1, <2>2
<1> QED  BY <1>5, <1>6

(* A thread about to give a record back finds the count above zero.         *)
LEMMA SomeInUse ==
  ASSUME TypeOK, NoSlotShared, NEW w \in Workers, held[w] # NoSlot
  PROVE  request_queue_free_count > 0
<1> SUFFICES ASSUME request_queue_free_count = 0 PROVE FALSE
  BY SizesAssumption DEF TypeOK
<1>1. held[w] \in SlotsHeld /\ held[w] \in Slots
  BY DEF TypeOK, SlotsHeld
<1>2. SlotsFree = {request_queue_free[i] : i \in Slots}
  BY DEF SlotsFree, Slots
<1>3. request_queue_free \in [Slots -> Slots \ {held[w]}]
  BY <1>1, <1>2 DEF TypeOK, NoSlotShared
<1>4. \A i, j \in Slots : i # j => request_queue_free[i] # request_queue_free[j]
  BY DEF NoSlotShared, Slots
<1>5. Cardinality(Slots) < IOT_ACTION_QUEUE_MAX
  BY <1>1, <1>3, <1>4, FewerThanAll
<1> QED  BY <1>5, SlotsFinite, SizesAssumption

-----------------------------------------------------------------------------
(* Each conjunct of IInv is kept by every step.                             *)

LEMMA InitInv == Init => IInv
<1> SUFFICES ASSUME Init PROVE IInv
  OBVIOUS
<1> USE DEF Init
<1>1. TypeOK
  <2>1. 1 \in Workers /\ request_queue_free_count \in 0 .. IOT_ACTION_QUEUE_MAX
        /\ connects \in 0 .. MaxConnects
    BY SizesAssumption DEF Workers
  <2>2. \A r \in Requests : <<>> \in Seq(Statuses)
    OBVIOUS
  <2>3. request_queue_free \in [Slots -> Slots] /\ request_queue_wait \in Seq(Slots)
    OBVIOUS
  <2>4. action_result \in [Workers -> Statuses] /\ outcome \in [Requests -> Seq(Statuses)]
    BY <2>2 DEF Statuses
  <2> QED  BY <2>1, <2>3, <2>4 DEF TypeOK, WorkerStates, AppStates
<1>2. HandsInv
  BY DEF HandsInv, Holding
<1>3. ThreadInv
  BY DEF ThreadInv
<1>4. NoSlotShared
  BY DEF NoSlotShared, SlotsFree, SlotsWaiting, SlotsHeld, SlotIncoming
<1>5. NoSlotLost
  BY DEF NoSlotLost, SlotsFree, SlotsWaiting, SlotsHeld, SlotIncoming, Slots
<1>6. LockInv
  BY DEF LockInv
<1> QED  BY <1>1, <1>2, <1>3, <1>4, <1>5, <1>6 DEF IInv

LEMMA TypeStep == IInv /\ [Next]_vars => TypeOK'
<1>a. SUFFICES ASSUME IInv, [Next]_vars PROVE TypeOK'
  OBVIOUS
<1>0. TypeOK /\ HandsInv /\ NoSlotShared
  BY <1>a DEF IInv
<1> USE DEF Move, loopVars, queueVars, lockVars, workerVars, mqttVars, appVars
<1>1. ASSUME NEW r \in Requests, Receive(r) PROVE TypeOK'
  <2> DEFINE s == request_queue_free[request_queue_free_count]
  <2>1. request_queue_free_count \in Slots
    BY <1>0, <1>1, SizesAssumption DEF Receive, Allocate, Slots, TypeOK
  <2>2. s \in Slots /\ request_queue_free_count + 1 \in 0 .. IOT_ACTION_QUEUE_MAX
    BY <1>0, <2>1, SizesAssumption DEF Slots, TypeOK
  <2> QED  BY <1>0, <1>1, <2>2 DEF TypeOK, Receive, Allocate
<1>2. ASSUME NEW r \in Requests, Refuse(r) PROVE TypeOK'
  BY <1>0, <1>2 DEF TypeOK, Refuse
<1>3. CASE Fill
  BY <1>0, <1>3 DEF TypeOK, Fill
<1>4. CASE Submit
  <2>1. incoming \in Slots
    BY <1>0, <1>4 DEF TypeOK, Submit, HandsInv
  <2>2. "FULL" \in Statuses
    BY DEF Statuses
  <2>3. request_queue_wait' \in Seq(Slots) /\ outcome' \in [Requests -> Seq(Statuses)]
    <3>1. CASE Len(request_queue_wait) < IOT_ACTION_QUEUE_MAX
      <4>1. /\ request_queue_wait' = Append(request_queue_wait, incoming)
            /\ outcome' = outcome
        BY <1>4, <3>1 DEF Submit
      <4> QED  BY <1>0, <2>1, <4>1 DEF TypeOK
    <3>2. CASE ~(Len(request_queue_wait) < IOT_ACTION_QUEUE_MAX)
      <4>1. outcome' = [outcome EXCEPT ![request_queue[incoming]] = Append(@, "FULL")]
            /\ request_queue_wait' = request_queue_wait
        BY <1>4, <3>2 DEF Submit
      <4>2. \A r \in Requests : Append(outcome[r], "FULL") \in Seq(Statuses)
        BY <1>0, <2>2 DEF TypeOK
      <4> QED  BY <1>0, <4>1, <4>2 DEF TypeOK
    <3> QED  BY <3>1, <3>2
  <2> QED  BY <1>0, <1>4, <2>3 DEF TypeOK, Submit
<1>5. CASE Signal
  BY <1>0, <1>5 DEF TypeOK, Signal, WorkerStates
<1>6. ASSUME NEW w \in Workers, TestQuit(w) PROVE TypeOK'
  BY <1>0, <1>6 DEF TypeOK, TestQuit, WorkerStates
<1>7. ASSUME NEW w \in Workers, EnterTake(w) PROVE TypeOK'
  BY <1>0, <1>7 DEF TypeOK, EnterTake, Take, WorkerStates
<1>8. ASSUME NEW w \in Workers, EnterWait(w) PROVE TypeOK'
  BY <1>0, <1>8 DEF TypeOK, EnterWait, WorkerStates
<1>9. ASSUME NEW w \in Workers, WokenTake(w) PROVE TypeOK'
  BY <1>0, <1>9 DEF TypeOK, WokenTake, Take, WorkerStates
<1>10. ASSUME NEW w \in Workers, WokenExit(w) PROVE TypeOK'
  BY <1>0, <1>10 DEF TypeOK, WokenExit, WorkerStates
<1>11. ASSUME NEW w \in Workers, Look(w) PROVE TypeOK'
  BY <1>0, <1>11 DEF TypeOK, Look, WorkerStates
<1>12. ASSUME NEW w \in Workers, Lock(w) PROVE TypeOK'
  BY <1>0, <1>12 DEF TypeOK, Lock, WriteLock, ReadLock, WorkerStates
<1>13. ASSUME NEW w \in Workers, NEW result \in Results, Executed(w, result) PROVE TypeOK'
  BY <1>0, <1>13 DEF TypeOK, Executed, WorkerStates, Statuses
<1>14. ASSUME NEW w \in Workers, Complete(w) PROVE TypeOK'
  <2>1. \A r \in Requests : Append(outcome[r], action_result[w]) \in Seq(Statuses)
    BY <1>0 DEF TypeOK
  <2>2. outcome' \in [Requests -> Seq(Statuses)]
    BY <1>0, <1>14, <2>1 DEF TypeOK, Complete
  <2>3. action_result' \in [Workers -> Statuses]
    BY <1>0, <1>14 DEF TypeOK, Complete, Statuses
  <2> QED  BY <1>0, <1>14, <2>2, <2>3 DEF TypeOK, Complete, WorkerStates
<1>15. ASSUME NEW w \in Workers, Clear(w) PROVE TypeOK'
  BY <1>0, <1>15 DEF TypeOK, Clear, WorkerStates
<1>16. ASSUME NEW w \in Workers, Release(w) PROVE TypeOK'
  <2>1. held[w] \in Slots
    BY <1>0, <1>16 DEF TypeOK, Release, HandsInv, Holding
  <2>2. request_queue_free_count > 0
    BY <1>0, <2>1, SomeInUse DEF Slots, NoSlot
  <2>3. request_queue_free_count - 1 \in 0 .. IOT_ACTION_QUEUE_MAX
    BY <1>0, <2>2, SizesAssumption DEF TypeOK
  <2> QED  BY <1>0, <1>16, <2>1, <2>3 DEF TypeOK, Release, WorkerStates
<1>17. ASSUME NEW w \in Workers, SpuriousWakeup(w) PROVE TypeOK'
  BY <1>0, <1>17 DEF TypeOK, SpuriousWakeup, WorkerStates
<1>18. CASE MainExit
  BY <1>0, <1>18 DEF TypeOK, MainExit
<1>19. CASE Connect
  <2>1. connects' \in 0 .. MaxConnects
    <3>1. connects \in Nat /\ connects <= MaxConnects
      BY <1>0, SizesAssumption DEF TypeOK
    <3>2. connects < MaxConnects /\ connects' = connects + 1
      BY <1>19 DEF Connect
    <3> QED  BY <3>1, <3>2, SizesAssumption
  <2> QED  BY <1>0, <1>19, <2>1 DEF TypeOK, Connect, AppStates
<1>20. CASE StartMain
  <2>1. 1 \in Workers
    BY SizesAssumption DEF Workers
  <2> QED  BY <1>0, <1>20, <2>1 DEF TypeOK, StartMain, AppStates
<1>21. CASE AlreadyStarted
  BY <1>0, <1>21 DEF TypeOK, AlreadyStarted, AppStates
<1>22. CASE StartWorker
  <2>1. index' \in Workers
    <3>1. index \in Nat /\ 1 <= index /\ index <= IOT_WORKER_THREADS
      BY <1>0, SizesAssumption DEF TypeOK, Workers
    <3>2. \/ index < IOT_WORKER_THREADS /\ index' = index + 1
          \/ index' = index
      BY <1>22 DEF StartWorker
    <3> QED  BY <3>1, <3>2, SizesAssumption DEF Workers
  <2> QED  BY <1>0, <1>22, <2>1 DEF TypeOK, StartWorker, AppStates, WorkerStates
<1>23. CASE StartFails
  BY <1>0, <1>23 DEF TypeOK, StartFails, AppStates
<1>24. CASE ClearQuit
  BY <1>0, <1>24 DEF TypeOK, ClearQuit, AppStates
<1>25. CASE Stop
  BY <1>0, <1>25 DEF TypeOK, Stop, AppStates
<1>26. CASE JoinMain
  BY <1>0, <1>26 DEF TypeOK, JoinMain, AppStates
<1>27. CASE Broadcast
  <2>1. 1 \in Workers
    BY SizesAssumption DEF Workers
  <2> QED  BY <1>0, <1>27, <2>1 DEF TypeOK, Broadcast, AppStates, WorkerStates
<1>28. CASE JoinWorker
  <2>1. index' \in Workers
    <3>1. index \in Nat /\ 1 <= index /\ index <= IOT_WORKER_THREADS
      BY <1>0, SizesAssumption DEF TypeOK, Workers
    <3>2. \/ index < IOT_WORKER_THREADS /\ index' = index + 1
          \/ index' = index
      BY <1>28 DEF JoinWorker
    <3> QED  BY <3>1, <3>2, SizesAssumption DEF Workers
  <2> QED  BY <1>0, <1>28, <2>1 DEF TypeOK, JoinWorker, AppStates, WorkerStates
<1>29. CASE Disconnect
  BY <1>0, <1>29 DEF TypeOK, Disconnect, AppStates
<1>30. CASE UNCHANGED vars
  BY <1>0, <1>30 DEF TypeOK, vars
<1> QED
  BY <1>a, <1>1, <1>2, <1>3, <1>4, <1>5, <1>6, <1>7, <1>8, <1>9, <1>10, <1>11, <1>12,
     <1>13, <1>14, <1>15, <1>16, <1>17, <1>18, <1>19, <1>20, <1>21, <1>22, <1>23,
     <1>24, <1>25, <1>26, <1>27, <1>28, <1>29, <1>30
  DEF Next, MqttStep, Process, StartStep, StopStep

(* Worker threads are numbered.                                             *)
LEMMA IndexType ==
  ASSUME TypeOK
  PROVE  /\ index \in Workers /\ index \in Int /\ 1 <= index /\ index <= IOT_WORKER_THREADS
         /\ \A w \in worker_thread :
              w \in Workers /\ w \in Int /\ 1 <= w /\ w <= IOT_WORKER_THREADS
<1>1. index \in Workers /\ worker_thread \subseteq Workers
  BY DEF TypeOK
<1> QED  BY <1>1, SizesAssumption DEF Workers

LEMMA HandsStep == IInv /\ [Next]_vars => HandsInv'
<1>a. SUFFICES ASSUME IInv, [Next]_vars PROVE HandsInv'
  OBVIOUS
<1>0. TypeOK /\ HandsInv /\ ThreadInv
  BY <1>a DEF IInv
<1> USE DEF Move, loopVars, queueVars, lockVars, workerVars, mqttVars, appVars
<1>1. ASSUME NEW r \in Requests, Receive(r) PROVE HandsInv'
  <2>1. incoming' \in Slots
    BY <1>0, <1>1, SizesAssumption DEF TypeOK, Receive, Allocate, Slots
  <2>2. NoSlot \notin Slots
    BY SizesAssumption DEF Slots, NoSlot
  <2> QED  BY <1>0, <2>1, <2>2, <1>1 DEF TypeOK, HandsInv, Holding, Receive
<1>2. ASSUME NEW r \in Requests, Refuse(r) PROVE HandsInv'
  BY <1>0, <1>2 DEF TypeOK, HandsInv, Holding, Refuse
<1>3. CASE Fill
  BY <1>0, <1>3 DEF TypeOK, HandsInv, Holding, Fill
<1>4. CASE Submit
  BY <1>0, <1>4 DEF TypeOK, HandsInv, Holding, Submit
<1>5. CASE Signal
  BY <1>0, <1>5 DEF TypeOK, HandsInv, Holding, Signal
<1>6. ASSUME NEW w \in Workers, TestQuit(w) PROVE HandsInv'
  BY <1>0, <1>6 DEF TypeOK, HandsInv, Holding, TestQuit
<1>7. ASSUME NEW w \in Workers, EnterTake(w) PROVE HandsInv'
  <2>1. Head(request_queue_wait) \in Slots
    BY <1>0, <1>7 DEF TypeOK, EnterTake, Take
  <2>2. NoSlot \notin Slots
    BY SizesAssumption DEF Slots, NoSlot
  <2> QED  BY <1>0, <2>1, <2>2, <1>7 DEF TypeOK, HandsInv, Holding, EnterTake, Take
<1>8. ASSUME NEW w \in Workers, EnterWait(w) PROVE HandsInv'
  BY <1>0, <1>8 DEF TypeOK, HandsInv, Holding, EnterWait
<1>9. ASSUME NEW w \in Workers, WokenTake(w) PROVE HandsInv'
  <2>1. Head(request_queue_wait) \in Slots
    BY <1>0, <1>9 DEF TypeOK, WokenTake, Take
  <2>2. NoSlot \notin Slots
    BY SizesAssumption DEF Slots, NoSlot
  <2> QED  BY <1>0, <2>1, <2>2, <1>9 DEF TypeOK, HandsInv, Holding, WokenTake, Take
<1>10. ASSUME NEW w \in Workers, WokenExit(w) PROVE HandsInv'
  BY <1>0, <1>10 DEF TypeOK, HandsInv, Holding, WokenExit
<1>11. ASSUME NEW w \in Workers, Look(w) PROVE HandsInv'
  BY <1>0, <1>11 DEF TypeOK, HandsInv, Holding, Look
<1>12. ASSUME NEW w \in Workers, Lock(w) PROVE HandsInv'
  BY <1>0, <1>12 DEF TypeOK, HandsInv, Holding, Lock
<1>13. ASSUME NEW w \in Workers, NEW result \in Results, Executed(w, result) PROVE HandsInv'
  BY <1>0, <1>13 DEF TypeOK, HandsInv, Holding, Executed
<1>14. ASSUME NEW w \in Workers, Complete(w) PROVE HandsInv'
  BY <1>0, <1>14 DEF TypeOK, HandsInv, Holding, Complete
<1>15. ASSUME NEW w \in Workers, Clear(w) PROVE HandsInv'
  BY <1>0, <1>15 DEF TypeOK, HandsInv, Holding, Clear
<1>16. ASSUME NEW w \in Workers, Release(w) PROVE HandsInv'
  BY <1>0, <1>16 DEF TypeOK, HandsInv, Holding, Release
<1>17. ASSUME NEW w \in Workers, SpuriousWakeup(w) PROVE HandsInv'
  BY <1>0, <1>17 DEF TypeOK, HandsInv, Holding, SpuriousWakeup
<1>18. CASE MainExit
  BY <1>0, <1>18 DEF TypeOK, HandsInv, Holding, MainExit
<1>19. CASE Connect
  BY <1>0, <1>19 DEF TypeOK, HandsInv, Holding, Connect
<1>20. CASE StartMain
  BY <1>0, <1>20 DEF TypeOK, HandsInv, Holding, StartMain
<1>21. CASE AlreadyStarted
  BY <1>0, <1>21 DEF TypeOK, HandsInv, Holding, AlreadyStarted
<1>22. CASE StartWorker
  <2>1. worker[index] = "none"
    <3>1. index \in Workers /\ index \in Int
      BY <1>0, IndexType
    <3>2. \A w \in worker_thread : w < index
      BY <1>0, <1>22 DEF ThreadInv, StartWorker
    <3>3. index \notin worker_thread
      BY <3>1, <3>2
    <3> QED  BY <1>0, <3>1, <3>3 DEF ThreadInv
  <2> QED  BY <1>0, <2>1, <1>22 DEF TypeOK, HandsInv, Holding, StartWorker
<1>23. CASE StartFails
  BY <1>0, <1>23 DEF TypeOK, HandsInv, Holding, StartFails
<1>24. CASE ClearQuit
  BY <1>0, <1>24 DEF TypeOK, HandsInv, Holding, ClearQuit
<1>25. CASE Stop
  BY <1>0, <1>25 DEF TypeOK, HandsInv, Holding, Stop
<1>26. CASE JoinMain
  BY <1>0, <1>26 DEF TypeOK, HandsInv, Holding, JoinMain
<1>27. CASE Broadcast
  BY <1>0, <1>27 DEF TypeOK, HandsInv, Holding, Broadcast
<1>28. CASE JoinWorker
  BY <1>0, <1>28 DEF TypeOK, HandsInv, Holding, JoinWorker
<1>29. CASE Disconnect
  BY <1>0, <1>29 DEF TypeOK, HandsInv, Holding, Disconnect
<1>30. CASE UNCHANGED vars
  BY <1>0, <1>30 DEF TypeOK, HandsInv, Holding, vars
<1> QED
  BY <1>a, <1>1, <1>2, <1>3, <1>4, <1>5, <1>6, <1>7, <1>8, <1>9, <1>10, <1>11, <1>12,
     <1>13, <1>14, <1>15, <1>16, <1>17, <1>18, <1>19, <1>20, <1>21, <1>22, <1>23,
     <1>24, <1>25, <1>26, <1>27, <1>28, <1>29, <1>30
  DEF Next, MqttStep, Process, StartStep, StopStep

LEMMA ThreadStep == IInv /\ [Next]_vars => ThreadInv'
<1>a. SUFFICES ASSUME IInv, [Next]_vars PROVE ThreadInv'
  OBVIOUS
<1>0. TypeOK /\ ThreadInv
  BY <1>a DEF IInv
<1> USE DEF Move, loopVars, queueVars, lockVars, workerVars, mqttVars, appVars
<1>1. ASSUME NEW r \in Requests, Receive(r) PROVE ThreadInv'
  BY <1>0, <1>1 DEF TypeOK, ThreadInv, Receive, Allocate
<1>2. ASSUME NEW r \in Requests, Refuse(r) PROVE ThreadInv'
  BY <1>0, <1>2 DEF TypeOK, ThreadInv, Refuse
<1>3. CASE Fill
  BY <1>0, <1>3 DEF TypeOK, ThreadInv, Fill
<1>4. CASE Submit
  BY <1>0, <1>4 DEF TypeOK, ThreadInv, Submit
<1>5. CASE Signal
  BY <1>0, <1>5 DEF TypeOK, ThreadInv, Signal
<1>6. ASSUME NEW w \in Workers, TestQuit(w) PROVE ThreadInv'
  BY <1>0, <1>6 DEF TypeOK, ThreadInv, TestQuit
<1>7. ASSUME NEW w \in Workers, EnterTake(w) PROVE ThreadInv'
  BY <1>0, <1>7 DEF TypeOK, ThreadInv, EnterTake, Take
<1>8. ASSUME NEW w \in Workers, EnterWait(w) PROVE ThreadInv'
  BY <1>0, <1>8 DEF TypeOK, ThreadInv, EnterWait
<1>9. ASSUME NEW w \in Workers, WokenTake(w) PROVE ThreadInv'
  BY <1>0, <1>9 DEF TypeOK, ThreadInv, WokenTake, Take
<1>10. ASSUME NEW w \in Workers, WokenExit(w) PROVE ThreadInv'
  BY <1>0, <1>10 DEF TypeOK, ThreadInv, WokenExit
<1>11. ASSUME NEW w \in Workers, Look(w) PROVE ThreadInv'
  BY <1>0, <1>11 DEF TypeOK, ThreadInv, Look
<1>12. ASSUME NEW w \in Workers, Lock(w) PROVE ThreadInv'
  BY <1>0, <1>12 DEF TypeOK, ThreadInv, Lock
<1>13. ASSUME NEW w \in Workers, NEW result \in Results, Executed(w, result) PROVE ThreadInv'
  BY <1>0, <1>13 DEF TypeOK, ThreadInv, Executed
<1>14. ASSUME NEW w \in Workers, Complete(w) PROVE ThreadInv'
  BY <1>0, <1>14 DEF TypeOK, ThreadInv, Complete
<1>15. ASSUME NEW w \in Workers, Clear(w) PROVE ThreadInv'
  BY <1>0, <1>15 DEF TypeOK, ThreadInv, Clear
<1>16. ASSUME NEW w \in Workers, Release(w) PROVE ThreadInv'
  BY <1>0, <1>16 DEF TypeOK, ThreadInv, Release
<1>17. ASSUME NEW w \in Workers, SpuriousWakeup(w) PROVE ThreadInv'
  BY <1>0, <1>17 DEF TypeOK, ThreadInv, SpuriousWakeup
<1>18. CASE MainExit
  BY <1>0, <1>18 DEF TypeOK, ThreadInv, MainExit
<1>19. CASE Connect
  BY <1>0, <1>19 DEF TypeOK, ThreadInv, Connect
<1>20. CASE StartMain
  BY <1>0, <1>20 DEF TypeOK, ThreadInv, StartMain
<1>21. CASE AlreadyStarted
  BY <1>0, <1>21 DEF TypeOK, ThreadInv, AlreadyStarted
<1>22. CASE StartWorker
  <2>0. /\ index \in Workers /\ index \in Int /\ index <= IOT_WORKER_THREADS
        /\ \A w \in worker_thread : w \in Int /\ 1 <= w /\ w <= IOT_WORKER_THREADS
    BY <1>0, IndexType
  <2>1. index \notin worker_thread /\ index \in Workers
    <3>1. \A w \in worker_thread : w < index
      BY <1>0, <1>22 DEF ThreadInv, StartWorker
    <3> QED  BY <2>0, <3>1
  <2>2. \A w \in worker_thread' : w < index \/ w = index
    BY <1>0, <1>22 DEF ThreadInv, StartWorker
  <2>3. \A w \in Workers : worker'[w] # "none" <=> w \in worker_thread'
    BY <1>0, <2>1, <1>22 DEF TypeOK, ThreadInv, StartWorker
  <2>4. ASSUME app' = "start workers", NEW w \in worker_thread' PROVE w < index'
    <3>1. index' = index + 1 /\ worker_thread' = worker_thread \cup {index}
      BY <1>22, <2>4 DEF StartWorker
    <3>2. w \in Int /\ index \in Int /\ (w < index \/ w = index)
      BY <2>0, <2>2, <3>1
    <3> QED  BY <3>1, <3>2
  <2> QED  BY <1>0, <2>3, <2>4, <1>22 DEF ThreadInv, StartWorker
<1>23. CASE StartFails
  BY <1>0, <1>23 DEF TypeOK, ThreadInv, StartFails
<1>24. CASE ClearQuit
  BY <1>0, <1>24 DEF TypeOK, ThreadInv, ClearQuit
<1>25. CASE Stop
  BY <1>0, <1>25 DEF TypeOK, ThreadInv, Stop
<1>26. CASE JoinMain
  BY <1>0, <1>26 DEF TypeOK, ThreadInv, JoinMain
<1>27. CASE Broadcast
  <2>1. \A w \in worker_thread : w >= 1
    BY <1>0 DEF TypeOK, Workers
  <2> QED  BY <1>0, <2>1, <1>27 DEF TypeOK, ThreadInv, Broadcast
<1>28. CASE JoinWorker
  <2>0. /\ index \in Workers /\ index \in Int /\ index <= IOT_WORKER_THREADS
        /\ \A w \in worker_thread : w \in Int /\ 1 <= w /\ w <= IOT_WORKER_THREADS
    BY <1>0, IndexType
  <2>1. \A w \in Workers : worker'[w] # "none" <=> w \in worker_thread'
    BY <1>0, <1>28 DEF TypeOK, ThreadInv, JoinWorker
  <2>2. \A w \in worker_thread' : w \in Int /\ w > index /\ w <= IOT_WORKER_THREADS
    <3>1. worker_thread' = worker_thread \ {index}
      BY <1>28 DEF JoinWorker
    <3>2. \A w \in worker_thread : w >= index
      BY <1>0, <1>28 DEF ThreadInv, JoinWorker
    <3> QED  BY <2>0, <3>1, <3>2
  <2>3. ASSUME app' = "stop workers", NEW w \in worker_thread' PROVE w >= index'
    <3>1. index' = index + 1
      BY <1>28, <2>3 DEF JoinWorker
    <3>2. w \in Int /\ w > index /\ index \in Int
      BY <2>0, <2>2
    <3> QED  BY <3>1, <3>2
  <2>4. ASSUME app' = "stop link", NEW w \in worker_thread' PROVE FALSE
    <3>1. ~(index < IOT_WORKER_THREADS)
      BY <1>28, <2>4 DEF JoinWorker
    <3>2. w \in Int /\ w > index /\ index \in Int /\ w <= IOT_WORKER_THREADS
      BY <2>0, <2>2
    <3> QED  BY <3>1, <3>2, SizesAssumption
  <2> QED  BY <1>0, <2>1, <2>3, <2>4, <1>28 DEF ThreadInv, JoinWorker
<1>29. CASE Disconnect
  BY <1>0, <1>29 DEF TypeOK, ThreadInv, Disconnect
<1>30. CASE UNCHANGED vars
  BY <1>0, <1>30 DEF TypeOK, ThreadInv, vars
<1> QED
  BY <1>a, <1>1, <1>2, <1>3, <1>4, <1>5, <1>6, <1>7, <1>8, <1>9, <1>10, <1>11, <1>12,
     <1>13, <1>14, <1>15, <1>16, <1>17, <1>18, <1>19, <1>20, <1>21, <1>22, <1>23,
     <1>24, <1>25, <1>26, <1>27, <1>28, <1>29, <1>30
  DEF Next, MqttStep, Process, StartStep, StopStep

-----------------------------------------------------------------------------
(* Where the records are.  Only four steps move one.                        *)

slotVars == <<request_queue_free, request_queue_free_count, request_queue_wait,
              held, incoming>>

LEMMA SlotFrame ==
  ASSUME IInv, [Next]_vars
  PROVE  \/ \E r \in Requests : Receive(r)
         \/ Submit
         \/ \E w \in Workers : EnterTake(w) \/ WokenTake(w)
         \/ \E w \in Workers : Release(w)
         \/ UNCHANGED slotVars
<1> USE DEF slotVars, loopVars, queueVars, lockVars, workerVars, mqttVars, appVars
<1>1. ASSUME NEW r \in Requests, Refuse(r) PROVE UNCHANGED slotVars
  BY <1>1 DEF Refuse
<1>2. MqttStep => Submit \/ UNCHANGED slotVars
  BY DEF MqttStep, Fill, Signal
<1>3. ASSUME NEW w \in Workers, Process(w)
      PROVE  EnterTake(w) \/ WokenTake(w) \/ Release(w) \/ UNCHANGED slotVars
  BY <1>3 DEF Process, TestQuit, EnterWait, WokenExit, Look, Lock, Executed,
              Complete, Clear
<1>4. ASSUME NEW w \in Workers, SpuriousWakeup(w) PROVE UNCHANGED slotVars
  BY <1>4 DEF SpuriousWakeup
<1>5. MainExit \/ Connect \/ StartStep \/ StartFails \/ Stop \/ StopStep => UNCHANGED slotVars
  BY DEF MainExit, Connect, StartStep, StartMain, AlreadyStarted, StartWorker,
         ClearQuit, StartFails, Stop, StopStep, JoinMain, Broadcast, JoinWorker,
         Disconnect
<1>6. UNCHANGED vars => UNCHANGED slotVars
  BY DEF vars
<1> QED  BY <1>1, <1>2, <1>3, <1>4, <1>5, <1>6 DEF Next

Places == /\ SlotsFree' = SlotsFree /\ SlotsWaiting' = SlotsWaiting
          /\ SlotsHeld' = SlotsHeld /\ SlotIncoming' = SlotIncoming

Apart ==
  /\ SlotsFree \cap (SlotsWaiting \cup SlotsHeld \cup SlotIncoming) = {}
  /\ SlotsWaiting \cap (SlotsHeld \cup SlotIncoming) = {}
  /\ SlotsHeld \cap SlotIncoming = {}
Distinct ==
  /\ \A i, j \in Slots :
       i # j /\ i >= request_queue_free_count /\ j >= request_queue_free_count
         => request_queue_free[i] # request_queue_free[j]
  /\ \A i, j \in 1 .. Len(request_queue_wait) :
       i # j => request_queue_wait[i] # request_queue_wait[j]
  /\ \A v, w \in Workers : v # w /\ held[v] = held[w] => held[w] = NoSlot

LEMMA SharedParts == NoSlotShared <=> Distinct /\ Apart
  BY DEF NoSlotShared, Distinct, Apart

(* Allocation moves the first free record to the MQTT thread.               *)
LEMMA ReceiveMoves ==
  ASSUME IInv, NEW r \in Requests, Receive(r)
  PROVE  /\ Distinct' /\ Apart' /\ NoSlotLost'
         /\ incoming' \in SlotsFree /\ incoming' \in Slots /\ incoming = NoSlot
         /\ SlotsWaiting' = SlotsWaiting /\ SlotsFree' = SlotsFree \ {incoming'}
         /\ request_queue' = [request_queue EXCEPT ![incoming'] = r]
<1> DEFINE s == request_queue_free[request_queue_free_count]
<1>1. TypeOK /\ HandsInv /\ Distinct /\ Apart /\ NoSlotLost
  BY SharedParts DEF IInv
<1>2. /\ request_queue_free_count \in Slots /\ request_queue_free_count \in Int
      /\ request_queue_free_count' = request_queue_free_count + 1
      /\ request_queue_free' = request_queue_free
      /\ request_queue_wait' = request_queue_wait
      /\ held' = held /\ incoming' = s /\ s \in Slots
  BY <1>1, SizesAssumption DEF Receive, Allocate, workerVars, TypeOK, Slots
<1>3. incoming = NoSlot /\ s # NoSlot
  BY <1>1, <1>2 DEF Receive, HandsInv, Slots, NoSlot
<1>4. SlotIncoming = {} /\ SlotIncoming' = {s}
  BY <1>2, <1>3 DEF SlotIncoming
<1>5. SlotsWaiting' = SlotsWaiting /\ SlotsHeld' = SlotsHeld
  BY <1>2 DEF SlotsWaiting, SlotsHeld
<1>6. s \in SlotsFree /\ SlotsFree' = SlotsFree \ {s}
  <2>1. s \in SlotsFree
    BY <1>2 DEF SlotsFree
  <2>2. \A i \in Slots : i \in Int
    BY DEF Slots
  <2>3. \A i \in Slots : i >= request_queue_free_count + 1 <=>
          i >= request_queue_free_count /\ i # request_queue_free_count
    BY <1>2, <2>2
  <2>4. \A i \in Slots : i >= request_queue_free_count /\ i # request_queue_free_count
          => request_queue_free[i] # s
    BY <1>1, <1>2 DEF Distinct
  <2>5. SlotsFree' = {request_queue_free[i] : i \in {j \in Slots :
           j >= request_queue_free_count /\ j # request_queue_free_count}}
    BY <1>2, <2>3 DEF SlotsFree
  <2> QED  BY <2>1, <2>4, <2>5 DEF SlotsFree
<1>7. Distinct'
  <2>1. \A i \in Slots : i \in Int
    BY DEF Slots
  <2>2. \A i \in Slots : i >= request_queue_free_count' => i >= request_queue_free_count
    BY <1>2, <2>1
  <2> QED  BY <1>1, <1>2, <2>2 DEF Distinct
<1>8. Apart'
  BY <1>1, <1>4, <1>5, <1>6 DEF Apart
<1>9. NoSlotLost'
  BY <1>1, <1>4, <1>5, <1>6 DEF NoSlotLost
<1>10. request_queue' = [request_queue EXCEPT ![incoming'] = r]
  BY <1>2 DEF Receive, Allocate
<1> QED  BY <1>2, <1>3, <1>5, <1>6, <1>7, <1>8, <1>9, <1>10

(* Submission moves it to the end of the wait queue.                        *)
LEMMA SubmitMoves ==
  ASSUME IInv, Submit
  PROVE  /\ Distinct' /\ Apart' /\ NoSlotLost'
         /\ incoming \in Slots /\ incoming' = NoSlot
         /\ request_queue_wait' = Append(request_queue_wait, incoming)
         /\ SlotsWaiting' = SlotsWaiting \cup {incoming}
         /\ SlotsFree' = SlotsFree
<1>1. TypeOK /\ HandsInv /\ Distinct /\ Apart /\ NoSlotLost /\ NoSlotShared
  BY SharedParts DEF IInv
<1>2. incoming # NoSlot /\ incoming \in Slots
  BY <1>1 DEF Submit, HandsInv, TypeOK
<1>3. /\ request_queue_wait' = Append(request_queue_wait, incoming)
      /\ UNCHANGED <<request_queue_free, request_queue_free_count, held>>
      /\ incoming' = NoSlot
  BY <1>1, <1>2, RoomToQueue DEF Submit
<1>4. SlotIncoming = {incoming} /\ SlotIncoming' = {}
  BY <1>2, <1>3 DEF SlotIncoming
<1>5. SlotsFree' = SlotsFree /\ SlotsHeld' = SlotsHeld
  BY <1>3 DEF SlotsFree, SlotsHeld
<1> DEFINE L == Len(request_queue_wait)
<1>6. /\ L \in Nat /\ Len(request_queue_wait') = L + 1
      /\ request_queue_wait'[L + 1] = incoming
      /\ \A i \in 1 .. L : request_queue_wait'[i] = request_queue_wait[i]
  BY <1>1, <1>2, <1>3 DEF TypeOK
<1>7. \A i \in 1 .. L + 1 : i \in 1 .. L \/ i = L + 1
  BY <1>6
<1>8. SlotsWaiting' = SlotsWaiting \cup {incoming}
  BY <1>6, <1>7 DEF SlotsWaiting
<1>9. Distinct'
  <2>1. \A i \in 1 .. L : request_queue_wait[i] # incoming
    BY <1>1, <1>4 DEF Apart, SlotsWaiting
  <2>2. \A i, j \in 1 .. Len(request_queue_wait') :
          i # j => request_queue_wait'[i] # request_queue_wait'[j]
    BY <1>1, <1>6, <1>7, <2>1 DEF Distinct
  <2> QED  BY <1>1, <1>3, <2>2 DEF Distinct
<1>10. Apart'
  BY <1>1, <1>4, <1>5, <1>8 DEF Apart
<1>11. NoSlotLost'
  BY <1>1, <1>4, <1>5, <1>8 DEF NoSlotLost
<1> QED  BY <1>2, <1>3, <1>5, <1>8, <1>9, <1>10, <1>11

(* Taking moves the head of the wait queue to a worker.                     *)
LEMMA TakeMoves ==
  ASSUME IInv, NEW w \in Workers, EnterTake(w) \/ WokenTake(w)
  PROVE  /\ Distinct' /\ Apart' /\ NoSlotLost'
         /\ held[w] = NoSlot /\ held' = [held EXCEPT ![w] = Head(request_queue_wait)]
         /\ Head(request_queue_wait) \in SlotsWaiting
         /\ SlotsWaiting' = SlotsWaiting \ {Head(request_queue_wait)}
         /\ SlotsFree' = SlotsFree
<1> DEFINE s == Head(request_queue_wait)
           L == Len(request_queue_wait)
<1>1. TypeOK /\ HandsInv /\ Distinct /\ Apart /\ NoSlotLost
  BY SharedParts DEF IInv
<1>2. held[w] = NoSlot
  BY <1>1 DEF HandsInv, Holding, EnterTake, WokenTake, Move
<1>3. /\ request_queue_wait # <<>>
      /\ request_queue_wait' = Tail(request_queue_wait)
      /\ held' = [held EXCEPT ![w] = s]
      /\ UNCHANGED <<request_queue_free, request_queue_free_count, incoming>>
  BY DEF EnterTake, WokenTake, Take, mqttVars
<1>4. /\ L \in Nat /\ L > 0 /\ s = request_queue_wait[1] /\ s \in Slots
      /\ Len(request_queue_wait') = L - 1
      /\ \A i \in 1 .. L - 1 : request_queue_wait'[i] = request_queue_wait[i + 1]
  BY <1>1, <1>3 DEF TypeOK
<1>5. SlotsFree' = SlotsFree /\ SlotIncoming' = SlotIncoming
  BY <1>3 DEF SlotsFree, SlotIncoming
<1>6. /\ \A i \in 1 .. L : i # 1 => request_queue_wait[i] # s
      /\ s \in SlotsWaiting
  BY <1>1, <1>4 DEF Distinct, SlotsWaiting
<1>7. SlotsWaiting' = SlotsWaiting \ {s}
  <2>1. ASSUME NEW x \in SlotsWaiting' PROVE x \in SlotsWaiting \ {s}
    <3>1. PICK i \in 1 .. L - 1 : x = request_queue_wait[i + 1]
      BY <1>4, <2>1 DEF SlotsWaiting
    <3>2. i + 1 \in 1 .. L /\ i + 1 # 1
      BY <1>4
    <3> QED  BY <1>6, <3>1, <3>2 DEF SlotsWaiting
  <2>2. ASSUME NEW x \in SlotsWaiting, x # s PROVE x \in SlotsWaiting'
    <3>1. PICK i \in 1 .. L : x = request_queue_wait[i]
      BY DEF SlotsWaiting
    <3>2. i - 1 \in 1 .. L - 1 /\ (i - 1) + 1 = i
      BY <1>4, <2>2, <3>1
    <3>3. request_queue_wait'[i - 1] = x
      BY <1>4, <3>1, <3>2
    <3> QED  BY <1>4, <3>2, <3>3 DEF SlotsWaiting
  <2> QED  BY <2>1, <2>2
<1>8. s # NoSlot
  BY <1>4 DEF Slots, NoSlot
<1>9. SlotsHeld' = SlotsHeld \cup {s}
  BY <1>1, <1>2, <1>3, <1>8 DEF SlotsHeld, TypeOK
<1>10. Distinct'
  <2>1. s \notin SlotsHeld
    BY <1>1, <1>6 DEF Apart
  <2>2. \A v, u \in Workers : v # u /\ held'[v] = held'[u] => held'[u] = NoSlot
    BY <1>1, <1>3, <1>8, <2>1 DEF Distinct, SlotsHeld, TypeOK
  <2>3. \A i, j \in 1 .. L - 1 : i # j => request_queue_wait'[i] # request_queue_wait'[j]
    <3> SUFFICES ASSUME NEW i \in 1 .. L - 1, NEW j \in 1 .. L - 1, i # j
                 PROVE  request_queue_wait[i + 1] # request_queue_wait[j + 1]
      BY <1>4
    <3>1. i + 1 \in 1 .. L /\ j + 1 \in 1 .. L /\ i + 1 # j + 1
      BY <1>4
    <3> QED  BY <1>1, <3>1 DEF Distinct
  <2> QED  BY <1>1, <1>3, <1>4, <2>2, <2>3 DEF Distinct
<1>11. Apart'
  BY <1>1, <1>5, <1>6, <1>7, <1>9 DEF Apart
<1>12. NoSlotLost'
  BY <1>1, <1>5, <1>6, <1>7, <1>9 DEF NoSlotLost
<1> QED  BY <1>2, <1>3, <1>5, <1>6, <1>7, <1>10, <1>11, <1>12

(* Release moves it to the first free place.                                *)
LEMMA ReleaseMoves ==
  ASSUME IInv, NEW w \in Workers, Release(w)
  PROVE  /\ Distinct' /\ Apart' /\ NoSlotLost'
         /\ SlotsFree' = SlotsFree \cup {held[w]}
<1> DEFINE s == held[w]
           c == request_queue_free_count - 1
<1>1. TypeOK /\ HandsInv /\ Distinct /\ Apart /\ NoSlotLost /\ NoSlotShared
  BY SharedParts DEF IInv
<1>2. s # NoSlot /\ s \in Slots
  BY <1>1 DEF HandsInv, Holding, Release, Move, TypeOK
<1>3. c \in Slots /\ c \in Int /\ request_queue_free_count = c + 1
  <2>1. request_queue_free_count > 0
    BY <1>1, <1>2, SomeInUse
  <2>2. request_queue_free_count \in Int /\ request_queue_free_count <= IOT_ACTION_QUEUE_MAX
    BY <1>1, SizesAssumption DEF TypeOK
  <2> QED  BY <2>1, <2>2, SizesAssumption DEF Slots
<1>4. /\ request_queue_free_count' = c
      /\ request_queue_free' = [request_queue_free EXCEPT ![c] = s]
      /\ held' = [held EXCEPT ![w] = NoSlot]
      /\ request_queue_wait' = request_queue_wait /\ incoming' = incoming
  BY DEF Release, mqttVars
<1>5. SlotsWaiting' = SlotsWaiting /\ SlotIncoming' = SlotIncoming
  BY <1>4 DEF SlotsWaiting, SlotIncoming
<1>6. s \in SlotsHeld /\ SlotsHeld' = SlotsHeld \ {s}
  BY <1>1, <1>2, <1>4 DEF SlotsHeld, Distinct, TypeOK
<1>7. \A i \in Slots : i \in Int /\ (i >= c <=> i = c \/ i >= request_queue_free_count)
  <2>1. \A i \in Slots : i \in Int
    BY DEF Slots
  <2> QED  BY <1>3, <2>1
<1>8. /\ request_queue_free'[c] = s
      /\ \A i \in Slots : i # c => request_queue_free'[i] = request_queue_free[i]
      /\ ~(c >= request_queue_free_count)
  BY <1>1, <1>3, <1>4 DEF TypeOK
<1>9. SlotsFree' = SlotsFree \cup {s}
  BY <1>3, <1>4, <1>7, <1>8 DEF SlotsFree
<1>10. Distinct'
  <2>1. \A i \in Slots : i >= request_queue_free_count => request_queue_free[i] # s
    BY <1>1, <1>6 DEF Apart, SlotsFree
  <2>2. \A i, j \in Slots :
          i # j /\ i >= request_queue_free_count' /\ j >= request_queue_free_count'
            => request_queue_free'[i] # request_queue_free'[j]
    BY <1>1, <1>4, <1>7, <1>8, <2>1 DEF Distinct
  <2>3. \A v, u \in Workers : v # u /\ held'[v] = held'[u] => held'[u] = NoSlot
    BY <1>1, <1>4 DEF Distinct, TypeOK
  <2> QED  BY <1>1, <1>4, <2>2, <2>3 DEF Distinct
<1>11. Apart'
  BY <1>1, <1>5, <1>6, <1>9 DEF Apart
<1>12. NoSlotLost'
  BY <1>1, <1>5, <1>6, <1>9 DEF NoSlotLost
<1> QED  BY <1>9, <1>10, <1>11, <1>12

LEMMA SlotStep == IInv /\ [Next]_vars => NoSlotShared' /\ NoSlotLost'
<1> SUFFICES ASSUME IInv, [Next]_vars PROVE Distinct' /\ Apart' /\ NoSlotLost'
  BY SharedParts DEF NoSlotShared, Distinct, Apart
<1>1. ASSUME UNCHANGED slotVars PROVE Distinct' /\ Apart' /\ NoSlotLost'
  <2>1. Distinct /\ Apart /\ NoSlotLost
    BY SharedParts DEF IInv
  <2>2. Places
    BY <1>1 DEF slotVars, Places, SlotsFree, SlotsWaiting, SlotsHeld, SlotIncoming
  <2>3. Distinct'
    BY <1>1, <2>1 DEF slotVars, Distinct
  <2> QED  BY <2>1, <2>2, <2>3 DEF Places, Apart, NoSlotLost
<1> QED  BY <1>1, SlotFrame, ReceiveMoves, SubmitMoves, TakeMoves, ReleaseMoves

-----------------------------------------------------------------------------
(* The read/write lock.                                                     *)

(* While a worker executes an action nobody touches its record: records are *)
(* written by whoever allocates or clears them, and those are other ones.   *)
LEMMA RunnerKeepsRequest ==
  ASSUME IInv, [Next]_vars, NEW v \in Workers, worker[v] = "run", worker'[v] = "run"
  PROVE  Request(v)' = Request(v)
<1> USE DEF Move, loopVars, queueVars, lockVars, workerVars, mqttVars, appVars
<1>1. TypeOK /\ HandsInv /\ Distinct /\ Apart
  BY SharedParts DEF IInv
<1>2. held[v] # NoSlot /\ held[v] \in SlotsHeld
  BY <1>1 DEF HandsInv, Holding, SlotsHeld
<1>3. ASSUME NEW r \in Requests, Receive(r) PROVE Request(v)' = Request(v)
  <2> DEFINE s == request_queue_free[request_queue_free_count]
  <2>1. held' = held /\ request_queue' = [request_queue EXCEPT ![s] = r]
    BY <1>3 DEF Receive, Allocate
  <2>2. request_queue_free_count \in Slots /\ request_queue_free_count \in Int
    BY <1>1, <1>3, SizesAssumption DEF TypeOK, Receive, Allocate, Slots
  <2>3. s \in SlotsFree
    BY <2>2 DEF SlotsFree
  <2>4. s # held[v]
    BY <1>1, <1>2, <2>3 DEF Apart
  <2>5. request_queue'[held[v]] = request_queue[held[v]]
    BY <1>1, <1>2, <2>1, <2>4 DEF TypeOK
  <2> QED  BY <2>1, <2>5 DEF Request
<1>4. ASSUME NEW w \in Workers, Clear(w) PROVE Request(v)' = Request(v)
  <2>1. held' = held /\ request_queue' = [request_queue EXCEPT ![held[w]] = Blank]
    BY <1>4 DEF Clear
  <2>2. w # v
    BY <1>4 DEF Clear
  <2>3. held[w] # held[v]
    BY <1>1, <1>2, <2>2 DEF Distinct
  <2>4. request_queue'[held[v]] = request_queue[held[v]]
    BY <1>1, <1>2, <2>1, <2>3 DEF TypeOK
  <2> QED  BY <2>1, <2>4 DEF Request
<1>5. ASSUME NEW w \in Workers, EnterTake(w) \/ WokenTake(w) \/ Release(w)
      PROVE  Request(v)' = Request(v)
  <2>1. w # v /\ request_queue' = request_queue
    BY <1>1, <1>5 DEF EnterTake, WokenTake, Take, Release, TypeOK
  <2>2. held'[v] = held[v]
    BY <1>1, <1>5, <2>1 DEF EnterTake, WokenTake, Take, Release, TypeOK
  <2> QED  BY <2>1, <2>2 DEF Request
<1>6. ASSUME UNCHANGED <<held, request_queue>> PROVE Request(v)' = Request(v)
  BY <1>6 DEF Request
<1>7. ASSUME NEW r \in Requests, Refuse(r) PROVE UNCHANGED <<held, request_queue>>
  BY <1>7 DEF Refuse
<1>8. MqttStep => UNCHANGED <<held, request_queue>>
  BY DEF MqttStep, Fill, Submit, Signal
<1>9. ASSUME NEW w \in Workers, Process(w) \/ SpuriousWakeup(w)
      PROVE  \/ EnterTake(w) \/ WokenTake(w) \/ Release(w) \/ Clear(w)
             \/ UNCHANGED <<held, request_queue>>
  BY <1>9 DEF Process, TestQuit, EnterWait, WokenExit, Look, Lock, Executed,
              Complete, SpuriousWakeup
<1>10. MainExit \/ Connect \/ StartStep \/ StartFails \/ Stop \/ StopStep \/ UNCHANGED vars
         => UNCHANGED <<held, request_queue>>
  BY DEF MainExit, Connect, StartStep, StartMain, AlreadyStarted, StartWorker,
         ClearQuit, StartFails, Stop, StopStep, JoinMain, Broadcast, JoinWorker,
         Disconnect, vars
<1> QED
  BY <1>3, <1>4, <1>5, <1>6, <1>7, <1>8, <1>9, <1>10 DEF Next

(* Only two steps take or give up the lock, and only they begin or end an   *)
(* execution.                                                               *)
LEMMA LockFrame ==
  ASSUME IInv, [Next]_vars
  PROVE  \/ \E w \in Workers : Lock(w)
         \/ \E w \in Workers, result \in Results : Executed(w, result)
         \/ /\ UNCHANGED lockVars
            /\ \A v \in Workers : worker'[v] = "run" <=> worker[v] = "run"
<1> USE DEF Move, loopVars, queueVars, lockVars, workerVars, mqttVars, appVars
<1> DEFINE Idle == /\ UNCHANGED lockVars
                   /\ \A v \in Workers : worker'[v] = "run" <=> worker[v] = "run"
<1>1. TypeOK /\ ThreadInv
  BY DEF IInv
<1>2. ASSUME NEW r \in Requests, Receive(r) \/ Refuse(r) PROVE Idle
  BY <1>2 DEF Receive, Refuse
<1>3. CASE MqttStep
  BY <1>1, <1>3 DEF MqttStep, Fill, Submit, Signal, TypeOK
<1>4. ASSUME NEW w \in Workers, Process(w) \/ SpuriousWakeup(w)
      PROVE  Lock(w) \/ (\E result \in Results : Executed(w, result)) \/ Idle
  BY <1>1, <1>4 DEF Process, TestQuit, EnterTake, EnterWait, WokenTake, WokenExit,
       Take, Look, Complete, Clear, Release, SpuriousWakeup, TypeOK
<1>5. CASE StartWorker
  <2>1. index \in Workers /\ index \in Int
    BY <1>1, IndexType
  <2>2. \A w \in worker_thread : w < index
    BY <1>1, <1>5 DEF ThreadInv, StartWorker
  <2>3. index \notin worker_thread
    BY <2>1, <2>2
  <2>4. worker[index] = "none"
    BY <1>1, <2>1, <2>3 DEF ThreadInv
  <2> QED  BY <1>1, <1>5, <2>1, <2>4 DEF StartWorker, TypeOK
<1>6. CASE JoinWorker
  <2>1. index \in Workers /\ worker'[index] # "run" /\ worker[index] # "run"
    BY <1>1, <1>6, IndexType DEF JoinWorker, ThreadInv, TypeOK
  <2> QED  BY <1>1, <1>6, <2>1 DEF JoinWorker, TypeOK
<1>7. CASE Broadcast
  BY <1>7 DEF Broadcast
<1>8. MainExit \/ Connect \/ StartMain \/ AlreadyStarted \/ ClearQuit \/ StartFails
        \/ Stop \/ JoinMain \/ Disconnect \/ UNCHANGED vars => Idle
  BY DEF MainExit, Connect, StartMain, AlreadyStarted, ClearQuit, StartFails, Stop,
         JoinMain, Disconnect, vars
<1> QED
  BY <1>2, <1>3, <1>4, <1>5, <1>6, <1>7, <1>8 DEF Next, StartStep, StopStep

LEMMA LockStep == IInv /\ [Next]_vars => LockInv'
<1> SUFFICES ASSUME IInv, [Next]_vars PROVE LockInv'
  OBVIOUS
<1>1. TypeOK /\ LockInv
  BY DEF IInv
<1>2. \A v \in Workers : worker[v] = "run" /\ worker'[v] = "run" => Request(v)' = Request(v)
  BY RunnerKeepsRequest
<1>3. ASSUME NEW w \in Workers, Lock(w) PROVE LockInv'
  <2>1. /\ worker[w] = "lock" /\ worker'[w] = "run" /\ Request(w)' = Request(w)
        /\ \A v \in Workers : v # w => worker'[v] = worker[v]
    BY <1>1, <1>3 DEF Lock, Move, TypeOK, Request, queueVars, workerVars
  <2>2. w \notin readers /\ w \notin writers
    BY <1>1, <2>1 DEF LockInv
  <2>3. CASE Request(w) \in Exclusive
    BY <1>1, <1>2, <1>3, <2>1, <2>2, <2>3 DEF Lock, WriteLock, LockInv, TypeOK
  <2>4. CASE Request(w) \notin Exclusive
    BY <1>1, <1>2, <1>3, <2>1, <2>2, <2>4 DEF Lock, ReadLock, LockInv, TypeOK
  <2> QED  BY <2>3, <2>4
<1>4. ASSUME NEW w \in Workers, NEW result \in Results, Executed(w, result) PROVE LockInv'
  <2>1. /\ worker[w] = "run" /\ worker'[w] = "complete"
        /\ \A v \in Workers : v # w => worker'[v] = worker[v]
        /\ readers' = readers \ {w} /\ writers' = writers \ {w}
    BY <1>1, <1>4 DEF Executed, Move, TypeOK
  <2> QED  BY <1>1, <1>2, <2>1 DEF LockInv
<1>5. ASSUME UNCHANGED lockVars,
             \A v \in Workers : worker'[v] = "run" <=> worker[v] = "run"
      PROVE  LockInv'
  BY <1>1, <1>2, <1>5 DEF LockInv, lockVars
<1> QED  BY <1>3, <1>4, <1>5, LockFrame

-----------------------------------------------------------------------------
(* The theorems.                                                            *)

THEOREM Inductive == Spec => []IInv
<1>1. IInv /\ [Next]_vars => IInv'
  BY TypeStep, HandsStep, ThreadStep, SlotStep, LockStep DEF IInv
<1> QED  BY InitInv, <1>1, PTL DEF Spec

(* Every variable keeps its type: in particular the count of records in use *)
(* stays within the array, whatever the threads do.                         *)
THEOREM TypeCorrect == Spec => []TypeOK
<1>1. IInv => TypeOK
  BY DEF IInv
<1> QED  BY <1>1, Inductive, PTL

(* A record of the request queue is never in two hands.                     *)
THEOREM RecordsConserved == Spec => []NoSlotShared
<1>1. IInv => NoSlotShared
  BY DEF IInv
<1> QED  BY <1>1, Inductive, PTL

(* A record of the request queue is never lost: it is free, waits, or is in *)
(* the hands of a thread.                                                   *)
THEOREM RecordsKept == Spec => []NoSlotLost
<1>1. IInv => NoSlotLost
  BY DEF IInv
<1> QED  BY <1>1, Inductive, PTL

(* The branch for a full wait queue, which would leak a record, is dead.    *)
THEOREM NeverFull == Spec => []QueueNeverFull
<1>1. IInv => QueueNeverFull
  BY RoomToQueue DEF IInv, HandsInv, QueueNeverFull
<1> QED  BY <1>1, Inductive, PTL

(* An exclusive action runs alone.                                          *)
THEOREM RunsAlone == Spec => []ExclusiveAlone
<1>1. IInv => ExclusiveAlone
  BY DEF IInv, LockInv, ExclusiveAlone
<1> QED  BY <1>1, Inductive, PTL

(* iot_disconnect closes the link when no thread of the library is left.    *)
THEOREM StopLeavesNothing == Spec => []NoThreadOutlivesStop
<1>1. IInv => NoThreadOutlivesStop
  BY DEF IInv, TypeOK, ThreadInv, HandsInv, Holding, LockInv, NoThreadOutlivesStop
<1> QED  BY <1>1, Inductive, PTL

-----------------------------------------------------------------------------
(* The queue implements the ledger.                                         *)

(* What a record stands for in the ledger, by the place it is in and, in a  *)
(* worker's hands, by what the worker does with it.                         *)
WorkerPlace ==
  [st \in WorkerStates |-> CASE st \in {"look", "lock"} -> "taken"
                             [] st = "run"      -> "running"
                             [] st = "complete" -> "finished"
                             [] OTHER           -> "none"]
Place ==
  [s \in Slots |->
     IF s \in SlotsWaiting THEN "queued"
     ELSE IF s = incoming THEN "accepted"
     ELSE IF \E w \in Workers : held[w] = s
          THEN WorkerPlace[worker[CHOOSE w \in Workers : held[w] = s]]
     ELSE "none"]
Live      == {s \in Slots : Place[s] # "none"}
Unsettled == {r \in Requests : r \notin inbox /\ r \notin refused /\ outcome[r] = <<>>}

(* Every request the library has accepted and not yet reported has exactly  *)
(* one record.                                                              *)
RecordsInv ==
  /\ \A s \in Live : request_queue[s] \in Unsettled
  /\ \A s, t \in Live : request_queue[s] = request_queue[t] => s = t
  /\ \A r \in Unsettled : \E s \in Live : request_queue[s] = r

(* A request is refused or reported only after it has arrived, never both.  *)
SettledInv ==
  /\ \A r \in Requests : outcome[r] # <<>> => r \notin inbox /\ r \notin refused
  /\ \A r \in inbox : r \notin refused

(* A worker gives back the record of a request it has reported, executes    *)
(* registered actions, and brings no status of an earlier request along.    *)
DutyInv ==
  \A w \in Workers :
    /\ worker[w] = "clear" => Request(w) \in Requests /\ outcome[Request(w)] # <<>>
    /\ worker[w] = "release" => Request(w) = Blank
    /\ worker[w] # "complete" => action_result[w] = "NOT_FOUND"
    /\ worker[w] \in {"lock", "run"} => Request(w) \in Registered

LedgerInv == RecordsInv /\ SettledInv /\ DutyInv

(* Where each record is, read off the places.                               *)
PlaceTable ==
  /\ Place \in [Slots -> {"queued", "accepted", "taken", "running", "finished", "none"}]
  /\ \A s \in SlotsWaiting : Place[s] = "queued"
  /\ \A s \in SlotIncoming : Place[s] = "accepted"
  /\ \A w \in Workers : held[w] # NoSlot => Place[held[w]] = WorkerPlace[worker[w]]
  /\ \A s \in SlotsFree : Place[s] = "none"

LEMMA PlacesRight == IInv => PlaceTable
<1> SUFFICES ASSUME IInv PROVE PlaceTable
  OBVIOUS
<1>1. TypeOK /\ HandsInv /\ Distinct /\ Apart /\ NoSlotLost
  BY SharedParts DEF IInv
<1>2. NoSlot \notin Slots
  BY SizesAssumption DEF Slots, NoSlot
<1>3. SlotsWaiting \subseteq Slots /\ SlotsFree \subseteq Slots
  <2>1. request_queue_wait \in Seq(Slots) /\ request_queue_free \in [Slots -> Slots]
    BY <1>1 DEF TypeOK
  <2> QED  BY <2>1 DEF SlotsWaiting, SlotsFree
<1>4. \A s \in Slots : s = incoming <=> s \in SlotIncoming
  BY <1>2 DEF SlotIncoming
<1>5. \A s \in Slots : s \in SlotsHeld <=> \E w \in Workers : held[w] = s
  BY <1>2 DEF SlotsHeld
<1>6. \A w \in Workers : held[w] # NoSlot => held[w] \in Slots /\ held[w] \in SlotsHeld
  BY <1>1 DEF TypeOK, SlotsHeld
<1>7. \A w \in Workers : held[w] # NoSlot => (CHOOSE v \in Workers : held[v] = held[w]) = w
  BY <1>1 DEF Distinct
<1>8. \A w \in Workers : held[w] # NoSlot => Place[held[w]] = WorkerPlace[worker[w]]
  <2> SUFFICES ASSUME NEW w \in Workers, held[w] # NoSlot
               PROVE  Place[held[w]] = WorkerPlace[worker[w]]
    OBVIOUS
  <2>1. held[w] \in Slots /\ held[w] \notin SlotsWaiting /\ held[w] # incoming
    BY <1>1, <1>4, <1>6 DEF Apart
  <2> QED  BY <1>7, <2>1 DEF Place
<1>9. \A s \in SlotsWaiting : Place[s] = "queued"
  BY <1>3 DEF Place
<1>10. \A s \in SlotIncoming : Place[s] = "accepted"
  <2>1. SlotIncoming \subseteq Slots
    BY <1>1 DEF SlotIncoming, TypeOK
  <2>2. \A s \in SlotIncoming : s \notin SlotsWaiting /\ s = incoming
    BY <1>1 DEF Apart, SlotIncoming
  <2> QED  BY <2>1, <2>2 DEF Place
<1>11. \A s \in SlotsFree : Place[s] = "none"
  <2>1. \A s \in SlotsFree : /\ s \in Slots /\ s \notin SlotsWaiting /\ s # incoming
                             /\ ~\E w \in Workers : held[w] = s
    BY <1>1, <1>3, <1>4, <1>5 DEF Apart
  <2> QED  BY <2>1 DEF Place
<1>12. \A st \in WorkerStates : WorkerPlace[st] \in {"taken", "running", "finished", "none"}
  BY DEF WorkerPlace
<1>13. Place \in [Slots -> {"queued", "accepted", "taken", "running", "finished", "none"}]
  <2>1. Place = [s \in Slots |-> Place[s]]
    BY DEF Place
  <2>2. \A w \in Workers : held[w] # NoSlot =>
          Place[held[w]] \in {"queued", "accepted", "taken", "running", "finished", "none"}
    BY <1>1, <1>8, <1>12 DEF TypeOK
  <2>3. \A s \in Slots :
          Place[s] \in {"queued", "accepted", "taken", "running", "finished", "none"}
    BY <1>1, <1>2, <1>5, <1>9, <1>10, <1>11, <2>2 DEF NoSlotLost
  <2> QED  BY <2>1, <2>3
<1> QED  BY <1>8, <1>9, <1>10, <1>11, <1>13 DEF PlaceTable

(* The steps that move a record, start or end an execution, or settle a     *)
(* request; every other one leaves all this alone.                          *)
Untouched ==
  /\ UNCHANGED <<slotVars, request_queue, action_result, inbox, refused, outcome>>
  /\ \A v \in Workers : held[v] # NoSlot => worker'[v] = worker[v]
  /\ \A v \in Workers : held[v] = NoSlot => worker'[v] \notin Holding

LEMMA LedgerFrame ==
  ASSUME IInv, IInv', [Next]_vars
  PROVE  \/ \E r \in Requests : Receive(r) \/ Refuse(r)
         \/ Submit
         \/ \E w \in Workers : \/ EnterTake(w) \/ WokenTake(w) \/ Look(w) \/ Lock(w)
                               \/ \E result \in Results : Executed(w, result)
                               \/ Complete(w) \/ Clear(w) \/ Release(w)
         \/ Untouched
<1> USE DEF slotVars, loopVars, queueVars, lockVars, workerVars, mqttVars, appVars, Move
<1>1. TypeOK /\ HandsInv /\ ThreadInv /\ TypeOK' /\ HandsInv'
  BY DEF IInv
<1> DEFINE Kept == UNCHANGED <<slotVars, request_queue, action_result, inbox, refused, outcome>>
<1>0. ASSUME Kept, \A v \in Workers : held[v] # NoSlot => worker'[v] = worker[v]
      PROVE  Untouched
  BY <1>0, <1>1 DEF Untouched, HandsInv
<1>2. CASE MqttStep
  <2>1. CASE Signal
    <3>1. \A v \in Workers : worker[v] = "wait" \/ worker'[v] = worker[v]
      BY <1>1, <2>1 DEF Signal, TypeOK
    <3> QED  BY <1>0, <1>1, <2>1, <3>1 DEF Signal, HandsInv, Holding
  <2>2. CASE Fill
    BY <1>0, <2>2 DEF Fill
  <2> QED  BY <1>2, <2>1, <2>2 DEF MqttStep
<1>3. ASSUME NEW w \in Workers,
             TestQuit(w) \/ EnterWait(w) \/ WokenExit(w) \/ SpuriousWakeup(w)
      PROVE  Untouched
  <2>1. Kept /\ worker[w] \in {"test", "enter", "woken", "wait"}
        /\ \A v \in Workers : v # w => worker'[v] = worker[v]
    BY <1>1, <1>3 DEF TestQuit, EnterWait, WokenExit, SpuriousWakeup, TypeOK
  <2> QED  BY <1>0, <1>1, <2>1 DEF HandsInv, Holding
<1>4. CASE StartWorker
  <2>1. index \in Workers /\ index \in Int
    BY <1>1, IndexType
  <2>2. \A w \in worker_thread : w < index
    BY <1>1, <1>4 DEF ThreadInv, StartWorker
  <2>3. index \notin worker_thread
    BY <2>1, <2>2
  <2>4. worker[index] = "none"
    BY <1>1, <2>1, <2>3 DEF ThreadInv
  <2>5. held[index] = NoSlot
    BY <1>1, <2>1, <2>4 DEF HandsInv, Holding
  <2> QED  BY <1>0, <1>1, <1>4, <2>1, <2>5 DEF StartWorker, TypeOK
<1>5. CASE JoinWorker
  <2>1. index \in Workers /\ (worker'[index] = worker[index] \/ worker[index] = "done")
    BY <1>1, <1>5, IndexType DEF JoinWorker, TypeOK
  <2>2. worker'[index] = worker[index] \/ held[index] = NoSlot
    BY <1>1, <2>1 DEF HandsInv, Holding
  <2> QED  BY <1>0, <1>1, <1>5, <2>1, <2>2 DEF JoinWorker, TypeOK
<1>6. CASE Broadcast
  BY <1>0, <1>1, <1>6 DEF Broadcast, HandsInv, Holding
<1>7. MainExit \/ Connect \/ StartMain \/ AlreadyStarted \/ ClearQuit \/ StartFails
        \/ Stop \/ JoinMain \/ Disconnect \/ UNCHANGED vars => Untouched
  BY <1>0 DEF MainExit, Connect, StartMain, AlreadyStarted, ClearQuit, StartFails, Stop,
         JoinMain, Disconnect, vars
<1> QED
  BY <1>2, <1>3, <1>4, <1>5, <1>6, <1>7 DEF Next, Process, StartStep, StopStep

(* What a step on a worker's own record does to the places.                 *)
LEMMA WorkerMoves ==
  ASSUME IInv, IInv', NEW w \in Workers, held[w] # NoSlot, UNCHANGED slotVars,
         \A v \in Workers : v # w => worker'[v] = worker[v]
  PROVE  Place' = [Place EXCEPT ![held[w]] = WorkerPlace[worker'[w]]]
<1>1. PlaceTable /\ NoSlotLost /\ TypeOK /\ Distinct
  BY PlacesRight, SharedParts DEF IInv
<1>2. PlaceTable'
  BY PlacesRight, PTL
<1>3. Places /\ held' = held /\ incoming' = incoming
  BY DEF slotVars, Places, SlotsFree, SlotsWaiting, SlotsHeld, SlotIncoming
<1>4. held[w] \in Slots
  BY <1>1 DEF TypeOK
<1>5. Place'[held[w]] = WorkerPlace[worker'[w]]
  BY <1>2, <1>3 DEF PlaceTable
<1>6. ASSUME NEW s \in Slots, s # held[w] PROVE Place'[s] = Place[s]
  <2>1. CASE s \in SlotsHeld
    <3>1. PICK v \in Workers : held[v] = s /\ held[v] # NoSlot
      BY <2>1 DEF SlotsHeld
    <3> QED  BY <1>1, <1>2, <1>3, <1>6, <3>1 DEF PlaceTable
  <2>2. CASE s \notin SlotsHeld
    BY <1>1, <1>2, <1>3, <2>2 DEF PlaceTable, Places, NoSlotLost
  <2> QED  BY <2>1, <2>2
<1>7. DOMAIN Place = Slots /\ DOMAIN Place' = Slots /\ Place' = [s \in Slots |-> Place'[s]]
  BY <1>1, <1>2 DEF PlaceTable
<1> QED  BY <1>4, <1>5, <1>6, <1>7

LEMMA UntouchedMoves ==
  ASSUME IInv, IInv', Untouched
  PROVE  Place' = Place
<1>1. PlaceTable /\ NoSlotLost
  BY PlacesRight DEF IInv
<1>2. PlaceTable'
  BY PlacesRight, PTL
<1>3. Places /\ held' = held
  BY DEF Untouched, slotVars, Places, SlotsFree, SlotsWaiting, SlotsHeld, SlotIncoming
<1>4. ASSUME NEW s \in Slots PROVE Place'[s] = Place[s]
  <2>1. CASE s \in SlotsHeld
    <3>1. PICK v \in Workers : held[v] = s /\ held[v] # NoSlot
      BY <2>1 DEF SlotsHeld
    <3>2. worker'[v] = worker[v]
      BY <3>1 DEF Untouched
    <3> QED  BY <1>1, <1>2, <1>3, <3>1, <3>2 DEF PlaceTable
  <2>2. CASE s \notin SlotsHeld
    BY <1>1, <1>2, <1>3, <2>2 DEF PlaceTable, Places, NoSlotLost
  <2> QED  BY <2>1, <2>2
<1> QED  BY <1>1, <1>2, <1>4 DEF PlaceTable

(* What the steps that move a record do to the places.                      *)
LEMMA ReceivePlace ==
  ASSUME IInv, IInv', NEW r \in Requests, Receive(r)
  PROVE  /\ incoming' \in Slots /\ Place[incoming'] = "none"
         /\ Place' = [Place EXCEPT ![incoming'] = "accepted"]
<1>1. PlaceTable /\ NoSlotLost
  BY PlacesRight DEF IInv
<1>2. PlaceTable' /\ NoSlotLost'
  BY PlacesRight, PTL DEF IInv
<1>3. /\ incoming' \in Slots /\ incoming' \in SlotsFree
      /\ SlotsWaiting' = SlotsWaiting /\ SlotsFree' = SlotsFree \ {incoming'}
      /\ SlotIncoming = {} /\ SlotsHeld' = SlotsHeld
      /\ held' = held /\ worker' = worker
  BY ReceiveMoves DEF SlotIncoming, SlotsHeld, Receive, workerVars
<1>4. incoming' \in SlotIncoming'
  BY <1>3, SizesAssumption DEF SlotIncoming, Slots, NoSlot
<1>5. Place[incoming'] = "none" /\ Place'[incoming'] = "accepted"
  BY <1>1, <1>2, <1>3, <1>4 DEF PlaceTable
<1>6. ASSUME NEW s \in Slots, s # incoming' PROVE Place'[s] = Place[s]
  <2>1. CASE s \in SlotsHeld
    <3>1. PICK v \in Workers : held[v] = s /\ held[v] # NoSlot
      BY <2>1 DEF SlotsHeld
    <3> QED  BY <1>1, <1>2, <1>3, <3>1 DEF PlaceTable
  <2>2. CASE s \in SlotsFree
    BY <1>1, <1>2, <1>3, <1>6, <2>2 DEF PlaceTable
  <2>3. CASE s \in SlotsWaiting
    BY <1>1, <1>2, <1>3, <2>3 DEF PlaceTable
  <2> QED  BY <1>1, <1>3, <2>1, <2>2, <2>3 DEF NoSlotLost
<1> QED  BY <1>1, <1>2, <1>3, <1>5, <1>6 DEF PlaceTable

LEMMA SubmitPlace ==
  ASSUME IInv, IInv', Submit
  PROVE  /\ incoming \in Slots /\ Place[incoming] = "accepted"
         /\ Place' = [Place EXCEPT ![incoming] = "queued"]
<1>1. PlaceTable /\ NoSlotLost
  BY PlacesRight DEF IInv
<1>2. PlaceTable'
  BY PlacesRight, PTL
<1>3. /\ incoming \in Slots
      /\ SlotsWaiting' = SlotsWaiting \cup {incoming} /\ SlotsFree' = SlotsFree
      /\ held' = held /\ worker' = worker
  BY SubmitMoves DEF Submit
<1>4. SlotIncoming = {incoming}
  BY <1>3, SizesAssumption DEF SlotIncoming, Slots, NoSlot
<1>5. Place[incoming] = "accepted" /\ Place'[incoming] = "queued"
  BY <1>1, <1>2, <1>3, <1>4 DEF PlaceTable
<1>6. ASSUME NEW s \in Slots, s # incoming PROVE Place'[s] = Place[s]
  <2>1. CASE s \in SlotsHeld
    <3>1. PICK v \in Workers : held[v] = s /\ held[v] # NoSlot
      BY <2>1 DEF SlotsHeld
    <3> QED  BY <1>1, <1>2, <1>3, <3>1 DEF PlaceTable
  <2>2. CASE s \in SlotsFree
    BY <1>1, <1>2, <1>3, <1>6, <2>2 DEF PlaceTable
  <2>3. CASE s \in SlotsWaiting
    BY <1>1, <1>2, <1>3, <2>3 DEF PlaceTable
  <2> QED  BY <1>1, <1>4, <1>6, <2>1, <2>2, <2>3 DEF NoSlotLost
<1> QED  BY <1>1, <1>2, <1>3, <1>5, <1>6 DEF PlaceTable

LEMMA TakePlace ==
  ASSUME IInv, IInv', NEW w \in Workers, EnterTake(w) \/ WokenTake(w)
  PROVE  /\ held'[w] \in Slots /\ held'[w] = Head(request_queue_wait)
         /\ Place[held'[w]] = "queued"
         /\ Place' = [Place EXCEPT ![held'[w]] = "taken"]
<1>1. PlaceTable /\ NoSlotLost /\ TypeOK
  BY PlacesRight DEF IInv
<1>2. PlaceTable' /\ TypeOK'
  BY PlacesRight, PTL DEF IInv
<1> DEFINE h == Head(request_queue_wait)
<1>3. /\ held' = [held EXCEPT ![w] = h] /\ held[w] = NoSlot
      /\ SlotsWaiting' = SlotsWaiting \ {h} /\ h \in SlotsWaiting /\ SlotsFree' = SlotsFree
      /\ worker' = [worker EXCEPT ![w] = "look"]
      /\ SlotIncoming' = SlotIncoming
  BY TakeMoves DEF EnterTake, WokenTake, Take, Move, SlotIncoming, mqttVars
<1>4. /\ held'[w] = h /\ worker'[w] = "look"
      /\ \A v \in Workers : v # w => held'[v] = held[v] /\ worker'[v] = worker[v]
  BY <1>1, <1>3 DEF TypeOK
<1>5. h \in Slots /\ h # NoSlot
  <2>1. \A s \in SlotsWaiting : s \in Slots
    <3>1. request_queue_wait \in Seq(Slots)
      BY <1>1 DEF TypeOK
    <3> QED  BY <3>1 DEF SlotsWaiting
  <2> QED  BY <1>3, <2>1, SizesAssumption DEF Slots, NoSlot
<1>6. Place[h] = "queued" /\ Place'[h] = "taken"
  <2>1. WorkerPlace["look"] = "taken"
    BY DEF WorkerPlace, WorkerStates
  <2> QED  BY <1>1, <1>2, <1>3, <1>4, <1>5, <2>1 DEF PlaceTable
<1>7. ASSUME NEW s \in Slots, s # h PROVE Place'[s] = Place[s]
  <2>1. CASE s \in SlotsHeld
    <3>1. PICK v \in Workers : held[v] = s /\ held[v] # NoSlot
      BY <2>1 DEF SlotsHeld
    <3>2. v # w
      BY <1>3, <3>1
    <3> QED  BY <1>1, <1>2, <1>4, <3>1, <3>2 DEF PlaceTable
  <2>2. CASE s \in SlotsFree
    BY <1>1, <1>2, <1>3, <2>2 DEF PlaceTable
  <2>3. CASE s \in SlotsWaiting
    BY <1>1, <1>2, <1>3, <1>7, <2>3 DEF PlaceTable
  <2>4. CASE s \in SlotIncoming
    BY <1>1, <1>2, <1>3, <2>4 DEF PlaceTable
  <2> QED  BY <1>1, <2>1, <2>2, <2>3, <2>4 DEF NoSlotLost
<1> QED  BY <1>1, <1>2, <1>4, <1>5, <1>6, <1>7 DEF PlaceTable

LEMMA ReleasePlace ==
  ASSUME IInv, IInv', NEW w \in Workers, Release(w)
  PROVE  Place' = Place
<1>1. PlaceTable /\ NoSlotLost /\ TypeOK /\ HandsInv
  BY PlacesRight DEF IInv
<1>2. PlaceTable' /\ TypeOK'
  BY PlacesRight, PTL DEF IInv
<1>3. /\ held' = [held EXCEPT ![w] = NoSlot] /\ worker[w] = "release"
      /\ worker' = [worker EXCEPT ![w] = "test"]
      /\ SlotsWaiting' = SlotsWaiting /\ SlotIncoming' = SlotIncoming
      /\ SlotsFree' = SlotsFree \cup {held[w]}
  BY ReleaseMoves DEF Release, Move, SlotsWaiting, SlotIncoming, mqttVars
<1>4. /\ held'[w] = NoSlot
      /\ \A v \in Workers : v # w => held'[v] = held[v] /\ worker'[v] = worker[v]
  BY <1>1, <1>3 DEF TypeOK
<1>5. Place[held[w]] = "none" /\ Place'[held[w]] = "none"
  <2>1. WorkerPlace["release"] = "none"
    BY DEF WorkerPlace, WorkerStates
  <2>2. held[w] # NoSlot
    BY <1>1, <1>3 DEF HandsInv, Holding
  <2> QED  BY <1>1, <1>2, <1>3, <2>1, <2>2 DEF PlaceTable
<1>6. ASSUME NEW s \in Slots PROVE Place'[s] = Place[s]
  <2>1. CASE s \in SlotsHeld /\ s # held[w]
    <3>1. PICK v \in Workers : held[v] = s /\ held[v] # NoSlot
      BY <2>1 DEF SlotsHeld
    <3>2. v # w
      BY <2>1, <3>1
    <3> QED  BY <1>1, <1>2, <1>4, <3>1, <3>2 DEF PlaceTable
  <2>2. CASE s \in SlotsFree
    BY <1>1, <1>2, <1>3, <2>2 DEF PlaceTable
  <2>3. CASE s \in SlotsWaiting
    BY <1>1, <1>2, <1>3, <2>3 DEF PlaceTable
  <2>4. CASE s \in SlotIncoming
    BY <1>1, <1>2, <1>3, <2>4 DEF PlaceTable
  <2> QED  BY <1>1, <1>5, <2>1, <2>2, <2>3, <2>4 DEF NoSlotLost
<1> QED  BY <1>1, <1>2, <1>6 DEF PlaceTable

(* Working on a request leaves its record live until the report.            *)
LEMMA WorkerLive ==
  ASSUME IInv, NEW w \in Workers, worker[w] \in Holding
  PROVE  /\ held[w] \in Slots /\ held[w] # NoSlot
         /\ Place[held[w]] = WorkerPlace[worker[w]]
         /\ worker[w] \in {"look", "lock"} => Place[held[w]] = "taken"
         /\ worker[w] = "run" => Place[held[w]] = "running"
         /\ worker[w] = "complete" => Place[held[w]] = "finished"
         /\ worker[w] \in {"clear", "release"} => Place[held[w]] = "none"
         /\ WorkerPlace["look"] = "taken" /\ WorkerPlace["lock"] = "taken"
         /\ WorkerPlace["run"] = "running" /\ WorkerPlace["complete"] = "finished"
         /\ WorkerPlace["clear"] = "none" /\ WorkerPlace["release"] = "none"
<1>1. TypeOK /\ HandsInv /\ PlaceTable
  BY PlacesRight DEF IInv
<1>2. held[w] \in Slots /\ held[w] # NoSlot /\ Place[held[w]] = WorkerPlace[worker[w]]
  BY <1>1 DEF TypeOK, HandsInv, PlaceTable
<1>3. /\ WorkerPlace["look"] = "taken" /\ WorkerPlace["lock"] = "taken"
      /\ WorkerPlace["run"] = "running" /\ WorkerPlace["complete"] = "finished"
      /\ WorkerPlace["clear"] = "none" /\ WorkerPlace["release"] = "none"
  BY DEF WorkerPlace, WorkerStates
<1> QED  BY <1>2, <1>3

LEMMA LedgerInit == Init => LedgerInv
<1> SUFFICES ASSUME Init PROVE LedgerInv
  OBVIOUS
<1>1. PlaceTable
  BY InitInv, PlacesRight
<1>2. SlotsFree = Slots
  BY DEF Init, SlotsFree, Slots
<1>3. Live = {}
  BY <1>1, <1>2 DEF PlaceTable, Live
<1>4. Unsettled = {}
  BY DEF Init, Unsettled
<1> QED  BY <1>3, <1>4 DEF Init, LedgerInv, RecordsInv, SettledInv, DutyInv

(* The steps of a worker on its record: what each does to all of it.        *)
LEMMA WorkerStep ==
  ASSUME IInv, IInv', NEW w \in Workers, UNCHANGED slotVars,
         worker[w] \in Holding, worker'[w] \in Holding,
         worker' = [worker EXCEPT ![w] = worker'[w]]
  PROVE  Place' = [Place EXCEPT ![held[w]] = WorkerPlace[worker'[w]]]
<1>1. TypeOK
  BY DEF IInv
<1>2. \A v \in Workers : v # w => worker'[v] = worker[v]
  BY <1>1 DEF TypeOK
<1>3. held[w] # NoSlot
  BY WorkerLive
<1> QED  BY <1>2, <1>3, WorkerMoves

LEMMA RecordsStep ==
  ASSUME IInv, IInv', LedgerInv, [Next]_vars
  PROVE  RecordsInv'
<1>1. TypeOK /\ HandsInv /\ RecordsInv /\ SettledInv /\ PlaceTable
  BY PlacesRight DEF IInv, LedgerInv
<1>2. ASSUME Live' = Live, Unsettled' = Unsettled,
             \A s \in Live : request_queue'[s] = request_queue[s]
      PROVE  RecordsInv'
  BY <1>1, <1>2 DEF RecordsInv
<1>3. ASSUME UNCHANGED <<inbox, refused, outcome>>
      PROVE  Unsettled' = Unsettled
  BY <1>3 DEF Unsettled
<1>4. ASSUME NEW s \in Slots, NEW p, Place[s] # "none", p # "none",
             Place' = [Place EXCEPT ![s] = p]
      PROVE  Live' = Live
  BY <1>1, <1>4 DEF PlaceTable, Live
<1> USE DEF slotVars, loopVars, queueVars, lockVars, workerVars, mqttVars, appVars, Move
<1>5. ASSUME NEW r \in Requests, Receive(r) PROVE RecordsInv'
  <2> DEFINE s == incoming'
  <2>1. /\ s \in Slots /\ Place[s] = "none" /\ Place' = [Place EXCEPT ![s] = "accepted"]
        /\ request_queue' = [request_queue EXCEPT ![s] = r]
    BY <1>5, ReceivePlace, ReceiveMoves
  <2>2. r \in inbox /\ inbox' = inbox \ {r} /\ refused' = refused /\ outcome' = outcome
    BY <1>5 DEF Receive
  <2>3. Live' = Live \cup {s} /\ s \notin Live
    BY <1>1, <2>1 DEF PlaceTable, Live
  <2>4. Unsettled' = Unsettled \cup {r} /\ r \notin Unsettled
    BY <1>1, <2>2 DEF SettledInv, Unsettled
  <2>5. /\ request_queue'[s] = r
        /\ \A t \in Live : request_queue'[t] = request_queue[t]
    BY <1>1, <2>1, <2>3 DEF TypeOK, Live
  <2> QED  BY <1>1, <2>3, <2>4, <2>5 DEF RecordsInv
<1>6. ASSUME NEW r \in Requests, Refuse(r) PROVE RecordsInv'
  <2>1. Unsettled' = Unsettled
    BY <1>1, <1>6 DEF Refuse, Unsettled
  <2>2. Untouched \/ UNCHANGED <<slotVars, worker, request_queue>>
    BY <1>6 DEF Refuse
  <2>3. Place' = Place
    BY <1>6 DEF Refuse, Place, SlotsWaiting
  <2> QED  BY <1>2, <1>6, <2>1, <2>3 DEF Refuse, Live
<1>7. CASE Submit
  <2>1. outcome' = outcome
    BY <1>1, <1>7, RoomToQueue DEF Submit, HandsInv, IInv
  <2>2. Live' = Live
    BY <1>4, <1>7, SubmitPlace
  <2> QED  BY <1>2, <1>3, <1>7, <2>1, <2>2 DEF Submit
<1>8. ASSUME NEW w \in Workers, EnterTake(w) \/ WokenTake(w) PROVE RecordsInv'
  <2>1. Live' = Live
    BY <1>4, <1>8, TakePlace
  <2> QED  BY <1>2, <1>3, <1>8, <2>1 DEF EnterTake, WokenTake, Take
<1>9. ASSUME NEW w \in Workers, Look(w) \/ Lock(w) \/ \E result \in Results : Executed(w, result)
      PROVE  RecordsInv'
  <2>1. /\ worker[w] \in {"look", "lock", "run"} /\ worker'[w] \in {"lock", "run", "complete"}
        /\ worker' = [worker EXCEPT ![w] = worker'[w]]
    BY <1>1, <1>9 DEF Look, Lock, Executed, TypeOK
  <2>2. UNCHANGED <<slotVars, request_queue, inbox, refused, outcome>>
    BY <1>9 DEF Look, Lock, Executed
  <2>3. Place' = [Place EXCEPT ![held[w]] = WorkerPlace[worker'[w]]]
    BY <2>1, <2>2, WorkerStep DEF Holding
  <2>4. held[w] \in Slots /\ Place[held[w]] # "none" /\ WorkerPlace[worker'[w]] # "none"
    BY <2>1, WorkerLive DEF Holding
  <2>5. Live' = Live
    BY <1>4, <2>3, <2>4
  <2> QED  BY <1>2, <1>3, <2>2, <2>5
<1>10. ASSUME NEW w \in Workers, Complete(w) PROVE RecordsInv'
  <2> DEFINE s == held[w]
             r == request_queue[s]
  <2>1. /\ worker[w] = "complete" /\ worker'[w] = "clear"
        /\ worker' = [worker EXCEPT ![w] = worker'[w]]
    BY <1>1, <1>10 DEF Complete, TypeOK
  <2>2. UNCHANGED <<slotVars, request_queue, inbox, refused>>
        /\ outcome' = [outcome EXCEPT ![r] = Append(@, action_result[w])]
    BY <1>10 DEF Complete, Request
  <2>3. Place' = [Place EXCEPT ![s] = "none"] /\ s \in Slots /\ Place[s] = "finished"
    BY <2>1, <2>2, WorkerStep, WorkerLive DEF Holding
  <2>4. s \in Live /\ Live' = Live \ {s}
    BY <1>1, <2>3 DEF PlaceTable, Live
  <2>5. r \in Unsettled
    BY <1>1, <2>4 DEF RecordsInv
  <2>6. outcome'[r] # <<>> /\ \A q \in Requests : q # r => outcome'[q] = outcome[q]
    <3>1. outcome \in [Requests -> Seq(Statuses)] /\ r \in Requests /\ action_result[w] \in Statuses
      BY <1>1, <2>5 DEF TypeOK, Unsettled
    <3>2. Append(outcome[r], action_result[w]) # <<>>
      BY <3>1
    <3> QED  BY <2>2, <3>1, <3>2
  <2>7. Unsettled' = Unsettled \ {r}
    BY <2>2, <2>6 DEF Unsettled
  <2> QED  BY <1>1, <2>2, <2>4, <2>7 DEF RecordsInv
<1>11. ASSUME NEW w \in Workers, Clear(w) PROVE RecordsInv'
  <2>1. /\ worker[w] = "clear" /\ worker'[w] = "release"
        /\ worker' = [worker EXCEPT ![w] = worker'[w]]
        /\ UNCHANGED <<slotVars, inbox, refused, outcome>>
        /\ request_queue' = [request_queue EXCEPT ![held[w]] = Blank]
    BY <1>1, <1>11 DEF Clear, TypeOK
  <2>2. Place' = [Place EXCEPT ![held[w]] = "none"] /\ Place[held[w]] = "none"
    BY <2>1, WorkerStep, WorkerLive DEF Holding
  <2>3. Live' = Live /\ held[w] \notin Live
    BY <1>1, <2>2 DEF PlaceTable, Live
  <2>4. \A s \in Live : request_queue'[s] = request_queue[s]
    BY <1>1, <2>1, <2>3 DEF TypeOK, Live
  <2> QED  BY <1>2, <1>3, <2>1, <2>3, <2>4
<1>12. ASSUME NEW w \in Workers, Release(w) PROVE RecordsInv'
  BY <1>2, <1>3, <1>12, ReleasePlace DEF Release, Live
<1>13. CASE Untouched
  BY <1>2, <1>3, <1>13, UntouchedMoves DEF Untouched, Live
<1> QED
  BY <1>5, <1>6, <1>7, <1>8, <1>9, <1>10, <1>11, <1>12, <1>13, LedgerFrame

LEMMA SettledStep ==
  ASSUME IInv, IInv', LedgerInv, [Next]_vars
  PROVE  SettledInv'
<1>1. TypeOK /\ HandsInv /\ RecordsInv /\ SettledInv
  BY DEF IInv, LedgerInv
<1>2. ASSUME UNCHANGED <<inbox, refused, outcome>>
      PROVE  SettledInv'
  BY <1>1, <1>2 DEF SettledInv
<1> USE DEF slotVars, loopVars, queueVars, lockVars, workerVars, mqttVars, appVars, Move
<1>3. ASSUME NEW r \in Requests, Receive(r) \/ Refuse(r) PROVE SettledInv'
  BY <1>1, <1>3 DEF Receive, Refuse, SettledInv
<1>4. CASE Submit
  BY <1>1, <1>2, <1>4, RoomToQueue DEF Submit, HandsInv, IInv
<1>5. ASSUME NEW w \in Workers, Complete(w) PROVE SettledInv'
  <2> DEFINE r == request_queue[held[w]]
  <2>1. /\ UNCHANGED <<inbox, refused>> /\ worker[w] = "complete"
        /\ outcome' = [outcome EXCEPT ![r] = Append(@, action_result[w])]
    BY <1>5 DEF Complete, Request
  <2>2. held[w] \in Live
    BY <2>1, WorkerLive DEF Live, Holding
  <2>3. r \in Unsettled
    BY <1>1, <2>2 DEF RecordsInv
  <2>4. \A q \in Requests : q # r => outcome'[q] = outcome[q]
    BY <1>1, <2>1 DEF TypeOK
  <2> QED  BY <1>1, <2>1, <2>3, <2>4 DEF SettledInv, Unsettled
<1>6. ASSUME NEW w \in Workers,
             \/ EnterTake(w) \/ WokenTake(w) \/ Look(w) \/ Lock(w) \/ Clear(w) \/ Release(w)
             \/ \E result \in Results : Executed(w, result)
      PROVE  SettledInv'
  BY <1>2, <1>6 DEF EnterTake, WokenTake, Take, Look, Lock, Clear, Release, Executed
<1>7. CASE Untouched
  BY <1>2, <1>7 DEF Untouched
<1> QED  BY <1>3, <1>4, <1>5, <1>6, <1>7, LedgerFrame

LEMMA DutyStep ==
  ASSUME IInv, IInv', LedgerInv, [Next]_vars
  PROVE  DutyInv'
<1>1. TypeOK /\ HandsInv /\ HandsInv' /\ Distinct /\ Apart /\ RecordsInv /\ DutyInv
  BY SharedParts DEF IInv, LedgerInv
<1> DEFINE Kept(v) == /\ held'[v] = held[v]
                      /\ request_queue'[held[v]] = request_queue[held[v]]
                      /\ worker'[v] = worker[v] /\ action_result'[v] = action_result[v]
                      /\ \A r \in Requests : outcome[r] # <<>> => outcome'[r] # <<>>
           Duty(v) == /\ worker'[v] = "clear" => /\ request_queue'[held'[v]] \in Requests
                                                 /\ outcome'[request_queue'[held'[v]]] # <<>>
                      /\ worker'[v] = "release" => request_queue'[held'[v]] = Blank
                      /\ worker'[v] # "complete" => action_result'[v] = "NOT_FOUND"
                      /\ worker'[v] \in {"lock", "run"} => request_queue'[held'[v]] \in Registered
<1>2. ASSUME NEW v \in Workers, Kept(v) PROVE Duty(v)
  BY <1>1, <1>2 DEF DutyInv, Request
<1>3. (\A v \in Workers : Duty(v)) => DutyInv'
  BY DEF DutyInv, Request
<1>h. HIDE DEF Duty
<1> USE DEF slotVars, loopVars, queueVars, lockVars, workerVars, mqttVars, appVars, Move
<1>5. ASSUME NEW r \in Requests, Receive(r) PROVE DutyInv'
  <2>1. UNCHANGED <<held, worker, action_result, outcome>>
    BY <1>5 DEF Receive
  <2>2. /\ request_queue' = [request_queue EXCEPT ![incoming'] = r]
        /\ incoming' \in SlotsFree
    BY <1>5, ReceiveMoves
  <2>3. ASSUME NEW v \in Workers, held[v] # NoSlot PROVE Duty(v)
    <3>1. held[v] \in Slots /\ held[v] # incoming'
      BY <1>1, <2>2, <2>3 DEF Apart, SlotsHeld, TypeOK
    <3>2. request_queue'[held[v]] = request_queue[held[v]]
      BY <1>1, <2>2, <3>1 DEF TypeOK
    <3> QED  BY <1>2, <2>1, <3>2
  <2>4. ASSUME NEW v \in Workers, held[v] = NoSlot PROVE Duty(v)
    BY <1>1, <2>1, <2>4 DEF Duty, HandsInv, Holding, DutyInv
  <2> QED  BY <1>3, <2>3, <2>4
<1>6. ASSUME NEW r \in Requests, Refuse(r) PROVE DutyInv'
  BY <1>2, <1>3, <1>6 DEF Refuse
<1>7. CASE Submit
  <2>1. outcome' = outcome
    BY <1>1, <1>7, RoomToQueue DEF Submit, HandsInv, IInv
  <2> QED  BY <1>2, <1>3, <1>7, <2>1 DEF Submit
<1>8. ASSUME NEW w \in Workers, EnterTake(w) \/ WokenTake(w) PROVE DutyInv'
  <2>1. /\ UNCHANGED <<request_queue, action_result, outcome>>
        /\ worker[w] # "complete" /\ worker'[w] = "look"
        /\ \A v \in Workers : v # w => worker'[v] = worker[v] /\ held'[v] = held[v]
    BY <1>1, <1>8 DEF EnterTake, WokenTake, Take, TypeOK
  <2>2. Duty(w)
    BY <1>1, <2>1 DEF Duty, DutyInv
  <2> QED  BY <1>2, <1>3, <2>1, <2>2
<1>9. ASSUME NEW w \in Workers, Look(w) \/ Lock(w) \/ \E result \in Results : Executed(w, result)
      PROVE  DutyInv'
  <2>1. /\ UNCHANGED <<held, request_queue, outcome>>
        /\ \/ action_result'[w] = action_result[w] \/ worker'[w] = "complete"
        /\ worker[w] # "complete"
        /\ worker'[w] \in {"lock", "run", "complete"}
        /\ worker'[w] = "lock" => request_queue[held[w]] \in Registered
        /\ worker'[w] = "run" => worker[w] = "lock"
        /\ \A v \in Workers : v # w => /\ worker'[v] = worker[v]
                                       /\ action_result'[v] = action_result[v]
    BY <1>1, <1>9 DEF Look, Lock, Executed, TypeOK, Request
  <2>2. Duty(w)
    BY <1>1, <2>1 DEF Duty, DutyInv, Request
  <2> QED  BY <1>2, <1>3, <2>1, <2>2
<1>10. ASSUME NEW w \in Workers, Complete(w) PROVE DutyInv'
  <2> DEFINE r == request_queue[held[w]]
  <2>1. /\ UNCHANGED <<held, request_queue>>
        /\ outcome' = [outcome EXCEPT ![r] = Append(@, action_result[w])]
        /\ worker[w] = "complete" /\ worker'[w] = "clear" /\ action_result'[w] = "NOT_FOUND"
        /\ \A v \in Workers : v # w => /\ worker'[v] = worker[v]
                                       /\ action_result'[v] = action_result[v]
    BY <1>1, <1>10 DEF Complete, TypeOK, Request
  <2>2. held[w] \in Live
    BY <2>1, WorkerLive DEF Live, Holding
  <2>3. r \in Requests
    BY <1>1, <2>2 DEF RecordsInv, Unsettled
  <2>4. outcome'[r] # <<>> /\ \A q \in Requests : q # r => outcome'[q] = outcome[q]
    <3>1. outcome \in [Requests -> Seq(Statuses)] /\ action_result[w] \in Statuses
      BY <1>1 DEF TypeOK
    <3>2. Append(outcome[r], action_result[w]) # <<>>
      BY <2>3, <3>1
    <3> QED  BY <2>1, <2>3, <3>1, <3>2
  <2>5. Duty(w)
    BY <2>1, <2>3, <2>4 DEF Duty
  <2> QED  BY <1>2, <1>3, <2>1, <2>4, <2>5
<1>11. ASSUME NEW w \in Workers, Clear(w) PROVE DutyInv'
  <2>1. /\ UNCHANGED <<held, action_result, outcome>>
        /\ request_queue' = [request_queue EXCEPT ![held[w]] = Blank]
        /\ worker[w] = "clear" /\ worker'[w] = "release"
        /\ \A v \in Workers : v # w => worker'[v] = worker[v]
    BY <1>1, <1>11 DEF Clear, TypeOK
  <2>2. held[w] \in Slots /\ held[w] # NoSlot
    BY <2>1, WorkerLive DEF Holding
  <2>3. Duty(w)
    <3>1. request_queue'[held[w]] = Blank
      BY <1>1, <2>1, <2>2 DEF TypeOK
    <3> QED  BY <1>1, <2>1, <3>1 DEF Duty, DutyInv
  <2>4. ASSUME NEW v \in Workers, v # w PROVE Duty(v)
    <3>1. held[v] # held[w]
      BY <1>1, <2>2, <2>4 DEF Distinct
    <3>2. held[v] \in Slots => request_queue'[held[v]] = request_queue[held[v]]
      BY <1>1, <2>1, <3>1 DEF TypeOK
    <3>3. CASE held[v] \in Slots
      BY <1>2, <2>1, <2>4, <3>2, <3>3
    <3>4. CASE held[v] = NoSlot
      BY <1>1, <2>1, <2>4, <3>4 DEF Duty, HandsInv, Holding, DutyInv
    <3> QED  BY <1>1, <3>3, <3>4 DEF TypeOK
  <2> QED  BY <1>3, <2>3, <2>4
<1>12. ASSUME NEW w \in Workers, Release(w) PROVE DutyInv'
  <2>1. /\ UNCHANGED <<request_queue, action_result, outcome>>
        /\ worker[w] = "release" /\ worker'[w] = "test"
        /\ \A v \in Workers : v # w => worker'[v] = worker[v] /\ held'[v] = held[v]
    BY <1>1, <1>12 DEF Release, TypeOK
  <2>2. Duty(w)
    BY <1>1, <2>1 DEF Duty, DutyInv
  <2> QED  BY <1>2, <1>3, <2>1, <2>2
<1>13. CASE Untouched
  <2>1. UNCHANGED <<held, request_queue, action_result, outcome>>
    BY <1>13 DEF Untouched
  <2>2. ASSUME NEW v \in Workers, held[v] # NoSlot PROVE Duty(v)
    BY <1>2, <1>13, <2>1, <2>2 DEF Untouched
  <2>3. ASSUME NEW v \in Workers, held[v] = NoSlot PROVE Duty(v)
    <3>1. worker'[v] \notin Holding /\ worker[v] \notin Holding
      BY <1>1, <1>13, <2>3 DEF Untouched, HandsInv
    <3> QED  BY <1>1, <2>1, <3>1 DEF Duty, DutyInv, Holding
  <2> QED  BY <1>3, <2>2, <2>3
<1> QED
  BY <1>5, <1>6, <1>7, <1>8, <1>9, <1>10, <1>11, <1>12, <1>13, LedgerFrame

(* What the library holds of each request, at all times.                    *)
THEOREM LedgerHeld == Spec => []LedgerInv
<1>1. IInv /\ IInv' /\ LedgerInv /\ [Next]_vars => LedgerInv'
  BY RecordsStep, SettledStep, DutyStep DEF LedgerInv
<1> QED  BY LedgerInit, <1>1, Inductive, PTL DEF Spec

(* The mapping, read off the places.                                        *)
StageTable ==
  /\ LedgerStage = [r \in Requests |-> LedgerStage[r]]
  /\ \A r \in Requests : /\ r \in inbox => LedgerStage[r] = "inbox"
                         /\ r \in refused => LedgerStage[r] = "refused"
                         /\ outcome[r] # <<>> => LedgerStage[r] = "reported"
  /\ \A s \in Live : LedgerStage[request_queue[s]] = Place[s]
VerdictTable ==
  /\ LedgerVerdict = [r \in Requests |-> LedgerVerdict[r]]
  /\ \A w \in Workers :
       worker[w] = "complete" => LedgerVerdict[Request(w)] = action_result[w]
  /\ \A r \in Requests :
       (\A w \in Workers : worker[w] = "complete" => Request(w) # r)
         => LedgerVerdict[r] = "none"

(* A worker that still holds the record of an unsettled request works on    *)
(* it, and is the only one.                                                 *)
LEMMA OneHandler ==
  ASSUME IInv, LedgerInv, NEW w \in Workers, held[w] # NoSlot, Place[held[w]] # "none"
  PROVE  /\ held[w] \in Live /\ Request(w) \in Unsettled
         /\ Handler(Request(w)) = {w}
<1>1. TypeOK /\ HandsInv /\ Distinct /\ RecordsInv /\ DutyInv
  BY SharedParts DEF IInv, LedgerInv
<1>2. held[w] \in Live /\ Request(w) \in Unsettled
  BY <1>1 DEF Live, TypeOK, RecordsInv, Request
<1>3. ASSUME NEW v \in Workers, held[v] # NoSlot, Request(v) = Request(w) PROVE v = w
  <2>1. CASE Place[held[v]] # "none"
    <3>1. held[v] \in Live
      BY <1>1, <1>3, <2>1 DEF Live, TypeOK
    <3>2. held[v] = held[w]
      BY <1>1, <1>2, <1>3, <3>1 DEF RecordsInv, Request
    <3> QED  BY <1>1, <1>3, <3>2 DEF Distinct
  <2>2. CASE Place[held[v]] = "none"
    <3>1. worker[v] \in Holding
      BY <1>1, <1>3 DEF HandsInv
    <3>2. worker[v] \in {"clear", "release"}
      BY <2>2, <3>1, WorkerLive DEF Holding
    <3> QED  BY <1>1, <1>2, <1>3, <3>2, RequestsAssumption DEF DutyInv, Unsettled
  <2> QED  BY <2>1, <2>2
<1> QED  BY <1>2, <1>3 DEF Handler

LEMMA StagesRight == IInv /\ LedgerInv => StageTable
<1> SUFFICES ASSUME IInv, LedgerInv PROVE StageTable
  OBVIOUS
<1>1. TypeOK /\ HandsInv /\ Apart /\ NoSlotLost /\ PlaceTable /\ RecordsInv /\ SettledInv
  BY SharedParts, PlacesRight DEF IInv, LedgerInv
<1>2. \A r \in Requests : LedgerStage[r] = StageOf(r)
  BY DEF LedgerStage
<1>3. ASSUME NEW r \in Requests
      PROVE  /\ r \in inbox => StageOf(r) = "inbox"
             /\ r \in refused => StageOf(r) = "refused"
             /\ outcome[r] # <<>> => StageOf(r) = "reported"
  BY <1>1 DEF StageOf, SettledInv
<1>4. ASSUME NEW s \in Live PROVE StageOf(request_queue[s]) = Place[s]
  <2> DEFINE r == request_queue[s]
  <2>1. r \in Unsettled /\ s \in Slots /\ Place[s] # "none"
    BY <1>1 DEF RecordsInv, Live
  <2>2. r \notin inbox /\ r \notin refused /\ outcome[r] = <<>>
    BY <2>1 DEF Unsettled
  <2>3. CASE s \in SlotsWaiting
    BY <1>1, <2>2, <2>3 DEF StageOf, Waits, PlaceTable
  <2>4. ASSUME s \notin SlotsWaiting PROVE ~Waits(r)
    <3> SUFFICES ASSUME NEW t \in SlotsWaiting, request_queue[t] = r PROVE FALSE
      BY DEF Waits
    <3>1. Place[t] = "queued" /\ t \in Slots
      <4>1. request_queue_wait \in Seq(Slots)
        BY <1>1 DEF TypeOK
      <4> QED  BY <1>1, <4>1 DEF PlaceTable, SlotsWaiting
    <3>2. t \in Live
      BY <3>1 DEF Live
    <3> QED  BY <1>1, <2>4, <3>2 DEF RecordsInv
  <2>5. CASE s \in SlotIncoming
    <3>1. s \notin SlotsWaiting /\ s = incoming /\ incoming # NoSlot
      BY <1>1, <2>5 DEF Apart, SlotIncoming
    <3> QED  BY <1>1, <2>2, <2>4, <2>5, <3>1 DEF StageOf, PlaceTable
  <2>6. CASE s \in SlotsHeld
    <3>1. PICK w \in Workers : held[w] = s /\ held[w] # NoSlot
      BY <2>6 DEF SlotsHeld
    <3>2. s \notin SlotsWaiting /\ s \notin SlotIncoming
      BY <1>1, <2>6 DEF Apart
    <3>3. ~(incoming # NoSlot /\ request_queue[incoming] = r)
      <4> SUFFICES ASSUME incoming # NoSlot, request_queue[incoming] = r PROVE FALSE
        OBVIOUS
      <4>1. incoming \in SlotIncoming /\ incoming \in Slots
        BY <1>1 DEF SlotIncoming, TypeOK
      <4>2. incoming \in Live
        BY <1>1, <4>1 DEF PlaceTable, Live
      <4> QED  BY <1>1, <3>2, <4>1, <4>2 DEF RecordsInv
    <3>4. Handler(r) = {w} /\ worker[w] \in Holding
      BY <1>1, <2>1, <3>1, OneHandler DEF Request, HandsInv
    <3>5. (CHOOSE v \in Handler(r) : TRUE) = w
      BY <3>4
    <3>6. CASE worker[w] \in {"look", "lock"}
      BY <2>2, <2>4, <3>1, <3>2, <3>3, <3>4, <3>5, <3>6, WorkerLive DEF StageOf
    <3>7. CASE worker[w] = "run"
      BY <2>2, <2>4, <3>1, <3>2, <3>3, <3>4, <3>5, <3>7, WorkerLive DEF StageOf
    <3>8. CASE worker[w] = "complete"
      BY <2>2, <2>4, <3>1, <3>2, <3>3, <3>4, <3>5, <3>8, WorkerLive DEF StageOf
    <3> QED  BY <2>1, <3>1, <3>4, <3>6, <3>7, <3>8, WorkerLive DEF Holding
  <2>7. s \notin SlotsFree
    BY <1>1, <2>1 DEF PlaceTable
  <2> QED  BY <1>1, <2>1, <2>3, <2>5, <2>6, <2>7 DEF NoSlotLost
<1>5. LedgerStage = [r \in Requests |-> LedgerStage[r]]
  BY DEF LedgerStage
<1>6. \A s \in Live : request_queue[s] \in Requests
  BY <1>1 DEF RecordsInv, Unsettled
<1> QED  BY <1>2, <1>3, <1>4, <1>5, <1>6 DEF StageTable

LEMMA VerdictsRight == IInv /\ LedgerInv => VerdictTable
<1> SUFFICES ASSUME IInv, LedgerInv PROVE VerdictTable
  OBVIOUS
<1>1. ASSUME NEW w \in Workers, worker[w] = "complete"
      PROVE  LedgerVerdict[Request(w)] = action_result[w]
  <2>1. held[w] # NoSlot /\ Place[held[w]] # "none"
    BY <1>1, WorkerLive DEF Holding
  <2>2. Handler(Request(w)) = {w} /\ Request(w) \in Requests
    BY <2>1, OneHandler DEF Unsettled
  <2>3. (CHOOSE v \in Handler(Request(w)) : TRUE) = w
    BY <2>2
  <2> QED  BY <1>1, <2>2, <2>3 DEF LedgerVerdict
<1>2. ASSUME NEW r \in Requests, \A w \in Workers : worker[w] = "complete" => Request(w) # r
      PROVE  LedgerVerdict[r] = "none"
  BY <1>2 DEF LedgerVerdict, Handler
<1>3. LedgerVerdict = [r \in Requests |-> LedgerVerdict[r]]
  BY DEF LedgerVerdict
<1> QED  BY <1>1, <1>2, <1>3 DEF VerdictTable

(* A request whose record stays where it is keeps its stage.                *)
LEMMA StageKept ==
  ASSUME StageTable, StageTable', RecordsInv, NEW q \in Requests,
         q \in inbox => q \in inbox', q \in refused => q \in refused',
         outcome[q] # <<>> => outcome'[q] # <<>>,
         \A s \in Live : request_queue[s] = q =>
            s \in Live' /\ Place'[s] = Place[s] /\ request_queue'[s] = q
  PROVE  LedgerStage'[q] = LedgerStage[q]
<1>1. CASE q \in Unsettled
  <2>1. PICK s \in Live : request_queue[s] = q
    BY <1>1 DEF RecordsInv
  <2>2. LedgerStage[q] = Place[s] /\ LedgerStage'[q] = Place'[s]
    BY <2>1 DEF StageTable
  <2> QED  BY <2>1, <2>2
<1>2. CASE q \notin Unsettled
  BY <1>2 DEF Unsettled, StageTable
<1> QED  BY <1>1, <1>2

(* A step that moves the record of one request moves that request only.     *)
LEMMA StageMoved ==
  ASSUME StageTable, StageTable', RecordsInv, PlaceTable, PlaceTable',
         UNCHANGED <<request_queue, inbox, refused, outcome>>,
         NEW s \in Slots, NEW p, Place[s] # "none", p # "none",
         Place' = [Place EXCEPT ![s] = p]
  PROVE  /\ request_queue[s] \in Requests
         /\ LedgerStage[request_queue[s]] = Place[s]
         /\ LedgerStage' = [LedgerStage EXCEPT ![request_queue[s]] = p]
<1> DEFINE r == request_queue[s]
<1>1. s \in Live /\ s \in Live' /\ Place'[s] = p /\ Live' = Live
      /\ \A t \in Slots : t # s => Place'[t] = Place[t]
  BY DEF PlaceTable, Live
<1>2. r \in Requests /\ \A t \in Live : request_queue[t] = r => t = s
  BY <1>1 DEF RecordsInv, Unsettled
<1>3. LedgerStage[r] = Place[s] /\ LedgerStage'[r] = p
  BY <1>1 DEF StageTable
<1>4. ASSUME NEW q \in Requests, q # r PROVE LedgerStage'[q] = LedgerStage[q]
  <2>1. \A t \in Live : request_queue[t] = q =>
            t \in Live' /\ Place'[t] = Place[t] /\ request_queue'[t] = q
    BY <1>1, <1>4 DEF Live
  <2> QED  BY <2>1, StageKept
<1> QED  BY <1>2, <1>3, <1>4 DEF StageTable

LEMMA VerdictKept ==
  ASSUME VerdictTable, VerdictTable',
         \A w \in Workers : worker'[w] = "complete" <=> worker[w] = "complete",
         \A w \in Workers : worker[w] = "complete" =>
            /\ held'[w] = held[w] /\ action_result'[w] = action_result[w]
            /\ request_queue'[held[w]] = request_queue[held[w]]
  PROVE  LedgerVerdict' = LedgerVerdict
<1>1. ASSUME NEW r \in Requests PROVE LedgerVerdict'[r] = LedgerVerdict[r]
  <2>1. CASE \E w \in Workers : worker[w] = "complete" /\ Request(w) = r
    <3>1. PICK w \in Workers : worker[w] = "complete" /\ request_queue[held[w]] = r
      BY <2>1 DEF Request
    <3>2. LedgerVerdict[r] = action_result[w]
      BY <3>1 DEF VerdictTable, Request
    <3>3. worker'[w] = "complete" /\ request_queue'[held'[w]] = r
      BY <3>1
    <3>4. LedgerVerdict'[r] = action_result'[w]
      BY <3>3 DEF VerdictTable, Request
    <3> QED  BY <3>1, <3>2, <3>4
  <2>2. CASE \A w \in Workers : worker[w] = "complete" => Request(w) # r
    <3>1. \A w \in Workers : worker'[w] = "complete" => request_queue'[held'[w]] # r
      BY <2>2 DEF Request
    <3>2. LedgerVerdict[r] = "none"
      BY <2>2 DEF VerdictTable
    <3>3. LedgerVerdict'[r] = "none"
      BY <3>1 DEF VerdictTable, Request
    <3> QED  BY <3>2, <3>3
  <2> QED  BY <2>1, <2>2
<1> QED  BY <1>1 DEF VerdictTable

(* A worker that begins or ends a report changes one verdict.               *)
LEMMA VerdictMoved ==
  ASSUME IInv, RecordsInv, VerdictTable, VerdictTable', NEW w \in Workers,
         UNCHANGED <<held, request_queue>>,
         worker[w] = "complete" \/ worker'[w] = "complete",
         held[w] \in Live,
         \A v \in Workers : v # w => /\ worker'[v] = worker[v]
                                     /\ action_result'[v] = action_result[v]
  PROVE  LedgerVerdict' = [LedgerVerdict EXCEPT ![Request(w)] =
            IF worker'[w] = "complete" THEN action_result'[w] ELSE "none"]
<1> DEFINE r == request_queue[held[w]]
           x == IF worker'[w] = "complete" THEN action_result'[w] ELSE "none"
<1>1. r \in Requests
  BY DEF RecordsInv, Unsettled
<1>2. \A v \in Workers : v # w /\ worker[v] = "complete" => request_queue[held[v]] # r
  <2>1. Distinct /\ held[w] # NoSlot
    BY SharedParts, SizesAssumption DEF IInv, Live, Slots, NoSlot
  <2>2. \A v \in Workers : worker[v] = "complete" => held[v] \in Live
    BY WorkerLive DEF Live, Holding
  <2> QED  BY <2>1, <2>2 DEF RecordsInv, Distinct
<1>3. LedgerVerdict'[r] = x
  <2>1. CASE worker'[w] = "complete"
    <3>1. request_queue'[held'[w]] = r
      OBVIOUS
    <3> QED  BY <2>1, <3>1 DEF VerdictTable, Request
  <2>2. CASE worker'[w] # "complete"
    <3>1. \A v \in Workers : worker'[v] = "complete" => request_queue'[held'[v]] # r
      BY <1>2, <2>2
    <3> QED  BY <1>1, <2>2, <3>1 DEF VerdictTable, Request
  <2> QED  BY <2>1, <2>2
<1>4. ASSUME NEW q \in Requests, q # r PROVE LedgerVerdict'[q] = LedgerVerdict[q]
  <2>1. CASE \E v \in Workers : worker[v] = "complete" /\ request_queue[held[v]] = q
    <3>1. PICK v \in Workers : worker[v] = "complete" /\ request_queue[held[v]] = q
      BY <2>1
    <3>2. LedgerVerdict[q] = action_result[v]
      BY <3>1 DEF VerdictTable, Request
    <3>3. v # w
      BY <1>4, <3>1
    <3>4. worker'[v] = "complete" /\ request_queue'[held'[v]] = q
      BY <3>1, <3>3
    <3>5. LedgerVerdict'[q] = action_result'[v]
      BY <3>4 DEF VerdictTable, Request
    <3> QED  BY <3>2, <3>3, <3>5
  <2>2. CASE ~\E v \in Workers : worker[v] = "complete" /\ request_queue[held[v]] = q
    <3>1. \A v \in Workers : worker'[v] = "complete" => request_queue'[held'[v]] # q
      BY <1>4, <2>2
    <3>2. LedgerVerdict'[q] = "none"
      BY <3>1 DEF VerdictTable, Request
    <3>3. LedgerVerdict[q] = "none"
      BY <2>2 DEF VerdictTable, Request
    <3> QED  BY <3>2, <3>3
  <2> QED  BY <2>1, <2>2
<1>5. LedgerVerdict' = [LedgerVerdict EXCEPT ![r] = x]
  BY <1>1, <1>3, <1>4 DEF VerdictTable
<1> QED  BY <1>5 DEF Request

LEMMA OrderKept ==
  ASSUME TypeOK, request_queue_wait' = request_queue_wait,
         \A s \in SlotsWaiting : request_queue'[s] = request_queue[s]
  PROVE  LedgerOrder' = LedgerOrder
<1>1. \A i \in 1 .. Len(request_queue_wait) : request_queue_wait[i] \in SlotsWaiting
  BY DEF SlotsWaiting
<1> QED  BY <1>1 DEF LedgerOrder

(* The wait queue in the ledger's terms.                                    *)
LEMMA MapAppend ==
  ASSUME NEW S, NEW R, NEW q \in Seq(S), NEW e \in S, NEW f \in [S -> R]
  PROVE  [i \in 1 .. Len(Append(q, e)) |-> f[Append(q, e)[i]]]
           = Append([i \in 1 .. Len(q) |-> f[q[i]]], f[e])
<1> DEFINE m == [i \in 1 .. Len(q) |-> f[q[i]]]
           n == [i \in 1 .. Len(Append(q, e)) |-> f[Append(q, e)[i]]]
<1>1. /\ Len(q) \in Nat /\ Len(Append(q, e)) = Len(q) + 1
      /\ \A i \in 1 .. Len(q) : q[i] \in S /\ Append(q, e)[i] = q[i]
      /\ Append(q, e)[Len(q) + 1] = e
  OBVIOUS
<1>2. m \in Seq(R) /\ Len(m) = Len(q)
  BY <1>1
<1>3. n \in Seq(R) /\ Len(n) = Len(q) + 1
  BY <1>1
<1>4. Append(m, f[e]) \in Seq(R) /\ Len(Append(m, f[e])) = Len(q) + 1
  BY <1>2
<1>5. ASSUME NEW i \in 1 .. Len(q) + 1 PROVE n[i] = Append(m, f[e])[i]
  BY <1>1, <1>2
<1> QED  BY <1>3, <1>4, <1>5

LEMMA MapTail ==
  ASSUME NEW S, NEW R, NEW q \in Seq(S), q # <<>>, NEW f \in [S -> R]
  PROVE  LET m == [i \in 1 .. Len(q) |-> f[q[i]]] IN
         /\ m # <<>> /\ Head(m) = f[Head(q)]
         /\ [i \in 1 .. Len(Tail(q)) |-> f[Tail(q)[i]]] = Tail(m)
<1> DEFINE m == [i \in 1 .. Len(q) |-> f[q[i]]]
           n == [i \in 1 .. Len(Tail(q)) |-> f[Tail(q)[i]]]
<1>1. /\ Len(q) \in Nat /\ Len(q) > 0 /\ Len(Tail(q)) = Len(q) - 1 /\ Head(q) = q[1]
      /\ \A i \in 1 .. Len(q) : q[i] \in S
      /\ \A i \in 1 .. Len(q) - 1 : Tail(q)[i] = q[i + 1]
  OBVIOUS
<1>2. m \in Seq(R) /\ Len(m) = Len(q)
  BY <1>1
<1>3. n \in Seq(R) /\ Len(n) = Len(q) - 1
  BY <1>1
<1>4. m # <<>> /\ Head(m) = f[Head(q)]
  BY <1>1, <1>2
<1>5. Tail(m) \in Seq(R) /\ Len(Tail(m)) = Len(q) - 1
      /\ \A i \in 1 .. Len(q) - 1 : Tail(m)[i] = m[i + 1]
  BY <1>1, <1>2, <1>4
<1>6. ASSUME NEW i \in 1 .. Len(q) - 1 PROVE n[i] = Tail(m)[i]
  BY <1>1, <1>5
<1>7. n = Tail(m)
  BY <1>3, <1>5, <1>6
<1> QED  BY <1>4, <1>7

LEMMA OrderAppend ==
  ASSUME TypeOK, incoming \in Slots, request_queue' = request_queue,
         request_queue_wait' = Append(request_queue_wait, incoming)
  PROVE  LedgerOrder' = Append(LedgerOrder, request_queue[incoming])
<1>1. /\ request_queue_wait \in Seq(Slots)
      /\ request_queue \in [Slots -> Requests \cup {Blank}]
  BY DEF TypeOK
<1> DEFINE q == request_queue_wait
           f == request_queue
<1>2. [i \in 1 .. Len(Append(q, incoming)) |-> f[Append(q, incoming)[i]]]
        = Append([i \in 1 .. Len(q) |-> f[q[i]]], f[incoming])
  <2> HIDE DEF q, f
  <2> QED  BY <1>1, MapAppend DEF q, f
<1>3. LedgerOrder' = [i \in 1 .. Len(Append(q, incoming)) |-> f[Append(q, incoming)[i]]]
  BY DEF LedgerOrder
<1> QED  BY <1>2, <1>3 DEF LedgerOrder

LEMMA OrderTail ==
  ASSUME TypeOK, request_queue_wait # <<>>, request_queue' = request_queue,
         request_queue_wait' = Tail(request_queue_wait)
  PROVE  /\ LedgerOrder # <<>> /\ Head(LedgerOrder) = request_queue[Head(request_queue_wait)]
         /\ LedgerOrder' = Tail(LedgerOrder)
<1>1. /\ request_queue_wait \in Seq(Slots)
      /\ request_queue \in [Slots -> Requests \cup {Blank}]
  BY DEF TypeOK
<1> DEFINE q == request_queue_wait
           f == request_queue
<1>2. LET m == [i \in 1 .. Len(q) |-> f[q[i]]] IN
      /\ m # <<>> /\ Head(m) = f[Head(q)]
      /\ [i \in 1 .. Len(Tail(q)) |-> f[Tail(q)[i]]] = Tail(m)
  <2> HIDE DEF q, f
  <2> QED  BY <1>1, MapTail DEF q, f
<1>3. LedgerOrder' = [i \in 1 .. Len(Tail(q)) |-> f[Tail(q)[i]]]
  BY DEF LedgerOrder
<1> QED  BY <1>2, <1>3 DEF LedgerOrder

(* A record given back is one more than the unreported requests need.       *)
LEMMA RoomToRelease ==
  ASSUME IInv, LedgerInv, NEW w \in Workers, worker[w] = "release"
  PROVE  request_queue_free_count > Cardinality(Unsettled)
<1> DEFINE c == request_queue_free_count
           N == IOT_ACTION_QUEUE_MAX
           Used == Slots \ SlotsFree
<1>1. TypeOK /\ Distinct /\ Apart /\ PlaceTable /\ RecordsInv
  BY SharedParts, PlacesRight DEF IInv, LedgerInv
<1>2. c \in Nat /\ N \in Nat /\ c <= N
  BY <1>1, SizesAssumption DEF TypeOK
<1>3. IsFiniteSet(SlotsFree) /\ Cardinality(SlotsFree) = N - c
  <2> DEFINE f == [i \in c .. N - 1 |-> request_queue_free[i]]
  <2>1. SlotsFree = {request_queue_free[i] : i \in c .. N - 1}
    BY <1>2 DEF SlotsFree, Slots
  <2>2. \A i \in c .. N - 1 : i \in Slots /\ i >= c
    BY <1>2 DEF Slots
  <2>3. f \in Injection(c .. N - 1, SlotsFree) /\ f \in Surjection(c .. N - 1, SlotsFree)
    <3>1. f \in Injection(c .. N - 1, SlotsFree)
      BY <1>1, <2>1, <2>2 DEF Distinct, Injection, IsInjective
    <3>2. f \in Surjection(c .. N - 1, SlotsFree)
      BY <2>1 DEF Surjection
    <3> QED  BY <3>1, <3>2
  <2>4. IsFiniteSet(c .. N - 1) /\ Cardinality(c .. N - 1) = N - c
    BY <1>2, FS_Interval
  <2> QED  BY <2>3, <2>4, FS_Surjection
<1>4. IsFiniteSet(Used) /\ Cardinality(Used) = c
  <2>1. SlotsFree \subseteq Slots
    <3>1. request_queue_free \in [Slots -> Slots]
      BY <1>1 DEF TypeOK
    <3> QED  BY <3>1 DEF SlotsFree
  <2>2. SlotsFree = Slots \cap SlotsFree
    BY <2>1
  <2>3. /\ IsFiniteSet(Used)
        /\ Cardinality(Used) = Cardinality(Slots) - Cardinality(Slots \cap SlotsFree)
    BY SlotsFinite, FS_Difference
  <2> QED  BY <1>2, <1>3, <2>2, <2>3, SlotsFinite
<1>5. held[w] \in Used /\ held[w] \notin Live
  <2>1. held[w] \in SlotsHeld /\ held[w] \in Slots /\ Place[held[w]] = "none"
    BY WorkerLive DEF SlotsHeld, Holding
  <2> QED  BY <1>1, <2>1 DEF Apart, Live
<1>6. IsFiniteSet(Used \ {held[w]}) /\ Cardinality(Used \ {held[w]}) = c - 1
  BY <1>4, <1>5, FS_RemoveElement
<1>7. Live \subseteq Used \ {held[w]}
  BY <1>1, <1>5 DEF PlaceTable, Live
<1>8. IsFiniteSet(Live) /\ Cardinality(Live) <= c - 1
  BY <1>6, <1>7, FS_Subset
<1>9. Cardinality(Unsettled) <= Cardinality(Live)
  <2> DEFINE g == [s \in Live |-> request_queue[s]]
  <2>1. g \in Surjection(Live, Unsettled)
    BY <1>1 DEF Surjection, RecordsInv
  <2> QED  BY <1>8, <2>1, FS_Surjection
<1>10. Cardinality(Unsettled) \in Nat /\ Cardinality(Live) \in Nat
  <2>1. IsFiniteSet(Unsettled)
    <3>1. [s \in Live |-> request_queue[s]] \in Surjection(Live, Unsettled)
      BY <1>1 DEF Surjection, RecordsInv
    <3> QED  BY <1>8, <3>1, FS_Surjection
  <2> QED  BY <1>8, <2>1, FS_CardinalityType
<1> QED  BY <1>2, <1>8, <1>9, <1>10

(* The ledger starts empty.                                                 *)
LEMMA RefineInit == Init => Ledger!Init
<1> SUFFICES ASSUME Init PROVE Ledger!Init
  OBVIOUS
<1>1. StageTable /\ VerdictTable
  BY InitInv, LedgerInit, StagesRight, VerdictsRight
<1>2. LedgerStage = [r \in Requests |-> "inbox"]
  BY <1>1 DEF Init, StageTable
<1>3. LedgerVerdict = [r \in Requests |-> "none"]
  BY <1>1 DEF Init, VerdictTable
<1>4. LedgerOrder = <<>>
  <2>1. Len(request_queue_wait) = 0
    BY DEF Init
  <2> QED  BY <2>1 DEF LedgerOrder
<1> QED  BY <1>2, <1>3, <1>4 DEF Init, Ledger!Init

(* Each step of the queue is a step of the ledger, or none.                 *)
LEMMA RefineStep ==
  ASSUME IInv, IInv', LedgerInv, LedgerInv', [Next]_vars
  PROVE  [Ledger!Next]_(Ledger!vars)
<1>1. /\ TypeOK /\ HandsInv /\ Distinct /\ Apart /\ LockInv /\ PlaceTable
      /\ RecordsInv /\ SettledInv /\ DutyInv /\ StageTable /\ VerdictTable
  BY SharedParts, PlacesRight, StagesRight, VerdictsRight DEF IInv, LedgerInv
<1>2. PlaceTable' /\ StageTable' /\ VerdictTable'
  BY PlacesRight, StagesRight, VerdictsRight, PTL
<1>3. ASSUME Place' = Place, UNCHANGED <<inbox, refused, outcome>>,
             \A s \in Live : request_queue'[s] = request_queue[s]
      PROVE  LedgerStage' = LedgerStage
  <2>1. ASSUME NEW q \in Requests PROVE LedgerStage'[q] = LedgerStage[q]
    BY <1>1, <1>2, <1>3, StageKept DEF Live
  <2> QED  BY <1>1, <1>2, <2>1 DEF StageTable
<1>4. SlotsWaiting \subseteq Live
  <2>1. request_queue_wait \in Seq(Slots)
    BY <1>1 DEF TypeOK
  <2> QED  BY <1>1, <2>1 DEF SlotsWaiting, PlaceTable, Live
<1>5. \A w \in Workers : worker[w] = "complete" => held[w] \in Live
  BY WorkerLive DEF Live, Holding
<1> USE DEF slotVars, loopVars, queueVars, lockVars, workerVars, mqttVars, appVars, Move
<1>6. ASSUME NEW r \in Requests, Receive(r) PROVE Ledger!Accept(r)
  <2> DEFINE s == incoming'
  <2>1. /\ s \in Slots /\ Place[s] = "none" /\ Place' = [Place EXCEPT ![s] = "accepted"]
        /\ request_queue' = [request_queue EXCEPT ![s] = r]
    BY <1>6, ReceivePlace, ReceiveMoves
  <2>2. /\ r \in inbox /\ inbox' = inbox \ {r}
        /\ request_queue_free_count < IOT_ACTION_QUEUE_MAX
        /\ request_queue_free_count' = request_queue_free_count + 1
        /\ UNCHANGED <<refused, outcome, request_queue_wait, held, worker, action_result>>
    BY <1>6 DEF Receive, Allocate
  <2>3. /\ s \in Live' /\ Place'[s] = "accepted" /\ request_queue'[s] = r
        /\ \A t \in Live : t \in Live' /\ Place'[t] = Place[t]
                           /\ request_queue'[t] = request_queue[t]
    BY <1>1, <2>1 DEF PlaceTable, Live, TypeOK
  <2>4. LedgerStage[r] = "inbox" /\ LedgerStage'[r] = "accepted"
    BY <1>1, <1>2, <2>2, <2>3 DEF StageTable
  <2>5. ASSUME NEW q \in Requests, q # r PROVE LedgerStage'[q] = LedgerStage[q]
    BY <1>1, <1>2, <2>2, <2>3, <2>5, StageKept
  <2>6. LedgerStage' = [LedgerStage EXCEPT ![r] = "accepted"]
    BY <1>1, <1>2, <2>4, <2>5 DEF StageTable
  <2>7. LedgerOrder' = LedgerOrder
    BY <1>1, <1>4, <2>2, <2>3, OrderKept
  <2>8. LedgerVerdict' = LedgerVerdict
    BY <1>1, <1>2, <1>5, <2>2, <2>3, VerdictKept
  <2> QED  BY <2>2, <2>4, <2>6, <2>7, <2>8 DEF Ledger!Accept, Ledger!Advance
<1>7. ASSUME NEW r \in Requests, Refuse(r) PROVE Ledger!Refuse(r)
  <2>1. /\ r \in inbox /\ inbox' = inbox \ {r} /\ refused' = refused \cup {r}
        /\ request_queue_free_count = IOT_ACTION_QUEUE_MAX \/ MemoryFails
        /\ UNCHANGED <<request_queue_free_count, request_queue, outcome,
                       request_queue_wait, held, worker, action_result>>
    BY <1>7 DEF Refuse
  <2>2. Place' = Place
    BY <1>7 DEF Refuse, Place, SlotsWaiting
  <2>3. LedgerStage[r] = "inbox" /\ LedgerStage'[r] = "refused"
    BY <1>1, <1>2, <2>1 DEF StageTable
  <2>4. ASSUME NEW q \in Requests, q # r PROVE LedgerStage'[q] = LedgerStage[q]
    BY <1>1, <1>2, <2>1, <2>2, <2>4, StageKept DEF Live
  <2>5. LedgerStage' = [LedgerStage EXCEPT ![r] = "refused"]
    BY <1>1, <1>2, <2>3, <2>4 DEF StageTable
  <2>6. LedgerOrder' = LedgerOrder
    BY <1>1, <2>1, OrderKept
  <2>7. LedgerVerdict' = LedgerVerdict
    BY <1>1, <1>2, <2>1, VerdictKept
  <2> QED  BY <2>1, <2>3, <2>5, <2>6, <2>7 DEF Ledger!Refuse, Ledger!Advance
<1>8. ASSUME Submit PROVE \E r \in Requests : Ledger!Queue(r)
  <2> DEFINE r == request_queue[incoming]
  <2>1. /\ incoming \in Slots /\ Place[incoming] = "accepted"
        /\ Place' = [Place EXCEPT ![incoming] = "queued"]
        /\ request_queue_wait' = Append(request_queue_wait, incoming)
    BY <1>8, SubmitPlace, SubmitMoves
  <2>2. /\ UNCHANGED <<inbox, refused, request_queue, request_queue_free_count, held, worker,
                       action_result>>
        /\ outcome' = outcome
    BY <1>1, <1>8, RoomToQueue DEF Submit, HandsInv, IInv
  <2>3. /\ r \in Requests /\ LedgerStage[r] = "accepted"
        /\ LedgerStage' = [LedgerStage EXCEPT ![r] = "queued"]
    BY <1>1, <1>2, <2>1, <2>2, StageMoved
  <2>4. LedgerOrder' = Append(LedgerOrder, r)
    BY <1>1, <2>1, <2>2, OrderAppend
  <2>5. LedgerVerdict' = LedgerVerdict
    BY <1>1, <1>2, <2>2, VerdictKept
  <2> QED  BY <2>2, <2>3, <2>4, <2>5 DEF Ledger!Queue, Ledger!Advance
<1>9. ASSUME NEW w \in Workers, EnterTake(w) \/ WokenTake(w) PROVE Ledger!Take
  <2> DEFINE s == Head(request_queue_wait)
             r == request_queue[s]
  <2>1. /\ s \in Slots /\ Place[s] = "queued" /\ Place' = [Place EXCEPT ![s] = "taken"]
    BY <1>9, TakePlace
  <2>2. /\ UNCHANGED <<inbox, refused, outcome, request_queue, request_queue_free_count,
                       action_result>>
        /\ request_queue_wait # <<>> /\ request_queue_wait' = Tail(request_queue_wait)
        /\ worker[w] # "complete" /\ worker'[w] = "look"
        /\ \A v \in Workers : v # w => worker'[v] = worker[v] /\ held'[v] = held[v]
    BY <1>1, <1>9 DEF EnterTake, WokenTake, Take, TypeOK
  <2>3. /\ LedgerStage[r] = "queued"
        /\ LedgerStage' = [LedgerStage EXCEPT ![r] = "taken"]
    BY <1>1, <1>2, <2>1, <2>2, StageMoved
  <2>4. /\ LedgerOrder # <<>> /\ Head(LedgerOrder) = r
        /\ LedgerOrder' = Tail(LedgerOrder)
    BY <1>1, <2>2, OrderTail
  <2>5. LedgerVerdict' = LedgerVerdict
    BY <1>1, <1>2, <2>2, VerdictKept
  <2> QED  BY <2>2, <2>3, <2>4, <2>5 DEF Ledger!Take, Ledger!Advance
<1> DEFINE Stays == UNCHANGED <<LedgerOrder, LedgerVerdict, outcome, request_queue_free_count>>
<1>10. ASSUME NEW w \in Workers, UNCHANGED <<slotVars, request_queue, inbox, refused, outcome>>,
              worker[w] \in Holding, worker'[w] \in Holding,
              worker' = [worker EXCEPT ![w] = worker'[w]],
              Place[held[w]] # "none", WorkerPlace[worker'[w]] # "none"
       PROVE  /\ Request(w) \in Requests /\ LedgerStage[Request(w)] = Place[held[w]]
              /\ LedgerStage' = [LedgerStage EXCEPT ![Request(w)] = WorkerPlace[worker'[w]]]
              /\ LedgerOrder' = LedgerOrder
  <2>1. /\ held[w] \in Slots
        /\ Place' = [Place EXCEPT ![held[w]] = WorkerPlace[worker'[w]]]
    BY <1>10, WorkerStep, WorkerLive
  <2>2. LedgerOrder' = LedgerOrder
    BY <1>1, <1>10, OrderKept
  <2>3. UNCHANGED <<request_queue, inbox, refused, outcome>>
    BY <1>10
  <2>4. /\ request_queue[held[w]] \in Requests
        /\ LedgerStage[request_queue[held[w]]] = Place[held[w]]
        /\ LedgerStage' = [LedgerStage EXCEPT ![request_queue[held[w]]] = WorkerPlace[worker'[w]]]
    BY <1>1, <1>2, <1>10, <2>1, <2>3, StageMoved
  <2> QED  BY <2>2, <2>4 DEF Request
<1>11. ASSUME NEW w \in Workers, Look(w)
       PROVE  [\E r \in Requests : Ledger!Skip(r)]_(Ledger!vars)
  <2>1. /\ UNCHANGED <<slotVars, request_queue, inbox, refused, outcome, action_result>>
        /\ worker[w] = "look" /\ worker'[w] \in {"lock", "complete"}
        /\ worker' = [worker EXCEPT ![w] = worker'[w]]
        /\ \A v \in Workers : v # w => worker'[v] = worker[v]
    BY <1>1, <1>11 DEF Look, TypeOK
  <2>2. /\ Request(w) \in Requests /\ LedgerStage[Request(w)] = "taken"
        /\ LedgerStage' = [LedgerStage EXCEPT ![Request(w)] = WorkerPlace[worker'[w]]]
        /\ LedgerOrder' = LedgerOrder
    BY <1>10, <2>1, WorkerLive DEF Holding
  <2>3. CASE worker'[w] = "lock"
    <3>1. LedgerStage' = LedgerStage
      BY <1>1, <2>1, <2>2, <2>3, WorkerLive DEF Holding, StageTable
    <3>2. LedgerVerdict' = LedgerVerdict
      BY <1>1, <1>2, <2>1, <2>3, VerdictKept
    <3> QED  BY <2>1, <2>2, <3>1, <3>2 DEF Ledger!vars
  <2>4. CASE worker'[w] = "complete"
    <3>1. LedgerStage' = [LedgerStage EXCEPT ![Request(w)] = "finished"]
      BY <2>1, <2>2, <2>4, WorkerLive DEF Holding
    <3>2. action_result'[w] = "NOT_FOUND" /\ held[w] \in Live
      BY <1>1, <2>1, WorkerLive DEF DutyInv, Live, Holding
    <3>4. UNCHANGED <<held, request_queue>>
      BY <2>1
    <3>5. LedgerVerdict' = [LedgerVerdict EXCEPT ![Request(w)] = "NOT_FOUND"]
      BY <1>1, <1>2, <2>1, <2>4, <3>2, <3>4, VerdictMoved
    <3>3. Ledger!Skip(Request(w))
      BY <2>1, <2>2, <3>1, <3>5 DEF Ledger!Skip, Ledger!Advance
    <3> QED  BY <2>2, <3>3
  <2> QED  BY <2>1, <2>3, <2>4
<1>12. ASSUME NEW w \in Workers, Lock(w)
       PROVE  \E r \in Requests : Ledger!Run(r)
  <2> DEFINE r == Request(w)
  <2>1. /\ UNCHANGED <<slotVars, request_queue, inbox, refused, outcome, action_result>>
        /\ worker[w] = "lock" /\ worker'[w] = "run"
        /\ worker' = [worker EXCEPT ![w] = worker'[w]]
        /\ \A v \in Workers : v # w => worker'[v] = worker[v]
    BY <1>1, <1>12 DEF Lock, TypeOK
  <2>2. /\ r \in Requests /\ LedgerStage[r] = "taken"
        /\ LedgerStage' = [LedgerStage EXCEPT ![r] = "running"]
        /\ LedgerOrder' = LedgerOrder
    BY <1>10, <2>1, WorkerLive DEF Holding
  <2>3. LedgerVerdict' = LedgerVerdict
    BY <1>1, <1>2, <2>1, VerdictKept
  <2>4. r \in Registered
    BY <1>1, <2>1 DEF DutyInv
  <2>5. ASSUME NEW q \in Ledger!Running
        PROVE  \E v \in Workers : worker[v] = "run" /\ Request(v) = q
    <3>1. q \in Requests /\ LedgerStage[q] = "running"
      BY DEF Ledger!Running
    <3>2. q \in Unsettled
      BY <1>1, <3>1 DEF StageTable, Unsettled
    <3>3. PICK s \in Live : request_queue[s] = q
      BY <1>1, <3>2 DEF RecordsInv
    <3>4. Place[s] = "running" /\ s \in Slots
      BY <1>1, <3>1, <3>3 DEF StageTable, Live
    <3>5. s \in SlotsHeld
      BY <1>1, <3>4 DEF PlaceTable, NoSlotLost, IInv
    <3>6. PICK v \in Workers : held[v] = s /\ held[v] # NoSlot
      BY <3>5 DEF SlotsHeld
    <3>7. worker[v] \in Holding
      BY <1>1, <3>6 DEF HandsInv
    <3>8. worker[v] = "run"
      BY <3>4, <3>6, <3>7, WorkerLive DEF Holding
    <3> QED  BY <3>3, <3>6, <3>8 DEF Request
  <2>6. CASE r \in Exclusive
    <3>1. readers = {} /\ writers = {}
      BY <1>12, <2>6 DEF Lock, WriteLock
    <3>2. \A v \in Workers : worker[v] # "run"
      BY <1>1, <3>1 DEF LockInv
    <3>3. Ledger!Running = {}
      BY <2>5, <3>2
    <3> QED  BY <2>1, <2>2, <2>3, <2>4, <3>3 DEF Ledger!Run, Ledger!Advance
  <2>7. CASE r \notin Exclusive
    <3>1. writers = {}
      BY <1>12, <2>7 DEF Lock, ReadLock
    <3>2. \A v \in Workers : worker[v] = "run" => Request(v) \notin Exclusive
      BY <1>1, <3>1 DEF LockInv
    <3>3. Ledger!Running \cap Exclusive = {}
      BY <2>5, <3>2
    <3> QED  BY <2>1, <2>2, <2>3, <2>4, <2>7, <3>3 DEF Ledger!Run, Ledger!Advance
  <2> QED  BY <2>6, <2>7
<1>13. ASSUME NEW w \in Workers, NEW result \in Results, Executed(w, result)
       PROVE  \E r \in Requests : Ledger!Finish(r, result)
  <2> DEFINE r == Request(w)
  <2>1. /\ UNCHANGED <<slotVars, request_queue, inbox, refused, outcome>>
        /\ worker[w] = "run" /\ worker'[w] = "complete" /\ action_result'[w] = result
        /\ worker' = [worker EXCEPT ![w] = worker'[w]]
        /\ \A v \in Workers : v # w => /\ worker'[v] = worker[v]
                                       /\ action_result'[v] = action_result[v]
    BY <1>1, <1>13 DEF Executed, TypeOK
  <2>2. /\ r \in Requests /\ LedgerStage[r] = "running"
        /\ LedgerStage' = [LedgerStage EXCEPT ![r] = "finished"]
        /\ LedgerOrder' = LedgerOrder
    BY <1>10, <2>1, WorkerLive DEF Holding
  <2>3. held[w] \in Live /\ UNCHANGED <<held, request_queue>>
    BY <2>1, WorkerLive DEF Live, Holding
  <2>4. LedgerVerdict' = [LedgerVerdict EXCEPT ![r] = result]
    BY <1>1, <1>2, <2>1, <2>3, VerdictMoved
  <2> QED  BY <2>1, <2>2, <2>4 DEF Ledger!Finish, Ledger!Advance
<1>14. ASSUME NEW w \in Workers, Complete(w)
       PROVE  \E r \in Requests : Ledger!Report(r)
  <2> DEFINE r == request_queue[held[w]]
  <2>1. /\ UNCHANGED <<slotVars, request_queue, inbox, refused>>
        /\ worker[w] = "complete" /\ worker'[w] = "clear"
        /\ worker' = [worker EXCEPT ![w] = worker'[w]]
        /\ outcome' = [outcome EXCEPT ![r] = Append(@, action_result[w])]
        /\ \A v \in Workers : v # w => /\ worker'[v] = worker[v]
                                       /\ action_result'[v] = action_result[v]
    BY <1>1, <1>14 DEF Complete, TypeOK, Request
  <2>2. held[w] \in Live /\ held[w] \in Slots /\ Place[held[w]] = "finished"
        /\ UNCHANGED <<held, request_queue>>
    BY <2>1, WorkerLive DEF Live, Holding
  <2>3. r \in Unsettled /\ LedgerStage[r] = "finished"
        /\ \A s \in Live : request_queue[s] = r => s = held[w]
    BY <1>1, <2>2 DEF RecordsInv, StageTable
  <2>4. LedgerVerdict[r] = action_result[w]
    BY <1>1, <2>1 DEF VerdictTable, Request
  <2>5. outcome' = [outcome EXCEPT ![r] = <<action_result[w]>>]
    <3>1. outcome[r] = <<>>
      BY <2>3 DEF Unsettled
    <3>2. Append(outcome[r], action_result[w]) = <<action_result[w]>>
      BY <3>1
    <3> QED  BY <2>1, <3>2
  <2>6. outcome'[r] # <<>> /\ \A q \in Requests : q # r => outcome'[q] = outcome[q]
    <3>1. outcome \in [Requests -> Seq(Statuses)] /\ r \in Requests
      BY <1>1, <2>3 DEF TypeOK, Unsettled
    <3> QED  BY <2>5, <3>1
  <2>7. LedgerStage'[r] = "reported"
    BY <1>2, <2>3, <2>6 DEF StageTable, Unsettled
  <2>8. ASSUME NEW q \in Requests, q # r PROVE LedgerStage'[q] = LedgerStage[q]
    <3>1. Place' = [Place EXCEPT ![held[w]] = "none"]
      BY <2>1, WorkerStep, WorkerLive DEF Holding
    <3>2. \A s \in Live : request_queue[s] = q =>
             s \in Live' /\ Place'[s] = Place[s] /\ request_queue'[s] = q
      BY <1>1, <2>1, <2>8, <3>1 DEF PlaceTable, Live
    <3> QED  BY <1>1, <1>2, <2>1, <2>6, <2>8, <3>2, StageKept
  <2>9. LedgerStage' = [LedgerStage EXCEPT ![r] = "reported"]
    BY <1>1, <1>2, <2>3, <2>7, <2>8 DEF StageTable, Unsettled
  <2>10. LedgerVerdict' = [LedgerVerdict EXCEPT ![r] = "none"]
    <3>1. IInv
      OBVIOUS
    <3> QED  BY <1>1, <1>2, <2>1, <2>2, <3>1, VerdictMoved DEF Request
  <2>11. LedgerOrder' = LedgerOrder
    BY <1>1, <2>1, OrderKept
  <2> QED  BY <2>1, <2>3, <2>4, <2>5, <2>9, <2>10, <2>11
           DEF Ledger!Report, Ledger!Advance, Unsettled
<1>15. ASSUME NEW w \in Workers, Clear(w) PROVE UNCHANGED Ledger!vars
  <2>1. /\ worker[w] = "clear" /\ worker'[w] = "release"
        /\ worker' = [worker EXCEPT ![w] = worker'[w]]
        /\ UNCHANGED <<slotVars, inbox, refused, outcome, action_result>>
        /\ request_queue' = [request_queue EXCEPT ![held[w]] = Blank]
    BY <1>1, <1>15 DEF Clear, TypeOK
  <2>2. Place' = [Place EXCEPT ![held[w]] = "none"] /\ Place[held[w]] = "none"
    BY <2>1, WorkerStep, WorkerLive DEF Holding
  <2>3. \A s \in Live : request_queue'[s] = request_queue[s]
    BY <1>1, <2>1, <2>2 DEF TypeOK, Live
  <2>4. Place' = Place
    BY <1>1, <2>2 DEF PlaceTable
  <2>5. LedgerStage' = LedgerStage
    BY <1>3, <2>1, <2>3, <2>4
  <2>6. LedgerOrder' = LedgerOrder
    BY <1>1, <1>4, <2>1, <2>3, OrderKept
  <2>7. LedgerVerdict' = LedgerVerdict
    <3>1. \A v \in Workers : worker'[v] = "complete" <=> worker[v] = "complete"
      BY <1>1, <2>1 DEF TypeOK
    <3> QED  BY <1>1, <1>2, <1>5, <2>1, <2>3, <3>1, VerdictKept
  <2> QED  BY <2>1, <2>5, <2>6, <2>7 DEF Ledger!vars
<1>16. ASSUME NEW w \in Workers, Release(w) PROVE Ledger!Release
  <2>1. /\ UNCHANGED <<inbox, refused, outcome, request_queue, action_result,
                       request_queue_wait>>
        /\ request_queue_free_count' = request_queue_free_count - 1
        /\ worker[w] = "release" /\ worker'[w] = "test"
        /\ \A v \in Workers : v # w => worker'[v] = worker[v] /\ held'[v] = held[v]
    BY <1>1, <1>16 DEF Release, TypeOK
  <2>2. LedgerStage' = LedgerStage
    BY <1>3, <1>16, <2>1, ReleasePlace
  <2>3. LedgerOrder' = LedgerOrder
    BY <1>1, <2>1, OrderKept
  <2>4. LedgerVerdict' = LedgerVerdict
    BY <1>1, <1>2, <2>1, VerdictKept
  <2>5. Ledger!Unreported = Unsettled
    <3>1. ASSUME NEW r \in Unsettled
          PROVE  LedgerStage[r] \notin {"inbox", "refused", "reported"}
      <4>1. PICK s \in Live : request_queue[s] = r
        BY <1>1 DEF RecordsInv
      <4>2. LedgerStage[r] = Place[s] /\ s \in Slots /\ Place[s] # "none"
        BY <1>1, <4>1 DEF StageTable, Live
      <4>3. Place[s] \in {"queued", "accepted", "taken", "running", "finished", "none"}
        BY <1>1, <4>2 DEF PlaceTable
      <4> QED  BY <4>2, <4>3
    <3>2. ASSUME NEW r \in Requests, r \notin Unsettled
          PROVE  LedgerStage[r] \in {"inbox", "refused", "reported"}
      BY <1>1, <3>2 DEF StageTable, Unsettled
    <3> QED  BY <3>1, <3>2 DEF Ledger!Unreported, Unsettled
  <2>6. request_queue_free_count > Cardinality(Ledger!Unreported)
    BY <2>1, <2>5, RoomToRelease
  <2>7. Ledger!Cardinality(Ledger!Unreported) = Cardinality(Ledger!Unreported)
    BY Zenon DEF Ledger!Cardinality, Cardinality
  <2> QED  BY <2>1, <2>2, <2>3, <2>4, <2>6, <2>7 DEF Ledger!Release
<1>17. CASE Untouched
  <2>1. /\ UNCHANGED <<slotVars, request_queue, action_result, inbox, refused, outcome>>
        /\ Place' = Place
    BY <1>17, UntouchedMoves DEF Untouched
  <2>2. LedgerStage' = LedgerStage
    BY <1>3, <2>1
  <2>3. LedgerOrder' = LedgerOrder
    BY <1>1, <2>1, OrderKept
  <2>4. \A v \in Workers : worker'[v] = "complete" <=> worker[v] = "complete"
    BY <1>1, <1>17 DEF Untouched, HandsInv, Holding
  <2>5. LedgerVerdict' = LedgerVerdict
    BY <1>1, <1>2, <2>1, <2>4, VerdictKept
  <2> QED  BY <2>1, <2>2, <2>3, <2>5 DEF Ledger!vars
<1>18. \/ \E r \in Requests : Receive(r) \/ Refuse(r)
       \/ Submit
       \/ \E w \in Workers : \/ EnterTake(w) \/ WokenTake(w) \/ Look(w) \/ Lock(w)
                             \/ \E result \in Results : Executed(w, result)
                             \/ Complete(w) \/ Clear(w) \/ Release(w)
       \/ Untouched
  BY LedgerFrame
<1> QED
  BY <1>6, <1>7, <1>8, <1>9, <1>11, <1>12, <1>13, <1>14, <1>15, <1>16, <1>17, <1>18
  DEF Ledger!Next

(* The queue, its threads and its lock keep the ledger's promise: every     *)
(* request is accepted or refused once, runs at most once and in the order  *)
(* of arrival, is reported once with the status of its run, and is refused  *)
(* only when all the records are in use.                                    *)
THEOREM KeepsLedger == Spec => ImplementsLedger
<1>1. IInv /\ IInv' /\ LedgerInv /\ LedgerInv' /\ [Next]_vars => [Ledger!Next]_(Ledger!vars)
  BY RefineStep
<1>2. Spec => Ledger!Spec
  BY RefineInit, <1>1, Inductive, LedgerHeld, PTL DEF Spec, Ledger!Spec
<1> QED  BY <1>2 DEF ImplementsLedger
=============================================================================
