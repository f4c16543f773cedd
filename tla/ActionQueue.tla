---------------------------- MODULE ActionQueue ----------------------------
(***************************************************************************)
(* The request queue of the library and the threads around it.             *)
(*                                                                         *)
(* The MQTT thread takes action requests from the cloud into the fixed     *)
(* array lib->request_queue and queues them; the worker threads take them  *)
(* off, run the action under the application-wide read/write lock, report  *)
(* the outcome and give the record back.  The application thread starts    *)
(* and stops all of them with iot_connect and iot_disconnect.              *)
(*                                                                         *)
(* A critical section of worker_mutex is one step.  The test of to_quit,   *)
(* the unlock before a signal, the wait and the reports are steps of their *)
(* own, because other threads run between them.                            *)
(***************************************************************************)
EXTENDS Integers, Sequences, FiniteSets

CONSTANTS
  IOT_ACTION_QUEUE_MAX,  \* records in lib->request_queue
  IOT_WORKER_THREADS,    \* worker threads of the library
  Blank,                 \* what a record holds after os_memzero
  Requests,              \* deliveries of a request by the cloud; one that is
                         \* delivered again is another member
  Registered,            \* those that name an action the library holds
  Exclusive,             \* those whose action is IOT_ACTION_EXCLUSIVE_APP
  Results,               \* what an executed action may return
  MaxConnects,           \* bound on the calls of iot_connect
  Spurious,              \* may the condition variable wake a thread unasked?
  CreateFails,           \* may os_thread_create fail?
  MemoryFails            \* may os_malloc fail in iot_action_request_allocate?

Slots   == 0 .. IOT_ACTION_QUEUE_MAX - 1
Workers == 1 .. IOT_WORKER_THREADS
NoSlot  == -1                               \* a NULL iot_action_request_t *
Statuses == Results \cup {"NOT_FOUND", "FULL"}

ASSUME SizesAssumption == /\ IOT_ACTION_QUEUE_MAX \in Nat \ {0}
                          /\ IOT_WORKER_THREADS \in Nat \ {0}
                          /\ MaxConnects \in Nat
ASSUME RequestsAssumption == /\ Registered \subseteq Requests
                             /\ Exclusive \subseteq Registered
                             /\ Blank \notin Requests
ASSUME FaultsAssumption == {Spurious, CreateFails, MemoryFails} \subseteq BOOLEAN

VARIABLES
  to_quit, main_thread, worker_thread,  \* the flag; is the handle set; whose are
  request_queue,                        \* what each record holds
  request_queue_free, request_queue_free_count, \* the stack of free records and
                                        \* the number in USE, its first free place
  request_queue_wait,                   \* the records waiting, oldest first
  readers, writers,                     \* who holds worker_thread_exclusive_lock
  main,                                 \* the main thread
  worker, held, action_result,          \* each worker: place, record, local result
  mqtt, incoming,                       \* the MQTT thread and its record
  app, index, connects,                 \* the application thread, its loop
                                        \* variable and its calls of iot_connect
  connected, inbox,                     \* the link and what may still arrive
  refused, outcome                      \* history: what was refused on arrival,
                                        \* and what was reported of each request

loopVars   == <<to_quit, main_thread, worker_thread, main>>
queueVars  == <<request_queue, request_queue_free, request_queue_free_count,
                request_queue_wait>>
lockVars   == <<readers, writers>>
workerVars == <<held, action_result, outcome>>
mqttVars   == <<mqtt, incoming, inbox, refused>>
appVars    == <<app, index, connects, connected>>
vars == <<loopVars, queueVars, lockVars, worker, workerVars, mqttVars, appVars>>

WorkerStates == {"none", "test", "enter", "wait", "woken", "look", "lock", "run",
                 "complete", "clear", "release", "done"}
AppStates == {"idle", "start main", "start workers", "start flag",
              "stop main", "broadcast", "stop workers", "stop link"}

(* The types, with what the sizes of the arrays demand.                     *)
TypeOK ==
  /\ to_quit \in BOOLEAN /\ main_thread \in BOOLEAN
  /\ worker_thread \subseteq Workers
  /\ request_queue \in [Slots -> Requests \cup {Blank}]
  /\ request_queue_free \in [Slots -> Slots]
  /\ request_queue_free_count \in 0 .. IOT_ACTION_QUEUE_MAX
  /\ request_queue_wait \in Seq(Slots)
  /\ readers \subseteq Workers /\ writers \subseteq Workers
  /\ main \in {"none", "run", "done"}
  /\ worker \in [Workers -> WorkerStates]
  /\ held \in [Workers -> Slots \cup {NoSlot}]
  /\ action_result \in [Workers -> Statuses]
  /\ mqtt \in {"idle", "fill", "submit", "signal"}
  /\ incoming \in Slots \cup {NoSlot}
  /\ app \in AppStates /\ index \in Workers /\ connects \in 0 .. MaxConnects
  /\ connected \in BOOLEAN
  /\ inbox \subseteq Requests /\ refused \subseteq Requests
  /\ outcome \in [Requests -> Seq(Statuses)]

(* iot_initialize: nothing runs, every record is free.                      *)
Init ==
  /\ to_quit = FALSE /\ main_thread = FALSE /\ worker_thread = {}
  /\ request_queue = [s \in Slots |-> Blank]
  /\ request_queue_free = [s \in Slots |-> s]
  /\ request_queue_free_count = 0
  /\ request_queue_wait = <<>>
  /\ readers = {} /\ writers = {}
  /\ main = "none"
  /\ worker = [w \in Workers |-> "none"]
  /\ held = [w \in Workers |-> NoSlot]
  /\ action_result = [w \in Workers |-> "NOT_FOUND"]
  /\ mqtt = "idle" /\ incoming = NoSlot
  /\ app = "idle" /\ index = 1 /\ connects = 0
  /\ connected = FALSE
  /\ inbox = Requests /\ refused = {}
  /\ outcome = [r \in Requests |-> <<>>]

-----------------------------------------------------------------------------
(* The MQTT thread: tr50_on_message on a reply that carries a request.      *)

(* iot_action_request_allocate: take the first free record, if there is one *)
(* and its name can be allocated.                                           *)
Allocate(r) ==
  LET s == request_queue_free[request_queue_free_count] IN
  /\ request_queue_free_count < IOT_ACTION_QUEUE_MAX
  /\ request_queue' = [request_queue EXCEPT ![s] = r]
  /\ request_queue_free_count' = request_queue_free_count + 1
  /\ incoming' = s
  /\ UNCHANGED <<request_queue_free, request_queue_wait>>

Receive(r) ==
  /\ connected /\ mqtt = "idle" /\ r \in inbox
  /\ inbox' = inbox \ {r}
  /\ Allocate(r)
  /\ mqtt' = "fill"
  /\ UNCHANGED <<loopVars, lockVars, worker, workerVars, appVars, refused>>

(* No record: the handler answers the cloud itself, with IOT_STATUS_FULL.   *)
Refuse(r) ==
  /\ connected /\ mqtt = "idle" /\ r \in inbox
  /\ request_queue_free_count = IOT_ACTION_QUEUE_MAX \/ MemoryFails
  /\ inbox' = inbox \ {r}
  /\ refused' = refused \cup {r}
  /\ UNCHANGED <<loopVars, queueVars, lockVars, worker, workerVars, appVars,
                 mqtt, incoming>>

(* The identifier and the parameters are copied into the record, which no  *)
(* lock protects meanwhile.                                                 *)
Fill ==
  /\ mqtt = "fill"
  /\ mqtt' = "submit"
  /\ UNCHANGED <<loopVars, queueVars, lockVars, worker, workerVars, appVars,
                 incoming, inbox, refused>>

(* Mutant: the newest request goes in front.                                *)
SubmitInFront ==
  /\ mqtt = "submit"
  /\ request_queue_wait' = <<incoming>> \o request_queue_wait
  /\ mqtt' = "signal"
  /\ incoming' = NoSlot
  /\ UNCHANGED <<loopVars, request_queue, request_queue_free,
                 request_queue_free_count, lockVars, worker, workerVars,
                 appVars, inbox, refused>>

(* iot_action_request_execute up to the unlock.  A full wait queue is       *)
(* reported and the record is not given back.                               *)
Submit ==
  /\ mqtt = "submit"
  /\ IF Len(request_queue_wait) < IOT_ACTION_QUEUE_MAX
     THEN /\ request_queue_wait' = Append(request_queue_wait, incoming)
          /\ UNCHANGED outcome
     ELSE /\ outcome' = [outcome EXCEPT ![request_queue[incoming]] = Append(@, "FULL")]
          /\ UNCHANGED request_queue_wait
  /\ mqtt' = "signal"
  /\ incoming' = NoSlot
  /\ UNCHANGED <<loopVars, request_queue, request_queue_free,
                 request_queue_free_count, lockVars, worker, held,
                 action_result, appVars, inbox, refused>>

(* Mutant: nobody is signalled.                                             *)
SignalNobody ==
  /\ mqtt = "signal"
  /\ mqtt' = "idle"
  /\ UNCHANGED <<loopVars, queueVars, lockVars, worker, workerVars, appVars,
                 incoming, inbox, refused>>

(* os_thread_condition_signal, after the unlock: wakes one waiter, if any.  *)
Signal ==
  /\ mqtt = "signal"
  /\ \/ /\ \A w \in Workers : worker[w] # "wait"
        /\ UNCHANGED worker
     \/ \E w \in Workers : /\ worker[w] = "wait"
                           /\ worker' = [worker EXCEPT ![w] = "woken"]
  /\ mqtt' = "idle"
  /\ UNCHANGED <<loopVars, queueVars, lockVars, workerVars, appVars,
                 incoming, inbox, refused>>

-----------------------------------------------------------------------------
(* A worker thread: iot_base_worker_thread_main and iot_action_process.     *)

Move(w, from, to) == /\ worker[w] = from
                     /\ worker' = [worker EXCEPT ![w] = to]

(* The loop of iot_base_worker_thread_main after a success.                 *)
TestQuit(w) ==
  /\ Move(w, "test", IF to_quit THEN "done" ELSE "enter")
  /\ UNCHANGED <<loopVars, queueVars, lockVars, workerVars, mqttVars, appVars>>

(* Mutant: the taken request is not removed from the wait queue.            *)
TakeAndLeave(w) ==
  /\ request_queue_wait # <<>>
  /\ held' = [held EXCEPT ![w] = Head(request_queue_wait)]
  /\ UNCHANGED <<loopVars, queueVars, lockVars, action_result, outcome,
                 mqttVars, appVars>>

(* Under the mutex: take the oldest request off the queue.                  *)
Take(w) ==
  /\ request_queue_wait # <<>>
  /\ held' = [held EXCEPT ![w] = Head(request_queue_wait)]
  /\ request_queue_wait' = Tail(request_queue_wait)
  /\ UNCHANGED <<loopVars, request_queue, request_queue_free,
                 request_queue_free_count, lockVars, action_result, outcome,
                 mqttVars, appVars>>

(* A thread that finds work does not wait.                                  *)
EnterTake(w) == Move(w, "enter", "look") /\ Take(w)

EnterWait(w) ==
  /\ request_queue_wait = <<>>
  /\ Move(w, "enter", "wait")
  /\ UNCHANGED <<loopVars, queueVars, lockVars, workerVars, mqttVars, appVars>>

SpuriousWakeup(w) ==
  /\ Spurious
  /\ Move(w, "wait", "woken")
  /\ UNCHANGED <<loopVars, queueVars, lockVars, workerVars, mqttVars, appVars>>

(* A woken thread takes what it finds; it does not wait a second time.      *)
WokenTake(w) == Move(w, "woken", "look") /\ Take(w)

(* It finds nothing: iot_action_process returns IOT_STATUS_NOT_FOUND, and   *)
(* the loop of the thread ends on anything but success.                     *)
WokenExit(w) ==
  /\ request_queue_wait = <<>>
  /\ Move(w, "woken", "done")
  /\ UNCHANGED <<loopVars, queueVars, lockVars, workerVars, mqttVars, appVars>>

Request(w) == request_queue[held[w]]

(* The action is looked up and to_quit read: only then is it executed.      *)
Look(w) ==
  /\ Move(w, "look", IF ~to_quit /\ Request(w) \in Registered
                     THEN "lock" ELSE "complete")
  /\ UNCHANGED <<loopVars, queueVars, lockVars, workerVars, mqttVars, appVars>>

WriteLock(w) ==
  /\ readers = {} /\ writers = {}
  /\ writers' = {w}
  /\ UNCHANGED readers
ReadLock(w) ==
  /\ writers = {}
  /\ readers' = readers \cup {w}
  /\ UNCHANGED writers

(* Mutant: the flag of the action is ignored.                               *)
LockShared(w) ==
  /\ Move(w, "lock", "run")
  /\ ReadLock(w)
  /\ UNCHANGED <<loopVars, queueVars, workerVars, mqttVars, appVars>>

Lock(w) ==
  /\ Move(w, "lock", "run")
  /\ IF Request(w) \in Exclusive THEN WriteLock(w) ELSE ReadLock(w)
  /\ UNCHANGED <<loopVars, queueVars, workerVars, mqttVars, appVars>>

(* iot_action_execute returns and the lock is given up.                     *)
Executed(w, result) ==
  /\ Move(w, "run", "complete")
  /\ action_result' = [action_result EXCEPT ![w] = result]
  /\ readers' = readers \ {w}
  /\ writers' = writers \ {w}
  /\ UNCHANGED <<loopVars, queueVars, held, outcome, mqttVars, appVars>>

(* The status is set and IOT_OPERATION_ACTION_COMPLETE performed; the next  *)
(* call of iot_action_process starts from IOT_STATUS_NOT_FOUND again.       *)
Complete(w) ==
  /\ Move(w, "complete", "clear")
  /\ outcome' = [outcome EXCEPT ![Request(w)] = Append(@, action_result[w])]
  /\ action_result' = [action_result EXCEPT ![w] = "NOT_FOUND"]
  /\ UNCHANGED <<loopVars, queueVars, lockVars, held, mqttVars, appVars>>

(* iot_action_request_free: the record is cleared before the mutex is       *)
(* taken, then pushed back on the stack of free records.                    *)
Clear(w) ==
  /\ Move(w, "clear", "release")
  /\ request_queue' = [request_queue EXCEPT ![held[w]] = Blank]
  /\ UNCHANGED <<loopVars, request_queue_free, request_queue_free_count,
                 request_queue_wait, lockVars, workerVars, mqttVars, appVars>>

(* Mutants: the count is lowered twice; not lowered; lowered after the      *)
(* record is stored.                                                        *)
ReleaseTwice(w) ==
  /\ Move(w, "release", "test")
  /\ request_queue_free_count' = request_queue_free_count - 2
  /\ request_queue_free' =
       [request_queue_free EXCEPT ![request_queue_free_count - 1] = held[w]]
  /\ held' = [held EXCEPT ![w] = NoSlot]
  /\ UNCHANGED <<loopVars, request_queue, request_queue_wait, lockVars,
                 action_result, outcome, mqttVars, appVars>>
ReleaseUncounted(w) ==
  /\ Move(w, "release", "test")
  /\ request_queue_free' =
       [request_queue_free EXCEPT ![request_queue_free_count - 1] = held[w]]
  /\ held' = [held EXCEPT ![w] = NoSlot]
  /\ UNCHANGED <<loopVars, request_queue, request_queue_free_count,
                 request_queue_wait, lockVars, action_result, outcome,
                 mqttVars, appVars>>
ReleaseStoreFirst(w) ==
  /\ Move(w, "release", "test")
  /\ request_queue_free_count' = request_queue_free_count - 1
  /\ request_queue_free' =
       [request_queue_free EXCEPT ![request_queue_free_count] = held[w]]
  /\ held' = [held EXCEPT ![w] = NoSlot]
  /\ UNCHANGED <<loopVars, request_queue, request_queue_wait, lockVars,
                 action_result, outcome, mqttVars, appVars>>

Release(w) ==
  /\ Move(w, "release", "test")
  /\ request_queue_free_count' = request_queue_free_count - 1
  /\ request_queue_free' =
       [request_queue_free EXCEPT ![request_queue_free_count - 1] = held[w]]
  /\ held' = [held EXCEPT ![w] = NoSlot]
  /\ UNCHANGED <<loopVars, request_queue, request_queue_wait, lockVars,
                 action_result, outcome, mqttVars, appVars>>

-----------------------------------------------------------------------------
(* The main thread, iot_loop_forever: with the workers running, an          *)
(* iteration touches none of this state; the loop ends with to_quit.        *)
MainExit ==
  /\ main = "run" /\ to_quit
  /\ main' = "done"
  /\ UNCHANGED <<to_quit, main_thread, worker_thread, queueVars, lockVars,
                 worker, workerVars, mqttVars, appVars>>

-----------------------------------------------------------------------------
(* The application thread: iot_connect with iot_loop_start, iot_disconnect  *)
(* with iot_loop_stop.                                                      *)

(* IOT_OPERATION_CLIENT_CONNECT succeeds: requests arrive from here on.     *)
Connect ==
  /\ app = "idle" /\ connects < MaxConnects
  /\ connects' = connects + 1
  /\ connected' = TRUE
  /\ app' = "start main"
  /\ UNCHANGED <<loopVars, queueVars, lockVars, worker, workerVars, mqttVars, index>>

StartMain ==
  /\ app = "start main" /\ ~main_thread
  /\ main_thread' = TRUE
  /\ main' = "run"
  /\ index' = 1
  /\ app' = "start workers"
  /\ UNCHANGED <<to_quit, worker_thread, queueVars, lockVars, worker, workerVars,
                 mqttVars, connects, connected>>

(* A handle left by an earlier call: the threads are taken to be running.   *)
AlreadyStarted ==
  /\ app = "start main" /\ main_thread
  /\ app' = "start flag"
  /\ UNCHANGED <<loopVars, queueVars, lockVars, worker, workerVars, mqttVars,
                 index, connects, connected>>

StartWorker ==
  /\ app = "start workers"
  /\ worker_thread' = worker_thread \cup {index}
  /\ worker' = [worker EXCEPT ![index] = "test"]
  /\ IF index < IOT_WORKER_THREADS
     THEN index' = index + 1 /\ UNCHANGED app
     ELSE app' = "start flag" /\ UNCHANGED index
  /\ UNCHANGED <<to_quit, main_thread, main, queueVars, lockVars, workerVars,
                 mqttVars, connects, connected>>

(* os_thread_create fails: IOT_STATUS_FAILURE, and to_quit is left alone.   *)
StartFails ==
  /\ CreateFails
  /\ \/ app = "start main" /\ ~main_thread
     \/ app = "start workers"
  /\ app' = "idle"
  /\ UNCHANGED <<loopVars, queueVars, lockVars, worker, workerVars, mqttVars,
                 index, connects, connected>>

(* The last statement of iot_loop_start, with every thread running already. *)
ClearQuit ==
  /\ app = "start flag"
  /\ to_quit' = FALSE
  /\ app' = "idle"
  /\ UNCHANGED <<main_thread, worker_thread, main, queueVars, lockVars, worker,
                 workerVars, mqttVars, index, connects, connected>>

Stop ==
  /\ app = "idle"
  /\ to_quit' = TRUE
  /\ app' = "stop main"
  /\ UNCHANGED <<main_thread, worker_thread, main, queueVars, lockVars, worker,
                 workerVars, mqttVars, index, connects, connected>>

JoinMain ==
  /\ app = "stop main"
  /\ main_thread => main = "done"
  /\ main_thread' = FALSE
  /\ main' = IF main_thread THEN "none" ELSE main
  /\ app' = "broadcast"
  /\ UNCHANGED <<to_quit, worker_thread, queueVars, lockVars, worker, workerVars,
                 mqttVars, index, connects, connected>>

(* os_thread_condition_broadcast, without the mutex: only the threads that  *)
(* wait at this moment hear it.                                             *)
Broadcast ==
  /\ app = "broadcast"
  /\ worker' = [w \in Workers |-> IF worker[w] = "wait" THEN "woken" ELSE worker[w]]
  /\ index' = 1
  /\ app' = "stop workers"
  /\ UNCHANGED <<loopVars, queueVars, lockVars, workerVars, mqttVars,
                 connects, connected>>

(* Mutant: the handle is cleared without waiting for the thread.            *)
ForgetWorker ==
  /\ app = "stop workers"
  /\ worker_thread' = worker_thread \ {index}
  /\ IF index < IOT_WORKER_THREADS
     THEN index' = index + 1 /\ UNCHANGED app
     ELSE app' = "stop link" /\ UNCHANGED index
  /\ UNCHANGED <<to_quit, main_thread, main, queueVars, lockVars, worker,
                 workerVars, mqttVars, connects, connected>>

JoinWorker ==
  /\ app = "stop workers"
  /\ index \in worker_thread => worker[index] = "done"
  /\ worker_thread' = worker_thread \ {index}
  /\ worker' = [worker EXCEPT ![index] = IF index \in worker_thread THEN "none" ELSE @]
  /\ IF index < IOT_WORKER_THREADS
     THEN index' = index + 1 /\ UNCHANGED app
     ELSE app' = "stop link" /\ UNCHANGED index
  /\ UNCHANGED <<to_quit, main_thread, main, queueVars, lockVars, workerVars,
                 mqttVars, connects, connected>>

(* IOT_OPERATION_CLIENT_DISCONNECT: the MQTT thread is gone afterwards; a   *)
(* message it is handling is handled to its end.                            *)
Disconnect ==
  /\ app = "stop link" /\ mqtt = "idle"
  /\ connected' = FALSE
  /\ app' = "idle"
  /\ UNCHANGED <<loopVars, queueVars, lockVars, worker, workerVars, mqttVars,
                 index, connects>>

-----------------------------------------------------------------------------
MqttStep == Fill \/ Submit \/ Signal
Process(w) ==
  \/ TestQuit(w) \/ EnterTake(w) \/ EnterWait(w) \/ WokenTake(w) \/ WokenExit(w)
  \/ Look(w) \/ Lock(w) \/ Complete(w) \/ Clear(w) \/ Release(w)
  \/ \E result \in Results : Executed(w, result)
StartStep == StartMain \/ AlreadyStarted \/ StartWorker \/ ClearQuit
StopStep == JoinMain \/ Broadcast \/ JoinWorker \/ Disconnect

Next ==
  \/ \E r \in Requests : Receive(r) \/ Refuse(r)
  \/ MqttStep
  \/ \E w \in Workers : Process(w) \/ SpuriousWakeup(w)
  \/ MainExit
  \/ Connect \/ StartStep \/ StartFails \/ Stop \/ StopStep

Spec == Init /\ [][Next]_vars

(* Every thread is scheduled, an action in execution returns.  Nobody owes  *)
(* a message, a connect or a disconnect, and a lock is granted eventually   *)
(* only when it is free for good, since nothing in the code promises more.  *)
FairSpec ==
  /\ Spec
  /\ WF_vars(MqttStep)
  /\ \A w \in Workers : WF_vars(Process(w))
  /\ WF_vars(MainExit)
  /\ WF_vars(StartStep \/ StopStep)

-----------------------------------------------------------------------------
(* Properties.                                                              *)

SlotsWaiting == {request_queue_wait[i] : i \in 1 .. Len(request_queue_wait)}
SlotsFree    == {request_queue_free[i] : i \in {j \in Slots : j >= request_queue_free_count}}
SlotsHeld    == {held[w] : w \in Workers} \ {NoSlot}
SlotIncoming == {incoming} \ {NoSlot}

(* A record is never in two hands: the free stack and the wait queue hold   *)
(* no record twice, no two workers hold the same one, and the four places a *)
(* record can be (free, being filled, waiting, being processed) exclude     *)
(* each other.  What iot_action_request_allocate clears outside any reader's*)
(* sight, and iot_action_request_free clears before it takes the mutex,     *)
(* relies on it.                                                            *)
NoSlotShared ==
  /\ \A i, j \in Slots :
       i # j /\ i >= request_queue_free_count /\ j >= request_queue_free_count
         => request_queue_free[i] # request_queue_free[j]
  /\ \A i, j \in 1 .. Len(request_queue_wait) :
       i # j => request_queue_wait[i] # request_queue_wait[j]
  /\ \A v, w \in Workers : v # w /\ held[v] = held[w] => held[w] = NoSlot
  /\ SlotsFree \cap (SlotsWaiting \cup SlotsHeld \cup SlotIncoming) = {}
  /\ SlotsWaiting \cap (SlotsHeld \cup SlotIncoming) = {}
  /\ SlotsHeld \cap SlotIncoming = {}

(* No record is lost: whatever order allocation, processing, release, stop  *)
(* and reconnect come in, each record is in one of the four places, so the  *)
(* capacity of the queue never shrinks.                                     *)
NoSlotLost == Slots = SlotsFree \cup SlotsWaiting \cup SlotsHeld \cup SlotIncoming

(* The branch of iot_action_request_execute for a full wait queue, which    *)
(* would report the request and leak its record, is never reached.          *)
QueueNeverFull ==
  mqtt = "submit" => Len(request_queue_wait) < IOT_ACTION_QUEUE_MAX

(* An action flagged IOT_ACTION_EXCLUSIVE_APP runs while no other action of *)
(* the application does.                                                    *)
ExclusiveAlone ==
  \A v, w \in Workers :
    v # w /\ worker[v] = "run" /\ worker[w] = "run"
      => Request(v) \notin Exclusive /\ Request(w) \notin Exclusive

(* When iot_disconnect closes the link, and so before anything is freed, no *)
(* thread of the library is left, whichever way it was started, and no      *)
(* record is in a worker's hands or the lock held by one.                   *)
NoThreadOutlivesStop ==
  app = "stop link" =>
    /\ main = "none" /\ \A w \in Workers : worker[w] = "none" /\ held[w] = NoSlot
    /\ readers = {} /\ writers = {}

(* A request that waits is reported in the end, or every worker thread is   *)
(* gone: a thread never sleeps through queued work.                         *)
Waits(r) == \E s \in SlotsWaiting : request_queue[s] = r
Served ==
  \A r \in Requests :
    Waits(r) ~> \/ outcome[r] # <<>>
                \/ \A w \in Workers : worker[w] \in {"none", "done"}

(* iot_loop_stop signals all worker threads to wake up and waits for them:  *)
(* it returns.                                                              *)
StopReturns == app = "stop main" ~> app = "stop link"

-----------------------------------------------------------------------------
(* The queue implements the ledger of requests.                             *)

Handler(r) == {w \in Workers : held[w] # NoSlot /\ Request(w) = r}
StageOf(r) ==
  IF r \in inbox THEN "inbox"
  ELSE IF r \in refused THEN "refused"
  ELSE IF outcome[r] # <<>> THEN "reported"
  ELSE IF Waits(r) THEN "queued"
  ELSE IF incoming # NoSlot /\ request_queue[incoming] = r THEN "accepted"
  ELSE LET w == CHOOSE w \in Handler(r) : TRUE
       IN CASE worker[w] \in {"look", "lock"} -> "taken"
            [] worker[w] = "run" -> "running"
            [] worker[w] = "complete" -> "finished"

LedgerStage   == [r \in Requests |-> StageOf(r)]
LedgerOrder   == [i \in 1 .. Len(request_queue_wait) |->
                    request_queue[request_queue_wait[i]]]
LedgerVerdict == [r \in Requests |->
                    IF \E w \in Handler(r) : worker[w] = "complete"
                    THEN action_result[CHOOSE w \in Handler(r) : TRUE] ELSE "none"]

Ledger == INSTANCE RequestLedger WITH
  Capacity <- IOT_ACTION_QUEUE_MAX,
  stage    <- LedgerStage,
  order    <- LedgerOrder,
  verdict  <- LedgerVerdict,
  used     <- request_queue_free_count

(* Every request is accepted or refused once, runs at most once, in the     *)
(* order of arrival, and is reported once, with the status of its run or    *)
(* with IOT_STATUS_NOT_FOUND if it never ran; one is refused only when all  *)
(* the records are in use.                                                  *)
ImplementsLedger == Ledger!Spec
=============================================================================
