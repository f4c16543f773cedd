----------------------------- MODULE ItemLists -----------------------------
(***************************************************************************)
(* The sorted lists of actions, telemetry and alarms of the library.  Each *)
(* is an array of pointers: the items in use come first, in the order of   *)
(* their names, and after them the structures inside the library that no   *)
(* item uses; an empty place makes the next item come from the heap.  The  *)
(* lists of telemetry and alarms have a mutex, that of actions has none,   *)
(* although worker threads search it for every request.                    *)
(*                                                                         *)
(* A behaviour follows one of the three lists.  Names are numbers, ordered *)
(* as the comparison of strings orders them; several items may have one.   *)
(* (The comparison of alarms stops at the length of the new name, which    *)
(* puts it at the same place.)                                             *)
(***************************************************************************)
EXTENDS Halving, FiniteSets

CONSTANTS
  Kinds,       \* the lists followed: a subset of action, telemetry, alarm
  Threads,     \* threads of the application
  BuiltIn,     \* structures inside the library (IOT_*_STACK_MAX of them)
  Heap,        \* bound: addresses the heap can give
  Max,         \* IOT_ACTION_MAX, IOT_TELEMETRY_MAX, IOT_ALARM_MAX
  Names,       \* names in use, numbers from 1
  MaxFailures, \* bound: how often an allocation or a plug-in fails
  None

VARIABLES
  kind,        \* the list followed
  ptr, count,  \* its array and the number of items
  item,        \* what each structure holds
  lock,        \* the thread that holds the mutex of the list
  pc, mem, name, at, goal,  \* of each thread: place, structure, name, positions
  handles,     \* how often the application holds a structure as an item
  closing,     \* the thread that runs iot_terminate
  search, wanted, looking, found,  \* worker: place, name of the request, index
  disturbed,   \* history: has the list changed during the search?
  failures     \* counter of the bound

listVars == <<ptr, count, item>>
threadVars == <<pc, mem, name, at, goal>>
searchVars == <<search, wanted, looking, found>>
vars == <<kind, listVars, lock, threadVars, handles, closing, searchVars, disturbed,
          failures>>

Structs == BuiltIn \cup Heap
Places == 0 .. Max - 1
Zeroed == [name |-> 0, lib |-> FALSE, state |-> "deregistered"]
Locked == kind # "action"
Sole(t) == Locked \/ \A u \in Threads \ {t} : pc[u] = "idle"
Live == {ptr[i] : i \in 0 .. count - 1}

Init ==
  /\ kind \in Kinds
  /\ ptr \in [Places -> BuiltIn \cup {None}]
  /\ \A i \in Places : ptr[i] = None <=> i >= Cardinality(BuiltIn)
  /\ \A s \in BuiltIn : \E i \in Places : ptr[i] = s
  /\ count = 0 /\ item = [s \in Structs |-> Zeroed]
  /\ lock = None
  /\ pc = [t \in Threads |-> "idle"] /\ mem = [t \in Threads |-> None]
  /\ name = [t \in Threads |-> 0]
  /\ at = [t \in Threads |-> 0] /\ goal = [t \in Threads |-> 0]
  /\ handles = [s \in Structs |-> 0] /\ closing = None
  /\ search = "idle" /\ wanted = 0 /\ looking = 0 /\ found = None
  /\ disturbed = FALSE /\ failures = 0

Go(t, place) == pc' = [pc EXCEPT ![t] = place]
Fails == failures < MaxFailures /\ failures' = failures + 1
Lock(t) == lock = None /\ lock' = IF Locked THEN t ELSE None
Disturb == disturbed' = (disturbed \/ search # "idle")
\* A thread forgets what it worked on when its call returns.
Return(t) ==
  /\ Go(t, IF closing = t THEN "closing" ELSE "idle")
  /\ mem' = [mem EXCEPT ![t] = None] /\ name' = [name EXCEPT ![t] = 0]
  /\ at' = [at EXCEPT ![t] = 0] /\ goal' = [goal EXCEPT ![t] = 0]
  /\ lock' = IF lock = t THEN None ELSE lock

-----------------------------------------------------------------------------
(***************************************************************************)
(* A new item: iot_action_allocate, iot_telemetry_allocate and             *)
(* iot_alarm_register.                                                     *)
(***************************************************************************)
Allocate(t) ==
  /\ pc[t] = "idle" /\ closing = None /\ Sole(t) /\ Lock(t)
  /\ \E n \in Names : name' = [name EXCEPT ![t] = n]
  /\ Go(t, "take")
  /\ UNCHANGED <<kind, listVars, mem, at, goal, handles, closing, searchVars, disturbed,
                 failures>>

NoRoom(t) ==
  /\ pc[t] = "take"
  /\ \/ count = Max /\ UNCHANGED failures
     \/ count < Max /\ ptr[count] = None /\ Fails          \* no memory
  /\ Return(t)
  /\ UNCHANGED <<kind, listVars, handles, closing, searchVars, disturbed>>

\* Where an item of name n goes, by halving.
PlaceOf(n) ==
  LET places == 0 .. count - 1
      Lower == {i \in places : n > item[ptr[i]].name}
  IN  Halve(0, count, Lower, places \ Lower).at

Candidates ==
  IF ptr[count] # None THEN {ptr[count]}
  ELSE {s \in Heap : s \notin Live /\ handles[s] = 0
                     /\ \A u \in Threads : mem[u] # s}

\* The structure is zeroed and named; the shift of the items that come after
\* it starts at the last of them.
TakeStruct(t) ==
  /\ pc[t] = "take" /\ count < Max
  /\ \E s \in Candidates :
       /\ mem' = [mem EXCEPT ![t] = s]
       /\ item' = [item EXCEPT ![s] = [Zeroed EXCEPT !.name = name[t], !.lib = TRUE]]
  /\ at' = [at EXCEPT ![t] = count] /\ goal' = [goal EXCEPT ![t] = PlaceOf(name[t])]
  /\ Go(t, "shift")
  /\ UNCHANGED <<kind, ptr, count, lock, name, handles, closing, searchVars, disturbed,
                 failures>>

\* No memory for the name: a heap structure is given back; one of the library
\* is returned for an action or a telemetry, though it is not in the list.
NameFails(t) ==
  /\ pc[t] = "take" /\ count < Max /\ Fails
  /\ \E s \in Candidates :
       /\ item' = [item EXCEPT ![s] = Zeroed]
       /\ handles' = IF s \in BuiltIn /\ kind # "alarm"
                     THEN [handles EXCEPT ![s] = @ + 1] ELSE handles
  /\ Return(t)
  /\ UNCHANGED <<kind, ptr, count, closing, searchVars, disturbed>>

Shift(t) ==
  /\ pc[t] = "shift" /\ at[t] > goal[t]
  /\ ptr' = [ptr EXCEPT ![at[t]] = ptr[at[t] - 1]]
  /\ at' = [at EXCEPT ![t] = @ - 1] /\ Disturb
  /\ UNCHANGED <<kind, count, item, lock, pc, mem, name, goal, handles, closing,
                 searchVars, failures>>

Insert(t) ==
  /\ pc[t] = "shift" /\ at[t] = goal[t]
  /\ ptr' = [ptr EXCEPT ![at[t]] = mem[t]] /\ Disturb
  /\ Go(t, "count")
  /\ UNCHANGED <<kind, count, item, lock, mem, name, at, goal, handles, closing,
                 searchVars, failures>>

Count(t) ==
  /\ pc[t] = "count"
  /\ count' = count + 1 /\ Disturb
  /\ handles' = [handles EXCEPT ![mem[t]] = @ + 1]
  /\ Return(t)
  /\ UNCHANGED <<kind, ptr, item, closing, searchVars, failures>>

Allocating(t) == Allocate(t) \/ NoRoom(t) \/ TakeStruct(t) \/ NameFails(t) \/ Shift(t)
                 \/ Insert(t) \/ Count(t)

(***************************************************************************)
(* Registering and freeing an item: iot_action_register, iot_action_free,  *)
(* iot_telemetry_register, iot_telemetry_free, iot_alarm_deregister.       *)
(***************************************************************************)
Owns(t, s) == handles[s] > 0 /\ \A u \in Threads : mem[u] # s

Register(t) ==
  /\ pc[t] = "idle" /\ closing = None /\ kind # "alarm"
  /\ \E s \in Structs :
       /\ Owns(t, s) /\ item[s].lib
       /\ \/ item' = [item EXCEPT ![s].state = "registered"] /\ UNCHANGED failures
          \/ item' = [item EXCEPT ![s].state = "register_pending"] /\ Fails
  /\ UNCHANGED <<kind, ptr, count, lock, threadVars, handles, closing, searchVars,
                 disturbed>>

\* The plug-in is told outside the mutex.  An action stays when this fails.
Deregister(t, s) ==
  \/ kind = "alarm" /\ item[s].lib /\ Go(t, "free") /\ UNCHANGED <<item, failures>>
  \/ /\ kind # "alarm" /\ item[s].lib
     /\ item' = [item EXCEPT ![s].state = "deregistered"] /\ UNCHANGED failures
     /\ Go(t, "free")
  \/ /\ kind # "alarm" /\ item[s].lib /\ item[s].state # "deregistered"
     /\ item' = [item EXCEPT ![s].state = "deregister_pending"] /\ Fails
     /\ Go(t, IF kind = "action" THEN "kept" ELSE "free")
  \/ ~ item[s].lib /\ Go(t, "kept") /\ UNCHANGED <<item, failures>>

Free(t) ==
  /\ pc[t] = "idle" /\ closing = None /\ Sole(t)
  /\ \E s \in Structs :
       /\ Owns(t, s) /\ Deregister(t, s)
       /\ mem' = [mem EXCEPT ![t] = s]
  /\ UNCHANGED <<kind, ptr, count, lock, name, at, goal, handles, closing, searchVars,
                 disturbed>>

Position(s) == CHOOSE i \in 0 .. count : (i = count \/ ptr[i] = s)
                                         /\ \A j \in 0 .. i - 1 : ptr[j] # s

Find(t) ==
  /\ pc[t] = "free" /\ Lock(t)
  /\ at' = [at EXCEPT ![t] = Position(mem[t])]
  /\ Go(t, IF Position(mem[t]) < count THEN "close" ELSE "kept")
  /\ UNCHANGED <<kind, listVars, mem, name, goal, handles, closing, searchVars,
                 disturbed, failures>>

CloseUp(t) ==
  /\ pc[t] = "close" /\ at[t] < count - 1
  /\ ptr' = [ptr EXCEPT ![at[t]] = ptr[at[t] + 1]]
  /\ at' = [at EXCEPT ![t] = @ + 1] /\ Disturb
  /\ UNCHANGED <<kind, count, item, lock, pc, mem, name, goal, handles, closing,
                 searchVars, failures>>

\* Mutant: the place behind the items is always left empty.
ReleaseLost(t) ==
  /\ pc[t] = "close" /\ at[t] = count - 1
  /\ count' = count - 1 /\ Disturb
  /\ ptr' = [ptr EXCEPT ![count - 1] = None]
  /\ item' = [item EXCEPT ![mem[t]] = Zeroed]
  /\ handles' = [handles EXCEPT ![mem[t]] = IF @ > 0 THEN @ - 1 ELSE 0]
  /\ Return(t)
  /\ UNCHANGED <<kind, closing, searchVars, failures>>

\* Contents and name are freed; a structure of the library goes back to the
\* place behind the items, one of the heap leaves the place empty.
Release(t) ==
  /\ pc[t] = "close" /\ at[t] = count - 1
  /\ count' = count - 1 /\ Disturb
  /\ ptr' = [ptr EXCEPT ![count - 1] = IF mem[t] \in BuiltIn THEN mem[t] ELSE None]
  /\ item' = [item EXCEPT ![mem[t]] = Zeroed]
  /\ handles' = [handles EXCEPT ![mem[t]] = IF @ > 0 THEN @ - 1 ELSE 0]
  /\ Return(t)
  /\ UNCHANGED <<kind, closing, searchVars, failures>>

\* Mutant: every call that fails counts the item off.
KeptCounts(t) ==
  /\ pc[t] = "kept"
  /\ count' = count - 1
  /\ Return(t)
  /\ disturbed' = (disturbed \/ search # "idle")
  /\ UNCHANGED <<kind, ptr, item, handles, closing, searchVars, failures>>

\* The call fails; iot_terminate then counts the item off all the same.
Kept(t) ==
  /\ pc[t] = "kept"
  /\ count' = IF closing = t THEN count - 1 ELSE count
  /\ Return(t)
  /\ disturbed' = (disturbed \/ (search # "idle" /\ closing = t))
  /\ UNCHANGED <<kind, ptr, item, handles, closing, searchVars, failures>>

Freeing(t) == Free(t) \/ Find(t) \/ CloseUp(t) \/ Release(t) \/ Kept(t)

(***************************************************************************)
(* iot_terminate frees the items from the last to the first.               *)
(***************************************************************************)
Terminate(t) ==
  /\ closing = None /\ \A u \in Threads : pc[u] = "idle"
  /\ closing' = t /\ Go(t, "closing")
  /\ UNCHANGED <<kind, listVars, lock, mem, name, at, goal, handles, searchVars, disturbed,
                 failures>>

FreeLast(t) ==
  /\ pc[t] = "closing" /\ count > 0
  /\ Deregister(t, ptr[count - 1])
  /\ mem' = [mem EXCEPT ![t] = ptr[count - 1]]
  /\ UNCHANGED <<kind, ptr, count, lock, name, at, goal, handles, closing, searchVars,
                 disturbed>>

-----------------------------------------------------------------------------
(***************************************************************************)
(* A worker looks for the action of a request (iot_action_process).        *)
(***************************************************************************)
BeginSearch ==
  /\ search = "idle" /\ kind = "action"
  /\ \E n \in Names : wanted' = n
  /\ search' = "read" /\ looking' = 0 /\ found' = None
  /\ disturbed' = \E t \in Threads : pc[t] \in {"shift", "count", "close"}
  /\ UNCHANGED <<kind, listVars, lock, threadVars, handles, closing, failures>>

ReadEntry ==
  /\ search = "read" /\ looking < count
  /\ found' = ptr[looking]
  /\ search' = IF ptr[looking] = None THEN "read" ELSE "compare"
  /\ looking' = IF ptr[looking] = None THEN looking + 1 ELSE looking
  /\ UNCHANGED <<kind, listVars, lock, threadVars, handles, closing, wanted, disturbed,
                 failures>>

\* An entry whose name has been freed meanwhile passes the comparison; what
\* is left of one on the heap may be anything.
Compare ==
  /\ search = "compare"
  /\ \E same \in IF found \in Heap /\ item[found].name = 0 THEN BOOLEAN
                 ELSE {item[found].name \in {0, wanted}} :
       /\ search' = IF same THEN "picked" ELSE "read"
       /\ found' = IF same THEN found ELSE None
       /\ looking' = IF same THEN looking ELSE looking + 1
  /\ UNCHANGED <<kind, listVars, lock, threadVars, handles, closing, wanted, disturbed,
                 failures>>

\* Mutant: the last action is not looked at.
NotFoundEarly ==
  /\ search = "read" /\ looking >= count - 1
  /\ search' = "picked" /\ found' = None
  /\ UNCHANGED <<kind, listVars, lock, threadVars, handles, closing, wanted, looking,
                 disturbed, failures>>

NotFound ==
  /\ search = "read" /\ looking >= count
  /\ search' = "picked" /\ found' = None
  /\ UNCHANGED <<kind, listVars, lock, threadVars, handles, closing, wanted, looking,
                 disturbed, failures>>

EndSearch ==
  /\ search = "picked"
  /\ search' = "idle" /\ wanted' = 0 /\ looking' = 0 /\ found' = None /\ disturbed' = FALSE
  /\ UNCHANGED <<kind, listVars, lock, threadVars, handles, closing, failures>>

Worker == BeginSearch \/ ReadEntry \/ Compare \/ NotFound \/ EndSearch

Next ==
  \/ \E t \in Threads :
       Allocating(t) \/ Register(t) \/ Freeing(t) \/ Terminate(t) \/ FreeLast(t)
  \/ Worker

Spec == Init /\ [][Next]_vars

-----------------------------------------------------------------------------
(***************************************************************************)
(* Properties.                                                             *)
(***************************************************************************)

\* Every variable has its type.
TypeOK ==
  /\ kind \in Kinds
  /\ ptr \in [Places -> Structs \cup {None}] /\ count \in 0 .. Max
  /\ item \in [Structs -> [name : Names \cup {0}, lib : BOOLEAN,
                           state : {"deregistered", "deregister_pending", "registered",
                                    "register_pending"}]]
  /\ lock \in Threads \cup {None} /\ closing \in Threads \cup {None}
  /\ pc \in [Threads -> {"idle", "take", "shift", "count", "free", "close", "kept",
                         "closing"}]
  /\ mem \in [Threads -> Structs \cup {None}] /\ name \in [Threads -> Names \cup {0}]
  /\ {at, goal} \subseteq [Threads -> 0 .. Max]
  /\ handles \in [Structs -> Nat]
  /\ search \in {"idle", "read", "compare", "picked"} /\ wanted \in Names \cup {0}
  /\ looking \in 0 .. Max /\ found \in Structs \cup {None}
  /\ disturbed \in BOOLEAN /\ failures \in 0 .. MaxFailures

Quiet == \A t \in Threads : pc[t] \in {"idle", "closing"}

(* Whatever is allocated, freed and refused in whatever order, no structure  *)
(* of the library is lost or in two places, the items in use are in the      *)
(* order that the next search by halving needs, and the list and the         *)
(* application agree: an item it holds that belongs to the library is in the *)
(* list, and until iot_terminate it holds all that are (memmove and the      *)
(* place behind the items in iot_action_allocate, iot_telemetry_free and the *)
(* like).                                                                    *)
SlotsKept ==
  Quiet =>
    /\ \A s \in BuiltIn : Cardinality({i \in Places : ptr[i] = s}) = 1
    /\ \A i, j \in 0 .. count - 1 :
         i < j => ptr[i] # ptr[j] /\ item[ptr[i]].name <= item[ptr[j]].name
    /\ \A s \in Live : item[s].lib /\ (closing = None => handles[s] > 0)
    /\ closing = None => \A s \in Structs : item[s].lib => s \in Live

(* A worker whose search no change of the list has met picks the first       *)
(* action of that name, and says that there is none only when there is none  *)
(* (iot_action_process, without a lock).                                     *)
SearchRight ==
  search = "picked" /\ ~ disturbed =>
    LET Matches == {i \in 0 .. count - 1 : item[ptr[i]].name = wanted}
    IN  IF found = None THEN Matches = {}
        ELSE \E i \in Matches : ptr[i] = found /\ \A j \in Matches : i <= j
=============================================================================
