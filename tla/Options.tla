------------------------------ MODULE Options ------------------------------
(***************************************************************************)
(* Named values.  Four places of the library keep an array of them: the    *)
(* lists of options, among them the configuration (iot_option.c), sorted   *)
(* and searched by halving; and the options of an action, of a request and *)
(* of a telemetry, each with a copy of its own of a linear search.         *)
(*                                                                         *)
(* A behaviour follows one of the four through calls of its functions, any *)
(* allocation of which may fail.  A name is a key with a spelling: names   *)
(* with the same key differ only in case.  NoName is the null pointer; what *)
(* compares with it may go anywhere, and the behaviour ends.               *)
(***************************************************************************)
EXTENDS Halving, Sequences

CONSTANTS
  Holders,         \* subset of list, action, request, telemetry
  Keys,            \* numbers, ordered as the names are
  Spellings,
  Values,
  NoName, NoValue,
  IOT_OPTION_MAX,
  MaxFailures      \* bound: how often memory runs out

VARIABLES
  holder,      \* which of the four
  option,      \* the array: options in use, [name, value]
  capacity,    \* number of options the array has memory for
  call,        \* history: the last call, its argument and what it returned
  undefined,   \* has a null pointer been compared, or memory overrun?
  failures

vars == <<holder, option, capacity, call, undefined, failures>>

Spelled == Keys \X Spellings
Entry(n, v) == [name |-> n, value |-> v]

Init ==
  /\ holder \in Holders
  /\ option = <<>> /\ capacity = 0
  /\ call = [op |-> "none"]
  /\ undefined = FALSE /\ failures = 0

\* iot_options_find: the index of an option whose name differs at most in
\* case, or where it would be; from 1, as sequences have it.
Find(n) ==
  LET named == {i \in 1 .. Len(option) : option[i].name # NoName}
      Lower == {i \in named : n[1] > option[i].name[1]}
      Higher == {i \in named : n[1] < option[i].name[1]}
      hit == Halve(1, Len(option) + 1, Lower, Higher)
      next == hit.at + 1           \* "in case we rounded down"
      Stop(i) == [at |-> i, found |-> i \in named, null |-> i \notin named]
  IN  IF hit.found THEN Stop(hit.at)
      ELSE IF next <= Len(option) /\ next \notin Lower \cup Higher THEN Stop(next)
      ELSE [at |-> hit.at, found |-> FALSE, null |-> FALSE]

\* The other three take the first option with a name of the set.
Scan(names) ==
  LET Hit(i) == option[i].name \in names \cup {NoName}
      at == CHOOSE i \in 1 .. Len(option) + 1 :
              /\ \A j \in 1 .. i - 1 : ~ Hit(j)
              /\ i = Len(option) + 1 \/ Hit(i)
  IN  [at |-> at,
       null |-> at <= Len(option) /\ option[at].name = NoName,
       found |-> at <= Len(option) /\ option[at].name # NoName]

SameKey(a, b) == a[1] = b[1]
AnyCase(n) == {m \in Spelled : SameKey(m, n)}

\* Mutant: an option of a request is also set without regard to case.
ForSetAnyCase(n) == IF holder = "list" THEN Find(n) ELSE Scan(AnyCase(n))

ForSet(n) == CASE holder = "list" -> Find(n)
               [] holder = "action" -> Scan(AnyCase(n))
               [] OTHER -> Scan({n})
ForGet(n) == IF holder = "list" THEN Find(n) ELSE Scan({n})
Value(n) == IF ForGet(n).found THEN option[ForGet(n).at].value ELSE NoValue
Stored == [n \in Spelled |-> Value(n)]

-----------------------------------------------------------------------------
Calls(op, n, v, ok) == call' = [op |-> op, name |-> n, value |-> v, ok |-> ok]
MemoryOut == failures < MaxFailures /\ failures' = failures + 1

\* Mutant: the options behind the place are not moved.
InsertOver(s, i, e) == SubSeq(s, 1, i - 1) \o <<e>> \o SubSeq(s, i + 1, Len(s))

InsertAt(s, i, e) == SubSeq(s, 1, i - 1) \o <<e>> \o SubSeq(s, i, Len(s))
DropAt(s, i) == SubSeq(s, 1, i - 1) \o SubSeq(s, i + 1, Len(s))

\* The comparison with a null pointer.
Null(n) ==
  /\ ~ undefined /\ ForSet(n).null
  /\ undefined' = TRUE
  /\ UNCHANGED <<holder, option, capacity, call, failures>>

Defined(n) == ~ undefined /\ ~ ForSet(n).null

Update(n, v) ==
  /\ Defined(n) /\ ForSet(n).found
  /\ option' = [option EXCEPT ![ForSet(n).at].value = v]
  /\ Calls("set", n, v, TRUE)
  /\ UNCHANGED <<holder, capacity, undefined, failures>>

\* The copy fails in a list: the option is taken out.  The other three take
\* the value over, so nothing can fail.
UpdateFails(n, v) ==
  /\ Defined(n) /\ ForSet(n).found /\ holder = "list" /\ MemoryOut
  /\ option' = DropAt(option, ForSet(n).at)
  /\ Calls("set", n, v, FALSE)
  /\ UNCHANGED <<holder, capacity, undefined>>

\* The array grows by one each time, but that of a telemetry only once.
Capacity == IF holder = "telemetry" /\ capacity > 0 THEN capacity
            ELSE Len(option) + 1
Place(n) == IF holder = "list" THEN Find(n).at ELSE Len(option) + 1

Add(n, v) ==
  /\ Defined(n) /\ ~ ForSet(n).found /\ Len(option) < IOT_OPTION_MAX
  /\ capacity' = Capacity
  /\ option' = InsertAt(option, Place(n), Entry(n, v))
  /\ undefined' = (Len(option) + 1 > Capacity)
  /\ Calls("set", n, v, TRUE)
  /\ UNCHANGED <<holder, failures>>

AddFull(n, v) ==
  /\ Defined(n) /\ ~ ForSet(n).found /\ Len(option) = IOT_OPTION_MAX
  /\ Calls("set", n, v, FALSE)
  /\ UNCHANGED <<holder, option, capacity, undefined, failures>>

\* No memory for the array, for the name, or for the copy of the value.  An
\* option without a name stays in a list and in a telemetry.
AddFails(n, v) ==
  /\ Defined(n) /\ ~ ForSet(n).found /\ Len(option) < IOT_OPTION_MAX /\ MemoryOut
  /\ \/ /\ holder # "telemetry" \/ capacity = 0
        /\ UNCHANGED <<option, capacity, undefined>>
     \/ /\ capacity' = Capacity
        /\ option' = IF holder \in {"list", "telemetry"}
                     THEN InsertAt(option, Place(n), Entry(NoName, NoValue)) ELSE option
        /\ undefined' = (Len(option) + 1 > Capacity)
     \/ /\ holder = "list" /\ capacity' = Capacity
        /\ UNCHANGED <<option, undefined>>
  /\ Calls("set", n, v, FALSE)
  /\ UNCHANGED holder

(* iot_options_clear sets the null value: an option that is there goes, and  *)
(* the call says that the list is full (and the move reads one place past    *)
(* the array); one that is not there is added without a name.                *)
Clear(n) ==
  /\ holder = "list" /\ Defined(n) /\ Find(n).found
  /\ option' = DropAt(option, Find(n).at)
  /\ Calls("clear", n, NoValue, FALSE)
  /\ UNCHANGED <<holder, capacity, undefined, failures>>

ClearMissing(n) ==
  /\ holder = "list" /\ Defined(n) /\ ~ Find(n).found
  /\ \/ /\ Len(option) < IOT_OPTION_MAX
        /\ option' = InsertAt(option, Find(n).at, Entry(NoName, NoValue))
        /\ capacity' = Capacity
        /\ UNCHANGED failures
     \/ /\ Len(option) = IOT_OPTION_MAX
        /\ UNCHANGED <<option, capacity, failures>>
     \/ /\ Len(option) < IOT_OPTION_MAX /\ MemoryOut     \* no memory for the array
        /\ UNCHANGED <<option, capacity>>
  /\ Calls("clear", n, NoValue, FALSE)
  /\ UNCHANGED <<holder, undefined>>

Next ==
  \E n \in Spelled :
    \/ Null(n) \/ Clear(n) \/ ClearMissing(n)
    \/ \E v \in Values :
         \/ Update(n, v) \/ UpdateFails(n, v) \/ Add(n, v) \/ AddFull(n, v)
         \/ AddFails(n, v)

Spec == Init /\ [][Next]_vars

-----------------------------------------------------------------------------
(***************************************************************************)
(* Properties.                                                             *)
(***************************************************************************)

\* Every variable has its type.
TypeOK ==
  /\ holder \in Holders
  /\ option \in Seq([name : Spelled \cup {NoName}, value : Values \cup {NoValue}])
  /\ Len(option) <= IOT_OPTION_MAX /\ capacity \in 0 .. IOT_OPTION_MAX
  /\ undefined \in BOOLEAN /\ failures \in 0 .. MaxFailures

Nameless == \E i \in 1 .. Len(option) : option[i].name = NoName

(* While every option has a name, a call has an effect on the option it      *)
(* names and on no other: neither the shifts of the array nor the search by  *)
(* halving nor a call that fails lets another option change, vanish or       *)
(* become impossible to find (iot_options_set_data and its three copies).    *)
OthersKept ==
  [][ call'.op # "none" /\ ~ Nameless /\ ~ Nameless' =>
        \A n \in Spelled : ~ SameKey(n, call'.name) => Stored'[n] = Stored[n] ]_vars

(* While every option has a name, a value that was stored is the value that  *)
(* is read, and only an option of an action can have been stored under       *)
(* another spelling of its name (iot_options_get, iot_action_option_get).    *)
StoredIsRead ==
  ~ Nameless /\ call.op = "set" /\ call.ok =>
    IF holder = "action"
    THEN \E n \in Spelled : SameKey(n, call.name) /\ Value(n) = call.value
    ELSE Value(call.name) = call.value
=============================================================================
