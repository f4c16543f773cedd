--------------------------- MODULE ControlConfig ---------------------------
(***************************************************************************)
(* iot-control without arguments asks for the settings of the connection,  *)
(* as the schema of module JsonSchema describes them, and writes the       *)
(* connect file (control_config.c).                                        *)
(***************************************************************************)
EXTENDS JsonSchema

CONSTANT Entries   \* what the user may type for an item

VARIABLES
  at,          \* item being asked for, or object being left
  leaving,
  set,         \* items for which something was typed: set_items of all objects
  written,     \* what the encoder holds: item and value
  asked,       \* history: items asked for, in order
  config       \* the connect file: "none", "old" or "new"

vars == <<at, leaving, set, written, asked, config>>

Root == 1

Init ==
  /\ at = Root /\ leaving = FALSE /\ set = {} /\ written = {} /\ asked = <<>>
  /\ config \in {"none", "old"}

IsObject(i) == Document[i].type = "object"
KeysSet(p) == {Name(i) : i \in {k \in set : Parent(k) = p}}

\* The next member of the object, or the object is left.
GoOn ==
  LET p == Parent(at)
  IN  IF ObjectIteratorNext(p, at) # NoItem
      THEN at' = ObjectIteratorNext(p, at) /\ leaving' = FALSE
      ELSE at' = p /\ leaving' = TRUE

-----------------------------------------------------------------------------
(***************************************************************************)
(* control_config_schema_object: members whose dependencies are not        *)
(* achieved are passed over.                                               *)
(***************************************************************************)
Shown == at = Root \/ DependenciesAchieved(at, KeysSet(Parent(at)))

Hide ==
  /\ at # NoItem /\ ~ leaving /\ ~ Shown
  /\ GoOn
  /\ UNCHANGED <<set, written, asked, config>>

EnterObject ==
  /\ at # NoItem /\ ~ leaving /\ Shown /\ IsObject(at)
  /\ at' = ObjectIterator(at)
  /\ UNCHANGED <<leaving, set, written, asked, config>>

\* Below the object there is at least one value typed, or the object is
\* cancelled, with the values it got without being asked.
LeaveObject ==
  /\ leaving /\ at # Root
  /\ IF \E k \in set : Parent(k) = at
     THEN set' = set \cup {at} /\ UNCHANGED written
     ELSE written' = {w \in written : ~ IsPrefix(Document[at].path, Document[w.item].path)}
          /\ UNCHANGED set
  /\ GoOn
  /\ UNCHANGED <<asked, config>>

-----------------------------------------------------------------------------
(***************************************************************************)
(* The values.  The question is repeated until the answer is accepted, but *)
(* a rejected answer counts as one that was set                            *)
(* (control_config_schema_input).                                          *)
(***************************************************************************)
\* A number that is left blank is written as 0, a truth value as true, a text
\* not at all.
Value(i, v) ==
  IF v # Blank
  THEN {[item |-> i, value |-> IF Document[i].type = "integer" THEN TypedNumber(v) ELSE v.word]}
  ELSE CASE Document[i].type = "integer" -> {[item |-> i, value |-> 0]}
         [] Document[i].type = "boolean" -> {[item |-> i, value |-> "true"]}
         [] Document[i].type = "string" -> {}

Asking == at # NoItem /\ ~ leaving /\ Shown /\ ~ IsObject(at)

Answer ==
  /\ Asking
  /\ \E v \in Entries \cup {Blank} :
       /\ set' = IF v = Blank THEN set ELSE set \cup {at}
       /\ IF Accepts(at, v)
          THEN written' = written \cup Value(at, v) /\ asked' = Append(asked, at) /\ GoOn
          ELSE UNCHANGED <<written, asked, at, leaving>>
  /\ UNCHANGED config

-----------------------------------------------------------------------------
\* The old file is deleted before the new one is opened, which may fail.
Write ==
  /\ leaving /\ at = Root
  /\ at' = NoItem /\ leaving' = FALSE
  /\ IF \E k \in set : Parent(k) = Root THEN config' \in {"new", "none"} ELSE UNCHANGED config
  /\ UNCHANGED <<set, written, asked>>

Next == Hide \/ EnterObject \/ LeaveObject \/ Answer \/ Write
Spec == Init /\ [][Next]_vars

-----------------------------------------------------------------------------
(***************************************************************************)
(* Properties.                                                             *)
(***************************************************************************)

\* Every variable has its type.
TypeOK ==
  /\ at \in Items \cup {NoItem} /\ leaving \in BOOLEAN /\ set \subseteq Items
  /\ \A w \in written : w.item \in Items
  /\ asked \in Seq(Items) /\ config \in {"none", "old", "new"}

(* The dialogue asks for every value of the schema at most once and in its   *)
(* order; none is left out that could be asked for, and a file that is       *)
(* written holds every required value of each of its objects                 *)
(* (control_config_schema_object, app_json_schema_object_iterator_next).     *)
PromptsRight ==
  /\ \A i, j \in 1 .. Len(asked) : i < j => asked[i] < asked[j]
  /\ at = NoItem =>
       \A i \in Items : ~ IsObject(i) /\ Dependencies(i) = {}
         => \/ \E n \in 1 .. Len(asked) : asked[n] = i
            \/ Dependencies(Parent(i)) # {}
  /\ config = "new" =>
       \A i \in Items : ~ IsObject(i) /\ Name(i) \in Document[Parent(i)].required
         => \E w \in written : w.item = i

(* The connect file conforms to its schema: "maximum": 65535, and            *)
(* "dependencies" (iot-connect.schema.json).                                 *)
ConfigConforms ==
  config = "new" =>
    \A w \in written :
      /\ Document[w.item].type = "integer" => Within(w.value, w.item)
      /\ \A needs \in Dependencies(w.item) :
           \E x \in written : Parent(x.item) = Parent(w.item) /\ Name(x.item) \in needs
=============================================================================
