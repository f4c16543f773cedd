----------------------------- MODULE JsonSchema -----------------------------
(***************************************************************************)
(* The schema of the connect file as iot-control reads and uses it         *)
(* (app_json_schema.c).  The schema is built into the program              *)
(* (iot-connect.schema.json), so only the keywords it uses are here: type, *)
(* properties, required, dependencies, enum, minimum, maximum, minLength   *)
(* and maxLength.  No name in it begins another, and the comparisons of    *)
(* names, which look at the length of one of the two, are equality.        *)
(*                                                                         *)
(* Document lists the objects and values of the schema in the order of the *)
(* file: the path of names to it, and what is said of it.                  *)
(***************************************************************************)
EXTENDS Integers, Sequences, SequencesExt

CONSTANTS
  Document,      \* sequence of [path, type, required, dependencies, enum, limits]
  Unlimited      \* stands for a keyword that is absent

Items == 1 .. Len(Document)
NoItem == 0

\* What a user types: a sign and digits for a number, the length of a text and
\* the words it begins with, the word of a truth value.
Blank == [kind |-> "blank"]

-----------------------------------------------------------------------------
(***************************************************************************)
(* The table of items (app_json_schema_allocate_item): each has the index  *)
(* of its parent and the index after its last child.                       *)
(***************************************************************************)
Above(i) == Front(Document[i].path)
Name(i) == Last(Document[i].path)

Parent(i) ==
  IF Document[i].path = <<>> THEN NoItem
  ELSE CHOOSE p \in Items : Document[p].path = Above(i)

LastChild(i) ==
  1 + CHOOSE n \in Items : /\ IsPrefix(Document[i].path, Document[n].path)
                           /\ \A k \in Items : IsPrefix(Document[i].path, Document[k].path) => k <= n

Required(i) == Parent(i) # NoItem /\ Name(i) \in Document[Parent(i)].required

Dependencies(i) ==
  IF Parent(i) = NoItem THEN {}
  ELSE {d.needs : d \in {e \in Document[Parent(i)].dependencies : e.name = Name(i)}}

\* One of the keys named is enough (app_json_schema_dependencies_achieved).
DependenciesAchieved(i, keysSet) ==
  Dependencies(i) = {} \/ UNION Dependencies(i) \cap keysSet # {}

-----------------------------------------------------------------------------
(***************************************************************************)
(* The iterators over the members of an object.                            *)
(***************************************************************************)
ObjectIterator(i) ==
  IF \E k \in Items : Parent(k) = i
  THEN CHOOSE k \in Items : Parent(k) = i /\ \A j \in i .. k - 1 : Parent(j) # i
  ELSE NoItem

\* Mutant: the search goes on at the next item whatever its parent.
NextItemAny(i, it) == IF it + 1 < LastChild(i) THEN it + 1 ELSE NoItem

ObjectIteratorNext(i, it) ==
  LET later == {k \in it + 1 .. LastChild(i) - 1 : Parent(k) = Parent(it)}
  IN  IF later = {} THEN NoItem ELSE CHOOSE k \in later : \A j \in later : k <= j

-----------------------------------------------------------------------------
(***************************************************************************)
(* The checks of what a user types.                                        *)
(***************************************************************************)
\* The number is read from its last digit to its first, and a negative one is
\* squared (app_json_schema_integer).
ReadNumber(v) ==
  LET sum == FoldRight(LAMBDA d, n : 10 * n + d, v.digits, 0)
  IN  IF v.sign = "-" THEN sum * sum ELSE sum

\* The number that was typed, as it is written (os_atol).
TypedNumber(v) ==
  LET sum == FoldLeft(LAMBDA n, d : 10 * n + d, 0, v.digits)
  IN  IF v.sign = "-" THEN - sum ELSE sum

Within(n, i) ==
  /\ Document[i].minimum # Unlimited => n >= Document[i].minimum
  /\ Document[i].maximum # Unlimited => n <= Document[i].maximum

SchemaInteger(i, v) ==
  IF v = Blank THEN ~ Required(i)
  ELSE v.kind = "number" /\ Within(ReadNumber(v), i)

\* A text that begins with a word of the list is accepted as that word.
SchemaString(i, v) ==
  IF v = Blank THEN ~ Required(i)
  ELSE /\ v.kind = "text"
       /\ Document[i].enum # {} => v.begins \cap Document[i].enum # {}
       /\ Within(v.length, i)

\* What is typed must begin one of the words for true or false.
SchemaBool(i, v) ==
  IF v = Blank THEN ~ Required(i)
  ELSE v.kind = "truth"

Accepts(i, v) ==
  CASE Document[i].type = "integer" -> SchemaInteger(i, v)
    [] Document[i].type = "string" -> SchemaString(i, v)
    [] Document[i].type = "boolean" -> SchemaBool(i, v)
=============================================================================
