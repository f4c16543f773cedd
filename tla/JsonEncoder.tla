---------------------------- MODULE JsonEncoder ----------------------------
(***************************************************************************)
(* Building a JSON document with the two kinds of encoder                  *)
(* (app_json_encode.c).  With jsmn the encoder writes text as it is called *)
(* and remembers the open structures three bits to a level; with jansson   *)
(* and json-c it builds a tree and remembers the open nodes.  Both are     *)
(* driven here by the same calls: those the library makes, which name the  *)
(* members of objects and nothing else, except the first structure.        *)
(***************************************************************************)
EXTENDS JsonDecoder

CONSTANTS
  Names,      \* names of members: sequences of letters
  MaxCalls

VARIABLES
  text,       \* marks written: buf up to cur
  structs,    \* open levels: sets of "array", "object" and "parent"
  nodes,      \* tree: kind, key and parent of each node, in their order
  j_cur,      \* open nodes
  calls,
  phase       \* "building", "ended" or "spoiled"

vars == <<text, structs, nodes, j_cur, calls, phase>>

Init ==
  /\ text = <<>> /\ structs = <<>> /\ nodes = <<>> /\ j_cur = <<>>
  /\ calls = 0 /\ phase = "building"

-----------------------------------------------------------------------------
(***************************************************************************)
(* The encoder of text, as functions of e == [text, structs].              *)
(***************************************************************************)
Encoder == [text |-> text, structs |-> structs]
Put(e, m) == [e EXCEPT !.text = Append(@, m)]
InObject(e) == e.structs # <<>> /\ "object" \in Last(e.structs)

Opening(s) == IF s = "array" THEN Mark("[") ELSE Mark("{")
Closing(level) ==
  (IF "array" \in level THEN <<Mark("]")>> ELSE <<>>)
    \o (IF "object" \in level THEN <<Mark("}")>> ELSE <<>>)
    \o (IF "parent" \in level THEN <<Mark("}")>> ELSE <<>>)

Comma(e) ==
  IF e.text = <<>> \/ Last(e.text).mark \in Openers THEN e ELSE Put(e, Mark(","))

\* app_json_encode_key: a key outside of an object begins an object of its own.
NeedsParent(e, key) == key # NoKey /\ ~ InObject(e)
WithParent(e, key) ==
  IF NeedsParent(e, key)
  THEN [text    |-> Append(Comma(e).text, Mark("{")),
        structs |-> Append(e.structs, {IF e.structs = <<>> THEN "object" ELSE "parent"})]
  ELSE e
EncodeKey(e, key) ==
  LET at == Comma(WithParent(e, key))
  IN  IF key # NoKey \/ InObject(e) THEN Put(at, Key(key)) ELSE at

\* app_json_encode_struct_start.
AddedParent(e, key) == NeedsParent(e, key) /\ e.structs # <<>>
StructStart(e, key, s) ==
  LET k == EncodeKey(e, key)
  IN  [text    |-> Append(k.text, Opening(s)),
       structs |-> IF AddedParent(e, key)
                   THEN Front(k.structs) \o <<Last(k.structs) \cup {s}>>
                   ELSE Append(k.structs, {s})]

\* app_json_encode_struct_end: refused for a structure that is not the last.
Ends(e, s) == e.structs # <<>> /\ s \in Last(e.structs)
StructEnd(e, s) ==
  IF Ends(e, s)
  THEN [text |-> e.text \o Closing(Last(e.structs)), structs |-> Front(e.structs)]
  ELSE e

\* app_json_encode_string and the like.
EncodeValue(e, key, m) ==
  LET k == Put(EncodeKey(e, key), Mark(m))
  IN  IF e.structs = <<>> /\ key = NoKey THEN e
      ELSE IF AddedParent(e, key) THEN StructEnd(k, "parent") ELSE k

\* app_json_encode_dump closes what is open, in a copy.
Dump(e) ==
  LET closed[n \in 0 .. Len(e.structs)] ==
        IF n = 0 THEN <<>> ELSE Closing(e.structs[n]) \o closed[n - 1]
  IN  e.text \o closed[Len(e.structs)]

\* The last brace that is not closed again.
Brace(t) ==
  Max({1} \cup {i \in DOMAIN t :
    /\ t[i].mark = "{"
    /\ Cardinality({j \in i + 1 .. Len(t) : t[j].mark = "{"})
         = Cardinality({j \in i + 1 .. Len(t) : t[j].mark = "}"})})

\* app_json_encode_object_cancel: back over the key to the mark before it, which
\* is overwritten next, be it a comma or the brace of the object around.
Keyed(t) == Brace(t) > 1 /\ t[Brace(t) - 1].mark = "key"
CutAt(t) == Max({1} \cup {i \in 1 .. Brace(t) - 2 : t[i].mark \in Openers \cup {","}})
ObjectCancel(e) ==
  LET levels == Front(e.structs)
  IN  [structs |-> levels,
       text    |-> IF levels = <<>> THEN <<>>
                   ELSE SubSeq(e.text, 1, IF Keyed(e.text) THEN CutAt(e.text) - 1 ELSE Brace(e.text))]

ObjectClear(e) == [e EXCEPT !.text = SubSeq(@, 1, Brace(@))]

-----------------------------------------------------------------------------
(***************************************************************************)
(* The encoder of a tree: app_json_encode_key with jansson and json-c.     *)
(***************************************************************************)
Current == IF j_cur = <<>> THEN NoItem ELSE Last(j_cur)
KindOf(n) == IF n = NoItem THEN "none" ELSE nodes[n].kind

\* The nodes that one call adds: an object around a key that has none.
Added(key, kind) ==
  IF key # NoKey /\ KindOf(Current) # "object"
  THEN <<[kind |-> "object", key |-> NoKey, parent |-> Current],
         [kind |-> kind, key |-> key, parent |-> Len(nodes) + 1]>>
  ELSE <<[kind |-> kind, key |-> key, parent |-> Current]>>

AddNode(key, kind) ==
  /\ nodes' = nodes \o Added(key, kind)
  /\ j_cur' = IF kind \notin {"array", "object"} THEN j_cur
              ELSE j_cur \o [n \in 1 .. Len(Added(key, kind)) |-> Len(nodes) + n]

EndNode(s) == j_cur' = IF KindOf(Current) = s THEN Front(j_cur) ELSE j_cur

-----------------------------------------------------------------------------
(***************************************************************************)
(* The calls.                                                              *)
(***************************************************************************)
Call == phase = "building" /\ calls < MaxCalls /\ calls' = calls + 1
Becomes(e) == text' = e.text /\ structs' = e.structs

\* Names of members are new in their object, and in arrays nothing has a name.
Taken == {nodes[n].key : n \in {m \in DOMAIN nodes : nodes[m].parent = Current}}
KeysHere ==
  CASE KindOf(Current) = "object" -> Names \ Taken
    [] KindOf(Current) = "array" -> {NoKey}
    [] KindOf(Current) = "none" -> Names \cup {NoKey}

Start ==
  /\ Call
  /\ \E s \in {"array", "object"}, key \in KeysHere :
       Becomes(StructStart(Encoder, key, s)) /\ AddNode(key, s)
  /\ UNCHANGED phase

Value ==
  /\ Call /\ j_cur # <<>>
  /\ \E m \in {"string", "primitive"}, key \in KeysHere :
       Becomes(EncodeValue(Encoder, key, m)) /\ AddNode(key, m)
  /\ UNCHANGED phase

End ==
  /\ Call /\ j_cur # <<>>
  /\ \E s \in {"array", "object"} : Becomes(StructEnd(Encoder, s)) /\ EndNode(s)
  /\ phase' = IF j_cur' = <<>> THEN "ended" ELSE phase
  /\ UNCHANGED nodes

\* An object is cancelled as a whole.  The text is of no use afterwards when the
\* object was an item of an array or the first member of another object.
Cancel ==
  /\ Call /\ KindOf(Current) = "object"
  /\ Becomes(ObjectCancel(Encoder))
  /\ nodes' = SubSeq(nodes, 1, Current - 1)
  /\ j_cur' = Front(j_cur)
  /\ phase' = IF Len(j_cur) = 1 THEN "ended"
              ELSE IF Keyed(text) /\ text[CutAt(text)].mark = "," THEN phase
              ELSE "spoiled"

Clear ==
  /\ Call /\ KindOf(Current) = "object"
  /\ Becomes(ObjectClear(Encoder))
  /\ nodes' = SubSeq(nodes, 1, Current)
  /\ UNCHANGED <<j_cur, phase>>

Next == Start \/ Value \/ End \/ Cancel \/ Clear
Spec == Init /\ [][Next]_vars

-----------------------------------------------------------------------------
(***************************************************************************)
(* Properties.                                                             *)
(***************************************************************************)

\* Every variable has its type.
TypeOK ==
  /\ \A i \in DOMAIN text : text[i].mark \in Openers \cup Closers \cup {",", "key", "string", "primitive"}
  /\ structs \in Seq(SUBSET {"array", "object", "parent"})
  /\ \A n \in DOMAIN nodes : nodes[n].parent \in 0 .. n - 1
  /\ j_cur \in Seq(DOMAIN nodes)
  /\ calls \in 0 .. MaxCalls /\ phase \in {"building", "ended", "spoiled"}

Children(n) == {m \in DOMAIN nodes : nodes[m].parent = n}

\* The token of a node comes after those of the nodes and of the names before it.
ItemOf(n) == n + Cardinality({m \in 1 .. n : nodes[m].key # NoKey})

\* An iterator at the first of some members stands at its name, if it has one.
IteratorAt(members) ==
  LET m == Min(members)
  IN  IF members = {} THEN NoItem ELSE IF nodes[m].key = NoKey THEN ItemOf(m) ELSE ItemOf(m) - 1

\* A name that an earlier member of the object has or begins with hides it.
Hidden(m) ==
  \E l \in 1 .. m - 1 : nodes[l].parent = nodes[m].parent /\ IsPrefix(nodes[m].key, nodes[l].key)

(* At every moment the document of the text encoder is the tree of the other *)
(* one: its tokens are the nodes and their names, an iterator goes from each *)
(* member of a structure to the next one, to all in order and under their    *)
(* names, sizes and array_at agree, and a member is found by its name unless *)
(* an earlier one begins with it                                             *)
(* (app_json_encode_key, app_json_encode_object_cancel,                      *)
(* app_json_decode_array_iterator_next, app_json_decode_object_find_len).    *)
ReadAsBuilt ==
  phase # "spoiled" =>
    LET t == Tokens(Dump(Encoder))
    IN  /\ Len(t) = ItemOf(Len(nodes))
        /\ \A n \in DOMAIN nodes :
             LET p == ItemOf(n)
             IN  /\ t[p].type = nodes[n].kind
                 /\ ArraySize(t, p) + ObjectSize(t, p) = Cardinality(Children(n))
                 /\ IteratorAt(Children(n)) =
                      IF nodes[n].kind = "array" THEN ArrayIterator(t, p) ELSE ObjectIterator(t, p)
                 /\ \A m \in Children(n) :
                      LET i == IteratorAt({m})
                      IN  /\ IteratorNext(t, p, i) = IteratorAt({l \in Children(n) : l > m})
                          /\ IteratorValue(t, i) = ItemOf(m)
                          /\ t[i].name = nodes[m].key
                          /\ nodes[n].kind = "array" =>
                               ArrayAt(t, p, Cardinality({l \in Children(n) : l < m})) = ItemOf(m)
                          /\ nodes[n].kind = "object" /\ ~ Hidden(m) =>
                               ObjectFind(t, p, nodes[m].key) = ItemOf(m)
=============================================================================
