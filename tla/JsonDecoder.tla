---------------------------- MODULE JsonDecoder ----------------------------
(***************************************************************************)
(* Reading a JSON document (app_json_decode.c, with jsmn, the default of   *)
(* CMakeLists.txt).  A document is a sequence of marks: brackets, commas,  *)
(* keys and values.  The parser gives a token for each bracket that opens, *)
(* each key and each value, in the order of the text and with a link to    *)
(* the token it belongs to; the decoder walks the tokens.                  *)
(***************************************************************************)
EXTENDS Naturals, FiniteSets, SequencesExt

NoKey  == <<>>
NoItem == 0

Mark(m) == [mark |-> m, name |-> NoKey]
Key(k)  == [mark |-> "key", name |-> k]

Openers == {"[", "{"}
Closers == {"]", "}"}

-----------------------------------------------------------------------------
(***************************************************************************)
(* The tokens that jsmn_parse fills in, with JSMN_PARENT_LINKS, mark by    *)
(* mark: p.super is the structure or key that the next token belongs to.   *)
(***************************************************************************)
TypeOf(m) ==
  CASE m = "[" -> "array"
    [] m = "{" -> "object"
    [] m \in {"key", "string"} -> "string"
    [] OTHER -> "primitive"

IsKey(t, n) == t[n].type = "string" /\ t[n].size = 1

NewToken(p, m, i) ==
  [type |-> TypeOf(m.mark), name |-> m.name, start |-> i,
   end  |-> IF m.mark \in Openers THEN 0 ELSE i + 1,
   size |-> 0, parent |-> p.super]

AddToken(p, m, i) ==
  [tokens |-> Append([n \in DOMAIN p.tokens |->
                        IF n = p.super THEN [p.tokens[n] EXCEPT !.size = @ + 1] ELSE p.tokens[n]],
                     NewToken(p, m, i)),
   super  |-> IF m.mark \in Openers \cup {"key"} THEN Len(p.tokens) + 1 ELSE p.super]

Close(p, i) ==
  LET open == Max({n \in DOMAIN p.tokens : p.tokens[n].end = 0})
  IN  [tokens |-> [p.tokens EXCEPT ![open].end = i], super |-> p.tokens[open].parent]

Separate(p) ==
  IF p.super # NoItem /\ p.tokens[p.super].type = "string"
  THEN [p EXCEPT !.super = p.tokens[p.super].parent]
  ELSE p

Advance(p, m, i) ==
  CASE m.mark = "," -> Separate(p)
    [] m.mark \in Closers -> Close(p, i)
    [] OTHER -> AddToken(p, m, i)

\* The state of the parser at the end of a text.
Parsed(text) ==
  LET parser[i \in 0 .. Len(text)] ==
        IF i = 0 THEN [tokens |-> <<>>, super |-> NoItem]
        ELSE Advance(parser[i - 1], text[i], i)
  IN  parser[Len(text)]
Tokens(text) == Parsed(text).tokens

-----------------------------------------------------------------------------
(***************************************************************************)
(* The operations of the decoder, on tokens t.                             *)
(***************************************************************************)
ArraySize(t, p)  == IF t[p].type = "array" THEN t[p].size ELSE 0
ObjectSize(t, p) == IF t[p].type = "object" THEN t[p].size ELSE 0

\* Counts the tokens that have the array as parent.
ArrayAt(t, p, index) ==
  LET found == {n \in p + 1 .. Len(t) :
                 /\ t[n].parent = p
                 /\ Cardinality({m \in p + 1 .. n : t[m].parent = p}) = index + 1}
  IN  IF t[p].type # "array" \/ found = {} THEN NoItem ELSE Min(found)

ArrayIterator(t, p)  == IF ArraySize(t, p) > 0 THEN p + 1 ELSE NoItem
ObjectIterator(t, p) == IF ObjectSize(t, p) > 0 THEN p + 1 ELSE NoItem

\* Mutant: the items inside an item are not passed over.
IteratorNextInside(t, p, n) ==
  IF n = Len(t) \/ t[n + 1].start >= t[p].end THEN NoItem ELSE n + 1

\* The next token with the structure as parent, up to the end of the structure.
IteratorNext(t, p, n) ==
  LET stops == {m \in n + 1 .. Len(t) : t[m].start >= t[p].end \/ t[m].parent = p}
  IN  IF stops = {} \/ t[Min(stops)].start >= t[p].end THEN NoItem ELSE Min(stops)

IteratorValue(t, n) == IF IsKey(t, n) THEN n + 1 ELSE n

\* The first member whose name begins with the key: the characters are compared
\* only as far as the shorter of the two.
ObjectFind(t, p, key) ==
  LET found == {n \in p + 1 .. Len(t) : t[n].parent = p /\ IsKey(t, n) /\ IsPrefix(key, t[n].name)}
  IN  IF t[p].type # "object" \/ found = {} THEN NoItem ELSE Min(found) + 1
=============================================================================
