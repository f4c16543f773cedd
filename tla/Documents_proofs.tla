-------------------------- MODULE Documents_proofs --------------------------
(***************************************************************************)
(* Proofs about documents of JSON, for any names, depth and number of      *)
(* calls: what one encoder writes as text, the decoder reads as the tree   *)
(* that the other encoder builds.                                          *)
(***************************************************************************)
EXTENDS Lists_proofs

-----------------------------------------------------------------------------
(***************************************************************************)
(* Where the tokens of a document are. A node has one token, or two when   *)
(* it has a name, so that the token of a node stands behind those of the   *)
(* nodes and names before it. The parser goes through a text mark by mark: *)
(* what it has made of a text does not depend on what follows.             *)
(***************************************************************************)
LEMMA CardinalityIs == \A S : J!Cardinality(S) = Cardinality(S)
BY DEF J!Cardinality, Cardinality

\* The token of a node, by the nodes and the names up to it.
Place(ns, n) == n + Cardinality({m \in 1 .. n : ns[m].key # J!NoKey})
Wide(ns, n) == IF ns[n].key = J!NoKey THEN 1 ELSE 2

\* Places by the one before.
LEMMA TokenPlace ==
  ASSUME NEW ns, NEW n \in Nat
  PROVE  /\ Place(ns, n) \in Nat /\ n <= Place(ns, n)
         /\ Place(ns, 0) = 0
         /\ Place(ns, n + 1) = Place(ns, n) + Wide(ns, n + 1)
         /\ \A m \in 0 .. n : Place(ns, m) <= Place(ns, n)
<1> DEFINE K(k) == {m \in 1 .. k : ns[m].key # J!NoKey}
<1>1. \A k \in Nat : IsFiniteSet(K(k)) /\ Cardinality(K(k)) \in Nat
  <2>1. \A k \in Nat : K(k) \in SUBSET (1 .. k)
    BY Zenon
  <2>2. \A k \in Nat : IsFiniteSet(1 .. k)
    BY FS_Interval
  <2> HIDE DEF K
  <2>3. \A k \in Nat : IsFiniteSet(K(k))
    BY <2>1, <2>2, FS_Subset
  <2>4. QED
    BY <2>3, FS_CardinalityType
<1>2. \A m \in 0 .. n : Cardinality(K(m)) <= Cardinality(K(n))
  <2> SUFFICES ASSUME NEW m \in 0 .. n PROVE Cardinality(K(m)) <= Cardinality(K(n))
    OBVIOUS
  <2>1. K(m) \subseteq K(n)
    <3>1. 1 .. m \subseteq 1 .. n
      OBVIOUS
    <3>2. QED
      BY <3>1, Zenon
  <2> HIDE DEF K
  <2>2. QED
    BY <1>1, <2>1, FS_Subset
<1>3. Cardinality(K(0)) = 0
  <2>1. 1 .. 0 = {}
    OBVIOUS
  <2>2. K(0) = {}
    BY <2>1, Zenon
  <2>3. QED
    BY <2>2, FS_EmptySet
<1>4. Cardinality(K(n + 1)) = IF ns[n + 1].key = J!NoKey THEN Cardinality(K(n)) ELSE Cardinality(K(n)) + 1
  <2>0. 1 .. n + 1 = (1 .. n) \cup {n + 1} /\ n + 1 \notin 1 .. n
    OBVIOUS
  <2>1. CASE ns[n + 1].key = J!NoKey
    <3>1. K(n + 1) = K(n)
      BY <2>0, <2>1, Zenon
    <3>2. QED
      BY <2>1, <3>1
  <2>2. CASE ns[n + 1].key # J!NoKey
    <3>1. K(n + 1) = K(n) \cup {n + 1} /\ n + 1 \notin K(n)
      BY <2>0, <2>2, Zenon
    <3> HIDE DEF K
    <3>2. QED
      BY <1>1, <2>2, <3>1, FS_AddElement
  <2>3. QED
    BY <2>1, <2>2
<1> DEFINE Q(k) == Cardinality(K(k))
<1>5. \A k : Place(ns, k) = k + Q(k)
  BY DEF Place
<1>6. /\ \A k \in Nat : Q(k) \in Nat
      /\ \A m \in 0 .. n : Q(m) <= Q(n)
      /\ Q(0) = 0 /\ Q(n + 1) = IF ns[n + 1].key = J!NoKey THEN Q(n) ELSE Q(n) + 1
  BY <1>1, <1>2, <1>3, <1>4
<1> HIDE DEF Q
<1>7. Place(ns, n) \in Nat /\ n <= Place(ns, n) /\ Place(ns, 0) = 0
  BY <1>5, <1>6
<1>8. \A m \in 0 .. n : Place(ns, m) <= Place(ns, n)
  BY <1>5, <1>6
<1>9. Place(ns, n + 1) = Place(ns, n) + Wide(ns, n + 1)
  <2>1. Q(n) \in Nat /\ Q(n + 1) = IF ns[n + 1].key = J!NoKey THEN Q(n) ELSE Q(n) + 1
    BY <1>6
  <2>2. Place(ns, n) = n + Q(n) /\ Place(ns, n + 1) = n + 1 + Q(n + 1)
    BY <1>5
  <2>3. QED
    BY <2>1, <2>2 DEF Wide
<1>10. QED
  BY <1>7, <1>8, <1>9

\* The place of a node depends on the nodes up to it only.
LEMMA TokenSame ==
  ASSUME NEW ns, NEW xs, NEW n \in Nat, \A m \in 1 .. n : ns[m].key = xs[m].key
  PROVE  Place(ns, n) = Place(xs, n)
BY DEF Place

\* Later nodes have later tokens, with their names.
LEMMA TokenOrder ==
  ASSUME NEW ns, NEW n \in Nat, NEW m \in 0 .. n - 1
  PROVE  Place(ns, m) + Wide(ns, n) <= Place(ns, n)
<1>1. n - 1 \in Nat /\ m \in 0 .. n - 1 /\ n - 1 + 1 = n
  OBVIOUS
<1> DEFINE k == n - 1
<1> HIDE DEF k
<1>2. k \in Nat /\ m \in 0 .. k /\ k + 1 = n
  BY <1>1 DEF k
<1>3. Place(ns, k + 1) = Place(ns, k) + Wide(ns, k + 1) /\ Place(ns, m) <= Place(ns, k) /\ Place(ns, k) \in Nat
  BY <1>2, TokenPlace
<1>4. Place(ns, m) \in Nat
  <2>1. m \in Nat
    BY <1>2
  <2>2. QED
    BY <2>1, TokenPlace
<1>5. Wide(ns, n) \in Nat
  BY DEF Wide
<1>6. QED
  BY <1>2, <1>3, <1>4, <1>5

\* Every token is one of a node or of the name of a node.
LEMMA TokenOfNode ==
  ASSUME NEW ns, NEW n \in Nat
  PROVE  \A j \in 1 .. Place(ns, n) :
           \E m \in 1 .. n : j = Place(ns, m) \/ (ns[m].key # J!NoKey /\ j = Place(ns, m) - 1)
<1> DEFINE Own(j, m) == j = Place(ns, m) \/ (ns[m].key # J!NoKey /\ j = Place(ns, m) - 1)
           T == {k \in Nat : \A j \in 1 .. Place(ns, k) : \E m \in 1 .. k : Own(j, m)}
<1>1. 0 \in T
  <2>1. Place(ns, 0) = 0 /\ 1 .. 0 = {}
    BY TokenPlace
  <2>2. QED
    BY <2>1
<1>2. ASSUME NEW k \in T PROVE k + 1 \in T
  <2>1. ASSUME NEW j \in 1 .. Place(ns, k + 1) PROVE \E m \in 1 .. k + 1 : Own(j, m)
    <3>0. k \in Nat
      OBVIOUS
    <3>1. k \in Nat /\ Place(ns, k) \in Nat /\ Place(ns, k + 1) = Place(ns, k) + Wide(ns, k + 1)
      BY <3>0, TokenPlace
    <3>2. CASE j <= Place(ns, k)
      <4>1. \E m \in 1 .. k : Own(j, m)
        BY <3>1, <3>2
      <4> HIDE DEF Own
      <4>2. QED
        BY <3>1, <4>1
    <3>3. CASE j > Place(ns, k)
      <4>1. Own(j, k + 1)
        <5>1. CASE ns[k + 1].key = J!NoKey
          BY <3>1, <3>3, <5>1 DEF Wide
        <5>2. CASE ns[k + 1].key # J!NoKey
          BY <3>1, <3>3, <5>2 DEF Wide
        <5>3. QED
          BY <5>1, <5>2
      <4> HIDE DEF Own
      <4>2. QED
        BY <3>1, <4>1
    <3>4. QED
      BY <3>1, <3>2, <3>3
  <2> HIDE DEF Own
  <2>2. QED
    BY <2>1
<1>3. T \in SUBSET Nat
  OBVIOUS
<1> HIDE DEF T
<1>4. T = Nat
  BY <1>1, <1>2, <1>3, Induction
<1>5. QED
  BY <1>4 DEF T

NoTokens == [tokens |-> <<>>, super |-> J!NoItem]
Scans(f, t, n) ==
  f = [i \in 0 .. n |-> IF i = 0 THEN NoTokens ELSE J!Advance(f[i - 1], t[i], i)]

\* There is a function of the parser's states for every text.
LEMMA ScanExists ==
  ASSUME NEW t, NEW n \in Nat
  PROVE  \E f : Scans(f, t, n)
<1> DEFINE T == {k \in Nat : \E f : Scans(f, t, k)}
<1>1. 0 \in T
  <2> DEFINE g == [i \in 0 .. 0 |-> NoTokens]
  <2>1. \A i \in 0 .. 0 : i = 0
    OBVIOUS
  <2>2. Scans(g, t, 0)
    BY <2>1 DEF Scans
  <2>3. QED
    BY <2>2
<1>2. ASSUME NEW k \in T PROVE k + 1 \in T
  <2>1. PICK f : Scans(f, t, k)
    OBVIOUS
  <2> DEFINE g == [i \in 0 .. k + 1 |-> IF i = k + 1 THEN J!Advance(f[k], t[i], i) ELSE f[i]]
             h == [i \in 0 .. k + 1 |-> IF i = 0 THEN NoTokens ELSE J!Advance(g[i - 1], t[i], i)]
  <2>2. k \in Nat /\ f = [i \in 0 .. k |-> IF i = 0 THEN NoTokens ELSE J!Advance(f[i - 1], t[i], i)]
    BY <2>1 DEF Scans
  <2>3. \A i \in 0 .. k + 1 : g[i] = h[i]
    <3> SUFFICES ASSUME NEW i \in 0 .. k + 1 PROVE g[i] = h[i]
      OBVIOUS
    <3>1. CASE i = 0
      <4>1. g[0] = f[0] /\ f[0] = NoTokens
        BY <2>2
      <4>2. QED
        BY <3>1, <4>1
    <3>2. CASE i = k + 1
      <4>1. g[i - 1] = f[k] /\ g[i] = J!Advance(f[k], t[i], i)
        BY <2>2, <3>2
      <4>2. QED
        BY <2>2, <3>2, <4>1
    <3>3. CASE i \in 1 .. k
      <4>1. g[i - 1] = f[i - 1] /\ g[i] = f[i] /\ i \in 0 .. k /\ i # 0
        BY <2>2, <3>3
      <4>2. f[i] = J!Advance(f[i - 1], t[i], i)
        BY <2>2, <4>1
      <4>3. h[i] = J!Advance(g[i - 1], t[i], i)
        BY <4>1
      <4>4. QED
        BY <4>1, <4>2, <4>3
    <3>4. QED
      BY <2>2, <3>1, <3>2, <3>3
  <2>4. g = h
    BY <2>3
  <2>5. Scans(g, t, k + 1)
    BY <2>4 DEF Scans
  <2>6. QED
    BY <2>2, <2>5
<1>3. T \in SUBSET Nat
  OBVIOUS
<1> HIDE DEF T
<1>4. T = Nat
  BY <1>1, <1>2, <1>3, Induction
<1>5. QED
  BY <1>4 DEF T

\* It is the one that Parsed speaks of.
LEMMA ScanOf ==
  ASSUME NEW t \in Seq(Marks)
  PROVE  \E f : Scans(f, t, Len(t)) /\ J!Parsed(t) = f[Len(t)]
<1> DEFINE parser == CHOOSE f : Scans(f, t, Len(t))
<1>1. Scans(parser, t, Len(t))
  BY ScanExists
<1>2. J!Parsed(t) = parser[Len(t)]
  BY DEF J!Parsed, Scans, NoTokens
<1>3. QED
  BY <1>1, <1>2

\* The parser goes on from where it was, one mark at a time.
LEMMA ParsedIs ==
  /\ J!Parsed(<<>>) = NoTokens
  /\ \A t \in Seq(Marks), m \in Marks :
       J!Parsed(Append(t, m)) = J!Advance(J!Parsed(t), m, Len(t) + 1)
<1>1. J!Parsed(<<>>) = NoTokens
  <2>1. PICK f : Scans(f, <<>>, 0) /\ J!Parsed(<<>>) = f[0]
    <3>1. <<>> \in Seq(Marks) /\ Len(<<>>) = 0
      OBVIOUS
    <3>2. QED
      BY <3>1, ScanOf
  <2>2. QED
    BY <2>1 DEF Scans
<1>2. ASSUME NEW t \in Seq(Marks), NEW m \in Marks
      PROVE  J!Parsed(Append(t, m)) = J!Advance(J!Parsed(t), m, Len(t) + 1)
  <2> DEFINE n == Len(t)
             u == Append(t, m)
  <2>1. n \in Nat /\ u \in Seq(Marks) /\ Len(u) = n + 1 /\ u[n + 1] = m /\ \A i \in 1 .. n : u[i] = t[i]
    OBVIOUS
  <2>2. PICK f : Scans(f, t, n) /\ J!Parsed(t) = f[n]
    BY ScanOf
  <2> HIDE DEF u
  <2>3. PICK g : Scans(g, u, n + 1) /\ J!Parsed(u) = g[n + 1]
    BY <2>1, ScanOf
  <2> HIDE DEF n
  <2>4. \A i \in 0 .. n : f[i] = IF i = 0 THEN NoTokens ELSE J!Advance(f[i - 1], t[i], i)
    BY <2>2 DEF Scans
  <2>5. \A i \in 0 .. n + 1 : g[i] = IF i = 0 THEN NoTokens ELSE J!Advance(g[i - 1], u[i], i)
    BY <2>3 DEF Scans
  <2> DEFINE T == {i \in Nat : i <= n => g[i] = f[i]}
  <2>6. T = Nat
    <3>1. 0 \in T
      BY <2>1, <2>4, <2>5
    <3>2. ASSUME NEW i \in T PROVE i + 1 \in T
      <4>1. SUFFICES ASSUME i + 1 <= n PROVE g[i + 1] = f[i + 1]
        OBVIOUS
      <4>2. i + 1 \in 0 .. n /\ i + 1 \in 0 .. n + 1 /\ i + 1 # 0 /\ i + 1 - 1 = i /\ i + 1 \in 1 .. n /\ i <= n
        BY <2>1, <4>1
      <4>3. g[i] = f[i] /\ u[i + 1] = t[i + 1]
        BY <2>1, <4>2
      <4>4. f[i + 1] = J!Advance(f[i], t[i + 1], i + 1) /\ g[i + 1] = J!Advance(g[i], u[i + 1], i + 1)
        BY <2>4, <2>5, <4>2
      <4>5. QED
        BY <4>3, <4>4
    <3>3. T \in SUBSET Nat
      OBVIOUS
    <3> HIDE DEF T
    <3>4. QED
      BY <3>1, <3>2, <3>3, Induction
  <2>7. g[n] = f[n]
    BY <2>1, <2>6
  <2>8. g[n + 1] = J!Advance(g[n], u[n + 1], n + 1)
    <3> SUFFICES ASSUME NEW i \in 0 .. n + 1, i = n + 1 PROVE g[i] = J!Advance(g[n], u[i], i)
      BY <2>1
    <3>1. i # 0 /\ i - 1 = n
      BY <2>1
    <3>2. QED
      BY <2>5, <3>1
  <2>9. QED
    BY <2>1, <2>2, <2>3, <2>7, <2>8 DEF n, u
<1>3. QED
  BY <1>1, <1>2

-----------------------------------------------------------------------------
(***************************************************************************)
(* One mark. A bracket that opens, a key and a value add a token and count *)
(* it where it belongs; a comma leads back from the name of a member to    *)
(* the object; a bracket that closes ends the last token that is open.     *)
(***************************************************************************)
TokenTypes == {"array", "object", "string", "primitive"}
Token ==
  [type : TokenTypes, name : Members \cup {J!NoKey},
   start : Nat, end : Nat, size : Nat, parent : Nat]
ParserStates == [tokens : Seq(Token), super : Nat]

\* Two tokens that differ in their sizes only.
Alike(x, y) ==
  x.type = y.type /\ x.name = y.name /\ x.start = y.start /\ x.end = y.end /\ x.parent = y.parent

ItemMarks == J!Openers \cup {"key", "string", "primitive"}
IsNew(x, m, i, super) ==
  /\ x.type = J!TypeOf(m.mark) /\ x.name = m.name /\ x.start = i
  /\ x.end = IF m.mark \in J!Openers THEN 0 ELSE i + 1
  /\ x.size = 0 /\ x.parent = super

\* The fields of a token, and two tokens that differ in their sizes only.
LEMMA TokenFields ==
  /\ \A x \in Token : /\ x.type \in TokenTypes /\ x.name \in Members \cup {J!NoKey}
                      /\ x.start \in Nat /\ x.end \in Nat /\ x.size \in Nat /\ x.parent \in Nat
  /\ \A x \in Token, n \in Nat :
       /\ [x EXCEPT !.size = n] \in Token /\ [x EXCEPT !.size = n].size = n
       /\ Alike([x EXCEPT !.size = n], x)
       /\ [x EXCEPT !.end = n] \in Token /\ [x EXCEPT !.end = n].end = n
       /\ [x EXCEPT !.end = n].type = x.type /\ [x EXCEPT !.end = n].name = x.name
       /\ [x EXCEPT !.end = n].start = x.start /\ [x EXCEPT !.end = n].size = x.size
       /\ [x EXCEPT !.end = n].parent = x.parent
BY DEF Token, Alike

\* The token that a mark makes.
LEMMA NewTokenIs ==
  ASSUME NEW R \in ParserStates, NEW m \in Marks, m.mark \in ItemMarks, NEW i \in Nat
  PROVE  J!NewToken(R, m, i) \in Token /\ IsNew(J!NewToken(R, m, i), m, i, R.super)
<1>1. J!TypeOf(m.mark) \in TokenTypes
  <2>1. m.mark \in {"[", "{", "key", "string", "primitive"}
    BY DEF ItemMarks, J!Openers
  <2>2. QED
    BY <2>1 DEF J!TypeOf, TokenTypes
<1>2. m.name \in Members \cup {J!NoKey} /\ R.super \in Nat
  BY DEF Marks, ParserStates
<1>3. (IF m.mark \in J!Openers THEN 0 ELSE i + 1) \in Nat
  OBVIOUS
<1> DEFINE a == J!TypeOf(m.mark)
           d == IF m.mark \in J!Openers THEN 0 ELSE i + 1
<1>4. J!NewToken(R, m, i)
        = [type |-> a, name |-> m.name, start |-> i, end |-> d, size |-> 0, parent |-> R.super]
  BY DEF J!NewToken
<1>5. a \in TokenTypes /\ d \in Nat
  BY <1>1, <1>3
<1>6. IsNew(J!NewToken(R, m, i), m, i, R.super)
  BY <1>4 DEF IsNew
<1> HIDE DEF a, d
<1>7. QED
  BY <1>2, <1>4, <1>5, <1>6 DEF Token

\* A token is added, and counted where it belongs.
Adds(R, Q, m, i) ==
  /\ Q \in ParserStates
  /\ Len(Q.tokens) = Len(R.tokens) + 1
  /\ \A j \in 1 .. Len(R.tokens) :
       /\ Alike(Q.tokens[j], R.tokens[j])
       /\ Q.tokens[j].size = IF j = R.super THEN R.tokens[j].size + 1 ELSE R.tokens[j].size
  /\ IsNew(Q.tokens[Len(R.tokens) + 1], m, i, R.super)
  /\ Q.super = IF m.mark \in J!Openers \cup {"key"} THEN Len(R.tokens) + 1 ELSE R.super

\* AddToken adds it, and counts it where it belongs.
LEMMA TokenAdded ==
  ASSUME NEW R \in ParserStates, NEW m \in Marks, m.mark \in ItemMarks, NEW i \in Nat
  PROVE  Adds(R, J!Advance(R, m, i), m, i)
<1>1. R.tokens \in Seq(Token) /\ R.super \in Nat
  BY DEF ParserStates
<1> DEFINE T == R.tokens
           s == R.super
           x == J!NewToken(R, m, i)
           G(n) == IF n = s THEN [T[n] EXCEPT !.size = T[n].size + 1] ELSE T[n]
           g == [n \in DOMAIN T |-> G(n)]
           b == IF m.mark \in J!Openers \cup {"key"} THEN Len(T) + 1 ELSE s
<1>2. J!Advance(R, m, i) = [tokens |-> Append(g, x), super |-> b]
  <2>1. m.mark # "," /\ m.mark \notin J!Closers
    BY DEF ItemMarks, J!Openers, J!Closers
  <2>2. J!Advance(R, m, i) = J!AddToken(R, m, i)
    BY <2>1 DEF J!Advance
  <2>3. QED
    BY <2>2 DEF J!AddToken
<1>3. x \in Token /\ IsNew(x, m, i, s)
  BY NewTokenIs
<1> HIDE DEF x
<1>4. ASSUME NEW n \in 1 .. Len(T)
      PROVE  /\ G(n) \in Token /\ Alike(G(n), T[n])
             /\ G(n).size = IF n = s THEN T[n].size + 1 ELSE T[n].size
  <2>1. T[n] \in Token /\ T[n].size + 1 \in Nat
    <3>1. T[n] \in Token
      BY <1>1
    <3>2. QED
      BY <3>1, TokenFields
  <2>2. CASE n = s
    <3> DEFINE k == T[n].size + 1
               y == T[n]
    <3> HIDE DEF k, y
    <3>1. /\ [y EXCEPT !.size = k] \in Token /\ [y EXCEPT !.size = k].size = k
          /\ Alike([y EXCEPT !.size = k], y)
      BY <2>1, TokenFields DEF k, y
    <3>2. G(n) = [y EXCEPT !.size = k]
      BY <2>2 DEF k, y
    <3>3. QED
      BY <2>2, <3>1, <3>2 DEF k, y
  <2>3. CASE n # s
    BY <2>1, <2>3 DEF Alike
  <2>4. QED
    BY <2>2, <2>3
<1> HIDE DEF G
<1>5. g \in Seq(Token) /\ Len(g) = Len(T) /\ \A n \in 1 .. Len(T) : g[n] = G(n)
  <2>1. Len(T) \in Nat /\ DOMAIN T = 1 .. Len(T)
    BY <1>1
  <2>2. g = [n \in 1 .. Len(T) |-> G(n)]
    BY <2>1
  <2> HIDE DEF g
  <2>3. g \in Seq(Token)
    BY <1>4, <2>1, <2>2
  <2>4. QED
    BY <2>1, <2>2, <2>3
<1> HIDE DEF g
<1> DEFINE u == Append(g, x)
<1>6. /\ u \in Seq(Token) /\ Len(u) = Len(T) + 1 /\ u[Len(T) + 1] = x
      /\ \A n \in 1 .. Len(T) : u[n] = G(n)
  BY <1>3, <1>5
<1> HIDE DEF u
<1>7. b \in Nat
  BY <1>1
<1>8. J!Advance(R, m, i) = [tokens |-> u, super |-> b]
  BY <1>2 DEF u
<1> DEFINE Q == J!Advance(R, m, i)
<1> HIDE DEF b
<1>9. Q.tokens = u /\ Q.super = b /\ Q \in ParserStates
  BY <1>6, <1>7, <1>8 DEF ParserStates
<1> HIDE DEF Q, T, s
<1>10. Adds(R, Q, m, i)
  <2>1. \A j \in 1 .. Len(R.tokens) :
       /\ Alike(Q.tokens[j], R.tokens[j])
       /\ Q.tokens[j].size = IF j = R.super THEN R.tokens[j].size + 1 ELSE R.tokens[j].size
    BY <1>4, <1>6, <1>9 DEF T, s
  <2>2. Len(Q.tokens) = Len(R.tokens) + 1
    BY <1>6, <1>9 DEF T
  <2>3. IsNew(Q.tokens[Len(R.tokens) + 1], m, i, R.super)
    BY <1>3, <1>6, <1>9 DEF T, s
  <2>4. Q.super = IF m.mark \in J!Openers \cup {"key"} THEN Len(R.tokens) + 1 ELSE R.super
    BY <1>9 DEF T, s, b
  <2>5. QED
    BY <1>9, <2>1, <2>2, <2>3, <2>4 DEF Adds
<1>11. QED
  BY <1>10 DEF Q

\* A comma leads back from the name of a member to the object.
Separates(R, Q) ==
  /\ Q \in ParserStates /\ Q.tokens = R.tokens
  /\ Q.super = IF R.super # 0 /\ R.tokens[R.super].type = "string"
               THEN R.tokens[R.super].parent ELSE R.super

LEMMA StateFields ==
  \A a, b, d : [[tokens |-> a, super |-> b] EXCEPT !.super = d] = [tokens |-> a, super |-> d]
OBVIOUS

LEMMA TokensAre ==
  ASSUME NEW T \in Seq(Token)
  PROVE  Len(T) \in Nat /\ DOMAIN T = 1 .. Len(T) /\ \A j \in DOMAIN T : T[j] \in Token
OBVIOUS

LEMMA TokensApart ==
  ASSUME NEW R \in ParserStates, R.super = 0 \/ R.super \in DOMAIN R.tokens,
         NEW m \in Marks, m.mark = ",", NEW i
  PROVE  Separates(R, J!Advance(R, m, i))
<1>1. R.tokens \in Seq(Token) /\ R.super \in Nat /\ R = [tokens |-> R.tokens, super |-> R.super]
  BY DEF ParserStates
<1>2. J!Advance(R, m, i) = J!Separate(R)
  BY DEF J!Advance, J!Closers
<1>3. CASE R.super # 0 /\ R.tokens[R.super].type = "string"
  <2> DEFINE c == R.tokens[R.super].parent
  <2>1. J!Separate(R) = [R EXCEPT !.super = c]
    BY <1>3 DEF J!Separate, J!NoItem
  <2>2. c \in Nat
    <3>1. R.tokens[R.super] \in Token
      <4>1. R.super \in DOMAIN R.tokens
        BY <1>3
      <4>2. QED
        BY <1>1, <4>1, TokensAre, Zenon
    <3>2. QED
      BY <3>1, TokenFields
  <2> HIDE DEF c
  <2>4. J!Separate(R) = [tokens |-> R.tokens, super |-> c]
    BY <1>1, <2>1, StateFields, Zenon
  <2>5. [tokens |-> R.tokens, super |-> c] \in ParserStates
    BY <1>1, <2>2 DEF ParserStates
  <2> DEFINE Q == [tokens |-> R.tokens, super |-> c]
  <2>6. Q.tokens = R.tokens /\ Q.super = c
    OBVIOUS
  <2> HIDE DEF Q
  <2>7. Separates(R, Q)
    BY <1>3, <2>5, <2>6, Zenon DEF Separates, c, Q
  <2>8. QED
    BY <1>2, <2>4, <2>7, Zenon DEF Q
<1>4. CASE ~ (R.super # 0 /\ R.tokens[R.super].type = "string")
  BY <1>2, <1>4 DEF J!Separate, J!NoItem, Separates
<1>5. QED
  BY <1>3, <1>4

\* A bracket closes the last token that is open.
Closes(R, Q, p, i) ==
  /\ Q \in ParserStates /\ Len(Q.tokens) = Len(R.tokens)
  /\ \A j \in 1 .. Len(R.tokens) :
       /\ Q.tokens[j].type = R.tokens[j].type /\ Q.tokens[j].name = R.tokens[j].name
       /\ Q.tokens[j].start = R.tokens[j].start /\ Q.tokens[j].size = R.tokens[j].size
       /\ Q.tokens[j].parent = R.tokens[j].parent
       /\ Q.tokens[j].end = IF j = p THEN i ELSE R.tokens[j].end
  /\ Q.super = R.tokens[p].parent

\* Close ends the last token that is open.
LEMMA TokenClosed ==
  ASSUME NEW R \in ParserStates, NEW m \in Marks, m.mark \in J!Closers, NEW i \in Nat,
         NEW p \in DOMAIN R.tokens, R.tokens[p].end = 0,
         \A j \in DOMAIN R.tokens : R.tokens[j].end = 0 => j <= p
  PROVE  Closes(R, J!Advance(R, m, i), p, i)
<1>1. R.tokens \in Seq(Token) /\ R = [tokens |-> R.tokens, super |-> R.super]
  BY DEF ParserStates
<1>2. J!Advance(R, m, i) = J!Close(R, i)
  BY DEF J!Advance, J!Closers
<1> DEFINE S == {n \in DOMAIN R.tokens : R.tokens[n].end = 0}
<1>3. J!Max(S) = p
  <2>1. p \in S /\ \A y \in S : p >= y
    BY <1>1
  <2>2. \A x \in S : (\A y \in S : x >= y) => x = p
    <3> SUFFICES ASSUME NEW x \in S, x >= p PROVE x = p
      BY <2>1
    <3>1. x \in Nat /\ p \in Nat /\ p >= x
      BY <1>1, <2>1
    <3>2. QED
      BY <3>1
  <2> HIDE DEF S
  <2>3. QED
    BY <2>1, <2>2 DEF J!Max
<1> DEFINE T == R.tokens
           c == R.tokens[p].parent
           g == [T EXCEPT ![p].end = i]
           Q == J!Advance(R, m, i)
<1>4. Q = [tokens |-> g, super |-> c]
  BY <1>2, <1>3 DEF J!Close
<1>5. Len(T) \in Nat /\ DOMAIN T = 1 .. Len(T) /\ \A j \in 1 .. Len(T) : T[j] \in Token
  BY <1>1
<1>6. /\ DOMAIN g = 1 .. Len(T)
      /\ \A j \in 1 .. Len(T) : g[j] = IF j = p THEN [T[j] EXCEPT !.end = i] ELSE T[j]
  BY <1>1, <1>5
<1> HIDE DEF g
<1>7. c \in Nat
  BY <1>5, TokenFields
<1> HIDE DEF Q, c, T
<1>8. ASSUME NEW j \in 1 .. Len(T)
      PROVE  /\ g[j] \in Token
             /\ g[j].type = T[j].type /\ g[j].name = T[j].name
             /\ g[j].start = T[j].start /\ g[j].size = T[j].size
             /\ g[j].parent = T[j].parent
             /\ g[j].end = IF j = p THEN i ELSE T[j].end
  <2> DEFINE y == T[j]
  <2> HIDE DEF y
  <2>1. y \in Token
    BY <1>5 DEF y
  <2>2. /\ [y EXCEPT !.end = i] \in Token /\ [y EXCEPT !.end = i].end = i
       /\ [y EXCEPT !.end = i].type = y.type /\ [y EXCEPT !.end = i].name = y.name
       /\ [y EXCEPT !.end = i].start = y.start /\ [y EXCEPT !.end = i].size = y.size
       /\ [y EXCEPT !.end = i].parent = y.parent
    BY <2>1, TokenFields
  <2>3. g[j] = IF j = p THEN [y EXCEPT !.end = i] ELSE y
    BY <1>6 DEF y
  <2>4. CASE j = p
    BY <2>2, <2>3, <2>4 DEF y
  <2>5. CASE j # p
    BY <2>1, <2>3, <2>5 DEF y
  <2>6. QED
    BY <2>4, <2>5
<1>9. g \in Seq(Token) /\ Len(g) = Len(T)
  <2>1. g = [j \in 1 .. Len(T) |-> g[j]]
    <3>1. g \in [1 .. Len(T) -> {g[j] : j \in 1 .. Len(T)}]
      <4>1. \E h : g = [h EXCEPT ![p].end = i]
        BY DEF g
      <4>2. QED
        BY <1>6, <4>1
    <3>2. QED
      BY <3>1
  <2>2. g \in [1 .. Len(T) -> Token]
    BY <1>8, <2>1
  <2>3. QED
    BY <1>5, <2>2
<1>10. Q.tokens = g /\ Q.super = c /\ Q \in ParserStates
  BY <1>4, <1>7, <1>9 DEF ParserStates
<1>11. Closes(R, Q, p, i)
  BY <1>8, <1>9, <1>10 DEF Closes, T, c
<1>12. QED
  BY <1>11 DEF Q

-----------------------------------------------------------------------------
(***************************************************************************)
(* The tree, and the tokens that are read of it. Core relates the state of *)
(* the parser to the nodes and to those that are still open: a token or    *)
(* two for each node, in order, with its kind, its size and the token that *)
(* it belongs to.                                                          *)
(***************************************************************************)
\* The node that the next one will be a member of.
Inner(os) == IF os = <<>> THEN 0 ELSE os[Len(os)]

\* Nodes in the order of the document, and those that are open: every structure
\* is followed by its first member, members of objects and no others have names.
NodeFits(ns, n) ==
  LET p == ns[n].parent
  IN  /\ p < n /\ (p = 0 <=> n = 1)
      /\ p # 0 => ns[p].kind \in Structures /\ ns[p + 1].parent = p
      /\ ns[n].key # J!NoKey <=> p # 0 /\ ns[p].kind = "object"
LevelFits(ns, os, k) ==
  /\ os[k] \in DOMAIN ns /\ ns[os[k]].kind \in Structures
  /\ ns[os[k]].parent = IF k = 1 THEN 0 ELSE os[k - 1]
  /\ os[k] = Len(ns) \/ ns[os[k] + 1].parent = os[k]
  /\ \A l \in DOMAIN os : l < k => os[l] < os[k]
Tree(ns, os) ==
  /\ ns \in Seq(Nodes) /\ os \in Seq(Nat)
  /\ \A n \in DOMAIN ns : NodeFits(ns, n)
  /\ \A k \in DOMAIN os : LevelFits(ns, os, k)

\* A node that can be added.
Joins(ns, os, e) ==
  /\ e \in Nodes /\ e.parent = Inner(os)
  /\ os = <<>> => ns = <<>>
  /\ e.key # J!NoKey <=> os # <<>> /\ ns[Inner(os)].kind = "object"
Opened(ns, os, e) == IF e.kind \in Structures THEN Append(os, Len(ns) + 1) ELSE os

LEMMA NodesAre ==
  ASSUME NEW ns \in Seq(Nodes)
  PROVE  /\ Len(ns) \in Nat /\ DOMAIN ns = 1 .. Len(ns)
         /\ \A n \in DOMAIN ns : ns[n] \in Nodes /\ ns[n].parent \in Nat /\ n \in Nat
<1>1. Len(ns) \in Nat /\ DOMAIN ns = 1 .. Len(ns) /\ \A n \in DOMAIN ns : ns[n] \in Nodes /\ n \in Nat
  OBVIOUS
<1>2. \A e \in Nodes : e.parent \in Nat
  BY DEF Nodes
<1>3. QED
  BY <1>1, <1>2

LEMMA NodesWith ==
  ASSUME NEW ns \in Seq(Nodes), NEW e \in Nodes
  PROVE  /\ Append(ns, e) \in Seq(Nodes) /\ Len(Append(ns, e)) = Len(ns) + 1
         /\ DOMAIN Append(ns, e) = 1 .. Len(ns) + 1
         /\ \A n \in 1 .. Len(ns) : Append(ns, e)[n] = ns[n]
         /\ Append(ns, e)[Len(ns) + 1] = e
OBVIOUS

LEMMA InnerIs ==
  ASSUME NEW ns, NEW os, Tree(ns, os)
  PROVE  /\ os = <<>> => Inner(os) = 0
         /\ os # <<>> => /\ Inner(os) \in DOMAIN ns /\ ns[Inner(os)].kind \in Structures
                         /\ Inner(os) = os[Len(os)] /\ Len(os) \in DOMAIN os
                         /\ Inner(os) = Len(ns) \/ ns[Inner(os) + 1].parent = Inner(os)
         /\ Inner(os) \in 0 .. Len(ns)
<1>1. os \in Seq(Nat) /\ ns \in Seq(Nodes)
  BY DEF Tree
<1>2. CASE os = <<>>
  BY <1>1, <1>2 DEF Inner
<1>3. CASE os # <<>>
  <2>1. Len(os) \in DOMAIN os
    BY <1>1, <1>3
  <2>2. LevelFits(ns, os, Len(os))
    BY <2>1 DEF Tree
  <2>3. QED
    BY <1>1, <1>3, <2>1, <2>2 DEF LevelFits, Inner
<1>4. QED
  BY <1>2, <1>3

\* A tree stays one when a node joins it.
LEMMA TreeGrows ==
  ASSUME NEW ns, NEW os, NEW e, Tree(ns, os), Joins(ns, os, e)
  PROVE  Tree(Append(ns, e), Opened(ns, os, e))
<1> DEFINE xs == Append(ns, e)
           ps == Opened(ns, os, e)
           N == Len(ns)
           c == Inner(os)
<1>1. ns \in Seq(Nodes) /\ os \in Seq(Nat) /\ e \in Nodes /\ e.parent = c
  BY DEF Tree, Joins
<1>2. /\ xs \in Seq(Nodes) /\ Len(xs) = N + 1 /\ DOMAIN xs = 1 .. N + 1
      /\ \A n \in 1 .. N : xs[n] = ns[n]
      /\ xs[N + 1] = e /\ N \in Nat /\ DOMAIN ns = 1 .. N
      /\ \A n \in 1 .. N : ns[n].parent \in Nat
  BY <1>1, NodesWith, NodesAre
<1>3. /\ c \in 0 .. N /\ (os = <<>> => c = 0)
      /\ os # <<>> => /\ c \in 1 .. N /\ ns[c].kind \in Structures
                      /\ c = N \/ ns[c + 1].parent = c
  BY <1>2, InnerIs
<1>4. /\ os = <<>> => ns = <<>>
      /\ e.key # J!NoKey <=> os # <<>> /\ ns[c].kind = "object"
  BY DEF Joins
<1>5. \A n \in 1 .. N : NodeFits(ns, n)
  BY <1>2 DEF Tree
<1> HIDE DEF xs, c
<1>6. ASSUME NEW n \in 1 .. N PROVE NodeFits(xs, n)
  <2> DEFINE p == ns[n].parent
  <2>1. /\ p < n /\ (p = 0 <=> n = 1)
        /\ p # 0 => ns[p].kind \in Structures /\ ns[p + 1].parent = p
        /\ ns[n].key # J!NoKey <=> p # 0 /\ ns[p].kind = "object"
    BY <1>5 DEF NodeFits
  <2>2. xs[n] = ns[n] /\ p \in Nat /\ (p # 0 => p \in 1 .. N /\ p + 1 \in 1 .. N)
    BY <1>2, <2>1
  <2>3. p # 0 => xs[p] = ns[p] /\ xs[p + 1] = ns[p + 1]
    BY <1>2, <2>2
  <2>4. xs[n].parent = p
    BY <2>2
  <2> HIDE DEF p
  <2>5. QED
    BY <2>1, <2>2, <2>3, <2>4 DEF NodeFits
<1>7. NodeFits(xs, N + 1)
  <2>1. xs[N + 1].parent = c /\ xs[N + 1].key = e.key
    BY <1>1, <1>2
  <2>2. c < N + 1 /\ (c = 0 <=> N + 1 = 1)
    <3>1. CASE os = <<>>
      <4>1. ns = <<>> /\ c = 0
        BY <1>3, <1>4, <3>1
      <4>2. N = 0
        BY <4>1
      <4>3. QED
        BY <4>1, <4>2
    <3>2. CASE os # <<>>
      <4>1. c \in 1 .. N /\ N \in Nat
        BY <1>2, <1>3, <3>2
      <4>2. QED
        BY <4>1
    <3>3. QED
      BY <3>1, <3>2
  <2>3. ASSUME c # 0
        PROVE  c \in 1 .. N /\ xs[c] = ns[c] /\ xs[c].kind \in Structures /\ xs[c + 1].parent = c
    <3>1. c \in 1 .. N /\ ns[c].kind \in Structures /\ (c = N \/ ns[c + 1].parent = c)
      BY <1>2, <1>3, <2>3
    <3>2. xs[c] = ns[c]
      BY <1>2, <3>1
    <3>3. xs[c + 1].parent = c
      <4>1. CASE c = N
        BY <2>1, <4>1
      <4>2. CASE c # N
        <5>1. c \in 1 .. N /\ N \in Nat /\ ns[c + 1].parent = c
          BY <1>2, <3>1, <4>2
        <5>2. c + 1 \in 1 .. N
          BY <4>2, <5>1
        <5>3. xs[c + 1] = ns[c + 1]
          BY <1>2, <5>2
        <5>4. QED
          BY <5>1, <5>3
      <4>3. QED
        BY <4>1, <4>2
    <3>4. QED
      BY <3>1, <3>2, <3>3
  <2>4. e.key # J!NoKey <=> c # 0 /\ xs[c].kind = "object"
    <3>1. os # <<>> <=> c # 0
      BY <1>3
    <3>2. QED
      BY <1>4, <2>3, <3>1
  <2>5. QED
    BY <2>1, <2>2, <2>3, <2>4 DEF NodeFits
<1>8. \A n \in DOMAIN xs : NodeFits(xs, n)
  <2>1. \A n \in DOMAIN xs : n \in 1 .. N \/ n = N + 1
    BY <1>2
  <2>2. QED
    BY <1>6, <1>7, <2>1
<1>9. ASSUME NEW k \in DOMAIN os
      PROVE  /\ os[k] \in DOMAIN xs /\ xs[os[k]].kind \in Structures
             /\ xs[os[k]].parent = IF k = 1 THEN 0 ELSE os[k - 1]
             /\ os[k] = Len(xs) \/ xs[os[k] + 1].parent = os[k]
  <2>1. LevelFits(ns, os, k)
    BY DEF Tree
  <2>2. os[k] \in 1 .. N /\ xs[os[k]] = ns[os[k]] /\ (os[k] = N \/ ns[os[k] + 1].parent = os[k])
    BY <1>2, <2>1 DEF LevelFits
  <2>3. xs[os[k] + 1].parent = os[k]
    <3>1. CASE os[k] = N
      <4>1. k = Len(os)
        <5>1. k \in 1 .. Len(os) /\ Len(os) \in DOMAIN os
          BY <1>1
        <5>2. LevelFits(ns, os, Len(os))
          BY <5>1 DEF Tree
        <5>3. k < Len(os) => os[k] < os[Len(os)]
          BY <5>2 DEF LevelFits
        <5>4. os[Len(os)] \in 1 .. N
          BY <1>2, <5>2 DEF LevelFits
        <5>5. QED
          BY <1>1, <1>2, <3>1, <5>1, <5>3, <5>4
      <4>2. c = N
        <5>1. os # <<>>
          BY <1>1
        <5>2. QED
          BY <3>1, <4>1, <5>1 DEF Inner, c
      <4>3. QED
        BY <1>1, <1>2, <3>1, <4>2
    <3>2. CASE os[k] # N
      <4>1. os[k] + 1 \in 1 .. N
        BY <1>2, <2>2, <3>2
      <4>2. xs[os[k] + 1] = ns[os[k] + 1]
        BY <1>2, <4>1
      <4>3. QED
        BY <2>2, <3>2, <4>2
    <3>3. QED
      BY <3>1, <3>2
  <2>4. os[k] \in DOMAIN xs
    BY <1>2, <2>2
  <2>5. QED
    BY <2>1, <2>2, <2>3, <2>4 DEF LevelFits
<1>10. ASSUME NEW k \in DOMAIN os, NEW l \in DOMAIN os, l < k PROVE os[l] < os[k]
  BY <1>10 DEF Tree, LevelFits
<1>11. CASE e.kind \notin Structures
  <2>1. ps = os
    BY <1>11 DEF Opened
  <2>2. \A k \in DOMAIN os : LevelFits(xs, os, k)
    BY <1>9, <1>10 DEF LevelFits
  <2>3. QED
    BY <1>1, <1>2, <1>8, <2>1, <2>2 DEF Tree, xs
<1>12. CASE e.kind \in Structures
  <2>0. ps = Append(os, N + 1)
    BY <1>12 DEF Opened
  <2> DEFINE L == Len(os)
  <2>1. /\ ps \in Seq(Nat) /\ DOMAIN ps = 1 .. L + 1 /\ DOMAIN os = 1 .. L /\ L \in Nat
        /\ \A k \in 1 .. L : ps[k] = os[k]
        /\ ps[L + 1] = N + 1
    BY <1>1, <1>2, <2>0
  <2> HIDE DEF ps
  <2>2. \A k \in 1 .. L : os[k] \in 1 .. N
    BY <1>2, <2>1 DEF Tree, LevelFits
  <2>3. ASSUME NEW k \in 1 .. L PROVE LevelFits(xs, ps, k)
    <3>1. k \in DOMAIN os /\ ps[k] = os[k]
      BY <2>1
    <3>2. ps[k - 1] = os[k - 1] \/ k = 1
      BY <2>1
    <3>3. \A l \in DOMAIN ps : l < k => l \in DOMAIN os /\ ps[l] = os[l]
      BY <2>1
    <3>4. \A l \in DOMAIN ps : l < k => ps[l] < ps[k]
      BY <1>10, <3>1, <3>3
    <3>5. QED
      BY <1>9, <3>1, <3>2, <3>4 DEF LevelFits
  <2>4. LevelFits(xs, ps, L + 1)
    <3>1. ps[L + 1] = N + 1 /\ xs[N + 1] = e /\ N + 1 = Len(xs) /\ N + 1 \in DOMAIN xs
      BY <1>2, <2>1
    <3>2. e.parent = IF L + 1 = 1 THEN 0 ELSE ps[L + 1 - 1]
      <4>1. CASE L = 0
        <5>1. os = <<>>
          BY <1>1, <4>1
        <5>2. QED
          BY <1>1, <1>3, <4>1, <5>1
      <4>2. CASE L # 0
        <5>1. os # <<>> /\ L \in 1 .. L /\ L + 1 - 1 = L /\ L + 1 # 1
          BY <2>1, <4>2
        <5>2. ps[L] = os[L] /\ c = os[L]
          BY <2>1, <5>1 DEF Inner, c
        <5>3. QED
          BY <1>1, <5>1, <5>2
      <4>3. QED
        BY <4>1, <4>2
    <3>3. \A l \in DOMAIN ps : l < L + 1 => ps[l] < N + 1
      <4>1. \A l \in DOMAIN ps : l < L + 1 => l \in 1 .. L
        BY <2>1
      <4>2. \A l \in 1 .. L : ps[l] \in 1 .. N
        BY <2>1, <2>2
      <4>3. \A x \in 1 .. N : x < N + 1
        BY <1>2
      <4>4. QED
        BY <4>1, <4>2, <4>3
    <3>4. QED
      BY <1>12, <3>1, <3>2, <3>3 DEF LevelFits
  <2>5. \A k \in DOMAIN ps : LevelFits(xs, ps, k)
    <3>1. \A k \in DOMAIN ps : k \in 1 .. L \/ k = L + 1
      BY <2>1
    <3>2. QED
      BY <2>3, <2>4, <3>1
  <2>6. QED
    BY <1>2, <1>8, <2>1, <2>5 DEF Tree, xs, ps
<1>13. QED
  BY <1>11, <1>12

\* The innermost structure is closed.
Outer(os) == SubSeq(os, 1, Len(os) - 1)

LEMMA OuterIs ==
  ASSUME NEW os \in Seq(Nat), os # <<>>
  PROVE  /\ Outer(os) \in Seq(Nat) /\ Len(Outer(os)) = Len(os) - 1 /\ Len(os) \in Nat
         /\ DOMAIN Outer(os) = 1 .. Len(os) - 1 /\ DOMAIN os = 1 .. Len(os) /\ Len(os) >= 1
         /\ \A k \in 1 .. Len(os) - 1 : Outer(os)[k] = os[k]
<1>1. Len(os) \in Nat /\ DOMAIN os = 1 .. Len(os) /\ Len(os) >= 1
  OBVIOUS
<1>2. 1 \in 1 .. Len(os) + 1 /\ Len(os) - 1 \in 1 - 1 .. Len(os)
  BY <1>1
<1> DEFINE k == Len(os) - 1
           u == SubSeq(os, 1, k)
<1> HIDE DEF k
<1>3. /\ u \in Seq(Nat) /\ Len(u) = k - 1 + 1
      /\ \A i \in 1 .. k - 1 + 1 : u[i] = os[1 + i - 1]
  BY <1>1, <1>2, SubSeqIs DEF k
<1>4. k - 1 + 1 = k /\ \A i \in 1 .. k : 1 + i - 1 = i
  BY <1>1 DEF k
<1> HIDE DEF u
<1>5. u \in Seq(Nat) /\ Len(u) = k /\ DOMAIN u = 1 .. k /\ \A i \in 1 .. k : u[i] = os[i]
  <2>1. u \in Seq(Nat) /\ Len(u) = k /\ DOMAIN u = 1 .. Len(u)
    BY <1>3, <1>4
  <2>2. \A i \in 1 .. k : u[i] = os[i]
    BY <1>3, <1>4
  <2>3. QED
    BY <2>1, <2>2
<1>6. Outer(os) = u
  BY DEF Outer, u, k
<1>7. QED
  BY <1>1, <1>5, <1>6 DEF k

\* And when the innermost structure is closed.
LEMMA TreeCloses ==
  ASSUME NEW ns, NEW os, Tree(ns, os), os # <<>>
  PROVE  Tree(ns, Outer(os)) /\ Inner(Outer(os)) = ns[Inner(os)].parent
<1> DEFINE L == Len(os)
           ps == Outer(os)
<1>1. /\ ps \in Seq(Nat) /\ DOMAIN ps = 1 .. L - 1 /\ DOMAIN os = 1 .. L /\ L \in Nat /\ L >= 1
      /\ Len(ps) = L - 1
      /\ \A k \in 1 .. L - 1 : ps[k] = os[k]
  BY OuterIs DEF Tree
<1> HIDE DEF ps
<1>2. ASSUME NEW k \in DOMAIN ps PROVE LevelFits(ns, ps, k)
  <2>1. k \in DOMAIN os /\ ps[k] = os[k] /\ (k = 1 \/ ps[k - 1] = os[k - 1])
    BY <1>1
  <2>2. LevelFits(ns, os, k)
    BY <2>1 DEF Tree
  <2>3. \A l \in DOMAIN ps : l \in DOMAIN os /\ ps[l] = os[l]
    BY <1>1
  <2>4. QED
    BY <2>1, <2>2, <2>3 DEF LevelFits
<1>3. Tree(ns, ps)
  BY <1>1, <1>2 DEF Tree
<1>4. Inner(ps) = ns[Inner(os)].parent
  <2>1. Inner(os) = os[L] /\ L \in DOMAIN os
    BY <1>1 DEF Inner
  <2>2. ns[os[L]].parent = IF L = 1 THEN 0 ELSE os[L - 1]
    BY <2>1 DEF Tree, LevelFits
  <2>3. CASE L = 1
    <3>1. ps = <<>>
      BY <1>1, <2>3
    <3>2. QED
      BY <2>1, <2>2, <2>3, <3>1 DEF Inner
  <2>4. CASE L # 1
    <3>1. ps # <<>> /\ ps[Len(ps)] = os[L - 1]
      BY <1>1, <2>4
    <3>2. QED
      BY <2>1, <2>2, <2>4, <3>1 DEF Inner
  <2>5. QED
    BY <2>3, <2>4
<1>5. QED
  BY <1>3, <1>4 DEF ps

Kids(ns, n) == {m \in DOMAIN ns : ns[m].parent = n}

\* The token of a node, and that of its name.
NodeToken(T, ns, os, n) ==
  LET x == T[Place(ns, n)]
  IN  /\ x.type = ns[n].kind /\ x.name = J!NoKey
      /\ x.size = Cardinality(Kids(ns, n))
      /\ x.end = 0 <=> \E k \in DOMAIN os : os[k] = n
      /\ x.parent = IF ns[n].key = J!NoKey THEN Place(ns, ns[n].parent) ELSE Place(ns, n) - 1
NameToken(T, ns, n) ==
  LET x == T[Place(ns, n) - 1]
  IN  /\ x.type = "string" /\ x.name = ns[n].key /\ x.size = 1 /\ x.end # 0
      /\ x.parent = Place(ns, ns[n].parent)

\* Tokens begin one after the other, and before the end of what they are in.
StartsInOrder(T, i) ==
  /\ \A j \in DOMAIN T : T[j].start \in 1 .. i
  /\ \A j, k \in DOMAIN T : j < k => T[j].start < T[k].start
Encloses(T, ns, n) ==
  LET p == ns[n].parent
  IN  p # 0 /\ T[Place(ns, p)].end # 0 => T[Place(ns, n)].start < T[Place(ns, p)].end

\* What the next token belongs to: the innermost structure, or the name of a
\* member of it that is complete.
AtInner(R, ns, os) ==
  R.super = Place(ns, Inner(os))
AfterName(R, ns, os) ==
  /\ R.super \in DOMAIN R.tokens /\ R.tokens[R.super].type = "string"
  /\ R.tokens[R.super].parent = Place(ns, Inner(os))

\* The state of the parser after i marks.
Core(R, ns, os, i) ==
  /\ R \in ParserStates /\ i \in Nat
  /\ Len(R.tokens) = Place(ns, Len(ns))
  /\ \A n \in DOMAIN ns :
       /\ NodeToken(R.tokens, ns, os, n)
       /\ ns[n].key # J!NoKey => NameToken(R.tokens, ns, n)
       /\ Encloses(R.tokens, ns, n)
  /\ StartsInOrder(R.tokens, i)
  /\ AtInner(R, ns, os) \/ AfterName(R, ns, os)

\* The parser at the start of a text, and an empty tree.
LEMMA CoreStarts == Core(NoTokens, <<>>, <<>>, 0) /\ AtInner(NoTokens, <<>>, <<>>)
<1>1. NoTokens.tokens = <<>> /\ NoTokens.super = 0 /\ NoTokens \in ParserStates
  BY DEF NoTokens, J!NoItem, ParserStates
<1>2. Place(<<>>, 0) = 0
  BY TokenPlace
<1>3. AtInner(NoTokens, <<>>, <<>>)
  BY <1>1, <1>2 DEF AtInner, Inner
<1>4. StartsInOrder(<<>>, 0)
  BY DEF StartsInOrder
<1>5. QED
  BY <1>1, <1>2, <1>3, <1>4 DEF Core

\* A token or two are added for a node.
Grown(T, U, ns, os, e, i, l) ==
  LET s == Place(ns, Inner(os))
      a == Len(T) + (IF e.key = J!NoKey THEN 1 ELSE 2)
  IN  /\ Len(U) = a
      /\ \A j \in 1 .. Len(T) :
           /\ Alike(U[j], T[j])
           /\ U[j].size = IF j = s THEN T[j].size + 1 ELSE T[j].size
      /\ U[a].type = e.kind /\ U[a].name = J!NoKey /\ U[a].size = 0 /\ U[a].start = l
      /\ U[a].end = 0 <=> e.kind \in Structures
      /\ U[a].parent = IF e.key = J!NoKey THEN s ELSE a - 1
      /\ l \in Nat /\ i < l
      /\ e.key # J!NoKey => /\ U[a - 1].type = "string" /\ U[a - 1].name = e.key /\ U[a - 1].size = 1
                            /\ U[a - 1].end # 0 /\ U[a - 1].parent = s
                            /\ U[a - 1].start \in i + 1 .. l - 1

MarkOf(m, k) ==
  /\ m \in Marks /\ m.name = J!NoKey /\ m.mark \in J!Openers \cup {"string", "primitive"}
  /\ J!TypeOf(m.mark) = k /\ (m.mark \in J!Openers <=> k \in Structures)

LEMMA MarksOf ==
  /\ \A s \in Structures : MarkOf(J!Opening(s), s)
  /\ \A m \in {"string", "primitive"} : MarkOf(J!Mark(m), m)
<1>1. \A s \in Structures : MarkOf(J!Opening(s), s)
  <2>1. MarkOf(J!Mark("["), "array") /\ MarkOf(J!Mark("{"), "object")
    BY DEF MarkOf, Marks, J!Mark, J!TypeOf, J!Openers, J!Closers, Structures
  <2>2. QED
    BY <2>1 DEF J!Opening, Structures
<1>2. \A m \in {"string", "primitive"} : MarkOf(J!Mark(m), m)
  BY DEF MarkOf, Marks, J!Mark, J!TypeOf, J!Openers, J!Closers, Structures
<1>3. QED
  BY <1>1, <1>2

\* A mark without a key adds one token for the node.
LEMMA ItemGrows ==
  ASSUME NEW R \in ParserStates, NEW ns, NEW os, NEW e, NEW i \in Nat, NEW m,
         MarkOf(m, e.kind), e.key = J!NoKey, AtInner(R, ns, os)
  PROVE  LET Q == J!Advance(R, m, i + 1)
         IN  /\ Q \in ParserStates
             /\ Grown(R.tokens, Q.tokens, ns, os, e, i, i + 1)
             /\ Q.super = IF e.kind \in Structures THEN Len(R.tokens) + 1 ELSE R.super
<1> DEFINE Q == J!Advance(R, m, i + 1)
           s == Place(ns, Inner(os))
<1>1. m \in Marks /\ m.mark \in ItemMarks /\ i + 1 \in Nat
  BY DEF MarkOf, ItemMarks
<1>2. Adds(R, Q, m, i + 1)
  BY <1>1, TokenAdded
<1> HIDE DEF Q
<1>3. R.super = s
  BY DEF AtInner
<1> DEFINE T == R.tokens
           U == Q.tokens
           a == Len(T) + 1
<1>4. /\ Q \in ParserStates /\ Len(U) = a
      /\ \A j \in 1 .. Len(T) :
           /\ Alike(U[j], T[j])
           /\ U[j].size = IF j = s THEN T[j].size + 1 ELSE T[j].size
      /\ IsNew(U[a], m, i + 1, s)
      /\ Q.super = IF m.mark \in J!Openers \cup {"key"} THEN a ELSE R.super
  BY <1>2, <1>3 DEF Adds
<1>5. /\ U[a].type = e.kind /\ U[a].name = J!NoKey /\ U[a].size = 0 /\ U[a].start = i + 1
      /\ U[a].end = 0 <=> e.kind \in Structures
      /\ U[a].parent = s
  <2>1. (IF m.mark \in J!Openers THEN 0 ELSE i + 1 + 1) = 0 <=> m.mark \in J!Openers
    OBVIOUS
  <2>2. QED
    BY <1>4, <2>1 DEF IsNew, MarkOf
<1>6. m.mark \in J!Openers \cup {"key"} <=> e.kind \in Structures
  BY DEF MarkOf, J!Openers
<1>7. Grown(T, U, ns, os, e, i, i + 1)
  <2>1. i + 1 \in Nat /\ i < i + 1
    OBVIOUS
  <2> HIDE DEF T, U
  <2>2. QED
    BY <1>4, <1>5, <2>1 DEF Grown
<1>8. QED
  BY <1>4, <1>6, <1>7 DEF Q

\* A key and a value, or a bracket, add two.
LEMMA NamedGrows ==
  ASSUME NEW R \in ParserStates, NEW ns, NEW os, NEW e, NEW i \in Nat, NEW m,
         MarkOf(m, e.kind), e.key # J!NoKey, e.key \in Members, AtInner(R, ns, os),
         Place(ns, Inner(os)) \in 0 .. Len(R.tokens)
  PROVE  LET Q == J!Advance(J!Advance(R, J!Key(e.key), i + 1), m, i + 2)
         IN  /\ Q \in ParserStates
             /\ Grown(R.tokens, Q.tokens, ns, os, e, i, i + 2)
             /\ Q.super = IF e.kind \in Structures THEN Len(R.tokens) + 2 ELSE Len(R.tokens) + 1
<1> DEFINE s == Place(ns, Inner(os))
           y == J!Key(e.key)
           K == J!Advance(R, y, i + 1)
           Q == J!Advance(K, m, i + 2)
           T == R.tokens
           n == Len(T)
           V == K.tokens
           U == Q.tokens
<1>1. y \in Marks /\ y.mark = "key" /\ y.name = e.key /\ y.mark \in ItemMarks /\ i + 1 \in Nat
      /\ y.mark \notin J!Openers /\ J!TypeOf(y.mark) = "string"
  BY DEF J!Key, Marks, ItemMarks, J!Openers, J!TypeOf
<1> HIDE DEF y
<1>2. Adds(R, K, y, i + 1)
  BY <1>1, TokenAdded
<1> HIDE DEF K
<1>3. m \in Marks /\ m.mark \in ItemMarks /\ i + 2 \in Nat /\ K \in ParserStates
  BY <1>2 DEF MarkOf, ItemMarks, Adds
<1>4. Adds(K, Q, m, i + 2)
  BY <1>3, TokenAdded
<1> HIDE DEF Q
<1>5. R.super = s /\ n \in Nat /\ s \in 0 .. n
  BY TokensAre DEF AtInner, ParserStates
<1>6. /\ Len(V) = n + 1 /\ K.super = n + 1
      /\ \A j \in 1 .. n :
           /\ Alike(V[j], T[j])
           /\ V[j].size = IF j = s THEN T[j].size + 1 ELSE T[j].size
      /\ V[n + 1].type = "string" /\ V[n + 1].name = e.key /\ V[n + 1].start = i + 1
      /\ V[n + 1].end = i + 2 /\ V[n + 1].size = 0 /\ V[n + 1].parent = s
  <2>1. /\ Len(V) = n + 1 /\ K.super = n + 1
        /\ \A j \in 1 .. n :
             /\ Alike(V[j], T[j])
             /\ V[j].size = IF j = s THEN T[j].size + 1 ELSE T[j].size
        /\ IsNew(V[n + 1], y, i + 1, s)
    BY <1>1, <1>2, <1>5 DEF Adds
  <2>2. i + 1 + 1 = i + 2
    OBVIOUS
  <2>3. QED
    BY <1>1, <2>1, <2>2 DEF IsNew
<1> HIDE DEF V
<1>7. /\ Q \in ParserStates /\ Len(U) = n + 1 + 1
      /\ \A j \in 1 .. n + 1 :
           /\ Alike(U[j], V[j])
           /\ U[j].size = IF j = n + 1 THEN V[j].size + 1 ELSE V[j].size
      /\ IsNew(U[n + 1 + 1], m, i + 2, n + 1)
      /\ Q.super = IF m.mark \in J!Openers \cup {"key"} THEN n + 1 + 1 ELSE n + 1
  BY <1>4, <1>6 DEF Adds, V
<1> HIDE DEF U, T
<1>8. \A j \in 1 .. n :
           /\ Alike(U[j], T[j])
           /\ U[j].size = IF j = s THEN T[j].size + 1 ELSE T[j].size
  <2>1. \A j \in 1 .. n : j \in 1 .. n + 1 /\ j # n + 1
    BY <1>5
  <2> HIDE DEF n
  <2>2. QED
    BY <1>6, <1>7, <2>1 DEF Alike
<1>9. /\ U[n + 1].type = "string" /\ U[n + 1].name = e.key /\ U[n + 1].size = 1
      /\ U[n + 1].end # 0 /\ U[n + 1].parent = s /\ U[n + 1].start = i + 1
  <2>1. n + 1 \in 1 .. n + 1 /\ i + 2 # 0
    BY <1>5
  <2> HIDE DEF n
  <2>2. QED
    BY <1>6, <1>7, <2>1 DEF Alike
<1>10. n + 1 + 1 = n + 2 /\ n + 2 - 1 = n + 1
  BY <1>5
<1>11. /\ U[n + 2].type = e.kind /\ U[n + 2].name = J!NoKey /\ U[n + 2].size = 0 /\ U[n + 2].start = i + 2
       /\ U[n + 2].end = 0 <=> e.kind \in Structures
       /\ U[n + 2].parent = n + 1
  <2>1. (IF m.mark \in J!Openers THEN 0 ELSE i + 2 + 1) = 0 <=> m.mark \in J!Openers
    OBVIOUS
  <2>2. QED
    BY <1>7, <1>10, <2>1 DEF IsNew, MarkOf
<1>12. m.mark \in J!Openers \cup {"key"} <=> e.kind \in Structures
  BY DEF MarkOf, J!Openers
<1>13. Grown(T, U, ns, os, e, i, i + 2)
  <2>1. i + 2 \in Nat /\ i < i + 2 /\ i + 1 \in i + 1 .. i + 2 - 1
    OBVIOUS
  <2>2. Len(T) + (IF e.key = J!NoKey THEN 1 ELSE 2) = n + 2
    BY <1>5
  <2> DEFINE a == n + 2
  <2>3. a - 1 = n + 1 /\ Len(U) = a
    BY <1>7, <1>10
  <2> HIDE DEF a, s
  <2>4. /\ U[a].type = e.kind /\ U[a].name = J!NoKey /\ U[a].size = 0 /\ U[a].start = i + 2
        /\ U[a].end = 0 <=> e.kind \in Structures
        /\ U[a].parent = a - 1
    BY <1>11, <2>3 DEF a
  <2>5. /\ U[a - 1].type = "string" /\ U[a - 1].name = e.key /\ U[a - 1].size = 1
        /\ U[a - 1].end # 0 /\ U[a - 1].parent = s /\ U[a - 1].start \in i + 1 .. i + 2 - 1
    BY <1>9, <2>1, <2>3
  <2>6. Len(T) + (IF e.key = J!NoKey THEN 1 ELSE 2) = a
    BY <2>2 DEF a
  <2> HIDE DEF n
  <2>7. QED
    BY <1>8, <2>1, <2>3, <2>4, <2>5, <2>6 DEF Grown, s, n
<1>14. Q.super = IF e.kind \in Structures THEN n + 2 ELSE n + 1
  BY <1>7, <1>10, <1>12
<1>15. Q = J!Advance(J!Advance(R, J!Key(e.key), i + 1), m, i + 2) /\ U = Q.tokens /\ n = Len(R.tokens)
       /\ T = R.tokens
  BY DEF Q, U, K, y, T
<1> HIDE DEF n
<1>16. QED
  BY <1>7, <1>13, <1>14, <1>15, Zenon

\* No two nodes or names share a token.
LEMMA PlacesApart ==
  ASSUME NEW ns, NEW N \in Nat
  PROVE  /\ \A n \in 0 .. N : Place(ns, n) \in 0 .. Place(ns, N)
         /\ \A n \in 1 .. N : Place(ns, n) \in 1 .. Place(ns, N)
         /\ \A n \in 1 .. N : ns[n].key # J!NoKey => Place(ns, n) - 1 \in 1 .. Place(ns, N)
         /\ \A m \in 0 .. N, n \in 0 .. N : m # n => Place(ns, m) # Place(ns, n)
         /\ \A m \in 0 .. N, n \in 1 .. N : ns[n].key # J!NoKey => Place(ns, m) # Place(ns, n) - 1
         /\ \A m \in 0 .. N, n \in 0 .. N : m < n => Place(ns, m) < Place(ns, n)
<1>1. \A n \in 0 .. N : Place(ns, n) \in Nat /\ n <= Place(ns, n) /\ Place(ns, n) <= Place(ns, N)
  <2>1. \A n \in 0 .. N : n \in Nat
    OBVIOUS
  <2>2. QED
    BY <2>1, TokenPlace
<1>2. Place(ns, N) \in Nat
  BY TokenPlace
<1>3. \A n \in 1 .. N, m \in 0 .. N : m < n => Place(ns, m) + Wide(ns, n) <= Place(ns, n)
  <2> SUFFICES ASSUME NEW n \in 1 .. N, NEW m \in 0 .. N, m < n
               PROVE  Place(ns, m) + Wide(ns, n) <= Place(ns, n)
    OBVIOUS
  <2>1. n \in Nat /\ m \in 0 .. n - 1
    OBVIOUS
  <2>2. QED
    BY <2>1, TokenOrder
<1>4. \A n : Wide(ns, n) \in {1, 2} /\ (ns[n].key # J!NoKey => Wide(ns, n) = 2)
  BY DEF Wide
<1>5. \A m \in 0 .. N, n \in 0 .. N : m < n => Place(ns, m) < Place(ns, n)
  <2> SUFFICES ASSUME NEW n \in 0 .. N, NEW m \in 0 .. N, m < n PROVE Place(ns, m) < Place(ns, n)
    OBVIOUS
  <2>1. n \in 1 .. N
    OBVIOUS
  <2>2. Place(ns, m) + Wide(ns, n) <= Place(ns, n) /\ Wide(ns, n) \in {1, 2}
    BY <1>3, <1>4, <2>1
  <2>3. QED
    BY <1>1, <2>2
<1>6. \A m \in 0 .. N, n \in 1 .. N : ns[n].key # J!NoKey => Place(ns, m) # Place(ns, n) - 1
  <2> SUFFICES ASSUME NEW n \in 1 .. N, NEW m \in 0 .. N, ns[n].key # J!NoKey
               PROVE  Place(ns, m) # Place(ns, n) - 1
    OBVIOUS
  <2>1. Place(ns, m) \in Nat /\ Place(ns, n) \in Nat
    BY <1>1
  <2>2. CASE m < n
    <3>1. Place(ns, m) + 2 <= Place(ns, n)
      BY <1>3, <1>4, <2>2
    <3>2. QED
      BY <2>1, <3>1
  <2>3. CASE n < m
    <3>1. Place(ns, n) < Place(ns, m)
      BY <1>5, <2>3
    <3>2. QED
      BY <2>1, <3>1
  <2>4. CASE n = m
    BY <2>1, <2>4
  <2>5. QED
    BY <2>2, <2>3, <2>4
<1>7. \A n \in 1 .. N : ns[n].key # J!NoKey => Place(ns, n) - 1 \in 1 .. Place(ns, N)
  <2> SUFFICES ASSUME NEW n \in 1 .. N, ns[n].key # J!NoKey PROVE Place(ns, n) - 1 \in 1 .. Place(ns, N)
    OBVIOUS
  <2>1. 0 \in 0 .. N /\ 0 < n /\ Place(ns, 0) \in Nat
    BY <1>1
  <2>2. Place(ns, 0) + 2 <= Place(ns, n)
    BY <1>3, <1>4, <2>1
  <2>3. Place(ns, n) \in Nat /\ Place(ns, n) <= Place(ns, N)
    BY <1>1
  <2>4. QED
    BY <1>2, <2>1, <2>2, <2>3
<1>8. /\ \A n \in 0 .. N : Place(ns, n) \in 0 .. Place(ns, N)
      /\ \A n \in 1 .. N : Place(ns, n) \in 1 .. Place(ns, N)
  <2>1. \A n \in 1 .. N : n \in 0 .. N /\ 1 <= n
    OBVIOUS
  <2>2. QED
    BY <1>1, <1>2, <2>1
<1>9. \A m \in 0 .. N, n \in 0 .. N : m # n => Place(ns, m) # Place(ns, n)
  <2> SUFFICES ASSUME NEW n \in 0 .. N, NEW m \in 0 .. N, m # n PROVE Place(ns, m) # Place(ns, n)
    OBVIOUS
  <2>1. m < n \/ n < m
    OBVIOUS
  <2>2. Place(ns, m) \in Nat /\ Place(ns, n) \in Nat
    BY <1>1
  <2>3. Place(ns, m) < Place(ns, n) \/ Place(ns, n) < Place(ns, m)
    BY <1>5, <2>1
  <2>4. QED
    BY <2>2, <2>3
<1>10. QED
  BY <1>5, <1>6, <1>7, <1>8, <1>9

\* The members of a node, and one more.
LEMMA KidsGrow ==
  ASSUME NEW ns \in Seq(Nodes), NEW e \in Nodes, NEW n
  PROVE  /\ IsFiniteSet(Kids(ns, n)) /\ Cardinality(Kids(ns, n)) \in Nat
         /\ Cardinality(Kids(Append(ns, e), n))
              = IF n = e.parent THEN Cardinality(Kids(ns, n)) + 1 ELSE Cardinality(Kids(ns, n))
<1> DEFINE N == Len(ns)
           xs == Append(ns, e)
<1>1. /\ N \in Nat /\ DOMAIN ns = 1 .. N /\ DOMAIN xs = 1 .. N + 1
      /\ \A m \in 1 .. N : xs[m] = ns[m]
      /\ xs[N + 1] = e
  BY NodesAre, NodesWith
<1>2. DOMAIN xs = DOMAIN ns \cup {N + 1} /\ N + 1 \notin DOMAIN ns
  BY <1>1
<1> HIDE DEF xs, N
<1>3. Kids(ns, n) \in SUBSET (1 .. N) /\ IsFiniteSet(1 .. N)
  BY <1>1, FS_Interval DEF Kids
<1>4. IsFiniteSet(Kids(ns, n)) /\ Cardinality(Kids(ns, n)) \in Nat
  BY <1>3, FS_Subset, FS_CardinalityType
<1>5. CASE n = e.parent
  <2>1. Kids(xs, n) = Kids(ns, n) \cup {N + 1} /\ N + 1 \notin Kids(ns, n)
    BY <1>1, <1>2, <1>5, Zenon DEF Kids
  <2>2. QED
    BY <1>4, <1>5, <2>1, FS_AddElement DEF xs
<1>6. CASE n # e.parent
  <2>1. Kids(xs, n) = Kids(ns, n)
    BY <1>1, <1>2, <1>6, Zenon DEF Kids
  <2>2. QED
    BY <1>4, <1>6, <2>1 DEF xs
<1>7. QED
  BY <1>5, <1>6

LEMMA CoreTokens ==
  ASSUME NEW R, NEW ns, NEW os, NEW i, Core(R, ns, os, i)
  PROVE  /\ R.tokens \in Seq(Token) /\ Len(R.tokens) \in Nat
         /\ DOMAIN R.tokens = 1 .. Len(R.tokens)
         /\ \A j \in 1 .. Len(R.tokens) : /\ R.tokens[j] \in Token
                                          /\ R.tokens[j].start \in Nat /\ R.tokens[j].end \in Nat
                                          /\ R.tokens[j].size \in Nat /\ R.tokens[j].parent \in Nat
<1>1. R.tokens \in Seq(Token)
  BY DEF Core, ParserStates
<1>2. QED
  BY <1>1, TokensAre, TokenFields

\* The tokens begin one after the other.
LEMMA OrderGrows ==
  ASSUME NEW T \in Seq(Token), NEW U \in Seq(Token), NEW ns, NEW os, NEW e, NEW i \in Nat, NEW l,
         StartsInOrder(T, i), Grown(T, U, ns, os, e, i, l)
  PROVE  StartsInOrder(U, l)
<1> DEFINE n == Len(T)
           a == n + (IF e.key = J!NoKey THEN 1 ELSE 2)
<1>1. /\ n \in Nat /\ DOMAIN T = 1 .. n /\ DOMAIN U = 1 .. a /\ l \in Nat /\ i < l
      /\ \A j \in 1 .. n : U[j].start = T[j].start
      /\ U[a].start = l
      /\ e.key # J!NoKey => U[a - 1].start \in i + 1 .. l - 1
  BY TokensAre DEF Grown, Alike
<1>2. \A j \in 1 .. n : U[j].start \in 1 .. i
  BY <1>1 DEF StartsInOrder
<1>3. \A j \in 1 .. a : j \in 1 .. n \/ j = a \/ (e.key # J!NoKey /\ j = n + 1 /\ j = a - 1)
  BY <1>1
<1> HIDE DEF a, n
<1>4. \A j \in DOMAIN U : U[j].start \in 1 .. l
  <2> SUFFICES ASSUME NEW j \in 1 .. a PROVE U[j].start \in 1 .. l
    BY <1>1
  <2>1. CASE j \in 1 .. n
    <3>1. U[j].start \in 1 .. i
      BY <1>2, <2>1
    <3>2. QED
      BY <1>1, <3>1
  <2>2. CASE j = a
    BY <1>1, <2>2
  <2>3. CASE e.key # J!NoKey /\ j = a - 1
    <3>1. U[j].start \in i + 1 .. l - 1
      BY <1>1, <2>3
    <3>2. QED
      BY <1>1, <3>1
  <2>4. QED
    BY <1>3, <2>1, <2>2, <2>3
<1>5. ASSUME NEW j \in 1 .. a, NEW k \in 1 .. a, j < k PROVE U[j].start < U[k].start
  <2>1. CASE k \in 1 .. n
    <3>1. j \in 1 .. n
      BY <1>1, <1>5, <2>1
    <3>2. T[j].start < T[k].start
      BY <1>1, <1>5, <2>1, <3>1 DEF StartsInOrder
    <3>3. QED
      BY <1>1, <2>1, <3>1, <3>2
  <2>2. CASE e.key # J!NoKey /\ k = n + 1 /\ k = a - 1
    <3>1. j \in 1 .. n
      BY <1>1, <1>5, <2>2
    <3>2. U[j].start \in 1 .. i /\ U[k].start \in i + 1 .. l - 1
      BY <1>1, <1>2, <2>2, <3>1
    <3>3. QED
      BY <1>1, <3>2
  <2>3. CASE k = a
    <3>1. j \in 1 .. n \/ (e.key # J!NoKey /\ j = a - 1)
      <4>1. j # a
        BY <1>5, <2>3
      <4>2. QED
        BY <1>3, <4>1
    <3>2. U[j].start \in 1 .. i \/ U[j].start \in i + 1 .. l - 1
      BY <1>1, <1>2, <3>1
    <3>3. QED
      BY <1>1, <2>3, <3>2
  <2>4. QED
    BY <1>3, <2>1, <2>2, <2>3
<1>6. QED
  BY <1>1, <1>4, <1>5 DEF StartsInOrder

\* The parser goes on with the tree when a node joins it.
LEMMA CoreGrows ==
  ASSUME NEW R, NEW ns, NEW os, NEW i, NEW e, Core(R, ns, os, i), Tree(ns, os), Joins(ns, os, e),
         NEW Q \in ParserStates, NEW l, Grown(R.tokens, Q.tokens, ns, os, e, i, l),
         AtInner(Q, Append(ns, e), Opened(ns, os, e)) \/ AfterName(Q, Append(ns, e), Opened(ns, os, e))
  PROVE  Core(Q, Append(ns, e), Opened(ns, os, e), l)
<1> DEFINE T == R.tokens
           U == Q.tokens
           N == Len(ns)
           xs == Append(ns, e)
           ps == Opened(ns, os, e)
           c == Inner(os)
           s == Place(ns, c)
           a == Len(T) + (IF e.key = J!NoKey THEN 1 ELSE 2)
<1>1. /\ ns \in Seq(Nodes) /\ os \in Seq(Nat) /\ e \in Nodes /\ e.parent = c
      /\ \A k \in DOMAIN os : os[k] \in DOMAIN ns
  BY DEF Tree, Joins, LevelFits
<1>2. /\ N \in Nat /\ DOMAIN ns = 1 .. N /\ Len(xs) = N + 1 /\ DOMAIN xs = 1 .. N + 1
      /\ \A n \in 1 .. N : xs[n] = ns[n]
      /\ xs[N + 1] = e
  BY <1>1, NodesAre, NodesWith
<1>3. \A n \in 1 .. N : ns[n].parent \in 0 .. N /\ ns[n].parent < n
  <2>1. \A n \in 1 .. N : ns[n].parent \in Nat /\ ns[n].parent < n
    BY <1>1, <1>2, NodesAre DEF Tree, NodeFits
  <2>2. QED
    BY <1>2, <2>1
<1>4. c \in 0 .. N /\ (c # 0 => os # <<>> /\ c \in 1 .. N /\ Len(os) \in DOMAIN os /\ c = os[Len(os)])
  <2>1. c \in 0 .. N /\ (os = <<>> => c = 0)
        /\ (os # <<>> => c \in DOMAIN ns /\ c = os[Len(os)] /\ Len(os) \in DOMAIN os)
    BY InnerIs
  <2>2. QED
    BY <1>2, <2>1
<1>5. /\ Len(T) = Place(ns, N) /\ T \in Seq(Token) /\ Len(T) \in Nat /\ DOMAIN T = 1 .. Len(T)
      /\ \A j \in 1 .. Len(T) : T[j].start \in Nat /\ T[j].end \in Nat /\ T[j].size \in Nat
      /\ i \in Nat /\ StartsInOrder(T, i) /\ U \in Seq(Token)
  BY CoreTokens DEF Core, ParserStates
<1>6. /\ \A n \in 1 .. N : NodeToken(T, ns, os, n) /\ (ns[n].key # J!NoKey => NameToken(T, ns, n))
                           /\ Encloses(T, ns, n)
  BY <1>2 DEF Core
<1>7. /\ Len(U) = a
      /\ \A j \in 1 .. Len(T) :
           /\ Alike(U[j], T[j])
           /\ U[j].size = IF j = s THEN T[j].size + 1 ELSE T[j].size
      /\ U[a].type = e.kind /\ U[a].name = J!NoKey /\ U[a].size = 0 /\ U[a].start = l
      /\ U[a].end = 0 <=> e.kind \in Structures
      /\ U[a].parent = IF e.key = J!NoKey THEN s ELSE a - 1
      /\ l \in Nat /\ i < l
      /\ e.key # J!NoKey => /\ U[a - 1].type = "string" /\ U[a - 1].name = e.key /\ U[a - 1].size = 1
                            /\ U[a - 1].end # 0 /\ U[a - 1].parent = s
                            /\ U[a - 1].start \in i + 1 .. l - 1
  BY DEF Grown
<1>8. StartsInOrder(U, l)
  BY <1>5, OrderGrows
<1> HIDE DEF T, U, a, xs, ps, s, c, N
<1>9. /\ \A n \in 0 .. N : Place(xs, n) = Place(ns, n)
      /\ Place(xs, N + 1) = a
  <2>1. ASSUME NEW n \in 0 .. N PROVE Place(xs, n) = Place(ns, n)
    <3>1. n \in Nat /\ \A m \in 1 .. n : xs[m].key = ns[m].key
      <4>1. n \in Nat /\ \A m \in 1 .. n : m \in 1 .. N
        BY <1>2
      <4>2. QED
        BY <1>2, <4>1
    <3>2. QED
      BY <3>1, TokenSame
  <2>2. Place(xs, N + 1) = Place(xs, N) + Wide(xs, N + 1)
    BY <1>2, TokenPlace
  <2>3. Place(xs, N) = Len(T)
    BY <1>2, <1>5, <2>1
  <2>4. QED
    BY <1>2, <2>1, <2>2, <2>3 DEF Wide, a
<1>10. /\ \A n \in 1 .. N : Place(ns, n) \in 1 .. Len(T)
       /\ \A n \in 1 .. N : ns[n].key # J!NoKey => Place(ns, n) - 1 \in 1 .. Len(T) /\ Place(ns, n) - 1 # s
       /\ \A n \in 1 .. N : n # c => Place(ns, n) # s
  <2>1. /\ \A n \in 1 .. N : Place(ns, n) \in 1 .. Len(T)
        /\ \A n \in 1 .. N : ns[n].key # J!NoKey => Place(ns, n) - 1 \in 1 .. Len(T)
    BY <1>2, <1>5, PlacesApart
  <2>2. \A n \in 1 .. N : ns[n].key # J!NoKey => Place(ns, n) - 1 # s
    BY <1>2, <1>4, PlacesApart DEF s
  <2>3. \A n \in 1 .. N : n # c => Place(ns, n) # s
    <3>1. \A n \in 1 .. N : n \in 0 .. N
      BY <1>2
    <3>2. QED
      BY <1>2, <1>4, <3>1, PlacesApart DEF s
  <2>4. QED
    BY <2>1, <2>2, <2>3
<1>11. ASSUME NEW n \in 1 .. N PROVE (\E k \in DOMAIN ps : ps[k] = n) <=> (\E k \in DOMAIN os : os[k] = n)
  <2>1. CASE e.kind \in Structures
    <3>1. ps = Append(os, N + 1)
      BY <2>1 DEF Opened, ps, N
    <3>2. /\ DOMAIN ps = 1 .. Len(os) + 1 /\ DOMAIN os = 1 .. Len(os) /\ Len(os) \in Nat
          /\ \A k \in 1 .. Len(os) : ps[k] = os[k]
          /\ ps[Len(os) + 1] = N + 1
      BY <1>1, <1>2, <3>1
    <3>3. n # N + 1
      BY <1>2
    <3>4. \A k \in DOMAIN ps : ps[k] = n => k \in DOMAIN os
      BY <3>2, <3>3
    <3>5. QED
      BY <3>2, <3>4
  <2>2. CASE e.kind \notin Structures
    BY <2>2 DEF Opened, ps
  <2>3. QED
    BY <2>1, <2>2
<1>12. ASSUME NEW n \in 1 .. N PROVE NodeToken(U, xs, ps, n)
  <2> DEFINE b == Place(ns, n)
             p == ns[n].parent
  <2>1. b \in 1 .. Len(T) /\ Place(xs, n) = b /\ xs[n] = ns[n] /\ Place(xs, p) = Place(ns, p)
    BY <1>2, <1>3, <1>9, <1>10
  <2>2. Alike(U[b], T[b]) /\ U[b].size = IF b = s THEN T[b].size + 1 ELSE T[b].size
    BY <1>7, <2>1
  <2>3. b = s <=> n = c
    BY <1>10 DEF s
  <2>4. Cardinality(Kids(xs, n)) = IF n = c THEN Cardinality(Kids(ns, n)) + 1 ELSE Cardinality(Kids(ns, n))
    BY <1>1, KidsGrow DEF xs
  <2>5. /\ T[b].type = ns[n].kind /\ T[b].name = J!NoKey
        /\ T[b].size = Cardinality(Kids(ns, n))
        /\ T[b].end = 0 <=> \E k \in DOMAIN os : os[k] = n
        /\ T[b].parent = IF ns[n].key = J!NoKey THEN Place(ns, p) ELSE b - 1
    BY <1>6 DEF NodeToken
  <2>6. U[b].size = Cardinality(Kids(xs, n))
    BY <2>2, <2>3, <2>4, <2>5
  <2>7. U[b].end = 0 <=> \E k \in DOMAIN ps : ps[k] = n
    BY <1>11, <2>2, <2>5 DEF Alike
  <2>8. xs[n].parent = p
    BY <2>1
  <2>9. U[b].type = ns[n].kind /\ U[b].name = J!NoKey
    BY <2>2, <2>5 DEF Alike
  <2>10. U[b].parent = IF xs[n].key = J!NoKey THEN Place(xs, xs[n].parent) ELSE b - 1
    BY <2>1, <2>2, <2>5, <2>8 DEF Alike
  <2> HIDE DEF b, p
  <2>11. QED
    BY <2>1, <2>6, <2>7, <2>9, <2>10 DEF NodeToken
<1>13. ASSUME NEW n \in 1 .. N, xs[n].key # J!NoKey PROVE NameToken(U, xs, n)
  <2> DEFINE b == Place(ns, n)
             p == ns[n].parent
  <2>1. /\ b - 1 \in 1 .. Len(T) /\ Place(xs, n) = b /\ xs[n] = ns[n]
        /\ Place(xs, p) = Place(ns, p) /\ b - 1 # s
    BY <1>2, <1>3, <1>9, <1>10, <1>13
  <2>2. Alike(U[b - 1], T[b - 1]) /\ U[b - 1].size = T[b - 1].size
    BY <1>7, <2>1
  <2>3. NameToken(T, ns, n)
    BY <1>6, <1>13, <2>1
  <2> DEFINE d == b - 1
  <2>4. /\ T[d].type = "string" /\ T[d].name = ns[n].key /\ T[d].size = 1 /\ T[d].end # 0
        /\ T[d].parent = Place(ns, p)
    BY <2>3 DEF NameToken
  <2>5. Place(xs, n) - 1 = d /\ xs[n].parent = p /\ Place(xs, xs[n].parent) = Place(ns, p)
    BY <2>1
  <2> HIDE DEF d, p
  <2>6. QED
    BY <2>1, <2>2, <2>4, <2>5 DEF NameToken, Alike, d
<1>14. NodeToken(U, xs, ps, N + 1) /\ (e.key # J!NoKey => NameToken(U, xs, N + 1))
  <2>1. Place(xs, N + 1) = a /\ xs[N + 1] = e /\ Place(xs, e.parent) = s
    BY <1>1, <1>2, <1>4, <1>9 DEF s
  <2>2. Cardinality(Kids(xs, N + 1)) = 0
    <3>1. ASSUME NEW m \in 1 .. N + 1 PROVE xs[m].parent # N + 1
      <4>1. CASE m \in 1 .. N
        <5>1. xs[m].parent \in 0 .. N
          BY <1>2, <1>3, <4>1
        <5>2. QED
          BY <1>2, <5>1
      <4>2. CASE m = N + 1
        <5>1. xs[m].parent = c
          BY <1>1, <1>2, <4>2
        <5>2. QED
          BY <1>2, <1>4, <5>1
      <4>3. QED
        BY <1>2, <4>1, <4>2
    <3>2. Kids(xs, N + 1) = {}
      BY <1>2, <3>1 DEF Kids
    <3>3. QED
      BY <3>2, FS_EmptySet
  <2>3. (\E k \in DOMAIN ps : ps[k] = N + 1) <=> e.kind \in Structures
    <3>1. CASE e.kind \in Structures
      <4>1. ps = Append(os, N + 1)
        BY <3>1 DEF Opened, ps, N
      <4>2. Len(os) + 1 \in DOMAIN ps /\ ps[Len(os) + 1] = N + 1
        BY <1>1, <1>2, <4>1
      <4>3. QED
        BY <3>1, <4>2
    <3>2. CASE e.kind \notin Structures
      <4>1. ps = os
        BY <3>2 DEF Opened, ps
      <4>2. \A k \in DOMAIN os : os[k] # N + 1
        BY <1>1, <1>2
      <4>3. QED
        BY <3>2, <4>1, <4>2
    <3>3. QED
      BY <3>1, <3>2
  <2>4. NodeToken(U, xs, ps, N + 1)
    BY <1>7, <2>1, <2>2, <2>3 DEF NodeToken
  <2>5. e.key # J!NoKey => NameToken(U, xs, N + 1)
    BY <1>7, <2>1 DEF NameToken
  <2>6. QED
    BY <2>4, <2>5
<1>15. ASSUME NEW n \in 1 .. N PROVE Encloses(U, xs, n)
  <2> DEFINE b == Place(ns, n)
             p == ns[n].parent
  <2>1. b \in 1 .. Len(T) /\ Place(xs, n) = b /\ xs[n] = ns[n] /\ Place(xs, p) = Place(ns, p)
    BY <1>2, <1>3, <1>9, <1>10
  <2>2. U[b].start = T[b].start
    BY <1>7, <2>1 DEF Alike
  <2>3. ASSUME p # 0 PROVE U[Place(ns, p)].end = T[Place(ns, p)].end
    <3>1. p \in 1 .. N
      BY <1>2, <1>3, <2>3
    <3>2. Place(ns, p) \in 1 .. Len(T)
      BY <1>10, <3>1
    <3>3. QED
      BY <1>7, <3>2 DEF Alike
  <2>4. Encloses(T, ns, n)
    BY <1>6
  <2>5. xs[n].parent = p
    BY <2>1
  <2>6. p # 0 /\ T[Place(ns, p)].end # 0 => T[b].start < T[Place(ns, p)].end
    BY <2>4 DEF Encloses
  <2> HIDE DEF b, p
  <2>7. QED
    BY <2>1, <2>2, <2>3, <2>5, <2>6 DEF Encloses
<1>16. Encloses(U, xs, N + 1)
  <2>1. xs[N + 1].parent = c /\ Place(xs, c) = s
    BY <1>1, <1>2, <1>4, <1>9 DEF s
  <2>2. ASSUME c # 0 PROVE U[s].end = 0
    <3>1. c \in 1 .. N /\ \E k \in DOMAIN os : os[k] = c
      BY <1>4, <2>2
    <3>2. NodeToken(T, ns, os, c)
      BY <1>6, <3>1
    <3>3. T[s].end = 0
      BY <3>1, <3>2 DEF NodeToken, s
    <3>4. s \in 1 .. Len(T)
      BY <1>10, <3>1 DEF s
    <3>5. QED
      BY <1>7, <3>3, <3>4 DEF Alike
  <2>3. QED
    BY <2>1, <2>2 DEF Encloses
<1>17. ASSUME NEW n \in DOMAIN xs
       PROVE  /\ NodeToken(U, xs, ps, n) /\ Encloses(U, xs, n)
              /\ xs[n].key # J!NoKey => NameToken(U, xs, n)
  <2>1. n \in 1 .. N \/ n = N + 1
    BY <1>2
  <2>2. CASE n \in 1 .. N
    BY <1>12, <1>13, <1>15, <2>2
  <2>3. CASE n = N + 1
    BY <1>2, <1>14, <1>16, <2>3
  <2>4. QED
    BY <2>1, <2>2, <2>3
<1>18. Len(U) = Place(xs, Len(xs)) /\ l \in Nat
  BY <1>2, <1>7, <1>9
<1>19. QED
  BY <1>8, <1>17, <1>18 DEF Core, U, xs, ps

\* The innermost structure has a token, and it is no name.
LEMMA InnerToken ==
  ASSUME NEW R, NEW ns, NEW os, NEW i, Core(R, ns, os, i), Tree(ns, os)
  PROVE  /\ os = <<>> => Inner(os) = 0 /\ Place(ns, Inner(os)) = 0
         /\ os # <<>> => /\ Inner(os) \in 1 .. Len(ns)
                         /\ Place(ns, Inner(os)) \in DOMAIN R.tokens
                         /\ R.tokens[Place(ns, Inner(os))].type \in Structures
<1>1. Len(ns) \in Nat /\ DOMAIN ns = 1 .. Len(ns)
  BY NodesAre DEF Tree
<1>2. CASE os = <<>>
  <2>1. Inner(os) = 0
    BY <1>2 DEF Inner
  <2>2. QED
    BY <1>2, <2>1, TokenPlace
<1>3. CASE os # <<>>
  <2>1. Inner(os) \in 1 .. Len(ns) /\ ns[Inner(os)].kind \in Structures
    BY <1>1, <1>3, InnerIs
  <2>2. Place(ns, Inner(os)) \in DOMAIN R.tokens
    BY <1>1, <2>1, PlacesApart, CoreTokens DEF Core
  <2>3. R.tokens[Place(ns, Inner(os))].type = ns[Inner(os)].kind
    BY <1>1, <2>1 DEF Core, NodeToken
  <2>4. QED
    BY <1>3, <2>1, <2>2, <2>3
<1>4. QED
  BY <1>2, <1>3

CommaMark(m) == m \in Marks /\ m.mark = ","

LEMMA CommaMarkIs == CommaMark(J!Mark(","))
<1>1. J!Mark(",") \in Marks
  BY MarksAre
<1>2. J!Mark(",").mark = ","
  BY DEF J!Mark
<1>3. QED
  BY <1>1, <1>2 DEF CommaMark

\* A comma leaves the tokens as they are.
LEMMA CoreApart ==
  ASSUME NEW R, NEW ns, NEW os, NEW i, Core(R, ns, os, i), Tree(ns, os), NEW m, CommaMark(m)
  PROVE  Core(J!Advance(R, m, i + 1), ns, os, i + 1) /\ AtInner(J!Advance(R, m, i + 1), ns, os)
<1> DEFINE Q == J!Advance(R, m, i + 1)
           s == Place(ns, Inner(os))
<1>0. i \in Nat
  BY DEF Core
<1>1. R \in ParserStates /\ DOMAIN R.tokens = 1 .. Len(R.tokens)
  BY CoreTokens DEF Core
<1>2. /\ s = 0 \/ (s \in DOMAIN R.tokens /\ R.tokens[s].type \in Structures)
      /\ "string" \notin Structures /\ 0 \notin DOMAIN R.tokens
  <2>1. s = 0 \/ (s \in DOMAIN R.tokens /\ R.tokens[s].type \in Structures)
    BY InnerToken
  <2>2. "string" \notin Structures
    BY DEF Structures
  <2>3. 0 \notin DOMAIN R.tokens
    BY <1>1, CoreTokens
  <2>4. QED
    BY <2>1, <2>2, <2>3
<1>3. R.super = s \/ (/\ R.super \in DOMAIN R.tokens /\ R.tokens[R.super].type = "string"
                      /\ R.tokens[R.super].parent = s)
  BY DEF Core, AtInner, AfterName
<1>4. Separates(R, Q)
  BY <1>1, <1>2, <1>3, TokensApart, Zenon DEF CommaMark
<1> HIDE DEF Q, s
<1>5. Q \in ParserStates /\ Q.tokens = R.tokens /\ Q.super = s
  BY <1>2, <1>3, <1>4 DEF Separates
<1>6. AtInner(Q, ns, os)
  BY <1>5 DEF AtInner, s
<1>7. StartsInOrder(Q.tokens, i + 1)
  <2>1. StartsInOrder(R.tokens, i)
    BY DEF Core
  <2>2. \A j \in DOMAIN R.tokens : R.tokens[j].start \in 1 .. i + 1
    <3> SUFFICES ASSUME NEW j \in DOMAIN R.tokens PROVE R.tokens[j].start \in 1 .. i + 1
      OBVIOUS
    <3>1. R.tokens[j].start \in 1 .. i
      BY <2>1 DEF StartsInOrder
    <3>2. QED
      BY <1>0, <3>1
  <2>3. QED
    BY <1>5, <2>1, <2>2 DEF StartsInOrder
<1>8. i + 1 \in Nat
  BY <1>0
<1>9. Core(Q, ns, os, i + 1)
  <2>1. Len(Q.tokens) = Place(ns, Len(ns))
    BY <1>5 DEF Core
  <2>2. \A n \in DOMAIN ns :
          /\ NodeToken(Q.tokens, ns, os, n)
          /\ ns[n].key # J!NoKey => NameToken(Q.tokens, ns, n)
          /\ Encloses(Q.tokens, ns, n)
    BY <1>5 DEF Core
  <2>3. QED
    BY <1>5, <1>6, <1>7, <1>8, <2>1, <2>2 DEF Core
<1>10. QED
  BY <1>6, <1>9 DEF Q

\* A structure that is opened is the innermost.
LEMMA InnerWith ==
  ASSUME NEW os \in Seq(Nat), NEW x \in Nat
  PROVE  Inner(Append(os, x)) = x
<1>1. Len(os) \in Nat /\ Len(Append(os, x)) = Len(os) + 1
  OBVIOUS
<1>2. Append(os, x)[Len(os) + 1] = x
  OBVIOUS
<1>3. Append(os, x) # <<>>
  OBVIOUS
<1>4. QED
  BY <1>1, <1>2, <1>3 DEF Inner

\* The next node with its tokens.
LEMMA CoreItem ==
  ASSUME NEW R, NEW ns, NEW os, NEW i, NEW e, Core(R, ns, os, i), Tree(ns, os), Joins(ns, os, e),
         AtInner(R, ns, os), NEW m, MarkOf(m, e.kind), e.key = J!NoKey
  PROVE  LET Q == J!Advance(R, m, i + 1)
         IN  /\ Core(Q, Append(ns, e), Opened(ns, os, e), i + 1)
             /\ AtInner(Q, Append(ns, e), Opened(ns, os, e))
<1> DEFINE Q == J!Advance(R, m, i + 1)
           xs == Append(ns, e)
           ps == Opened(ns, os, e)
           n == Len(ns)
<1>1. R \in ParserStates /\ i \in Nat /\ Len(R.tokens) = Place(ns, n)
  BY DEF Core
<1>2. /\ Q \in ParserStates
      /\ Grown(R.tokens, Q.tokens, ns, os, e, i, i + 1)
      /\ Q.super = IF e.kind \in Structures THEN Len(R.tokens) + 1 ELSE R.super
  BY <1>1, ItemGrows
<1>3. ns \in Seq(Nodes) /\ os \in Seq(Nat) /\ e \in Nodes
  BY DEF Tree, Joins
<1>4. /\ n \in Nat /\ DOMAIN ns = 1 .. n /\ xs[n + 1] = e
      /\ \A k \in 1 .. n : xs[k] = ns[k]
  BY <1>3, NodesAre, NodesWith
<1>5. Place(xs, n) = Place(ns, n) /\ Place(xs, n + 1) = Place(ns, n) + 1
  <2>1. Place(xs, n) = Place(ns, n)
    BY <1>4, TokenSame
  <2>2. QED
    BY <1>3, <1>4, <2>1, TokenPlace DEF Wide
<1> HIDE DEF Q
<1>6. AtInner(Q, xs, ps)
  <2>1. CASE e.kind \in Structures
    <3>1. ps = Append(os, n + 1) /\ Inner(ps) = n + 1
      <4>1. ps = Append(os, n + 1)
        BY <2>1 DEF Opened
      <4>2. os \in Seq(Nat) /\ n + 1 \in Nat
        BY <1>3, <1>4
      <4>3. QED
        BY <4>1, <4>2, InnerWith
    <3>2. QED
      BY <1>1, <1>2, <1>5, <2>1, <3>1 DEF AtInner
  <2>2. CASE e.kind \notin Structures
    <3>1. ps = os
      BY <2>2 DEF Opened
    <3>2. Inner(os) \in 0 .. n
      BY InnerIs
    <3>3. Place(xs, Inner(os)) = Place(ns, Inner(os))
      <4>1. \A k \in 1 .. Inner(os) : ns[k].key = xs[k].key
        BY <1>4, <3>2
      <4>2. Inner(os) \in Nat
        BY <1>4, <3>2
      <4>3. QED
        BY <4>1, <4>2, TokenSame
    <3>4. QED
      BY <1>2, <2>2, <3>1, <3>3 DEF AtInner
  <2>3. QED
    BY <2>1, <2>2
<1>7. Core(Q, xs, ps, i + 1)
  BY <1>2, <1>6, CoreGrows
<1>8. QED
  BY <1>6, <1>7 DEF Q

\* A name, and then a value or a bracket.
LEMMA CoreNamed ==
  ASSUME NEW R, NEW ns, NEW os, NEW i, NEW e, Core(R, ns, os, i), Tree(ns, os), Joins(ns, os, e),
         AtInner(R, ns, os), NEW m, MarkOf(m, e.kind), e.key # J!NoKey
  PROVE  LET Q == J!Advance(J!Advance(R, J!Key(e.key), i + 1), m, i + 2)
         IN  /\ Core(Q, Append(ns, e), Opened(ns, os, e), i + 2)
             /\ e.kind \in Structures => AtInner(Q, Append(ns, e), Opened(ns, os, e))
<1> DEFINE Q == J!Advance(J!Advance(R, J!Key(e.key), i + 1), m, i + 2)
           xs == Append(ns, e)
           ps == Opened(ns, os, e)
           n == Len(ns)
           s == Place(ns, Inner(os))
<1>1. R \in ParserStates /\ i \in Nat /\ Len(R.tokens) = Place(ns, n) /\ Len(R.tokens) \in Nat
  BY CoreTokens DEF Core
<1>2. ns \in Seq(Nodes) /\ os \in Seq(Nat) /\ e \in Nodes
  BY DEF Tree, Joins
<1>3. /\ n \in Nat /\ DOMAIN ns = 1 .. n /\ xs[n + 1] = e
      /\ \A k \in 1 .. n : xs[k] = ns[k]
  BY <1>2, NodesAre, NodesWith
<1>4. Inner(os) \in 0 .. n /\ s \in 0 .. Len(R.tokens)
  <2>1. Inner(os) \in 0 .. n
    BY InnerIs
  <2>2. QED
    BY <1>1, <1>3, <2>1, PlacesApart
<1>5. e.key \in Members
  BY <1>2 DEF Nodes
<1>6. /\ Q \in ParserStates
      /\ Grown(R.tokens, Q.tokens, ns, os, e, i, i + 2)
      /\ Q.super = IF e.kind \in Structures THEN Len(R.tokens) + 2 ELSE Len(R.tokens) + 1
  <2>1. R \in ParserStates /\ i \in Nat /\ s \in 0 .. Len(R.tokens)
    BY <1>1, <1>4
  <2>2. QED
    BY <1>5, <2>1, NamedGrows
<1>7. Place(xs, n) = Place(ns, n) /\ Place(xs, n + 1) = Place(ns, n) + 2
  <2>1. Place(xs, n) = Place(ns, n)
    BY <1>3, TokenSame
  <2>2. Place(xs, n + 1) = Place(xs, n) + Wide(xs, n + 1)
    BY <1>3, TokenPlace
  <2>3. Wide(xs, n + 1) = 2
    BY <1>3 DEF Wide
  <2>4. QED
    BY <2>1, <2>2, <2>3
<1>8. Place(xs, Inner(os)) = s
  <2>1. \A k \in 1 .. Inner(os) : ns[k].key = xs[k].key
    BY <1>3, <1>4
  <2>2. Inner(os) \in Nat
    BY <1>3, <1>4
  <2>3. QED
    BY <2>1, <2>2, TokenSame
<1> HIDE DEF Q, s, xs
<1>9. e.kind \in Structures => AtInner(Q, xs, ps)
  <2> SUFFICES ASSUME e.kind \in Structures PROVE AtInner(Q, xs, ps)
    OBVIOUS
  <2>1. ps = Append(os, n + 1)
    BY DEF Opened
  <2>2. os \in Seq(Nat) /\ n + 1 \in Nat
    BY <1>2, <1>3
  <2>3. Inner(ps) = n + 1
    BY <2>1, <2>2, InnerWith
  <2>4. QED
    BY <1>1, <1>6, <1>7, <2>3 DEF AtInner
<1>10. e.kind \notin Structures => AfterName(Q, xs, ps)
  <2> SUFFICES ASSUME e.kind \notin Structures PROVE AfterName(Q, xs, ps)
    OBVIOUS
  <2>1. ps = os
    BY DEF Opened
  <2> DEFINE a == Len(R.tokens) + 2
             U == Q.tokens
  <2>2. /\ Len(U) = a /\ U[a - 1].type = "string" /\ U[a - 1].parent = s
    BY <1>5, <1>6 DEF Grown, s
  <2>3. Q.super = a - 1 /\ a - 1 \in 1 .. Len(U)
    BY <1>1, <1>6, <2>2
  <2>4. DOMAIN U = 1 .. Len(U)
    BY <1>6, TokensAre DEF ParserStates
  <2>5. QED
    BY <1>8, <2>1, <2>2, <2>3, <2>4 DEF AfterName
<1>11. Core(Q, xs, ps, i + 2)
  BY <1>6, <1>9, <1>10, CoreGrows DEF xs
<1>12. QED
  BY <1>9, <1>11 DEF Q, xs

CloserMark(m) == m \in Marks /\ m.mark \in J!Closers

\* A bracket that closes the innermost structure.
LEMMA CoreCloses ==
  ASSUME NEW R, NEW ns, NEW os, NEW i, Core(R, ns, os, i), Tree(ns, os), os # <<>>,
         NEW m, CloserMark(m)
  PROVE  Core(J!Advance(R, m, i + 1), ns, Outer(os), i + 1)
<1> DEFINE T == R.tokens
           Q == J!Advance(R, m, i + 1)
           U == Q.tokens
           N == Len(ns)
           L == Len(os)
           c == Inner(os)
           p == Place(ns, c)
           ps == Outer(os)
<1>1. ns \in Seq(Nodes) /\ os \in Seq(Nat)
  BY DEF Tree
<1>2. /\ N \in Nat /\ DOMAIN ns = 1 .. N
      /\ \A n \in 1 .. N : ns[n].parent \in Nat
  BY <1>1, NodesAre
<1>3. /\ L \in Nat /\ L >= 1 /\ DOMAIN os = 1 .. L /\ DOMAIN ps = 1 .. L - 1
      /\ \A k \in 1 .. L - 1 : ps[k] = os[k]
  BY <1>1, OuterIs
<1>4. c \in 1 .. N /\ c = os[L]
  BY <1>2, InnerIs
<1>5. /\ i \in Nat /\ R \in ParserStates
  BY DEF Core
<1>6. DOMAIN T = 1 .. Len(T) /\ Len(T) = Place(ns, N)
  BY CoreTokens DEF Core
<1>7. \A k \in 1 .. L - 1 : os[k] < c
  <2>1. LevelFits(ns, os, L)
    BY <1>3 DEF Tree
  <2>2. \A k \in DOMAIN os : k < L => os[k] < os[L]
    BY <2>1 DEF LevelFits
  <2>3. QED
    BY <1>3, <1>4, <2>2
<1>8. \A n \in 1 .. N : (\E k \in DOMAIN ps : ps[k] = n) <=> (n # c /\ \E k \in DOMAIN os : os[k] = n)
  <2> SUFFICES ASSUME NEW n \in 1 .. N
               PROVE  (\E k \in DOMAIN ps : ps[k] = n) <=> (n # c /\ \E k \in DOMAIN os : os[k] = n)
    OBVIOUS
  <2>1. ASSUME NEW k \in DOMAIN ps, ps[k] = n PROVE n # c /\ \E l \in DOMAIN os : os[l] = n
    <3>1. k \in 1 .. L - 1 /\ k \in 1 .. L
      BY <1>3
    <3>2. os[k] = n /\ os[k] < c
      BY <1>3, <1>7, <2>1, <3>1
    <3>3. n # c
      BY <1>2, <1>4, <3>2
    <3>4. QED
      BY <1>3, <3>1, <3>2, <3>3
  <2>2. ASSUME n # c, NEW k \in DOMAIN os, os[k] = n PROVE \E l \in DOMAIN ps : ps[l] = n
    <3>1. k # L /\ k \in 1 .. L
      BY <1>3, <1>4, <2>2
    <3>2. k \in 1 .. L - 1
      BY <1>3, <3>1
    <3>3. QED
      BY <1>3, <2>2, <3>2
  <2>3. QED
    BY <2>1, <2>2
<1>9. \A n \in 1 .. N : /\ NodeToken(T, ns, os, n)
                        /\ ns[n].key # J!NoKey => NameToken(T, ns, n)
                        /\ Encloses(T, ns, n)
  BY <1>2 DEF Core
<1>10. /\ p \in DOMAIN T
       /\ \A n \in 1 .. N : Place(ns, n) \in DOMAIN T
       /\ \A n \in 1 .. N : ns[n].key # J!NoKey => Place(ns, n) - 1 \in DOMAIN T
       /\ \A n \in 1 .. N : n # c => Place(ns, n) # p
       /\ \A n \in 1 .. N : ns[n].key # J!NoKey => Place(ns, n) - 1 # p
       /\ \A n \in 1 .. N : n < c => Place(ns, n) < p
  <2>1. c \in 0 .. N /\ (\A n \in 1 .. N : n \in 0 .. N)
    BY <1>2, <1>4
  <2>2. QED
    BY <1>2, <1>4, <1>6, <2>1, PlacesApart
<1>11. T[p].end = 0
  <2>1. L \in DOMAIN os /\ os[L] = c
    BY <1>3, <1>4
  <2>2. QED
    BY <1>4, <1>9, <2>1 DEF NodeToken
<1>12. \A j \in DOMAIN T : T[j].end = 0 => j <= p
  <2> SUFFICES ASSUME NEW j \in DOMAIN T, T[j].end = 0 PROVE j <= p
    OBVIOUS
  <2>1. PICK n \in 1 .. N : j = Place(ns, n) \/ (ns[n].key # J!NoKey /\ j = Place(ns, n) - 1)
    BY <1>2, <1>6, TokenOfNode
  <2>2. CASE j = Place(ns, n)
    <3>1. PICK k \in DOMAIN os : os[k] = n
      BY <1>9, <2>2 DEF NodeToken
    <3>2. n = c \/ n < c
      BY <1>3, <1>4, <1>7, <3>1
    <3>3. j \in Nat /\ p \in Nat
      BY <1>6, <1>10
    <3>4. QED
      BY <1>10, <2>2, <3>2, <3>3
  <2>3. CASE ns[n].key # J!NoKey /\ j = Place(ns, n) - 1
    BY <1>9, <2>3 DEF NameToken
  <2>4. QED
    BY <2>1, <2>2, <2>3
<1>13. i + 1 \in Nat /\ i + 1 # 0
  BY <1>5
<1>14. Closes(R, Q, p, i + 1)
  BY <1>5, <1>10, <1>11, <1>12, <1>13, TokenClosed DEF CloserMark
<1> HIDE DEF Q, p, ps, c
<1>15. /\ Q \in ParserStates /\ Len(U) = Len(T) /\ Q.super = T[p].parent
       /\ \A j \in DOMAIN T :
            /\ U[j].type = T[j].type /\ U[j].name = T[j].name
            /\ U[j].start = T[j].start /\ U[j].size = T[j].size
            /\ U[j].parent = T[j].parent
            /\ U[j].end = IF j = p THEN i + 1 ELSE T[j].end
  BY <1>6, <1>14 DEF Closes
<1>16. DOMAIN U = DOMAIN T
  BY <1>6, <1>15, TokensAre DEF ParserStates
<1> HIDE DEF T, U
<1>17. ASSUME NEW n \in 1 .. N PROVE NodeToken(U, ns, ps, n)
  <2>1. NodeToken(T, ns, os, n) /\ Place(ns, n) \in DOMAIN T
    BY <1>9, <1>10
  <2>2. U[Place(ns, n)].end = 0 <=> \E k \in DOMAIN ps : ps[k] = n
    <3>1. CASE n = c
      <4>1. Place(ns, n) = p
        BY <3>1 DEF p
      <4>2. U[p].end = i + 1
        BY <1>10, <1>15
      <4>3. QED
        BY <1>8, <1>13, <3>1, <4>1, <4>2
    <3>2. CASE n # c
      <4>1. U[Place(ns, n)].end = T[Place(ns, n)].end
        BY <1>10, <1>15, <2>1, <3>2
      <4>2. QED
        BY <1>8, <2>1, <3>2, <4>1 DEF NodeToken
    <3>3. QED
      BY <3>1, <3>2
  <2>3. /\ U[Place(ns, n)].type = T[Place(ns, n)].type /\ U[Place(ns, n)].name = T[Place(ns, n)].name
        /\ U[Place(ns, n)].size = T[Place(ns, n)].size /\ U[Place(ns, n)].parent = T[Place(ns, n)].parent
    BY <1>15, <2>1
  <2>4. QED
    BY <2>1, <2>2, <2>3 DEF NodeToken
<1>18. ASSUME NEW n \in 1 .. N, ns[n].key # J!NoKey PROVE NameToken(U, ns, n)
  <2> DEFINE j == Place(ns, n) - 1
  <2>1. NameToken(T, ns, n) /\ j \in DOMAIN T /\ j # p
    BY <1>9, <1>10, <1>18
  <2>2. /\ U[j].type = T[j].type /\ U[j].name = T[j].name /\ U[j].size = T[j].size
        /\ U[j].parent = T[j].parent /\ U[j].end = T[j].end
    BY <1>15, <2>1
  <2>3. QED
    BY <2>1, <2>2 DEF NameToken
<1>19. StartsInOrder(T, i)
  BY DEF Core, T
<1>20. ASSUME NEW n \in 1 .. N PROVE Encloses(U, ns, n)
  <2> DEFINE q == ns[n].parent
  <2> SUFFICES ASSUME q # 0, U[Place(ns, q)].end # 0
               PROVE  U[Place(ns, n)].start < U[Place(ns, q)].end
    BY DEF Encloses
  <2>1. q \in 1 .. N
    <3>1. NodeFits(ns, n) /\ n \in Nat
      BY <1>2 DEF Tree
    <3>2. q < n /\ q \in Nat
      BY <1>2, <3>1 DEF NodeFits
    <3>3. QED
      BY <1>2, <3>2
  <2>2. U[Place(ns, n)].start = T[Place(ns, n)].start /\ T[Place(ns, n)].start \in 1 .. i
    <3>1. Place(ns, n) \in DOMAIN T
      BY <1>10
    <3>2. QED
      BY <1>15, <1>19, <3>1 DEF StartsInOrder
  <2>3. CASE q = c
    <3>1. U[Place(ns, q)].end = i + 1
      BY <1>10, <1>15, <2>3 DEF p
    <3>2. QED
      BY <1>5, <2>2, <3>1
  <2>4. CASE q # c
    <3>1. U[Place(ns, q)].end = T[Place(ns, q)].end
      BY <1>10, <1>15, <2>1, <2>4
    <3>2. T[Place(ns, n)].start < T[Place(ns, q)].end
      BY <1>9, <2>1, <3>1 DEF Encloses
    <3>3. QED
      BY <2>2, <3>1, <3>2
  <2>5. QED
    BY <2>3, <2>4
<1>21. StartsInOrder(U, i + 1)
  <2>1. ASSUME NEW j \in DOMAIN U PROVE U[j].start \in 1 .. i + 1
    <3>1. U[j].start = T[j].start /\ T[j].start \in 1 .. i
      BY <1>15, <1>16, <1>19 DEF StartsInOrder
    <3>2. QED
      BY <1>5, <3>1
  <2>2. ASSUME NEW j \in DOMAIN U, NEW k \in DOMAIN U, j < k PROVE U[j].start < U[k].start
    BY <1>15, <1>16, <1>19, <2>2 DEF StartsInOrder
  <2>3. QED
    BY <2>1, <2>2 DEF StartsInOrder
<1>22. AtInner(Q, ns, ps) \/ AfterName(Q, ns, ps)
  <2>1. Inner(ps) = ns[c].parent
    BY TreeCloses DEF ps, c
  <2>2. NodeToken(T, ns, os, c) /\ (ns[c].key # J!NoKey => NameToken(T, ns, c) /\ p - 1 \in DOMAIN T)
    BY <1>4, <1>9, <1>10 DEF p
  <2>3. CASE ns[c].key = J!NoKey
    <3>1. T[p].parent = Place(ns, ns[c].parent)
      BY <2>2, <2>3 DEF NodeToken, p
    <3>2. QED
      BY <1>15, <2>1, <3>1 DEF AtInner
  <2>4. CASE ns[c].key # J!NoKey
    <3>1. T[p].parent = p - 1
      BY <2>2, <2>4 DEF NodeToken, p
    <3>2. T[p - 1].type = "string" /\ T[p - 1].parent = Place(ns, ns[c].parent)
      BY <2>2, <2>4 DEF NameToken, p
    <3>3. U[p - 1].type = "string" /\ U[p - 1].parent = Place(ns, ns[c].parent) /\ p - 1 \in DOMAIN U
      BY <1>15, <1>16, <2>2, <2>4, <3>2
    <3>4. QED
      BY <1>15, <2>1, <3>1, <3>3 DEF AfterName, U
  <2>5. QED
    BY <2>3, <2>4
<1>23. Len(Q.tokens) = Place(ns, Len(ns))
  BY <1>6, <1>15 DEF T, U
<1>24. \A n \in DOMAIN ns :
         /\ NodeToken(U, ns, ps, n)
         /\ ns[n].key # J!NoKey => NameToken(U, ns, n)
         /\ Encloses(U, ns, n)
  BY <1>2, <1>17, <1>18, <1>20
<1>25. QED
  BY <1>13, <1>15, <1>21, <1>22, <1>23, <1>24 DEF Core, U, Q, ps

-----------------------------------------------------------------------------
(***************************************************************************)
(* A text that is read as a tree. Reads holds of the text of an encoder    *)
(* and its nodes; adding a member to both, with its comma and its key, and *)
(* closing the innermost structure keep it so.                             *)
(***************************************************************************)
\* What the parser makes of a text is the tree of nodes, with some still open.
Fresh(t) == t = <<>> \/ t[Len(t)].mark \in J!Openers
Reads(t, ns, os) ==
  /\ t \in Seq(Marks) /\ Tree(ns, os)
  /\ Core(J!Parsed(t), ns, os, Len(t))
  /\ Fresh(t) => AtInner(J!Parsed(t), ns, os)

\* The text with a comma, where one is needed, and with the next member.
Commas(t) == IF Fresh(t) THEN t ELSE Append(t, J!Mark(","))
Written(t, key, m) ==
  IF key = J!NoKey THEN Append(Commas(t), m) ELSE Append(Append(Commas(t), J!Key(key)), m)

LEMMA TextWith ==
  ASSUME NEW t \in Seq(Marks), NEW m \in Marks
  PROVE  /\ Append(t, m) \in Seq(Marks) /\ Len(t) \in Nat /\ Len(Append(t, m)) = Len(t) + 1
         /\ Append(t, m) # <<>> /\ Append(t, m)[Len(t) + 1] = m
         /\ DOMAIN t = 1 .. Len(t) /\ DOMAIN Append(t, m) = 1 .. Len(t) + 1
         /\ \A j \in 1 .. Len(t) : Append(t, m)[j] = t[j]
OBVIOUS

\* No text is no tree.
LEMMA ReadsNothing == Reads(<<>>, <<>>, <<>>)
<1>1. <<>> \in Seq(Marks) /\ Len(<<>>) = 0 /\ <<>> \in Seq(Nodes) /\ <<>> \in Seq(Nat) /\ DOMAIN <<>> = {}
  OBVIOUS
<1>2. Tree(<<>>, <<>>)
  BY <1>1, Zenon DEF Tree
<1>3. QED
  BY <1>1, <1>2, CoreStarts, ParsedIs, Zenon DEF Reads

\* A comma may follow what is complete.
LEMMA ReadsApart ==
  ASSUME NEW t, NEW ns, NEW os, Reads(t, ns, os)
  PROVE  /\ Commas(t) \in Seq(Marks)
         /\ Core(J!Parsed(Commas(t)), ns, os, Len(Commas(t)))
         /\ AtInner(J!Parsed(Commas(t)), ns, os)
<1>1. t \in Seq(Marks) /\ Tree(ns, os) /\ Core(J!Parsed(t), ns, os, Len(t))
  BY DEF Reads
<1>2. CASE Fresh(t)
  BY <1>1, <1>2, Zenon DEF Reads, Commas
<1>3. CASE ~ Fresh(t)
  <2> DEFINE m == J!Mark(",")
  <2>1. CommaMark(m) /\ m \in Marks
    BY CommaMarkIs DEF CommaMark
  <2>2. Commas(t) = Append(t, m)
    BY <1>3 DEF Commas
  <2> HIDE DEF m
  <2>3. J!Parsed(Append(t, m)) = J!Advance(J!Parsed(t), m, Len(t) + 1)
    BY <1>1, <2>1, ParsedIs
  <2>4. Append(t, m) \in Seq(Marks) /\ Len(Append(t, m)) = Len(t) + 1
    BY <1>1, <2>1, TextWith
  <2>5. /\ Core(J!Advance(J!Parsed(t), m, Len(t) + 1), ns, os, Len(t) + 1)
        /\ AtInner(J!Advance(J!Parsed(t), m, Len(t) + 1), ns, os)
    BY <1>1, <2>1, CoreApart
  <2>6. QED
    BY <2>2, <2>3, <2>4, <2>5
<1>4. QED
  BY <1>2, <1>3

\* The next member, in the text and in the tree.
LEMMA ReadsGrow ==
  ASSUME NEW t, NEW ns, NEW os, Reads(t, ns, os), NEW e, Joins(ns, os, e), NEW m, MarkOf(m, e.kind)
  PROVE  Reads(Written(t, e.key, m), Append(ns, e), Opened(ns, os, e))
<1> DEFINE c == Commas(t)
           i == Len(c)
           xs == Append(ns, e)
           ps == Opened(ns, os, e)
<1>1. c \in Seq(Marks) /\ Core(J!Parsed(c), ns, os, i) /\ AtInner(J!Parsed(c), ns, os)
  BY ReadsApart
<1>2. Tree(ns, os) /\ Tree(xs, ps)
  BY TreeGrows DEF Reads
<1>3. m \in Marks /\ (m.mark \in J!Openers <=> e.kind \in Structures)
  BY DEF MarkOf
<1> HIDE DEF c, xs, ps
<1>4. CASE e.key = J!NoKey
  <2> DEFINE u == Append(c, m)
  <2>1. Written(t, e.key, m) = u
    BY <1>4 DEF Written, c
  <2>2. u \in Seq(Marks) /\ Len(u) = i + 1
    BY <1>1, <1>3, TextWith
  <2>3. J!Parsed(u) = J!Advance(J!Parsed(c), m, i + 1)
    BY <1>1, <1>3, ParsedIs
  <2>4. /\ Core(J!Advance(J!Parsed(c), m, i + 1), xs, ps, i + 1)
        /\ AtInner(J!Advance(J!Parsed(c), m, i + 1), xs, ps)
    BY <1>1, <1>2, <1>4, CoreItem DEF xs, ps
  <2> HIDE DEF u, i
  <2>5. Reads(u, xs, ps)
    BY <1>2, <2>2, <2>3, <2>4 DEF Reads
  <2>6. QED
    BY <2>1, <2>5 DEF xs, ps
<1>5. CASE e.key # J!NoKey
  <2> DEFINE k == J!Key(e.key)
             v == Append(c, k)
             u == Append(v, m)
  <2>1. Written(t, e.key, m) = u
    BY <1>5 DEF Written, c
  <2>2. k \in Marks
    <3>1. e.key \in Members \cup {J!NoKey}
      BY DEF Joins, Nodes
    <3>2. QED
      BY <3>1, MarksAre
  <2> HIDE DEF k
  <2>3. v \in Seq(Marks) /\ Len(v) = i + 1 /\ i \in Nat
    BY <1>1, <2>2, TextWith
  <2>4. J!Parsed(v) = J!Advance(J!Parsed(c), k, i + 1)
    BY <1>1, <2>2, ParsedIs
  <2> HIDE DEF v, i
  <2>5. u \in Seq(Marks) /\ Len(u) = i + 1 + 1 /\ u[i + 1 + 1] = m
    BY <1>3, <2>3, TextWith
  <2>6. J!Parsed(u) = J!Advance(J!Advance(J!Parsed(c), k, i + 1), m, i + 1 + 1)
    BY <1>3, <2>3, <2>4, ParsedIs
  <2>7. i + 1 + 1 = i + 2
    BY <2>3
  <2>8. LET Q == J!Advance(J!Advance(J!Parsed(c), k, i + 1), m, i + 2)
        IN  /\ Core(Q, xs, ps, i + 2)
            /\ e.kind \in Structures => AtInner(Q, xs, ps)
    BY <1>1, <1>2, <1>5, CoreNamed DEF xs, ps, k, i
  <2> HIDE DEF u
  <2>9. u # <<>> /\ u[Len(u)] = m
    BY <2>3, <2>5
  <2>10. Reads(u, xs, ps)
    BY <1>2, <1>3, <2>5, <2>6, <2>7, <2>8, <2>9 DEF Reads, Fresh
  <2>11. QED
    BY <2>1, <2>10 DEF xs, ps
<1>6. QED
  BY <1>4, <1>5

\* The innermost structure is closed, in the text and in the tree.
LEMMA ReadsClosed ==
  ASSUME NEW t, NEW ns, NEW os, Reads(t, ns, os), os # <<>>, NEW m, CloserMark(m)
  PROVE  Reads(Append(t, m), ns, Outer(os))
<1>1. t \in Seq(Marks) /\ m \in Marks /\ Tree(ns, os)
  BY DEF Reads, CloserMark
<1> DEFINE u == Append(t, m)
<1>2. u \in Seq(Marks) /\ Len(u) = Len(t) + 1 /\ u # <<>> /\ u[Len(t) + 1] = m
  BY <1>1, TextWith
<1>3. J!Parsed(u) = J!Advance(J!Parsed(t), m, Len(t) + 1)
  BY <1>1, ParsedIs
<1>4. Core(J!Advance(J!Parsed(t), m, Len(t) + 1), ns, Outer(os), Len(t) + 1)
  BY <1>1, CoreCloses DEF Reads
<1>5. Tree(ns, Outer(os))
  BY <1>1, TreeCloses
<1>6. m.mark \notin J!Openers
  BY DEF CloserMark, J!Openers, J!Closers
<1> HIDE DEF u
<1>7. ~ Fresh(u)
  BY <1>2, <1>6 DEF Fresh
<1>8. Reads(u, ns, Outer(os))
  BY <1>2, <1>3, <1>4, <1>5, <1>7 DEF Reads
<1>9. QED
  BY <1>8 DEF u

LEMMA EncoderFields ==
  \A t, ss : [text |-> t, structs |-> ss].text = t /\ [text |-> t, structs |-> ss].structs = ss
OBVIOUS

LEMMA CommaWritten ==
  ASSUME NEW t \in Seq(Marks), NEW ss
  PROVE  J!Comma([text |-> t, structs |-> ss]) = [text |-> Commas(t), structs |-> ss]
<1> DEFINE e == [text |-> t, structs |-> ss]
<1>1. e.text = t
  BY EncoderFields, Zenon
<1>2. J!Put(e, J!Mark(",")) = [text |-> Append(t, J!Mark(",")), structs |-> ss]
  BY PutIs, Zenon
<1>3. (e.text = <<>> \/ J!Last(e.text).mark \in J!Openers) <=> Fresh(t)
  BY <1>1, Zenon DEF Fresh, J!Last
<1>4. CASE Fresh(t)
  BY <1>3, <1>4, Zenon DEF J!Comma, Commas
<1>5. CASE ~ Fresh(t)
  BY <1>2, <1>3, <1>5, Zenon DEF J!Comma, Commas
<1>6. QED
  BY <1>4, <1>5

\* With a key that does not begin an object of its own.
KeyWritten(t, key) == IF key = J!NoKey THEN Commas(t) ELSE Append(Commas(t), J!Key(key))

\* What the encoder writes for a key.
LEMMA EncodedKey ==
  ASSUME NEW t \in Seq(Marks), NEW ss, NEW key,
         ~ J!NeedsParent([text |-> t, structs |-> ss], key),
         key # J!NoKey \/ ~ J!InObject([text |-> t, structs |-> ss])
  PROVE  J!EncodeKey([text |-> t, structs |-> ss], key) = [text |-> KeyWritten(t, key), structs |-> ss]
<1> DEFINE e == [text |-> t, structs |-> ss]
           c == Commas(t)
<1>1. J!WithParent(e, key) = e
  BY Zenon DEF J!WithParent
<1>2. J!Comma(e) = [text |-> c, structs |-> ss]
  BY CommaWritten, Zenon
<1>3. J!Put([text |-> c, structs |-> ss], J!Key(key)) = [text |-> Append(c, J!Key(key)), structs |-> ss]
  BY PutIs, Zenon
<1> HIDE DEF c
<1>4. CASE key # J!NoKey
  BY <1>1, <1>2, <1>3, <1>4, Zenon DEF J!EncodeKey, KeyWritten, c
<1>5. CASE key = J!NoKey
  BY <1>1, <1>2, <1>5, Zenon DEF J!EncodeKey, KeyWritten, c
<1>6. QED
  BY <1>4, <1>5

\* Members of objects are named, and nothing else.
LEMMA KeyHere ==
  ASSUME JsonInv, MemberBounds, j_cur # <<>>, NEW key \in J!KeysHere
  PROVE  /\ key # J!NoKey <=> J!KindOf(J!Current) = "object"
         /\ key # J!NoKey \/ ~ J!InObject(J!Encoder)
         /\ key \in Members \cup {J!NoKey}
<1>1. J!KindOf(J!Current) \in Structures /\ J!Last(structs) = {J!KindOf(J!Current)}
  BY OpenIs
<1>2. J!InObject(J!Encoder) => J!KindOf(J!Current) = "object"
  BY <1>1, EncoderFields DEF J!InObject, J!Encoder
<1>3. CASE J!KindOf(J!Current) = "object"
  <2>1. J!KeysHere = Members \ J!Taken
    BY <1>3 DEF J!KeysHere
  <2>2. key # J!NoKey
    BY <2>1 DEF MemberBounds
  <2>3. QED
    BY <1>3, <2>2, NoParent
<1>4. CASE J!KindOf(J!Current) = "array"
  BY <1>2, <1>4, NoParent DEF J!KeysHere
<1>5. QED
  BY <1>1, <1>3, <1>4 DEF Structures

\* What app_json_encode_struct_start writes.
LEMMA StartWritten ==
  ASSUME JsonInv, MemberBounds, j_cur # <<>>, NEW key \in J!KeysHere, NEW s \in Structures,
         J!Becomes(J!StructStart(J!Encoder, key, s))
  PROVE  text' = Written(text, key, J!Opening(s))
<1> DEFINE k == KeyWritten(text, key)
           m == J!Opening(s)
<1>1. J!EncodeKey([text |-> text, structs |-> structs], key) = [text |-> k, structs |-> structs]
  <2>1. ~ J!NeedsParent(J!Encoder, key)
    BY NoParent
  <2>2. key # J!NoKey \/ ~ J!InObject(J!Encoder)
    BY KeyHere
  <2>3. text \in Seq(Marks)
    BY DEF JsonInv, JsonTypes
  <2>4. QED
    BY <2>1, <2>2, <2>3, EncodedKey, Zenon DEF J!Encoder
<1>2. J!EncodeKey([text |-> text, structs |-> structs], key).text = k
  BY <1>1, EncoderFields, Zenon
<1> HIDE DEF k, m
<1>3. J!StructStart([text |-> text, structs |-> structs], key, s).text = Append(k, m)
  BY <1>2 DEF J!StructStart, m
<1>4. text' = Append(k, m)
  BY <1>3, Zenon DEF J!Becomes, J!Encoder
<1>5. QED
  BY <1>4, Zenon DEF k, m, KeyWritten, Written

\* What a value is written as.
LEMMA ValueWritten ==
  ASSUME JsonInv, MemberBounds, j_cur # <<>>, NEW key \in J!KeysHere, NEW m \in {"string", "primitive"},
         J!Becomes(J!EncodeValue(J!Encoder, key, m))
  PROVE  text' = Written(text, key, J!Mark(m))
<1> DEFINE k == KeyWritten(text, key)
           x == J!Mark(m)
<1>1. ~ J!NeedsParent(J!Encoder, key) /\ structs # <<>>
  BY NoParent, OpenIs
<1>2. J!EncodeKey([text |-> text, structs |-> structs], key) = [text |-> k, structs |-> structs]
  <2>2. key # J!NoKey \/ ~ J!InObject(J!Encoder)
    BY KeyHere
  <2>3. text \in Seq(Marks)
    BY DEF JsonInv, JsonTypes
  <2>4. QED
    BY <1>1, <2>2, <2>3, EncodedKey, Zenon DEF J!Encoder
<1> HIDE DEF k
<1>3. J!Put([text |-> k, structs |-> structs], x) = [text |-> Append(k, x), structs |-> structs]
  BY PutIs, Zenon
<1> DEFINE e == [text |-> text, structs |-> structs]
           u == Append(k, x)
<1>4. ~ J!AddedParent(e, key)
  BY <1>1 DEF J!AddedParent, J!Encoder
<1>5. e.structs # <<>>
  BY <1>1, EncoderFields
<1> HIDE DEF u
<1>6. J!EncodeValue(e, key, m) = [text |-> u, structs |-> structs]
  BY <1>2, <1>3, <1>4, <1>5, Zenon DEF J!EncodeValue, u
<1>7. text' = u
  BY <1>6, EncoderFields, Zenon DEF J!Becomes, J!Encoder
<1>8. QED
  BY <1>7, Zenon DEF k, u, KeyWritten, Written

Closer(s) == IF s = "array" THEN J!Mark("]") ELSE J!Mark("}")

LEMMA ClosersAre ==
  \A s \in Structures : CloserMark(Closer(s)) /\ J!Closing({s}) = <<Closer(s)>>
<1> DEFINE m == J!Mark("]")
           n == J!Mark("}")
<1>1. CloserMark(m) /\ CloserMark(n)
  <2>1. m \in Marks /\ n \in Marks
    BY MarksAre
  <2>2. m.mark = "]" /\ n.mark = "}"
    BY DEF J!Mark
  <2>3. QED
    BY <2>1, <2>2 DEF CloserMark, J!Closers
<1> HIDE DEF m, n
<1>2. Closer("array") = m /\ Closer("object") = n
  BY DEF Closer, m, n
<1>3. J!Closing({"array"}) = <<m>>
  <2>1. J!Closing({"array"}) = <<m>> \o <<>> \o <<>>
    BY DEF J!Closing, m
  <2>2. QED
    BY <2>1, ShortOnes, Zenon
<1>4. J!Closing({"object"}) = <<n>>
  <2>1. J!Closing({"object"}) = <<>> \o <<n>> \o <<>>
    BY DEF J!Closing, n
  <2>2. QED
    BY <2>1, ShortOnes, Zenon
<1>5. QED
  BY <1>1, <1>2, <1>3, <1>4, Zenon DEF Structures

\* What app_json_encode_struct_end writes.
LEMMA EndWritten ==
  ASSUME JsonInv, j_cur # <<>>, NEW s \in Structures,
         J!Becomes(J!StructEnd(J!Encoder, s))
  PROVE  text' = IF s = J!KindOf(J!Current) THEN Append(text, Closer(s)) ELSE text
<1>1. structs # <<>> /\ J!Last(structs) = {J!KindOf(J!Current)} /\ J!KindOf(J!Current) \in Structures
  BY OpenIs
<1>2. J!Encoder.text = text /\ J!Encoder.structs = structs
  BY DEF J!Encoder
<1>3. J!Ends(J!Encoder, s) <=> s = J!KindOf(J!Current)
  BY <1>1, <1>2 DEF J!Ends
<1>4. text \in Seq(Marks)
  BY DEF JsonInv, JsonTypes
<1>5. CASE s = J!KindOf(J!Current)
  <2>1. J!Closing(J!Last(J!Encoder.structs)) = <<Closer(s)>>
    BY <1>1, <1>2, <1>5, ClosersAre
  <2>2. J!StructEnd(J!Encoder, s).text = text \o <<Closer(s)>>
    BY <1>2, <1>3, <1>5, <2>1 DEF J!StructEnd
  <2>3. Closer(s) \in Marks
    BY ClosersAre DEF CloserMark
  <2> DEFINE m == Closer(s)
  <2> HIDE DEF m
  <2>4. text' = text \o <<m>> /\ m \in Marks
    BY <2>2, <2>3 DEF J!Becomes, m
  <2>5. text \o <<m>> = Append(text, m)
    BY <1>4, <2>4
  <2>6. QED
    BY <1>5, <2>4, <2>5 DEF m
<1>6. CASE s # J!KindOf(J!Current)
  BY <1>2, <1>3, <1>6 DEF J!StructEnd, J!Becomes
<1>7. QED
  BY <1>5, <1>6

\* What app_json_encode_object_cancel leaves of the text.
LEMMA CancelWritten ==
  ASSUME J!Becomes(J!ObjectCancel(J!Encoder))
  PROVE  /\ structs' = SubSeq(structs, 1, Len(structs) - 1)
         /\ structs' = <<>> => text' = <<>>
         /\ structs' # <<>> /\ J!Keyed(text) => text' = SubSeq(text, 1, J!CutAt(text) - 1)
<1>1. J!Encoder.text = text /\ J!Encoder.structs = structs
  BY DEF J!Encoder
<1> DEFINE levels == SubSeq(structs, 1, Len(structs) - 1)
           u == IF levels = <<>> THEN <<>>
                ELSE SubSeq(text, 1, IF J!Keyed(text) THEN J!CutAt(text) - 1 ELSE J!Brace(text))
<1>2. J!ObjectCancel(J!Encoder) = [structs |-> levels, text |-> u]
  BY <1>1 DEF J!ObjectCancel, J!Front
<1> HIDE DEF levels, u
<1>3. structs' = levels /\ text' = u
  BY <1>2 DEF J!Becomes
<1>4. QED
  BY <1>3 DEF levels, u

\* What app_json_encode_object_clear leaves of the text.
LEMMA ClearWritten ==
  ASSUME J!Becomes(J!ObjectClear(J!Encoder))
  PROVE  text' = SubSeq(text, 1, J!Brace(text))
<1>1. \A a, s, t : [[text |-> a, structs |-> s] EXCEPT !.text = t] = [text |-> t, structs |-> s]
  OBVIOUS
<1>2. J!ObjectClear(J!Encoder) = [text |-> SubSeq(text, 1, J!Brace(text)), structs |-> structs]
  BY <1>1, EncoderFields, Zenon DEF J!ObjectClear, J!Encoder
<1>3. QED
  BY <1>2, EncoderFields, Zenon DEF J!Becomes

\* The first structure, inside an object of its own when it has a name.
LEMMA FirstWritten ==
  ASSUME text = <<>>, structs = <<>>,
         NEW key \in Members \cup {J!NoKey}, NEW s \in Structures,
         J!Becomes(J!StructStart(J!Encoder, key, s))
  PROVE  /\ key = J!NoKey => text' = Written(<<>>, J!NoKey, J!Opening(s))
         /\ key # J!NoKey =>
              text' = Written(Written(<<>>, J!NoKey, J!Opening("object")), key, J!Opening(s))
<1> DEFINE none == [text |-> <<>>, structs |-> <<>>]
           m == J!Opening(s)
           b == J!Mark("{")
           k == J!Key(key)
<1>1. J!Encoder = none /\ ~ J!AddedParent(none, key) /\ ~ J!InObject(none) /\ J!Comma(none) = none
  BY DEF J!Encoder, J!AddedParent, J!InObject, J!Comma
<1>2. none.text = <<>> /\ none.structs = <<>>
  BY EncoderFields, Zenon
<1>3. Fresh(<<>>) /\ Commas(<<>>) = <<>>
  BY DEF Fresh, Commas
<1>4. CASE key = J!NoKey
  <2>1. J!EncodeKey(none, key) = none
    BY <1>1, <1>4 DEF J!EncodeKey, J!WithParent, J!NeedsParent
  <2> HIDE DEF m
  <2>2. J!StructStart(none, key, s).text = Append(<<>>, m)
    BY <1>2, <2>1 DEF J!StructStart, m
  <2>3. text' = Append(<<>>, m)
    BY <1>1, <2>2, Zenon DEF J!Becomes
  <2>4. QED
    BY <1>3, <1>4, <2>3, Zenon DEF Written, m
<1>5. CASE key # J!NoKey
  <2> DEFINE o == <<{"object"}>>
             p == [text |-> <<b>>, structs |-> o]
  <2>1. J!NeedsParent(none, key)
    BY <1>1, <1>5 DEF J!NeedsParent
  <2>2. J!WithParent(none, key) = p
    <3>2. Append(<<>>, b) = <<b>> /\ Append(<<>>, {"object"}) = o
      OBVIOUS
    <3>3. QED
      BY <1>1, <1>2, <2>1, <3>2, Zenon DEF J!WithParent
  <2>3. b.mark \in J!Openers /\ b = J!Opening("object")
    BY DEF J!Mark, J!Openers, J!Opening
  <2> HIDE DEF b
  <2>4. Fresh(<<b>>) /\ Commas(<<b>>) = <<b>>
    BY <2>3 DEF Fresh, Commas
  <2>5. J!Comma(p) = p
    <3>1. p.text = <<b>>
      BY EncoderFields, Zenon
    <3>2. J!Last(p.text) = b
      BY <3>1 DEF J!Last
    <3>3. QED
      BY <2>3, <3>2, Zenon DEF J!Comma
  <2>6. J!EncodeKey(none, key) = [text |-> Append(<<b>>, k), structs |-> o]
    <3>1. J!Put(p, J!Key(key)) = [text |-> Append(<<b>>, J!Key(key)), structs |-> o]
      BY PutIs, Zenon
    <3>2. QED
      BY <1>5, <2>2, <2>5, <3>1, Zenon DEF J!EncodeKey
  <2> HIDE DEF k, m
  <2>7. J!EncodeKey(none, key).text = Append(<<b>>, k)
    BY <2>6, EncoderFields, Zenon
  <2>8. J!StructStart(none, key, s).text = Append(Append(<<b>>, k), m)
    BY <2>7 DEF J!StructStart, m
  <2>9. text' = Append(Append(<<b>>, k), m)
    BY <1>1, <2>8, Zenon DEF J!Becomes
  <2>10. Written(<<>>, J!NoKey, b) = <<b>>
    <3>1. Append(<<>>, b) = <<b>>
      OBVIOUS
    <3>2. QED
      BY <1>3, <3>1, Zenon DEF Written
  <2>11. Written(<<b>>, key, m) = Append(Append(<<b>>, k), m)
    BY <1>5, <2>4, Zenon DEF Written, k
  <2>12. QED
    BY <1>5, <2>3, <2>9, <2>10, <2>11, Zenon DEF m
<1>6. QED
  BY <1>4, <1>5

-----------------------------------------------------------------------------
(***************************************************************************)
(* Taking away what is open. app_json_encode_object_cancel counts braces   *)
(* to find where the object that is open began, and what comes before it.  *)
(* History keeps, for each structure that is open, the place of its        *)
(* bracket, how many braces are open there, and that the text before it is *)
(* read as the tree without it.                                            *)
(***************************************************************************)
\* The braces of a text that are open after some of its marks.
Count(t, s, i) == Cardinality({j \in 1 .. i : t[j].mark = s})
Brace1 == "{"
Brace2 == "}"
Rises(m) == m.mark = Brace1
Falls(m) == m.mark = Brace2
Level(t, i) == Count(t, Brace1, i) - Count(t, Brace2, i)
Turn(m) == IF Rises(m) THEN 1 ELSE IF Falls(m) THEN -1 ELSE 0
CutMark(m) == m.mark \in J!Openers \cup {","}

LEMMA TextIs ==
  ASSUME NEW t \in Seq(Marks)
  PROVE  /\ Len(t) \in Nat /\ DOMAIN t = 1 .. Len(t)
         /\ \A j \in DOMAIN t : j \in Nat /\ 1 <= j /\ j <= Len(t) /\ t[j] \in Marks
OBVIOUS

\* How the counts of braces go on.
LEMMA CountIs ==
  ASSUME NEW t, NEW s, NEW n \in Nat
  PROVE  /\ Count(t, s, n) \in Nat /\ Count(t, s, 0) = 0
         /\ Count(t, s, n + 1) = IF t[n + 1].mark = s THEN Count(t, s, n) + 1 ELSE Count(t, s, n)
         /\ \A i \in 0 .. n :
              J!Cardinality({j \in i + 1 .. n : t[j].mark = s}) = Count(t, s, n) - Count(t, s, i)
<1> DEFINE K(i, k) == {j \in i + 1 .. k : t[j].mark = s}
           M(k) == {j \in 1 .. k : t[j].mark = s}
<1>1. \A i \in Nat, k \in Nat : IsFiniteSet(K(i, k)) /\ Cardinality(K(i, k)) \in Nat
  <2>1. \A i \in Nat, k \in Nat : K(i, k) \in SUBSET (i + 1 .. k) /\ IsFiniteSet(i + 1 .. k)
    <3>1. \A i, k : K(i, k) \in SUBSET (i + 1 .. k)
      BY Zenon
    <3>2. \A i \in Nat, k \in Nat : IsFiniteSet(i + 1 .. k)
      BY FS_Interval
    <3>3. QED
      BY <3>1, <3>2
  <2> HIDE DEF K
  <2>2. QED
    BY <2>1, FS_Subset, FS_CardinalityType
<1>2. \A k \in Nat : IsFiniteSet(M(k)) /\ Cardinality(M(k)) \in Nat
  <2>1. \A k : M(k) \in SUBSET (1 .. k)
    BY Zenon
  <2>2. \A k \in Nat : IsFiniteSet(1 .. k)
    BY FS_Interval
  <2> HIDE DEF M
  <2>3. QED
    BY <2>1, <2>2, FS_Subset, FS_CardinalityType
<1>3. \A k : Count(t, s, k) = Cardinality(M(k))
  BY DEF Count
<1>4. Cardinality(M(0)) = 0
  <2>1. 1 .. 0 = {}
    OBVIOUS
  <2>2. M(0) = {}
    BY <2>1, Zenon
  <2>3. QED
    BY <2>2, FS_EmptySet
<1>5. Cardinality(M(n + 1)) = IF t[n + 1].mark = s THEN Cardinality(M(n)) + 1 ELSE Cardinality(M(n))
  <2>0. 1 .. n + 1 = (1 .. n) \cup {n + 1} /\ n + 1 \notin 1 .. n
    OBVIOUS
  <2>1. CASE t[n + 1].mark # s
    <3>1. M(n + 1) = M(n)
      BY <2>0, <2>1, Zenon
    <3>2. QED
      BY <2>1, <3>1
  <2>2. CASE t[n + 1].mark = s
    <3>1. M(n + 1) = M(n) \cup {n + 1} /\ n + 1 \notin M(n)
      BY <2>0, <2>2, Zenon
    <3> HIDE DEF M
    <3>2. QED
      BY <1>2, <2>2, <3>1, FS_AddElement
  <2>3. QED
    BY <2>1, <2>2
<1>6. ASSUME NEW i \in 0 .. n
      PROVE  Cardinality(K(i, n)) = Cardinality(M(n)) - Cardinality(M(i))
  <2>1. 1 .. n = (1 .. i) \cup (i + 1 .. n) /\ (1 .. i) \cap (i + 1 .. n) = {} /\ i \in Nat
    OBVIOUS
  <2>2. M(n) = M(i) \cup K(i, n) /\ M(i) \cap K(i, n) = {}
    BY <2>1, Zenon
  <2>3. /\ IsFiniteSet(M(i)) /\ IsFiniteSet(K(i, n))
        /\ Cardinality(M(i)) \in Nat /\ Cardinality(K(i, n)) \in Nat
    BY <1>1, <1>2, <2>1
  <2> HIDE DEF M, K
  <2>4. Cardinality(M(i) \cup K(i, n)) = Cardinality(M(i)) + Cardinality(K(i, n)) - Cardinality({})
    BY <2>2, <2>3, FS_Union
  <2>5. Cardinality({}) = 0
    BY FS_EmptySet
  <2>6. QED
    BY <2>2, <2>3, <2>4, <2>5
<1>7. \A i \in 0 .. n : J!Cardinality({j \in i + 1 .. n : t[j].mark = s}) = Count(t, s, n) - Count(t, s, i)
  <2> SUFFICES ASSUME NEW i \in 0 .. n
               PROVE  J!Cardinality(K(i, n)) = Count(t, s, n) - Count(t, s, i)
    OBVIOUS
  <2>1. J!Cardinality(K(i, n)) = Cardinality(K(i, n))
    BY CardinalityIs
  <2> HIDE DEF K, M
  <2>2. QED
    BY <1>3, <1>6, <2>1
<1> HIDE DEF K, M
<1>8. QED
  BY <1>2, <1>3, <1>4, <1>5, <1>7

\* How the level goes on, mark by mark.
LEMMA LevelIs ==
  ASSUME NEW t, NEW n \in Nat
  PROVE  /\ Level(t, n) \in Int
         /\ Turn(t[n + 1]) \in Int /\ Level(t, n + 1) = Level(t, n) + Turn(t[n + 1])
<1> DEFINE a(k) == Count(t, Brace1, k)
           b(k) == Count(t, Brace2, k)
           m == t[n + 1]
<1>1. a(n) \in Nat /\ b(n) \in Nat
  BY CountIs
<1>2. a(n + 1) = IF Rises(m) THEN a(n) + 1 ELSE a(n)
  BY CountIs DEF Rises
<1>3. b(n + 1) = IF Falls(m) THEN b(n) + 1 ELSE b(n)
  BY CountIs DEF Falls
<1>4. Level(t, n) = a(n) - b(n) /\ Level(t, n + 1) = a(n + 1) - b(n + 1)
  BY DEF Level
<1>5. ~ (Rises(m) /\ Falls(m))
  BY DEF Rises, Falls, Brace1, Brace2
<1>6. Turn(t[n + 1]) = IF Rises(m) THEN 1 ELSE IF Falls(m) THEN -1 ELSE 0
  BY DEF Turn
<1> HIDE DEF a, b, m
<1>7. CASE Rises(m)
  BY <1>1, <1>2, <1>3, <1>4, <1>5, <1>6, <1>7
<1>8. CASE Falls(m)
  BY <1>1, <1>2, <1>3, <1>4, <1>5, <1>6, <1>8
<1>9. CASE ~ Rises(m) /\ ~ Falls(m)
  BY <1>1, <1>2, <1>3, <1>4, <1>5, <1>6, <1>9
<1>10. QED
  BY <1>7, <1>8, <1>9

\* The level depends on the text up to it only.
LEMMA LevelSame ==
  ASSUME NEW t, NEW u, NEW n \in Nat, \A j \in 1 .. n : t[j] = u[j]
  PROVE  \A i \in 0 .. n : Level(t, i) = Level(u, i)
<1> SUFFICES ASSUME NEW i \in 0 .. n PROVE Level(t, i) = Level(u, i)
  OBVIOUS
<1>1. \A j \in 1 .. i : t[j] = u[j]
  OBVIOUS
<1>2. \A s : Count(t, s, i) = Count(u, s, i)
  BY <1>1, Zenon DEF Count
<1>3. Count(t, Brace1, i) = Count(u, Brace1, i) /\ Count(t, Brace2, i) = Count(u, Brace2, i)
  BY <1>2
<1>4. QED
  BY <1>3 DEF Level

\* The braces that are open at the end, by their levels.
LEMMA EvenIs ==
  ASSUME NEW t, NEW n \in Nat, NEW i \in 0 .. n
  PROVE  J!Cardinality({j \in i + 1 .. n : t[j].mark = Brace1})
             = J!Cardinality({j \in i + 1 .. n : t[j].mark = Brace2})
           <=> Level(t, i) = Level(t, n)
<1> DEFINE cu(k) == Count(t, Brace1, k)
           cd(k) == Count(t, Brace2, k)
           open == J!Cardinality({j \in i + 1 .. n : t[j].mark = Brace1})
           shut == J!Cardinality({j \in i + 1 .. n : t[j].mark = Brace2})
<1>1. open = cu(n) - cu(i) /\ shut = cd(n) - cd(i)
  BY CountIs
<1>2. cu(n) \in Nat /\ cd(n) \in Nat /\ cu(i) \in Nat /\ cd(i) \in Nat
  <2>1. i \in Nat
    OBVIOUS
  <2>2. QED
    BY <2>1, CountIs
<1>3. Level(t, i) = cu(i) - cd(i) /\ Level(t, n) = cu(n) - cd(n)
  BY DEF Level
<1> HIDE DEF cu, cd, open, shut
<1>4. open = shut <=> Level(t, i) = Level(t, n)
  BY <1>1, <1>2, <1>3
<1>5. QED
  BY <1>4 DEF open, shut

\* The last brace that is open.
OpenBrace(t, i) == Rises(t[i]) /\ Level(t, i) = Level(t, Len(t))

\* The last brace that is open is the one that the code looks for.
LEMMA BraceMeans ==
  ASSUME NEW t \in Seq(Marks)
  PROVE  J!Brace(t) = J!Max({1} \cup {i \in DOMAIN t : OpenBrace(t, i)})
<1> DEFINE Even(i) == /\ t[i].mark = "{"
                      /\ J!Cardinality({j \in i + 1 .. Len(t) : t[j].mark = "{"})
                           = J!Cardinality({j \in i + 1 .. Len(t) : t[j].mark = "}"})
           Even2(i) == /\ t[i].mark = Brace1
                       /\ J!Cardinality({j \in i + 1 .. Len(t) : t[j].mark = Brace1})
                            = J!Cardinality({j \in i + 1 .. Len(t) : t[j].mark = Brace2})
<1>1. \A i \in DOMAIN t : Even2(i) <=> OpenBrace(t, i)
  <2>1. Len(t) \in Nat /\ DOMAIN t = 1 .. Len(t)
    BY TextIs
  <2> SUFFICES ASSUME NEW i \in DOMAIN t PROVE Even2(i) <=> OpenBrace(t, i)
    OBVIOUS
  <2>2. i \in 0 .. Len(t)
    BY <2>1
  <2>3. J!Cardinality({j \in i + 1 .. Len(t) : t[j].mark = Brace1})
             = J!Cardinality({j \in i + 1 .. Len(t) : t[j].mark = Brace2})
           <=> Level(t, i) = Level(t, Len(t))
    BY <2>1, <2>2, EvenIs
  <2>4. QED
    BY <2>3 DEF OpenBrace, Rises
<1>2. \A i : Even(i) <=> Even2(i)
  BY Zenon DEF Brace1, Brace2
<1>3. \A i \in DOMAIN t : Even(i) <=> OpenBrace(t, i)
  BY <1>1, <1>2, Zenon
<1> HIDE DEF Even2
<1>4. {i \in DOMAIN t : Even(i)} = {i \in DOMAIN t : OpenBrace(t, i)}
  BY <1>3, Zenon
<1>5. J!Brace(t) = J!Max({1} \cup {i \in DOMAIN t : Even(i)})
  BY Zenon DEF J!Brace
<1>6. QED
  BY <1>4, <1>5, Zenon

\* The code finds it when it is known.
LEMMA BraceFound ==
  ASSUME NEW t \in Seq(Marks), NEW q \in DOMAIN t, Rises(t[q]),
         Level(t, Len(t)) = Level(t, q),
         \A j \in q .. Len(t) : Level(t, j) >= Level(t, q)
  PROVE  J!Brace(t) = q
<1> DEFINE n == Len(t)
           S == {1} \cup {i \in DOMAIN t : OpenBrace(t, i)}
<1>1. n \in Nat /\ DOMAIN t = 1 .. n
  BY TextIs
<1>2. \A i \in 1 .. n : Rises(t[i]) => Level(t, i) = Level(t, i - 1) + 1 /\ Level(t, i - 1) \in Int
  <2> SUFFICES ASSUME NEW i \in 1 .. n, Rises(t[i])
               PROVE  Level(t, i) = Level(t, i - 1) + 1 /\ Level(t, i - 1) \in Int
    OBVIOUS
  <2>1. i - 1 \in Nat /\ i - 1 + 1 = i
    BY <1>1
  <2>2. Turn(t[i]) = 1
    BY DEF Turn
  <2> HIDE DEF n
  <2>3. QED
    BY <2>1, <2>2, LevelIs
<1>3. q \in S
  BY DEF OpenBrace
<1>4. ASSUME NEW x \in S PROVE x <= q /\ x \in Nat
  <2>0. q \in Nat /\ 1 <= q /\ q <= n
    BY <1>1
  <2>1. CASE x = 1
    BY <2>0, <2>1
  <2>2. CASE x \in DOMAIN t /\ OpenBrace(t, x)
    <3>1. x \in 1 .. n /\ Rises(t[x]) /\ Level(t, x) = Level(t, q)
      BY <1>1, <2>2 DEF OpenBrace
    <3> HIDE DEF n, S
    <3>2. ~ x > q
      <4> SUFFICES ASSUME x > q PROVE FALSE
        OBVIOUS
      <4>1. x - 1 \in q .. n
        BY <1>1, <2>0, <3>1
      <4>2. Level(t, x - 1) >= Level(t, q)
        BY <4>1 DEF n
      <4>3. Level(t, x) = Level(t, x - 1) + 1 /\ Level(t, x - 1) \in Int
        BY <1>2, <3>1
      <4>4. QED
        BY <3>1, <4>2, <4>3
    <3>3. QED
      BY <2>0, <3>1, <3>2
  <2>3. QED
    BY <2>1, <2>2
<1>5. J!Brace(t) = J!Max(S)
  BY BraceMeans
<1> HIDE DEF S
<1>6. \A x \in S : (\A y \in S : x >= y) => x = q
  <2> SUFFICES ASSUME NEW x \in S, x >= q PROVE x = q
    BY <1>3
  <2>1. x <= q /\ x \in Nat /\ q \in Nat
    BY <1>3, <1>4
  <2>2. QED
    BY <2>1
<1>7. \A y \in S : q >= y
  BY <1>3, <1>4
<1>8. J!Max(S) = q
  BY <1>3, <1>6, <1>7 DEF J!Max
<1>9. QED
  BY <1>5, <1>8

\* A key before it, and where that leads to.
LEMMA CutFound ==
  ASSUME NEW t \in Seq(Marks), NEW q \in DOMAIN t, J!Brace(t) = q, q > 2, CutMark(t[q - 2])
  PROVE  J!CutAt(t) = q - 2
<1> DEFINE S == {1} \cup {i \in 1 .. q - 2 : CutMark(t[i])}
<1>1. q \in Nat /\ q - 2 \in 1 .. q - 2 /\ q - 2 >= 1
  <2>1. q \in Nat
    BY TextIs
  <2>2. QED
    BY <2>1
<1>2. q - 2 \in S
  BY <1>1, Zenon
<1>3. S \subseteq {1} \cup (1 .. q - 2)
  BY Zenon
<1>4. J!CutAt(t) = J!Max(S)
  BY Zenon DEF J!CutAt, CutMark
<1> HIDE DEF S
<1>5. \A x \in S : x \in Nat /\ x <= q - 2
  BY <1>1, <1>3
<1>6. \A x \in S : (\A y \in S : x >= y) => x = q - 2
  <2> SUFFICES ASSUME NEW x \in S, x >= q - 2 PROVE x = q - 2
    BY <1>2
  <2>1. QED
    BY <1>1, <1>5
<1>7. \A y \in S : q - 2 >= y
  BY <1>1, <1>5
<1>8. QED
  BY <1>2, <1>4, <1>6, <1>7 DEF J!Max

\* The text, the nodes and the open nodes as they were when level k was opened
\* with the bracket at q[k], and before the key of that bracket.
BeforeKey(t, ns, os, q, k) ==
  LET b == q[k]
  IN  b > 1 /\ t[b - 1].mark = "key" =>
        /\ b > 2 /\ CutMark(t[b - 2])
        /\ CommaMark(t[b - 2]) =>
             /\ k > 1 /\ q[k - 1] <= b - 3
             /\ Reads(SubSeq(t, 1, b - 3), SubSeq(ns, 1, os[k] - 1), SubSeq(os, 1, k - 1))
Past(t, ns, os, q, k) ==
  /\ q[k] \in 1 .. Len(t) /\ os[k] \in 1 .. Len(ns)
  /\ Rises(t[q[k]]) <=> ns[os[k]].kind = "object"
  /\ Reads(SubSeq(t, 1, q[k]), SubSeq(ns, 1, os[k]), SubSeq(os, 1, k))
  /\ BeforeKey(t, ns, os, q, k)
  /\ \A j \in q[k] .. Len(t) : Level(t, j) >= Level(t, q[k])
Rise(ns, n) == IF ns[n].kind = "object" THEN 1 ELSE 0
Ordered(t, ns, os, q, k) ==
  /\ \A j \in 1 .. k - 1 : q[j] < q[k]
  /\ Level(t, q[k]) = Level(t, q[k - 1]) + Rise(ns, os[k])
Typed(t, ns, os, q) ==
  t \in Seq(Marks) /\ ns \in Seq(Nodes) /\ os \in Seq(Nat) /\ q \in Seq(Nat) /\ Len(q) = Len(os)
History(t, ns, os, q) ==
  /\ Typed(t, ns, os, q)
  /\ \A k \in 1 .. Len(os) : Past(t, ns, os, q, k)
  /\ \A k \in 2 .. Len(os) : Ordered(t, ns, os, q, k)
Evened(t, os, q) == os # <<>> => Level(t, Len(t)) = Level(t, q[Len(os)])

LEMMA PrefixSame ==
  ASSUME NEW S, NEW t \in Seq(S), NEW u \in Seq(S), NEW l \in Nat, l <= Len(t), l <= Len(u),
         \A j \in 1 .. l : t[j] = u[j]
  PROVE  \A a \in 0 .. l : SubSeq(t, 1, a) = SubSeq(u, 1, a)
<1> SUFFICES ASSUME NEW a \in 0 .. l PROVE SubSeq(t, 1, a) = SubSeq(u, 1, a)
  OBVIOUS
<1>1. 1 \in 1 .. Len(t) + 1 /\ a \in 1 - 1 .. Len(t) /\ 1 \in 1 .. Len(u) + 1 /\ a \in 1 - 1 .. Len(u)
      /\ a \in Nat /\ a - 1 + 1 = a
  OBVIOUS
<1> DEFINE x == SubSeq(t, 1, a)
           y == SubSeq(u, 1, a)
<1>2. x \in Seq(S) /\ Len(x) = a /\ \A j \in 1 .. a : x[j] = t[1 + j - 1]
  BY <1>1, SubSeqIs
<1>3. y \in Seq(S) /\ Len(y) = a /\ \A j \in 1 .. a : y[j] = u[1 + j - 1]
  BY <1>1, SubSeqIs
<1> HIDE DEF x, y
<1>4. \A j \in 1 .. a : x[j] = y[j]
  BY <1>2, <1>3
<1>5. x = y
  BY <1>2, <1>3, <1>4, SeqEqual
<1>6. QED
  BY <1>5 DEF x, y

\* What was at level i stays so when nothing before that is changed.
Alters(t, u, ns, xs, os, ps, q, r, k, l, n) ==
  /\ Typed(t, ns, os, q) /\ Typed(u, xs, ps, r)
  /\ k \in Nat /\ k <= Len(os) /\ k <= Len(ps)
  /\ l \in Nat /\ l <= Len(t) /\ l <= Len(u) /\ n \in Nat /\ n <= Len(ns) /\ n <= Len(xs)
  /\ \A j \in 1 .. l : t[j] = u[j]
  /\ \A j \in 1 .. n : ns[j] = xs[j]
  /\ \A i \in 1 .. k : os[i] = ps[i] /\ q[i] = r[i] /\ q[i] <= l /\ os[i] <= n

\* What is known of a level stays so when the text goes on behind it.
LEMMA PastKept ==
  ASSUME NEW t, NEW u, NEW ns, NEW xs, NEW os, NEW ps, NEW q, NEW r, NEW k, NEW l, NEW n,
         Alters(t, u, ns, xs, os, ps, q, r, k, l, n), NEW i \in 1 .. k, Past(t, ns, os, q, i),
         \A j \in l + 1 .. Len(u) : Level(u, j) >= Level(u, q[i])
  PROVE  Past(u, xs, ps, r, i)
<1> DEFINE b == q[i]
           c == os[i]
<1>1. /\ t \in Seq(Marks) /\ u \in Seq(Marks) /\ ns \in Seq(Nodes) /\ xs \in Seq(Nodes)
      /\ os \in Seq(Nat) /\ ps \in Seq(Nat)
  BY DEF Alters, Typed
<1>2. /\ k \in Nat /\ k <= Len(os) /\ k <= Len(ps)
      /\ l \in Nat /\ l <= Len(t) /\ l <= Len(u) /\ n \in Nat /\ n <= Len(ns) /\ n <= Len(xs)
      /\ \A j \in 1 .. l : t[j] = u[j]
      /\ \A j \in 1 .. n : ns[j] = xs[j]
      /\ \A j \in 1 .. k : os[j] = ps[j] /\ q[j] = r[j]
  BY DEF Alters
<1>3. /\ b \in 1 .. l /\ c \in 1 .. n /\ r[i] = b /\ ps[i] = c
      /\ i \in Nat /\ 1 <= i /\ i <= k
  <2>1. b \in 1 .. Len(t) /\ c \in 1 .. Len(ns) /\ b <= l /\ c <= n /\ r[i] = b /\ ps[i] = c
    BY DEF Alters, Past
  <2> HIDE DEF b, c
  <2>2. Len(t) \in Nat /\ Len(ns) \in Nat
    BY <1>1
  <2>3. QED
    BY <1>2, <2>1, <2>2
<1>4. /\ \A a \in 0 .. l : SubSeq(t, 1, a) = SubSeq(u, 1, a)
      /\ \A a \in 0 .. n : SubSeq(ns, 1, a) = SubSeq(xs, 1, a)
      /\ \A a \in 0 .. k : SubSeq(os, 1, a) = SubSeq(ps, 1, a)
  <2>1. \A a \in 0 .. l : SubSeq(t, 1, a) = SubSeq(u, 1, a)
    BY <1>1, <1>2, PrefixSame
  <2>2. \A a \in 0 .. n : SubSeq(ns, 1, a) = SubSeq(xs, 1, a)
    BY <1>1, <1>2, PrefixSame
  <2>3. \A a \in 0 .. k : SubSeq(os, 1, a) = SubSeq(ps, 1, a)
    BY <1>1, <1>2, PrefixSame
  <2>4. QED
    BY <2>1, <2>2, <2>3
<1>5. \A j \in 0 .. l : Level(t, j) = Level(u, j)
  BY <1>2, LevelSame
<1> HIDE DEF b, c
<1>6. b \in 1 .. Len(u) /\ c \in 1 .. Len(xs)
  <2>1. Len(u) \in Nat /\ Len(xs) \in Nat
    BY <1>1
  <2>2. QED
    BY <1>2, <1>3, <2>1
<1>7. Rises(u[b]) <=> xs[c].kind = "object"
  <2>1. u[b] = t[b] /\ xs[c] = ns[c]
    BY <1>2, <1>3
  <2>2. Rises(t[b]) <=> ns[c].kind = "object"
    BY DEF Past, b, c
  <2>3. QED
    BY <2>1, <2>2
<1>8. Reads(SubSeq(u, 1, b), SubSeq(xs, 1, c), SubSeq(ps, 1, i))
  <2>1. b \in 0 .. l /\ c \in 0 .. n /\ i \in 0 .. k
    BY <1>2, <1>3
  <2>2. Reads(SubSeq(t, 1, b), SubSeq(ns, 1, c), SubSeq(os, 1, i))
    BY DEF Past, b, c
  <2>3. QED
    BY <1>4, <2>1, <2>2
<1>9. BeforeKey(u, xs, ps, r, i)
  <2> SUFFICES ASSUME b > 1, u[b - 1].mark = "key"
               PROVE  /\ b > 2 /\ CutMark(u[b - 2])
                      /\ CommaMark(u[b - 2]) =>
                           /\ i > 1 /\ r[i - 1] <= b - 3
                           /\ Reads(SubSeq(u, 1, b - 3), SubSeq(xs, 1, c - 1), SubSeq(ps, 1, i - 1))
    BY <1>3 DEF BeforeKey
  <2>1. b - 1 \in 1 .. l
    BY <1>2, <1>3
  <2>2. t[b - 1].mark = "key"
    BY <1>2, <2>1
  <2>3. BeforeKey(t, ns, os, q, i)
    BY DEF Past
  <2>4. /\ b > 2 /\ CutMark(t[b - 2])
        /\ CommaMark(t[b - 2]) =>
             /\ i > 1 /\ q[i - 1] <= b - 3
             /\ Reads(SubSeq(t, 1, b - 3), SubSeq(ns, 1, c - 1), SubSeq(os, 1, i - 1))
    BY <2>2, <2>3 DEF BeforeKey, b, c
  <2>5. b - 2 \in 1 .. l /\ b - 3 \in 0 .. l /\ c - 1 \in 0 .. n /\ i - 1 \in 0 .. k
    BY <1>2, <1>3, <2>4
  <2>6. t[b - 2] = u[b - 2]
    BY <1>2, <2>5
  <2>7. /\ SubSeq(t, 1, b - 3) = SubSeq(u, 1, b - 3) /\ SubSeq(ns, 1, c - 1) = SubSeq(xs, 1, c - 1)
        /\ SubSeq(os, 1, i - 1) = SubSeq(ps, 1, i - 1)
    BY <1>4, <2>5
  <2>8. i > 1 => q[i - 1] = r[i - 1]
    <3>1. i > 1 => i - 1 \in 1 .. k
      BY <1>2, <1>3
    <3>2. QED
      BY <1>2, <3>1
  <2>9. QED
    BY <2>4, <2>6, <2>7, <2>8
<1>10. \A j \in b .. Len(u) : Level(u, j) >= Level(u, b)
  <2> SUFFICES ASSUME NEW j \in b .. Len(u) PROVE Level(u, j) >= Level(u, b)
    OBVIOUS
  <2>1. CASE j <= l
    <3>1. j \in 0 .. l /\ b \in 0 .. l /\ j \in b .. Len(t)
      <4>1. Len(t) \in Nat
        BY <1>1
      <4>2. QED
        BY <1>2, <1>3, <2>1, <4>1
    <3>2. Level(t, j) >= Level(t, b)
      BY <3>1 DEF Past, b
    <3>3. QED
      BY <1>5, <3>1, <3>2
  <2>2. CASE j > l
    <3>1. j \in l + 1 .. Len(u)
      <4>1. Len(u) \in Nat
        BY <1>1
      <4>2. QED
        BY <1>2, <1>3, <2>2, <4>1
    <3>2. QED
      BY <3>1 DEF b
  <2>3. QED
    BY <1>2, <1>3, <2>1, <2>2
<1>11. QED
  BY <1>3, <1>6, <1>7, <1>8, <1>9, <1>10 DEF Past

\* So does the order of the levels.
LEMMA OrderKept ==
  ASSUME NEW t, NEW u, NEW ns, NEW xs, NEW os, NEW ps, NEW q, NEW r, NEW k, NEW l, NEW n,
         Alters(t, u, ns, xs, os, ps, q, r, k, l, n), NEW i \in 2 .. k, Ordered(t, ns, os, q, i),
         q[i] \in Nat, q[i - 1] \in Nat, os[i] \in 1 .. n
  PROVE  Ordered(u, xs, ps, r, i)
<1>1. /\ k \in Nat /\ l \in Nat
      /\ \A j \in 1 .. l : t[j] = u[j]
      /\ \A j \in 1 .. n : ns[j] = xs[j]
      /\ \A j \in 1 .. k : os[j] = ps[j] /\ q[j] = r[j] /\ q[j] <= l
  BY DEF Alters
<1>2. i \in 1 .. k /\ i - 1 \in 1 .. k
  BY <1>1
<1>3. q[i] \in 0 .. l /\ q[i - 1] \in 0 .. l
  BY <1>1, <1>2
<1>4. \A j \in 0 .. l : Level(t, j) = Level(u, j)
  BY <1>1, LevelSame
<1>5. Level(u, r[i]) = Level(t, q[i]) /\ Level(u, r[i - 1]) = Level(t, q[i - 1])
  BY <1>1, <1>2, <1>3, <1>4
<1>6. Rise(xs, ps[i]) = Rise(ns, os[i])
  BY <1>1, <1>2 DEF Rise
<1>7. \A j \in 1 .. i - 1 : r[j] < r[i]
  <2>1. \A j \in 1 .. i - 1 : j \in 1 .. k
    BY <1>1
  <2>2. QED
    BY <1>1, <1>2, <2>1 DEF Ordered
<1>8. QED
  BY <1>5, <1>6, <1>7 DEF Ordered

-----------------------------------------------------------------------------
(***************************************************************************)
(* The history of the structures that are open follows every change of the *)
(* text: what is closed, cut off or added behind the places that it names  *)
(* leaves it as it is.                                                     *)
(***************************************************************************)
\* A history, level by level.
LEMMA HistoryIs ==
  ASSUME NEW t, NEW ns, NEW os, NEW q, History(t, ns, os, q)
  PROVE  /\ Len(t) \in Nat /\ Len(ns) \in Nat /\ Len(os) \in Nat /\ Len(q) = Len(os)
         /\ DOMAIN os = 1 .. Len(os)
         /\ \A i \in 1 .. Len(os) :
              /\ q[i] \in 1 .. Len(t) /\ os[i] \in 1 .. Len(ns) /\ i \in Nat
              /\ Level(t, q[i]) \in Int /\ Level(t, Len(t)) >= Level(t, q[i])
         /\ Level(t, Len(t)) \in Int
<1>1. Typed(t, ns, os, q) /\ \A i \in 1 .. Len(os) : Past(t, ns, os, q, i)
  BY DEF History
<1>2. /\ Len(t) \in Nat /\ Len(ns) \in Nat /\ Len(os) \in Nat /\ Len(q) = Len(os)
      /\ DOMAIN os = 1 .. Len(os)
  BY <1>1 DEF Typed
<1>3. Level(t, Len(t)) \in Int
  BY <1>2, LevelIs
<1>4. ASSUME NEW i \in 1 .. Len(os)
      PROVE  /\ q[i] \in 1 .. Len(t) /\ os[i] \in 1 .. Len(ns) /\ i \in Nat
             /\ Level(t, q[i]) \in Int /\ Level(t, Len(t)) >= Level(t, q[i])
  <2>1. q[i] \in 1 .. Len(t) /\ os[i] \in 1 .. Len(ns) /\ i \in Nat
    BY <1>1 DEF Past
  <2>2. q[i] \in Nat /\ Len(t) \in q[i] .. Len(t)
    BY <1>2, <2>1
  <2>3. QED
    BY <1>1, <2>1, <2>2, LevelIs DEF Past
<1>5. QED
  BY <1>2, <1>3, <1>4

\* The history of the levels that stay.
LEMMA HistoryKept ==
  ASSUME NEW t, NEW u, NEW ns, NEW xs, NEW os, NEW ps, NEW q, NEW r, NEW k, NEW l, NEW n,
         History(t, ns, os, q), Alters(t, u, ns, xs, os, ps, q, r, k, l, n),
         \A i \in 1 .. k : \A j \in l + 1 .. Len(u) : Level(u, j) >= Level(u, q[i])
  PROVE  /\ \A i \in 1 .. k : Past(u, xs, ps, r, i)
         /\ \A i \in 2 .. k : Ordered(u, xs, ps, r, i)
<1>1. k \in Nat /\ k <= Len(os) /\ Len(os) \in Nat
  BY HistoryIs DEF Alters
<1>2. ASSUME NEW i \in 1 .. k PROVE Past(u, xs, ps, r, i)
  <2>1. i \in 1 .. Len(os)
    BY <1>1
  <2>2. Past(t, ns, os, q, i)
    BY <2>1 DEF History
  <2>3. \A j \in l + 1 .. Len(u) : Level(u, j) >= Level(u, q[i])
    OBVIOUS
  <2>4. QED
    BY <2>2, <2>3, PastKept
<1>3. ASSUME NEW i \in 2 .. k PROVE Ordered(u, xs, ps, r, i)
  <2>1. i \in 1 .. Len(os) /\ i - 1 \in 1 .. Len(os) /\ i \in 2 .. Len(os) /\ i \in 1 .. k
    BY <1>1
  <2>2. Ordered(t, ns, os, q, i)
    BY <2>1 DEF History
  <2>3. q[i] \in Nat /\ q[i - 1] \in Nat /\ os[i] \in Nat /\ os[i] >= 1
    <3>1. q[i] \in 1 .. Len(t) /\ q[i - 1] \in 1 .. Len(t) /\ os[i] \in 1 .. Len(ns)
      BY <2>1, HistoryIs
    <3>2. QED
      BY <3>1
  <2>4. os[i] \in 1 .. n
    <3>1. os[i] <= n /\ n \in Nat
      BY <2>1 DEF Alters
    <3>2. QED
      BY <2>3, <3>1
  <2>5. QED
    BY <2>2, <2>3, <2>4, OrderKept
<1>4. QED
  BY <1>2, <1>3

\* A comma, a key or a value is written.
LEMMA HistoryMark ==
  ASSUME NEW t, NEW ns, NEW os, NEW q, History(t, ns, os, q), NEW m \in Marks, Turn(m) = 0
  PROVE  History(Append(t, m), ns, os, q) /\ (Evened(t, os, q) => Evened(Append(t, m), os, q))
<1> DEFINE u == Append(t, m)
           l == Len(t)
           k == Len(os)
<1>1. Typed(t, ns, os, q) /\ l \in Nat /\ k \in Nat /\ Len(ns) \in Nat
      /\ \A i \in 1 .. k : q[i] \in 1 .. l /\ os[i] \in 1 .. Len(ns) /\ Level(t, l) >= Level(t, q[i])
  BY HistoryIs DEF History
<1>2. u \in Seq(Marks) /\ Len(u) = l + 1 /\ (\A j \in 1 .. l : u[j] = t[j]) /\ u[l + 1] = m
  BY <1>1, TextWith DEF Typed
<1>3. Typed(u, ns, os, q)
  BY <1>1, <1>2 DEF Typed
<1> HIDE DEF u, l, k
<1>4. Level(u, l + 1) = Level(t, l) /\ \A i \in 1 .. k : Level(u, q[i]) = Level(t, q[i])
  <2>0. \A j \in 1 .. l : t[j] = u[j]
    BY <1>2
  <2>1. \A j \in 0 .. l : Level(t, j) = Level(u, j)
    BY <1>1, <2>0, LevelSame
  <2>2. Level(u, l + 1) = Level(u, l) + 0 /\ Level(u, l) \in Int
    BY <1>1, <1>2, LevelIs
  <2>3. l \in 0 .. l /\ \A i \in 1 .. k : q[i] \in 0 .. l
    BY <1>1
  <2>4. QED
    BY <2>1, <2>2, <2>3
<1>5. Alters(t, u, ns, ns, os, os, q, q, k, l, Len(ns))
  <2>1. k <= Len(os) /\ l <= Len(t) /\ l <= Len(u) /\ Len(ns) <= Len(ns)
    BY <1>1, <1>2 DEF k, l
  <2>2. \A i \in 1 .. k : q[i] <= l /\ os[i] <= Len(ns)
    BY <1>1
  <2>3. QED
    BY <1>1, <1>2, <1>3, <2>1, <2>2 DEF Alters
<1>6. \A i \in 1 .. k : \A j \in l + 1 .. Len(u) : Level(u, j) >= Level(u, q[i])
  <2> SUFFICES ASSUME NEW i \in 1 .. k, NEW j \in l + 1 .. Len(u) PROVE Level(u, j) >= Level(u, q[i])
    OBVIOUS
  <2>1. j = l + 1
    BY <1>1, <1>2
  <2>2. QED
    BY <1>1, <1>4, <2>1
<1>7. History(u, ns, os, q)
  <2>1. /\ \A i \in 1 .. k : Past(u, ns, os, q, i)
        /\ \A i \in 2 .. k : Ordered(u, ns, os, q, i)
    BY <1>5, <1>6, HistoryKept
  <2>2. QED
    BY <1>3, <2>1 DEF History, k
<1>8. Evened(t, os, q) => Evened(u, os, q)
  <2> SUFFICES ASSUME Evened(t, os, q), os # <<>> PROVE Level(u, Len(u)) = Level(u, q[Len(os)])
    BY DEF Evened
  <2>1. k \in 1 .. k
    <3>1. k # 0
      BY <1>1 DEF Typed, k
    <3>2. QED
      BY <1>1, <3>1
  <2>2. QED
    BY <1>2, <1>4, <2>1 DEF Evened, k, l
<1>9. QED
  BY <1>7, <1>8 DEF u

\* A node is added that does not open, or that will be opened next.
LEMMA HistoryNode ==
  ASSUME NEW t, NEW ns, NEW os, NEW q, History(t, ns, os, q), NEW e \in Nodes
  PROVE  History(t, Append(ns, e), os, q)
<1> DEFINE xs == Append(ns, e)
           l == Len(t)
           n == Len(ns)
           k == Len(os)
<1>1. Typed(t, ns, os, q) /\ l \in Nat /\ k \in Nat /\ n \in Nat
      /\ \A i \in 1 .. k : q[i] \in 1 .. l /\ os[i] \in 1 .. n
  BY HistoryIs DEF History
<1>2. xs \in Seq(Nodes) /\ Len(xs) = n + 1 /\ \A j \in 1 .. n : xs[j] = ns[j]
  BY <1>1, NodesWith DEF Typed
<1>3. Typed(t, xs, os, q)
  BY <1>1, <1>2 DEF Typed
<1> HIDE DEF xs, l, n, k
<1>5. Alters(t, t, ns, xs, os, os, q, q, k, l, n)
  <2>1. k <= Len(os) /\ l <= Len(t) /\ n <= Len(ns) /\ n <= Len(xs)
    BY <1>1, <1>2 DEF k, l, n
  <2>2. \A i \in 1 .. k : q[i] <= l /\ os[i] <= n
    BY <1>1
  <2>3. QED
    BY <1>1, <1>2, <1>3, <2>1, <2>2 DEF Alters
<1>6. \A i \in 1 .. k : \A j \in l + 1 .. Len(t) : Level(t, j) >= Level(t, q[i])
  <2>1. l + 1 .. Len(t) = {}
    BY <1>1 DEF l
  <2>2. QED
    BY <2>1
<1>7. /\ \A i \in 1 .. k : Past(t, xs, os, q, i)
      /\ \A i \in 2 .. k : Ordered(t, xs, os, q, i)
  BY <1>5, <1>6, HistoryKept
<1>8. QED
  BY <1>3, <1>7 DEF History, k, xs

LEMMA NumbersWith ==
  ASSUME NEW s \in Seq(Nat), NEW x \in Nat
  PROVE  /\ Append(s, x) \in Seq(Nat) /\ Len(s) \in Nat /\ Len(Append(s, x)) = Len(s) + 1
         /\ Append(s, x)[Len(s) + 1] = x
         /\ \A i \in 1 .. Len(s) : Append(s, x)[i] = s[i]
         /\ Append(s, x) # <<>>
         /\ SubSeq(Append(s, x), 1, Len(s) + 1) = Append(s, x)
         /\ SubSeq(Append(s, x), 1, Len(s)) = s
OBVIOUS

LEMMA WholeText ==
  /\ \A t \in Seq(Marks) : SubSeq(t, 1, Len(t)) = t
  /\ \A ns \in Seq(Nodes) : SubSeq(ns, 1, Len(ns)) = ns
OBVIOUS

\* A structure is opened.
LEMMA HistoryOpen ==
  ASSUME NEW t, NEW ns, NEW os, NEW q, History(t, ns, os, q), Evened(t, os, q),
         NEW m \in Marks, Len(ns) >= 1, Turn(m) = Rise(ns, Len(ns)),
         Rises(m) <=> ns[Len(ns)].kind = "object",
         Reads(Append(t, m), ns, Append(os, Len(ns))),
         BeforeKey(Append(t, m), ns, Append(os, Len(ns)), Append(q, Len(t) + 1), Len(os) + 1)
  PROVE  /\ History(Append(t, m), ns, Append(os, Len(ns)), Append(q, Len(t) + 1))
         /\ Evened(Append(t, m), Append(os, Len(ns)), Append(q, Len(t) + 1))
<1> DEFINE u == Append(t, m)
           l == Len(t)
           n == Len(ns)
           k == Len(os)
           ps == Append(os, n)
           r == Append(q, l + 1)
<1>1. /\ Typed(t, ns, os, q) /\ l \in Nat /\ k \in Nat /\ n \in Nat /\ Len(q) = k
      /\ \A i \in 1 .. k : q[i] \in 1 .. l /\ os[i] \in 1 .. n
      /\ \A i \in 1 .. k : Level(t, l) >= Level(t, q[i]) /\ Level(t, q[i]) \in Int
      /\ Level(t, l) \in Int
  BY HistoryIs DEF History
<1>2. u \in Seq(Marks) /\ Len(u) = l + 1 /\ (\A j \in 1 .. l : u[j] = t[j]) /\ u[l + 1] = m
  BY <1>1, TextWith DEF Typed
<1>3. /\ ps \in Seq(Nat) /\ Len(ps) = k + 1 /\ ps[k + 1] = n /\ \A i \in 1 .. k : ps[i] = os[i]
      /\ SubSeq(ps, 1, k + 1) = ps
  BY <1>1, NumbersWith DEF Typed
<1>4. r \in Seq(Nat) /\ Len(r) = k + 1 /\ r[k + 1] = l + 1 /\ \A i \in 1 .. k : r[i] = q[i]
  <2>1. q \in Seq(Nat) /\ Len(q) = k /\ l + 1 \in Nat
    BY <1>1 DEF Typed
  <2> HIDE DEF l, k
  <2>2. QED
    BY <2>1, NumbersWith
<1>5. Typed(u, ns, ps, r)
  BY <1>1, <1>2, <1>3, <1>4 DEF Typed
<1>6. Reads(u, ns, ps) /\ BeforeKey(u, ns, ps, r, k + 1)
  OBVIOUS
<1>7. SubSeq(ns, 1, n) = ns
  BY <1>1, WholeText DEF Typed
<1>8. SubSeq(u, 1, l + 1) = u
  BY <1>2, WholeText
<1>9. Evened(t, os, q) /\ os \in Seq(Nat)
  BY <1>1 DEF Typed
<1>10. Turn(m) = Rise(ns, n) /\ (Rises(m) <=> ns[n].kind = "object") /\ n >= 1
  OBVIOUS
<1> HIDE DEF u, l, n, k, ps, r
<1>11. Rise(ns, n) \in {0, 1}
  BY DEF Rise
<1>12. /\ Level(u, l + 1) = Level(t, l) + Rise(ns, n)
       /\ \A i \in 1 .. k : Level(u, q[i]) = Level(t, q[i])
  <2>0. \A j \in 1 .. l : t[j] = u[j]
    BY <1>2
  <2>1. \A j \in 0 .. l : Level(t, j) = Level(u, j)
    BY <1>1, <2>0, LevelSame
  <2>2. Level(u, l + 1) = Level(u, l) + Turn(m)
    BY <1>1, <1>2, LevelIs
  <2>3. l \in 0 .. l /\ \A i \in 1 .. k : q[i] \in 0 .. l
    BY <1>1
  <2>4. QED
    BY <1>10, <2>1, <2>2, <2>3
<1>13. Alters(t, u, ns, ns, os, ps, q, r, k, l, n)
  <2>1. k <= Len(os) /\ k <= Len(ps) /\ l <= Len(t) /\ l <= Len(u) /\ n <= Len(ns)
    BY <1>1, <1>2, <1>3 DEF k, l, n
  <2>2. \A i \in 1 .. k : os[i] = ps[i] /\ q[i] = r[i] /\ q[i] <= l /\ os[i] <= n
    <3>1. \A i \in 1 .. k : os[i] = ps[i] /\ q[i] = r[i]
      BY <1>3, <1>4
    <3>2. \A i \in 1 .. k : q[i] <= l /\ os[i] <= n
      BY <1>1
    <3>3. QED
      BY <3>1, <3>2
  <2>3. QED
    BY <1>1, <1>2, <1>5, <2>1, <2>2 DEF Alters
<1>14. \A i \in 1 .. k : \A j \in l + 1 .. Len(u) : Level(u, j) >= Level(u, q[i])
  <2> SUFFICES ASSUME NEW i \in 1 .. k, NEW j \in l + 1 .. Len(u) PROVE Level(u, j) >= Level(u, q[i])
    OBVIOUS
  <2>1. j = l + 1
    BY <1>1, <1>2
  <2>2. QED
    BY <1>1, <1>11, <1>12, <2>1
<1>15. /\ \A i \in 1 .. k : Past(u, ns, ps, r, i)
       /\ \A i \in 2 .. k : Ordered(u, ns, ps, r, i)
  BY <1>13, <1>14, HistoryKept
<1>16. Past(u, ns, ps, r, k + 1)
  <2>1. r[k + 1] \in 1 .. Len(u) /\ ps[k + 1] \in 1 .. Len(ns)
    BY <1>1, <1>2, <1>3, <1>4, <1>10 DEF n
  <2>2. Rises(u[r[k + 1]]) <=> ns[ps[k + 1]].kind = "object"
    BY <1>2, <1>3, <1>4, <1>10
  <2>3. Reads(SubSeq(u, 1, r[k + 1]), SubSeq(ns, 1, ps[k + 1]), SubSeq(ps, 1, k + 1))
    BY <1>3, <1>4, <1>6, <1>7, <1>8
  <2>4. \A j \in r[k + 1] .. Len(u) : Level(u, j) >= Level(u, r[k + 1])
    <3> SUFFICES ASSUME NEW j \in l + 1 .. l + 1 PROVE Level(u, j) >= Level(u, l + 1)
      BY <1>2, <1>4
    <3>1. j = l + 1
      BY <1>1
    <3>2. Level(u, l + 1) \in Int
      BY <1>1, LevelIs
    <3>3. QED
      BY <3>1, <3>2
  <2>5. QED
    BY <1>6, <2>1, <2>2, <2>3, <2>4 DEF Past
<1>17. k + 1 >= 2 => Ordered(u, ns, ps, r, k + 1)
  <2> SUFFICES ASSUME k + 1 >= 2 PROVE Ordered(u, ns, ps, r, k + 1)
    OBVIOUS
  <2>1. k \in 1 .. k /\ k + 1 - 1 = k
    BY <1>1
  <2>2. \A j \in 1 .. k : r[j] < r[k + 1]
    BY <1>1, <1>4
  <2>3. os # <<>>
    BY <1>1, <1>9, <2>1 DEF k
  <2>4. Level(t, l) = Level(t, q[k])
    BY <1>9, <2>3 DEF Evened, l, k
  <2>5. Level(u, r[k + 1]) = Level(u, r[k]) + Rise(ns, ps[k + 1])
    BY <1>3, <1>4, <1>12, <2>1, <2>4
  <2>6. QED
    BY <2>1, <2>2, <2>5 DEF Ordered
<1>18. History(u, ns, ps, r)
  <2>1. ASSUME NEW i \in 1 .. k + 1 PROVE Past(u, ns, ps, r, i)
    <3>1. i \in 1 .. k \/ i = k + 1
      BY <1>1
    <3>2. QED
      BY <1>15, <1>16, <3>1
  <2>2. ASSUME NEW i \in 2 .. k + 1 PROVE Ordered(u, ns, ps, r, i)
    <3>1. i \in 2 .. k \/ (i = k + 1 /\ k + 1 >= 2)
      BY <1>1
    <3>2. QED
      BY <1>15, <1>17, <3>1
  <2>3. QED
    BY <1>3, <1>5, <2>1, <2>2 DEF History
<1>19. Evened(u, ps, r)
  BY <1>2, <1>3, <1>4 DEF Evened
<1>20. QED
  BY <1>18, <1>19 DEF u, ps, r, l, n

\* The innermost structure is closed.
LEMMA HistoryClose ==
  ASSUME NEW t, NEW ns, NEW os, NEW q, History(t, ns, os, q), Evened(t, os, q), os # <<>>,
         NEW m \in Marks, Turn(m) = 0 - Rise(ns, Inner(os))
  PROVE  /\ History(Append(t, m), ns, Outer(os), Outer(q))
         /\ Evened(Append(t, m), Outer(os), Outer(q))
<1> DEFINE u == Append(t, m)
           l == Len(t)
           n == Len(ns)
           L == Len(os)
           k == L - 1
           ps == Outer(os)
           r == Outer(q)
<1>1. /\ Typed(t, ns, os, q) /\ l \in Nat /\ L \in Nat /\ n \in Nat /\ Len(q) = L
      /\ \A i \in 1 .. L : q[i] \in 1 .. l /\ os[i] \in 1 .. n
      /\ \A i \in 1 .. L : Level(t, l) >= Level(t, q[i]) /\ Level(t, q[i]) \in Int
      /\ Level(t, l) \in Int
  BY HistoryIs DEF History
<1>2. u \in Seq(Marks) /\ Len(u) = l + 1 /\ (\A j \in 1 .. l : u[j] = t[j]) /\ u[l + 1] = m
  BY <1>1, TextWith DEF Typed
<1>3. /\ os \in Seq(Nat) /\ q \in Seq(Nat) /\ L >= 1 /\ k \in Nat
      /\ ps \in Seq(Nat) /\ Len(ps) = k /\ \A i \in 1 .. k : ps[i] = os[i]
  <2>1. os \in Seq(Nat) /\ q \in Seq(Nat)
    BY <1>1 DEF Typed
  <2>2. L >= 1 /\ ps \in Seq(Nat) /\ Len(ps) = L - 1 /\ \A i \in 1 .. L - 1 : ps[i] = os[i]
    BY <2>1, OuterIs
  <2> HIDE DEF ps, L
  <2>3. QED
    BY <1>1, <2>1, <2>2
<1>4. r \in Seq(Nat) /\ Len(r) = k /\ \A i \in 1 .. k : r[i] = q[i]
  <2>1. q # <<>>
    BY <1>1, <1>3
  <2>2. r \in Seq(Nat) /\ Len(r) = Len(q) - 1 /\ \A i \in 1 .. Len(q) - 1 : r[i] = q[i]
    BY <1>3, <2>1, OuterIs
  <2> HIDE DEF r, L
  <2>3. QED
    BY <1>1, <2>2
<1>5. Typed(u, ns, ps, r)
  BY <1>1, <1>2, <1>3, <1>4 DEF Typed
<1>6. Turn(m) = 0 - Rise(ns, os[L])
  BY DEF Inner
<1>7. Rise(ns, os[L]) \in {0, 1}
  BY DEF Rise
<1>8. Level(t, l) = Level(t, q[L])
  BY DEF Evened
<1> HIDE DEF u, l, n, L, ps, r
<1>9. L \in 1 .. L /\ (k >= 1 => k \in 1 .. k /\ k \in 1 .. L)
      /\ \A i \in 1 .. k : i \in 1 .. L
  BY <1>1, <1>3
<1>10. Level(u, l + 1) = Level(t, q[L]) - Rise(ns, os[L]) /\ \A i \in 1 .. L : Level(u, q[i]) = Level(t, q[i])
  <2>0. \A j \in 1 .. l : t[j] = u[j]
    BY <1>2
  <2>1. \A j \in 0 .. l : Level(t, j) = Level(u, j)
    BY <1>1, <2>0, LevelSame
  <2>2. Level(u, l + 1) = Level(u, l) + Turn(m)
    BY <1>1, <1>2, LevelIs
  <2>3. l \in 0 .. l /\ \A i \in 1 .. L : q[i] \in 0 .. l
    BY <1>1
  <2>4. Level(u, l + 1) = Level(t, q[L]) + Turn(m)
    BY <1>8, <2>1, <2>2, <2>3
  <2>5. QED
    BY <1>1, <1>6, <1>7, <1>9, <2>1, <2>3, <2>4
<1>11. k >= 1 => /\ Level(t, q[L]) = Level(t, q[k]) + Rise(ns, os[L])
                 /\ \A i \in 1 .. k : Level(t, q[k]) >= Level(t, q[i])
  <2> SUFFICES ASSUME k >= 1
               PROVE  /\ Level(t, q[L]) = Level(t, q[k]) + Rise(ns, os[L])
                      /\ \A i \in 1 .. k : Level(t, q[k]) >= Level(t, q[i])
    OBVIOUS
  <2>1. L \in 2 .. L
    BY <1>1, <1>3
  <2>2. Ordered(t, ns, os, q, L)
    BY <2>1 DEF History, L
  <2>3. Level(t, q[L]) = Level(t, q[k]) + Rise(ns, os[L])
    BY <2>2 DEF Ordered
  <2>4. ASSUME NEW i \in 1 .. k PROVE Level(t, q[k]) >= Level(t, q[i])
    <3>1. CASE i = k
      BY <1>1, <1>9, <3>1
    <3>2. CASE i # k
      <4>1. k \in 2 .. L /\ i \in 1 .. k - 1
        BY <1>1, <1>3, <3>2
      <4>2. Ordered(t, ns, os, q, k)
        BY <4>1 DEF History, L
      <4>3. q[i] < q[k]
        BY <4>1, <4>2 DEF Ordered
      <4>4. q[k] \in q[i] .. l
        BY <1>1, <1>9, <4>3
      <4>5. Past(t, ns, os, q, i)
        BY <1>9 DEF History, L
      <4>6. QED
        BY <4>4, <4>5 DEF Past, l
    <3>3. QED
      BY <3>1, <3>2
  <2>5. QED
    BY <2>3, <2>4
<1>12. k >= 1 => Level(u, l + 1) = Level(u, q[k])
  <2> SUFFICES ASSUME k >= 1 PROVE Level(u, l + 1) = Level(u, q[k])
    OBVIOUS
  <2>1. Level(u, q[k]) = Level(t, q[k]) /\ Level(t, q[k]) \in Int
    BY <1>1, <1>9, <1>10
  <2>2. QED
    BY <1>7, <1>10, <1>11, <2>1
<1>13. Alters(t, u, ns, ns, os, ps, q, r, k, l, n)
  <2>1. k <= Len(os) /\ k <= Len(ps) /\ l <= Len(t) /\ l <= Len(u) /\ n <= Len(ns)
    BY <1>1, <1>2, <1>3 DEF L, l, n
  <2>2. \A i \in 1 .. k : os[i] = ps[i] /\ q[i] = r[i] /\ q[i] <= l /\ os[i] <= n
    <3>1. \A i \in 1 .. k : q[i] <= l /\ os[i] <= n
      BY <1>1, <1>9
    <3>2. QED
      BY <1>3, <1>4, <3>1
  <2>3. QED
    BY <1>1, <1>2, <1>3, <1>5, <2>1, <2>2 DEF Alters
<1>14. \A i \in 1 .. k : \A j \in l + 1 .. Len(u) : Level(u, j) >= Level(u, q[i])
  <2> SUFFICES ASSUME NEW i \in 1 .. k, NEW j \in l + 1 .. Len(u) PROVE Level(u, j) >= Level(u, q[i])
    OBVIOUS
  <2>1. j = l + 1 /\ k >= 1
    BY <1>1, <1>2, <1>3
  <2>2. Level(u, j) = Level(t, q[k]) /\ Level(u, q[i]) = Level(t, q[i])
    BY <1>9, <1>10, <1>12, <2>1
  <2>3. QED
    BY <1>11, <2>1, <2>2
<1>15. /\ \A i \in 1 .. k : Past(u, ns, ps, r, i)
       /\ \A i \in 2 .. k : Ordered(u, ns, ps, r, i)
  BY <1>13, <1>14, HistoryKept
<1>16. History(u, ns, ps, r)
  BY <1>3, <1>5, <1>15 DEF History
<1>17. Evened(u, ps, r)
  <2> SUFFICES ASSUME ps # <<>> PROVE Level(u, l + 1) = Level(u, r[k])
    BY <1>2, <1>3 DEF Evened
  <2>1. k >= 1
    <3>1. k # 0
      BY <1>3
    <3>2. QED
      BY <1>3, <3>1
  <2>2. QED
    BY <1>4, <1>9, <1>12, <2>1
<1>18. QED
  BY <1>16, <1>17 DEF u, ps, r

\* The text is cut where level k is the innermost again.
LEMMA HistoryCut ==
  ASSUME NEW t, NEW ns, NEW os, NEW q, History(t, ns, os, q),
         NEW k \in 0 .. Len(os), NEW l \in 0 .. Len(t), NEW n \in 0 .. Len(ns),
         \A i \in 1 .. k : q[i] <= l /\ os[i] <= n,
         k >= 1 => Level(t, l) = Level(t, q[k])
  PROVE  \E r : /\ History(SubSeq(t, 1, l), SubSeq(ns, 1, n), SubSeq(os, 1, k), r)
                /\ Evened(SubSeq(t, 1, l), SubSeq(os, 1, k), r)
<1> DEFINE u == SubSeq(t, 1, l)
           xs == SubSeq(ns, 1, n)
           ps == SubSeq(os, 1, k)
           r == SubSeq(q, 1, k)
<1>1. /\ Typed(t, ns, os, q) /\ Len(t) \in Nat /\ Len(os) \in Nat /\ Len(ns) \in Nat /\ Len(q) = Len(os)
      /\ \A i \in 1 .. Len(os) : q[i] \in 1 .. Len(t) /\ os[i] \in 1 .. Len(ns)
  BY HistoryIs DEF History
<1>2. k \in Nat /\ l \in Nat /\ n \in Nat /\ k <= Len(os) /\ l <= Len(t) /\ n <= Len(ns)
  BY <1>1
<1>3. u \in Seq(Marks) /\ Len(u) = l /\ \A j \in 1 .. l : u[j] = t[j]
  <2>1. /\ t \in Seq(Marks) /\ 1 \in 1 .. Len(t) + 1 /\ l \in 1 - 1 .. Len(t) /\ l - 1 + 1 = l
        /\ \A j \in 1 .. l : 1 + j - 1 = j
    BY <1>1 DEF Typed
  <2>2. u \in Seq(Marks) /\ Len(u) = l - 1 + 1 /\ \A j \in 1 .. l - 1 + 1 : u[j] = t[1 + j - 1]
    BY <2>1, SubSeqIs
  <2> HIDE DEF u
  <2>3. QED
    BY <2>1, <2>2
<1>4. xs \in Seq(Nodes) /\ Len(xs) = n /\ \A j \in 1 .. n : xs[j] = ns[j]
  <2>1. /\ ns \in Seq(Nodes) /\ 1 \in 1 .. Len(ns) + 1 /\ n \in 1 - 1 .. Len(ns) /\ n - 1 + 1 = n
        /\ \A j \in 1 .. n : 1 + j - 1 = j
    BY <1>1 DEF Typed
  <2>2. xs \in Seq(Nodes) /\ Len(xs) = n - 1 + 1 /\ \A j \in 1 .. n - 1 + 1 : xs[j] = ns[1 + j - 1]
    BY <2>1, SubSeqIs
  <2> HIDE DEF xs
  <2>3. QED
    BY <2>1, <2>2
<1>5. ps \in Seq(Nat) /\ Len(ps) = k /\ \A j \in 1 .. k : ps[j] = os[j]
  <2>1. /\ os \in Seq(Nat) /\ 1 \in 1 .. Len(os) + 1 /\ k \in 1 - 1 .. Len(os) /\ k - 1 + 1 = k
        /\ \A j \in 1 .. k : 1 + j - 1 = j
    BY <1>1 DEF Typed
  <2>2. ps \in Seq(Nat) /\ Len(ps) = k - 1 + 1 /\ \A j \in 1 .. k - 1 + 1 : ps[j] = os[1 + j - 1]
    BY <2>1, SubSeqIs
  <2> HIDE DEF ps
  <2>3. QED
    BY <2>1, <2>2
<1>6. r \in Seq(Nat) /\ Len(r) = k /\ \A j \in 1 .. k : r[j] = q[j]
  <2>1. /\ q \in Seq(Nat) /\ 1 \in 1 .. Len(q) + 1 /\ k \in 1 - 1 .. Len(q) /\ k - 1 + 1 = k
        /\ \A j \in 1 .. k : 1 + j - 1 = j
    BY <1>1 DEF Typed
  <2>2. r \in Seq(Nat) /\ Len(r) = k - 1 + 1 /\ \A j \in 1 .. k - 1 + 1 : r[j] = q[1 + j - 1]
    BY <2>1, SubSeqIs
  <2> HIDE DEF r
  <2>3. QED
    BY <2>1, <2>2
<1> HIDE DEF u, xs, ps, r
<1>7. Typed(u, xs, ps, r)
  BY <1>3, <1>4, <1>5, <1>6 DEF Typed
<1>8. Alters(t, u, ns, xs, os, ps, q, r, k, l, n)
  <2>1. /\ k <= Len(ps) /\ l <= Len(u) /\ n <= Len(xs)
    BY <1>2, <1>3, <1>4, <1>5
  <2>2. /\ \A j \in 1 .. l : t[j] = u[j]
        /\ \A j \in 1 .. n : ns[j] = xs[j]
        /\ \A i \in 1 .. k : os[i] = ps[i] /\ q[i] = r[i]
    BY <1>3, <1>4, <1>5, <1>6
  <2>3. QED
    BY <1>1, <1>2, <1>7, <2>1, <2>2 DEF Alters
<1>9. \A i \in 1 .. k : \A j \in l + 1 .. Len(u) : Level(u, j) >= Level(u, q[i])
  <2>1. l + 1 .. Len(u) = {}
    BY <1>2, <1>3
  <2>2. QED
    BY <2>1
<1>10. /\ \A i \in 1 .. k : Past(u, xs, ps, r, i)
       /\ \A i \in 2 .. k : Ordered(u, xs, ps, r, i)
  BY <1>8, <1>9, HistoryKept
<1>11. History(u, xs, ps, r)
  BY <1>5, <1>7, <1>10 DEF History
<1>12. Evened(u, ps, r)
  <2> SUFFICES ASSUME ps # <<>> PROVE Level(u, l) = Level(u, r[k])
    BY <1>3, <1>5 DEF Evened
  <2>1. k >= 1
    <3>1. k # 0
      BY <1>5
    <3>2. QED
      BY <1>2, <3>1
  <2>2. k \in 1 .. k /\ k \in 1 .. Len(os)
    BY <1>1, <1>2, <2>1
  <2>3. q[k] \in 0 .. l /\ l \in 0 .. l
    <3>1. q[k] \in 1 .. Len(t) /\ q[k] <= l
      BY <1>1, <2>2
    <3>2. QED
      BY <1>1, <1>2, <3>1
  <2>4. \A j \in 0 .. l : Level(t, j) = Level(u, j)
    <3>1. \A j \in 1 .. l : t[j] = u[j]
      BY <1>3
    <3>2. QED
      BY <1>2, <3>1, LevelSame
  <2>5. QED
    BY <1>6, <2>1, <2>2, <2>3, <2>4
<1>13. QED
  BY <1>11, <1>12 DEF u, xs, ps

Deeper(s) == IF s = "object" THEN 1 ELSE 0

LEMMA TurnsAre ==
  /\ Turn(J!Mark(",")) = 0
  /\ \A key : Turn(J!Key(key)) = 0 /\ J!Key(key).mark = "key"
  /\ \A m \in {"string", "primitive"} : Turn(J!Mark(m)) = 0
  /\ \A s \in Structures : /\ Turn(J!Opening(s)) = Deeper(s) /\ (Rises(J!Opening(s)) <=> s = "object")
                           /\ Turn(Closer(s)) = 0 - Deeper(s)
<1>1. \A x \in {",", "string", "primitive"} : J!Mark(x).mark = x
  BY DEF J!Mark
<1>2. \A key : J!Key(key).mark = "key"
  BY DEF J!Key
<1>3. /\ J!Opening("array").mark = "[" /\ J!Opening("object").mark = "{"
      /\ Closer("array").mark = "]" /\ Closer("object").mark = "}"
  BY DEF J!Opening, Closer, J!Mark
<1>4. \A x \in Structures : x = "array" \/ x = "object"
  BY DEF Structures
<1>5. ~ Rises(J!Mark(",")) /\ ~ Falls(J!Mark(","))
  BY <1>1 DEF Rises, Falls, Brace1, Brace2
<1>6. \A key : ~ Rises(J!Key(key)) /\ ~ Falls(J!Key(key))
  BY <1>2 DEF Rises, Falls, Brace1, Brace2
<1>7. \A x \in {"string", "primitive"} : ~ Rises(J!Mark(x)) /\ ~ Falls(J!Mark(x))
  BY <1>1 DEF Rises, Falls, Brace1, Brace2
<1>8. /\ ~ Rises(J!Opening("array")) /\ ~ Falls(J!Opening("array")) /\ Rises(J!Opening("object"))
      /\ ~ Rises(Closer("array")) /\ ~ Falls(Closer("array"))
      /\ ~ Rises(Closer("object")) /\ Falls(Closer("object"))
  BY <1>3 DEF Rises, Falls, Brace1, Brace2
<1>9. \A x : Turn(x) = IF Rises(x) THEN 1 ELSE IF Falls(x) THEN -1 ELSE 0
  BY DEF Turn
<1>10. Deeper("array") = 0 /\ Deeper("object") = 1
  BY DEF Deeper
<1>11. Turn(Closer("object")) = 0 - 1 /\ Turn(Closer("array")) = 0 - 0
       /\ Turn(J!Opening("object")) = 1 /\ Turn(J!Opening("array")) = 0
  BY <1>8, <1>9
<1>12. QED
  <2>1. \A s \in Structures : /\ Turn(J!Opening(s)) = Deeper(s) /\ (Rises(J!Opening(s)) <=> s = "object")
                              /\ Turn(Closer(s)) = 0 - Deeper(s)
    <3> SUFFICES ASSUME NEW s \in Structures
                 PROVE  /\ Turn(J!Opening(s)) = Deeper(s) /\ (Rises(J!Opening(s)) <=> s = "object")
                        /\ Turn(Closer(s)) = 0 - Deeper(s)
      OBVIOUS
    <3>1. CASE s = "array"
      BY <1>8, <1>10, <1>11, <3>1
    <3>2. CASE s = "object"
      BY <1>8, <1>10, <1>11, <3>2
    <3>3. QED
      BY <1>4, <3>1, <3>2
  <2>2. /\ Turn(J!Mark(",")) = 0
        /\ \A key : Turn(J!Key(key)) = 0
        /\ \A m \in {"string", "primitive"} : Turn(J!Mark(m)) = 0
    BY <1>5, <1>6, <1>7, <1>9
  <2>3. QED
    BY <1>2, <2>1, <2>2

LEMMA CommasAre ==
  ASSUME NEW t \in Seq(Marks)
  PROVE  /\ Commas(t) \in Seq(Marks)
         /\ Commas(t) # <<>> => CutMark(Commas(t)[Len(Commas(t))])
         /\ t # <<>> => Commas(t) # <<>>
         /\ Commas(t) # <<>> /\ CommaMark(Commas(t)[Len(Commas(t))]) => Commas(t) = Append(t, J!Mark(","))
<1> DEFINE m == J!Mark(",")
<1>1. m \in Marks /\ m.mark = ","
  BY CommaMarkIs DEF CommaMark
<1>2. CutMark(m)
  BY <1>1 DEF CutMark
<1>3. \A x : x.mark \in J!Openers => CutMark(x) /\ ~ CommaMark(x)
  BY DEF CutMark, CommaMark, J!Openers
<1> HIDE DEF m
<1>4. Append(t, m) \in Seq(Marks) /\ Append(t, m) # <<>> /\ Append(t, m)[Len(Append(t, m))] = m
  <2>1. m \in Marks
    BY <1>1
  <2>2. QED
    BY <2>1, TextWith
<1>5. CASE Fresh(t)
  BY <1>3, <1>5, Zenon DEF Commas, Fresh
<1>6. CASE ~ Fresh(t)
  BY <1>2, <1>4, <1>6, Zenon DEF Commas, Fresh, m
<1>7. QED
  BY <1>5, <1>6

LEMMA SomeText ==
  ASSUME NEW t \in Seq(Marks), t # <<>>
  PROVE  Len(t) # 0
OBVIOUS

LEMMA OneLess == \A x \in Nat : \A y : y = x + 1 => y - 1 = x
OBVIOUS

\* What comes before a bracket that has a key.
LEMMA KeyNamed ==
  ASSUME NEW u, NEW xs, NEW ps, NEW r, NEW x, NEW L, NEW n, NEW b,
         x - 1 = L, ps[x] - 1 = n, r[x] = b, b > 2, CutMark(u[b - 2]),
         CommaMark(u[b - 2]) =>
           x > 1 /\ r[L] <= b - 3 /\ Reads(SubSeq(u, 1, b - 3), SubSeq(xs, 1, n), SubSeq(ps, 1, L))
  PROVE  BeforeKey(u, xs, ps, r, x)
<1>1. CommaMark(u[b - 2]) =>
           x > 1 /\ r[x - 1] <= b - 3 /\ Reads(SubSeq(u, 1, b - 3), SubSeq(xs, 1, ps[x] - 1), SubSeq(ps, 1, x - 1))
  BY Zenon
<1>4. QED
  BY <1>1 DEF BeforeKey

\* What stands before the bracket of a new structure.
LEMMA KeyBefore ==
  ASSUME NEW t, NEW ns, NEW os, NEW q, Reads(t, ns, os), History(t, ns, os, q),
         NEW e, Joins(ns, os, e), NEW m \in Marks, NEW v,
         v = IF e.key = J!NoKey THEN Commas(t) ELSE Append(Commas(t), J!Key(e.key))
  PROVE  BeforeKey(Append(v, m), Append(ns, e), Append(os, Len(ns) + 1), Append(q, Len(v) + 1), Len(os) + 1)
<1> DEFINE c == Commas(t)
           u == Append(v, m)
           n == Len(ns)
           L == Len(os)
           xs == Append(ns, e)
           ps == Append(os, n + 1)
           r == Append(q, Len(v) + 1)
           b == Len(v) + 1
<1>1. /\ t \in Seq(Marks) /\ ns \in Seq(Nodes) /\ os \in Seq(Nat) /\ q \in Seq(Nat) /\ Len(q) = L
      /\ e \in Nodes
  BY DEF History, Typed, Joins
<1>2. /\ c \in Seq(Marks)
      /\ c # <<>> => CutMark(c[Len(c)])
      /\ t # <<>> => c # <<>>
      /\ c # <<>> /\ CommaMark(c[Len(c)]) => c = Append(t, J!Mark(","))
  BY <1>1, CommasAre
<1>3. J!Key(e.key) \in Marks
  <2>1. e.key \in Members \cup {J!NoKey}
    BY <1>1 DEF Nodes
  <2>2. QED
    BY <2>1, MarksAre
<1>4. v \in Seq(Marks) /\ Len(v) \in Nat
  <2>1. v \in Seq(Marks)
    BY <1>2, <1>3, TextWith
  <2>2. QED
    BY <2>1, TextIs
<1>5. /\ n \in Nat /\ L \in Nat /\ Len(t) \in Nat
      /\ \A i \in 1 .. L : q[i] \in 1 .. Len(t)
  BY HistoryIs
<1>6. u \in Seq(Marks) /\ \A j \in 1 .. Len(v) : u[j] = v[j]
  BY <1>4, TextWith
<1>7. /\ r[L + 1] = b /\ ps[L + 1] = n + 1 /\ \A i \in 1 .. L : r[i] = q[i]
  <2>1. n + 1 \in Nat /\ Len(v) + 1 \in Nat
    BY <1>4, <1>5
  <2>2. ps[L + 1] = n + 1
    BY <1>1, <2>1, NumbersWith
  <2>3. r[L + 1] = b /\ \A i \in 1 .. L : r[i] = q[i]
    BY <1>1, <2>1, NumbersWith
  <2>4. QED
    BY <2>2, <2>3
<1>8. SubSeq(ps, 1, L) = os
  <2>1. n + 1 \in Nat
    BY <1>5
  <2>2. QED
    BY <1>1, <2>1, NumbersWith
<1>9. SubSeq(xs, 1, n) = ns
  <2>1. /\ xs \in Seq(Nodes) /\ Len(xs) = n + 1
        /\ \A j \in 1 .. n : xs[j] = ns[j]
    BY <1>1, NodesWith
  <2>2. SubSeq(xs, 1, n) = SubSeq(ns, 1, n)
    <3>1. n \in 0 .. n /\ n <= Len(xs) /\ n <= Len(ns)
      BY <1>5, <2>1
    <3>2. QED
      BY <1>1, <1>5, <2>1, <3>1, PrefixSame
  <2>3. QED
    BY <1>1, <2>2, WholeText
<1>10. Reads(t, ns, os) /\ (e.key # J!NoKey => os # <<>>)
  BY DEF Joins
<1> HIDE DEF c, u, n, L, xs, ps, r
<1>11. CASE e.key = J!NoKey
  <2>1. v = c
    BY <1>11 DEF c
  <2>2. ~ (b > 1 /\ u[b - 1].mark = "key")
    <3> SUFFICES ASSUME b > 1 PROVE u[b - 1].mark # "key"
      OBVIOUS
    <3>1. b - 1 = Len(c) /\ b - 1 \in 1 .. Len(v)
      BY <1>4, <2>1
    <3>2. c # <<>>
      BY <1>4, <2>1, <3>1
    <3>3. CutMark(u[b - 1])
      BY <1>2, <1>6, <2>1, <3>1, <3>2
    <3>4. QED
      BY <3>3 DEF CutMark, J!Openers
  <2>3. BeforeKey(u, xs, ps, r, L + 1)
    BY <1>7, <2>2 DEF BeforeKey
  <2>4. QED
    BY <2>3 DEF u, xs, ps, r, L, n
<1>12. CASE e.key # J!NoKey
  <2> DEFINE k == J!Key(e.key)
  <2>1. v = Append(c, k)
    BY <1>12 DEF c
  <2>14. k \in Marks
    BY <1>3
  <2> HIDE DEF k
  <2>2. Len(v) = Len(c) + 1 /\ Len(c) \in Nat /\ \A j \in 1 .. Len(c) : v[j] = c[j]
    <3>1. c \in Seq(Marks)
      BY <1>2
    <3>2. /\ Len(Append(c, k)) = Len(c) + 1 /\ Len(c) \in Nat
          /\ \A j \in 1 .. Len(c) : Append(c, k)[j] = c[j]
      BY <2>14, <3>1, TextWith
    <3>3. QED
      BY <2>1, <3>2
  <2>3. L # 0
    BY <1>1, <1>10, <1>12 DEF L
  <2>4. L \in 1 .. L
    BY <1>5, <2>3
  <2>5. Len(t) >= 1 /\ q[L] <= Len(t)
    BY <1>5, <2>4
  <2>6. t # <<>>
    BY <1>1, <2>5
  <2>7. c # <<>> /\ Len(c) >= 1
    <3>1. c # <<>>
      BY <1>2, <2>6
    <3>2. Len(c) # 0
      <4>1. c \in Seq(Marks)
        BY <1>2
      <4>2. QED
        BY <3>1, <4>1, SomeText
    <3>3. QED
      BY <2>2, <3>1, <3>2
  <2>8. b > 2 /\ b - 2 = Len(c) /\ b - 2 \in 1 .. Len(c) /\ b - 2 \in 1 .. Len(v)
    BY <1>4, <2>2, <2>7
  <2>9. u[b - 2] = c[Len(c)]
    BY <1>6, <2>2, <2>8
  <2>10. CutMark(u[b - 2])
    BY <1>2, <2>7, <2>9
  <2>11. ASSUME CommaMark(u[b - 2])
         PROVE  /\ L + 1 > 1 /\ r[L + 1 - 1] <= b - 3
                /\ Reads(SubSeq(u, 1, b - 3), SubSeq(xs, 1, n + 1 - 1), SubSeq(ps, 1, L + 1 - 1))
    <3>1. c = Append(t, J!Mark(","))
      BY <1>2, <2>7, <2>9, <2>11
    <3>2. Len(c) = Len(t) + 1 /\ \A j \in 1 .. Len(t) : c[j] = t[j]
      <4>1. J!Mark(",") \in Marks
        BY MarksAre
      <4>2. QED
        BY <1>1, <3>1, <4>1, TextWith
    <3>3. b - 3 = Len(t) /\ L + 1 - 1 = L /\ n + 1 - 1 = n /\ L + 1 > 1
      BY <1>5, <2>2, <2>4, <3>2
    <3>4. SubSeq(u, 1, Len(t)) = t
      <4>1. \A j \in 1 .. Len(t) : u[j] = t[j]
        <5>1. \A j \in 1 .. Len(t) : j \in 1 .. Len(c) /\ j \in 1 .. Len(v)
          BY <1>5, <2>2, <3>2
        <5>2. QED
          BY <1>6, <2>2, <3>2, <5>1
      <4>2. Len(t) <= Len(u) /\ Len(t) <= Len(t) /\ Len(t) \in 0 .. Len(t)
        <5>1. Len(u) = Len(v) + 1
          BY <1>4, TextWith DEF u
        <5>2. QED
          BY <1>5, <2>2, <3>2, <5>1
      <4>3. SubSeq(u, 1, Len(t)) = SubSeq(t, 1, Len(t))
        BY <1>1, <1>5, <1>6, <4>1, <4>2, PrefixSame
      <4>4. QED
        BY <1>1, <4>3, WholeText
    <3>5. r[L] = q[L]
      BY <1>7, <2>4
    <3>6. QED
      BY <1>8, <1>9, <1>10, <2>5, <3>3, <3>4, <3>5
  <2>12. BeforeKey(u, xs, ps, r, L + 1)
    <3>1. r[L + 1] = b /\ ps[L + 1] = n + 1
      BY <1>7
    <3>2. b > 2 /\ CutMark(u[b - 2])
      BY <2>8, <2>10
    <3>3. L \in Nat /\ n \in Nat
      BY <1>5
    <3>4. L + 1 - 1 = L /\ n + 1 - 1 = n
      BY <3>3
    <3> HIDE DEF b
    <3>5. CommaMark(u[b - 2]) =>
            L + 1 > 1 /\ r[L] <= b - 3 /\ Reads(SubSeq(u, 1, b - 3), SubSeq(xs, 1, n), SubSeq(ps, 1, L))
      BY <2>11, <3>4, Zenon
    <3>6. ps[L + 1] - 1 = n
      BY <3>1, <3>3, OneLess, Zenon
    <3> DEFINE x == L + 1
    <3>7. x - 1 = L /\ ps[x] - 1 = n /\ r[x] = b
      <4>1. x - 1 = L
        BY <3>3
      <4>2. r[x] = b
        BY <3>1
      <4>3. ps[x] - 1 = n
        BY <3>6
      <4>4. QED
        BY <4>1, <4>2, <4>3
    <3>10. CommaMark(u[b - 2]) =>
              x > 1 /\ r[L] <= b - 3 /\ Reads(SubSeq(u, 1, b - 3), SubSeq(xs, 1, n), SubSeq(ps, 1, L))
      BY <3>5, Zenon
    <3> HIDE DEF x
    <3>8. BeforeKey(u, xs, ps, r, x)
      BY <3>2, <3>7, <3>10, KeyNamed
    <3>9. QED
      BY <3>8 DEF x
  <2>13. QED
    BY <2>12 DEF u, xs, ps, r, L, n
<1>13. QED
  BY <1>11, <1>12

\* The next member, in the text and in the tree.
LEMMA HistoryGrows ==
  ASSUME NEW t, NEW ns, NEW os, NEW q, Reads(t, ns, os), History(t, ns, os, q), Evened(t, os, q),
         NEW e, Joins(ns, os, e), NEW m, MarkOf(m, e.kind),
         IF e.kind \in Structures THEN m = J!Opening(e.kind) ELSE Turn(m) = 0
  PROVE  \E r : /\ History(Written(t, e.key, m), Append(ns, e), Opened(ns, os, e), r)
                /\ Evened(Written(t, e.key, m), Opened(ns, os, e), r)
<1> DEFINE c == Commas(t)
           k == J!Key(e.key)
           v == IF e.key = J!NoKey THEN c ELSE Append(c, k)
           u == Append(v, m)
           xs == Append(ns, e)
<1>1. t \in Seq(Marks) /\ ns \in Seq(Nodes) /\ e \in Nodes /\ m \in Marks
  BY DEF History, Typed, Joins, MarkOf
<1>2. History(c, ns, os, q) /\ Evened(c, os, q)
  <2>1. CASE Fresh(t)
    BY <2>1 DEF Commas
  <2>2. CASE ~ Fresh(t)
    <3>1. J!Mark(",") \in Marks /\ Turn(J!Mark(",")) = 0
      BY MarksAre, TurnsAre
    <3>2. QED
      BY <2>2, <3>1, HistoryMark DEF Commas
  <2>3. QED
    BY <2>1, <2>2
<1>3. k \in Marks /\ Turn(k) = 0
  <2>1. e.key \in Members \cup {J!NoKey}
    BY <1>1 DEF Nodes
  <2>2. QED
    BY <2>1, MarksAre, TurnsAre
<1> HIDE DEF c, k
<1>4. History(v, ns, os, q) /\ Evened(v, os, q)
  BY <1>2, <1>3, HistoryMark
<1>5. Written(t, e.key, m) = u
  BY DEF Written, c, k
<1>6. BeforeKey(u, xs, Append(os, Len(ns) + 1), Append(q, Len(v) + 1), Len(os) + 1)
  BY <1>1, KeyBefore DEF c, k
<1>7. Reads(u, xs, Opened(ns, os, e))
  BY <1>5, ReadsGrow
<1> HIDE DEF v
<1>8. CASE e.kind \notin Structures
  <2>1. Turn(m) = 0 /\ Opened(ns, os, e) = os
    BY <1>8 DEF Opened
  <2>2. History(u, ns, os, q) /\ Evened(u, os, q)
    BY <1>1, <1>4, <2>1, HistoryMark
  <2>3. History(u, xs, os, q)
    BY <1>1, <2>2, HistoryNode
  <2>4. QED
    BY <1>5, <2>1, <2>2, <2>3
<1>9. CASE e.kind \in Structures
  <2> DEFINE n == Len(xs)
             ps == Append(os, n)
             r == Append(q, Len(v) + 1)
  <2>1. Len(ns) \in Nat /\ n = Len(ns) + 1 /\ xs[n] = e
    BY <1>1, NodesAre, NodesWith
  <2>2. Opened(ns, os, e) = ps
    BY <1>9, <2>1 DEF Opened
  <2>3. History(v, xs, os, q)
    BY <1>1, <1>4, HistoryNode
  <2>4. /\ Turn(m) = Rise(xs, n) /\ (Rises(m) <=> xs[n].kind = "object") /\ n >= 1
    <3>1. m = J!Opening(e.kind)
      BY <1>9
    <3>2. Turn(m) = Deeper(e.kind) /\ (Rises(m) <=> e.kind = "object")
      BY <1>9, <3>1, TurnsAre
    <3>3. QED
      BY <2>1, <3>2 DEF Rise, Deeper
  <2>5. Reads(u, xs, ps) /\ BeforeKey(u, xs, ps, r, Len(os) + 1)
    BY <1>6, <1>7, <2>1, <2>2
  <2>6. History(u, xs, ps, r) /\ Evened(u, ps, r)
    <3> HIDE DEF xs
    <3>1. QED
      BY <1>1, <1>4, <2>3, <2>4, <2>5, HistoryOpen
  <2>7. QED
    BY <1>5, <2>2, <2>6
<1>10. QED
  BY <1>8, <1>9

-----------------------------------------------------------------------------
(***************************************************************************)
(* The invariant. While a document is being built its text is read as its  *)
(* tree, and what is open can be taken away; after it has ended the text   *)
(* is read as the whole tree.                                              *)
(***************************************************************************)
\* A text that is the tree, and from which what is open can be taken away.
Doc(t, ns, os) == Reads(t, ns, os) /\ \E q : History(t, ns, os, q) /\ Evened(t, os, q)
DocInv ==
  /\ phase # "spoiled" => Reads(text, nodes, j_cur)
  /\ phase = "building" => Doc(text, nodes, j_cur)

\* Nothing written: nothing is open.
LEMMA DocNothing == Doc(<<>>, <<>>, <<>>)
<1>1. /\ <<>> \in Seq(Marks) /\ <<>> \in Seq(Nodes) /\ <<>> \in Seq(Nat) /\ Len(<<>>) = 0
      /\ 1 .. 0 = {} /\ 2 .. 0 = {}
  OBVIOUS
<1>2. Typed(<<>>, <<>>, <<>>, <<>>)
  BY <1>1 DEF Typed
<1>3. History(<<>>, <<>>, <<>>, <<>>) /\ Evened(<<>>, <<>>, <<>>)
  BY <1>1, <1>2, Zenon DEF History, Evened
<1>4. QED
  BY <1>3, ReadsNothing DEF Doc

\* A member joins the document.
LEMMA DocGrows ==
  ASSUME NEW t, NEW ns, NEW os, Doc(t, ns, os), NEW e, Joins(ns, os, e),
         NEW m, MarkOf(m, e.kind),
         IF e.kind \in Structures THEN m = J!Opening(e.kind) ELSE Turn(m) = 0
  PROVE  Doc(Written(t, e.key, m), Append(ns, e), Opened(ns, os, e))
<1>1. PICK q : History(t, ns, os, q) /\ Evened(t, os, q)
  BY DEF Doc
<1>2. Reads(t, ns, os)
  BY DEF Doc
<1>3. Reads(Written(t, e.key, m), Append(ns, e), Opened(ns, os, e))
  BY <1>2, ReadsGrow
<1>4. \E r : /\ History(Written(t, e.key, m), Append(ns, e), Opened(ns, os, e), r)
             /\ Evened(Written(t, e.key, m), Opened(ns, os, e), r)
  BY <1>1, <1>2, HistoryGrows
<1>5. QED
  BY <1>3, <1>4 DEF Doc

\* The invariant at the start.
LEMMA DocInit == J!Init => DocInv
<1> SUFFICES ASSUME J!Init PROVE DocInv
  OBVIOUS
<1>1. text = <<>> /\ nodes = <<>> /\ j_cur = <<>>
  BY DEF J!Init
<1>2. Doc(text, nodes, j_cur)
  BY <1>1, DocNothing
<1>3. QED
  BY <1>2 DEF DocInv, Doc

\* A member is added where the encoder of text stands.
LEMMA MemberJoins ==
  ASSUME JsonInv, MemberBounds, j_cur # <<>>, NEW key \in J!KeysHere, NEW e \in Nodes,
         e.key = key, e.parent = J!Current
  PROVE  Joins(nodes, j_cur, e)
<1>1. J!Current = j_cur[Len(j_cur)] /\ J!KindOf(J!Current) = nodes[J!Current].kind
  BY OpenIs
<1>2. Inner(j_cur) = J!Current
  BY <1>1 DEF Inner
<1>3. key # J!NoKey <=> J!KindOf(J!Current) = "object"
  BY KeyHere
<1>4. QED
  BY <1>1, <1>2, <1>3 DEF Joins

LEMMA AppendedTwo ==
  /\ \A x, y : Append(<<x>>, y) = <<x, y>>
  /\ Append(<<1>>, 1 + 1) = <<1, 2>>
<1>1. \A x, y : Append(<<x>>, y) = <<x, y>>
  BY ShortOnes
<1>2. 1 + 1 = 2
  OBVIOUS
<1>3. QED
  BY <1>1, <1>2, Zenon

\* A structure is started.
LEMMA StartDoc ==
  ASSUME JsonInv, MemberBounds, DocInv, J!Start
  PROVE  Doc(text', nodes', j_cur')
<1>1. PICK s \in Structures, key \in J!KeysHere :
        J!Becomes(J!StructStart(J!Encoder, key, s)) /\ J!AddNode(key, s)
  BY DEF J!Start, Structures
<1>2. phase = "building" /\ phase' = phase
  BY DEF J!Start, J!Call
<1>3. Doc(text, nodes, j_cur)
  BY <1>2 DEF DocInv
<1>4. CASE j_cur # <<>>
  <2>1. PICK e \in Nodes :
          /\ e.kind = s /\ e.key = key /\ e.parent = J!Current
          /\ nodes' = Append(nodes, e)
          /\ j_cur' = IF s \in Structures THEN Append(j_cur, Len(nodes) + 1) ELSE j_cur
    <3>1. s \in Structures \cup {"string", "primitive"}
      OBVIOUS
    <3>2. QED
      BY <1>1, <1>2, <1>4, <3>1, OneAdded
  <2>2. text' = Written(text, e.key, J!Opening(s))
    BY <1>1, <1>4, <2>1, StartWritten
  <2>3. Joins(nodes, j_cur, e)
    BY <1>4, <2>1, MemberJoins
  <2>4. MarkOf(J!Opening(s), e.kind) /\ e.kind \in Structures /\ J!Opening(s) = J!Opening(e.kind)
    BY <2>1, MarksOf
  <2>5. j_cur' = Opened(nodes, j_cur, e)
    BY <2>1, <2>4 DEF Opened
  <2>6. Doc(Written(text, e.key, J!Opening(s)), Append(nodes, e), Opened(nodes, j_cur, e))
    BY <1>3, <2>3, <2>4, DocGrows
  <2>7. QED
    BY <2>1, <2>2, <2>5, <2>6
<1>5. CASE j_cur = <<>>
  <2>1. text = <<>> /\ nodes = <<>> /\ structs = <<>>
    BY <1>2, <1>5, NoneOpen DEF JsonInv, TextBegins
  <2>2. key \in Members \cup {J!NoKey}
    BY <1>5, NoneOpen DEF J!KeysHere
  <2>3. Inner(<<>>) = 0 /\ Len(<<>>) = 0
    BY DEF Inner
  <2>4. ASSUME NEW e \in Nodes, NEW z \in Structures, e.kind = z, e.key = J!NoKey, e.parent = 0
        PROVE  Doc(Written(<<>>, J!NoKey, J!Opening(z)), <<e>>, <<1>>)
    <3>1. Joins(<<>>, <<>>, e)
      BY <2>3, <2>4 DEF Joins
    <3>2. MarkOf(J!Opening(z), e.kind) /\ e.kind \in Structures /\ J!Opening(z) = J!Opening(e.kind)
      BY <2>4, MarksOf
    <3>3. Doc(Written(<<>>, e.key, J!Opening(z)), Append(<<>>, e), Opened(<<>>, <<>>, e))
      BY <3>1, <3>2, DocNothing, DocGrows
    <3>4. Append(<<>>, e) = <<e>> /\ Append(<<>>, 1) = <<1>> /\ 0 + 1 = 1
      OBVIOUS
    <3>5. Opened(<<>>, <<>>, e) = <<1>>
      BY <2>3, <3>2, <3>4 DEF Opened
    <3>6. QED
      BY <2>4, <3>3, <3>4, <3>5
  <2>5. CASE key = J!NoKey
    <3>1. PICK e \in Nodes :
            /\ e.kind = s /\ e.parent = 0 /\ e.key = J!NoKey
            /\ nodes' = <<e>> /\ j_cur' = <<1>>
      BY <1>1, <1>5, <2>1, <2>2, <2>5, FirstAdded
    <3>2. text' = Written(<<>>, J!NoKey, J!Opening(s))
      BY <1>1, <2>1, <2>2, <2>5, FirstWritten
    <3>3. QED
      BY <2>4, <3>1, <3>2
  <2>6. CASE key # J!NoKey
    <3>1. PICK o \in Nodes, e \in Nodes :
            /\ o.kind = "object" /\ o.parent = 0 /\ o.key = J!NoKey
            /\ e.kind = s /\ e.parent = 1 /\ e.key = key
            /\ nodes' = <<o, e>> /\ j_cur' = <<1, 2>>
      BY <1>1, <1>5, <2>1, <2>2, <2>6, FirstAdded
    <3>2. text' = Written(Written(<<>>, J!NoKey, J!Opening("object")), key, J!Opening(s))
      BY <1>1, <2>1, <2>2, <2>6, FirstWritten
    <3>3. Doc(Written(<<>>, J!NoKey, J!Opening("object")), <<o>>, <<1>>)
      <4>1. "object" \in Structures
        BY DEF Structures
      <4>2. QED
        BY <2>4, <3>1, <4>1
    <3>4. <<1>> # <<>> /\ <<1>>[Len(<<1>>)] = 1 /\ <<o>>[1] = o /\ Len(<<o>>) = 1
      OBVIOUS
    <3>5. Inner(<<1>>) = 1
      BY <3>4 DEF Inner
    <3>6. Joins(<<o>>, <<1>>, e)
      BY <2>6, <3>1, <3>4, <3>5 DEF Joins
    <3>7. MarkOf(J!Opening(s), e.kind) /\ e.kind \in Structures /\ J!Opening(s) = J!Opening(e.kind)
      BY <3>1, MarksOf
    <3>8. Doc(Written(Written(<<>>, J!NoKey, J!Opening("object")), e.key, J!Opening(s)),
              Append(<<o>>, e), Opened(<<o>>, <<1>>, e))
      BY <3>3, <3>6, <3>7, DocGrows
    <3>9. Append(<<o>>, e) = <<o, e>> /\ Append(<<1>>, 1 + 1) = <<1, 2>>
      BY AppendedTwo
    <3>10. Opened(<<o>>, <<1>>, e) = <<1, 2>>
      BY <3>4, <3>7, <3>9 DEF Opened
    <3>11. QED
      BY <3>1, <3>2, <3>8, <3>9, <3>10
  <2>7. QED
    BY <2>5, <2>6
<1>6. QED
  BY <1>4, <1>5

\* A value is written.
LEMMA ValueDoc ==
  ASSUME JsonInv, MemberBounds, DocInv, J!Value
  PROVE  Doc(text', nodes', j_cur')
<1>1. PICK m \in {"string", "primitive"}, key \in J!KeysHere :
        J!Becomes(J!EncodeValue(J!Encoder, key, m)) /\ J!AddNode(key, m)
  BY DEF J!Value
<1>2. phase = "building" /\ j_cur # <<>>
  BY DEF J!Value, J!Call
<1>3. Doc(text, nodes, j_cur)
  BY <1>2 DEF DocInv
<1>4. m \in Structures \cup {"string", "primitive"} /\ m \notin Structures
  BY DEF Structures
<1>5. PICK e \in Nodes :
        /\ e.kind = m /\ e.key = key /\ e.parent = J!Current
        /\ nodes' = Append(nodes, e)
        /\ j_cur' = IF m \in Structures THEN Append(j_cur, Len(nodes) + 1) ELSE j_cur
  BY <1>1, <1>2, <1>4, OneAdded
<1>6. text' = Written(text, e.key, J!Mark(m))
  BY <1>1, <1>2, <1>5, ValueWritten
<1>7. Joins(nodes, j_cur, e)
  BY <1>2, <1>5, MemberJoins
<1>8. MarkOf(J!Mark(m), e.kind) /\ e.kind \notin Structures /\ Turn(J!Mark(m)) = 0
  BY <1>4, <1>5, MarksOf, TurnsAre
<1>9. j_cur' = Opened(nodes, j_cur, e)
  BY <1>4, <1>5 DEF Opened
<1>10. Doc(Written(text, e.key, J!Mark(m)), Append(nodes, e), Opened(nodes, j_cur, e))
  BY <1>3, <1>7, <1>8, DocGrows
<1>11. QED
  BY <1>5, <1>6, <1>9, <1>10

\* The innermost structure is closed.
LEMMA DocCloses ==
  ASSUME NEW t, NEW ns, NEW os, Doc(t, ns, os), os # <<>>, NEW m, CloserMark(m),
         Turn(m) = 0 - Rise(ns, Inner(os))
  PROVE  Doc(Append(t, m), ns, Outer(os))
<1>1. PICK q : History(t, ns, os, q) /\ Evened(t, os, q)
  BY DEF Doc
<1>2. Reads(t, ns, os) /\ m \in Marks
  BY DEF Doc, CloserMark
<1>3. Reads(Append(t, m), ns, Outer(os))
  BY <1>2, ReadsClosed
<1>4. History(Append(t, m), ns, Outer(os), Outer(q)) /\ Evened(Append(t, m), Outer(os), Outer(q))
  BY <1>1, <1>2, HistoryClose
<1>5. QED
  BY <1>3, <1>4 DEF Doc

\* A structure is ended.
LEMMA EndDoc ==
  ASSUME JsonInv, DocInv, J!End
  PROVE  Doc(text', nodes', j_cur')
<1>1. PICK s \in Structures : J!Becomes(J!StructEnd(J!Encoder, s)) /\ J!EndNode(s)
  BY DEF J!End, Structures
<1>2. phase = "building" /\ j_cur # <<>> /\ nodes' = nodes
  BY DEF J!End, J!Call
<1>3. Doc(text, nodes, j_cur)
  BY <1>2 DEF DocInv
<1>4. text' = IF s = J!KindOf(J!Current) THEN Append(text, Closer(s)) ELSE text
  BY <1>1, <1>2, EndWritten
<1>5. j_cur' = IF J!KindOf(J!Current) = s THEN Outer(j_cur) ELSE j_cur
  BY <1>1 DEF J!EndNode, J!Front, Outer
<1>6. J!Current = j_cur[Len(j_cur)] /\ J!KindOf(J!Current) = nodes[J!Current].kind
  BY <1>2, OpenIs
<1>7. Inner(j_cur) = J!Current
  BY <1>2, <1>6 DEF Inner
<1>8. CASE J!KindOf(J!Current) = s
  <2>1. Rise(nodes, Inner(j_cur)) = Deeper(s)
    BY <1>6, <1>7, <1>8 DEF Rise, Deeper
  <2>2. Turn(Closer(s)) = 0 - Rise(nodes, Inner(j_cur)) /\ CloserMark(Closer(s))
    BY <2>1, TurnsAre, ClosersAre
  <2>3. Doc(Append(text, Closer(s)), nodes, Outer(j_cur))
    BY <1>2, <1>3, <2>2, DocCloses
  <2>4. QED
    BY <1>2, <1>4, <1>5, <1>8, <2>3
<1>9. CASE J!KindOf(J!Current) # s
  BY <1>2, <1>3, <1>4, <1>5, <1>9
<1>10. QED
  BY <1>8, <1>9

\* The innermost level was opened last, and is an object if its bracket says so.
LEMMA InnerLevel ==
  ASSUME NEW t, NEW ns, NEW os, NEW q, Reads(t, ns, os), History(t, ns, os, q), Evened(t, os, q),
         os # <<>>, ns[Inner(os)].kind = "object"
  PROVE  /\ Len(os) \in Nat /\ Len(os) >= 1 /\ Inner(os) = os[Len(os)]
         /\ q[Len(os)] \in 1 .. Len(t) /\ os[Len(os)] \in 1 .. Len(ns)
         /\ \A i \in 1 .. Len(os) - 1 :
              /\ q[i] < q[Len(os)] /\ os[i] < os[Len(os)] /\ q[i] \in Nat /\ os[i] \in Nat
         /\ J!Brace(t) = q[Len(os)]
<1> DEFINE L == Len(os)
<1>1. /\ L \in Nat /\ Len(t) \in Nat /\ Len(ns) \in Nat /\ DOMAIN os = 1 .. L
      /\ \A i \in 1 .. L : q[i] \in 1 .. Len(t) /\ os[i] \in 1 .. Len(ns)
  BY HistoryIs
<1>2. Inner(os) = os[L] /\ L \in DOMAIN os
  BY InnerIs DEF Reads
<1>3. L >= 1 /\ L \in 1 .. L
  BY <1>1, <1>2
<1>4. q[L] \in 1 .. Len(t) /\ os[L] \in 1 .. Len(ns)
  BY <1>1, <1>3
<1>5. \A i \in 1 .. L - 1 : i \in 1 .. L /\ i < L /\ i \in DOMAIN os
  BY <1>1
<1>6. \A i \in 1 .. L - 1 : os[i] < os[L]
  <2>1. LevelFits(ns, os, L)
    BY <1>2 DEF Reads, Tree
  <2>2. QED
    BY <1>5, <2>1 DEF LevelFits
<1>7. \A i \in 1 .. L - 1 : q[i] < q[L]
  <2>1. CASE L >= 2
    <3>1. L \in 2 .. Len(os)
      BY <1>1, <2>1
    <3>2. Ordered(t, ns, os, q, L)
      BY <3>1 DEF History
    <3>3. QED
      BY <3>2 DEF Ordered
  <2>2. CASE L < 2
    BY <1>1, <2>2
  <2>3. QED
    BY <1>1, <2>1, <2>2
<1>8. \A i \in 1 .. L - 1 : q[i] \in Nat /\ os[i] \in Nat
  BY <1>1, <1>5
<1>9. J!Brace(t) = q[L]
  <2>1. Past(t, ns, os, q, L)
    BY <1>3 DEF History
  <2>2. Rises(t[q[L]]) /\ \A j \in q[L] .. Len(t) : Level(t, j) >= Level(t, q[L])
    BY <1>2, <2>1 DEF Past
  <2>3. Level(t, Len(t)) = Level(t, q[L])
    BY DEF Evened
  <2>4. t \in Seq(Marks)
    BY DEF Reads
  <2>5. q[L] \in DOMAIN t
    BY <1>4, <2>4, TextIs
  <2>6. QED
    BY <2>2, <2>3, <2>4, <2>5, BraceFound
<1>10. QED
  BY <1>1, <1>2, <1>3, <1>4, <1>6, <1>7, <1>8, <1>9

\* All that the innermost object has is taken away.
LEMMA DocCleared ==
  ASSUME NEW t, NEW ns, NEW os, Doc(t, ns, os), os # <<>>, ns[Inner(os)].kind = "object"
  PROVE  Doc(SubSeq(t, 1, J!Brace(t)), SubSeq(ns, 1, Inner(os)), os)
<1> DEFINE L == Len(os)
<1>1. PICK q : History(t, ns, os, q) /\ Evened(t, os, q)
  BY DEF Doc
<1>2. Reads(t, ns, os)
  BY DEF Doc
<1>3. /\ L \in Nat /\ L >= 1 /\ Inner(os) = os[L]
      /\ q[L] \in 1 .. Len(t) /\ os[L] \in 1 .. Len(ns)
      /\ \A i \in 1 .. L - 1 : q[i] < q[L] /\ os[i] < os[L] /\ q[i] \in Nat /\ os[i] \in Nat
      /\ J!Brace(t) = q[L]
  BY <1>1, <1>2, InnerLevel
<1>4. Len(t) \in Nat /\ Len(ns) \in Nat
  BY <1>1, HistoryIs
<1>5. SubSeq(os, 1, L) = os
  <2>1. os \in Seq(Nat)
    BY <1>1 DEF History, Typed
  <2>2. QED
    BY <2>1
<1>6. Reads(SubSeq(t, 1, q[L]), SubSeq(ns, 1, os[L]), SubSeq(os, 1, L))
  <2>1. L \in 1 .. L
    BY <1>3
  <2>2. Past(t, ns, os, q, L)
    BY <1>1, <2>1 DEF History
  <2>3. QED
    BY <2>2 DEF Past
<1>7. \E r : /\ History(SubSeq(t, 1, q[L]), SubSeq(ns, 1, os[L]), SubSeq(os, 1, L), r)
             /\ Evened(SubSeq(t, 1, q[L]), SubSeq(os, 1, L), r)
  <2>1. L \in 0 .. Len(os) /\ q[L] \in 0 .. Len(t) /\ os[L] \in 0 .. Len(ns)
    BY <1>3, <1>4
  <2>2. \A i \in 1 .. L : q[i] <= q[L] /\ os[i] <= os[L]
    <3>1. ASSUME NEW i \in 1 .. L PROVE q[i] <= q[L] /\ os[i] <= os[L]
      <4>1. CASE i \in 1 .. L - 1
        <5>1. q[i] < q[L] /\ os[i] < os[L] /\ q[i] \in Nat /\ os[i] \in Nat /\ q[L] \in Nat /\ os[L] \in Nat
          BY <1>3, <4>1
        <5>2. QED
          BY <5>1
      <4>2. CASE i = L
        <5>1. q[L] \in Nat /\ os[L] \in Nat
          BY <1>3
        <5>2. QED
          BY <4>2, <5>1
      <4>3. QED
        BY <1>3, <4>1, <4>2
    <3>2. QED
      BY <3>1
  <2>3. QED
    BY <1>1, <2>1, <2>2, HistoryCut
<1>8. QED
  BY <1>3, <1>5, <1>6, <1>7 DEF Doc

\* An object is cleared.
LEMMA ClearDoc ==
  ASSUME JsonInv, DocInv, J!Clear
  PROVE  Doc(text', nodes', j_cur')
<1>1. /\ phase = "building" /\ J!KindOf(J!Current) = "object" /\ J!Becomes(J!ObjectClear(J!Encoder))
      /\ nodes' = SubSeq(nodes, 1, J!Current) /\ j_cur' = j_cur
  BY DEF J!Clear, J!Call
<1>2. j_cur # <<>>
  BY <1>1, NoneOpen
<1>3. Doc(text, nodes, j_cur)
  BY <1>1 DEF DocInv
<1>4. J!Current = j_cur[Len(j_cur)] /\ J!KindOf(J!Current) = nodes[J!Current].kind
  BY <1>2, OpenIs
<1>5. Inner(j_cur) = J!Current
  BY <1>2, <1>4 DEF Inner
<1>6. text' = SubSeq(text, 1, J!Brace(text))
  BY <1>1, ClearWritten
<1>7. Doc(SubSeq(text, 1, J!Brace(text)), SubSeq(nodes, 1, Inner(j_cur)), j_cur)
  BY <1>1, <1>2, <1>3, <1>4, <1>5, DocCleared
<1>8. QED
  BY <1>1, <1>5, <1>6, <1>7

LEMMA MarksFlat ==
  /\ \A m : m.mark = "key" => Turn(m) = 0
  /\ \A m : CommaMark(m) => Turn(m) = 0
<1>1. ASSUME NEW m, m.mark = "key" PROVE Turn(m) = 0
  BY <1>1 DEF Turn, Rises, Falls, Brace1, Brace2
<1>2. ASSUME NEW m, CommaMark(m) PROVE Turn(m) = 0
  BY <1>2 DEF Turn, Rises, Falls, Brace1, Brace2, CommaMark
<1>3. QED
  BY <1>1, <1>2

LEMMA CutNumbers ==
  ASSUME NEW b \in Nat, NEW T \in Nat, NEW N \in Nat, NEW L \in Nat, NEW o \in Nat, NEW c,
         b > 2, b <= T, o <= N, o >= 1, L > 1, c = b - 2
  PROVE  /\ c - 1 = b - 3 /\ b - 3 \in 0 .. T /\ o - 1 \in 0 .. N
         /\ L - 1 \in 0 .. L /\ L - 1 \in 1 .. L - 1 /\ L - 1 >= 1
OBVIOUS

\* The innermost object is taken away with its key and the comma before that.
LEMMA DocCut ==
  ASSUME NEW t, NEW ns, NEW os, Doc(t, ns, os), os # <<>>, ns[Inner(os)].kind = "object",
         J!Keyed(t), CommaMark(t[J!CutAt(t)])
  PROVE  Doc(SubSeq(t, 1, J!CutAt(t) - 1), SubSeq(ns, 1, Inner(os) - 1), Outer(os))
<1> DEFINE L == Len(os)
           b == J!Brace(t)
           k == L - 1
           l == b - 3
           n == os[L] - 1
<1>1. PICK q : History(t, ns, os, q) /\ Evened(t, os, q)
  BY DEF Doc
<1>2. Reads(t, ns, os)
  BY DEF Doc
<1>3. /\ L \in Nat /\ L >= 1 /\ Inner(os) = os[L]
      /\ q[L] \in 1 .. Len(t) /\ os[L] \in 1 .. Len(ns)
      /\ \A i \in 1 .. L - 1 : q[i] < q[L] /\ os[i] < os[L] /\ q[i] \in Nat /\ os[i] \in Nat
      /\ b = q[L]
  BY <1>1, <1>2, InnerLevel
<1>4. Len(t) \in Nat /\ Len(ns) \in Nat /\ t \in Seq(Marks) /\ DOMAIN t = 1 .. Len(t)
  <2>1. t \in Seq(Marks)
    BY <1>2 DEF Reads
  <2>2. Len(t) \in Nat /\ Len(ns) \in Nat
    BY <1>1, HistoryIs
  <2>3. QED
    BY <2>1, <2>2, TextIs
<1>5. b > 1 /\ t[b - 1].mark = "key"
  BY DEF J!Keyed
<1>6. Past(t, ns, os, q, L)
  <2>1. L \in 1 .. L
    BY <1>3
  <2>2. QED
    BY <1>1, <2>1 DEF History
<1>7. /\ b > 2 /\ CutMark(t[b - 2])
      /\ CommaMark(t[b - 2]) =>
           L > 1 /\ q[L - 1] <= b - 3 /\ Reads(SubSeq(t, 1, b - 3), SubSeq(ns, 1, os[L] - 1), SubSeq(os, 1, L - 1))
  BY <1>3, <1>5, <1>6 DEF Past, BeforeKey
<1> HIDE DEF b
<1>8. J!CutAt(t) = b - 2
  <2>1. b \in DOMAIN t
    BY <1>3, <1>4
  <2>2. J!Brace(t) = b
    BY DEF b
  <2>3. QED
    BY <1>4, <1>7, <2>1, <2>2, CutFound
<1>9. CommaMark(t[b - 2])
  BY <1>8
<1>10. L > 1 /\ q[L - 1] <= b - 3 /\ Reads(SubSeq(t, 1, b - 3), SubSeq(ns, 1, os[L] - 1), SubSeq(os, 1, L - 1))
  BY <1>7, <1>9
<1>11. b \in Nat /\ os[L] \in Nat /\ b <= Len(t) /\ os[L] <= Len(ns) /\ os[L] >= 1
  BY <1>3, <1>4
<1>12. J!CutAt(t) - 1 = l /\ l \in 0 .. Len(t) /\ n \in 0 .. Len(ns) /\ k \in 0 .. Len(os) /\ k \in 1 .. L - 1 /\ k >= 1
  <2>1. b \in Nat /\ Len(t) \in Nat /\ Len(ns) \in Nat /\ L \in Nat /\ os[L] \in Nat
    BY <1>3, <1>4, <1>11
  <2>2. b > 2 /\ L > 1
    BY <1>7, <1>10
  <2>3. QED
    BY <1>8, <1>11, <2>1, <2>2, CutNumbers
<1>13. Level(t, l) = Level(t, q[k])
  <2>1. Level(t, b) = Level(t, q[k]) + Rise(ns, os[L])
    <3>1. L \in 2 .. Len(os)
      BY <1>3, <1>10
    <3>2. Ordered(t, ns, os, q, L)
      BY <1>1, <3>1 DEF History
    <3>3. QED
      BY <1>3, <3>2 DEF Ordered
  <2>2. Rise(ns, os[L]) = 1
    BY <1>3 DEF Rise
  <2>3. Rises(t[b])
    BY <1>3, <1>6 DEF Past
  <2>4. Turn(t[b]) = 1
    BY <2>3 DEF Turn
  <2>5. Turn(t[b - 1]) = 0 /\ Turn(t[b - 2]) = 0
    BY <1>5, <1>9, MarksFlat
  <2>6. l \in Nat /\ b - 2 \in Nat /\ b - 1 \in Nat /\ l + 1 = b - 2 /\ b - 2 + 1 = b - 1 /\ b - 1 + 1 = b
    BY <1>11, <1>12
  <2>7. Level(t, l) \in Int /\ Level(t, b - 2) = Level(t, l) + Turn(t[b - 2])
    BY <2>6, LevelIs
  <2>8. Level(t, b - 1) = Level(t, b - 2) + Turn(t[b - 1])
    BY <2>6, LevelIs
  <2>9. Level(t, b) = Level(t, b - 1) + Turn(t[b])
    BY <2>6, LevelIs
  <2>10. Level(t, q[k]) \in Int
    <3>1. q[k] \in Nat
      BY <1>3, <1>12
    <3>2. QED
      BY <3>1, LevelIs
  <2> HIDE DEF l, k
  <2>11. QED
    BY <2>1, <2>2, <2>4, <2>5, <2>7, <2>8, <2>9, <2>10
<1>14. \A i \in 1 .. k : q[i] <= l /\ os[i] <= n
  <2>1. ASSUME NEW i \in 1 .. k PROVE q[i] <= l /\ os[i] <= n
    <3>1. os[i] < os[L] /\ os[i] \in Nat /\ q[i] \in Nat /\ q[k] \in Nat
      BY <1>3, <1>12, <2>1
    <3>2. q[i] <= q[k]
      <4>1. CASE i = k
        BY <3>1, <4>1
      <4>2. CASE i # k
        <5>1. k \in 2 .. Len(os) /\ i \in 1 .. k - 1
          BY <1>3, <1>12, <2>1, <4>2
        <5>2. Ordered(t, ns, os, q, k)
          BY <1>1, <5>1 DEF History
        <5>3. q[i] < q[k]
          BY <5>1, <5>2 DEF Ordered
        <5>4. QED
          BY <3>1, <5>3
      <4>3. QED
        BY <4>1, <4>2
    <3>3. q[k] <= l
      BY <1>10
    <3>4. l \in Nat
      BY <1>12
    <3>5. q[i] <= l
      BY <3>1, <3>2, <3>3, <3>4
    <3>6. n = os[L] - 1 /\ os[L] \in Nat
      BY <1>11
    <3>7. QED
      BY <3>1, <3>5, <3>6
  <2>2. QED
    BY <2>1
<1>15. \E r : /\ History(SubSeq(t, 1, l), SubSeq(ns, 1, n), SubSeq(os, 1, k), r)
              /\ Evened(SubSeq(t, 1, l), SubSeq(os, 1, k), r)
  <2> HIDE DEF l, k, n
  <2>1. QED
    BY <1>1, <1>12, <1>13, <1>14, HistoryCut
<1>16. Doc(SubSeq(t, 1, l), SubSeq(ns, 1, n), SubSeq(os, 1, k))
  BY <1>10, <1>15 DEF Doc
<1>17. QED
  BY <1>3, <1>12, <1>16 DEF Outer

\* An object is cancelled.
LEMMA CancelDoc ==
  ASSUME JsonInv, DocInv, J!Cancel
  PROVE  DocInv'
<1>1. /\ phase = "building" /\ J!KindOf(J!Current) = "object" /\ J!Becomes(J!ObjectCancel(J!Encoder))
      /\ nodes' = SubSeq(nodes, 1, J!Current - 1) /\ j_cur' = Outer(j_cur)
      /\ phase' = IF Len(j_cur) = 1 THEN "ended"
                  ELSE IF J!Keyed(text) /\ text[J!CutAt(text)].mark = "," THEN phase
                  ELSE "spoiled"
  BY DEF J!Cancel, J!Call, J!Front, Outer
<1>2. j_cur # <<>>
  BY <1>1, NoneOpen
<1>3. Doc(text, nodes, j_cur)
  BY <1>1 DEF DocInv
<1>4. J!Current = j_cur[Len(j_cur)] /\ J!KindOf(J!Current) = nodes[J!Current].kind
  BY <1>2, OpenIs
<1>5. Inner(j_cur) = J!Current
  BY <1>2, <1>4 DEF Inner
<1>6. /\ structs' = SubSeq(structs, 1, Len(structs) - 1)
      /\ structs' = <<>> => text' = <<>>
      /\ structs' # <<>> /\ J!Keyed(text) => text' = SubSeq(text, 1, J!CutAt(text) - 1)
  BY <1>1, CancelWritten
<1>7. Len(structs) = Len(j_cur) /\ Len(j_cur) \in Nat /\ Len(j_cur) >= 1
  BY <1>2 DEF JsonInv, SameOpen, JsonTypes
<1>8. structs \in Seq(SUBSET {"array", "object", "parent"})
  BY DEF JsonInv, JsonTypes
<1>9. Len(structs') = Len(j_cur) - 1
  <2> DEFINE k == Len(structs) - 1
  <2>1. k \in 0 .. Len(structs)
    BY <1>7
  <2> HIDE DEF k
  <2>2. Len(SubSeq(structs, 1, k)) = k
    BY <1>8, <2>1
  <2>3. QED
    BY <1>6, <1>7, <2>2 DEF k
<1>10. CASE Len(j_cur) = 1
  <2>1. phase' = "ended"
    BY <1>1, <1>10
  <2>2. structs' = SubSeq(structs, 1, 0)
    BY <1>6, <1>7, <1>10
  <2>3. text' = <<>>
    <3>1. SubSeq(structs, 1, 0) = <<>>
      BY <1>8
    <3>2. QED
      BY <1>6, <2>2, <3>1
  <2>4. Tree(nodes, j_cur)
    BY <1>3 DEF Doc, Reads
  <2>5. j_cur[1] = 1
    <3>1. 1 \in DOMAIN j_cur
      BY <1>10, <2>4 DEF Tree
    <3>2. LevelFits(nodes, j_cur, 1)
      BY <2>4, <3>1 DEF Tree
    <3>3. j_cur[1] \in DOMAIN nodes /\ nodes[j_cur[1]].parent = 0
      BY <3>2 DEF LevelFits
    <3>4. NodeFits(nodes, j_cur[1])
      BY <2>4, <3>3 DEF Tree
    <3>5. QED
      BY <3>3, <3>4 DEF NodeFits
  <2>6. j_cur' = <<>> /\ nodes' = <<>>
    <3>1. \A x : x \in Seq(Nat) \/ x \in Seq(Nodes) => SubSeq(x, 1, 1 - 1) = <<>>
      OBVIOUS
    <3>2. j_cur' = SubSeq(j_cur, 1, 1 - 1)
      BY <1>1, <1>10 DEF Outer
    <3>3. nodes' = SubSeq(nodes, 1, 1 - 1)
      BY <1>1, <1>4, <1>10, <2>5
    <3>4. nodes \in Seq(Nodes) /\ j_cur \in Seq(Nat)
      BY DEF JsonInv, JsonTypes
    <3>5. QED
      BY <3>1, <3>2, <3>3, <3>4
  <2>7. QED
    BY <2>1, <2>3, <2>6, ReadsNothing DEF DocInv
<1>11. CASE Len(j_cur) # 1 /\ J!Keyed(text) /\ text[J!CutAt(text)].mark = ","
  <2>1. structs' # <<>>
    <3>1. Len(structs') # 0
      <4>1. Len(j_cur) # 1
        BY <1>11
      <4>2. QED
        BY <1>7, <1>9, <4>1
    <3>2. Len(<<>>) = 0
      OBVIOUS
    <3>3. QED
      BY <3>1, <3>2
  <2>2. text' = SubSeq(text, 1, J!CutAt(text) - 1)
    BY <1>6, <1>11, <2>1
  <2>3. CommaMark(text[J!CutAt(text)])
    <3>1. text \in Seq(Marks) /\ text # <<>> /\ text[1].mark \in J!Openers
      BY <1>1, <1>2 DEF JsonInv, JsonTypes, TextBegins
    <3>2. J!Brace(text) \in DOMAIN text /\ J!CutAt(text) \in 1 .. J!Brace(text)
      BY <3>1, BraceIs
    <3>3. J!CutAt(text) \in DOMAIN text
      <4>1. DOMAIN text = 1 .. Len(text) /\ Len(text) \in Nat
        BY <3>1, TextIs
      <4>2. QED
        BY <3>2, <4>1
    <3>4. text[J!CutAt(text)] \in Marks
      BY <3>1, <3>3, TextIs
    <3>5. QED
      BY <1>11, <3>4, Zenon DEF CommaMark
  <2>4. Doc(SubSeq(text, 1, J!CutAt(text) - 1), SubSeq(nodes, 1, Inner(j_cur) - 1), Outer(j_cur))
    BY <1>1, <1>2, <1>3, <1>4, <1>5, <1>11, <2>3, DocCut
  <2>5. Doc(text', nodes', j_cur')
    BY <1>1, <1>5, <2>2, <2>4
  <2>6. QED
    BY <2>5 DEF DocInv, Doc
<1>12. CASE Len(j_cur) # 1 /\ ~ (J!Keyed(text) /\ text[J!CutAt(text)].mark = ",")
  <2>1. phase' = "spoiled"
    BY <1>1, <1>12
  <2>2. QED
    BY <2>1 DEF DocInv
<1>13. QED
  BY <1>10, <1>11, <1>12

\* Each call keeps the invariant.
LEMMA DocNext ==
  ASSUME JsonInv, MemberBounds, DocInv, J!Next
  PROVE  DocInv'
<1>1. CASE J!Start
  BY <1>1, StartDoc DEF DocInv, Doc
<1>2. CASE J!Value
  BY <1>2, ValueDoc DEF DocInv, Doc
<1>3. CASE J!End
  BY <1>3, EndDoc DEF DocInv, Doc
<1>4. CASE J!Cancel
  BY <1>4, CancelDoc
<1>5. CASE J!Clear
  BY <1>5, ClearDoc DEF DocInv, Doc
<1>6. QED
  BY <1>1, <1>2, <1>3, <1>4, <1>5 DEF J!Next

-----------------------------------------------------------------------------
(***************************************************************************)
(* The document that app_json_encode_dump would give: every structure that *)
(* is open is closed, the innermost first. It is read as the whole tree.   *)
(***************************************************************************)
\* What closes the levels that are open.
Shut(level, c) == J!Closing(level) \o c
Shuts(f, ss, n) == f = [i \in 0 .. n |-> IF i = 0 THEN <<>> ELSE Shut(ss[i], f[i - 1])]

\* What closes the levels, one after the other.
LEMMA ShutsExists ==
  ASSUME NEW ss, NEW n \in Nat
  PROVE  \E f : Shuts(f, ss, n)
<1> DEFINE T == {k \in Nat : \E f : Shuts(f, ss, k)}
<1>1. 0 \in T
  <2> DEFINE g == [i \in 0 .. 0 |-> <<>>]
  <2>1. \A i \in 0 .. 0 : i = 0
    OBVIOUS
  <2>2. Shuts(g, ss, 0)
    BY <2>1 DEF Shuts
  <2>3. QED
    BY <2>2
<1>2. ASSUME NEW k \in T PROVE k + 1 \in T
  <2>1. PICK f : Shuts(f, ss, k)
    OBVIOUS
  <2> DEFINE g == [i \in 0 .. k + 1 |-> IF i = k + 1 THEN Shut(ss[i], f[k]) ELSE f[i]]
             h == [i \in 0 .. k + 1 |-> IF i = 0 THEN <<>> ELSE Shut(ss[i], g[i - 1])]
  <2>2. k \in Nat /\ f = [i \in 0 .. k |-> IF i = 0 THEN <<>> ELSE Shut(ss[i], f[i - 1])]
    BY <2>1 DEF Shuts
  <2>3. \A i \in 0 .. k + 1 : g[i] = h[i]
    <3> SUFFICES ASSUME NEW i \in 0 .. k + 1 PROVE g[i] = h[i]
      OBVIOUS
    <3>1. CASE i = 0
      <4>1. g[0] = f[0] /\ f[0] = <<>>
        BY <2>2
      <4>2. QED
        BY <3>1, <4>1
    <3>2. CASE i = k + 1
      <4>1. g[i - 1] = f[k] /\ g[i] = Shut(ss[i], f[k])
        BY <2>2, <3>2
      <4>2. QED
        BY <2>2, <3>2, <4>1
    <3>3. CASE i \in 1 .. k
      <4>1. g[i - 1] = f[i - 1] /\ g[i] = f[i] /\ i \in 0 .. k /\ i # 0
        BY <2>2, <3>3
      <4>2. f[i] = Shut(ss[i], f[i - 1])
        BY <2>2, <4>1
      <4>3. h[i] = Shut(ss[i], g[i - 1])
        BY <4>1
      <4>4. QED
        BY <4>1, <4>2, <4>3
    <3>4. QED
      BY <2>2, <3>1, <3>2, <3>3
  <2>4. g = h
    BY <2>3
  <2>5. Shuts(g, ss, k + 1)
    BY <2>4 DEF Shuts
  <2>6. QED
    BY <2>2, <2>5
<1>3. T \in SUBSET Nat
  OBVIOUS
<1> HIDE DEF T
<1>4. T = Nat
  BY <1>1, <1>2, <1>3, Induction
<1>5. QED
  BY <1>4 DEF T

LEMMA ShutsStep ==
  ASSUME NEW f, NEW ss, NEW n, Shuts(f, ss, n), NEW k \in Nat, k + 1 \in 0 .. n
  PROVE  f[k + 1] = Shut(ss[k + 1], f[k])
<1> SUFFICES ASSUME NEW i \in 0 .. n, i = k + 1 PROVE f[i] = Shut(ss[i], f[k])
  OBVIOUS
<1>1. f[i] = IF i = 0 THEN <<>> ELSE Shut(ss[i], f[i - 1])
  BY DEF Shuts
<1>2. i # 0 /\ i - 1 = k
  OBVIOUS
<1>3. QED
  BY <1>1, <1>2

\* The text and what closes it.
LEMMA DumpIs ==
  ASSUME Len(structs) \in Nat
  PROVE  \E f : Shuts(f, structs, Len(structs)) /\ J!Dump(J!Encoder) = text \o f[Len(structs)]
<1> DEFINE closed == CHOOSE f : Shuts(f, structs, Len(structs))
<1>1. Shuts(closed, structs, Len(structs))
  BY ShutsExists
<1>2. J!Encoder.text = text /\ J!Encoder.structs = structs
  BY DEF J!Encoder
<1>3. J!Dump(J!Encoder) = text \o closed[Len(structs)]
  BY <1>2 DEF J!Dump, Shuts, Shut
<1>4. QED
  BY <1>1, <1>3

LEMMA Joined ==
  ASSUME NEW S, NEW a \in Seq(S), NEW b \in Seq(S)
  PROVE  /\ a \o b \in Seq(S) /\ Len(a \o b) = Len(a) + Len(b)
         /\ \A i \in 1 .. Len(a) : (a \o b)[i] = a[i]
         /\ \A i \in 1 .. Len(b) : (a \o b)[Len(a) + i] = b[i]
<1>1. a \o b \in Seq(S) /\ Len(a \o b) = Len(a) + Len(b)
  OBVIOUS
<1>2. \A i \in 1 .. Len(a) : (a \o b)[i] = a[i]
  OBVIOUS
<1>3. \A i \in 1 .. Len(b) : (a \o b)[Len(a) + i] = b[i]
  OBVIOUS
<1>4. QED
  BY <1>1, <1>2, <1>3

LEMMA OneInFront ==
  ASSUME NEW t \in Seq(Marks), NEW m \in Marks, NEW c \in Seq(Marks)
  PROVE  /\ <<m>> \o c \in Seq(Marks) /\ t \o (<<m>> \o c) = Append(t, m) \o c
         /\ t \o <<>> = t
<1> DEFINE u == <<m>> \o c
           v == t \o u
           w == Append(t, m) \o c
<1>1. /\ u \in Seq(Marks) /\ Len(u) = Len(c) + 1 /\ u[1] = m /\ \A i \in 1 .. Len(c) : u[i + 1] = c[i]
      /\ Len(c) \in Nat /\ Len(t) \in Nat
  <2>1. <<m>> \in Seq(Marks) /\ Len(<<m>>) = 1
    OBVIOUS
  <2>2. QED
    BY <2>1
<1> HIDE DEF u
<1>2. /\ v \in Seq(Marks) /\ Len(v) = Len(t) + (Len(c) + 1)
      /\ \A i \in 1 .. Len(t) : v[i] = t[i]
      /\ \A i \in 1 .. Len(c) + 1 : v[Len(t) + i] = u[i]
  <2>1. u \in Seq(Marks) /\ Len(u) = Len(c) + 1
    BY <1>1
  <2>2. /\ v \in Seq(Marks) /\ Len(v) = Len(t) + Len(u)
        /\ \A i \in 1 .. Len(t) : v[i] = t[i]
        /\ \A i \in 1 .. Len(u) : v[Len(t) + i] = u[i]
    <3>1. t \o u \in Seq(Marks)
      BY <2>1, Joined, Zenon
    <3>2. Len(t \o u) = Len(t) + Len(u)
      BY <2>1, Joined, Zenon
    <3>3. \A i \in 1 .. Len(t) : (t \o u)[i] = t[i]
      BY <2>1, Joined, Zenon
    <3>4. \A i \in 1 .. Len(u) : (t \o u)[Len(t) + i] = u[i]
      <4> HIDE DEF w
      <4>1. QED
        BY <2>1, Joined
    <3>5. QED
      BY <3>1, <3>2, <3>3, <3>4, Zenon
  <2> HIDE DEF v
  <2>3. QED
    BY <2>1, <2>2
<1> DEFINE x == Append(t, m)
<1>3. x \in Seq(Marks) /\ Len(x) = Len(t) + 1 /\ x[Len(t) + 1] = m /\ \A i \in 1 .. Len(t) : x[i] = t[i]
  BY TextWith
<1> HIDE DEF x
<1>4. /\ w \in Seq(Marks) /\ Len(w) = Len(t) + 1 + Len(c)
      /\ \A i \in 1 .. Len(x) : w[i] = x[i]
      /\ \A i \in 1 .. Len(c) : w[Len(t) + 1 + i] = c[i]
  <2>1. w = x \o c
    BY DEF x
  <2>2. QED
    BY <1>1, <1>3, <2>1
<1> HIDE DEF v, w
<1>5. \A i \in 1 .. Len(v) : v[i] = w[i]
  <2> SUFFICES ASSUME NEW i \in 1 .. Len(v) PROVE v[i] = w[i]
    OBVIOUS
  <2>1. CASE i <= Len(t)
    BY <1>1, <1>2, <1>3, <1>4, <2>1
  <2>2. CASE i = Len(t) + 1
    <3>1. 1 \in 1 .. Len(c) + 1
      BY <1>1
    <3>2. v[i] = u[1]
      BY <1>2, <2>2, <3>1
    <3>3. QED
      BY <1>1, <1>3, <1>4, <2>2, <3>2
  <2>3. CASE i > Len(t) + 1
    <3> DEFINE k == i - (Len(t) + 1)
    <3>1. k \in 1 .. Len(c) /\ k + 1 \in 1 .. Len(c) + 1 /\ i = Len(t) + (k + 1) /\ i = Len(t) + 1 + k
      BY <1>1, <1>2, <2>3
    <3> HIDE DEF k
    <3>2. v[i] = u[k + 1] /\ w[i] = c[k]
      BY <1>2, <1>4, <3>1
    <3>3. QED
      BY <1>1, <3>1, <3>2
  <2>4. QED
    BY <1>1, <1>2, <2>1, <2>2, <2>3
<1>6. v = w
  BY <1>1, <1>2, <1>4, <1>5, SeqEqual
<1>7. QED
  BY <1>1, <1>6 DEF u, v, w

\* Closing what is open does not change the tree.
LEMMA ReadsShut ==
  ASSUME NEW ns, NEW os \in Seq(Nat), NEW ss, NEW f, Shuts(f, ss, Len(os)),
         \A i \in 1 .. Len(os) : ss[i] = {ns[os[i]].kind} /\ ns[os[i]].kind \in Structures,
         NEW t, Reads(t, ns, os)
  PROVE  Reads(t \o f[Len(os)], ns, <<>>)
<1> DEFINE L == Len(os)
           Up2(i) == SubSeq(os, 1, i)
           T == {n \in Nat : n <= L =>
                   /\ f[n] \in Seq(Marks)
                   /\ \A u : Reads(u, ns, Up2(n)) => Reads(u \o f[n], ns, <<>>)}
<1>1. L \in Nat /\ Up2(0) = <<>> /\ Up2(L) = os
  OBVIOUS
<1>2. \A i \in 0 .. L : f[i] = IF i = 0 THEN <<>> ELSE Shut(ss[i], f[i - 1])
  BY DEF Shuts
<1>3. 0 \in T
  <2>1. 0 \in 0 .. L
    BY <1>1
  <2>2. f[0] = <<>> /\ <<>> \in Seq(Marks)
    BY <1>2, <2>1
  <2>3. ASSUME NEW u, Reads(u, ns, Up2(0)) PROVE Reads(u \o f[0], ns, <<>>)
    <3>1. u \in Seq(Marks)
      BY <2>3 DEF Reads
    <3>2. u \o <<>> = u
      BY <3>1
    <3>3. QED
      BY <1>1, <2>2, <2>3, <3>2
  <2>4. QED
    BY <2>2, <2>3
<1>4. ASSUME NEW n \in T PROVE n + 1 \in T
  <2>1. n \in Nat /\ n + 1 \in Nat
    OBVIOUS
  <2>2. SUFFICES ASSUME n + 1 <= L
                 PROVE  /\ f[n + 1] \in Seq(Marks)
                        /\ \A u : Reads(u, ns, Up2(n + 1)) => Reads(u \o f[n + 1], ns, <<>>)
    BY <2>1
  <2>3. n + 1 \in 0 .. L /\ n + 1 \in 1 .. L /\ n + 1 # 0 /\ n + 1 - 1 = n /\ n <= L
    BY <1>1, <2>1, <2>2
  <2> DEFINE k == ns[os[n + 1]].kind
             m == Closer(k)
             ps == Up2(n + 1)
  <2>4. ss[n + 1] = {k} /\ k \in Structures
    BY <2>3
  <2>5. /\ f[n] \in Seq(Marks)
        /\ \A u : Reads(u, ns, Up2(n)) => Reads(u \o f[n], ns, <<>>)
    BY <2>3
  <2> HIDE DEF k, T
  <2>6. J!Closing({k}) = <<m>> /\ CloserMark(m)
    BY <2>4, ClosersAre
  <2>7. m \in Marks
    BY <2>6 DEF CloserMark
  <2>8. f[n + 1] = <<m>> \o f[n]
    <3>1. f[n + 1] = Shut(ss[n + 1], f[n])
      <4>1. Shuts(f, ss, L) /\ n + 1 \in 0 .. L
        BY <2>3
      <4> HIDE DEF L, m, ps
      <4>2. QED
        BY <2>1, <4>1, ShutsStep
    <3>2. J!Closing(ss[n + 1]) = <<m>>
      BY <2>4, <2>6
    <3>3. QED
      BY <3>1, <3>2, Zenon DEF Shut
  <2> HIDE DEF m
  <2>9. ps # <<>> /\ Outer(ps) = Up2(n)
    <3>1. /\ ps \in Seq(Nat) /\ Len(ps) = n + 1 /\ \A i \in 1 .. n + 1 : ps[i] = os[i]
      <4>1. 1 \in 1 .. Len(os) + 1 /\ n + 1 \in 1 - 1 .. Len(os) /\ n + 1 - 1 + 1 = n + 1
        BY <1>1, <2>1, <2>3
      <4>2. \A i \in 1 .. n + 1 : 1 + i - 1 = i
        BY <2>1
      <4>3. /\ ps \in Seq(Nat) /\ Len(ps) = n + 1 - 1 + 1
            /\ \A i \in 1 .. n + 1 - 1 + 1 : ps[i] = os[1 + i - 1]
        BY <4>1, SubSeqIs
      <4>4. QED
        BY <4>1, <4>2, <4>3
    <3> HIDE DEF ps
    <3>2. SubSeq(ps, 1, n) = SubSeq(os, 1, n)
      <4>1. /\ n <= Len(ps) /\ n <= Len(os) /\ n \in 0 .. n
            /\ \A i \in 1 .. n : ps[i] = os[i]
        BY <2>1, <2>3, <3>1
      <4>2. QED
        BY <2>1, <3>1, <4>1, PrefixSame
    <3>3. ps # <<>>
      <4>1. Len(<<>>) = 0 /\ n + 1 # 0
        BY <2>1
      <4>2. QED
        BY <3>1, <4>1
    <3>4. Len(ps) - 1 = n
      BY <2>1, <3>1
    <3>5. QED
      BY <3>2, <3>3, <3>4, Zenon DEF Outer
  <2>10. ASSUME NEW u, Reads(u, ns, ps) PROVE Reads(u \o f[n + 1], ns, <<>>)
    <3>1. Reads(Append(u, m), ns, Outer(ps))
      BY <2>6, <2>9, <2>10, ReadsClosed
    <3>2. Reads(Append(u, m) \o f[n], ns, <<>>)
      BY <2>5, <2>9, <3>1
    <3>3. u \in Seq(Marks)
      BY <2>10 DEF Reads
    <3>4. u \o (<<m>> \o f[n]) = Append(u, m) \o f[n]
      <4>1. f[n] \in Seq(Marks)
        BY <2>5
      <4> DEFINE c == f[n]
      <4> HIDE DEF c
      <4>2. u \o (<<m>> \o c) = Append(u, m) \o c
        <5>1. c \in Seq(Marks)
          BY <4>1 DEF c
        <5>2. QED
          BY <2>7, <3>3, <5>1, OneInFront, Zenon
      <4>3. QED
        BY <4>2 DEF c
    <3>5. QED
      BY <2>8, <3>2, <3>4
  <2>11. f[n + 1] \in Seq(Marks)
    BY <2>5, <2>7, <2>8
  <2>12. QED
    BY <2>10, <2>11
<1>5. T \in SUBSET Nat
  OBVIOUS
<1> HIDE DEF T
<1>6. T = Nat
  BY <1>3, <1>4, <1>5, Induction
<1>7. QED
  <2>1. L \in T /\ L <= L
    BY <1>1, <1>6
  <2>2. \A u : Reads(u, ns, Up2(L)) => Reads(u \o f[L], ns, <<>>)
    BY <2>1 DEF T
  <2>3. Reads(t, ns, Up2(L))
    BY <1>1
  <2>4. QED
    BY <2>2, <2>3

\* The whole document is read as the tree.
LEMMA DumpReads ==
  ASSUME JsonInv, DocInv, phase # "spoiled"
  PROVE  Reads(J!Dump(J!Encoder), nodes, <<>>)
<1>1. Len(structs) = Len(j_cur) /\ Len(j_cur) \in Nat /\ j_cur \in Seq(Nat) /\ DOMAIN j_cur = 1 .. Len(j_cur)
  BY DEF JsonInv, JsonTypes, SameOpen
<1>2. PICK f : Shuts(f, structs, Len(structs)) /\ J!Dump(J!Encoder) = text \o f[Len(structs)]
  BY <1>1, DumpIs
<1>3. \A i \in 1 .. Len(j_cur) : structs[i] = {nodes[j_cur[i]].kind} /\ nodes[j_cur[i]].kind \in Structures
  BY <1>1 DEF JsonInv, SameOpen, OpenNodes
<1>4. Reads(text, nodes, j_cur)
  BY DEF DocInv
<1>5. Reads(text \o f[Len(j_cur)], nodes, <<>>)
  BY <1>1, <1>2, <1>3, <1>4, ReadsShut
<1>6. QED
  BY <1>1, <1>2, <1>5

-----------------------------------------------------------------------------
(***************************************************************************)
(* What the decoder finds in the tokens of a tree: the size of a           *)
(* structure, and the way of an iterator through its members, past all     *)
(* that is inside them.                                                    *)
(***************************************************************************)
\* Tokens that are those of the nodes, all of them closed.
Reading(T, ns) ==
  /\ T \in Seq(Token) /\ ns \in Seq(Nodes) /\ Len(T) = Place(ns, Len(ns))
  /\ \A n \in 1 .. Len(ns) :
       /\ NodeFits(ns, n) /\ NodeToken(T, ns, <<>>, n)
       /\ ns[n].key # J!NoKey => NameToken(T, ns, n)
       /\ Encloses(T, ns, n)
  /\ \A j, k \in 1 .. Len(T) : j < k => T[j].start < T[k].start

\* Of a text that is read as a tree the tokens are those of its nodes.
LEMMA ReadingOf ==
  ASSUME NEW t, NEW ns, Reads(t, ns, <<>>)
  PROVE  Reading(J!Tokens(t), ns)
<1> DEFINE R == J!Parsed(t)
           T == J!Tokens(t)
<1>1. Core(R, ns, <<>>, Len(t)) /\ Tree(ns, <<>>)
  BY DEF Reads
<1>2. R \in ParserStates /\ T = R.tokens
  BY <1>1 DEF Core, J!Tokens
<1> HIDE DEF R, T
<1>3. T \in Seq(Token) /\ DOMAIN T = 1 .. Len(T)
  <2>1. T \in Seq(Token)
    BY <1>2 DEF ParserStates
  <2>2. QED
    BY <2>1
<1>4. ns \in Seq(Nodes) /\ DOMAIN ns = 1 .. Len(ns) /\ \A n \in 1 .. Len(ns) : NodeFits(ns, n)
  <2>1. ns \in Seq(Nodes)
    BY <1>1 DEF Tree
  <2>2. DOMAIN ns = 1 .. Len(ns)
    BY <2>1, NodesAre
  <2>3. QED
    BY <1>1, <2>1, <2>2 DEF Tree
<1>5. Len(T) = Place(ns, Len(ns))
  BY <1>1, <1>2 DEF Core
<1>6. \A n \in 1 .. Len(ns) :
         /\ NodeToken(T, ns, <<>>, n)
         /\ ns[n].key # J!NoKey => NameToken(T, ns, n)
         /\ Encloses(T, ns, n)
  BY <1>1, <1>2, <1>4 DEF Core
<1>7. \A j, k \in 1 .. Len(T) : j < k => T[j].start < T[k].start
  BY <1>1, <1>2, <1>3 DEF Core, StartsInOrder
<1>8. Reading(T, ns)
  BY <1>3, <1>4, <1>5, <1>6, <1>7 DEF Reading
<1>9. QED
  BY <1>8 DEF T

\* The first token of a node is that of its name, if it has one.
FirstToken(ns, n) == IF ns[n].key = J!NoKey THEN Place(ns, n) ELSE Place(ns, n) - 1

\* The first tokens are in the order of the nodes.
LEMMA FirstTokenIs ==
  ASSUME NEW ns, NEW N \in Nat
  PROVE  /\ \A n \in 1 .. N : FirstToken(ns, n) \in 1 .. Place(ns, N) /\ FirstToken(ns, n) <= Place(ns, n)
         /\ \A m, n \in 1 .. N : m < n => Place(ns, m) < FirstToken(ns, n)
         /\ \A m, n \in 1 .. N : m < n <=> FirstToken(ns, m) < FirstToken(ns, n)
<1>1. /\ \A n \in 1 .. N : Place(ns, n) \in 1 .. Place(ns, N)
      /\ \A n \in 1 .. N : ns[n].key # J!NoKey => Place(ns, n) - 1 \in 1 .. Place(ns, N)
  BY PlacesApart
<1>2. Place(ns, N) \in Nat
  BY TokenPlace
<1>3. ASSUME NEW n \in 1 .. N
      PROVE  FirstToken(ns, n) \in 1 .. Place(ns, N) /\ FirstToken(ns, n) <= Place(ns, n)
             /\ FirstToken(ns, n) \in Nat /\ Place(ns, n) \in Nat
  <2>1. Place(ns, n) \in Nat
    BY <1>1, <1>2
  <2>2. QED
    BY <1>1, <1>2, <2>1 DEF FirstToken
<1>4. ASSUME NEW m \in 1 .. N, NEW n \in 1 .. N, m < n
      PROVE  Place(ns, m) < FirstToken(ns, n)
  <2>1. n \in Nat /\ m \in 0 .. n - 1
    BY <1>4
  <2>2. Place(ns, m) + Wide(ns, n) <= Place(ns, n)
    BY <2>1, TokenOrder
  <2>3. Place(ns, m) \in Nat /\ Place(ns, n) \in Nat
    BY <1>3
  <2>4. CASE ns[n].key = J!NoKey
    BY <2>2, <2>3, <2>4 DEF Wide, FirstToken
  <2>5. CASE ns[n].key # J!NoKey
    BY <2>2, <2>3, <2>5 DEF Wide, FirstToken
  <2>6. QED
    BY <2>4, <2>5
<1>5. ASSUME NEW m \in 1 .. N, NEW n \in 1 .. N, m < n
      PROVE  FirstToken(ns, m) < FirstToken(ns, n)
  <2>1. FirstToken(ns, m) <= Place(ns, m) /\ Place(ns, m) < FirstToken(ns, n)
    BY <1>3, <1>4, <1>5
  <2>2. FirstToken(ns, m) \in Nat /\ Place(ns, m) \in Nat /\ FirstToken(ns, n) \in Nat
    BY <1>3
  <2>3. QED
    BY <2>1, <2>2
<1>6. ASSUME NEW m \in 1 .. N, NEW n \in 1 .. N, FirstToken(ns, m) < FirstToken(ns, n)
      PROVE  m < n
  <2>1. FirstToken(ns, m) \in Nat /\ FirstToken(ns, n) \in Nat
    BY <1>3
  <2>2. CASE m = n
    BY <1>6, <2>1, <2>2
  <2>3. CASE n < m
    <3>1. FirstToken(ns, n) < FirstToken(ns, m)
      BY <1>5, <2>3
    <3>2. QED
      BY <1>6, <2>1, <3>1
  <2>4. QED
    BY <2>2, <2>3
<1>7. QED
  BY <1>3, <1>4, <1>5, <1>6

\* The members of a node, as tokens.
LEMMA MembersAre ==
  ASSUME NEW T, NEW ns, Reading(T, ns), NEW p \in 1 .. Len(ns)
  PROVE  /\ \A m \in Kids(ns, p) : /\ m \in 1 .. Len(ns) /\ m > p
                                   /\ FirstToken(ns, m) \in 1 .. Len(T)
                                   /\ FirstToken(ns, m) > Place(ns, p)
                                   /\ T[FirstToken(ns, m)].parent = Place(ns, p)
         /\ \A j \in 1 .. Len(T) :
              T[j].parent = Place(ns, p) => \E m \in Kids(ns, p) : j = FirstToken(ns, m)
<1> DEFINE N == Len(ns)
           s == Place(ns, p)
<1>1. N \in Nat /\ DOMAIN ns = 1 .. N /\ Len(T) = Place(ns, N)
      /\ \A n \in 1 .. N : ns[n].parent \in Nat
  BY NodesAre DEF Reading
<1>2. ASSUME NEW m \in Kids(ns, p)
      PROVE  /\ m \in 1 .. Len(ns) /\ m > p
             /\ FirstToken(ns, m) \in 1 .. Len(T) /\ FirstToken(ns, m) > s
             /\ T[FirstToken(ns, m)].parent = s
  <2>1. m \in 1 .. N /\ ns[m].parent = p
    BY <1>1 DEF Kids
  <2>2. p < m
    BY <2>1 DEF Reading, NodeFits
  <2>3. FirstToken(ns, m) \in 1 .. Len(T) /\ s < FirstToken(ns, m)
    BY <1>1, <2>1, <2>2, FirstTokenIs
  <2>4. NodeToken(T, ns, <<>>, m) /\ (ns[m].key # J!NoKey => NameToken(T, ns, m))
    BY <2>1 DEF Reading
  <2>5. T[FirstToken(ns, m)].parent = s
    BY <2>1, <2>4 DEF NodeToken, NameToken, FirstToken
  <2>6. FirstToken(ns, m) > s /\ m > p
    <3>1. FirstToken(ns, m) \in Int /\ s \in Int
      <4>1. s \in Nat
        BY TokenPlace
      <4>2. Len(T) \in Nat
        BY <1>1, TokenPlace
      <4>3. QED
        BY <2>3, <4>1, <4>2
    <3>2. QED
      BY <1>1, <2>1, <2>2, <2>3, <3>1
  <2>7. QED
    BY <2>1, <2>3, <2>5, <2>6
<1>3. ASSUME NEW j \in 1 .. Len(T), T[j].parent = s
      PROVE  \E m \in Kids(ns, p) : j = FirstToken(ns, m)
  <2>1. PICK m \in 1 .. N : j = Place(ns, m) \/ (ns[m].key # J!NoKey /\ j = Place(ns, m) - 1)
    BY <1>1, TokenOfNode
  <2>2. NodeToken(T, ns, <<>>, m) /\ (ns[m].key # J!NoKey => NameToken(T, ns, m)) /\ NodeFits(ns, m)
    BY <2>1 DEF Reading
  <2>3. /\ \A a \in 0 .. N, b \in 0 .. N : a # b => Place(ns, a) # Place(ns, b)
        /\ \A a \in 0 .. N, b \in 1 .. N : ns[b].key # J!NoKey => Place(ns, a) # Place(ns, b) - 1
    BY <1>1, PlacesApart
  <2>4. p \in 0 .. N /\ ns[m].parent \in 0 .. N
    <3>1. ns[m].parent < m
      BY <2>2 DEF NodeFits
    <3>2. QED
      BY <1>1, <3>1
  <2>5. CASE j = Place(ns, m) /\ ns[m].key # J!NoKey
    <3>1. T[j].parent = Place(ns, m) - 1
      BY <2>2, <2>5 DEF NodeToken
    <3>2. QED
      BY <1>3, <2>3, <2>4, <2>5, <3>1
  <2>6. CASE j = FirstToken(ns, m)
    <3>1. T[j].parent = Place(ns, ns[m].parent)
      BY <2>2, <2>6 DEF NodeToken, NameToken, FirstToken
    <3>2. ns[m].parent = p
      BY <1>3, <2>3, <2>4, <3>1
    <3>3. m \in Kids(ns, p)
      BY <1>1, <3>2 DEF Kids
    <3>4. QED
      BY <2>6, <3>3
  <2>7. QED
    BY <2>1, <2>5, <2>6 DEF FirstToken
<1>4. QED
  BY <1>2, <1>3

\* The least of a set of numbers.
LEMMA LeastIs ==
  ASSUME NEW S \in SUBSET Nat
  PROVE  /\ S # {} => J!Min(S) \in S /\ \A y \in S : J!Min(S) <= y
         /\ \A x \in S : (\A y \in S : x <= y) => J!Min(S) = x
<1>1. S # {} => \E x \in S : \A y \in S : x <= y
  BY LeastNumber
<1>2. S # {} => J!Min(S) \in S /\ \A y \in S : J!Min(S) <= y
  BY <1>1 DEF J!Min
<1>3. ASSUME NEW x \in S, \A y \in S : x <= y PROVE J!Min(S) = x
  <2>1. J!Min(S) \in S /\ J!Min(S) <= x
    BY <1>2
  <2>2. x <= J!Min(S)
    BY <1>3, <2>1
  <2>3. x \in Nat /\ J!Min(S) \in Nat
    BY <2>1
  <2>4. QED
    BY <2>1, <2>2, <2>3
<1>4. QED
  BY <1>2, <1>3

\* Only structures have members, and the first one comes next.
LEMMA KidsAre ==
  ASSUME NEW T, NEW ns, Reading(T, ns), NEW p \in 1 .. Len(ns)
  PROVE  /\ Kids(ns, p) \in SUBSET Nat /\ IsFiniteSet(Kids(ns, p)) /\ Cardinality(Kids(ns, p)) \in Nat
         /\ Cardinality(Kids(ns, p)) = 0 <=> Kids(ns, p) = {}
         /\ Kids(ns, p) # {} => /\ ns[p].kind \in Structures /\ p + 1 \in Kids(ns, p)
                                /\ J!Min(Kids(ns, p)) = p + 1
         /\ \A m \in Kids(ns, p) : ns[m].key # J!NoKey <=> ns[p].kind = "object"
<1> DEFINE N == Len(ns)
           S == Kids(ns, p)
<1>1. N \in Nat /\ DOMAIN ns = 1 .. N
  BY NodesAre DEF Reading
<1>2. \A m \in S : m \in 1 .. N /\ ns[m].parent = p /\ NodeFits(ns, m)
  BY <1>1 DEF Kids, Reading
<1>3. S \in SUBSET (1 .. N)
  BY <1>2
<1>4. IsFiniteSet(S)
  <2>1. IsFiniteSet(1 .. N)
    BY <1>1, FS_Interval
  <2> HIDE DEF S
  <2>2. QED
    BY <1>3, <2>1, FS_Subset
<1>5. Cardinality(S) \in Nat /\ (Cardinality(S) = 0 <=> S = {})
  <2> HIDE DEF S
  <2>1. QED
    BY <1>4, FS_CardinalityType, FS_EmptySet
<1>6. S \in SUBSET Nat
  <2> HIDE DEF S
  <2>1. QED
    BY <1>1, <1>3
<1>7. \A m \in S : p < m
  BY <1>2 DEF NodeFits
<1>8. ASSUME S # {}
      PROVE  ns[p].kind \in Structures /\ p + 1 \in S /\ J!Min(S) = p + 1
  <2>1. PICK m \in S : TRUE
    BY <1>8
  <2>2. NodeFits(ns, m) /\ ns[m].parent = p /\ m \in 1 .. N
    BY <1>2
  <2>3. p # 0
    OBVIOUS
  <2>4. ns[p].kind \in Structures /\ ns[p + 1].parent = p /\ p < m
    BY <2>2, <2>3 DEF NodeFits
  <2>5. p + 1 \in 1 .. N
    BY <1>1, <2>2, <2>4
  <2>6. p + 1 \in S
    BY <1>1, <2>4, <2>5 DEF Kids
  <2> HIDE DEF S
  <2>7. \A y \in S : p + 1 <= y
    <3>1. \A y \in S : y \in Nat /\ p \in Nat
      BY <1>1, <1>6
    <3>2. QED
      BY <1>7, <3>1
  <2>8. J!Min(S) = p + 1
    BY <1>6, <2>6, <2>7, LeastIs
  <2>9. QED
    BY <2>4, <2>6, <2>8
<1>9. \A m \in S : ns[m].key # J!NoKey <=> ns[p].kind = "object"
  <2>1. p # 0
    OBVIOUS
  <2>2. QED
    BY <1>2, <2>1 DEF NodeFits
<1>10. QED
  BY <1>4, <1>5, <1>6, <1>8, <1>9

\* A structure ends after its members have begun.
LEMMA BeginsInside ==
  ASSUME NEW T, NEW ns, Reading(T, ns), NEW p \in 1 .. Len(ns), NEW m \in Kids(ns, p)
  PROVE  T[FirstToken(ns, m)].start < T[Place(ns, p)].end
<1> DEFINE N == Len(ns)
           s == Place(ns, p)
           i == FirstToken(ns, m)
           k == Place(ns, m)
<1>1. N \in Nat /\ DOMAIN ns = 1 .. N /\ Len(T) = Place(ns, N) /\ T \in Seq(Token)
  BY NodesAre DEF Reading
<1>2. m \in 1 .. N /\ ns[m].parent = p /\ p # 0
  BY <1>1 DEF Kids
<1>3. i \in 1 .. Len(T) /\ k \in 1 .. Len(T) /\ s \in 1 .. Len(T) /\ i <= k
  BY <1>1, <1>2, FirstTokenIs, PlacesApart
<1>4. NodeToken(T, ns, <<>>, p) /\ Encloses(T, ns, m)
  BY <1>2 DEF Reading
<1>5. T[s].end # 0
  <2>1. DOMAIN <<>> = {}
    OBVIOUS
  <2>2. QED
    BY <1>4, <2>1 DEF NodeToken
<1>6. T[k].start < T[s].end
  BY <1>2, <1>4, <1>5 DEF Encloses
<1>7. T[i] \in Token /\ T[k] \in Token /\ T[s] \in Token
  <2>1. \A j \in 1 .. Len(T) : T[j] \in Token
    BY <1>1
  <2> HIDE DEF i, k, s
  <2>2. QED
    BY <1>3, <2>1
<1>8. T[i].start \in Nat /\ T[k].start \in Nat /\ T[s].end \in Nat
  BY <1>7, TokenFields
<1>9. T[i].start <= T[k].start
  <2> HIDE DEF i, k, s
  <2>1. CASE i = k
    BY <1>8, <2>1
  <2>2. CASE i # k
    <3>1. i < k
      <4>1. Len(T) \in Nat
        BY <1>1
      <4>2. QED
        BY <1>3, <2>2, <4>1
    <3>2. T[i].start < T[k].start
      BY <1>3, <3>1 DEF Reading
    <3>3. QED
      BY <1>8, <3>2
  <2>3. QED
    BY <2>1, <2>2
<1>10. QED
  <2> HIDE DEF i, k, s
  <2>1. T[i].start < T[s].end
    BY <1>6, <1>8, <1>9
  <2>2. QED
    BY <2>1 DEF i, s

\* An iterator that stands at the first of some members.
Stand(ns, members) == IF members = {} THEN J!NoItem ELSE FirstToken(ns, J!Min(members))

\* The size of a structure, and where its iterator begins.
LEMMA IteratesFirst ==
  ASSUME NEW T, NEW ns, Reading(T, ns), NEW n \in 1 .. Len(ns)
  PROVE  /\ J!ArraySize(T, Place(ns, n)) + J!ObjectSize(T, Place(ns, n)) = Cardinality(Kids(ns, n))
         /\ Stand(ns, Kids(ns, n)) =
              IF ns[n].kind = "array" THEN J!ArrayIterator(T, Place(ns, n)) ELSE J!ObjectIterator(T, Place(ns, n))
<1> DEFINE s == Place(ns, n)
           S == Kids(ns, n)
           c == Cardinality(S)
<1>1. /\ c \in Nat /\ (c = 0 <=> S = {})
      /\ S # {} => ns[n].kind \in Structures /\ n + 1 \in S /\ J!Min(S) = n + 1
  BY KidsAre
<1>2. T[s].type = ns[n].kind /\ T[s].size = c
  BY DEF Reading, NodeToken
<1>3. S # {} => FirstToken(ns, n + 1) = s + 1
  <2> SUFFICES ASSUME S # {} PROVE FirstToken(ns, n + 1) = s + 1
    OBVIOUS
  <2>1. n \in Nat
    OBVIOUS
  <2>2. Place(ns, n + 1) = s + Wide(ns, n + 1) /\ s \in Nat
    BY <2>1, TokenPlace
  <2> HIDE DEF s
  <2>3. QED
    BY <2>2 DEF FirstToken, Wide
<1> HIDE DEF s, S, c
<1>4. J!ArraySize(T, s) = IF ns[n].kind = "array" THEN c ELSE 0
  BY <1>2 DEF J!ArraySize
<1>5. J!ObjectSize(T, s) = IF ns[n].kind = "object" THEN c ELSE 0
  BY <1>2 DEF J!ObjectSize
<1>6. ns[n].kind \notin Structures => c = 0
  BY <1>1
<1>7. J!ArraySize(T, s) + J!ObjectSize(T, s) = c
  BY <1>1, <1>4, <1>5, <1>6 DEF Structures
<1>8. Stand(ns, S) = IF S = {} THEN 0 ELSE s + 1
  BY <1>1, <1>3 DEF Stand, J!NoItem
<1>9. Stand(ns, S) = IF ns[n].kind = "array" THEN J!ArrayIterator(T, s) ELSE J!ObjectIterator(T, s)
  <2>1. CASE ns[n].kind = "array"
    BY <1>1, <1>4, <1>8, <2>1 DEF J!ArrayIterator, J!NoItem
  <2>2. CASE ns[n].kind = "object"
    BY <1>1, <1>5, <1>8, <2>2 DEF J!ObjectIterator, J!NoItem
  <2>3. CASE ns[n].kind \notin Structures
    <3>1. ns[n].kind # "array" /\ J!ObjectSize(T, s) = 0 /\ S = {}
      BY <1>1, <1>5, <1>6, <2>3 DEF Structures
    <3>2. QED
      BY <1>8, <3>1 DEF J!ObjectIterator, J!NoItem
  <2>4. QED
    BY <2>1, <2>2, <2>3 DEF Structures
<1>10. QED
  BY <1>7, <1>9 DEF s, S, c

StopsAfter(T, s, i) == {j \in i + 1 .. Len(T) : T[j].start >= T[s].end \/ T[j].parent = s}

\* Where the loop of the iterator ends.
LEMMA NextStop ==
  ASSUME NEW T, NEW s, NEW i
  PROVE  J!IteratorNext(T, s, i) =
           IF StopsAfter(T, s, i) = {} \/ T[J!Min(StopsAfter(T, s, i))].start >= T[s].end THEN 0
           ELSE J!Min(StopsAfter(T, s, i))
BY DEF J!IteratorNext, StopsAfter, J!NoItem

\* An iterator goes from each member to the next one.
LEMMA IteratesNext ==
  ASSUME NEW T, NEW ns, Reading(T, ns), NEW p \in 1 .. Len(ns), NEW m \in Kids(ns, p)
  PROVE  J!IteratorNext(T, Place(ns, p), FirstToken(ns, m)) = Stand(ns, {l \in Kids(ns, p) : l > m})
<1> DEFINE N == Len(ns)
           s == Place(ns, p)
           i == FirstToken(ns, m)
           S == StopsAfter(T, s, i)
           later == {l \in Kids(ns, p) : l > m}
           z == T[s].end
<1>1. N \in Nat /\ Len(T) = Place(ns, N) /\ T \in Seq(Token) /\ Len(T) \in Nat
  BY NodesAre DEF Reading
<1>2. /\ \A l \in Kids(ns, p) : /\ l \in 1 .. N /\ FirstToken(ns, l) \in 1 .. Len(T)
                                /\ T[FirstToken(ns, l)].parent = s
                                /\ T[FirstToken(ns, l)].start < z
      /\ \A j \in 1 .. Len(T) : T[j].parent = s => \E l \in Kids(ns, p) : j = FirstToken(ns, l)
  BY MembersAre, BeginsInside
<1>3. \A a, b \in 1 .. N : a < b <=> FirstToken(ns, a) < FirstToken(ns, b)
  BY <1>1, FirstTokenIs
<1>4. z \in Nat /\ \A j \in 1 .. Len(T) : T[j].start \in Nat
  <2>1. \A j \in 1 .. Len(T) : T[j] \in Token
    BY <1>1
  <2>2. s \in 1 .. Len(T)
    BY <1>1, PlacesApart
  <2> HIDE DEF s
  <2>3. QED
    BY <2>1, <2>2, TokenFields
<1>5. m \in 1 .. N /\ i \in 1 .. Len(T)
  BY <1>2
<1>6. S \in SUBSET Nat /\ \A j \in S : j \in 1 .. Len(T) /\ j > i /\ (T[j].start >= z \/ T[j].parent = s)
  <2> HIDE DEF i, s
  <2>1. \A j \in i + 1 .. Len(T) : j \in Nat /\ j \in 1 .. Len(T) /\ j > i
    BY <1>1, <1>5
  <2>2. QED
    BY <2>1 DEF StopsAfter
<1>7. \A l \in later : FirstToken(ns, l) \in S
  <2> SUFFICES ASSUME NEW l \in later PROVE FirstToken(ns, l) \in S
    OBVIOUS
  <2>1. l \in Kids(ns, p) /\ m < l /\ l \in 1 .. N /\ l \in Nat /\ m \in Nat
    BY <1>1, <1>2, <1>5
  <2>2. i < FirstToken(ns, l) /\ FirstToken(ns, l) \in 1 .. Len(T) /\ T[FirstToken(ns, l)].parent = s
    BY <1>2, <1>3, <1>5, <2>1
  <2> DEFINE j == FirstToken(ns, l)
  <2> HIDE DEF i, s, later, j
  <2>3. j \in i + 1 .. Len(T)
    BY <1>1, <1>5, <2>2 DEF j
  <2>4. QED
    BY <2>2, <2>3 DEF StopsAfter, j
<1>8. ASSUME NEW j \in S, T[j].parent = s
      PROVE  \E l \in later : j = FirstToken(ns, l)
  <2>1. j \in 1 .. Len(T) /\ j > i
    BY <1>6
  <2>2. PICK l \in Kids(ns, p) : j = FirstToken(ns, l)
    BY <1>2, <1>8, <2>1
  <2>3. l \in 1 .. N /\ i < FirstToken(ns, l)
    <3>1. i \in Nat /\ j \in Nat
      BY <1>1, <1>5, <2>1
    <3> HIDE DEF i
    <3>2. QED
      BY <1>2, <2>1, <2>2, <3>1
  <2>4. m < l
    BY <1>3, <1>5, <2>3
  <2>5. l > m
    BY <1>1, <1>5, <2>3, <2>4
  <2>6. QED
    BY <2>2, <2>5
<1> HIDE DEF S
<1>9. CASE later = {}
  <2>1. \A j \in S : T[j].start >= z
    BY <1>6, <1>8, <1>9
  <2>2. S # {} => J!Min(S) \in S
    BY <1>6, LeastIs
  <2>3. J!IteratorNext(T, s, i) = 0
    <3>1. S = {} \/ T[J!Min(S)].start >= z
      BY <2>1, <2>2
    <3>2. QED
      BY <3>1, NextStop DEF S
  <2>4. QED
    BY <1>9, <2>3 DEF Stand, J!NoItem
<1>10. CASE later # {}
  <2> DEFINE l == J!Min(later)
             j == FirstToken(ns, l)
  <2>1. l \in later /\ \A y \in later : l <= y
    <3>1. later \in SUBSET Nat
      BY KidsAre
    <3> HIDE DEF later
    <3>2. QED
      BY <1>10, <3>1, LeastIs
  <2>2. l \in Kids(ns, p) /\ l \in 1 .. N /\ \A y \in later : y \in 1 .. N
    BY <1>2, <2>1
  <2> HIDE DEF l, later
  <2>3. j \in S /\ j \in 1 .. Len(T) /\ T[j].start < z
    BY <1>2, <1>7, <2>1, <2>2
  <2>4. ASSUME NEW y \in S PROVE j <= y
    <3>1. y \in 1 .. Len(T) /\ (T[y].start >= z \/ T[y].parent = s)
      BY <1>6
    <3>2. CASE T[y].parent = s
      <4>1. PICK x \in later : y = FirstToken(ns, x)
        BY <1>8, <3>2
      <4>2. x = l \/ l < x
        BY <1>1, <2>1, <2>2
      <4>3. j = y \/ j < y
        BY <1>3, <2>2, <4>1, <4>2
      <4> HIDE DEF j
      <4>4. QED
        BY <1>1, <2>3, <3>1, <4>3
    <3>3. CASE T[y].start >= z
      <4> HIDE DEF j, z
      <4>1. T[j].start < T[y].start
        <5>1. T[j].start \in Nat /\ T[y].start \in Nat
          BY <1>4, <2>3, <3>1
        <5>2. QED
          BY <1>4, <2>3, <3>3, <5>1
      <4>2. ASSUME y < j PROVE FALSE
        <5>1. T[y].start < T[j].start
          BY <2>3, <3>1, <4>2 DEF Reading
        <5>2. T[j].start \in Nat /\ T[y].start \in Nat
          BY <1>4, <2>3, <3>1
        <5>3. QED
          BY <4>1, <5>1, <5>2
      <4>3. QED
        BY <1>1, <2>3, <3>1, <4>2
    <3>4. QED
      BY <3>1, <3>2, <3>3
  <2> HIDE DEF j
  <2>5. J!Min(S) = j /\ S # {}
    BY <1>6, <2>3, <2>4, LeastIs
  <2>6. ~ (T[j].start >= z)
    <3>1. T[j].start \in Nat
      BY <1>4, <2>3
    <3> HIDE DEF z
    <3>2. QED
      BY <1>4, <2>3, <3>1
  <2>7. J!IteratorNext(T, s, i) = j
    BY <2>5, <2>6, NextStop DEF S
  <2>8. Stand(ns, later) = j
    BY <1>10 DEF Stand, j, l
  <2>9. QED
    BY <2>7, <2>8 DEF later
<1>11. QED
  BY <1>9, <1>10

\* It has the name of the member, and its value.
LEMMA IteratesValue ==
  ASSUME NEW T, NEW ns, Reading(T, ns), NEW m \in 1 .. Len(ns)
  PROVE  /\ J!IteratorValue(T, FirstToken(ns, m)) = Place(ns, m)
         /\ T[FirstToken(ns, m)].name = ns[m].key
         /\ ns[m].key # J!NoKey => J!IsKey(T, FirstToken(ns, m))
<1>1. NodeToken(T, ns, <<>>, m) /\ (ns[m].key # J!NoKey => NameToken(T, ns, m))
  BY DEF Reading
<1>2. T[FirstToken(ns, m)].name = ns[m].key
  BY <1>1 DEF NodeToken, NameToken, FirstToken
<1>3. CASE ns[m].key # J!NoKey
  <2> DEFINE i == FirstToken(ns, m)
  <2>1. i = Place(ns, m) - 1 /\ T[i].type = "string" /\ T[i].size = 1
    BY <1>1, <1>3 DEF NameToken, FirstToken
  <2>2. i + 1 = Place(ns, m)
    <3>1. m \in Nat
      OBVIOUS
    <3>2. Place(ns, m) \in Nat
      BY <3>1, TokenPlace
    <3> HIDE DEF i
    <3>3. QED
      BY <2>1, <3>2
  <2>3. J!IsKey(T, i)
    BY <2>1 DEF J!IsKey
  <2> HIDE DEF i
  <2>4. J!IteratorValue(T, i) = Place(ns, m)
    BY <2>2, <2>3 DEF J!IteratorValue
  <2>5. QED
    BY <1>2, <2>3, <2>4 DEF i
<1>4. CASE ns[m].key = J!NoKey
  <2>1. FirstToken(ns, m) = Place(ns, m)
    BY <1>4 DEF FirstToken
  <2>2. T[Place(ns, m)].type = ns[m].kind /\ T[Place(ns, m)].size = Cardinality(Kids(ns, m))
    BY <1>1 DEF NodeToken
  <2>3. ns[m].kind = "string" => Cardinality(Kids(ns, m)) = 0
    BY KidsAre DEF Structures
  <2>4. ~ J!IsKey(T, Place(ns, m))
    BY <2>2, <2>3 DEF J!IsKey
  <2>5. QED
    BY <1>2, <1>4, <2>1, <2>4 DEF J!IteratorValue
<1>5. QED
  BY <1>3, <1>4

-----------------------------------------------------------------------------
(***************************************************************************)
(* A member is found by its index, or by its name, and the whole document  *)
(* is read as it was built.                                                *)
(***************************************************************************)
\* As many as the numbers below: how many of a set come before each of them.
LEMMA SameNumber ==
  ASSUME NEW S, NEW U, NEW f \in [S -> U], IsFiniteSet(S),
         \A a, b \in S : f[a] = f[b] => a = b, \A u \in U : \E a \in S : f[a] = u
  PROVE  IsFiniteSet(U) /\ Cardinality(U) = Cardinality(S)
<1>1. f \in Bijection(S, U)
  BY DEF Bijection, Injection, Surjection, IsInjective
<1>2. ExistsBijection(S, U)
  BY <1>1 DEF ExistsBijection
<1>3. QED
  BY <1>2, FS_Bijection

\* Each number of a set has one more of them up to it than before it.
LEMMA CountsBelow ==
  ASSUME NEW S \in SUBSET Nat, IsFiniteSet(S), NEW x \in S
  PROVE  /\ Cardinality({l \in S : l < x}) \in Nat
         /\ IsFiniteSet({l \in S : l <= x})
         /\ Cardinality({l \in S : l <= x}) = Cardinality({l \in S : l < x}) + 1
         /\ \A y \in S : x < y => Cardinality({l \in S : l < x}) < Cardinality({l \in S : l < y})
<1> DEFINE L(y) == {l \in S : l < y}
           A == {l \in S : l <= x}
<1>1. \A y \in S : IsFiniteSet(L(y)) /\ Cardinality(L(y)) \in Nat
  <2> SUFFICES ASSUME NEW y \in S PROVE IsFiniteSet(L(y)) /\ Cardinality(L(y)) \in Nat
    OBVIOUS
  <2>1. L(y) \in SUBSET S
    OBVIOUS
  <2> HIDE DEF L
  <2>2. QED
    BY <2>1, FS_Subset, FS_CardinalityType
<1>2. A = L(x) \cup {x} /\ x \notin L(x)
  <2>1. \A l \in S : l \in Nat
    OBVIOUS
  <2>2. \A l \in S : l <= x <=> l < x \/ l = x
    BY <2>1
  <2>3. ~ (x < x)
    BY <2>1
  <2>4. QED
    BY <2>2, <2>3
<1>3. IsFiniteSet(A) /\ Cardinality(A) = Cardinality(L(x)) + 1
  <2> HIDE DEF L, A
  <2>1. QED
    BY <1>1, <1>2, FS_AddElement
<1>4. ASSUME NEW y \in S, x < y PROVE Cardinality(L(x)) < Cardinality(L(y))
  <2>1. A \in SUBSET L(y)
    <3>1. \A l \in S : l \in Nat
      OBVIOUS
    <3>2. \A l \in S : l <= x => l < y
      BY <1>4, <3>1
    <3>3. QED
      BY <3>2
  <2> HIDE DEF L, A
  <2>2. Cardinality(A) <= Cardinality(L(y))
    BY <1>1, <2>1, FS_Subset
  <2>3. QED
    BY <1>1, <1>3, <2>2
<1>5. QED
  BY <1>1, <1>3, <1>4

\* No two have as many before them.
LEMMA CountsApart ==
  ASSUME NEW S \in SUBSET Nat, IsFiniteSet(S), NEW x \in S, NEW y \in S,
         Cardinality({l \in S : l < x}) = Cardinality({l \in S : l < y})
  PROVE  x = y
<1> DEFINE Earlier(z) == Cardinality({l \in S : l < z})
<1>1. \A z \in S : Earlier(z) \in Nat /\ \A w \in S : z < w => Earlier(z) < Earlier(w)
  BY CountsBelow
<1>2. Earlier(x) = Earlier(y)
  OBVIOUS
<1>3. x \in Nat /\ y \in Nat
  OBVIOUS
<1> HIDE DEF Earlier
<1>4. ~ (x < y) /\ ~ (y < x)
  BY <1>1, <1>2
<1>5. QED
  BY <1>3, <1>4

\* The place of a member among the members of an array is its ix.
LEMMA IndexesRight ==
  ASSUME NEW T, NEW ns, Reading(T, ns), NEW p \in 1 .. Len(ns), NEW m \in Kids(ns, p),
         ns[p].kind = "array"
  PROVE  J!ArrayAt(T, Place(ns, p), Cardinality({l \in Kids(ns, p) : l < m})) = Place(ns, m)
<1> DEFINE N == Len(ns)
           s == Place(ns, p)
           S == Kids(ns, p)
           L(x) == {l \in S : l < x}
           A(x) == {l \in S : l <= x}
           Q(j) == {k \in s + 1 .. j : T[k].parent = s}
           ix == Cardinality(L(m))
           hits == {j \in s + 1 .. Len(T) : T[j].parent = s /\ J!Cardinality(Q(j)) = ix + 1}
<1>1. N \in Nat /\ Len(T) = Place(ns, N) /\ Len(T) \in Nat /\ s \in Nat
  BY NodesAre, TokenPlace DEF Reading
<1>2. S \in SUBSET Nat /\ IsFiniteSet(S) /\ \A l \in S : ns[l].key = J!NoKey
  BY KidsAre
<1>3. \A l \in S : FirstToken(ns, l) = Place(ns, l)
  BY <1>2 DEF FirstToken
<1>4. /\ \A l \in S : /\ l \in 1 .. N /\ Place(ns, l) \in 1 .. Len(T)
                      /\ Place(ns, l) > s /\ T[Place(ns, l)].parent = s
      /\ \A j \in 1 .. Len(T) : T[j].parent = s => \E l \in S : j = Place(ns, l)
  BY <1>3, MembersAre
<1>5. \A a, b \in S : a < b <=> Place(ns, a) < Place(ns, b)
  BY <1>1, <1>3, <1>4, FirstTokenIs
<1>6. T[s].type = "array"
  BY DEF Reading, NodeToken
<1> HIDE DEF s, S, N
<1>7. \A x \in S : /\ Cardinality(L(x)) \in Nat /\ IsFiniteSet(A(x))
                   /\ Cardinality(A(x)) = Cardinality(L(x)) + 1
  BY <1>2, CountsBelow
<1>8. \A x \in S : Cardinality(Q(Place(ns, x))) = Cardinality(A(x))
  <2> SUFFICES ASSUME NEW x \in S PROVE Cardinality(Q(Place(ns, x))) = Cardinality(A(x))
    OBVIOUS
  <2> DEFINE f == [l \in A(x) |-> Place(ns, l)]
             j == Place(ns, x)
  <2>1. \A l \in A(x) : l \in S /\ l <= x /\ l \in Nat /\ x \in Nat /\ Place(ns, l) \in Nat
    BY <1>1, <1>2, <1>4
  <2>2. j \in Nat
    BY <1>1, <1>4
  <2>3. \A l \in A(x) : Place(ns, l) \in Q(j)
    <3> SUFFICES ASSUME NEW l \in A(x) PROVE Place(ns, l) \in Q(j)
      OBVIOUS
    <3>1. l = x \/ l < x
      BY <2>1
    <3>2. Place(ns, l) = j \/ Place(ns, l) < j
      BY <1>5, <2>1, <3>1
    <3>3. Place(ns, l) > s /\ T[Place(ns, l)].parent = s
      BY <1>4, <2>1
    <3> DEFINE k == Place(ns, l)
    <3>4. k \in Nat
      BY <2>1
    <3> HIDE DEF j, k
    <3>5. k \in s + 1 .. j
      BY <1>1, <2>2, <3>2, <3>3, <3>4 DEF k
    <3>6. QED
      BY <3>3, <3>5 DEF k
  <2>4. \A k \in Q(j) : \E l \in A(x) : Place(ns, l) = k
    <3> SUFFICES ASSUME NEW k \in Q(j) PROVE \E l \in A(x) : Place(ns, l) = k
      OBVIOUS
    <3>1. k \in 1 .. Len(T) /\ T[k].parent = s /\ k <= j
      <4>1. j \in 1 .. Len(T)
        BY <1>4
      <4> HIDE DEF j
      <4>2. QED
        BY <1>1, <4>1
    <3>2. PICK l \in S : k = Place(ns, l)
      BY <1>4, <3>1
    <3>3. ~ (x < l)
      <4>1. ~ (j < k)
        BY <2>2, <3>1
      <4>2. QED
        BY <1>5, <3>2, <4>1
    <3>4. l <= x
      BY <1>2, <3>3
    <3>5. QED
      BY <3>2, <3>4
  <2>5. \A a, b \in A(x) : Place(ns, a) = Place(ns, b) => a = b
    <3> SUFFICES ASSUME NEW a \in A(x), NEW b \in A(x), Place(ns, a) = Place(ns, b) PROVE a = b
      OBVIOUS
    <3>1. ~ (Place(ns, a) < Place(ns, b)) /\ ~ (Place(ns, b) < Place(ns, a))
      BY <2>1
    <3>2. ~ (a < b) /\ ~ (b < a)
      BY <1>5, <2>1, <3>1
    <3>3. QED
      BY <2>1, <3>2
  <2> HIDE DEF A, Q, j
  <2>6. f \in [A(x) -> Q(j)]
    BY <2>3
  <2>7. \A a, b \in A(x) : f[a] = f[b] => a = b
    BY <2>5
  <2>8. \A k \in Q(j) : \E l \in A(x) : f[l] = k
    BY <2>4
  <2> HIDE DEF f
  <2>9. QED
    BY <1>7, <2>6, <2>7, <2>8, SameNumber DEF j
<1>9. \A j : J!Cardinality(Q(j)) = Cardinality(Q(j))
  BY CardinalityIs
<1> HIDE DEF A, Q, L
<1>10. Place(ns, m) \in hits
  <2>1. m \in S
    BY DEF S
  <2>2. J!Cardinality(Q(Place(ns, m))) = ix + 1
    BY <1>7, <1>8, <1>9, <2>1
  <2> DEFINE k == Place(ns, m)
  <2>3. k \in 1 .. Len(T) /\ k > s /\ T[k].parent = s
    BY <1>4, <2>1
  <2>4. J!Cardinality(Q(k)) = ix + 1
    BY <2>2
  <2> HIDE DEF k, ix
  <2>5. k \in s + 1 .. Len(T)
    BY <1>1, <2>3
  <2>6. k \in hits
    BY <2>3, <2>4, <2>5
  <2>7. QED
    BY <2>6 DEF k
<1>11. ASSUME NEW j \in hits PROVE j = Place(ns, m)
  <2>1. j \in 1 .. Len(T) /\ T[j].parent = s
    BY <1>1
  <2>2. PICK l \in S : j = Place(ns, l)
    BY <1>4, <2>1
  <2>3. Cardinality(L(l)) + 1 = ix + 1
    BY <1>7, <1>8, <1>9, <2>2
  <2>4. Cardinality(L(l)) = Cardinality(L(m)) /\ m \in S
    <3>1. m \in S
      BY DEF S
    <3>2. QED
      BY <1>7, <2>3, <3>1
  <2>5. l = m
    BY <1>2, <2>4, CountsApart DEF L
  <2>6. QED
    BY <2>2, <2>5
<1>12. hits \in SUBSET Nat
  BY <1>1
<1> DEFINE k == Place(ns, m)
<1>13. J!Min(hits) = k
  <2> HIDE DEF hits, k
  <2>1. k \in hits /\ \A y \in hits : k <= y
    BY <1>10, <1>11, <1>12 DEF k
  <2>2. QED
    BY <1>12, <2>1, LeastIs
<1>14. J!ArrayAt(T, s, ix) = IF T[s].type # "array" \/ hits = {} THEN J!NoItem ELSE J!Min(hits)
  BY DEF J!ArrayAt, Q
<1>15. J!ArrayAt(T, s, ix) = k
  BY <1>6, <1>10, <1>13, <1>14
<1>16. QED
  BY <1>15 DEF s, S, L

\* An earlier member of the same object has a name that begins with that of m.
Covered(ns, m) == \E l \in 1 .. m - 1 : ns[l].parent = ns[m].parent /\ J!IsPrefix(ns[m].key, ns[l].key)

\* A member of an object is found by its name, unless an earlier one hides it.
LEMMA NamesRight ==
  ASSUME MemberBounds, NEW T, NEW ns, Reading(T, ns), NEW p \in 1 .. Len(ns), NEW m \in Kids(ns, p),
         ns[p].kind = "object", ~ Covered(ns, m)
  PROVE  J!ObjectFind(T, Place(ns, p), ns[m].key) = Place(ns, m)
<1> DEFINE N == Len(ns)
           s == Place(ns, p)
           i == FirstToken(ns, m)
           key == ns[m].key
           hits == {k \in s + 1 .. Len(T) :
                      T[k].parent = s /\ J!IsKey(T, k) /\ J!IsPrefix(key, T[k].name)}
<1>1. N \in Nat /\ DOMAIN ns = 1 .. N /\ Len(T) = Place(ns, N) /\ Len(T) \in Nat /\ s \in Nat
  BY NodesAre, TokenPlace DEF Reading
<1>2. \A l \in Kids(ns, p) : l \in 1 .. N /\ ns[l].parent = p /\ ns[l].key # J!NoKey
  <2>1. \A l \in Kids(ns, p) : ns[l].key # J!NoKey
    BY KidsAre
  <2>2. \A l \in Kids(ns, p) : l \in 1 .. N /\ ns[l].parent = p
    BY <1>1 DEF Kids
  <2>3. QED
    BY <2>1, <2>2
<1>3. \A l \in Kids(ns, p) : J!IsKey(T, FirstToken(ns, l)) /\ T[FirstToken(ns, l)].name = ns[l].key
  BY <1>2, IteratesValue
<1>4. i \in 1 .. Len(T) /\ i > s /\ T[i].parent = s
  BY MembersAre
<1>5. J!IsPrefix(key, key)
  <2>1. ns[m] \in Nodes
    BY <1>1, <1>2 DEF Reading
  <2>2. key \in Members
    BY <1>2, <2>1 DEF Nodes
  <2>3. key \in Seq({key[j] : j \in DOMAIN key})
    BY <2>2 DEF MemberBounds
  <2> HIDE DEF key
  <2>4. Len(key) \in Nat
    BY <2>3
  <2>5. QED
    BY <2>4 DEF J!IsPrefix
<1>6. T[s].type = "object"
  BY DEF Reading, NodeToken
<1>7. i + 1 = Place(ns, m)
  <2>1. Place(ns, m) \in Nat
    <3>1. m \in Nat
      BY <1>2
    <3>2. QED
      BY <3>1, TokenPlace
  <2>2. i = Place(ns, m) - 1
    BY <1>2 DEF FirstToken
  <2> HIDE DEF i
  <2>3. QED
    BY <2>1, <2>2
<1>8. ASSUME NEW k \in hits PROVE i <= k
  <2>1. k \in 1 .. Len(T) /\ T[k].parent = s /\ J!IsPrefix(key, T[k].name)
    BY <1>1
  <2>2. PICK l \in Kids(ns, p) : k = FirstToken(ns, l)
    BY <2>1, MembersAre
  <2>3. J!IsPrefix(key, ns[l].key)
    BY <1>3, <2>1, <2>2
  <2>4. ~ (l < m)
    <3>1. l \in 1 .. N /\ m \in 1 .. N /\ ns[l].parent = ns[m].parent
      BY <1>2
    <3>2. l \notin 1 .. m - 1
      BY <2>3, <3>1 DEF Covered
    <3>3. QED
      BY <1>1, <3>1, <3>2
  <2>5. m = l \/ m < l
    BY <1>1, <1>2, <2>4
  <2>6. i = k \/ i < k
    BY <1>1, <1>2, <2>2, <2>5, FirstTokenIs
  <2> HIDE DEF i
  <2>7. QED
    BY <1>1, <1>4, <2>1, <2>6
<1>9. i \in hits
  <2>1. J!IsKey(T, i) /\ T[i].name = key
    BY <1>3
  <2>2. i \in s + 1 .. Len(T)
    <3> HIDE DEF i, s
    <3>1. QED
      BY <1>1, <1>4
  <2> HIDE DEF i, key, s
  <2>3. QED
    BY <1>4, <1>5, <2>1, <2>2
<1>10. hits \in SUBSET Nat
  BY <1>1
<1>11. J!ObjectFind(T, s, key) =
         IF T[s].type # "object" \/ hits = {} THEN J!NoItem ELSE J!Min(hits) + 1
  BY DEF J!ObjectFind
<1>12. J!Min(hits) = i
  <2> HIDE DEF i, hits
  <2>1. QED
    BY <1>8, <1>9, <1>10, LeastIs
<1>13. J!ObjectFind(T, s, key) = i + 1
  <2> HIDE DEF i, hits, s, key
  <2>1. QED
    BY <1>6, <1>9, <1>11, <1>12
<1>14. QED
  BY <1>7, <1>13

\* What the decoder finds in tokens T at node n, and at its member m.
MemberRead(T, ns, n, m) ==
  LET i == FirstToken(ns, m)
  IN  /\ J!IteratorNext(T, Place(ns, n), i) = Stand(ns, {l \in Kids(ns, n) : l > m})
      /\ J!IteratorValue(T, i) = Place(ns, m)
      /\ T[i].name = ns[m].key
      /\ ns[n].kind = "array" =>
           J!ArrayAt(T, Place(ns, n), Cardinality({l \in Kids(ns, n) : l < m})) = Place(ns, m)
      /\ ns[n].kind = "object" /\ ~ Covered(ns, m) =>
           J!ObjectFind(T, Place(ns, n), ns[m].key) = Place(ns, m)
NodeRead(T, ns, n) ==
  LET p == Place(ns, n)
  IN  /\ T[p].type = ns[n].kind
      /\ J!ArraySize(T, p) + J!ObjectSize(T, p) = Cardinality(Kids(ns, n))
      /\ Stand(ns, Kids(ns, n)) =
           IF ns[n].kind = "array" THEN J!ArrayIterator(T, p) ELSE J!ObjectIterator(T, p)
      /\ \A m \in Kids(ns, n) : MemberRead(T, ns, n, m)

\* All this, at every node.
LEMMA NodesRead ==
  ASSUME MemberBounds, NEW T, NEW ns, Reading(T, ns)
  PROVE  \A n \in 1 .. Len(ns) : NodeRead(T, ns, n)
<1> SUFFICES ASSUME NEW n \in 1 .. Len(ns) PROVE NodeRead(T, ns, n)
  OBVIOUS
<1>1. T[Place(ns, n)].type = ns[n].kind
  BY DEF Reading, NodeToken
<1>2. \A m \in Kids(ns, n) : MemberRead(T, ns, n, m)
  <2> SUFFICES ASSUME NEW m \in Kids(ns, n) PROVE MemberRead(T, ns, n, m)
    OBVIOUS
  <2>1. m \in 1 .. Len(ns)
    BY MembersAre
  <2>2. J!IteratorNext(T, Place(ns, n), FirstToken(ns, m)) = Stand(ns, {l \in Kids(ns, n) : l > m})
    BY IteratesNext
  <2>3. J!IteratorValue(T, FirstToken(ns, m)) = Place(ns, m) /\ T[FirstToken(ns, m)].name = ns[m].key
    BY <2>1, IteratesValue
  <2>4. ns[n].kind = "array" =>
          J!ArrayAt(T, Place(ns, n), Cardinality({l \in Kids(ns, n) : l < m})) = Place(ns, m)
    BY IndexesRight
  <2>5. ns[n].kind = "object" /\ ~ Covered(ns, m) =>
          J!ObjectFind(T, Place(ns, n), ns[m].key) = Place(ns, m)
    BY NamesRight
  <2>6. QED
    BY <2>2, <2>3, <2>4, <2>5 DEF MemberRead
<1>3. QED
  BY <1>1, <1>2, IteratesFirst DEF NodeRead

\* The names that the model has for these.
LEMMA ModelNames ==
  ASSUME NEW N \in Nat, DOMAIN nodes = 1 .. N
  PROVE  /\ \A S : J!Cardinality(S) = Cardinality(S)
         /\ \A n : J!ItemOf(n) = Place(nodes, n)
         /\ \A n : J!Children(n) = Kids(nodes, n)
         /\ \A S : J!IteratorAt(S) = Stand(nodes, S)
         /\ \A m \in Nat : J!IteratorAt({m}) = FirstToken(nodes, m)
         /\ \A m : J!Hidden(m) <=> Covered(nodes, m)
<1>1. \A S : J!Cardinality(S) = Cardinality(S)
  BY CardinalityIs
<1>2. \A n : J!ItemOf(n) = Place(nodes, n)
  BY <1>1 DEF J!ItemOf, Place
<1>3. \A n : J!Children(n) = Kids(nodes, n)
  BY DEF J!Children, Kids
<1>4. \A S : J!IteratorAt(S) = Stand(nodes, S)
  BY <1>2 DEF J!IteratorAt, Stand, FirstToken
<1>5. ASSUME NEW m \in Nat PROVE J!IteratorAt({m}) = FirstToken(nodes, m)
  <2>1. J!Min({m}) = m
    BY LeastIs
  <2>2. QED
    BY <1>4, <2>1 DEF Stand
<1>6. \A m : J!Hidden(m) <=> Covered(nodes, m)
  BY DEF J!Hidden, Covered
<1>7. QED
  BY <1>1, <1>2, <1>3, <1>4, <1>5, <1>6

\* The property, from the invariant.
LEMMA DocumentReads ==
  ASSUME MemberBounds, JsonInv, DocInv
  PROVE  J!ReadAsBuilt
<1> DEFINE T == J!Tokens(J!Dump(J!Encoder))
<1> SUFFICES ASSUME phase # "spoiled"
             PROVE  /\ Len(T) = J!ItemOf(Len(nodes))
                    /\ \A n \in DOMAIN nodes :
                         LET p == J!ItemOf(n)
                         IN  /\ T[p].type = nodes[n].kind
                             /\ J!ArraySize(T, p) + J!ObjectSize(T, p) = J!Cardinality(J!Children(n))
                             /\ J!IteratorAt(J!Children(n)) =
                                  IF nodes[n].kind = "array" THEN J!ArrayIterator(T, p)
                                  ELSE J!ObjectIterator(T, p)
                             /\ \A m \in J!Children(n) :
                                  LET i == J!IteratorAt({m})
                                  IN  /\ J!IteratorNext(T, p, i)
                                           = J!IteratorAt({l \in J!Children(n) : l > m})
                                      /\ J!IteratorValue(T, i) = J!ItemOf(m)
                                      /\ T[i].name = nodes[m].key
                                      /\ nodes[n].kind = "array" =>
                                           J!ArrayAt(T, p, J!Cardinality({l \in J!Children(n) : l < m}))
                                             = J!ItemOf(m)
                                      /\ nodes[n].kind = "object" /\ ~ J!Hidden(m) =>
                                           J!ObjectFind(T, p, nodes[m].key) = J!ItemOf(m)
  BY DEF J!ReadAsBuilt
<1>1. Reading(T, nodes)
  BY DumpReads, ReadingOf
<1> HIDE DEF T
<1>2. Len(nodes) \in Nat /\ DOMAIN nodes = 1 .. Len(nodes) /\ Len(T) = Place(nodes, Len(nodes))
  BY <1>1, NodesAre DEF Reading
<1>3. \A n \in DOMAIN nodes : NodeRead(T, nodes, n)
  BY <1>1, <1>2, NodesRead
<1>4. /\ \A S : J!Cardinality(S) = Cardinality(S)
      /\ \A n : J!ItemOf(n) = Place(nodes, n)
      /\ \A n : J!Children(n) = Kids(nodes, n)
      /\ \A S : J!IteratorAt(S) = Stand(nodes, S)
      /\ \A m \in Nat : J!IteratorAt({m}) = FirstToken(nodes, m)
      /\ \A m : J!Hidden(m) <=> Covered(nodes, m)
  BY <1>2, ModelNames
<1>5. \A n : \A m \in Kids(nodes, n) : m \in Nat
  BY <1>2 DEF Kids
<1>6. ASSUME NEW n \in DOMAIN nodes, NEW m \in Kids(nodes, n)
      PROVE  LET i == J!IteratorAt({m})
             IN  /\ J!IteratorNext(T, J!ItemOf(n), i) = J!IteratorAt({l \in J!Children(n) : l > m})
                 /\ J!IteratorValue(T, i) = J!ItemOf(m)
                 /\ T[i].name = nodes[m].key
                 /\ nodes[n].kind = "array" =>
                      J!ArrayAt(T, J!ItemOf(n), J!Cardinality({l \in J!Children(n) : l < m})) = J!ItemOf(m)
                 /\ nodes[n].kind = "object" /\ ~ J!Hidden(m) =>
                      J!ObjectFind(T, J!ItemOf(n), nodes[m].key) = J!ItemOf(m)
  <2>1. MemberRead(T, nodes, n, m)
    BY <1>3 DEF NodeRead
  <2>2. J!IteratorAt({m}) = FirstToken(nodes, m)
    BY <1>4, <1>5
  <2>3. J!Children(n) = Kids(nodes, n)
    BY <1>4
  <2>4. QED
    BY <1>4, <2>1, <2>2, <2>3, Zenon DEF MemberRead
<1>7. ASSUME NEW n \in DOMAIN nodes
      PROVE  /\ T[J!ItemOf(n)].type = nodes[n].kind
             /\ J!ArraySize(T, J!ItemOf(n)) + J!ObjectSize(T, J!ItemOf(n)) = J!Cardinality(J!Children(n))
             /\ J!IteratorAt(J!Children(n)) =
                  IF nodes[n].kind = "array" THEN J!ArrayIterator(T, J!ItemOf(n))
                  ELSE J!ObjectIterator(T, J!ItemOf(n))
  BY <1>3, <1>4 DEF NodeRead
<1>8. Len(T) = J!ItemOf(Len(nodes))
  BY <1>2, <1>4
<1>9. \A n : J!Children(n) = Kids(nodes, n)
  BY <1>4
<1>10. QED
  BY <1>6, <1>7, <1>8, <1>9

\* The invariant of a behaviour.
LEMMA DocStep ==
  ASSUME MaxCalls \in Nat, MemberBounds
  PROVE  JsonInv /\ DocInv /\ [J!Next]_(J!vars) => JsonInv' /\ DocInv'
<1> SUFFICES ASSUME JsonInv, DocInv, [J!Next]_(J!vars) PROVE JsonInv' /\ DocInv'
  OBVIOUS
<1>1. JsonInv'
  BY JsonNext
<1>2. CASE J!Next
  BY <1>1, <1>2, DocNext
<1>3. CASE UNCHANGED J!vars
  <2>1. text' = text /\ nodes' = nodes /\ j_cur' = j_cur /\ phase' = phase
    BY <1>3 DEF J!vars
  <2>2. DocInv'
    BY <2>1 DEF DocInv
  <2>3. QED
    BY <1>1, <2>2
<1>4. QED
  BY <1>2, <1>3

(* Whatever is written, ended, cancelled and cleared: the document that the  *)
(* text encoder would give at that moment is read by the decoder as the tree *)
(* of the other encoder.  Its tokens are the nodes and their names, an       *)
(* iterator goes from each member of a structure to the next one and to no   *)
(* other, sizes and indexes agree, and a member is found by its name unless  *)
(* an earlier one begins with it (app_json_encode_object_cancel,             *)
(* app_json_encode_dump, app_json_decode_object_iterator_next).              *)
THEOREM DocumentsReadRight ==
  ASSUME MaxCalls \in Nat, MemberBounds
  PROVE  J!Spec => []J!ReadAsBuilt
<1> DEFINE Inv == JsonInv /\ DocInv
<1>1. J!Init => Inv
  BY JsonInit, DocInit
<1>2. Inv /\ [J!Next]_(J!vars) => Inv'
  BY DocStep
<1>3. Inv => J!ReadAsBuilt
  BY DocumentReads
<1> HIDE DEF Inv
<1>4. QED
  BY <1>1, <1>2, <1>3, PTL DEF J!Spec

(* All that is built and read, in every behaviour of the collections:        *)
(* documents of JSON are read as they were built, and configuration files as *)
(* they were written (app_json_decode_parse, iot_configuration_file_load,    *)
(* iot_config_load).                                                         *)
THEOREM ContentsAreRead == AllSpec => []ReadAsBuilt
<1>1. J!Spec => []J!ReadAsBuilt
  BY CollectionsAssumption, DocumentsReadRight
<1>2. C!Spec => []C!FilesAreRead
  BY CollectionsAssumption, FilesAreReadRight
<1>3. J!ReadAsBuilt /\ C!FilesAreRead => ReadAsBuilt
  BY DEF ReadAsBuilt
<1>4. QED
  BY <1>1, <1>2, <1>3, PartsAlone, PTL
=============================================================================
