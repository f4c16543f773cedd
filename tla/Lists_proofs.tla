---------------------------- MODULE Lists_proofs ----------------------------
(***************************************************************************)
(* Proofs about the collections of the library, for any contents, orders   *)
(* and bounds: the search by halving, the enabled plug-ins, the options,   *)
(* the items, the times of the samples, the configuration files, and the   *)
(* structures that are open in a JSON document.                            *)
(***************************************************************************)
EXTENDS Lists, Halving, FiniteSetTheorems, SequenceTheorems, TLAPS

-----------------------------------------------------------------------------
(***************************************************************************)
(* Every set of numbers that is not empty has a least member: the ordering *)
(* of the finite sets of numbers by inclusion is well founded. What a      *)
(* search by halving answers, and what a CHOOSE of the first place finds,  *)
(* is shown by the shortest stretch, or the first place, that it could     *)
(* fail for.                                                               *)
(***************************************************************************)
LEMMA LeastNumber ==
  ASSUME NEW T \in SUBSET Nat, T # {}
  PROVE  \E n \in T : \A m \in T : n <= m
<1> DEFINE Below(n) == 0 .. n
           U == {Below(n) : n \in T}
<1>1. IsWellFoundedOn(StrictSubsetOrdering(Nat), FiniteSubsetsOf(Nat))
  BY FS_StrictSubsetOrderingWellFounded
<1>2. \A n \in Nat : IsFiniteSet(0 .. n)
  BY FS_Interval
<1>3. U \subseteq FiniteSubsetsOf(Nat) /\ U # {}
  <2>1. \A n \in T : 0 .. n \in SUBSET Nat /\ IsFiniteSet(0 .. n)
    BY <1>2
  <2>2. \A n \in T : 0 .. n \in FiniteSubsetsOf(Nat)
    BY <2>1 DEF FiniteSubsetsOf
  <2>3. QED
    BY <2>2
<1>4. \E x \in U : \A y \in U : ~ (<<y, x>> \in StrictSubsetOrdering(Nat))
  <2> HIDE DEF U
  <2> QED BY <1>1, <1>3, WFMin
<1>5. PICK n \in T : \A m \in T : ~ (<<0 .. m, 0 .. n>> \in StrictSubsetOrdering(Nat))
  BY <1>4
<1>6. ASSUME NEW m \in T, m < n PROVE FALSE
  <2>1. 0 .. m \subseteq 0 .. n /\ n \in 0 .. n /\ n \notin 0 .. m
    BY <1>6
  <2>2. 0 .. m \in SUBSET Nat /\ 0 .. n \in SUBSET Nat
    OBVIOUS
  <2>3. QED
    BY <2>1, <2>2, <1>5 DEF StrictSubsetOrdering
<1>7. QED
  BY <1>6

LEMMA Induction ==
  ASSUME NEW T \in SUBSET Nat, 0 \in T, \A n \in T : n + 1 \in T
  PROVE  T = Nat
<1> SUFFICES ASSUME Nat \ T # {} PROVE FALSE
  OBVIOUS
<1>1. PICK n \in Nat \ T : \A m \in Nat \ T : n <= m
  <2> DEFINE R == Nat \ T
  <2>1. R \in SUBSET Nat /\ R # {}
    OBVIOUS
  <2> HIDE DEF R
  <2>2. \E n \in R : \A m \in R : n <= m
    BY <2>1, LeastNumber
  <2>3. QED
    BY <2>2 DEF R
<1>2. n # 0 /\ n - 1 \in Nat /\ ~ (n <= n - 1) /\ (n - 1) + 1 = n
  BY <1>1
<1>3. n - 1 \in T
  BY <1>1, <1>2
<1>4. QED
  BY <1>2, <1>3, <1>1

Results == [at : Int, found : BOOLEAN]
Answer(f, s, Lower, Higher) ==
  IF s[1] = s[2] THEN [at |-> s[1], found |-> FALSE]
  ELSE IF Middle(s) \in Lower THEN f[<<Middle(s) + 1, s[2]>>]
  ELSE IF Middle(s) \in Higher THEN f[<<s[1], Middle(s)>>]
  ELSE [at |-> Middle(s), found |-> TRUE]
Narrow(first, last, w) == {s \in Spans(first, last) : s[2] - s[1] <= w}

LEMMA Narrower ==
  ASSUME NEW first \in Int, NEW last \in Int, NEW s \in Spans(first, last), s[1] # s[2]
  PROVE  /\ Middle(s) \in s[1] .. s[2] - 1
         /\ <<Middle(s) + 1, s[2]>> \in Spans(first, last)
         /\ s[2] - (Middle(s) + 1) <= s[2] - s[1] - 1
         /\ <<s[1], Middle(s)>> \in Spans(first, last)
         /\ Middle(s) - s[1] <= s[2] - s[1] - 1
<1>1. /\ s[1] \in Int /\ s[2] \in Int /\ s[1] < s[2] /\ s = <<s[1], s[2]>>
      /\ first <= s[1] /\ s[2] <= last
  BY DEF Spans
<1> DEFINE a == s[1]
           b == s[2]
<1>2. Middle(s) = (b - a) \div 2 + a
  BY DEF Middle
<1>3. a \in Int /\ b \in Int /\ a < b
  BY <1>1
<1> HIDE DEF a, b
<1>4. (b - a) \div 2 \in Int /\ (b - a) \div 2 >= 0 /\ (b - a) \div 2 < b - a
  BY <1>3
<1>5. Middle(s) \in Int /\ a <= Middle(s) /\ Middle(s) < b
  BY <1>2, <1>3, <1>4
<1>6. QED
  BY <1>1, <1>3, <1>5 DEF a, b, Spans

Solves(f, first, last, Lower, Higher) ==
  /\ f \in [Spans(first, last) -> Results]
  /\ \A s \in Spans(first, last) : f[s] = Answer(f, s, Lower, Higher)

LEMMA HalvingExists ==
  ASSUME NEW first \in Int, NEW last \in Int, NEW Lower, NEW Higher, first <= last
  PROVE  \E f : Solves(f, first, last, Lower, Higher)
<1> DEFINE D(w) == Narrow(first, last, w)
           Good(f, w) == \A s \in D(w) : f[s] = Answer(f, s, Lower, Higher)
           T == {w \in Nat : \E f \in [D(w) -> Results] : Good(f, w)}
<1>1. 0 \in T
  <2> DEFINE f == [s \in D(0) |-> [at |-> s[1], found |-> FALSE]]
  <2>1. \A s \in D(0) : s[1] = s[2] /\ s[1] \in Int
    BY DEF Narrow, Spans
  <2>2. f \in [D(0) -> Results]
    BY <2>1 DEF Results
  <2>3. Good(f, 0)
    BY <2>1 DEF Answer
  <2>4. QED
    BY <2>2, <2>3
<1>2. ASSUME NEW w \in T PROVE w + 1 \in T
  <2>1. PICK f \in [D(w) -> Results] : Good(f, w)
    OBVIOUS
  <2> DEFINE g == [s \in D(w + 1) |-> Answer(f, s, Lower, Higher)]
  <2>2. ASSUME NEW s \in D(w + 1), s[1] # s[2]
        PROVE  /\ <<Middle(s) + 1, s[2]>> \in D(w) /\ <<s[1], Middle(s)>> \in D(w)
               /\ <<Middle(s) + 1, s[2]>> \in D(w + 1) /\ <<s[1], Middle(s)>> \in D(w + 1)
               /\ Middle(s) \in Int
    <3>1. s \in Spans(first, last) /\ s[2] - s[1] <= w + 1 /\ s[1] \in Int /\ s[2] \in Int
      BY DEF Narrow, Spans
    <3>2. Middle(s) \in s[1] .. s[2] - 1
          /\ <<Middle(s) + 1, s[2]>> \in Spans(first, last)
          /\ s[2] - (Middle(s) + 1) <= s[2] - s[1] - 1
          /\ <<s[1], Middle(s)>> \in Spans(first, last)
          /\ Middle(s) - s[1] <= s[2] - s[1] - 1
      BY <3>1, <2>2, Narrower
    <3>3. s[2] - (Middle(s) + 1) <= w /\ Middle(s) - s[1] <= w
      BY <3>1, <3>2
    <3>4. QED
      BY <3>1, <3>2, <3>3 DEF Narrow
  <2>3. g \in [D(w + 1) -> Results]
    <3> SUFFICES ASSUME NEW s \in D(w + 1) PROVE Answer(f, s, Lower, Higher) \in Results
      OBVIOUS
    <3>1. s[1] \in Int
      BY DEF Narrow, Spans
    <3>2. QED
      BY <3>1, <2>1, <2>2 DEF Answer, Results
  <2>4. \A s \in D(w) : s \in D(w + 1) /\ g[s] = f[s]
    <3> SUFFICES ASSUME NEW s \in D(w) PROVE s \in D(w + 1) /\ g[s] = f[s]
      OBVIOUS
    <3>1. s \in D(w + 1)
      BY DEF Narrow, Spans
    <3>2. f[s] = Answer(f, s, Lower, Higher)
      BY <2>1
    <3>3. QED
      BY <3>1, <3>2
  <2>5. Good(g, w + 1)
    <3> SUFFICES ASSUME NEW s \in D(w + 1) PROVE g[s] = Answer(g, s, Lower, Higher)
      OBVIOUS
    <3>1. g[s] = Answer(f, s, Lower, Higher)
      OBVIOUS
    <3> HIDE DEF g
    <3>2. Answer(f, s, Lower, Higher) = Answer(g, s, Lower, Higher)
      BY <2>2, <2>4 DEF Answer
    <3>3. QED
      BY <3>1, <3>2
  <2>6. w + 1 \in Nat
    OBVIOUS
  <2> HIDE DEF g, D, Good
  <2>7. QED
    BY <2>3, <2>5, <2>6
<1>3. T = Nat
  <2>1. T \in SUBSET Nat
    OBVIOUS
  <2> HIDE DEF T
  <2>2. QED
    BY <1>1, <1>2, <2>1, Induction
<1>4. last - first \in T
  BY <1>3
<1>5. D(last - first) = Spans(first, last)
  BY DEF Narrow, Spans
<1>6. QED
  BY <1>4, <1>5 DEF Solves

\* Where the search stops, what is before the place is lower and what is at it
\* is not: whatever the array holds, in order or not.
Stops(r, first, last, Lower, Higher) ==
  /\ r \in Results /\ r.at \in first .. last
  /\ r.found => r.at < last /\ r.at \notin Lower /\ r.at \notin Higher
  /\ ~ r.found => /\ r.at = first \/ r.at - 1 \in Lower
                  /\ r.at = last \/ r.at \in Higher

LEMMA HalveRight ==
  ASSUME NEW first \in Int, NEW last \in Int, first <= last, NEW Lower, NEW Higher
  PROVE  Stops(Halve(first, last, Lower, Higher), first, last, Lower, Higher)
<1>0. PICK f : Solves(f, first, last, Lower, Higher)
  BY HalvingExists
<1> DEFINE stop == CHOOSE h : h = [s \in Spans(first, last) |-> Answer(h, s, Lower, Higher)]
           Sp == Spans(first, last)
<1>1. Halve(first, last, Lower, Higher) = stop[<<first, last>>]
  BY DEF Halve, Answer
<1>2. stop = [s \in Sp |-> Answer(stop, s, Lower, Higher)]
  <2>1. f = [s \in Sp |-> Answer(f, s, Lower, Higher)]
    BY <1>0 DEF Solves
  <2>2. QED
    BY <2>1
<1>3. \A s \in Sp : stop[s] = Answer(stop, s, Lower, Higher)
  BY <1>2
<1> HIDE DEF stop
<1> DEFINE Right(s, r) ==
             /\ r \in Results /\ r.at \in s[1] .. s[2]
             /\ r.found => r.at < s[2] /\ r.at \notin Lower /\ r.at \notin Higher
             /\ ~ r.found => /\ r.at = s[1] \/ r.at - 1 \in Lower
                             /\ r.at = s[2] \/ r.at \in Higher
           Wrong == {w \in Nat : \E s \in Sp : s[2] - s[1] = w /\ ~ Right(s, stop[s])}
<1>4. \A s \in Sp : s = <<s[1], s[2]>> /\ s[1] \in Int /\ s[2] \in Int /\ s[1] <= s[2]
                    /\ s[2] - s[1] \in Nat
  BY DEF Spans
<1>5. ASSUME NEW s \in Sp, \A t \in Sp : t[2] - t[1] < s[2] - s[1] => Right(t, stop[t])
      PROVE  Right(s, stop[s])
  <2>1. stop[s] = Answer(stop, s, Lower, Higher)
    BY <1>3
  <2>2. CASE s[1] = s[2]
    BY <2>1, <2>2, <1>4 DEF Answer, Results
  <2>3. CASE s[1] # s[2]
    <3> DEFINE m == Middle(s)
               right == <<m + 1, s[2]>>
               left == <<s[1], m>>
    <3>1. /\ m \in s[1] .. s[2] - 1 /\ right \in Sp /\ left \in Sp
          /\ s[2] - (m + 1) < s[2] - s[1] /\ m - s[1] < s[2] - s[1]
      <4>1. /\ m \in s[1] .. s[2] - 1 /\ right \in Sp /\ left \in Sp
            /\ s[2] - (m + 1) <= s[2] - s[1] - 1 /\ m - s[1] <= s[2] - s[1] - 1
        BY <2>3, Narrower
      <4> HIDE DEF m
      <4>2. QED
        BY <4>1, <1>4
    <3>2. Right(right, stop[right]) /\ Right(left, stop[left])
      <4>1. right[1] = m + 1 /\ right[2] = s[2] /\ left[1] = s[1] /\ left[2] = m
        OBVIOUS
      <4> HIDE DEF right, left, Right
      <4>2. QED
        BY <1>5, <3>1, <4>1
    <3>3. CASE m \in Lower
      <4>1. stop[s] = stop[right]
        BY <2>1, <2>3, <3>3 DEF Answer
      <4>2. QED
        BY <4>1, <3>1, <3>2, <3>3, <1>4
    <3>4. CASE m \notin Lower /\ m \in Higher
      <4>1. stop[s] = stop[left]
        BY <2>1, <2>3, <3>4 DEF Answer
      <4>2. QED
        BY <4>1, <3>1, <3>2, <3>4, <1>4
    <3>5. CASE m \notin Lower /\ m \notin Higher
      <4>1. stop[s] = [at |-> m, found |-> TRUE]
        BY <2>1, <2>3, <3>5 DEF Answer
      <4>2. QED
        BY <4>1, <3>1, <3>5, <1>4 DEF Results
    <3>6. QED
      BY <3>3, <3>4, <3>5
  <2>4. QED
    BY <2>2, <2>3
<1>6. Wrong = {}
  <2> SUFFICES ASSUME Wrong # {} PROVE FALSE
    OBVIOUS
  <2>1. Wrong \in SUBSET Nat
    OBVIOUS
  <2>2. PICK w \in Wrong : \A v \in Wrong : w <= v
    <3> HIDE DEF Wrong
    <3> QED BY <2>1, LeastNumber
  <2>3. PICK s \in Sp : s[2] - s[1] = w /\ ~ Right(s, stop[s])
    OBVIOUS
  <2> HIDE DEF Right
  <2>4. \A t \in Sp : t[2] - t[1] < s[2] - s[1] => Right(t, stop[t])
    BY <2>2, <2>3, <1>4
  <2>5. QED
    BY <2>3, <2>4, <1>5
<1>7. <<first, last>> \in Sp /\ <<first, last>>[1] = first /\ <<first, last>>[2] = last
  BY DEF Spans
<1>8. Right(<<first, last>>, stop[<<first, last>>])
  BY <1>4, <1>6, <1>7
<1>9. QED
  BY <1>1, <1>7, <1>8 DEF Stops

-----------------------------------------------------------------------------
(***************************************************************************)
(* Sequences.                                                              *)
(***************************************************************************)
\* An entry put in at a place, and one taken out of it.
PutIn(s, i, e) == SubSeq(s, 1, i - 1) \o <<e>> \o SubSeq(s, i, Len(s))
TakenOut(s, i) == SubSeq(s, 1, i - 1) \o SubSeq(s, i + 1, Len(s))

LEMMA SubSeqIs ==
  ASSUME NEW S, NEW s \in Seq(S), NEW m \in 1 .. Len(s) + 1, NEW n \in m - 1 .. Len(s)
  PROVE  /\ SubSeq(s, m, n) \in Seq(S)
         /\ Len(SubSeq(s, m, n)) = n - m + 1
         /\ \A i \in 1 .. n - m + 1 : SubSeq(s, m, n)[i] = s[m + i - 1]
OBVIOUS

\* An item put into a sequence at a place: what the longer sequence then holds.
PutsIn(S, s, i, e) ==
  /\ PutIn(s, i, e) \in Seq(S) /\ Len(PutIn(s, i, e)) = Len(s) + 1
  /\ \A k \in 1 .. Len(s) + 1 :
       PutIn(s, i, e)[k] = IF k < i THEN s[k] ELSE IF k = i THEN e ELSE s[k - 1]

LEMMA PutInPuts ==
  ASSUME NEW S, NEW s \in Seq(S), NEW i \in 1 .. Len(s) + 1, NEW e \in S
  PROVE  PutsIn(S, s, i, e)
<1> DEFINE a == SubSeq(s, 1, i - 1)
           b == SubSeq(s, i, Len(s))
           n == Len(s)
<1>1. n \in Nat /\ i \in Nat /\ 1 <= i /\ i <= n + 1
  OBVIOUS
<1>2. /\ a \in Seq(S) /\ Len(a) = i - 1
      /\ \A k \in 1 .. i - 1 : a[k] = s[k]
  <2>1. 1 \in 1 .. Len(s) + 1 /\ i - 1 \in 1 - 1 .. Len(s)
    BY <1>1
  <2>2. /\ a \in Seq(S) /\ Len(a) = (i - 1) - 1 + 1
        /\ \A k \in 1 .. (i - 1) - 1 + 1 : a[k] = s[1 + k - 1]
    BY <2>1, SubSeqIs
  <2> HIDE DEF a
  <2>3. (i - 1) - 1 + 1 = i - 1 /\ \A k \in 1 .. i - 1 : 1 + k - 1 = k
    BY <1>1
  <2>4. QED
    BY <2>2, <2>3
<1>3. /\ b \in Seq(S) /\ Len(b) = n - i + 1
      /\ \A k \in 1 .. n - i + 1 : b[k] = s[i + k - 1]
  <2>1. n \in i - 1 .. Len(s)
    BY <1>1
  <2>2. QED
    BY <2>1, SubSeqIs
<1> HIDE DEF a, b, n
<1>4. <<e>> \in Seq(S) /\ Len(<<e>>) = 1 /\ <<e>>[1] = e
  OBVIOUS
<1>5. /\ a \o <<e>> \in Seq(S) /\ Len(a \o <<e>>) = i
      /\ \A k \in 1 .. i : (a \o <<e>>)[k] = IF k < i THEN s[k] ELSE e
  <2>1. /\ a \o <<e>> \in Seq(S) /\ Len(a \o <<e>>) = Len(a) + 1
        /\ \A k \in 1 .. Len(a) + 1 :
             (a \o <<e>>)[k] = IF k <= Len(a) THEN a[k] ELSE <<e>>[k - Len(a)]
    BY <1>2, <1>4, ConcatProperties
  <2>2. Len(a) + 1 = i
    BY <1>1, <1>2
  <2>3. ASSUME NEW k \in 1 .. i PROVE (a \o <<e>>)[k] = IF k < i THEN s[k] ELSE e
    <3>1. CASE k < i
      BY <3>1, <2>1, <1>1, <1>2
    <3>2. CASE k = i
      <4>1. (a \o <<e>>)[k] = <<e>>[k - Len(a)] /\ k - Len(a) = 1
        BY <3>2, <2>1, <1>1, <1>2
      <4>2. QED
        BY <4>1, <3>2, <1>1, <1>4
    <3>3. k < i \/ k = i
      BY <1>1
    <3>4. QED
      BY <3>1, <3>2, <3>3
  <2>4. QED
    BY <2>1, <2>2, <2>3
<1> DEFINE c == a \o <<e>>
<1> HIDE DEF c
<1>6. /\ c \o b \in Seq(S) /\ Len(c \o b) = n + 1
      /\ \A k \in 1 .. n + 1 : (c \o b)[k] = IF k <= i THEN c[k] ELSE b[k - i]
  <2>1. c \in Seq(S) /\ Len(c) = i
    BY <1>5 DEF c
  <2>2. /\ c \o b \in Seq(S) /\ Len(c \o b) = Len(c) + Len(b)
        /\ \A k \in 1 .. Len(c) + Len(b) :
             (c \o b)[k] = IF k <= Len(c) THEN c[k] ELSE b[k - Len(c)]
    BY <2>1, <1>3, ConcatProperties
  <2>3. i + (n - i + 1) = n + 1
    BY <1>1
  <2>4. QED
    BY <2>1, <2>2, <2>3, <1>3
<1>7. ASSUME NEW k \in 1 .. n + 1
      PROVE  (c \o b)[k] = IF k < i THEN s[k] ELSE IF k = i THEN e ELSE s[k - 1]
  <2>1. CASE k <= i
    BY <2>1, <1>1, <1>5, <1>6 DEF c
  <2>2. CASE ~ (k <= i)
    <3>1. k - i \in 1 .. n - i + 1 /\ i + (k - i) - 1 = k - 1
      BY <2>2, <1>1
    <3>2. b[k - i] = s[k - 1]
      BY <3>1, <1>3
    <3>3. QED
      BY <2>2, <3>2, <1>1, <1>6
  <2>3. QED
    BY <2>1, <2>2
<1>8. QED
  <2>1. PutIn(s, i, e) = c \o b
    BY DEF PutIn, c, a, b
  <2>2. Len(s) = n
    BY DEF n
  <2>3. QED
    BY <1>6, <1>7, <2>1, <2>2, Zenon DEF PutsIn

LEMMA PutInIs ==
  ASSUME NEW S, NEW s \in Seq(S), NEW i \in 1 .. Len(s) + 1, NEW e \in S
  PROVE  /\ PutIn(s, i, e) \in Seq(S) /\ Len(PutIn(s, i, e)) = Len(s) + 1
         /\ \A k \in 1 .. Len(s) + 1 :
              PutIn(s, i, e)[k] = IF k < i THEN s[k] ELSE IF k = i THEN e ELSE s[k - 1]
<1>1. PutsIn(S, s, i, e)
  BY PutInPuts, Zenon
<1>2. QED
  BY <1>1, Zenon DEF PutsIn

LEMMA TakenOutIs ==
  ASSUME NEW S, NEW s \in Seq(S), NEW i \in 1 .. Len(s)
  PROVE  /\ TakenOut(s, i) \in Seq(S) /\ Len(TakenOut(s, i)) = Len(s) - 1
         /\ \A k \in 1 .. Len(s) - 1 : TakenOut(s, i)[k] = IF k < i THEN s[k] ELSE s[k + 1]
<1> DEFINE a == SubSeq(s, 1, i - 1)
           b == SubSeq(s, i + 1, Len(s))
           n == Len(s)
<1>1. n \in Nat /\ i \in Nat /\ 1 <= i /\ i <= n
  OBVIOUS
<1>2. /\ a \in Seq(S) /\ Len(a) = i - 1
      /\ \A k \in 1 .. i - 1 : a[k] = s[k]
  <2>1. 1 \in 1 .. Len(s) + 1 /\ i - 1 \in 1 - 1 .. Len(s)
    BY <1>1
  <2>2. /\ a \in Seq(S) /\ Len(a) = (i - 1) - 1 + 1
        /\ \A k \in 1 .. (i - 1) - 1 + 1 : a[k] = s[1 + k - 1]
    BY <2>1, SubSeqIs
  <2> HIDE DEF a
  <2>3. (i - 1) - 1 + 1 = i - 1 /\ \A k \in 1 .. i - 1 : 1 + k - 1 = k
    BY <1>1
  <2>4. QED
    BY <2>2, <2>3
<1>3. /\ b \in Seq(S) /\ Len(b) = n - i
      /\ \A k \in 1 .. n - i : b[k] = s[i + k]
  <2>1. i + 1 \in 1 .. Len(s) + 1 /\ n \in (i + 1) - 1 .. Len(s)
    BY <1>1
  <2>2. /\ b \in Seq(S) /\ Len(b) = n - (i + 1) + 1
        /\ \A k \in 1 .. n - (i + 1) + 1 : b[k] = s[(i + 1) + k - 1]
    BY <2>1, SubSeqIs
  <2> HIDE DEF b
  <2>3. n - (i + 1) + 1 = n - i /\ \A k \in 1 .. n - i : (i + 1) + k - 1 = i + k
    BY <1>1
  <2>4. QED
    BY <2>2, <2>3
<1> HIDE DEF a, b, n
<1>4. /\ a \o b \in Seq(S) /\ Len(a \o b) = n - 1
      /\ \A k \in 1 .. n - 1 : (a \o b)[k] = IF k <= i - 1 THEN a[k] ELSE b[k - (i - 1)]
  <2>1. /\ a \o b \in Seq(S) /\ Len(a \o b) = Len(a) + Len(b)
        /\ \A k \in 1 .. Len(a) + Len(b) :
             (a \o b)[k] = IF k <= Len(a) THEN a[k] ELSE b[k - Len(a)]
    BY <1>2, <1>3, ConcatProperties
  <2>2. (i - 1) + (n - i) = n - 1
    BY <1>1
  <2>3. QED
    BY <2>1, <2>2, <1>2, <1>3
<1>5. ASSUME NEW k \in 1 .. n - 1 PROVE (a \o b)[k] = IF k < i THEN s[k] ELSE s[k + 1]
  <2>1. CASE k < i
    BY <2>1, <1>1, <1>2, <1>4
  <2>2. CASE ~ (k < i)
    <3>1. k - (i - 1) \in 1 .. n - i /\ i + (k - (i - 1)) = k + 1 /\ ~ (k <= i - 1)
      BY <2>2, <1>1
    <3>2. b[k - (i - 1)] = s[k + 1]
      BY <3>1, <1>3
    <3>3. QED
      BY <2>2, <3>1, <3>2, <1>1, <1>4
  <2>3. QED
    BY <2>1, <2>2
<1>6. QED
  BY <1>4, <1>5 DEF TakenOut, a, b, n

-----------------------------------------------------------------------------
(***************************************************************************)
(* The plug-ins. The array of those enabled has no one twice and stands in *)
(* rising order; iot_plugin_enable_by_ptr keeps it so because the place it *)
(* finds by halving has no higher order before it and no lower one behind. *)
(***************************************************************************)
Entries == [ptr : P!Slots, order : Int]
Ranked(s) ==
  \A i, j \in 1 .. Len(s) : i < j => s[i].ptr # s[j].ptr /\ s[i].order <= s[j].order

PluginTypes ==
  /\ plugin \in [P!Slots -> Plugins \cup {NoFile}] /\ plugin_ptr \in [P!Slots -> P!Slots]
  /\ plugin_count \in 0 .. IOT_PLUGIN_MAX
  /\ plugin_enabled \in Seq(Entries)

PluginInv == PluginTypes /\ Ranked(plugin_enabled)

LEMMA PluginInit ==
  ASSUME PluginBounds, P!Init
  PROVE  PluginInv
<1>1. \A s \in P!Slots : s < Len(Loaded) => Loaded[s + 1] \in Plugins
  BY DEF PluginBounds, P!Slots
<1>2. plugin \in [P!Slots -> Plugins \cup {NoFile}]
  BY <1>1 DEF P!Init
<1>3. plugin_ptr \in [P!Slots -> P!Slots]
  BY DEF P!Init
<1>4. plugin_count \in 0 .. IOT_PLUGIN_MAX
  BY DEF P!Init, PluginBounds
<1>5. plugin_enabled \in Seq(Entries) /\ Len(plugin_enabled) = 0
  BY DEF P!Init
<1>6. Ranked(plugin_enabled)
  BY <1>5 DEF Ranked
<1>7. QED
  BY <1>2, <1>3, <1>4, <1>5, <1>6 DEF PluginInv, PluginTypes

\* iot_plugin_enable_by_ptr: the place is behind all that have a lower order.
LEMMA WithIsRanked ==
  ASSUME PluginInv, NEW s \in P!Slots, NEW file, Order[file] \in Int, ~ P!Enabled(s)
  PROVE  P!With(s, file) \in Seq(Entries) /\ Ranked(P!With(s, file))
<1> DEFINE n == Len(plugin_enabled)
           Lower == {i \in 1 .. n : Order[file] > plugin_enabled[i].order}
           r == Halve(1, n + 1, Lower, (1 .. n) \ Lower)
           p == r.at
           e == [ptr |-> s, order |-> Order[file]]
           t == PutIn(plugin_enabled, p, e)
<1>1. plugin_enabled \in Seq(Entries) /\ n \in Nat /\ 1 \in Int /\ n + 1 \in Int /\ 1 <= n + 1
  BY DEF PluginInv, PluginTypes
<1>2. \A i \in 1 .. n : plugin_enabled[i] \in Entries
  BY <1>1
<1>3. /\ r \in Results /\ r.at \in 1 .. n + 1
      /\ r.found => r.at < n + 1 /\ r.at \notin Lower /\ r.at \notin (1 .. n) \ Lower
      /\ ~ r.found => /\ r.at = 1 \/ r.at - 1 \in Lower
                      /\ r.at = n + 1 \/ r.at \in (1 .. n) \ Lower
  <2> HIDE DEF Lower, n
  <2>1. Stops(r, 1, n + 1, Lower, (1 .. n) \ Lower)
    BY <1>1, HalveRight
  <2> HIDE DEF r
  <2>2. QED
    BY <2>1 DEF Stops
<1>4. P!With(s, file) = t
  BY DEF P!With, P!PlaceOf, PutIn, P!Halve, P!Spans, P!Middle, Halve, Spans, Middle
<1> HIDE DEF r, t
<1>5. p \in 1 .. n + 1 /\ ~ r.found
  <2>1. r.found => p \in 1 .. n /\ p \notin Lower /\ p \notin (1 .. n) \ Lower
    BY <1>1, <1>3
  <2>2. QED
    BY <2>1, <1>3
<1>6. \A i \in 1 .. n : i < p => plugin_enabled[i].order < Order[file]
  <2> SUFFICES ASSUME NEW i \in 1 .. n, i < p PROVE plugin_enabled[i].order < Order[file]
    OBVIOUS
  <2>1. p - 1 \in 1 .. n /\ plugin_enabled[p - 1].order < Order[file] /\ i <= p - 1
    BY <1>3, <1>5
  <2>2. plugin_enabled[i].order <= plugin_enabled[p - 1].order
    <3>1. CASE i = p - 1
      BY <3>1, <1>2 DEF Entries
    <3>2. CASE i < p - 1
      BY <3>2, <2>1 DEF PluginInv, Ranked
    <3>3. QED
      BY <3>1, <3>2, <2>1
  <2>3. plugin_enabled[i].order \in Int /\ plugin_enabled[p - 1].order \in Int
    BY <1>2, <2>1 DEF Entries
  <2>4. QED
    BY <2>1, <2>2, <2>3
<1>7. \A i \in 1 .. n : i >= p => Order[file] <= plugin_enabled[i].order
  <2> SUFFICES ASSUME NEW i \in 1 .. n, i >= p PROVE Order[file] <= plugin_enabled[i].order
    OBVIOUS
  <2>1. p \in 1 .. n /\ ~ (Order[file] > plugin_enabled[p].order)
    BY <1>3, <1>5, <1>1
  <2>2. plugin_enabled[p].order <= plugin_enabled[i].order
    <3>1. CASE i = p
      BY <3>1, <1>2 DEF Entries
    <3>2. CASE p < i
      BY <3>2, <2>1 DEF PluginInv, Ranked
    <3>3. QED
      BY <3>1, <3>2, <2>1
  <2>3. plugin_enabled[i].order \in Int /\ plugin_enabled[p].order \in Int
    BY <1>2, <2>1 DEF Entries
  <2>4. QED
    BY <2>1, <2>2, <2>3
<1>8. e \in Entries /\ e.ptr = s /\ e.order = Order[file]
  BY DEF Entries
<1> HIDE DEF e, n
<1>9. /\ t \in Seq(Entries) /\ Len(t) = n + 1
      /\ \A k \in 1 .. n + 1 :
           t[k] = IF k < p THEN plugin_enabled[k] ELSE IF k = p THEN e ELSE plugin_enabled[k - 1]
  <2> HIDE DEF p
  <2>1. p \in 1 .. Len(plugin_enabled) + 1
    BY <1>5 DEF n
  <2>2. QED
    BY <1>1, <2>1, <1>8, PutInIs DEF t, n
<1>10. \A i \in 1 .. n : plugin_enabled[i].ptr # s
  BY DEF P!Enabled, n
<1>11. ASSUME NEW i \in 1 .. n + 1, NEW j \in 1 .. n + 1, i < j
       PROVE  t[i].ptr # t[j].ptr /\ t[i].order <= t[j].order
  <2>1. p \in Int /\ i \in Int /\ j \in Int
    BY <1>5, <1>1
  <2> HIDE DEF p
  <2>2. CASE j < p
    <3>1. t[i] = plugin_enabled[i] /\ t[j] = plugin_enabled[j] /\ i \in 1 .. n /\ j \in 1 .. n
      BY <2>1, <2>2, <1>9, <1>11, <1>5, <1>1
    <3>2. QED
      BY <3>1, <1>11 DEF PluginInv, Ranked, n
  <2>3. CASE j = p
    <3>1. t[i] = plugin_enabled[i] /\ t[j] = e /\ i \in 1 .. n /\ i < p
      BY <2>1, <2>3, <1>9, <1>11, <1>5, <1>1
    <3>2. plugin_enabled[i].order \in Int
      BY <3>1, <1>2 DEF Entries
    <3>3. QED
      BY <3>1, <3>2, <1>6, <1>8, <1>10
  <2>4. CASE p < j /\ i < p
    <3>1. t[i] = plugin_enabled[i] /\ t[j] = plugin_enabled[j - 1]
          /\ i \in 1 .. n /\ j - 1 \in 1 .. n /\ i < j - 1
      BY <2>1, <2>4, <1>9, <1>11, <1>5, <1>1
    <3>2. QED
      BY <3>1 DEF PluginInv, Ranked, n
  <2>5. CASE p < j /\ i = p
    <3>1. t[i] = e /\ t[j] = plugin_enabled[j - 1] /\ j - 1 \in 1 .. n /\ j - 1 >= p
      BY <2>1, <2>5, <1>9, <1>11, <1>5, <1>1
    <3>2. QED
      BY <3>1, <1>7, <1>8, <1>10
  <2>6. CASE p < j /\ p < i
    <3>1. t[i] = plugin_enabled[i - 1] /\ t[j] = plugin_enabled[j - 1]
          /\ i - 1 \in 1 .. n /\ j - 1 \in 1 .. n /\ i - 1 < j - 1
      BY <2>1, <2>6, <1>9, <1>11, <1>5, <1>1
    <3>2. QED
      BY <3>1 DEF PluginInv, Ranked, n
  <2>7. QED
    BY <2>1, <2>2, <2>3, <2>4, <2>5, <2>6
<1>12. QED
  BY <1>4, <1>9, <1>11 DEF Ranked

\* Who leaves the array lets the others close up.
LEMMA WithoutIsRanked ==
  ASSUME PluginInv, NEW s
  PROVE  P!Without(s) \in Seq(Entries) /\ Ranked(P!Without(s))
<1>1. CASE ~ P!Enabled(s)
  BY <1>1 DEF P!Without, PluginInv, PluginTypes
<1>2. CASE P!Enabled(s)
  <2> DEFINE First(i) == plugin_enabled[i].ptr = s
                         /\ \A j \in 1 .. i - 1 : plugin_enabled[j].ptr # s
             T == {i \in 1 .. Len(plugin_enabled) : plugin_enabled[i].ptr = s}
             place == CHOOSE i \in 1 .. Len(plugin_enabled) : First(i)
  <2>1. Len(plugin_enabled) \in Nat /\ T \in SUBSET Nat /\ T # {}
    BY <1>2 DEF P!Enabled, PluginInv, PluginTypes
  <2>2. \E i \in T : \A j \in T : i <= j
    <3> HIDE DEF T
    <3> QED BY <2>1, LeastNumber
  <2>3. \E i \in 1 .. Len(plugin_enabled) : First(i)
    BY <2>1, <2>2
  <2>4. place \in 1 .. Len(plugin_enabled)
    <3> HIDE DEF First
    <3> QED BY <2>3
  <2>5. P!Without(s) = TakenOut(plugin_enabled, place)
    BY <1>2 DEF P!Without, TakenOut
  <2> HIDE DEF place
  <2> DEFINE t == TakenOut(plugin_enabled, place)
             n == Len(plugin_enabled)
  <2>6. /\ t \in Seq(Entries) /\ Len(t) = n - 1
        /\ \A k \in 1 .. n - 1 : t[k] = IF k < place THEN plugin_enabled[k] ELSE plugin_enabled[k + 1]
    BY <2>4, TakenOutIs DEF PluginInv, PluginTypes
  <2> HIDE DEF t
  <2>7. Ranked(t)
    <3> SUFFICES ASSUME NEW i \in 1 .. n - 1, NEW j \in 1 .. n - 1, i < j
                 PROVE  t[i].ptr # t[j].ptr /\ t[i].order <= t[j].order
      BY <2>6 DEF Ranked
    <3> DEFINE a == IF i < place THEN i ELSE i + 1
               b == IF j < place THEN j ELSE j + 1
    <3>1. a \in 1 .. n /\ b \in 1 .. n /\ a < b
      BY <2>1, <2>4
    <3>2. t[i] = plugin_enabled[a] /\ t[j] = plugin_enabled[b]
      BY <2>6
    <3> HIDE DEF a, b
    <3>3. QED
      BY <3>1, <3>2 DEF PluginInv, Ranked
  <2>8. QED
    BY <2>5, <2>6, <2>7 DEF t
<1>3. QED
  BY <1>1, <1>2

\* The first plug-in of a name is one of the list, or there is none.
LEMMA FirstOfIs ==
  ASSUME PluginInv, NEW file
  PROVE  P!FirstOf(file) \in 0 .. plugin_count
<1> DEFINE Hit(i) == i = plugin_count \/ plugin[plugin_ptr[i]] = file
           T == {i \in 0 .. plugin_count : Hit(i)}
<1>1. T \in SUBSET Nat /\ T # {} /\ plugin_count \in Nat
  BY DEF PluginInv, PluginTypes
<1>2. \E i \in T : \A j \in T : i <= j
  <2> HIDE DEF T
  <2> QED BY <1>1, LeastNumber
<1>3. \E i \in 0 .. plugin_count :
        /\ i = plugin_count \/ plugin[plugin_ptr[i]] = file
        /\ \A j \in 0 .. i - 1 : plugin[plugin_ptr[j]] # file
  BY <1>1, <1>2
<1>4. QED
  BY <1>3 DEF P!FirstOf

LEMMA EnableInv ==
  ASSUME PluginBounds, PluginInv, NEW file \in Plugins, P!Enable(file)
  PROVE  PluginInv'
<1> DEFINE s == plugin_ptr[P!FirstOf(file)]
<1>1. P!FirstOf(file) \in 0 .. plugin_count /\ P!FirstOf(file) < plugin_count
  BY FirstOfIs DEF P!Enable
<1>2. s \in P!Slots
  BY <1>1 DEF PluginBounds, PluginInv, PluginTypes, P!Slots
<1>3. /\ P!CanEnable(s, plugin[s]) /\ plugin_enabled' = P!With(s, plugin[s])
      /\ UNCHANGED <<plugin, plugin_ptr, plugin_count>>
  BY DEF P!Enable
<1> HIDE DEF s
<1>4. ~ P!Enabled(s) /\ Order[plugin[s]] \in Int
  BY <1>2, <1>3 DEF P!CanEnable, PluginBounds, PluginInv, PluginTypes
<1>5. plugin_enabled' \in Seq(Entries) /\ Ranked(plugin_enabled')
  BY <1>2, <1>3, <1>4, WithIsRanked
<1>6. QED
  BY <1>3, <1>5 DEF PluginInv, PluginTypes, Ranked, P!Slots, Entries

LEMMA LoadInv ==
  ASSUME PluginBounds, PluginInv, NEW file \in Plugins, P!Load(file)
  PROVE  PluginInv'
<1>1. plugin_count \in P!Slots /\ plugin_count + 1 \in 0 .. IOT_PLUGIN_MAX
  BY DEF P!Load, PluginBounds, PluginInv, PluginTypes, P!Slots
<1>2. /\ plugin' = [plugin EXCEPT ![plugin_count] = file]
      /\ plugin_count' = plugin_count + 1 /\ plugin_ptr' = plugin_ptr
      /\ \/ P!CanEnable(plugin_count, file) /\ plugin_enabled' = P!With(plugin_count, file)
         \/ plugin_enabled' = plugin_enabled
  BY DEF P!Load
<1>3. Order[file] \in Int
  BY DEF PluginBounds
<1>4. plugin_enabled' \in Seq(Entries) /\ Ranked(plugin_enabled')
  <2>1. CASE P!CanEnable(plugin_count, file) /\ plugin_enabled' = P!With(plugin_count, file)
    <3>1. ~ P!Enabled(plugin_count)
      BY <2>1 DEF P!CanEnable
    <3>2. QED
      BY <1>1, <1>3, <2>1, <3>1, WithIsRanked
  <2>2. CASE plugin_enabled' = plugin_enabled
    BY <2>2 DEF PluginInv, PluginTypes
  <2>3. QED
    BY <1>2, <2>1, <2>2
<1>5. plugin' \in [P!Slots -> Plugins \cup {NoFile}]
  BY <1>1, <1>2 DEF PluginInv, PluginTypes
<1>6. QED
  BY <1>1, <1>2, <1>4, <1>5 DEF PluginInv, PluginTypes, Ranked, P!Slots, Entries

LEMMA UnloadInv ==
  ASSUME PluginBounds, PluginInv, NEW file \in Plugins, P!Unload(file)
  PROVE  PluginInv'
<1> DEFINE first == P!FirstOf(file)
<1>1. first \in 0 .. plugin_count /\ first < plugin_count - 1
  BY FirstOfIs DEF P!Unload
<1>2. /\ plugin_enabled' = P!Without(plugin_ptr[first])
      /\ plugin_ptr' = [i \in P!Slots |->
                          IF i = plugin_count - 1 THEN plugin_ptr[first]
                          ELSE IF i > first /\ i < plugin_count - 1 THEN plugin_ptr[i + 1]
                          ELSE plugin_ptr[i]]
      /\ plugin_count' = plugin_count - 1 /\ plugin' = plugin
  BY DEF P!Unload
<1> HIDE DEF first
<1>3. plugin_count \in 0 .. IOT_PLUGIN_MAX /\ plugin_count - 1 \in 0 .. IOT_PLUGIN_MAX
      /\ first \in P!Slots
      /\ \A i \in P!Slots : i < plugin_count - 1 => i + 1 \in P!Slots
  BY <1>1 DEF PluginBounds, PluginInv, PluginTypes, P!Slots
<1>4. plugin_ptr' \in [P!Slots -> P!Slots]
  BY <1>2, <1>3 DEF PluginInv, PluginTypes
<1>5. plugin_enabled' \in Seq(Entries) /\ Ranked(plugin_enabled')
  BY <1>2, WithoutIsRanked
<1>6. QED
  BY <1>2, <1>3, <1>4, <1>5 DEF PluginInv, PluginTypes, Ranked, P!Slots, Entries

LEMMA OthersPluginInv ==
  ASSUME PluginInv, UNCHANGED <<plugin, plugin_ptr, plugin_count>>,
         \/ plugin_enabled' = plugin_enabled
         \/ \E s : plugin_enabled' = P!Without(s)
  PROVE  PluginInv'
<1>1. plugin_enabled' \in Seq(Entries) /\ Ranked(plugin_enabled')
  BY WithoutIsRanked DEF PluginInv, PluginTypes
<1>2. QED
  BY <1>1 DEF PluginInv, PluginTypes, Ranked, P!Slots, Entries

LEMMA PluginNext ==
  ASSUME PluginBounds, PluginInv, [P!Next]_(P!vars)
  PROVE  PluginInv'
  <1>1. ASSUME NEW file \in Plugins, P!Enable(file) PROVE PluginInv'
  BY <1>1, EnableInv
<1>2. ASSUME NEW file \in Plugins, P!Load(file) PROVE PluginInv'
  BY <1>2, LoadInv
<1>3. ASSUME NEW file \in Plugins, P!Unload(file) PROVE PluginInv'
  BY <1>3, UnloadInv
<1>4. ASSUME NEW file \in Plugins, P!Disable(file) \/ P!UnloadLast(file) PROVE PluginInv'
  BY <1>4, OthersPluginInv DEF P!Disable, P!UnloadLast
<1>5. CASE P!DisableAll
  BY <1>5, OthersPluginInv DEF P!DisableAll
<1>6. CASE UNCHANGED P!vars
  BY <1>6, OthersPluginInv DEF P!vars
<1>7. QED
  BY <1>1, <1>2, <1>3, <1>4, <1>5, <1>6 DEF P!Next

LEMMA PluginPlace ==
  ASSUME plugin_enabled \in Seq(Entries), NEW order
  PROVE  P!PlaceOf(order) \in 1 .. Len(plugin_enabled) + 1
<1> DEFINE n == Len(plugin_enabled)
           Lower == {i \in 1 .. n : order > plugin_enabled[i].order}
           r == Halve(1, n + 1, Lower, (1 .. n) \ Lower)
<1>1. n \in Nat /\ 1 \in Int /\ n + 1 \in Int /\ 1 <= n + 1
  OBVIOUS
<1>2. Stops(r, 1, n + 1, Lower, (1 .. n) \ Lower)
  <2> HIDE DEF Lower, n
  <2> QED BY <1>1, HalveRight
<1>3. P!PlaceOf(order) = r.at
  BY DEF P!PlaceOf, P!Halve, P!Spans, P!Middle, Halve, Spans, Middle
<1> HIDE DEF r
<1>4. QED
  BY <1>2, <1>3 DEF Stops

\* What both do to the elements: no other comes in than the one that is enabled.
LEMMA WithIn ==
  ASSUME PluginInv, NEW S, plugin_enabled \in Seq(S), NEW s, NEW file,
         [ptr |-> s, order |-> Order[file]] \in S
  PROVE  P!With(s, file) \in Seq(S)
<1> DEFINE p == P!PlaceOf(Order[file])
           e == [ptr |-> s, order |-> Order[file]]
<1>1. p \in 1 .. Len(plugin_enabled) + 1
  BY PluginPlace DEF PluginInv, PluginTypes
<1>2. e \in S
  OBVIOUS
<1>3. P!With(s, file) = PutIn(plugin_enabled, p, e)
  BY DEF P!With, PutIn
<1> HIDE DEF p, e
<1>4. QED
  BY <1>1, <1>2, <1>3, PutInIs

LEMMA WithoutIn ==
  ASSUME PluginInv, NEW S, plugin_enabled \in Seq(S), NEW s
  PROVE  P!Without(s) \in Seq(S)
<1>1. CASE ~ P!Enabled(s)
  BY <1>1 DEF P!Without
<1>2. CASE P!Enabled(s)
  <2> DEFINE First(i) == plugin_enabled[i].ptr = s
                         /\ \A j \in 1 .. i - 1 : plugin_enabled[j].ptr # s
             T == {i \in 1 .. Len(plugin_enabled) : plugin_enabled[i].ptr = s}
             place == CHOOSE i \in 1 .. Len(plugin_enabled) : First(i)
  <2>1. Len(plugin_enabled) \in Nat /\ T \in SUBSET Nat /\ T # {}
    BY <1>2 DEF P!Enabled, PluginInv, PluginTypes
  <2>2. \E i \in T : \A j \in T : i <= j
    <3> HIDE DEF T
    <3> QED BY <2>1, LeastNumber
  <2>3. \E i \in 1 .. Len(plugin_enabled) : First(i)
    BY <2>1, <2>2
  <2>4. place \in 1 .. Len(plugin_enabled)
    <3> HIDE DEF First
    <3> QED BY <2>3
  <2>5. P!Without(s) = TakenOut(plugin_enabled, place)
    BY <1>2 DEF P!Without, TakenOut
  <2> HIDE DEF place
  <2>6. QED
    BY <2>4, <2>5, TakenOutIs
<1>3. QED
  BY <1>1, <1>2

\* An enabled plug-in that nobody has written over stands there with its own order.
OwnEntries == {e \in Entries : e.order = Order[plugin[e.ptr]]}
OwnOrders == ~ overwritten => plugin_enabled \in Seq(OwnEntries)

LEMMA OwnOrdersNext ==
  ASSUME PluginBounds, PluginInv, OwnOrders, [P!Next]_(P!vars)
  PROVE  OwnOrders'
<1>1. ASSUME NEW s, plugin_enabled' = P!Without(s), UNCHANGED <<plugin, overwritten>>
      PROVE  OwnOrders'
  <2> SUFFICES ASSUME ~ overwritten PROVE plugin_enabled' \in Seq(OwnEntries')
    BY <1>1 DEF OwnOrders
  <2>1. plugin_enabled \in Seq(OwnEntries) /\ OwnEntries' = OwnEntries
    BY <1>1 DEF OwnOrders, OwnEntries, Entries, P!Slots
  <2>2. QED
    BY <1>1, <2>1, WithoutIn
<1>2. ASSUME NEW file \in Plugins, P!Enable(file) PROVE OwnOrders'
  <2> DEFINE s == plugin_ptr[P!FirstOf(file)]
  <2>1. P!FirstOf(file) \in 0 .. plugin_count /\ P!FirstOf(file) < plugin_count
    BY <1>2, FirstOfIs DEF P!Enable
  <2>2. s \in P!Slots
    BY <2>1 DEF PluginBounds, PluginInv, PluginTypes, P!Slots
  <2>3. /\ P!CanEnable(s, plugin[s]) /\ plugin_enabled' = P!With(s, plugin[s])
        /\ plugin' = plugin /\ overwritten' = overwritten
    BY <1>2 DEF P!Enable
  <2> HIDE DEF s
  <2>4. Order[plugin[s]] \in Int
    BY <2>2, <2>3 DEF P!CanEnable, PluginBounds, PluginInv, PluginTypes
  <2>5. [ptr |-> s, order |-> Order[plugin[s]]] \in OwnEntries
    BY <2>2, <2>4 DEF OwnEntries, Entries
  <2>6. OwnEntries' = OwnEntries
    BY <2>3 DEF OwnEntries, Entries, P!Slots
  <2>7. QED
    BY <2>3, <2>5, <2>6, WithIn DEF OwnOrders
<1>3. ASSUME NEW file \in Plugins, P!Load(file) PROVE OwnOrders'
  <2>1. /\ plugin' = [plugin EXCEPT ![plugin_count] = file]
        /\ overwritten' = (overwritten \/ P!Enabled(plugin_count))
        /\ \/ plugin_enabled' = P!With(plugin_count, file)
           \/ plugin_enabled' = plugin_enabled
    BY <1>3 DEF P!Load
  <2>2. plugin_count \in P!Slots /\ Order[file] \in Int
    BY <1>3 DEF P!Load, PluginBounds, PluginInv, PluginTypes, P!Slots
  <2> SUFFICES ASSUME ~ overwritten' PROVE plugin_enabled' \in Seq(OwnEntries')
    BY DEF OwnOrders
  <2>3. plugin_enabled \in Seq(OwnEntries) /\ ~ P!Enabled(plugin_count)
    BY <2>1 DEF OwnOrders
  <2>4. [ptr |-> plugin_count, order |-> Order[file]] \in OwnEntries'
    BY <2>1, <2>2 DEF OwnEntries, Entries, PluginInv, PluginTypes, P!Slots
  <2>5. \A i \in 1 .. Len(plugin_enabled) : plugin_enabled[i] \in OwnEntries'
    <3> SUFFICES ASSUME NEW i \in 1 .. Len(plugin_enabled)
                 PROVE  plugin_enabled[i] \in OwnEntries'
      OBVIOUS
    <3>1. plugin_enabled[i] \in OwnEntries /\ plugin_enabled[i].ptr # plugin_count
      BY <2>3 DEF P!Enabled
    <3>2. plugin'[plugin_enabled[i].ptr] = plugin[plugin_enabled[i].ptr]
      BY <2>1, <3>1 DEF PluginInv, PluginTypes
    <3>3. QED
      BY <3>1, <3>2 DEF OwnEntries, Entries, P!Slots
  <2>6. plugin_enabled \in Seq(OwnEntries')
    BY <2>3, <2>5
  <2>7. QED
    BY <2>1, <2>4, <2>6, WithIn
<1>4. ASSUME NEW file \in Plugins, P!Unload(file) \/ P!Disable(file) \/ P!UnloadLast(file)
      PROVE  OwnOrders'
  BY <1>1, <1>4 DEF P!Unload, P!Disable, P!UnloadLast
<1>5. CASE P!DisableAll
  BY <1>1, <1>5 DEF P!DisableAll
<1>6. CASE UNCHANGED P!vars
  BY <1>6 DEF P!vars, OwnOrders, OwnEntries, Entries, P!Slots
<1>7. QED
  BY <1>2, <1>3, <1>4, <1>5, <1>6 DEF P!Next

LEMMA OwnOrdersRank ==
  ASSUME PluginInv, OwnOrders
  PROVE  EnabledOnceInOrder
<1>1. \A i, j \in 1 .. Len(plugin_enabled) :
        i < j => plugin_enabled[i].ptr # plugin_enabled[j].ptr
  BY DEF PluginInv, Ranked
<1>2. ASSUME ~ overwritten, NEW i \in 1 .. Len(plugin_enabled),
             NEW j \in 1 .. Len(plugin_enabled), i < j
      PROVE  Order[P!Called(i)] <= Order[P!Called(j)]
  <2>1. plugin_enabled[i] \in OwnEntries /\ plugin_enabled[j] \in OwnEntries
    BY <1>2 DEF OwnOrders
  <2>2. plugin_enabled[i].order <= plugin_enabled[j].order
    BY <1>2 DEF PluginInv, Ranked
  <2>3. QED
    BY <2>1, <2>2 DEF OwnEntries, P!Called
<1>3. QED
  BY <1>1, <1>2 DEF EnabledOnceInOrder, P!EnabledOnceInOrder, P!CalledInOrder

(* However plug-ins are loaded, enabled, disabled and unloaded, for any      *)
(* plug-ins and any orders: no structure is in the list twice, and until a   *)
(* plug-in takes the structure of one that is enabled, iot_plugin_perform    *)
(* calls the plug-ins in the order that each of them asks for.               *)
THEOREM PluginsAreOrdered ==
  ASSUME PluginBounds
  PROVE  P!Spec => []EnabledOnceInOrder
<1>1. P!Init => PluginInv /\ OwnOrders
  <2>1. P!Init => OwnOrders
    BY DEF P!Init, OwnOrders
  <2>2. QED
    BY <2>1, PluginInit
<1>2. PluginInv /\ OwnOrders /\ [P!Next]_(P!vars) => PluginInv' /\ OwnOrders'
  BY PluginNext, OwnOrdersNext
<1>3. PluginInv /\ OwnOrders => EnabledOnceInOrder
  BY OwnOrdersRank
<1>4. QED
  BY <1>1, <1>2, <1>3, PTL DEF P!Spec

-----------------------------------------------------------------------------
(***************************************************************************)
(* The options. While each has a name, those of a list stand in order,     *)
(* those of an action differ in their keys and those of a request or a     *)
(* telemetry in their names: what is set is then found, and what is found  *)
(* was set.                                                                *)
(***************************************************************************)
OptionEntries == [name : O!Spelled \cup {NoName}, value : Values \cup {NoValue}]
Named(s) == \A i \in 1 .. Len(s) : s[i].name # NoName
Apart(h, a, b) ==
  CASE h = "list" -> a[1] < b[1] [] h = "action" -> a[1] # b[1] [] OTHER -> a # b
Tidy(h, s) == \A i, j \in 1 .. Len(s) : i < j => Apart(h, s[i].name, s[j].name)

OptionTidy == option \in Seq(OptionEntries) /\ (Named(option) => Tidy(holder, option))

LEMMA OptionFacts ==
  ASSUME OptionBounds, option \in Seq(OptionEntries)
  PROVE  /\ Len(option) \in Nat
         /\ \A i \in 1 .. Len(option) : option[i] \in OptionEntries
         /\ \A i \in 1 .. Len(option) :
              option[i].name # NoName => option[i].name \in O!Spelled /\ option[i].name[1] \in Int
         /\ \A n \in O!Spelled : n[1] \in Int /\ n # NoName
<1>1. \A i \in 1 .. Len(option) : option[i] \in OptionEntries
  OBVIOUS
<1>2. \A n \in O!Spelled : n[1] \in Int /\ n # NoName
  BY DEF OptionBounds, O!Spelled
<1>3. \A i \in 1 .. Len(option) : option[i].name \in O!Spelled \cup {NoName}
  BY <1>1 DEF OptionEntries
<1>4. QED
  BY <1>1, <1>2, <1>3

\* iot_options_find, whatever the array holds.
LEMMA FindIs ==
  ASSUME OptionBounds, option \in Seq(OptionEntries), NEW n \in O!Spelled
  PROVE  LET r == O!Find(n)
             len == Len(option)
         IN  /\ r.found => r.at \in 1 .. len /\ option[r.at].name # NoName
                           /\ option[r.at].name[1] = n[1]
             /\ r.null => ~ Named(option)
             /\ ~ r.found /\ ~ r.null =>
                  /\ r.at \in 1 .. len + 1
                  /\ r.at = 1 \/ (r.at - 1 \in 1 .. len /\ option[r.at - 1].name # NoName
                                  /\ option[r.at - 1].name[1] < n[1])
                  /\ r.at = len + 1 \/ (r.at \in 1 .. len /\ option[r.at].name # NoName
                                        /\ n[1] < option[r.at].name[1])
<1> DEFINE len == Len(option)
           named == {i \in 1 .. len : option[i].name # NoName}
           Lower == {i \in named : n[1] > option[i].name[1]}
           Higher == {i \in named : n[1] < option[i].name[1]}
           hit == Halve(1, len + 1, Lower, Higher)
           next == hit.at + 1
           Stop(i) == [at |-> i, found |-> i \in named, null |-> i \notin named]
           r == O!Find(n)
<1>1. len \in Nat /\ 1 \in Int /\ len + 1 \in Int /\ 1 <= len + 1
  BY OptionFacts
<1>2. /\ \A i \in named : option[i].name[1] \in Int
      /\ n[1] \in Int
  BY OptionFacts
<1>3. r = IF hit.found THEN Stop(hit.at)
          ELSE IF next <= len /\ next \notin Lower \cup Higher THEN Stop(next)
          ELSE [at |-> hit.at, found |-> FALSE, null |-> FALSE]
  BY DEF O!Find, O!Halve, O!Spans, O!Middle, Halve, Spans, Middle
<1>4. Stops(hit, 1, len + 1, Lower, Higher)
  <2> HIDE DEF len, Lower, Higher
  <2> QED BY <1>1, HalveRight
<1> HIDE DEF hit, r
<1>5. /\ hit.at \in 1 .. len + 1
      /\ hit.found => hit.at < len + 1 /\ hit.at \notin Lower /\ hit.at \notin Higher
      /\ ~ hit.found => /\ hit.at = 1 \/ hit.at - 1 \in Lower
                        /\ hit.at = len + 1 \/ hit.at \in Higher
  BY <1>4 DEF Stops
<1>6. ASSUME NEW i \in 1 .. len, i \notin Lower, i \notin Higher, r = Stop(i)
      PROVE  /\ r.found => r.at \in 1 .. len /\ option[r.at].name # NoName
                           /\ option[r.at].name[1] = n[1]
             /\ r.null => ~ Named(option)
             /\ r.found \/ r.null
  <2>1. r.at = i /\ r.found = (i \in named) /\ r.null = (i \notin named)
    BY <1>6
  <2>2. i \in named => option[i].name[1] = n[1]
    BY <1>2, <1>6
  <2>3. i \notin named => ~ Named(option)
    BY DEF Named
  <2>4. QED
    BY <2>1, <2>2, <2>3
<1>7. CASE hit.found
  <2>1. hit.at \in 1 .. len /\ hit.at \notin Lower /\ hit.at \notin Higher
    BY <1>1, <1>5, <1>7
  <2>2. r = Stop(hit.at)
    BY <1>3, <1>7
  <2>3. QED
    BY <2>1, <2>2, <1>6 DEF r
<1>8. CASE ~ hit.found /\ next <= len /\ next \notin Lower \cup Higher
  <2>1. next \in 1 .. len /\ next \notin Lower /\ next \notin Higher
    BY <1>1, <1>5, <1>8
  <2>2. r = Stop(next)
    BY <1>3, <1>8
  <2>3. QED
    BY <2>1, <2>2, <1>6 DEF r
<1>9. CASE ~ hit.found /\ ~ (next <= len /\ next \notin Lower \cup Higher)
  <2>1. r.at = hit.at /\ ~ r.found /\ ~ r.null
    BY <1>3, <1>9
  <2>2. QED
    BY <2>1, <1>5, <1>9 DEF r
<1>10. QED
  BY <1>7, <1>8, <1>9

\* In a tidy list all before the place are lower and all from it on are higher.
LEMMA FindInOrder ==
  ASSUME OptionBounds, option \in Seq(OptionEntries), Named(option), Tidy("list", option),
         NEW n \in O!Spelled
  PROVE  /\ ~ O!Find(n).null
         /\ O!Find(n).found => O!Find(n).at \in 1 .. Len(option)
                               /\ option[O!Find(n).at].name[1] = n[1]
         /\ ~ O!Find(n).found =>
              /\ O!Find(n).at \in 1 .. Len(option) + 1
              /\ \A i \in 1 .. Len(option) :
                   IF i < O!Find(n).at THEN option[i].name[1] < n[1]
                                       ELSE n[1] < option[i].name[1]
<1> DEFINE r == O!Find(n)
           len == Len(option)
           p == r.at
<1>1. /\ r.found => p \in 1 .. len /\ option[p].name[1] = n[1]
      /\ ~ r.null
      /\ ~ r.found =>
           /\ p \in 1 .. len + 1
           /\ p = 1 \/ (p - 1 \in 1 .. len /\ option[p - 1].name[1] < n[1])
           /\ p = len + 1 \/ (p \in 1 .. len /\ n[1] < option[p].name[1])
  BY FindIs
<1>2. len \in Nat /\ n[1] \in Int /\ \A i \in 1 .. len : option[i].name[1] \in Int
  BY OptionFacts DEF Named
<1>3. \A i, j \in 1 .. len : i < j => option[i].name[1] < option[j].name[1]
  BY DEF Tidy, Apart
<1> HIDE DEF r, len
<1>4. ASSUME ~ r.found, NEW i \in 1 .. len
      PROVE  IF i < p THEN option[i].name[1] < n[1] ELSE n[1] < option[i].name[1]
  <2> HIDE DEF p
  <2>1. CASE i < p
    <3>1. p - 1 \in 1 .. len /\ option[p - 1].name[1] < n[1] /\ (i < p - 1 \/ i = p - 1)
      BY <1>1, <1>2, <1>4, <2>1
    <3>2. CASE i < p - 1
      <4>1. option[i].name[1] < option[p - 1].name[1]
        BY <1>3, <3>1, <3>2
      <4>2. QED
        BY <4>1, <3>1, <1>2, <2>1
    <3>3. QED
      BY <3>1, <3>2, <2>1
  <2>2. CASE ~ (i < p)
    <3>1. p \in 1 .. len /\ n[1] < option[p].name[1] /\ (p < i \/ i = p)
      BY <1>1, <1>2, <1>4, <2>2
    <3>2. CASE p < i
      <4>1. option[p].name[1] < option[i].name[1]
        BY <1>3, <3>1, <3>2
      <4>2. QED
        BY <4>1, <3>1, <1>2, <2>2
    <3>3. QED
      BY <3>1, <3>2, <2>2
  <2>3. QED
    BY <2>1, <2>2
<1>5. QED
  BY <1>1, <1>4 DEF r, len

\* The linear search of the other three.
LEMMA ScanIs ==
  ASSUME OptionBounds, option \in Seq(OptionEntries), NEW names \in SUBSET O!Spelled
  PROVE  LET r == O!Scan(names)
         IN  /\ r.found => r.at \in 1 .. Len(option) /\ option[r.at].name \in names
             /\ r.null => ~ Named(option)
             /\ ~ r.found /\ ~ r.null =>
                  \A i \in 1 .. Len(option) : option[i].name \notin names
<1> DEFINE Hit(i) == option[i].name \in names \cup {NoName}
           len == Len(option)
           T == {i \in 1 .. len + 1 : i = len + 1 \/ Hit(i)}
           p == CHOOSE i \in 1 .. len + 1 :
                  /\ \A j \in 1 .. i - 1 : ~ Hit(j)
                  /\ i = len + 1 \/ Hit(i)
           r == O!Scan(names)
<1>1. len \in Nat /\ T \in SUBSET Nat /\ T # {}
  <2>1. len \in Nat
    BY OptionFacts
  <2> HIDE DEF len
  <2>2. len + 1 \in T
    BY <2>1
  <2> HIDE DEF Hit, p, r
  <2>3. \A i \in 1 .. len + 1 : i \in Nat
    BY <2>1
  <2>4. T \subseteq Nat
    BY <2>3
  <2> HIDE DEF T
  <2>5. QED
    BY <2>1, <2>2, <2>4
<1>2. \E i \in T : \A j \in T : i <= j
  <2> HIDE DEF T
  <2> QED BY <1>1, LeastNumber
<1>3. \E i \in 1 .. len + 1 : /\ \A j \in 1 .. i - 1 : ~ Hit(j)
                              /\ i = len + 1 \/ Hit(i)
  <2> HIDE DEF Hit
  <2>1. PICK i \in T : \A j \in T : i <= j
    BY <1>2
  <2>2. \A j \in 1 .. i - 1 : j \in 1 .. len + 1 /\ ~ (i <= j)
    BY <1>1
  <2>3. \A j \in 1 .. i - 1 : ~ Hit(j)
    BY <2>1, <2>2
  <2>4. QED
    BY <2>3
<1>4. /\ p \in 1 .. len + 1 /\ (\A j \in 1 .. p - 1 : ~ Hit(j))
      /\ p = len + 1 \/ Hit(p)
  <2> HIDE DEF Hit
  <2> QED BY <1>3
<1>5. r.at = p /\ (r.null <=> p <= len /\ option[p].name = NoName)
      /\ (r.found <=> p <= len /\ option[p].name # NoName)
  BY DEF O!Scan
<1> HIDE DEF p, r, len
<1>0. p <= len => p \in 1 .. len /\ p # len + 1
  BY <1>1, <1>4
<1>6. r.found => p \in 1 .. len /\ option[p].name \in names
  BY <1>0, <1>4, <1>5
<1>7. r.null => ~ Named(option)
  BY <1>0, <1>5 DEF Named, len
<1>8. ASSUME ~ r.found, ~ r.null, NEW i \in 1 .. len PROVE option[i].name \notin names
  <2>1. ~ (p <= len)
    BY <1>5, <1>8
  <2>2. i \in 1 .. p - 1
    BY <1>1, <1>4, <2>1
  <2>3. QED
    BY <2>2, <1>4
<1>9. QED
  BY <1>5, <1>6, <1>7, <1>8 DEF r, len

SetMatch(h, a, n) ==
  CASE h = "list" -> a[1] = n[1] [] h = "action" -> a[1] = n[1] [] OTHER -> a = n
GetMatch(h, a, n) == CASE h = "list" -> a[1] = n[1] [] OTHER -> a = n

\* The option that a name is set in, in each of the four.
LEMMA ForSetIs ==
  ASSUME OptionBounds, OptionTidy, NEW n \in O!Spelled
  PROVE  LET r == O!ForSet(n)
         IN  /\ r.found => /\ r.at \in 1 .. Len(option) /\ option[r.at].name # NoName
                           /\ SetMatch(holder, option[r.at].name, n)
             /\ r.null => ~ Named(option)
             /\ Named(option) /\ ~ r.found =>
                  \A i \in 1 .. Len(option) : ~ SetMatch(holder, option[i].name, n)
<1> DEFINE r == O!ForSet(n)
           len == Len(option)
<1>1. /\ \A i \in 1 .. len :
           option[i].name # NoName => option[i].name \in O!Spelled /\ option[i].name[1] \in Int
      /\ n[1] \in Int /\ n # NoName /\ option \in Seq(OptionEntries)
      /\ NoName \notin O!Spelled
  BY OptionFacts DEF OptionTidy, OptionBounds, O!Spelled
<1>2. CASE holder = "list"
  <2>1. r = O!Find(n) /\ \A a : SetMatch(holder, a, n) <=> a[1] = n[1]
    BY <1>2 DEF O!ForSet, SetMatch
  <2>2. /\ r.found => r.at \in 1 .. len /\ option[r.at].name # NoName
                      /\ option[r.at].name[1] = n[1]
        /\ r.null => ~ Named(option)
    BY <1>1, <2>1, FindIs
  <2>3. Named(option) /\ ~ r.found => \A i \in 1 .. len : ~ (option[i].name[1] = n[1])
    <3> SUFFICES ASSUME Named(option), ~ r.found, NEW i \in 1 .. len
                 PROVE  ~ (option[i].name[1] = n[1])
      OBVIOUS
    <3>1. IF i < O!Find(n).at THEN option[i].name[1] < n[1] ELSE n[1] < option[i].name[1]
      BY <1>1, <1>2, <2>1, FindInOrder DEF OptionTidy
    <3>2. option[i].name[1] \in Int
      BY <1>1 DEF Named
    <3>3. QED
      BY <1>1, <3>1, <3>2
  <2> HIDE DEF r
  <2>4. QED
    BY <2>1, <2>2, <2>3 DEF r
<1>3. ASSUME NEW names \in SUBSET O!Spelled, r = O!Scan(names),
             \A a \in O!Spelled : SetMatch(holder, a, n) <=> a \in names
      PROVE  /\ r.found => /\ r.at \in 1 .. len /\ option[r.at].name # NoName
                           /\ SetMatch(holder, option[r.at].name, n)
             /\ r.null => ~ Named(option)
             /\ Named(option) /\ ~ r.found =>
                  \A i \in 1 .. len : ~ SetMatch(holder, option[i].name, n)
  <2>1. /\ r.found => r.at \in 1 .. len /\ option[r.at].name \in names
        /\ r.null => ~ Named(option)
        /\ ~ r.found /\ ~ r.null => \A i \in 1 .. len : option[i].name \notin names
    BY <1>1, <1>3, ScanIs
  <2> HIDE DEF r
  <2>2. QED
    BY <2>1, <1>1, <1>3 DEF Named
<1>4. CASE holder = "action"
  <2>1. O!AnyCase(n) \in SUBSET O!Spelled /\ r = O!Scan(O!AnyCase(n))
    BY <1>4 DEF O!ForSet, O!AnyCase
  <2>2. \A a \in O!Spelled : SetMatch(holder, a, n) <=> a \in O!AnyCase(n)
    BY <1>4 DEF SetMatch, O!AnyCase, O!SameKey
  <2>3. QED
    BY <2>1, <2>2, <1>3
<1>5. CASE holder # "list" /\ holder # "action"
  <2>1. {n} \in SUBSET O!Spelled /\ r = O!Scan({n})
    BY <1>5 DEF O!ForSet
  <2>2. \A a \in O!Spelled : SetMatch(holder, a, n) <=> a \in {n}
    BY <1>5 DEF SetMatch
  <2>3. QED
    BY <2>1, <2>2, <1>3
<1>6. QED
  BY <1>2, <1>4, <1>5

\* Where an option is added.
LEMMA PlaceIs ==
  ASSUME OptionBounds, OptionTidy, NEW n \in O!Spelled, ~ O!ForSet(n).found, ~ O!ForSet(n).null
  PROVE  O!Place(n) \in 1 .. Len(option) + 1
<1>1. Len(option) \in Nat /\ option \in Seq(OptionEntries)
  BY OptionFacts DEF OptionTidy
<1>2. CASE holder = "list"
  <2>1. O!ForSet(n) = O!Find(n) /\ O!Place(n) = O!Find(n).at
    BY <1>2 DEF O!ForSet, O!Place
  <2>2. QED
    BY <2>1, <1>1, FindIs
<1>3. CASE holder # "list"
  BY <1>1, <1>3 DEF O!Place
<1>4. QED
  BY <1>2, <1>3

LEMMA AddIsTidy ==
  ASSUME OptionBounds, OptionTidy, Named(option), NEW n \in O!Spelled, NEW e \in OptionEntries,
         e.name = n, ~ O!ForSet(n).found
  PROVE  Tidy(holder, PutIn(option, O!Place(n), e))
<1> DEFINE len == Len(option)
           p == O!Place(n)
           t == PutIn(option, p, e)
<1>1. /\ len \in Nat /\ option \in Seq(OptionEntries) /\ n[1] \in Int
      /\ \A i \in 1 .. len : option[i].name \in O!Spelled /\ option[i].name[1] \in Int
      /\ ~ O!ForSet(n).null
      /\ \A i \in 1 .. len : ~ SetMatch(holder, option[i].name, n)
  BY OptionFacts, ForSetIs DEF OptionTidy, Named
<1>2. p \in 1 .. len + 1
  BY <1>1, PlaceIs
<1>3. /\ Len(t) = len + 1
      /\ \A k \in 1 .. len + 1 : t[k] = IF k < p THEN option[k] ELSE IF k = p THEN e ELSE option[k - 1]
  BY <1>1, <1>2, PutInIs
<1>4. \A i, j \in 1 .. len : i < j => Apart(holder, option[i].name, option[j].name)
  BY DEF OptionTidy, Tidy
<1>5. ASSUME NEW i \in 1 .. len
      PROVE  /\ i < p => Apart(holder, option[i].name, n)
             /\ ~ (i < p) => Apart(holder, n, option[i].name)
  <2>1. CASE holder = "list"
    <3>1. p = O!Find(n).at /\ ~ O!Find(n).found
      BY <2>1 DEF O!Place, O!ForSet
    <3>2. IF i < O!Find(n).at THEN option[i].name[1] < n[1] ELSE n[1] < option[i].name[1]
      BY <1>1, <2>1, <3>1, FindInOrder DEF OptionTidy
    <3> HIDE DEF p
    <3>3. QED
      BY <2>1, <3>1, <3>2 DEF Apart
  <2>2. CASE holder # "list"
    BY <2>2, <1>1 DEF Apart, SetMatch
  <2>3. QED
    BY <2>1, <2>2
<1> HIDE DEF t, p, len
<1>6. ASSUME NEW i \in 1 .. len + 1, NEW j \in 1 .. len + 1, i < j
      PROVE  Apart(holder, t[i].name, t[j].name)
  <2>1. CASE j < p
    <3>1. t[i] = option[i] /\ t[j] = option[j] /\ i \in 1 .. len /\ j \in 1 .. len
      BY <1>1, <1>2, <1>3, <1>6, <2>1
    <3>2. QED
      BY <3>1, <1>4, <1>6
  <2>2. CASE j = p
    <3>1. t[i] = option[i] /\ t[j] = e /\ i \in 1 .. len /\ i < p
      BY <1>1, <1>2, <1>3, <1>6, <2>2
    <3>2. QED
      BY <3>1, <1>5
  <2>3. CASE p < j /\ i < p
    <3>1. t[i] = option[i] /\ t[j] = option[j - 1]
          /\ i \in 1 .. len /\ j - 1 \in 1 .. len /\ i < j - 1
      BY <1>1, <1>2, <1>3, <1>6, <2>3
    <3>2. QED
      BY <3>1, <1>4
  <2>4. CASE p < j /\ i = p
    <3>1. t[i] = e /\ t[j] = option[j - 1] /\ j - 1 \in 1 .. len /\ ~ (j - 1 < p)
      BY <1>1, <1>2, <1>3, <1>6, <2>4
    <3>2. QED
      BY <3>1, <1>5
  <2>5. CASE p < j /\ p < i
    <3>1. t[i] = option[i - 1] /\ t[j] = option[j - 1]
          /\ i - 1 \in 1 .. len /\ j - 1 \in 1 .. len /\ i - 1 < j - 1
      BY <1>1, <1>2, <1>3, <1>6, <2>5
    <3>2. QED
      BY <3>1, <1>4
  <2>6. QED
    BY <1>2, <2>1, <2>2, <2>3, <2>4, <2>5
<1>7. QED
  BY <1>3, <1>6 DEF Tidy, t, p

\* What is read is the value of the one option that has the name.
ValuesRead ==
  \A n \in O!Spelled :
    /\ \A i \in 1 .. Len(option) :
         GetMatch(holder, option[i].name, n) => O!Value(n) = option[i].value
    /\ (\A i \in 1 .. Len(option) : ~ GetMatch(holder, option[i].name, n)) =>
         O!Value(n) = NoValue

LEMMA ValueIs == OptionBounds /\ OptionTidy /\ Named(option) => ValuesRead
<1> SUFFICES ASSUME OptionBounds, OptionTidy, Named(option), NEW n \in O!Spelled
             PROVE  /\ \A i \in 1 .. Len(option) :
                         GetMatch(holder, option[i].name, n) => O!Value(n) = option[i].value
                    /\ (\A i \in 1 .. Len(option) : ~ GetMatch(holder, option[i].name, n)) =>
                         O!Value(n) = NoValue
  BY DEF ValuesRead
<1> DEFINE r == O!ForGet(n)
           len == Len(option)
<1>1. /\ len \in Nat /\ option \in Seq(OptionEntries) /\ n[1] \in Int
      /\ \A i \in 1 .. len : option[i].name \in O!Spelled /\ option[i].name[1] \in Int
  BY OptionFacts DEF OptionTidy, Named
<1>2. /\ r.found => r.at \in 1 .. len /\ GetMatch(holder, option[r.at].name, n)
      /\ ~ r.found => \A i \in 1 .. len : ~ GetMatch(holder, option[i].name, n)
  <2>1. CASE holder = "list"
    <3>1. r = O!Find(n) /\ r = O!ForSet(n)
          /\ \A a : (SetMatch(holder, a, n) <=> a[1] = n[1]) /\ (GetMatch(holder, a, n) <=> a[1] = n[1])
      BY <2>1 DEF O!ForGet, O!ForSet, SetMatch, GetMatch
    <3>2. /\ O!ForSet(n).found =>
               O!ForSet(n).at \in 1 .. len /\ SetMatch(holder, option[O!ForSet(n).at].name, n)
          /\ ~ O!ForSet(n).found => \A i \in 1 .. len : ~ SetMatch(holder, option[i].name, n)
      BY ForSetIs
    <3> HIDE DEF r, len
    <3>3. QED
      BY <3>1, <3>2
  <2>2. CASE holder # "list"
    <3>1. r = O!Scan({n}) /\ \A a : GetMatch(holder, a, n) <=> a = n
      BY <2>2 DEF O!ForGet, GetMatch
    <3>2. {n} \in SUBSET O!Spelled
      OBVIOUS
    <3>3. LET q == O!Scan({n})
          IN  /\ q.found => q.at \in 1 .. len /\ option[q.at].name \in {n}
              /\ q.null => ~ Named(option)
              /\ ~ q.found /\ ~ q.null => \A i \in 1 .. len : option[i].name \notin {n}
      BY <1>1, <3>2, ScanIs
    <3> HIDE DEF r, len
    <3>4. QED
      BY <3>1, <3>3
  <2>3. QED
    BY <2>1, <2>2
<1>3. O!Value(n) = IF r.found THEN option[r.at].value ELSE NoValue
  BY DEF O!Value
<1> HIDE DEF r
<1>4. ASSUME NEW i \in 1 .. len, NEW j \in 1 .. len, i < j,
             GetMatch(holder, option[i].name, n), GetMatch(holder, option[j].name, n)
      PROVE  FALSE
  <2>1. Apart(holder, option[i].name, option[j].name)
    BY <1>4 DEF OptionTidy, Tidy
  <2>2. QED
    BY <2>1, <1>1, <1>4 DEF Apart, GetMatch
<1>5. ASSUME NEW i \in 1 .. len, GetMatch(holder, option[i].name, n)
      PROVE  r.found /\ r.at = i
  <2>1. r.found /\ r.at \in 1 .. len /\ GetMatch(holder, option[r.at].name, n)
    BY <1>2, <1>5
  <2>2. r.at < i \/ r.at = i \/ i < r.at
    BY <1>1, <2>1
  <2>3. QED
    BY <2>1, <2>2, <1>4, <1>5
<1>6. QED
  BY <1>2, <1>3, <1>5

Has(s, e) == \E i \in 1 .. Len(s) : s[i] = e
\* A step that changes at most the options with the key of m.
KeptBut(m) ==
  \A e \in OptionEntries : e.name[1] # m[1] => (Has(option, e) <=> Has(option', e))
OptionStep(m) ==
  /\ OptionTidy' /\ (Named(option') => Named(option))
  /\ Named(option') => KeptBut(m)

LEMMA KeptValues ==
  ASSUME OptionBounds, OptionTidy, holder' = holder, NEW m, OptionStep(m), Named(option'),
         NEW n \in O!Spelled, n[1] # m[1]
  PROVE  O!Value(n)' = O!Value(n)
<1>1. OptionTidy' /\ Named(option) /\ KeptBut(m)
  BY DEF OptionStep
<1>2. /\ \A i \in 1 .. Len(option) :
           GetMatch(holder, option[i].name, n) => O!Value(n) = option[i].value
      /\ (\A i \in 1 .. Len(option) : ~ GetMatch(holder, option[i].name, n)) =>
           O!Value(n) = NoValue
  BY <1>1, ValueIs DEF ValuesRead
<1>3. OptionBounds' /\ OptionTidy' /\ Named(option)' => ValuesRead'
  BY ValueIs, PTL
<1>4. /\ \A i \in 1 .. Len(option') :
           GetMatch(holder, option'[i].name, n) => O!Value(n)' = option'[i].value
      /\ (\A i \in 1 .. Len(option') : ~ GetMatch(holder, option'[i].name, n)) =>
           O!Value(n)' = NoValue
  <2>1. OptionBounds' /\ Named(option)'
    BY DEF OptionBounds, Named
  <2>2. ValuesRead'
    BY <1>1, <1>3, <2>1
  <2>3. n \in O!Spelled'
    BY DEF O!Spelled
  <2>4. \A a : GetMatch(holder, a, n)' = GetMatch(holder, a, n)
    BY DEF GetMatch
  <2>5. QED
    BY <2>2, <2>3 DEF ValuesRead, GetMatch
<1>5. \A a : GetMatch(holder, a, n) => a[1] = n[1]
  BY DEF GetMatch
<1>6. /\ \A i \in 1 .. Len(option) : option[i] \in OptionEntries
      /\ \A i \in 1 .. Len(option') : option'[i] \in OptionEntries
  <2>1. option' \in Seq(OptionEntries)
    BY <1>1 DEF OptionTidy, OptionEntries, O!Spelled
  <2>2. option \in Seq(OptionEntries)
    BY DEF OptionTidy
  <2>3. QED
    BY <2>1, <2>2
<1>7. CASE \E i \in 1 .. Len(option) : GetMatch(holder, option[i].name, n)
  <2>1. PICK i \in 1 .. Len(option) : GetMatch(holder, option[i].name, n)
    BY <1>7
  <2>2. PICK j \in 1 .. Len(option') : option'[j] = option[i]
    BY <2>1, <1>1, <1>5, <1>6 DEF KeptBut, Has
  <2>3. QED
    BY <2>1, <2>2, <1>2, <1>4
<1>8. CASE \A i \in 1 .. Len(option) : ~ GetMatch(holder, option[i].name, n)
  <2>1. ASSUME NEW j \in 1 .. Len(option'), GetMatch(holder, option'[j].name, n) PROVE FALSE
    <3>1. PICK i \in 1 .. Len(option) : option[i] = option'[j]
      BY <2>1, <1>1, <1>5, <1>6 DEF KeptBut, Has
    <3>2. QED
      BY <2>1, <3>1, <1>8
  <2>2. QED
    BY <2>1, <1>2, <1>4, <1>8
<1>9. QED
  BY <1>7, <1>8

\* A value is taken over by the option that has the name.
LEMMA UpdateStep ==
  ASSUME OptionBounds, OptionTidy, holder' = holder, NEW n \in O!Spelled,
         NEW i \in 1 .. Len(option), option[i].name # NoName, option[i].name[1] = n[1],
         NEW e \in OptionEntries, e.name = option[i].name, option' = [option EXCEPT ![i] = e]
  PROVE  OptionStep(n) /\ i \in 1 .. Len(option') /\ option'[i] = e
<1>1. /\ Len(option') = Len(option) /\ Len(option) \in Nat
      /\ \A j \in 1 .. Len(option) : option[j] \in OptionEntries
      /\ \A j \in 1 .. Len(option) : j # i => option'[j] = option[j]
      /\ option'[i] = e
  BY DEF OptionTidy
<1>2. e \in OptionEntries /\ e.name = option[i].name
  OBVIOUS
<1>3. option' \in Seq(OptionEntries)
  BY <1>1, <1>2 DEF OptionTidy
<1>4. \A j \in 1 .. Len(option) : option'[j].name = option[j].name
  BY <1>1, <1>2
<1>5. Named(option') <=> Named(option)
  BY <1>1, <1>4 DEF Named
<1>6. Tidy(holder, option) => Tidy(holder, option')
  BY <1>1, <1>4 DEF Tidy
<1>7. OptionTidy'
  BY <1>3, <1>5, <1>6 DEF OptionTidy, OptionEntries, O!Spelled, Named, Tidy, Apart
<1>8. KeptBut(n)
  BY <1>1, <1>2, <1>4 DEF KeptBut, Has
<1>9. QED
  BY <1>1, <1>2, <1>4, <1>5, <1>7, <1>8 DEF OptionStep

LEMMA DropStep ==
  ASSUME OptionBounds, OptionTidy, holder' = holder, NEW n \in O!Spelled,
         NEW i \in 1 .. Len(option), option[i].name # NoName, option[i].name[1] = n[1],
         option' = TakenOut(option, i)
  PROVE  OptionStep(n)
<1> DEFINE len == Len(option)
           Old(k) == IF k < i THEN k ELSE k + 1
           New(k) == IF k < i THEN k ELSE k - 1
<1>1. /\ len \in Nat /\ option' \in Seq(OptionEntries) /\ Len(option') = len - 1
      /\ \A k \in 1 .. len - 1 : option'[k] = IF k < i THEN option[k] ELSE option[k + 1]
  <2>1. option \in Seq(OptionEntries) /\ len \in Nat
    BY DEF OptionTidy
  <2>2. QED
    BY <2>1, TakenOutIs
<1> HIDE DEF len
<1>2. i \in 1 .. len
  BY DEF len
<1>3. \A k \in 1 .. len - 1 : Old(k) \in 1 .. len /\ Old(k) # i /\ option'[k] = option[Old(k)]
  BY <1>1, <1>2
<1>4. \A k, j \in 1 .. len - 1 : k < j => Old(k) < Old(j)
  BY <1>1, <1>2
<1>5. \A k \in 1 .. len : k # i => New(k) \in 1 .. len - 1 /\ Old(New(k)) = k
  BY <1>1, <1>2
<1> HIDE DEF Old, New
<1>6. \A k \in 1 .. len : k # i => New(k) \in 1 .. len - 1 /\ option'[New(k)] = option[k]
  BY <1>3, <1>5
<1>7. Named(option') => Named(option)
  <2> SUFFICES ASSUME Named(option'), NEW k \in 1 .. len PROVE option[k].name # NoName
    BY DEF Named, len
  <2>1. CASE k = i
    BY <2>1
  <2>2. CASE k # i
    BY <2>2, <1>1, <1>6 DEF Named
  <2>3. QED
    BY <2>1, <2>2
<1>8. Tidy(holder, option) => Tidy(holder, option')
  BY <1>1, <1>3, <1>4 DEF Tidy, len
<1>9. OptionTidy'
  BY <1>1, <1>7, <1>8 DEF OptionTidy, OptionEntries, O!Spelled, Named, Tidy, Apart
<1>10. KeptBut(n)
  <2> SUFFICES ASSUME NEW e \in OptionEntries, e.name[1] # n[1]
               PROVE  Has(option, e) <=> Has(option', e)
    BY DEF KeptBut
  <2>1. Has(option, e) => Has(option', e)
    BY <1>1, <1>6 DEF Has, len
  <2>2. Has(option', e) => Has(option, e)
    BY <1>1, <1>3 DEF Has, len
  <2>3. QED
    BY <2>1, <2>2
<1>11. QED
  BY <1>7, <1>9, <1>10 DEF OptionStep

\* A new option, put into an array of options.
LEMMA OptionPutIn ==
  ASSUME NEW s \in Seq(OptionEntries), NEW i \in 1 .. Len(s) + 1, NEW x \in OptionEntries
  PROVE  PutsIn(OptionEntries, s, i, x)
<1> DEFINE S == OptionEntries
<1>1. s \in Seq(S) /\ x \in S
  OBVIOUS
<1> HIDE DEF S
<1>2. PutsIn(S, s, i, x)
  BY <1>1, PutInPuts, Zenon
<1>3. QED
  BY <1>2, Zenon DEF S

LEMMA PutInStep ==
  ASSUME OptionBounds, OptionTidy, holder' = holder, NEW n \in O!Spelled,
         NEW p \in 1 .. Len(option) + 1, NEW e \in OptionEntries,
         option' = PutIn(option, p, e), e.name = n \/ e.name = NoName,
         Named(option) /\ e.name = n => Tidy(holder, option')
  PROVE  OptionStep(n) /\ p \in 1 .. Len(option') /\ option'[p] = e
<1> DEFINE len == Len(option)
           Old(k) == IF k < p THEN k ELSE k - 1
           New(k) == IF k < p THEN k ELSE k + 1
<1>1. /\ len \in Nat /\ option' \in Seq(OptionEntries) /\ Len(option') = len + 1
      /\ \A k \in 1 .. len + 1 :
           option'[k] = IF k < p THEN option[k] ELSE IF k = p THEN e ELSE option[k - 1]
  <2>1. /\ PutIn(option, p, e) \in Seq(OptionEntries) /\ Len(PutIn(option, p, e)) = Len(option) + 1
        /\ \A k \in 1 .. Len(option) + 1 :
             PutIn(option, p, e)[k] =
               IF k < p THEN option[k] ELSE IF k = p THEN e ELSE option[k - 1]
    <3>1. option \in Seq(OptionEntries)
      BY DEF OptionTidy
    <3>2. PutsIn(OptionEntries, option, p, e)
      BY <3>1, OptionPutIn
    <3>3. QED
      BY <3>2, Zenon DEF PutsIn
  <2>2. Len(option) \in Nat
    BY DEF OptionTidy
  <2>3. QED
    BY <2>1, <2>2
<1> HIDE DEF len
<1>2. p \in 1 .. len + 1
  BY DEF len
<1>3. option'[p] = e /\ p \in 1 .. Len(option')
  BY <1>1, <1>2
<1>4. \A k \in 1 .. len + 1 : k # p => Old(k) \in 1 .. len /\ option'[k] = option[Old(k)]
  BY <1>1, <1>2
<1>5. \A k \in 1 .. len : New(k) \in 1 .. len + 1 /\ New(k) # p /\ Old(New(k)) = k
  BY <1>1, <1>2
<1> HIDE DEF Old, New
<1>6. \A k \in 1 .. len : New(k) \in 1 .. len + 1 /\ option'[New(k)] = option[k]
  BY <1>4, <1>5
<1>7. Named(option') => Named(option) /\ e.name # NoName
  BY <1>1, <1>3, <1>6 DEF Named, len
<1>8. Named(option') => Tidy(holder, option')
  BY <1>7
<1>9. OptionTidy'
  BY <1>1, <1>8 DEF OptionTidy, OptionEntries, O!Spelled, Named, Tidy, Apart
<1>10. ASSUME Named(option') PROVE KeptBut(n)
  <2> SUFFICES ASSUME NEW o \in OptionEntries, o.name[1] # n[1]
               PROVE  Has(option, o) <=> Has(option', o)
    BY DEF KeptBut
  <2>1. e.name = n
    BY <1>7, <1>10
  <2>2. Has(option, o) => Has(option', o)
    BY <1>1, <1>6 DEF Has, len
  <2>3. Has(option', o) => Has(option, o)
    <3> SUFFICES ASSUME NEW k \in 1 .. len + 1, option'[k] = o PROVE Has(option, o)
      BY <1>1 DEF Has
    <3>1. k # p
      BY <1>3, <2>1
    <3>2. QED
      BY <3>1, <1>4 DEF Has, len
  <2>4. QED
    BY <2>2, <2>3
<1>11. QED
  BY <1>3, <1>7, <1>9, <1>10 DEF OptionStep

LEMMA SameStep ==
  ASSUME OptionTidy, holder' = holder, option' = option, NEW n
  PROVE  OptionStep(n)
<1>1. OptionTidy'
  BY DEF OptionTidy, OptionEntries, O!Spelled, Named, Tidy, Apart
<1>2. KeptBut(n)
  BY DEF KeptBut
<1>3. QED
  BY <1>1, <1>2 DEF OptionStep

CallNamed == call.op = "set" => call.name \in O!Spelled
OptionInv == OptionTidy /\ CallNamed /\ O!StoredIsRead
OptionRight(n) == OptionStep(n) /\ CallNamed' /\ O!StoredIsRead'

LEMMA NamelessIs == (O!Nameless <=> ~ Named(option)) /\ (O!Nameless' <=> ~ Named(option'))
BY DEF O!Nameless, Named

LEMMA MatchKey == \A h, a, n : SetMatch(h, a, n) => a[1] = n[1]
BY DEF SetMatch

\* The values that are read after a step, from the options that are there then.
LEMMA ValuesReadNext ==
  ASSUME OptionBounds, OptionTidy', Named(option')
  PROVE  \A n \in O!Spelled, i \in 1 .. Len(option') :
           GetMatch(holder', option'[i].name, n) => O!Value(n)' = option'[i].value
<1>1. OptionBounds' /\ OptionTidy' /\ Named(option)' => ValuesRead'
  BY ValueIs, PTL
<1>2. OptionBounds' /\ Named(option)'
  BY DEF OptionBounds, Named
<1>3. ValuesRead'
  BY <1>1, <1>2
<1>4. QED
  BY <1>3 DEF ValuesRead, GetMatch, O!Spelled

LEMMA SetIsRead ==
  ASSUME OptionBounds, OptionTidy', NEW n \in O!Spelled, NEW v, NEW i \in 1 .. Len(option'),
         SetMatch(holder', option'[i].name, n), option'[i].value = v,
         call' = [op |-> "set", name |-> n, value |-> v, ok |-> TRUE]
  PROVE  O!StoredIsRead'
<1> SUFFICES ASSUME Named(option')
             PROVE  IF holder' = "action"
                    THEN \E m \in O!Spelled : O!SameKey(m, n) /\ O!Value(m)' = v
                    ELSE O!Value(n)' = v
  BY NamelessIs DEF O!StoredIsRead, O!Spelled, O!SameKey
<1>1. option'[i].name \in O!Spelled
  <2>1. option' \in Seq(OptionEntries)
    BY DEF OptionTidy, OptionEntries, O!Spelled
  <2>2. option'[i] \in OptionEntries
    BY <2>1
  <2>3. option'[i].name \in O!Spelled \cup {NoName}
    BY <2>2 DEF OptionEntries
  <2>4. QED
    BY <2>3 DEF Named
<1>2. CASE holder' = "action"
  <2>1. PICK m \in O!Spelled : m = option'[i].name
    BY <1>1
  <2>2. GetMatch(holder', option'[i].name, m) /\ O!SameKey(m, n)
    BY <1>2, <2>1, MatchKey DEF GetMatch, O!SameKey
  <2>3. O!Value(m)' = v
    BY <2>2, ValuesReadNext
  <2>4. QED
    BY <1>2, <2>2, <2>3
<1>3. CASE holder' # "action"
  <2>1. GetMatch(holder', option'[i].name, n)
    BY <1>3 DEF GetMatch, SetMatch
  <2>2. QED
    BY <1>3, <2>1, ValuesReadNext
<1>4. QED
  BY <1>2, <1>3

LEMMA NotSetIsRead ==
  ASSUME call'.op # "set" \/ ~ call'.ok
  PROVE  O!StoredIsRead'
BY DEF O!StoredIsRead

LEMMA SameIsRead ==
  ASSUME OptionBounds, OptionInv, UNCHANGED <<holder, option, call>>
  PROVE  O!StoredIsRead'
<1> SUFFICES ASSUME Named(option), call.op = "set", call.ok PROVE O!StoredIsRead'
  BY NamelessIs DEF O!StoredIsRead
<1>1. \A n \in O!Spelled : O!Value(n)' = O!Value(n)
  <2> SUFFICES ASSUME NEW n \in O!Spelled PROVE O!Value(n)' = O!Value(n)
    OBVIOUS
  <2>1. n[1] # <<n[1] + 1>>[1]
    <3>1. n[1] \in Int
      BY DEF OptionBounds, O!Spelled
    <3>2. n[1] # n[1] + 1
      BY <3>1
    <3>3. QED
      BY <3>2
  <2>2. OptionStep(<<n[1] + 1>>)
    BY SameStep DEF OptionInv
  <2>3. QED
    BY <2>1, <2>2, KeptValues DEF OptionInv
<1>2. PICK m \in O!Spelled : m = call.name
  BY DEF OptionInv, CallNamed
<1>3. IF holder = "action"
      THEN \E n \in O!Spelled : O!SameKey(n, call.name) /\ O!Value(n) = call.value
      ELSE O!Value(call.name) = call.value
  BY NamelessIs DEF OptionInv, O!StoredIsRead
<1>4. CASE holder = "action"
  <2>1. PICK n \in O!Spelled : O!SameKey(n, call.name) /\ O!Value(n) = call.value
    BY <1>3, <1>4
  <2>2. O!Value(n)' = call.value
    BY <1>1, <2>1
  <2>3. QED
    BY <1>4, <2>1, <2>2 DEF O!StoredIsRead, O!SameKey, O!Spelled
<1>5. CASE holder # "action"
  <2>1. O!Value(m)' = call.value /\ m = call'.name
    BY <1>1, <1>2, <1>3, <1>5
  <2>2. QED
    BY <1>5, <2>1 DEF O!StoredIsRead
<1>6. QED
  BY <1>4, <1>5

\* iot_options_set_data and its copies, for an option that is there.
LEMMA UpdateRight ==
  ASSUME OptionBounds, OptionInv, NEW n \in O!Spelled, NEW v \in Values, O!Update(n, v)
  PROVE  OptionRight(n)
<1>1. PICK i \in 1 .. Len(option) :
             /\ i = O!ForSet(n).at /\ option[i].name # NoName
             /\ SetMatch(holder, option[i].name, n)
  BY ForSetIs DEF OptionInv, O!Update
<1>2. /\ option' = [option EXCEPT ![i].value = v] /\ holder' = holder
      /\ call' = [op |-> "set", name |-> n, value |-> v, ok |-> TRUE]
  BY <1>1 DEF O!Update, O!Calls
<1> DEFINE e == [option[i] EXCEPT !.value = v]
<1>3. e \in OptionEntries /\ e.name = option[i].name /\ e.value = v
      /\ option' = [option EXCEPT ![i] = e]
  <2>1. option[i] \in OptionEntries
    BY DEF OptionInv, OptionTidy
  <2>2. QED
    BY <1>2, <2>1 DEF OptionEntries
<1> HIDE DEF e
<1>4. OptionStep(n) /\ i \in 1 .. Len(option') /\ option'[i] = e
  <2>1. option[i].name[1] = n[1]
    BY <1>1, MatchKey
  <2>2. holder' = holder /\ OptionTidy /\ option[i].name # NoName
    BY <1>1, <1>2 DEF OptionInv
  <2>3. QED
    BY <1>3, <2>1, <2>2, UpdateStep
<1>5. O!StoredIsRead'
  BY <1>1, <1>2, <1>3, <1>4, SetIsRead DEF OptionStep
<1>6. CallNamed'
  BY <1>2 DEF CallNamed, O!Spelled
<1>7. QED
  BY <1>4, <1>5, <1>6 DEF OptionRight

LEMMA DropRight ==
  ASSUME OptionBounds, OptionInv, NEW n \in O!Spelled,
         O!Clear(n) \/ \E v \in Values : O!UpdateFails(n, v)
  PROVE  OptionRight(n)
<1> DEFINE i == O!ForSet(n).at
<1>1. /\ O!ForSet(n).found /\ holder' = holder /\ option' = TakenOut(option, i)
      /\ \E v : \/ call' = [op |-> "clear", name |-> n, value |-> v, ok |-> FALSE]
                \/ call' = [op |-> "set", name |-> n, value |-> v, ok |-> FALSE]
  BY DEF O!Clear, O!UpdateFails, O!ForSet, O!DropAt, TakenOut, O!Calls
<1>2. /\ i \in 1 .. Len(option) /\ option[i].name # NoName
      /\ SetMatch(holder, option[i].name, n)
  BY <1>1, ForSetIs DEF OptionInv
<1> HIDE DEF i
<1>3. OptionStep(n)
  BY <1>1, <1>2, MatchKey, DropStep DEF OptionInv
<1>4. O!StoredIsRead' /\ CallNamed'
  BY <1>1, NotSetIsRead DEF CallNamed, O!Spelled
<1>5. QED
  BY <1>3, <1>4 DEF OptionRight

LEMMA AddRight ==
  ASSUME OptionBounds, OptionInv, NEW n \in O!Spelled, NEW v \in Values, O!Add(n, v)
  PROVE  OptionRight(n)
<1> DEFINE p == O!Place(n)
           e == O!Entry(n, v)
<1>1. /\ ~ O!ForSet(n).found /\ ~ O!ForSet(n).null /\ holder' = holder
      /\ option' = PutIn(option, p, e)
      /\ call' = [op |-> "set", name |-> n, value |-> v, ok |-> TRUE]
  BY DEF O!Add, O!Defined, O!InsertAt, PutIn, O!Calls
<1>2. p \in 1 .. Len(option) + 1
  BY <1>1, PlaceIs DEF OptionInv
<1>3. e \in OptionEntries /\ e.name = n /\ e.value = v
  BY DEF O!Entry, OptionEntries
<1>4. Named(option) => Tidy(holder, option')
  BY <1>1, <1>3, AddIsTidy DEF OptionInv
<1> HIDE DEF p, e
<1>5. OptionStep(n) /\ p \in 1 .. Len(option') /\ option'[p] = e
  BY <1>1, <1>2, <1>3, <1>4, PutInStep DEF OptionInv
<1>6. SetMatch(holder', n, n)
  BY DEF SetMatch
<1>7. O!StoredIsRead'
  BY <1>1, <1>3, <1>5, <1>6, SetIsRead DEF OptionStep
<1>8. CallNamed'
  BY <1>1 DEF CallNamed, O!Spelled
<1>9. QED
  BY <1>5, <1>7, <1>8 DEF OptionRight

\* An option that is added without a name.
LEMMA NamelessStep ==
  ASSUME OptionBounds, OptionInv, NEW n \in O!Spelled, holder' = holder,
         ~ O!ForSet(n).found, ~ O!ForSet(n).null,
         option' = O!InsertAt(option, O!Place(n), O!Entry(NoName, NoValue))
  PROVE  OptionStep(n)
<1> DEFINE p == O!Place(n)
           e == O!Entry(NoName, NoValue)
<1>1. e \in OptionEntries /\ e.name = NoName
  BY DEF O!Entry, OptionEntries
<1>2. option' = PutIn(option, p, e) /\ p \in 1 .. Len(option) + 1
  BY PlaceIs DEF O!InsertAt, PutIn, OptionInv
<1>3. NoName # n
  BY DEF OptionBounds, O!Spelled
<1> HIDE DEF p, e
<1>4. QED
  BY <1>1, <1>2, <1>3, PutInStep DEF OptionInv

LEMMA FailRight ==
  ASSUME OptionBounds, OptionInv, NEW n \in O!Spelled,
         O!ClearMissing(n) \/ \E v \in Values : O!AddFull(n, v) \/ O!AddFails(n, v)
  PROVE  OptionRight(n)
<1>1. /\ holder' = holder /\ ~ O!ForSet(n).found /\ ~ O!ForSet(n).null
      /\ \E v : \/ call' = [op |-> "clear", name |-> n, value |-> v, ok |-> FALSE]
                \/ call' = [op |-> "set", name |-> n, value |-> v, ok |-> FALSE]
  BY DEF O!ClearMissing, O!AddFull, O!AddFails, O!Calls, O!Defined, O!ForSet
<1>2. \/ option' = option
      \/ option' = O!InsertAt(option, O!Place(n), O!Entry(NoName, NoValue))
  <2>1. CASE O!ClearMissing(n)
    BY <2>1 DEF O!ClearMissing, O!Place
  <2>2. CASE \E v \in Values : O!AddFull(n, v)
    BY <2>2 DEF O!AddFull
  <2>3. CASE \E v \in Values : O!AddFails(n, v)
    BY <2>3 DEF O!AddFails
  <2>4. QED
    BY <2>1, <2>2, <2>3
<1>3. OptionStep(n)
  BY <1>1, <1>2, SameStep, NamelessStep DEF OptionInv
<1>4. O!StoredIsRead' /\ CallNamed'
  BY <1>1, NotSetIsRead DEF CallNamed, O!Spelled
<1>5. QED
  BY <1>3, <1>4 DEF OptionRight

LEMMA SameRight ==
  ASSUME OptionBounds, OptionInv, UNCHANGED <<holder, option, call>>, NEW n
  PROVE  OptionRight(n)
<1>1. OptionStep(n)
  BY SameStep DEF OptionInv
<1>2. CallNamed'
  BY DEF OptionInv, CallNamed, O!Spelled
<1>3. QED
  BY <1>1, <1>2, SameIsRead DEF OptionRight

LEMMA OptionNext ==
  ASSUME OptionBounds, OptionInv, [O!Next]_(O!vars)
  PROVE  OptionInv' /\ (O!Next => holder' = holder /\ \E m : OptionRight(m)
                                 /\ (call'.op # "none" => m = call'.name))
<1>1. ASSUME NEW n \in O!Spelled,
             \/ O!Clear(n) \/ O!ClearMissing(n)
             \/ \E v \in Values : \/ O!Update(n, v) \/ O!UpdateFails(n, v) \/ O!Add(n, v)
                                  \/ O!AddFull(n, v) \/ O!AddFails(n, v)
      PROVE  OptionRight(n) /\ holder' = holder /\ call'.name = n
  <2>1. OptionRight(n)
    BY <1>1, UpdateRight, DropRight, AddRight, FailRight
  <2>2. holder' = holder /\ call'.name = n
    <3>1. CASE O!Clear(n) \/ O!ClearMissing(n)
      BY <3>1 DEF O!Clear, O!ClearMissing, O!Calls
    <3>2. ASSUME NEW v \in Values, O!Update(n, v) \/ O!UpdateFails(n, v)
          PROVE  holder' = holder /\ call'.name = n
      BY <3>2 DEF O!Update, O!UpdateFails, O!Calls
    <3>3. ASSUME NEW v \in Values, O!Add(n, v) \/ O!AddFull(n, v)
          PROVE  holder' = holder /\ call'.name = n
      BY <3>3 DEF O!Add, O!AddFull, O!Calls
    <3>4. ASSUME NEW v \in Values, O!AddFails(n, v)
          PROVE  holder' = holder /\ call'.name = n
      BY <3>4 DEF O!AddFails, O!Calls
    <3>5. QED
      BY <1>1, <3>1, <3>2, <3>3, <3>4
  <2>3. QED
    BY <2>1, <2>2
<1>2. ASSUME UNCHANGED <<holder, option, call>>
      PROVE  \A m : OptionRight(m)
  BY <1>2, SameRight
<1>3. CASE \E n \in O!Spelled : O!Null(n)
  <2>1. UNCHANGED <<holder, option, call>>
    BY <1>3 DEF O!Null
  <2>2. OptionRight(call'.name)
    BY <2>1, <1>2
  <2>3. QED
    BY <2>1, <2>2 DEF OptionRight, OptionStep, OptionInv
<1>4. CASE UNCHANGED O!vars
  <2>1. UNCHANGED <<holder, option, call>>
    BY <1>4 DEF O!vars
  <2>2. OptionRight(call'.name)
    BY <2>1, <1>2
  <2>3. QED
    BY <2>1, <2>2 DEF OptionRight, OptionStep, OptionInv
<1>5. CASE \E n \in O!Spelled :
             \/ O!Clear(n) \/ O!ClearMissing(n)
             \/ \E v \in Values : \/ O!Update(n, v) \/ O!UpdateFails(n, v) \/ O!Add(n, v)
                                  \/ O!AddFull(n, v) \/ O!AddFails(n, v)
  BY <1>1, <1>5 DEF OptionRight, OptionStep, OptionInv
<1>6. QED
  BY <1>3, <1>4, <1>5 DEF O!Next

LEMMA OptionInit ==
  ASSUME O!Init
  PROVE  OptionInv
<1>1. option \in Seq(OptionEntries) /\ Len(option) = 0 /\ call.op = "none"
  BY DEF O!Init
<1>2. QED
  BY <1>1 DEF OptionInv, OptionTidy, Tidy, CallNamed, O!StoredIsRead

(* While every option has a name, a value that was stored is the value that  *)
(* is read, and only an option of an action can have been stored under       *)
(* another spelling: for any names, values, sizes and failures, in the       *)
(* sorted list as in the three other holders.                                *)
THEOREM StoredOptionsAreRead ==
  ASSUME OptionBounds
  PROVE  O!Spec => []StoredIsRead
<1>1. O!Init => OptionInv
  BY OptionInit
<1>2. OptionInv /\ [O!Next]_(O!vars) => OptionInv'
  BY OptionNext
<1>3. OptionInv => StoredIsRead
  BY DEF OptionInv, StoredIsRead
<1>4. QED
  BY <1>1, <1>2, <1>3, PTL DEF O!Spec

(* A call has an effect on the option it names and on no other: neither the  *)
(* shifts of the array nor the search by halving nor a call that fails lets  *)
(* another option change, vanish or become impossible to find.               *)
THEOREM OtherOptionsAreKept ==
  ASSUME OptionBounds
  PROVE  O!Spec => OthersKept
<1>1. O!Init => OptionInv
  BY OptionInit
<1>2. OptionInv /\ [O!Next]_(O!vars) => OptionInv'
  BY OptionNext
<1>3. OptionInv /\ [O!Next]_(O!vars) =>
        [call'.op # "none" /\ ~ O!Nameless /\ ~ O!Nameless' =>
           \A n \in O!Spelled : ~ O!SameKey(n, call'.name) => O!Stored'[n] = O!Stored[n]]_(O!vars)
  <2> SUFFICES ASSUME OptionInv, O!Next, call'.op # "none", ~ O!Nameless, ~ O!Nameless',
                      NEW n \in O!Spelled, ~ O!SameKey(n, call'.name)
               PROVE  O!Stored'[n] = O!Stored[n]
    OBVIOUS
  <2>1. holder' = holder /\ OptionRight(call'.name)
    BY OptionNext
  <2>2. O!Value(n)' = O!Value(n)
    BY <2>1, KeptValues, NamelessIs DEF OptionRight, OptionInv, O!SameKey
  <2>3. O!Stored[n] = O!Value(n) /\ O!Stored'[n] = O!Value(n)'
    BY DEF O!Stored, O!Spelled
  <2>4. QED
    BY <2>2, <2>3
<1>4. QED
  BY <1>1, <1>2, <1>3, PTL DEF O!Spec, OthersKept, O!OthersKept

-----------------------------------------------------------------------------
(***************************************************************************)
(* The items. The invariant says what the array holds while nobody writes  *)
(* it, and what it holds at every step of a thread that does: then one     *)
(* place may be written over, and the structure whose place it is to be,   *)
(* or was, is nowhere else. One thread at a time can be at that, because   *)
(* of the mutex, or in the list of actions because only one is allocating  *)
(* or freeing.                                                             *)
(***************************************************************************)
States == {"deregistered", "deregister_pending", "registered", "register_pending"}
Items == [name : Names \cup {0}, lib : BOOLEAN, state : States]

ItemTypes ==
  /\ ptr \in [I!Places -> I!Structs \cup {None}] /\ count \in 0 .. Max
  /\ struct \in [I!Structs -> Items]
  /\ lock \in Threads \cup {None} /\ closing \in Threads \cup {None}
  /\ step \in [Threads -> {"idle", "take", "shift", "count", "free", "close", "kept",
                           "closing"}]
  /\ mem \in [Threads -> I!Structs \cup {None}] /\ name \in [Threads -> Names \cup {0}]
  /\ at \in [Threads -> Int] /\ goal \in [Threads -> Int]
  /\ handles \in [I!Structs -> Nat]

Busy(t) == step[t] \in {"take", "shift", "count", "close"}
Writes(t) == step[t] \in {"shift", "count", "close"}

\* One thread at a time is at the list, in those with a mutex and in that without.
Alone ==
  /\ I!Locked => \A t \in Threads : Busy(t) => lock = t
  /\ ~ I!Locked => \A t, u \in Threads : step[t] # "idle" /\ step[u] # "idle" => t = u
  /\ closing # None => /\ \A t \in Threads : t # closing => step[t] = "idle"
                       /\ step[closing] \in {"free", "kept"} => count > 0
  /\ \A t \in Threads : step[t] \in {"take", "shift", "count"} => closing = None
  /\ \A t \in Threads : /\ step[t] = "take" => name[t] \in Names
                        /\ step[t] = "closing" => closing = t

(* The array p with n items, when the place h (if it is one) may be written  *)
(* over and the structure x, if it is one, is on its way in or out: s is     *)
(* what the structures hold, o says that iot_terminate has not begun.        *)
InUse(p, s, n, h) ==
  \A i \in 0 .. n - 1 : i # h => p[i] \in I!Structs /\ s[p[i]].lib /\ s[p[i]].name \in Names
InOrder(p, s, n, h) ==
  \A i, j \in 0 .. n - 1 : i < j /\ i # h /\ j # h => s[p[i]].name <= s[p[j]].name
OnePlace(p, h, x) ==
  \A i, j \in I!Places : i # h /\ p[i] # None => p[i] # x /\ (j # h /\ i # j => p[i] # p[j])
NoneLost(p, h, x) == \A b \in BuiltIn : b # x => \E i \in I!Places : i # h /\ p[i] = b
Behind(p, n, h, o) == o => \A i \in I!Places : i >= n /\ i # h => p[i] \in BuiltIn \cup {None}
Listed(p, s, n, h, x, o) ==
  o => \A r \in I!Structs : r # x /\ s[r].lib => \E i \in 0 .. n - 1 : i # h /\ p[i] = r
Layout(p, s, n, h, x, o) ==
  /\ InUse(p, s, n, h) /\ InOrder(p, s, n, h) /\ OnePlace(p, h, x) /\ NoneLost(p, h, x)
  /\ Behind(p, n, h, o) /\ Listed(p, s, n, h, x, o)

Held(p, k, n, h, x) == \A i \in 0 .. n - 1 : i # h /\ p[i] # x => k[p[i]] > 0

\* The array as the step of a thread leaves it: w is its name, f and g its places.
Shifting(p, s, k, o, n, x, w, f, g) ==
  /\ n < Max /\ 0 <= g /\ g <= f /\ f <= n /\ x \in I!Structs
  /\ s[x].lib /\ s[x].name = w /\ w \in Names
  /\ Layout(p, s, n + 1, f, x, o) /\ Held(p, k, n + 1, f, x)
  /\ \A i \in 0 .. n : i # f => IF i < g THEN s[p[i]].name <= w ELSE w <= s[p[i]].name
Counting(p, s, k, o, n, x) ==
  /\ n < Max /\ x \in I!Structs
  /\ Layout(p, s, n + 1, -1, None, o) /\ Held(p, k, n + 1, -1, x)
Closing(p, s, k, o, n, x, f) ==
  /\ 0 <= f /\ f < n /\ x \in I!Structs
  /\ Layout(p, s, n, f, x, o) /\ Held(p, k, n, f, x)
Still(p, s, k, o, n) ==
  Layout(p, s, n, -1, None, o) /\ Held(p, k, n, -1, None)

SlotsInv ==
  /\ (\A t \in Threads : ~ Writes(t)) => Still(ptr, struct, handles, closing = None, count)
  /\ \A t \in Threads :
       /\ step[t] = "shift" => Shifting(ptr, struct, handles, closing = None, count, mem[t],
                                        name[t], at[t], goal[t])
       /\ step[t] = "count" => Counting(ptr, struct, handles, closing = None, count, mem[t])
       /\ step[t] = "close" => Closing(ptr, struct, handles, closing = None, count, mem[t],
                                       at[t])

SearchInv ==
  search # "idle" /\ ~ disturbed =>
    /\ kind = "action" /\ looking \in Nat
    /\ \A i \in 0 .. count - 1 : ptr[i] \in I!Structs /\ struct[ptr[i]].name \in Names
    /\ \A i \in 0 .. looking - 1 : i < count => struct[ptr[i]].name # wanted
    /\ search = "compare" => looking < count /\ found = ptr[looking]
    /\ search = "picked" =>
         IF found = None THEN looking >= count
         ELSE looking < count /\ found = ptr[looking] /\ struct[found].name = wanted

ItemInv == ItemTypes /\ Alone /\ SlotsInv /\ SearchInv

Arrays == [I!Places -> I!Structs \cup {None}]

\* memmove by one place: an entry is copied into the place beside it, which may
\* be written over, and its own place may be written over then.
LEMMA EntryMoves ==
  ASSUME ItemBounds, NEW p \in Arrays, NEW n \in 0 .. Max, NEW a \in 0 .. n - 1,
         NEW b \in 0 .. n - 1, b = a - 1 \/ b = a + 1, NEW s, NEW x, NEW o,
         Layout(p, s, n, a, x, o)
  PROVE  Layout([p EXCEPT ![a] = p[b]], s, n, b, x, o)
<1> DEFINE q == [p EXCEPT ![a] = p[b]]
           from(i) == IF i = a THEN b ELSE i
<1>1. /\ Max \in Nat /\ n \in Nat /\ a \in Int /\ b \in Int /\ a # b
      /\ \A i \in 0 .. n - 1 : i \in I!Places
      /\ \A i \in I!Places : i \in Int
  BY DEF ItemBounds, I!Places
<1>2. q \in Arrays /\ \A i \in I!Places : q[i] = p[from(i)]
  BY <1>1 DEF Arrays
<1>3. \A i \in I!Places : i # b => from(i) # a /\ from(i) \in I!Places
  BY <1>1
<1>4. \A i \in 0 .. n - 1 : i # b => from(i) \in 0 .. n - 1
  OBVIOUS
<1>5. \A i, j \in 0 .. n - 1 : i < j /\ i # b /\ j # b => from(i) < from(j)
  BY <1>1
<1>6. \A i, j \in I!Places : i # j /\ i # b /\ j # b => from(i) # from(j)
  BY <1>1
<1>7. \A i \in I!Places : i # a => \E j \in I!Places : j # b /\ from(j) = i /\ (i < n <=> j < n)
  BY <1>1
<1>8. \A i \in 0 .. n - 1 : i # a => \E j \in 0 .. n - 1 : j # b /\ from(j) = i
  BY <1>1
<1>9. \A i \in I!Places : i >= n => from(i) = i
  BY <1>1
<1> HIDE DEF q, from
<1>10. InUse(q, s, n, b)
  BY <1>1, <1>2, <1>3, <1>4 DEF Layout, InUse
<1>11. InOrder(q, s, n, b)
  BY <1>1, <1>2, <1>3, <1>4, <1>5 DEF Layout, InOrder
<1>12. OnePlace(q, b, x)
  BY <1>2, <1>3, <1>6 DEF Layout, OnePlace
<1>13. NoneLost(q, b, x)
  BY <1>2, <1>7 DEF Layout, NoneLost
<1>14. Behind(q, n, b, o)
  BY <1>2, <1>3, <1>9 DEF Layout, Behind
<1>15. Listed(q, s, n, b, x, o)
  BY <1>1, <1>2, <1>8 DEF Layout, Listed
<1>16. QED
  BY <1>10, <1>11, <1>12, <1>13, <1>14, <1>15 DEF Layout, q

LEMMA HeldMoves ==
  ASSUME ItemBounds, NEW p \in Arrays, NEW n \in 0 .. Max, NEW a \in 0 .. n - 1,
         NEW b \in 0 .. n - 1, a # b, NEW k, NEW x, Held(p, k, n, a, x)
  PROVE  Held([p EXCEPT ![a] = p[b]], k, n, b, x)
<1>1. \A i \in 0 .. n - 1 : i \in I!Places
  BY DEF ItemBounds, I!Places
<1>2. \A i \in 0 .. n - 1 : [p EXCEPT ![a] = p[b]][i] = IF i = a THEN p[b] ELSE p[i]
  BY <1>1 DEF Arrays
<1>3. QED
  BY <1>2 DEF Held

\* What a structure holds that is no item does not matter.
LEMMA LayoutKept ==
  ASSUME NEW p, NEW n, NEW h, NEW x, NEW o, NEW o2, o2 => o, NEW s, NEW s2,
         Layout(p, s, n, h, x, o),
         \A r \in I!Structs :
           \/ s2[r].name = s[r].name /\ (s2[r].lib <=> s[r].lib)
           \/ (\A i \in 0 .. n - 1 : i # h => p[i] # r) /\ (~ s2[r].lib \/ r = x)
  PROVE  Layout(p, s2, n, h, x, o2)
<1>1. \A i \in 0 .. n - 1 : i # h => s2[p[i]].name = s[p[i]].name /\ (s2[p[i]].lib <=> s[p[i]].lib)
  BY DEF Layout, InUse
<1>2. InUse(p, s2, n, h) /\ InOrder(p, s2, n, h)
  BY <1>1 DEF Layout, InUse, InOrder
<1>3. Listed(p, s2, n, h, x, o2)
  BY DEF Layout, Listed
<1>4. QED
  BY <1>2, <1>3 DEF Layout, Behind

LEMMA PlacesAre ==
  ASSUME ItemBounds
  PROVE  /\ Max \in Nat /\ \A i \in I!Places : i \in Int /\ 0 <= i /\ i < Max
         /\ \A n \in 0 .. Max : \A i \in 0 .. n - 1 : i \in I!Places
         /\ None \notin I!Structs
BY DEF ItemBounds, I!Places, I!Structs

\* The structure of a new item is outside the list: the place behind the items
\* may be written over.
LEMMA ShiftBegins ==
  ASSUME ItemBounds, NEW p \in Arrays, NEW n \in 0 .. Max, n < Max,
         NEW s \in [I!Structs -> Items], NEW k, NEW o, Still(p, s, k, o, n), o,
         NEW x \in I!Structs,
         p[n] # None => x = p[n],
         p[n] = None => x \in Heap /\ \A i \in 0 .. n - 1 : p[i] # x,
         NEW w \in Names, NEW g \in 0 .. n,
         \A i \in 0 .. n - 1 : IF i < g THEN s[p[i]].name <= w ELSE w <= s[p[i]].name,
         NEW s2, s2 = [s EXCEPT ![x] = [I!Zeroed EXCEPT !.name = w, !.lib = TRUE]]
  PROVE  Shifting(p, s2, k, o, n, x, w, n, g)
<1>1. /\ Max \in Nat /\ n \in I!Places /\ n \in Int
      /\ \A i \in 0 .. n - 1 : i \in I!Places /\ i # n /\ i # -1
      /\ \A i \in 0 .. (n + 1) - 1 : i # n => i \in 0 .. n - 1
      /\ \A i \in I!Places : i \in Int /\ i # -1 /\ (i >= n \/ i \in 0 .. n - 1)
      /\ None \notin I!Structs
  BY DEF ItemBounds, I!Places, I!Structs
<1>2. s2[x].name = w /\ s2[x].lib /\ \A r \in I!Structs : r # x => s2[r] = s[r]
  BY DEF I!Zeroed
<1>3. /\ InUse(p, s, n, -1) /\ InOrder(p, s, n, -1) /\ OnePlace(p, -1, None)
      /\ NoneLost(p, -1, None) /\ Behind(p, n, -1, o) /\ Listed(p, s, n, -1, None, o)
      /\ Held(p, k, n, -1, None)
  BY DEF Still, Layout
<1>4. \A i \in I!Places : i # n => p[i] # x
  <2> SUFFICES ASSUME NEW i \in I!Places, i # n, p[i] = x PROVE FALSE
    OBVIOUS
  <2>1. CASE p[n] # None
    BY <2>1, <1>1, <1>3 DEF OnePlace
  <2>2. CASE p[n] = None
    <3>1. i >= n
      BY <2>2, <1>1
    <3>2. p[i] \in BuiltIn \cup {None}
      BY <3>1, <1>1, <1>3 DEF Behind
    <3>3. QED
      BY <2>2, <3>2, <1>1 DEF ItemBounds
  <2>3. QED
    BY <2>1, <2>2
<1>5. \A i \in 0 .. n - 1 : /\ p[i] \in I!Structs /\ p[i] # x /\ p[i] # None /\ s2[p[i]] = s[p[i]]
                            /\ s[p[i]].lib /\ s[p[i]].name \in Names
  BY <1>1, <1>2, <1>3, <1>4 DEF InUse
<1>6. InUse(p, s2, n + 1, n)
  BY <1>1, <1>5 DEF InUse
<1>7. InOrder(p, s2, n + 1, n)
  <2> SUFFICES ASSUME NEW i \in 0 .. (n + 1) - 1, NEW j \in 0 .. (n + 1) - 1, i < j, i # n, j # n
               PROVE  s2[p[i]].name <= s2[p[j]].name
    BY DEF InOrder
  <2>1. i \in 0 .. n - 1 /\ j \in 0 .. n - 1 /\ i # -1 /\ j # -1
    BY <1>1
  <2>2. QED
    BY <2>1, <1>3, <1>5 DEF InOrder
<1>8. OnePlace(p, n, x)
  BY <1>1, <1>3, <1>4 DEF OnePlace
<1>9. NoneLost(p, n, x)
  <2> SUFFICES ASSUME NEW b \in BuiltIn, b # x PROVE \E i \in I!Places : i # n /\ p[i] = b
    BY DEF NoneLost
  <2>1. b # None
    BY <1>1 DEF I!Structs
  <2>2. PICK i \in I!Places : p[i] = b
    BY <2>1, <1>3 DEF NoneLost
  <2>3. i # n
    BY <2>1, <2>2
  <2>4. QED
    BY <2>2, <2>3
<1>10. Behind(p, n + 1, n, o)
  BY <1>1, <1>3 DEF Behind
<1>11. Listed(p, s2, n + 1, n, x, o)
  <2> SUFFICES ASSUME NEW r \in I!Structs, r # x, s2[r].lib
               PROVE  \E i \in 0 .. (n + 1) - 1 : i # n /\ p[i] = r
    BY DEF Listed
  <2>1. s[r].lib /\ r # None
    BY <1>1, <1>2
  <2>2. PICK i \in 0 .. n - 1 : p[i] = r
    BY <2>1, <1>3 DEF Listed
  <2>3. QED
    BY <2>2
<1>12. Held(p, k, n + 1, n, x)
  BY <1>1, <1>3, <1>5 DEF Held
<1>13. \A i \in 0 .. n : i # n => IF i < g THEN s2[p[i]].name <= w ELSE w <= s2[p[i]].name
  BY <1>1, <1>5
<1>14. Layout(p, s2, n + 1, n, x, o)
  BY <1>6, <1>7, <1>8, <1>9, <1>10, <1>11 DEF Layout
<1>15. 0 <= g /\ g <= n /\ n <= n
  BY <1>1
<1>16. QED
  BY <1>2, <1>12, <1>13, <1>14, <1>15 DEF Shifting

\* iot_action_allocate and the like: one item is moved behind.
LEMMA ShiftGoesOn ==
  ASSUME ItemBounds, NEW p \in Arrays, NEW n \in 0 .. Max, NEW s \in [I!Structs -> Items],
         NEW k, NEW o, NEW x, NEW w, NEW f \in Int, NEW g \in Int,
         Shifting(p, s, k, o, n, x, w, f, g), f > g
  PROVE  Shifting([p EXCEPT ![f] = p[f - 1]], s, k, o, n, x, w, f - 1, g)
<1> DEFINE q == [p EXCEPT ![f] = p[f - 1]]
<1>1. /\ n < Max /\ 0 <= g /\ g <= f - 1 /\ f - 1 <= n /\ x \in I!Structs
      /\ s[x].lib /\ s[x].name = w /\ w \in Names
      /\ Layout(p, s, n + 1, f, x, o) /\ Held(p, k, n + 1, f, x)
      /\ \A i \in 0 .. n : i # f => IF i < g THEN s[p[i]].name <= w ELSE w <= s[p[i]].name
  BY DEF Shifting
<1>2. /\ n + 1 \in 0 .. Max /\ f \in 0 .. (n + 1) - 1 /\ f - 1 \in 0 .. (n + 1) - 1
      /\ f # f - 1
  BY <1>1, PlacesAre DEF Shifting
<1>3. Layout(q, s, n + 1, f - 1, x, o)
  BY <1>1, <1>2, EntryMoves
<1>4. Held(q, k, n + 1, f - 1, x)
  BY <1>1, <1>2, HeldMoves
<1>5. \A i \in 0 .. n : i # f - 1 => IF i < g THEN s[q[i]].name <= w ELSE w <= s[q[i]].name
  <2> SUFFICES ASSUME NEW i \in 0 .. n, i # f - 1
               PROVE  IF i < g THEN s[q[i]].name <= w ELSE w <= s[q[i]].name
    OBVIOUS
  <2>1. i \in I!Places
    BY <1>1, <1>2, PlacesAre
  <2>2. q[i] = IF i = f THEN p[f - 1] ELSE p[i]
    BY <2>1 DEF Arrays
  <2>3. f - 1 \in 0 .. n /\ f - 1 >= g
    BY <1>1, <1>2
  <2>4. QED
    BY <1>1, <1>2, <2>2, <2>3
<1>6. QED
  BY <1>1, <1>3, <1>4, <1>5 DEF Shifting

LEMMA ShiftEnds ==
  ASSUME ItemBounds, NEW p \in Arrays, NEW n \in 0 .. Max, NEW s \in [I!Structs -> Items],
         NEW k, NEW o, NEW x, NEW w, NEW f \in Int, Shifting(p, s, k, o, n, x, w, f, f)
  PROVE  Counting([p EXCEPT ![f] = x], s, k, o, n, x)
<1> DEFINE q == [p EXCEPT ![f] = x]
<1>1. /\ n < Max /\ 0 <= f /\ f <= n /\ x \in I!Structs
      /\ s[x].lib /\ s[x].name = w /\ w \in Names
      /\ Layout(p, s, n + 1, f, x, o) /\ Held(p, k, n + 1, f, x)
      /\ \A i \in 0 .. n : i # f => IF i < f THEN s[p[i]].name <= w ELSE w <= s[p[i]].name
  BY DEF Shifting
<1>2. /\ f \in I!Places /\ f \in 0 .. n /\ n \in Nat
      /\ \A i \in 0 .. (n + 1) - 1 : i \in I!Places /\ i \in 0 .. n /\ i \in Int
      /\ \A i \in I!Places : i \in Int /\ i # -1
      /\ None \notin I!Structs
  BY <1>1 DEF ItemBounds, I!Places, I!Structs
<1>3. q[f] = x /\ \A i \in I!Places : i # f => q[i] = p[i]
  BY <1>2 DEF Arrays
<1> HIDE DEF q
<1>4. /\ InUse(p, s, n + 1, f) /\ InOrder(p, s, n + 1, f) /\ OnePlace(p, f, x)
      /\ NoneLost(p, f, x) /\ Behind(p, n + 1, f, o) /\ Listed(p, s, n + 1, f, x, o)
  BY <1>1 DEF Layout
<1>5. InUse(q, s, n + 1, -1)
  BY <1>1, <1>2, <1>3, <1>4 DEF InUse
<1>6. InOrder(q, s, n + 1, -1)
  <2> SUFFICES ASSUME NEW i \in 0 .. (n + 1) - 1, NEW j \in 0 .. (n + 1) - 1, i < j
               PROVE  s[q[i]].name <= s[q[j]].name
    BY DEF InOrder
  <2>1. CASE i # f /\ j # f
    BY <2>1, <1>2, <1>3, <1>4 DEF InOrder
  <2>2. CASE i = f
    BY <2>2, <1>1, <1>2, <1>3
  <2>3. CASE j = f
    BY <2>3, <1>1, <1>2, <1>3
  <2>4. QED
    BY <2>1, <2>2, <2>3
<1>7. OnePlace(q, -1, None)
  BY <1>2, <1>3, <1>4 DEF OnePlace
<1>8. NoneLost(q, -1, None)
  BY <1>2, <1>3, <1>4 DEF NoneLost
<1>9. Behind(q, n + 1, -1, o)
  BY <1>2, <1>3, <1>4 DEF Behind
<1>10. Listed(q, s, n + 1, -1, None, o)
  <2> SUFFICES ASSUME o, NEW r \in I!Structs, s[r].lib
               PROVE  \E i \in 0 .. (n + 1) - 1 : i # -1 /\ q[i] = r
    BY DEF Listed
  <2>1. CASE r = x
    <3>1. f \in 0 .. (n + 1) - 1 /\ f # -1
      BY <1>2
    <3>2. QED
      BY <2>1, <3>1, <1>3
  <2>2. CASE r # x
    <3>1. PICK i \in 0 .. (n + 1) - 1 : i # f /\ p[i] = r
      BY <2>2, <1>4 DEF Listed
    <3>2. QED
      BY <3>1, <1>2, <1>3
  <2>3. QED
    BY <2>1, <2>2
<1>11. Held(q, k, n + 1, -1, x)
  BY <1>1, <1>2, <1>3 DEF Held
<1>12. QED
  BY <1>1, <1>5, <1>6, <1>7, <1>8, <1>9, <1>10, <1>11 DEF Counting, Layout, q

LEMMA CountEnds ==
  ASSUME ItemBounds, NEW p \in Arrays, NEW n \in 0 .. Max, NEW s, NEW k \in [I!Structs -> Nat],
         NEW o, NEW x, Counting(p, s, k, o, n, x)
  PROVE  Still(p, s, [k EXCEPT ![x] = @ + 1], o, n + 1)
<1> DEFINE l == [k EXCEPT ![x] = @ + 1]
<1>1. /\ x \in I!Structs /\ Layout(p, s, n + 1, -1, None, o) /\ Held(p, k, n + 1, -1, x)
  BY DEF Counting
<1>2. \A i \in 0 .. (n + 1) - 1 : i # -1 /\ p[i] \in I!Structs
  BY <1>1 DEF Layout, InUse
<1>3. l[x] > 0 /\ \A r \in I!Structs : r # x => l[r] = k[r]
  BY <1>1
<1> HIDE DEF l
<1>4. Held(p, l, n + 1, -1, None)
  BY <1>1, <1>2, <1>3 DEF Held
<1>5. QED
  BY <1>1, <1>4 DEF Still, l

\* The item to be freed is found, and its place may be written over.
LEMMA ClosingBegins ==
  ASSUME ItemBounds, NEW p \in Arrays, NEW n \in 0 .. Max, NEW s, NEW k, NEW o,
         Still(p, s, k, o, n), NEW f \in 0 .. n - 1
  PROVE  Closing(p, s, k, o, n, p[f], f)
<1> DEFINE x == p[f]
<1>1. /\ f \in I!Places /\ f \in Int /\ n \in Nat
      /\ \A i \in 0 .. n - 1 : i \in I!Places /\ i \in Int /\ i # -1
      /\ \A i \in I!Places : i \in Int /\ i # -1
      /\ None \notin I!Structs
  BY DEF ItemBounds, I!Places, I!Structs
<1>2. /\ InUse(p, s, n, -1) /\ InOrder(p, s, n, -1) /\ OnePlace(p, -1, None)
      /\ NoneLost(p, -1, None) /\ Behind(p, n, -1, o) /\ Listed(p, s, n, -1, None, o)
      /\ Held(p, k, n, -1, None)
  BY DEF Still, Layout
<1>3. x \in I!Structs /\ x # None
  BY <1>1, <1>2 DEF InUse
<1> HIDE DEF x
<1>4. InUse(p, s, n, f) /\ InOrder(p, s, n, f) /\ Behind(p, n, f, o)
  BY <1>1, <1>2 DEF InUse, InOrder, Behind
<1>5. OnePlace(p, f, x)
  BY <1>1, <1>2, <1>3 DEF OnePlace, x
<1>6. NoneLost(p, f, x)
  <2> SUFFICES ASSUME NEW b \in BuiltIn, b # x PROVE \E i \in I!Places : i # f /\ p[i] = b
    BY DEF NoneLost
  <2>1. b # None
    BY <1>1 DEF I!Structs
  <2>2. PICK i \in I!Places : p[i] = b
    BY <2>1, <1>2 DEF NoneLost
  <2>3. QED
    BY <2>2 DEF x
<1>7. Listed(p, s, n, f, x, o)
  <2> SUFFICES ASSUME o, NEW r \in I!Structs, r # x, s[r].lib
               PROVE  \E i \in 0 .. n - 1 : i # f /\ p[i] = r
    BY DEF Listed
  <2>1. r # None
    BY <1>1
  <2>2. PICK i \in 0 .. n - 1 : p[i] = r
    BY <2>1, <1>2 DEF Listed
  <2>3. QED
    BY <2>2 DEF x
<1>8. Held(p, k, n, f, x)
  BY <1>1, <1>2 DEF Held, InUse
<1>9. Layout(p, s, n, f, x, o)
  BY <1>4, <1>5, <1>6, <1>7 DEF Layout
<1>10. 0 <= f /\ f < n
  BY <1>1
<1>11. QED
  BY <1>3, <1>8, <1>9, <1>10 DEF Closing, x

LEMMA ClosingGoesOn ==
  ASSUME ItemBounds, NEW p \in Arrays, NEW n \in 0 .. Max, NEW s, NEW k, NEW o, NEW x,
         NEW f \in Int, Closing(p, s, k, o, n, x, f), f < n - 1
  PROVE  Closing([p EXCEPT ![f] = p[f + 1]], s, k, o, n, x, f + 1)
<1>1. /\ 0 <= f /\ f < n /\ x \in I!Structs
      /\ Layout(p, s, n, f, x, o) /\ Held(p, k, n, f, x)
  BY DEF Closing
<1>2. f \in 0 .. n - 1 /\ f + 1 \in 0 .. n - 1 /\ f # f + 1
  BY <1>1
<1>3. Layout([p EXCEPT ![f] = p[f + 1]], s, n, f + 1, x, o)
  BY <1>1, <1>2, EntryMoves
<1>4. Held([p EXCEPT ![f] = p[f + 1]], k, n, f + 1, x)
  BY <1>1, <1>2, HeldMoves
<1>5. 0 <= f + 1 /\ f + 1 < n
  BY <1>2
<1>6. QED
  BY <1>1, <1>3, <1>4, <1>5 DEF Closing

\* The last place is left to the structure, if it is one of the library.
LEMMA ClosingEnds ==
  ASSUME ItemBounds, NEW p \in Arrays, NEW n \in 0 .. Max, NEW s \in [I!Structs -> Items],
         NEW k \in [I!Structs -> Nat], NEW o, NEW x, Closing(p, s, k, o, n, x, n - 1),
         NEW v \in Nat
  PROVE  Still([p EXCEPT ![n - 1] = IF x \in BuiltIn THEN x ELSE None],
               [s EXCEPT ![x] = I!Zeroed], [k EXCEPT ![x] = v], o, n - 1)
<1> DEFINE f == n - 1
           y == IF x \in BuiltIn THEN x ELSE None
           q == [p EXCEPT ![f] = y]
           s2 == [s EXCEPT ![x] = I!Zeroed]
           l == [k EXCEPT ![x] = v]
<1>1. /\ 0 <= f /\ f < n /\ x \in I!Structs
      /\ InUse(p, s, n, f) /\ InOrder(p, s, n, f) /\ OnePlace(p, f, x)
      /\ NoneLost(p, f, x) /\ Behind(p, n, f, o) /\ Listed(p, s, n, f, x, o)
      /\ Held(p, k, n, f, x)
  BY DEF Closing, Layout
<1>2. /\ f \in I!Places /\ f \in Int /\ n \in Nat
      /\ \A i \in 0 .. f - 1 : i \in I!Places /\ i \in 0 .. n - 1 /\ i # f /\ i # -1 /\ i \in Int
      /\ \A i \in 0 .. n - 1 : i # f => i \in 0 .. f - 1
      /\ \A i \in I!Places : i \in Int /\ i # -1 /\ (i >= f => i = f \/ i >= n)
      /\ None \notin I!Structs /\ BuiltIn \subseteq I!Structs
  BY <1>1 DEF ItemBounds, I!Places, I!Structs
<1>3. q[f] = y /\ \A i \in I!Places : i # f => q[i] = p[i]
  BY <1>2 DEF Arrays
<1>4. s2[x].lib = FALSE /\ \A r \in I!Structs : r # x => s2[r] = s[r]
  BY <1>1 DEF I!Zeroed
<1>5. \A r \in I!Structs : r # x => l[r] = k[r]
  BY <1>1
<1>6. \A i \in I!Places : i # f => p[i] # x \/ p[i] = None
  BY <1>1, <1>2 DEF OnePlace
<1> HIDE DEF f, q, s2, l
<1>7. \A i \in 0 .. f - 1 : /\ q[i] = p[i] /\ p[i] \in I!Structs /\ p[i] # x
                            /\ s2[p[i]] = s[p[i]] /\ l[p[i]] = k[p[i]]
                            /\ s[p[i]].lib /\ s[p[i]].name \in Names
  BY <1>1, <1>2, <1>3, <1>4, <1>5, <1>6 DEF InUse
<1>8. InUse(q, s2, f, -1)
  BY <1>7 DEF InUse
<1>9. InOrder(q, s2, f, -1)
  BY <1>1, <1>2, <1>7 DEF InOrder
<1>10. OnePlace(q, -1, None)
  <2> SUFFICES ASSUME NEW i \in I!Places, NEW j \in I!Places, q[i] # None, i # j
               PROVE  q[i] # q[j]
    BY DEF OnePlace
  <2>1. CASE i # f /\ j # f
    BY <2>1, <1>1, <1>3 DEF OnePlace
  <2>2. CASE i = f
    BY <2>2, <1>1, <1>2, <1>3, <1>6
  <2>3. CASE j = f
    BY <2>3, <1>1, <1>2, <1>3, <1>6
  <2>4. QED
    BY <2>1, <2>2, <2>3
<1>11. NoneLost(q, -1, None)
  <2> SUFFICES ASSUME NEW b \in BuiltIn PROVE \E i \in I!Places : i # -1 /\ q[i] = b
    BY DEF NoneLost
  <2>1. CASE b = x
    BY <2>1, <1>2, <1>3
  <2>2. CASE b # x
    <3>1. PICK i \in I!Places : i # f /\ p[i] = b
      BY <2>2, <1>1 DEF NoneLost
    <3>2. QED
      BY <3>1, <1>2, <1>3
  <2>3. QED
    BY <2>1, <2>2
<1>12. Behind(q, f, -1, o)
  BY <1>1, <1>2, <1>3 DEF Behind
<1>13. Listed(q, s2, f, -1, None, o)
  <2> SUFFICES ASSUME o, NEW r \in I!Structs, s2[r].lib
               PROVE  \E i \in 0 .. f - 1 : i # -1 /\ q[i] = r
    BY DEF Listed
  <2>1. r # x /\ s[r].lib
    BY <1>4
  <2>2. PICK i \in 0 .. n - 1 : i # f /\ p[i] = r
    BY <2>1, <1>1 DEF Listed
  <2>3. i \in 0 .. f - 1
    BY <2>2, <1>2
  <2>4. QED
    BY <2>2, <2>3, <1>2, <1>3
<1>14. Held(q, l, f, -1, None)
  BY <1>1, <1>2, <1>7 DEF Held
<1>15. QED
  BY <1>8, <1>9, <1>10, <1>11, <1>12, <1>13, <1>14 DEF Still, Layout, f, q, s2, l

\* iot_terminate counts off an item that it could not free.
LEMMA LastLeft ==
  ASSUME ItemBounds, NEW p \in Arrays, NEW n \in 0 .. Max, NEW s, NEW k, NEW o, ~ o,
         Still(p, s, k, o, n), n > 0
  PROVE  Still(p, s, k, o, n - 1)
<1>1. \A i \in 0 .. (n - 1) - 1 : i \in 0 .. n - 1
  OBVIOUS
<1>2. QED
  BY <1>1 DEF Still, Layout, InUse, InOrder, Behind, Listed, Held

\* No memory for the name: the structure is given back or returned, not listed.
LEMMA StillNameless ==
  ASSUME ItemBounds, NEW p \in Arrays, NEW n \in 0 .. Max, n < Max,
         NEW s \in [I!Structs -> Items], NEW k \in [I!Structs -> Nat], NEW o,
         Still(p, s, k, o, n), o, NEW x \in I!Structs,
         p[n] # None => x = p[n],
         p[n] = None => x \in Heap /\ \A i \in 0 .. n - 1 : p[i] # x,
         NEW l \in [I!Structs -> Nat], \A r \in I!Structs : l[r] >= k[r]
  PROVE  Still(p, [s EXCEPT ![x] = I!Zeroed], l, o, n)
<1> DEFINE s2 == [s EXCEPT ![x] = I!Zeroed]
<1>1. /\ n \in I!Places /\ n \in Int
      /\ \A i \in 0 .. n - 1 : i \in I!Places /\ i # n /\ i # -1
  BY DEF ItemBounds, I!Places
<1>2. Layout(p, s, n, -1, None, o) /\ Held(p, k, n, -1, None)
  BY DEF Still
<1>3. \A i \in 0 .. n - 1 : p[i] # x /\ p[i] \in I!Structs
  BY <1>1, <1>2 DEF Layout, OnePlace, InUse
<1>4. ~ s2[x].lib /\ \A r \in I!Structs : r # x => s2[r] = s[r]
  BY DEF I!Zeroed
<1> HIDE DEF s2
<1>5. Layout(p, s2, n, -1, None, o)
  <2>1. \A r \in I!Structs :
          \/ s2[r].name = s[r].name /\ (s2[r].lib <=> s[r].lib)
          \/ (\A i \in 0 .. n - 1 : i # -1 => p[i] # r) /\ (~ s2[r].lib \/ r = None)
    BY <1>3, <1>4
  <2>2. o => o
    OBVIOUS
  <2>3. QED
    BY <1>2, <2>1, <2>2, LayoutKept
<1>6. Held(p, l, n, -1, None)
  BY <1>2, <1>3 DEF Held
<1>7. QED
  BY <1>5, <1>6 DEF Still, s2

\* The place that halving finds: items before it have a lower name, the others
\* have none that is lower.
LEMMA PlaceIsRight ==
  ASSUME ItemBounds, ptr \in Arrays, count \in 0 .. Max, NEW k, NEW o,
         Still(ptr, struct, k, o, count), NEW w \in Names
  PROVE  /\ I!PlaceOf(w) \in 0 .. count
         /\ \A i \in 0 .. count - 1 :
              IF i < I!PlaceOf(w) THEN struct[ptr[i]].name <= w ELSE w <= struct[ptr[i]].name
<1> DEFINE places == 0 .. count - 1
           Lower == {i \in places : w > struct[ptr[i]].name}
           r == Halve(0, count, Lower, places \ Lower)
<1>1. count \in Nat /\ 0 \in Int /\ count \in Int /\ 0 <= count /\ w \in Int
  BY DEF ItemBounds
<1>2. /\ \A i \in places : struct[ptr[i]].name \in Int
      /\ \A i, j \in places : i < j => struct[ptr[i]].name <= struct[ptr[j]].name
  <2>1. InUse(ptr, struct, count, -1) /\ InOrder(ptr, struct, count, -1)
    BY DEF Still, Layout
  <2>2. \A i \in places : i # -1
    OBVIOUS
  <2>3. \A i \in places : struct[ptr[i]].name \in Names
    BY <2>1, <2>2 DEF InUse
  <2>4. \A i, j \in places : i < j => struct[ptr[i]].name <= struct[ptr[j]].name
    BY <2>1, <2>2 DEF InOrder
  <2>5. \A v \in Names : v \in Int
    BY DEF ItemBounds
  <2>6. QED
    BY <2>3, <2>4, <2>5
<1>3. Stops(r, 0, count, Lower, places \ Lower)
  <2> HIDE DEF Lower, places
  <2> QED BY <1>1, HalveRight
<1>4. I!PlaceOf(w) = r.at
  BY DEF I!PlaceOf, I!Halve, I!Spans, I!Middle, Halve, Spans, Middle
<1> HIDE DEF r
<1>5. /\ r.at \in 0 .. count
      /\ r.at = 0 \/ r.at - 1 \in Lower
      /\ r.at = count \/ r.at \in places \ Lower
  BY <1>1, <1>3 DEF Stops, Results
<1>6. ASSUME NEW i \in places, i < r.at PROVE struct[ptr[i]].name <= w
  <2>1. r.at - 1 \in places /\ w > struct[ptr[r.at - 1]].name /\ (i < r.at - 1 \/ i = r.at - 1)
    BY <1>5, <1>6, <1>1
  <2>2. QED
    BY <2>1, <1>1, <1>2
<1>7. ASSUME NEW i \in places, ~ (i < r.at) PROVE w <= struct[ptr[i]].name
  <2>1. r.at \in places /\ ~ (w > struct[ptr[r.at]].name) /\ (r.at < i \/ i = r.at)
    BY <1>5, <1>7, <1>1
  <2>2. QED
    BY <2>1, <1>1, <1>2
<1>8. QED
  BY <1>4, <1>5, <1>6, <1>7

LEMMA SameCardinality == \A S : I!Cardinality(S) = Cardinality(S)
BY DEF I!Cardinality, Cardinality

\* iot_initialize: the structures of the library come first in the array.
LEMMA ItemInit ==
  ASSUME ItemBounds, I!Init
  PROVE  ItemInv
<1> DEFINE m == Cardinality(BuiltIn)
           f == [i \in 0 .. m - 1 |-> ptr[i]]
<1>1. /\ ptr \in [I!Places -> BuiltIn \cup {None}]
      /\ \A i \in I!Places : ptr[i] = None <=> i >= m
      /\ \A b \in BuiltIn : \E i \in I!Places : ptr[i] = b
  BY SameCardinality DEF I!Init
<1>2. m \in Nat /\ m <= Max /\ Max \in Nat
  BY FS_CardinalityType DEF ItemBounds
<1> HIDE DEF m
<1>3. /\ \A i \in 0 .. m - 1 : i \in I!Places /\ i # -1 /\ ptr[i] \in BuiltIn
      /\ \A i \in I!Places : ptr[i] # None => i \in 0 .. m - 1
      /\ None \notin BuiltIn
  BY <1>1, <1>2 DEF I!Places, ItemBounds
<1>4. \A i, j \in 0 .. m - 1 : i # j => ptr[i] # ptr[j]
  <2>1. IsFiniteSet(0 .. m - 1) /\ Cardinality(0 .. m - 1) = Cardinality(BuiltIn)
    <3>1. 0 \in Int /\ m - 1 \in Int
      BY <1>2
    <3>2. IsFiniteSet(0 .. m - 1)
          /\ Cardinality(0 .. m - 1) = IF 0 > m - 1 THEN 0 ELSE (m - 1) - 0 + 1
      BY <3>1, FS_Interval
    <3>3. QED
      BY <3>2, <1>2 DEF m
  <2>2. f \in [0 .. m - 1 -> BuiltIn]
    BY <1>3
  <2>3. \A b \in BuiltIn : \E i \in 0 .. m - 1 : f[i] = b
    BY <1>1, <1>3
  <2> HIDE DEF f
  <2>4. f \in Surjection(0 .. m - 1, BuiltIn)
    BY <2>2, <2>3 DEF Surjection
  <2>5. f \in Injection(0 .. m - 1, BuiltIn)
    BY <2>1, <2>4, FS_SurjSameCardinalityImpliesInj
  <2>6. \A i, j \in 0 .. m - 1 : f[i] = f[j] => i = j
    BY <2>2, <2>5 DEF Injection, IsInjective
  <2>7. QED
    BY <2>6 DEF f
<1>5. \A i, j \in I!Places : ptr[i] # None /\ i # j => ptr[i] # ptr[j]
  BY <1>3, <1>4
<1>6. /\ count = 0 /\ struct = [r \in I!Structs |-> I!Zeroed]
      /\ lock = None /\ step = [t \in Threads |-> "idle"] /\ mem = [t \in Threads |-> None]
      /\ name = [t \in Threads |-> 0] /\ at = [t \in Threads |-> 0]
      /\ goal = [t \in Threads |-> 0] /\ handles = [r \in I!Structs |-> 0] /\ closing = None
      /\ search = "idle"
  BY DEF I!Init
<1>7. ptr \in Arrays
  BY <1>1 DEF Arrays, I!Structs
<1>8. ItemTypes
  <2>1. I!Zeroed \in Items
    BY DEF I!Zeroed, Items, States
  <2>2. QED
    BY <1>2, <1>6, <1>7, <2>1 DEF ItemTypes, Arrays
<1>9. Layout(ptr, struct, 0, -1, None, TRUE)
  <2>1. InUse(ptr, struct, 0, -1) /\ InOrder(ptr, struct, 0, -1)
    BY DEF InUse, InOrder
  <2>2. OnePlace(ptr, -1, None)
    BY <1>5 DEF OnePlace
  <2>3. NoneLost(ptr, -1, None)
    BY <1>1, <1>3 DEF NoneLost
  <2>4. Behind(ptr, 0, -1, TRUE)
    BY <1>1 DEF Behind
  <2>5. Listed(ptr, struct, 0, -1, None, TRUE)
    BY <1>6 DEF Listed, I!Zeroed
  <2>6. QED
    BY <2>1, <2>2, <2>3, <2>4, <2>5 DEF Layout
<1>10. Held(ptr, handles, 0, -1, None)
  BY DEF Held
<1>11. SlotsInv
  BY <1>6, <1>9, <1>10 DEF SlotsInv, Still
<1>12. Alone /\ SearchInv
  BY <1>6 DEF Alone, Busy, SearchInv
<1>13. QED
  BY <1>8, <1>11, <1>12 DEF ItemInv

Steps == {"idle", "take", "shift", "count", "free", "close", "kept", "closing"}

\* Who is at the list is alone there.
LEMMA AloneAtList ==
  ASSUME ItemTypes, Alone, NEW t \in Threads, Busy(t)
  PROVE  \A u \in Threads : u # t => ~ Busy(u)
BY DEF Alone, Busy

LEMMA NoneWrites ==
  ASSUME SlotsInv, \A u \in Threads : ~ Writes(u)
  PROVE  Still(ptr, struct, handles, closing = None, count)
BY DEF SlotsInv

\* A step of a thread that keeps the others away.
LEMMA AloneNext ==
  ASSUME ItemBounds, ItemTypes, Alone, NEW t \in Threads, NEW z \in Steps,
         step' = [step EXCEPT ![t] = z],
         kind' = kind, closing' = closing, \A u \in Threads : u # t => name'[u] = name[u],
         lock' = lock \/ lock = t \/ lock = None,
         z \in {"take", "shift", "count", "close"} /\ I!Locked => lock' = t,
         ~ I!Locked => z = "idle" \/ step[t] # "idle"
                       \/ \A u \in Threads : u # t => step[u] = "idle",
         closing # None => t = closing /\ (z \in {"free", "kept"} => count' > 0),
         z \in {"take", "shift", "count"} => closing = None,
         z = "take" => name'[t] \in Names, z = "closing" => closing = t
  PROVE  Alone'
<1>1. step'[t] = z /\ \A u \in Threads : u # t => step'[u] = step[u]
  BY DEF ItemTypes
<1>2. I!Locked' <=> I!Locked
  BY DEF I!Locked
<1>3. I!Locked => \A u \in Threads : step'[u] \in {"take", "shift", "count", "close"} => lock' = u
  BY <1>1 DEF Alone, Busy, ItemBounds
<1>4. ~ I!Locked =>
        \A u, v \in Threads : step'[u] # "idle" /\ step'[v] # "idle" => u = v
  <2> SUFFICES ASSUME ~ I!Locked, NEW u \in Threads, NEW v \in Threads,
                      step'[u] # "idle", step'[v] # "idle", u # v
               PROVE  FALSE
    OBVIOUS
  <2>1. CASE u # t /\ v # t
    BY <2>1, <1>1 DEF Alone
  <2>2. CASE u = t
    BY <2>2, <1>1 DEF Alone
  <2>3. CASE v = t
    BY <2>3, <1>1 DEF Alone
  <2>4. QED
    BY <2>1, <2>2, <2>3
<1>5. closing' # None => /\ \A u \in Threads : u # closing' => step'[u] = "idle"
                         /\ step'[closing'] \in {"free", "kept"} => count' > 0
  BY <1>1 DEF Alone
<1>6. \A u \in Threads : /\ step'[u] \in {"take", "shift", "count"} => closing' = None
                         /\ step'[u] = "take" => name'[u] \in Names
                         /\ step'[u] = "closing" => closing' = u
  BY <1>1 DEF Alone
<1>7. QED
  BY <1>2, <1>3, <1>4, <1>5, <1>6 DEF Alone, Busy

\* What follows for the array from what the thread at it does.
LEMMA SlotsNext ==
  ASSUME ItemTypes, NEW t \in Threads, \A u \in Threads : u # t => ~ Writes(u),
         NEW z, step' = [step EXCEPT ![t] = z],
         z = "shift" => Shifting(ptr', struct', handles', closing' = None, count', mem'[t],
                                 name'[t], at'[t], goal'[t]),
         z = "count" => Counting(ptr', struct', handles', closing' = None, count', mem'[t]),
         z = "close" => Closing(ptr', struct', handles', closing' = None, count', mem'[t], at'[t]),
         z \notin {"shift", "count", "close"} =>
           Still(ptr', struct', handles', closing' = None, count')
  PROVE  SlotsInv'
<1>1. step'[t] = z /\ \A u \in Threads : u # t => step'[u] \notin {"shift", "count", "close"}
  BY DEF ItemTypes, Writes
<1>2. (\A u \in Threads : step'[u] \notin {"shift", "count", "close"}) =>
         Still(ptr', struct', handles', closing' = None, count')
  BY <1>1
<1>3. \A u \in Threads :
       /\ step'[u] = "shift" => Shifting(ptr', struct', handles', closing' = None, count', mem'[u],
                                         name'[u], at'[u], goal'[u])
       /\ step'[u] = "count" => Counting(ptr', struct', handles', closing' = None, count', mem'[u])
       /\ step'[u] = "close" => Closing(ptr', struct', handles', closing' = None, count', mem'[u],
                                        at'[u])
  BY <1>1
<1>4. QED
  BY <1>2, <1>3 DEF SlotsInv, Writes

SameNames(s, s2) ==
  \A r \in I!Structs : s2[r].name = s[r].name /\ (s2[r].lib <=> s[r].lib)

LEMMA StepsKept ==
  ASSUME NEW p, NEW k, NEW o, NEW n \in Int, NEW s, NEW s2, SameNames(s, s2)
  PROVE  /\ Still(p, s, k, o, n) => Still(p, s2, k, o, n)
         /\ \A x : Counting(p, s, k, o, n, x) => Counting(p, s2, k, o, n, x)
         /\ \A x, f : Closing(p, s, k, o, n, x, f) => Closing(p, s2, k, o, n, x, f)
         /\ \A x, w, f, g : Shifting(p, s, k, o, n, x, w, f, g) =>
                            Shifting(p, s2, k, o, n, x, w, f, g)
<1>1. ASSUME NEW m, NEW h, NEW x, Layout(p, s, m, h, x, o)
      PROVE  Layout(p, s2, m, h, x, o)
  <2>1. \A r \in I!Structs :
          \/ s2[r].name = s[r].name /\ (s2[r].lib <=> s[r].lib)
          \/ (\A i \in 0 .. m - 1 : i # h => p[i] # r) /\ (~ s2[r].lib \/ r = x)
    BY DEF SameNames
  <2>2. o => o
    OBVIOUS
  <2>3. QED
    BY <1>1, <2>1, <2>2, LayoutKept
<1>2. ASSUME NEW x, NEW w, NEW f, NEW g, Shifting(p, s, k, o, n, x, w, f, g)
      PROVE  Shifting(p, s2, k, o, n, x, w, f, g)
  <2>1. /\ n < Max /\ 0 <= g /\ g <= f /\ f <= n /\ x \in I!Structs
        /\ s[x].lib /\ s[x].name = w /\ w \in Names
        /\ Layout(p, s, n + 1, f, x, o) /\ Held(p, k, n + 1, f, x)
        /\ \A i \in 0 .. n : i # f => IF i < g THEN s[p[i]].name <= w ELSE w <= s[p[i]].name
    BY <1>2 DEF Shifting
  <2>2. Layout(p, s2, n + 1, f, x, o)
    BY <2>1, <1>1
  <2>3. \A i \in 0 .. (n + 1) - 1 : i # f => p[i] \in I!Structs
    BY <2>1 DEF Layout, InUse
  <2>4. s2[x].lib /\ s2[x].name = w
    BY <2>1 DEF SameNames
  <2>5. \A i \in 0 .. n : i # f => s2[p[i]].name = s[p[i]].name
    <3>1. \A i \in 0 .. n : i \in 0 .. (n + 1) - 1
      OBVIOUS
    <3>2. QED
      BY <2>3, <3>1 DEF SameNames
  <2>6. \A i \in 0 .. n : i # f => IF i < g THEN s2[p[i]].name <= w ELSE w <= s2[p[i]].name
    BY <2>1, <2>5
  <2>7. QED
    BY <2>1, <2>2, <2>4, <2>6 DEF Shifting
<1>3. Still(p, s, k, o, n) => Still(p, s2, k, o, n)
  BY <1>1 DEF Still
<1>4. \A x : Counting(p, s, k, o, n, x) => Counting(p, s2, k, o, n, x)
  BY <1>1 DEF Counting
<1>5. \A x, f : Closing(p, s, k, o, n, x, f) => Closing(p, s2, k, o, n, x, f)
  BY <1>1 DEF Closing
<1>6. QED
  BY <1>2, <1>3, <1>4, <1>5

\* Steps of which the array sees nothing.
LEMMA SlotsFrame ==
  ASSUME SlotsInv, count \in Int, UNCHANGED <<ptr, count, handles, closing>>, SameNames(struct, struct'),
         \A u \in Threads :
           /\ Writes(u)' <=> Writes(u)
           /\ Writes(u) => /\ step'[u] = step[u] /\ mem'[u] = mem[u] /\ name'[u] = name[u]
                           /\ at'[u] = at[u] /\ goal'[u] = goal[u]
  PROVE  SlotsInv'
<1>1. (\A u \in Threads : ~ Writes(u)') => Still(ptr', struct', handles', closing' = None, count')
  BY StepsKept DEF SlotsInv
<1>2. ASSUME NEW u \in Threads
      PROVE
       /\ step'[u] = "shift" => Shifting(ptr', struct', handles', closing' = None, count', mem'[u],
                                         name'[u], at'[u], goal'[u])
       /\ step'[u] = "count" => Counting(ptr', struct', handles', closing' = None, count', mem'[u])
       /\ step'[u] = "close" => Closing(ptr', struct', handles', closing' = None, count', mem'[u],
                                        at'[u])
  <2>1. step'[u] \in {"shift", "count", "close"} =>
          /\ step'[u] = step[u] /\ mem'[u] = mem[u] /\ name'[u] = name[u]
          /\ at'[u] = at[u] /\ goal'[u] = goal[u]
    BY DEF Writes
  <2>2. /\ step[u] = "shift" => Shifting(ptr, struct, handles, closing = None, count, mem[u],
                                        name[u], at[u], goal[u])
        /\ step[u] = "count" => Counting(ptr, struct, handles, closing = None, count, mem[u])
        /\ step[u] = "close" => Closing(ptr, struct, handles, closing = None, count, mem[u],
                                        at[u])
    BY DEF SlotsInv
  <2>3. QED
    BY <2>1, <2>2, StepsKept
<1>3. QED
  BY <1>1, <1>2 DEF SlotsInv

\* Steps that do not meet the search of a worker.
LEMMA SearchFrame ==
  ASSUME SearchInv, count \in Nat, kind' = kind, UNCHANGED <<search, wanted, looking, found>>,
         \/ disturbed' = (disturbed \/ search # "idle")
         \/ /\ disturbed' = disturbed /\ count' = count
            /\ \A i \in 0 .. count - 1 :
                 ptr'[i] = ptr[i] /\ struct'[ptr[i]].name = struct[ptr[i]].name
  PROVE  SearchInv'
<1> SUFFICES ASSUME search' # "idle", ~ disturbed'
             PROVE  SearchInv'
  BY DEF SearchInv
<1>1. /\ search # "idle" /\ ~ disturbed /\ count' = count
      /\ \A i \in 0 .. count - 1 :
           ptr'[i] = ptr[i] /\ struct'[ptr[i]].name = struct[ptr[i]].name
  <2>1. search # "idle" /\ ~ (disturbed' = (disturbed \/ search # "idle"))
    BY Zenon
  <2>2. QED
    BY <2>1
<1>2. /\ kind = "action" /\ looking \in Nat
      /\ \A i \in 0 .. count - 1 : ptr[i] \in I!Structs /\ struct[ptr[i]].name \in Names
      /\ \A i \in 0 .. looking - 1 : i < count => struct[ptr[i]].name # wanted
      /\ search = "compare" => looking < count /\ found = ptr[looking]
      /\ search = "picked" =>
           IF found = None THEN looking >= count
           ELSE looking < count /\ found = ptr[looking] /\ struct[found].name = wanted
  BY <1>1 DEF SearchInv
<1>3. \A i \in 0 .. count' - 1 : ptr'[i] \in I!Structs /\ struct'[ptr'[i]].name \in Names
  BY <1>1, <1>2
<1>4. \A i \in 0 .. looking' - 1 : i < count' => struct'[ptr'[i]].name # wanted'
  <2>1. \A i \in 0 .. looking - 1 : i < count => i \in 0 .. count - 1
    BY <1>2
  <2>2. QED
    BY <1>1, <1>2, <2>1
<1>5. looking < count => looking \in 0 .. count - 1
  BY <1>2
<1>6. search' = "compare" => looking' < count' /\ found' = ptr'[looking']
  BY <1>1, <1>2, <1>5
<1>7. search' = "picked" =>
           IF found' = None THEN looking' >= count'
           ELSE looking' < count' /\ found' = ptr'[looking'] /\ struct'[found'].name = wanted'
  BY <1>1, <1>2, <1>5
<1>8. QED
  BY <1>2, <1>3, <1>4, <1>6, <1>7 DEF SearchInv, I!Structs

\* The array as the one thread at it finds it.
LEMMA AtList ==
  ASSUME ItemInv, NEW t \in Threads, Busy(t)
  PROVE  /\ \A u \in Threads : u # t => ~ Writes(u)
         /\ step[t] = "take" => Still(ptr, struct, handles, closing = None, count)
<1>1. \A u \in Threads : u # t => ~ Writes(u)
  BY AloneAtList DEF ItemInv, Busy, Writes
<1>2. step[t] = "take" => \A u \in Threads : ~ Writes(u)
  BY <1>1 DEF Writes
<1>3. QED
  BY <1>1, <1>2, NoneWrites DEF ItemInv

LEMMA ItemFacts ==
  ASSUME ItemBounds, ItemInv
  PROVE  /\ Max \in Nat /\ count \in 0 .. Max /\ count \in Nat /\ ptr \in Arrays
         /\ struct \in [I!Structs -> Items] /\ handles \in [I!Structs -> Nat]
         /\ None \notin Threads /\ None \notin I!Structs
         /\ step \in [Threads -> Steps] /\ closing \in Threads \cup {None}
BY DEF ItemBounds, ItemInv, ItemTypes, Arrays, Steps, I!Structs

\* The call returns.
LEMMA ReturnTypes ==
  ASSUME ItemBounds, ItemTypes, NEW t \in Threads, I!Return(t)
  PROVE  /\ step' = [step EXCEPT ![t] = IF closing = t THEN "closing" ELSE "idle"]
         /\ mem' \in [Threads -> I!Structs \cup {None}] /\ name' \in [Threads -> Names \cup {0}]
         /\ at' \in [Threads -> Int] /\ goal' \in [Threads -> Int]
         /\ step' \in [Threads -> Steps] /\ lock' \in Threads \cup {None}
         /\ lock' = IF lock = t THEN None ELSE lock
         /\ \A u \in Threads : u # t => /\ name'[u] = name[u] /\ mem'[u] = mem[u]
                                        /\ at'[u] = at[u] /\ goal'[u] = goal[u]
                                        /\ step'[u] = step[u]
BY DEF ItemTypes, I!Return, I!Go, Steps

LEMMA ReturnAlone ==
  ASSUME ItemBounds, ItemInv, NEW t \in Threads, step[t] # "idle", I!Return(t),
         kind' = kind, closing' = closing
  PROVE  Alone'
<1> DEFINE z == IF closing = t THEN "closing" ELSE "idle"
<1>1. step' = [step EXCEPT ![t] = z] /\ z \in Steps
  BY DEF I!Return, I!Go, Steps
<1>2. \A u \in Threads : u # t => name'[u] = name[u]
  BY ReturnTypes DEF ItemInv
<1>3. lock' = lock \/ lock = t \/ lock = None
  BY DEF I!Return
<1>4. z \notin {"take", "shift", "count", "close", "free", "kept"}
  OBVIOUS
<1>5. closing # None => t = closing
  BY ItemFacts DEF ItemInv, Alone
<1>51. z = "closing" => closing = t
  OBVIOUS
<1>6. ~ I!Locked => z = "idle" \/ step[t] # "idle" \/ \A u \in Threads : u # t => step[u] = "idle"
  OBVIOUS
<1> HIDE DEF z
<1>7. QED
  BY <1>1, <1>2, <1>3, <1>4, <1>5, <1>51, <1>6, AloneNext DEF ItemInv

LEMMA AllocateInv ==
  ASSUME ItemBounds, ItemInv, NEW t \in Threads, I!Allocate(t)
  PROVE  ItemInv'
<1>1. /\ step[t] = "idle" /\ closing = None /\ I!Sole(t)
      /\ lock = None /\ lock' = IF I!Locked THEN t ELSE None
      /\ step' = [step EXCEPT ![t] = "take"]
      /\ UNCHANGED <<kind, ptr, count, struct, mem, at, goal, handles, closing, search, wanted,
                     looking, found, disturbed>>
  BY DEF I!Allocate, I!Lock, I!Go, I!listVars, I!searchVars
<1>2. PICK w \in Names : name' = [name EXCEPT ![t] = w]
  BY DEF I!Allocate
<1>3. name'[t] \in Names /\ \A u \in Threads : u # t => name'[u] = name[u]
  BY <1>2 DEF ItemInv, ItemTypes
<1>4. ItemTypes'
  BY <1>1, <1>2 DEF ItemInv, ItemTypes, Items, I!Structs, I!Places
<1>5. Alone'
  <2>1. ~ I!Locked => \A u \in Threads : u # t => step[u] = "idle"
    BY <1>1 DEF I!Sole
  <2>2. "take" \in Steps /\ "take" # "free" /\ "take" # "kept" /\ "take" # "closing"
    BY DEF Steps
  <2> DEFINE z == "take"
  <2>3. /\ step' = [step EXCEPT ![t] = z] /\ z \in Steps /\ z \notin {"free", "kept", "closing"}
        /\ z # "closing"
        /\ closing # None => FALSE
        /\ z \in {"take", "shift", "count"} => closing = None
        /\ z = "take" => name'[t] \in Names
        /\ z \in {"take", "shift", "count", "close"} /\ I!Locked => lock' = t
    BY <1>1, <1>3, <2>2
  <2> HIDE DEF z
  <2>4. QED
    BY <1>1, <1>3, <2>1, <2>3, AloneNext DEF ItemInv
<1>6. SlotsInv'
  <2>1. \A u \in Threads : Writes(u)' <=> Writes(u)
    BY <1>1 DEF ItemInv, ItemTypes, Writes
  <2>2. \A u \in Threads : Writes(u) => /\ step'[u] = step[u] /\ name'[u] = name[u]
    BY <1>1, <1>3 DEF ItemInv, ItemTypes, Writes
  <2>3. SameNames(struct, struct')
    BY <1>1 DEF SameNames
  <2>4. QED
    BY <1>1, <2>1, <2>2, <2>3, SlotsFrame, ItemFacts DEF ItemInv
<1>7. SearchInv'
  BY <1>1, SearchFrame, ItemFacts DEF ItemInv
<1>8. QED
  BY <1>4, <1>5, <1>6, <1>7 DEF ItemInv

LEMMA NoRoomInv ==
  ASSUME ItemBounds, ItemInv, NEW t \in Threads, I!NoRoom(t)
  PROVE  ItemInv'
<1>1. /\ step[t] = "take" /\ I!Return(t)
      /\ UNCHANGED <<kind, ptr, count, struct, handles, closing, search, wanted,
                     looking, found, disturbed>>
  BY DEF I!NoRoom, I!listVars, I!searchVars
<1>2. ItemTypes'
  BY <1>1, ReturnTypes DEF ItemInv, ItemTypes, Items, Steps, I!Structs, I!Places
<1>3. Alone'
  BY <1>1, ReturnAlone
<1>4. SlotsInv'
  <2>1. \A u \in Threads : Writes(u)' <=> Writes(u)
    <3>1. ~ Writes(t) /\ ~ Writes(t)'
      BY <1>1 DEF ItemInv, ItemTypes, Writes, I!Return, I!Go
    <3>2. \A u \in Threads : u # t => (Writes(u)' <=> Writes(u))
      BY <1>1, ReturnTypes DEF ItemInv, Writes
    <3>3. QED
      BY <3>1, <3>2
  <2>2. \A u \in Threads : Writes(u) =>
          /\ step'[u] = step[u] /\ mem'[u] = mem[u] /\ name'[u] = name[u]
          /\ at'[u] = at[u] /\ goal'[u] = goal[u]
    <3>1. ~ Writes(t)
      BY <1>1 DEF Writes
    <3>2. QED
      BY <1>1, <3>1, ReturnTypes DEF ItemInv
  <2>3. SameNames(struct, struct')
    BY <1>1 DEF SameNames
  <2>4. QED
    BY <1>1, <2>1, <2>2, <2>3, SlotsFrame, ItemFacts DEF ItemInv
<1>5. SearchInv'
  BY <1>1, SearchFrame, ItemFacts DEF ItemInv
<1>6. QED
  BY <1>2, <1>3, <1>4, <1>5 DEF ItemInv

\* A candidate is at the place behind the items, or outside the array.
LEMMA CandidatesAre ==
  ASSUME ItemBounds, ItemInv, count < Max, NEW x \in I!Candidates
  PROVE  /\ x \in I!Structs
         /\ ptr[count] # None => x = ptr[count]
         /\ ptr[count] = None => x \in Heap /\ \A i \in 0 .. count - 1 : ptr[i] # x
<1>1. count \in I!Places
  BY ItemFacts DEF I!Places
<1>2. ptr[count] \in I!Structs \cup {None}
  BY <1>1, ItemFacts DEF Arrays
<1>3. QED
  BY <1>2 DEF I!Candidates, I!Live, I!Structs

LEMMA TakeStructInv ==
  ASSUME ItemBounds, ItemInv, NEW t \in Threads, I!TakeStruct(t)
  PROVE  ItemInv'
<1>1. /\ step[t] = "take" /\ count < Max
      /\ at' = [at EXCEPT ![t] = count] /\ goal' = [goal EXCEPT ![t] = I!PlaceOf(name[t])]
      /\ step' = [step EXCEPT ![t] = "shift"]
      /\ UNCHANGED <<kind, ptr, count, lock, name, handles, closing, search, wanted,
                     looking, found, disturbed>>
  BY DEF I!TakeStruct, I!Go, I!searchVars
<1>2. PICK x \in I!Candidates :
         /\ mem' = [mem EXCEPT ![t] = x]
         /\ struct' = [struct EXCEPT ![x] = [I!Zeroed EXCEPT !.name = name[t], !.lib = TRUE]]
  BY DEF I!TakeStruct
<1>3. Busy(t) /\ name[t] \in Names /\ closing = None
  BY <1>1 DEF Busy, ItemInv, Alone
<1>4. /\ \A u \in Threads : u # t => ~ Writes(u)
      /\ Still(ptr, struct, handles, closing = None, count)
  BY <1>1, <1>3, AtList
<1>5. /\ x \in I!Structs
      /\ ptr[count] # None => x = ptr[count]
      /\ ptr[count] = None => x \in Heap /\ \A i \in 0 .. count - 1 : ptr[i] # x
  BY <1>1, CandidatesAre
<1> DEFINE g == I!PlaceOf(name[t])
<1>6. /\ g \in 0 .. count
      /\ \A i \in 0 .. count - 1 :
           IF i < g THEN struct[ptr[i]].name <= name[t] ELSE name[t] <= struct[ptr[i]].name
  BY <1>3, <1>4, PlaceIsRight, ItemFacts
<1>7. /\ mem'[t] = x /\ name'[t] = name[t] /\ at'[t] = count /\ goal'[t] = g
  BY <1>1, <1>2 DEF ItemInv, ItemTypes
<1> HIDE DEF g
<1>8. Shifting(ptr, struct', handles, closing = None, count, x, name[t], count, g)
  BY <1>1, <1>2, <1>3, <1>4, <1>5, <1>6, ShiftBegins, ItemFacts
<1>9. ItemTypes'
  <2>1. [I!Zeroed EXCEPT !.name = name[t], !.lib = TRUE] \in Items
    BY <1>3 DEF I!Zeroed, Items, States
  <2>2. struct' \in [I!Structs -> Items]
    BY <1>2, <1>5, <2>1, ItemFacts
  <2>3. mem' \in [Threads -> I!Structs \cup {None}]
    BY <1>2, <1>5 DEF ItemInv, ItemTypes
  <2>4. at' \in [Threads -> Int] /\ goal' \in [Threads -> Int]
    BY <1>1, <1>6 DEF g, ItemInv, ItemTypes
  <2>5. QED
    BY <1>1, <2>2, <2>3, <2>4 DEF ItemInv, ItemTypes, Items, I!Structs, I!Places
<1>10. Alone'
  <2> DEFINE z == "shift"
  <2>1. /\ step' = [step EXCEPT ![t] = z] /\ z \in Steps /\ z \notin {"free", "kept", "take"} /\ z # "closing"
        /\ I!Locked => lock' = t
    BY <1>1, <1>3 DEF Steps, ItemInv, Alone
  <2> HIDE DEF z
  <2>2. QED
    BY <1>1, <1>3, <2>1, AloneNext DEF ItemInv
<1>11. SlotsInv'
  <2> DEFINE z == "shift"
  <2>1. /\ step' = [step EXCEPT ![t] = z] /\ z \notin {"count", "close"} /\ z = "shift"
        /\ Shifting(ptr', struct', handles', closing' = None, count', mem'[t],
                    name'[t], at'[t], goal'[t])
    BY <1>1, <1>7, <1>8
  <2> HIDE DEF z
  <2>2. QED
    BY <1>4, <2>1, SlotsNext DEF ItemInv
<1>12. SearchInv'
  <2>1. \A i \in 0 .. count - 1 : ptr[i] # x
    <3>1. count \in I!Places /\ \A i \in 0 .. count - 1 : i \in I!Places /\ i # count /\ i # -1
      BY <1>1, ItemFacts DEF I!Places
    <3>2. OnePlace(ptr, -1, None)
      BY <1>4 DEF Still, Layout
    <3>3. QED
      BY <1>5, <3>1, <3>2 DEF OnePlace
  <2>2. \A r \in I!Structs : r # x => struct'[r] = struct[r]
    BY <1>2, ItemFacts
  <2>3. \A i \in 0 .. count - 1 : ptr[i] \in I!Structs
    BY <1>4 DEF Still, Layout, InUse
  <2>4. QED
    BY <1>1, <2>1, <2>2, <2>3, SearchFrame, ItemFacts DEF ItemInv
<1>13. QED
  BY <1>9, <1>10, <1>11, <1>12 DEF ItemInv

LEMMA NameFailsInv ==
  ASSUME ItemBounds, ItemInv, NEW t \in Threads, I!NameFails(t)
  PROVE  ItemInv'
<1>1. /\ step[t] = "take" /\ count < Max /\ I!Return(t)
      /\ UNCHANGED <<kind, ptr, count, closing, search, wanted, looking, found, disturbed>>
  BY DEF I!NameFails, I!searchVars
<1>2. PICK x \in I!Candidates :
         /\ struct' = [struct EXCEPT ![x] = I!Zeroed]
         /\ handles' = IF x \in BuiltIn /\ kind # "alarm"
                       THEN [handles EXCEPT ![x] = @ + 1] ELSE handles
  BY DEF I!NameFails
<1>3. Busy(t) /\ closing = None
  BY <1>1 DEF Busy, ItemInv, Alone
<1>4. /\ \A u \in Threads : u # t => ~ Writes(u)
      /\ Still(ptr, struct, handles, closing = None, count)
  BY <1>1, <1>3, AtList
<1>5. /\ x \in I!Structs
      /\ ptr[count] # None => x = ptr[count]
      /\ ptr[count] = None => x \in Heap /\ \A i \in 0 .. count - 1 : ptr[i] # x
  BY <1>1, CandidatesAre
<1>6. handles' \in [I!Structs -> Nat] /\ \A r \in I!Structs : handles'[r] >= handles[r]
  BY <1>2, <1>5, ItemFacts
<1>7. Still(ptr, struct', handles', closing = None, count)
  BY <1>1, <1>2, <1>3, <1>4, <1>5, <1>6, StillNameless, ItemFacts
<1>8. ItemTypes'
  <2>1. I!Zeroed \in Items
    BY DEF I!Zeroed, Items, States
  <2>2. struct' \in [I!Structs -> Items]
    BY <1>2, <1>5, <2>1, ItemFacts
  <2>3. QED
    BY <1>1, <1>6, <2>2, ReturnTypes DEF ItemInv, ItemTypes, Items, Steps, I!Structs, I!Places
<1>9. Alone'
  BY <1>1, ReturnAlone
<1>10. SlotsInv'
  <2> DEFINE z == IF closing = t THEN "closing" ELSE "idle"
  <2>1. /\ step' = [step EXCEPT ![t] = z] /\ z \notin {"shift", "count", "close"}
        /\ z # "shift" /\ z # "count" /\ z # "close"
    BY <1>1 DEF I!Return, I!Go
  <2> HIDE DEF z
  <2>2. Still(ptr', struct', handles', closing' = None, count')
    BY <1>1, <1>7
  <2>3. QED
    BY <1>4, <2>1, <2>2, SlotsNext DEF ItemInv
<1>11. SearchInv'
  <2>1. \A i \in 0 .. count - 1 : ptr[i] # x
    <3>1. count \in I!Places /\ \A i \in 0 .. count - 1 : i \in I!Places /\ i # count /\ i # -1
      BY <1>1, ItemFacts DEF I!Places
    <3>2. OnePlace(ptr, -1, None)
      BY <1>4 DEF Still, Layout
    <3>3. QED
      BY <1>5, <3>1, <3>2 DEF OnePlace
  <2>2. \A r \in I!Structs : r # x => struct'[r] = struct[r]
    BY <1>2, ItemFacts
  <2>3. \A i \in 0 .. count - 1 : ptr[i] \in I!Structs
    BY <1>4 DEF Still, Layout, InUse
  <2>4. QED
    BY <1>1, <2>1, <2>2, <2>3, SearchFrame, ItemFacts DEF ItemInv
<1>12. QED
  BY <1>8, <1>9, <1>10, <1>11 DEF ItemInv

LEMMA ShiftInv ==
  ASSUME ItemBounds, ItemInv, NEW t \in Threads, I!Shift(t)
  PROVE  ItemInv'
<1>1. /\ step[t] = "shift" /\ at[t] > goal[t]
      /\ ptr' = [ptr EXCEPT ![at[t]] = ptr[at[t] - 1]] /\ at' = [at EXCEPT ![t] = at[t] - 1]
      /\ disturbed' = (disturbed \/ search # "idle")
      /\ UNCHANGED <<kind, count, struct, lock, step, mem, name, goal, handles, closing,
                     search, wanted, looking, found>>
  BY DEF I!Shift, I!Disturb, I!searchVars
<1>2. Shifting(ptr, struct, handles, closing = None, count, mem[t], name[t], at[t], goal[t])
  BY <1>1 DEF ItemInv, SlotsInv
<1>3. Busy(t) /\ closing = None /\ at[t] \in Int /\ goal[t] \in Int
  BY <1>1 DEF Busy, ItemInv, ItemTypes, Alone
<1>4. \A u \in Threads : u # t => ~ Writes(u)
  BY <1>3, AtList
<1>5. Shifting(ptr', struct, handles, closing = None, count, mem[t], name[t], at[t] - 1, goal[t])
  BY <1>1, <1>2, <1>3, ShiftGoesOn, ItemFacts
<1>6. step' = [step EXCEPT ![t] = "shift"] /\ at'[t] = at[t] - 1
  BY <1>1 DEF ItemInv, ItemTypes
<1>7. ItemTypes'
  <2>1. at[t] \in I!Places /\ at[t] - 1 \in I!Places
    BY <1>1, <1>2, <1>3, ItemFacts DEF Shifting, I!Places
  <2>2. ptr' \in Arrays
    BY <1>1, <2>1, ItemFacts DEF Arrays
  <2>3. at' \in [Threads -> Int]
    BY <1>1, <1>3 DEF ItemInv, ItemTypes
  <2>4. QED
    BY <1>1, <2>2, <2>3 DEF ItemInv, ItemTypes, Items, I!Structs, I!Places, Arrays
<1>8. Alone'
  BY <1>1, <1>3 DEF ItemInv, Alone, Busy, I!Locked
<1>9. SlotsInv'
  <2> DEFINE z == "shift"
  <2>1. /\ step' = [step EXCEPT ![t] = z] /\ z \notin {"count", "close"} /\ z = "shift"
        /\ Shifting(ptr', struct', handles', closing' = None, count', mem'[t],
                    name'[t], at'[t], goal'[t])
    BY <1>1, <1>5, <1>6
  <2> HIDE DEF z
  <2>2. QED
    BY <1>4, <2>1, SlotsNext DEF ItemInv
<1>10. SearchInv'
  BY <1>1, SearchFrame, ItemFacts DEF ItemInv
<1>11. QED
  BY <1>7, <1>8, <1>9, <1>10 DEF ItemInv

LEMMA InsertInv ==
  ASSUME ItemBounds, ItemInv, NEW t \in Threads, I!Insert(t)
  PROVE  ItemInv'
<1>1. /\ step[t] = "shift" /\ at[t] = goal[t]
      /\ ptr' = [ptr EXCEPT ![at[t]] = mem[t]] /\ step' = [step EXCEPT ![t] = "count"]
      /\ disturbed' = (disturbed \/ search # "idle")
      /\ UNCHANGED <<kind, count, struct, lock, mem, name, at, goal, handles, closing,
                     search, wanted, looking, found>>
  BY DEF I!Insert, I!Disturb, I!Go, I!searchVars
<1>2. Shifting(ptr, struct, handles, closing = None, count, mem[t], name[t], at[t], at[t])
  BY <1>1 DEF ItemInv, SlotsInv
<1>3. Busy(t) /\ closing = None /\ at[t] \in Int
  BY <1>1 DEF Busy, ItemInv, ItemTypes, Alone
<1>4. \A u \in Threads : u # t => ~ Writes(u)
  BY <1>3, AtList
<1>5. Counting(ptr', struct, handles, closing = None, count, mem[t])
  BY <1>1, <1>2, <1>3, ShiftEnds, ItemFacts
<1>6. ItemTypes'
  <2>1. at[t] \in I!Places /\ mem[t] \in I!Structs
    BY <1>2, <1>3, ItemFacts DEF Shifting, I!Places
  <2>2. ptr' \in Arrays
    BY <1>1, <2>1, ItemFacts DEF Arrays
  <2>3. QED
    BY <1>1, <2>2 DEF ItemInv, ItemTypes, Items, I!Structs, I!Places, Arrays
<1> DEFINE z == "count"
<1>7. /\ step' = [step EXCEPT ![t] = z] /\ z \in Steps /\ z \notin {"free", "kept", "take"} /\ z # "closing"
      /\ z = "count" /\ z \notin {"shift", "close"} /\ (I!Locked => lock' = t)
  BY <1>1, <1>3 DEF Steps, ItemInv, Alone
<1> HIDE DEF z
<1>8. Alone'
  BY <1>1, <1>3, <1>7, AloneNext DEF ItemInv
<1>9. SlotsInv'
  <2>1. Counting(ptr', struct', handles', closing' = None, count', mem'[t])
    BY <1>1, <1>5
  <2>2. QED
    BY <1>4, <1>7, <2>1, SlotsNext DEF ItemInv
<1>10. SearchInv'
  BY <1>1, SearchFrame, ItemFacts DEF ItemInv
<1>11. QED
  BY <1>6, <1>8, <1>9, <1>10 DEF ItemInv

LEMMA CountInv ==
  ASSUME ItemBounds, ItemInv, NEW t \in Threads, I!Count(t)
  PROVE  ItemInv'
<1>1. /\ step[t] = "count" /\ count' = count + 1 /\ I!Return(t)
      /\ handles' = [handles EXCEPT ![mem[t]] = @ + 1]
      /\ disturbed' = (disturbed \/ search # "idle")
      /\ UNCHANGED <<kind, ptr, struct, closing, search, wanted, looking, found>>
  BY DEF I!Count, I!Disturb, I!searchVars
<1>2. Counting(ptr, struct, handles, closing = None, count, mem[t])
  BY <1>1 DEF ItemInv, SlotsInv
<1>3. Busy(t)
  BY <1>1 DEF Busy
<1>4. \A u \in Threads : u # t => ~ Writes(u)
  BY <1>3, AtList
<1>5. Still(ptr, struct, handles', closing = None, count + 1)
  BY <1>1, <1>2, CountEnds, ItemFacts
<1>6. ItemTypes'
  <2>1. count < Max /\ mem[t] \in I!Structs
    BY <1>2 DEF Counting
  <2>2. handles' \in [I!Structs -> Nat] /\ count' \in 0 .. Max
    BY <1>1, <2>1, ItemFacts
  <2>3. QED
    BY <1>1, <2>2, ReturnTypes DEF ItemInv, ItemTypes, Items, Steps, I!Structs, I!Places
<1>7. Alone'
  BY <1>1, ReturnAlone
<1>8. SlotsInv'
  <2> DEFINE z == IF closing = t THEN "closing" ELSE "idle"
  <2>1. /\ step' = [step EXCEPT ![t] = z] /\ z \notin {"shift", "count", "close"}
        /\ z # "shift" /\ z # "count" /\ z # "close"
    BY <1>1 DEF I!Return, I!Go
  <2> HIDE DEF z
  <2>2. Still(ptr', struct', handles', closing' = None, count')
    BY <1>1, <1>5
  <2>3. QED
    BY <1>4, <2>1, <2>2, SlotsNext DEF ItemInv
<1>9. SearchInv'
  BY <1>1, SearchFrame, ItemFacts DEF ItemInv
<1>10. QED
  BY <1>6, <1>7, <1>8, <1>9 DEF ItemInv

\* The state of an item does not matter to the search.
LEMMA SearchSame ==
  ASSUME ItemBounds, ItemInv, SameNames(struct, struct'),
         UNCHANGED <<kind, ptr, count, search, wanted, looking, found, disturbed>>
  PROVE  SearchInv'
<1>1. CASE search = "idle"
  BY <1>1 DEF SearchInv
<1>2. CASE disturbed
  BY <1>2 DEF SearchInv
<1>3. CASE search # "idle" /\ ~ disturbed
  <2>1. \A i \in 0 .. count - 1 : ptr[i] \in I!Structs
    BY <1>3 DEF ItemInv, SearchInv
  <2>2. \A i \in 0 .. count - 1 : ptr'[i] = ptr[i] /\ struct'[ptr[i]].name = struct[ptr[i]].name
    BY <2>1 DEF SameNames
  <2>3. QED
    BY <2>2, SearchFrame, ItemFacts DEF ItemInv
<1>4. QED
  BY <1>1, <1>2, <1>3

\* A call to the plug-in, and what it makes of the item.
LEMMA DeregisterIs ==
  ASSUME ItemBounds, ItemInv, NEW t \in Threads, NEW x \in I!Structs, I!Deregister(t, x)
  PROVE  /\ struct' \in [I!Structs -> Items] /\ SameNames(struct, struct')
         /\ \E z \in {"free", "kept"} : step' = [step EXCEPT ![t] = z]
<1>1. \/ UNCHANGED struct
      \/ \E e \in States : struct' = [struct EXCEPT ![x].state = e]
  BY DEF I!Deregister, States
<1>2. struct' \in [I!Structs -> Items] /\ SameNames(struct, struct')
  BY <1>1, ItemFacts DEF Items, SameNames
<1>3. \E z \in {"free", "kept"} : step' = [step EXCEPT ![t] = z]
  BY DEF I!Deregister, I!Go
<1>4. QED
  BY <1>2, <1>3

LEMMA RegisterInv ==
  ASSUME ItemBounds, ItemInv, NEW t \in Threads, I!Register(t)
  PROVE  ItemInv'
<1>1. UNCHANGED <<kind, ptr, count, lock, step, mem, name, at, goal, handles, closing, search,
                  wanted, looking, found, disturbed>>
  BY DEF I!Register, I!threadVars, I!searchVars
<1>2. PICK x \in I!Structs :
        \E e \in States : struct' = [struct EXCEPT ![x].state = e]
  BY DEF I!Register, States
<1>3. struct' \in [I!Structs -> Items] /\ SameNames(struct, struct')
  BY <1>2, ItemFacts DEF Items, SameNames
<1>4. ItemTypes'
  BY <1>1, <1>3 DEF ItemInv, ItemTypes, Items, I!Structs, I!Places
<1>5. Alone'
  BY <1>1 DEF ItemInv, Alone, Busy, I!Locked
<1>6. SlotsInv'
  <2>1. \A u \in Threads : Writes(u)' <=> Writes(u)
    BY <1>1 DEF Writes
  <2>2. QED
    BY <1>1, <1>3, <2>1, SlotsFrame, ItemFacts DEF ItemInv
<1>7. SearchInv'
  BY <1>1, <1>3, SearchSame
<1>8. QED
  BY <1>4, <1>5, <1>6, <1>7 DEF ItemInv

LEMMA FreeInv ==
  ASSUME ItemBounds, ItemInv, NEW t \in Threads, I!Free(t)
  PROVE  ItemInv'
<1>1. /\ step[t] = "idle" /\ closing = None /\ I!Sole(t)
      /\ UNCHANGED <<kind, ptr, count, lock, name, at, goal, handles, closing, search, wanted,
                     looking, found, disturbed>>
  BY DEF I!Free, I!searchVars
<1>2. PICK x \in I!Structs : I!Deregister(t, x) /\ mem' = [mem EXCEPT ![t] = x]
  BY DEF I!Free
<1>3. struct' \in [I!Structs -> Items] /\ SameNames(struct, struct')
  BY <1>2, DeregisterIs
<1>4. PICK z \in {"free", "kept"} : step' = [step EXCEPT ![t] = z]
  BY <1>2, DeregisterIs
<1>5. z \in Steps /\ z \notin {"take", "shift", "count", "close"} /\ z # "take" /\ z # "closing"
  BY DEF Steps
<1>6. ItemTypes'
  <2>1. mem' \in [Threads -> I!Structs \cup {None}]
    BY <1>2 DEF ItemInv, ItemTypes
  <2>2. step' \in [Threads -> Steps]
    BY <1>4, <1>5, ItemFacts
  <2>3. QED
    BY <1>1, <1>3, <2>1, <2>2 DEF ItemInv, ItemTypes, Items, Steps, I!Structs, I!Places
<1>7. Alone'
  <2>1. ~ I!Locked => \A u \in Threads : u # t => step[u] = "idle"
    BY <1>1 DEF I!Sole
  <2>2. QED
    BY <1>1, <1>4, <1>5, <2>1, AloneNext DEF ItemInv
<1>8. SlotsInv'
  <2>1. step'[t] = z /\ \A u \in Threads : u # t => step'[u] = step[u] /\ mem'[u] = mem[u]
    BY <1>2, <1>4 DEF ItemInv, ItemTypes
  <2>2. ~ Writes(t) /\ ~ Writes(t)'
    BY <1>1, <1>5, <2>1 DEF Writes
  <2>3. \A u \in Threads : Writes(u)' <=> Writes(u)
    BY <2>1, <2>2 DEF Writes
  <2>4. \A u \in Threads : Writes(u) => step'[u] = step[u] /\ mem'[u] = mem[u]
    BY <2>1, <2>2
  <2>5. QED
    BY <1>1, <1>3, <2>3, <2>4, SlotsFrame, ItemFacts DEF ItemInv
<1>9. SearchInv'
  BY <1>1, <1>3, SearchSame
<1>10. QED
  BY <1>6, <1>7, <1>8, <1>9 DEF ItemInv

\* The place of an item in the array is the first that holds it.
LEMMA PositionIs ==
  ASSUME ItemBounds, ItemInv, NEW x
  PROVE  /\ I!Position(x) \in 0 .. count
         /\ I!Position(x) < count => ptr[I!Position(x)] = x
<1> DEFINE Hit(i) == i = count \/ ptr[i] = x
           T == {i \in 0 .. count : Hit(i)}
<1>1. T \in SUBSET Nat /\ T # {} /\ count \in Nat
  BY ItemFacts
<1>2. \E i \in T : \A j \in T : i <= j
  <2> HIDE DEF T
  <2> QED BY <1>1, LeastNumber
<1>3. \E i \in 0 .. count : (i = count \/ ptr[i] = x) /\ \A j \in 0 .. i - 1 : ptr[j] # x
  BY <1>1, <1>2
<1>4. QED
  BY <1>1, <1>3 DEF I!Position

LEMMA FindInv ==
  ASSUME ItemBounds, ItemInv, NEW t \in Threads, I!Find(t)
  PROVE  ItemInv'
<1> DEFINE f == I!Position(mem[t])
           z == IF f < count THEN "close" ELSE "kept"
<1>1. /\ step[t] = "free" /\ lock = None /\ lock' = IF I!Locked THEN t ELSE None
      /\ at' = [at EXCEPT ![t] = f] /\ step' = [step EXCEPT ![t] = z]
      /\ UNCHANGED <<kind, ptr, count, struct, mem, name, goal, handles, closing, search, wanted,
                     looking, found, disturbed>>
  BY DEF I!Find, I!Lock, I!Go, I!listVars, I!searchVars
<1>2. f \in 0 .. count /\ (f < count => ptr[f] = mem[t])
  BY PositionIs
<1>3. \A u \in Threads : ~ Busy(u)
  <2>1. CASE I!Locked
    BY <1>1, <2>1, ItemFacts DEF ItemInv, Alone
  <2>2. CASE ~ I!Locked
    BY <1>1, <2>2 DEF ItemInv, Alone, Busy
  <2>3. QED
    BY <2>1, <2>2
<1>4. \A u \in Threads : ~ Writes(u)
  BY <1>3 DEF Busy, Writes
<1>5. Still(ptr, struct, handles, closing = None, count)
  BY <1>4, NoneWrites DEF ItemInv
<1>6. f < count => Closing(ptr, struct, handles, closing = None, count, mem[t], f)
  BY <1>2, <1>5, ClosingBegins, ItemFacts
<1>7. at'[t] = f /\ at' \in [Threads -> Int]
  BY <1>1, <1>2 DEF ItemInv, ItemTypes
<1>8. /\ z \in Steps /\ z \notin {"take", "shift", "count", "free"} /\ z # "shift" /\ z # "count"
      /\ z # "take" /\ z # "idle" /\ z # "closing" /\ (z = "close" <=> f < count)
  BY DEF Steps
<1> HIDE DEF f, z
<1>9. ItemTypes'
  <2>1. step' \in [Threads -> Steps] /\ lock' \in Threads \cup {None}
    BY <1>1, <1>8, ItemFacts
  <2>2. QED
    BY <1>1, <1>7, <2>1 DEF ItemInv, ItemTypes, Items, Steps, I!Structs, I!Places
<1>10. Alone'
  <2>1. closing # None => t = closing /\ count > 0
    BY <1>1, ItemFacts DEF ItemInv, Alone
  <2>2. QED
    BY <1>1, <1>8, <2>1, AloneNext DEF ItemInv
<1>11. SlotsInv'
  <2>1. z = "close" => Closing(ptr', struct', handles', closing' = None, count', mem'[t], at'[t])
    BY <1>1, <1>6, <1>7, <1>8
  <2>2. Still(ptr', struct', handles', closing' = None, count')
    BY <1>1, <1>5
  <2>3. QED
    BY <1>1, <1>4, <1>8, <2>1, <2>2, SlotsNext DEF ItemInv
<1>12. SearchInv'
  BY <1>1, SearchFrame, ItemFacts DEF ItemInv
<1>13. QED
  BY <1>9, <1>10, <1>11, <1>12 DEF ItemInv

LEMMA CloseUpInv ==
  ASSUME ItemBounds, ItemInv, NEW t \in Threads, I!CloseUp(t)
  PROVE  ItemInv'
<1>1. /\ step[t] = "close" /\ at[t] < count - 1
      /\ ptr' = [ptr EXCEPT ![at[t]] = ptr[at[t] + 1]] /\ at' = [at EXCEPT ![t] = at[t] + 1]
      /\ disturbed' = (disturbed \/ search # "idle")
      /\ UNCHANGED <<kind, count, struct, lock, step, mem, name, goal, handles, closing,
                     search, wanted, looking, found>>
  BY DEF I!CloseUp, I!Disturb, I!searchVars
<1>2. Closing(ptr, struct, handles, closing = None, count, mem[t], at[t])
  BY <1>1 DEF ItemInv, SlotsInv
<1>3. Busy(t) /\ at[t] \in Int
  BY <1>1 DEF Busy, ItemInv, ItemTypes
<1>4. \A u \in Threads : u # t => ~ Writes(u)
  BY <1>3, AtList
<1>5. Closing(ptr', struct, handles, closing = None, count, mem[t], at[t] + 1)
  BY <1>1, <1>2, <1>3, ClosingGoesOn, ItemFacts
<1>6. step' = [step EXCEPT ![t] = "close"] /\ at'[t] = at[t] + 1
  BY <1>1 DEF ItemInv, ItemTypes
<1>7. ItemTypes'
  <2>1. at[t] \in I!Places /\ at[t] + 1 \in I!Places
    BY <1>1, <1>2, <1>3, ItemFacts DEF Closing, I!Places
  <2>2. ptr' \in Arrays
    BY <1>1, <2>1, ItemFacts DEF Arrays
  <2>3. at' \in [Threads -> Int]
    BY <1>1, <1>3 DEF ItemInv, ItemTypes
  <2>4. QED
    BY <1>1, <2>2, <2>3 DEF ItemInv, ItemTypes, Items, I!Structs, I!Places, Arrays
<1>8. Alone'
  BY <1>1 DEF ItemInv, Alone, Busy, I!Locked
<1>9. SlotsInv'
  <2> DEFINE z == "close"
  <2>1. /\ step' = [step EXCEPT ![t] = z] /\ z \notin {"count", "shift"} /\ z = "close"
        /\ Closing(ptr', struct', handles', closing' = None, count', mem'[t], at'[t])
    BY <1>1, <1>5, <1>6
  <2> HIDE DEF z
  <2>2. QED
    BY <1>4, <2>1, SlotsNext DEF ItemInv
<1>10. SearchInv'
  BY <1>1, SearchFrame, ItemFacts DEF ItemInv
<1>11. QED
  BY <1>7, <1>8, <1>9, <1>10 DEF ItemInv

LEMMA ReleaseInv ==
  ASSUME ItemBounds, ItemInv, NEW t \in Threads, I!Release(t)
  PROVE  ItemInv'
<1> DEFINE v == IF handles[mem[t]] > 0 THEN handles[mem[t]] - 1 ELSE 0
<1>1. /\ step[t] = "close" /\ at[t] = count - 1 /\ count' = count - 1 /\ I!Return(t)
      /\ ptr' = [ptr EXCEPT ![count - 1] = IF mem[t] \in BuiltIn THEN mem[t] ELSE None]
      /\ struct' = [struct EXCEPT ![mem[t]] = I!Zeroed]
      /\ handles' = [handles EXCEPT ![mem[t]] = v]
      /\ disturbed' = (disturbed \/ search # "idle")
      /\ UNCHANGED <<kind, closing, search, wanted, looking, found>>
  BY DEF I!Release, I!Disturb, I!searchVars
<1>2. Closing(ptr, struct, handles, closing = None, count, mem[t], count - 1)
  BY <1>1 DEF ItemInv, SlotsInv
<1>3. Busy(t)
  BY <1>1 DEF Busy
<1>4. \A u \in Threads : u # t => ~ Writes(u)
  BY <1>3, AtList
<1>5. mem[t] \in I!Structs /\ 0 <= count - 1
  BY <1>2 DEF Closing
<1>6. v \in Nat
  BY <1>5, ItemFacts
<1> HIDE DEF v
<1>7. Still(ptr', struct', handles', closing = None, count - 1)
  BY <1>1, <1>2, <1>6, ClosingEnds, ItemFacts
<1>8. ItemTypes'
  <2>1. I!Zeroed \in Items
    BY DEF I!Zeroed, Items, States
  <2>2. struct' \in [I!Structs -> Items] /\ handles' \in [I!Structs -> Nat]
    BY <1>1, <1>5, <1>6, <2>1, ItemFacts
  <2>3. count - 1 \in I!Places /\ count' \in 0 .. Max
    BY <1>1, <1>5, ItemFacts DEF I!Places
  <2>4. ptr' \in Arrays
    BY <1>1, <1>5, <2>3, ItemFacts DEF Arrays
  <2>5. QED
    BY <1>1, <2>2, <2>3, <2>4, ReturnTypes
    DEF ItemInv, ItemTypes, Items, Steps, I!Structs, I!Places, Arrays
<1>9. Alone'
  BY <1>1, ReturnAlone
<1>10. SlotsInv'
  <2> DEFINE z == IF closing = t THEN "closing" ELSE "idle"
  <2>1. /\ step' = [step EXCEPT ![t] = z] /\ z \notin {"shift", "count", "close"}
        /\ z # "shift" /\ z # "count" /\ z # "close"
    BY <1>1 DEF I!Return, I!Go
  <2> HIDE DEF z
  <2>2. Still(ptr', struct', handles', closing' = None, count')
    BY <1>1, <1>7
  <2>3. QED
    BY <1>4, <2>1, <2>2, SlotsNext DEF ItemInv
<1>11. SearchInv'
  BY <1>1, SearchFrame, ItemFacts DEF ItemInv
<1>12. QED
  BY <1>8, <1>9, <1>10, <1>11 DEF ItemInv

LEMMA KeptInv ==
  ASSUME ItemBounds, ItemInv, NEW t \in Threads, I!Kept(t)
  PROVE  ItemInv'
<1>1. /\ step[t] = "kept" /\ I!Return(t)
      /\ count' = IF closing = t THEN count - 1 ELSE count
      /\ disturbed' = (disturbed \/ (search # "idle" /\ closing = t))
      /\ UNCHANGED <<kind, ptr, struct, handles, closing, search, wanted, looking, found>>
  BY DEF I!Kept, I!searchVars
<1>2. closing = t => count > 0
  BY <1>1, ItemFacts DEF ItemInv, Alone
<1>3. ItemTypes'
  <2>1. count' \in 0 .. Max
    BY <1>1, <1>2, ItemFacts
  <2>2. QED
    BY <1>1, <2>1, ReturnTypes DEF ItemInv, ItemTypes, Items, Steps, I!Structs, I!Places
<1>4. Alone'
  BY <1>1, ReturnAlone
<1>5. CASE closing = t
  <2>1. \A u \in Threads : u # t => ~ Writes(u)
    BY <1>5, ItemFacts DEF ItemInv, Alone, Writes
  <2>2. \A u \in Threads : ~ Writes(u)
    BY <1>1, <2>1 DEF Writes
  <2>3. Still(ptr, struct, handles, closing = None, count)
    BY <2>2, NoneWrites DEF ItemInv
  <2>4. Still(ptr', struct', handles', closing' = None, count')
    <3>1. ~ (closing = None) /\ count' = count - 1
      BY <1>1, <1>5, ItemFacts
    <3>2. Still(ptr, struct, handles, closing = None, count - 1)
      BY <1>2, <1>5, <2>3, <3>1, LastLeft, ItemFacts
    <3>3. QED
      BY <1>1, <3>1, <3>2
  <2> DEFINE z == IF closing = t THEN "closing" ELSE "idle"
  <2>5. /\ step' = [step EXCEPT ![t] = z] /\ z \notin {"shift", "count", "close"}
        /\ z # "shift" /\ z # "count" /\ z # "close"
    BY <1>1 DEF I!Return, I!Go
  <2> HIDE DEF z
  <2>6. SlotsInv'
    BY <2>1, <2>4, <2>5, SlotsNext DEF ItemInv
  <2>7. search = "idle" \/ disturbed'
    <3>1. disturbed' = (disturbed \/ (search # "idle" /\ closing = t))
      BY <1>1
    <3>2. QED
      BY <1>5, <3>1, Zenon
  <2>8. SearchInv'
    BY <1>1, <2>7 DEF SearchInv
  <2>9. QED
    BY <1>3, <1>4, <2>6, <2>8 DEF ItemInv
<1>6. CASE closing # t
  <2>1. \A u \in Threads : Writes(u)' <=> Writes(u)
    <3>1. ~ Writes(t) /\ ~ Writes(t)'
      BY <1>1 DEF ItemInv, ItemTypes, Writes, I!Return, I!Go
    <3>2. \A u \in Threads : u # t => (Writes(u)' <=> Writes(u))
      BY <1>1, ReturnTypes DEF ItemInv, Writes
    <3>3. QED
      BY <3>1, <3>2
  <2>2. \A u \in Threads : Writes(u) =>
          /\ step'[u] = step[u] /\ mem'[u] = mem[u] /\ name'[u] = name[u]
          /\ at'[u] = at[u] /\ goal'[u] = goal[u]
    <3>1. ~ Writes(t)
      BY <1>1 DEF Writes
    <3>2. QED
      BY <1>1, <3>1, ReturnTypes DEF ItemInv
  <2>3. SameNames(struct, struct') /\ count' = count
    BY <1>1, <1>6 DEF SameNames
  <2>4. SlotsInv'
    BY <1>1, <2>1, <2>2, <2>3, SlotsFrame, ItemFacts DEF ItemInv
  <2>5. disturbed' <=> disturbed
    <3>1. disturbed' = (disturbed \/ (search # "idle" /\ closing = t))
      BY <1>1
    <3>2. QED
      BY <1>6, <3>1, Zenon
  <2>6. SearchInv'
    BY <1>1, <2>3, <2>5 DEF ItemInv, SearchInv, I!Structs
  <2>7. QED
    BY <1>3, <1>4, <2>4, <2>6 DEF ItemInv
<1>7. QED
  BY <1>5, <1>6

LEMMA TerminateInv ==
  ASSUME ItemBounds, ItemInv, NEW t \in Threads, I!Terminate(t)
  PROVE  ItemInv'
<1>1. /\ closing = None /\ (\A u \in Threads : step[u] = "idle")
      /\ closing' = t /\ step' = [step EXCEPT ![t] = "closing"]
      /\ UNCHANGED <<kind, ptr, count, struct, lock, mem, name, at, goal, handles, search, wanted,
                     looking, found, disturbed>>
  BY DEF I!Terminate, I!Go, I!listVars, I!searchVars
<1>2. step'[t] = "closing" /\ \A u \in Threads : u # t => step'[u] = "idle"
  BY <1>1 DEF ItemInv, ItemTypes
<1>3. ItemTypes'
  <2>1. step' \in [Threads -> Steps]
    BY <1>1, ItemFacts DEF Steps
  <2>2. QED
    BY <1>1, <2>1 DEF ItemInv, ItemTypes, Items, Steps, I!Structs, I!Places
<1>4. Alone'
  BY <1>1, <1>2 DEF Alone, Busy
<1>5. SlotsInv'
  <2>1. \A u \in Threads : ~ Writes(u)
    BY <1>1 DEF Writes
  <2>2. Still(ptr, struct, handles, closing = None, count)
    BY <2>1, NoneWrites DEF ItemInv
  <2>3. Still(ptr, struct, handles, closing' = None, count)
    BY <1>1, <2>2 DEF Still, Layout, Behind, Listed
  <2> DEFINE z == "closing"
  <2>4. /\ step' = [step EXCEPT ![t] = z] /\ z \notin {"shift", "count", "close"}
        /\ z # "shift" /\ z # "count" /\ z # "close"
    BY <1>1
  <2> HIDE DEF z
  <2>5. Still(ptr', struct', handles', closing' = None, count')
    BY <1>1, <2>3
  <2>6. QED
    BY <2>1, <2>4, <2>5, SlotsNext DEF ItemInv
<1>6. SearchInv'
  BY <1>1, SearchFrame, ItemFacts DEF ItemInv
<1>7. QED
  BY <1>3, <1>4, <1>5, <1>6 DEF ItemInv

LEMMA FreeLastInv ==
  ASSUME ItemBounds, ItemInv, NEW t \in Threads, I!FreeLast(t)
  PROVE  ItemInv'
<1>1. /\ step[t] = "closing" /\ count > 0 /\ I!Deregister(t, ptr[count - 1])
      /\ mem' = [mem EXCEPT ![t] = ptr[count - 1]]
      /\ UNCHANGED <<kind, ptr, count, lock, name, at, goal, handles, closing, search, wanted,
                     looking, found, disturbed>>
  BY DEF I!FreeLast, I!searchVars
<1>2. closing = t /\ \A u \in Threads : u # t => step[u] = "idle"
  BY <1>1, ItemFacts DEF ItemInv, Alone
<1>3. \A u \in Threads : ~ Writes(u)
  BY <1>1, <1>2 DEF Writes
<1>4. Still(ptr, struct, handles, closing = None, count)
  BY <1>3, NoneWrites DEF ItemInv
<1>5. ptr[count - 1] \in I!Structs
  <2>1. count - 1 \in 0 .. count - 1 /\ count - 1 # -1
    BY <1>1, ItemFacts
  <2>2. QED
    BY <1>4, <2>1 DEF Still, Layout, InUse
<1>6. struct' \in [I!Structs -> Items] /\ SameNames(struct, struct')
  BY <1>1, <1>5, DeregisterIs
<1>7. PICK z \in {"free", "kept"} : step' = [step EXCEPT ![t] = z]
  BY <1>1, <1>5, DeregisterIs
<1>8. z \in Steps /\ z \notin {"take", "shift", "count", "close"} /\ z # "take" /\ z # "closing"
  BY DEF Steps
<1>9. ItemTypes'
  <2>1. mem' \in [Threads -> I!Structs \cup {None}]
    BY <1>1, <1>5 DEF ItemInv, ItemTypes
  <2>2. step' \in [Threads -> Steps]
    BY <1>7, <1>8, ItemFacts
  <2>3. QED
    BY <1>1, <1>6, <2>1, <2>2 DEF ItemInv, ItemTypes, Items, Steps, I!Structs, I!Places
<1>10. Alone'
  <2>1. ~ I!Locked => step[t] # "idle"
    BY <1>1
  <2>2. QED
    BY <1>1, <1>2, <1>7, <1>8, <2>1, AloneNext DEF ItemInv
<1>11. SlotsInv'
  <2>1. step'[t] = z /\ \A u \in Threads : u # t => step'[u] = step[u] /\ mem'[u] = mem[u]
    BY <1>1, <1>7 DEF ItemInv, ItemTypes
  <2>2. ~ Writes(t)'
    BY <1>8, <2>1 DEF Writes
  <2>3. \A u \in Threads : Writes(u)' <=> Writes(u)
    BY <1>3, <2>1, <2>2 DEF Writes
  <2>4. QED
    BY <1>1, <1>3, <1>6, <2>3, SlotsFrame, ItemFacts DEF ItemInv
<1>12. SearchInv'
  BY <1>1, <1>6, SearchSame
<1>13. QED
  BY <1>9, <1>10, <1>11, <1>12 DEF ItemInv

\* What a thread of the application does, and a step of none of the list.
LEMMA QuietInv ==
  ASSUME ItemBounds, ItemInv,
         UNCHANGED <<kind, ptr, count, struct, lock, step, mem, name, at, goal, handles, closing>>,
         SearchInv'
  PROVE  ItemInv'
<1>1. ItemTypes'
  BY DEF ItemInv, ItemTypes, Items, I!Structs, I!Places
<1>2. Alone'
  BY DEF ItemInv, Alone, Busy, I!Locked
<1>3. SlotsInv'
  <2>1. \A u \in Threads : Writes(u)' <=> Writes(u)
    BY DEF Writes
  <2>2. SameNames(struct, struct')
    BY DEF SameNames
  <2>3. QED
    BY <2>1, <2>2, SlotsFrame, ItemFacts DEF ItemInv
<1>4. QED
  BY <1>1, <1>2, <1>3 DEF ItemInv

ListKept == UNCHANGED <<kind, ptr, count, struct, lock, step, mem, name, at, goal, handles, closing>>

LEMMA BeginSearchInv ==
  ASSUME ItemBounds, ItemInv, I!BeginSearch
  PROVE  ItemInv'
<1>1. /\ ListKept /\ kind = "action" /\ search' = "read" /\ looking' = 0
      /\ disturbed' = \E t \in Threads : step[t] \in {"shift", "count", "close"}
  BY DEF I!BeginSearch, ListKept, I!listVars, I!threadVars
<1>2. SearchInv'
  <2> SUFFICES ASSUME ~ disturbed' PROVE SearchInv'
    BY DEF SearchInv
  <2>1. \A t \in Threads : ~ Writes(t)
    <3>1. ~ \E t \in Threads : step[t] \in {"shift", "count", "close"}
      BY <1>1, Zenon
    <3>2. QED
      BY <3>1 DEF Writes
  <2>2. Still(ptr, struct, handles, closing = None, count)
    BY <2>1, NoneWrites DEF ItemInv
  <2>3. \A i \in 0 .. count - 1 : ptr[i] \in I!Structs /\ struct[ptr[i]].name \in Names
    BY <2>2 DEF Still, Layout, InUse
  <2>4. \A i \in 0 .. looking' - 1 : FALSE
    BY <1>1
  <2>5. QED
    BY <1>1, <2>3, <2>4 DEF SearchInv, ListKept, I!Structs
<1>3. QED
  BY <1>1, <1>2, QuietInv DEF ListKept

LEMMA ReadEntryInv ==
  ASSUME ItemBounds, ItemInv, I!ReadEntry
  PROVE  ItemInv'
<1>1. /\ ListKept /\ search = "read" /\ looking < count /\ found' = ptr[looking]
      /\ search' = IF ptr[looking] = None THEN "read" ELSE "compare"
      /\ looking' = IF ptr[looking] = None THEN looking + 1 ELSE looking
      /\ UNCHANGED <<wanted, disturbed>>
  BY DEF I!ReadEntry, ListKept, I!listVars, I!threadVars
<1>2. SearchInv'
  <2> SUFFICES ASSUME ~ disturbed PROVE SearchInv'
    BY <1>1 DEF SearchInv
  <2>1. /\ kind = "action" /\ looking \in Nat
        /\ \A i \in 0 .. count - 1 : ptr[i] \in I!Structs /\ struct[ptr[i]].name \in Names
        /\ \A i \in 0 .. looking - 1 : i < count => struct[ptr[i]].name # wanted
    BY <1>1 DEF ItemInv, SearchInv
  <2>2. ptr[looking] # None
    BY <1>1, <2>1, ItemFacts
  <2>3. QED
    BY <1>1, <2>1, <2>2 DEF SearchInv, ListKept, I!Structs
<1>3. QED
  BY <1>1, <1>2, QuietInv DEF ListKept

LEMMA CompareInv ==
  ASSUME ItemBounds, ItemInv, I!Compare
  PROVE  ItemInv'
<1>1. ListKept /\ search = "compare" /\ UNCHANGED <<wanted, disturbed>>
  BY DEF I!Compare, ListKept, I!listVars, I!threadVars
<1>2. PICK same \in IF found \in Heap /\ struct[found].name = 0 THEN BOOLEAN
                    ELSE {struct[found].name \in {0, wanted}} :
        /\ search' = IF same THEN "picked" ELSE "read"
        /\ found' = IF same THEN found ELSE None
        /\ looking' = IF same THEN looking ELSE looking + 1
  BY DEF I!Compare
<1>3. SearchInv'
  <2> SUFFICES ASSUME ~ disturbed PROVE SearchInv'
    BY <1>1 DEF SearchInv
  <2>1. /\ kind = "action" /\ looking \in Nat
        /\ \A i \in 0 .. count - 1 : ptr[i] \in I!Structs /\ struct[ptr[i]].name \in Names
        /\ \A i \in 0 .. looking - 1 : i < count => struct[ptr[i]].name # wanted
        /\ looking < count /\ found = ptr[looking]
    BY <1>1 DEF ItemInv, SearchInv
  <2>2. found \in I!Structs /\ struct[found].name \in Names /\ struct[found].name # 0
    BY <2>1, ItemFacts DEF ItemBounds
  <2>3. same = (struct[found].name \in {0, wanted})
    BY <1>2, <2>2
  <2>4. same <=> struct[found].name = wanted
    BY <2>2, <2>3, Zenon
  <2>5. CASE same
    <3>1. search' = "picked" /\ found' = found /\ looking' = looking /\ found # None
      BY <1>2, <2>2, <2>5, ItemFacts
    <3>2. QED
      BY <1>1, <2>1, <2>4, <2>5, <3>1 DEF SearchInv, ListKept, I!Structs
  <2>6. CASE ~ same
    <3>1. search' = "read" /\ looking' = looking + 1
      BY <1>2, <2>6
    <3>2. \A i \in 0 .. looking' - 1 : i < count => struct[ptr[i]].name # wanted
      <4>1. \A i \in 0 .. looking' - 1 : i \in 0 .. looking - 1 \/ i = looking
        BY <2>1, <3>1
      <4>2. QED
        BY <2>1, <2>4, <2>6, <4>1
    <3>3. looking' \in Nat
      BY <2>1, <3>1
    <3>4. QED
      BY <1>1, <2>1, <3>1, <3>2, <3>3 DEF SearchInv, ListKept, I!Structs
  <2>7. QED
    BY <2>5, <2>6
<1>4. QED
  BY <1>1, <1>3, QuietInv DEF ListKept

LEMMA SearchEndsInv ==
  ASSUME ItemBounds, ItemInv, I!NotFound \/ I!EndSearch
  PROVE  ItemInv'
<1>1. ListKept
  BY DEF I!NotFound, I!EndSearch, ListKept, I!listVars, I!threadVars
<1>2. CASE I!NotFound
  <2>1. /\ search = "read" /\ looking >= count /\ search' = "picked" /\ found' = None
        /\ UNCHANGED <<wanted, looking, disturbed>>
    BY <1>2 DEF I!NotFound
  <2>2. SearchInv'
    BY <1>1, <2>1 DEF ItemInv, SearchInv, ListKept, I!Structs
  <2>3. QED
    BY <1>1, <2>2, QuietInv DEF ListKept
<1>3. CASE I!EndSearch
  <2>1. SearchInv'
    BY <1>3 DEF I!EndSearch, SearchInv
  <2>2. QED
    BY <1>1, <2>1, QuietInv DEF ListKept
<1>4. QED
  BY <1>2, <1>3

LEMMA ItemNext == ItemBounds /\ ItemInv /\ [I!Next]_(I!vars) => ItemInv'
<1> SUFFICES ASSUME ItemBounds, ItemInv, [I!Next]_(I!vars) PROVE ItemInv'
  OBVIOUS
<1>1. ASSUME NEW t \in Threads, I!Allocating(t) PROVE ItemInv'
  BY <1>1, AllocateInv, NoRoomInv, TakeStructInv, NameFailsInv, ShiftInv, InsertInv, CountInv
  DEF I!Allocating
<1>2. ASSUME NEW t \in Threads, I!Freeing(t) PROVE ItemInv'
  BY <1>2, FreeInv, FindInv, CloseUpInv, ReleaseInv, KeptInv DEF I!Freeing
<1>3. ASSUME NEW t \in Threads, I!Register(t) \/ I!Terminate(t) \/ I!FreeLast(t) PROVE ItemInv'
  BY <1>3, RegisterInv, TerminateInv, FreeLastInv
<1>4. CASE I!Worker
  BY <1>4, BeginSearchInv, ReadEntryInv, CompareInv, SearchEndsInv DEF I!Worker
<1>5. CASE UNCHANGED I!vars
  <2>1. /\ ListKept /\ UNCHANGED <<search, wanted, looking, found, disturbed>>
    BY <1>5 DEF I!vars, I!listVars, I!threadVars, I!searchVars, ListKept
  <2>2. SearchInv'
    BY <2>1, SearchFrame, ItemFacts DEF ItemInv, ListKept
  <2>3. QED
    BY <2>1, <2>2, QuietInv DEF ListKept
<1>6. QED
  BY <1>1, <1>2, <1>3, <1>4, <1>5 DEF I!Next

LEMMA SlotsOfInv == ItemBounds /\ ItemInv => SlotsKept
<1> SUFFICES ASSUME ItemBounds, ItemInv, I!Quiet
             PROVE
    /\ \A b \in BuiltIn : I!Cardinality({i \in I!Places : ptr[i] = b}) = 1
    /\ \A i, j \in 0 .. count - 1 :
         i < j => ptr[i] # ptr[j] /\ struct[ptr[i]].name <= struct[ptr[j]].name
    /\ \A s \in I!Live : struct[s].lib /\ (closing = None => handles[s] > 0)
    /\ closing = None => \A s \in I!Structs : struct[s].lib => s \in I!Live
  BY DEF SlotsKept, I!SlotsKept
<1>1. Still(ptr, struct, handles, closing = None, count)
  <2>1. \A t \in Threads : ~ Writes(t)
    BY DEF I!Quiet, Writes
  <2>2. QED
    BY <2>1, NoneWrites DEF ItemInv
<1>2. /\ InUse(ptr, struct, count, -1) /\ InOrder(ptr, struct, count, -1)
      /\ OnePlace(ptr, -1, None) /\ NoneLost(ptr, -1, None)
      /\ Listed(ptr, struct, count, -1, None, closing = None)
      /\ Held(ptr, handles, count, -1, None)
  BY <1>1 DEF Still, Layout
<1>3. /\ None \notin I!Structs /\ BuiltIn \subseteq I!Structs
      /\ \A i \in 0 .. count - 1 : i \in I!Places /\ i # -1 /\ i \in Int
      /\ \A i \in I!Places : i # -1
  BY ItemFacts DEF I!Structs, I!Places
<1>4. ASSUME NEW b \in BuiltIn PROVE I!Cardinality({i \in I!Places : ptr[i] = b}) = 1
  <2>1. b # None
    BY <1>3
  <2>2. PICK i \in I!Places : ptr[i] = b
    BY <1>2, <2>1 DEF NoneLost
  <2>3. {j \in I!Places : ptr[j] = b} = {i}
    BY <1>2, <1>3, <2>1, <2>2 DEF OnePlace
  <2>4. Cardinality({i}) = 1
    BY FS_Singleton
  <2>5. QED
    BY <2>3, <2>4, SameCardinality
<1>5. \A i \in 0 .. count - 1 : /\ ptr[i] \in I!Structs /\ ptr[i] # None /\ struct[ptr[i]].lib
                                /\ handles[ptr[i]] > 0
  BY <1>2, <1>3 DEF InUse, Held
<1>6. \A i, j \in 0 .. count - 1 :
         i < j => ptr[i] # ptr[j] /\ struct[ptr[i]].name <= struct[ptr[j]].name
  <2> SUFFICES ASSUME NEW i \in 0 .. count - 1, NEW j \in 0 .. count - 1, i < j
               PROVE  ptr[i] # ptr[j] /\ struct[ptr[i]].name <= struct[ptr[j]].name
    OBVIOUS
  <2>1. i # j /\ i \in I!Places /\ j \in I!Places /\ i # -1 /\ j # -1
    BY <1>3
  <2>2. QED
    BY <1>2, <1>5, <2>1 DEF OnePlace, InOrder
<1>7. \A s \in I!Live : struct[s].lib /\ handles[s] > 0
  BY <1>5 DEF I!Live
<1>8. closing = None => \A s \in I!Structs : struct[s].lib => s \in I!Live
  BY <1>2, <1>3 DEF Listed, I!Live
<1>9. QED
  BY <1>4, <1>6, <1>7, <1>8

LEMMA SearchOfInv == ItemBounds /\ ItemInv => SearchRight
<1> SUFFICES ASSUME ItemBounds, ItemInv, search = "picked", ~ disturbed
             PROVE  LET Matches == {i \in 0 .. count - 1 : struct[ptr[i]].name = wanted}
                    IN  IF found = None THEN Matches = {}
                        ELSE \E i \in Matches : ptr[i] = found /\ \A j \in Matches : i <= j
  BY DEF SearchRight, I!SearchRight
<1> DEFINE Matches == {i \in 0 .. count - 1 : struct[ptr[i]].name = wanted}
<1>1. /\ looking \in Nat /\ count \in Nat
      /\ \A i \in 0 .. looking - 1 : i < count => struct[ptr[i]].name # wanted
      /\ IF found = None THEN looking >= count
         ELSE looking < count /\ found = ptr[looking] /\ struct[found].name = wanted
  BY ItemFacts DEF ItemInv, SearchInv
<1>2. \A i \in Matches : i >= looking /\ i < count
  <2> SUFFICES ASSUME NEW i \in 0 .. count - 1, struct[ptr[i]].name = wanted
               PROVE  i >= looking /\ i < count
    OBVIOUS
  <2>1. i \notin 0 .. looking - 1 /\ i < count
    BY <1>1
  <2>2. QED
    BY <1>1, <2>1
<1>3. CASE found = None
  BY <1>1, <1>2, <1>3
<1>4. CASE found # None
  <2>1. looking \in Matches /\ ptr[looking] = found
    BY <1>1, <1>4
  <2>2. QED
    BY <1>2, <1>4, <2>1
<1>5. QED
  BY <1>3, <1>4

(* Whatever is allocated, freed and refused in whatever order, by any number *)
(* of threads: no structure of the library is lost or in two places, the     *)
(* items in use stand in the order that the search by halving needs, and the *)
(* list and the application agree on what is in it.                          *)
THEOREM SlotsAreKept ==
  ASSUME ItemBounds
  PROVE  I!Spec => []SlotsKept
<1>1. I!Init => ItemInv
  BY ItemInit
<1>2. ItemInv /\ [I!Next]_(I!vars) => ItemInv'
  BY ItemNext
<1>3. ItemInv => SlotsKept
  BY SlotsOfInv
<1>4. QED
  BY <1>1, <1>2, <1>3, PTL DEF I!Spec

(* A worker whose search no change of the list has met picks the first       *)
(* action of the name of its request, and finds none only when there is none *)
(* (iot_action_process, which takes no lock).                                *)
THEOREM SearchIsRight ==
  ASSUME ItemBounds
  PROVE  I!Spec => []SearchRight
<1>1. I!Init => ItemInv
  BY ItemInit
<1>2. ItemInv /\ [I!Next]_(I!vars) => ItemInv'
  BY ItemNext
<1>3. ItemInv => SearchRight
  BY SearchOfInv
<1>4. QED
  BY <1>1, <1>2, <1>3, PTL DEF I!Spec
-----------------------------------------------------------------------------
(***************************************************************************)
(* The samples.  The time of one goes from time_stamp to the message of    *)
(* the thread that has the mutex, from there to samples, and is then taken *)
(* out of time_stamp: on each part of that way it is later than what has   *)
(* been sent, but for the one that is about to be taken out.               *)
(***************************************************************************)
Sent == {[command |-> Command(d), key |-> t, ts |-> n, members |-> Located(d)] :
            d \in Data, t \in Telemetry, n \in Nat}

Types ==
  /\ time_stamp \in [Telemetry -> Nat] /\ times \in Nat
  /\ telemetry_mutex \in Callers \cup {NoCaller}
  /\ pc \in [Callers -> {"idle", "build", "publish", "reset", "unlock"}]
  /\ item \in [Callers -> Telemetry] /\ data \in [Callers -> Data]
  /\ msg \in [Callers -> Sent \cup {NoMessage}]
  /\ samples \in Seq(Sent)

HolderAlone == \A c \in Callers : pc[c] # "idle" => telemetry_mutex = c

TimesPassed ==
  /\ \A t \in Telemetry : time_stamp[t] <= times
  /\ \A n \in 1 .. Len(samples) : samples[n].ts <= times

StampIsNew ==
  \A t \in Telemetry, n \in 1 .. Len(samples) :
    samples[n].key = t /\ time_stamp[t] # 0 =>
      \/ samples[n].ts < time_stamp[t]
      \/ \E c \in Callers : pc[c] = "reset" /\ item[c] = t

MessageIsNew ==
  \A c \in Callers : pc[c] = "publish" =>
    /\ msg[c] \in Sent /\ msg[c].key = item[c] /\ msg[c].ts <= times
    /\ \A n \in 1 .. Len(samples) :
         samples[n].key = item[c] /\ msg[c].ts # 0 => samples[n].ts < msg[c].ts
    /\ time_stamp[item[c]] >= msg[c].ts

IInv == Types /\ HolderAlone /\ TimesPassed /\ StampIsNew /\ MessageIsNew /\ TimesUsedOnce

LEMMA SentFields == \A s \in Sent : s.key \in Telemetry /\ s.ts \in Nat
  BY DEF Sent

LEMMA InitInv ==
  ASSUME Telemetry # {}, Data # {}, Init
  PROVE  IInv
<1>1. Types /\ Len(samples) = 0
  BY DEF Init, Types
<1>2. HolderAlone /\ TimesPassed /\ StampIsNew /\ MessageIsNew /\ TimesUsedOnce
  BY <1>1 DEF Init, HolderAlone, TimesPassed, StampIsNew, MessageIsNew, TimesUsedOnce
<1>3. QED
  BY <1>1, <1>2 DEF IInv

\* iot_telemetry_timestamp_set: the new time is later than any that was sent.
LEMMA SetTimeInv ==
  ASSUME IInv, NEW t \in Telemetry, SetTime(t)
  PROVE  IInv'
<1> USE SentFields DEF IInv, Types, SetTime, threadVars
<1>1. Types'
  OBVIOUS
<1>2. \A n \in 1 .. Len(samples) : samples[n] \in Sent
  OBVIOUS
<1>3. HolderAlone'
  BY DEF HolderAlone
<1>4. TimesPassed'
  BY <1>2 DEF TimesPassed
<1>5. StampIsNew'
  BY <1>2 DEF StampIsNew, TimesPassed
<1>6. MessageIsNew'
  BY <1>2 DEF MessageIsNew, TimesPassed
<1>7. TimesUsedOnce'
  BY DEF TimesUsedOnce
<1>8. QED
  BY <1>1, <1>3, <1>4, <1>5, <1>6, <1>7

LEMMA BeginInv ==
  ASSUME NoCaller \notin Callers, IInv, NEW c \in Callers, NEW t \in Telemetry,
         NEW d \in Data, Begin(c, t, d)
  PROVE  IInv'
<1> USE DEF IInv, Types, Begin
<1>1. \A a \in Callers : pc[a] = "idle"
  BY DEF HolderAlone
<1>2. Types'
  OBVIOUS
<1>3. HolderAlone'
  BY <1>1 DEF HolderAlone
<1>4. TimesPassed'
  BY DEF TimesPassed
<1>5. StampIsNew'
  BY <1>1 DEF StampIsNew
<1>6. MessageIsNew'
  BY <1>1 DEF MessageIsNew
<1>7. TimesUsedOnce'
  BY DEF TimesUsedOnce
<1>8. QED
  BY <1>2, <1>3, <1>4, <1>5, <1>6, <1>7

\* tr50_telemetry_publish builds the message: no other thread is about to take a
\* time out, so the one it reads is new.
LEMMA BuildInv ==
  ASSUME IInv, NEW c \in Callers, Build(c)
  PROVE  IInv'
<1> USE SentFields DEF IInv, Types
<1>1. \A a \in Callers : a # c => pc[a] = "idle"
  BY DEF HolderAlone, Build
<1>2. pc[c] = "build" /\ item[c] \in Telemetry /\ data[c] \in Data /\ time_stamp[item[c]] \in Nat
  BY DEF Build
<1>3. UNCHANGED <<time_stamp, telemetry_mutex, item, data, samples, times>>
  BY DEF Build
<1>4. \A n \in 1 .. Len(samples) : samples[n] \in Sent
  OBVIOUS
<1>5. CASE data[c].has_value
  <2> DEFINE new == [command |-> Command(data[c]), key |-> item[c], ts |-> time_stamp[item[c]],
                     members |-> Located(data[c])]
  <2>1. new \in Sent /\ new.key = item[c] /\ new.ts = time_stamp[item[c]]
    BY <1>2 DEF Sent
  <2>2. msg' = [msg EXCEPT ![c] = new] /\ pc' = [pc EXCEPT ![c] = "publish"]
    BY <1>5 DEF Build
  <2> HIDE DEF new
  <2>3. Types' /\ HolderAlone'
    BY <2>1, <2>2, <1>2, <1>3 DEF HolderAlone
  <2>4. TimesPassed' /\ TimesUsedOnce'
    BY <1>3 DEF TimesPassed, TimesUsedOnce
  <2>5. StampIsNew'
    BY <1>1, <1>2, <1>3, <2>2 DEF StampIsNew
  <2>6. MessageIsNew'
    <3>1. \A n \in 1 .. Len(samples) :
            samples[n].key = item[c] /\ time_stamp[item[c]] # 0 =>
              samples[n].ts < time_stamp[item[c]]
      BY <1>1, <1>2 DEF StampIsNew
    <3>2. \A a \in Callers : pc'[a] = "publish" => a = c
      BY <1>1, <2>2
    <3>3. msg'[c] = new /\ time_stamp[item[c]] <= times
      BY <2>2, <1>2 DEF TimesPassed
    <3>4. QED
      BY <1>2, <1>3, <2>1, <3>1, <3>2, <3>3 DEF MessageIsNew
  <2>7. QED
    BY <2>3, <2>4, <2>5, <2>6
<1>6. CASE ~ data[c].has_value
  <2>1. UNCHANGED msg /\ pc' = [pc EXCEPT ![c] = "unlock"]
    BY <1>6 DEF Build
  <2>2. Types' /\ HolderAlone' /\ TimesPassed' /\ TimesUsedOnce'
    BY <2>1, <1>2, <1>3 DEF HolderAlone, TimesPassed, TimesUsedOnce
  <2>3. StampIsNew' /\ MessageIsNew'
    BY <1>1, <1>2, <1>3, <2>1 DEF StampIsNew, MessageIsNew
  <2>4. QED
    BY <2>2, <2>3
<1>7. QED
  BY <1>5, <1>6

\* The message joins those that have been sent, or is dropped.
LEMMA PublishInv ==
  ASSUME IInv, NEW c \in Callers, Publish(c)
  PROVE  IInv'
<1> USE SentFields DEF IInv, Types
<1>1. \A a \in Callers : a # c => pc[a] = "idle"
  BY DEF HolderAlone, Publish
<1>2. /\ pc[c] = "publish" /\ item[c] \in Telemetry /\ time_stamp[item[c]] \in Nat
      /\ msg[c] \in Sent /\ msg[c].key = item[c] /\ msg[c].ts <= times /\ msg[c].ts \in Nat
      /\ time_stamp[item[c]] >= msg[c].ts
      /\ \A n \in 1 .. Len(samples) :
           samples[n].key = item[c] /\ msg[c].ts # 0 => samples[n].ts < msg[c].ts
  BY DEF Publish, MessageIsNew
<1>3. UNCHANGED <<time_stamp, telemetry_mutex, item, data, times>>
      /\ msg' = [msg EXCEPT ![c] = NoMessage]
  BY DEF Publish
<1>4. \A n \in 1 .. Len(samples) : samples[n] \in Sent
  OBVIOUS
<1>5. CASE samples' = Append(samples, msg[c]) /\ pc' = [pc EXCEPT ![c] = "reset"]
  <2>1. /\ Len(samples') = Len(samples) + 1 /\ samples' \in Seq(Sent)
        /\ \A n \in 1 .. Len(samples) : samples'[n] = samples[n]
        /\ samples'[Len(samples) + 1] = msg[c]
        /\ \A n \in 1 .. Len(samples') : n \in 1 .. Len(samples) \/ n = Len(samples) + 1
    <3>1. /\ Len(samples') = Len(samples) + 1 /\ Len(samples) \in Nat
          /\ samples' \in Seq(Sent)
          /\ \A n \in 1 .. Len(samples) : samples'[n] = samples[n]
          /\ samples'[Len(samples) + 1] = msg[c]
      BY <1>2, <1>5
    <3>2. QED
      BY <3>1
  <2>2. Types' /\ HolderAlone'
    BY <2>1, <1>2, <1>3, <1>5 DEF HolderAlone
  <2>3. TimesPassed'
    <3>1. \A n \in 1 .. Len(samples') : samples'[n].ts <= times
      BY <2>1, <1>2 DEF TimesPassed
    <3>2. QED
      BY <3>1, <1>3 DEF TimesPassed
  <2>4. pc'[c] = "reset" /\ item'[c] = item[c] /\ \A a \in Callers : pc'[a] # "publish"
    BY <1>1, <1>3, <1>5
  <2>5. StampIsNew'
    <3> SUFFICES ASSUME NEW t \in Telemetry, NEW n \in 1 .. Len(samples'),
                        samples'[n].key = t, time_stamp[t] # 0, t # item[c]
                 PROVE  samples'[n].ts < time_stamp[t]
      BY <2>4, <1>3 DEF StampIsNew
    <3>1. n \in 1 .. Len(samples) /\ samples'[n] = samples[n]
      BY <2>1, <1>2
    <3>2. ~ \E a \in Callers : pc[a] = "reset"
      BY <1>1, <1>2
    <3>3. QED
      BY <3>1, <3>2 DEF StampIsNew
  <2>6. MessageIsNew'
    BY <2>4 DEF MessageIsNew
  <2>7. TimesUsedOnce'
    <3> SUFFICES ASSUME NEW m \in 1 .. Len(samples'), NEW n \in 1 .. Len(samples'), m < n,
                        samples'[m].key = samples'[n].key, samples'[n].ts # 0
                 PROVE  samples'[m].ts < samples'[n].ts
      BY DEF TimesUsedOnce
    <3>1. m \in 1 .. Len(samples) /\ samples'[m] = samples[m]
      BY <2>1
    <3>2. CASE n \in 1 .. Len(samples)
      BY <3>1, <3>2, <2>1 DEF TimesUsedOnce
    <3>3. CASE n = Len(samples) + 1
      BY <3>1, <3>3, <2>1, <1>2
    <3>4. QED
      BY <3>2, <3>3, <2>1
  <2>8. QED
    BY <2>2, <2>3, <2>5, <2>6, <2>7
<1>6. CASE UNCHANGED samples /\ pc' = [pc EXCEPT ![c] = "unlock"]
  <2>1. Types' /\ HolderAlone' /\ TimesPassed' /\ TimesUsedOnce'
    BY <1>2, <1>3, <1>6 DEF HolderAlone, TimesPassed, TimesUsedOnce
  <2>2. StampIsNew' /\ MessageIsNew'
    BY <1>1, <1>2, <1>3, <1>6 DEF StampIsNew, MessageIsNew
  <2>3. QED
    BY <2>1, <2>2
<1>7. QED
  BY <1>5, <1>6 DEF Publish

LEMMA ResetInv ==
  ASSUME IInv, NEW c \in Callers, Reset(c)
  PROVE  IInv'
<1> USE SentFields DEF IInv, Types, Reset
<1>1. \A a \in Callers : a # c => pc[a] = "idle"
  BY DEF HolderAlone
<1>2. Types' /\ HolderAlone' /\ TimesUsedOnce'
  BY DEF HolderAlone, TimesUsedOnce
<1>3. TimesPassed'
  BY DEF TimesPassed
<1>4. StampIsNew'
  BY <1>1 DEF StampIsNew
<1>5. MessageIsNew'
  BY <1>1 DEF MessageIsNew
<1>6. QED
  BY <1>2, <1>3, <1>4, <1>5

LEMMA UnlockInv ==
  ASSUME IInv, NEW c \in Callers, Unlock(c)
  PROVE  IInv'
<1> USE DEF IInv, Types, Unlock
<1>1. \A a \in Callers : a # c => pc[a] = "idle"
  BY DEF HolderAlone
<1>2. Types' /\ TimesUsedOnce' /\ TimesPassed'
  BY DEF TimesPassed, TimesUsedOnce
<1>3. HolderAlone' /\ StampIsNew' /\ MessageIsNew'
  BY <1>1 DEF HolderAlone, StampIsNew, MessageIsNew
<1>4. QED
  BY <1>2, <1>3

\* The other messages and steps of others leave all of it alone.
LEMMA OtherInv ==
  ASSUME IInv,
         UNCHANGED <<time_stamp, telemetry_mutex, threadVars, samples, times>>
  PROVE  IInv'
BY DEF IInv, Types, HolderAlone, TimesPassed, StampIsNew, MessageIsNew, TimesUsedOnce, threadVars

LEMMA SamplesNext ==
  ASSUME NoCaller \notin Callers, Telemetry # {}, Data # {}
  PROVE  IInv /\ [Next]_vars => IInv'
<1> SUFFICES ASSUME IInv, [Next]_vars PROVE IInv'
  OBVIOUS
<1>1. ASSUME NEW t \in Telemetry, SetTime(t) PROVE IInv'
  BY <1>1, SetTimeInv
<1>2. ASSUME NEW c \in Callers, NEW t \in Telemetry, NEW d \in Data, Begin(c, t, d)
      PROVE  IInv'
  BY <1>2, BeginInv
<1>3. ASSUME NEW c \in Callers, Build(c) \/ Publish(c) \/ Reset(c) \/ Unlock(c)
      PROVE  IInv'
  BY <1>3, BuildInv, PublishInv, ResetInv, UnlockInv
<1>4. ASSUME NEW given \in Given,
             AlarmPublish(given) \/ AttributePublish(given) \/ EventPublish(given)
      PROVE  IInv'
  BY <1>4, OtherInv DEF AlarmPublish, AttributePublish, EventPublish, Told
<1>5. CASE UNCHANGED vars
  BY <1>5, OtherInv DEF vars
<1>6. QED
  BY <1>1, <1>2, <1>3, <1>4, <1>5 DEF Next

(* A time that was set goes with one sample only, whatever threads publish,  *)
(* whatever times are set between, and however many publications fail        *)
(* (iot_telemetry_publish_data, iot_telemetry_timestamp_set).                *)
THEOREM TimesAreSpent ==
  ASSUME NoCaller \notin Callers, Telemetry # {}, Data # {}
  PROVE  Spec => []TimesUsedOnce
<1>1. Init => IInv
  BY InitInv
<1>2. IInv /\ [Next]_vars => IInv'
  BY SamplesNext
<1>3. IInv => TimesUsedOnce
  BY DEF IInv
<1>4. QED
  BY <1>1, <1>2, <1>3, PTL DEF Spec

-----------------------------------------------------------------------------
(***************************************************************************)
(* The types of the samples, the plug-ins, the options and the items: each *)
(* of the bounds in them needs more than the variable that it bounds.      *)
(***************************************************************************)
\* A thread that has begun with a sample has room for it.
SampleSizes ==
  /\ times <= MaxTimes
  /\ refused \in Nat /\ Len(samples) + refused <= MaxSamples
  /\ \A c \in Callers : pc[c] \in {"build", "publish"} => Len(samples) + refused < MaxSamples
ToldTypes == told.command \in {"none", "alarm.publish", "attribute.publish", "log.publish"}

LEMMA SampleSizesInit ==
  ASSUME SampleBounds, Init
  PROVE  SampleSizes /\ ToldTypes
<1>1. samples = <<>> /\ times = 0 /\ refused = 0 /\ told.command = "none" /\ \A c \in Callers : pc[c] = "idle"
  BY DEF Init
<1>2. QED
  BY <1>1 DEF SampleBounds, SampleSizes, ToldTypes

LEMMA SampleSizesNext ==
  ASSUME SampleBounds, IInv, SampleSizes, [Next]_vars
  PROVE  SampleSizes'
<1> DEFINE n == Len(samples) + refused
<1>1. /\ times \in Nat /\ MaxTimes \in Nat /\ MaxSamples \in Nat /\ refused \in Nat
      /\ Len(samples) \in Nat /\ samples \in Seq(Sent)
      /\ pc \in [Callers -> {"idle", "build", "publish", "reset", "unlock"}]
      /\ times <= MaxTimes /\ Len(samples) + refused <= MaxSamples
      /\ \A c \in Callers : pc[c] \in {"build", "publish"} => Len(samples) + refused < MaxSamples
  BY DEF SampleBounds, SampleSizes, IInv, Types
<1>2. ASSUME NEW t \in Telemetry, SetTime(t) PROVE SampleSizes'
  <2>1. times' = times + 1 /\ times < MaxTimes /\ UNCHANGED <<pc, samples, refused>>
    BY <1>2 DEF SetTime, threadVars
  <2>2. QED
    BY <1>1, <2>1 DEF SampleSizes
<1>3. ASSUME NEW c \in Callers, NEW t \in Telemetry, NEW d \in Data, Begin(c, t, d)
      PROVE  SampleSizes'
  <2>1. Len(samples) + refused < MaxSamples /\ UNCHANGED <<times, samples, refused>>
    BY <1>3 DEF Begin
  <2>2. QED
    BY <1>1, <2>1 DEF SampleSizes
<1>4. ASSUME NEW c \in Callers, Build(c) PROVE SampleSizes'
  <2>1. pc[c] = "build" /\ UNCHANGED <<times, samples>> /\ \A u \in Callers : u # c => pc[u] = "idle"
    BY <1>4 DEF Build, IInv, HolderAlone
  <2>2. CASE refused' = refused
    BY <1>1, <2>1, <2>2 DEF SampleSizes
  <2>3. CASE refused' = refused + 1 /\ pc' = [pc EXCEPT ![c] = "unlock"]
    BY <1>1, <2>1, <2>3 DEF SampleSizes
  <2>4. QED
    BY <1>4, <2>2, <2>3 DEF Build
<1>5. ASSUME NEW c \in Callers, Publish(c) PROVE SampleSizes'
  <2>1. /\ pc[c] = "publish" /\ UNCHANGED times /\ \A u \in Callers : u # c => pc[u] = "idle"
        /\ \A u \in Callers : pc'[u] \notin {"build", "publish"}
    BY <1>1, <1>5 DEF Publish, IInv, HolderAlone
  <2>2. CASE samples' = Append(samples, msg[c]) /\ refused' = refused
    <3>1. Len(samples') = Len(samples) + 1
      BY <1>1, <2>2
    <3>2. QED
      BY <1>1, <2>1, <2>2, <3>1 DEF SampleSizes
  <2>3. CASE refused' = refused + 1 /\ samples' = samples
    BY <1>1, <2>1, <2>3 DEF SampleSizes
  <2>4. QED
    BY <1>5, <2>2, <2>3 DEF Publish
<1>6. ASSUME NEW c \in Callers, Reset(c) \/ Unlock(c) PROVE SampleSizes'
  <2>1. UNCHANGED <<times, samples, refused>> /\ \A u \in Callers : pc'[u] \in {"build", "publish"} => pc[u] \in {"build", "publish"}
    BY <1>1, <1>6 DEF Reset, Unlock
  <2>2. QED
    BY <1>1, <2>1 DEF SampleSizes
<1>7. ASSUME NEW given \in Given,
             AlarmPublish(given) \/ AttributePublish(given) \/ EventPublish(given)
      PROVE  SampleSizes'
  BY <1>1, <1>7 DEF SampleSizes, AlarmPublish, AttributePublish, EventPublish, Told, threadVars
<1>8. CASE UNCHANGED vars
  BY <1>1, <1>8 DEF SampleSizes, vars, threadVars
<1>9. QED
  BY <1>2, <1>3, <1>4, <1>5, <1>6, <1>7, <1>8 DEF Next

LEMMA ToldTypesNext == ToldTypes /\ [Next]_vars => ToldTypes'
<1> SUFFICES ASSUME ToldTypes, [Next]_vars PROVE ToldTypes'
  OBVIOUS
<1>1. ASSUME NEW given \in Given,
             AlarmPublish(given) \/ AttributePublish(given) \/ EventPublish(given)
      PROVE  ToldTypes'
  BY <1>1 DEF ToldTypes, AlarmPublish, AttributePublish, EventPublish, Told
<1>2. ASSUME ~ \E given \in Given :
             AlarmPublish(given) \/ AttributePublish(given) \/ EventPublish(given)
      PROVE  UNCHANGED told
  BY <1>2 DEF Next, vars, SetTime, Begin, Build, Publish, Reset, Unlock
<1>3. QED
  BY <1>1, <1>2 DEF ToldTypes

LEMMA SampleTypes ==
  ASSUME SampleBounds, IInv, SampleSizes, ToldTypes
  PROVE  TypeOK
<1>1. time_stamp \in [Telemetry -> 0 .. times] /\ times \in 0 .. MaxTimes
  BY DEF IInv, Types, TimesPassed, SampleSizes, SampleBounds
<1>2. Cardinality(Callers) \in Nat
  BY FS_CardinalityType DEF SampleBounds
<1>3. Len(samples) \in Nat /\ refused \in Nat /\ Len(samples) + refused <= MaxSamples /\ MaxSamples \in Nat
  BY DEF IInv, Types, SampleSizes, SampleBounds
<1>4. refused \in 0 .. MaxSamples /\ Len(samples) + refused <= MaxSamples + Cardinality(Callers)
  BY <1>2, <1>3
<1>5. \A n \in 1 .. Len(samples) : samples[n] \in Sent
  BY DEF IInv, Types
<1>6. \A n \in 1 .. Len(samples) : samples[n].key \in Telemetry /\ samples[n].ts \in 0 .. times
  BY <1>5, SentFields DEF IInv, Types, TimesPassed
<1>7. QED
  BY <1>1, <1>4, <1>6 DEF TypeOK, IInv, Types, ToldTypes

PluginEntries == [ptr : P!Slots, order : {Order[f] : f \in Plugins}]
PluginOrders == plugin_enabled \in Seq(PluginEntries)

LEMMA PluginOrdersNext ==
  ASSUME PluginBounds, PluginInv, PluginOrders, [P!Next]_(P!vars)
  PROVE  PluginOrders'
<1>1. ASSUME NEW s, plugin_enabled' = P!Without(s) PROVE PluginOrders'
  <2>1. plugin_enabled' \in Seq(PluginEntries)
    BY <1>1, WithoutIn DEF PluginOrders
  <2>2. QED
    BY <2>1 DEF PluginOrders, PluginEntries, P!Slots
<1>2. ASSUME NEW s \in P!Slots, NEW file \in Plugins, plugin_enabled' = P!With(s, file)
      PROVE  PluginOrders'
  <2>1. [ptr |-> s, order |-> Order[file]] \in PluginEntries
    BY DEF PluginEntries
  <2>2. plugin_enabled' \in Seq(PluginEntries)
    BY <1>2, <2>1, WithIn DEF PluginOrders
  <2>3. QED
    BY <2>2 DEF PluginOrders, PluginEntries, P!Slots
<1>3. ASSUME plugin_enabled' = plugin_enabled PROVE PluginOrders'
  BY <1>3 DEF PluginOrders, PluginEntries, P!Slots
<1>4. ASSUME NEW file \in Plugins, P!Enable(file) PROVE PluginOrders'
  <2> DEFINE s == plugin_ptr[P!FirstOf(file)]
  <2>1. P!FirstOf(file) \in 0 .. plugin_count /\ P!FirstOf(file) < plugin_count
    BY <1>4, FirstOfIs DEF P!Enable
  <2>2. s \in P!Slots
    BY <2>1 DEF PluginBounds, PluginInv, PluginTypes, P!Slots
  <2>3. P!CanEnable(s, plugin[s]) /\ plugin_enabled' = P!With(s, plugin[s])
    BY <1>4 DEF P!Enable
  <2> HIDE DEF s
  <2>4. plugin[s] \in Plugins
    BY <2>2, <2>3 DEF P!CanEnable, PluginInv, PluginTypes
  <2>5. QED
    BY <2>2, <2>3, <2>4, <1>2
<1>5. ASSUME NEW file \in Plugins, P!Load(file) PROVE PluginOrders'
  <2>1. plugin_count \in P!Slots
    BY <1>5 DEF P!Load, PluginBounds, PluginInv, PluginTypes, P!Slots
  <2>2. QED
    BY <1>2, <1>3, <1>5, <2>1 DEF P!Load
<1>6. ASSUME NEW file \in Plugins, P!Unload(file) \/ P!Disable(file) \/ P!UnloadLast(file)
      PROVE  PluginOrders'
  BY <1>1, <1>6 DEF P!Unload, P!Disable, P!UnloadLast
<1>7. CASE P!DisableAll
  BY <1>1, <1>7 DEF P!DisableAll
<1>8. CASE UNCHANGED P!vars
  BY <1>3, <1>8 DEF P!vars
<1>9. QED
  BY <1>4, <1>5, <1>6, <1>7, <1>8 DEF P!Next

PluginFlags == {overwritten, pluginUndefined} \subseteq BOOLEAN

LEMMA PluginFlagsNext == PluginFlags /\ [P!Next]_(P!vars) => PluginFlags'
<1> SUFFICES ASSUME PluginFlags, [P!Next]_(P!vars) PROVE PluginFlags'
  OBVIOUS
<1>1. /\ pluginUndefined' \in {pluginUndefined, TRUE}
      /\ overwritten' = overwritten \/ overwritten' = (overwritten \/ P!Enabled(plugin_count))
  BY DEF P!Next, P!vars, P!Enable, P!Disable, P!Load, P!Unload, P!UnloadLast, P!DisableAll
<1>2. P!Enabled(plugin_count) \in BOOLEAN
  BY DEF P!Enabled
<1>3. QED
  BY <1>1, <1>2 DEF PluginFlags

\* No more can be enabled than there are structures, as none is enabled twice.
LEMMA PluginsFit ==
  ASSUME PluginBounds, PluginInv
  PROVE  Len(plugin_enabled) <= IOT_PLUGIN_MAX
<1> DEFINE n == Len(plugin_enabled)
           f == [i \in 1 .. n |-> plugin_enabled[i].ptr]
<1>1. n \in Nat /\ IOT_PLUGIN_MAX \in Nat /\ \A i \in 1 .. n : plugin_enabled[i] \in Entries
  BY DEF PluginInv, PluginTypes, PluginBounds
<1>2. f \in [1 .. n -> P!Slots]
  BY <1>1 DEF Entries
<1>3. IsFiniteSet(1 .. n) /\ Cardinality(1 .. n) = n
  BY <1>1, FS_Interval
<1>4. IsFiniteSet(P!Slots) /\ Cardinality(P!Slots) = IOT_PLUGIN_MAX
  <2>1. 0 \in Int /\ IOT_PLUGIN_MAX - 1 \in Int
    BY <1>1
  <2>2. /\ IsFiniteSet(0 .. IOT_PLUGIN_MAX - 1)
        /\ Cardinality(0 .. IOT_PLUGIN_MAX - 1) =
             IF 0 > IOT_PLUGIN_MAX - 1 THEN 0 ELSE IOT_PLUGIN_MAX - 1 - 0 + 1
    BY <2>1, FS_Interval
  <2>3. QED
    BY <1>1, <2>2 DEF P!Slots
<1>5. \A x, y \in 1 .. n : x # y => f[x] # f[y]
  BY <1>1 DEF PluginInv, Ranked
<1>6. ~ (IOT_PLUGIN_MAX < n)
  <2> SUFFICES ASSUME IOT_PLUGIN_MAX < n PROVE FALSE
    OBVIOUS
  <2> HIDE DEF f, n
  <2>1. Cardinality(P!Slots) < Cardinality(1 .. n)
    BY <1>3, <1>4
  <2>2. \E x, y \in 1 .. n : x # y /\ f[x] = f[y]
    BY <1>2, <1>3, <1>4, <2>1, FS_PigeonHole
  <2>3. QED
    BY <1>5, <2>2
<1>7. QED
  BY <1>1, <1>6

LEMMA PluginListTypes ==
  ASSUME PluginBounds, PluginInv, PluginOrders, PluginFlags
  PROVE  P!TypeOK
<1>1. Len(plugin_enabled) <= IOT_PLUGIN_MAX
  BY PluginsFit
<1>2. QED
  BY <1>1 DEF P!TypeOK, PluginInv, PluginTypes, PluginOrders, PluginEntries, PluginFlags

OptionSizes == Len(option) <= IOT_OPTION_MAX /\ capacity \in 0 .. IOT_OPTION_MAX
OptionFlags == holder \in Holders /\ optionUndefined \in BOOLEAN
OptionCounter == optionFailures \in 0 .. OptionFailures

LEMMA OptionFlagsNext == OptionFlags /\ [O!Next]_(O!vars) => OptionFlags'
<1> SUFFICES ASSUME OptionFlags, [O!Next]_(O!vars) PROVE OptionFlags'
  OBVIOUS
<1>1. holder' = holder
  BY DEF O!Next, O!vars, O!Null, O!Clear, O!ClearMissing, O!Update, O!UpdateFails, O!Add,
         O!AddFull, O!AddFails
<1>2. \/ optionUndefined' = optionUndefined \/ optionUndefined' = TRUE
      \/ optionUndefined' = (Len(option) + 1 > O!Capacity)
  BY Zenon DEF O!Next, O!vars, O!Null, O!Clear, O!ClearMissing, O!Update, O!UpdateFails, O!Add,
         O!AddFull, O!AddFails
<1>3. (Len(option) + 1 > O!Capacity) \in BOOLEAN
  OBVIOUS
<1>4. optionUndefined' \in BOOLEAN
  BY <1>2, <1>3, Zenon DEF OptionFlags
<1>5. QED
  BY <1>1, <1>4 DEF OptionFlags

LEMMA OptionCounterNext ==
  OptionLimits /\ OptionCounter /\ [O!Next]_(O!vars) => OptionCounter'
<1> SUFFICES ASSUME OptionLimits, OptionCounter, [O!Next]_(O!vars) PROVE OptionCounter'
  OBVIOUS
<1>1. O!MemoryOut => OptionCounter'
  BY DEF OptionLimits, OptionCounter, O!MemoryOut
<1>2. ASSUME NEW n \in O!Spelled, NEW v \in Values, O!UpdateFails(n, v) \/ O!AddFails(n, v)
      PROVE  O!MemoryOut
  BY <1>2 DEF O!UpdateFails, O!AddFails
<1>3. ASSUME NEW n \in O!Spelled, NEW v \in Values,
             O!Update(n, v) \/ O!Add(n, v) \/ O!AddFull(n, v)
      PROVE  optionFailures' = optionFailures
  BY <1>3 DEF O!Update, O!Add, O!AddFull
<1>4. ASSUME NEW n \in O!Spelled, O!Null(n) \/ O!Clear(n) \/ O!ClearMissing(n)
      PROVE  optionFailures' = optionFailures \/ O!MemoryOut
  BY <1>4 DEF O!Null, O!Clear, O!ClearMissing
<1>5. CASE UNCHANGED O!vars
  BY <1>5 DEF OptionCounter, O!vars
<1>6. optionFailures' = optionFailures => OptionCounter'
  BY DEF OptionCounter
<1>7. QED
  BY <1>1, <1>2, <1>3, <1>4, <1>5, <1>6 DEF O!Next

\* An option leaves the array, or joins it where there is room.
LEMMA OptionsDrop ==
  ASSUME OptionBounds, OptionLimits, OptionTidy, OptionSizes, NEW n \in O!Spelled, O!ForSet(n).found,
         capacity' = capacity, option' = O!DropAt(option, O!ForSet(n).at)
  PROVE  OptionSizes'
<1> DEFINE i == O!ForSet(n).at
<1>1. i \in 1 .. Len(option)
  BY ForSetIs
<1>2. option' = TakenOut(option, i)
  BY DEF O!DropAt, TakenOut
<1> HIDE DEF i
<1>3. Len(option') = Len(option) - 1 /\ Len(option) \in Nat
  BY <1>1, <1>2, TakenOutIs DEF OptionTidy
<1>4. QED
  BY <1>3 DEF OptionSizes, OptionLimits

LEMMA OptionsJoin ==
  ASSUME OptionBounds, OptionLimits, OptionTidy, OptionSizes, NEW n \in O!Spelled,
         NEW e \in OptionEntries, ~ O!ForSet(n).found, ~ O!ForSet(n).null,
         Len(option) < IOT_OPTION_MAX, capacity' = capacity \/ capacity' = O!Capacity,
         option' = option \/ option' = O!InsertAt(option, O!Place(n), e)
  PROVE  OptionSizes'
<1> DEFINE i == O!Place(n)
<1>1. i \in 1 .. Len(option) + 1 /\ Len(option) \in Nat
  BY PlaceIs DEF OptionTidy
<1>2. O!InsertAt(option, i, e) = PutIn(option, i, e)
  BY DEF O!InsertAt, PutIn
<1> HIDE DEF i
<1>3. Len(O!InsertAt(option, i, e)) = Len(option) + 1
  BY <1>1, <1>2, PutInIs DEF OptionTidy
<1>4. Len(option') <= IOT_OPTION_MAX
  <2>1. CASE option' = option
    BY <2>1 DEF OptionSizes
  <2>2. CASE option' = O!InsertAt(option, i, e)
    BY <1>1, <1>3, <2>2 DEF OptionLimits
  <2>3. QED
    BY <2>1, <2>2 DEF i
<1>5. capacity' \in 0 .. IOT_OPTION_MAX
  BY <1>1 DEF OptionSizes, OptionLimits, O!Capacity
<1>6. QED
  BY <1>4, <1>5 DEF OptionSizes

LEMMA OptionSizesNext ==
  ASSUME OptionBounds, OptionLimits, OptionTidy, OptionSizes, [O!Next]_(O!vars)
  PROVE  OptionSizes'
<1>1. O!Entry(NoName, NoValue) \in OptionEntries
  BY DEF O!Entry, OptionEntries
<1>2. ASSUME NEW n \in O!Spelled, O!Clear(n) PROVE OptionSizes'
  <2>1. O!ForSet(n).found /\ capacity' = capacity /\ option' = O!DropAt(option, O!ForSet(n).at)
    BY <1>2 DEF O!Clear, O!ForSet
  <2>2. QED
    BY <2>1, OptionsDrop
<1>3. ASSUME NEW n \in O!Spelled, O!ClearMissing(n) PROVE OptionSizes'
  <2>1. ~ O!ForSet(n).found /\ ~ O!ForSet(n).null /\ O!Place(n) = O!Find(n).at
    BY <1>3 DEF O!ClearMissing, O!Defined, O!ForSet, O!Place
  <2>2. \/ /\ Len(option) < IOT_OPTION_MAX /\ capacity' = O!Capacity
           /\ option' = O!InsertAt(option, O!Find(n).at, O!Entry(NoName, NoValue))
        \/ option' = option /\ capacity' = capacity
    BY <1>3, Zenon DEF O!ClearMissing
  <2>3. CASE /\ Len(option) < IOT_OPTION_MAX /\ capacity' = O!Capacity
             /\ option' = O!InsertAt(option, O!Find(n).at, O!Entry(NoName, NoValue))
    BY <1>1, <2>1, <2>3, OptionsJoin
  <2>4. CASE option' = option /\ capacity' = capacity
    BY <2>4 DEF OptionSizes
  <2>5. QED
    BY <2>2, <2>3, <2>4
<1>4. ASSUME NEW n \in O!Spelled, NEW v \in Values, O!UpdateFails(n, v) PROVE OptionSizes'
  <2>1. O!ForSet(n).found /\ capacity' = capacity /\ option' = O!DropAt(option, O!ForSet(n).at)
    BY <1>4 DEF O!UpdateFails
  <2>2. QED
    BY <2>1, OptionsDrop
<1>5. ASSUME NEW n \in O!Spelled, NEW v \in Values, O!Update(n, v) PROVE OptionSizes'
  <2>1. capacity' = capacity /\ Len(option') = Len(option)
    BY <1>5 DEF O!Update, OptionTidy
  <2>2. QED
    BY <2>1 DEF OptionSizes
<1>6. ASSUME NEW n \in O!Spelled, NEW v \in Values, O!Add(n, v) PROVE OptionSizes'
  <2>1. O!Entry(n, v) \in OptionEntries
    BY DEF O!Entry, OptionEntries
  <2>2. QED
    BY <1>6, <2>1, OptionsJoin DEF O!Add, O!Defined
<1>7. ASSUME NEW n \in O!Spelled, NEW v \in Values, O!AddFails(n, v) PROVE OptionSizes'
  <2>1. /\ ~ O!ForSet(n).found /\ ~ O!ForSet(n).null /\ Len(option) < IOT_OPTION_MAX
        /\ capacity' = capacity \/ capacity' = O!Capacity
        /\ option' = option \/ option' = O!InsertAt(option, O!Place(n), O!Entry(NoName, NoValue))
    BY <1>7 DEF O!AddFails, O!Defined
  <2>2. QED
    BY <1>1, <2>1, OptionsJoin
<1>8. ASSUME NEW n \in O!Spelled,
             O!Null(n) \/ \E v \in Values : O!AddFull(n, v)
      PROVE  OptionSizes'
  BY <1>8 DEF O!Null, O!AddFull, OptionSizes
<1>9. CASE UNCHANGED O!vars
  BY <1>9 DEF O!vars, OptionSizes
<1>10. QED
  BY <1>2, <1>3, <1>4, <1>5, <1>6, <1>7, <1>8, <1>9 DEF O!Next

LEMMA OptionTypes ==
  ASSUME OptionTidy, OptionSizes, OptionFlags, OptionCounter
  PROVE  O!TypeOK
BY DEF O!TypeOK, OptionTidy, OptionEntries, OptionSizes, OptionFlags, OptionCounter

LEMMA OptionTypesInit ==
  ASSUME OptionLimits, O!Init
  PROVE  OptionSizes /\ OptionFlags /\ OptionCounter
<1>1. holder \in Holders /\ optionUndefined \in BOOLEAN
  BY DEF O!Init
<1>2. Len(option) = 0 /\ capacity = 0 /\ optionFailures = 0
  BY DEF O!Init
<1>3. OptionSizes /\ OptionCounter
  BY <1>2 DEF OptionLimits, OptionSizes, OptionCounter
<1>4. QED
  BY <1>1, <1>3 DEF OptionFlags

\* The places a thread works at, and that of the worker, are places of the array.
ItemPlaces == at \in [Threads -> 0 .. Max] /\ goal \in [Threads -> 0 .. Max]
Looking == looking \in 0 .. Max /\ (search = "compare" => looking < Max)
SearchTypes ==
  /\ kind \in Kinds /\ search \in {"idle", "read", "compare", "picked"} /\ wanted \in Names \cup {0}
  /\ found \in I!Structs \cup {None}
ItemFailed == failures \in 0 .. ItemFailures
ItemFlag == disturbed \in BOOLEAN

LEMMA ItemTypesInit ==
  ASSUME ItemBounds, ItemFailures \in Nat, I!Init
  PROVE  ItemPlaces /\ Looking /\ SearchTypes /\ ItemFailed /\ ItemFlag
<1>1. ItemPlaces
  BY DEF I!Init, ItemPlaces, ItemBounds
<1>2. Looking
  BY DEF I!Init, Looking, ItemBounds
<1>3. SearchTypes /\ ItemFlag
  BY DEF I!Init, SearchTypes, ItemFlag
<1>4. ItemFailed
  BY DEF I!Init, ItemFailed
<1>5. QED
  BY <1>1, <1>2, <1>3, <1>4

LEMMA ItemPlace ==
  ASSUME ItemBounds, ItemInv, NEW n
  PROVE  I!PlaceOf(n) \in 0 .. count
<1> DEFINE places == 0 .. count - 1
           Lower == {i \in places : n > struct[ptr[i]].name}
           r == Halve(0, count, Lower, places \ Lower)
<1>1. count \in Nat /\ 0 \in Int /\ count \in Int /\ 0 <= count
  BY ItemFacts
<1>2. Stops(r, 0, count, Lower, places \ Lower)
  <2> HIDE DEF Lower, places
  <2> QED BY <1>1, HalveRight
<1>3. I!PlaceOf(n) = r.at
  BY DEF I!PlaceOf, I!Halve, I!Spans, I!Middle, Halve, Spans, Middle
<1> HIDE DEF r
<1>4. QED
  BY <1>2, <1>3 DEF Stops

LEMMA ItemPlacesNext ==
  ASSUME ItemBounds, ItemInv, ItemPlaces, [I!Next]_(I!vars)
  PROVE  ItemPlaces'
<1>1. Max \in Nat /\ count \in 0 .. Max
  BY ItemFacts
<1>2. ASSUME NEW t \in Threads, I!Return(t) PROVE ItemPlaces'
  BY <1>1, <1>2 DEF ItemPlaces, I!Return
<1>3. ASSUME UNCHANGED <<at, goal>> PROVE ItemPlaces'
  BY <1>3 DEF ItemPlaces
<1>4. ASSUME NEW t \in Threads, I!TakeStruct(t) PROVE ItemPlaces'
  <2>1. at' = [at EXCEPT ![t] = count] /\ goal' = [goal EXCEPT ![t] = I!PlaceOf(name[t])]
    BY <1>4 DEF I!TakeStruct
  <2>2. I!PlaceOf(name[t]) \in 0 .. Max
    <3> DEFINE g == I!PlaceOf(name[t])
    <3>1. g \in 0 .. count
      BY ItemPlace
    <3> HIDE DEF g
    <3>2. g \in 0 .. Max
      BY <1>1, <3>1
    <3>3. QED
      BY <3>2 DEF g
  <2>3. QED
    BY <1>1, <2>1, <2>2 DEF ItemPlaces
<1>5. ASSUME NEW t \in Threads, I!Shift(t) PROVE ItemPlaces'
  BY <1>1, <1>5 DEF I!Shift, ItemPlaces
<1>6. ASSUME NEW t \in Threads, I!Find(t) PROVE ItemPlaces'
  <2> DEFINE f == I!Position(mem[t])
  <2>1. at' = [at EXCEPT ![t] = f] /\ goal' = goal
    BY <1>6 DEF I!Find
  <2>2. f \in 0 .. count
    BY PositionIs
  <2> HIDE DEF f
  <2>3. QED
    BY <1>1, <2>1, <2>2 DEF ItemPlaces
<1>7. ASSUME NEW t \in Threads, I!CloseUp(t) PROVE ItemPlaces'
  BY <1>1, <1>7 DEF I!CloseUp, ItemPlaces
<1>8. ASSUME NEW t \in Threads,
             I!NoRoom(t) \/ I!NameFails(t) \/ I!Count(t) \/ I!Release(t) \/ I!Kept(t)
      PROVE  ItemPlaces'
  BY <1>2, <1>8 DEF I!NoRoom, I!NameFails, I!Count, I!Release, I!Kept
<1>9. ASSUME NEW t \in Threads,
             I!Allocate(t) \/ I!Insert(t) \/ I!Register(t) \/ I!Free(t) \/ I!Terminate(t) \/ I!FreeLast(t)
      PROVE  ItemPlaces'
  BY <1>3, <1>9 DEF I!Allocate, I!Insert, I!Register, I!Free, I!Terminate, I!FreeLast, I!threadVars
<1>10. CASE I!Worker
  BY <1>3, <1>10 DEF I!Worker, I!BeginSearch, I!ReadEntry, I!Compare, I!NotFound, I!EndSearch, I!threadVars
<1>11. CASE UNCHANGED I!vars
  BY <1>3, <1>11 DEF I!vars, I!threadVars
<1>12. QED
  BY <1>4, <1>5, <1>6, <1>7, <1>8, <1>9, <1>10, <1>11 DEF I!Next, I!Allocating, I!Freeing

\* Only the worker changes the variables of the search.
LEMMA SearchLeft ==
  ASSUME [I!Next]_(I!vars), ~ I!Worker
  PROVE  UNCHANGED <<search, wanted, looking, found>>
BY DEF I!Next, I!Allocating, I!Freeing, I!Allocate, I!NoRoom, I!TakeStruct, I!NameFails, I!Shift,
       I!Insert, I!Count, I!Register, I!Free, I!Find, I!CloseUp, I!Release, I!Kept, I!Terminate,
       I!FreeLast, I!vars, I!searchVars

LEMMA KindKept == [I!Next]_(I!vars) => kind' = kind
BY DEF I!Next, I!Allocating, I!Freeing, I!Allocate, I!NoRoom, I!TakeStruct, I!NameFails, I!Shift,
       I!Insert, I!Count, I!Register, I!Free, I!Find, I!CloseUp, I!Release, I!Kept, I!Terminate,
       I!FreeLast, I!vars, I!Worker, I!BeginSearch, I!ReadEntry, I!Compare, I!NotFound, I!EndSearch

LEMMA LookingNext ==
  ASSUME ItemBounds, ItemInv, Looking, [I!Next]_(I!vars)
  PROVE  Looking'
<1>1. Max \in Nat /\ count \in 0 .. Max
  BY ItemFacts
<1>2. CASE I!BeginSearch
  BY <1>1, <1>2 DEF I!BeginSearch, Looking
<1>3. CASE I!ReadEntry
  BY <1>1, <1>3 DEF I!ReadEntry, Looking
<1>4. CASE I!Compare
  <2>1. search = "compare" /\ search' # "compare" /\ (looking' = looking \/ looking' = looking + 1)
    BY <1>4 DEF I!Compare
  <2>2. QED
    BY <1>1, <2>1 DEF Looking
<1>5. CASE I!NotFound
  BY <1>1, <1>5 DEF I!NotFound, Looking
<1>6. CASE I!EndSearch
  BY <1>1, <1>6 DEF I!EndSearch, Looking
<1>7. CASE ~ I!Worker
  BY <1>7, SearchLeft DEF Looking
<1>8. QED
  BY <1>2, <1>3, <1>4, <1>5, <1>6, <1>7 DEF I!Worker

LEMMA SearchTypesNext ==
  ASSUME ItemBounds, ItemInv, Looking, SearchTypes, [I!Next]_(I!vars)
  PROVE  SearchTypes'
<1>1. kind' = kind
  BY KindKept
<1>2. CASE I!BeginSearch
  BY <1>1, <1>2 DEF I!BeginSearch, SearchTypes, I!Structs
<1>3. CASE I!ReadEntry
  <2>1. looking < count /\ found' = ptr[looking] /\ wanted' = wanted /\ search' \in {"read", "compare"}
    BY <1>3 DEF I!ReadEntry
  <2>2. looking \in I!Places
    BY <2>1, ItemFacts DEF I!Places, Looking
  <2>3. found' \in I!Structs \cup {None}
    BY <2>1, <2>2, ItemFacts DEF Arrays
  <2>4. QED
    BY <1>1, <2>1, <2>3 DEF SearchTypes, I!Structs
<1>4. CASE I!Compare
  BY <1>1, <1>4 DEF I!Compare, SearchTypes, I!Structs
<1>5. CASE I!NotFound
  BY <1>1, <1>5 DEF I!NotFound, SearchTypes, I!Structs
<1>6. CASE I!EndSearch
  BY <1>1, <1>6 DEF I!EndSearch, SearchTypes, I!Structs
<1>7. CASE ~ I!Worker
  BY <1>1, <1>7, SearchLeft DEF SearchTypes, I!Structs
<1>8. QED
  BY <1>2, <1>3, <1>4, <1>5, <1>6, <1>7 DEF I!Worker

LEMMA ItemFailedNext ==
  ASSUME ItemFailures \in Nat, ItemFailed, [I!Next]_(I!vars)
  PROVE  ItemFailed'
<1>1. ASSUME NEW t \in Threads, I!Allocating(t) PROVE failures' = failures \/ I!Fails
  BY <1>1, Zenon DEF I!Allocating, I!Allocate, I!NoRoom, I!TakeStruct, I!NameFails, I!Shift, I!Insert,
       I!Count
<1>2. ASSUME NEW t \in Threads, I!Freeing(t) PROVE failures' = failures \/ I!Fails
  BY <1>2, Zenon DEF I!Freeing, I!Free, I!Find, I!CloseUp, I!Release, I!Kept, I!Deregister
<1>3. ASSUME NEW t \in Threads, I!Register(t) \/ I!Terminate(t) \/ I!FreeLast(t)
      PROVE  failures' = failures \/ I!Fails
  BY <1>3, Zenon DEF I!Register, I!Terminate, I!FreeLast, I!Deregister
<1>4. CASE I!Worker
  <2>1. failures' = failures
    BY <1>4, Zenon DEF I!Worker, I!BeginSearch, I!ReadEntry, I!Compare, I!NotFound, I!EndSearch
  <2>2. QED
    BY <2>1 DEF ItemFailed
<1>5. CASE UNCHANGED I!vars
  <2>1. failures' = failures
    BY <1>5, Zenon DEF I!vars
  <2>2. QED
    BY <2>1 DEF ItemFailed
<1>6. CASE failures' = failures \/ I!Fails
  BY <1>6 DEF ItemFailed, I!Fails
<1>7. QED
  BY <1>1, <1>2, <1>3, <1>4, <1>5, <1>6, Zenon DEF I!Next

LEMMA ItemFlagNext == ItemFlag /\ [I!Next]_(I!vars) => ItemFlag'
<1> SUFFICES ASSUME ItemFlag, [I!Next]_(I!vars) PROVE ItemFlag'
  OBVIOUS
<1>1. ASSUME NEW t \in Threads, I!Allocating(t) PROVE disturbed' \in BOOLEAN
  BY <1>1, Zenon DEF ItemFlag, I!Allocating, I!Allocate, I!NoRoom, I!TakeStruct, I!NameFails, I!Shift,
       I!Insert, I!Count, I!Disturb
<1>2. ASSUME NEW t \in Threads, I!Freeing(t) PROVE disturbed' \in BOOLEAN
  BY <1>2, Zenon DEF ItemFlag, I!Freeing, I!Free, I!Find, I!CloseUp, I!Release, I!Kept, I!Disturb
<1>3. ASSUME NEW t \in Threads, I!Register(t) \/ I!Terminate(t) \/ I!FreeLast(t)
      PROVE  disturbed' \in BOOLEAN
  BY <1>3, Zenon DEF ItemFlag, I!Register, I!Terminate, I!FreeLast
<1>4. CASE I!Worker
  BY <1>4, Zenon DEF ItemFlag, I!Worker, I!BeginSearch, I!ReadEntry, I!Compare, I!NotFound, I!EndSearch
<1>5. CASE UNCHANGED I!vars
  BY <1>5 DEF ItemFlag, I!vars
<1>6. QED
  BY <1>1, <1>2, <1>3, <1>4, <1>5 DEF I!Next, ItemFlag

LEMMA ItemListTypes ==
  ASSUME ItemInv, ItemPlaces, Looking, SearchTypes, ItemFailed, ItemFlag
  PROVE  I!TypeOK
<1>1. {at, goal} \subseteq [Threads -> 0 .. Max] /\ looking \in 0 .. Max
      /\ failures \in 0 .. ItemFailures /\ disturbed \in BOOLEAN
  BY DEF ItemPlaces, Looking, ItemFailed, ItemFlag
<1>2. QED
  BY <1>1 DEF I!TypeOK, ItemInv, ItemTypes, Items, States, SearchTypes

-----------------------------------------------------------------------------
(***************************************************************************)
(* The configuration files.  What a member of a file says is stored under  *)
(* the names that lead to it, the last of its kind: the loop that parses the *)
(* members is followed round by round, with the key it has built so far.   *)
(***************************************************************************)
\* One round of the loop of iot_base_configuration_parse_object.
NextKey(doc, r, i) == Append(SubSeq(r.key, 1, doc[i].depth - 1), doc[i].name)
Parsing(doc, r, i) ==
  [key    |-> NextKey(doc, r, i),
   config |-> IF C!Scalar(doc[i]) THEN C!Set(r.config, NextKey(doc, r, i), doc[i].value)
              ELSE r.config]
Parses(f, doc, config, n) ==
  f = [i \in 0 .. n |-> IF i = 0 THEN [key |-> <<>>, config |-> config]
                        ELSE Parsing(doc, f[i - 1], i)]

LEMMA RecordFields ==
  ASSUME NEW k, NEW c, NEW p, p = [key |-> k, config |-> c]
  PROVE  p.key = k /\ p.config = c
OBVIOUS

LEMMA ParsingFields ==
  ASSUME NEW doc, NEW r, NEW i
  PROVE  /\ Parsing(doc, r, i).key = NextKey(doc, r, i)
         /\ Parsing(doc, r, i).config = IF C!Scalar(doc[i]) THEN C!Set(r.config, NextKey(doc, r, i), doc[i].value)
                                        ELSE r.config
<1> DEFINE k == NextKey(doc, r, i)
           c == IF C!Scalar(doc[i]) THEN C!Set(r.config, k, doc[i].value) ELSE r.config
<1>1. Parsing(doc, r, i) = [key |-> k, config |-> c]
  BY DEF Parsing
<1>2. Parsing(doc, r, i).key = k /\ Parsing(doc, r, i).config = c
  <2> HIDE DEF k, c
  <2> QED BY <1>1, RecordFields
<1>3. QED
  BY <1>2, Zenon

LEMMA ParsingExists ==
  ASSUME NEW doc, NEW config, NEW n \in Nat
  PROVE  \E f : Parses(f, doc, config, n)
<1> DEFINE T == {k \in Nat : \E f : Parses(f, doc, config, k)}
<1>1. 0 \in T
  <2> DEFINE g == [i \in 0 .. 0 |-> [key |-> <<>>, config |-> config]]
  <2>1. \A i \in 0 .. 0 : i = 0
    OBVIOUS
  <2>2. Parses(g, doc, config, 0)
    BY <2>1 DEF Parses
  <2>3. QED
    BY <2>2
<1>2. ASSUME NEW k \in T PROVE k + 1 \in T
  <2>1. PICK f : Parses(f, doc, config, k)
    OBVIOUS
  <2> DEFINE g == [i \in 0 .. k + 1 |-> IF i = k + 1 THEN Parsing(doc, f[k], k + 1) ELSE f[i]]
             h == [i \in 0 .. k + 1 |-> IF i = 0 THEN [key |-> <<>>, config |-> config]
                                        ELSE Parsing(doc, g[i - 1], i)]
  <2>2. k \in Nat /\ f = [i \in 0 .. k |-> IF i = 0 THEN [key |-> <<>>, config |-> config]
                                           ELSE Parsing(doc, f[i - 1], i)]
    BY <2>1 DEF Parses
  <2>3. \A i \in 0 .. k + 1 : g[i] = h[i]
    <3> SUFFICES ASSUME NEW i \in 0 .. k + 1 PROVE g[i] = h[i]
      OBVIOUS
    <3>1. CASE i = 0
      <4>1. g[0] = f[0] /\ f[0] = [key |-> <<>>, config |-> config]
        BY <2>2
      <4>2. QED
        BY <3>1, <4>1
    <3>2. CASE i = k + 1
      <4>1. g[i - 1] = f[k] /\ g[i] = Parsing(doc, f[k], k + 1)
        BY <2>2, <3>2
      <4>2. QED
        BY <2>2, <3>2, <4>1
    <3>3. CASE i \in 1 .. k
      <4>1. g[i - 1] = f[i - 1] /\ g[i] = f[i] /\ i \in 0 .. k /\ i # 0
        BY <2>2, <3>3
      <4>2. f[i] = Parsing(doc, f[i - 1], i)
        BY <2>2, <4>1
      <4>3. h[i] = Parsing(doc, g[i - 1], i)
        BY <4>1
      <4>4. QED
        BY <4>1, <4>2, <4>3
    <3>4. QED
      BY <2>2, <3>1, <3>2, <3>3
  <2>4. g = h
    BY <2>3
  <2>5. Parses(g, doc, config, k + 1)
    BY <2>4 DEF Parses
  <2>6. QED
    BY <2>2, <2>5
<1>3. T = Nat
  <2>1. T \in SUBSET Nat
    OBVIOUS
  <2> HIDE DEF T
  <2>2. QED
    BY <1>1, <1>2, <2>1, Induction
<1>4. QED
  BY <1>3

LEMMA ParseObjectIs ==
  ASSUME NEW S, NEW doc \in Seq(S), NEW config
  PROVE  \E f : Parses(f, doc, config, Len(doc)) /\ C!ParseObject(doc, config) = f[Len(doc)].config
<1> DEFINE parsed == CHOOSE f : Parses(f, doc, config, Len(doc))
<1>1. Parses(parsed, doc, config, Len(doc))
  BY ParsingExists
<1>2. C!ParseObject(doc, config) = parsed[Len(doc)].config
  BY DEF C!ParseObject, Parses, Parsing, NextKey
<1>3. QED
  BY <1>1, <1>2

Up(doc, i, d) == C!Max({j \in 1 .. i : doc[j].depth = d})

\* The key in the buffer is the way to the member.
KeyIs(doc, i, key) ==
  /\ Len(key) = doc[i].depth
  /\ \E S : key \in Seq(S)
  /\ \A d \in 1 .. doc[i].depth : key[d] = doc[Up(doc, i, d)].name

LEMMA UpHere ==
  ASSUME NEW doc, NEW i \in Nat, 1 <= i
  PROVE  Up(doc, i, doc[i].depth) = i
<1> DEFINE T == {j \in 1 .. i : doc[j].depth = doc[i].depth}
<1>1. i \in T /\ \A j \in T : j <= i
  OBVIOUS
<1>2. \A x \in T : (\A y \in T : x >= y) => x = i
  BY <1>1
<1> HIDE DEF T
<1>3. C!Max(T) = i
  BY <1>1, <1>2 DEF C!Max
<1>4. QED
  BY <1>3 DEF Up, T

LEMMA UpBefore ==
  ASSUME NEW doc, NEW i \in Nat, 1 <= i, NEW d, doc[i + 1].depth # d
  PROVE  Up(doc, i + 1, d) = Up(doc, i, d)
<1>1. {j \in 1 .. i + 1 : doc[j].depth = d} = {j \in 1 .. i : doc[j].depth = d}
  OBVIOUS
<1>2. QED
  BY <1>1 DEF Up

LEMMA KeyIsPath ==
  ASSUME NEW doc, NEW i, doc[i].depth \in Nat, NEW key, KeyIs(doc, i, key)
  PROVE  key = C!PathAt(doc, i)
<1>1. PICK S : key \in Seq(S)
  BY DEF KeyIs
<1>2. key = [d \in 1 .. Len(key) |-> key[d]]
  BY <1>1
<1>3. C!PathAt(doc, i) = [d \in 1 .. doc[i].depth |-> doc[Up(doc, i, d)].name]
  BY DEF C!PathAt, Up
<1>4. QED
  BY <1>2, <1>3 DEF KeyIs

LEMMA KeyNext ==
  ASSUME NEW doc, NEW i \in Nat, 1 <= i, NEW n, n = doc[i + 1].depth,
         doc[i].depth \in Nat, n \in Nat, 1 <= n, n <= doc[i].depth + 1,
         NEW key, KeyIs(doc, i, key)
  PROVE  KeyIs(doc, i + 1, Append(SubSeq(key, 1, n - 1), doc[i + 1].name))
<1> DEFINE a == SubSeq(key, 1, n - 1)
           e == doc[i + 1].name
           k == Append(a, e)
<1>1. PICK S : key \in Seq(S)
  BY DEF KeyIs
<1>2. Len(key) = doc[i].depth /\ 1 \in 1 .. Len(key) + 1 /\ n - 1 \in 0 .. Len(key)
  BY DEF KeyIs
<1>3. a \in Seq(S) /\ Len(a) = n - 1 /\ \A d \in 1 .. n - 1 : a[d] = key[d]
  <2>1. /\ SubSeq(key, 1, n - 1) \in Seq(S)
        /\ Len(SubSeq(key, 1, n - 1)) = n - 1 - 1 + 1
        /\ \A d \in 1 .. n - 1 - 1 + 1 : SubSeq(key, 1, n - 1)[d] = key[1 + d - 1]
    <3>1. key \in Seq(S) /\ 1 \in 1 .. Len(key) + 1 /\ n - 1 \in 1 - 1 .. Len(key)
      BY <1>1, <1>2
    <3>2. QED
      BY <3>1, SubSeqIs, Zenon
  <2>2. n - 1 - 1 + 1 = n - 1 /\ \A d \in 1 .. n - 1 : 1 + d - 1 = d
    OBVIOUS
  <2>3. QED
    BY <2>1, <2>2
<1> HIDE DEF a
<1>4. /\ k \in Seq(S \cup {e}) /\ Len(k) = n /\ k[n] = e
      /\ \A d \in 1 .. n - 1 : k[d] = key[d]
  <2>1. a \in Seq(S \cup {e})
    BY <1>3
  <2>2. QED
    BY <1>3, <2>1
<1>5. \A d \in 1 .. n : k[d] = doc[Up(doc, i + 1, d)].name
  <2> SUFFICES ASSUME NEW d \in 1 .. n PROVE k[d] = doc[Up(doc, i + 1, d)].name
    OBVIOUS
  <2>1. CASE d = n
    <3>1. Up(doc, i + 1, doc[i + 1].depth) = i + 1
      BY UpHere
    <3>2. QED
      BY <1>4, <2>1, <3>1
  <2>2. CASE d # n
    <3>1. d \in 1 .. n - 1 /\ d \in 1 .. doc[i].depth
      BY <2>2
    <3>2. Up(doc, i + 1, d) = Up(doc, i, d)
      BY <2>2, UpBefore
    <3>3. key[d] = doc[Up(doc, i, d)].name
      BY <3>1 DEF KeyIs
    <3>4. QED
      BY <1>4, <3>1, <3>2, <3>3
  <2>3. QED
    BY <2>1, <2>2
<1> HIDE DEF k
<1>6. QED
  BY <1>4, <1>5 DEF KeyIs, k, a, e

\* The settings are those that were there, with the last value of each key.
Scalars(doc, i, k) == {j \in 1 .. i : C!Scalar(doc[j]) /\ C!PathAt(doc, j) = k}
ConfigIs(doc, i, config, r) ==
  /\ \A k : k \in DOMAIN r <=> k \in DOMAIN config \/ Scalars(doc, i, k) # {}
  /\ \A k : Scalars(doc, i, k) # {} => r[k] = doc[C!Max(Scalars(doc, i, k))].value
  /\ \A k \in DOMAIN config : Scalars(doc, i, k) = {} => r[k] = config[k]

LEMMA MaxIsLast ==
  ASSUME NEW i \in Nat, NEW T, i \in T, \A j \in T : j \in Nat /\ j <= i
  PROVE  C!Max(T) = i
<1>1. \A x \in T : (\A y \in T : x >= y) => x = i
  OBVIOUS
<1>2. \A j \in T : i >= j
  OBVIOUS
<1>3. QED
  BY <1>1, <1>2 DEF C!Max

LEMMA ConfigStart ==
  ASSUME NEW doc, NEW config
  PROVE  ConfigIs(doc, 0, config, config)
<1>1. \A k : Scalars(doc, 0, k) = {}
  BY DEF Scalars
<1>2. QED
  BY <1>1 DEF ConfigIs

LEMMA ConfigNext ==
  ASSUME NEW doc, NEW i \in Nat, NEW config, NEW r, ConfigIs(doc, i, config, r),
         NEW key, key = C!PathAt(doc, i + 1)
  PROVE  ConfigIs(doc, i + 1, config,
                  IF C!Scalar(doc[i + 1]) THEN C!Set(r, key, doc[i + 1].value) ELSE r)
<1> DEFINE Here(k) == C!Scalar(doc[i + 1]) /\ k = key
           new == IF C!Scalar(doc[i + 1]) THEN C!Set(r, key, doc[i + 1].value) ELSE r
<1>1. ASSUME NEW k, ~ Here(k)
      PROVE  /\ Scalars(doc, i + 1, k) = Scalars(doc, i, k)
             /\ (k \in DOMAIN new <=> k \in DOMAIN r) /\ (k \in DOMAIN r => new[k] = r[k])
  <2>1. Scalars(doc, i + 1, k) = Scalars(doc, i, k)
    BY <1>1 DEF Scalars
  <2>2. CASE C!Scalar(doc[i + 1])
    <3>1. new = C!Set(r, key, doc[i + 1].value) /\ k # key
      BY <1>1, <2>2
    <3> HIDE DEF new
    <3>2. (k \in DOMAIN new <=> k \in DOMAIN r) /\ (k \in DOMAIN r => new[k] = r[k])
      BY <3>1 DEF C!Set
    <3>3. QED
      BY <2>1, <3>2
  <2>3. CASE ~ C!Scalar(doc[i + 1])
    BY <2>1, <2>3
  <2>4. QED
    BY <2>2, <2>3
<1>2. ASSUME NEW k, Here(k)
      PROVE  /\ i + 1 \in Scalars(doc, i + 1, k) /\ C!Max(Scalars(doc, i + 1, k)) = i + 1
             /\ k \in DOMAIN new /\ new[k] = doc[i + 1].value
  <2>1. i + 1 \in Scalars(doc, i + 1, k) /\ i + 1 \in Nat
    BY <1>2 DEF Scalars
  <2>2. \A j \in Scalars(doc, i + 1, k) : j \in Nat /\ j <= i + 1
    BY DEF Scalars
  <2>3. C!Max(Scalars(doc, i + 1, k)) = i + 1
    BY <2>1, <2>2, MaxIsLast
  <2>4. new = C!Set(r, key, doc[i + 1].value) /\ k = key
    BY <1>2
  <2> HIDE DEF new
  <2>5. k \in DOMAIN new /\ new[k] = doc[i + 1].value
    BY <2>4 DEF C!Set
  <2>6. QED
    BY <2>1, <2>3, <2>5
<1> HIDE DEF new, Here
<1>3. \A k : k \in DOMAIN new <=> k \in DOMAIN config \/ Scalars(doc, i + 1, k) # {}
  <2> SUFFICES ASSUME NEW k
               PROVE  k \in DOMAIN new <=> k \in DOMAIN config \/ Scalars(doc, i + 1, k) # {}
    OBVIOUS
  <2>1. CASE Here(k)
    BY <1>2, <2>1
  <2>2. CASE ~ Here(k)
    BY <1>1, <2>2 DEF ConfigIs
  <2>3. QED
    BY <2>1, <2>2
<1>4. ASSUME NEW k, Scalars(doc, i + 1, k) # {}
      PROVE  new[k] = doc[C!Max(Scalars(doc, i + 1, k))].value
  <2>1. CASE Here(k)
    BY <1>2, <2>1
  <2>2. CASE ~ Here(k)
    BY <1>1, <1>4, <2>2 DEF ConfigIs
  <2>3. QED
    BY <2>1, <2>2
<1>5. ASSUME NEW k \in DOMAIN config, Scalars(doc, i + 1, k) = {} PROVE new[k] = config[k]
  <2>1. ~ Here(k)
    BY <1>2, <1>5
  <2>2. QED
    BY <1>1, <1>5, <2>1 DEF ConfigIs
<1>6. QED
  BY <1>3, <1>4, <1>5 DEF ConfigIs, new

\* What has been read after each member.
Parsed(doc, config, f, i) ==
  /\ ConfigIs(doc, i, config, f[i].config)
  /\ i = 0 \/ KeyIs(doc, i, f[i].key)

LEMMA FirstKey ==
  ASSUME NEW doc, doc[1].depth = 1
  PROVE  KeyIs(doc, 1, Append(SubSeq(<<>>, 1, doc[1].depth - 1), doc[1].name))
<1> DEFINE e == doc[1].name
           k == Append(SubSeq(<<>>, 1, doc[1].depth - 1), e)
<1>1. SubSeq(<<>>, 1, 0) = <<>>
  OBVIOUS
<1>11. doc[1].depth - 1 = 0
  OBVIOUS
<1>2. k = <<e>>
  <2>1. k = Append(SubSeq(<<>>, 1, 0), e)
    <3> DEFINE q == doc[1].depth - 1
    <3>1. q = 0
      BY <1>11
    <3> HIDE DEF q, e
    <3>2. Append(SubSeq(<<>>, 1, q), e) = Append(SubSeq(<<>>, 1, 0), e)
      BY <3>1
    <3>3. QED
      BY <3>2 DEF q
  <2>2. Append(<<>>, e) = <<e>>
    OBVIOUS
  <2>3. QED
    BY <1>1, <2>1, <2>2
<1>3. Up(doc, 1, 1) = 1
  BY UpHere
<1>4. k \in Seq({e}) /\ Len(k) = 1 /\ k[1] = e
  <2> HIDE DEF e
  <2> QED BY <1>2
<1>5. \A d \in 1 .. doc[1].depth : d = 1
  OBVIOUS
<1> HIDE DEF k
<1>6. QED
  BY <1>3, <1>4, <1>5 DEF KeyIs, k, e

LEMMA ParsingIs ==
  ASSUME NEW S, NEW doc \in Seq(S), WellNested(doc), NEW config, NEW f,
         Parses(f, doc, config, Len(doc))
  PROVE  Parsed(doc, config, f, Len(doc))
<1> DEFINE n == Len(doc)
           T == {i \in Nat : i <= n => Parsed(doc, config, f, i)}
<1>1. n \in Nat
  OBVIOUS
<1>2. \A i \in 0 .. n : f[i] = IF i = 0 THEN [key |-> <<>>, config |-> config]
                               ELSE Parsing(doc, f[i - 1], i)
  BY DEF Parses
<1>3. 0 \in T
  <2>1. f[0] = [key |-> <<>>, config |-> config]
    BY <1>1, <1>2
  <2>2. QED
    BY <2>1, ConfigStart DEF Parsed
<1>4. ASSUME NEW i \in T PROVE i + 1 \in T
  <2> SUFFICES ASSUME i + 1 <= n PROVE Parsed(doc, config, f, i + 1)
    OBVIOUS
  <2>1. i \in Nat /\ i <= n /\ i + 1 \in 1 .. n /\ Parsed(doc, config, f, i)
    BY <1>1
  <2>2. f[i + 1] = Parsing(doc, f[i], i + 1)
    <3>1. i + 1 \in 0 .. n /\ i + 1 # 0 /\ i + 1 - 1 = i
      BY <2>1
    <3>2. QED
      BY <1>2, <3>1
  <2> DEFINE r == f[i]
  <2>3. PICK key :
          /\ key = Append(SubSeq(r.key, 1, doc[i + 1].depth - 1), doc[i + 1].name)
          /\ f[i + 1].key = key
          /\ f[i + 1].config = IF C!Scalar(doc[i + 1]) THEN C!Set(r.config, key, doc[i + 1].value)
                               ELSE r.config
    <3> DEFINE m == i + 1
    <3> HIDE DEF r, m
    <3>1. f[i + 1] = Parsing(doc, r, m)
      BY <2>2 DEF r, m
    <3>2. /\ Parsing(doc, r, m).key = NextKey(doc, r, m)
          /\ Parsing(doc, r, m).config =
               IF C!Scalar(doc[m]) THEN C!Set(r.config, NextKey(doc, r, m), doc[m].value) ELSE r.config
      BY ParsingFields, Zenon
    <3>3. NextKey(doc, r, m) = Append(SubSeq(r.key, 1, doc[m].depth - 1), doc[m].name)
      BY Zenon DEF NextKey
    <3>4. QED
      BY <3>1, <3>2, <3>3, Zenon DEF m
  <2>4. doc[i + 1].depth \in Nat /\ 1 <= doc[i + 1].depth
    BY <2>1 DEF WellNested
  <2>5. KeyIs(doc, i + 1, key)
    <3>1. CASE i = 0
      <4>1. r.key = <<>>
        BY <1>1, <1>2, <3>1
      <4>2. doc[1].depth = 1
        BY <2>1 DEF WellNested
      <4>3. key = Append(SubSeq(<<>>, 1, doc[1].depth - 1), doc[1].name)
        <5>1. i + 1 = 1
          BY <3>1
        <5>2. QED
          BY <2>3, <4>1, <5>1, Zenon
      <4> HIDE DEF r
      <4>4. QED
        BY <3>1, <4>2, <4>3, FirstKey
    <3>2. CASE i # 0
      <4>1. i + 1 \in 2 .. n /\ i \in 1 .. n /\ i + 1 - 1 = i /\ 1 <= i
        BY <2>1, <3>2
      <4>2. doc[i + 1].depth <= doc[i].depth + 1 /\ doc[i].depth \in Nat
        BY <4>1 DEF WellNested
      <4>3. KeyIs(doc, i, r.key)
        BY <2>1, <3>2 DEF Parsed
      <4> DEFINE q == r.key
      <4> HIDE DEF r
      <4>4. KeyIs(doc, i, q)
        BY <4>3
      <4> HIDE DEF q
      <4>5. KeyIs(doc, i + 1, Append(SubSeq(q, 1, doc[i + 1].depth - 1), doc[i + 1].name))
        BY <2>1, <2>4, <4>1, <4>2, <4>4, KeyNext
      <4>6. key = Append(SubSeq(q, 1, doc[i + 1].depth - 1), doc[i + 1].name)
        BY <2>3 DEF q, r
      <4>7. QED
        BY <4>5, <4>6
    <3>3. QED
      BY <3>1, <3>2
  <2>6. key = C!PathAt(doc, i + 1)
    BY <2>4, <2>5, KeyIsPath
  <2>7. ConfigIs(doc, i, config, r.config)
    BY <2>1 DEF Parsed
  <2> DEFINE c == r.config
  <2> HIDE DEF r
  <2>8. ConfigIs(doc, i, config, c)
    BY <2>7
  <2> HIDE DEF c
  <2>9. ConfigIs(doc, i + 1, config,
                 IF C!Scalar(doc[i + 1]) THEN C!Set(c, key, doc[i + 1].value) ELSE c)
    BY <2>1, <2>6, <2>8, ConfigNext
  <2>10. f[i + 1].config = IF C!Scalar(doc[i + 1]) THEN C!Set(c, key, doc[i + 1].value) ELSE c
    BY <2>3 DEF c
  <2>11. QED
    BY <2>3, <2>5, <2>9, <2>10 DEF Parsed
<1>5. T = Nat
  <2>1. T \in SUBSET Nat
    OBVIOUS
  <2> HIDE DEF T
  <2>2. QED
    BY <1>3, <1>4, <2>1, Induction
<1>6. QED
  BY <1>1, <1>5

\* iot_base_configuration_parse_object: each setting is kept under the names that
\* lead to it.
LEMMA ObjectIsParsed ==
  ASSUME NEW S, NEW doc \in Seq(S), WellNested(doc), NEW config
  PROVE  ConfigIs(doc, Len(doc), config, C!ParseObject(doc, config))
<1>1. PICK f : Parses(f, doc, config, Len(doc)) /\ C!ParseObject(doc, config) = f[Len(doc)].config
  BY ParseObjectIs
<1>2. Parsed(doc, config, f, Len(doc))
  BY <1>1, ParsingIs
<1>3. QED
  BY <1>1, <1>2 DEF Parsed

Ids == [uuid : 0 .. MaxIds, part : {"absent", "empty", "some", "whole", "mixed"}]
Stages == {"off", "create", "write", "ready", "own", "connected", "failed"}

FileTypes ==
  /\ global \in Files /\ own \in Files /\ where \in [Readers -> Stages]
  /\ device_file \in Ids /\ device_id \in [Readers -> Ids]
  /\ DOMAIN options_config = Readers
  /\ options_config = [p \in Readers |-> options_config[p]]
IdCounter == ids \in 0 .. MaxIds /\ alone \subseteq Readers

\* A program with no other in the middle of its start is the only one that starts,
\* and the file has no identifier yet; once it has started, its identifier is in
\* the file for good.
NoneBeside ==
  \A q \in alone : q \in C!Starting => C!Starting = {q} /\ ~ C!Printable(device_file)
IdKept == settled # {} => C!Starting = {} /\ settled = {device_file} /\ C!Printable(device_file)

GlobalRead(c) ==
  C!KeysOf(global) \subseteq DOMAIN c /\ \A k \in C!KeysOf(global) : c[k] = C!Setting(global, k)
BothRead(c) ==
  /\ C!KeysOf(own) \cup C!KeysOf(global) \subseteq DOMAIN c
  /\ \A k \in C!KeysOf(own) : c[k] = C!Setting(own, k)
  /\ \A k \in C!KeysOf(global) \ C!KeysOf(own) : c[k] = C!Setting(global, k)
SettingsRead ==
  \A p \in Readers : /\ where[p] = "own" => GlobalRead(options_config[p])
                     /\ where[p] = "connected" => BothRead(options_config[p])

FileInv == FileTypes /\ IdCounter /\ NoneBeside /\ IdKept /\ SettingsRead

LEMMA FileInit ==
  ASSUME FileBounds, C!Init
  PROVE  FileInv
<1>1. C!NoId \in Ids
  BY DEF FileBounds, C!NoId, Ids
<1>2. FileTypes
  BY <1>1 DEF C!Init, FileTypes, Stages
<1>3. IdCounter
  BY DEF C!Init, IdCounter, FileBounds
<1>4. NoneBeside /\ IdKept
  BY DEF C!Init, NoneBeside, IdKept
<1>5. SettingsRead
  BY DEF C!Init, SettingsRead
<1>6. QED
  BY <1>2, <1>3, <1>4, <1>5 DEF FileInv

\* The keys of a document, and their values, are what has been read at its end.
LEMMA KeysAre ==
  ASSUME FileBounds, NEW f \in Files, NEW k
  PROVE  LET doc == f.members
         IN  /\ k \in C!KeysOf(f) <=> Scalars(doc, Len(doc), k) # {}
             /\ C!Setting(f, k) = doc[C!Max(Scalars(doc, Len(doc), k))].value
<1> DEFINE doc == f.members
<1>1. DOMAIN doc = 1 .. Len(doc)
  BY DEF FileBounds
<1>2. {i \in DOMAIN f.members : C!Scalar(f.members[i]) /\ C!PathAt(f.members, i) = k}
        = Scalars(doc, Len(doc), k)
  BY <1>1 DEF Scalars
<1>3. k \in C!KeysOf(f) <=> Scalars(doc, Len(doc), k) # {}
  BY <1>2 DEF C!KeysOf
<1>4. C!Setting(f, k) = doc[C!Max(Scalars(doc, Len(doc), k))].value
  BY <1>2 DEF C!Setting
<1>5. QED
  BY <1>3, <1>4

LEMMA NoKeys ==
  ASSUME FileBounds, NEW f \in Files, f.state # "document"
  PROVE  C!KeysOf(f) = {}
<1>1. f.members = <<>>
  BY DEF FileBounds
<1>2. DOMAIN f.members = {}
  BY <1>1
<1>3. QED
  BY <1>2 DEF C!KeysOf

\* What a file gives to the settings.
LEMMA FileIsParsed ==
  ASSUME FileBounds, NEW f \in Files, NEW c
  PROVE  LET r == C!ParseObject(f.members, c)
         IN  /\ C!KeysOf(f) \cup DOMAIN c = DOMAIN r
             /\ \A k \in C!KeysOf(f) : r[k] = C!Setting(f, k)
             /\ \A k \in DOMAIN c \ C!KeysOf(f) : r[k] = c[k]
<1> DEFINE doc == f.members
           S == {doc[i] : i \in DOMAIN doc}
           r == C!ParseObject(doc, c)
<1>1. doc \in Seq(S) /\ WellNested(doc)
  BY DEF FileBounds
<1> HIDE DEF S
<1>2. ConfigIs(doc, Len(doc), c, r)
  BY <1>1, ObjectIsParsed
<1> HIDE DEF r
<1>3. \A k : k \in DOMAIN r <=> k \in DOMAIN c \/ k \in C!KeysOf(f)
  BY <1>2, KeysAre DEF ConfigIs
<1>4. \A k \in C!KeysOf(f) : r[k] = C!Setting(f, k)
  BY <1>2, KeysAre DEF ConfigIs
<1>5. \A k \in DOMAIN c \ C!KeysOf(f) : r[k] = c[k]
  BY <1>2, KeysAre DEF ConfigIs
<1>6. QED
  BY <1>3, <1>4, <1>5 DEF r

LEMMA ReadFileIs ==
  ASSUME FileBounds, FileTypes, NEW p \in Readers, NEW f \in Files, NEW next \in Stages,
         C!ReadFile(p, f, next)
  PROVE  /\ where' = [where EXCEPT ![p] = IF f.state = "unreadable" THEN "failed" ELSE next]
         /\ \A q \in Readers : q # p => options_config'[q] = options_config[q]
         /\ DOMAIN options_config' = Readers
         /\ options_config' = [q \in Readers |-> options_config'[q]]
         /\ C!KeysOf(f) \cup DOMAIN options_config[p] = DOMAIN options_config'[p]
         /\ \A k \in C!KeysOf(f) : options_config'[p][k] = C!Setting(f, k)
         /\ \A k \in DOMAIN options_config[p] \ C!KeysOf(f) :
              options_config'[p][k] = options_config[p][k]
<1> DEFINE c == options_config[p]
           r == IF f.state = "document" THEN C!ParseObject(f.members, c) ELSE c
<1>1. where' = [where EXCEPT ![p] = IF f.state = "unreadable" THEN "failed" ELSE next]
  BY DEF C!ReadFile, FileBounds
<1>2. options_config' = [options_config EXCEPT ![p] = r]
  BY DEF C!ReadFile
<1>3. /\ C!KeysOf(f) \cup DOMAIN c = DOMAIN r
      /\ \A k \in C!KeysOf(f) : r[k] = C!Setting(f, k)
      /\ \A k \in DOMAIN c \ C!KeysOf(f) : r[k] = c[k]
  <2>1. CASE f.state = "document"
    <3>1. r = C!ParseObject(f.members, c)
      BY <2>1
    <3> HIDE DEF r, c
    <3>2. QED
      BY <3>1, FileIsParsed, Zenon
  <2>2. CASE f.state # "document"
    BY <2>2, NoKeys
  <2>3. QED
    BY <2>1, <2>2
<1> HIDE DEF r
<1>4. options_config'[p] = r /\ DOMAIN options_config' = Readers
      /\ \A q \in Readers : q # p => options_config'[q] = options_config[q]
  BY <1>2 DEF FileTypes
<1>5. options_config' = [q \in Readers |-> options_config'[q]]
  BY <1>2 DEF FileTypes
<1>6. QED
  BY <1>1, <1>3, <1>4, <1>5

LEMMA ReadGlobalInv ==
  ASSUME FileBounds, FileInv, NEW p \in Readers, C!ReadGlobal(p),
         UNCHANGED <<global, own, device_file, device_id, ids, alone, settled>>
  PROVE  FileInv'
<1>1. C!ReadFile(p, global, "own") /\ where[p] \in {"ready", "failed"} /\ global \in Files /\ "own" \in Stages
  BY DEF C!ReadGlobal, FileInv, FileTypes, Stages
<1>2. /\ where' = [where EXCEPT ![p] = IF global.state = "unreadable" THEN "failed" ELSE "own"]
      /\ \A q \in Readers : q # p => options_config'[q] = options_config[q]
      /\ DOMAIN options_config' = Readers
      /\ options_config' = [q \in Readers |-> options_config'[q]]
      /\ C!KeysOf(global) \cup DOMAIN options_config[p] = DOMAIN options_config'[p]
      /\ \A k \in C!KeysOf(global) : options_config'[p][k] = C!Setting(global, k)
  BY <1>1, ReadFileIs DEF FileInv
<1>3. FileTypes'
  BY <1>2 DEF FileInv, FileTypes, Stages, Ids
<1>4. C!Starting' = C!Starting
  BY <1>1, <1>2 DEF C!Starting, FileInv, FileTypes
<1>5. IdCounter' /\ NoneBeside' /\ IdKept'
  BY <1>4 DEF FileInv, IdCounter, NoneBeside, IdKept, C!Printable
<1>6. GlobalRead(options_config'[p])
  BY <1>2 DEF GlobalRead
<1>7. SettingsRead'
  <2>1. \A c : (GlobalRead(c)' <=> GlobalRead(c)) /\ (BothRead(c)' <=> BothRead(c))
    BY DEF GlobalRead, BothRead, C!KeysOf, C!Setting, C!PathAt, C!Scalar
  <2>2. QED
    BY <1>2, <1>6 DEF SettingsRead, GlobalRead, BothRead, FileInv, FileTypes
<1>8. QED
  BY <1>3, <1>5, <1>7 DEF FileInv

LEMMA ReadOwnInv ==
  ASSUME FileBounds, FileInv, NEW p \in Readers, C!ReadOwn(p),
         UNCHANGED <<global, own, device_file, device_id, ids, alone, settled>>
  PROVE  FileInv'
<1>1. C!ReadFile(p, own, "connected") /\ where[p] = "own" /\ own \in Files /\ "connected" \in Stages
  BY DEF C!ReadOwn, FileInv, FileTypes, Stages
<1>2. /\ where' = [where EXCEPT ![p] = IF own.state = "unreadable" THEN "failed" ELSE "connected"]
      /\ \A q \in Readers : q # p => options_config'[q] = options_config[q]
      /\ DOMAIN options_config' = Readers
      /\ options_config' = [q \in Readers |-> options_config'[q]]
      /\ C!KeysOf(own) \cup DOMAIN options_config[p] = DOMAIN options_config'[p]
      /\ \A k \in C!KeysOf(own) : options_config'[p][k] = C!Setting(own, k)
      /\ \A k \in DOMAIN options_config[p] \ C!KeysOf(own) :
           options_config'[p][k] = options_config[p][k]
  BY <1>1, ReadFileIs DEF FileInv
<1>3. FileTypes'
  BY <1>2 DEF FileInv, FileTypes, Stages, Ids
<1>4. C!Starting' = C!Starting
  BY <1>1, <1>2 DEF C!Starting, FileInv, FileTypes
<1>5. IdCounter' /\ NoneBeside' /\ IdKept'
  BY <1>4 DEF FileInv, IdCounter, NoneBeside, IdKept, C!Printable
<1>6. BothRead(options_config'[p])
  <2>1. GlobalRead(options_config[p])
    BY <1>1 DEF FileInv, SettingsRead
  <2>2. QED
    BY <1>2, <2>1 DEF GlobalRead, BothRead
<1>7. SettingsRead'
  <2>1. \A c : (GlobalRead(c)' <=> GlobalRead(c)) /\ (BothRead(c)' <=> BothRead(c))
    BY DEF GlobalRead, BothRead, C!KeysOf, C!Setting, C!PathAt, C!Scalar
  <2>2. QED
    BY <1>2, <1>6, <2>1 DEF SettingsRead, GlobalRead, BothRead, FileInv, FileTypes
<1>8. QED
  BY <1>3, <1>5, <1>7 DEF FileInv

\* A program that leaves, or begins to: what the others have read is as it was.
LEMMA SettingsSame ==
  ASSUME FileTypes, SettingsRead, UNCHANGED <<global, own>>, NEW p \in Readers, NEW z,
         z \notin {"own", "connected"}, where' = [where EXCEPT ![p] = z],
         \A q \in Readers : q # p => options_config'[q] = options_config[q]
  PROVE  SettingsRead'
<1>1. \A c : (GlobalRead(c)' <=> GlobalRead(c)) /\ (BothRead(c)' <=> BothRead(c))
  BY DEF GlobalRead, BothRead, C!KeysOf, C!Setting, C!PathAt, C!Scalar
<1>2. \A q \in Readers : /\ q = p => where'[q] = z
                         /\ q # p => where'[q] = where[q]
  BY DEF FileTypes
<1>3. QED
  BY <1>1, <1>2 DEF SettingsRead, GlobalRead, BothRead

LEMMA LeaveInv ==
  ASSUME FileBounds, FileInv, NEW p \in Readers, C!Disconnect(p) \/ C!End(p),
         UNCHANGED <<global, own, device_file, device_id, ids, alone, settled>>
  PROVE  FileInv'
<1>1. \E z \in {"ready", "off"} : where' = [where EXCEPT ![p] = z]
  BY DEF C!Disconnect, C!End
<1>2. PICK z \in {"ready", "off"} : where' = [where EXCEPT ![p] = z]
  BY <1>1
<1>3. options_config' = options_config \/ options_config' = [options_config EXCEPT ![p] = <<>>]
  BY DEF C!Disconnect, C!End
<1>4. /\ \A q \in Readers : q # p => options_config'[q] = options_config[q]
      /\ DOMAIN options_config' = Readers
      /\ options_config' = [q \in Readers |-> options_config'[q]]
  BY <1>3 DEF FileInv, FileTypes
<1>5. FileTypes'
  BY <1>2, <1>4 DEF FileInv, FileTypes, Stages, Ids
<1>6. C!Starting' \subseteq C!Starting
  BY <1>2 DEF C!Starting, FileInv, FileTypes
<1>7. IdCounter' /\ NoneBeside' /\ IdKept'
  BY <1>6 DEF FileInv, IdCounter, NoneBeside, IdKept, C!Printable
<1>8. SettingsRead'
  BY <1>2, <1>4, SettingsSame DEF FileInv
<1>9. QED
  BY <1>5, <1>7, <1>8 DEF FileInv

LEMMA EditInv ==
  ASSUME FileBounds, FileInv, C!Edit
  PROVE  FileInv'
<1>1. /\ \A p \in Readers : where[p] \notin {"own", "connected"}
      /\ global' \in Files /\ own' \in Files
      /\ UNCHANGED <<device_file, where, device_id, options_config, ids, alone, settled>>
  BY DEF C!Edit, FileInv, FileTypes
<1>2. FileTypes'
  BY <1>1 DEF FileInv, FileTypes, Stages, Ids
<1>3. C!Starting' = C!Starting
  BY <1>1 DEF C!Starting
<1>4. IdCounter' /\ NoneBeside' /\ IdKept'
  BY <1>1, <1>3 DEF FileInv, IdCounter, NoneBeside, IdKept, C!Printable
<1>5. SettingsRead'
  BY <1>1 DEF SettingsRead
<1>6. QED
  BY <1>2, <1>4, <1>5 DEF FileInv

\* A program starts: its identifier is read, or made and written.
LEMMA ReadIdInv ==
  ASSUME FileBounds, FileInv, NEW p \in Readers, C!ReadId(p),
         UNCHANGED <<global, own, options_config>>
  PROVE  FileInv'
<1>1. /\ where[p] = "off" /\ C!Printable(device_file)
      /\ device_id' = [device_id EXCEPT ![p] = device_file]
      /\ where' = [where EXCEPT ![p] = "ready"]
      /\ settled' = IF C!Starting = {} THEN settled \cup {device_file} ELSE settled
      /\ UNCHANGED <<device_file, ids, alone>>
  BY DEF C!ReadId, C!Started
<1>2. FileTypes'
  BY <1>1 DEF FileInv, FileTypes, Stages, Ids
<1>3. C!Starting' = C!Starting /\ p \notin C!Starting
  BY <1>1 DEF C!Starting, FileInv, FileTypes
<1>4. NoneBeside' /\ IdKept'
  BY <1>1, <1>3 DEF FileInv, NoneBeside, IdKept, C!Printable
<1>5. IdCounter'
  BY <1>1 DEF FileInv, IdCounter
<1>6. SettingsRead'
  BY <1>1, SettingsSame DEF FileInv
<1>7. QED
  BY <1>2, <1>4, <1>5, <1>6 DEF FileInv

LEMMA GenerateIdInv ==
  ASSUME FileBounds, FileInv, NEW p \in Readers, C!GenerateId(p),
         UNCHANGED <<global, own, options_config>>
  PROVE  FileInv'
<1>1. /\ ~ C!Printable(device_file) /\ ids < MaxIds /\ ids' = ids + 1
      /\ device_id' = [device_id EXCEPT ![p] = [uuid |-> ids + 1, part |-> "whole"]]
      /\ where' = [where EXCEPT ![p] = "create"]
      /\ alone' = IF C!Starting = {} THEN {p} ELSE {}
      /\ UNCHANGED <<device_file, settled>>
  BY DEF C!GenerateId
<1>2. ids + 1 \in 0 .. MaxIds
  BY <1>1 DEF FileInv, IdCounter, FileBounds
<1>3. [uuid |-> ids + 1, part |-> "whole"] \in Ids
  BY <1>2 DEF Ids
<1>4. FileTypes'
  BY <1>1, <1>3 DEF FileInv, FileTypes, Stages, Ids
<1>5. settled = {}
  BY <1>1 DEF FileInv, IdKept
<1>6. NoneBeside' /\ IdKept'
  <2>1. C!Starting' \subseteq C!Starting \cup {p}
    BY <1>1 DEF C!Starting, FileInv, FileTypes
  <2>2. QED
    BY <1>1, <1>5, <2>1 DEF NoneBeside, IdKept, C!Printable
<1>7. IdCounter'
  BY <1>1, <1>2 DEF IdCounter
<1>8. SettingsRead'
  BY <1>1, SettingsSame DEF FileInv
<1>9. QED
  BY <1>4, <1>6, <1>7, <1>8 DEF FileInv

LEMMA CreateFileInv ==
  ASSUME FileBounds, FileInv, NEW p \in Readers, C!CreateFile(p) \/ C!WriteFails(p),
         UNCHANGED <<global, own, options_config>>
  PROVE  FileInv'
<1>1. /\ where[p] \in {"create", "write"}
      /\ \E z \in {"write", "off"} : where' = [where EXCEPT ![p] = z]
      /\ device_file' \in {C!Empty, device_file}
      /\ UNCHANGED <<device_id, ids, alone, settled>>
  BY DEF C!CreateFile, C!WriteFails
<1>2. PICK z \in {"write", "off"} : where' = [where EXCEPT ![p] = z]
  BY <1>1
<1>3. C!Empty \in Ids
  BY DEF C!Empty, Ids, FileBounds
<1>4. FileTypes'
  BY <1>1, <1>2, <1>3 DEF FileInv, FileTypes, Stages, Ids
<1>5. settled = {}
  BY <1>1 DEF FileInv, IdKept, C!Starting
<1>6. IdKept' /\ IdCounter' /\ NoneBeside'
  <2>1. C!Starting' \subseteq C!Starting
    BY <1>1, <1>2 DEF C!Starting, FileInv, FileTypes
  <2>2. C!Printable(device_file') => C!Printable(device_file)
    BY <1>1 DEF C!Printable, C!Empty
  <2>3. NoneBeside'
    BY <1>1, <2>1, <2>2 DEF NoneBeside, FileInv, C!Printable
  <2>4. QED
    BY <1>1, <1>5, <2>3 DEF IdKept, FileInv, IdCounter
<1>7. SettingsRead'
  BY <1>2, SettingsSame DEF FileInv
<1>8. QED
  BY <1>4, <1>6, <1>7 DEF FileInv

LEMMA WriteIdInv ==
  ASSUME FileBounds, FileInv, NEW p \in Readers, C!WriteId(p),
         UNCHANGED <<global, own, options_config>>
  PROVE  FileInv'
<1>1. PICK part \in {"some", "whole"} :
        LET id == [device_id[p] EXCEPT !.part = part]
        IN  /\ \/ device_file' = id
               \/ /\ part = "some" /\ C!Printable(device_file)
                  /\ device_file' = [id EXCEPT !.part = "mixed"]
            /\ C!Started(p, id, p \in alone)
  BY DEF C!WriteId
<1> DEFINE id == [device_id[p] EXCEPT !.part = part]
<1>2. where[p] = "write" /\ ids' = ids /\ alone' = alone
  BY DEF C!WriteId
<1>3. device_id[p] \in Ids
  BY DEF FileInv, FileTypes
<1>4. id \in Ids /\ C!Printable(id) /\ [id EXCEPT !.part = "mixed"] \in Ids
  BY <1>3 DEF Ids, C!Printable
<1>5. /\ device_file' \in {id, [id EXCEPT !.part = "mixed"]}
      /\ device_file' = id \/ C!Printable(device_file)
      /\ C!Started(p, id, p \in alone)
  BY <1>1
<1> HIDE DEF id
<1>6. /\ device_id' = [device_id EXCEPT ![p] = id]
      /\ where' = [where EXCEPT ![p] = "ready"]
      /\ settled' = IF p \in alone THEN settled \cup {id} ELSE settled
  BY <1>5 DEF C!Started
<1>7. FileTypes'
  BY <1>4, <1>5, <1>6 DEF FileInv, FileTypes, Stages, Ids
<1>8. settled = {} /\ p \in C!Starting
  BY <1>2 DEF FileInv, IdKept, C!Starting
<1>9. C!Starting' = C!Starting \ {p}
  BY <1>6 DEF C!Starting, FileInv, FileTypes
<1>10. IdKept'
  <2>1. CASE p \in alone
    <3>1. C!Starting = {p} /\ device_file' = id
      BY <1>5, <1>8, <2>1 DEF FileInv, NoneBeside
    <3>2. settled' = {device_file'} /\ C!Starting' = {}
      BY <1>6, <1>8, <1>9, <2>1, <3>1
    <3>3. QED
      BY <1>4, <3>1, <3>2 DEF IdKept, C!Printable
  <2>2. CASE p \notin alone
    BY <2>2, <1>6, <1>8 DEF IdKept
  <2>3. QED
    BY <2>1, <2>2
<1>11. NoneBeside'
  <2> SUFFICES ASSUME NEW q \in alone, q \in C!Starting' PROVE FALSE
    BY <1>2 DEF NoneBeside
  <2>1. C!Starting = {q}
    BY <1>9 DEF FileInv, NoneBeside
  <2>2. QED
    BY <1>8, <1>9, <2>1
<1>12. IdCounter'
  BY <1>2 DEF FileInv, IdCounter
<1>13. SettingsRead'
  BY <1>6, SettingsSame DEF FileInv
<1>14. QED
  BY <1>7, <1>10, <1>11, <1>12, <1>13 DEF FileInv

LEMMA FileNext == FileBounds /\ FileInv /\ [C!Next]_(C!vars) => FileInv'
<1> SUFFICES ASSUME FileBounds, FileInv, [C!Next]_(C!vars) PROVE FileInv'
  OBVIOUS
<1>1. ASSUME NEW p \in Readers,
             C!ReadId(p) \/ C!GenerateId(p) \/ C!CreateFile(p) \/ C!WriteId(p) \/ C!WriteFails(p),
             UNCHANGED <<global, own, options_config>>
      PROVE  FileInv'
  BY <1>1, ReadIdInv, GenerateIdInv, CreateFileInv, WriteIdInv
<1>2. ASSUME NEW p \in Readers,
             C!ReadGlobal(p) \/ C!ReadOwn(p) \/ C!Disconnect(p) \/ C!End(p),
             UNCHANGED <<global, own, device_file, device_id, ids, alone, settled>>
      PROVE  FileInv'
  BY <1>2, ReadGlobalInv, ReadOwnInv, LeaveInv
<1>3. CASE C!Edit
  BY <1>3, EditInv
<1>4. CASE UNCHANGED C!vars
  <2>1. \A c : (GlobalRead(c)' <=> GlobalRead(c)) /\ (BothRead(c)' <=> BothRead(c))
    BY <1>4 DEF C!vars, GlobalRead, BothRead, C!KeysOf, C!Setting, C!PathAt, C!Scalar
  <2>2. QED
    BY <1>4, <2>1 DEF C!vars, FileInv, FileTypes, Stages, Ids, IdCounter, NoneBeside, IdKept,
                      SettingsRead, C!Starting, C!Printable, GlobalRead, BothRead
<1>5. QED
  BY <1>1, <1>2, <1>3, <1>4 DEF C!Next

LEMMA FilesOfInv == FileInv => C!FilesAreRead /\ C!TypeOK
<1> SUFFICES ASSUME FileInv PROVE C!FilesAreRead /\ C!TypeOK
  OBVIOUS
<1>1. C!Cardinality(settled) <= 1
  <2>1. CASE settled = {}
    BY <2>1, FS_EmptySet DEF C!Cardinality, Cardinality
  <2>2. CASE settled = {device_file}
    <3>1. Cardinality({device_file}) = 1
      BY FS_Singleton
    <3>2. QED
      BY <2>2, <3>1 DEF C!Cardinality, Cardinality
  <2>3. QED
    BY <2>1, <2>2 DEF FileInv, IdKept
<1>2. C!FilesAreRead
  BY <1>1 DEF C!FilesAreRead, FileInv, SettingsRead, BothRead
<1>3. C!TypeOK
  BY DEF C!TypeOK, FileInv, FileTypes, IdCounter, Ids, Stages
<1>4. QED
  BY <1>2, <1>3

(* Whichever programs start, crash and connect, and whatever is written into *)
(* the files meanwhile: a connected program has every setting of its own     *)
(* file, and of the global one what its own does not give, each under the    *)
(* names that lead to it; and all programs with no other in the middle of    *)
(* its start while they start have one identifier.                           *)
THEOREM FilesAreReadRight ==
  ASSUME FileBounds
  PROVE  C!Spec => []C!FilesAreRead
<1>1. C!Init => FileInv
  BY FileInit
<1>2. FileInv /\ [C!Next]_(C!vars) => FileInv'
  BY FileNext
<1>3. FileInv => C!FilesAreRead
  BY FilesOfInv
<1>4. QED
  BY <1>1, <1>2, <1>3, PTL DEF C!Spec

-----------------------------------------------------------------------------
(***************************************************************************)
(* The two encoders of JSON.  Three bits to a level and a list of open     *)
(* nodes stand for the same structures.                                    *)
(***************************************************************************)
Marks ==
  [mark : J!Openers \cup J!Closers \cup {",", "key", "string", "primitive"},
   name : Members \cup {J!NoKey}]
Structures == {"array", "object"}
Nodes ==
  [kind : Structures \cup {"string", "primitive"}, key : Members \cup {J!NoKey}, parent : Nat]

JsonTypes ==
  /\ text \in Seq(Marks)
  /\ structs \in Seq(SUBSET {"array", "object", "parent"})
  /\ nodes \in Seq(Nodes) /\ j_cur \in Seq(Nat)
JsonCounter == calls \in 0 .. MaxCalls
JsonPhase == phase \in {"building", "ended", "spoiled"}

\* A node comes after the one that it is a member of.
ParentsFirst == \A n \in DOMAIN nodes : nodes[n].parent < n

\* The open nodes are structures, each after the one around it.
OpenNodes ==
  /\ \A i \in DOMAIN j_cur : j_cur[i] \in DOMAIN nodes /\ nodes[j_cur[i]].kind \in Structures
  /\ \A i, k \in DOMAIN j_cur : i < k => j_cur[i] < j_cur[k]

\* The two encoders have the same structures open.
SameOpen ==
  /\ Len(structs) = Len(j_cur)
  /\ \A i \in DOMAIN j_cur : structs[i] = {nodes[j_cur[i]].kind}

\* Nothing is written before the first structure, and a bracket first.
TextBegins ==
  phase = "building" =>
    IF j_cur = <<>> THEN text = <<>> /\ nodes = <<>>
    ELSE text # <<>> /\ text[1].mark \in J!Openers

JsonInv ==
  JsonTypes /\ JsonCounter /\ JsonPhase /\ ParentsFirst /\ OpenNodes /\ SameOpen /\ TextBegins

LEMMA JsonTypesOf == JsonInv => J!TypeOK
<1> SUFFICES ASSUME JsonInv PROVE J!TypeOK
  OBVIOUS
<1>1. \A i \in DOMAIN text :
        text[i].mark \in J!Openers \cup J!Closers \cup {",", "key", "string", "primitive"}
  <2>1. \A i \in DOMAIN text : text[i] \in Marks
    BY DEF JsonInv, JsonTypes
  <2>2. QED
    BY <2>1 DEF Marks
<1>2. \A n \in DOMAIN nodes : nodes[n].parent \in 0 .. n - 1
  <2>1. \A n \in DOMAIN nodes : n \in Nat /\ nodes[n] \in Nodes
    BY DEF JsonInv, JsonTypes
  <2>2. \A n \in DOMAIN nodes : nodes[n].parent \in Nat
    BY <2>1 DEF Nodes
  <2>3. QED
    BY <2>1, <2>2 DEF JsonInv, ParentsFirst
<1>3. j_cur \in Seq(DOMAIN nodes)
  <2>1. j_cur \in Seq(Nat) /\ \A i \in 1 .. Len(j_cur) : j_cur[i] \in DOMAIN nodes
    BY DEF JsonInv, JsonTypes, OpenNodes
  <2>2. QED
    BY <2>1
<1>4. QED
  BY <1>1, <1>2, <1>3 DEF J!TypeOK, JsonInv, JsonTypes, JsonCounter, JsonPhase

LEMMA JsonInit == MaxCalls \in Nat /\ J!Init => JsonInv
<1> SUFFICES ASSUME MaxCalls \in Nat, J!Init PROVE JsonInv
  OBVIOUS
<1> USE DEF J!Init
<1>1. JsonTypes
  BY DEF JsonTypes
<1>2. JsonCounter /\ JsonPhase
  BY DEF JsonCounter, JsonPhase
<1>3. ParentsFirst /\ OpenNodes /\ SameOpen /\ TextBegins
  BY DEF ParentsFirst, OpenNodes, SameOpen, TextBegins
<1>4. QED
  BY <1>1, <1>2, <1>3 DEF JsonInv

\* The structure that is open, as each encoder has it.
LEMMA OpenIs ==
  ASSUME JsonInv, j_cur # <<>>
  PROVE  /\ structs # <<>> /\ J!Current = j_cur[Len(j_cur)] /\ J!Current \in 1 .. Len(nodes)
         /\ J!KindOf(J!Current) \in Structures
         /\ J!KindOf(J!Current) = nodes[J!Current].kind
         /\ J!Last(structs) = {J!KindOf(J!Current)}
<1>1. Len(j_cur) \in DOMAIN j_cur /\ Len(structs) = Len(j_cur)
  BY DEF JsonInv, JsonTypes, SameOpen
<1>2. structs # <<>>
  BY <1>1 DEF JsonInv, JsonTypes
<1>3. J!Current = j_cur[Len(j_cur)]
  BY DEF J!Current, J!Last
<1>4. J!Current \in 1 .. Len(nodes) /\ nodes[J!Current].kind \in Structures
  BY <1>1, <1>3 DEF JsonInv, JsonTypes, OpenNodes
<1>5. J!KindOf(J!Current) = nodes[J!Current].kind
  BY <1>4 DEF J!KindOf, J!NoItem
<1>6. J!Last(structs) = {nodes[J!Current].kind}
  BY <1>1, <1>3 DEF J!Last, JsonInv, SameOpen
<1>7. QED
  BY <1>2, <1>3, <1>4, <1>5, <1>6

LEMMA NoneOpen ==
  ASSUME JsonInv, j_cur = <<>>
  PROVE  structs = <<>> /\ J!Current = 0 /\ J!KindOf(J!Current) = "none"
<1>1. Len(structs) = 0
  BY DEF JsonInv, SameOpen
<1>2. structs = <<>>
  BY <1>1 DEF JsonInv, JsonTypes
<1>3. QED
  BY <1>2 DEF J!Current, J!KindOf, J!NoItem

\* The calls of the library name the members of objects and nothing else, so
\* that no object is put around a key but the first one.
LEMMA NoParent ==
  ASSUME JsonInv, j_cur # <<>>, NEW key \in J!KeysHere
  PROVE  /\ ~ J!NeedsParent(J!Encoder, key)
         /\ ~ (key # J!NoKey /\ J!KindOf(J!Current) # "object")
         /\ key \in Members \cup {J!NoKey}
<1>1. J!KindOf(J!Current) \in Structures /\ J!Last(structs) = {J!KindOf(J!Current)}
      /\ structs # <<>>
  BY OpenIs
<1>2. CASE J!KindOf(J!Current) = "object"
  <2>1. J!InObject(J!Encoder)
    BY <1>1, <1>2 DEF J!InObject, J!Encoder
  <2>2. J!KeysHere = Members \ J!Taken
    BY <1>2 DEF J!KeysHere
  <2>3. QED
    BY <1>2, <2>1, <2>2 DEF J!NeedsParent
<1>3. CASE J!KindOf(J!Current) = "array"
  <2>1. key = J!NoKey
    BY <1>3 DEF J!KeysHere
  <2>2. QED
    BY <2>1 DEF J!NeedsParent
<1>4. QED
  BY <1>1, <1>2, <1>3 DEF Structures

\* A text that goes on from another one begins with the same mark.
GoesOn(t, s) == t \in Seq(Marks) /\ Len(s) <= Len(t) /\ (s # <<>> => t[1] = s[1])

LEMMA GoOn ==
  ASSUME NEW s \in Seq(Marks), NEW t, GoesOn(t, s), NEW m \in Marks
  PROVE  GoesOn(Append(t, m), s)
BY DEF GoesOn

LEMMA GoOnBy ==
  ASSUME NEW s \in Seq(Marks), NEW t \in Seq(Marks)
  PROVE  GoesOn(s \o t, s)
BY DEF GoesOn

LEMMA ShortOnes ==
  ASSUME NEW x, NEW y, NEW z
  PROVE  /\ Append(<<>>, x) = <<x>> /\ Append(<<x>>, y) = <<x, y>>
         /\ Append(<<x, y>>, z) = <<x, y, z>>
         /\ <<x>> \o <<>> \o <<>> = <<x>> /\ <<>> \o <<x>> \o <<>> = <<x>>
<1> DEFINE S == {x, y, z}
<1>1. <<x>> \in Seq(S) /\ <<x, y>> \in Seq(S) /\ <<x, y, z>> \in Seq(S)
  OBVIOUS
<1>2. /\ Append(<<x>>, y) \in Seq(S) /\ Len(Append(<<x>>, y)) = Len(<<x, y>>)
      /\ \A i \in 1 .. Len(Append(<<x>>, y)) : Append(<<x>>, y)[i] = <<x, y>>[i]
  BY <1>1
<1>3. /\ Append(<<x, y>>, z) \in Seq(S) /\ Len(Append(<<x, y>>, z)) = Len(<<x, y, z>>)
      /\ \A i \in 1 .. Len(Append(<<x, y>>, z)) : Append(<<x, y>>, z)[i] = <<x, y, z>>[i]
  BY <1>1
<1> HIDE DEF S
<1>4. Append(<<x>>, y) = <<x, y>>
  BY <1>1, <1>2, SeqEqual, Zenon
<1>5. Append(<<x, y>>, z) = <<x, y, z>>
  BY <1>1, <1>3, SeqEqual, Zenon
<1>6. Append(<<>>, x) = <<x>> /\ <<x>> \o <<>> = <<x>> /\ <<>> \o <<x>> = <<x>>
  OBVIOUS
<1>7. <<x>> \o <<>> \o <<>> = <<x>> /\ <<>> \o <<x>> \o <<>> = <<x>>
  BY <1>6, Zenon
<1>8. QED
  BY <1>4, <1>5, <1>6, <1>7

LEMMA ShortSeqs ==
  ASSUME NEW S, NEW x \in S, NEW y \in S
  PROVE  <<x>> \in Seq(S) /\ <<x, y>> \in Seq(S)
OBVIOUS

LEMMA MarksAre ==
  /\ \A m \in {"[", "{", "]", "}", ",", "string", "primitive"} : J!Mark(m) \in Marks
  /\ \A key \in Members \cup {J!NoKey} : J!Key(key) \in Marks
  /\ \A s \in Structures : J!Opening(s) \in Marks /\ J!Opening(s).mark \in J!Openers
BY DEF J!Mark, J!Key, Marks, J!Openers, J!Closers, J!Opening, Structures

LEMMA PutIs ==
  ASSUME NEW t, NEW ss, NEW m
  PROVE  J!Put([text |-> t, structs |-> ss], m) = [text |-> Append(t, m), structs |-> ss]
<1> DEFINE e == [text |-> t, structs |-> ss]
<1>1. e.text = t /\ e.structs = ss
  OBVIOUS
<1>2. J!Put(e, m) = [e EXCEPT !.text = Append(e.text, m)]
  BY DEF J!Put
<1>3. \A a, b, c : [[text |-> a, structs |-> b] EXCEPT !.text = c] = [text |-> c, structs |-> b]
  OBVIOUS
<1>4. QED
  BY <1>1, <1>2, <1>3

LEMMA CommaIs ==
  ASSUME NEW t \in Seq(Marks), NEW ss
  PROVE  /\ J!Comma([text |-> t, structs |-> ss]).structs = ss
         /\ GoesOn(J!Comma([text |-> t, structs |-> ss]).text, t)
         /\ J!Comma([text |-> t, structs |-> ss])
              = [text |-> J!Comma([text |-> t, structs |-> ss]).text, structs |-> ss]
<1> DEFINE e == [text |-> t, structs |-> ss]
<1>1. J!Put(e, J!Mark(",")) = [text |-> Append(t, J!Mark(",")), structs |-> ss]
  BY PutIs
<1>2. GoesOn(t, t) /\ GoesOn(Append(t, J!Mark(",")), t)
  <2>1. GoesOn(t, t)
    BY DEF GoesOn
  <2>2. QED
    BY <2>1, GoOn, MarksAre
<1>3. CASE t = <<>> \/ J!Last(t).mark \in J!Openers
  BY <1>2, <1>3 DEF J!Comma
<1>4. CASE ~ (t = <<>> \/ J!Last(t).mark \in J!Openers)
  <2>1. J!Comma(e) = [text |-> Append(t, J!Mark(",")), structs |-> ss]
    BY <1>1, <1>4 DEF J!Comma
  <2> DEFINE u == Append(t, J!Mark(","))
  <2>2. GoesOn(u, t)
    BY <1>2
  <2> HIDE DEF u
  <2>3. J!Comma([text |-> t, structs |-> ss]) = [text |-> u, structs |-> ss]
    BY <2>1 DEF u
  <2>4. QED
    BY <2>2, <2>3
<1>5. QED
  BY <1>3, <1>4

\* A key is written, where it does not begin an object.
LEMMA EncodeKeyIs ==
  ASSUME NEW t \in Seq(Marks), NEW ss, NEW key \in Members \cup {J!NoKey},
         ~ J!NeedsParent([text |-> t, structs |-> ss], key)
  PROVE  \E k \in Seq(Marks) :
           /\ J!EncodeKey([text |-> t, structs |-> ss], key) = [text |-> k, structs |-> ss]
           /\ GoesOn(k, t)
<1> DEFINE e == [text |-> t, structs |-> ss]
           c == J!Comma(e).text
<1>1. J!WithParent(e, key) = e
  BY DEF J!WithParent
<1>2. J!Comma(e) = [text |-> c, structs |-> ss] /\ GoesOn(c, t)
  BY CommaIs
<1>3. GoesOn(Append(c, J!Key(key)), t)
  BY <1>2, GoOn, MarksAre
<1> HIDE DEF c
<1>4. J!Put([text |-> c, structs |-> ss], J!Key(key)) = [text |-> Append(c, J!Key(key)), structs |-> ss]
  BY PutIs
<1>5. CASE key # J!NoKey \/ J!InObject(e)
  BY <1>1, <1>2, <1>3, <1>4, <1>5 DEF J!EncodeKey, GoesOn
<1>6. CASE ~ (key # J!NoKey \/ J!InObject(e))
  BY <1>1, <1>2, <1>6 DEF J!EncodeKey, GoesOn
<1>7. QED
  BY <1>5, <1>6

LEMMA StructStartIs ==
  ASSUME JsonInv, j_cur # <<>>, NEW key \in J!KeysHere, NEW s \in Structures,
         J!Becomes(J!StructStart(J!Encoder, key, s))
  PROVE  structs' = Append(structs, {s}) /\ GoesOn(text', text)
<1>1. ~ J!NeedsParent(J!Encoder, key) /\ key \in Members \cup {J!NoKey}
  BY NoParent
<1>2. PICK k \in Seq(Marks) :
        /\ J!EncodeKey([text |-> text, structs |-> structs], key) = [text |-> k, structs |-> structs]
        /\ GoesOn(k, text)
  BY <1>1, EncodeKeyIs DEF J!Encoder, JsonInv, JsonTypes
<1>3. GoesOn(Append(k, J!Opening(s)), text)
  BY <1>2, GoOn, MarksAre DEF JsonInv, JsonTypes
<1>4. J!StructStart(J!Encoder, key, s)
        = [text |-> Append(k, J!Opening(s)), structs |-> Append(structs, {s})]
  <2>1. ~ J!AddedParent([text |-> text, structs |-> structs], key)
    BY <1>1 DEF J!AddedParent, J!Encoder
  <2>2. /\ [text |-> k, structs |-> structs].text = k
        /\ [text |-> k, structs |-> structs].structs = structs
    OBVIOUS
  <2>3. QED
    BY <1>2, <2>1, <2>2 DEF J!StructStart, J!Encoder
<1> DEFINE u == Append(k, J!Opening(s))
           v == Append(structs, {s})
<1> HIDE DEF u, v
<1>5. text' = u /\ structs' = v
  BY <1>4 DEF J!Becomes, u, v
<1>6. QED
  BY <1>3, <1>5 DEF u, v

\* The first structure of a document, with a name or without.
LEMMA FirstStartIs ==
  ASSUME text = <<>>, structs = <<>>,
         NEW key \in Members \cup {J!NoKey}, NEW s \in Structures,
         J!Becomes(J!StructStart(J!Encoder, key, s))
  PROVE  /\ structs' = IF key # J!NoKey THEN <<{"object"}, {s}>> ELSE <<{s}>>
         /\ text' \in Seq(Marks) /\ text' # <<>> /\ text'[1].mark \in J!Openers
<1> DEFINE none == [text |-> <<>>, structs |-> <<>>]
<1>0. \A t, ss : [text |-> t, structs |-> ss].text = t /\ [text |-> t, structs |-> ss].structs = ss
  OBVIOUS
<1>1. J!Encoder = none /\ ~ J!AddedParent(none, key) /\ ~ J!InObject(none) /\ J!Comma(none) = none
  BY DEF J!Encoder, J!AddedParent, J!InObject, J!Comma
<1>2. CASE key = J!NoKey
  <2>1. J!EncodeKey(none, key) = none
    BY <1>1, <1>2 DEF J!EncodeKey, J!WithParent, J!NeedsParent
  <2>2. J!StructStart(none, key, s) = [text |-> <<J!Opening(s)>>, structs |-> <<{s}>>]
    <3>1. none.text = <<>> /\ none.structs = <<>>
      BY <1>0
    <3>2. Append(<<>>, J!Opening(s)) = <<J!Opening(s)>> /\ Append(<<>>, {s}) = <<{s}>>
      OBVIOUS
    <3>3. QED
      BY <1>1, <2>1, <3>1, <3>2, Zenon DEF J!StructStart
  <2>3. text' = <<J!Opening(s)>> /\ structs' = <<{s}>>
    BY <1>0, <1>1, <2>2 DEF J!Becomes
  <2>4. J!Opening(s) \in Marks /\ J!Opening(s).mark \in J!Openers
    BY MarksAre
  <2> DEFINE m == J!Opening(s)
  <2> HIDE DEF m
  <2>5. text' = <<m>> /\ m \in Marks /\ m.mark \in J!Openers
    BY <2>3, <2>4 DEF m
  <2>6. QED
    BY <1>2, <2>3, <2>5
<1>3. CASE key # J!NoKey
  <2> DEFINE b == J!Mark("{")
             o == <<{"object"}>>
             p == [text |-> <<b>>, structs |-> o]
  <2>1. J!NeedsParent(none, key)
    BY <1>1, <1>3 DEF J!NeedsParent
  <2>2. J!WithParent(none, key) = p
    <3>1. none.text = <<>> /\ none.structs = <<>>
      BY <1>0
    <3>2. Append(<<>>, J!Mark("{")) = <<b>> /\ Append(<<>>, {"object"}) = o
      OBVIOUS
    <3>3. QED
      BY <1>1, <2>1, <3>1, <3>2, Zenon DEF J!WithParent
  <2>3. b.mark = "{"
    BY DEF J!Mark
  <2>4. J!Comma(p) = p
    BY <1>0, <2>3 DEF J!Comma, J!Last, J!Openers
  <2>5. J!EncodeKey(none, key) = [text |-> <<b, J!Key(key)>>, structs |-> o]
    <3>1. J!Put(p, J!Key(key)) = [text |-> Append(<<b>>, J!Key(key)), structs |-> o]
      BY PutIs, Zenon
    <3>2. Append(<<b>>, J!Key(key)) = <<b, J!Key(key)>>
      BY ShortOnes, Zenon
    <3>3. QED
      BY <1>3, <2>2, <2>4, <3>1, <3>2, Zenon DEF J!EncodeKey
  <2>6. J!StructStart(none, key, s)
          = [text |-> <<b, J!Key(key), J!Opening(s)>>, structs |-> <<{"object"}, {s}>>]
    <3>1. /\ J!EncodeKey(none, key).text = <<b, J!Key(key)>>
          /\ J!EncodeKey(none, key).structs = o
      BY <1>0, <2>5
    <3>2. /\ Append(<<b, J!Key(key)>>, J!Opening(s)) = <<b, J!Key(key), J!Opening(s)>>
          /\ Append(o, {s}) = <<{"object"}, {s}>>
      BY ShortOnes, Zenon
    <3>3. QED
      BY <1>1, <3>1, <3>2, Zenon DEF J!StructStart
  <2>7. text' = <<b, J!Key(key), J!Opening(s)>> /\ structs' = <<{"object"}, {s}>>
    <3> HIDE DEF b
    <3>1. /\ J!StructStart(none, key, s).text = <<b, J!Key(key), J!Opening(s)>>
          /\ J!StructStart(none, key, s).structs = <<{"object"}, {s}>>
      BY <2>6
    <3>2. /\ text' = J!StructStart(none, key, s).text
          /\ structs' = J!StructStart(none, key, s).structs
      BY <1>0, <1>1, Zenon DEF J!Becomes
    <3>3. QED
      BY <3>1, <3>2, Zenon
  <2> DEFINE k == J!Key(key)
             m == J!Opening(s)
  <2>8. b \in Marks /\ k \in Marks /\ m \in Marks /\ b.mark \in J!Openers
    BY <2>3, MarksAre DEF J!Openers
  <2> HIDE DEF b, k, m
  <2>9. text' = <<b, k, m>>
    BY <2>7 DEF k, m
  <2>10. QED
    BY <1>3, <2>7, <2>8, <2>9
<1>4. QED
  BY <1>2, <1>3

LEMMA EncodeValueIs ==
  ASSUME JsonInv, j_cur # <<>>, NEW key \in J!KeysHere, NEW m \in {"string", "primitive"},
         J!Becomes(J!EncodeValue(J!Encoder, key, m))
  PROVE  structs' = structs /\ GoesOn(text', text)
<1>1. ~ J!NeedsParent(J!Encoder, key) /\ key \in Members \cup {J!NoKey} /\ structs # <<>>
  BY NoParent, OpenIs
<1>2. PICK k \in Seq(Marks) :
        /\ J!EncodeKey([text |-> text, structs |-> structs], key) = [text |-> k, structs |-> structs]
        /\ GoesOn(k, text)
  BY <1>1, EncodeKeyIs DEF J!Encoder, JsonInv, JsonTypes
<1> DEFINE u == Append(k, J!Mark(m))
<1>3. GoesOn(u, text)
  BY <1>2, GoOn, MarksAre DEF JsonInv, JsonTypes
<1>4. J!Put([text |-> k, structs |-> structs], J!Mark(m)) = [text |-> u, structs |-> structs]
  BY PutIs
<1> HIDE DEF u
<1>5. J!EncodeValue(J!Encoder, key, m) = [text |-> u, structs |-> structs]
  <2>1. ~ J!AddedParent([text |-> text, structs |-> structs], key)
    BY <1>1 DEF J!AddedParent, J!Encoder
  <2>2. [text |-> text, structs |-> structs].structs = structs
    OBVIOUS
  <2>3. QED
    BY <1>1, <1>2, <1>4, <2>1, <2>2 DEF J!EncodeValue, J!Encoder
<1>6. text' = u /\ structs' = structs
  BY <1>5 DEF J!Becomes
<1>7. QED
  BY <1>3, <1>6

LEMMA StructEndIs ==
  ASSUME JsonInv, j_cur # <<>>, NEW s \in Structures,
         J!Becomes(J!StructEnd(J!Encoder, s))
  PROVE  /\ structs' = IF s = J!KindOf(J!Current) THEN SubSeq(structs, 1, Len(structs) - 1) ELSE structs
         /\ GoesOn(text', text)
<1>1. structs # <<>> /\ J!Last(structs) = {J!KindOf(J!Current)} /\ J!KindOf(J!Current) \in Structures
  BY OpenIs
<1>2. J!Encoder.text = text /\ J!Encoder.structs = structs
  BY DEF J!Encoder
<1>3. J!Ends(J!Encoder, s) <=> s = J!KindOf(J!Current)
  BY <1>1, <1>2 DEF J!Ends
<1>4. text \in Seq(Marks)
  BY DEF JsonInv, JsonTypes
<1>5. CASE s = J!KindOf(J!Current)
  <2> DEFINE c == J!Closing({s})
             u == text \o c
             v == SubSeq(structs, 1, Len(structs) - 1)
  <2>1. c \in Seq(Marks)
    <3>1. J!Mark("]") \in Marks /\ J!Mark("}") \in Marks
      BY MarksAre
    <3> DEFINE m == J!Mark("]")
               n == J!Mark("}")
    <3> HIDE DEF m, n
    <3>2. c = <<m>> \/ c = <<n>>
      <4>1. s = "array" \/ s = "object"
        BY DEF Structures
      <4>2. CASE s = "array"
        <5>1. c = <<m>> \o <<>> \o <<>>
          BY <4>2 DEF J!Closing, m
        <5>2. QED
          BY <5>1, ShortOnes, Zenon
      <4>3. CASE s = "object"
        <5>1. c = <<>> \o <<n>> \o <<>>
          BY <4>3 DEF J!Closing, n
        <5>2. QED
          BY <5>1, ShortOnes, Zenon
      <4>4. QED
        BY <4>1, <4>2, <4>3
    <3>3. m \in Marks /\ n \in Marks
      BY <3>1 DEF m, n
    <3>4. QED
      BY <3>2, <3>3
  <2> HIDE DEF c
  <2>2. GoesOn(u, text)
    BY <1>4, <2>1, GoOnBy
  <2>3. J!StructEnd(J!Encoder, s) = [text |-> u, structs |-> v]
    BY <1>1, <1>2, <1>3, <1>5 DEF J!StructEnd, J!Front, c
  <2> HIDE DEF u, v
  <2>4. text' = u /\ structs' = v
    BY <2>3 DEF J!Becomes
  <2>5. QED
    BY <1>5, <2>2, <2>4 DEF v
<1>6. CASE s # J!KindOf(J!Current)
  BY <1>2, <1>3, <1>4, <1>6 DEF J!StructEnd, J!Becomes, GoesOn
<1>7. QED
  BY <1>5, <1>6

\* The last of some numbers up to n.
LEMMA LastNumber ==
  ASSUME NEW n \in Nat, NEW S \in SUBSET (0 .. n), S # {}
  PROVE  J!Max(S) \in S /\ \A y \in S : y <= J!Max(S)
<1> DEFINE T == {k \in Nat : n - k \in S}
<1>1. T \in SUBSET Nat /\ T # {}
  <2>1. PICK x \in S : TRUE
    OBVIOUS
  <2>2. n - x \in Nat /\ n - (n - x) = x
    OBVIOUS
  <2>3. QED
    BY <2>1, <2>2
<1>2. PICK k \in T : \A m \in T : k <= m
  <2> HIDE DEF T
  <2> QED BY <1>1, LeastNumber
<1>3. \A y \in S : n - k >= y
  <2>1. \A y \in S : n - y \in T
    OBVIOUS
  <2>2. QED
    BY <1>2, <2>1
<1>4. \E x \in S : \A y \in S : x >= y
  BY <1>3
<1>5. QED
  BY <1>4 DEF J!Max

\* The brace is a mark of the text, and so is the place to which it is cut.
LEMMA BraceIs ==
  ASSUME NEW t \in Seq(Marks), t # <<>>
  PROVE  /\ J!Brace(t) \in DOMAIN t
         /\ J!CutAt(t) \in 1 .. J!Brace(t)
         /\ J!CutAt(t) = 1 \/ t[J!CutAt(t)].mark \in J!Openers \cup {","}
<1> DEFINE S == {1} \cup {i \in DOMAIN t :
                   /\ t[i].mark = "{"
                   /\ J!Cardinality({j \in i + 1 .. Len(t) : t[j].mark = "{"})
                        = J!Cardinality({j \in i + 1 .. Len(t) : t[j].mark = "}"})}
<1>2. J!Max(S) \in S
  <2>1. S \in SUBSET (0 .. Len(t)) /\ S # {} /\ Len(t) \in Nat
    <3>1. S \subseteq {1} \cup DOMAIN t
      BY Zenon
    <3>2. 1 \in S
      OBVIOUS
    <3> HIDE DEF S
    <3>3. QED
      BY <3>1, <3>2
  <2> HIDE DEF S
  <2>2. QED
    BY <2>1, LastNumber
<1>3. J!Brace(t) \in DOMAIN t
  <2>1. J!Brace(t) = J!Max(S)
    BY DEF J!Brace
  <2>2. S \subseteq {1} \cup DOMAIN t
    BY Zenon
  <2> HIDE DEF S
  <2>3. QED
    <3>1. J!Brace(t) \in {1} \cup DOMAIN t
      BY <1>2, <2>1, <2>2, Zenon
    <3>2. QED
      BY <3>1
<1> DEFINE b == J!Brace(t)
           R == {1} \cup {i \in 1 .. b - 2 : t[i].mark \in J!Openers \cup {","}}
<1> HIDE DEF b
<1>4. b \in DOMAIN t
  BY <1>3 DEF b
<1>5. J!Max(R) \in R
  <2>1. R \in SUBSET (0 .. b) /\ R # {} /\ b \in Nat
    <3>1. R \subseteq {1} \cup (1 .. b - 2) /\ 1 \in R
      BY Zenon
    <3> HIDE DEF R
    <3>2. QED
      BY <1>4, <3>1
  <2> HIDE DEF R
  <2>2. QED
    BY <2>1, LastNumber
<1>6. J!CutAt(t) = J!Max(R)
  BY DEF J!CutAt, b
<1>7. J!CutAt(t) \in 1 .. b /\ (J!CutAt(t) = 1 \/ t[J!CutAt(t)].mark \in J!Openers \cup {","})
  <2>1. \A i \in R : i = 1 \/ (i \in 1 .. b - 2 /\ t[i].mark \in J!Openers \cup {","})
    BY Zenon
  <2>2. J!CutAt(t) \in R
    BY <1>5, <1>6, Zenon
  <2> HIDE DEF R
  <2> DEFINE c == J!CutAt(t)
  <2>3. c = 1 \/ (c \in 1 .. b - 2 /\ t[c].mark \in J!Openers \cup {","})
    BY <2>1, <2>2
  <2> HIDE DEF c
  <2>4. c \in 1 .. b /\ (c = 1 \/ t[c].mark \in J!Openers \cup {","})
    <3>1. CASE c = 1
      BY <1>4, <3>1
    <3>2. CASE c # 1
      <4>1. c \in 1 .. b
        <5>1. c \in 1 .. b - 2
          BY <2>3, <3>2
        <5>2. b \in Nat
          BY <1>4
        <5>3. QED
          BY <5>1, <5>2
      <4>2. QED
        BY <2>3, <3>2, <4>1
    <3>3. QED
      BY <3>1, <3>2
  <2>5. QED
    BY <2>4 DEF c
<1>8. QED
  BY <1>3, <1>7 DEF b
\* The text of an object is taken away, with its key and the mark before it.
LEMMA CancelText ==
  ASSUME JsonInv, j_cur # <<>>, phase = "building", J!Becomes(J!ObjectCancel(J!Encoder))
  PROVE  /\ structs' = SubSeq(structs, 1, Len(structs) - 1)
         /\ text' \in Seq(Marks)
         /\ structs' = <<>> => text' = <<>>
         /\ J!Keyed(text) /\ text[J!CutAt(text)].mark = "," =>
              (text' # <<>> /\ text'[1] = text[1]) \/ structs' = <<>>
<1>1. text \in Seq(Marks) /\ text # <<>> /\ text[1].mark \in J!Openers
  BY DEF JsonInv, JsonTypes, TextBegins
<1> DEFINE b == J!Brace(text)
           c == J!CutAt(text)
<1>2. b \in DOMAIN text /\ c \in 1 .. b
  BY <1>1, BraceIs
<1>3. text[c].mark = "," => c # 1
  BY <1>1 DEF J!Openers
<1> DEFINE n == IF J!Keyed(text) THEN c - 1 ELSE b
           levels == SubSeq(structs, 1, Len(structs) - 1)
           u == IF levels = <<>> THEN <<>> ELSE SubSeq(text, 1, n)
<1>4. J!Encoder.text = text /\ J!Encoder.structs = structs
  BY DEF J!Encoder
<1>5. J!ObjectCancel(J!Encoder) = [structs |-> levels, text |-> u]
  BY <1>4 DEF J!ObjectCancel, J!Front
<1> HIDE DEF levels, u
<1>6. structs' = levels /\ text' = u
  BY <1>5 DEF J!Becomes
<1> HIDE DEF c
<1>7. n \in 0 .. Len(text)
  <2>1. b \in Nat /\ c \in Nat /\ 1 <= b /\ b <= Len(text) /\ 1 <= c /\ c <= b /\ Len(text) \in Nat
    BY <1>1, <1>2
  <2> HIDE DEF b
  <2>2. QED
    BY <2>1
<1>8. ASSUME J!Keyed(text), text[c].mark = "," PROVE n > 0
  <2>0. n = c - 1
    BY <1>8
  <2>1. n = c - 1 /\ c # 1 /\ c \in Nat /\ 1 <= c
    <3>1. c # 1
      BY <1>3, <1>8
    <3> HIDE DEF n, b
    <3>2. QED
      BY <1>2, <2>0, <3>1
  <2> HIDE DEF n
  <2>2. QED
    BY <2>1
<1> HIDE DEF n
<1>9. /\ SubSeq(text, 1, n) \in Seq(Marks)
      /\ n > 0 => SubSeq(text, 1, n) # <<>> /\ SubSeq(text, 1, n)[1] = text[1]
  BY <1>1, <1>7
<1>10. QED
  <2>1. structs' = SubSeq(structs, 1, Len(structs) - 1)
    BY <1>6 DEF levels
  <2>2. text' = IF structs' = <<>> THEN <<>> ELSE SubSeq(text, 1, n)
    BY <1>6 DEF u
  <2>3. text' \in Seq(Marks) /\ (structs' = <<>> => text' = <<>>)
    BY <1>9, <2>2
  <2>4. ASSUME J!Keyed(text), text[J!CutAt(text)].mark = ","
        PROVE  (text' # <<>> /\ text'[1] = text[1]) \/ structs' = <<>>
    BY <2>4, <1>8, <1>9, <2>2 DEF c
  <2>5. QED
    BY <2>1, <2>3, <2>4

LEMMA ClearText ==
  ASSUME JsonInv, j_cur # <<>>, phase = "building", J!Becomes(J!ObjectClear(J!Encoder))
  PROVE  structs' = structs /\ text' \in Seq(Marks) /\ text' # <<>> /\ text'[1] = text[1]
<1>1. text \in Seq(Marks) /\ text # <<>>
  BY DEF JsonInv, JsonTypes, TextBegins
<1> DEFINE b == J!Brace(text)
<1>2. b \in DOMAIN text
  BY <1>1, BraceIs
<1>3. J!ObjectClear(J!Encoder) = [text |-> SubSeq(text, 1, b), structs |-> structs]
  <2>1. \A a, s, t : [[text |-> a, structs |-> s] EXCEPT !.text = t] = [text |-> t, structs |-> s]
    OBVIOUS
  <2>2. [text |-> text, structs |-> structs].text = text
    OBVIOUS
  <2>3. QED
    BY <2>1, <2>2, Zenon DEF J!ObjectClear, J!Encoder
<1> DEFINE u == SubSeq(text, 1, b)
<1> HIDE DEF b
<1>4. u \in Seq(Marks) /\ u # <<>> /\ u[1] = text[1]
  BY <1>1, <1>2
<1> HIDE DEF u
<1>5. text' = u /\ structs' = structs
  <2>1. J!ObjectClear(J!Encoder) = [text |-> u, structs |-> structs]
    BY <1>3 DEF u, b
  <2>2. QED
    BY <2>1 DEF J!Becomes
<1>6. QED
  BY <1>4, <1>5

-----------------------------------------------------------------------------
\* A node is added, or two: the object around the first name of a document.
LEMMA AddedIs ==
  ASSUME JsonInv, phase = "building", NEW key \in J!KeysHere,
         NEW kind_ \in Structures \cup {"string", "primitive"}, j_cur # <<>>
  PROVE  \E e \in Nodes : /\ J!Added(key, kind_) = <<e>> /\ e.kind = kind_ /\ e.parent <= Len(nodes)
                          /\ e.key = key /\ e.parent = J!Current
<1>1. ~ (key # J!NoKey /\ J!KindOf(J!Current) # "object") /\ key \in Members \cup {J!NoKey}
  BY NoParent
<1>2. J!Current \in 1 .. Len(nodes)
  BY OpenIs
<1> DEFINE e == [kind |-> kind_, key |-> key, parent |-> J!Current]
<1>3. J!Added(key, kind_) = <<e>>
  BY <1>1 DEF J!Added
<1>4. e \in Nodes
  BY <1>1, <1>2 DEF Nodes
<1>5. e.kind = kind_ /\ e.parent <= Len(nodes) /\ e.key = key /\ e.parent = J!Current
  BY <1>2
<1>6. QED
  BY <1>3, <1>4, <1>5

\* The nodes and the open ones, when one node is added.
LEMMA OneAdded ==
  ASSUME JsonInv, phase = "building", NEW key \in J!KeysHere,
         NEW kind_ \in Structures \cup {"string", "primitive"}, j_cur # <<>>,
         J!AddNode(key, kind_)
  PROVE  \E e \in Nodes :
           /\ e.kind = kind_ /\ e.parent <= Len(nodes) /\ e.key = key /\ e.parent = J!Current
           /\ nodes' = Append(nodes, e)
           /\ j_cur' = IF kind_ \in Structures THEN Append(j_cur, Len(nodes) + 1) ELSE j_cur
<1>1. PICK e \in Nodes : /\ J!Added(key, kind_) = <<e>> /\ e.kind = kind_ /\ e.parent <= Len(nodes)
                         /\ e.key = key /\ e.parent = J!Current
  BY AddedIs
<1>2. nodes \in Seq(Nodes) /\ j_cur \in Seq(Nat)
  BY DEF JsonInv, JsonTypes
<1>3. nodes' = nodes \o <<e>>
  BY <1>1 DEF J!AddNode
<1>4. nodes' = Append(nodes, e)
  BY <1>2, <1>3
<1>5. Len(<<e>>) = 1
  OBVIOUS
<1>6. j_cur' = IF kind_ \notin {"array", "object"} THEN j_cur
               ELSE j_cur \o [n \in 1 .. 1 |-> Len(nodes) + n]
  BY <1>1, <1>5 DEF J!AddNode
<1>7. [n \in 1 .. 1 |-> Len(nodes) + n] = <<Len(nodes) + 1>>
  BY <1>2
<1>8. j_cur \o <<Len(nodes) + 1>> = Append(j_cur, Len(nodes) + 1)
  BY <1>2
<1>9. QED
  BY <1>1, <1>4, <1>6, <1>7, <1>8 DEF Structures

LEMMA FirstAdded ==
  ASSUME nodes = <<>>, j_cur = <<>>, NEW key \in Members \cup {J!NoKey}, NEW s \in Structures,
         J!AddNode(key, s)
  PROVE  IF key # J!NoKey
         THEN \E o \in Nodes, e \in Nodes :
                /\ o.kind = "object" /\ o.parent = 0 /\ o.key = J!NoKey
                /\ e.kind = s /\ e.parent = 1 /\ e.key = key
                /\ nodes' = <<o, e>> /\ j_cur' = <<1, 2>>
         ELSE \E e \in Nodes :
                /\ e.kind = s /\ e.parent = 0 /\ e.key = J!NoKey
                /\ nodes' = <<e>> /\ j_cur' = <<1>>
<1>1. J!Current = 0 /\ J!KindOf(J!Current) = "none" /\ Len(nodes) = 0
  BY DEF J!Current, J!KindOf, J!NoItem
<1>2. s \in {"array", "object"}
  BY DEF Structures
<1>3. CASE key # J!NoKey
  <2> DEFINE o == [kind |-> "object", key |-> J!NoKey, parent |-> 0]
             e == [kind |-> s, key |-> key, parent |-> 1]
  <2>1. J!Added(key, s) = <<o, e>>
    BY <1>1, <1>3 DEF J!Added
  <2>2. o \in Nodes /\ e \in Nodes
    BY DEF Nodes, Structures
  <2>3. /\ o.kind = "object" /\ o.parent = 0 /\ o.key = J!NoKey
        /\ e.kind = s /\ e.parent = 1 /\ e.key = key
    OBVIOUS
  <2> HIDE DEF o, e
  <2>4. nodes' = <<>> \o <<o, e>>
        /\ j_cur' = <<>> \o [n \in 1 .. Len(<<o, e>>) |-> 0 + n]
    BY <1>1, <1>2, <2>1 DEF J!AddNode
  <2>5. <<>> \o <<o, e>> = <<o, e>>
    BY <2>2
  <2>6. [n \in 1 .. Len(<<o, e>>) |-> 0 + n] = <<1, 2>>
    OBVIOUS
  <2>7. <<>> \o <<1, 2>> = <<1, 2>>
    OBVIOUS
  <2>8. nodes' = <<o, e>> /\ j_cur' = <<1, 2>>
    BY <2>4, <2>5, <2>6, <2>7
  <2>9. QED
    BY <1>3, <2>2, <2>3, <2>8
<1>4. CASE key = J!NoKey
  <2> DEFINE e == [kind |-> s, key |-> key, parent |-> 0]
  <2>1. J!Added(key, s) = <<e>>
    BY <1>1, <1>4 DEF J!Added
  <2>2. e \in Nodes
    BY DEF Nodes, Structures
  <2>3. e.kind = s /\ e.parent = 0 /\ e.key = J!NoKey
    BY <1>4
  <2> HIDE DEF e
  <2>4. nodes' = <<>> \o <<e>>
        /\ j_cur' = <<>> \o [n \in 1 .. Len(<<e>>) |-> 0 + n]
    BY <1>1, <1>2, <2>1 DEF J!AddNode
  <2>5. <<>> \o <<e>> = <<e>>
    OBVIOUS
  <2>6. [n \in 1 .. Len(<<e>>) |-> 0 + n] = <<1>>
    OBVIOUS
  <2>7. <<>> \o <<1>> = <<1>>
    OBVIOUS
  <2>8. nodes' = <<e>> /\ j_cur' = <<1>>
    BY <2>4, <2>5, <2>6, <2>7
  <2>9. QED
    BY <1>4, <2>2, <2>3, <2>8
<1>5. QED
  BY <1>3, <1>4

\* What an added node keeps: the open nodes, and those around them.
LEMMA NodesGrow ==
  ASSUME JsonInv, NEW e \in Nodes, e.parent <= Len(nodes), nodes' = Append(nodes, e)
  PROVE  /\ nodes' \in Seq(Nodes) /\ Len(nodes') = Len(nodes) + 1 /\ nodes'[Len(nodes) + 1] = e
         /\ \A n \in DOMAIN nodes : n \in DOMAIN nodes' /\ nodes'[n] = nodes[n]
         /\ ParentsFirst'
<1>1. nodes \in Seq(Nodes)
  BY DEF JsonInv, JsonTypes
<1>2. /\ nodes' \in Seq(Nodes) /\ Len(nodes') = Len(nodes) + 1 /\ nodes'[Len(nodes) + 1] = e
      /\ \A n \in DOMAIN nodes : n \in DOMAIN nodes' /\ nodes'[n] = nodes[n]
  BY <1>1
<1>3. ASSUME NEW n \in DOMAIN nodes' PROVE nodes'[n].parent < n
  <2>1. CASE n \in DOMAIN nodes
    BY <1>2, <2>1 DEF JsonInv, ParentsFirst
  <2>2. CASE n \notin DOMAIN nodes
    <3>1. n = Len(nodes) + 1
      BY <1>1, <1>2, <2>2
    <3>2. e.parent \in Nat
      BY DEF Nodes
    <3>3. Len(nodes) \in Nat
      BY <1>1
    <3>4. QED
      BY <1>2, <3>1, <3>2, <3>3
  <2>3. QED
    BY <2>1, <2>2
<1>4. QED
  BY <1>2, <1>3 DEF ParentsFirst

LEMMA StartInv ==
  ASSUME JsonInv, J!Start
  PROVE  JsonTypes' /\ ParentsFirst' /\ OpenNodes' /\ SameOpen' /\ TextBegins'
<1>1. PICK s \in Structures, key \in J!KeysHere :
        J!Becomes(J!StructStart(J!Encoder, key, s)) /\ J!AddNode(key, s)
  BY DEF J!Start, Structures
<1>2. phase = "building" /\ phase' = phase
  BY DEF J!Start, J!Call
<1>3. CASE j_cur # <<>>
  <2>1. structs' = Append(structs, {s}) /\ GoesOn(text', text)
    BY <1>1, <1>3, StructStartIs
  <2>2. PICK e \in Nodes :
          /\ e.kind = s /\ e.parent <= Len(nodes)
          /\ nodes' = Append(nodes, e)
          /\ j_cur' = Append(j_cur, Len(nodes) + 1)
    BY <1>1, <1>2, <1>3, OneAdded
  <2>3. /\ nodes' \in Seq(Nodes) /\ Len(nodes') = Len(nodes) + 1 /\ nodes'[Len(nodes) + 1] = e
        /\ \A n \in DOMAIN nodes : n \in DOMAIN nodes' /\ nodes'[n] = nodes[n]
        /\ ParentsFirst'
    BY <2>2, NodesGrow
  <2>4. /\ Len(nodes) \in Nat /\ DOMAIN nodes = 1 .. Len(nodes) /\ DOMAIN nodes' = 1 .. Len(nodes')
        /\ j_cur \in Seq(Nat) /\ structs \in Seq(SUBSET {"array", "object", "parent"})
        /\ text \in Seq(Marks)
    BY <2>3 DEF JsonInv, JsonTypes
  <2> DEFINE k == Len(j_cur)
             n == Len(nodes)
  <2>5. /\ j_cur' \in Seq(Nat) /\ Len(j_cur') = k + 1 /\ j_cur'[k + 1] = n + 1 /\ k \in Nat
        /\ \A i \in 1 .. k : j_cur'[i] = j_cur[i]
    BY <2>2, <2>4
  <2>6. /\ structs' \in Seq(SUBSET {"array", "object", "parent"})
        /\ Len(structs') = Len(structs) + 1 /\ structs'[Len(structs) + 1] = {s}
        /\ \A i \in 1 .. Len(structs) : structs'[i] = structs[i]
    <3>1. {s} \in SUBSET {"array", "object", "parent"}
      BY DEF Structures
    <3>2. QED
      BY <2>1, <2>4, <3>1
  <2>7. JsonTypes'
    BY <2>1, <2>3, <2>5, <2>6 DEF JsonTypes, GoesOn
  <2>8. OpenNodes /\ SameOpen /\ DOMAIN j_cur = 1 .. k /\ DOMAIN j_cur' = 1 .. k + 1
    BY <2>4, <2>5 DEF JsonInv
  <2>9. OpenNodes'
    <3>1. ASSUME NEW i \in DOMAIN j_cur'
          PROVE  j_cur'[i] \in DOMAIN nodes' /\ nodes'[j_cur'[i]].kind \in Structures
      BY <2>2, <2>3, <2>4, <2>5, <2>8 DEF OpenNodes
    <3>2. ASSUME NEW i \in DOMAIN j_cur', NEW l \in DOMAIN j_cur', i < l
          PROVE  j_cur'[i] < j_cur'[l]
      <4>1. i \in 1 .. k
        BY <2>5, <2>8, <3>2
      <4>2. j_cur[i] \in 1 .. n
        BY <2>4, <2>8, <4>1 DEF OpenNodes
      <4>3. CASE l \in 1 .. k
        BY <2>5, <2>8, <3>2, <4>1, <4>3 DEF OpenNodes
      <4>4. CASE l = k + 1
        <5>1. j_cur'[i] = j_cur[i] /\ j_cur'[l] = n + 1
          BY <2>5, <4>1, <4>4
        <5>2. QED
          BY <2>4, <4>2, <5>1
      <4>5. QED
        BY <2>5, <2>8, <4>3, <4>4
    <3>3. QED
      BY <3>1, <3>2 DEF OpenNodes
  <2>10. SameOpen'
    <3>1. Len(structs) = k
      BY <2>8 DEF SameOpen
    <3>2. ASSUME NEW i \in DOMAIN j_cur' PROVE structs'[i] = {nodes'[j_cur'[i]].kind}
      <4>1. CASE i \in 1 .. k
        BY <2>3, <2>5, <2>6, <2>8, <3>1, <4>1 DEF SameOpen, OpenNodes
      <4>2. CASE i = k + 1
        BY <2>2, <2>3, <2>5, <2>6, <3>1, <4>2
      <4>3. QED
        BY <2>5, <2>8, <4>1, <4>2
    <3>3. QED
      BY <2>5, <2>6, <3>1, <3>2 DEF SameOpen
  <2>11. TextBegins'
    BY <1>2, <1>3, <2>1, <2>4, <2>5 DEF JsonInv, TextBegins, GoesOn
  <2>12. QED
    BY <2>3, <2>7, <2>9, <2>10, <2>11
<1>4. CASE j_cur = <<>>
  <2>1. text = <<>> /\ nodes = <<>> /\ structs = <<>>
    BY <1>2, <1>4, NoneOpen DEF JsonInv, TextBegins
  <2>2. key \in Members \cup {J!NoKey}
    BY <1>4, NoneOpen DEF J!KeysHere
  <2>3. /\ structs' = IF key # J!NoKey THEN <<{"object"}, {s}>> ELSE <<{s}>>
        /\ text' \in Seq(Marks) /\ text' # <<>> /\ text'[1].mark \in J!Openers
    BY <1>1, <2>1, <2>2, FirstStartIs
  <2>4. j_cur' # <<>> => TextBegins'
    BY <2>3 DEF TextBegins
  <2>5. {"object"} \in SUBSET {"array", "object", "parent"} /\ {s} \in SUBSET {"array", "object", "parent"}
    BY DEF Structures
  <2>6. CASE key # J!NoKey
    <3>1. PICK o \in Nodes, e \in Nodes :
            /\ o.kind = "object" /\ o.parent = 0 /\ e.kind = s /\ e.parent = 1
            /\ nodes' = <<o, e>> /\ j_cur' = <<1, 2>>
      BY <1>1, <1>4, <2>1, <2>2, <2>6, FirstAdded
    <3>2. structs' = <<{"object"}, {s}>>
      BY <2>3, <2>6
    <3>3. JsonTypes'
      <4>1. structs' \in Seq(SUBSET {"array", "object", "parent"})
        BY <2>5, <3>2, ShortSeqs, Zenon
      <4>2. nodes' \in Seq(Nodes) /\ j_cur' \in Seq(Nat)
        BY <3>1, ShortSeqs
      <4>3. QED
        BY <2>3, <4>1, <4>2 DEF JsonTypes
    <3>4. ParentsFirst'
      BY <3>1 DEF ParentsFirst
    <3>5. OpenNodes'
      BY <3>1 DEF OpenNodes, Structures
    <3>6. SameOpen'
      BY <3>1, <3>2 DEF SameOpen
    <3>7. j_cur' # <<>>
      BY <3>1
    <3>8. QED
      BY <2>4, <3>7, <3>3, <3>4, <3>5, <3>6
  <2>7. CASE key = J!NoKey
    <3>1. PICK e \in Nodes :
            e.kind = s /\ e.parent = 0 /\ nodes' = <<e>> /\ j_cur' = <<1>>
      BY <1>1, <1>4, <2>1, <2>2, <2>7, FirstAdded
    <3>2. structs' = <<{s}>>
      BY <2>3, <2>7
    <3>3. JsonTypes'
      <4>1. structs' \in Seq(SUBSET {"array", "object", "parent"})
        BY <2>5, <3>2, ShortSeqs, Zenon
      <4>2. nodes' \in Seq(Nodes) /\ j_cur' \in Seq(Nat)
        BY <3>1, ShortSeqs
      <4>3. QED
        BY <2>3, <4>1, <4>2 DEF JsonTypes
    <3>4. ParentsFirst' /\ OpenNodes' /\ SameOpen'
      BY <3>1, <3>2 DEF ParentsFirst, OpenNodes, SameOpen
    <3>5. j_cur' # <<>>
      BY <3>1
    <3>6. QED
      BY <2>4, <3>3, <3>4, <3>5
  <2>8. QED
    BY <2>6, <2>7
<1>5. QED
  BY <1>3, <1>4

LEMMA ValueInv ==
  ASSUME JsonInv, J!Value
  PROVE  JsonTypes' /\ ParentsFirst' /\ OpenNodes' /\ SameOpen' /\ TextBegins'
<1>1. PICK m \in {"string", "primitive"}, key \in J!KeysHere :
        J!Becomes(J!EncodeValue(J!Encoder, key, m)) /\ J!AddNode(key, m)
  BY DEF J!Value
<1>2. phase = "building" /\ phase' = phase /\ j_cur # <<>>
  BY DEF J!Value, J!Call
<1>3. structs' = structs /\ GoesOn(text', text)
  BY <1>1, <1>2, EncodeValueIs
<1>4. PICK e \in Nodes :
        /\ e.kind = m /\ e.parent <= Len(nodes)
        /\ nodes' = Append(nodes, e)
        /\ j_cur' = j_cur
  <2>1. m \notin Structures
    BY DEF Structures
  <2>2. QED
    BY <1>1, <1>2, <2>1, OneAdded
<1>5. /\ nodes' \in Seq(Nodes)
      /\ \A n \in DOMAIN nodes : n \in DOMAIN nodes' /\ nodes'[n] = nodes[n]
      /\ ParentsFirst'
  BY <1>4, NodesGrow
<1>6. JsonTypes'
  BY <1>3, <1>4, <1>5 DEF JsonInv, JsonTypes, GoesOn
<1>7. OpenNodes'
  BY <1>4, <1>5 DEF JsonInv, OpenNodes
<1>8. SameOpen'
  BY <1>3, <1>4, <1>5 DEF JsonInv, OpenNodes, SameOpen
<1>9. TextBegins'
  <2>1. text # <<>> /\ text[1].mark \in J!Openers /\ text \in Seq(Marks)
    BY <1>2 DEF JsonInv, JsonTypes, TextBegins
  <2>2. text' # <<>> /\ text'[1].mark \in J!Openers
    BY <1>3, <2>1 DEF GoesOn
  <2>3. QED
    BY <1>2, <1>4, <2>2 DEF TextBegins
<1>10. QED
  BY <1>5, <1>6, <1>7, <1>8, <1>9

\* The open nodes, when the last is closed.
LEMMA LastClosed ==
  ASSUME JsonInv, j_cur # <<>>, j_cur' = SubSeq(j_cur, 1, Len(j_cur) - 1),
         structs' = SubSeq(structs, 1, Len(structs) - 1),
         \A i \in 1 .. Len(j_cur) - 1 : j_cur[i] \in DOMAIN nodes' /\ nodes'[j_cur[i]] = nodes[j_cur[i]]
  PROVE  /\ j_cur' \in Seq(Nat) /\ structs' \in Seq(SUBSET {"array", "object", "parent"})
         /\ OpenNodes' /\ SameOpen' /\ (j_cur' = <<>> <=> structs' = <<>>)
<1> DEFINE k == Len(j_cur)
<1>1. /\ j_cur \in Seq(Nat) /\ structs \in Seq(SUBSET {"array", "object", "parent"})
      /\ OpenNodes /\ SameOpen /\ Len(structs) = k
  BY DEF JsonInv, JsonTypes, SameOpen
<1>2. k \in Nat /\ k >= 1 /\ DOMAIN j_cur = 1 .. k
  BY <1>1
<1>3. /\ j_cur' \in Seq(Nat) /\ Len(j_cur') = k - 1 /\ DOMAIN j_cur' = 1 .. k - 1
      /\ \A i \in 1 .. k - 1 : j_cur'[i] = j_cur[i]
  BY <1>1, <1>2
<1>4. /\ structs' \in Seq(SUBSET {"array", "object", "parent"}) /\ Len(structs') = k - 1
      /\ \A i \in 1 .. k - 1 : structs'[i] = structs[i]
  BY <1>1, <1>2
<1>5. \A i \in 1 .. k - 1 : i \in DOMAIN j_cur
  BY <1>2
<1>6. OpenNodes'
  <2>1. \A i \in 1 .. k - 1 : j_cur[i] \in DOMAIN nodes /\ nodes[j_cur[i]].kind \in Structures
    BY <1>1, <1>5 DEF OpenNodes
  <2>2. \A i \in 1 .. k - 1 : j_cur'[i] \in DOMAIN nodes' /\ nodes'[j_cur'[i]].kind \in Structures
    BY <1>3, <2>1
  <2>3. \A i, l \in 1 .. k - 1 : i < l => j_cur[i] < j_cur[l]
    BY <1>1, <1>5 DEF OpenNodes
  <2>4. \A i, l \in 1 .. k - 1 : i < l => j_cur'[i] < j_cur'[l]
    BY <1>3, <2>3
  <2>5. QED
    BY <1>3, <2>2, <2>4 DEF OpenNodes
<1>7. SameOpen'
  <2>1. ASSUME NEW i \in 1 .. k - 1 PROVE structs'[i] = {nodes'[j_cur'[i]].kind}
    <3>1. structs[i] = {nodes[j_cur[i]].kind}
      BY <1>1, <1>5 DEF SameOpen
    <3>2. structs'[i] = structs[i] /\ j_cur'[i] = j_cur[i] /\ nodes'[j_cur[i]] = nodes[j_cur[i]]
      BY <1>3, <1>4
    <3>3. QED
      BY <3>1, <3>2
  <2>2. QED
    BY <1>3, <1>4, <2>1 DEF SameOpen
<1>8. j_cur' = <<>> <=> structs' = <<>>
  BY <1>2, <1>3, <1>4
<1>9. QED
  BY <1>3, <1>4, <1>6, <1>7, <1>8

LEMMA EndInv ==
  ASSUME JsonInv, J!End
  PROVE  JsonTypes' /\ ParentsFirst' /\ OpenNodes' /\ SameOpen' /\ TextBegins'
<1>1. PICK s \in Structures : J!Becomes(J!StructEnd(J!Encoder, s)) /\ J!EndNode(s)
  BY DEF J!End, Structures
<1>2. /\ phase = "building" /\ j_cur # <<>> /\ nodes' = nodes
      /\ phase' = IF j_cur' = <<>> THEN "ended" ELSE phase
  BY DEF J!End, J!Call
<1>3. /\ structs' = IF s = J!KindOf(J!Current) THEN SubSeq(structs, 1, Len(structs) - 1) ELSE structs
      /\ GoesOn(text', text)
  BY <1>1, <1>2, StructEndIs
<1>4. j_cur' = IF s = J!KindOf(J!Current) THEN SubSeq(j_cur, 1, Len(j_cur) - 1) ELSE j_cur
  BY <1>1 DEF J!EndNode, J!Front
<1>5. ParentsFirst'
  BY <1>2 DEF JsonInv, ParentsFirst
<1>6. TextBegins'
  <2>1. text # <<>> /\ text[1].mark \in J!Openers /\ text \in Seq(Marks)
    BY <1>2 DEF JsonInv, JsonTypes, TextBegins
  <2>2. text' # <<>> /\ text'[1].mark \in J!Openers
    BY <1>3, <2>1 DEF GoesOn
  <2>3. phase' = "building" => j_cur' # <<>>
    BY <1>2
  <2>4. QED
    BY <2>2, <2>3 DEF TextBegins
<1>7. CASE s = J!KindOf(J!Current)
  <2>1. \A i \in 1 .. Len(j_cur) - 1 : j_cur[i] \in DOMAIN nodes' /\ nodes'[j_cur[i]] = nodes[j_cur[i]]
    BY <1>2 DEF JsonInv, JsonTypes, OpenNodes
  <2>2. /\ j_cur' \in Seq(Nat) /\ structs' \in Seq(SUBSET {"array", "object", "parent"})
        /\ OpenNodes' /\ SameOpen'
    BY <1>2, <1>3, <1>4, <1>7, <2>1, LastClosed
  <2>3. JsonTypes'
    BY <1>2, <1>3, <2>2 DEF JsonInv, JsonTypes, GoesOn
  <2>4. QED
    BY <1>5, <1>6, <2>2, <2>3
<1>8. CASE s # J!KindOf(J!Current)
  <2>1. JsonTypes'
    BY <1>2, <1>3, <1>4, <1>8 DEF JsonInv, JsonTypes, GoesOn
  <2>2. OpenNodes' /\ SameOpen'
    BY <1>2, <1>3, <1>4, <1>8 DEF JsonInv, OpenNodes, SameOpen
  <2>3. QED
    BY <1>5, <1>6, <2>1, <2>2
<1>9. QED
  BY <1>7, <1>8

\* The nodes up to one of them.
LEMMA NodesCut ==
  ASSUME JsonInv, NEW n \in 0 .. Len(nodes), nodes' = SubSeq(nodes, 1, n)
  PROVE  /\ nodes' \in Seq(Nodes) /\ DOMAIN nodes' = 1 .. n
         /\ \A i \in 1 .. n : nodes'[i] = nodes[i]
         /\ ParentsFirst'
<1>1. nodes \in Seq(Nodes)
  BY DEF JsonInv, JsonTypes
<1>2. /\ nodes' \in Seq(Nodes) /\ DOMAIN nodes' = 1 .. n
      /\ \A i \in 1 .. n : nodes'[i] = nodes[i] /\ i \in DOMAIN nodes
  BY <1>1
<1>3. ParentsFirst'
  BY <1>2 DEF JsonInv, ParentsFirst
<1>4. QED
  BY <1>2, <1>3

LEMMA CancelInv ==
  ASSUME JsonInv, J!Cancel
  PROVE  JsonTypes' /\ ParentsFirst' /\ OpenNodes' /\ SameOpen' /\ TextBegins' /\ JsonPhase'
<1>1. /\ phase = "building" /\ J!KindOf(J!Current) = "object"
      /\ J!Becomes(J!ObjectCancel(J!Encoder))
      /\ nodes' = SubSeq(nodes, 1, J!Current - 1)
      /\ j_cur' = SubSeq(j_cur, 1, Len(j_cur) - 1)
      /\ phase' = IF Len(j_cur) = 1 THEN "ended"
                  ELSE IF J!Keyed(text) /\ text[J!CutAt(text)].mark = "," THEN phase
                  ELSE "spoiled"
  BY DEF J!Cancel, J!Call, J!Front
<1>2. j_cur # <<>>
  BY <1>1, NoneOpen
<1>3. J!Current = j_cur[Len(j_cur)] /\ J!Current \in 1 .. Len(nodes)
  BY <1>2, OpenIs
<1> DEFINE c == J!Current
           k == Len(j_cur)
<1>4. /\ structs' = SubSeq(structs, 1, Len(structs) - 1)
      /\ text' \in Seq(Marks)
      /\ structs' = <<>> => text' = <<>>
      /\ J!Keyed(text) /\ text[J!CutAt(text)].mark = "," =>
           (text' # <<>> /\ text'[1] = text[1]) \/ structs' = <<>>
  BY <1>1, <1>2, CancelText
<1>5. nodes \in Seq(Nodes) /\ j_cur \in Seq(Nat) /\ k \in Nat /\ k >= 1 /\ Len(nodes) \in Nat
  BY <1>2 DEF JsonInv, JsonTypes
<1> HIDE DEF c
<1>6. c = j_cur[k] /\ c \in 1 .. Len(nodes) /\ c - 1 \in 0 .. Len(nodes) /\ nodes' = SubSeq(nodes, 1, c - 1)
  <2>1. c = j_cur[k] /\ c \in 1 .. Len(nodes) /\ nodes' = SubSeq(nodes, 1, c - 1)
    BY <1>1, <1>3 DEF c
  <2>2. QED
    BY <1>5, <2>1
<1>7. /\ nodes' \in Seq(Nodes) /\ DOMAIN nodes' = 1 .. c - 1
      /\ \A i \in 1 .. c - 1 : nodes'[i] = nodes[i]
      /\ ParentsFirst'
  <2> DEFINE n == c - 1
  <2> HIDE DEF n
  <2>1. n \in 0 .. Len(nodes) /\ nodes' = SubSeq(nodes, 1, n)
    BY <1>6 DEF n
  <2>2. /\ nodes' \in Seq(Nodes) /\ DOMAIN nodes' = 1 .. n
        /\ \A i \in 1 .. n : nodes'[i] = nodes[i]
        /\ ParentsFirst'
    BY <2>1, NodesCut
  <2>3. QED
    BY <2>2 DEF n
<1>8. \A i \in 1 .. k - 1 : j_cur[i] \in 1 .. c - 1
  <2>1. ASSUME NEW i \in 1 .. k - 1 PROVE j_cur[i] \in 1 .. c - 1
    <3>1. i \in DOMAIN j_cur /\ k \in DOMAIN j_cur /\ i < k
      BY <1>5
    <3>2. j_cur[i] < c /\ j_cur[i] \in 1 .. Len(nodes)
      BY <1>5, <1>6, <3>1 DEF JsonInv, OpenNodes
    <3>3. QED
      BY <1>5, <1>6, <3>2
  <2>2. QED
    BY <2>1
<1>9. /\ j_cur' \in Seq(Nat) /\ structs' \in Seq(SUBSET {"array", "object", "parent"})
      /\ OpenNodes' /\ SameOpen' /\ (j_cur' = <<>> <=> structs' = <<>>)
  <2>1. \A i \in 1 .. Len(j_cur) - 1 : j_cur[i] \in DOMAIN nodes' /\ nodes'[j_cur[i]] = nodes[j_cur[i]]
    BY <1>7, <1>8
  <2>2. QED
    BY <1>1, <1>2, <1>4, <2>1, LastClosed
<1>10. TextBegins'
  <2>1. text # <<>> /\ text[1].mark \in J!Openers /\ text \in Seq(Marks)
    BY <1>1, <1>2 DEF JsonInv, JsonTypes, TextBegins
  <2>2. ASSUME phase' = "building"
        PROVE  j_cur' # <<>> /\ text' # <<>> /\ text'[1].mark \in J!Openers
    <3> DEFINE keyed == J!Keyed(text) /\ text[J!CutAt(text)].mark = ","
    <3> HIDE DEF keyed
    <3>0. phase' = IF k = 1 THEN "ended" ELSE IF keyed THEN phase ELSE "spoiled"
      BY <1>1 DEF keyed
    <3>1. k # 1 /\ keyed
      <4>1. CASE k = 1
        BY <2>2, <3>0, <4>1
      <4>2. CASE k # 1
        BY <2>2, <3>0, <4>2
      <4>3. QED
        BY <4>1, <4>2
    <3>2. j_cur' # <<>>
      <4>1. Len(j_cur') = k - 1
        <5>1. j_cur' = SubSeq(j_cur, 1, k - 1)
          BY <1>1
        <5>2. j_cur \in Seq(Nat) /\ 1 \in 1 .. Len(j_cur) + 1 /\ k - 1 \in 1 - 1 .. Len(j_cur)
          BY <1>5
        <5>3. Len(SubSeq(j_cur, 1, k - 1)) = k - 1 - 1 + 1
          BY <5>2, SubSeqIs
        <5>4. QED
          BY <1>5, <5>1, <5>3
      <4>2. QED
        BY <1>5, <3>1, <4>1
    <3>3. QED
      BY <1>4, <1>9, <2>1, <3>1, <3>2 DEF keyed
  <2>3. QED
    BY <2>2 DEF TextBegins
<1>11. JsonPhase'
  BY <1>1 DEF JsonPhase
<1>12. QED
  BY <1>4, <1>7, <1>9, <1>10, <1>11 DEF JsonTypes

LEMMA ClearInv ==
  ASSUME JsonInv, J!Clear
  PROVE  JsonTypes' /\ ParentsFirst' /\ OpenNodes' /\ SameOpen' /\ TextBegins'
<1>1. /\ phase = "building" /\ J!KindOf(J!Current) = "object"
      /\ J!Becomes(J!ObjectClear(J!Encoder))
      /\ nodes' = SubSeq(nodes, 1, J!Current)
      /\ j_cur' = j_cur /\ phase' = phase
  BY DEF J!Clear, J!Call
<1>2. j_cur # <<>>
  BY <1>1, NoneOpen
<1>3. J!Current = j_cur[Len(j_cur)] /\ J!Current \in 1 .. Len(nodes)
  BY <1>2, OpenIs
<1>4. structs' = structs /\ text' \in Seq(Marks) /\ text' # <<>> /\ text'[1] = text[1]
  BY <1>1, <1>2, ClearText
<1> DEFINE c == J!Current
<1>5. nodes \in Seq(Nodes) /\ j_cur \in Seq(Nat) /\ Len(j_cur) \in Nat /\ Len(j_cur) >= 1
  BY <1>2 DEF JsonInv, JsonTypes
<1> HIDE DEF c
<1>6. c = j_cur[Len(j_cur)] /\ c \in 1 .. Len(nodes) /\ c \in 0 .. Len(nodes)
      /\ nodes' = SubSeq(nodes, 1, c)
  BY <1>1, <1>3, <1>5 DEF c
<1>7. /\ nodes' \in Seq(Nodes) /\ DOMAIN nodes' = 1 .. c
      /\ \A i \in 1 .. c : nodes'[i] = nodes[i]
      /\ ParentsFirst'
  BY <1>6, NodesCut
<1>8. \A i \in DOMAIN j_cur : j_cur[i] \in 1 .. c
  <2>1. ASSUME NEW i \in DOMAIN j_cur PROVE j_cur[i] \in 1 .. c
    <3>1. i \in 1 .. Len(j_cur) /\ Len(j_cur) \in DOMAIN j_cur
      BY <1>5
    <3>2. (i < Len(j_cur) => j_cur[i] < c) /\ j_cur[i] \in 1 .. Len(nodes)
      BY <1>5, <1>6, <3>1 DEF JsonInv, OpenNodes
    <3>3. QED
      BY <1>5, <1>6, <3>1, <3>2
  <2>2. QED
    BY <2>1
<1>9. OpenNodes'
  BY <1>1, <1>7, <1>8 DEF JsonInv, OpenNodes
<1>10. SameOpen'
  BY <1>1, <1>4, <1>7, <1>8 DEF JsonInv, SameOpen
<1>11. TextBegins'
  BY <1>1, <1>2, <1>4 DEF JsonInv, TextBegins
<1>12. QED
  BY <1>1, <1>4, <1>7, <1>9, <1>10, <1>11 DEF JsonInv, JsonTypes

LEMMA JsonNext == MaxCalls \in Nat /\ JsonInv /\ [J!Next]_(J!vars) => JsonInv'
<1> SUFFICES ASSUME MaxCalls \in Nat, JsonInv, [J!Next]_(J!vars) PROVE JsonInv'
  OBVIOUS
<1>1. ASSUME J!Start \/ J!Value \/ J!End \/ J!Clear
      PROVE  JsonTypes' /\ ParentsFirst' /\ OpenNodes' /\ SameOpen' /\ TextBegins' /\ JsonPhase'
  <2>1. JsonPhase'
    BY <1>1 DEF JsonInv, JsonPhase, J!Start, J!Value, J!End, J!Clear
  <2>2. QED
    BY <1>1, <2>1, StartInv, ValueInv, EndInv, ClearInv
<1>2. ASSUME J!Next PROVE JsonCounter'
  <2>1. J!Call
    BY <1>2 DEF J!Next, J!Start, J!Value, J!End, J!Cancel, J!Clear
  <2>2. QED
    BY <2>1 DEF JsonInv, JsonCounter, J!Call
<1>3. CASE UNCHANGED J!vars
  BY <1>3 DEF J!vars, JsonInv, JsonTypes, JsonCounter, JsonPhase, ParentsFirst, OpenNodes, SameOpen,
              TextBegins
<1>4. QED
  BY <1>1, <1>2, <1>3, CancelInv DEF J!Next, JsonInv

(* Whatever is written, ended, cancelled and cleared: the two encoders have  *)
(* the same structures open, each inside the one before it, so that both     *)
(* refuse the same ends, and every variable of the two has its type          *)
(* (app_json_encode_struct_start, app_json_encode_struct_end,                *)
(* app_json_encode_object_cancel).                                           *)
THEOREM EncodersAgree ==
  ASSUME MaxCalls \in Nat
  PROVE  J!Spec => [](J!TypeOK /\ OpenNodes /\ SameOpen)
<1>1. J!Init => JsonInv
  BY JsonInit
<1>2. JsonInv /\ [J!Next]_(J!vars) => JsonInv'
  BY JsonNext
<1>3. JsonInv => J!TypeOK /\ OpenNodes /\ SameOpen
  BY JsonTypesOf DEF JsonInv
<1>4. QED
  BY <1>1, <1>2, <1>3, PTL DEF J!Spec

-----------------------------------------------------------------------------
(***************************************************************************)
(* The composition.                                                        *)
(***************************************************************************)
LEMMA PartsStep ==
  [AllNext]_allVars =>
    /\ [I!Next]_(I!vars) /\ [O!Next]_(O!vars) /\ [P!Next]_(P!vars)
    /\ [J!Next]_(J!vars) /\ [C!Next]_(C!vars) /\ [Next]_vars
<1> SUFFICES ASSUME [AllNext]_allVars
             PROVE  /\ [I!Next]_(I!vars) /\ [O!Next]_(O!vars) /\ [P!Next]_(P!vars)
                    /\ [J!Next]_(J!vars) /\ [C!Next]_(C!vars) /\ [Next]_vars
  OBVIOUS
<1>1. UNCHANGED itemVars => UNCHANGED I!vars
  BY DEF itemVars, I!vars, I!listVars, I!threadVars, I!searchVars
<1>2. UNCHANGED optionVars => UNCHANGED O!vars
  BY DEF optionVars, O!vars
<1>3. UNCHANGED pluginVars => UNCHANGED P!vars
  BY DEF pluginVars, P!vars
<1>4. UNCHANGED jsonVars => UNCHANGED J!vars
  BY DEF jsonVars, J!vars
<1>5. UNCHANGED fileVars => UNCHANGED C!vars
  BY DEF fileVars, C!vars
<1>6. CASE AllNext
  BY <1>1, <1>2, <1>3, <1>4, <1>5, <1>6 DEF AllNext
<1>7. CASE UNCHANGED allVars
  BY <1>1, <1>2, <1>3, <1>4, <1>5, <1>7 DEF allVars
<1>8. QED
  BY <1>6, <1>7

LEMMA PartsAlone ==
  AllSpec => I!Spec /\ O!Spec /\ P!Spec /\ J!Spec /\ C!Spec /\ Spec
<1>1. AllInit => I!Init /\ O!Init /\ P!Init /\ J!Init /\ C!Init /\ Init
  BY DEF AllInit
<1>2. QED
  BY <1>1, PartsStep, PTL DEF AllSpec, I!Spec, O!Spec, P!Spec, J!Spec, C!Spec, Spec

(* The collections together: each is followed as it is alone, so that all    *)
(* that is shown of one holds in every behaviour that the model checker      *)
(* explores, and for any constants.                                          *)
THEOREM CollectionsAreRight ==
  AllSpec => /\ [](SlotsKept /\ SearchRight /\ StoredIsRead /\ EnabledOnceInOrder /\ TimesUsedOnce)
             /\ [](SameOpen /\ C!FilesAreRead)
             /\ OthersKept
<1>1. I!Spec => []SlotsKept
  BY CollectionsAssumption, SlotsAreKept
<1>2. I!Spec => []SearchRight
  BY CollectionsAssumption, SearchIsRight
<1>3. O!Spec => []StoredIsRead
  BY CollectionsAssumption, StoredOptionsAreRead
<1>4. O!Spec => OthersKept
  BY CollectionsAssumption, OtherOptionsAreKept
<1>5. P!Spec => []EnabledOnceInOrder
  BY CollectionsAssumption, PluginsAreOrdered
<1>6. Spec => []TimesUsedOnce
  BY CollectionsAssumption, TimesAreSpent DEF SampleBounds
<1>7. J!Spec => [](J!TypeOK /\ OpenNodes /\ SameOpen)
  BY CollectionsAssumption, EncodersAgree
<1>8. C!Spec => []C!FilesAreRead
  BY CollectionsAssumption, FilesAreReadRight
<1>9. QED
  BY <1>1, <1>2, <1>3, <1>4, <1>5, <1>6, <1>7, <1>8, PartsAlone, PTL

LEMMA SampleVariables == Spec => []TypeOK
<1> DEFINE Inv == IInv /\ SampleSizes /\ ToldTypes
<1>1. Init => Inv
  BY CollectionsAssumption, InitInv, SampleSizesInit DEF SampleBounds
<1>2. Inv /\ [Next]_vars => Inv'
  BY CollectionsAssumption, SamplesNext, SampleSizesNext, ToldTypesNext DEF SampleBounds
<1>3. Inv => TypeOK
  BY CollectionsAssumption, SampleTypes
<1> HIDE DEF Inv
<1>4. QED
  BY <1>1, <1>2, <1>3, PTL DEF Spec

LEMMA ItemVariables == I!Spec => []I!TypeOK
<1> DEFINE Inv == ItemInv /\ ItemPlaces /\ Looking /\ SearchTypes /\ ItemFailed /\ ItemFlag
<1>1. I!Init => Inv
  BY CollectionsAssumption, ItemInit, ItemTypesInit
<1>2. Inv /\ [I!Next]_(I!vars) => Inv'
  BY CollectionsAssumption, ItemNext, ItemPlacesNext, LookingNext, SearchTypesNext, ItemFailedNext,
     ItemFlagNext
<1>3. Inv => I!TypeOK
  BY ItemListTypes
<1> HIDE DEF Inv
<1>4. QED
  BY <1>1, <1>2, <1>3, PTL DEF I!Spec

LEMMA OptionVariables == O!Spec => []O!TypeOK
<1> DEFINE Inv == OptionInv /\ OptionSizes /\ OptionFlags /\ OptionCounter
<1>1. O!Init => Inv
  BY CollectionsAssumption, OptionInit, OptionTypesInit
<1>2. OptionInv => OptionTidy
  BY DEF OptionInv
<1>3. Inv /\ [O!Next]_(O!vars) => Inv'
  BY <1>2, CollectionsAssumption, OptionNext, OptionSizesNext, OptionFlagsNext, OptionCounterNext
<1>4. Inv => O!TypeOK
  BY <1>2, OptionTypes
<1> HIDE DEF Inv
<1>5. QED
  BY <1>1, <1>3, <1>4, PTL DEF O!Spec

LEMMA PluginVariables == P!Spec => []P!TypeOK
<1> DEFINE Inv == PluginInv /\ PluginOrders /\ PluginFlags
<1>1. P!Init => Inv
  <2>1. P!Init => PluginOrders /\ PluginFlags
    <3>1. P!Init => plugin_enabled = <<>> /\ PluginFlags
      BY DEF P!Init, PluginFlags
    <3>2. <<>> \in Seq(PluginEntries)
      OBVIOUS
    <3>3. QED
      BY <3>1, <3>2 DEF PluginOrders
  <2>2. QED
    BY <2>1, CollectionsAssumption, PluginInit
<1>2. Inv /\ [P!Next]_(P!vars) => Inv'
  BY CollectionsAssumption, PluginNext, PluginOrdersNext, PluginFlagsNext
<1>3. Inv => P!TypeOK
  BY CollectionsAssumption, PluginListTypes
<1> HIDE DEF Inv
<1>4. QED
  BY <1>1, <1>2, <1>3, PTL DEF P!Spec

LEMMA FileVariables == C!Spec => []C!TypeOK
<1>1. C!Init => FileInv
  BY CollectionsAssumption, FileInit
<1>2. FileInv /\ [C!Next]_(C!vars) => FileInv'
  BY CollectionsAssumption, FileNext
<1>3. FileInv => C!TypeOK
  BY FilesOfInv
<1>4. QED
  BY <1>1, <1>2, <1>3, PTL DEF C!Spec

(* Every variable of the six collections keeps its type, with the bounds     *)
(* that the code relies on: no array is filled past its end, no more         *)
(* plug-ins are enabled than there are structures for, a search stays in the *)
(* list, and a node of a JSON document comes after the one it is part of     *)
(* (iot_plugin_enable_by_ptr, iot_options_set, iot_action_allocate,          *)
(* app_json_encode_key).                                                     *)
THEOREM TypesAreKept == AllSpec => []TypesOK
<1>1. J!Spec => [](J!TypeOK /\ OpenNodes /\ SameOpen)
  BY CollectionsAssumption, EncodersAgree
<1>2. TypeOK /\ I!TypeOK /\ O!TypeOK /\ P!TypeOK /\ J!TypeOK /\ C!TypeOK => TypesOK
  BY DEF TypesOK
<1>3. QED
  BY <1>1, <1>2, PartsAlone, SampleVariables, ItemVariables, OptionVariables, PluginVariables,
     FileVariables, PTL
=============================================================================
