------------------------ MODULE ActionExecute_proofs ------------------------
(***************************************************************************)
(* Proofs about ActionExecute and the conversions it uses, for integers of  *)
(* any widths and any set of actions and values.                           *)
(***************************************************************************)
EXTENDS ActionExecute, FiniteSetTheorems, TLAPS

-----------------------------------------------------------------------------
(***************************************************************************)
(* Integers and casts.                                                     *)
(***************************************************************************)
LEMMA BoundsAreIntegers ==
  ASSUME NEW t \in IntTypes
  PROVE  Top[t] \in Nat /\ Lo(t) \in Int /\ Lo(t) <= 0 /\ Ints(t) \subseteq Int /\ 0 \in Ints(t)
BY TopAssumption DEF Lo, Ints

LEMMA RestIsThere ==
  ASSUME NEW a \in Int, NEW m \in Nat, m > 0
  PROVE  a % m \in 0 .. m - 1
OBVIOUS

LEMMA RestOfSmall ==
  ASSUME NEW a \in Nat, NEW m \in Nat, a < m
  PROVE  a % m = a
OBVIOUS

\* A cast gives a value of the type, and keeps a value the type can hold.
LEMMA CastInRange ==
  ASSUME NEW t \in IntTypes, NEW n \in Int
  PROVE  Wrap(n, t) \in Ints(t)
<1> DEFINE m == Top[t] - Lo(t) + 1
<1>1. m \in Nat /\ m > 0 /\ n - Lo(t) \in Int
  BY BoundsAreIntegers
<1>2. (n - Lo(t)) % m \in 0 .. m - 1
  BY <1>1, RestIsThere
<1> QED
  BY <1>2, BoundsAreIntegers DEF Wrap, Ints

LEMMA CastKeeps ==
  ASSUME NEW t \in IntTypes, NEW n \in Ints(t)
  PROVE  Wrap(n, t) = n
<1> DEFINE m == Top[t] - Lo(t) + 1
<1>1. m \in Nat /\ n - Lo(t) \in Nat /\ n - Lo(t) < m
  BY BoundsAreIntegers DEF Ints
<1>2. (n - Lo(t)) % m = n - Lo(t)
  BY <1>1, RestOfSmall
<1> QED
  BY <1>2, BoundsAreIntegers DEF Wrap, Ints

\* The tests of iot_common_data_convert let through what the type can hold,
\* and nothing else.
LEMMA FitsIsRange ==
  ASSUME NEW from \in IntTypes, NEW t \in IntTypes, from # t, NEW v \in Ints(from)
  PROVE  Fits(v, from, t) <=> v \in Ints(t)
<1>1. v \in Int
  BY BoundsAreIntegers
<1>2. CASE t = "int8"
  BY <1>1, <1>2, TopAssumption
  DEF Fits, Unchecked, NoUpperTest, Ints, Lo, IntTypes, SignedTypes, UnsignedTypes
<1>3. CASE t = "int16"
  BY <1>1, <1>3, TopAssumption
  DEF Fits, Unchecked, NoUpperTest, Ints, Lo, IntTypes, SignedTypes, UnsignedTypes
<1>4. CASE t = "int32"
  BY <1>1, <1>4, TopAssumption
  DEF Fits, Unchecked, NoUpperTest, Ints, Lo, IntTypes, SignedTypes, UnsignedTypes
<1>5. CASE t = "int64"
  BY <1>1, <1>5, TopAssumption
  DEF Fits, Unchecked, NoUpperTest, Ints, Lo, IntTypes, SignedTypes, UnsignedTypes
<1>6. CASE t = "uint8"
  BY <1>1, <1>6, TopAssumption
  DEF Fits, Unchecked, NoUpperTest, Ints, Lo, IntTypes, SignedTypes, UnsignedTypes
<1>7. CASE t = "uint16"
  BY <1>1, <1>7, TopAssumption
  DEF Fits, Unchecked, NoUpperTest, Ints, Lo, IntTypes, SignedTypes, UnsignedTypes
<1>8. CASE t = "uint32"
  BY <1>1, <1>8, TopAssumption
  DEF Fits, Unchecked, NoUpperTest, Ints, Lo, IntTypes, SignedTypes, UnsignedTypes
<1>9. CASE t = "uint64"
  BY <1>1, <1>9, TopAssumption
  DEF Fits, Unchecked, NoUpperTest, Ints, Lo, IntTypes, SignedTypes, UnsignedTypes
<1> QED
  BY <1>2, <1>3, <1>4, <1>5, <1>6, <1>7, <1>8, <1>9 DEF IntTypes, SignedTypes, UnsignedTypes

-----------------------------------------------------------------------------
(***************************************************************************)
(* iot_common_data_convert.                                                *)
(***************************************************************************)
LEMMA TruncateInRange ==
  ASSUME NEW t \in IntTypes, NEW f, NEW v \in Truncate(f, t)
  PROVE  v \in Ints(t)
BY DEF Truncate

LEMMA CastIntInRange ==
  ASSUME NEW from \in IntTypes, NEW t \in IntTypes, NEW v \in Ints(from)
  PROVE  CastInt(v, from, t) \in Ints(t)
<1>1. Member(from, t) \in IntTypes
  BY DEF Member, IntTypes, SignedTypes, UnsignedTypes
<1>2. v \in Int
  BY BoundsAreIntegers
<1>3. Wrap(v, Member(from, t)) \in Int
  BY <1>1, <1>2, CastInRange, BoundsAreIntegers
<1> QED
  BY <1>3, CastInRange DEF CastInt

LEMMA TypesApart ==
  ASSUME NEW t \in Types
  PROVE  /\ t \notin IntTypes \/ t \notin FloatTypes
         /\ t \in {"bool", "string", "raw", "null"} => t \notin IntTypes /\ t \notin FloatTypes
BY DEF IntTypes, SignedTypes, UnsignedTypes, FloatTypes

LEMMA DataIsOK ==
  ASSUME NEW t \in Types, NEW v, t \in IntTypes => v \in Ints(t)
  PROVE  DataOK(Data(t, v)) /\ Data(t, v).type = t /\ Data(t, v).value = v
BY DEF DataOK, Data

LEMMA OtherIsOK ==
  ASSUME NEW t \in Types, NEW v, t \notin IntTypes
  PROVE  DataOK(Data(t, v)) /\ Data(t, v).type = t
BY DEF DataOK, Data

LEMMA ConvertedIs ==
  ASSUME NEW t, NEW S, NEW c \in Converted(t, S)
  PROVE  \E v \in S : c.ok = TRUE /\ c.data = Data(t, v)
BY DEF Converted

LEMMA ConvertedOne ==
  ASSUME NEW t, NEW v, NEW c \in Converted(t, {v})
  PROVE  c.ok = TRUE /\ c.data = Data(t, v)
BY DEF Converted

LEMMA RefusedIs ==
  ASSUME NEW d, NEW c \in Refused(d)
  PROVE  c.ok = FALSE /\ c.data = d
BY DEF Refused

\* Whatever is converted has a value of its type.
LEMMA ConvertTypes ==
  ASSUME NEW d, DataOK(d), NEW t \in Types, NEW c \in Convert(d, t)
  PROVE  DataOK(c.data) /\ (c.ok => c.data.type = t)
<1>0. d.type \in Types /\ d.has \in BOOLEAN
  BY DEF DataOK
<1>1. CASE d.type = t
  <2>1. c = [ok |-> TRUE, data |-> d]
    BY <1>1 DEF Convert
  <2>2. c.data = d
    BY <2>1
  <2> QED
    BY <1>1, <2>2
<1>2. CASE d.type # t /\ ~d.has
  <2>1. c = [ok |-> TRUE, data |-> [Null EXCEPT !.type = t]]
    BY <1>2 DEF Convert
  <2>2. c.data = [type |-> t, value |-> 0, has |-> FALSE]
    BY <2>1 DEF Null
  <2> QED
    BY <2>2, BoundsAreIntegers DEF DataOK
<1>3. CASE d.type # t /\ d.has /\ d.type \in IntTypes
  <2>1. c \in ConvertInt(d, t)
    BY <1>3 DEF Convert
  <2>2. t \in IntTypes => CastInt(d.value, d.type, t) \in Ints(t)
    BY <1>3, CastIntInRange DEF DataOK
  <2>3. \/ c \in Refused(d)
        \/ t \in IntTypes /\ c \in Converted(t, {CastInt(d.value, d.type, t)})
        \/ t \notin IntTypes /\ c \in Converted(t, {Float(Round(d.value, t), FALSE)})
    BY <2>1 DEF ConvertInt
  <2>4. CASE c \in Refused(d)
    BY <2>4, RefusedIs
  <2>5. CASE t \in IntTypes /\ c \in Converted(t, {CastInt(d.value, d.type, t)})
    <3>1. c.data = Data(t, CastInt(d.value, d.type, t))
      BY <2>5, ConvertedOne
    <3> QED
      BY <2>2, <2>5, <3>1, DataIsOK
  <2>6. CASE t \notin IntTypes /\ c \in Converted(t, {Float(Round(d.value, t), FALSE)})
    <3>1. c.data = Data(t, Float(Round(d.value, t), FALSE))
      BY <2>6, ConvertedOne
    <3> QED
      BY <2>6, <3>1, OtherIsOK
  <2> QED
    BY <2>3, <2>4, <2>5, <2>6
<1>4. CASE d.type # t /\ d.has /\ d.type \in FloatTypes
  <2>1. c \in ConvertFloat(d, t)
    BY <1>0, <1>4, TypesApart DEF Convert
  <2>2. \/ c \in Refused(d)
        \/ t \in IntTypes /\ c \in Converted(t, Truncate(d.value, t))
        \/ t \notin IntTypes /\ c \in Converted(t, {Float(Round(d.value.n, t), d.value.frac)})
    BY <2>1, TypesApart DEF ConvertFloat
  <2>3. CASE c \in Refused(d)
    BY <2>3, RefusedIs
  <2>4. CASE t \in IntTypes /\ c \in Converted(t, Truncate(d.value, t))
    <3>1. PICK v \in Truncate(d.value, t) : c.data = Data(t, v)
      BY <2>4, ConvertedIs
    <3>2. v \in Ints(t)
      BY <2>4, TruncateInRange
    <3> QED
      BY <3>1, <3>2, DataIsOK
  <2>5. CASE t \notin IntTypes /\ c \in Converted(t, {Float(Round(d.value.n, t), d.value.frac)})
    <3>1. c.data = Data(t, Float(Round(d.value.n, t), d.value.frac))
      BY <2>5, ConvertedOne
    <3> QED
      BY <2>5, <3>1, OtherIsOK
  <2> QED
    BY <2>2, <2>3, <2>4, <2>5
<1>5. CASE d.type # t /\ d.has /\ d.type \notin IntTypes /\ d.type \notin FloatTypes
  <2>1. c \in Refused(d) \/ (t = "raw" /\ c \in Converted(t, {d.value}))
    BY <1>5 DEF Convert, ConvertString
  <2>2. CASE c \in Refused(d)
    BY <2>2, RefusedIs
  <2>3. CASE t = "raw" /\ c \in Converted(t, {d.value})
    <3>1. c.data = Data(t, d.value)
      BY <2>3, ConvertedOne
    <3> QED
      BY <2>3, <3>1, OtherIsOK, TypesApart
  <2> QED
    BY <2>1, <2>2, <2>3
<1> QED
  BY <1>0, <1>1, <1>2, <1>3, <1>4, <1>5

\* An integer is converted when the other type can hold it, to the same number,
\* and is left alone otherwise (iot_common_data_convert, but for the two
\* conversions of 32 bits to int64, which read the wrong member).
THEOREM ConvertIsExact ==
  ASSUME NEW d, DataOK(d), d.has, d.type \in IntTypes, NEW t \in Types,
         ~(d.type \in {"int32", "uint32"} /\ t = "int64"),
         NEW c \in Convert(d, t)
  PROVE  /\ SameNumber(d.value, c.data)
         /\ c.ok => c.data.type = t
         /\ ~c.ok => c.data = d
         /\ t \in IntTypes => (c.ok <=> d.value \in Ints(t))
<1>0. d.value \in Ints(d.type) /\ SameNumber(d.value, d)
  BY DEF DataOK, SameNumber
<1>1. CASE d.type = t
  <2>1. c = [ok |-> TRUE, data |-> d]
    BY <1>1 DEF Convert
  <2>2. c.ok = TRUE /\ c.data = d
    BY <2>1
  <2> QED
    BY <1>0, <1>1, <2>2
<1>2. CASE d.type # t /\ t \in IntTypes
  <2>1. c \in IF Fits(d.value, d.type, t)
                THEN Converted(t, {CastInt(d.value, d.type, t)}) ELSE Refused(d)
    BY <1>2 DEF Convert, ConvertInt
  <2>2. Fits(d.value, d.type, t) <=> d.value \in Ints(t)
    BY <1>0, <1>2, FitsIsRange
  <2>3. CASE d.value \in Ints(t)
    <3>1. Member(d.type, t) = d.type
      BY DEF Member
    <3>2. CastInt(d.value, d.type, t) = d.value
      BY <1>0, <1>2, <2>3, <3>1, CastKeeps DEF CastInt
    <3>3. c.ok = TRUE /\ c.data = Data(t, d.value)
      BY <2>1, <2>2, <2>3, <3>2, ConvertedOne
    <3>4. c.data.type = t /\ c.data.value = d.value
      BY <3>3 DEF Data
    <3> QED
      BY <1>2, <2>3, <3>3, <3>4 DEF SameNumber
  <2>4. CASE d.value \notin Ints(t)
    <3>1. c.ok = FALSE /\ c.data = d
      BY <2>1, <2>2, <2>4, RefusedIs
    <3> QED
      BY <1>0, <2>4, <3>1
  <2> QED
    BY <2>3, <2>4
<1>3. CASE d.type # t /\ t \in FloatTypes
  <2>1. c \in Converted(t, {Float(Round(d.value, t), FALSE)})
    BY <1>3, TypesApart DEF Convert, ConvertInt
  <2>2. c.ok = TRUE /\ c.data = Data(t, Float(Round(d.value, t), FALSE))
    BY <2>1, ConvertedOne
  <2>3. c.data.type = t /\ c.data.value = Float(Round(d.value, t), FALSE)
    BY <2>2 DEF Data
  <2> QED
    BY <1>3, <2>2, <2>3, TypesApart DEF SameNumber
<1>4. CASE d.type # t /\ t \notin IntTypes /\ t \notin FloatTypes
  <2>1. c \in Refused(d)
    BY <1>4 DEF Convert, ConvertInt
  <2> QED
    BY <1>0, <1>4, <2>1, RefusedIs
<1> QED
  BY <1>1, <1>2, <1>3, <1>4

-----------------------------------------------------------------------------
(***************************************************************************)
(* The parameters of a request.                                            *)
(***************************************************************************)
RequestOK(r) ==
  /\ DOMAIN r \subseteq Names /\ IsFiniteSet(DOMAIN r)
  /\ r = [n \in DOMAIN r |-> [use |-> r[n].use, data |-> r[n].data]]
  /\ \A n \in DOMAIN r : r[n].use \subseteq Flags /\ DataOK(r[n].data)

LEMMA UseIsFlags ==
  ASSUME NEW flags \in SUBSET Flags
  PROVE  Use(flags) \in SUBSET Flags /\ (flags = {"out"} => Use(flags) = {"out"})
         /\ ("in_required" \in Use(flags) <=> "in_required" \in flags)
BY DEF Use, Flags

\* What storing a parameter does to the request.
LEMMA StoredIs ==
  ASSUME NEW n, NEW use, NEW d
  PROVE  /\ DOMAIN Stored(n, use, d) = Known \cup {n}
         /\ Stored(n, use, d)[n] = [use |-> use, data |-> d]
         /\ \A m \in Known : m # n => Stored(n, use, d)[m] = request[m]
BY DEF Stored

LEMMA StoredKnown ==
  ASSUME NEW n \in Known, NEW use, NEW d
  PROVE  DOMAIN Stored(n, use, d) = Known
BY DEF Stored

LEMMA StoredIsOK ==
  ASSUME RequestOK(request), NEW n \in Names, NEW use \in SUBSET Flags, NEW d, DataOK(d)
  PROVE  RequestOK(Stored(n, use, d))
<1> DEFINE R == Stored(n, use, d)
<1>1. /\ DOMAIN R = Known \cup {n}
      /\ R[n] = [use |-> use, data |-> d]
      /\ \A m \in Known : m # n => R[m] = request[m]
  BY StoredIs
<1>2. DOMAIN R \subseteq Names
  BY <1>1 DEF RequestOK, Known
<1>3. IsFiniteSet(DOMAIN R)
  BY <1>1, FS_AddElement DEF RequestOK, Known
<1>4. \A m \in DOMAIN R : /\ R[m] = [use |-> R[m].use, data |-> R[m].data]
                          /\ R[m].use \subseteq Flags /\ DataOK(R[m].data)
  <2> TAKE m \in DOMAIN R
  <2>1. CASE m = n
    <3>1. R[m].use = use /\ R[m].data = d
      BY <1>1, <2>1
    <3> QED
      BY <1>1, <2>1, <3>1
  <2>2. CASE m # n
    <3>1. m \in Known /\ R[m] = request[m]
      BY <1>1, <2>2
    <3>2. /\ request[m] = [use |-> request[m].use, data |-> request[m].data]
          /\ request[m].use \subseteq Flags /\ DataOK(request[m].data)
      BY <3>1 DEF RequestOK, Known
    <3> QED
      BY <3>1, <3>2
  <2> QED
    BY <2>1, <2>2
<1>5. R = [m \in DOMAIN R |-> R[m]]
  BY DEF Stored
<1> HIDE DEF R
<1>6. R = [m \in DOMAIN R |-> [use |-> R[m].use, data |-> R[m].data]]
  BY <1>4, <1>5
<1>7. RequestOK(R)
  BY <1>2, <1>3, <1>4, <1>6 DEF RequestOK
<1> QED
  BY <1>7 DEF R

\* The array of parameters keeps its limit.
LEMMA StoredFits ==
  ASSUME RequestOK(request), NEW n \in Names, NEW d, MaySet(n, d), NEW use,
         Cardinality(Known) <= IOT_PARAMETER_MAX
  PROVE  Cardinality(DOMAIN Stored(n, use, d)) <= IOT_PARAMETER_MAX
<1>1. DOMAIN Stored(n, use, d) = Known \cup {n}
  BY StoredIs
<1>2. IsFiniteSet(Known)
  BY DEF RequestOK, Known
<1>3. Cardinality(Known) \in Nat
  BY <1>2, FS_CardinalityType
<1>4. Cardinality(Known \cup {n}) = IF n \in Known THEN Cardinality(Known) ELSE Cardinality(Known) + 1
  BY <1>2, FS_AddElement
<1>5. IOT_PARAMETER_MAX \in Nat
  BY LimitAssumption
<1>6. n \in Known \/ Cardinality(Known) < IOT_PARAMETER_MAX
  BY DEF MaySet
<1>7. Cardinality(Known \cup {n}) <= IOT_PARAMETER_MAX
  BY <1>3, <1>4, <1>5, <1>6
<1> QED
  BY <1>1, <1>7

LEMMA ElementOfSeq ==
  ASSUME NEW S, NEW a \in Seq(S), NEW i \in DOMAIN a
  PROVE  a[i] \in S
OBVIOUS

\* What ActionsAssumption says of one parameter of an action.
LEMMA ActionParameter ==
  ASSUME action \in Actions, NEW i \in DOMAIN action
  PROVE  action[i].name \in Names /\ action[i].flags \in SUBSET Flags /\ action[i].type \in Types
<1>1. action \in Seq([name : Names, flags : SUBSET Flags, type : Types])
  BY ActionsAssumption
<1>2. action[i] \in [name : Names, flags : SUBSET Flags, type : Types]
  BY <1>1, ElementOfSeq
<1> QED
  BY <1>2

LEMMA ActionNames ==
  ASSUME action \in Actions
  PROVE  /\ DOMAIN action = 1 .. Len(action) /\ Len(action) \in Nat
         /\ \A i, j \in DOMAIN action : action[i].name = action[j].name => i = j
<1>1. action \in Seq([name : Names, flags : SUBSET Flags, type : Types])
  BY ActionsAssumption
<1>2. DOMAIN action = 1 .. Len(action) /\ Len(action) \in Nat
  BY <1>1
<1> QED
  BY <1>2, ActionsAssumption

-----------------------------------------------------------------------------
(***************************************************************************)
(* Types.                                                                  *)
(***************************************************************************)
ControlOK ==
  /\ action \in Actions
  /\ stage \in Executing \cup {"parsing", "checking", "executed", "answered"}
  /\ next \in 1 .. Len(action) + 1
  /\ {required, badType} \subseteq Names \cup {None}
  /\ result \in {"not_found", "failure", "bad_request", "success", "execution_error", "invoked"}
  /\ message \in Reasons \cup {None}

TInv ==
  /\ ControlOK
  /\ RequestOK(request)
  /\ Cardinality(Known) <= IOT_PARAMETER_MAX

LEMMA TInvInit == Init => TInv
<1> SUFFICES ASSUME Init PROVE TInv
  OBVIOUS
<1>1. DOMAIN request = {} /\ request = [n \in {} |-> request[n]]
  BY DEF Init
<1>2. RequestOK(request)
  BY <1>1, FS_EmptySet DEF RequestOK
<1>3. Cardinality(Known) <= IOT_PARAMETER_MAX
  BY <1>1, FS_EmptySet, LimitAssumption DEF Known
<1>4. ControlOK
  <2>1. action \in Actions
    BY DEF Init
  <2>2. Len(action) \in Nat
    BY <2>1, ActionNames
  <2> QED
    BY <2>1, <2>2 DEF Init, ControlOK
<1> QED
  BY <1>2, <1>3, <1>4 DEF TInv

LEMMA TInvStep == TInv /\ [Next]_vars => TInv'
<1> SUFFICES ASSUME TInv, [Next]_vars PROVE TInv'
  OBVIOUS
<1> USE DEF TInv
<1>1. CASE UNCHANGED request /\ ControlOK'
  BY <1>1 DEF RequestOK, Known
<1>2. ASSUME NEW n \in Names, NEW d \in Sent, Parse(n, d) PROVE TInv'
  <2>1. ControlOK'
    BY <1>2 DEF Parse, ControlOK, checkVars
  <2>2. CASE UNCHANGED request
    BY <1>1, <2>1, <2>2
  <2>3. CASE MaySet(n, d) /\ request' = Stored(n, {"out"}, d)
    <3>1. RequestOK(request')
      BY <2>3, StoredIsOK, ValueAssumption DEF Flags
    <3>2. Cardinality(DOMAIN request') <= IOT_PARAMETER_MAX
      BY <2>3, StoredFits
    <3> QED
      BY <2>1, <3>1, <3>2 DEF RequestOK, Known
  <2> QED
    BY <1>2, <2>2, <2>3 DEF Parse, ParameterSet
<1>3. ASSUME NEW n \in Names, NEW d \in Produced, MaySet(n, d), ParameterSet(n, d), ControlOK'
      PROVE  TInv'
  <2>1. request' = Stored(n, {"out"}, d)
    BY <1>3 DEF ParameterSet
  <2>2. RequestOK(request')
    BY <2>1, StoredIsOK, ValueAssumption DEF Flags
  <2>3. Cardinality(DOMAIN request') <= IOT_PARAMETER_MAX
    BY <1>3, <2>1, StoredFits
  <2> QED
    BY <1>3, <2>2, <2>3 DEF RequestOK, Known
<1>4. CASE CheckParameter
  <2> DEFINE n == action[next].name
             use == Use(action[next].flags)
  <2>1. next \in DOMAIN action /\ next + 1 \in 1 .. Len(action) + 1
    BY <1>4, ActionNames DEF CheckParameter, Checking, ControlOK
  <2>2. n \in Names /\ use \in SUBSET Flags /\ action[next].type \in Types
    BY <2>1, ActionParameter, UseIsFlags DEF ControlOK
  <2>3. ControlOK'
    BY <1>4, <2>1, <2>2 DEF CheckParameter, ControlOK
  <2>4. CASE UNCHANGED request
    BY <1>1, <2>3, <2>4
  <2>5. ASSUME n \in Known, NEW d, DataOK(d), request' = Stored(n, use, d) PROVE TInv'
    <3>1. RequestOK(request')
      BY <2>2, <2>5, StoredIsOK
    <3>2. DOMAIN request' = Known
      BY <2>5, StoredKnown
    <3> QED
      BY <2>3, <3>1, <3>2 DEF RequestOK, Known
  <2>6. CASE n \in Known /\ request' = Stored(n, use, request[n].data)
    BY <2>5, <2>6 DEF RequestOK, Known
  <2>7. CASE n \in Known /\ \E c \in Convert(request[n].data, action[next].type) :
                               request' = Stored(n, use, c.data)
    <3>1. PICK c \in Convert(request[n].data, action[next].type) :
                 request' = Stored(n, use, c.data)
      BY <2>7
    <3>2. DataOK(request[n].data)
      BY <2>7 DEF RequestOK, Known
    <3>3. DataOK(c.data)
      BY <2>2, <3>1, <3>2, ConvertTypes
    <3> QED
      BY <2>5, <2>7, <3>1, <3>3
  <2> QED
    BY <1>4, <2>4, <2>6, <2>7 DEF CheckParameter
<1>5. CASE Dispatch
  BY <1>1, <1>5 DEF Dispatch, checkVars, ControlOK
<1>6. CASE EndChecks
  BY <1>1, <1>6 DEF EndChecks, Reason, Reasons, checkVars, ControlOK, Executing
<1>7. ASSUME NEW n \in Names, NEW t \in Types, NEW convert \in BOOLEAN,
             CallbackReads(n, t, convert)
      PROVE TInv'
  BY <1>1, <1>7 DEF CallbackReads, checkVars, ControlOK
<1>8. ASSUME NEW s \in {"success", "failure"}, CallbackReturns(s) PROVE TInv'
  BY <1>1, <1>8 DEF CallbackReturns, checkVars, ControlOK, Executing
<1>9. CASE CheckOut
  BY <1>1, <1>9 DEF CheckOut, Reasons, checkVars, ControlOK
<1>10. CASE Complete
  BY <1>1, <1>10 DEF Complete, checkVars, ControlOK
<1>11. CASE UNCHANGED vars
  BY <1>1, <1>11 DEF vars, checkVars, ControlOK
<1>12. ASSUME NEW n \in Names, NEW d \in Produced, CallbackSets(n, d) PROVE TInv'
  <2>1. ControlOK'
    BY <1>12 DEF CallbackSets, ControlOK, checkVars
  <2> QED
    BY <1>3, <1>12, <2>1 DEF CallbackSets
<1>13. CASE CommandStarts \/ CommandLeft \/ WroteNothing
  BY <1>1, <1>13 DEF CommandStarts, CommandLeft, WroteNothing, checkVars, historyVars,
                     ControlOK, Executing
<1>14. ASSUME NEW d \in Produced, CommandEnds(d) PROVE TInv'
  <2>1. ControlOK'
    BY <1>14 DEF CommandEnds, checkVars, ControlOK, Executing
  <2>2. Retval \in Names
    BY ValueAssumption
  <2> QED
    BY <1>1, <1>3, <1>14, <2>1, <2>2 DEF CommandEnds, TakeOver
<1>15. ASSUME NEW n \in {Stdout, Stderr}, NEW d \in Produced, CommandWrote(n, d) PROVE TInv'
  <2>1. ControlOK'
    BY <1>15 DEF CommandWrote, checkVars, ControlOK, Executing
  <2>2. n \in Names
    BY ValueAssumption
  <2> QED
    BY <1>1, <1>3, <1>15, <2>1, <2>2 DEF CommandWrote, TakeOver
<1> QED
  BY <1>2, <1>4, <1>5, <1>6, <1>7, <1>8, <1>9, <1>10, <1>11, <1>12, <1>13, <1>14, <1>15 DEF Next

\* Types, and the limit of the array of parameters.
THEOREM ExecuteTypes == Spec => []TypeOK
<1>1. TInv => TypeOK
  BY DEF TInv, ControlOK, RequestOK, Known, TypeOK
<1> QED
  BY <1>1, TInvInit, TInvStep, PTL DEF Spec

-----------------------------------------------------------------------------
(***************************************************************************)
(* Where the values of the request come from.  A value of the cloud is as  *)
(* it came until its parameter is checked, and converted once after that.  *)
(***************************************************************************)
Fresh == stage = "parsing" => next = 1 /\ reads = {} /\ \A n \in Names : made[n] = None

Histories == given = [n \in Names |-> given[n]] /\ made = [n \in Names |-> made[n]]

Unchanged(n) == request[n].data = given[n] /\ \A i \in 1 .. next - 1 : action[i].name # n
ConvertedBy(n, i) ==
  action[i].name = n /\ \E c \in Convert(given[n], action[i].type) : request[n].data = c.data

OriginOf(n) ==
  made[n] = None =>
    given[n] \in Sent /\ (Unchanged(n) \/ \E i \in 1 .. next - 1 : ConvertedBy(n, i))
Origin == \A n \in Known : OriginOf(n)

ValuesArrive ==
  \A n \in Known :
    made[n] = None /\ given[n].type = "int64" => SameNumber(given[n].value, request[n].data)

ReadsRight ==
  \A r \in reads :
    r.sent /\ given[r.name].type = "int64" /\ {r.type, r.from} \subseteq IntTypes
      /\ given[r.name].value \in Ints(r.type)
    => r.value = given[r.name].value

VInv == TInv /\ Fresh /\ Histories /\ Origin /\ ReadsRight

LEMMA ValuesAsConverted == TInv /\ Origin => ValuesArrive
<1> SUFFICES ASSUME TInv, Origin,
                    NEW n \in Known, made[n] = None, given[n].type = "int64"
             PROVE  SameNumber(given[n].value, request[n].data)
  BY DEF ValuesArrive
<1>1. given[n] \in Sent /\ DataOK(given[n]) /\ given[n].has
  BY ValueAssumption DEF Origin, OriginOf
<1>2. given[n].type \in IntTypes /\ given[n].value \in Ints(given[n].type)
  BY <1>1 DEF DataOK, IntTypes, SignedTypes
<1>3. CASE Unchanged(n)
  BY <1>2, <1>3 DEF Unchanged, SameNumber
<1>4. ASSUME NEW i \in 1 .. next - 1, ConvertedBy(n, i)
      PROVE  SameNumber(given[n].value, request[n].data)
  <2>1. i \in DOMAIN action
    BY ActionNames DEF TInv, ControlOK
  <2>2. action[i].type \in Types
    BY <2>1, ActionParameter DEF TInv, ControlOK
  <2>3. PICK c \in Convert(given[n], action[i].type) : request[n].data = c.data
    BY <1>4 DEF ConvertedBy
  <2>4. SameNumber(given[n].value, c.data)
    BY <1>1, <1>2, <2>2, ConvertIsExact
  <2> QED
    BY <2>3, <2>4
<1> QED
  BY <1>3, <1>4 DEF Origin, OriginOf

\* iot_common_arg_get reads an integer as a type that can hold it unchanged.
LEMMA ReadKeeps ==
  ASSUME NEW d, NEW t \in IntTypes, d.type \in IntTypes, d.value \in Ints(t),
         NEW convert \in BOOLEAN, NEW v \in Read(d, t, convert)
  PROVE  v = d.value
<1>1. CASE d.type = t
  BY <1>1 DEF Read
<1>2. CASE d.type # t
  <2>1. t # "bool" /\ d.type # "string"
    BY DEF IntTypes, SignedTypes, UnsignedTypes
  <2>2. v \in AsSigned(d, t)
    BY <1>2, <2>1 DEF Read, AsUnsigned, IntTypes, SignedTypes, UnsignedTypes
  <2>3. d.type \notin FloatTypes /\ d.type \notin {"bool", "string"}
    BY DEF IntTypes, SignedTypes, UnsignedTypes, FloatTypes
  <2>4. AsSigned(d, t) = {Wrap(d.value, t)}
    BY <2>3, SMT DEF AsSigned
  <2> QED
    BY <2>2, <2>4, CastKeeps
<1> QED
  BY <1>1, <1>2

LEMMA VInvInit == Init => VInv
<1> SUFFICES ASSUME Init PROVE VInv
  OBVIOUS
<1>1. Fresh /\ Histories /\ ReadsRight
  BY DEF Init, Fresh, Histories, ReadsRight
<1>2. Origin
  BY DEF Init, Origin, Known
<1> QED
  BY <1>1, <1>2, TInvInit DEF VInv

\* Steps that leave the values alone.
LEMMA VInvFrame ==
  ASSUME VInv, TInv', stage' = "parsing" => stage = "parsing",
         UNCHANGED <<action, request, next, given, made, reads>>
  PROVE  VInv'
BY DEF VInv, Fresh, Histories, Origin, OriginOf, Unchanged, ConvertedBy, ReadsRight, Known

LEMMA VInvParse ==
  ASSUME VInv, TInv', NEW n \in Names, NEW d \in Sent, Parse(n, d)
  PROVE  VInv'
<1>1. /\ stage = "parsing" /\ stage' = "parsing"
      /\ UNCHANGED <<action, next, made, reads>>
  BY DEF Parse, checkVars
<1>2. CASE UNCHANGED <<request, given>>
  BY <1>1, <1>2, VInvFrame
<1>3. CASE request' = Stored(n, {"out"}, d) /\ given' = [given EXCEPT ![n] = d]
  <2>1. Fresh' /\ Histories'
    BY <1>1, <1>3 DEF VInv, Fresh, Histories
  <2>2. given'[n] = d /\ \A k \in Names : k # n => given'[k] = given[k]
    BY <1>3 DEF VInv, Histories
  <2>3. next = 1 /\ 1 .. next - 1 = {} /\ reads = {}
    BY <1>1 DEF VInv, Fresh
  <2>4. ASSUME NEW k \in Known' PROVE OriginOf(k)'
    <3>1. DOMAIN Stored(n, {"out"}, d) = Known \cup {n}
      BY StoredIs
    <3>2. k \in Known \/ k = n
      BY <1>3, <3>1 DEF Known
    <3>3. CASE k = n
      <4>1. request'[n] = [use |-> {"out"}, data |-> d]
        BY <1>3 DEF Stored
      <4>2. request'[n].data = d
        BY <4>1
      <4> QED
        BY <1>1, <2>2, <2>3, <3>3, <4>2 DEF OriginOf, Unchanged
    <3>4. CASE k \in Known /\ k # n
      <4>1. request'[k] = request[k]
        BY <1>3, <3>4 DEF Stored
      <4>2. given'[k] = given[k]
        BY <2>2, <3>4 DEF VInv, TInv, RequestOK, Known
      <4>3. OriginOf(k)
        BY <3>4 DEF VInv, Origin
      <4> QED
        BY <1>1, <2>3, <4>1, <4>2, <4>3 DEF OriginOf, Unchanged
    <3> QED
      BY <3>2, <3>3, <3>4
  <2>5. Origin'
    BY <2>4 DEF Origin
  <2>6. ReadsRight'
    BY <1>1, <2>3 DEF ReadsRight
  <2> QED
    BY <2>1, <2>5, <2>6 DEF VInv
<1> QED
  BY <1>2, <1>3 DEF Parse, ParameterSet

LEMMA VInvCheck ==
  ASSUME VInv, TInv', CheckParameter
  PROVE  VInv'
<1> SUFFICES ASSUME NEW n, n = action[next].name,
                    NEW use, use = Use(action[next].flags)
             PROVE  VInv'
  OBVIOUS
<1>1. /\ stage = "checking" /\ next' = next + 1
      /\ UNCHANGED <<action, stage, given, made, reads>>
  BY DEF CheckParameter, Checking, historyVars
<1>2. Fresh' /\ Histories' /\ ReadsRight'
  BY <1>1 DEF VInv, Fresh, Histories, ReadsRight
<1>3. /\ next \in 1 .. Len(action) /\ Len(action) \in Nat
      /\ DOMAIN action = 1 .. Len(action)
  BY ActionNames DEF VInv, TInv, ControlOK, CheckParameter, Checking
<1>4. \A i \in 1 .. next - 1 : action[i].name # n
  <2> SUFFICES ASSUME NEW i \in 1 .. next - 1, action[i].name = n PROVE FALSE
    OBVIOUS
  <2>1. i \in DOMAIN action /\ next \in DOMAIN action /\ i # next
    BY <1>3
  <2> QED
    BY <2>1, ActionNames DEF VInv, TInv, ControlOK
<1>5. ASSUME NEW k \in Known, k # n, request'[k] = request[k] PROVE OriginOf(k)'
  <2> SUFFICES ASSUME made[k] = None
               PROVE  /\ given[k] \in Sent
                      /\ Unchanged(k)' \/ \E i \in 1 .. next : ConvertedBy(k, i)'
    BY <1>1, <1>3 DEF OriginOf
  <2>1. given[k] \in Sent /\ (Unchanged(k) \/ \E i \in 1 .. next - 1 : ConvertedBy(k, i))
    BY DEF VInv, Origin, OriginOf
  <2>2. CASE Unchanged(k)
    <3>1. \A i \in 1 .. next : action[i].name # k
      BY <1>3, <1>5, <2>2 DEF Unchanged
    <3> QED
      BY <1>1, <1>3, <1>5, <2>1, <2>2, <3>1 DEF Unchanged
  <2>3. ASSUME NEW i \in 1 .. next - 1, ConvertedBy(k, i)
        PROVE  \E j \in 1 .. next : ConvertedBy(k, j)'
    <3>1. i \in 1 .. next
      BY <1>3
    <3>2. ConvertedBy(k, i)'
      BY <1>1, <1>5, <2>3 DEF ConvertedBy
    <3> QED
      BY <3>1, <3>2
  <2> QED
    BY <2>1, <2>2, <2>3
<1>6. n \in Known /\ made[n] = None =>
        given[n] \in Sent /\ request[n].data = given[n] /\ HasValue(n)
  BY <1>4, ValueAssumption DEF VInv, Origin, OriginOf, Unchanged, ConvertedBy, HasValue
<1>7. CASE n \notin Known /\ request' = request
  <2>1. \A k \in Known' : k \in Known /\ k # n /\ request'[k] = request[k]
    BY <1>7 DEF Known
  <2> QED
    BY <1>2, <1>5, <2>1 DEF VInv, Origin
<1>8. ASSUME n \in Known, NEW d, request' = Stored(n, use, d),
             made[n] = None => d \in {c.data : c \in Convert(request[n].data, action[next].type)}
      PROVE  VInv'
  <2>1. DOMAIN Stored(n, use, d) = Known
    BY <1>8, StoredKnown
  <2>2. Known' = Known
    BY <1>8, <2>1 DEF Known
  <2>3. \A k \in Known : k # n => request'[k] = request[k]
    BY <1>8 DEF Stored
  <2>4. OriginOf(n)'
    <3> SUFFICES ASSUME made[n] = None
                 PROVE  given[n] \in Sent /\ \E i \in 1 .. next : ConvertedBy(n, i)'
      BY <1>1, <1>3 DEF OriginOf
    <3>1. PICK c \in Convert(given[n], action[next].type) : d = c.data
      BY <1>6, <1>8
    <3>5. request'[n] = [use |-> use, data |-> d]
      BY <1>8 DEF Stored
    <3>2. request'[n].data = c.data
      BY <3>1, <3>5
    <3>3. ASSUME NEW i, i = next PROVE ConvertedBy(n, i)'
      BY <1>1, <3>1, <3>2, <3>3 DEF ConvertedBy
    <3>4. next \in 1 .. next
      BY <1>3
    <3> QED
      BY <1>6, <1>8, <3>3, <3>4
  <2> QED
    BY <1>2, <1>5, <2>2, <2>3, <2>4 DEF VInv, Origin
<1>9. CASE n \in Known /\ ~HasValue(n) /\ request' = Stored(n, use, request[n].data)
  BY <1>6, <1>8, <1>9
<1>10. CASE n \in Known /\ \E c \in Convert(request[n].data, action[next].type) :
                              request' = Stored(n, use, c.data)
  BY <1>8, <1>10
<1> QED
  BY <1>7, <1>9, <1>10 DEF CheckParameter

LEMMA VInvRead ==
  ASSUME VInv, TInv', NEW n \in Names, NEW t \in Types, NEW convert \in BOOLEAN,
         CallbackReads(n, t, convert)
  PROVE  VInv'
<1>1. /\ n \in Known /\ stage' = stage /\ stage = "running"
      /\ UNCHANGED <<action, request, next, given, made>>
  BY DEF CallbackReads, checkVars
<1>2. PICK v \in Read(request[n].data, t, convert) :
         reads' = reads \cup {[name |-> n, type |-> t, value |-> v,
                               from |-> request[n].data.type, sent |-> made[n] = None]}
  BY DEF CallbackReads
<1> DEFINE r == [name |-> n, type |-> t, value |-> v,
                 from |-> request[n].data.type, sent |-> made[n] = None]
<1>3. ASSUME made[n] = None, given[n].type = "int64",
             t \in IntTypes, request[n].data.type \in IntTypes, given[n].value \in Ints(t)
      PROVE  v = given[n].value
  <2>1. SameNumber(given[n].value, request[n].data)
    BY <1>1, <1>3, ValuesAsConverted DEF VInv, ValuesArrive
  <2>2. DataOK(request[n].data)
    BY <1>1 DEF VInv, TInv, RequestOK, Known
  <2>3. request[n].data.value = given[n].value
    BY <1>3, <2>1, <2>2, TypesApart DEF SameNumber, DataOK
  <2> QED
    BY <1>2, <1>3, <2>3, ReadKeeps
<1>4. ReadsRight'
  <2>1. r.name = n /\ r.type = t /\ r.value = v /\ r.from = request[n].data.type
        /\ (r.sent <=> made[n] = None)
    OBVIOUS
  <2> HIDE DEF r
  <2>2. ReadsRight /\ UNCHANGED given /\ reads' = reads \cup {r}
    BY <1>1, <1>2 DEF VInv, r
  <2> QED
    BY <1>3, <2>1, <2>2 DEF ReadsRight
<1>5. Fresh' /\ Histories' /\ Origin'
  BY <1>1 DEF VInv, Fresh, Histories, Origin, OriginOf, Unchanged, ConvertedBy, Known
<1> QED
  BY <1>4, <1>5 DEF VInv

\* A parameter that the callback or the command has set.
SetBy(n, d) ==
  /\ UNCHANGED <<action, checkVars, given, reads>>
  /\ ParameterSet(n, d) /\ made' = [made EXCEPT ![n] = d]

LEMMA VInvSet ==
  ASSUME VInv, TInv', NEW n \in Names, NEW d \in Produced, SetBy(n, d), stage' # "parsing"
  PROVE  VInv'
<1>1. /\ stage' # "parsing"
      /\ UNCHANGED <<action, next, given, reads>>
      /\ request' = Stored(n, {"out"}, d) /\ made' = [made EXCEPT ![n] = d]
  BY DEF SetBy, ParameterSet, checkVars
<1>2. made'[n] = d /\ d # None /\ \A k \in Names : k # n => made'[k] = made[k]
  BY <1>1, ValueAssumption DEF VInv, Histories
<1>3. ASSUME NEW k \in Known' PROVE OriginOf(k)'
  <2>1. CASE k = n
    BY <1>2, <2>1 DEF OriginOf
  <2>2. CASE k # n
    <3>1. k \in Known /\ request'[k] = request[k]
      BY <1>1, <2>2 DEF Known, Stored
    <3>2. made'[k] = made[k] /\ OriginOf(k)
      BY <1>2, <2>2, <3>1 DEF VInv, TInv, RequestOK, Known, Origin
    <3> QED
      BY <1>1, <3>1, <3>2 DEF OriginOf, Unchanged, ConvertedBy
  <2> QED
    BY <2>1, <2>2
<1>4. Fresh' /\ Histories' /\ ReadsRight'
  BY <1>1 DEF VInv, Fresh, Histories, ReadsRight
<1> QED
  BY <1>3, <1>4 DEF VInv, Origin

LEMMA VInvCommand ==
  ASSUME VInv, TInv', CommandStarts
  PROVE  VInv'
<1>1. /\ stage' = "started" /\ reads' = reads \cup CommandLine
      /\ UNCHANGED <<action, request, next, given, made>>
  BY DEF CommandStarts, checkVars
<1>2. ASSUME NEW r \in CommandLine, r.sent, given[r.name].type = "int64",
             {r.type, r.from} \subseteq IntTypes, given[r.name].value \in Ints(r.type)
      PROVE  r.value = given[r.name].value
  <2>1. PICK n \in Known :
          r = [name |-> n, type |-> request[n].data.type, value |-> request[n].data.value,
               from |-> request[n].data.type, sent |-> made[n] = None]
    BY DEF CommandLine
  <2>2. r.name = n /\ r.type = request[n].data.type /\ r.value = request[n].data.value
        /\ (r.sent <=> made[n] = None)
    BY <2>1
  <2>3. SameNumber(given[n].value, request[n].data)
    BY <1>2, <2>2, ValuesAsConverted DEF VInv, ValuesArrive
  <2>4. DataOK(request[n].data)
    BY DEF VInv, TInv, RequestOK, Known
  <2> QED
    BY <1>2, <2>2, <2>3, <2>4, TypesApart DEF SameNumber, DataOK
<1>3. ReadsRight'
  BY <1>1, <1>2 DEF VInv, ReadsRight
<1>4. Fresh' /\ Histories' /\ Origin'
  BY <1>1 DEF VInv, Fresh, Histories, Origin, OriginOf, Unchanged, ConvertedBy, Known
<1> QED
  BY <1>3, <1>4 DEF VInv

LEMMA VInvStep == VInv /\ [Next]_vars => VInv'
<1> SUFFICES ASSUME VInv, [Next]_vars PROVE VInv'
  OBVIOUS
<1>1. TInv'
  BY TInvStep DEF VInv
<1>2. ASSUME NEW n \in Names, NEW d \in Produced, CallbackSets(n, d) PROVE VInv'
  BY <1>1, <1>2, VInvSet DEF CallbackSets, SetBy
<1>3. ASSUME NEW d \in Produced, CommandEnds(d) PROVE VInv'
  <2>1. stage' # "parsing" /\ UNCHANGED <<action, checkVars, given, reads>> /\ Retval \in Names
    BY <1>3, ValueAssumption DEF CommandEnds
  <2>2. CASE UNCHANGED <<request, made>>
    BY <1>1, <2>1, <2>2, VInvFrame DEF checkVars
  <2>3. CASE ParameterSet(Retval, d) /\ made' = [made EXCEPT ![Retval] = d]
    BY <1>1, <2>1, <2>3, VInvSet DEF SetBy
  <2> QED
    BY <1>3, <2>2, <2>3 DEF CommandEnds, TakeOver
<1>4. ASSUME NEW n \in {Stdout, Stderr}, NEW d \in Produced, CommandWrote(n, d) PROVE VInv'
  <2>1. stage' # "parsing" /\ UNCHANGED <<action, checkVars, given, reads>> /\ n \in Names
    BY <1>4, ValueAssumption DEF CommandWrote
  <2>2. CASE UNCHANGED <<request, made>>
    BY <1>1, <2>1, <2>2, VInvFrame DEF checkVars
  <2>3. CASE ParameterSet(n, d) /\ made' = [made EXCEPT ![n] = d]
    BY <1>1, <2>1, <2>3, VInvSet DEF SetBy
  <2> QED
    BY <1>4, <2>2, <2>3 DEF CommandWrote, TakeOver
<1>5. CASE Dispatch \/ EndChecks \/ CheckOut \/ Complete \/ CommandLeft \/ WroteNothing
           \/ \E s \in {"success", "failure"} : CallbackReturns(s)
  BY <1>1, <1>5, VInvFrame
  DEF Dispatch, EndChecks, CheckOut, Complete, CallbackReturns, CommandLeft, WroteNothing,
      checkVars, historyVars
<1>6. CASE UNCHANGED vars
  BY <1>1, <1>6, VInvFrame DEF vars, checkVars, historyVars
<1> QED
  BY <1>1, <1>2, <1>3, <1>4, <1>5, <1>6, VInvParse, VInvCheck, VInvRead, VInvCommand DEF Next

\* Integers reach the callback as the cloud has sent them, whatever the types
\* of the parameters and of the variables they are read into.
THEOREM IntegersArrive == Spec => []NumbersArrive
<1>1. VInv => NumbersArrive
  BY ValuesAsConverted DEF VInv, ValuesArrive, ReadsRight, NumbersArrive
<1> QED
  BY <1>1, VInvInit, VInvStep, TInvInit, PTL DEF Spec

-----------------------------------------------------------------------------
(***************************************************************************)
(* What the callback is called with.                                       *)
(***************************************************************************)
UsedBy(n, i) == action[i].name = n /\ request[n].use = Use(action[i].flags)
UseOf(n) ==
  made[n] = None => request[n].use = {"out"} \/ \E i \in 1 .. next - 1 : UsedBy(n, i)
Uses == \A n \in Known : UseOf(n)

CheckedAt(i) ==
  made[action[i].name] = None =>
    /\ "in_required" \in action[i].flags => HasValue(action[i].name)
    /\ HasValue(action[i].name) => request[action[i].name].data.type = action[i].type
Checked == required = None /\ badType = None => \A i \in 1 .. next - 1 : CheckedAt(i)

Called ==
  stage \in Executing =>
    /\ required = None /\ badType = None /\ next = Len(action) + 1
    /\ \A n \in Known : made[n] = None => request[n].use # {"out"}

CInv == VInv /\ Uses /\ Checked /\ Called

LEMMA ConvertHas ==
  ASSUME NEW d, DataOK(d), d.has, NEW t \in Types, NEW c \in Convert(d, t)
  PROVE  c.data.has = TRUE
<1>1. d.has = TRUE
  BY DEF DataOK
<1>2. CASE d.type = t
  <2>1. c = [ok |-> TRUE, data |-> d]
    BY <1>2 DEF Convert
  <2>2. c.data = d
    BY <2>1
  <2> QED
    BY <1>1, <2>2
<1>3. CASE c \in Refused(d)
  BY <1>1, <1>3, RefusedIs
<1>4. ASSUME NEW S, c \in Converted(t, S) PROVE c.data.has = TRUE
  <2>1. PICK v \in S : c.data = Data(t, v)
    BY <1>4, ConvertedIs
  <2> QED
    BY <2>1 DEF Data
<1>5. CASE d.type # t
  <2>1. c \in ConvertInt(d, t) \/ c \in ConvertFloat(d, t) \/ c \in ConvertString(d, t)
        \/ c \in Refused(d)
    BY <1>1, <1>5 DEF Convert
  <2>2. c \in ConvertInt(d, t) => c.data.has = TRUE
    BY <1>3, <1>4 DEF ConvertInt
  <2>3. c \in ConvertFloat(d, t) => c.data.has = TRUE
    BY <1>3, <1>4 DEF ConvertFloat
  <2>4. c \in ConvertString(d, t) => c.data.has = TRUE
    BY <1>3, <1>4 DEF ConvertString
  <2> QED
    BY <1>3, <2>1, <2>2, <2>3, <2>4
<1> QED
  BY <1>2, <1>5

LEMMA CInvInit == Init => CInv
<1> SUFFICES ASSUME Init PROVE CInv
  OBVIOUS
<1>1. Uses /\ Called
  BY DEF Init, Uses, Known, Called, Executing
<1>2. 1 .. next - 1 = {}
  BY DEF Init
<1> QED
  BY <1>1, <1>2, VInvInit DEF CInv, Checked

\* Steps that leave the request and the checks alone.
LEMMA CInvFrame ==
  ASSUME CInv, VInv', stage' \in Executing => stage \in Executing,
         UNCHANGED <<action, request, next, made, required, badType>>
  PROVE  CInv'
BY DEF CInv, Uses, UseOf, UsedBy, Checked, CheckedAt, Called, Known, HasValue

LEMMA CInvParse ==
  ASSUME CInv, VInv', NEW n \in Names, NEW d \in Sent, Parse(n, d)
  PROVE  CInv'
<1>1. /\ stage = "parsing" /\ stage' = "parsing" /\ UNCHANGED <<action, next, made, required, badType>>
  BY DEF Parse, checkVars
<1>2. CASE UNCHANGED request
  BY <1>1, <1>2, CInvFrame
<1>3. CASE request' = Stored(n, {"out"}, d)
  <2>1. next = 1 /\ 1 .. next - 1 = {}
    BY <1>1 DEF CInv, VInv, Fresh
  <2>2. Checked' /\ Called'
    BY <1>1, <2>1 DEF Checked, Called, Executing
  <2>3. ASSUME NEW k \in Known' PROVE UseOf(k)'
    <3>1. CASE k = n
      <4>1. request'[n] = [use |-> {"out"}, data |-> d]
        BY <1>3 DEF Stored
      <4>2. request'[n].use = {"out"}
        BY <4>1
      <4> QED
        BY <3>1, <4>2 DEF UseOf
    <3>2. CASE k # n
      <4>1. k \in Known /\ request'[k] = request[k]
        BY <1>3, <3>2 DEF Known, Stored
      <4> QED
        BY <1>1, <4>1 DEF CInv, Uses, UseOf, UsedBy
    <3> QED
      BY <3>1, <3>2
  <2> QED
    BY <2>2, <2>3 DEF CInv, Uses
<1> QED
  BY <1>2, <1>3 DEF Parse, ParameterSet

LEMMA CInvSet ==
  ASSUME CInv, VInv', NEW n \in Names, NEW d \in Produced, SetBy(n, d),
         stage' \in Executing => stage \in Executing
  PROVE  CInv'
<1>1. /\ stage' \in Executing => stage \in Executing
      /\ UNCHANGED <<action, next, required, badType>>
      /\ request' = Stored(n, {"out"}, d) /\ made' = [made EXCEPT ![n] = d]
  BY DEF SetBy, ParameterSet, checkVars
<1>2. made'[n] # None /\ \A k \in Names : k # n => made'[k] = made[k]
  BY <1>1, ValueAssumption DEF CInv, VInv, Histories
<1>3. \A k \in Known' : k # n => k \in Known /\ request'[k] = request[k] /\ made'[k] = made[k]
  <2> SUFFICES ASSUME NEW k \in Known', k # n
               PROVE  k \in Known /\ request'[k] = request[k] /\ made'[k] = made[k]
    OBVIOUS
  <2>1. k \in Known /\ request'[k] = request[k]
    BY <1>1 DEF Known, Stored
  <2> QED
    BY <1>2, <2>1 DEF CInv, VInv, TInv, RequestOK, Known
<1>4. ASSUME NEW k \in Known' PROVE UseOf(k)'
  BY <1>1, <1>2, <1>3 DEF CInv, Uses, UseOf, UsedBy
<1>5. Called'
  BY <1>1, <1>2, <1>3 DEF CInv, Called
<1>6. ASSUME NEW i \in 1 .. next - 1, CheckedAt(i) PROVE CheckedAt(i)'
  <2>1. CASE action[i].name = n
    BY <1>1, <1>2, <2>1 DEF CheckedAt
  <2>2. CASE action[i].name # n
    <3>1. action[i].name \in Names
      BY ActionNames, ActionParameter DEF CInv, VInv, TInv, ControlOK
    <3>2. HasValue(action[i].name)' <=> HasValue(action[i].name)
      BY <1>1, <2>2 DEF HasValue, Known, Stored
    <3>3. HasValue(action[i].name) => request'[action[i].name] = request[action[i].name]
      BY <1>1, <2>2 DEF HasValue, Known, Stored
    <3> QED
      BY <1>1, <1>2, <1>6, <2>2, <3>1, <3>2, <3>3 DEF CheckedAt
  <2> QED
    BY <2>1, <2>2
<1>7. Checked'
  BY <1>1, <1>6 DEF CInv, Checked
<1> QED
  BY <1>4, <1>5, <1>7 DEF CInv, Uses

LEMMA CInvCheck ==
  ASSUME CInv, VInv', CheckParameter
  PROVE  CInv'
<1> SUFFICES ASSUME NEW n, n = action[next].name,
                    NEW use, use = Use(action[next].flags),
                    NEW missing, missing = ("in_required" \in use /\ ~HasValue(n))
             PROVE  CInv'
  OBVIOUS
<1>1. /\ stage = "checking" /\ next' = next + 1 /\ required = None /\ badType = None
      /\ UNCHANGED <<action, stage, made>>
  BY DEF CheckParameter, Checking, historyVars
<1>2. /\ next \in 1 .. Len(action) /\ Len(action) \in Nat
      /\ DOMAIN action = 1 .. Len(action)
  BY ActionNames DEF CInv, VInv, TInv, ControlOK, CheckParameter, Checking
<1>3. /\ n \in Names /\ n # None /\ action[next].type \in Types
      /\ "in_required" \in action[next].flags <=> "in_required" \in use
  BY <1>2, ActionParameter, UseIsFlags, ValueAssumption DEF CInv, VInv, TInv, ControlOK
<1>4. \A i \in 1 .. next - 1 : action[i].name # n
  <2> SUFFICES ASSUME NEW i \in 1 .. next - 1, action[i].name = n PROVE FALSE
    OBVIOUS
  <2>1. i \in DOMAIN action /\ next \in DOMAIN action /\ i # next
    BY <1>2
  <2> QED
    BY <2>1, ActionNames DEF CInv, VInv, TInv, ControlOK
<1>5. required' = None => ~missing
  BY <1>3 DEF CheckParameter
<1>6. 1 .. next' - 1 = 1 .. next /\ 1 .. next = (1 .. next - 1) \cup {next}
  BY <1>1, <1>2
<1>7. Called'
  BY <1>1 DEF Called, Executing
<1>8. ASSUME Known' = Known, \A k \in Known : k # n => request'[k] = request[k],
             n \in Known => request'[n].use = use,
             required' = None /\ badType' = None /\ n \in Known =>
               /\ "in_required" \in use => request'[n].data.has
               /\ request'[n].data.type = action[next].type
      PROVE  CInv'
  <2>1. ASSUME NEW k \in Known' PROVE UseOf(k)'
    <3> SUFFICES ASSUME made[k] = None
                 PROVE  request'[k].use = {"out"} \/ \E i \in 1 .. next : UsedBy(k, i)'
      BY <1>1, <1>6 DEF UseOf
    <3>1. CASE k = n
      <4>1. ASSUME NEW i, i = next PROVE UsedBy(k, i)'
        BY <1>1, <1>8, <3>1, <4>1 DEF UsedBy
      <4>2. next \in 1 .. next
        BY <1>2
      <4> QED
        BY <4>1, <4>2
    <3>2. CASE k # n
      <4>1. k \in Known /\ request'[k] = request[k]
        BY <1>8, <3>2
      <4>2. \A i \in 1 .. next - 1 : i \in 1 .. next
        BY <1>2
      <4> QED
        BY <1>1, <4>1, <4>2 DEF CInv, Uses, UseOf, UsedBy
    <3> QED
      BY <3>1, <3>2
  <2>2. ASSUME required' = None, badType' = None, NEW i \in 1 .. next PROVE CheckedAt(i)'
    <3>1. CASE i = next
      <4>1. action'[i].name = n /\ action'[i].flags = action[next].flags
            /\ action'[i].type = action[next].type
        BY <1>1, <3>1
      <4>2. "in_required" \in use => HasValue(n)'
        BY <1>5, <1>8, <2>2 DEF HasValue
      <4>3. HasValue(n)' => request'[n].data.type = action[next].type
        BY <1>8, <2>2 DEF HasValue
      <4> QED
        BY <1>3, <4>1, <4>2, <4>3 DEF CheckedAt, HasValue
    <3>2. CASE i # next
      <4>1. i \in 1 .. next - 1 /\ action[i].name # n
        BY <1>2, <1>4, <3>2
      <4>2. CheckedAt(i)
        BY <1>1, <4>1 DEF CInv, Checked
      <4> QED
        BY <1>1, <1>8, <4>1, <4>2 DEF CheckedAt, HasValue
    <3> QED
      BY <3>1, <3>2
  <2>3. Checked'
    BY <1>6, <2>2 DEF Checked
  <2> QED
    BY <1>7, <2>1, <2>3 DEF CInv, Uses
<1>9. CASE n \notin Known /\ request' = request
  BY <1>8, <1>9 DEF Known
<1>10. ASSUME n \in Known, NEW d, request' = Stored(n, use, d),
              required' = None /\ badType' = None =>
                /\ "in_required" \in use => d.has
                /\ d.type = action[next].type
       PROVE  CInv'
  <2>1. DOMAIN Stored(n, use, d) = Known
    BY <1>10, StoredKnown
  <2>2. Known' = Known
    BY <1>10, <2>1 DEF Known
  <2>3. \A k \in Known : k # n => request'[k] = request[k]
    BY <1>10 DEF Stored
  <2>4. request'[n] = [use |-> use, data |-> d]
    BY <1>10 DEF Stored
  <2>5. request'[n].use = use /\ request'[n].data = d
    BY <2>4
  <2> QED
    BY <1>8, <1>10, <2>2, <2>3, <2>5
<1>11. CASE n \in Known /\ missing /\ request' = Stored(n, use, request[n].data)
  BY <1>5, <1>10, <1>11, <1>3 DEF CheckParameter
<1>12. ASSUME n \in Known, ~missing,
              NEW c \in Convert(request[n].data, action[next].type),
              request' = Stored(n, use, c.data),
              badType' = IF c.ok THEN None ELSE n
       PROVE  CInv'
  <2>1. DataOK(request[n].data)
    BY <1>12 DEF CInv, VInv, TInv, RequestOK, Known
  <2>2. badType' = None => c.data.type = action[next].type
    BY <1>3, <1>12, <2>1, ConvertTypes
  <2>3. "in_required" \in use => c.data.has
    <3>1. "in_required" \in use => request[n].data.has
      BY <1>12 DEF HasValue
    <3> QED
      BY <1>3, <1>12, <2>1, <3>1, ConvertHas
  <2> QED
    BY <1>10, <1>12, <2>2, <2>3
<1> QED
  BY <1>9, <1>11, <1>12 DEF CheckParameter

LEMMA CInvEnd ==
  ASSUME CInv, VInv', EndChecks
  PROVE  CInv'
<1>1. /\ stage = "checking" /\ ~Checking
      /\ UNCHANGED <<action, request, next, made, required, badType>>
  BY DEF EndChecks, checkVars, historyVars
<1>2. CASE Reason = None
  <2>1. required = None /\ badType = None /\ Unknown = {}
    BY <1>2, ValueAssumption DEF Reason, Reasons
  <2>2. next = Len(action) + 1
    BY <1>1, <2>1, ActionNames DEF Checking, CInv, VInv, TInv, ControlOK
  <2>3. \A n \in Known : request[n].use # {"out"}
    BY <2>1 DEF Unknown
  <2>4. Called'
    BY <1>1, <2>1, <2>2, <2>3 DEF Called, Known
  <2>5. Uses' /\ Checked'
    BY <1>1 DEF CInv, Uses, UseOf, UsedBy, Checked, CheckedAt, HasValue, Known
  <2> QED
    BY <2>4, <2>5 DEF CInv
<1>3. CASE Reason # None
  BY <1>1, <1>3, CInvFrame DEF EndChecks, Executing
<1> QED
  BY <1>2, <1>3

LEMMA CInvStep == CInv /\ [Next]_vars => CInv'
<1> SUFFICES ASSUME CInv, [Next]_vars PROVE CInv'
  OBVIOUS
<1>1. VInv'
  BY VInvStep DEF CInv
<1>2. ASSUME NEW n \in Names, NEW d \in Produced, CallbackSets(n, d) PROVE CInv'
  BY <1>1, <1>2, CInvSet DEF CallbackSets, SetBy
<1>3. ASSUME NEW d \in Produced, CommandEnds(d) PROVE CInv'
  <2>1. /\ stage \in Executing /\ UNCHANGED <<action, checkVars, given, reads>>
        /\ Retval \in Names
    BY <1>3, ValueAssumption DEF CommandEnds, Executing
  <2>2. CASE UNCHANGED <<request, made>>
    BY <1>1, <2>1, <2>2, CInvFrame DEF checkVars
  <2>3. CASE ParameterSet(Retval, d) /\ made' = [made EXCEPT ![Retval] = d]
    BY <1>1, <2>1, <2>3, CInvSet DEF SetBy
  <2> QED
    BY <1>3, <2>2, <2>3 DEF CommandEnds, TakeOver
<1>4. ASSUME NEW n \in {Stdout, Stderr}, NEW d \in Produced, CommandWrote(n, d) PROVE CInv'
  <2>1. stage \in Executing /\ UNCHANGED <<action, checkVars, given, reads>> /\ n \in Names
    BY <1>4, ValueAssumption DEF CommandWrote, Executing
  <2>2. CASE UNCHANGED <<request, made>>
    BY <1>1, <2>1, <2>2, CInvFrame DEF checkVars
  <2>3. CASE ParameterSet(n, d) /\ made' = [made EXCEPT ![n] = d]
    BY <1>1, <2>1, <2>3, CInvSet DEF SetBy
  <2> QED
    BY <1>4, <2>2, <2>3 DEF CommandWrote, TakeOver
<1>5. CASE Dispatch \/ CheckOut \/ Complete \/ CommandStarts \/ CommandLeft \/ WroteNothing
           \/ \E s \in {"success", "failure"} : CallbackReturns(s)
           \/ \E n \in Names, t \in Types, convert \in BOOLEAN : CallbackReads(n, t, convert)
  BY <1>1, <1>5, CInvFrame
  DEF Dispatch, CheckOut, Complete, CallbackReturns, CallbackReads, CommandStarts, CommandLeft,
      WroteNothing, Executing, checkVars, historyVars
<1>6. CASE UNCHANGED vars
  BY <1>1, <1>6, CInvFrame DEF vars, checkVars, historyVars
<1> QED
  BY <1>1, <1>2, <1>3, <1>4, <1>5, <1>6, CInvParse, CInvCheck, CInvEnd DEF Next

\* A callback has what its action requires, in the types it has registered,
\* and nothing it does not know, for any actions and any messages.
THEOREM CallbacksCalledRight == Spec => []CalledRight
<1>1. ASSUME CInv, stage \in Executing,
             NEW i \in DOMAIN action, made[action[i].name] = None
      PROVE  /\ "in_required" \in action[i].flags => HasValue(action[i].name)
             /\ HasValue(action[i].name) => request[action[i].name].data.type = action[i].type
  <2>1. i \in 1 .. next - 1 /\ required = None /\ badType = None
    BY <1>1, ActionNames DEF CInv, VInv, TInv, ControlOK, Called
  <2> QED
    BY <1>1, <2>1 DEF CInv, Checked, CheckedAt
<1>2. ASSUME CInv, stage \in Executing, NEW n \in Known, made[n] = None
      PROVE  \E i \in DOMAIN action : action[i].name = n /\ action[i].flags # {"out"}
  <2>1. PICK i \in 1 .. next - 1 : UsedBy(n, i)
    BY <1>2 DEF CInv, Called, Uses, UseOf
  <2>2. i \in DOMAIN action
    BY <1>2, ActionNames DEF CInv, VInv, TInv, ControlOK, Called
  <2>3. action[i].flags # {"out"}
    BY <1>2, <2>1, <2>2, ActionParameter, UseIsFlags DEF CInv, VInv, TInv, ControlOK, Called, UsedBy
  <2> QED
    BY <2>1, <2>2, <2>3 DEF UsedBy
<1>3. CInv => CalledRight
  BY <1>1, <1>2 DEF CalledRight
<1> QED
  BY <1>3, CInvInit, CInvStep, PTL DEF Spec

-----------------------------------------------------------------------------
(***************************************************************************)
(* What is answered.  A parameter that the callback or the command has set *)
(* stays as it was set; every parameter but a null has a value; and a      *)
(* success that has been checked owes nothing.                             *)
(***************************************************************************)
MadeIsThere ==
  \A n \in Names : made[n] # None =>
    n \in Known /\ request[n].use = {"out"} /\ request[n].data = made[n] /\ made[n] \in Produced

Unmade == stage \in {"parsing", "checking"} => \A n \in Names : made[n] = None

OwesNothing == stage = "executed" /\ result = "success" => Owed = {}

AInv == /\ CInv /\ MadeIsThere /\ Unmade /\ OwesNothing
        /\ stage # "answered" => answer = None
        /\ AnswerComplete

\* A conversion gives no null a value, and takes no value away.
LEMMA ConvertIsNoNull ==
  ASSUME NEW d, DataOK(d), d.has, d.type # "null", NEW t \in Types, NEW c \in Convert(d, t)
  PROVE  c.data.type # "null"
<1>1. CASE d.type = t
  <2>1. c = [ok |-> TRUE, data |-> d]
    BY <1>1 DEF Convert
  <2> QED
    BY <2>1
<1>2. CASE c \in Refused(d)
  BY <1>2, RefusedIs
<1>3. ASSUME t # "null", NEW S, c \in Converted(t, S) PROVE c.data.type # "null"
  <2>1. PICK v \in S : c.data = Data(t, v)
    BY <1>3, ConvertedIs
  <2> QED
    BY <1>3, <2>1 DEF Data
<1>4. CASE d.type # t /\ t # "null"
  <2>1. c \in ConvertInt(d, t) \/ c \in ConvertFloat(d, t) \/ c \in ConvertString(d, t)
        \/ c \in Refused(d)
    BY <1>4 DEF Convert
  <2>2. c \in ConvertInt(d, t) => c.data.type # "null"
    BY <1>2, <1>3, <1>4 DEF ConvertInt
  <2>3. c \in ConvertFloat(d, t) => c.data.type # "null"
    BY <1>2, <1>3, <1>4 DEF ConvertFloat
  <2>4. c \in ConvertString(d, t) => c.data.type # "null"
    BY <1>2, <1>3, <1>4 DEF ConvertString
  <2> QED
    BY <1>2, <2>1, <2>2, <2>3, <2>4
<1>5. CASE d.type # t /\ t = "null"
  <2>1. t \notin IntTypes /\ t \notin FloatTypes /\ t # "raw"
    BY <1>5, TypesApart
  <2>2. c \in Refused(d)
    BY <1>5, <2>1 DEF Convert, ConvertInt, ConvertFloat, ConvertString
  <2> QED
    BY <1>2, <2>2
<1> QED
  BY <1>1, <1>4, <1>5

\* A parameter with a value is no null.
LEMMA ValueIsNoNull ==
  ASSUME CInv, MadeIsThere, NEW n \in Known, HasValue(n)
  PROVE  request[n].data.type # "null"
<1>1. n \in Names
  BY DEF CInv, VInv, TInv, RequestOK, Known
<1>2. CASE made[n] # None
  BY <1>1, <1>2, ValueAssumption DEF MadeIsThere, HasValue
<1>3. CASE made[n] = None
  <2>1. given[n] \in Sent
    BY <1>3 DEF CInv, VInv, Origin, OriginOf
  <2>2. DataOK(given[n]) /\ given[n].has /\ given[n].type # "null"
    BY <2>1, ValueAssumption
  <2>3. CASE Unchanged(n)
    BY <2>2, <2>3 DEF Unchanged
  <2>4. ASSUME NEW i \in 1 .. next - 1, ConvertedBy(n, i) PROVE request[n].data.type # "null"
    <3>1. i \in DOMAIN action
      BY ActionNames DEF CInv, VInv, TInv, ControlOK
    <3>2. action[i].type \in Types
      BY <3>1, ActionParameter DEF CInv, VInv, TInv, ControlOK
    <3>3. PICK c \in Convert(given[n], action[i].type) : request[n].data = c.data
      BY <2>4 DEF ConvertedBy
    <3> QED
      BY <2>2, <3>2, <3>3, ConvertIsNoNull
  <2> QED
    BY <1>3, <2>3, <2>4 DEF CInv, VInv, Origin, OriginOf
<1> QED
  BY <1>2, <1>3

-----------------------------------------------------------------------------
\* The types of integers that int64 can hold.
LEMMA Int64Holds ==
  ASSUME NEW d, DataOK(d), d.type \in IntTypes, Writable(d)
  PROVE  d.value \in Ints("int64")
<1>1. d.value \in Ints(d.type)
  BY DEF DataOK
<1>2. d.type # "uint64" => Ints(d.type) \subseteq Ints("int64")
  BY TopAssumption DEF Ints, Lo, IntTypes, SignedTypes, UnsignedTypes
<1>3. d.type = "uint64" => d.value \in Nat /\ d.value <= Top["int64"]
  BY <1>1, TopAssumption DEF Writable, Ints, Lo, IntTypes, SignedTypes, UnsignedTypes
<1>4. \A v \in Nat : v <= Top["int64"] => v \in Ints("int64")
  BY TopAssumption DEF Ints, Lo, IntTypes, SignedTypes, UnsignedTypes
<1> QED
  BY <1>1, <1>2, <1>3, <1>4

\* What tr50_action_complete writes of a value it can write.
LEMMA PublishedAsIs ==
  ASSUME NEW d, DataOK(d), d.has, Writable(d), NEW p \in Published(d)
  PROVE  p.value = d.value
<1>1. CASE d.type \in IntTypes
  <2>1. d.value \in Ints("int64") /\ "int64" \in IntTypes
    BY <1>1, Int64Holds DEF IntTypes, SignedTypes
  <2>0. d.type \notin FloatTypes
    BY <1>1, TypesApart DEF DataOK
  <2>2. PICK v \in OrZero(Read(d, "int64", TRUE), 0) : p = [type |-> "int64", value |-> v]
    BY <1>1, <2>0 DEF Published
  <2>3. Read(d, "int64", TRUE) = {d.value}
    <3>1. CASE d.type = "int64"
      BY <3>1 DEF Read
    <3>2. CASE d.type # "int64"
      <4>1. Read(d, "int64", TRUE) = AsSigned(d, "int64")
        BY <3>2 DEF Read, SignedTypes
      <4>2. AsSigned(d, "int64") = {Wrap(d.value, "int64")}
        BY <1>1, TypesApart DEF AsSigned, DataOK
      <4> QED
        BY <2>1, <4>1, <4>2, CastKeeps
    <3> QED
      BY <3>1, <3>2
  <2>4. v = d.value
    BY <2>2, <2>3 DEF OrZero
  <2> QED
    BY <2>2, <2>4
<1>2. CASE d.type \in FloatTypes
  <2>1. d.type = "float64" /\ d.type \notin IntTypes
    BY <1>2 DEF Writable, FloatTypes, IntTypes, SignedTypes, UnsignedTypes
  <2>2. PICK v \in OrZero(Read(d, "float64", TRUE), Float(0, FALSE)) :
          p = [type |-> "float64", value |-> v]
    BY <1>2, <2>1 DEF Published
  <2>3. v = d.value
    BY <2>1, <2>2 DEF OrZero, Read
  <2> QED
    BY <2>2, <2>3
<1>3. CASE d.type \notin IntTypes /\ d.type \notin FloatTypes
  <2>1. p = [type |-> d.type, value |-> d.value]
    BY <1>3 DEF Published, Bare
  <2> QED
    BY <2>1
<1> QED
  BY <1>1, <1>2, <1>3

\* A callback or a command has set parameter n to d.
LEMMA SetMade ==
  ASSUME CInv, MadeIsThere, NEW n \in Names, NEW d \in Produced,
         ParameterSet(n, d), made' = [made EXCEPT ![n] = d]
  PROVE  MadeIsThere'
<1>1. request' = Stored(n, {"out"}, d)
  BY DEF ParameterSet
<1>2. Known' = Known \cup {n}
  BY <1>1, StoredIs DEF Known
<1>3. made'[n] = d /\ \A k \in Names : k # n => made'[k] = made[k]
  BY DEF CInv, VInv, Histories
<1>4. request'[n] = [use |-> {"out"}, data |-> d]
  BY <1>1 DEF Stored
<1>5. request'[n].use = {"out"} /\ request'[n].data = d
  BY <1>4
<1>6. ASSUME NEW k \in Names, k # n, made'[k] # None
      PROVE  /\ k \in Known' /\ request'[k].use = {"out"} /\ request'[k].data = made'[k]
             /\ made'[k] \in Produced
  <2>1. k \in Known /\ made[k] = made'[k]
    BY <1>3, <1>6 DEF MadeIsThere
  <2>2. request'[k] = request[k]
    BY <1>1, <1>6, <2>1 DEF Stored
  <2> QED
    BY <1>2, <1>6, <2>1, <2>2 DEF MadeIsThere
<1> QED
  BY <1>2, <1>3, <1>5, <1>6 DEF MadeIsThere

\* Steps that neither set a parameter nor answer.
LEMMA AInvFrame ==
  ASSUME AInv, CInv', MadeIsThere', stage' \in {"parsing", "checking"} => Unmade',
         stage' \notin {"executed", "answered"}, UNCHANGED answer, stage # "answered"
  PROVE  AInv'
BY DEF AInv, OwesNothing, AnswerComplete, Unmade

LEMMA AnswerIsComplete ==
  ASSUME AInv, CInv', Complete
  PROVE  AInv'
<1>1. /\ stage = "executed" /\ stage' = "answered"
      /\ UNCHANGED <<action, request, result, made>>
  BY DEF Complete, historyVars
<1>2. PICK params \in [Written -> UNION {Published(request[n].data) : n \in Written}] :
        /\ \A n \in Written : params[n] \in Published(request[n].data)
        /\ answer' = [status |-> result, reason |-> message', params |-> params]
  BY DEF Complete
<1>3. answer'.status = result /\ answer'.params = params /\ DOMAIN params = Written
  BY <1>2
<1>4. ASSUME result = "success", NEW i \in DOMAIN action, "out_required" \in action[i].flags
      PROVE  action[i].name \in Written
  <2> DEFINE n == action[i].name
  <2>1. action \in Actions
    BY DEF AInv, CInv, VInv, TInv, ControlOK
  <2>2. action[i].flags \in SUBSET Flags /\ n \in Names
    BY <2>1, ActionParameter
  <2>3. "out_required" \in Use(action[i].flags) /\ "out" \in Use(action[i].flags)
    BY <1>4, <2>2 DEF Use
  <2>4. HasValue(n)
    BY <1>1, <1>4, <2>3 DEF AInv, OwesNothing, Owed
  <2>5. n \in Known
    BY <2>4 DEF HasValue
  <2>6. request[n].data.type # "null"
    BY <2>4, <2>5, ValueIsNoNull DEF AInv
  <2>7. "out" \in request[n].use
    <3>1. CASE made[n] # None
      BY <2>2, <3>1 DEF AInv, MadeIsThere
    <3>2. ASSUME NEW j \in 1 .. next - 1, UsedBy(n, j) PROVE "out" \in request[n].use
      <4>1. j \in DOMAIN action
        BY <2>1, ActionNames DEF AInv, CInv, VInv, TInv, ControlOK
      <4>2. j = i
        BY <2>1, <3>2, <4>1, ActionNames DEF UsedBy
      <4> QED
        BY <2>3, <3>2, <4>2 DEF UsedBy
    <3>3. CASE made[n] = None
      BY <2>5, <3>2, <3>3 DEF AInv, CInv, Uses, UseOf
    <3> QED
      BY <3>1, <3>3
  <2> QED
    BY <2>5, <2>6, <2>7 DEF Written
<1>5. ASSUME NEW n \in Names, made[n] # None, Writable(made[n])
      PROVE  n \in Written /\ params[n].value = made[n].value
  <2>1. /\ n \in Known /\ request[n].use = {"out"} /\ request[n].data = made[n]
        /\ made[n] \in Produced
    BY <1>5 DEF AInv, MadeIsThere
  <2>2. DataOK(made[n]) /\ made[n].type # "null" /\ made[n].has
    BY <1>5, <2>1, ValueAssumption DEF Writable
  <2>3. n \in Written
    BY <2>1, <2>2 DEF Written
  <2>4. params[n] \in Published(made[n])
    BY <1>2, <2>1, <2>3
  <2> QED
    BY <1>5, <2>2, <2>3, <2>4, PublishedAsIs
<1>6. AnswerComplete'
  BY <1>1, <1>3, <1>4, <1>5 DEF AnswerComplete
<1>7. MadeIsThere' /\ Unmade' /\ OwesNothing'
  BY <1>1 DEF AInv, MadeIsThere, Unmade, OwesNothing, Known
<1> QED
  BY <1>1, <1>6, <1>7 DEF AInv

LEMMA AInvInit == Init => AInv
<1> SUFFICES ASSUME Init PROVE AInv
  OBVIOUS
<1>1. \A n \in Names : made[n] = None
  BY DEF Init
<1>2. MadeIsThere /\ Unmade
  BY <1>1 DEF MadeIsThere, Unmade
<1>3. OwesNothing /\ answer = None /\ AnswerComplete
  BY DEF Init, OwesNothing, AnswerComplete
<1> QED
  BY <1>2, <1>3, CInvInit DEF AInv

LEMMA AInvStep == AInv /\ [Next]_vars => AInv'
<1>a. SUFFICES ASSUME AInv, [Next]_vars PROVE AInv'
  OBVIOUS
<1>0. CInv'
  BY <1>a, CInvStep DEF AInv
<1>1. ASSUME UNCHANGED <<request, made>> PROVE MadeIsThere'
  BY <1>a, <1>1 DEF AInv, MadeIsThere, Known
<1>2. ASSUME NEW n \in Names, NEW d \in Sent, Parse(n, d) PROVE AInv'
  <2>1. stage = "parsing" /\ UNCHANGED <<stage, made, answer>>
    BY <1>2 DEF Parse
  <2>2. MadeIsThere' /\ Unmade'
    BY <1>a, <2>1 DEF AInv, MadeIsThere, Unmade
  <2> QED
    BY <1>a, <1>0, <2>1, <2>2, AInvFrame
<1>3. CASE Dispatch \/ CheckParameter
  <2>1. stage \in {"parsing", "checking"} /\ stage' = "checking" /\ UNCHANGED <<made, answer>>
    BY <1>3 DEF Dispatch, CheckParameter, Checking, historyVars
  <2>2. MadeIsThere' /\ Unmade'
    BY <1>a, <2>1 DEF AInv, MadeIsThere, Unmade
  <2> QED
    BY <1>a, <1>0, <2>1, <2>2, AInvFrame
<1>4. CASE EndChecks
  <2>1. /\ stage = "checking" /\ stage' \in {"running", "executed"}
        /\ result' \in {"failure", "bad_request"} /\ UNCHANGED <<request, made, answer>>
    BY <1>4 DEF EndChecks, historyVars
  <2> QED
    BY <1>a, <1>0, <1>1, <2>1 DEF AInv, Unmade, OwesNothing, AnswerComplete
<1>5. ASSUME NEW n \in Names, NEW t \in Types, NEW convert \in BOOLEAN,
             CallbackReads(n, t, convert)
      PROVE  AInv'
  <2>1. stage' = "running" /\ stage = "running" /\ UNCHANGED <<request, made, answer>>
    BY <1>5 DEF CallbackReads
  <2> QED
    BY <1>a, <1>0, <1>1, <2>1, AInvFrame
<1>6. ASSUME NEW n \in Names, NEW d \in Produced, CallbackSets(n, d) PROVE AInv'
  <2>1. stage = "running" /\ UNCHANGED <<stage, answer>>
    BY <1>6 DEF CallbackSets
  <2>2. MadeIsThere'
    BY <1>a, <1>6, SetMade DEF AInv, CallbackSets
  <2> QED
    BY <1>a, <1>0, <2>1, <2>2, AInvFrame
<1>7. CASE CommandStarts \/ CommandLeft \/ WroteNothing
           \/ \E s \in {"success", "failure"} : CallbackReturns(s)
  <2>1. /\ stage \in Executing /\ stage' \in Executing /\ UNCHANGED <<request, made, answer>>
    BY <1>7 DEF CommandStarts, CommandLeft, WroteNothing, CallbackReturns, Executing, historyVars
  <2> QED
    BY <1>a, <1>0, <1>1, <2>1, AInvFrame DEF Executing
<1>8. ASSUME NEW n \in Names, NEW d \in Produced, TakeOver(n, d),
             stage \in Executing, stage' \in Executing, UNCHANGED answer
      PROVE  AInv'
  <2>1. MadeIsThere'
    BY <1>a, <1>1, <1>8, SetMade DEF AInv, TakeOver
  <2> QED
    BY <1>a, <1>0, <1>8, <2>1, AInvFrame DEF Executing
<1>9. ASSUME NEW d \in Produced, CommandEnds(d) PROVE AInv'
  <2>1. stage \in Executing /\ stage' \in Executing /\ UNCHANGED answer /\ Retval \in Names
    BY <1>9, ValueAssumption DEF CommandEnds, Executing
  <2>2. CASE UNCHANGED <<request, made>>
    BY <1>a, <1>0, <1>1, <2>1, <2>2, AInvFrame DEF Executing
  <2> QED
    BY <1>8, <1>9, <2>1, <2>2 DEF CommandEnds
<1>10. ASSUME NEW n \in {Stdout, Stderr}, NEW d \in Produced, CommandWrote(n, d) PROVE AInv'
  <2>1. stage \in Executing /\ stage' \in Executing /\ UNCHANGED answer /\ n \in Names
    BY <1>10, ValueAssumption DEF CommandWrote, Executing
  <2> QED
    BY <1>8, <1>10, <2>1 DEF CommandWrote
<1>11. CASE CheckOut
  <2>1. /\ stage = "returned" /\ stage' = "executed" /\ UNCHANGED <<action, request, made, answer>>
        /\ result' = "success" => Owed = {}
    BY <1>11 DEF CheckOut, historyVars
  <2>2. OwesNothing'
    BY <2>1 DEF OwesNothing, Owed, HasValue, Known
  <2> QED
    BY <1>a, <1>0, <1>1, <2>1, <2>2 DEF AInv, Unmade, AnswerComplete
<1>12. CASE UNCHANGED vars
  BY <1>a, <1>0, <1>1, <1>12
  DEF AInv, Unmade, OwesNothing, Owed, HasValue, Known, AnswerComplete, vars, historyVars
<1> QED
  BY <1>a, <1>0, <1>2, <1>3, <1>4, <1>5, <1>6, <1>7, <1>9, <1>10, <1>11, <1>12,
     AnswerIsComplete
  DEF Next

\* A success is answered with every output the action owes, and with the
\* values its callback or command has set, for any actions, messages, values
\* and widths (the test of the out parameters, and tr50_action_complete).
THEOREM AnswersComplete == Spec => []AnswerComplete
<1>1. AInv => AnswerComplete
  BY DEF AInv
<1> QED
  BY <1>1, AInvInit, AInvStep, PTL DEF Spec
=============================================================================
