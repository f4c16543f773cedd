--------------------------- MODULE DataConversion ---------------------------
(***************************************************************************)
(* Values with a type (struct iot_data), and the two conversions of        *)
(* iot_common.c: iot_common_data_convert changes an object in place when    *)
(* no information is lost, iot_perform_conversion makes a copy of another   *)
(* type and loses what does not fit.                                       *)
(*                                                                         *)
(* Integers have the width of their type.  A float is its integral part and *)
(* a mark for a fraction; a string is what the conversions look at.  A cast *)
(* of a float to an integer type that cannot hold it is undefined in C:     *)
(* every value of the type is a possible outcome, so conversions return the *)
(* set of their outcomes.                                                  *)
(***************************************************************************)
EXTENDS Integers

CONSTANTS
  Top,     \* the largest value of each integer type
  Exact,   \* up to which integer a type of floats is exact (2^24, 2^53)
  FLT_MAX  \* the largest float32

SignedTypes   == {"int8", "int16", "int32", "int64"}
UnsignedTypes == {"uint8", "uint16", "uint32", "uint64"}
IntTypes      == SignedTypes \cup UnsignedTypes
FloatTypes    == {"float32", "float64"}
Types         == IntTypes \cup FloatTypes \cup {"bool", "string", "raw", "null"}

ASSUME TopAssumption ==
  /\ Top \in [IntTypes -> Nat]
  /\ Top["uint8"] = 2 * Top["int8"] + 1   /\ Top["uint16"] = 2 * Top["int16"] + 1
  /\ Top["uint32"] = 2 * Top["int32"] + 1 /\ Top["uint64"] = 2 * Top["int64"] + 1
  /\ Top["uint8"] <= Top["int16"] /\ Top["uint16"] <= Top["int32"]
  /\ Top["uint32"] <= Top["int64"]
ASSUME ExactAssumption == Exact \in [FloatTypes -> Nat \ {0}] /\ FLT_MAX \in Nat

Lo(t)   == IF t \in SignedTypes THEN -Top[t] - 1 ELSE 0
Ints(t) == Lo(t) .. Top[t]
Wrap(n, t) == Lo(t) + ((n - Lo(t)) % (Top[t] - Lo(t) + 1))

\* A float, and the float of type t nearest to n (ties to the even one).
Float(n, frac) == [n |-> n, frac |-> frac]
Floats == [n : Int, frac : BOOLEAN]
Round(n, t) ==
  LET size == IF n < 0 THEN -n ELSE n
      step == 2 ^ (CHOOSE k \in 0 .. size : /\ size <= Exact[t] * 2 ^ k
                                            /\ \A j \in 0 .. k - 1 : size > Exact[t] * 2 ^ j)
      rest == n % step
      up   == rest * 2 > step \/ (rest * 2 = step /\ (n \div step) % 2 = 1)
  IN  n - rest + (IF up THEN step ELSE 0)

Data(t, v) == [type |-> t, value |-> v, has |-> TRUE]
Null       == [type |-> "null", value |-> 0, has |-> FALSE]

\* The cast of a float to an integer type.
Truncate(f, t) == IF f.n \in Ints(t) THEN {f.n} ELSE Ints(t)

-----------------------------------------------------------------------------
(***************************************************************************)
(* iot_common_data_convert with IOT_CONVERSION_BASIC.                      *)
(***************************************************************************)

\* Types that are converted to t without a look at the value ...
Unchecked(t) ==
  CASE t = "int16"  -> {"int8", "uint8"}
    [] t = "int32"  -> {"int8", "uint8", "int16", "uint16"}
    [] t = "int64"  -> {"int8", "uint8", "int16", "uint16", "int32", "uint32"}
    [] t = "uint16" -> {"uint8"}
    [] t = "uint32" -> {"uint8", "uint16"}
    [] t = "uint64" -> {"uint8", "uint16", "uint32"}
    [] OTHER        -> {}

\* ... and types whose values are not compared with the largest value of t.
NoUpperTest(t) ==
  CASE t = "uint8"  -> {"int8"}
    [] t = "uint16" -> {"int8", "int16"}
    [] t = "uint32" -> {"int8", "int16", "int32"}
    [] t = "uint64" -> SignedTypes
    [] OTHER        -> {}

\* Mutant: the test of the sign is left out.
FitsNoSign(v, from, t) ==
  from \notin Unchecked(t) => (from \notin NoUpperTest(t) => v <= Top[t])

Fits(v, from, t) ==
  from \notin Unchecked(t) =>
    /\ from \in SignedTypes => v >= Lo(t)
    /\ from \notin NoUpperTest(t) => v <= Top[t]

\* The member of the union that is read: 32 bits to 64 bits takes the wrong one.
Member(from, t) ==
  IF t = "int64" /\ from = "int32" THEN "uint32"
  ELSE IF t = "int64" /\ from = "uint32" THEN "int32" ELSE from

CastInt(v, from, t) == Wrap(Wrap(v, Member(from, t)), t)

\* iot_common_data_no_decimal: its own cast to 64 bits may be undefined.
NoDecimal(f) == IF f.n \in Ints("int64") THEN {~f.frac} ELSE BOOLEAN

\* Only the upper bound is tested, after a conversion to the type of the float.
FitsFloat(f, from, t) ==
  \/ f.n < Round(Top[t], from)
  \/ f.n = Round(Top[t], from) /\ ~f.frac

\* A float64 is compared with the largest float32, its sign is not looked at;
\* what is below every float32 is out of the model.
FitsFloat32(f) == f.n < FLT_MAX \/ (f.n = FLT_MAX /\ ~f.frac)

Converted(t, values) == {[ok |-> TRUE, data |-> Data(t, v)] : v \in values}
Refused(d) == {[ok |-> FALSE, data |-> d]}

ConvertInt(d, t) ==
  IF t \in IntTypes
    THEN IF Fits(d.value, d.type, t)
           THEN Converted(t, {CastInt(d.value, d.type, t)}) ELSE Refused(d)
  ELSE IF t \in FloatTypes
    THEN Converted(t, {Float(Round(d.value, t), FALSE)})
  ELSE Refused(d)

ConvertFloat(d, t) ==
  IF t = "float32" /\ ~FitsFloat32(d.value) THEN Refused(d)
  ELSE IF t \in FloatTypes
    THEN Converted(t, {Float(Round(d.value.n, t), d.value.frac)})
  ELSE IF t \in IntTypes /\ FitsFloat(d.value, d.type, t)
    THEN UNION {IF whole THEN Converted(t, Truncate(d.value, t)) ELSE Refused(d)
                  : whole \in NoDecimal(d.value)}
  ELSE Refused(d)

\* A string the decoder of base64 accepts becomes raw data.
ConvertString(d, t) ==
  IF t = "raw" /\ d.value.base64 THEN Converted(t, {d.value}) ELSE Refused(d)

Convert(d, t) ==
  IF d.type = t THEN {[ok |-> TRUE, data |-> d]}
  ELSE IF ~d.has THEN {[ok |-> TRUE, data |-> [Null EXCEPT !.type = t]]}
  ELSE IF d.type \in IntTypes THEN ConvertInt(d, t)
  ELSE IF d.type \in FloatTypes THEN ConvertFloat(d, t)
  ELSE IF d.type = "string" THEN ConvertString(d, t)
  ELSE Refused(d)

-----------------------------------------------------------------------------
(***************************************************************************)
(* iot_perform_conversion: the value of type t made from d, when the caller *)
(* of iot_common_arg_get asks for a conversion.                            *)
(***************************************************************************)
AsBool(d) ==
  CASE d.type \in IntTypes   -> d.value # 0
    [] d.type \in FloatTypes -> d.value = Float(0, FALSE)   \* true for zero
    [] d.type = "string"     -> d.value.yes
    [] d.type = "raw"        -> TRUE
    [] OTHER                 -> FALSE

\* Mutant: a value of 64 bits goes through int32.
AsSignedNarrow(d, t) ==
  CASE d.type \in IntTypes   -> {Wrap(Wrap(d.value, "int32"), t)}
    [] d.type \in FloatTypes -> Truncate(d.value, t)
    [] d.type = "bool"       -> {IF d.value THEN 1 ELSE 0}
    [] d.type = "string"     -> {Wrap(d.value.strtol, t)}
    [] OTHER                 -> {}

\* To a signed and to an unsigned type.
AsSigned(d, t) ==
  CASE d.type \in IntTypes   -> {Wrap(d.value, t)}
    [] d.type \in FloatTypes -> Truncate(d.value, t)
    [] d.type = "bool"       -> {IF d.value THEN 1 ELSE 0}
    [] d.type = "string"     -> {Wrap(d.value.strtol, t)}
    [] OTHER                 -> {}

AsUnsigned(d, t) ==
  IF d.type = "string" THEN {Wrap(d.value.strtoul, t)} ELSE AsSigned(d, t)

\* The possible values read, none when the call stores nothing.
Read(d, t, convert) ==
  IF d.type = t THEN IF d.has THEN {d.value} ELSE {}
  ELSE IF ~convert \/ ~d.has THEN {}
  ELSE IF t = "bool" THEN {AsBool(d)}
  ELSE IF t \in SignedTypes THEN AsSigned(d, t)
  ELSE IF t \in UnsignedTypes THEN AsUnsigned(d, t)
  ELSE IF t = "raw" /\ d.type = "string" THEN {d.value}
  ELSE {}                                    \* floats and strings: nothing converts
=============================================================================
