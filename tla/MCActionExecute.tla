--------------------------- MODULE MCActionExecute ---------------------------
(***************************************************************************)
(* Instances of ActionExecute for TLC: widths of 3, 4, 5 and 7 bits, floats *)
(* that are exact up to 8 and 32, the narrow ones at most 48, and actions   *)
(* whose parameters are of narrower and wider types than what the cloud     *)
(* sends.                                                                  *)
(***************************************************************************)
EXTENDS ActionExecute

CONSTANTS level, total, stray, bad, errors

MCTop == [t \in IntTypes |->
            CASE t = "int8"  -> 3  [] t = "uint8"  -> 7
              [] t = "int16" -> 7  [] t = "uint16" -> 15
              [] t = "int32" -> 15 [] t = "uint32" -> 31
              [] t = "int64" -> 63 [] t = "uint64" -> 127]
MCExact == [t \in FloatTypes |-> IF t = "float32" THEN 8 ELSE 32]

Param(n, flags, t) == [name |-> n, flags |-> flags, type |-> t]
MCNoReturn == {<<Param(level, {"in_required"}, "uint16")>>}
MCCommands ==
  {<<Param(level, {"in_required"}, "int16"), Param(total, {"out_required"}, "int32")>>,
   <<Param(total, {"in", "out"}, "int32"), Param(stray, {"out_required"}, "string")>>}
  \cup MCNoReturn
MCActions ==
  {<<Param(level, {"in_required"}, t), Param(total, {"out_required"}, "uint32")>> :
      t \in IntTypes \cup {"float32", "raw"}}
  \cup {<<Param(level, {"in"}, "int32"), Param(total, {"in", "out"}, "uint64")>>,
        <<Param(level, {"out"}, "bool")>>}
  \cup MCCommands

MCNames == {level, total, stray, bad, errors}
MCBadNames == {bad}
Text(number, base64) ==
  [strtol |-> number, strtoul |-> number, yes |-> TRUE, base64 |-> base64]
MCSent == {Data("int64", n) : n \in {-64, -1, 5, 12, 63}}
            \cup {Data("float64", Float(3, TRUE)), Data("float64", Float(56, FALSE)),
                  Data("bool", TRUE),
                  Data("string", Text(9, TRUE)), Data("string", Text(0, FALSE))}
MCProduced == {Data("uint32", 31), Data("int32", -4), Data("int32", 0), Data("float32", Float(2, TRUE)),
               Data("string", Text(0, FALSE)), Null}
=============================================================================
