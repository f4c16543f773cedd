------------------------------ MODULE MCLists ------------------------------
(* The collections of the library: items with two threads, two structures   *)
(* inside the library, two on the heap and two names; three options with    *)
(* names in two spellings; three plug-ins, two of one order; JSON documents *)
(* of five calls, with a name that begins another; two programs that read   *)
(* configuration files; two telemetry items with two threads that publish.  *)
EXTENDS Lists, TLC

CONSTANTS t1, t2, b1, b2, h1, h2, v1, v2, fa, fb, fc

MCThreads == {t1, t2}
MCBuiltIn == {b1, b2}
MCHeap == {h1, h2}
MCKinds == {"action", "telemetry", "alarm"}
MCNames == 1 .. 2
MCHolders == {"list", "action", "request", "telemetry"}
MCKeys == 1 .. 3
MCSpellings == {"lower", "upper"}
MCValues == {v1, v2}
MCPlugins == {fa, fb, fc}
MCOrder == fa :> 1 @@ fb :> 2 @@ fc :> 2
MCLoaded == <<fb>>
MCMembers == {<<1>>, <<1, 2>>, <<2>>}

\* Configuration files: "a": 1, "b": {"a": 2, "c": {"b": 1}, "b": 2}, "c": 2, and
\* "b": {"a": 1, "b": []}, "a": 2, or none that can be used.
Member(d, n, v) == [depth |-> d, name |-> n, value |-> v]
MCFiles ==
  {[state |-> s, members |-> <<>>] : s \in {"absent", "unreadable"}} \cup
  {[state |-> "document", members |-> m] : m \in
     {<<Member(1, "a", "1"), Member(1, "b", "object"), Member(2, "a", "2"),
        Member(2, "c", "object"), Member(3, "b", "1"), Member(2, "b", "2"), Member(1, "c", "2")>>,
      <<Member(1, "b", "object"), Member(2, "a", "1"), Member(2, "b", "array"), Member(1, "a", "2")>>}}

\* A telemetry of locations and one of any type.
MCData ==
  {[type |-> "location", has_value |-> TRUE, flags |-> {"heading", "altitude_accuracy"}],
   [type |-> "string", has_value |-> FALSE, flags |-> {}]}
Opt(n, t) == [name |-> n, type |-> t]
MCGiven ==
  {{}, {Opt("time_stamp", "int64"), Opt("location", "location"), Opt("global", "bool")},
   {Opt("time_stamp", "uint64"), Opt("level", "uint64")}}
MCTelemetry == {"position", "value"}
MCType == "position" :> "location" @@ "value" :> "null"

Symmetry == Permutations(MCThreads) \cup Permutations(MCBuiltIn) \cup Permutations(MCHeap)
              \cup Permutations(MCValues)
=============================================================================
