------------------------------ MODULE Halving ------------------------------
(***************************************************************************)
(* The search by halving in a sorted array, of which the library has a     *)
(* copy for its options, its plug-ins, and the lists of actions, telemetry *)
(* and alarms.  What is compared is abstracted to two sets of places:      *)
(* those that hold something lower than what is sought and those that hold *)
(* something higher.                                                       *)
(***************************************************************************)
EXTENDS Integers

Middle(s) == (s[2] - s[1]) \div 2 + s[1]

\* What is left to search: the places from the first of the pair up to the second.
Spans(first, last) == {s \in (first .. last) \X (first .. last) : s[1] <= s[2]}

\* A search of the places from first up to last: where it stops, and whether
\* what is there is neither lower nor higher.
Halve(first, last, Lower, Higher) ==
  LET stop[s \in Spans(first, last)] ==
        IF s[1] = s[2] THEN [at |-> s[1], found |-> FALSE]
        ELSE IF Middle(s) \in Lower THEN stop[<<Middle(s) + 1, s[2]>>]
        ELSE IF Middle(s) \in Higher THEN stop[<<s[1], Middle(s)>>]
        ELSE [at |-> Middle(s), found |-> TRUE]
  IN  stop[<<first, last>>]
=============================================================================
