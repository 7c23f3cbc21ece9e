------------------------------ MODULE RangeMap ------------------------------
(***************************************************************************)
(* What a set promises, whatever its kind: it answers a key with the value *)
(* of the range that contains it, and a key in no range with nothing.  The *)
(* promise is for ranges that do not overlap.                              *)
(***************************************************************************)
EXTENDS Naturals, Sequences

CONSTANTS Keys, Values, Leq(_, _)

VARIABLES
    asked,      \* the ranges asked for, in order
    answer      \* answer[k]: the values the set gives for key k

Range == [from : Keys, to : Keys, value : Values]

Within(k, r) == Leq(r.from, k) /\ Leq(k, r.to)

Legal(s) ==
    /\ \A i \in DOMAIN s : Leq(s[i].from, s[i].to)
    /\ \A i, j \in DOMAIN s : \A k \in Keys :
          Within(k, s[i]) /\ Within(k, s[j]) => i = j

Init == asked = <<>> /\ answer = [k \in Keys |-> {}]

Add(r) ==
    /\ asked' = Append(asked, r)
    /\ Legal(asked') =>
          answer' = [k \in Keys |-> IF Within(k, r) THEN {r.value} ELSE answer[k]]

Next == \E r \in Range : Add(r)

Spec == Init /\ [][Next]_<<asked, answer>>
=============================================================================
