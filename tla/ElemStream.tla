----------------------------- MODULE ElemStream -----------------------------
(***************************************************************************)
(* What sending a set's elements promises: the elements leave in order, no *)
(* message boundary falls between the two elements of an interval, and a   *)
(* message is empty only when no element is left.                          *)
(***************************************************************************)
EXTENDS Integers, Sequences

CONSTANTS ElemLens, MaxElems

VARIABLES
    elems,  \* the elements of the set, [len, end]
    sent,   \* how many of them have been sent
    out,    \* the messages: sets of element indices, counted from 0
    phase

vars == <<elems, sent, out, phase>>

Init == elems = <<>> /\ sent = 0 /\ out = <<>> /\ phase = "adding"

Key(l) == [len |-> l, end |-> FALSE]
End(l) == [len |-> l, end |-> TRUE]

Add ==
    /\ phase = "adding"
    /\ \/ \E l \in ElemLens : elems' = Append(elems, Key(l))
       \/ \E l, m \in ElemLens : elems' = Append(Append(elems, Key(l)), End(m))
    /\ Len(elems') <= MaxElems
    /\ UNCHANGED <<sent, out, phase>>

Start ==
    /\ phase = "adding"
    /\ phase' = "sending"
    /\ UNCHANGED <<elems, sent, out>>

(* A message may end before element n unless n closes an interval. *)
Boundary(n) == n = Len(elems) \/ ~elems[n + 1].end

Send(n) ==
    /\ phase = "sending"
    /\ Boundary(n)
    /\ sent' = n
    /\ out' = Append(out, sent..(n - 1))
    /\ UNCHANGED <<elems, phase>>

SendNothing ==
    /\ phase = "sending"
    /\ sent = Len(elems)
    /\ out' = Append(out, {})
    /\ UNCHANGED <<elems, sent, phase>>

Finish ==
    /\ phase = "sending"
    /\ sent = Len(elems)
    /\ phase' = "done"
    /\ UNCHANGED <<elems, sent, out>>

Next ==
    \/ Add \/ Start \/ SendNothing \/ Finish
    \/ \E n \in (sent + 1)..Len(elems) : Send(n)

Spec == Init /\ [][Next]_vars
=============================================================================
