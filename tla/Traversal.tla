----------------------------- MODULE Traversal -----------------------------
(***************************************************************************)
(* How netfilter takes a packet through chains of rules (nft_do_chain):    *)
(* where it is, where it returns to, and the verdict once there is one.    *)
(* A place is a step of a rule of a chain; what the steps are differs      *)
(* between the modules that use this one.                                  *)
(***************************************************************************)
EXTENDS Naturals, Sequences

V(code, arg) == [code |-> code, arg |-> arg]

Undecided == V("undecided", "none")

Start(chain) == [chain |-> chain, rule |-> 1, step |-> 1]

Enter(chain) == [at |-> Start(chain), stack |-> <<>>, fate |-> Undecided]

Decided(w, fate) == [w EXCEPT !.fate = fate]

NextStep(w) == [w EXCEPT !.at.step = @ + 1]

NextRule(w) == [w EXCEPT !.at.rule = @ + 1, !.at.step = 1]

(* At the end of a chain, or on return. *)
Leave(w, policy) ==
    IF w.stack = <<>> THEN Decided(w, policy)
    ELSE [w EXCEPT !.at = Head(w.stack), !.stack = Tail(w.stack)]

Obey(w, v, policy) ==
    CASE v.code = "continue" -> NextStep(w)
      [] v.code = "break"    -> NextRule(w)
      [] v.code = "jump"     ->
            [w EXCEPT !.at = Start(v.arg), !.stack = <<NextRule(w).at>> \o @]
      [] v.code = "goto"     -> [w EXCEPT !.at = Start(v.arg)]
      [] v.code = "return"   -> Leave(w, policy)
      [] OTHER               -> Decided(w, v)
=============================================================================
