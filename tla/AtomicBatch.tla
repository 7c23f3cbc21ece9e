----------------------------- MODULE AtomicBatch -----------------------------
(***************************************************************************)
(* What executing a batch promises: the messages take effect together or   *)
(* not at all, the program is told once which it was, and what it is told  *)
(* is true unless an answer is missing.  Only a batch that asks for no     *)
(* answer may be reported as done before it is decided: it has no message. *)
(***************************************************************************)
VARIABLES
    asks,       \* does the batch ask for an answer?
    outcome,    \* "unsent", "undecided", "committed" or "aborted"
    missing,    \* was an answer lost, or is one expected that does not come?
    report      \* "none", "ok" or "err"

vars == <<asks, outcome, missing, report>>

Init == asks = FALSE /\ outcome = "unsent" /\ missing = FALSE /\ report = "none"

Compose ==
    /\ outcome = "unsent" /\ report = "none"
    /\ asks' \in BOOLEAN
    /\ UNCHANGED <<outcome, missing, report>>

Send ==
    /\ outcome = "unsent" /\ report = "none"
    /\ outcome' = "undecided"
    /\ UNCHANGED <<asks, missing, report>>

(* With the decision it is known whether all answers will come. *)
Decide ==
    /\ outcome = "undecided"
    /\ outcome' \in {"committed", "aborted"}
    /\ missing' \in {missing, TRUE}
    /\ UNCHANGED <<asks, report>>

Lose ==
    /\ outcome \in {"committed", "aborted"}
    /\ missing' = TRUE
    /\ UNCHANGED <<asks, outcome, report>>

MayReportOk == outcome = "committed" \/ (outcome # "unsent" /\ ~asks)

MayReportErr == outcome \in {"unsent", "aborted"} \/ (outcome = "committed" /\ missing)

Report ==
    /\ report = "none"
    /\ \/ report' = "ok" /\ MayReportOk
       \/ report' = "err" /\ MayReportErr
    /\ UNCHANGED <<asks, outcome, missing>>

Next == Compose \/ Send \/ Decide \/ Lose \/ Report

Spec == Init /\ [][Next]_vars
=============================================================================
