------------------------------ MODULE BatchLog ------------------------------
(***************************************************************************)
(* What a batch promises: a list of messages that starts with a batch      *)
(* begin, goes on with the messages added, in order, and ends with a batch *)
(* end.  The messages that expect an acknowledgement are numbered 1, 2,    *)
(* ... in order, and seqEnd is the number after the last.                  *)
(***************************************************************************)
EXTENDS Integers, Sequences

VARIABLES
    phase,      \* "new", "open", "finalized" or "dead"
    ack,        \* do the begin and the end expect an acknowledgement?
    seqEnd,
    log         \* the messages: [kind, seq, ack]

vars == <<phase, ack, seqEnd, log>>

(* The frame of a batch, begin or end, is numbered only if acknowledged. *)
Frame(kind) == [kind |-> kind, seq |-> IF ack THEN seqEnd ELSE 0, ack |-> ack]

Init ==
    /\ phase = "new"
    /\ ack \in BOOLEAN
    /\ seqEnd = 1
    /\ log = <<>>

Begin ==
    /\ phase = "new"
    /\ phase' = "open"
    /\ log' = <<Frame("begin")>>
    /\ seqEnd' = IF ack THEN 2 ELSE 1
    /\ UNCHANGED ack

Add ==
    /\ phase = "open"
    /\ log' = Append(log, [kind |-> "msg", seq |-> seqEnd, ack |-> TRUE])
    /\ seqEnd' = seqEnd + 1
    /\ UNCHANGED <<phase, ack>>

Finalize ==
    /\ phase = "open"
    /\ phase' = "finalized"
    /\ log' = Append(log, Frame("end"))
    /\ seqEnd' = IF ack THEN seqEnd + 1 ELSE seqEnd
    /\ UNCHANGED ack

(* The process panics or aborts, perhaps after it took a number. *)
Die ==
    /\ phase \in {"new", "open"}
    /\ phase' = "dead"
    /\ seqEnd' \in {seqEnd, seqEnd + 1}
    /\ UNCHANGED <<ack, log>>

Next == Begin \/ Add \/ Finalize \/ Die

Spec == Init /\ [][Next]_vars
=============================================================================
