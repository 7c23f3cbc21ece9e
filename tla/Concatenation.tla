--------------------------- MODULE Concatenation ---------------------------
(***************************************************************************)
(* Concatenated keys and data (nftnl/src/datatype.rs): each field of a     *)
(* tuple occupies whole words of 4 bytes, its own bytes first.             *)
(***************************************************************************)
EXTENDS Integers, Sequences

(* netlink_padded_len_bytes *)
Padded(n) == ((n + 3) \div 4) * 4

(* Mutant: Fields are padded in front. *)
PadInFront(b) ==
    [i \in 1..Padded(Len(b)) |->
        IF i > Padded(Len(b)) - Len(b) THEN b[i - (Padded(Len(b)) - Len(b))] ELSE 0]

Pad(b) == [i \in 1..Padded(Len(b)) |-> IF i <= Len(b) THEN b[i] ELSE 0]
=============================================================================
