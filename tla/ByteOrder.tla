----------------------------- MODULE ByteOrder -----------------------------
(***************************************************************************)
(* Keys as the kernel sees them: byte strings of one length, most          *)
(* significant byte first, and increment_be (nftnl/src/datatype.rs).       *)
(***************************************************************************)
EXTENDS Integers, Sequences

CONSTANT Base   \* the values of a byte; 256, and less for model checking

ASSUME BaseAssumption == Base \in Nat \ {0, 1}

Byte == 0..(Base - 1)

Bytes(n) == [1..n -> Byte]

(* The order of memcmp() on strings of one length. *)
Precedes(a, b) ==
    \E i \in 1..Len(a) : a[i] < b[i] /\ \A j \in 1..(i - 1) : a[j] = b[j]

AtMost(a, b) == a = b \/ Precedes(a, b)

(* The number a big-endian byte string stands for. *)
Number(b) ==
    LET n[i \in 0..Len(b)] == IF i = 0 THEN 0 ELSE n[i - 1] * Base + b[i]
    IN  n[Len(b)]

----------------------------------------------------------------------------
(* increment_be                                                            *)

None == <<>>

(* u8::wrapping_add(1) *)
WrappingAdd(x) == (x + 1) % Base

(* The loop, from the last byte to the first, gets past those that wrap. *)
Reaches(b, i) == \A j \in (i + 1)..Len(b) : WrappingAdd(b[j]) = 0

(* Mutant: The carry is lost. *)
IncrementLastOnly(b) ==
    [i \in 1..Len(b) |-> IF i = Len(b) THEN WrappingAdd(b[i]) ELSE b[i]]

IncrementBe(b) ==
    IF Reaches(b, 0)
    THEN None
    ELSE [i \in 1..Len(b) |-> IF Reaches(b, i) THEN WrappingAdd(b[i]) ELSE b[i]]
=============================================================================
