----------------------------- MODULE Registers -----------------------------
(***************************************************************************)
(* netfilter's data registers (nftnl/src/expr/mod.rs, Register).           *)
(*                                                                         *)
(* A rule works on 64 bytes.  They have two sets of names: four registers  *)
(* of 16 bytes and sixteen of 4 bytes, which overlap.  Whoever writes a    *)
(* register writes whole words: the bytes after a short value become 0.    *)
(***************************************************************************)
EXTENDS Concatenation

(* The discriminants of the enum; Register::to_raw. *)
VerdictReg == 0
Reg1 == 1
Reg2 == 2
Reg3 == 3
Reg4 == 4
Reg32(k) == 8 + k    \* Reg32_00 to Reg32_15

DataRegister == {Reg1, Reg2, Reg3, Reg4} \cup {Reg32(k) : k \in 0..15}

FileSize == 64

(* Where a register begins. *)
FirstByte(r) == IF r <= Reg4 THEN 16 * (r - Reg1) ELSE 4 * (r - Reg32(0))

(* The bytes that n bytes in register r, or from it on, lie in. *)
Extent(r, n) == FirstByte(r)..(FirstByte(r) + n - 1)

Fits(r, n) == FirstByte(r) + Padded(n) <= FileSize

Store(regs, r, b) ==
    [i \in DOMAIN regs |->
        IF i \in Extent(r, Padded(Len(b))) THEN Pad(b)[i - FirstByte(r) + 1] ELSE regs[i]]

Fetch(regs, r, n) == [i \in 1..n |-> regs[FirstByte(r) + i - 1]]
=============================================================================
