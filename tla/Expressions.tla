---------------------------- MODULE Expressions ----------------------------
(***************************************************************************)
(* Expression::to_expr (nftnl/src/expr/*.rs): the attributes each          *)
(* expression of a rule leaves in a libnftnl expression, from which        *)
(* netfilter builds its own.  Some depend on the family of the rule's      *)
(* table, which Table::get_family gives them.                              *)
(***************************************************************************)
EXTENDS Registers, Packets

----------------------------------------------------------------------------
(* Data to compare with or to load: ToSlice, Data                          *)

(* Mutant: Numbers are taken to be little-endian whatever the host. *)
NumberSliceLe(w, n) == Reverse(BigEndian(w, n))

(* ToSlice of u16, u32: to_ne_bytes *)
NumberSlice(w, n) == Native(w, n)

(* u16::to_be, which callers apply to numbers of the network *)
ToBe16(n) == IF LittleEndian THEN (n % 256) * 256 + n \div 256 ELSE n

(* Mutant: Names are never terminated. *)
NameSliceOpen(name, exact) == name

(* ToSlice of InterfaceName; the octet 0 ends a CString. *)
NameSlice(name, exact) == IF exact THEN Append(name, 0) ELSE name

(* Data::data of u8, u16 and u32 *)
NumberData(w, n) == BigEndian(w, n)

(* Data::data of one value, or of a pair *)
TupleData(parts) == IF Len(parts) = 1 THEN parts[1] ELSE Pad(parts[1]) \o Pad(parts[2])

----------------------------------------------------------------------------
(* Payload, PayloadReg                                                     *)

(* HeaderField::offset and len *)
HeaderField ==
    [ethernet |-> [daddr |-> <<0, 6>>, saddr |-> <<6, 6>>, ethertype |-> <<12, 2>>],
     ipv4 |-> [ttl |-> <<8, 1>>, protocol |-> <<9, 1>>,
               saddr |-> <<12, 4>>, daddr |-> <<16, 4>>],
     ipv6 |-> [nextheader |-> <<6, 1>>, hoplimit |-> <<7, 1>>,
               saddr |-> <<8, 16>>, daddr |-> <<24, 16>>],
     tcp |-> [sport |-> <<0, 2>>, dport |-> <<2, 2>>],
     udp |-> [sport |-> <<0, 2>>, dport |-> <<2, 2>>, len |-> <<4, 2>>],
     icmpv6 |-> [type |-> <<0, 1>>, code |-> <<1, 1>>, checksum |-> <<2, 2>>]]

(* A field is named by its header and its own name. *)
Fields == UNION {{<<h, f>> : f \in DOMAIN HeaderField[h]} : h \in DOMAIN HeaderField}

(* Mutant: Offsets are counted in bits. *)
OffsetInBits(f) == 8 * HeaderField[f[1]][f[2]][1]

Offset(f) == HeaderField[f[1]][f[2]][1]

FieldLen(f) == HeaderField[f[1]][f[2]][2]

PayloadBase ==
    [ethernet |-> "link", ipv4 |-> "network", ipv6 |-> "network",
     tcp |-> "transport", udp |-> "transport", icmpv6 |-> "transport"]

PayloadReg(f, dreg) ==
    [name |-> "payload", base |-> PayloadBase[f[1]], offset |-> Offset(f),
     len |-> FieldLen(f), dreg |-> dreg]

Payload(f) == PayloadReg(f, Reg1)

----------------------------------------------------------------------------
(* Expressions that read or write one register                             *)

Meta(key) == [name |-> "meta", key |-> key, dreg |-> Reg1]

(* Meta::Mark { set: true } *)
MetaMarkSet == [name |-> "meta_set", key |-> "mark", sreg |-> Reg1]

Cmp(op, data) == [name |-> "cmp", sreg |-> Reg1, op |-> op, data |-> data]

(* mask and xor must be of one length, or to_expr panics *)
Bitwise(mask, xor) ==
    [name |-> "bitwise", sreg |-> Reg1, dreg |-> Reg1, len |-> Len(mask),
     mask |-> mask, xor |-> xor]

Immediate(data, register) == [name |-> "immediate", dreg |-> register, data |-> data]

Numgen(modulus, register, offset) ==
    [name |-> "numgen", dreg |-> register, modulus |-> modulus, offset |-> offset]

Counter == [name |-> "counter"]

----------------------------------------------------------------------------
(* Lookup, LookupMap.  A set is named; netfilter finds it with the length  *)
(* of its keys, and its elements.                                          *)

Lookup(set) == [name |-> "lookup", sreg |-> Reg1, set |-> set]

(* Mutant: The data always go to the first register. *)
LookupMapToReg1(map, sreg, dreg) ==
    [name |-> "lookup_map", sreg |-> sreg, dreg |-> Reg1, set |-> map]

LookupMap(map, sreg, dreg) ==
    [name |-> "lookup_map", sreg |-> sreg, dreg |-> dreg, set |-> map]

----------------------------------------------------------------------------
(* Verdict: an immediate, a reject expression, or the datum of an element  *)

VerdictCode ==
    [drop |-> 0, accept |-> 1, queue |-> 3, continue |-> -1, break |-> -2,
     jump |-> -3, goto |-> -4, return |-> -5]

(* RejectionType::to_raw, and the code that goes with it *)
RejectExpr(why, table_family) ==
    IF why = "tcp_reset"
    THEN [name |-> "reject", type |-> TcpReset, code |-> 0]
    ELSE [name |-> "reject", code |-> IcmpxCode[why],
          type |-> IF table_family = "Inet" THEN IcmpxUnreach ELSE IcmpUnreach]

VerdictExpr(v, table_family) ==
    IF v.code = "reject"
    THEN RejectExpr(v.arg, table_family)
    ELSE [name |-> "verdict", verdict |-> VerdictCode[v.code], chain |-> v.arg]

(* Verdict::write_elem *)
VerdictData(v) ==
    [verdict |-> IF v.code = "reject" THEN 0 ELSE VerdictCode[v.code], chain |-> v.arg]

----------------------------------------------------------------------------
(* Nat, TProxy                                                             *)

(* The addresses of family v4 are 4 bytes, those of v6 16. *)
NatExpr(family, ip_register, port_register) ==
    [name |-> "nat", family |-> family, addr |-> ip_register, port |-> port_register]

NoRegister == -1

(* Mutant: A family that is given is used as it is. *)
TProxyVerbatim(family, port_register, table_family) ==
    [name |-> "tproxy", port |-> port_register,
     family |-> IF family # "none" THEN family
                ELSE IF table_family \in {"Ipv4", "Ipv6"} THEN table_family
                ELSE "Unspec"]

(* "none" is for no family given *)
TProxy(family, port_register, table_family) ==
    [name |-> "tproxy", port |-> port_register,
     family |-> IF family \notin {"Inet", "Unspec", "none"} THEN family
                ELSE IF table_family \in {"Ipv4", "Ipv6"} THEN table_family
                ELSE "Unspec"]
=============================================================================
