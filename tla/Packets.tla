------------------------------ MODULE Packets ------------------------------
(***************************************************************************)
(* What netfilter hands to a rule: the headers of a packet as they are on  *)
(* the wire, and what it knows about the packet besides.  All of it is     *)
(* outside the repository, except for the protocol numbers that            *)
(* nftnl/src/expr/cmp.rs names.                                            *)
(*                                                                         *)
(* p.headers has a record of fields for each protocol the packet has.      *)
(* Addresses are octets, every other field is a number.                    *)
(***************************************************************************)
EXTENDS Integers, SequencesExt

CONSTANT LittleEndian   \* the host's byte order

ASSUME LittleEndianAssumption == LittleEndian \in BOOLEAN

NfProto == [ipv4 |-> 2, ipv6 |-> 10]

L4Proto == [tcp |-> 6, udp |-> 17, icmpv6 |-> 58]

L3(p) == CHOOSE h \in DOMAIN NfProto : h \in DOMAIN p.headers

L4(p) == CHOOSE h \in DOMAIN L4Proto : h \in DOMAIN p.headers

FamilyOf(p) == IF L3(p) = "ipv4" THEN "Ipv4" ELSE "Ipv6"

ArphrdEther == 1

----------------------------------------------------------------------------
(* Numbers as w bytes *)

BigEndian(w, n) == [i \in 1..w |-> (n \div 256^(w - i)) % 256]

InHostOrder(b) == IF LittleEndian THEN Reverse(b) ELSE b

Native(w, n) == InHostOrder(BigEndian(w, n))

----------------------------------------------------------------------------
(* Headers *)

(* The fields of each header with their lengths, in the order of the wire. *)
Layout ==
    [ethernet |-> << <<"daddr", 6>>, <<"saddr", 6>>, <<"ethertype", 2>> >>,
     ipv4 |-> << <<"other", 8>>, <<"ttl", 1>>, <<"protocol", 1>>, <<"other", 2>>,
                 <<"saddr", 4>>, <<"daddr", 4>> >>,
     ipv6 |-> << <<"other", 6>>, <<"nextheader", 1>>, <<"hoplimit", 1>>,
                 <<"saddr", 16>>, <<"daddr", 16>> >>,
     tcp |-> << <<"sport", 2>>, <<"dport", 2>>, <<"other", 16>> >>,
     udp |-> << <<"sport", 2>>, <<"dport", 2>>, <<"len", 2>>, <<"other", 2>> >>,
     icmpv6 |-> << <<"type", 1>>, <<"code", 1>>, <<"checksum", 2>> >>]

Addresses == {"saddr", "daddr"}

(* A header's bytes; those of fields that no rule names are all the same. *)
Wire(fields, part) ==
    IF part[1] = "other" THEN [i \in 1..part[2] |-> 187]
    ELSE IF part[1] \in Addresses THEN fields[part[1]]
    ELSE BigEndian(part[2], fields[part[1]])

HeaderBytes(p, h) ==
    FlattenSeq([i \in DOMAIN Layout[h] |-> Wire(p.headers[h], Layout[h][i])])

Bases ==
    [link |-> {"ethernet"}, network |-> DOMAIN NfProto, transport |-> DOMAIN L4Proto]

(* The header at a base; <<>> if the packet has none. *)
HeaderAt(p, base) ==
    IF \E h \in Bases[base] : h \in DOMAIN p.headers
    THEN HeaderBytes(p, CHOOSE h \in Bases[base] : h \in DOMAIN p.headers)
    ELSE <<>>

NameSize == 16    \* IFNAMSIZ

Octet == 0..255

(* The value of a field, of len bytes, in a packet. *)
IsValue(name, len, x) == IF name \in Addresses THEN x \in [1..len -> Octet] ELSE x \in Nat

(* A packet has a network and a transport header, and a name fits its buffer. *)
IsPacket(p) ==
    /\ \E h \in DOMAIN NfProto : h \in DOMAIN p.headers
    /\ \E h \in DOMAIN L4Proto : h \in DOMAIN p.headers
    /\ \A h \in DOMAIN p.headers \cap DOMAIN Layout : \A i \in DOMAIN Layout[h] :
          LET part == Layout[h][i]
          IN  part[1] # "other" => IsValue(part[1], part[2], p.headers[h][part[1]])
    /\ p.iif \in Nat /\ p.iiftype \in Nat
    /\ p.iifname \in Seq(Octet) /\ Len(p.iifname) < NameSize
    /\ p.mark \in [1..4 -> Octet]

----------------------------------------------------------------------------
(* nft_meta_get_eval; the mark may have been changed by a rule *)


MetaValue(p, mark, key) ==
    CASE key = "nfproto" -> <<NfProto[L3(p)]>>
      [] key = "l4proto" -> <<L4Proto[L4(p)]>>
      [] key = "iif"     -> Native(4, p.iif)
      [] key = "iifname" ->
            [i \in 1..NameSize |-> IF i <= Len(p.iifname) THEN p.iifname[i] ELSE 0]
      [] key = "iiftype" -> Native(2, p.iiftype)
      [] key = "mark"    -> mark

----------------------------------------------------------------------------
(* What the sender of a packet is told by a reject expression *)

IcmpUnreach == 0
TcpReset == 1
IcmpxUnreach == 2

IcmpxCode ==
    [no_route |-> 0, port_unreach |-> 1, host_unreach |-> 2, admin_prohibited |-> 3]

(* RFC 792 and RFC 1812, RFC 4443 *)
IcmpCodeOf ==
    [ipv4 |-> [no_route |-> 0, host_unreach |-> 1, protocol_unreach |-> 2,
               port_unreach |-> 3, admin_prohibited |-> 13],
     ipv6 |-> [no_route |-> 0, admin_prohibited |-> 1, beyond_scope |-> 2,
               host_unreach |-> 3, port_unreach |-> 4]]

Reason(codes, c) == CHOOSE r \in DOMAIN codes : codes[r] = c

Told(p, type, code) ==
    CASE type = TcpReset     -> "tcp_reset"
      [] type = IcmpxUnreach -> Reason(IcmpxCode, code)
      [] type = IcmpUnreach  -> Reason(IcmpCodeOf[L3(p)], code)
=============================================================================
