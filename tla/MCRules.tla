------------------------------ MODULE MCRules ------------------------------
(***************************************************************************)
(* Rules with a handful of packets.  Numbers have different bytes, so that *)
(* byte orders differ; addresses share a prefix; one interface's name      *)
(* begins with the other's; ports of TCP and UDP lie at the same place.    *)
(***************************************************************************)
EXTENDS Rules

Host == <<10, 1, 0, 5>>
Peer == <<10, 1, 0, 6>>
Outer == <<10, 2, 0, 5>>
Host6 == <<32, 1, 13, 184, 0, 0, 0, 0, 0, 0, 0, 0, 0, 0, 0, 1>>
Peer6 == <<32, 1, 13, 184, 0, 0, 0, 0, 0, 0, 0, 0, 0, 0, 1, 16>>

Lo == <<108, 111>>
Lo1 == <<108, 111, 49>>

Ethernet(type) == [daddr |-> <<1, 2, 3, 4, 5, 6>>, saddr |-> <<6, 5, 4, 3, 2, 1>>,
                   ethertype |-> type]
Ipv4(to, protocol) == [saddr |-> Outer, daddr |-> to, ttl |-> 64, protocol |-> protocol]
Ipv6(to, next) == [saddr |-> Peer6, daddr |-> to, hoplimit |-> 255, nextheader |-> next]

Tcp4(to, port) ==
    [headers |-> [ipv4 |-> Ipv4(to, 6), tcp |-> [sport |-> 1027, dport |-> port]],
     iif |-> 1, iifname |-> Lo, iiftype |-> 772, mark |-> <<0, 0, 0, 0>>]

Udp4(to, port) ==
    [headers |-> [ipv4 |-> Ipv4(to, 17), ethernet |-> Ethernet(2048),
                  udp |-> [sport |-> 80, dport |-> port, len |-> 12]],
     iif |-> 258, iifname |-> Lo1, iiftype |-> 1, mark |-> <<0, 0, 2, 1>>]

Tcp6(to, port) ==
    [headers |-> [ipv6 |-> Ipv6(to, 6), ethernet |-> Ethernet(34525),
                  tcp |-> [sport |-> 1027, dport |-> port]],
     iif |-> 258, iifname |-> Lo1, iiftype |-> 1, mark |-> <<0, 0, 0, 0>>]

Icmp6(type) ==
    [headers |-> [ipv6 |-> Ipv6(Peer6, 58),
                  icmpv6 |-> [type |-> type, code |-> 0, checksum |-> 513]],
     iif |-> 1, iifname |-> Lo, iiftype |-> 772, mark |-> <<0, 0, 2, 1>>]

(* A packet of this host has no link header yet. *)
Own4(to, port) == [Tcp4(to, port) EXCEPT !.iiftype = 1]

Packets4 == {Tcp4(Host, 80), Tcp4(Host, 8080), Udp4(Peer, 80), Own4(Outer, 8080)}
AllPackets == Packets4 \cup {Tcp6(Host6, 80), Tcp6(Host6, 8080), Icmp6(133)}
FewPackets == {Tcp4(Host, 80), Udp4(Outer, 8080), Tcp6(Host6, 80)}

----------------------------------------------------------------------------
Number(h, f, op, n) == [is |-> "number", field |-> <<h, f>>, op |-> op, number |-> n]

Net(prefix) == [is |-> "net", field |-> <<"ipv4", "daddr">>, prefix |-> prefix]
In(fields, members) == [is |-> "in", fields |-> fields, members |-> members]
VMap(fields, map) == [is |-> "vmap", fields |-> fields, map |-> map]
IfName(name, exact) == [is |-> "name", name |-> name, exact |-> exact]
Issued(v) == [is |-> "verdict", verdict |-> v]
Is(what) == [is |-> what]
Mark(what, b) == [is |-> what, mark |-> b]
Iif(n) == [is |-> "iif", index |-> n]
TProxyTo(af, port) == [is |-> "tproxy", family |-> af, port |-> port]
DnatTo(backends, ports) ==
    [is |-> "dnat", family |-> "Ipv4", backends |-> backends, offset |-> 0, ports |-> ports]

Accept == V("accept", "none")
Drop == V("drop", "none")

AddrPort4 == << <<"ipv4", "daddr">>, <<"tcp", "dport">> >>
AddrPort6 == << <<"ipv6", "daddr">>, <<"tcp", "dport">> >>

ToSide == <<Host, 80>> :> V("jump", "side") @@ <<Outer, 8080>> :> Drop
ToSide6 == <<Host6, 80>> :> V("goto", "side") @@ <<Host6, 8080>> :> V("break", "none")

(* One clause for each way to look at a packet. *)
Tests ==
    {Number("tcp", "dport", "==", 80), Number("tcp", "dport", ">=", 1024),
     Number("udp", "len", "<", 13), Number("udp", "sport", "!=", 80),
     Number("icmpv6", "type", "==", 133), Number("ipv6", "hoplimit", ">", 64),
     Number("ipv4", "protocol", "<=", 6), Number("ethernet", "ethertype", "==", 2048),
     Net(<<10, 1, 0>>), Net(Host), Iif(258), IfName(Lo, TRUE), IfName(Lo, FALSE),
     Mark("mark", <<0, 0, 2, 1>>),
     In(<< <<"ipv4", "daddr">> >>, {<<Host>>, <<Outer>>}),
     In(<< <<"ethernet", "saddr">> >>, {<< <<6, 5, 4, 3, 2, 1>> >>}),
     In(<< <<"tcp", "dport">> >>, {<<8080>>}),
     VMap(AddrPort4, ToSide), VMap(AddrPort6, ToSide6)}

(* Every field of every packet. *)
FieldTests ==
    LET Of(p) == {f \in Fields : f[1] \in DOMAIN p.headers}
        Value(p, f) == p.headers[f[1]][f[2]]
    IN  UNION {{Number(f[1], f[2], "==", Value(p, f)) :
                   f \in {g \in Of(p) : g[2] \notin Addresses}} : p \in AllPackets}
        \cup UNION {{In(<<f>>, {<<Value(p, f)>>}) :
                   f \in {g \in Of(p) : g[2] \in Addresses}} : p \in AllPackets}

(* Chain "side" is there to be jumped to. *)
TestClauses ==
    [base |-> Tests \cup FieldTests
              \cup {Is("counter"), Issued(Drop), Issued(V("reject", "port_unreach"))},
     side |-> {Is("counter")}]

(* The backends of examples/add-vmap.rs *)
Backends == 0 :> <<Host, 8080>> @@ 1 :> <<Peer, 8081>>

(* Clauses that do something. *)
FlowClauses ==
    [base |-> {Number("tcp", "dport", "==", 80), Is("counter"),
               Mark("set_mark", <<0, 0, 2, 1>>), VMap(AddrPort4, ToSide),
               VMap(AddrPort6, ToSide6), Issued(V("jump", "side")),
               TProxyTo("Inet", 1234), TProxyTo("Ipv6", 1234), DnatTo(Backends, TRUE)},
     side |-> {Is("counter"), Mark("mark", <<0, 0, 2, 1>>), Issued(V("return", "none")),
               Issued(Drop), TProxyTo("none", 1234), DnatTo(Backends, FALSE)}]

NatClauses == [base |-> {DnatTo(Backends, TRUE), Net(<<10, 1, 0>>)}, side |-> {Is("counter")}]

RejectClauses ==
    [base |-> {Issued(V("reject", r)) : r \in DOMAIN IcmpxCode} \cup {Is("counter")},
     side |-> {Is("counter")}]
=============================================================================
