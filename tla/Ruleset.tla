------------------------------ MODULE Ruleset ------------------------------
(***************************************************************************)
(* What a rule promises, in the words of nftnl/src/rule.rs: its conditions *)
(* are evaluated from first to last; as soon as one does not match,        *)
(* evaluation stops and the packet is evaluated against the next rule of   *)
(* the chain.                                                              *)
(*                                                                         *)
(* A rule is a sequence of clauses about a packet: there are no registers, *)
(* no byte strings and no expressions here, only fields and numbers.       *)
(***************************************************************************)
EXTENDS Traversal

CONSTANTS
    Chains,     \* names of chains
    Base,       \* the chain with a hook
    NoPacket

VARIABLES
    rules,      \* the rules of each chain
    policy,     \* the policy of Base
    packet,     \* the packet that has arrived
    walk,       \* where it is
    effects     \* what clauses did besides

vars == <<rules, policy, packet, walk, effects>>

NoEffects == [counted |-> 0, mark |-> <<0, 0, 0, 0>>, proxied |-> 0]

----------------------------------------------------------------------------
(* The meaning of a clause                                                 *)

Has(p, f) == f[1] \in DOMAIN p.headers

Field(p, f) == p.headers[f[1]][f[2]]

Tuple(p, fields) == [i \in DOMAIN fields |-> Field(p, fields[i])]

HasAll(p, fields) == \A i \in DOMAIN fields : Has(p, fields[i])

Family(p) == IF "ipv4" \in DOMAIN p.headers THEN "Ipv4" ELSE "Ipv6"

Prefix(s, t) == Len(s) <= Len(t) /\ \A i \in DOMAIN s : s[i] = t[i]

Holds(op, m, n) ==
    CASE op = "==" -> m = n [] op = "!=" -> m # n
      [] op = "<"  -> m < n [] op = "<=" -> m <= n
      [] op = ">"  -> m > n [] op = ">=" -> m >= n

Matches(c, p, mark) ==
    CASE c.is = "number" -> Has(p, c.field) /\ Holds(c.op, Field(p, c.field), c.number)
      [] c.is = "net"    -> Has(p, c.field) /\ Prefix(c.prefix, Field(p, c.field))
      [] c.is = "iif"    -> p.iif = c.index
      [] c.is = "name"   -> IF c.exact THEN p.iifname = c.name ELSE Prefix(c.name, p.iifname)
      [] c.is = "mark"   -> mark = c.mark
      [] c.is = "in"     -> HasAll(p, c.fields) /\ Tuple(p, c.fields) \in c.members
      [] c.is = "vmap"   -> HasAll(p, c.fields) /\ Tuple(p, c.fields) \in DOMAIN c.map
      [] c.is = "dnat"   -> Family(p) = c.family
      [] c.is = "tproxy" -> c.family \in {"none", "Inet", Family(p)}
      [] OTHER           -> TRUE

Effect(c, e) ==
    CASE c.is = "counter"  -> [e EXCEPT !.counted = @ + 1]
      [] c.is = "set_mark" -> [e EXCEPT !.mark = c.mark]
      [] c.is = "tproxy"   -> [e EXCEPT !.proxied = c.port]
      [] OTHER             -> e

(* A new destination, an address and a port; the port may be kept. *)
Dnat(backend, ports) ==
    [code |-> "dnat", to |-> IF ports THEN backend ELSE <<backend[1]>>]

(* What may be decided by a clause that matches. *)
Verdicts(c, p) ==
    CASE c.is = "verdict" -> {c.verdict}
      [] c.is = "vmap"    -> {c.map[Tuple(p, c.fields)]}
      [] c.is = "dnat"    -> {Dnat(c.backends[k], c.ports) : k \in DOMAIN c.backends}
      [] OTHER            -> {V("continue", "none")}

----------------------------------------------------------------------------
(* The program                                                             *)

Init ==
    /\ rules = [ch \in Chains |-> <<>>]
    /\ policy = V("accept", "none")
    /\ packet = NoPacket
    /\ walk = Enter(Base)
    /\ effects = NoEffects

SetPolicy(v) ==
    /\ packet = NoPacket
    /\ policy' = v
    /\ UNCHANGED <<rules, packet, walk, effects>>

(* Rules are appended, whatever they are. *)
AddRule(ch) ==
    /\ packet = NoPacket
    /\ rules'[ch] # <<>>
    /\ rules' = [rules EXCEPT ![ch] = Append(@, rules'[ch][Len(rules'[ch])])]
    /\ UNCHANGED <<policy, packet, walk, effects>>

----------------------------------------------------------------------------
(* A packet                                                                *)

Arrive(p) ==
    /\ packet = NoPacket
    /\ packet' = p
    /\ effects' = [effects EXCEPT !.mark = p.mark]
    /\ UNCHANGED <<rules, policy, walk>>

Walking == packet # NoPacket /\ walk.fate = Undecided

Chain == rules[walk.at.chain]

Clause == Chain[walk.at.rule][walk.at.step]

AtClause ==
    /\ Walking
    /\ walk.at.rule \in DOMAIN Chain
    /\ walk.at.step \in DOMAIN Chain[walk.at.rule]

Fail ==
    /\ AtClause
    /\ ~ Matches(Clause, packet, effects.mark)
    /\ walk' = NextRule(walk)
    /\ UNCHANGED <<rules, policy, packet, effects>>

Match ==
    /\ AtClause
    /\ Matches(Clause, packet, effects.mark)
    /\ \E v \in Verdicts(Clause, packet) : walk' = Obey(walk, v, policy)
    /\ effects' = Effect(Clause, effects)
    /\ UNCHANGED <<rules, policy, packet>>

EndOfRule ==
    /\ Walking
    /\ walk.at.rule \in DOMAIN Chain
    /\ walk.at.step \notin DOMAIN Chain[walk.at.rule]
    /\ walk' = NextRule(walk)
    /\ UNCHANGED <<rules, policy, packet, effects>>

EndOfChain ==
    /\ Walking
    /\ walk.at.rule \notin DOMAIN Chain
    /\ walk' = Leave(walk, policy)
    /\ UNCHANGED <<rules, policy, packet, effects>>

Evaluate == Fail \/ Match \/ EndOfRule \/ EndOfChain

Next ==
    \/ \E v \in {V("accept", "none"), V("drop", "none")} : SetPolicy(v)
    \/ \E ch \in Chains : AddRule(ch)
    \/ Arrive(packet')
    \/ Evaluate

Spec == Init /\ [][Next]_vars
=============================================================================
