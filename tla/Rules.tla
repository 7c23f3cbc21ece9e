------------------------------- MODULE Rules -------------------------------
(***************************************************************************)
(* Rules (nftnl/src/rule.rs, chain.rs) and what netfilter makes of their   *)
(* expressions.                                                            *)
(*                                                                         *)
(* A program says what it wants of a packet clause by clause, as the       *)
(* examples do, and adds the expressions nft_expr! gives it for each.  The *)
(* rule knows expressions only: loads into registers, comparisons of what  *)
(* registers hold.  Then a packet arrives and netfilter evaluates.         *)
(***************************************************************************)
EXTENDS Expressions, Traversal

CONSTANTS
    Clauses,    \* what the rules of a chain may say of a packet, see Ruleset
    Arriving,   \* packets
    Families,   \* what the family of the table may be
    Chains, Base,
    Junk,       \* what registers may hold when a packet arrives
    MaxClauses, \* bound: clauses in all rules together
    MaxRules,   \* bound: rules of a chain
    NoPacket

ASSUME FamiliesAssumption == Families \subseteq {"Ipv4", "Ipv6", "Inet"}

(* The bytes of an address. *)
AddressLen(af) == IF af = "Ipv4" THEN 4 ELSE 16

(* A verdict of the crate's enum; one that leads to a chain names one. *)
IsVerdict(v) ==
    /\ v.code \in DOMAIN VerdictCode \cup {"reject"}
    /\ v.code \in {"jump", "goto"} => v.arg \in Chains

(* Keys have one field or two. *)
IsKey(fields) == fields \in Seq(Fields) /\ Len(fields) \in 1..2

(* A clause that a program can say in the types of the crate. *)
IsClause(c) ==
    CASE c.is = "number" -> c.field \in Fields /\ c.number \in Nat
      [] c.is = "net"    -> c.field \in Fields
      [] c.is = "iif"    -> c.index \in Nat
      [] c.is = "name"   -> c.name \in Seq(Octet) /\ Len(c.name) < NameSize
      [] c.is \in {"mark", "set_mark"} -> c.mark \in [1..4 -> Octet]
      [] c.is = "in"     -> IsKey(c.fields)
      [] c.is = "vmap"   -> IsKey(c.fields) /\ \A t \in DOMAIN c.map : IsVerdict(c.map[t])
      [] c.is = "dnat"   ->
            /\ c.family \in {"Ipv4", "Ipv6"} /\ c.offset \in Nat
            /\ \A k \in DOMAIN c.backends :
                  /\ c.backends[k][1] \in [1..AddressLen(c.family) -> Octet]
                  /\ c.backends[k][2] \in Nat
      [] c.is = "tproxy" -> c.port \in Nat
      [] c.is = "verdict" -> IsVerdict(c.verdict)
      [] OTHER           -> c.is = "counter"

ASSUME ClausesAssumption == \A ch \in Chains : \A c \in Clauses[ch] : IsClause(c)

ASSUME PacketsAssumption ==
    /\ \A p \in Arriving : IsPacket(p)
    /\ Junk \subseteq Octet
    /\ Base \in Chains
    /\ MaxRules \in Nat

VARIABLES
    family,     \* Table::get_family
    rules,      \* the rules of each chain: expressions, each with its clause
    meant,      \* the clauses those rules were made from
    policy,     \* Chain::set_policy of Base
    draft,      \* the rule under construction, if any
    todo,       \* the expressions the program still has to add for a clause
    packet, walk, effects,  \* the packet, its way, and what became of it
    regs,       \* the registers
    written     \* the bytes of regs the current rule has written

program == <<family, rules, meant, policy, draft, todo>>
vars == <<program, packet, walk, effects, regs, written>>

NoDraft == [chain |-> "none", exprs |-> <<>>, clauses |-> <<>>]

Octets == INSTANCE ByteOrder WITH Base <- 256

----------------------------------------------------------------------------
(* The expressions of a clause.                                            *)

(* What must hold of a packet that has the header h. *)
Guard(h) ==
    CASE h \in DOMAIN NfProto -> <<Meta("nfproto"), Cmp("==", NumberSlice(1, NfProto[h]))>>
      [] h \in DOMAIN L4Proto -> <<Meta("l4proto"), Cmp("==", NumberSlice(1, L4Proto[h]))>>
      [] h = "ethernet"       -> <<Meta("iiftype"), Cmp("==", NumberSlice(2, ArphrdEther))>>

Guards(fields) == FlattenSeq([i \in DOMAIN fields |-> Guard(fields[i][1])])

(* Numbers of the network: u8 as they are, u16 after to_be(). *)
Operand(f, n) ==
    IF FieldLen(f) = 1 THEN NumberSlice(1, n) ELSE NumberSlice(2, ToBe16(n))

(* The key of a set or map, from the values of its fields. *)
Datum(f, v) == IF f[2] \in Addresses THEN v ELSE NumberData(FieldLen(f), v)

Key(fields, t) == TupleData([i \in DOMAIN fields |-> Datum(fields[i], t[i])])

KeyLen(fields) ==
    IF Len(fields) = 1 THEN FieldLen(fields[1])
    ELSE Padded(FieldLen(fields[1])) + Padded(FieldLen(fields[2]))

KeysOf(c) == [klen |-> KeyLen(c.fields), keys |-> {Key(c.fields, t) : t \in c.members}]

VerdictsOf(c) ==
    [klen |-> KeyLen(c.fields),
     elems |-> [b \in {Key(c.fields, t) : t \in DOMAIN c.map} |->
                   VerdictData(c.map[CHOOSE t \in DOMAIN c.map : Key(c.fields, t) = b])]]

BackendsOf(c) ==
    [klen |-> 4,
     elems |-> [b \in {NumberData(4, k) : k \in DOMAIN c.backends} |->
                   LET k == CHOOSE n \in DOMAIN c.backends : NumberData(4, n) = b
                   IN  TupleData(<<c.backends[k][1], NumberData(2, c.backends[k][2])>>)]]

(* Mutant: Registers are counted in bytes. *)
NextWordInBytes(n) == Reg32(Padded(n))

(* The word after a value of n bytes in Reg32_00. *)
NextWord(n) == Reg32(Padded(n) \div 4)

(* Mutant: Each field is loaded into the next word, whatever its length. *)
LoadsTight(fields) ==
    IF Len(fields) = 1 THEN <<Payload(fields[1])>>
    ELSE <<PayloadReg(fields[1], Reg32(0)), PayloadReg(fields[2], Reg32(1))>>

(* One field in Reg1, two in successive registers; both begin at byte 0. *)
Loads(fields) ==
    IF Len(fields) = 1 THEN <<Payload(fields[1])>>
    ELSE <<PayloadReg(fields[1], Reg32(0)),
           PayloadReg(fields[2], NextWord(FieldLen(fields[1])))>>

KeyReg(fields) == IF Len(fields) = 1 THEN Reg1 ELSE Reg32(0)

Mask(n, len) == [i \in 1..len |-> IF i <= n THEN 255 ELSE 0]

Exprs(c) ==
    CASE c.is = "number" ->
            Guard(c.field[1]) \o <<Payload(c.field), Cmp(c.op, Operand(c.field, c.number))>>
      [] c.is = "net" ->
            LET n == FieldLen(c.field)
            IN  Guard(c.field[1])
                \o <<Payload(c.field), Bitwise(Mask(Len(c.prefix), n), Mask(0, n)),
                     Cmp("==", [i \in 1..n |-> IF i <= Len(c.prefix) THEN c.prefix[i] ELSE 0])>>
      [] c.is = "iif"  -> <<Meta("iif"), Cmp("==", NumberSlice(4, c.index))>>
      [] c.is = "name" -> <<Meta("iifname"), Cmp("==", NameSlice(c.name, c.exact))>>
      [] c.is = "mark" -> <<Meta("mark"), Cmp("==", InHostOrder(c.mark))>>
      [] c.is = "in"   -> Guards(c.fields) \o Loads(c.fields) \o <<Lookup(KeysOf(c))>>
      [] c.is = "vmap" ->
            Guards(c.fields) \o Loads(c.fields)
            \o <<LookupMap(VerdictsOf(c), KeyReg(c.fields), VerdictReg)>>
      [] c.is = "dnat" ->
            Guard(IF c.family = "Ipv4" THEN "ipv4" ELSE "ipv6")
            \o <<Numgen(Cardinality(DOMAIN c.backends), Reg1, c.offset),
                 LookupMap(BackendsOf(c), Reg1, Reg2),
                 NatExpr(c.family, Reg2, IF c.ports THEN Reg32(5) ELSE NoRegister)>>
      [] c.is = "set_mark" -> <<Immediate(InHostOrder(c.mark), Reg1), MetaMarkSet>>
      [] c.is = "tproxy" ->
            <<Immediate(NumberSlice(2, ToBe16(c.port)), Reg1), TProxy(c.family, Reg1, family)>>
      [] c.is = "counter" -> <<Counter>>
      [] c.is = "verdict" -> <<VerdictExpr(c.verdict, family)>>

----------------------------------------------------------------------------
(* The program: Chain, Rule, and Batch::add of rules                       *)

Init ==
    /\ family \in Families
    /\ rules = [ch \in Chains |-> <<>>]
    /\ meant = [ch \in Chains |-> <<>>]
    /\ policy = V("accept", "none")
    /\ draft = NoDraft
    /\ todo = <<>>
    /\ packet = NoPacket
    /\ walk = Enter(Base)
    /\ effects = [counted |-> 0, mark |-> <<0, 0, 0, 0>>, proxied |-> 0]
    /\ regs = [i \in 0..(FileSize - 1) |-> 0]
    /\ written = {}

Building == packet = NoPacket

Outside == UNCHANGED <<family, packet, walk, effects, regs, written>>

(* Clauses said so far. *)
Said == MapThenSumSet(LAMBDA ch : Len(FlattenSeq(meant[ch])), Chains) + Len(draft.clauses)

(* A chain is sent before its rules, and with its policy. *)
SetPolicy(v) ==
    /\ Building
    /\ draft = NoDraft
    /\ \A ch \in Chains : rules[ch] = <<>>
    /\ policy' = v
    /\ UNCHANGED <<rules, meant, draft, todo>> /\ Outside

(* Rule::new *)
NewRule(ch) ==
    /\ Building
    /\ draft = NoDraft
    /\ Len(rules[ch]) < MaxRules
    /\ draft' = [NoDraft EXCEPT !.chain = ch]
    /\ UNCHANGED <<rules, meant, policy, todo>> /\ Outside

Say(c) ==
    /\ Building
    /\ draft # NoDraft
    /\ todo = <<>>
    /\ Said < MaxClauses
    /\ draft' = [draft EXCEPT !.clauses = Append(@, c)]
    /\ todo' = Exprs(c)
    /\ UNCHANGED <<rules, meant, policy>> /\ Outside

(* Rule::add_expr *)
AddExpr ==
    /\ Building
    /\ todo # <<>>
    /\ draft' = [draft EXCEPT !.exprs = Append(@, [of |-> Len(draft.clauses), raw |-> Head(todo)])]
    /\ todo' = Tail(todo)
    /\ UNCHANGED <<rules, meant, policy>> /\ Outside

(* Batch::add of the rule, whose message has NLM_F_APPEND. *)
AddRule ==
    /\ Building
    /\ draft # NoDraft
    /\ todo = <<>>
    /\ rules' = [rules EXCEPT ![draft.chain] = Append(@, draft.exprs)]
    /\ meant' = [meant EXCEPT ![draft.chain] = Append(@, draft.clauses)]
    /\ draft' = NoDraft
    /\ UNCHANGED <<policy, todo>> /\ Outside

----------------------------------------------------------------------------
(* netfilter: a packet arrives                                             *)

(* Chains of a table for one family see the packets of that family. *)
Arrive(p, junk) ==
    /\ Building
    /\ draft = NoDraft
    /\ family \in {"Inet", FamilyOf(p)}
    /\ packet' = p
    /\ effects' = [effects EXCEPT !.mark = InHostOrder(p.mark)]
    /\ regs' = [i \in DOMAIN regs |-> junk]
    /\ UNCHANGED <<program, walk, written>>

Walking == packet # NoPacket /\ walk.fate = Undecided

Rule == rules[walk.at.chain][walk.at.rule]

InRule == Walking /\ walk.at.rule \in DOMAIN rules[walk.at.chain]

AtExpr(name) ==
    /\ InRule
    /\ walk.at.step \in DOMAIN Rule
    /\ Rule[walk.at.step].raw.name = name

Expr == Rule[walk.at.step].raw

(* An expression is done, and says what to do next. *)
Then(v) ==
    /\ walk' = Obey(walk, v, policy)
    /\ written' = IF v.code = "continue" THEN written ELSE {}
    /\ UNCHANGED <<program, packet>>

Continue == V("continue", "none")
Break == V("break", "none")

Put(b) ==
    /\ regs' = Store(regs, Expr.dreg, b)
    /\ walk' = NextStep(walk)
    /\ written' = written \cup Extent(Expr.dreg, Padded(Len(b)))
    /\ UNCHANGED <<program, packet, effects>>

Got(n) == Fetch(regs, Expr.sreg, n)

----------------------------------------------------------------------------
(* netfilter: the expressions                                              *)

LoadMeta == AtExpr("meta") /\ Put(MetaValue(packet, effects.mark, Expr.key))

(* nft_payload_eval *)
HasPayload == Expr.offset + Expr.len <= Len(HeaderAt(packet, Expr.base))

LoadPayload ==
    /\ AtExpr("payload")
    /\ HasPayload
    /\ Put(SubSeq(HeaderAt(packet, Expr.base), Expr.offset + 1, Expr.offset + Expr.len))

NoPayload ==
    /\ AtExpr("payload")
    /\ ~ HasPayload
    /\ Then(Break)
    /\ UNCHANGED <<regs, effects>>

LoadImmediate == AtExpr("immediate") /\ Put(Expr.data)

(* nft_ng_random_gen: a number of the host *)
LoadNumber ==
    /\ AtExpr("numgen")
    /\ \E n \in 0..(Expr.modulus - 1) : Put(Native(4, Expr.offset + n))

(* nft_cmp_eval: memcmp() *)
Holds(op, a, b) ==
    CASE op = "==" -> a = b [] op = "!=" -> a # b
      [] op = "<"  -> Octets!Precedes(a, b) [] op = "<=" -> Octets!AtMost(a, b)
      [] op = ">"  -> Octets!Precedes(b, a) [] op = ">=" -> Octets!AtMost(b, a)

Compare ==
    /\ AtExpr("cmp")
    /\ Then(IF Holds(Expr.op, Got(Len(Expr.data)), Expr.data) THEN Continue ELSE Break)
    /\ UNCHANGED <<regs, effects>>

(* The bytes of masks are 0 or 255, those to flip with 0. *)
MaskBytes ==
    /\ AtExpr("bitwise")
    /\ Put([i \in 1..Expr.len |-> IF Expr.mask[i] = 255 THEN Got(Expr.len)[i] ELSE 0])

FindKey ==
    /\ AtExpr("lookup")
    /\ Then(IF Got(Expr.set.klen) \in Expr.set.keys THEN Continue ELSE Break)
    /\ UNCHANGED <<regs, effects>>

Found == Got(Expr.set.klen) \in DOMAIN Expr.set.elems

Data == Expr.set.elems[Got(Expr.set.klen)]

FindData ==
    /\ AtExpr("lookup_map")
    /\ Found
    /\ Expr.dreg # VerdictReg
    /\ Put(Data)

(* The verdicts of nf_tables, by their codes. *)
Decode(e) == V(CHOOSE code \in DOMAIN VerdictCode : VerdictCode[code] = e.verdict, e.chain)

FindVerdict ==
    /\ AtExpr("lookup_map")
    /\ Found
    /\ Expr.dreg = VerdictReg
    /\ Then(Decode(Data))
    /\ UNCHANGED <<regs, effects>>

FindNothing ==
    /\ AtExpr("lookup_map")
    /\ ~ Found
    /\ Then(Break)
    /\ UNCHANGED <<regs, effects>>

SetMark ==
    /\ AtExpr("meta_set")
    /\ effects' = [effects EXCEPT !.mark = Got(4)]
    /\ Then(Continue)
    /\ UNCHANGED regs

Count ==
    /\ AtExpr("counter")
    /\ effects' = [effects EXCEPT !.counted = @ + 1]
    /\ Then(Continue)
    /\ UNCHANGED regs

Issue ==
    /\ AtExpr("verdict")
    /\ Then(Decode(Expr))
    /\ UNCHANGED <<regs, effects>>

Reject ==
    /\ AtExpr("reject")
    /\ Then(V("reject", Told(packet, Expr.type, Expr.code)))
    /\ UNCHANGED <<regs, effects>>

Port(r) == Fetch(regs, r, 2)[1] * 256 + Fetch(regs, r, 2)[2]

Translate ==
    /\ AtExpr("nat")
    /\ LET addr == Fetch(regs, Expr.addr, AddressLen(Expr.family))
       IN  Then([code |-> "dnat",
                 to |-> IF Expr.port = NoRegister THEN <<addr>> ELSE <<addr, Port(Expr.port)>>])
    /\ UNCHANGED <<regs, effects>>

(* nft_tproxy_eval; a socket listens at every port *)
Redirect ==
    /\ AtExpr("tproxy")
    /\ IF Expr.family \in {"Unspec", FamilyOf(packet)}
       THEN /\ effects' = [effects EXCEPT !.proxied = Port(Expr.port)]
            /\ Then(Continue)
       ELSE Then(Break) /\ UNCHANGED effects
    /\ UNCHANGED regs

EndOfRule ==
    /\ InRule
    /\ walk.at.step \notin DOMAIN Rule
    /\ walk' = NextRule(walk)
    /\ written' = {}
    /\ UNCHANGED <<program, packet, effects, regs>>

EndOfChain ==
    /\ Walking
    /\ ~ InRule
    /\ walk' = Leave(walk, policy)
    /\ written' = {}
    /\ UNCHANGED <<program, packet, effects, regs>>

Evaluate ==
    \/ LoadMeta \/ LoadPayload \/ NoPayload \/ LoadImmediate \/ LoadNumber
    \/ Compare \/ MaskBytes \/ FindKey \/ FindData \/ FindVerdict \/ FindNothing
    \/ SetMark \/ Count \/ Issue \/ Reject \/ Translate \/ Redirect
    \/ EndOfRule \/ EndOfChain

Next ==
    \/ \E v \in {V("accept", "none"), V("drop", "none")} : SetPolicy(v)
    \/ \E ch \in Chains : NewRule(ch)
    \/ draft # NoDraft /\ \E c \in Clauses[draft.chain] : Say(c)
    \/ AddExpr
    \/ AddRule
    \/ \E p \in Arriving, junk \in Junk : Arrive(p, junk)
    \/ Evaluate

Spec == Init /\ [][Next]_vars

----------------------------------------------------------------------------
(* Properties                                                              *)

Place == [chain : Chains, rule : 1..(MaxRules + 1), step : Nat \ {0}]

TypeOK ==
    /\ DOMAIN rules = Chains /\ DOMAIN meant = Chains
    /\ \A ch \in Chains :
          /\ Len(rules[ch]) = Len(meant[ch])
          /\ \A r \in DOMAIN rules[ch] : \A i \in DOMAIN rules[ch][r] :
                rules[ch][r][i].of \in DOMAIN meant[ch][r]
    /\ walk.at \in Place /\ \A i \in DOMAIN walk.stack : walk.stack[i] \in Place
    /\ effects.counted \in Nat /\ effects.mark \in [1..4 -> Octet]
    /\ regs \in [0..(FileSize - 1) -> Octet]
    /\ written \subseteq 0..(FileSize - 1)

(* The bytes of the registers an expression depends on. *)
Reads(e) ==
    CASE e.name = "cmp"      -> Extent(e.sreg, Len(e.data))
      [] e.name = "bitwise"  -> Extent(e.sreg, e.len)
      [] e.name \in {"lookup", "lookup_map"} -> Extent(e.sreg, e.set.klen)
      [] e.name = "meta_set" -> Extent(e.sreg, 4)
      [] e.name = "nat"      ->
            Extent(e.addr, AddressLen(e.family))
            \cup (IF e.port = NoRegister THEN {} ELSE Extent(e.port, 2))
      [] e.name = "tproxy"   -> Extent(e.port, 2)
      [] OTHER               -> {}

(***************************************************************************)
(* An expression reads only what an earlier expression of the same rule    *)
(* has written, byte for byte, whatever the lengths of the field loaded    *)
(* and of the data it is compared with, and whatever registers overlap:    *)
(* nothing left over by another rule or packet decides about this one.     *)
(***************************************************************************)
ReadsAreWritten ==
    InRule /\ walk.at.step \in DOMAIN Rule => Reads(Expr) \subseteq written

(* The clause whose expressions the packet has got to. *)
Here == meant[walk.at.chain][walk.at.rule][Rule[walk.at.step].of]

(***************************************************************************)
(* The sender of a rejected packet is told what the IcmpCode of the        *)
(* verdict names (expr/verdict.rs), whatever the family of the table.      *)
(***************************************************************************)
RejectTellsReason == walk.fate.code = "reject" => walk.fate.arg = Here.verdict.arg

(***************************************************************************)
(* numgen finds one of the backends a map has for 0, 1, ...                *)
(* (examples/add-vmap.rs).                                                 *)
(***************************************************************************)
BackendsAreFound == AtExpr("lookup_map") /\ Here.is = "dnat" => Found

----------------------------------------------------------------------------
(* Ruleset: the promise, at the granularity of clauses                     *)

ClauseAt(w) ==
    IF w.at.rule \notin DOMAIN rules[w.at.chain] THEN w
    ELSE LET r == rules[w.at.chain][w.at.rule]
         IN  [w EXCEPT !.at.step =
                IF @ \in DOMAIN r THEN r[@].of
                ELSE Len(meant[w.at.chain][w.at.rule]) + 1]

Promise == INSTANCE Ruleset WITH
    rules <- meant,
    walk <- ClauseAt(walk),
    effects <- [effects EXCEPT !.mark = InHostOrder(@)]

(***************************************************************************)
(* What becomes of a packet is what the clauses say: each clause matches   *)
(* when it should, in order, and has its verdict and its effects; the      *)
(* first that does not match leads to the next rule (rule.rs, add_expr).   *)
(***************************************************************************)
RulesetSpec == Promise!Spec

=============================================================================
