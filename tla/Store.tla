-------------------------------- MODULE Store --------------------------------
(***************************************************************************)
(* The messages of a batch and what netfilter makes of them (table.rs,     *)
(* chain.rs, rule.rs, set/mod.rs).                                         *)
(*                                                                         *)
(* Each object a program describes knows how to write itself as a message  *)
(* that adds or deletes it: a type, a family, flags and attributes.  The   *)
(* message holds what the object was when it was added to the batch.       *)
(* netfilter looks tables up by family and name and performs the messages  *)
(* one by one on a draft of its state, which takes effect as a whole or is *)
(* dropped with the first message that cannot be performed.                *)
(***************************************************************************)
EXTENDS Naturals, Sequences, SequencesExt, FiniteSetsExt, Functions

CONSTANTS
    Tables,     \* <<family, name>> of the tables
    Chains,     \* <<family, table, name>> of the chains
    Sets,       \* <<family, table, name>> of the sets
    SetFamily,  \* the family a set was given, which need not be its table's
    Keys,       \* keys of elements
    Handles,    \* handles netfilter may give to rules
    Known,      \* handles a program may name
    Policies,   \* policies a program may give to chains
    None,       \* an attribute that is not set
    PerMsg,     \* elements that fit into one message
    Starts,     \* what netfilter may hold when the program starts
    MaxCalls,   \* bound: requests of the program, for a batch or to read tables
    MaxLocal    \* bound: elements added to the handles of sets

ASSUME StoreAssumption ==
    /\ PerMsg \in Nat \ {0} /\ MaxCalls \in Nat /\ MaxLocal \in Nat
    /\ SetFamily \in [Sets -> {t[1] : t \in Tables}]
    /\ Known \subseteq Handles /\ None \notin Handles
    /\ \A t \in Tables : t = <<t[1], t[2]>>
    /\ \A x \in Chains \cup Sets : x = <<x[1], x[2], x[3]>>

(* Chains are known by name, and no rule has a handle beyond some n. *)
IsState(v) ==
    /\ v = [tables |-> v.tables, chains |-> v.chains, sets |-> v.sets]
    /\ v.chains = [c \in DOMAIN v.chains |-> v.chains[c]]
    /\ v.sets = [s \in DOMAIN v.sets |-> v.sets[s]]
    /\ \E n \in Handles : \A c \in DOMAIN v.chains :
          LET chain == v.chains[c]
          IN  /\ chain = [base |-> chain.base, policy |-> chain.policy, rules |-> chain.rules]
              /\ chain.base \in BOOLEAN
              /\ chain.rules \in Seq(1..n)

ASSUME StartsAssumption == \A v \in Starts : IsState(v)

VARIABLES
    phase,      \* "building" a batch, "running" in netfilter, "reading" tables
    local,      \* for each set, the elements in the program's handle
    batch,      \* the messages
    at,         \* the message netfilter performs next
    now,        \* what netfilter holds
    draft,      \* what it holds if the batch is committed
    told,       \* what became of a batch ("done", "refused") or of a dump
                \* ("read", "failed"), if that is the last that happened
    left,       \* tables of a dump whose messages are yet to be parsed
    names,      \* the caller's set, into which get_tables_cb inserts names
    before,     \* history: what that was before the dump that is being read
    calls,      \* requests made so far, for a batch or to read tables
    asked,      \* history: what was asked for, as Inventory puts it
    flushed     \* history: the set that the last message flushes, if it does

programVars == <<local, batch, calls, asked, flushed>>
kernelVars == <<at, now, draft>>
readVars == <<left, names, before>>
vars == <<phase, told, programVars, kernelVars, readVars>>

TableOf(x) == <<x[1], x[2]>>

Init ==
    /\ phase = "building"
    /\ local = [s \in Sets |-> <<>>]
    /\ batch = <<>> /\ at = 1
    /\ now \in Starts /\ draft = now
    /\ told = None
    /\ left = {} /\ names = {} /\ before = {}
    /\ calls = 0 /\ asked = <<>> /\ flushed = None

----------------------------------------------------------------------------
(* NlMsg::write of each object, op being "Add" or "Del".                   *)

Msg(type, family, flags, attrs) ==
    [type |-> type, family |-> family, flags |-> flags, attrs |-> attrs]

With(f, x, y) == [z \in DOMAIN f \cup {x} |-> IF z = x THEN y ELSE f[z]]

(* An attribute is in the message if it was set. *)
Opt(attrs, name, value) == IF value = None THEN attrs ELSE With(attrs, name, value)

TableMsg(t, op) ==
    Msg(IF op = "Add" THEN "NEWTABLE" ELSE "DELTABLE", t[1], {"ACK"},
        [table |-> t[2]])

(* Mutant: a chain must not exist. *)
ChainFlagsExcl(op) == IF op = "Add" THEN {"CREATE", "EXCL", "ACK"} ELSE {"ACK"}

ChainFlags(op) == IF op = "Add" THEN {"CREATE", "ACK"} ELSE {"ACK"}

ChainMsg(c, hook, policy, op) ==
    LET named == [table |-> c[2], chain |-> c[3]]
    IN  Msg(IF op = "Add" THEN "NEWCHAIN" ELSE "DELCHAIN", c[1], ChainFlags(op),
            Opt(IF hook THEN With(named, "hook", "in") ELSE named, "policy", policy))

(* Mutant: a rule is put at the head, or in front of another. *)
RuleFlagsInsert(op) == IF op = "Add" THEN {"CREATE", "EXCL", "ACK"} ELSE {"ACK"}

RuleFlags(op) ==
    IF op = "Add" THEN {"CREATE", "APPEND", "EXCL", "ACK"} ELSE {"ACK"}

RuleMsg(c, position, handle, op) ==
    Msg(IF op = "Add" THEN "NEWRULE" ELSE "DELRULE", c[1], RuleFlags(op),
        Opt(Opt([table |-> c[2], chain |-> c[3]], "position", position), "handle", handle))

SetMsg(s, op) ==
    Msg(IF op = "Add" THEN "NEWSET" ELSE "DELSET", s[1], {"APPEND", "CREATE", "ACK"},
        [table |-> s[2], set |-> s[3]])

(* Mutant: elements that exist are left alone. *)
ElemFlagsShared(op) == IF op = "Add" THEN {"CREATE", "ACK"} ELSE {"ACK"}

ElemFlags(op) == IF op = "Add" THEN {"CREATE", "EXCL", "ACK"} ELSE {"ACK"}

ElemsMsg(s, keys, op) ==
    Msg(IF op = "Add" THEN "NEWSETELEM" ELSE "DELSETELEM", SetFamily[s], ElemFlags(op),
        [table |-> s[2], set |-> s[3], elements |-> keys])

(* Mutant: the iterator yields a last message that finds nothing left. *)
ElemsMsgsAndOne(s, op) ==
    [i \in 1..(Len(local[s]) \div PerMsg + 1) |->
        LET keys == SubSeq(local[s], (i - 1) * PerMsg + 1,
                           Min({i * PerMsg, Len(local[s])}))
        IN  IF keys # <<>> THEN ElemsMsg(s, keys, op)
            ELSE [ElemsMsg(s, keys, op) EXCEPT !.attrs = [table |-> s[2], set |-> s[3]]]]

(* add_iter(): the messages of elems_iter(), each as full as it can be. *)
ElemsMsgs(s, op) ==
    [i \in 1..((Len(local[s]) + PerMsg - 1) \div PerMsg) |->
        ElemsMsg(s, SubSeq(local[s], (i - 1) * PerMsg + 1,
                           Min({i * PerMsg, Len(local[s])})), op)]

(***************************************************************************)
(* libnftnl lists the elements of the handle, of whatever number, and only *)
(* a message without a list asks for a flush.                              *)
(***************************************************************************)
FlushMsg(s) ==
    LET named == [table |-> s[2], set |-> s[3]]
    IN  Msg("DELSETELEM", SetFamily[s], {"ACK"},
            IF local[s] = <<>> THEN named ELSE With(named, "elements", local[s]))

----------------------------------------------------------------------------
(* The program: handles of sets, and Batch::add.                           *)

NewSet(s) ==
    /\ phase = "building" /\ local[s] # <<>>
    /\ local' = [local EXCEPT ![s] = <<>>]
    /\ UNCHANGED <<phase, told, batch, calls, asked, flushed, kernelVars, readVars>>

SetAdd(s, k) ==
    /\ phase = "building" /\ MapThenSumSet(LAMBDA x : Len(local[x]), Sets) < MaxLocal
    /\ local' = [local EXCEPT ![s] = Append(@, k)]
    /\ UNCHANGED <<phase, told, batch, calls, asked, flushed, kernelVars, readVars>>

Puts(messages, request, flush) ==
    /\ phase = "building"
    /\ batch' = batch \o messages
    /\ calls' = calls + 1
    /\ asked' = Append(asked, request)
    /\ flushed' = flush
    /\ told' = None
    /\ UNCHANGED <<phase, local, kernelVars, readVars>>

PutTable(t, op) ==
    /\ calls < MaxCalls
    /\ Puts(<<TableMsg(t, op)>>, [op |-> op, what |-> "table", table |-> t], None)

(* A chain is a base chain if set_hook was called. *)
PutChain(c, hook, policy, op) ==
    /\ calls < MaxCalls
    /\ Puts(<<ChainMsg(c, hook, policy, op)>>,
            [op |-> op, what |-> "chain", chain |-> c, hook |-> hook, policy |-> policy],
            None)

PutRule(c, position, handle, op) ==
    /\ calls < MaxCalls
    /\ Puts(<<RuleMsg(c, position, handle, op)>>,
            [op |-> op, what |-> "rule", chain |-> c, behind |-> position,
             handle |-> handle],
            None)

PutSet(s, op) ==
    /\ calls < MaxCalls
    /\ Puts(<<SetMsg(s, op)>>, [op |-> op, what |-> "set", set |-> s], None)

PutElems(s, op) ==
    /\ calls < MaxCalls
    /\ Puts(ElemsMsgs(s, op),
            [op |-> op, what |-> "elements", set |-> s, keys |-> local[s]], None)

PutFlush(s) ==
    /\ calls < MaxCalls
    /\ Puts(<<FlushMsg(s)>>,
            IF local[s] = <<>> THEN [op |-> "Del", what |-> "contents", set |-> s]
            ELSE [op |-> "Del", what |-> "elements", set |-> s, keys |-> local[s]], s)

(* The batch is finalized and sent; the program waits for the answers. *)
Send ==
    /\ phase = "building" /\ asked # <<>>
    /\ phase' = "running" /\ at' = 1 /\ draft' = now
    /\ UNCHANGED <<told, programVars, now, readVars>>

----------------------------------------------------------------------------
(* netfilter, external: what a message makes of a draft v, as the set of   *)
(* results; none if the message is refused.                                *)

Has(m, attr) == attr \in DOMAIN m.attrs
InTable(m) == <<m.family, m.attrs.table>>
ChainNamed(m) == <<m.family, m.attrs.table, m.attrs.chain>>
SetNamed(m) == <<m.family, m.attrs.table, m.attrs.set>>

NewTable(v, m) == {[v EXCEPT !.tables = @ \cup {InTable(m)}]}

Outside(f, t) == Restrict(f, {x \in DOMAIN f : TableOf(x) # t})

DeleteTable(v, m) ==
    IF InTable(m) \notin v.tables THEN {}
    ELSE {[tables |-> v.tables \ {InTable(m)},
           chains |-> Outside(v.chains, InTable(m)),
           sets |-> Outside(v.sets, InTable(m))]}

CreateChain(v, m) ==
    IF "CREATE" \notin m.flags \/ (Has(m, "policy") /\ ~Has(m, "hook")) THEN {}
    ELSE {[v EXCEPT !.chains = With(@, ChainNamed(m),
             [base |-> Has(m, "hook"),
              policy |-> IF Has(m, "policy") THEN m.attrs.policy ELSE "accept",
              rules |-> <<>>])]}

UpdateChain(v, m) ==
    LET c == ChainNamed(m)
        refused == \/ "EXCL" \in m.flags
                   \/ Has(m, "hook") /\ ~v.chains[c].base
                   \/ Has(m, "policy") /\ ~v.chains[c].base
    IN  IF refused THEN {}
        ELSE IF Has(m, "policy") THEN {[v EXCEPT !.chains[c].policy = m.attrs.policy]}
        ELSE {v}

NewChain(v, m) ==
    IF InTable(m) \notin v.tables THEN {}
    ELSE IF ChainNamed(m) \in DOMAIN v.chains THEN UpdateChain(v, m)
    ELSE CreateChain(v, m)

DeleteChain(v, m) ==
    IF ChainNamed(m) \notin DOMAIN v.chains THEN {}
    ELSE {[v EXCEPT !.chains = Restrict(@, DOMAIN @ \ {ChainNamed(m)})]}

HandlesIn(v, t) ==
    UNION {ToSet(v.chains[c].rules) : c \in {d \in DOMAIN v.chains : TableOf(d) = t}}

(* netfilter numbers the rules of a table; no handle in use is given again. *)
NextHandle(v, t) == 1 + Max({0} \cup HandlesIn(v, t) \cup HandlesIn(now, t))

(* Where in a chain of n rules a rule goes; place is that of `position'. *)
Slot(m, n, place) ==
    IF "APPEND" \in m.flags
    THEN IF Has(m, "position") THEN place + 1 ELSE n + 1
    ELSE IF Has(m, "position") THEN place ELSE 1

(***************************************************************************)
(* `position' is the handle of another rule.  A message with a handle of   *)
(* its own would replace that rule, which EXCL forbids.                    *)
(***************************************************************************)
NewRule(v, m) ==
    IF ChainNamed(m) \notin DOMAIN v.chains \/ Has(m, "handle") THEN {}
    ELSE LET rules == v.chains[ChainNamed(m)].rules
             place == SelectInSeq(rules, LAMBDA h : h = m.attrs.position)
         IN  IF Has(m, "position") /\ place = 0 THEN {}
             ELSE {[v EXCEPT !.chains[ChainNamed(m)].rules =
                        InsertAt(@, Slot(m, Len(rules), place), NextHandle(v, InTable(m)))]}

DeleteRule(v, m) ==
    IF ChainNamed(m) \notin DOMAIN v.chains THEN {}
    ELSE LET rules == v.chains[ChainNamed(m)].rules
             kept == IF Has(m, "handle") THEN RemoveFirst(rules, m.attrs.handle) ELSE <<>>
         IN  IF Has(m, "handle") /\ ~Contains(rules, m.attrs.handle) THEN {}
             ELSE {[v EXCEPT !.chains[ChainNamed(m)].rules = kept]}

NewNfSet(v, m) ==
    IF InTable(m) \notin v.tables \/ "CREATE" \notin m.flags THEN {}
    ELSE IF SetNamed(m) \notin DOMAIN v.sets
    THEN {[v EXCEPT !.sets = With(@, SetNamed(m), {})]}
    ELSE IF "EXCL" \in m.flags THEN {} ELSE {v}

DeleteSet(v, m) ==
    IF SetNamed(m) \notin DOMAIN v.sets THEN {}
    ELSE {[v EXCEPT !.sets = Restrict(@, DOMAIN @ \ {SetNamed(m)})]}

(* Elements are taken one by one; a list must be there. *)
NewElems(v, m) ==
    IF SetNamed(m) \notin DOMAIN v.sets \/ ~Has(m, "elements") THEN {}
    ELSE LET keys == m.attrs.elements
             new == ToSet(keys) \ v.sets[SetNamed(m)]
         IN  IF "EXCL" \in m.flags /\ Cardinality(new) < Len(keys) THEN {}
             ELSE {[v EXCEPT !.sets[SetNamed(m)] = @ \cup new]}

(* Without a list, all elements are deleted. *)
DeleteElems(v, m) ==
    IF SetNamed(m) \notin DOMAIN v.sets THEN {}
    ELSE IF ~Has(m, "elements") THEN {[v EXCEPT !.sets[SetNamed(m)] = {}]}
    ELSE LET keys == m.attrs.elements
             old == ToSet(keys) \cap v.sets[SetNamed(m)]
         IN  IF Cardinality(old) < Len(keys) THEN {}
             ELSE {[v EXCEPT !.sets[SetNamed(m)] = @ \ old]}

Results(v, m) ==
    CASE m.type = "NEWTABLE" -> NewTable(v, m)
      [] m.type = "DELTABLE" -> DeleteTable(v, m)
      [] m.type = "NEWCHAIN" -> NewChain(v, m)
      [] m.type = "DELCHAIN" -> DeleteChain(v, m)
      [] m.type = "NEWRULE" -> NewRule(v, m)
      [] m.type = "DELRULE" -> DeleteRule(v, m)
      [] m.type = "NEWSET" -> NewNfSet(v, m)
      [] m.type = "DELSET" -> DeleteSet(v, m)
      [] m.type = "NEWSETELEM" -> NewElems(v, m)
      [] m.type = "DELSETELEM" -> DeleteElems(v, m)

Ends(outcome) ==
    /\ phase' = "building" /\ told' = outcome
    /\ batch' = <<>> /\ asked' = <<>>
    /\ at' = 1 /\ draft' = now'
    /\ UNCHANGED <<local, calls, flushed, readVars>>

KernelPerforms ==
    /\ phase = "running" /\ at <= Len(batch)
    /\ draft' \in Results(draft, batch[at])
    /\ at' = at + 1
    /\ UNCHANGED <<phase, told, programVars, now, readVars>>

KernelCommits ==
    /\ phase = "running" /\ at > Len(batch)
    /\ now' = draft
    /\ Ends("done")

KernelAborts ==
    /\ phase = "running" /\ at <= Len(batch)
    /\ Results(draft, batch[at]) = {}
    /\ UNCHANGED now
    /\ Ends("refused")

----------------------------------------------------------------------------
(* Reading tables.                                                         *)

(* Mutant: it asks for the tables of one family only. *)
GetTablesOfIp(kept) ==
    /\ phase = "building" /\ asked = <<>>
    /\ calls < MaxCalls /\ calls' = calls + 1
    /\ phase' = "reading"
    /\ left' = {t \in now.tables : t[1] = "ip"}
    /\ names' = kept /\ before' = names
    /\ UNCHANGED <<told, local, batch, asked, flushed, kernelVars>>

(***************************************************************************)
(* get_tables_nlmsg(): family Unspec asks for the tables of all families.  *)
(* The caller hands the callback a set of its own, `kept' being what is in *)
(* it: nothing, or what an earlier dump has left there.  Tables are read   *)
(* between batches; reading and composing a batch do not touch each other. *)
(***************************************************************************)
GetTables(kept) ==
    /\ phase = "building" /\ asked = <<>>
    /\ calls < MaxCalls /\ calls' = calls + 1
    /\ phase' = "reading"
    /\ left' = now.tables
    /\ names' = kept /\ before' = names
    /\ UNCHANGED <<told, local, batch, asked, flushed, kernelVars>>

(* get_tables_cb, called for each message of the answer. *)
GetTablesCb(t) ==
    /\ phase = "reading" /\ t \in left
    /\ left' = left \ {t}
    /\ names' = names \cup {t[2]}
    /\ UNCHANGED <<phase, told, before, programVars, kernelVars>>

(* Mutant: 1 is returned for it, as for the others, and the dump goes on. *)
GetTablesGoesOn ==
    /\ phase = "reading"
    /\ \E t \in left : left' = left \ {t}
    /\ UNCHANGED <<phase, told, names, before, programVars, kernelVars>>

(***************************************************************************)
(* A message that cannot be parsed ends the dump; the caller has an error, *)
(* and in its set the names of the messages before.                        *)
(***************************************************************************)
GetTablesFails ==
    /\ phase = "reading" /\ left # {}
    /\ phase' = "building" /\ told' = "failed"
    /\ left' = {} /\ before' = {}
    /\ UNCHANGED <<names, programVars, kernelVars>>

TablesRead ==
    /\ phase = "reading" /\ left = {}
    /\ phase' = "building" /\ told' = "read"
    /\ before' = {}
    /\ UNCHANGED <<left, names, programVars, kernelVars>>

----------------------------------------------------------------------------
Op == {"Add", "Del"}

Program ==
    \/ \E s \in Sets : NewSet(s)
    \/ \E s \in Sets, k \in Keys : SetAdd(s, k)
    \/ \E t \in Tables, op \in Op : PutTable(t, op)
    \/ \E c \in Chains, hook \in BOOLEAN, policy \in Policies \cup {None}, op \in Op :
           PutChain(c, hook, policy, op)
    \/ \E c \in Chains, position, handle \in Known \cup {None}, op \in Op :
           PutRule(c, position, handle, op)
    \/ \E s \in Sets, op \in Op : PutSet(s, op)
    \/ \E s \in Sets, op \in Op : PutElems(s, op)
    \/ \E s \in Sets : PutFlush(s)
    \/ Send
    \/ \E kept \in {{}, names} : GetTables(kept)
    \/ \E t \in left : GetTablesCb(t)
    \/ GetTablesFails
    \/ TablesRead

Kernel == KernelPerforms \/ KernelCommits \/ KernelAborts

Next == Program \/ Kernel

Spec == Init /\ [][Next]_vars

----------------------------------------------------------------------------
(* Properties.                                                             *)

(***************************************************************************)
(* What the messages of a batch make of netfilter is what the program      *)
(* asked for, all of it in order or nothing (Inventory): objects are found *)
(* in their tables, rules lie in the order they were added, elements that  *)
(* take several messages are one request, an object that changes after it  *)
(* was added changes nothing, and a flush through a handle that holds      *)
(* elements deletes these and no others.  The tables read are those there  *)
(* are, each name once; after an error, those of some of them.             *)
(***************************************************************************)
Asked == INSTANCE Inventory WITH
    inventory <- now,
    names <- IF phase = "reading" THEN before ELSE names

InventorySpec == Asked!Spec

(***************************************************************************)
(* "Returns a message that flushes all elements from this set"             *)
(* (set/mod.rs:179): once a batch that ends with it is done, the set has   *)
(* no elements.                                                            *)
(***************************************************************************)
FlushEmpties ==
    told = "done" /\ flushed \in DOMAIN now.sets => now.sets[flushed] = {}
=============================================================================
