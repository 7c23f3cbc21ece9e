------------------------------ MODULE Inventory ------------------------------
(***************************************************************************)
(* What the messages of a batch ask for, and what a batch promises: all    *)
(* that was asked is done, in the order it was asked, or nothing is.       *)
(*                                                                         *)
(* The inventory is what netfilter holds: tables; in them chains, each     *)
(* with its rules in order, a rule being its handle; and sets.  A table is *)
(* named by its family and its name, a chain or a set by these two and a   *)
(* name of its own.                                                        *)
(***************************************************************************)
EXTENDS Naturals, Sequences, SequencesExt, Functions

CONSTANTS
    Handles,  \* handles netfilter may give to rules
    None,     \* no value
    Starts    \* what netfilter may hold at first

VARIABLES
    inventory,  \* what netfilter holds
    asked,      \* what the batch being built asks for, in order
    told,       \* "done" or "refused" if a batch was sent just now, "read" or
                \* "failed" if names were
    names       \* the names of tables a program has read

vars == <<inventory, asked, told, names>>

TableOf(x) == <<x[1], x[2]>>

With(f, x, y) == [z \in DOMAIN f \cup {x} |-> IF z = x THEN y ELSE f[z]]

Without(f, x) == Restrict(f, DOMAIN f \ {x})

Outside(f, t) == Restrict(f, {x \in DOMAIN f : TableOf(x) # t})

----------------------------------------------------------------------------
(* What each request makes of an inventory v: the set of its results,      *)
(* which is empty if the request cannot be met.                            *)

AddTable(v, r) == {[v EXCEPT !.tables = @ \cup {r.table}]}

DelTable(v, r) ==
    IF r.table \notin v.tables THEN {}
    ELSE {[tables |-> v.tables \ {r.table},
           chains |-> Outside(v.chains, r.table),
           sets |-> Outside(v.sets, r.table)]}

(* A chain that exists keeps its rules; only one with a hook has a policy. *)
AddChain(v, r) ==
    LET old == IF r.chain \in DOMAIN v.chains THEN v.chains[r.chain]
               ELSE [base |-> r.hook, policy |-> "accept", rules |-> <<>>]
        policy == IF r.policy = None THEN old.policy ELSE r.policy
    IN  IF TableOf(r.chain) \notin v.tables THEN {}
        ELSE IF (r.hook \/ r.policy # None) /\ ~old.base THEN {}
        ELSE {[v EXCEPT !.chains = With(@, r.chain, [old EXCEPT !.policy = policy])]}

DelChain(v, r) ==
    IF r.chain \notin DOMAIN v.chains THEN {}
    ELSE {[v EXCEPT !.chains = Without(@, r.chain)]}

RulesOf(v, c) == IF c \in DOMAIN v.chains THEN v.chains[c].rules ELSE <<>>

InUse(v, t) == UNION {ToSet(RulesOf(v, c)) : c \in {d \in DOMAIN v.chains : TableOf(d) = t}}

(* Handles of rules that a batch deletes are not given again by it. *)
Fresh(v, t) == Handles \ (InUse(v, t) \cup InUse(inventory, t))

(* A rule gets a handle of its own, and goes behind a rule or to the end. *)
AddRule(v, r) ==
    LET rules == RulesOf(v, r.chain)
        place == IF r.behind = None THEN Len(rules) + 1 ELSE 1 + SelectInSeq(rules, LAMBDA h : h = r.behind)
    IN  IF r.chain \notin DOMAIN v.chains \/ r.handle # None THEN {}
        ELSE IF r.behind # None /\ ~Contains(rules, r.behind) THEN {}
        ELSE {[v EXCEPT !.chains[r.chain].rules = InsertAt(@, place, h)] :
                 h \in Fresh(v, TableOf(r.chain))}

(* A rule without a handle stands for every rule of its chain. *)
DelRule(v, r) ==
    IF r.chain \notin DOMAIN v.chains THEN {}
    ELSE IF r.handle = None THEN {[v EXCEPT !.chains[r.chain].rules = <<>>]}
    ELSE IF ~Contains(RulesOf(v, r.chain), r.handle) THEN {}
    ELSE {[v EXCEPT !.chains[r.chain].rules = RemoveFirst(@, r.handle)]}

AddSet(v, r) ==
    IF TableOf(r.set) \notin v.tables THEN {}
    ELSE IF r.set \in DOMAIN v.sets THEN {v}
    ELSE {[v EXCEPT !.sets = With(@, r.set, {})]}

DelSet(v, r) ==
    IF r.set \notin DOMAIN v.sets THEN {} ELSE {[v EXCEPT !.sets = Without(@, r.set)]}

(* Elements to add are new, elements to delete are there, none is twice. *)
AddElems(v, r) ==
    IF r.keys = <<>> THEN {v}
    ELSE IF r.set \notin DOMAIN v.sets \/ ~IsInjective(r.keys) THEN {}
    ELSE IF ToSet(r.keys) \cap v.sets[r.set] # {} THEN {}
    ELSE {[v EXCEPT !.sets[r.set] = @ \cup ToSet(r.keys)]}

DelElems(v, r) ==
    IF r.keys = <<>> THEN {v}
    ELSE IF r.set \notin DOMAIN v.sets \/ ~IsInjective(r.keys) THEN {}
    ELSE IF ~(ToSet(r.keys) \subseteq v.sets[r.set]) THEN {}
    ELSE {[v EXCEPT !.sets[r.set] = @ \ ToSet(r.keys)]}

EmptySet(v, r) ==
    IF r.set \notin DOMAIN v.sets THEN {} ELSE {[v EXCEPT !.sets[r.set] = {}]}

Results(v, r) ==
    LET adds == r.op = "Add"
    IN  CASE r.what = "table" -> IF adds THEN AddTable(v, r) ELSE DelTable(v, r)
          [] r.what = "chain" -> IF adds THEN AddChain(v, r) ELSE DelChain(v, r)
          [] r.what = "rule" -> IF adds THEN AddRule(v, r) ELSE DelRule(v, r)
          [] r.what = "set" -> IF adds THEN AddSet(v, r) ELSE DelSet(v, r)
          [] r.what = "elements" -> IF adds THEN AddElems(v, r) ELSE DelElems(v, r)
          [] r.what = "contents" -> EmptySet(v, r)

(* What the first n requests of the batch may have made of the inventory. *)
After ==
    LET after[n \in 0..Len(asked)] ==
            IF n = 0 THEN {inventory}
            ELSE UNION {Results(v, asked[n]) : v \in after[n - 1]}
    IN  after

Outcomes == After[Len(asked)]

Unmet == \E n \in 1..Len(asked) : \E v \in After[n - 1] : Results(v, asked[n]) = {}

----------------------------------------------------------------------------
Init ==
    /\ inventory \in Starts
    /\ asked = <<>> /\ told = None /\ names = {}

Ask(r) ==
    /\ asked' = Append(asked, r)
    /\ told' = None
    /\ UNCHANGED <<inventory, names>>

Perform ==
    /\ inventory' \in Outcomes
    /\ asked' = <<>> /\ told' = "done"
    /\ UNCHANGED names

Refuse ==
    /\ Unmet
    /\ asked' = <<>> /\ told' = "refused"
    /\ UNCHANGED <<inventory, names>>

NamesOf(tables) == {t[2] : t \in tables}

(***************************************************************************)
(* The names of the tables of all families are read into a set that holds  *)
(* none yet, or those read before; names are added to it and none removed. *)
(***************************************************************************)
ReadNames(kept) ==
    /\ names' = kept \cup NamesOf(inventory.tables)
    /\ told' = "read"
    /\ UNCHANGED <<inventory, asked>>

(* Reading fails when some tables, not all, have been read. *)
ReadFails(kept) ==
    /\ \E some \in SUBSET inventory.tables :
           some # inventory.tables /\ names' = kept \cup NamesOf(some)
    /\ told' = "failed"
    /\ UNCHANGED <<inventory, asked>>

Next ==
    \/ \E r \in ToSet(asked') : Ask(r)
    \/ Perform
    \/ Refuse
    \/ \E kept \in {{}, names} : ReadNames(kept) \/ ReadFails(kept)

Spec == Init /\ [][Next]_vars
=============================================================================
