---------------------------- MODULE Store_proofs ----------------------------
(***************************************************************************)
(* Store implements Inventory: proof for all constants that a batch does   *)
(* what the program asked for, all of it in order or nothing.              *)
(*                                                                         *)
(* The messages of a batch spell the requests it was put together for: a   *)
(* request is spelled by one message, or by as many as list its keys.      *)
(* netfilter performs messages, Inventory requests; in between, the draft  *)
(* is what the requests before the next message may have made, and the     *)
(* keys listed so far of the one it belongs to.                            *)
(*                                                                         *)
(* A dump collects names one table after another, and may fail in between. *)
(***************************************************************************)
EXTENDS Store, FiniteSetTheorems, SequenceTheorems, TLAPS

----------------------------------------------------------------------------
(* Counting the keys of a message                                          *)

LEMMA ListIsFinite ==
    ASSUME NEW K, NEW s \in Seq(K)
    PROVE  /\ IsFiniteSet(ToSet(s)) /\ Cardinality(ToSet(s)) \in Nat
           /\ Cardinality(ToSet(s)) <= Len(s)
           /\ Cardinality(ToSet(s)) = Len(s) <=> IsInjective(s)
<1> DEFINE T == ToSet(s)
           D == 1..Len(s)
<1>1. Len(s) \in Nat /\ DOMAIN s = D
  OBVIOUS
<1>2. IsFiniteSet(D) /\ Cardinality(D) = Len(s)
  <2>1. 1 \in Int /\ Len(s) \in Int
    BY <1>1
  <2>2. /\ IsFiniteSet(1..Len(s))
        /\ Cardinality(1..Len(s)) = IF 1 > Len(s) THEN 0 ELSE Len(s) - 1 + 1
    BY <2>1, FS_Interval
  <2> QED BY <1>1, <2>2
<1>3. T = {s[i] : i \in D}
  BY <1>1 DEF ToSet
<1>4. s \in [D -> T]
  BY <1>1, <1>3
<1> HIDE DEF T, D
<1>5. s \in Surjection(D, T)
  BY <1>3, <1>4 DEF Surjection
<1>6. /\ IsFiniteSet(T) /\ Cardinality(T) <= Cardinality(D)
      /\ Cardinality(T) = Cardinality(D) <=> s \in Injection(D, T)
  BY <1>2, <1>5, FS_Surjection
<1>7. Cardinality(T) \in Nat
  BY <1>6, FS_CardinalityType
<1>8. s \in Injection(D, T) <=> IsInjective(s)
  BY <1>4 DEF Injection
<1> QED BY <1>2, <1>6, <1>7, <1>8 DEF T

(* EXCL: a message adds its elements if each is new. *)
LEMMA AllAreNew ==
    ASSUME NEW K, NEW s \in Seq(K), NEW X
    PROVE  Cardinality(ToSet(s) \ X) < Len(s) <=> ~ (IsInjective(s) /\ ToSet(s) \cap X = {})
<1> DEFINE T == ToSet(s)
           N == ToSet(s) \ X
<1>1. /\ IsFiniteSet(T) /\ Cardinality(T) \in Nat /\ Cardinality(T) <= Len(s)
      /\ Cardinality(T) = Len(s) <=> IsInjective(s)
  BY ListIsFinite
<1>2. N \in SUBSET T
  OBVIOUS
<1>3. T \cap X = {} <=> N = T
  OBVIOUS
<1>a. Len(s) \in Nat
  OBVIOUS
<1> HIDE DEF T, N
<1>4. /\ IsFiniteSet(N) /\ Cardinality(N) <= Cardinality(T)
      /\ Cardinality(T) = Cardinality(N) => T = N
  BY <1>1, <1>2, FS_Subset
<1>5. Cardinality(N) \in Nat
  BY <1>4, FS_CardinalityType
<1>6. Cardinality(N) < Len(s) <=> ~ (IsInjective(s) /\ N = T)
  BY <1>1, <1>4, <1>5, <1>a
<1> QED BY <1>3, <1>6 DEF T, N

(* A message deletes its elements if each is there. *)
LEMMA AllAreThere ==
    ASSUME NEW K, NEW s \in Seq(K), NEW X
    PROVE  Cardinality(ToSet(s) \cap X) < Len(s) <=> ~ (IsInjective(s) /\ ToSet(s) \subseteq X)
<1> DEFINE T == ToSet(s)
           N == ToSet(s) \cap X
<1>1. /\ IsFiniteSet(T) /\ Cardinality(T) \in Nat /\ Cardinality(T) <= Len(s)
      /\ Cardinality(T) = Len(s) <=> IsInjective(s)
  BY ListIsFinite
<1>2. N \in SUBSET T
  OBVIOUS
<1>3. T \subseteq X <=> N = T
  OBVIOUS
<1>a. Len(s) \in Nat
  OBVIOUS
<1> HIDE DEF T, N
<1>4. /\ IsFiniteSet(N) /\ Cardinality(N) <= Cardinality(T)
      /\ Cardinality(T) = Cardinality(N) => T = N
  BY <1>1, <1>2, FS_Subset
<1>5. Cardinality(N) \in Nat
  BY <1>4, FS_CardinalityType
<1>6. Cardinality(N) < Len(s) <=> ~ (IsInjective(s) /\ N = T)
  BY <1>1, <1>4, <1>5, <1>a
<1> QED BY <1>3, <1>6 DEF T, N

(* A list of keys is one list followed by another. *)
Joins(both, pre, more) ==
    /\ ToSet(both) = ToSet(pre) \cup ToSet(more)
    /\ IsInjective(both) <=> /\ IsInjective(pre) /\ IsInjective(more)
                             /\ ToSet(pre) \cap ToSet(more) = {}

(* What a list of keys holds up to one place, and from there to another. *)
LEMMA PrefixGrows ==
    ASSUME NEW K, NEW keys \in Seq(K), NEW n \in 0..Len(keys), NEW m \in (n + 1)..Len(keys),
           NEW pre, pre = SubSeq(keys, 1, n),
           NEW more, more = SubSeq(keys, n + 1, m),
           NEW both, both = SubSeq(keys, 1, m)
    PROVE  /\ pre \in Seq(K) /\ more \in Seq(K) /\ both \in Seq(K)
           /\ both # <<>>
           /\ pre = <<>> <=> n = 0
           /\ Joins(both, pre, more)
<1>1. /\ Len(keys) \in Nat /\ n \in Nat /\ m \in Nat /\ n < m /\ m <= Len(keys)
      /\ DOMAIN keys = 1..Len(keys) /\ \A i \in 1..Len(keys) : keys[i] \in K
  BY ElementOfSeq
<1>2. /\ pre \in Seq(K) /\ Len(pre) = n /\ DOMAIN pre = 1..n
      /\ \A i \in 1..n : pre[i] = keys[i]
  BY <1>1, SubSeqProperties
<1>3. /\ more \in Seq(K) /\ Len(more) = m - n /\ DOMAIN more = 1..(m - n)
      /\ \A i \in 1..(m - n) : more[i] = keys[n + i]
  BY <1>1, SubSeqProperties
<1>4. /\ both \in Seq(K) /\ Len(both) = m /\ DOMAIN both = 1..m
      /\ \A i \in 1..m : both[i] = keys[i]
  BY <1>1, SubSeqProperties
<1>5. /\ \A i \in 1..n : i \in 1..m /\ both[i] = pre[i]
      /\ \A i \in 1..(m - n) : n + i \in 1..m /\ n + i \notin 1..n /\ both[n + i] = more[i]
      /\ \A i \in 1..m : i \notin 1..n => i - n \in 1..(m - n) /\ both[i] = more[i - n]
  <2>1. ASSUME NEW i \in 1..m, i \notin 1..n PROVE i - n \in 1..(m - n) /\ n + (i - n) = i
    BY <1>1, <2>1
  <2> QED BY <1>1, <1>2, <1>3, <1>4, <2>1
<1>6. ToSet(both) = ToSet(pre) \cup ToSet(more)
  <2>1. ASSUME NEW x \in ToSet(both) PROVE x \in ToSet(pre) \cup ToSet(more)
    <3>1. PICK i \in 1..m : x = both[i]
      BY <1>4 DEF ToSet
    <3>2. CASE i \in 1..n
      BY <1>2, <1>5, <3>1, <3>2 DEF ToSet
    <3>3. CASE i \notin 1..n
      <4>1. i - n \in DOMAIN more /\ x = more[i - n]
        BY <1>3, <1>5, <3>1, <3>3
      <4> QED BY <4>1 DEF ToSet
    <3> QED BY <3>2, <3>3
  <2>2. ASSUME NEW x \in ToSet(pre) PROVE x \in ToSet(both)
    BY <1>2, <1>4, <1>5 DEF ToSet
  <2>3. ASSUME NEW x \in ToSet(more) PROVE x \in ToSet(both)
    <3>1. PICK i \in 1..(m - n) : x = more[i]
      BY <1>3 DEF ToSet
    <3>2. n + i \in DOMAIN both /\ x = both[n + i]
      BY <1>4, <1>5, <3>1
    <3> QED BY <3>2 DEF ToSet
  <2> QED BY <2>1, <2>2, <2>3
<1>7. IsInjective(both) => /\ IsInjective(pre) /\ IsInjective(more)
                          /\ ToSet(pre) \cap ToSet(more) = {}
  <2> SUFFICES ASSUME \A i, j \in 1..m : both[i] = both[j] => i = j
               PROVE  /\ IsInjective(pre) /\ IsInjective(more)
                      /\ ToSet(pre) \cap ToSet(more) = {}
    BY <1>4 DEF IsInjective
  <2>1. IsInjective(pre)
    BY <1>2, <1>5 DEF IsInjective
  <2>2. ASSUME NEW i \in 1..(m - n), NEW j \in 1..(m - n), more[i] = more[j] PROVE i = j
    <3>1. n + i = n + j
      BY <1>5, <2>2
    <3> QED BY <1>1, <3>1
  <2>3. ASSUME NEW i \in 1..n, NEW j \in 1..(m - n) PROVE pre[i] # more[j]
    BY <1>5
  <2>4. IsInjective(more)
    BY <1>3, <2>2 DEF IsInjective
  <2>5. ToSet(pre) \cap ToSet(more) = {}
    BY <1>2, <1>3, <2>3 DEF ToSet
  <2> QED BY <2>1, <2>4, <2>5
<1>8. ASSUME IsInjective(pre), IsInjective(more), ToSet(pre) \cap ToSet(more) = {}
      PROVE  IsInjective(both)
  <2>1. \A i \in 1..n, j \in 1..(m - n) : pre[i] # more[j]
    BY <1>2, <1>3, <1>8 DEF ToSet
  <2>2. ASSUME NEW i \in 1..m, NEW j \in 1..m, both[i] = both[j] PROVE i = j
    <3>1. CASE i \in 1..n /\ j \in 1..n
      BY <1>2, <1>5, <1>8, <2>2, <3>1 DEF IsInjective
    <3>2. CASE i \notin 1..n /\ j \notin 1..n
      <4>1. /\ i - n \in 1..(m - n) /\ both[i] = more[i - n]
            /\ j - n \in 1..(m - n) /\ both[j] = more[j - n]
        BY <1>5, <3>2
      <4>2. i - n = j - n
        BY <1>3, <1>8, <2>2, <4>1 DEF IsInjective
      <4> QED BY <1>1, <4>2
    <3>3. CASE i \in 1..n /\ j \notin 1..n
      <4>1. j - n \in 1..(m - n) /\ both[j] = more[j - n] /\ both[i] = pre[i]
        BY <1>5, <3>3
      <4> QED BY <2>1, <2>2, <3>3, <4>1
    <3>4. CASE i \notin 1..n /\ j \in 1..n
      <4>1. i - n \in 1..(m - n) /\ both[i] = more[i - n] /\ both[j] = pre[j]
        BY <1>5, <3>4
      <4> QED BY <2>1, <2>2, <3>4, <4>1
    <3> QED BY <3>1, <3>2, <3>3, <3>4
  <2> QED BY <1>4, <2>2 DEF IsInjective
<1>9. both # <<>> /\ (pre = <<>> <=> n = 0)
  <2>1. both # <<>>
    <3>1. Len(both) # 0
      BY <1>1, <1>4
    <3> QED BY <3>1, EmptySeq
  <2>2. pre = <<>> => n = 0
    BY <1>2
  <2>3. n = 0 => pre = <<>>
    BY <1>2, EmptySeq
  <2> QED BY <2>1, <2>2, <2>3
<1>10. Joins(both, pre, more)
  BY <1>6, <1>7, <1>8 DEF Joins
<1> QED BY <1>2, <1>3, <1>4, <1>9, <1>10

----------------------------------------------------------------------------
(* What one message makes of a draft                                       *)

(* Every set has the family of its table. *)
OwnFamilies == \A s \in Sets : SetFamily[s] = s[1]

(***************************************************************************)
(* A message does no more than the request says, and is refused only if    *)
(* the request cannot be met.                                              *)
(***************************************************************************)
Does(m, v, r) ==
    /\ Results(v, m) \subseteq Asked!Results(v, r)
    /\ Results(v, m) = {} => Asked!Results(v, r) = {}

TableRequest == [op : Op, what : {"table"}, table : Tables]

(* A message of each kind does what its request says: tables. *)
LEMMA TableDone ==
    ASSUME NEW r \in TableRequest, NEW v
    PROVE  Does(TableMsg(r.table, r.op), v, r)
<1> DEFINE t == r.table
           m == TableMsg(t, r.op)
<1>1. t \in Tables /\ t = <<t[1], t[2]>> /\ r.op \in {"Add", "Del"} /\ r.what = "table"
  BY StoreAssumption DEF TableRequest, Op
<1>2. InTable(m) = t
  BY <1>1 DEF TableMsg, Msg, InTable
<1>3. CASE r.op = "Add"
  <2>1. m.type = "NEWTABLE"
    BY <1>3 DEF TableMsg, Msg
  <2>2. Results(v, m) = NewTable(v, m) /\ Asked!Results(v, r) = Asked!AddTable(v, r)
    BY <1>1, <1>3, <2>1 DEF Results, Asked!Results
  <2>3. NewTable(v, m) = Asked!AddTable(v, r)
    BY <1>2 DEF NewTable, Asked!AddTable
  <2> QED BY <2>2, <2>3 DEF Does
<1>4. CASE r.op = "Del"
  <2>1. m.type = "DELTABLE"
    BY <1>4 DEF TableMsg, Msg
  <2>2. Results(v, m) = DeleteTable(v, m) /\ Asked!Results(v, r) = Asked!DelTable(v, r)
    BY <1>1, <1>4, <2>1 DEF Results, Asked!Results
  <2>3. DeleteTable(v, m) = Asked!DelTable(v, r)
    BY <1>2 DEF DeleteTable, Asked!DelTable, Outside, Asked!Outside, TableOf,
               Asked!TableOf, Restrict, Asked!Restrict
  <2> QED BY <2>2, <2>3 DEF Does
<1> QED BY <1>1, <1>3, <1>4

(* Attributes that are set are found, and no others. *)
LEMMA OptFacts ==
    ASSUME NEW f, NEW x, NEW y
    PROVE  /\ DOMAIN Opt(f, x, y) = IF y = None THEN DOMAIN f ELSE DOMAIN f \cup {x}
           /\ y # None => Opt(f, x, y)[x] = y
           /\ \A z \in DOMAIN f : z # x => Opt(f, x, y)[z] = f[z]
BY DEF Opt, With

ChainRequest ==
    [op : Op, what : {"chain"}, chain : Chains, hook : BOOLEAN, policy : Policies \cup {None}]

ChainMsgOf(r) == ChainMsg(r.chain, r.hook, r.policy, r.op)

(* What the message of a chain says, with the attributes that were set. *)
LEMMA ChainMsgFacts ==
    ASSUME NEW r \in ChainRequest, NEW m, m = ChainMsgOf(r)
    PROVE  /\ r.op = "Add" => m.type = "NEWCHAIN" /\ "CREATE" \in m.flags /\ "EXCL" \notin m.flags
           /\ r.op = "Del" => m.type = "DELCHAIN"
           /\ ChainNamed(m) = r.chain
           /\ InTable(m) = Asked!TableOf(r.chain)
           /\ Has(m, "hook") <=> r.hook
           /\ Has(m, "policy") <=> r.policy # None
           /\ r.policy # None => m.attrs.policy = r.policy
<1> DEFINE c == r.chain
           named == [table |-> c[2], chain |-> c[3]]
           hooked == IF r.hook THEN With(named, "hook", "in") ELSE named
<1>1. /\ c \in Chains /\ c = <<c[1], c[2], c[3]>> /\ r.op \in {"Add", "Del"}
      /\ r.hook \in BOOLEAN
  BY StoreAssumption DEF ChainRequest, Op
<1>2. /\ DOMAIN named = {"table", "chain"} /\ named.table = c[2] /\ named.chain = c[3]
  OBVIOUS
<1> HIDE DEF named
<1>3. /\ DOMAIN hooked = IF r.hook THEN {"table", "chain", "hook"} ELSE {"table", "chain"}
      /\ hooked.table = c[2] /\ hooked.chain = c[3]
  <2>1. CASE r.hook
    <3>1. hooked = With(named, "hook", "in")
      BY <2>1
    <3> QED BY <1>2, <2>1, <3>1 DEF With
  <2>2. CASE ~ r.hook
    BY <1>2, <2>2
  <2> QED BY <2>1, <2>2
<1>4. m = [type |-> IF r.op = "Add" THEN "NEWCHAIN" ELSE "DELCHAIN", family |-> c[1],
           flags |-> ChainFlags(r.op), attrs |-> Opt(hooked, "policy", r.policy)]
  BY DEF ChainMsgOf, ChainMsg, Msg, named
<1> DEFINE a == Opt(hooked, "policy", r.policy)
<1> HIDE DEF hooked
<1>5. /\ DOMAIN a = IF r.policy = None THEN DOMAIN hooked ELSE DOMAIN hooked \cup {"policy"}
      /\ r.policy # None => a.policy = r.policy
      /\ a.table = c[2] /\ a.chain = c[3]
  BY <1>3, OptFacts
<1> HIDE DEF a
<1>6. m.attrs = a /\ m.family = c[1] /\ m.flags = ChainFlags(r.op)
      /\ m.type = IF r.op = "Add" THEN "NEWCHAIN" ELSE "DELCHAIN"
  BY <1>4 DEF a
<1>7. ChainNamed(m) = c /\ InTable(m) = Asked!TableOf(c)
  BY <1>1, <1>5, <1>6 DEF ChainNamed, InTable, Asked!TableOf
<1>8. Has(m, "hook") <=> r.hook
  BY <1>1, <1>3, <1>5, <1>6 DEF Has
<1>9. Has(m, "policy") <=> r.policy # None
  BY <1>1, <1>3, <1>5, <1>6 DEF Has
<1>10. r.op = "Add" => "CREATE" \in m.flags /\ "EXCL" \notin m.flags
  BY <1>6 DEF ChainFlags
<1> QED BY <1>1, <1>5, <1>6, <1>7, <1>8, <1>9, <1>10

(* The parts of a state: a record of functions, of which chains are records. *)
LEMMA StateParts ==
    ASSUME NEW v, IsState(v)
    PROVE  \E T, C, S :
             /\ v = [tables |-> T, chains |-> C, sets |-> S]
             /\ C = [c \in DOMAIN C |-> C[c]]
             /\ S = [s \in DOMAIN S |-> S[s]]
             /\ \A c \in DOMAIN C :
                   /\ C[c] = [base |-> C[c].base, policy |-> C[c].policy, rules |-> C[c].rules]
                   /\ C[c].base \in BOOLEAN
BY DEF IsState

(* Chains: one that exists keeps its rules. *)
LEMMA ChainDone ==
    ASSUME NEW r \in ChainRequest, NEW v, IsState(v)
    PROVE  Does(ChainMsgOf(r), v, r)
<1>0. PICK m : m = ChainMsgOf(r)
  OBVIOUS
<1> SUFFICES Results(v, m) = Asked!Results(v, r)
  BY <1>0 DEF Does
<1>1. /\ r.op = "Add" => m.type = "NEWCHAIN" /\ "CREATE" \in m.flags /\ "EXCL" \notin m.flags
      /\ r.op = "Del" => m.type = "DELCHAIN"
      /\ ChainNamed(m) = r.chain
      /\ InTable(m) = Asked!TableOf(r.chain)
      /\ Has(m, "hook") <=> r.hook
      /\ Has(m, "policy") <=> r.policy # None
      /\ r.policy # None => m.attrs.policy = r.policy
  BY <1>0, ChainMsgFacts
<1>2. r.op \in {"Add", "Del"} /\ r.what = "chain" /\ r.hook \in BOOLEAN
  BY DEF ChainRequest, Op
<1>3. PICK T, C, S :
        /\ v = [tables |-> T, chains |-> C, sets |-> S]
        /\ C = [c \in DOMAIN C |-> C[c]]
        /\ S = [s \in DOMAIN S |-> S[s]]
        /\ \A c \in DOMAIN C :
              /\ C[c] = [base |-> C[c].base, policy |-> C[c].policy, rules |-> C[c].rules]
              /\ C[c].base \in BOOLEAN
  BY StateParts
<1> DEFINE c == r.chain
<1>4. CASE r.op = "Add"
  <2>1. Results(v, m) = NewChain(v, m) /\ Asked!Results(v, r) = Asked!AddChain(v, r)
    BY <1>1, <1>2, <1>4 DEF Results, Asked!Results
  <2>2. CASE InTable(m) \notin T
    <3>1. NewChain(v, m) = {} /\ Asked!AddChain(v, r) = {}
      BY <1>1, <1>3, <2>2 DEF NewChain, Asked!AddChain
    <3> QED BY <2>1, <3>1
  <2>3. CASE InTable(m) \in T /\ c \notin DOMAIN C
    <3> DEFINE old == [base |-> r.hook, policy |-> "accept", rules |-> <<>>]
               policy == IF r.policy = None THEN "accept" ELSE r.policy
               chain == [base |-> r.hook, policy |-> policy, rules |-> <<>>]
    <3>1. NewChain(v, m) = CreateChain(v, m)
      BY <1>1, <1>3, <2>3 DEF NewChain
    <3>2. CreateChain(v, m) =
            IF r.policy # None /\ ~ r.hook THEN {}
            ELSE {[tables |-> T, chains |-> With(C, c, chain), sets |-> S]}
      <4>1. Has(m, "hook") = r.hook
        BY <1>1, <1>2 DEF Has
      <4>2. [base |-> Has(m, "hook"),
             policy |-> IF Has(m, "policy") THEN m.attrs.policy ELSE "accept",
             rules |-> <<>>] = chain
        BY <1>1, <4>1
      <4>3. CreateChain(v, m) = IF Has(m, "policy") /\ ~ Has(m, "hook") THEN {}
                                ELSE {[v EXCEPT !.chains = With(@, c, chain)]}
        BY <1>1, <1>4, <4>2 DEF CreateChain
      <4>4. [v EXCEPT !.chains = With(@, c, chain)] =
              [tables |-> T, chains |-> With(C, c, chain), sets |-> S]
        BY <1>3
      <4> QED BY <1>1, <4>3, <4>4
    <3>3. Asked!AddChain(v, r) =
            IF r.policy # None /\ ~ r.hook THEN {}
            ELSE {[tables |-> T, chains |-> Asked!With(C, c, chain), sets |-> S]}
      <4>1. [old EXCEPT !.policy = policy] = chain /\ old.policy = "accept" /\ old.base = r.hook
        OBVIOUS
      <4>2. v.chains = C /\ v.tables = T
        BY <1>3
      <4>3. Asked!AddChain(v, r) =
              IF (r.hook \/ r.policy # None) /\ ~ r.hook THEN {}
              ELSE {[v EXCEPT !.chains = Asked!With(@, c, chain)]}
        BY <1>1, <2>3, <4>1, <4>2 DEF Asked!AddChain
      <4>4. [v EXCEPT !.chains = Asked!With(@, c, chain)] =
              [tables |-> T, chains |-> Asked!With(C, c, chain), sets |-> S]
        BY <1>3
      <4> QED BY <4>3, <4>4
    <3>4. With(C, c, chain) = Asked!With(C, c, chain)
      BY DEF With, Asked!With
    <3> QED BY <2>1, <3>1, <3>2, <3>3, <3>4
  <2>4. CASE InTable(m) \in T /\ c \in DOMAIN C
    <3> DEFINE policy == IF r.policy = None THEN C[c].policy ELSE r.policy
               chain == [C[c] EXCEPT !.policy = policy]
    <3>1. NewChain(v, m) = UpdateChain(v, m)
      BY <1>1, <1>3, <2>4 DEF NewChain
    <3>2. Asked!AddChain(v, r) =
            IF (r.hook \/ r.policy # None) /\ ~ C[c].base THEN {}
            ELSE {[tables |-> T, chains |-> Asked!With(C, c, chain), sets |-> S]}
      <4>2. v.chains = C /\ v.tables = T
        BY <1>3
      <4>3. Asked!AddChain(v, r) =
              IF (r.hook \/ r.policy # None) /\ ~ C[c].base THEN {}
              ELSE {[v EXCEPT !.chains = Asked!With(@, c, chain)]}
        BY <1>1, <2>4, <4>2 DEF Asked!AddChain
      <4>4. [v EXCEPT !.chains = Asked!With(@, c, chain)] =
              [tables |-> T, chains |-> Asked!With(C, c, chain), sets |-> S]
        BY <1>3
      <4> QED BY <4>3, <4>4
    <3>3. CASE (r.hook \/ r.policy # None) /\ ~ C[c].base
      <4>1. UpdateChain(v, m) = {}
        BY <1>1, <1>2, <1>3, <3>3 DEF UpdateChain
      <4> QED BY <2>1, <3>1, <3>2, <3>3, <4>1
    <3>4. CASE ~ ((r.hook \/ r.policy # None) /\ ~ C[c].base) /\ r.policy # None
      <4>1. UpdateChain(v, m) = {[v EXCEPT !.chains[c].policy = r.policy]}
        BY <1>1, <1>2, <1>3, <1>4, <3>4 DEF UpdateChain
      <4>2. [v EXCEPT !.chains[c].policy = r.policy] =
              [tables |-> T, chains |-> [C EXCEPT ![c] = chain], sets |-> S]
        BY <1>3, <3>4, SMTT(30)
      <4>3. [C EXCEPT ![c] = chain] = Asked!With(C, c, chain)
        BY <1>3, <2>4 DEF Asked!With
      <4> QED BY <2>1, <3>1, <3>2, <3>4, <4>1, <4>2, <4>3
    <3>5. CASE ~ ((r.hook \/ r.policy # None) /\ ~ C[c].base) /\ r.policy = None
      <4>1. UpdateChain(v, m) = {v}
        BY <1>1, <1>2, <1>3, <1>4, <3>5 DEF UpdateChain
      <4>2. chain = C[c]
        BY <1>3, <2>4, <3>5
      <4>3. C = Asked!With(C, c, chain)
        BY <1>3, <2>4, <4>2 DEF Asked!With
      <4>4. [tables |-> T, chains |-> Asked!With(C, c, chain), sets |-> S] = v
        BY <1>3, <4>3
      <4>5. Asked!AddChain(v, r) = {[tables |-> T, chains |-> Asked!With(C, c, chain), sets |-> S]}
        BY <3>2, <3>5
      <4> QED BY <2>1, <3>1, <4>1, <4>4, <4>5
    <3> QED BY <3>3, <3>4, <3>5
  <2> QED BY <2>2, <2>3, <2>4
<1>5. CASE r.op = "Del"
  <2>1. Results(v, m) = DeleteChain(v, m) /\ Asked!Results(v, r) = Asked!DelChain(v, r)
    BY <1>1, <1>2, <1>5 DEF Results, Asked!Results
  <2>2. DeleteChain(v, m) = Asked!DelChain(v, r)
    BY <1>1 DEF DeleteChain, Asked!DelChain, Asked!Without, Restrict, Asked!Restrict
  <2> QED BY <2>1, <2>2
<1> QED BY <1>2, <1>4, <1>5

(* The rules of a state *)

(* A set of numbers up to n that is not empty has a greatest. *)
LEMMA GreatestNumber ==
    ASSUME NEW n \in Nat, NEW S, S \subseteq 0..n, S # {}
    PROVE  Max(S) \in S /\ \A x \in S : x <= Max(S)
<1> DEFINE M == {m \in 0..n : \A x \in S : x <= m}
<1>1. M \subseteq Nat /\ n \in M
  OBVIOUS
<1>2. PICK m \in M : \A l \in M : ~ (<<l, m>> \in OpToRel(<, Nat))
  <2> HIDE DEF M
  <2> QED BY <1>1, NatLessThanWellFounded, WFMin
<1>3. \A l \in M : ~ (l < m)
  <2>1. M \subseteq Nat
    BY <1>1
  <2> HIDE DEF M
  <2> QED BY <1>2, <2>1 DEF OpToRel
<1>4. m \in 0..n /\ \A x \in S : x <= m
  OBVIOUS
<1>5. m \in S
  <2> SUFFICES ASSUME m \notin S PROVE FALSE
    OBVIOUS
  <2>1. PICK x \in S : TRUE
    OBVIOUS
  <2>2. m # 0
    BY <1>4, <2>1
  <2>3. m - 1 \in M
    <3>1. m - 1 \in 0..n
      BY <1>4, <2>2
    <3>2. ASSUME NEW y \in S PROVE y <= m - 1
      <4>1. y <= m /\ y # m /\ y \in 0..n
        BY <1>4
      <4> QED BY <1>4, <4>1
    <3> QED BY <3>1, <3>2
  <2>4. m - 1 < m
    BY <1>4
  <2> HIDE DEF M
  <2> QED BY <1>3, <2>3, <2>4
<1>6. \E x \in S : \A y \in S : x >= y
  BY <1>4, <1>5
<1>7. Max(S) \in S /\ \A y \in S : Max(S) >= y
  BY <1>6 DEF Max
<1> QED BY <1>7

(* netfilter numbers rules from 1 on, without end. *)
AllHandles == Handles = Nat \ {0}

(* What a list holds is what it is a list of. *)
LEMMA ListHolds ==
    ASSUME NEW K, NEW s \in Seq(K)
    PROVE  ToSet(s) \subseteq K
<1>1. DOMAIN s = 1..Len(s) /\ \A i \in 1..Len(s) : s[i] \in K
  BY ElementOfSeq
<1> QED BY <1>1 DEF ToSet

(* The handles of a table's rules are bounded. *)
LEMMA HandlesBounded ==
    ASSUME AllHandles, NEW v, IsState(v), NEW t
    PROVE  /\ Asked!InUse(v, t) = HandlesIn(v, t)
           /\ \E n \in Nat : HandlesIn(v, t) \subseteq 1..n
<1>1. PICK n \in Handles : \A c \in DOMAIN v.chains : v.chains[c].rules \in Seq(1..n)
  BY DEF IsState
<1>2. n \in Nat
  BY <1>1 DEF AllHandles
<1>3. ASSUME NEW c \in DOMAIN v.chains
      PROVE  /\ Asked!ToSet(Asked!RulesOf(v, c)) = ToSet(v.chains[c].rules)
             /\ ToSet(v.chains[c].rules) \subseteq 1..n
  <2>1. v.chains[c].rules \in Seq(1..n)
    BY <1>1
  <2>2. ToSet(v.chains[c].rules) \subseteq 1..n
    BY <2>1, ListHolds
  <2> QED BY <2>2 DEF Asked!ToSet, ToSet, Asked!RulesOf
<1> DEFINE D == {d \in DOMAIN v.chains : TableOf(d) = t}
<1>4. {Asked!ToSet(Asked!RulesOf(v, c)) : c \in D} = {ToSet(v.chains[c].rules) : c \in D}
  BY <1>3
<1>5. Asked!InUse(v, t) = HandlesIn(v, t)
  BY <1>4 DEF Asked!InUse, HandlesIn, Asked!TableOf, TableOf
<1>6. HandlesIn(v, t) \subseteq 1..n
  BY <1>3 DEF HandlesIn
<1> QED BY <1>2, <1>5, <1>6

(* netfilter's next handle is one that no rule has. *)
LEMMA NextHandleIsFresh ==
    ASSUME AllHandles, NEW v, IsState(v), IsState(now), NEW t
    PROVE  NextHandle(v, t) \in Asked!Fresh(v, t)
<1> DEFINE S == {0} \cup HandlesIn(v, t) \cup HandlesIn(now, t)
<1>1. PICK a \in Nat : HandlesIn(v, t) \subseteq 1..a
  BY HandlesBounded
<1>2. PICK b \in Nat : HandlesIn(now, t) \subseteq 1..b
  BY HandlesBounded
<1>3. PICK n \in Nat : a <= n /\ b <= n
  <2>1. a <= a + b /\ b <= a + b /\ a + b \in Nat
    OBVIOUS
  <2> QED BY <2>1
<1>4. S \subseteq 0..n /\ S # {}
  <2>1. 1..a \subseteq 0..n /\ 1..b \subseteq 0..n /\ 0 \in 0..n
    BY <1>3
  <2> QED BY <1>1, <1>2, <2>1
<1>5. /\ NextHandle(v, t) = 1 + Max(S)
      /\ HandlesIn(v, t) \subseteq S /\ HandlesIn(now, t) \subseteq S
  BY DEF NextHandle
<1> HIDE DEF S
<1>6. Max(S) \in 0..n /\ \A x \in S : x <= Max(S)
  BY <1>4, GreatestNumber
<1>7. NextHandle(v, t) \in Nat \ {0} /\ NextHandle(v, t) \notin S
  BY <1>4, <1>5, <1>6
<1>8. NextHandle(v, t) \notin HandlesIn(v, t) \cup HandlesIn(now, t)
  BY <1>5, <1>7
<1> QED BY <1>7, <1>8, HandlesBounded DEF Asked!Fresh, AllHandles

RuleRequest ==
    [op : Op, what : {"rule"}, chain : Chains, behind : Known \cup {None},
     handle : Known \cup {None}]

RuleMsgOf(r) == RuleMsg(r.chain, r.behind, r.handle, r.op)

(* What the message of a rule says, with the attributes that were set. *)
LEMMA RuleMsgFacts ==
    ASSUME NEW r \in RuleRequest, NEW m, m = RuleMsgOf(r)
    PROVE  /\ r.op = "Add" => m.type = "NEWRULE" /\ "APPEND" \in m.flags
           /\ r.op = "Del" => m.type = "DELRULE"
           /\ ChainNamed(m) = r.chain
           /\ InTable(m) = Asked!TableOf(r.chain)
           /\ Has(m, "position") <=> r.behind # None
           /\ r.behind # None => m.attrs.position = r.behind
           /\ Has(m, "handle") <=> r.handle # None
           /\ r.handle # None => m.attrs.handle = r.handle
<1> DEFINE c == r.chain
           named == [table |-> c[2], chain |-> c[3]]
           placed == Opt(named, "position", r.behind)
           a == Opt(placed, "handle", r.handle)
<1>1. c \in Chains /\ c = <<c[1], c[2], c[3]>> /\ r.op \in {"Add", "Del"}
  BY StoreAssumption DEF RuleRequest, Op
<1>2. DOMAIN named = {"table", "chain"} /\ named.table = c[2] /\ named.chain = c[3]
  OBVIOUS
<1>3. m = [type |-> IF r.op = "Add" THEN "NEWRULE" ELSE "DELRULE", family |-> c[1],
           flags |-> RuleFlags(r.op), attrs |-> a]
  BY DEF RuleMsgOf, RuleMsg, Msg
<1> HIDE DEF named
<1>4. /\ DOMAIN placed = IF r.behind = None THEN {"table", "chain"}
                         ELSE {"table", "chain"} \cup {"position"}
      /\ r.behind # None => placed.position = r.behind
      /\ placed.table = c[2] /\ placed.chain = c[3]
  <2>1. /\ DOMAIN placed = IF r.behind = None THEN DOMAIN named ELSE DOMAIN named \cup {"position"}
        /\ r.behind # None => placed["position"] = r.behind
        /\ \A z \in DOMAIN named : z # "position" => placed[z] = named[z]
    BY DEF Opt, With
  <2> HIDE DEF placed
  <2> QED BY <1>2, <2>1
<1> HIDE DEF placed
<1>5. /\ DOMAIN a = IF r.handle = None THEN DOMAIN placed ELSE DOMAIN placed \cup {"handle"}
      /\ r.handle # None => a.handle = r.handle
      /\ r.behind # None => a.position = r.behind
      /\ a.table = c[2] /\ a.chain = c[3]
  <2>1. /\ DOMAIN a = IF r.handle = None THEN DOMAIN placed ELSE DOMAIN placed \cup {"handle"}
        /\ r.handle # None => a["handle"] = r.handle
        /\ \A z \in DOMAIN placed : z # "handle" => a[z] = placed[z]
    BY DEF Opt, With
  <2> HIDE DEF a
  <2> QED BY <1>4, <2>1
<1> HIDE DEF a
<1>6. /\ m.attrs = a /\ m.family = c[1] /\ m.flags = RuleFlags(r.op)
      /\ m.type = IF r.op = "Add" THEN "NEWRULE" ELSE "DELRULE"
  BY <1>3
<1>7. ChainNamed(m) = c /\ InTable(m) = Asked!TableOf(c)
  BY <1>1, <1>5, <1>6 DEF ChainNamed, InTable, Asked!TableOf
<1>8. Has(m, "position") <=> r.behind # None
  BY <1>4, <1>5, <1>6 DEF Has
<1>9. Has(m, "handle") <=> r.handle # None
  BY <1>4, <1>5, <1>6 DEF Has
<1>10. r.op = "Add" => "APPEND" \in m.flags
  BY <1>6 DEF RuleFlags
<1> QED BY <1>1, <1>5, <1>6, <1>7, <1>8, <1>9, <1>10

(* Where a rule with a handle lies in a list, if it is there. *)
PlaceOf(rules, h) == SelectInSeq(rules, LAMBDA x : x = h)

LEMMA PlaceOfRule ==
    ASSUME NEW n, NEW rules \in Seq(1..n), NEW h
    PROVE  /\ Asked!SelectInSeq(rules, LAMBDA x : x = h) = PlaceOf(rules, h)
           /\ PlaceOf(rules, h) = 0 <=> ~ Asked!Contains(rules, h)
           /\ Contains(rules, h) <=> Asked!Contains(rules, h)
           /\ PlaceOf(rules, h) \in 0..Len(rules)
<1> DEFINE I == {i \in 1..Len(rules) : rules[i] = h}
           place == PlaceOf(rules, h)
<1>1. Len(rules) \in Nat
  OBVIOUS
<1>2. Contains(rules, h) <=> I # {}
  BY DEF Contains
<1>3. Asked!Contains(rules, h) <=> I # {}
  BY DEF Asked!Contains
<1>4. place = IF I # {} THEN Min(I) ELSE 0
  BY DEF SelectInSeq, PlaceOf
<1>5. Asked!SelectInSeq(rules, LAMBDA x : x = h) = IF I # {} THEN Min(I) ELSE 0
  BY DEF Asked!SelectInSeq, Asked!Min, Min
<1>6. ASSUME I # {} PROVE Min(I) \in I
  <2>1. I \subseteq Nat
    OBVIOUS
  <2> HIDE DEF I
  <2>2. PICK i \in I : \A j \in I : ~ (<<j, i>> \in OpToRel(<, Nat))
    BY <1>6, <2>1, NatLessThanWellFounded, WFMin
  <2>3. ASSUME NEW j \in I PROVE i <= j
    <3>1. i \in Nat /\ j \in Nat
      BY <2>1
    <3>2. ~ (j < i)
      BY <2>2, <3>1 DEF OpToRel
    <3> QED BY <3>1, <3>2
  <2>4. \E x \in I : \A y \in I : x <= y
    BY <2>3
  <2> QED BY <2>4 DEF Min
<1>7. I \subseteq 1..Len(rules)
  OBVIOUS
<1> HIDE DEF I, place
<1>a. ASSUME I = {} PROVE place = 0 /\ place \in 0..Len(rules)
  BY <1>1, <1>4, <1>a
<1>b. ASSUME I # {} PROVE place # 0 /\ place \in 0..Len(rules)
  <2>1. place \in 1..Len(rules)
    BY <1>4, <1>6, <1>7, <1>b
  <2> QED BY <1>1, <1>b, <2>1
<1>8. place = 0 <=> I = {}
  BY <1>a, <1>b
<1>9. place \in 0..Len(rules)
  BY <1>a, <1>b
<1> QED BY <1>2, <1>3, <1>4, <1>5, <1>8, <1>9 DEF place

(* The two modules speak of the same lists. *)
LEMMA SameListOps ==
    /\ \A s, i, e : InsertAt(s, i, e) = Asked!InsertAt(s, i, e)
    /\ \A s, e : RemoveFirst(s, e) = Asked!RemoveFirst(s, e)
<1>1. \A s, i, e : InsertAt(s, i, e) = Asked!InsertAt(s, i, e)
  BY DEF InsertAt, Asked!InsertAt
<1>2. \A s, e : RemoveFirst(s, e) = Asked!RemoveFirst(s, e)
  BY DEF RemoveFirst, Asked!RemoveFirst, RemoveAt, Asked!RemoveAt, SelectInSeq,
         Asked!SelectInSeq, Min, Asked!Min
<1> QED BY <1>1, <1>2

(* A rule added goes behind the last one, or the one that is named. *)
LEMMA RuleAdded ==
    ASSUME AllHandles, NEW r \in RuleRequest, r.op = "Add", NEW v, IsState(v), IsState(now),
           NEW m, m = RuleMsgOf(r)
    PROVE  /\ NewRule(v, m) \subseteq Asked!AddRule(v, r)
           /\ NewRule(v, m) = {} => Asked!AddRule(v, r) = {}
<1> DEFINE c == r.chain
           rules == v.chains[c].rules
<1>1. /\ "APPEND" \in m.flags
      /\ ChainNamed(m) = c /\ InTable(m) = Asked!TableOf(c)
      /\ Has(m, "position") <=> r.behind # None
      /\ r.behind # None => m.attrs.position = r.behind
      /\ Has(m, "handle") <=> r.handle # None
  BY RuleMsgFacts
<1>2. CASE c \notin DOMAIN v.chains \/ r.handle # None
  BY <1>1, <1>2 DEF NewRule, Asked!AddRule
<1>3. CASE c \in DOMAIN v.chains /\ r.handle = None
  <2> DEFINE t == Asked!TableOf(c)
             h == NextHandle(v, t)
  <2>1. h \in Asked!Fresh(v, t)
    BY NextHandleIsFresh
  <2>2. PICK n : rules \in Seq(1..n)
    BY <1>3 DEF IsState
  <2>3. Asked!RulesOf(v, c) = rules
    BY <1>3 DEF Asked!RulesOf
  <2>4. CASE r.behind = None
    <3> DEFINE new == [v EXCEPT !.chains[c].rules = InsertAt(@, Len(rules) + 1, h)]
    <3>1. NewRule(v, m) = {new}
      BY <1>1, <1>3, <2>4 DEF NewRule, Slot
    <3>2. Asked!AddRule(v, r) =
            {[v EXCEPT !.chains[c].rules = Asked!InsertAt(@, Len(rules) + 1, x)] :
               x \in Asked!Fresh(v, t)}
      BY <1>3, <2>3, <2>4 DEF Asked!AddRule
    <3>3. new \in Asked!AddRule(v, r)
      BY <2>1, <3>2, SameListOps
    <3> QED BY <3>1, <3>3
  <2>5. CASE r.behind # None
    <3> DEFINE place == PlaceOf(rules, r.behind)
               new == [v EXCEPT !.chains[c].rules = InsertAt(@, place + 1, h)]
    <3>1. /\ place = Asked!SelectInSeq(rules, LAMBDA x : x = r.behind)
          /\ place = 0 <=> ~ Asked!Contains(rules, r.behind)
          /\ place \in 0..Len(rules)
      BY <2>2, PlaceOfRule
    <3>2. place + 1 = 1 + place
      BY <2>2, <3>1
    <3>3. NewRule(v, m) = IF place = 0 THEN {} ELSE {new}
      <4>1. SelectInSeq(rules, LAMBDA x : x = m.attrs.position) = place
        BY <1>1, <2>5 DEF PlaceOf, SelectInSeq
      <4>2. NewRule(v, m) =
              IF SelectInSeq(rules, LAMBDA x : x = m.attrs.position) = 0 THEN {}
              ELSE {[v EXCEPT !.chains[c].rules =
                       InsertAt(@, SelectInSeq(rules, LAMBDA x : x = m.attrs.position) + 1, h)]}
        BY <1>1, <1>3, <2>5 DEF NewRule, Slot
      <4> QED BY <4>1, <4>2
    <3>4. Asked!AddRule(v, r) =
            IF ~ Asked!Contains(rules, r.behind) THEN {}
            ELSE {[v EXCEPT !.chains[c].rules =
                     Asked!InsertAt(@, 1 + Asked!SelectInSeq(rules, LAMBDA y : y = r.behind), x)] :
                    x \in Asked!Fresh(v, t)}
      BY <1>3, <2>3, <2>5 DEF Asked!AddRule
    <3> HIDE DEF place
    <3>5. CASE place = 0
      BY <3>1, <3>3, <3>4, <3>5
    <3>6. CASE place # 0
      <4>1. Asked!AddRule(v, r) =
              {[v EXCEPT !.chains[c].rules = Asked!InsertAt(@, place + 1, x)] :
                 x \in Asked!Fresh(v, t)}
        BY <3>1, <3>2, <3>4, <3>6
      <4>2. new \in Asked!AddRule(v, r)
        BY <2>1, <4>1, SameListOps
      <4> QED BY <3>3, <3>6, <4>2
    <3> QED BY <3>5, <3>6
  <2> QED BY <2>4, <2>5
<1> QED BY <1>2, <1>3

(* Rules: their handles are new, their places those that were asked for. *)
LEMMA RuleDone ==
    ASSUME AllHandles, NEW r \in RuleRequest, NEW v, IsState(v), IsState(now)
    PROVE  Does(RuleMsgOf(r), v, r)
<1> DEFINE c == r.chain
           rules == v.chains[c].rules
<1>0. PICK m : m = RuleMsgOf(r)
  OBVIOUS
<1>1. r.op \in {"Add", "Del"} /\ r.what = "rule"
  BY DEF RuleRequest, Op
<1>2. CASE r.op = "Add"
  <2>1. m.type = "NEWRULE"
    BY <1>0, <1>2, RuleMsgFacts
  <2>2. Results(v, m) = NewRule(v, m) /\ Asked!Results(v, r) = Asked!AddRule(v, r)
    BY <1>1, <1>2, <2>1 DEF Results, Asked!Results
  <2> QED BY <1>0, <1>2, <2>2, RuleAdded DEF Does
<1>3. CASE r.op = "Del"
  <2>1. /\ m.type = "DELRULE" /\ ChainNamed(m) = c
        /\ Has(m, "handle") <=> r.handle # None
        /\ r.handle # None => m.attrs.handle = r.handle
    BY <1>0, <1>3, RuleMsgFacts
  <2>2. Results(v, m) = DeleteRule(v, m) /\ Asked!Results(v, r) = Asked!DelRule(v, r)
    BY <1>1, <1>3, <2>1 DEF Results, Asked!Results
  <2>3. CASE c \notin DOMAIN v.chains
    BY <1>0, <2>1, <2>2, <2>3 DEF DeleteRule, Asked!DelRule, Does
  <2>4. CASE c \in DOMAIN v.chains /\ r.handle = None
    <3>1. DeleteRule(v, m) = Asked!DelRule(v, r)
      BY <2>1, <2>4 DEF DeleteRule, Asked!DelRule
    <3> QED BY <1>0, <2>2, <3>1 DEF Does
  <2>5. CASE c \in DOMAIN v.chains /\ r.handle # None
    <3>1. PICK n : rules \in Seq(1..n)
      BY <2>5 DEF IsState
    <3>2. Contains(rules, r.handle) <=> Asked!Contains(rules, r.handle)
      BY <3>1, PlaceOfRule
    <3>3. Asked!RulesOf(v, c) = rules
      BY <2>5 DEF Asked!RulesOf
    <3>4. DeleteRule(v, m) =
            IF ~ Contains(rules, r.handle) THEN {}
            ELSE {[v EXCEPT !.chains[c].rules = RemoveFirst(rules, r.handle)]}
      BY <2>1, <2>5 DEF DeleteRule
    <3>5. Asked!DelRule(v, r) =
            IF ~ Asked!Contains(rules, r.handle) THEN {}
            ELSE {[v EXCEPT !.chains[c].rules = Asked!RemoveFirst(rules, r.handle)]}
      BY <2>5, <3>3 DEF Asked!DelRule
    <3> QED BY <1>0, <2>2, <3>2, <3>4, <3>5, SameListOps DEF Does
  <2> QED BY <2>3, <2>4, <2>5
<1> QED BY <1>1, <1>2, <1>3
----------------------------------------------------------------------------
(* Sets and their elements                                                 *)

SetRequest == [op : Op, what : {"set"}, set : Sets]

(* Sets. *)
LEMMA SetDone ==
    ASSUME NEW r \in SetRequest, NEW v, IsState(v)
    PROVE  Does(SetMsg(r.set, r.op), v, r)
<1> DEFINE s == r.set
           m == SetMsg(s, r.op)
<1>1. s \in Sets /\ s = <<s[1], s[2], s[3]>> /\ r.op \in {"Add", "Del"} /\ r.what = "set"
  BY StoreAssumption DEF SetRequest, Op
<1>2. /\ SetNamed(m) = s /\ InTable(m) = Asked!TableOf(s)
      /\ "CREATE" \in m.flags /\ "EXCL" \notin m.flags
  BY <1>1 DEF SetMsg, Msg, InTable, SetNamed, Asked!TableOf
<1>3. CASE r.op = "Add"
  <2>1. m.type = "NEWSET"
    BY <1>3 DEF SetMsg, Msg
  <2>2. Results(v, m) = NewNfSet(v, m) /\ Asked!Results(v, r) = Asked!AddSet(v, r)
    BY <1>1, <1>3, <2>1 DEF Results, Asked!Results
  <2>3. NewNfSet(v, m) = Asked!AddSet(v, r)
    BY <1>2 DEF NewNfSet, Asked!AddSet, With, Asked!With
  <2> QED BY <2>2, <2>3 DEF Does
<1>4. CASE r.op = "Del"
  <2>1. m.type = "DELSET"
    BY <1>4 DEF SetMsg, Msg
  <2>2. Results(v, m) = DeleteSet(v, m) /\ Asked!Results(v, r) = Asked!DelSet(v, r)
    BY <1>1, <1>4, <2>1 DEF Results, Asked!Results
  <2>3. DeleteSet(v, m) = Asked!DelSet(v, r)
    BY <1>2 DEF DeleteSet, Asked!DelSet, Asked!Without, Restrict, Asked!Restrict
  <2> QED BY <2>2, <2>3 DEF Does
<1> QED BY <1>1, <1>3, <1>4

ContentsRequest == [op : {"Del"}, what : {"contents"}, set : Sets]

(* A flush without a list. *)
FlushAll(s) == Msg("DELSETELEM", SetFamily[s], {"ACK"}, [table |-> s[2], set |-> s[3]])

(* Flushes of a set. *)
LEMMA ContentsDone ==
    ASSUME OwnFamilies, NEW r \in ContentsRequest, NEW v, IsState(v)
    PROVE  Does(FlushAll(r.set), v, r)
<1> DEFINE s == r.set
           m == FlushAll(s)
<1>1. s \in Sets /\ s = <<s[1], s[2], s[3]>> /\ SetFamily[s] = s[1] /\ r.what = "contents"
  BY StoreAssumption DEF ContentsRequest, OwnFamilies
<1>2. SetNamed(m) = s /\ m.type = "DELSETELEM" /\ ~ Has(m, "elements")
  BY <1>1 DEF FlushAll, Msg, SetNamed, Has
<1>3. Results(v, m) = DeleteElems(v, m) /\ Asked!Results(v, r) = Asked!EmptySet(v, r)
  BY <1>1, <1>2 DEF Results, Asked!Results
<1>4. DeleteElems(v, m) = Asked!EmptySet(v, r)
  BY <1>2 DEF DeleteElems, Asked!EmptySet
<1> QED BY <1>3, <1>4 DEF Does

ElemsRequest == [op : Op, what : {"elements"}, set : Sets, keys : Seq(Keys)]

(* What a request for elements makes of a set X, if it can be met. *)
Met(op, keys, X) ==
    /\ IsInjective(keys)
    /\ IF op = "Add" THEN ToSet(keys) \cap X = {} ELSE ToSet(keys) \subseteq X

Made(op, keys, X) == IF op = "Add" THEN X \cup ToSet(keys) ELSE X \ ToSet(keys)

(* What Inventory makes of a request for elements. *)
LEMMA ElemsAsked ==
    ASSUME NEW r \in ElemsRequest, NEW v
    PROVE  Asked!Results(v, r) =
             IF r.keys = <<>> THEN {v}
             ELSE IF r.set \in DOMAIN v.sets /\ Met(r.op, r.keys, v.sets[r.set])
             THEN {[v EXCEPT !.sets[r.set] = Made(r.op, r.keys, v.sets[r.set])]}
             ELSE {}
<1>1. r.op \in {"Add", "Del"} /\ r.what = "elements"
  BY DEF ElemsRequest, Op
<1>2. /\ Asked!IsInjective(r.keys) <=> IsInjective(r.keys)
      /\ Asked!ToSet(r.keys) = ToSet(r.keys)
  BY DEF Asked!IsInjective, IsInjective, Asked!ToSet, ToSet
<1>3. CASE r.op = "Add"
  <2>1. Asked!Results(v, r) = Asked!AddElems(v, r)
    BY <1>1, <1>3 DEF Asked!Results
  <2> QED BY <1>2, <1>3, <2>1 DEF Asked!AddElems, Met, Made
<1>4. CASE r.op = "Del"
  <2>1. Asked!Results(v, r) = Asked!DelElems(v, r)
    BY <1>1, <1>4 DEF Asked!Results
  <2> QED BY <1>2, <1>4, <2>1 DEF Asked!DelElems, Met, Made
<1> QED BY <1>1, <1>3, <1>4

(* A message that adds or deletes a list of elements. *)
Lists(m, op, s, keys) ==
    /\ Has(m, "elements") /\ m.attrs.elements = keys /\ SetNamed(m) = s
    /\ op = "Add" => m.type = "NEWSETELEM" /\ "EXCL" \in m.flags
    /\ op = "Del" => m.type = "DELSETELEM"

(* What netfilter makes of it. *)
LEMMA ElemsPerformed ==
    ASSUME OwnFamilies, NEW s \in Sets, NEW op \in Op, NEW keys \in Seq(Keys), NEW v,
           NEW m, Lists(m, op, s, keys)
    PROVE  Results(v, m) =
             IF s \in DOMAIN v.sets /\ Met(op, keys, v.sets[s])
             THEN {[v EXCEPT !.sets[s] = Made(op, keys, v.sets[s])]}
             ELSE {}
<1>1. op \in {"Add", "Del"} /\ SetNamed(m) = s /\ Has(m, "elements") /\ m.attrs.elements = keys
  BY DEF Op, Lists
<1>2. CASE op = "Add"
  <2>0. m.type = "NEWSETELEM" /\ "EXCL" \in m.flags
    BY <1>2 DEF Lists
  <2>1. Results(v, m) = NewElems(v, m)
    BY <2>0 DEF Results
  <2>2. NewElems(v, m) =
          IF s \notin DOMAIN v.sets THEN {}
          ELSE IF Cardinality(ToSet(keys) \ v.sets[s]) < Len(keys) THEN {}
          ELSE {[v EXCEPT !.sets[s] = @ \cup (ToSet(keys) \ v.sets[s])]}
    BY <1>1, <2>0 DEF NewElems
  <2>3. Cardinality(ToSet(keys) \ v.sets[s]) < Len(keys)
          <=> ~ (IsInjective(keys) /\ ToSet(keys) \cap v.sets[s] = {})
    BY AllAreNew
  <2>4. v.sets[s] \cup (ToSet(keys) \ v.sets[s]) = v.sets[s] \cup ToSet(keys)
    OBVIOUS
  <2> QED BY <1>2, <2>1, <2>2, <2>3, <2>4 DEF Met, Made
<1>3. CASE op = "Del"
  <2>1. Results(v, m) = DeleteElems(v, m)
    <3>1. m.type = "DELSETELEM"
      BY <1>3 DEF Lists
    <3> QED BY <3>1 DEF Results
  <2>2. DeleteElems(v, m) =
          IF s \notin DOMAIN v.sets THEN {}
          ELSE IF Cardinality(ToSet(keys) \cap v.sets[s]) < Len(keys) THEN {}
          ELSE {[v EXCEPT !.sets[s] = @ \ (ToSet(keys) \cap v.sets[s])]}
    BY <1>1 DEF DeleteElems
  <2>3. Cardinality(ToSet(keys) \cap v.sets[s]) < Len(keys)
          <=> ~ (IsInjective(keys) /\ ToSet(keys) \subseteq v.sets[s])
    BY AllAreThere
  <2>4. v.sets[s] \ (ToSet(keys) \cap v.sets[s]) = v.sets[s] \ ToSet(keys)
    OBVIOUS
  <2> QED BY <1>3, <2>1, <2>2, <2>3, <2>4 DEF Met, Made
<1> QED BY <1>1, <1>2, <1>3

(* Keys added or deleted in two lists are those of one. *)
LEMMA MetInTwo ==
    ASSUME NEW op \in Op, NEW X, NEW pre, NEW more, NEW both,
           Joins(both, pre, more)
    PROVE  /\ Met(op, both, X) <=> Met(op, pre, X) /\ Met(op, more, Made(op, pre, X))
           /\ Made(op, both, X) = Made(op, more, Made(op, pre, X))
BY DEF Met, Made, Op, Joins

LEMMA KeysJoin ==
    ASSUME NEW keys \in Seq(Keys), NEW n \in 0..Len(keys), NEW m \in (n + 1)..Len(keys)
    PROVE  /\ Joins(SubSeq(keys, 1, m), SubSeq(keys, 1, n), SubSeq(keys, n + 1, m))
           /\ SubSeq(keys, n + 1, m) \in Seq(Keys) /\ SubSeq(keys, 1, m) # <<>>
           /\ SubSeq(keys, 1, n) = <<>> <=> n = 0
<1>1. PICK pre, more, both : /\ pre = SubSeq(keys, 1, n) /\ more = SubSeq(keys, n + 1, m)
                             /\ both = SubSeq(keys, 1, m)
  OBVIOUS
<1>2. /\ Joins(both, pre, more) /\ more \in Seq(Keys) /\ both # <<>>
      /\ pre = <<>> <=> n = 0
  BY <1>1, PrefixGrows, ZenonT(40)
<1>3. /\ Joins(SubSeq(keys, 1, m), SubSeq(keys, 1, n), SubSeq(keys, n + 1, m))
      /\ SubSeq(keys, n + 1, m) \in Seq(Keys) /\ SubSeq(keys, 1, m) # <<>>
  BY <1>1, <1>2
<1>4. SubSeq(keys, 1, n) = <<>> <=> n = 0
  BY <1>1, <1>2
<1> QED BY <1>3, <1>4

LEMMA SetReplaced ==
    ASSUME NEW T, NEW C, NEW S, NEW s, NEW Y, NEW v, v = [tables |-> T, chains |-> C, sets |-> S]
    PROVE  [v EXCEPT !.sets[s] = Y]
             = [tables |-> T, chains |-> C, sets |-> [S EXCEPT ![s] = Y]]
OBVIOUS

(* A request for the first n keys of another. *)
Part(r, n) == [op |-> r.op, what |-> "elements", set |-> r.set, keys |-> SubSeq(r.keys, 1, n)]

LEMMA PartFacts ==
    ASSUME NEW r \in ElemsRequest
    PROVE  /\ \A n \in 0..Len(r.keys) :
                /\ Part(r, n) \in ElemsRequest
                /\ Part(r, n).keys = SubSeq(r.keys, 1, n)
                /\ Part(r, n).set = r.set /\ Part(r, n).op = r.op
           /\ Part(r, Len(r.keys)) = r
<1>1. /\ r = [op |-> r.op, what |-> r.what, set |-> r.set, keys |-> r.keys]
      /\ r.op \in Op /\ r.what = "elements" /\ r.set \in Sets /\ r.keys \in Seq(Keys)
  BY DEF ElemsRequest
<1>2. \A n \in 0..Len(r.keys) : SubSeq(r.keys, 1, n) \in Seq(Keys)
  BY <1>1
<1>3. SubSeq(r.keys, 1, Len(r.keys)) = r.keys
  BY <1>1
<1> QED BY <1>1, <1>2, <1>3 DEF Part, ElemsRequest

(* If the first m keys cannot be added or deleted, all of them cannot. *)
LEMMA PartRefused ==
    ASSUME NEW r \in ElemsRequest, NEW v, NEW m \in 1..Len(r.keys),
           Asked!Results(v, Part(r, m)) = {}
    PROVE  Asked!Results(v, r) = {}
<1> DEFINE keys == r.keys
           s == r.set
<1>1. r.op \in Op /\ keys \in Seq(Keys) /\ Len(keys) \in Nat
  BY DEF ElemsRequest
<1>2. CASE m = Len(keys)
  BY <1>2, PartFacts
<1>3. CASE m # Len(keys)
  <2>1. m \in 0..Len(keys) /\ Len(keys) \in (m + 1)..Len(keys) /\ m # 0
    BY <1>1, <1>3
  <2>2. PICK pre, more : pre = SubSeq(keys, 1, m) /\ more = SubSeq(keys, m + 1, Len(keys))
    OBVIOUS
  <2>3. keys = SubSeq(keys, 1, Len(keys))
    BY <1>1
  <2>4. /\ keys # <<>> /\ (pre = <<>> <=> m = 0)
        /\ Joins(keys, pre, more)
    <3> HIDE DEF keys
    <3>1. /\ Joins(SubSeq(keys, 1, Len(keys)), SubSeq(keys, 1, m), SubSeq(keys, m + 1, Len(keys)))
          /\ SubSeq(keys, 1, Len(keys)) # <<>>
          /\ SubSeq(keys, 1, m) = <<>> <=> m = 0
      BY <1>1, <2>1, KeysJoin
    <3> QED BY <2>2, <2>3, <3>1
  <2>5. Part(r, m) \in ElemsRequest /\ Part(r, m).keys = pre /\ Part(r, m).set = s
        /\ Part(r, m).op = r.op
    BY <2>1, <2>2, PartFacts
  <2>6. ~ (s \in DOMAIN v.sets /\ Met(r.op, pre, v.sets[s]))
    BY <2>1, <2>4, <2>5, ElemsAsked
  <2>7. Met(r.op, keys, v.sets[s]) => Met(r.op, pre, v.sets[s])
    BY <1>1, <2>4, MetInTwo
  <2> QED BY <2>4, <2>6, <2>7, ElemsAsked
<1> QED BY <1>2, <1>3

(* A message with the keys of a request from n + 1 to m. *)
ListsPart(msg, r, n, m) ==
    /\ r \in ElemsRequest /\ n \in 0..Len(r.keys) /\ m \in (n + 1)..Len(r.keys)
    /\ Lists(msg, r.op, r.set, SubSeq(r.keys, n + 1, m))

(***************************************************************************)
(* Such a message, after messages that did what was asked of the first n,  *)
(* does what is asked of the first m.                                      *)
(***************************************************************************)
LEMMA ElemsStep ==
    ASSUME OwnFamilies, NEW r, NEW n, NEW m, NEW msg, ListsPart(msg, r, n, m),
           NEW v, IsState(v), NEW u \in Asked!Results(v, Part(r, n))
    PROVE  /\ Results(u, msg) = Asked!Results(v, Part(r, m))
           /\ Results(u, msg) = {} => Asked!Results(v, r) = {}
<1> DEFINE s == r.set
           keys == r.keys
<1>0. /\ r \in ElemsRequest /\ n \in 0..Len(keys) /\ m \in (n + 1)..Len(keys)
      /\ Lists(msg, r.op, s, SubSeq(keys, n + 1, m))
  BY DEF ListsPart
<1>1. r.op \in Op /\ keys \in Seq(Keys) /\ Len(keys) \in Nat /\ s \in Sets
  BY <1>0 DEF ElemsRequest
<1>2. /\ m \in 1..Len(keys) /\ m \in 0..Len(keys)
      /\ n \in 0..Len(keys) /\ m \in (n + 1)..Len(keys)
  BY <1>0, <1>1
<1>3. PICK pre, more, both : /\ pre = SubSeq(keys, 1, n) /\ more = SubSeq(keys, n + 1, m)
                             /\ both = SubSeq(keys, 1, m)
  OBVIOUS
<1>4. /\ more \in Seq(Keys) /\ both # <<>>
      /\ Joins(both, pre, more)
      /\ pre = <<>> <=> n = 0
  <2> HIDE DEF keys
  <2>1. /\ Joins(SubSeq(keys, 1, m), SubSeq(keys, 1, n), SubSeq(keys, n + 1, m))
        /\ SubSeq(keys, n + 1, m) \in Seq(Keys) /\ SubSeq(keys, 1, m) # <<>>
        /\ SubSeq(keys, 1, n) = <<>> <=> n = 0
    BY <1>1, <1>2, KeysJoin
  <2> QED BY <1>3, <2>1
<1>5. \A X : /\ Met(r.op, both, X) <=> Met(r.op, pre, X) /\ Met(r.op, more, Made(r.op, pre, X))
            /\ Made(r.op, both, X) = Made(r.op, more, Made(r.op, pre, X))
  BY <1>1, <1>4, MetInTwo
<1>6. /\ Part(r, n) \in ElemsRequest /\ Part(r, n).keys = pre /\ Part(r, n).set = s
      /\ Part(r, n).op = r.op
      /\ Part(r, m) \in ElemsRequest /\ Part(r, m).keys = both /\ Part(r, m).set = s
      /\ Part(r, m).op = r.op
  BY <1>0, <1>2, <1>3, PartFacts
<1>7. Results(u, msg) =
         IF s \in DOMAIN u.sets /\ Met(r.op, more, u.sets[s])
         THEN {[u EXCEPT !.sets[s] = Made(r.op, more, u.sets[s])]}
         ELSE {}
  <2>1. Lists(msg, r.op, s, more) /\ more \in Seq(Keys)
    BY <1>0, <1>3, <1>4
  <2> HIDE DEF s
  <2> QED BY <1>1, <2>1, ElemsPerformed
<1>8. Asked!Results(v, Part(r, n)) =
             IF pre = <<>> THEN {v}
             ELSE IF s \in DOMAIN v.sets /\ Met(r.op, pre, v.sets[s])
             THEN {[v EXCEPT !.sets[s] = Made(r.op, pre, v.sets[s])]}
             ELSE {}
  BY <1>6, ElemsAsked
<1>9. Asked!Results(v, Part(r, m)) =
             IF s \in DOMAIN v.sets /\ Met(r.op, both, v.sets[s])
             THEN {[v EXCEPT !.sets[s] = Made(r.op, both, v.sets[s])]}
             ELSE {}
  BY <1>4, <1>6, ElemsAsked
<1>10. PICK T, C, S : v = [tables |-> T, chains |-> C, sets |-> S] /\ S = [x \in DOMAIN S |-> S[x]]
  BY StateParts
<1>a. v = [tables |-> T, chains |-> C, sets |-> S]
  BY <1>10
<1> HIDE DEF s
<1>11. CASE s \notin DOMAIN S
  <2>1. u = v
    BY <1>8, <1>10, <1>11
  <2> QED BY <1>7, <1>9, <1>10, <1>11, <2>1, <1>0, <1>2, PartRefused
<1>12. CASE s \in DOMAIN S
  <2> DEFINE X == S[s]
             U == [x \in DOMAIN S |-> IF x = s THEN Made(r.op, pre, X) ELSE S[x]]
  <2>1. u = [tables |-> T, chains |-> C, sets |-> U] /\ Met(r.op, pre, X)
    <3>1. CASE pre = <<>>
      <4>1. u = v
        BY <1>8, <3>1
      <4>2. ToSet(pre) = {} /\ IsInjective(pre)
        BY <3>1 DEF ToSet, IsInjective
      <4>3. Met(r.op, pre, X) /\ Made(r.op, pre, X) = X
        BY <4>2 DEF Met, Made
      <4>4. U = S
        BY <1>10, <4>3
      <4> QED BY <1>10, <4>1, <4>3, <4>4
    <3>2. CASE pre # <<>>
      <4>1. Met(r.op, pre, X) /\ u = [v EXCEPT !.sets[s] = Made(r.op, pre, X)]
        BY <1>8, <1>10, <1>12, <3>2
      <4>2. [v EXCEPT !.sets[s] = Made(r.op, pre, X)]
              = [tables |-> T, chains |-> C, sets |-> [S EXCEPT ![s] = Made(r.op, pre, X)]]
        BY <1>a
      <4>3. [S EXCEPT ![s] = Made(r.op, pre, X)] = U
        OBVIOUS
      <4> QED BY <4>1, <4>2, <4>3
    <3> QED BY <3>1, <3>2
  <2>2. s \in DOMAIN u.sets /\ u.sets[s] = Made(r.op, pre, X)
    BY <1>12, <2>1
  <2>3. Results(u, msg) = IF Met(r.op, more, Made(r.op, pre, X))
                          THEN {[u EXCEPT !.sets[s] = Made(r.op, more, Made(r.op, pre, X))]}
                          ELSE {}
    BY <1>7, <2>2
  <2>4. Asked!Results(v, Part(r, m)) =
          IF Met(r.op, more, Made(r.op, pre, X))
          THEN {[v EXCEPT !.sets[s] = Made(r.op, more, Made(r.op, pre, X))]}
          ELSE {}
    <3>1. v.sets = S
      BY <1>10
    <3>2. Met(r.op, both, X) <=> Met(r.op, more, Made(r.op, pre, X))
      BY <1>5, <2>1
    <3>3. Made(r.op, both, X) = Made(r.op, more, Made(r.op, pre, X))
      BY <1>5
    <3> QED BY <1>9, <1>12, <3>1, <3>2, <3>3
  <2>5. \A Y : [u EXCEPT !.sets[s] = Y] = [v EXCEPT !.sets[s] = Y]
    <3> SUFFICES ASSUME NEW Y PROVE [u EXCEPT !.sets[s] = Y] = [v EXCEPT !.sets[s] = Y]
      OBVIOUS
    <3>1. [u EXCEPT !.sets[s] = Y] = [tables |-> T, chains |-> C, sets |-> [U EXCEPT ![s] = Y]]
      <4>1. u = [tables |-> T, chains |-> C, sets |-> U]
        BY <2>1
      <4> HIDE DEF U
      <4> QED BY <4>1
    <3>2. [v EXCEPT !.sets[s] = Y] = [tables |-> T, chains |-> C, sets |-> [S EXCEPT ![s] = Y]]
      BY <1>a
    <3>3. [U EXCEPT ![s] = Y] = [S EXCEPT ![s] = Y]
      OBVIOUS
    <3> QED BY <3>1, <3>2, <3>3
  <2>6. Results(u, msg) = Asked!Results(v, Part(r, m))
    BY <2>3, <2>4, <2>5
  <2> QED BY <1>0, <1>2, <2>6, PartRefused
<1> QED BY <1>11, <1>12

(* The messages of elems_iter() and, unless the handle is empty, of a flush. *)
LEMMA ElemsMsgLists ==
    ASSUME OwnFamilies, NEW s \in Sets, NEW op \in Op, NEW keys
    PROVE  Lists(ElemsMsg(s, keys, op), op, s, keys)
<1> DEFINE m == ElemsMsg(s, keys, op)
<1>1. s = <<s[1], s[2], s[3]>> /\ SetFamily[s] = s[1]
  BY StoreAssumption DEF OwnFamilies
<1>2. /\ m.type = IF op = "Add" THEN "NEWSETELEM" ELSE "DELSETELEM"
      /\ m.family = s[1] /\ m.flags = ElemFlags(op)
      /\ m.attrs = [table |-> s[2], set |-> s[3], elements |-> keys]
  BY <1>1 DEF ElemsMsg, Msg
<1> HIDE DEF m
<1>3. Has(m, "elements") /\ m.attrs.elements = keys /\ SetNamed(m) = s
  BY <1>1, <1>2 DEF Has, SetNamed
<1>4. op = "Add" => m.type = "NEWSETELEM" /\ "EXCL" \in m.flags
  BY <1>2 DEF ElemFlags
<1>5. op = "Del" => m.type = "DELSETELEM"
  BY <1>2
<1> QED BY <1>3, <1>4, <1>5 DEF Lists, m

LEMMA FlushMsgLists ==
    ASSUME OwnFamilies, NEW s \in Sets, local[s] # <<>>
    PROVE  Lists(FlushMsg(s), "Del", s, local[s])
<1> DEFINE m == FlushMsg(s)
           named == [table |-> s[2], set |-> s[3]]
           a == With(named, "elements", local[s])
<1>1. s = <<s[1], s[2], s[3]>> /\ SetFamily[s] = s[1]
  BY StoreAssumption DEF OwnFamilies
<1>2. m.type = "DELSETELEM" /\ m.family = s[1] /\ m.attrs = a
  BY <1>1 DEF FlushMsg, Msg
<1>3. "elements" \in DOMAIN a /\ a.elements = local[s] /\ a.table = s[2] /\ a.set = s[3]
  BY DEF With
<1> HIDE DEF m, a
<1>4. Has(m, "elements") /\ m.attrs.elements = local[s] /\ SetNamed(m) = s
  BY <1>1, <1>2, <1>3 DEF Has, SetNamed
<1> QED BY <1>2, <1>4 DEF Lists, m

(* A flush through an empty handle is one without a list. *)
LEMMA FlushMsgAll ==
    ASSUME NEW s \in Sets, local[s] = <<>>
    PROVE  FlushMsg(s) = FlushAll(s)
BY DEF FlushMsg, FlushAll

(* The message of a request that takes one. *)
One(r, m) ==
    \/ r \in TableRequest /\ m = TableMsg(r.table, r.op)
    \/ r \in ChainRequest /\ m = ChainMsgOf(r)
    \/ r \in RuleRequest /\ m = RuleMsgOf(r)
    \/ r \in SetRequest /\ m = SetMsg(r.set, r.op)
    \/ r \in ContentsRequest /\ m = FlushAll(r.set)

(* Requests of one message, whatever they are. *)
LEMMA OneDone ==
    ASSUME AllHandles, OwnFamilies, NEW v, IsState(v), IsState(now), NEW r, NEW m, One(r, m)
    PROVE  Does(m, v, r)
BY TableDone, ChainDone, RuleDone, SetDone, ContentsDone DEF One

----------------------------------------------------------------------------
(* Messages keep a state one                                               *)

Types == {"NEWTABLE", "DELTABLE", "NEWCHAIN", "DELCHAIN", "NEWRULE", "DELRULE", "NEWSET",
          "DELSET", "NEWSETELEM", "DELSETELEM"}

LEMMA OneTyped ==
    ASSUME NEW r, NEW m, One(r, m)
    PROVE  m.type \in Types
<1>1. CASE r \in TableRequest /\ m = TableMsg(r.table, r.op)
  BY <1>1 DEF TableMsg, Msg, Types
<1>2. CASE r \in ChainRequest /\ m = ChainMsgOf(r)
  BY <1>2, ChainMsgFacts DEF Types, ChainRequest, Op
<1>3. CASE r \in RuleRequest /\ m = RuleMsgOf(r)
  BY <1>3, RuleMsgFacts DEF Types, RuleRequest, Op
<1>4. CASE r \in SetRequest /\ m = SetMsg(r.set, r.op)
  BY <1>4 DEF SetMsg, Msg, Types
<1>5. CASE r \in ContentsRequest /\ m = FlushAll(r.set)
  BY <1>5 DEF FlushAll, Msg, Types
<1> QED BY <1>1, <1>2, <1>3, <1>4, <1>5 DEF One

LEMMA ListTyped ==
    ASSUME NEW op \in Op, NEW s, NEW keys, NEW m, Lists(m, op, s, keys)
    PROVE  m.type \in Types
BY DEF Lists, Types, Op

(* Lists of rules stay such lists. *)
LEMMA InsertAtType ==
    ASSUME NEW K, NEW s \in Seq(K), NEW i \in 1..(Len(s) + 1), NEW e \in K
    PROVE  InsertAt(s, i, e) \in Seq(K)
BY DEF InsertAt

LEMMA RemoveAtType ==
    ASSUME NEW K, NEW s \in Seq(K), NEW i \in 1..Len(s)
    PROVE  RemoveAt(s, i) \in Seq(K)
BY DEF RemoveAt

LEMMA RemoveFirstType ==
    ASSUME NEW n, NEW s \in Seq(1..n), NEW e
    PROVE  RemoveFirst(s, e) \in Seq(1..n)
<1> DEFINE place == PlaceOf(s, e)
<1>1. place \in 0..Len(s) /\ (place = 0 <=> ~ Contains(s, e))
  BY PlaceOfRule
<1>2. RemoveFirst(s, e) = IF Contains(s, e) THEN RemoveAt(s, place) ELSE s
  BY DEF RemoveFirst, Contains, PlaceOf
<1>3. ASSUME NEW i \in 1..Len(s) PROVE RemoveAt(s, i) \in Seq(1..n)
  BY RemoveAtType
<1>4. Len(s) \in Nat
  OBVIOUS
<1> HIDE DEF place
<1>5. CASE Contains(s, e)
  <2>1. place \in 1..Len(s)
    BY <1>1, <1>4, <1>5
  <2> QED BY <1>2, <1>3, <1>5, <2>1
<1>6. CASE ~ Contains(s, e)
  BY <1>2, <1>6
<1> QED BY <1>5, <1>6

GoodChain(chain, n) ==
    /\ chain = [base |-> chain.base, policy |-> chain.policy, rules |-> chain.rules]
    /\ chain.base \in BOOLEAN
    /\ chain.rules \in Seq(1..n)

GoodChains(C, n) ==
    /\ C = [c \in DOMAIN C |-> C[c]]
    /\ \A c \in DOMAIN C : GoodChain(C[c], n)

LEMMA GoodParts ==
    ASSUME NEW v, IsState(v)
    PROVE  \E T, C, S, n :
             /\ v = [tables |-> T, chains |-> C, sets |-> S]
             /\ S = [s \in DOMAIN S |-> S[s]]
             /\ n \in Handles /\ GoodChains(C, n)
<1>1. PICK n \in Handles : \A c \in DOMAIN v.chains : GoodChain(v.chains[c], n)
  BY DEF IsState, GoodChain
<1>2. GoodChains(v.chains, n)
  BY <1>1 DEF IsState, GoodChains
<1>3. v = [tables |-> v.tables, chains |-> v.chains, sets |-> v.sets]
      /\ v.sets = [s \in DOMAIN v.sets |-> v.sets[s]]
  BY DEF IsState
<1> QED BY <1>1, <1>2, <1>3

LEMMA GoodState ==
    ASSUME NEW T, NEW C, NEW S, NEW n \in Handles, GoodChains(C, n),
           S = [s \in DOMAIN S |-> S[s]]
    PROVE  IsState([tables |-> T, chains |-> C, sets |-> S])
<1> DEFINE v == [tables |-> T, chains |-> C, sets |-> S]
<1>1. v.tables = T /\ v.chains = C /\ v.sets = S /\ v = [tables |-> T, chains |-> C, sets |-> S]
  OBVIOUS
<1> HIDE DEF v
<1>2. \A c \in DOMAIN C : GoodChain(C[c], n) /\ C = [d \in DOMAIN C |-> C[d]]
  BY DEF GoodChains
<1>3. v.chains = [d \in DOMAIN v.chains |-> v.chains[d]]
  BY <1>1 DEF GoodChains
<1> QED BY <1>1, <1>2, <1>3 DEF IsState, GoodChain, v

LEMMA ChainsGrow ==
    ASSUME NEW C, NEW n \in Nat, NEW k \in Nat, n <= k, GoodChains(C, n)
    PROVE  GoodChains(C, k)
<1>1. 1..n \subseteq 1..k
  OBVIOUS
<1>2. \A s \in Seq(1..n) : s \in Seq(1..k)
  <2>1. \A K, L : K \subseteq L => \A s \in Seq(K) : s \in Seq(L)
    OBVIOUS
  <2> QED BY <1>1, <2>1
<1> QED BY <1>2 DEF GoodChains, GoodChain

LEMMA ChainsLeft ==
    ASSUME NEW C, NEW n, GoodChains(C, n), NEW X, X \subseteq DOMAIN C
    PROVE  GoodChains(Restrict(C, X), n)
<1>1. Restrict(C, X) = [c \in X |-> C[c]]
  BY DEF Restrict
<1>2. \A c \in X : GoodChain(C[c], n)
  BY DEF GoodChains
<1> QED BY <1>1, <1>2 DEF GoodChains

LEMMA ChainsWith ==
    ASSUME NEW C, NEW n, GoodChains(C, n), NEW c, NEW chain, GoodChain(chain, n)
    PROVE  GoodChains(With(C, c, chain), n)
<1>1. With(C, c, chain) = [z \in DOMAIN C \cup {c} |-> IF z = c THEN chain ELSE C[z]]
  BY DEF With
<1>2. \A z \in DOMAIN C : GoodChain(C[z], n)
  BY DEF GoodChains
<1> QED BY <1>1, <1>2 DEF GoodChains

LEMMA ChainsExcept ==
    ASSUME NEW C, NEW n, GoodChains(C, n), NEW c \in DOMAIN C, NEW chain, GoodChain(chain, n)
    PROVE  GoodChains([C EXCEPT ![c] = chain], n)
<1>1. [C EXCEPT ![c] = chain] = [z \in DOMAIN C |-> IF z = c THEN chain ELSE C[z]]
  BY DEF GoodChains
<1>2. \A z \in DOMAIN C : GoodChain(C[z], n)
  BY DEF GoodChains
<1> QED BY <1>1, <1>2 DEF GoodChains

LEMMA SetsLeft ==
    ASSUME NEW S, NEW X
    PROVE  Restrict(S, X) = [s \in DOMAIN Restrict(S, X) |-> Restrict(S, X)[s]]
BY DEF Restrict

LEMMA NextHandleType ==
    ASSUME AllHandles, NEW v, IsState(v), IsState(now), NEW t
    PROVE  NextHandle(v, t) \in Nat \ {0}
BY NextHandleIsFresh DEF Asked!Fresh, AllHandles

LEMMA TablesKeep ==
    ASSUME NEW v, IsState(v), NEW m, NEW u \in NewTable(v, m) \cup DeleteTable(v, m)
    PROVE  IsState(u)
<1>1. PICK T, C, S, n :
        /\ v = [tables |-> T, chains |-> C, sets |-> S]
        /\ S = [s \in DOMAIN S |-> S[s]]
        /\ n \in Handles /\ GoodChains(C, n)
  BY GoodParts
<1>2. v.tables = T /\ v.chains = C /\ v.sets = S
  BY <1>1
<1>3. CASE u \in NewTable(v, m)
  <2>1. u = [tables |-> T \cup {InTable(m)}, chains |-> C, sets |-> S]
    BY <1>1, <1>3 DEF NewTable
  <2> QED BY <1>1, <2>1, GoodState
<1>4. CASE u \in DeleteTable(v, m)
  <2>1. PICK X, Y : /\ X \subseteq DOMAIN C
                    /\ u = [tables |-> T \ {InTable(m)}, chains |-> Restrict(C, X),
                            sets |-> Restrict(S, Y)]
    BY <1>2, <1>4 DEF DeleteTable, Outside
  <2>2. GoodChains(Restrict(C, X), n)
    BY <1>1, <2>1, ChainsLeft
  <2> QED BY <1>1, <2>1, <2>2, SetsLeft, GoodState
<1> QED BY <1>3, <1>4

LEMMA ChainsKeep ==
    ASSUME NEW v, IsState(v), NEW m, NEW u \in NewChain(v, m) \cup DeleteChain(v, m)
    PROVE  IsState(u)
<1>1. PICK T, C, S, n :
        /\ v = [tables |-> T, chains |-> C, sets |-> S]
        /\ S = [s \in DOMAIN S |-> S[s]]
        /\ n \in Handles /\ GoodChains(C, n)
  BY GoodParts
<1>2. v.tables = T /\ v.chains = C /\ v.sets = S
  BY <1>1
<1>a. v = [tables |-> T, chains |-> C, sets |-> S]
  BY <1>1
<1> DEFINE c == ChainNamed(m)
<1>3. CASE u \in CreateChain(v, m)
  <2>1. PICK chain : /\ GoodChain(chain, n)
                     /\ u = [tables |-> T, chains |-> With(C, c, chain), sets |-> S]
    <3> DEFINE chain == [base |-> Has(m, "hook"),
                         policy |-> IF Has(m, "policy") THEN m.attrs.policy ELSE "accept",
                         rules |-> <<>>]
    <3>1. GoodChain(chain, n)
      BY DEF GoodChain, Has
    <3>2. u = [v EXCEPT !.chains = With(@, c, chain)]
      BY <1>3 DEF CreateChain
    <3> HIDE DEF chain
    <3>3. [v EXCEPT !.chains = With(@, c, chain)]
            = [tables |-> T, chains |-> With(C, c, chain), sets |-> S]
      BY <1>a
    <3> QED BY <3>1, <3>2, <3>3
  <2>2. GoodChains(With(C, c, chain), n)
    BY <1>1, <2>1, ChainsWith
  <2> QED BY <1>1, <2>1, <2>2, GoodState
<1>4. CASE u \in UpdateChain(v, m) /\ c \in DOMAIN C
  <2>1. CASE u = v
    BY <2>1
  <2>2. CASE u # v
    <3>1. u = [v EXCEPT !.chains[c].policy = m.attrs.policy]
      BY <1>4, <2>2 DEF UpdateChain
    <3>2. PICK b, q, rules : /\ C[c] = [base |-> b, policy |-> q, rules |-> rules]
                             /\ b \in BOOLEAN /\ rules \in Seq(1..n)
      BY <1>1, <1>4 DEF GoodChains, GoodChain
    <3> DEFINE chain == [base |-> b, policy |-> m.attrs.policy, rules |-> rules]
    <3>3. GoodChain(chain, n)
      BY <3>2 DEF GoodChain
    <3>4. [v EXCEPT !.chains[c].policy = m.attrs.policy]
            = [tables |-> T, chains |-> [C EXCEPT ![c] = [C[c] EXCEPT !.policy = m.attrs.policy]],
               sets |-> S]
      <4> HIDE DEF c
      <4> QED BY <1>a
    <3>5. [C[c] EXCEPT !.policy = m.attrs.policy] = chain
      BY <3>2
    <3> HIDE DEF chain
    <3>6. u = [tables |-> T, chains |-> [C EXCEPT ![c] = chain], sets |-> S]
      BY <3>1, <3>4, <3>5
    <3>7. GoodChains([C EXCEPT ![c] = chain], n)
      BY <1>1, <1>4, <3>3, ChainsExcept
    <3> QED BY <1>1, <3>6, <3>7, GoodState
  <2> QED BY <2>1, <2>2
<1>5. CASE u \in NewChain(v, m)
  <2>1. u \in CreateChain(v, m) \/ (u \in UpdateChain(v, m) /\ c \in DOMAIN C)
    BY <1>2, <1>5 DEF NewChain
  <2> QED BY <1>3, <1>4, <2>1
<1>6. CASE u \in DeleteChain(v, m)
  <2>1. u = [v EXCEPT !.chains = Restrict(@, DOMAIN @ \ {c})]
    BY <1>6 DEF DeleteChain
  <2>2. [v EXCEPT !.chains = Restrict(@, DOMAIN @ \ {c})]
          = [tables |-> T, chains |-> Restrict(C, DOMAIN C \ {c}), sets |-> S]
    <3> HIDE DEF c
    <3> QED BY <1>a
  <2>3. GoodChains(Restrict(C, DOMAIN C \ {c}), n)
    BY <1>1, ChainsLeft
  <2> QED BY <1>1, <2>1, <2>2, <2>3, GoodState
<1> QED BY <1>5, <1>6

(* The rules of one chain are replaced by others. *)
LEMMA RulesReplaced ==
    ASSUME NEW T, NEW C, NEW S, NEW v, v = [tables |-> T, chains |-> C, sets |-> S],
           NEW n \in Handles, GoodChains(C, n), S = [s \in DOMAIN S |-> S[s]],
           NEW c \in DOMAIN C, NEW rules \in Seq(1..n)
    PROVE  IsState([v EXCEPT !.chains[c].rules = rules])
<1>1. PICK b, q, old : C[c] = [base |-> b, policy |-> q, rules |-> old] /\ b \in BOOLEAN
  BY DEF GoodChains, GoodChain
<1> DEFINE chain == [base |-> b, policy |-> q, rules |-> rules]
<1>2. GoodChain(chain, n)
  BY <1>1 DEF GoodChain
<1>3. [C[c] EXCEPT !.rules = rules] = chain
  BY <1>1
<1>4. [v EXCEPT !.chains[c].rules = rules]
        = [tables |-> T, chains |-> [C EXCEPT ![c] = [C[c] EXCEPT !.rules = rules]], sets |-> S]
  OBVIOUS
<1> HIDE DEF chain
<1>5. [v EXCEPT !.chains[c].rules = rules]
        = [tables |-> T, chains |-> [C EXCEPT ![c] = chain], sets |-> S]
  BY <1>3, <1>4
<1>6. GoodChains([C EXCEPT ![c] = chain], n)
  BY <1>2, ChainsExcept
<1> QED BY <1>5, <1>6, GoodState

LEMMA RulesKeep ==
    ASSUME AllHandles, IsState(now), NEW v, IsState(v), NEW m,
           NEW u \in NewRule(v, m) \cup DeleteRule(v, m)
    PROVE  IsState(u)
<1>1. PICK T, C, S, n :
        /\ v = [tables |-> T, chains |-> C, sets |-> S]
        /\ S = [s \in DOMAIN S |-> S[s]]
        /\ n \in Handles /\ GoodChains(C, n)
  BY GoodParts
<1> DEFINE c == ChainNamed(m)
           rules == C[c].rules
           h == NextHandle(v, InTable(m))
<1>2. v.tables = T /\ v.chains = C /\ v.sets = S /\ n \in Nat \ {0}
  BY <1>1 DEF AllHandles
<1>3. c \in DOMAIN C
  BY <1>2 DEF NewRule, DeleteRule
<1>4. rules \in Seq(1..n)
  BY <1>1, <1>3 DEF GoodChains, GoodChain
<1>5. CASE u \in NewRule(v, m)
  <2>1. PICK place \in 0..Len(rules) :
          /\ Has(m, "position") => place # 0
          /\ u = [v EXCEPT !.chains[c].rules = InsertAt(rules, Slot(m, Len(rules), place), h)]
    <3> DEFINE p == PlaceOf(rules, m.attrs.position)
    <3>1. p \in 0..Len(rules)
      BY <1>4, PlaceOfRule
    <3>2. p = SelectInSeq(rules, LAMBDA x : x = m.attrs.position)
      BY DEF PlaceOf
    <3>3. /\ Has(m, "position") => p # 0
          /\ u = [v EXCEPT !.chains[c].rules = InsertAt(rules, Slot(m, Len(rules), p), h)]
      BY <1>2, <1>5, <3>2 DEF NewRule
    <3> HIDE DEF p
    <3> QED BY <3>1, <3>3
  <2>2. h \in Nat \ {0}
    BY NextHandleType
  <2>3. PICK k \in Nat \ {0} : n <= k /\ h \in 1..k
    <3>1. n + h \in Nat \ {0} /\ n <= n + h /\ h \in 1..(n + h)
      BY <1>2, <2>2
    <3> QED BY <3>1
  <2> DEFINE slot == Slot(m, Len(rules), place)
             new == InsertAt(rules, slot, h)
  <2>4. slot \in 1..(Len(rules) + 1)
    <3>1. Len(rules) \in Nat
      BY <1>4
    <3> HIDE DEF rules
    <3> QED BY <2>1, <3>1 DEF Slot
  <2>5. GoodChains(C, k)
    BY <1>1, <1>2, <2>3, ChainsGrow
  <2>6. rules \in Seq(1..k)
    BY <1>3, <2>5 DEF GoodChains, GoodChain
  <2>7. new \in Seq(1..k)
    <3> HIDE DEF slot, rules, h
    <3> QED BY <2>3, <2>4, <2>6, InsertAtType
  <2>8. k \in Handles
    BY <2>3 DEF AllHandles
  <2>9. u = [v EXCEPT !.chains[c].rules = new]
    BY <2>1
  <2> HIDE DEF new, c
  <2> QED BY <1>1, <1>3, <2>5, <2>7, <2>8, <2>9, RulesReplaced
<1>6. CASE u \in DeleteRule(v, m)
  <2>1. PICK kept : /\ kept = <<>> \/ kept = RemoveFirst(rules, m.attrs.handle)
                    /\ u = [v EXCEPT !.chains[c].rules = kept]
    BY <1>2, <1>6 DEF DeleteRule
  <2>2. kept \in Seq(1..n)
    <3> HIDE DEF rules
    <3>1. RemoveFirst(rules, m.attrs.handle) \in Seq(1..n)
      BY <1>4, RemoveFirstType
    <3>2. <<>> \in Seq(1..n)
      OBVIOUS
    <3> QED BY <2>1, <3>1, <3>2
  <2> HIDE DEF c
  <2> QED BY <1>1, <1>3, <2>1, <2>2, RulesReplaced
<1> QED BY <1>5, <1>6

LEMMA SetsKeep ==
    ASSUME NEW v, IsState(v), NEW m,
           NEW u \in NewNfSet(v, m) \cup DeleteSet(v, m) \cup NewElems(v, m)
                        \cup DeleteElems(v, m)
    PROVE  IsState(u)
<1>1. PICK T, C, S, n :
        /\ v = [tables |-> T, chains |-> C, sets |-> S]
        /\ S = [s \in DOMAIN S |-> S[s]]
        /\ n \in Handles /\ GoodChains(C, n)
  BY GoodParts
<1>2. v.tables = T /\ v.chains = C /\ v.sets = S
  BY <1>1
<1>a. v = [tables |-> T, chains |-> C, sets |-> S]
  BY <1>1
<1> DEFINE s == SetNamed(m)
<1>3. CASE u = v
  BY <1>3
<1>4. CASE \E R : /\ R = [x \in DOMAIN R |-> R[x]]
                  /\ u = [tables |-> T, chains |-> C, sets |-> R]
  BY <1>1, <1>4, GoodState
<1>5. ASSUME NEW X, u = [v EXCEPT !.sets[s] = X] PROVE IsState(u)
  <2> DEFINE R == [S EXCEPT ![s] = X]
  <2>1. R = [x \in DOMAIN R |-> R[x]]
    BY <1>1
  <2>2. u = [tables |-> T, chains |-> C, sets |-> R]
    <3> HIDE DEF s
    <3> QED BY <1>a, <1>5, SetReplaced
  <2> HIDE DEF R
  <2> QED BY <1>4, <2>1, <2>2
<1>6. CASE u \in NewNfSet(v, m)
  <2> DEFINE R == With(S, s, {})
  <2>1. R = [x \in DOMAIN R |-> R[x]]
    BY DEF With
  <2>2. u = v \/ u = [v EXCEPT !.sets = R]
    BY <1>2, <1>6 DEF NewNfSet
  <2> HIDE DEF R
  <2>3. [v EXCEPT !.sets = R] = [tables |-> T, chains |-> C, sets |-> R]
    BY <1>a
  <2> QED BY <1>3, <1>4, <2>1, <2>2, <2>3
<1>7. CASE u \in DeleteSet(v, m)
  <2> DEFINE R == Restrict(S, DOMAIN S \ {s})
  <2>1. R = [x \in DOMAIN R |-> R[x]]
    BY SetsLeft
  <2>2. u = [v EXCEPT !.sets = R]
    BY <1>2, <1>7 DEF DeleteSet
  <2> HIDE DEF R
  <2>3. [v EXCEPT !.sets = R] = [tables |-> T, chains |-> C, sets |-> R]
    BY <1>a
  <2> QED BY <1>4, <2>1, <2>2, <2>3
<1>8. CASE u \in NewElems(v, m) \cup DeleteElems(v, m)
  <2>1. \E X : u = [v EXCEPT !.sets[s] = X]
    BY <1>8 DEF NewElems, DeleteElems
  <2> HIDE DEF s
  <2> QED BY <1>5, <2>1
<1> QED BY <1>6, <1>7, <1>8

(* What a message makes of a state is a state. *)
LEMMA StateKept ==
    ASSUME AllHandles, IsState(now), NEW v, IsState(v), NEW m, m.type \in Types,
           NEW u \in Results(v, m)
    PROVE  IsState(u)
<1>1. CASE m.type = "NEWTABLE"
  BY <1>1, TablesKeep DEF Results
<1>2. CASE m.type = "DELTABLE"
  BY <1>2, TablesKeep DEF Results
<1>3. CASE m.type = "NEWCHAIN"
  BY <1>3, ChainsKeep DEF Results
<1>4. CASE m.type = "DELCHAIN"
  BY <1>4, ChainsKeep DEF Results
<1>5. CASE m.type = "NEWRULE"
  BY <1>5, RulesKeep DEF Results
<1>6. CASE m.type = "DELRULE"
  BY <1>6, RulesKeep DEF Results
<1>7. CASE m.type = "NEWSET"
  BY <1>7, SetsKeep DEF Results
<1>8. CASE m.type = "DELSET"
  BY <1>8, SetsKeep DEF Results
<1>9. CASE m.type = "NEWSETELEM"
  BY <1>9, SetsKeep DEF Results
<1>10. CASE m.type = "DELSETELEM"
  BY <1>10, SetsKeep DEF Results
<1> QED BY <1>1, <1>2, <1>3, <1>4, <1>5, <1>6, <1>7, <1>8, <1>9, <1>10 DEF Types

----------------------------------------------------------------------------
(* The messages of a batch and the requests they spell                     *)

IsList(s) == \E M : s \in Seq(M)

(* Messages a + 1 to b of a batch B list the keys of r behind the n-th. *)
Rest(B, r, n, a, b) ==
    \E h \in [a..b -> 0..Len(r.keys)] :
        /\ h[a] = n /\ h[b] = Len(r.keys)
        /\ \A p \in (a + 1)..b :
              /\ h[p - 1] < h[p]
              /\ Lists(B[p], r.op, r.set, SubSeq(r.keys, h[p - 1] + 1, h[p]))

(* Messages a + 1 to b are those of request r. *)
Spells(B, r, a, b) ==
    \/ b = a + 1 /\ One(r, B[b])
    \/ a <= b /\ r \in ElemsRequest /\ Rest(B, r, 0, a, b)

(* The messages behind the c-th are those of the requests behind the i-th. *)
Remaining(B, A, i, c) ==
    \E f \in [i..Len(A) -> 0..Len(B)] :
        /\ f[i] = c /\ f[Len(A)] = Len(B)
        /\ \A j \in (i + 1)..Len(A) : Spells(B, A[j], f[j - 1], f[j])

(* One more message with the next keys. *)
LEMMA RestStep ==
    ASSUME NEW B, NEW r \in ElemsRequest, NEW a \in Nat, NEW b \in Nat, a < b,
           NEW n, Rest(B, r, n, a, b)
    PROVE  /\ n \in 0..Len(r.keys)
           /\ \E m \in (n + 1)..Len(r.keys) :
                /\ Lists(B[a + 1], r.op, r.set, SubSeq(r.keys, n + 1, m))
                /\ Rest(B, r, m, a + 1, b)
<1>0. PICK L \in Nat : L = Len(r.keys)
  BY DEF ElemsRequest
<1>1. PICK h \in [a..b -> 0..L] :
        /\ h[a] = n /\ h[b] = L
        /\ \A p \in (a + 1)..b :
              /\ h[p - 1] < h[p]
              /\ Lists(B[p], r.op, r.set, SubSeq(r.keys, h[p - 1] + 1, h[p]))
  BY <1>0 DEF Rest
<1>2. a \in a..b /\ a + 1 \in a..b /\ a + 1 \in (a + 1)..b /\ (a + 1) - 1 = a
  OBVIOUS
<1>3. PICK m : m = h[a + 1]
  OBVIOUS
<1>4. n \in 0..L /\ m \in 0..L /\ n < m
  BY <1>1, <1>2, <1>3
<1>5. Lists(B[a + 1], r.op, r.set, SubSeq(r.keys, n + 1, m))
  BY <1>1, <1>2, <1>3
<1> DEFINE g == [p \in (a + 1)..b |-> h[p]]
<1>6. \A p \in (a + 1)..b : p \in a..b
  OBVIOUS
<1>7. g \in [(a + 1)..b -> 0..L]
  BY <1>6
<1>8. g[a + 1] = m /\ g[b] = L
  BY <1>1, <1>2, <1>3
<1>9. ASSUME NEW p \in ((a + 1) + 1)..b
      PROVE  /\ g[p - 1] < g[p]
             /\ Lists(B[p], r.op, r.set, SubSeq(r.keys, g[p - 1] + 1, g[p]))
  <2>1. p \in (a + 1)..b /\ p - 1 \in (a + 1)..b
    OBVIOUS
  <2>2. g[p - 1] = h[p - 1] /\ g[p] = h[p]
    BY <2>1
  <2> QED BY <1>1, <2>1, <2>2
<1> HIDE DEF g
<1>10. Rest(B, r, m, a + 1, b)
  BY <1>0, <1>7, <1>8, <1>9 DEF Rest
<1> QED BY <1>0, <1>4, <1>5, <1>10

(* No messages remain: no keys do. *)
LEMMA RestEnds ==
    ASSUME NEW B, NEW r, NEW n, NEW a \in Nat, Rest(B, r, n, a, a)
    PROVE  n = Len(r.keys)
BY DEF Rest

LEMMA SpellsForward ==
    ASSUME NEW B, NEW r, NEW a \in Nat, NEW b \in Nat, Spells(B, r, a, b)
    PROVE  a <= b
BY DEF Spells

(* A longer batch spells what the shorter one did. *)
LEMMA RestStable ==
    ASSUME NEW B, NEW D, NEW r, NEW n, NEW a \in Nat, NEW b \in Nat,
           \A p \in (a + 1)..b : D[p] = B[p], Rest(B, r, n, a, b)
    PROVE  Rest(D, r, n, a, b)
BY DEF Rest

LEMMA SpellsStable ==
    ASSUME NEW B, NEW D, NEW r, NEW a \in Nat, NEW b \in Nat,
           \A p \in (a + 1)..b : D[p] = B[p], Spells(B, r, a, b)
    PROVE  Spells(D, r, a, b)
<1>1. CASE b = a + 1 /\ One(r, B[b])
  BY <1>1 DEF Spells
<1>2. CASE a <= b /\ r \in ElemsRequest /\ Rest(B, r, 0, a, b)
  BY <1>2, RestStable DEF Spells
<1> QED BY <1>1, <1>2 DEF Spells

(* What remains after one more request. *)
LEMMA RemainingStep ==
    ASSUME NEW B, NEW A, Len(A) \in Nat, Len(B) \in Nat, NEW i \in 0..Len(A), i # Len(A),
           NEW c, Remaining(B, A, i, c)
    PROVE  /\ c \in 0..Len(B)
           /\ \E b \in c..Len(B) : Spells(B, A[i + 1], c, b) /\ Remaining(B, A, i + 1, b)
<1>1. PICK f \in [i..Len(A) -> 0..Len(B)] :
        /\ f[i] = c /\ f[Len(A)] = Len(B)
        /\ \A j \in (i + 1)..Len(A) : Spells(B, A[j], f[j - 1], f[j])
  BY DEF Remaining
<1>2. i \in i..Len(A) /\ i + 1 \in i..Len(A) /\ i + 1 \in (i + 1)..Len(A) /\ (i + 1) - 1 = i
  OBVIOUS
<1>3. PICK b : b = f[i + 1]
  OBVIOUS
<1>4. c \in 0..Len(B) /\ b \in 0..Len(B)
  BY <1>1, <1>2, <1>3
<1>5. Spells(B, A[i + 1], c, b)
  BY <1>1, <1>2, <1>3
<1>6. b \in c..Len(B)
  BY <1>4, <1>5, SpellsForward
<1> DEFINE g == [j \in (i + 1)..Len(A) |-> f[j]]
<1>7. \A j \in (i + 1)..Len(A) : j \in i..Len(A)
  OBVIOUS
<1>8. g \in [(i + 1)..Len(A) -> 0..Len(B)]
  BY <1>7
<1>9. g[i + 1] = b /\ g[Len(A)] = Len(B)
  BY <1>1, <1>2, <1>3
<1>10. ASSUME NEW j \in ((i + 1) + 1)..Len(A) PROVE Spells(B, A[j], g[j - 1], g[j])
  <2>1. j \in (i + 1)..Len(A) /\ j - 1 \in (i + 1)..Len(A)
    OBVIOUS
  <2>2. g[j - 1] = f[j - 1] /\ g[j] = f[j]
    BY <2>1
  <2> QED BY <1>1, <2>1, <2>2
<1> HIDE DEF g
<1>11. Remaining(B, A, i + 1, b)
  BY <1>8, <1>9, <1>10 DEF Remaining
<1> QED BY <1>4, <1>5, <1>6, <1>11

(* No requests remain: no messages do. *)
LEMMA RemainingEnds ==
    ASSUME NEW B, NEW A, Len(A) \in Nat, NEW c, Remaining(B, A, Len(A), c)
    PROVE  c = Len(B)
BY DEF Remaining

(* One more request, spelled by messages put behind the others. *)
LEMMA RemainingGrows ==
    ASSUME NEW B, IsList(B), NEW X, IsList(X), NEW A, IsList(A), NEW r,
           Remaining(B, A, 0, 0), Spells(B \o X, r, Len(B), Len(B) + Len(X))
    PROVE  Remaining(B \o X, Append(A, r), 0, 0)
<1>1. /\ Len(A) \in Nat /\ Len(B) \in Nat /\ Len(X) \in Nat
      /\ Len(B \o X) = Len(B) + Len(X)
      /\ \A p \in 1..Len(B) : (B \o X)[p] = B[p]
  <2>1. PICK M, N : B \in Seq(M) /\ X \in Seq(N)
    BY DEF IsList
  <2>2. B \in Seq(M \cup N) /\ X \in Seq(M \cup N)
    BY <2>1
  <2> QED BY <2>2 DEF IsList
<1>2. /\ Len(Append(A, r)) = Len(A) + 1 /\ Append(A, r)[Len(A) + 1] = r
      /\ \A j \in 1..Len(A) : Append(A, r)[j] = A[j]
  <2>1. PICK M : A \in Seq(M)
    BY DEF IsList
  <2>2. A \in Seq(M \cup {r}) /\ r \in M \cup {r}
    BY <2>1
  <2> QED BY <2>2
<1>3. PICK D, E : D = B \o X /\ E = Append(A, r)
  OBVIOUS
<1>4. PICK n \in Nat, b \in Nat, x \in Nat : n = Len(A) /\ b = Len(B) /\ x = Len(X)
  BY <1>1
<1>5. /\ Len(D) = b + x /\ Len(E) = n + 1 /\ E[n + 1] = r
      /\ \A p \in 1..b : D[p] = B[p]
      /\ \A j \in 1..n : E[j] = A[j]
      /\ Spells(D, r, b, b + x)
  BY <1>1, <1>2, <1>3, <1>4
<1>6. PICK f \in [0..n -> 0..b] :
        /\ f[0] = 0 /\ f[n] = b
        /\ \A j \in (0 + 1)..n : Spells(B, A[j], f[j - 1], f[j])
  BY <1>4 DEF Remaining
<1> DEFINE g == [j \in 0..(n + 1) |-> IF j = n + 1 THEN b + x ELSE f[j]]
<1>7. g \in [0..(n + 1) -> 0..(b + x)]
  <2>1. ASSUME NEW j \in 0..(n + 1) PROVE g[j] \in 0..(b + x)
    <3>1. CASE j = n + 1
      BY <3>1
    <3>2. CASE j # n + 1
      <4>1. j \in 0..n
        BY <3>2
      <4>2. f[j] \in 0..b
        BY <1>6, <4>1
      <4> QED BY <3>2, <4>2
    <3> QED BY <3>1, <3>2
  <2> QED BY <2>1
<1>8. g[0] = 0 /\ g[n + 1] = b + x
  BY <1>6
<1>9. ASSUME NEW j \in (0 + 1)..(n + 1) PROVE Spells(D, E[j], g[j - 1], g[j])
  <2>1. CASE j = n + 1
    <3>1. g[j - 1] = b /\ g[j] = b + x /\ E[j] = r
      BY <1>5, <1>6, <2>1
    <3> QED BY <1>5, <3>1
  <2>2. CASE j # n + 1
    <3>1. j \in (0 + 1)..n /\ j \in 1..n /\ j \in 0..n /\ j - 1 \in 0..n /\ j - 1 # n + 1
      BY <2>2
    <3>2. g[j - 1] = f[j - 1] /\ g[j] = f[j] /\ E[j] = A[j]
      BY <1>5, <2>2, <3>1
    <3>3. f[j - 1] \in Nat /\ f[j] \in Nat /\ f[j] <= b
      BY <1>6, <3>1
    <3>4. \A p \in (f[j - 1] + 1)..f[j] : D[p] = B[p]
      <4>1. ASSUME NEW p \in (f[j - 1] + 1)..f[j] PROVE p \in 1..b
        BY <3>3
      <4> QED BY <1>5, <4>1
    <3>5. Spells(B, A[j], f[j - 1], f[j])
      BY <1>6, <3>1
    <3>6. Spells(D, A[j], f[j - 1], f[j])
      BY <3>3, <3>4, <3>5, SpellsStable
    <3> QED BY <3>2, <3>6
  <2> QED BY <2>1, <2>2
<1> HIDE DEF g
<1>10. Remaining(D, E, 0, 0)
  BY <1>5, <1>7, <1>8, <1>9 DEF Remaining
<1> QED BY <1>3, <1>10

(* The requests of the program, and the messages it puts for them. *)
LEMMA OneMessage ==
    ASSUME NEW B, IsList(B), NEW r, NEW m, One(r, m)
    PROVE  Spells(B \o <<m>>, r, Len(B), Len(B) + 1)
<1>1. PICK M : B \in Seq(M)
  BY DEF IsList
<1>2. B \in Seq(M \cup {m}) /\ m \in M \cup {m}
  BY <1>1
<1>3. (B \o <<m>>)[Len(B) + 1] = m
  BY <1>2
<1> QED BY <1>3 DEF Spells

LEMMA BehindList ==
    ASSUME NEW B, IsList(B), NEW X, IsList(X), NEW j \in 1..Len(X)
    PROVE  (B \o X)[Len(B) + j] = X[j]
<1>1. PICK M, N : B \in Seq(M) /\ X \in Seq(N)
  BY DEF IsList
<1>2. B \in Seq(M \cup N) /\ X \in Seq(M \cup N)
  BY <1>1
<1> QED BY <1>2

(* Keys listed from places that a function gives. *)
LEMMA RestIs ==
    ASSUME NEW B, NEW r, NEW n, NEW a, NEW b, NEW L, L = Len(r.keys), NEW g \in [a..b -> 0..L],
           g[a] = n, g[b] = L,
           \A p \in (a + 1)..b :
              /\ g[p - 1] < g[p]
              /\ Lists(B[p], r.op, r.set, SubSeq(r.keys, g[p - 1] + 1, g[p]))
    PROVE  Rest(B, r, n, a, b)
BY DEF Rest

(* The list of keys that remains, cut at increasing places. *)
LEMMA ListsSpell ==
    ASSUME NEW B, IsList(B), NEW X, IsList(X), NEW r \in ElemsRequest,
           NEW h \in [0..Len(X) -> 0..Len(r.keys)], h[0] = 0, h[Len(X)] = Len(r.keys),
           \A j \in 1..Len(X) :
              /\ h[j - 1] < h[j]
              /\ Lists(X[j], r.op, r.set, SubSeq(r.keys, h[j - 1] + 1, h[j]))
    PROVE  Spells(B \o X, r, Len(B), Len(B) + Len(X))
<1>1. PICK b, x, L, D : b = Len(B) /\ x = Len(X) /\ L = Len(r.keys) /\ D = B \o X
  OBVIOUS
<1>2. b \in Nat /\ x \in Nat
  BY <1>1 DEF IsList
<1> DEFINE g == [p \in b..(b + x) |-> h[p - b]]
<1>3. ASSUME NEW p \in b..(b + x) PROVE p - b \in 0..x
  BY <1>2
<1>4. g \in [b..(b + x) -> 0..L]
  BY <1>1, <1>3
<1>5. b - b = 0 /\ (b + x) - b = x /\ b \in b..(b + x) /\ b + x \in b..(b + x)
  BY <1>2
<1>6. g[b] = 0 /\ g[b + x] = L
  BY <1>1, <1>5
<1>7. ASSUME NEW p \in (b + 1)..(b + x)
      PROVE  /\ g[p - 1] < g[p]
             /\ Lists(D[p], r.op, r.set, SubSeq(r.keys, g[p - 1] + 1, g[p]))
  <2>1. PICK j \in 1..x : j = p - b
    <3>1. p - b \in 1..x
      BY <1>2
    <3> QED BY <3>1
  <2>2. /\ p = b + j /\ p \in b..(b + x) /\ p - 1 \in b..(b + x)
        /\ (p - 1) - b = j - 1
    BY <1>2, <2>1
  <2>3. g[p - 1] = h[j - 1] /\ g[p] = h[j]
    BY <2>1, <2>2
  <2>4. D[p] = X[j]
    BY <1>1, <2>1, <2>2, BehindList
  <2> QED BY <1>1, <2>1, <2>3, <2>4
<1> HIDE DEF g
<1>8. Rest(D, r, 0, b, b + x)
  <2>1. L = Len(r.keys)
    BY <1>1
  <2>2. \A p \in (b + 1)..(b + x) :
           /\ g[p - 1] < g[p]
           /\ Lists(D[p], r.op, r.set, SubSeq(r.keys, g[p - 1] + 1, g[p]))
    BY <1>7
  <2> QED BY <2>1, <2>2, <1>4, <1>6, RestIs
<1> QED BY <1>1, <1>2, <1>8 DEF Spells

(* The numbers of elems_iter(): where its messages begin and end. *)
LEMMA Pieces ==
    ASSUME NEW L \in Nat, NEW q \in Nat \ {0}, NEW k, k = (L + q - 1) \div q
    PROVE  /\ k \in Nat /\ L <= k * q
           /\ \A j \in 0..k : j < k => j * q < L
<1>1. k \in Int
  OBVIOUS
<1>2. q * k <= L + q - 1 /\ L + q - 1 < q * k + q
  OBVIOUS
<1>3. k \in Nat
  BY <1>1, <1>2
<1> QED BY <1>1, <1>2, <1>3

LEMMA LeastOfTwo ==
    ASSUME NEW a \in Nat, NEW b \in Nat
    PROVE  Min({a, b}) = IF a <= b THEN a ELSE b
<1>1. CASE a <= b
  <2>1. \E x \in {a, b} : \A y \in {a, b} : x <= y
    BY <1>1
  <2>2. Min({a, b}) \in {a, b} /\ \A y \in {a, b} : Min({a, b}) <= y
    BY <2>1 DEF Min
  <2> QED BY <1>1, <2>2
<1>2. CASE ~ (a <= b)
  <2>1. \E x \in {a, b} : \A y \in {a, b} : x <= y
    BY <1>2
  <2>2. Min({a, b}) \in {a, b} /\ \A y \in {a, b} : Min({a, b}) <= y
    BY <2>1 DEF Min
  <2> QED BY <1>2, <2>2
<1> QED BY <1>1, <1>2

LEMMA TableIsList ==
    ASSUME NEW k \in Nat, NEW X, X = [i \in 1..k |-> X[i]]
    PROVE  IsList(X) /\ Len(X) = k
<1>1. PICK M : M = {X[i] : i \in 1..k}
  OBVIOUS
<1>2. X \in [1..k -> M]
  BY <1>1
<1>3. X \in Seq(M) /\ Len(X) = k
  BY <1>2
<1> QED BY <1>3 DEF IsList

(* The messages of elems_iter() spell the request for all the elements. *)
LEMMA ElemsSpelled ==
    ASSUME OwnFamilies, NEW B, IsList(B), NEW s \in Sets, NEW op \in Op, local[s] \in Seq(Keys),
           NEW X, X = ElemsMsgs(s, op),
           NEW r, r = [op |-> op, what |-> "elements", set |-> s, keys |-> local[s]]
    PROVE  /\ IsList(X) /\ r \in ElemsRequest
           /\ Spells(B \o X, r, Len(B), Len(B) + Len(X))
<1>1. r \in ElemsRequest /\ r.op = op /\ r.set = s /\ r.keys = local[s]
  BY DEF ElemsRequest
<1>2. PICK q \in Nat \ {0} : q = PerMsg
  BY StoreAssumption
<1>3. PICK L \in Nat : L = Len(local[s])
  OBVIOUS
<1>4. PICK k : k = (L + q - 1) \div q
  OBVIOUS
<1>5. k \in Nat /\ L <= k * q /\ \A j \in 0..k : j < k => j * q < L
  BY <1>4, Pieces
<1> DEFINE cut == [j \in 0..k |-> Min({j * q, L})]
<1>6. X = [i \in 1..k |-> ElemsMsg(s, SubSeq(local[s], (i - 1) * q + 1, Min({i * q, L})), op)]
  BY <1>2, <1>3, <1>4 DEF ElemsMsgs
<1>7. IsList(X) /\ Len(X) = k
  <2>1. X = [i \in 1..k |-> X[i]]
    <3> HIDE DEF cut
    <3> QED BY <1>6
  <2> QED BY <1>5, <2>1, TableIsList
<1>9. \A j \in 0..k : j * q \in Nat
  BY <1>5
<1>10. \A j \in 0..k : cut[j] = IF j * q <= L THEN j * q ELSE L
  BY <1>9, LeastOfTwo
<1>11. cut \in [0..k -> 0..L]
  <2>1. ASSUME NEW j \in 0..k PROVE cut[j] \in 0..L
    BY <1>9, <1>10
  <2> QED BY <2>1
<1>12. cut[0] = 0 /\ cut[k] = L
  <2>1. 0 \in 0..k /\ k \in 0..k /\ 0 * q = 0
    BY <1>5
  <2>2. k * q \in Nat
    BY <1>9, <2>1
  <2> HIDE DEF cut
  <2> QED BY <1>5, <1>10, <2>1, <2>2
<1>13. ASSUME NEW j \in 1..k
       PROVE  /\ cut[j - 1] < cut[j]
              /\ Lists(X[j], op, s, SubSeq(local[s], cut[j - 1] + 1, cut[j]))
  <2>1. j \in 0..k /\ j - 1 \in 0..k /\ j - 1 < k
    BY <1>5
  <2>2. (j - 1) * q < L /\ (j - 1) * q \in Nat /\ j * q \in Nat
    BY <1>5, <1>9, <2>1
  <2>3. j * q = (j - 1) * q + q
    OBVIOUS
  <2>4. cut[j - 1] = (j - 1) * q
    <3> HIDE DEF cut
    <3> QED BY <1>10, <2>1, <2>2
  <2>5. cut[j] = Min({j * q, L})
    BY <2>1
  <2>6. cut[j - 1] < cut[j]
    <3>1. cut[j] = IF j * q <= L THEN j * q ELSE L
      BY <1>10, <2>1
    <3> HIDE DEF cut
    <3> QED BY <2>2, <2>3, <2>4, <3>1
  <2>7. X[j] = ElemsMsg(s, SubSeq(local[s], cut[j - 1] + 1, cut[j]), op)
    <3> HIDE DEF cut
    <3> QED BY <1>6, <2>4, <2>5
  <2> HIDE DEF cut
  <2> QED BY <2>6, <2>7, ElemsMsgLists
<1> HIDE DEF cut
<1>14. /\ cut \in [0..Len(X) -> 0..Len(r.keys)]
       /\ cut[0] = 0 /\ cut[Len(X)] = Len(r.keys)
       /\ \A j \in 1..Len(X) :
             /\ cut[j - 1] < cut[j]
             /\ Lists(X[j], r.op, r.set, SubSeq(r.keys, cut[j - 1] + 1, cut[j]))
  BY <1>1, <1>3, <1>7, <1>11, <1>12, <1>13
<1> QED BY <1>1, <1>7, <1>14, ListsSpell

(* So does the message of a flush through a handle that holds some. *)
LEMMA FlushSpelled ==
    ASSUME OwnFamilies, NEW B, IsList(B), NEW s \in Sets, local[s] \in Seq(Keys),
           local[s] # <<>>,
           NEW r, r = [op |-> "Del", what |-> "elements", set |-> s, keys |-> local[s]]
    PROVE  /\ r \in ElemsRequest
           /\ Spells(B \o <<FlushMsg(s)>>, r, Len(B), Len(B) + 1)
<1>1. r \in ElemsRequest /\ r.op = "Del" /\ r.set = s /\ r.keys = local[s]
  BY DEF ElemsRequest, Op
<1>2. PICK X : X = <<FlushMsg(s)>>
  OBVIOUS
<1>3. X \in Seq({FlushMsg(s)}) /\ Len(X) = 1 /\ X[1] = FlushMsg(s)
  BY <1>2
<1>4. IsList(X)
  BY <1>3 DEF IsList
<1>5. PICK L \in Nat \ {0} : L = Len(local[s])
  OBVIOUS
<1> DEFINE cut == [j \in 0..1 |-> IF j = 0 THEN 0 ELSE L]
<1>6. cut \in [0..1 -> 0..L] /\ cut[0] = 0 /\ cut[1] = L
  OBVIOUS
<1> HIDE DEF cut
<1>7. SubSeq(local[s], 0 + 1, L) = local[s]
  BY <1>5
<1>8. Lists(X[1], "Del", s, SubSeq(local[s], 0 + 1, L))
  BY <1>3, <1>7, FlushMsgLists
<1>9. \A j \in 1..1 : j = 1 /\ j - 1 = 0
  OBVIOUS
<1>10. \A j \in 1..Len(X) :
          /\ cut[j - 1] < cut[j]
          /\ Lists(X[j], r.op, r.set, SubSeq(r.keys, cut[j - 1] + 1, cut[j]))
  BY <1>1, <1>3, <1>6, <1>8, <1>9
<1>11. /\ cut \in [0..Len(X) -> 0..Len(r.keys)]
       /\ cut[0] = 0 /\ cut[Len(X)] = Len(r.keys)
  BY <1>1, <1>3, <1>5, <1>6
<1>12. Spells(B \o X, r, Len(B), Len(B) + Len(X))
  BY <1>1, <1>4, <1>10, <1>11, ListsSpell
<1> QED BY <1>1, <1>2, <1>3, <1>12

----------------------------------------------------------------------------
(* What the requests may have made of netfilter                            *)

(* F is Inventory's After. *)
IsAfter(F) ==
    F = [n \in 0..Len(asked) |->
           IF n = 0 THEN {now} ELSE UNION {Asked!Results(v, asked[n]) : v \in F[n - 1]}]

(* Such a function exists: of the first m requests none is the first without. *)
LEMMA AfterExists ==
    ASSUME NEW L \in Nat
    PROVE  \E F : F = [n \in 0..L |->
                         IF n = 0 THEN {now}
                         ELSE UNION {Asked!Results(v, asked[n]) : v \in F[n - 1]}]
<1> DEFINE Is(F, m) ==
             F = [n \in 0..m |-> IF n = 0 THEN {now}
                                  ELSE UNION {Asked!Results(v, asked[n]) : v \in F[n - 1]}]
           S == {m \in 0..L : ~ \E F : Is(F, m)}
<1>1. \E F : Is(F, 0)
  <2> DEFINE F == [n \in 0..0 |-> {now}]
  <2>1. F = [n \in 0..0 |-> IF n = 0 THEN {now}
                             ELSE UNION {Asked!Results(v, asked[n]) : v \in F[n - 1]}]
    OBVIOUS
  <2> QED BY <2>1
<1>2. ASSUME NEW m \in 1..L, NEW F, Is(F, m - 1) PROVE \E G : Is(G, m)
  <2> DEFINE last == UNION {Asked!Results(v, asked[m]) : v \in F[m - 1]}
             G == [n \in 0..m |-> IF n = m THEN last ELSE F[n]]
             H == [n \in 0..m |-> IF n = 0 THEN {now}
                                  ELSE UNION {Asked!Results(v, asked[n]) : v \in G[n - 1]}]
  <2>1. ASSUME NEW n \in 0..m PROVE G[n] = H[n]
    <3>1. CASE n = m
      <4>1. n - 1 \in 0..m /\ n - 1 # m /\ n # 0
        BY <3>1
      <4>2. G[n - 1] = F[m - 1] /\ G[n] = last
        BY <3>1, <4>1
      <4> QED BY <3>1, <4>1, <4>2
    <3>2. CASE n # m
      <4>1. n \in 0..(m - 1)
        BY <3>2
      <4>2. G[n] = F[n]
        BY <3>2
      <4>3. F[n] = IF n = 0 THEN {now}
                   ELSE UNION {Asked!Results(v, asked[n]) : v \in F[n - 1]}
        BY <1>2, <4>1
      <4>4. n # 0 => G[n - 1] = F[n - 1]
        BY <4>1
      <4> QED BY <4>2, <4>3, <4>4
    <3> QED BY <3>1, <3>2
  <2>2. G = H
    BY <2>1
  <2>3. Is(G, m)
    BY <2>2
  <2> QED BY <2>3
<1>3. ASSUME NEW m \in S PROVE \E l \in S : l < m
  <2>1. m # 0
    BY <1>1
  <2>2. m \in 1..L /\ m - 1 \in 0..L /\ m - 1 < m
    BY <2>1
  <2>3. ~ \E F : Is(F, m - 1)
    BY <1>2, <2>2
  <2> QED BY <2>2, <2>3
<1> HIDE DEF Is
<1>4. S = {}
  <2>1. S \subseteq Nat
    OBVIOUS
  <2> HIDE DEF S
  <2> SUFFICES ASSUME S # {} PROVE FALSE
    OBVIOUS
  <2>2. PICK m \in S : \A l \in S : ~ (<<l, m>> \in OpToRel(<, Nat))
    BY <2>1, NatLessThanWellFounded, WFMin
  <2>3. \A l \in S : ~ (l < m)
    BY <2>1, <2>2 DEF OpToRel
  <2> QED BY <1>3, <2>3
<1>5. \E F : Is(F, L)
  BY <1>4
<1> QED BY <1>5 DEF Is

(* Inventory takes the function that its definition describes. *)
LEMMA AfterIs ==
    ASSUME Len(asked) \in Nat
    PROVE  IsAfter(Asked!After)
BY AfterExists DEF IsAfter, Asked!After

(* Of all requests, only a new rule's result depends on what netfilter holds. *)
LEMMA ResultsKept ==
    ASSUME now' = now
    PROVE  \A v, r : Asked!Results(v, r)' = Asked!Results(v, r)
<1>1. \A v, r : Asked!AddRule(v, r)' = Asked!AddRule(v, r)
  BY DEF Asked!AddRule, Asked!Fresh, Asked!InUse, Asked!SelectInSeq
<1> QED BY <1>1 DEF Asked!Results

LEMMA AfterKept ==
    ASSUME now' = now, asked' = asked
    PROVE  \A F : IsAfter(F)' => IsAfter(F)
<1>1. \A v, r : Asked!Results(v, r)' = Asked!Results(v, r)
  BY ResultsKept
<1> QED BY <1>1 DEF IsAfter

(* What n requests may have made, from what n - 1 have. *)
LEMMA AfterValues ==
    ASSUME NEW F, IsAfter(F), IsList(asked)
    PROVE  /\ F[0] = {now}
           /\ \A n \in 1..Len(asked) : \A v, u :
                 v \in F[n - 1] /\ u \in Asked!Results(v, asked[n]) => u \in F[n]
<1>1. Len(asked) \in Nat
  BY DEF IsList
<1>2. F[0] = {now}
  BY <1>1 DEF IsAfter
<1>3. ASSUME NEW n \in 1..Len(asked)
      PROVE  F[n] = UNION {Asked!Results(v, asked[n]) : v \in F[n - 1]}
  <2>1. n \in 0..Len(asked) /\ n # 0
    OBVIOUS
  <2> QED BY <2>1 DEF IsAfter
<1> QED BY <1>2, <1>3

----------------------------------------------------------------------------
(* A batch that netfilter performs                                         *)

(* Draft d is what i requests have made, and c messages are performed. *)
Reached(F, d, i, c) == d \in F[i] /\ Remaining(batch, asked, i, c)

(* Draft d is what i - 1 requests and the first n keys of the next have made. *)
Within(F, d, i, c) ==
    \E v \in F[i - 1], n \in 0..Len(asked[i].keys), b \in c..Len(batch) :
        /\ IsState(v) /\ asked[i] \in ElemsRequest
        /\ d \in Asked!Results(v, Part(asked[i], n))
        /\ Rest(batch, asked[i], n, c, b)
        /\ Remaining(batch, asked, i, b)

(* Some requests are met, and the next one perhaps in part. *)
Performing(F, d, c) ==
    \/ \E i \in 0..Len(asked) : Reached(F, d, i, c)
    \/ \E i \in 1..Len(asked) : Within(F, d, i, c)

(* A request without messages is met by what is there. *)
LEMMA NothingAsked ==
    ASSUME NEW B, NEW r, NEW c \in Nat, Spells(B, r, c, c), NEW d
    PROVE  d \in Asked!Results(d, r)
<1>1. r \in ElemsRequest /\ Rest(B, r, 0, c, c)
  BY DEF Spells
<1>2. Len(r.keys) = 0 /\ r.keys \in Seq(Keys)
  BY <1>1, RestEnds DEF ElemsRequest
<1>3. r.keys = <<>>
  BY <1>2, EmptySeq
<1> QED BY <1>1, <1>3, ElemsAsked

(* The next message is for the first request, from here on, that has any. *)
LEMMA NextRequest ==
    ASSUME NEW F, IsAfter(F), IsList(asked), IsList(batch), NEW d, NEW c,
           NEW i \in 0..Len(asked), Reached(F, d, i, c)
    PROVE  \E j \in 0..Len(asked) :
             /\ Reached(F, d, j, c)
             /\ j = Len(asked) => c = Len(batch)
             /\ j # Len(asked) => \E b \in (c + 1)..Len(batch) :
                   Spells(batch, asked[j + 1], c, b) /\ Remaining(batch, asked, j + 1, b)
<1> DEFINE J == {j \in 0..Len(asked) : Reached(F, d, j, c)}
<1>1. PICK N \in Nat : N = Len(asked)
  BY DEF IsList
<1>2. Len(batch) \in Nat
  BY DEF IsList
<1>3. J \subseteq 0..N /\ J # {}
  BY <1>1
<1>4. PICK j \in J : \A k \in J : k <= j
  <2> HIDE DEF J
  <2> QED BY <1>3, GreatestNumber
<1>5. j \in 0..N /\ d \in F[j] /\ Remaining(batch, asked, j, c) /\ Reached(F, d, j, c)
  BY <1>1 DEF Reached
<1>6. CASE j = N
  BY <1>1, <1>2, <1>5, <1>6, RemainingEnds
<1>7. CASE j # N
  <2>1. c \in 0..Len(batch)
    BY <1>1, <1>2, <1>5, <1>7, RemainingStep
  <2>2. PICK b \in c..Len(batch) : /\ Spells(batch, asked[j + 1], c, b)
                                   /\ Remaining(batch, asked, j + 1, b)
    BY <1>1, <1>2, <1>5, <1>7, RemainingStep
  <2>3. j + 1 \in 1..N /\ (j + 1) - 1 = j /\ j + 1 \in 0..N /\ ~ (j + 1 <= j)
    BY <1>5, <1>7
  <2>4. b # c
    <3> SUFFICES ASSUME b = c PROVE FALSE
      OBVIOUS
    <3>1. d \in Asked!Results(d, asked[j + 1])
      BY <2>1, <2>2, NothingAsked
    <3>2. d \in F[j + 1]
      BY <1>1, <1>5, <2>3, <3>1, AfterValues
    <3>3. j + 1 \in J
      BY <1>1, <2>2, <2>3, <3>2 DEF Reached
    <3> HIDE DEF J
    <3> QED BY <1>4, <2>3, <3>3
  <2>5. b \in (c + 1)..Len(batch)
    BY <1>2, <2>1, <2>4
  <2> HIDE DEF J
  <2> QED BY <1>1, <1>5, <1>7, <2>2, <2>5
<1> QED BY <1>6, <1>7

(* After all keys of a request, the request is met. *)
LEMMA WithinEnds ==
    ASSUME NEW F, IsAfter(F), IsList(asked), NEW d, NEW c \in Nat, NEW i \in 1..Len(asked),
           NEW v \in F[i - 1], asked[i] \in ElemsRequest, NEW n,
           d \in Asked!Results(v, Part(asked[i], n)),
           Rest(batch, asked[i], n, c, c), Remaining(batch, asked, i, c)
    PROVE  i \in 0..Len(asked) /\ Reached(F, d, i, c)
<1>1. n = Len(asked[i].keys)
  BY RestEnds
<1>2. Part(asked[i], n) = asked[i]
  BY <1>1, PartFacts
<1>3. d \in F[i]
  BY <1>2, AfterValues
<1> QED BY <1>3 DEF Reached

(* What the next message is for. *)
NextDoes(F, d, c) ==
    \E i \in 1..Len(asked) : \E v \in F[i - 1] :
        /\ IsState(v)
        /\ \/ v = d /\ One(asked[i], batch[c + 1]) /\ Remaining(batch, asked, i, c + 1)
           \/ /\ asked[i] \in ElemsRequest
              /\ \E b \in (c + 1)..Len(batch), n \in 0..Len(asked[i].keys) :
                   \E m \in (n + 1)..Len(asked[i].keys) :
                      /\ d \in Asked!Results(v, Part(asked[i], n))
                      /\ Lists(batch[c + 1], asked[i].op, asked[i].set,
                               SubSeq(asked[i].keys, n + 1, m))
                      /\ Rest(batch, asked[i], m, c + 1, b)
                      /\ Remaining(batch, asked, i, b)

LEMMA NextOfList ==
    ASSUME NEW F, IsList(asked), IsList(batch), NEW d, NEW c \in Nat, NEW i \in 1..Len(asked),
           NEW v \in F[i - 1], IsState(v), asked[i] \in ElemsRequest,
           NEW n, NEW b \in (c + 1)..Len(batch),
           d \in Asked!Results(v, Part(asked[i], n)),
           Rest(batch, asked[i], n, c, b), Remaining(batch, asked, i, b)
    PROVE  NextDoes(F, d, c)
<1>1. b \in Nat /\ c < b
  BY DEF IsList
<1>2. n \in 0..Len(asked[i].keys)
  BY <1>1, RestStep
<1>3. PICK m \in (n + 1)..Len(asked[i].keys) :
        /\ Lists(batch[c + 1], asked[i].op, asked[i].set, SubSeq(asked[i].keys, n + 1, m))
        /\ Rest(batch, asked[i], m, c + 1, b)
  BY <1>1, RestStep
<1> QED BY <1>2, <1>3 DEF NextDoes

(* Between two requests, the next message is known. *)
LEMMA NextAfter ==
    ASSUME NEW F, IsAfter(F), IsList(asked), IsList(batch), NEW d, IsState(d), NEW c \in Nat,
           NEW i \in 0..Len(asked), Reached(F, d, i, c), c < Len(batch)
    PROVE  NextDoes(F, d, c)
<1>1. PICK j \in 0..Len(asked) :
             /\ Reached(F, d, j, c)
             /\ j = Len(asked) => c = Len(batch)
             /\ j # Len(asked) => \E b \in (c + 1)..Len(batch) :
                   Spells(batch, asked[j + 1], c, b) /\ Remaining(batch, asked, j + 1, b)
  BY NextRequest
<1>2. Len(asked) \in Nat /\ Len(batch) \in Nat
  BY DEF IsList
<1>3. PICK b \in (c + 1)..Len(batch) : /\ Spells(batch, asked[j + 1], c, b)
                                       /\ Remaining(batch, asked, j + 1, b)
  BY <1>1, <1>2
<1>4. j + 1 \in 1..Len(asked) /\ (j + 1) - 1 = j /\ d \in F[j]
  BY <1>1, <1>2 DEF Reached
<1>5. CASE b = c + 1 /\ One(asked[j + 1], batch[b])
  BY <1>3, <1>4, <1>5 DEF NextDoes
<1>6. CASE asked[j + 1] \in ElemsRequest /\ Rest(batch, asked[j + 1], 0, c, b)
  <2>1. d \in Asked!Results(d, Part(asked[j + 1], 0))
    <3>1. 0 \in 0..Len(asked[j + 1].keys)
      BY <1>6 DEF ElemsRequest
    <3>2. Part(asked[j + 1], 0).keys = <<>>
      BY <1>6, <3>1, PartFacts
    <3> QED BY <1>6, <3>1, <3>2, PartFacts, ElemsAsked
  <2> QED BY <1>3, <1>4, <1>6, <2>1, NextOfList
<1> QED BY <1>3, <1>5, <1>6 DEF Spells

(* So it is between two messages of one request. *)
LEMMA MessageIsDue ==
    ASSUME NEW F, IsAfter(F), IsList(asked), IsList(batch), NEW d, IsState(d), NEW c \in Nat,
           Performing(F, d, c), c < Len(batch)
    PROVE  NextDoes(F, d, c)
<1>1. CASE \E i \in 0..Len(asked) : Reached(F, d, i, c)
  BY <1>1, NextAfter
<1>2. CASE \E i \in 1..Len(asked) : Within(F, d, i, c)
  <2>1. PICK i \in 1..Len(asked) : Within(F, d, i, c)
    BY <1>2
  <2>2. PICK v \in F[i - 1], n \in 0..Len(asked[i].keys), b \in c..Len(batch) :
           /\ IsState(v) /\ asked[i] \in ElemsRequest
           /\ d \in Asked!Results(v, Part(asked[i], n))
           /\ Rest(batch, asked[i], n, c, b)
           /\ Remaining(batch, asked, i, b)
    BY <2>1 DEF Within
  <2>3. CASE b = c
    <3>1. i \in 0..Len(asked) /\ Reached(F, d, i, c)
      BY <2>2, <2>3, WithinEnds
    <3> QED BY <3>1, NextAfter
  <2>4. CASE b # c
    <3>1. b \in (c + 1)..Len(batch)
      BY <2>4 DEF IsList
    <3> QED BY <2>2, <3>1, NextOfList
  <2> QED BY <2>3, <2>4
<1> QED BY <1>1, <1>2 DEF Performing

(* After the last message, all that was asked for is done. *)
LEMMA AllDone ==
    ASSUME NEW F, IsAfter(F), IsList(asked), IsList(batch), NEW d,
           Performing(F, d, Len(batch))
    PROVE  d \in F[Len(asked)]
<1>1. Len(asked) \in Nat /\ Len(batch) \in Nat
  BY DEF IsList
<1>2. ASSUME NEW i \in 0..Len(asked), Reached(F, d, i, Len(batch)) PROVE d \in F[Len(asked)]
  <2>1. PICK j \in 0..Len(asked) :
             /\ Reached(F, d, j, Len(batch))
             /\ j # Len(asked) => \E b \in (Len(batch) + 1)..Len(batch) : TRUE
    BY <1>2, NextRequest
  <2>2. j = Len(asked)
    BY <1>1, <2>1
  <2> QED BY <2>1, <2>2 DEF Reached
<1>3. ASSUME NEW i \in 1..Len(asked), Within(F, d, i, Len(batch)) PROVE d \in F[Len(asked)]
  <2>1. PICK v \in F[i - 1], n \in 0..Len(asked[i].keys), b \in Len(batch)..Len(batch) :
           /\ IsState(v) /\ asked[i] \in ElemsRequest
           /\ d \in Asked!Results(v, Part(asked[i], n))
           /\ Rest(batch, asked[i], n, Len(batch), b)
           /\ Remaining(batch, asked, i, b)
    BY <1>3 DEF Within
  <2>2. b = Len(batch)
    BY <1>1
  <2>3. i \in 0..Len(asked) /\ Reached(F, d, i, Len(batch))
    BY <1>1, <2>1, <2>2, WithinEnds
  <2> QED BY <1>2, <2>3
<1> QED BY <1>2, <1>3 DEF Performing

(* A message brings the draft one step on, or shows a request that is not met. *)
LEMMA MessageIsPerformed ==
    ASSUME AllHandles, OwnFamilies, IsState(now), NEW F, IsAfter(F), IsList(asked), IsList(batch),
           NEW d, IsState(d), NEW c \in Nat, c < Len(batch), NextDoes(F, d, c)
    PROVE  /\ \A u \in Results(d, batch[c + 1]) : IsState(u) /\ Performing(F, u, c + 1)
           /\ Results(d, batch[c + 1]) = {} =>
                 \E i \in 1..Len(asked) : \E v \in F[i - 1] : Asked!Results(v, asked[i]) = {}
<1> DEFINE m == batch[c + 1]
<1>4. PICK i \in 1..Len(asked) : \E v \in F[i - 1] :
        /\ IsState(v)
        /\ \/ v = d /\ One(asked[i], m) /\ Remaining(batch, asked, i, c + 1)
           \/ /\ asked[i] \in ElemsRequest
              /\ \E b \in (c + 1)..Len(batch), n \in 0..Len(asked[i].keys) :
                   \E k \in (n + 1)..Len(asked[i].keys) :
                      /\ d \in Asked!Results(v, Part(asked[i], n))
                      /\ Lists(m, asked[i].op, asked[i].set, SubSeq(asked[i].keys, n + 1, k))
                      /\ Rest(batch, asked[i], k, c + 1, b)
                      /\ Remaining(batch, asked, i, b)
  BY DEF NextDoes
<1>1. PICK v \in F[i - 1] :
        /\ IsState(v)
        /\ \/ v = d /\ One(asked[i], m) /\ Remaining(batch, asked, i, c + 1)
           \/ /\ asked[i] \in ElemsRequest
              /\ \E b \in (c + 1)..Len(batch), n \in 0..Len(asked[i].keys) :
                   \E k \in (n + 1)..Len(asked[i].keys) :
                      /\ d \in Asked!Results(v, Part(asked[i], n))
                      /\ Lists(m, asked[i].op, asked[i].set, SubSeq(asked[i].keys, n + 1, k))
                      /\ Rest(batch, asked[i], k, c + 1, b)
                      /\ Remaining(batch, asked, i, b)
  BY <1>4
<1> HIDE DEF m
<1>2. CASE v = d /\ One(asked[i], m) /\ Remaining(batch, asked, i, c + 1)
  <2>1. /\ Results(d, m) \subseteq Asked!Results(d, asked[i])
        /\ Results(d, m) = {} => Asked!Results(d, asked[i]) = {}
    BY <1>2, OneDone DEF Does
  <2>2. ASSUME NEW u \in Results(d, m) PROVE IsState(u) /\ Performing(F, u, c + 1)
    <3>1. m.type \in Types
      BY <1>2, OneTyped
    <3>2. u \in F[i]
      BY <1>2, <2>1, AfterValues
    <3>3. IsState(u)
      BY <3>1, StateKept
    <3> QED BY <1>2, <3>2, <3>3 DEF Performing, Reached
  <2> QED BY <1>2, <2>1, <2>2 DEF m
<1>3. CASE /\ asked[i] \in ElemsRequest
           /\ \E b \in (c + 1)..Len(batch), n \in 0..Len(asked[i].keys) :
                \E k \in (n + 1)..Len(asked[i].keys) :
                   /\ d \in Asked!Results(v, Part(asked[i], n))
                   /\ Lists(m, asked[i].op, asked[i].set, SubSeq(asked[i].keys, n + 1, k))
                   /\ Rest(batch, asked[i], k, c + 1, b)
                   /\ Remaining(batch, asked, i, b)
  <2>4. PICK b \in (c + 1)..Len(batch), n \in 0..Len(asked[i].keys) :
             \E k \in (n + 1)..Len(asked[i].keys) :
                   /\ d \in Asked!Results(v, Part(asked[i], n))
                   /\ Lists(m, asked[i].op, asked[i].set, SubSeq(asked[i].keys, n + 1, k))
                   /\ Rest(batch, asked[i], k, c + 1, b)
                   /\ Remaining(batch, asked, i, b)
    BY <1>3
  <2>1. PICK k \in (n + 1)..Len(asked[i].keys) :
                   /\ d \in Asked!Results(v, Part(asked[i], n))
                   /\ Lists(m, asked[i].op, asked[i].set, SubSeq(asked[i].keys, n + 1, k))
                   /\ Rest(batch, asked[i], k, c + 1, b)
                   /\ Remaining(batch, asked, i, b)
    BY <2>4
  <2>2. /\ Results(d, m) = Asked!Results(v, Part(asked[i], k))
        /\ Results(d, m) = {} => Asked!Results(v, asked[i]) = {}
    <3>1. PICK r : r = asked[i]
      OBVIOUS
    <3>2. ListsPart(m, r, n, k) /\ IsState(v) /\ d \in Asked!Results(v, Part(r, n))
      BY <1>1, <1>3, <2>1, <3>1 DEF ListsPart
    <3>3. /\ Results(d, m) = Asked!Results(v, Part(r, k))
          /\ Results(d, m) = {} => Asked!Results(v, r) = {}
      BY <3>2, ElemsStep
    <3> QED BY <3>1, <3>3
  <2>3. ASSUME NEW u \in Results(d, m) PROVE IsState(u) /\ Performing(F, u, c + 1)
    <3>1. m.type \in Types
      BY <1>3, <2>1, ListTyped DEF ElemsRequest
    <3>2. IsState(u)
      BY <3>1, StateKept
    <3>3. k \in 0..Len(asked[i].keys)
      BY <1>3 DEF ElemsRequest
    <3>4. Within(F, u, i, c + 1)
      BY <1>1, <1>3, <2>1, <2>2, <3>3 DEF Within
    <3> QED BY <3>2, <3>4 DEF Performing
  <2> QED BY <2>2, <2>3 DEF m
<1> QED BY <1>1, <1>2, <1>3

----------------------------------------------------------------------------
(* The invariant                                                           *)

Inv ==
    /\ phase \in {"building", "running", "reading"}
    /\ local \in [Sets -> Seq(Keys)]
    /\ IsState(now)
    /\ IsList(asked) /\ IsList(batch) /\ Remaining(batch, asked, 0, 0)
    /\ phase = "running" =>
          /\ at \in 1..(Len(batch) + 1)
          /\ IsState(draft)
          /\ \A F : IsAfter(F) => Performing(F, draft, at - 1)
    /\ phase = "reading" =>
          /\ left \subseteq now.tables
          /\ \E kept \in {{}, before} :
                names = kept \cup Asked!NamesOf(now.tables \ left)

(* It stays so as long as batch, requests and state do. *)
LEMMA PerformingKept ==
    ASSUME now' = now, asked' = asked, batch' = batch, NEW F, NEW d, NEW c, Performing(F, d, c)
    PROVE  Performing(F, d, c)'
<1>1. \A v, r : Asked!Results(v, r)' = Asked!Results(v, r)
  BY ResultsKept
<1> QED BY <1>1 DEF Performing, Reached, Within

LEMMA EmptyLists == IsList(<<>>) /\ Remaining(<<>>, <<>>, 0, 0)
<1>1. IsList(<<>>)
  <2>1. <<>> \in Seq({})
    OBVIOUS
  <2> QED BY <2>1 DEF IsList
<1>2. Remaining(<<>>, <<>>, 0, 0)
  <2>1. Len(<<>>) = 0
    OBVIOUS
  <2>2. PICK f : f = [i \in 0..0 |-> 0]
    OBVIOUS
  <2>3. f \in [0..0 -> 0..0] /\ f[0] = 0
    BY <2>2
  <2>4. \A j \in (0 + 1)..0 : FALSE
    OBVIOUS
  <2> QED BY <2>1, <2>3, <2>4 DEF Remaining
<1> QED BY <1>1, <1>2

LEMMA InvInit == Init => Inv
<1> SUFFICES ASSUME Init PROVE Inv
  OBVIOUS
<1>1. batch = <<>> /\ asked = <<>> /\ phase = "building" /\ now \in Starts
  BY DEF Init
<1>2. IsState(now)
  BY <1>1, StartsAssumption
<1>3. local \in [Sets -> Seq(Keys)]
  <2>1. <<>> \in Seq(Keys)
    OBVIOUS
  <2> QED BY <2>1 DEF Init
<1> QED BY <1>1, <1>2, <1>3, EmptyLists DEF Inv

(* A call that puts messages: what its request asks for is spelled by them. *)
LEMMA PutKeeps ==
    ASSUME Inv, NEW X, IsList(X), NEW r, NEW flush, Puts(X, r, flush),
           Spells(batch \o X, r, Len(batch), Len(batch) + Len(X))
    PROVE  Inv'
<1>1. /\ phase = "building" /\ phase' = phase /\ local' = local /\ now' = now
      /\ batch' = batch \o X /\ asked' = Append(asked, r)
  BY DEF Puts, kernelVars, readVars
<1>2. IsList(batch) /\ IsList(asked) /\ Remaining(batch, asked, 0, 0)
  BY DEF Inv
<1>3. Remaining(batch', asked', 0, 0)
  <2>1. Remaining(batch \o X, Append(asked, r), 0, 0)
    BY <1>2, RemainingGrows
  <2> QED BY <1>1, <2>1
<1>4. IsList(batch') /\ IsList(asked')
  <2>1. PICK M, N, O : batch \in Seq(M) /\ X \in Seq(N) /\ asked \in Seq(O)
    BY <1>2 DEF IsList
  <2>2. batch \in Seq(M \cup N) /\ X \in Seq(M \cup N) /\ asked \in Seq(O \cup {r})
    BY <2>1
  <2>3. batch \o X \in Seq(M \cup N) /\ Append(asked, r) \in Seq(O \cup {r})
    BY <2>2
  <2> QED BY <1>1, <2>3 DEF IsList
<1>5. IsState(now')
  BY <1>1 DEF Inv
<1> QED BY <1>1, <1>3, <1>4, <1>5 DEF Inv

LEMMA OnePuts ==
    ASSUME Inv, NEW m, NEW r, One(r, m), NEW flush, Puts(<<m>>, r, flush)
    PROVE  Inv'
<1>1. IsList(batch)
  BY DEF Inv
<1>2. Spells(batch \o <<m>>, r, Len(batch), Len(batch) + 1)
  BY <1>1, OneMessage
<1>3. Len(<<m>>) = 1 /\ IsList(<<m>>)
  <2>1. <<m>> \in Seq({m})
    OBVIOUS
  <2> QED BY <2>1 DEF IsList
<1> QED BY <1>2, <1>3, PutKeeps

(* Every step keeps the invariant. *)
LEMMA InvNext ==
    ASSUME AllHandles, OwnFamilies, Inv, [Next]_vars
    PROVE  Inv'
<1>1. CASE UNCHANGED vars
  <2>1. /\ phase' = phase /\ local' = local /\ now' = now /\ asked' = asked /\ batch' = batch
        /\ at' = at /\ draft' = draft /\ left' = left /\ names' = names
        /\ before' = before
    BY <1>1 DEF vars, programVars, kernelVars, readVars
  <2>2. ASSUME phase = "running", NEW F, IsAfter(F)' PROVE Performing(F, draft, at - 1)'
    <3>1. IsAfter(F)
      BY <2>1, <2>2, AfterKept
    <3>2. Performing(F, draft, at - 1)
      BY <2>2, <3>1 DEF Inv
    <3>3. PICK u, c : u = draft /\ c = at - 1
      OBVIOUS
    <3>4. Performing(F, u, c)'
      BY <2>1, <3>2, <3>3, PerformingKept
    <3>5. u = draft' /\ c = at' - 1
      BY <2>1, <3>3
    <3> QED BY <3>4, <3>5
  <2> QED BY <2>1, <2>2 DEF Inv
<1>2. CASE Program
  <2>1. ASSUME NEW s \in Sets, NewSet(s) PROVE Inv'
    <3>1. /\ phase' = "building" /\ batch' = batch /\ asked' = asked /\ now' = now
          /\ local' = [local EXCEPT ![s] = <<>>]
      BY <2>1 DEF NewSet, kernelVars, readVars
    <3>2. local' \in [Sets -> Seq(Keys)]
      BY <3>1 DEF Inv
    <3> QED BY <3>1, <3>2 DEF Inv
  <2>2. ASSUME NEW s \in Sets, NEW k \in Keys, SetAdd(s, k) PROVE Inv'
    <3>1. /\ phase' = "building" /\ batch' = batch /\ asked' = asked /\ now' = now
          /\ local' = [local EXCEPT ![s] = Append(local[s], k)]
      BY <2>2 DEF SetAdd, kernelVars, readVars
    <3>2. local' \in [Sets -> Seq(Keys)]
      BY <3>1 DEF Inv
    <3> QED BY <3>1, <3>2 DEF Inv
  <2>3. ASSUME NEW t \in Tables, NEW op \in Op, PutTable(t, op) PROVE Inv'
    <3>1. PICK r : r = [op |-> op, what |-> "table", table |-> t]
      OBVIOUS
    <3>2. r \in TableRequest /\ r.op = op /\ r.table = t
      BY <3>1 DEF TableRequest
    <3>3. One(r, TableMsg(t, op)) /\ Puts(<<TableMsg(t, op)>>, r, None)
      BY <2>3, <3>1, <3>2 DEF PutTable, One
    <3> QED BY <3>3, OnePuts
  <2>4. ASSUME NEW c \in Chains, NEW hook \in BOOLEAN, NEW policy \in Policies \cup {None},
               NEW op \in Op, PutChain(c, hook, policy, op)
        PROVE  Inv'
    <3>1. PICK r : r = [op |-> op, what |-> "chain", chain |-> c, hook |-> hook,
                        policy |-> policy]
      OBVIOUS
    <3>2. r \in ChainRequest /\ ChainMsgOf(r) = ChainMsg(c, hook, policy, op)
      BY <3>1 DEF ChainRequest, ChainMsgOf
    <3>3. One(r, ChainMsg(c, hook, policy, op)) /\ Puts(<<ChainMsg(c, hook, policy, op)>>, r, None)
      BY <2>4, <3>1, <3>2 DEF PutChain, One
    <3> QED BY <3>3, OnePuts
  <2>5. ASSUME NEW c \in Chains, NEW position \in Known \cup {None},
               NEW handle \in Known \cup {None}, NEW op \in Op, PutRule(c, position, handle, op)
        PROVE  Inv'
    <3>1. PICK r : r = [op |-> op, what |-> "rule", chain |-> c, behind |-> position,
                        handle |-> handle]
      OBVIOUS
    <3>2. r \in RuleRequest /\ RuleMsgOf(r) = RuleMsg(c, position, handle, op)
      BY <3>1 DEF RuleRequest, RuleMsgOf
    <3>3. One(r, RuleMsg(c, position, handle, op)) /\ Puts(<<RuleMsg(c, position, handle, op)>>, r, None)
      BY <2>5, <3>1, <3>2 DEF PutRule, One
    <3> QED BY <3>3, OnePuts
  <2>6. ASSUME NEW s \in Sets, NEW op \in Op, PutSet(s, op) PROVE Inv'
    <3>1. PICK r : r = [op |-> op, what |-> "set", set |-> s]
      OBVIOUS
    <3>2. r \in SetRequest /\ r.op = op /\ r.set = s
      BY <3>1 DEF SetRequest
    <3>3. One(r, SetMsg(s, op)) /\ Puts(<<SetMsg(s, op)>>, r, None)
      BY <2>6, <3>1, <3>2 DEF PutSet, One
    <3> QED BY <3>3, OnePuts
  <2>7. ASSUME NEW s \in Sets, NEW op \in Op, PutElems(s, op) PROVE Inv'
    <3>1. PICK r : r = [op |-> op, what |-> "elements", set |-> s, keys |-> local[s]]
      OBVIOUS
    <3>2. PICK X : X = ElemsMsgs(s, op)
      OBVIOUS
    <3>3. IsList(batch) /\ local[s] \in Seq(Keys)
      BY DEF Inv
    <3>4. IsList(X) /\ Spells(batch \o X, r, Len(batch), Len(batch) + Len(X))
      BY <3>1, <3>2, <3>3, ElemsSpelled
    <3>5. Puts(X, r, None)
      BY <2>7, <3>1, <3>2 DEF PutElems
    <3> QED BY <3>4, <3>5, PutKeeps
  <2>8. ASSUME NEW s \in Sets, PutFlush(s) PROVE Inv'
    <3>1. CASE local[s] = <<>>
      <4>1. PICK r : r = [op |-> "Del", what |-> "contents", set |-> s]
        OBVIOUS
      <4>2. r \in ContentsRequest /\ r.set = s
        BY <4>1 DEF ContentsRequest
      <4>3. FlushMsg(s) = FlushAll(s)
        BY <3>1, FlushMsgAll
      <4>4. One(r, FlushMsg(s)) /\ Puts(<<FlushMsg(s)>>, r, s)
        BY <2>8, <3>1, <4>1, <4>2, <4>3 DEF PutFlush, One
      <4> QED BY <4>4, OnePuts
    <3>2. CASE local[s] # <<>>
      <4>1. PICK r : r = [op |-> "Del", what |-> "elements", set |-> s, keys |-> local[s]]
        OBVIOUS
      <4>2. PICK m : m = FlushMsg(s)
        OBVIOUS
      <4>3. IsList(batch) /\ local[s] \in Seq(Keys)
        BY DEF Inv
      <4>4. Spells(batch \o <<m>>, r, Len(batch), Len(batch) + 1)
        BY <3>2, <4>1, <4>2, <4>3, FlushSpelled
      <4>5. Puts(<<m>>, r, s)
        BY <2>8, <3>2, <4>1, <4>2 DEF PutFlush
      <4>6. Len(<<m>>) = 1 /\ IsList(<<m>>)
        <5>1. <<m>> \in Seq({m})
          OBVIOUS
        <5> QED BY <5>1 DEF IsList
      <4> QED BY <4>4, <4>5, <4>6, PutKeeps
    <3> QED BY <3>1, <3>2
  <2>9. CASE Send
    <3>1. /\ phase' = "running" /\ at' = 1 /\ draft' = now /\ now' = now
          /\ local' = local /\ batch' = batch /\ asked' = asked
      BY <2>9 DEF Send, programVars
    <3>2. IsList(batch) /\ IsList(asked) /\ Remaining(batch, asked, 0, 0) /\ IsState(now)
      BY DEF Inv
    <3>3. at' \in 1..(Len(batch') + 1)
      BY <3>1, <3>2 DEF IsList
    <3>4. ASSUME NEW F, IsAfter(F)' PROVE Performing(F, draft, at - 1)'
      <4>1. IsAfter(F)
        BY <3>1, <3>4, AfterKept
      <4>2. PICK u, c : u = now /\ c = 0
        OBVIOUS
      <4>3. F[0] = {now} /\ 0 \in 0..Len(asked)
        BY <3>2, <4>1, AfterValues DEF IsList
      <4>4. Performing(F, u, c)
        BY <3>2, <4>2, <4>3 DEF Performing, Reached
      <4>5. Performing(F, u, c)'
        BY <3>1, <4>4, PerformingKept
      <4>6. u = draft' /\ c = at' - 1
        BY <3>1, <4>2
      <4> QED BY <4>5, <4>6
    <3> QED BY <3>1, <3>3, <3>4 DEF Inv
  <2>10. ASSUME NEW kept \in {{}, names}, GetTables(kept) PROVE Inv'
    <3>1. /\ phase' = "reading" /\ left' = now.tables /\ names' = kept /\ now' = now
          /\ before' = names /\ local' = local /\ batch' = batch /\ asked' = asked
      BY <2>10 DEF GetTables, kernelVars
    <3>2. names' = kept \cup Asked!NamesOf(now'.tables \ left') /\ kept \in {{}, before'}
      BY <3>1 DEF Asked!NamesOf
    <3> QED BY <3>1, <3>2 DEF Inv
  <2>11. ASSUME NEW t \in left, GetTablesCb(t) PROVE Inv'
    <3>1. /\ phase = "reading" /\ phase' = phase /\ left' = left \ {t}
          /\ names' = names \cup {t[2]} /\ now' = now /\ before' = before
          /\ local' = local /\ batch' = batch /\ asked' = asked
      BY <2>11 DEF GetTablesCb, programVars, kernelVars
    <3>2. PICK kept \in {{}, before} : names = kept \cup Asked!NamesOf(now.tables \ left)
      BY <3>1 DEF Inv
    <3>3. left \subseteq now.tables
      BY <3>1 DEF Inv
    <3>4. Asked!NamesOf(now.tables \ left') = Asked!NamesOf(now.tables \ left) \cup {t[2]}
      <4>1. now.tables \ left' = (now.tables \ left) \cup {t}
        BY <3>1, <3>3
      <4> QED BY <4>1 DEF Asked!NamesOf
    <3>5. names' = kept \cup Asked!NamesOf(now'.tables \ left') /\ kept \in {{}, before'}
      BY <3>1, <3>2, <3>4
    <3> QED BY <3>1, <3>3, <3>5 DEF Inv
  <2>12. CASE GetTablesFails
    <3>1. /\ phase' = "building" /\ now' = now
          /\ local' = local /\ batch' = batch /\ asked' = asked
      BY <2>12 DEF GetTablesFails, programVars, kernelVars
    <3> QED BY <3>1 DEF Inv
  <2>13. CASE TablesRead
    <3>1. /\ phase' = "building" /\ now' = now
          /\ local' = local /\ batch' = batch /\ asked' = asked
      BY <2>13 DEF TablesRead, programVars, kernelVars
    <3> QED BY <3>1 DEF Inv
  <2> QED BY <1>2, <2>1, <2>2, <2>3, <2>4, <2>5, <2>6, <2>7, <2>8, <2>9, <2>10, <2>11, <2>12,
             <2>13 DEF Program
<1>3. CASE KernelPerforms
  <2>1. /\ phase = "running" /\ phase' = phase /\ at <= Len(batch) /\ at' = at + 1
        /\ draft' \in Results(draft, batch[at]) /\ now' = now
        /\ local' = local /\ batch' = batch /\ asked' = asked
    BY <1>3 DEF KernelPerforms, programVars, readVars
  <2>2. /\ IsList(batch) /\ IsList(asked) /\ IsState(now) /\ IsState(draft)
        /\ at \in 1..(Len(batch) + 1) /\ Len(batch) \in Nat
        /\ \A F : IsAfter(F) => Performing(F, draft, at - 1)
    BY <2>1 DEF Inv, IsList
  <2>3. PICK d, u, c : d = draft /\ u = draft' /\ c = at - 1
    OBVIOUS
  <2>4. c \in Nat /\ c < Len(batch) /\ at = c + 1 /\ c + 1 = at' - 1
    BY <2>1, <2>2, <2>3
  <2>5. ASSUME NEW F, IsAfter(F)
        PROVE  IsState(u) /\ Performing(F, u, c + 1)
    <3>1. NextDoes(F, d, c)
      BY <2>2, <2>3, <2>4, <2>5, MessageIsDue
    <3>2. u \in Results(d, batch[c + 1])
      BY <2>1, <2>3, <2>4
    <3> QED BY <2>2, <2>3, <2>4, <2>5, <3>1, <3>2, MessageIsPerformed
  <2>6. IsState(draft')
    <3>1. IsAfter(Asked!After)
      BY <2>2, AfterIs DEF IsList
    <3> QED BY <2>3, <2>5, <3>1
  <2>7. ASSUME NEW F, IsAfter(F)' PROVE Performing(F, draft, at - 1)'
    <3>1. IsAfter(F)
      BY <2>1, <2>7, AfterKept
    <3>2. PICK e : e = c + 1
      OBVIOUS
    <3>3. Performing(F, u, e)
      BY <2>5, <3>1, <3>2
    <3>4. Performing(F, u, e)'
      BY <2>1, <3>3, PerformingKept
    <3>5. u = draft' /\ e = at' - 1
      BY <2>3, <2>4, <3>2
    <3> QED BY <3>4, <3>5
  <2>8. at' \in 1..(Len(batch') + 1)
    BY <2>1, <2>2
  <2> QED BY <2>1, <2>6, <2>7, <2>8 DEF Inv
<1>4. CASE KernelCommits
  <2>1. /\ phase = "running" /\ now' = draft /\ phase' = "building" /\ batch' = <<>>
        /\ asked' = <<>> /\ local' = local
    BY <1>4 DEF KernelCommits, Ends, readVars
  <2> QED BY <2>1, EmptyLists DEF Inv
<1>5. CASE KernelAborts
  <2>1. /\ phase = "running" /\ now' = now /\ phase' = "building" /\ batch' = <<>>
        /\ asked' = <<>> /\ local' = local
    BY <1>5 DEF KernelAborts, Ends, readVars
  <2> QED BY <2>1, EmptyLists DEF Inv
<1> QED BY <1>1, <1>2, <1>3, <1>4, <1>5 DEF Next, Kernel

(***************************************************************************)
(* Between two batches, and while one is put together, its messages spell  *)
(* what the program asked for, request by request; while netfilter         *)
(* performs one, the draft is what the requests before the next message    *)
(* may have made.                                                          *)
(***************************************************************************)
THEOREM StoreInvariant ==
    ASSUME AllHandles, OwnFamilies
    PROVE  Spec => []Inv
<1>1. Inv /\ [Next]_vars => Inv'
  BY InvNext
<1> QED BY InvInit, <1>1, PTL DEF Spec

----------------------------------------------------------------------------
(* The batches do what was asked for                                       *)

(* A call that puts messages is a request. *)
LEMMA PutsAsks ==
    ASSUME Inv, NEW X, NEW r, NEW flush, Puts(X, r, flush)
    PROVE  Asked!Next
<1>1. /\ phase = "building" /\ phase' = phase /\ now' = now /\ told' = None
      /\ asked' = Append(asked, r) /\ names' = names
  BY DEF Puts, kernelVars, readVars
<1>2. r \in Asked!ToSet(asked')
  <2>1. PICK M : asked \in Seq(M)
    BY DEF Inv, IsList
  <2>2. asked \in Seq(M \cup {r}) /\ asked' = Append(asked, r)
    BY <1>1, <2>1
  <2>3. Len(asked) + 1 \in DOMAIN asked' /\ asked'[Len(asked) + 1] = r
    BY <2>2
  <2> QED BY <2>3 DEF Asked!ToSet
<1>3. Asked!Ask(r)
  BY <1>1 DEF Asked!Ask
<1> QED BY <1>2, <1>3 DEF Asked!Next

(* Every step is one of Inventory, or none. *)
LEMMA StepIsAsked ==
    ASSUME AllHandles, OwnFamilies, Inv, [Next]_vars
    PROVE  [Asked!Next]_(Asked!vars)
<1> USE DEF Asked!vars
<1>1. CASE UNCHANGED vars
  BY <1>1 DEF vars, programVars, kernelVars, readVars
<1>2. CASE Program
  <2>1. ASSUME NEW s \in Sets, NewSet(s) PROVE UNCHANGED Asked!vars
    BY <2>1 DEF NewSet, kernelVars, readVars
  <2>2. ASSUME NEW s \in Sets, NEW k \in Keys, SetAdd(s, k) PROVE UNCHANGED Asked!vars
    BY <2>2 DEF SetAdd, kernelVars, readVars
  <2>3. ASSUME NEW t \in Tables, NEW op \in Op, PutTable(t, op) PROVE Asked!Next
    BY <2>3, PutsAsks DEF PutTable
  <2>4. ASSUME NEW c \in Chains, NEW hook \in BOOLEAN, NEW policy \in Policies \cup {None},
               NEW op \in Op, PutChain(c, hook, policy, op)
        PROVE  Asked!Next
    BY <2>4, PutsAsks DEF PutChain
  <2>5. ASSUME NEW c \in Chains, NEW position \in Known \cup {None},
               NEW handle \in Known \cup {None}, NEW op \in Op, PutRule(c, position, handle, op)
        PROVE  Asked!Next
    BY <2>5, PutsAsks DEF PutRule
  <2>6. ASSUME NEW s \in Sets, NEW op \in Op, PutSet(s, op) PROVE Asked!Next
    BY <2>6, PutsAsks DEF PutSet
  <2>7. ASSUME NEW s \in Sets, NEW op \in Op, PutElems(s, op) PROVE Asked!Next
    BY <2>7, PutsAsks DEF PutElems
  <2>8. ASSUME NEW s \in Sets, PutFlush(s) PROVE Asked!Next
    BY <2>8, PutsAsks DEF PutFlush
  <2>9. CASE Send
    BY <2>9 DEF Send, programVars, readVars
  <2>10. ASSUME NEW kept \in {{}, names}, GetTables(kept) PROVE UNCHANGED Asked!vars
    BY <2>10 DEF GetTables, kernelVars
  <2>11. ASSUME NEW t \in left, GetTablesCb(t) PROVE UNCHANGED Asked!vars
    BY <2>11 DEF GetTablesCb, programVars, kernelVars
  <2>12. CASE GetTablesFails
    <3>1. /\ phase = "reading" /\ phase' = "building" /\ left # {} /\ names' = names
          /\ now' = now /\ asked' = asked /\ told' = "failed"
      BY <2>12 DEF GetTablesFails, programVars, kernelVars
    <3>2. left \subseteq now.tables
      BY <3>1 DEF Inv
    <3>3. PICK kept \in {{}, before} : names = kept \cup Asked!NamesOf(now.tables \ left)
      BY <3>1 DEF Inv
    <3>4. Asked!ReadFails(kept)
      <4>1. /\ now.tables \ left \in SUBSET now.tables
            /\ now.tables \ left # now.tables
        BY <3>1, <3>2
      <4> QED BY <3>1, <3>3, <4>1 DEF Asked!ReadFails
    <3> QED BY <3>1, <3>3, <3>4 DEF Asked!Next
  <2>13. CASE TablesRead
    <3>1. /\ phase = "reading" /\ phase' = "building" /\ left = {} /\ names' = names
          /\ now' = now /\ asked' = asked /\ told' = "read"
      BY <2>13 DEF TablesRead, programVars, kernelVars
    <3>2. PICK kept \in {{}, before} : names = kept \cup Asked!NamesOf(now.tables \ left)
      BY <3>1 DEF Inv
    <3>3. Asked!ReadNames(kept)
      <4>1. now.tables \ left = now.tables
        BY <3>1
      <4> QED BY <3>1, <3>2, <4>1 DEF Asked!ReadNames
    <3> QED BY <3>1, <3>2, <3>3 DEF Asked!Next
  <2> QED BY <1>2, <2>1, <2>2, <2>3, <2>4, <2>5, <2>6, <2>7, <2>8, <2>9, <2>10, <2>11, <2>12,
             <2>13 DEF Program
<1>3. CASE KernelPerforms
  BY <1>3 DEF KernelPerforms, programVars, readVars
<1>4. CASE KernelCommits
  <2>1. /\ phase = "running" /\ at > Len(batch) /\ now' = draft /\ phase' = "building"
        /\ asked' = <<>> /\ told' = "done" /\ names' = names
    BY <1>4 DEF KernelCommits, Ends, readVars
  <2>2. /\ IsList(batch) /\ IsList(asked) /\ Len(batch) \in Nat /\ Len(asked) \in Nat
        /\ at \in 1..(Len(batch) + 1) /\ \A F : IsAfter(F) => Performing(F, draft, at - 1)
    BY <2>1 DEF Inv, IsList
  <2>3. PICK F : F = Asked!After
    OBVIOUS
  <2>4. IsAfter(F)
    BY <2>2, <2>3, AfterIs
  <2>5. PICK d : d = draft
    OBVIOUS
  <2>6. Performing(F, d, Len(batch))
    <3>1. at - 1 = Len(batch)
      BY <2>1, <2>2
    <3> QED BY <2>2, <2>4, <2>5, <3>1
  <2>7. d \in F[Len(asked)]
    BY <2>2, <2>4, <2>6, AllDone
  <2>8. now' \in Asked!Outcomes
    BY <2>1, <2>3, <2>5, <2>7 DEF Asked!Outcomes
  <2>9. Asked!Perform
    BY <2>1, <2>8 DEF Asked!Perform
  <2> QED BY <2>9 DEF Asked!Next
<1>5. CASE KernelAborts
  <2>1. /\ phase = "running" /\ at <= Len(batch) /\ Results(draft, batch[at]) = {}
        /\ now' = now /\ phase' = "building"
        /\ asked' = <<>> /\ told' = "refused" /\ names' = names
    BY <1>5 DEF KernelAborts, Ends, readVars
  <2>2. /\ IsList(batch) /\ IsList(asked) /\ IsState(now) /\ IsState(draft)
        /\ at \in 1..(Len(batch) + 1) /\ Len(batch) \in Nat /\ Len(asked) \in Nat
        /\ \A F : IsAfter(F) => Performing(F, draft, at - 1)
    BY <2>1 DEF Inv, IsList
  <2>3. PICK F : F = Asked!After
    OBVIOUS
  <2>4. IsAfter(F)
    BY <2>2, <2>3, AfterIs
  <2>5. PICK d, c : d = draft /\ c = at - 1
    OBVIOUS
  <2>6. c \in Nat /\ c < Len(batch) /\ c + 1 = at
    BY <2>1, <2>2, <2>5
  <2>7. NextDoes(F, d, c)
    BY <2>2, <2>4, <2>5, <2>6, MessageIsDue
  <2>8. Results(d, batch[c + 1]) = {}
    BY <2>1, <2>5, <2>6
  <2>9. \E i \in 1..Len(asked) : \E v \in F[i - 1] : Asked!Results(v, asked[i]) = {}
    BY <2>2, <2>4, <2>5, <2>6, <2>7, <2>8, MessageIsPerformed
  <2>10. Asked!Unmet
    BY <2>3, <2>9 DEF Asked!Unmet
  <2>11. Asked!Refuse
    BY <2>1, <2>10 DEF Asked!Refuse
  <2> QED BY <2>11 DEF Asked!Next
<1> QED BY <1>1, <1>2, <1>3, <1>4, <1>5 DEF Next, Kernel

(***************************************************************************)
(* InventorySpec for all tables, chains, sets, keys and numbers of         *)
(* elements in a message: netfilter holds what the program asked for, all  *)
(* of it in order or nothing, if it numbers rules from 1 on without end    *)
(* and a set has the family of its table.                                  *)
(* A dump that ends adds the names of all tables to the caller's set, one  *)
(* that fails those of some.                                               *)
(***************************************************************************)
THEOREM ImplementsInventory ==
    ASSUME AllHandles, OwnFamilies
    PROVE  Spec => InventorySpec
<1>1. Init => Asked!Init
  BY DEF Init, Asked!Init
<1>2. Inv /\ [Next]_vars => [Asked!Next]_(Asked!vars)
  BY StepIsAsked
<1> QED BY <1>1, <1>2, StoreInvariant, PTL DEF Spec, InventorySpec, Asked!Spec
=============================================================================
