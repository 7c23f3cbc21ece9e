------------------------------ MODULE SetKeys ------------------------------
(***************************************************************************)
(* Building a set (nftnl/src/set/mod.rs, set/kind.rs, datatype.rs).        *)
(*                                                                         *)
(* A Set has a key type and a kind, both type parameters and so constants  *)
(* here: a key is one field or a tuple of two, a kind is simple or         *)
(* interval, a set or a map.  add() turns the keys and the datum it is     *)
(* given into elements.  What the elements mean is decided by netfilter:   *)
(* an interval set is searched for the closest element not after a key,    *)
(* and the key is in the set if that element starts an interval.           *)
(***************************************************************************)
EXTENDS ByteOrder, Concatenation

CONSTANTS
    FieldLens,  \* K::LEN of each field of the key type
    Interval,   \* SetKind::INTERVAL
    Map,        \* SetKind::MAP
    Data,       \* the data a program maps keys to
    MaxAdds     \* bound: calls of add

(***************************************************************************)
(* One field or a pair of them.  netfilter describes an interval of a      *)
(* concatenation otherwise than an interval of a single field, in a way    *)
(* that is not modelled.                                                   *)
(***************************************************************************)
ASSUME KeyTypeAssumption ==
    /\ FieldLens \in Seq(Nat \ {0})
    /\ Len(FieldLens) \in {1, 2}
    /\ Interval \in BOOLEAN /\ Map \in BOOLEAN
    /\ Interval => Len(FieldLens) = 1

ASSUME MaxAddsAssumption == MaxAdds \in Nat

VARIABLES
    elems,  \* the element list of the libnftnl set
    asked   \* the ranges the program asked for, a single key being one

vars == <<elems, asked>>

(***************************************************************************)
(* A key is the octets of its fields: Ipv4Addr::octets, u16::to_be_bytes.  *)
(***************************************************************************)
Keys == {k \in [DOMAIN FieldLens -> UNION {Bytes(FieldLens[i]) : i \in DOMAIN FieldLens}] :
            \A i \in DOMAIN FieldLens : k[i] \in Bytes(FieldLens[i])}

----------------------------------------------------------------------------
(* The key type: Data::LEN, Data::concat_bytes, Data::data                 *)

Concat == Len(FieldLens) = 2

KeyLen ==
    IF Concat THEN Padded(FieldLens[1]) + Padded(FieldLens[2]) ELSE FieldLens[1]

(* The concat descriptor netfilter gets; a key of one field has none. *)
Desc == IF Concat THEN FieldLens ELSE <<>>

KeyBytes(k) == IF Concat THEN Pad(k[1]) \o Pad(k[2]) ELSE k[1]

----------------------------------------------------------------------------
(* The datum: Data::write_elem                                             *)

(***************************************************************************)
(* A datum is a plain value, whose bytes are arg, or a verdict; the        *)
(* verdicts that jump carry a chain as arg.                                *)
(***************************************************************************)
NoDatum == [tag |-> "none", arg |-> "none"]

Datums == IF Map THEN Data ELSE {NoDatum}

VerdictCode ==
    [drop |-> 0, accept |-> 1, queue |-> 3, continue |-> -1, break |-> -2,
     jump |-> -3, goto |-> -4, return |-> -5, reject |-> 0]

Jumps == {"jump", "goto"}

(* Mutant: The chain of a verdict is left out. *)
WriteElemNoChain(d) ==
    IF d.tag = "none" THEN {}
    ELSE IF d.tag = "value" THEN {<<"DATA", d.arg>>}
    ELSE {<<"VERDICT", VerdictCode[d.tag]>>}

(* The attributes a datum puts into its element, each with its value. *)
WriteElem(d) ==
    IF d.tag = "none" THEN {}
    ELSE IF d.tag = "value" THEN {<<"DATA", d.arg>>}
    ELSE {<<"VERDICT", VerdictCode[d.tag]>>}
         \cup (IF d.tag \in Jumps THEN {<<"CHAIN", d.arg>>} ELSE {})

Elem == [key : Bytes(KeyLen), end : BOOLEAN,
         attrs : {WriteElem(d) : d \in Datums} \cup {{}}]

Ask == [from : Keys, to : Keys, datum : Datums]

----------------------------------------------------------------------------
(* Set::add of the four kinds                                              *)

Init == elems = <<>> /\ asked = <<>>

Start(k, d) == [key |-> KeyBytes(k), end |-> FALSE, attrs |-> WriteElem(d)]

End(bytes) == [key |-> bytes, end |-> TRUE, attrs |-> {}]

Asks(from, to, d) ==
    /\ Len(asked) < MaxAdds
    /\ asked' = Append(asked, [from |-> from, to |-> to, datum |-> d])

(* SimpleSet::add and SimpleMap::add *)
AddKey(k, d) ==
    /\ ~Interval
    /\ Asks(k, k, d)
    /\ elems' = Append(elems, Start(k, d))

(* Mutant: An end is taken to be inclusive. *)
AddRangeInclusive(from, to, d) ==
    /\ Interval
    /\ Asks(from, to, d)
    /\ elems' = Append(Append(elems, Start(from, d)), End(KeyBytes(to)))

(* Mutant: The missing successor of the greatest key is not noticed. *)
AddRangeAlwaysCloses(from, to, d) ==
    /\ Interval
    /\ Asks(from, to, d)
    /\ elems' = Append(Append(elems, Start(from, d)),
                       End(IncrementBe(KeyBytes(to))))

(* IntervalSet::add and IntervalMap::add, whatever from and to are. *)
AddRange(from, to, d) ==
    LET next == IncrementBe(KeyBytes(to))
        opened == Append(elems, Start(from, d))
    IN  /\ Interval
        /\ Asks(from, to, d)
        /\ elems' = IF next = None THEN opened ELSE Append(opened, End(next))

AddExact(k, d) == AddRange(k, k, d)

Next ==
    \/ \E k \in Keys, d \in Datums : AddKey(k, d)
    \/ \E from, to \in Keys, d \in Datums : AddRange(from, to, d)
    \/ \E k \in Keys, d \in Datums : AddExact(k, d)

Spec == Init /\ [][Next]_vars

----------------------------------------------------------------------------
(* netfilter, external                                                     *)

(***************************************************************************)
(* The element an interval set finds for a key: no other is closer, and at *)
(* one place the start of an interval goes before the end of another.      *)
(***************************************************************************)
Closest(i, b) ==
    /\ AtMost(elems[i].key, b)
    /\ \A j \in DOMAIN elems :
          AtMost(elems[j].key, b) => AtMost(elems[j].key, elems[i].key)

Found(i, b) == IF Interval THEN Closest(i, b) ELSE elems[i].key = b

(* The attributes of the elements a key finds; none if it is not matched. *)
Lookup(b) ==
    {elems[i].attrs : i \in {j \in DOMAIN elems : ~elems[j].end /\ Found(j, b)}}

(* The verdicts of netfilter, by their codes. *)
NfVerdict(code) ==
    CASE code = 0  -> "drop"  [] code = 1  -> "accept"   [] code = 3  -> "queue"
      [] code = -1 -> "continue" [] code = -2 -> "break" [] code = -3 -> "jump"
      [] code = -4 -> "goto"  [] code = -5 -> "return"

Attr(attrs, name) == {p[2] : p \in {q \in attrs : q[1] = name}}

(* What netfilter makes of the attributes of an element. *)
Reads(attrs) ==
    [value |-> Attr(attrs, "DATA"),
     verdict |-> {NfVerdict(c) : c \in Attr(attrs, "VERDICT")},
     chain |-> Attr(attrs, "CHAIN")]

(* How it cuts a key into the fields of a descriptor, each padded. *)
Cut(b) ==
    IF Desc = <<>> THEN <<b>>
    ELSE <<SubSeq(b, 1, Desc[1]),
           SubSeq(b, Padded(Desc[1]) + 1, Padded(Desc[1]) + Desc[2])>>

----------------------------------------------------------------------------
(* Properties                                                              *)

(***************************************************************************)
(* Every element is well formed: its key has the length the set announces. *)
(***************************************************************************)
TypeOK ==
    /\ elems \in Seq(Elem)
    /\ asked \in Seq(Ask)

InRange(b, r) == AtMost(KeyBytes(r.from), b) /\ AtMost(b, KeyBytes(r.to))

(* The ranges asked for are not empty and do not overlap. *)
Disjoint ==
    /\ \A i \in DOMAIN asked : AtMost(KeyBytes(asked[i].from), KeyBytes(asked[i].to))
    /\ \A i, j \in DOMAIN asked : \A b \in Bytes(KeyLen) :
          InRange(b, asked[i]) /\ InRange(b, asked[j]) => i = j

(***************************************************************************)
(* netfilter answers every key, also one no program can ask with, as the   *)
(* range that contains it says, and only those: ranges that touch do not   *)
(* hide one another, a range up to the greatest key is open, and no gap is *)
(* filled.                                                                 *)
(***************************************************************************)
RangesMatched ==
    Disjoint =>
      \A b \in Bytes(KeyLen) :
        Lookup(b) = {WriteElem(asked[i].datum) :
                        i \in {j \in DOMAIN asked : InRange(b, asked[j])}}

(***************************************************************************)
(* netfilter, cutting the keys by the descriptor of the set, finds the     *)
(* fields the program gave.                                                *)
(***************************************************************************)
DescriptionFitsKeys ==
    \A i \in DOMAIN elems :
        elems[i].end \/ \E j \in DOMAIN asked : Cut(elems[i].key) = asked[j].from

(***************************************************************************)
(* Verdict::Reject is documented as "Reject the packet and return a        *)
(* message" and Verdict::Drop as "Silently drop the packet": a key mapped  *)
(* to the one is not answered by the other.                                *)
(***************************************************************************)
RejectIsNotDrop ==
    Disjoint =>
      \A i \in DOMAIN asked :
        asked[i].datum.tag = "reject" =>
          \A b \in Bytes(KeyLen) : \A a \in Lookup(b) :
            InRange(b, asked[i]) => Reads(a).verdict # {"drop"}

----------------------------------------------------------------------------
(* The promise: numbers in order, and data as they were meant              *)

KeyNumber(k) == IF Concat THEN Number(k[1] \o k[2]) ELSE Number(k[1])

KeyLeq(k, l) == KeyNumber(k) <= KeyNumber(l)

Meant(d) ==
    [value |-> IF d.tag = "value" THEN {d.arg} ELSE {},
     verdict |-> IF d.tag \in {"none", "value"} THEN {} ELSE {d.tag},
     chain |-> IF d.tag \in Jumps THEN {d.arg} ELSE {}]

Promise == INSTANCE RangeMap WITH
    Values <- {Meant(d) : d \in Datums},
    Leq <- KeyLeq,
    asked <- [i \in DOMAIN asked |->
                [from |-> asked[i].from, to |-> asked[i].to,
                 value |-> Meant(asked[i].datum)]],
    answer <- [k \in Keys |-> {Reads(a) : a \in Lookup(KeyBytes(k))}]

(***************************************************************************)
(* A set is the map from the keys of its ranges, in the order of the       *)
(* numbers they stand for, to the data it was given, and each add changes  *)
(* the answers to the keys it names and to no others.                      *)
(***************************************************************************)
RangeMapSpec == Promise!Spec
=============================================================================
