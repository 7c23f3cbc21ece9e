------------------------------ MODULE SetElems ------------------------------
(***************************************************************************)
(* Sending the elements of a set (nftnl/src/set/mod.rs).                   *)
(*                                                                         *)
(* A program fills a Set, takes its elems_iter() and writes every          *)
(* SetElemsMsg the iterator hands out.  A message carries its elements in  *)
(* one nested attribute whose length field has 16 bits, so write() packs   *)
(* elements until one does not fit, undoes it by shrinking the message,    *)
(* and leaves the rest to the next message.  The iterator and all the      *)
(* messages it handed out share two cells, `next' and `ret'.               *)
(*                                                                         *)
(* The loop of write() is one step per push and one per outcome of the     *)
(* length test, because the message is longest between the two.            *)
(***************************************************************************)
EXTENDS Integers, Sequences

CONSTANTS
    ElemLens,   \* the serialized lengths of an element attribute
    NestHdr,    \* length of the header of the element nest
    NestMax,    \* u16::MAX: the longest nest its length field can describe
    MsgHdr,     \* bytes of a message before the nest: headers, name, id, table
    MsgMax,     \* nft_nlmsg_maxsize(): the room a message may be written into
    MaxElems,   \* bound: elements of the set
    MaxHeld     \* bound: messages handed out and not yet written

(***************************************************************************)
(* An interval's two elements fit into one message.  A key is at most 64   *)
(* bytes and a datum at most a verdict with a chain name, against 65535.   *)
(***************************************************************************)
ASSUME LengthAssumption ==
    /\ NestHdr \in Nat /\ NestMax \in Nat /\ MsgHdr \in Nat /\ MsgMax \in Nat
    /\ ElemLens \subseteq Nat \ {0}
    /\ \A l, m \in ElemLens : NestHdr + l + m <= NestMax

(***************************************************************************)
(* The slack of nft_nlmsg_maxsize() over u16::MAX, one memory page, holds  *)
(* the fixed part of a message and the one element that overflows.         *)
(***************************************************************************)
ASSUME SlackAssumption == \A l \in ElemLens : MsgHdr + NestMax + l <= MsgMax

ASSUME BoundAssumption == MaxElems \in Nat /\ MaxHeld \in Nat \ {0}

VARIABLES
    elems,      \* the set's element list, and the iterator's copy of it
    pc,         \* what the program does: see Phase
    next, ret,  \* the shared cells: next element to send, go on if positive
    held,       \* messages handed out and not yet written
    idx,        \* write(): the element at hand, counted from 0
    prevLen,    \* write(): prev_len, or NoLen for None
    nest,       \* the element attributes in the message being written
    nestLen,    \* len_so_far() of that message
    msgs        \* the messages written, in order

vars == <<elems, pc, next, ret, held, idx, prevLen, nest, nestLen, msgs>>
writeVars == <<idx, prevLen, nest, nestLen>>

NoLen == 0

Phase == {"adding", "iterating", "push", "test", "done"}

Elem == [len : ElemLens, end : BOOLEAN]

(* The element at index i, counted from 0 as in the code. *)
At(i) == elems[i + 1]

(* Element i opens an interval that element i+1 closes. *)
Opens(i) == i + 1 < Len(elems) /\ At(i + 1).end

(* A serialized element occupies the bytes [from, to) of the nest. *)
Attr == [elem : Nat, from : Nat, to : Nat]

(* A written message: the attributes in its nest and the nest's length. *)
Msg == [attrs : SUBSET Attr, len : Nat]

Init ==
    /\ elems = <<>>
    /\ pc = "adding"
    /\ next = 0 /\ ret = 1 /\ held = 0
    /\ idx = 0 /\ prevLen = NoLen /\ nest = {} /\ nestLen = 0
    /\ msgs = <<>>

----------------------------------------------------------------------------
(* Set::add                                                                *)

(***************************************************************************)
(* A key, or an interval whose upper bound has no successor: increment_be  *)
(* returns None and no end element is added.                               *)
(***************************************************************************)
AddElement(l) ==
    /\ pc = "adding"
    /\ Len(elems) < MaxElems
    /\ elems' = Append(elems, [len |-> l, end |-> FALSE])
    /\ UNCHANGED <<pc, next, ret, held, msgs, writeVars>>

(* Any other interval: its start and the successor of its upper bound. *)
AddInterval(l, m) ==
    /\ pc = "adding"
    /\ Len(elems) + 1 < MaxElems
    /\ elems' = Append(Append(elems, [len |-> l, end |-> FALSE]),
                       [len |-> m, end |-> TRUE])
    /\ UNCHANGED <<pc, next, ret, held, msgs, writeVars>>

----------------------------------------------------------------------------
(* SetElemsIter                                                            *)

(***************************************************************************)
(* elems_iter() borrows the set: from here on its elements do not change.  *)
(***************************************************************************)
ElemsIter ==
    /\ pc = "adding"
    /\ pc' = "iterating"
    /\ next' = 0 /\ ret' = 1
    /\ UNCHANGED <<elems, held, msgs, writeVars>>

IterEnds == ret <= 0 \/ next >= Len(elems)

(* Iterator::next returns a message.  The cells move when it is written. *)
IterSome ==
    /\ pc = "iterating"
    /\ ~IterEnds
    /\ held < MaxHeld
    /\ held' = held + 1
    /\ UNCHANGED <<elems, pc, next, ret, msgs, writeVars>>

(* Iterator::next returns None to a caller that has written every message. *)
IterNone ==
    /\ pc = "iterating"
    /\ IterEnds
    /\ held = 0
    /\ pc' = "done"
    /\ UNCHANGED <<elems, next, ret, held, msgs, writeVars>>

----------------------------------------------------------------------------
(* SetElemsMsg::write                                                      *)

(* Mutant: write() takes the last element for the end of the list. *)
WriteNothingEarly ==
    /\ pc = "iterating" /\ held > 0
    /\ next + 1 >= Len(elems)
    /\ ret' = 0
    /\ msgs' = Append(msgs, [attrs |-> {}, len |-> 0])
    /\ held' = held - 1
    /\ UNCHANGED <<elems, pc, next, writeVars>>

(* Nothing is left for this message: it has its header and no elements. *)
WriteNothing ==
    /\ pc = "iterating" /\ held > 0
    /\ next >= Len(elems)
    /\ ret' = 0
    /\ msgs' = Append(msgs, [attrs |-> {}, len |-> 0])
    /\ held' = held - 1
    /\ UNCHANGED <<elems, pc, next, writeVars>>

WriteStart ==
    /\ pc = "iterating" /\ held > 0
    /\ next < Len(elems)
    /\ pc' = "push"
    /\ idx' = next /\ prevLen' = NoLen
    /\ nest' = {} /\ nestLen' = NestHdr
    /\ UNCHANGED <<elems, next, ret, held, msgs>>

(* NestedSetElem::push serializes the element at the end of the message. *)
Push ==
    /\ pc = "push"
    /\ idx < Len(elems)
    /\ nestLen' = nestLen + At(idx).len
    /\ nest' = nest \union {[elem |-> idx, from |-> nestLen, to |-> nestLen']}
    /\ pc' = "test"
    /\ UNCHANGED <<elems, next, ret, held, idx, prevLen, msgs>>

(* Mutant: the length test is off by one. *)
FitsOneOver ==
    /\ pc = "test"
    /\ nestLen <= NestMax + 1
    /\ prevLen' = IF At(idx).end THEN NoLen ELSE At(idx).len
    /\ idx' = idx + 1
    /\ pc' = "push"
    /\ UNCHANGED <<elems, next, ret, held, nest, nestLen, msgs>>

(* Mutant: prev_len is that of an end instead of a start. *)
FitsAfterEnd ==
    /\ pc = "test"
    /\ nestLen <= NestMax
    /\ prevLen' = IF At(idx).end THEN At(idx).len ELSE NoLen
    /\ idx' = idx + 1
    /\ pc' = "push"
    /\ UNCHANGED <<elems, next, ret, held, nest, nestLen, msgs>>

Fits ==
    /\ pc = "test"
    /\ nestLen <= NestMax
    /\ prevLen' = IF At(idx).end THEN NoLen ELSE At(idx).len
    /\ idx' = idx + 1
    /\ pc' = "push"
    /\ UNCHANGED <<elems, next, ret, held, nest, nestLen, msgs>>

(* Mutant: only the element that overflows is undone, as libnftnl does. *)
NeverRewinds == FALSE

(* An overflowing interval end takes the start that precedes it along. *)
Rewinds == At(idx).end /\ prevLen # NoLen

(* Mutant: both shrinks take the length of the end. *)
UndoneEndTwice == At(idx).len + (IF Rewinds THEN At(idx).len ELSE 0)

(* Bytes taken back by shrink(). *)
Undone == At(idx).len + (IF Rewinds THEN prevLen ELSE 0)

(* The attributes that lie within the first n bytes of the nest. *)
Within(attrs, n) == {a \in attrs : a.to <= n}

(* The end of write(): close the nest and move the cells. *)
Close(i, attrs, n, overflow) ==
    /\ msgs' = Append(msgs, [attrs |-> attrs, len |-> n])
    /\ idx' = i /\ nest' = attrs /\ nestLen' = n
    /\ next' = i /\ ret' = overflow
    /\ held' = held - 1
    /\ pc' = "iterating"
    /\ UNCHANGED <<elems, prevLen>>

(* Mutant: the start is shrunk away but idx is not moved back. *)
OverflowsKeepsIdx ==
    /\ pc = "test"
    /\ nestLen > NestMax
    /\ Close(idx, Within(nest, nestLen - Undone), nestLen - Undone, 1)

(* Mutant: a nest of exactly u16::MAX overflows. *)
OverflowsWhenFull ==
    /\ pc = "test"
    /\ nestLen >= NestMax
    /\ Close(IF Rewinds THEN idx - 1 ELSE idx,
             Within(nest, nestLen - Undone), nestLen - Undone, 1)

(* Mutant: an overflow is not reported to the iterator. *)
OverflowsSilently ==
    /\ pc = "test"
    /\ nestLen > NestMax
    /\ Close(IF Rewinds THEN idx - 1 ELSE idx,
             Within(nest, nestLen - Undone), nestLen - Undone, 0)

Overflows ==
    /\ pc = "test"
    /\ nestLen > NestMax
    /\ Close(IF Rewinds THEN idx - 1 ELSE idx,
             Within(nest, nestLen - Undone), nestLen - Undone, 1)

(* Mutant: the element after the last counts as sent. *)
WriteLastPast ==
    /\ pc = "push"
    /\ idx >= Len(elems)
    /\ Close(idx + 1, nest, nestLen, 0)

(* Mutant: the loop goes on at the end of the list, where it panics. *)
WriteLastNever ==
    /\ pc = "push"
    /\ idx > Len(elems)
    /\ Close(idx, nest, nestLen, 0)

WriteLast ==
    /\ pc = "push"
    /\ idx >= Len(elems)
    /\ Close(idx, nest, nestLen, 0)

----------------------------------------------------------------------------
Write == WriteNothing \/ WriteStart \/ Push \/ Fits \/ Overflows \/ WriteLast

Iterate == ElemsIter \/ IterSome \/ IterNone \/ Write

Next ==
    \/ \E l \in ElemLens : AddElement(l)
    \/ \E l, m \in ElemLens : AddInterval(l, m)
    \/ Iterate

Spec == Init /\ [][Next]_vars

(***************************************************************************)
(* One thread runs the whole loop, which nothing can block: once the       *)
(* iterator exists, the program takes its next step.                       *)
(***************************************************************************)
Run == IterSome \/ IterNone \/ Write

FairSpec == Spec /\ WF_vars(Run)

----------------------------------------------------------------------------
(* Properties.                                                             *)

Sent(m) == {a.elem : a \in m.attrs}

(* Type invariant of the set, the iterator's cells and write()'s locals. *)
TypeOK ==
    /\ elems \in Seq(Elem) /\ Len(elems) <= MaxElems
    /\ pc \in Phase
    /\ next \in 0..Len(elems) /\ ret \in {0, 1} /\ held \in 0..MaxHeld
    /\ idx \in 0..Len(elems) /\ prevLen \in ElemLens \union {NoLen}
    /\ nest \in SUBSET Attr /\ nestLen \in Nat
    /\ msgs \in Seq(Msg)

(***************************************************************************)
(* The two elements of an interval travel in the same message: the kernel  *)
(* rejects an end without its start (the iterator's comment, and           *)
(* assert_interval_pairs_intact in its tests).                             *)
(***************************************************************************)
PairsIntact ==
    \A k \in DOMAIN msgs : \A i \in Sent(msgs[k]) :
        /\ At(i).end => i - 1 \in Sent(msgs[k])
        /\ Opens(i) => i + 1 \in Sent(msgs[k])

(***************************************************************************)
(* Between two calls of write(), the elements before `next' are in exactly *)
(* one message each, in the order of the set, and no other element is.     *)
(***************************************************************************)
SentOnceInOrder ==
    /\ \A k \in DOMAIN msgs : \A i \in Sent(msgs[k]) : i < next
    /\ \A i \in 1..next : \E k \in DOMAIN msgs : i - 1 \in Sent(msgs[k])
    /\ \A j, k \in DOMAIN msgs : j < k =>
           \A a \in Sent(msgs[j]), b \in Sent(msgs[k]) : a < b

(***************************************************************************)
(* What shrink() leaves is a whole number of elements: in every message    *)
(* the attributes follow each other without gap or overlap, in the order   *)
(* of the elements, and the nest ends where the last one does.             *)
(***************************************************************************)
Tiled(attrs, n) ==
    /\ \A a, b \in attrs : a.elem < b.elem => a.to <= b.from
    /\ \A a \in attrs : a.from = NestHdr \/ \E b \in attrs : b.to = a.from
    /\ \A a \in attrs : a.to = n \/ \E b \in attrs : b.from = a.to
    /\ \A a \in attrs : a.from < a.to /\ a.to <= n
    /\ attrs = {} => n \in {0, NestHdr}

MessagesTiled == \A k \in DOMAIN msgs : Tiled(msgs[k].attrs, msgs[k].len)

(***************************************************************************)
(* A closed nest fits its length field, and no byte of a message, not even *)
(* of the element that is about to be undone, is written beyond the room   *)
(* the NlMsg contract gives it (nft_nlmsg_maxsize).                        *)
(***************************************************************************)
WritesInBounds ==
    /\ \A k \in DOMAIN msgs : msgs[k].len <= NestMax
    /\ pc \in {"push", "test"} => MsgHdr + nestLen <= MsgMax

(***************************************************************************)
(* "One SetElemsMsg per netlink message needed": the first interval or key *)
(* of a message did not fit in the message before it, and only the last    *)
(* messages are empty, at most the MaxHeld - 1 a program took too early:   *)
(* none, when it writes each message before it takes the next one.         *)
(***************************************************************************)
UnitLen(i) == At(i).len + IF Opens(i) THEN At(i + 1).len ELSE 0

MessagesNeeded ==
    \A k \in DOMAIN msgs :
        /\ msgs[k].attrs = {} => Len(msgs) < k + MaxHeld - 1
        /\ k > 1 /\ msgs[k].attrs # {} => \E i \in Sent(msgs[k]) :
               /\ \A j \in Sent(msgs[k]) : i <= j
               /\ msgs[k - 1].len + UnitLen(i) > NestMax

(***************************************************************************)
(* A program that takes a message before it has written the one before may *)
(* get one without elements, but only after all of them are sent: no       *)
(* message is empty while another element waits.                           *)
(***************************************************************************)
EmptyOnlyAtEnd ==
    \A k \in DOMAIN msgs : msgs[k].attrs = {} =>
        \A i \in DOMAIN elems : \E j \in 1..(k - 1) : i - 1 \in Sent(msgs[j])

(* When the iterator ends, every element of the set has been sent. *)
AllSent == pc = "done" => next = Len(elems)

(* The loop over elems_iter() ends. *)
IterationEnds == pc = "iterating" ~> pc = "done"

----------------------------------------------------------------------------
(***************************************************************************)
(* The promise behind the iterator: ElemStream.  Its messages are sets of  *)
(* elements; bytes, cells and handles are this module's own.               *)
(***************************************************************************)
Stream == INSTANCE ElemStream WITH
    sent <- next,
    out <- [k \in DOMAIN msgs |-> Sent(msgs[k])],
    phase <- IF pc \in {"adding", "done"} THEN pc ELSE "sending"

StreamSpec == Stream!Spec
=============================================================================
