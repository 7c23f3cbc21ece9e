------------------------------ MODULE SetBatch ------------------------------
(***************************************************************************)
(* Sending a set with a batch (nftnl/src/batch.rs, nftnl/src/set/mod.rs).  *)
(*                                                                         *)
(* Batch::add has a message write itself at the current position of the    *)
(* batch's page, whatever the page holds, and then has the buffer take it. *)
(* Here the messages are those of SetElems and the buffer is that of       *)
(* Batch: an element list is packed right behind other messages, and a     *)
(* message that outgrows the page's limit is moved to the next page, or is *)
(* lost if no page is as long.                                             *)
(*                                                                         *)
(* The program need not follow add_iter(): it may hold messages, drop them *)
(* without writing them, and add one again that it has added before.       *)
(***************************************************************************)
EXTENDS SetElems, FiniteSets

CONSTANTS
    Releases, DebugBuild, PageSizes, U32Max, FrameLen, MaxMsgs, \* see Batch
    OtherLens   \* lengths of the other messages, as of the table and the set

ASSUME SendAssumption ==
    /\ Releases \subseteq [version : Nat \X Nat, parsable : BOOLEAN]
    /\ DebugBuild \in BOOLEAN
    /\ PageSizes \subseteq Nat /\ U32Max \in Nat /\ MaxMsgs \in Nat
    /\ FrameLen \in 1..MsgMax /\ OtherLens \subseteq 1..MsgMax
    /\ MsgHdr > 0 /\ MsgHdr + NestMax <= MsgMax

VARIABLES
    release, phase, pageSize, pages, placed, seqEnd,  \* those of Batch
    numbers     \* history: the sequence numbers of the messages in msgs

batchVars == <<release, phase, pageSize, pages, placed, seqEnd>>
allVars == <<vars, batchVars, numbers>>

B == INSTANCE Batch WITH msgs <- placed, MsgLens <- 1..MsgMax

SendInit == Init /\ B!Init /\ numbers = <<>>

Alive == phase \notin {"panicked", "aborted"}

----------------------------------------------------------------------------
(* Set::add, while there is no iterator that borrows the set. *)
FillSet ==
    /\ Alive
    /\ \/ \E l \in ElemLens : AddElement(l)
       \/ \E l, m \in ElemLens : AddInterval(l, m)
    /\ UNCHANGED <<batchVars, numbers>>

(* with_page_size, with the batch begin. *)
NewBatch ==
    /\ \/ \E s \in PageSizes : B!SizePanics(s) \/ B!AllocFails(s) \/ B!WithPageSize(s)
       \/ B!WriteBegin \/ B!BeginPanics \/ B!BeginAborts
    /\ UNCHANGED <<vars, numbers>>

(* Batch::add of another message; write() is not interrupted. *)
AddOther(l) ==
    /\ pc \notin {"push", "test"}
    /\ B!Add(l) \/ B!AddAborts(l)
    /\ UNCHANGED <<vars, numbers>>

(* A message is dropped, perhaps before it was written. *)
DropMsg ==
    /\ pc = "iterating" /\ held > 0
    /\ held' = held - 1
    /\ UNCHANGED <<elems, pc, next, ret, msgs, writeVars>>

(* A message that was written is kept, to be written again. *)
KeepMsg ==
    /\ pc = "iterating" /\ msgs # <<>> /\ held < MaxHeld
    /\ held' = held + 1
    /\ UNCHANGED <<elems, pc, next, ret, msgs, writeVars>>

UseIter ==
    /\ Alive
    /\ ElemsIter \/ IterSome \/ IterNone \/ DropMsg \/ KeepMsg
    /\ UNCHANGED <<batchVars, numbers>>

(* Batch::add of an element message: write() at the current position ... *)
AddElems ==
    /\ phase = "open"
    /\ WriteStart \/ Push \/ Fits
    /\ UNCHANGED <<batchVars, numbers>>

(* ... and, when it returns, next() for a message of the length written. *)
AddElemsEnds ==
    /\ phase = "open"
    /\ WriteNothing \/ Overflows \/ WriteLast
    /\ LET len == MsgHdr + msgs'[Len(msgs')].len
       IN  B!Add(len) \/ B!AddAborts(len)
    /\ numbers' = Append(numbers, seqEnd)

(* finalize() when no write() runs. *)
Finalize ==
    /\ pc \notin {"push", "test"}
    /\ B!Finalize \/ B!FinalizeAborts
    /\ UNCHANGED <<vars, numbers>>

SendNext ==
    \/ FillSet
    \/ NewBatch
    \/ \E l \in OtherLens : AddOther(l)
    \/ UseIter
    \/ AddElems
    \/ AddElemsEnds
    \/ Finalize

SendSpec == SendInit /\ [][SendNext]_allVars

----------------------------------------------------------------------------
(* Properties.                                                             *)

(***************************************************************************)
(* While an element that does not fit is in a message, all of what was     *)
(* written lies within the allocation of the page the message is in, with  *)
(* whatever other messages are in front of it, and however small pages are.*)
(***************************************************************************)
WritesInRoom ==
    pc \in {"push", "test"} => pages[Len(pages)] + MsgHdr + nestLen <= B!PageRoom

(***************************************************************************)
(* Batch's own promises for a batch that carries a set: its messages carry *)
(* increasing numbers of sequence_numbers(), also if some are lost, and a  *)
(* page of whatever size has room for any message behind what it holds.    *)
(***************************************************************************)
NumbersIncrease == B!NumbersIncrease

RoomForAny == B!RoomForAny

(* Message k of the set is at place p of the batch. *)
Holds(p, k) ==
    /\ placed[p].kind = "msg" /\ placed[p].ack /\ placed[p].seq = numbers[k]
    /\ placed[p].len = MsgHdr + msgs[k].len

(***************************************************************************)
(* A batch whose pages hold the longest message of elements, finalized     *)
(* when the iterator has ended, brings netfilter every element of the set, *)
(* each in one message, in their order: also if the program held messages, *)
(* dropped some or added some again.                                       *)
(***************************************************************************)
Carriers(i) ==
    {p \in DOMAIN placed : \E k \in DOMAIN msgs : Holds(p, k) /\ i \in Sent(msgs[k])}

SetDelivered ==
    phase = "finalized" /\ pc = "done" /\ MsgHdr + NestMax <= pageSize =>
        /\ \A i \in 0..(Len(elems) - 1) : Cardinality(Carriers(i)) = 1
        /\ \A i, j \in 0..(Len(elems) - 1) : i < j =>
               \A p \in Carriers(i), q \in Carriers(j) : p <= q
=============================================================================
