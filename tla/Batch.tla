------------------------------- MODULE Batch -------------------------------
(***************************************************************************)
(* Building a batch (nftnl/src/batch.rs).                                  *)
(*                                                                         *)
(* A Batch serializes each message at the current position of libnftnl's   *)
(* paged buffer and then has the buffer take it (nftnl_batch_update).  The *)
(* first and the last message frame the batch; whether they ask for an     *)
(* acknowledgement, and then use up a sequence number, depends on the      *)
(* version of the running kernel.                                          *)
(***************************************************************************)
EXTENDS Integers, Sequences

CONSTANTS
    Releases,   \* kernels: version, and whether KERNEL_VERSION reads it
    DebugBuild, \* cfg!(debug_assertions)
    PageSizes,  \* arguments of with_page_size
    U32Max,     \* the largest u32
    MsgMax,     \* nft_nlmsg_maxsize()
    FrameLen,   \* length of a begin or an end message
    MsgLens,    \* lengths of the messages the program adds
    MaxMsgs     \* bound: messages added to the batch

(* The NlMsg contract: no message is longer than nft_nlmsg_maxsize(). *)
ASSUME MsgAssumption ==
    /\ MsgMax \in Nat
    /\ MsgLens \subseteq 1..MsgMax
    /\ FrameLen \in 1..MsgMax

ASSUME BuildAssumption ==
    /\ Releases \subseteq [version : Nat \X Nat, parsable : BOOLEAN]
    /\ DebugBuild \in BOOLEAN
    /\ PageSizes \subseteq Nat /\ U32Max \in Nat /\ MaxMsgs \in Nat

VARIABLES
    release,    \* the running kernel's release
    phase,      \* what became of the batch: see Phase
    pageSize,   \* the limit of a page's contents
    pages,      \* for each page, in order, the bytes in it
    msgs,       \* the messages in the pages, in order
    seqEnd      \* seqs.end; seqs.start is 1

vars == <<release, phase, pageSize, pages, msgs, seqEnd>>

Phase == {"new", "started", "open", "finalized", "panicked", "aborted"}

(* A message in the pages: what its header says, and its page, from 1. *)
Placed == [kind : {"begin", "msg", "end"}, seq : Nat, ack : BOOLEAN, len : Nat,
           page : Nat \ {0}]

(* Mutant: sequence numbers start from 0. *)
InitFromZero ==
    /\ release \in Releases
    /\ phase = "new"
    /\ pageSize = 0 /\ pages = <<>> /\ msgs = <<>>
    /\ seqEnd = 0

Init ==
    /\ release \in Releases
    /\ phase = "new"
    /\ pageSize = 0 /\ pages = <<>> /\ msgs = <<>>
    /\ seqEnd = 1

----------------------------------------------------------------------------
(* The kernel's version.                                                   *)

None == <<>>

(* KERNEL_VERSION reads releases of the form "6.6.9-foo". *)
KernelVersion == IF release.parsable THEN release.version ELSE None

AtLeast(v, major, minor) == v[1] > major \/ (v[1] = major /\ v[2] >= minor)

(* Reading ACK_BATCH_END_MESSAGES panics in a debug build. *)
VersionPanics == KernelVersion = None /\ DebugBuild

(* Mutant: the flag is set whatever the kernel, as before release 0.9.1. *)
AckAlways == TRUE

(* A release build takes an unknown version for one that answers. *)
AckBatchEnd == KernelVersion = None \/ AtLeast(KernelVersion, 6, 10)

(* Kernels before 6.10 disregard the flag on the begin and the end. *)
KernelAcksFrame == AtLeast(release.version, 6, 10)

----------------------------------------------------------------------------
(* libnftnl's paged buffer.                                                *)

cur == Len(pages)

(* The bytes allocated for a page, in a u32: its limit and an overrun. *)
PageRoom == (pageSize + MsgMax) % (U32Max + 1)

InPage(m) == pages[cur] + m.len <= pageSize

Place(m, p) == [kind |-> m.kind, seq |-> m.seq, ack |-> m.ack,
                len |-> m.len, page |-> p]

(* The message at the current position is within the page's limit. *)
Commit(m) ==
    /\ InPage(m)
    /\ msgs' = Append(msgs, Place(m, cur))
    /\ pages' = [pages EXCEPT ![cur] = @ + m.len]

(* It is not: a page is allocated and the message copied to its start. *)
Spill(m) ==
    /\ ~InPage(m)
    /\ m.len <= pageSize
    /\ msgs' = Append(msgs, Place(m, cur + 1))
    /\ pages' = Append(pages, m.len)

(***************************************************************************)
(* It is longer than a page: the new page does not take it either, which   *)
(* nftnl_batch_update does not report.  The next message overwrites it.    *)
(***************************************************************************)
Lose(m) ==
    /\ ~InPage(m)
    /\ m.len > pageSize
    /\ pages' = Append(pages, 0)
    /\ UNCHANGED msgs

Update(m) == Commit(m) \/ Spill(m) \/ Lose(m)

(* The page cannot be allocated: the update fails and the process aborts. *)
UpdateFails(m) ==
    /\ ~InPage(m)
    /\ phase' = "aborted"
    /\ UNCHANGED <<release, pageSize, pages, msgs>>

----------------------------------------------------------------------------
(* Batch                                                                   *)

(* Mutant: set_f_ack is not called. *)
FrameMsgWithoutFlag(kind) ==
    [kind |-> kind, seq |-> IF AckBatchEnd THEN seqEnd ELSE 0,
     ack |-> FALSE, len |-> FrameLen]

(* write_begin_or_end_msg, up to the update of the buffer. *)
FrameMsg(kind) ==
    [kind |-> kind, seq |-> IF AckBatchEnd THEN seqEnd ELSE 0,
     ack |-> AckBatchEnd, len |-> FrameLen]

(* Mutants: the number is not taken; it is taken even if it is not used. *)
SeqNotTaken == seqEnd
SeqAlwaysTaken == seqEnd + 1

SeqAfterFrame == IF AckBatchEnd THEN seqEnd + 1 ELSE seqEnd

(* with_page_size: the page's allocation must not exceed a u32 ... *)
SizePanics(size) ==
    /\ phase = "new"
    /\ size + MsgMax > U32Max
    /\ phase' = "panicked"
    /\ UNCHANGED <<release, pageSize, pages, msgs, seqEnd>>

(* ... and memory be found for the buffer, which has one empty page. *)
AllocFails(size) ==
    /\ phase = "new"
    /\ size + MsgMax <= U32Max
    /\ phase' = "aborted"
    /\ UNCHANGED <<release, pageSize, pages, msgs, seqEnd>>

(* Mutant: the sum is not checked, as before release 0.9.0. *)
WithPageSizeUnchecked(size) ==
    /\ phase = "new"
    /\ phase' = "started"
    /\ pageSize' = size /\ pages' = <<0>>
    /\ UNCHANGED <<release, msgs, seqEnd>>

WithPageSize(size) ==
    /\ phase = "new"
    /\ size + MsgMax <= U32Max
    /\ phase' = "started"
    /\ pageSize' = size /\ pages' = <<0>>
    /\ UNCHANGED <<release, msgs, seqEnd>>

(* The rest of with_page_size: write_begin_msg. *)
WriteBegin ==
    /\ phase = "started"
    /\ ~VersionPanics
    /\ Update(FrameMsg("begin"))
    /\ seqEnd' = SeqAfterFrame
    /\ phase' = "open"
    /\ UNCHANGED <<release, pageSize>>

BeginPanics ==
    /\ phase = "started"
    /\ VersionPanics
    /\ phase' = "panicked"
    /\ UNCHANGED <<release, pageSize, pages, msgs, seqEnd>>

BeginAborts ==
    /\ phase = "started"
    /\ ~VersionPanics
    /\ UpdateFails(FrameMsg("begin"))
    /\ seqEnd' = SeqAfterFrame

(* add(), and each round of add_iter(): the messages of the crate ask for an ACK. *)
AddedMsg(l) == [kind |-> "msg", seq |-> seqEnd, ack |-> TRUE, len |-> l]

(* Mutant: next() does not count the message. *)
AddUncounted(l) ==
    /\ phase = "open"
    /\ seqEnd <= MaxMsgs
    /\ Update(AddedMsg(l))
    /\ UNCHANGED <<release, phase, pageSize, seqEnd>>

Add(l) ==
    /\ phase = "open"
    /\ seqEnd <= MaxMsgs
    /\ Update(AddedMsg(l))
    /\ seqEnd' = seqEnd + 1
    /\ UNCHANGED <<release, phase, pageSize>>

AddAborts(l) ==
    /\ phase = "open"
    /\ UpdateFails(AddedMsg(l))
    /\ UNCHANGED seqEnd

(* Mutant: finalize() does not write the end. *)
FinalizeUnended ==
    /\ phase = "open"
    /\ phase' = "finalized"
    /\ UNCHANGED <<release, pageSize, pages, msgs, seqEnd>>

(* finalize() consumes the batch; nothing is added after the end. *)
Finalize ==
    /\ phase = "open"
    /\ Update(FrameMsg("end"))
    /\ seqEnd' = SeqAfterFrame
    /\ phase' = "finalized"
    /\ UNCHANGED <<release, pageSize>>

FinalizeAborts ==
    /\ phase = "open"
    /\ UpdateFails(FrameMsg("end"))
    /\ seqEnd' = SeqAfterFrame

Next ==
    \/ \E s \in PageSizes :
           SizePanics(s) \/ AllocFails(s) \/ WithPageSize(s)
    \/ WriteBegin \/ BeginPanics \/ BeginAborts
    \/ \E l \in MsgLens : Add(l) \/ AddAborts(l)
    \/ Finalize
    \/ FinalizeAborts

Spec == Init /\ [][Next]_vars

----------------------------------------------------------------------------
(* FinalizedBatch                                                          *)

(* Mutant: the last page is always left out. *)
IovecWithoutLast == cur - 1

(* iter(): a last page that is empty is left out. *)
IovecLen == IF pages[cur] = 0 THEN cur - 1 ELSE cur

(* sequence_numbers(): the range 1..seqEnd of Rust, which excludes its end. *)
SequenceNumbers == 1..(seqEnd - 1)

----------------------------------------------------------------------------
(* Properties.                                                             *)

(* Type invariant of the batch and of libnftnl's pages. *)
TypeOK ==
    /\ release \in Releases
    /\ phase \in Phase
    /\ pageSize \in Nat /\ pages \in Seq(Nat)
    /\ msgs \in Seq(Placed)
    /\ seqEnd \in Nat \ {0}

(***************************************************************************)
(* The messages that ask for an acknowledgement carry increasing numbers   *)
(* of sequence_numbers(): the driver checks the acknowledgements, which    *)
(* come in this order, against the numbers in order.                       *)
(***************************************************************************)
NumbersIncrease ==
    phase \in {"open", "finalized"} =>
        /\ \A i \in DOMAIN msgs : msgs[i].ack => msgs[i].seq \in SequenceNumbers
        /\ \A i, j \in DOMAIN msgs :
               i < j /\ msgs[i].ack /\ msgs[j].ack => msgs[i].seq < msgs[j].seq

(***************************************************************************)
(* Every number of sequence_numbers(), "the range of sequence numbers for  *)
(* the messages in this batch that expect an ACK" (batch.rs:220), is the   *)
(* number of such a message: the driver waits until it has seen them all.  *)
(* So each message that was added is there ("all messages up until that    *)
(* message stays added", batch.rs:100).  It holds in pages that can hold   *)
(* each of the messages, and not in others.                                *)
(***************************************************************************)
EveryNumberAsked ==
    phase \in {"open", "finalized"} =>
        \A s \in SequenceNumbers :
            \E i \in DOMAIN msgs : msgs[i].ack /\ msgs[i].seq = s

(***************************************************************************)
(* A FinalizedBatch starts with a batch begin and ends with a batch end,   *)
(* and no other message is either.                                         *)
(***************************************************************************)
Framed ==
    phase = "finalized" =>
        /\ Len(msgs) >= 2
        /\ \A i \in DOMAIN msgs : /\ msgs[i].kind = "begin" <=> i = 1
                                 /\ msgs[i].kind = "end" <=> i = Len(msgs)

(***************************************************************************)
(* No buffer exceeds the page size, and a message of the greatest length   *)
(* can be written after whatever the page holds without leaving the page's *)
(* allocation.                                                             *)
(***************************************************************************)
RoomForAny ==
    \A p \in DOMAIN pages : pages[p] <= pageSize /\ pages[p] + MsgMax <= PageRoom

(* The buffers of iter() are not empty, and hold every message. *)
BuffersComplete ==
    phase = "finalized" =>
        /\ \A p \in 1..IovecLen : pages[p] > 0
        /\ \A i \in DOMAIN msgs : msgs[i].page <= IovecLen

----------------------------------------------------------------------------
(* The batch implements BatchLog: its pages hold the abstract list.        *)
Log == INSTANCE BatchLog WITH
    phase <- IF phase = "started" THEN "new"
             ELSE IF phase \in {"panicked", "aborted"} THEN "dead" ELSE phase,
    ack <- AckBatchEnd,
    log <- [i \in DOMAIN msgs |->
               [kind |-> msgs[i].kind, seq |-> msgs[i].seq, ack |-> msgs[i].ack]]

LogSpec == Log!Spec
=============================================================================
