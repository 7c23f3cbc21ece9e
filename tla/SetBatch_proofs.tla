-------------------------- MODULE SetBatch_proofs --------------------------
(***************************************************************************)
(* Proofs about SetBatch, for all lengths, pages of any size and any       *)
(* number of messages held: the elements packed into a message stay within *)
(* the page it is written to, behind whatever the page holds.              *)
(*                                                                         *)
(* The two halves are proved in SetElems_proofs and Batch_proofs.  A step  *)
(* of SetBatch is a step of each, or leaves it alone, or drops or keeps a  *)
(* message, which the invariant of SetElems survives.                      *)
(***************************************************************************)
EXTENDS SetBatch, SetElems_proofs, FiniteSetTheorems

BP == INSTANCE Batch_proofs WITH msgs <- placed, MsgLens <- 1..MsgMax

(* What Batch assumes of its constants. *)
LEMMA BatchAssumptions == BP!MsgAssumption /\ BP!BuildAssumption
BY SendAssumption, LengthAssumption DEF BP!MsgAssumption, BP!BuildAssumption

----------------------------------------------------------------------------
(* The actions of the instance B are those that Batch_proofs is about.     *)

LEMMA SameUpdate == ASSUME NEW m PROVE B!Update(m) <=> BP!Update(m)
BY DEF B!Update, B!Commit, B!Spill, B!Lose, B!InPage, B!Place, B!cur,
       BP!Update, BP!Commit, BP!Spill, BP!Lose, BP!InPage, BP!Place, BP!cur

LEMMA SameFailure == ASSUME NEW m PROVE B!UpdateFails(m) <=> BP!UpdateFails(m)
BY DEF B!UpdateFails, B!InPage, B!cur, BP!UpdateFails, BP!InPage, BP!cur

LEMMA SameFrame ==
    ASSUME NEW k
    PROVE  /\ B!FrameMsg(k) = BP!FrameMsg(k)
           /\ B!SeqAfterFrame = BP!SeqAfterFrame
           /\ B!VersionPanics <=> BP!VersionPanics
BY DEF B!FrameMsg, B!SeqAfterFrame, B!VersionPanics, B!AckBatchEnd,
       B!KernelVersion, B!AtLeast, B!None,
       BP!FrameMsg, BP!SeqAfterFrame, BP!VersionPanics, BP!AckBatchEnd,
       BP!KernelVersion, BP!AtLeast, BP!None

LEMMA SameMessage == ASSUME NEW l PROVE B!AddedMsg(l) = BP!AddedMsg(l)
BY DEF B!AddedMsg, BP!AddedMsg

(* Beginning, ending and filling a batch. *)
LEMMA FramesAreBatchSteps ==
    /\ B!WriteBegin \/ B!BeginPanics \/ B!BeginAborts => BP!Next
    /\ B!Finalize \/ B!FinalizeAborts => BP!Next
BY SameUpdate, SameFailure, SameFrame
   DEF B!WriteBegin, B!BeginPanics, B!BeginAborts, B!Finalize, B!FinalizeAborts,
       BP!WriteBegin, BP!BeginPanics, BP!BeginAborts, BP!Finalize, BP!FinalizeAborts,
       BP!Next

LEMMA NewIsBatchStep ==
    ASSUME NEW s \in PageSizes, B!SizePanics(s) \/ B!AllocFails(s) \/ B!WithPageSize(s)
    PROVE  BP!Next
BY DEF B!SizePanics, B!AllocFails, B!WithPageSize,
       BP!SizePanics, BP!AllocFails, BP!WithPageSize, BP!Next

LEMMA AddIsBatchStep ==
    ASSUME NEW l \in 1..MsgMax, B!Add(l) \/ B!AddAborts(l)
    PROVE  BP!Next
<1>1. BP!Add(l) \/ BP!AddAborts(l)
  BY SameUpdate, SameFailure, SameMessage
     DEF B!Add, B!AddAborts, BP!Add, BP!AddAborts
<1> QED BY <1>1 DEF BP!Next

(* A step of the program with the set's messages alone leaves Batch alone. *)
LEMMA BatchKept == UNCHANGED batchVars => UNCHANGED BP!vars
BY DEF batchVars, BP!vars

----------------------------------------------------------------------------
(* The elements.                                                           *)

(* A message dropped or kept changes nothing but the number of those held. *)
LEMMA HandlesKeepInv == ASSUME IInv, DropMsg \/ KeepMsg PROVE IInv'
<1>1. /\ TypeOK /\ EndsFollowStarts /\ CellsInv /\ MsgsInv
      /\ elems' = elems /\ msgs' = msgs /\ next' = next /\ ret' = ret
      /\ pc = "iterating" /\ pc' = pc
      /\ UNCHANGED <<idx, prevLen, nest, nestLen>>
  BY DEF IInv, DropMsg, KeepMsg, writeVars
<1>2. held' \in 0..MaxHeld
  <2>1. held \in 0..MaxHeld /\ MaxHeld \in Nat
    BY <1>1, BoundAssumption DEF TypeOK
  <2> QED BY <2>1 DEF DropMsg, KeepMsg
<1>3. TypeOK' /\ EndsFollowStarts' /\ CellsInv'
  BY <1>1, <1>2 DEF TypeOK, EndsFollowStarts, CellsInv, Boundary, At
<1>4. WriteInv'
  BY <1>1 DEF WriteInv, Writing
<1> QED BY <1>1, <1>3, <1>4, MessagesKept DEF IInv

(* A message that write() has just ended is within the NlMsg contract. *)
LEMMA WrittenLength ==
    ASSUME IInv, IInv', WriteNothing \/ Overflows \/ WriteLast
    PROVE  MsgHdr + msgs'[Len(msgs')].len \in 1..MsgMax
<1>1. msgs' \in Seq(Msg) /\ msgs \in Seq(Msg)
  BY DEF IInv, TypeOK
<1>2. \E m : msgs' = Append(msgs, m)
  BY DEF WriteNothing, Overflows, WriteLast, Close
<1>3. Len(msgs') \in DOMAIN msgs'
  <2>1. PICK m : msgs' = Append(msgs, m)
    BY <1>2
  <2>2. Len(Append(msgs, m)) = Len(msgs) + 1 /\ Len(msgs) \in Nat
    BY <1>1
  <2>3. Len(msgs') > 0 /\ Len(msgs') \in Nat
    BY <2>1, <2>2
  <2> QED BY <1>1, <2>3
<1>4. msgs'[Len(msgs')].len \in Nat
  <2>1. msgs'[Len(msgs')] \in Msg
    BY <1>1, <1>3
  <2> QED BY <2>1 DEF Msg
<1>5. msgs'[Len(msgs')].len <= NestMax
  BY <1>3 DEF IInv, MsgsInv, ClosedNestsFit
<1> QED BY <1>4, <1>5, SendAssumption, LengthAssumption

----------------------------------------------------------------------------
(* The composition.                                                        *)

(* A message is written only to an open batch. *)
SendInv == IInv /\ (Writing => phase = "open")

LEMMA StepKeepsSendInv == ASSUME SendInv, [SendNext]_allVars PROVE SendInv'
<1>1. CASE FillSet
  <2>1. pc' = "adding"
    BY <1>1 DEF FillSet, AddElement, AddInterval
  <2>2. IInv'
    BY <1>1, AddKeepsInv DEF FillSet, SendInv
  <2> QED BY <2>1, <2>2 DEF SendInv, Writing
<1>2. CASE NewBatch
  <2>1. UNCHANGED vars /\ phase # "open"
    BY <1>2 DEF NewBatch, B!SizePanics, B!AllocFails, B!WithPageSize,
               B!WriteBegin, B!BeginPanics, B!BeginAborts
  <2>2. IInv'
    BY <2>1, StepKeepsInv DEF SendInv
  <2> QED BY <2>1, <2>2 DEF SendInv, Writing, vars
<1>3. ASSUME NEW l \in OtherLens, AddOther(l) PROVE SendInv'
  <2>1. UNCHANGED vars /\ ~Writing
    BY <1>3 DEF AddOther, Writing
  <2>2. IInv'
    BY <2>1, StepKeepsInv DEF SendInv
  <2> QED BY <2>1, <2>2 DEF SendInv, Writing, vars
<1>4. CASE UseIter
  <2>1. IInv'
    BY <1>4, HandlesKeepInv, IterKeepsInv DEF UseIter, SendInv
  <2>2. pc' \in {"iterating", "done"}
    BY <1>4 DEF UseIter, ElemsIter, IterSome, IterNone, DropMsg, KeepMsg
  <2> QED BY <2>1, <2>2 DEF SendInv, Writing
<1>5. CASE AddElems
  <2>1. IInv'
    BY <1>5, WriteStartKeepsInv, PushKeepsInv, FitsKeepsInv DEF AddElems, SendInv
  <2>2. phase' = "open"
    BY <1>5 DEF AddElems, batchVars
  <2> QED BY <2>1, <2>2 DEF SendInv
<1>6. CASE AddElemsEnds
  <2>1. IInv'
    BY <1>6, WriteNothingKeepsInv, OverflowsKeepsInv, WriteLastKeepsInv
       DEF AddElemsEnds, SendInv
  <2>2. pc' = "iterating"
    BY <1>6 DEF AddElemsEnds, WriteNothing, Overflows, WriteLast, Close
  <2> QED BY <2>1, <2>2 DEF SendInv, Writing
<1>7. CASE Finalize
  <2>1. UNCHANGED vars /\ ~Writing
    BY <1>7 DEF Finalize, Writing
  <2>2. IInv'
    BY <2>1, StepKeepsInv DEF SendInv
  <2> QED BY <2>1, <2>2 DEF SendInv, Writing, vars
<1>8. CASE UNCHANGED allVars
  <2>1. UNCHANGED vars /\ phase' = phase
    BY <1>8 DEF allVars, batchVars
  <2>2. IInv'
    BY <2>1, StepKeepsInv DEF SendInv
  <2> QED BY <2>1, <2>2 DEF SendInv, Writing, vars
<1> QED BY <1>1, <1>2, <1>3, <1>4, <1>5, <1>6, <1>7, <1>8 DEF SendNext

(* The elements' own invariant survives the composition. *)
THEOREM SendInvariant == SendSpec => []SendInv
<1>1. SendInit => SendInv
  BY InitInv DEF SendInit, SendInv, Init, Writing
<1>2. SendInv /\ [SendNext]_allVars => SendInv'
  BY StepKeepsSendInv
<1> QED BY <1>1, <1>2, PTL DEF SendSpec

(* Every step is one of Batch or leaves it alone. *)
LEMMA StepIsBatchStep ==
    ASSUME SendInv, SendInv', [SendNext]_allVars
    PROVE  [BP!Next]_(BP!vars)
<1>1. CASE FillSet \/ UseIter \/ AddElems \/ UNCHANGED allVars
  BY <1>1, BatchKept DEF FillSet, UseIter, AddElems, allVars
<1>2. CASE NewBatch
  BY <1>2, NewIsBatchStep, FramesAreBatchSteps DEF NewBatch
<1>3. ASSUME NEW l \in OtherLens, AddOther(l) PROVE BP!Next
  <2>1. l \in 1..MsgMax
    BY SendAssumption
  <2> QED BY <1>3, <2>1, AddIsBatchStep DEF AddOther
<1>4. CASE AddElemsEnds
  <2>1. MsgHdr + msgs'[Len(msgs')].len \in 1..MsgMax
    BY <1>4, WrittenLength DEF AddElemsEnds, SendInv
  <2> QED BY <1>4, <2>1, AddIsBatchStep DEF AddElemsEnds
<1>5. CASE Finalize
  BY <1>5, FramesAreBatchSteps DEF Finalize
<1> QED BY <1>1, <1>2, <1>3, <1>4, <1>5 DEF SendNext

(***************************************************************************)
(* The messages of a set meet the NlMsg contract, so what Batch promises   *)
(* of any messages it promises of these.                                   *)
(***************************************************************************)
THEOREM SendingIsBatching == SendSpec => BP!Spec
<1>1. SendInit => BP!Init
  BY DEF SendInit, B!Init, BP!Init
<1>2. SendInv /\ SendInv' /\ [SendNext]_allVars => [BP!Next]_(BP!vars)
  BY StepIsBatchStep
<1> QED BY <1>1, <1>2, SendInvariant, PTL DEF SendSpec, BP!Spec

(***************************************************************************)
(* No write leaves the page it is made to: while an element that does not  *)
(* fit is in a message, all that was written is within the allocation of   *)
(* the current page, however full that page and however small its limit.   *)
(***************************************************************************)
THEOREM WritesHaveRoom == SendSpec => []WritesInRoom
<1>1. BP!Spec => [](BP!AnyInv /\ BP!RoomForAny)
  <2>1. BP!Spec => []BP!AnyInv
    BY BatchAssumptions, BP!AnyPageInvariant
  <2>2. BP!Spec => []BP!RoomForAny
    BY BatchAssumptions, BP!PagesHaveRoom
  <2> QED BY <2>1, <2>2, PTL
<1>2. ASSUME SendInv, BP!AnyInv, BP!RoomForAny PROVE WritesInRoom
  <2> SUFFICES ASSUME Writing
               PROVE  pages[Len(pages)] + MsgHdr + nestLen <= B!PageRoom
    BY DEF WritesInRoom, Writing
  <2>1. pages \in Seq(Nat) /\ pages # <<>>
    BY <1>2 DEF SendInv, BP!AnyInv, BP!TypeOK
  <2>2. Len(pages) \in DOMAIN pages /\ pages[Len(pages)] \in Nat
    BY <2>1
  <2>3. pages[Len(pages)] + MsgMax <= B!PageRoom
    BY <1>2, <2>2 DEF BP!RoomForAny, BP!PageRoom, B!PageRoom
  <2>4. MsgHdr + nestLen <= MsgMax /\ nestLen \in Nat
    BY <1>2, BoundsFromInv DEF SendInv, IInv, TypeOK, WritesInBounds, Writing
  <2>5. B!PageRoom \in Nat
    BY <1>2, SendAssumption, LengthAssumption DEF B!PageRoom, BP!AnyInv, BP!TypeOK
  <2> QED BY <2>2, <2>3, <2>4, <2>5, LengthAssumption
<1> QED BY <1>1, <1>2, SendInvariant, SendingIsBatching, PTL

(***************************************************************************)
(* The numbers of the messages that are in the batch stay in order and     *)
(* among the announced ones, whichever messages of elements were lost      *)
(* because no page could hold them.                                        *)
(***************************************************************************)
THEOREM NumbersStayInOrder == SendSpec => []NumbersIncrease
<1>1. BP!Spec => []BP!NumbersIncrease
  BY BatchAssumptions, BP!NumbersAreInOrder
<1>2. BP!NumbersIncrease => NumbersIncrease
  BY DEF NumbersIncrease, B!NumbersIncrease, B!SequenceNumbers,
         BP!NumbersIncrease, BP!SequenceNumbers
<1> QED BY <1>1, <1>2, SendingIsBatching, PTL

(***************************************************************************)
(* A page has room for a message of the greatest length wherever messages  *)
(* of elements end in it, and the size of its allocation does not wrap.    *)
(***************************************************************************)
THEOREM RoomStays == SendSpec => []RoomForAny
<1>1. BP!Spec => []BP!RoomForAny
  BY BatchAssumptions, BP!PagesHaveRoom
<1>2. BP!RoomForAny => RoomForAny
  BY DEF RoomForAny, B!RoomForAny, B!PageRoom, BP!RoomForAny, BP!PageRoom
<1> QED BY <1>1, <1>2, SendingIsBatching, PTL

(* No message of a set is empty while an element is yet to be added. *)
THEOREM EmptyStayLast == SendSpec => []EmptyOnlyAtEnd
<1>1. SendInit => EmptyOnlyAtEnd
  BY DEF SendInit, Init, EmptyOnlyAtEnd
<1>2. ASSUME SendInv, EmptyOnlyAtEnd, [SendNext]_allVars PROVE EmptyOnlyAtEnd'
  <2>1. CASE AddElemsEnds
    BY <1>2, <2>1, WriteKeepsEmptyAtEnd DEF AddElemsEnds, SendInv
  <2>2. CASE FillSet
    <3>1. [Next]_vars
      BY <2>2 DEF FillSet, Next
    <3> QED BY <1>2, <3>1, StepKeepsEmptyAtEnd DEF SendInv
  <2>3. CASE ~AddElemsEnds /\ ~FillSet
    <3>1. msgs' = msgs /\ elems' = elems
      BY <1>2, <2>3
         DEF SendNext, NewBatch, AddOther, UseIter, AddElems, Finalize, allVars, vars,
             ElemsIter, IterSome, IterNone, DropMsg, KeepMsg, WriteStart, Push, Fits
    <3> QED BY <1>2, <3>1 DEF EmptyOnlyAtEnd, Sent
  <2> QED BY <2>1, <2>2, <2>3
<1> QED BY <1>1, <1>2, SendInvariant, PTL DEF SendSpec

----------------------------------------------------------------------------
(* Delivery: what write() puts into messages is what the batch holds.      *)

(* A message of the set is no longer than a page. *)
Short(k) == MsgHdr + msgs[k].len <= pageSize

(***************************************************************************)
(* The numbers of a set's messages increase below seqs.end, and a message  *)
(* with each of them is in the pages if it is not longer than these are.   *)
(***************************************************************************)
HeldByBatch ==
    /\ \A k \in DOMAIN msgs : numbers[k] < seqEnd
    /\ \A j, k \in DOMAIN msgs : j < k => numbers[j] < numbers[k]
    /\ \A k \in DOMAIN msgs : Short(k) => \E p \in DOMAIN placed : Holds(p, k)

DeliveryInv ==
    /\ numbers \in Seq(Nat) /\ Len(numbers) = Len(msgs)
    /\ phase \in {"new", "started"} => msgs = <<>>
    /\ phase \in {"open", "finalized"} => HeldByBatch

(* A frame or another message leaves those of the set where they are. *)
LEMMA UpdateGrows ==
    ASSUME NEW m, B!Update(m)
    PROVE  placed' = placed \/ \E x : placed' = Append(placed, x)
BY DEF B!Update, B!Commit, B!Spill, B!Lose

(* A message no longer than a page is put into the pages. *)
LEMMA ShortIsPlaced ==
    ASSUME NEW m, m.len \in Nat, pageSize \in Nat, B!Update(m), m.len <= pageSize
    PROVE  \E p : placed' = Append(placed, B!Place(m, p))
BY DEF B!Update, B!Commit, B!Spill, B!Lose

(* Other messages, and the end, leave those of the set where they are. *)
LEMMA OthersKeepHeld ==
    ASSUME HeldByBatch, placed \in Seq(BP!Placed), seqEnd \in Nat,
           numbers \in Seq(Nat), Len(numbers) = Len(msgs), msgs \in Seq(Msg),
           UNCHANGED <<msgs, numbers, pageSize>>, seqEnd' \in {seqEnd, seqEnd + 1},
           placed' = placed \/ \E x : placed' = Append(placed, x)
    PROVE  HeldByBatch'
<1>1. ASSUME NEW p \in DOMAIN placed PROVE p \in DOMAIN placed' /\ placed'[p] = placed[p]
  OBVIOUS
<1>2. ASSUME NEW k \in DOMAIN msgs PROVE numbers[k] < seqEnd'
  <2>1. numbers[k] \in Nat /\ numbers[k] < seqEnd
    BY DEF HeldByBatch
  <2> QED BY <2>1
<1>3. \A k \in DOMAIN msgs : Short(k)' => Short(k)
  BY DEF Short
<1>4. ASSUME NEW k \in DOMAIN msgs, Short(k) PROVE \E p \in DOMAIN placed' : Holds(p, k)'
  <2>1. PICK p \in DOMAIN placed : Holds(p, k)
    BY <1>4 DEF HeldByBatch
  <2> QED BY <1>1, <2>1 DEF Holds
<1> QED BY <1>2, <1>3, <1>4 DEF HeldByBatch

(* A message of the set that write() has ended is taken by the batch. *)
LEMMA WrittenIsHeld ==
    ASSUME HeldByBatch, placed \in Seq(BP!Placed), pageSize \in Nat, seqEnd \in Nat,
           numbers \in Seq(Nat), Len(numbers) = Len(msgs), msgs \in Seq(Msg),
           NEW m \in Msg, m.len <= NestMax, msgs' = Append(msgs, m),
           numbers' = Append(numbers, seqEnd), B!Add(MsgHdr + m.len)
    PROVE  HeldByBatch'
<1>1. /\ seqEnd' = seqEnd + 1 /\ pageSize' = pageSize
      /\ B!Update(B!AddedMsg(MsgHdr + m.len))
  BY DEF B!Add
<1>2. /\ DOMAIN msgs = 1..Len(msgs) /\ Len(msgs) \in Nat
      /\ DOMAIN msgs' = 1..(Len(msgs) + 1)
      /\ \A k \in 1..Len(msgs) : msgs'[k] = msgs[k] /\ numbers'[k] = numbers[k]
      /\ msgs'[Len(msgs) + 1] = m /\ numbers'[Len(msgs) + 1] = seqEnd
  OBVIOUS
<1>3. \A k \in 1..Len(msgs) : numbers[k] \in Nat /\ numbers[k] < seqEnd
  <2> TAKE k \in 1..Len(msgs)
  <2>1. k \in DOMAIN msgs /\ k \in DOMAIN numbers
    BY <1>2
  <2>2. numbers[k] \in Nat
    BY <2>1
  <2> QED BY <2>1, <2>2 DEF HeldByBatch
<1>4. \A k \in DOMAIN msgs' : numbers'[k] < seqEnd'
  BY <1>1, <1>2, <1>3
<1>5. ASSUME NEW j \in DOMAIN msgs', NEW k \in DOMAIN msgs', j < k
      PROVE  numbers'[j] < numbers'[k]
  <2>1. CASE k \in 1..Len(msgs)
    <3>1. j \in 1..Len(msgs)
      BY <1>2, <1>5, <2>1
    <3> QED BY <1>2, <1>5, <2>1, <3>1 DEF HeldByBatch
  <2>2. CASE k = Len(msgs) + 1
    <3>1. j \in 1..Len(msgs)
      BY <1>2, <1>5, <2>2
    <3> QED BY <1>2, <1>3, <2>2, <3>1
  <2> QED BY <1>2, <2>1, <2>2
<1>6. ASSUME NEW k \in DOMAIN msgs', Short(k)' PROVE \E p \in DOMAIN placed' : Holds(p, k)'
  <2> DEFINE n == B!AddedMsg(MsgHdr + m.len)
  <2>1. /\ n.len = MsgHdr + m.len /\ n.seq = seqEnd
        /\ n.ack /\ n.kind = "msg"
    BY DEF B!AddedMsg
  <2>2. n.len \in Nat
    <3>1. m.len \in Nat
      BY DEF Msg
    <3> QED BY <2>1, <3>1, LengthAssumption
  <2>3. B!Update(n)
    BY <1>1
  <2> HIDE DEF n
  <2>4. CASE k \in 1..Len(msgs)
    <3>1. Short(k)
      BY <1>1, <1>2, <1>6, <2>4 DEF Short
    <3>2. PICK p \in DOMAIN placed : Holds(p, k)
      BY <1>2, <2>4, <3>1 DEF HeldByBatch
    <3>3. p \in DOMAIN placed' /\ placed'[p] = placed[p]
      <4>1. placed' = placed \/ \E x : placed' = Append(placed, x)
        BY <2>3, UpdateGrows
      <4>2. p \in 1..Len(placed) /\ Len(placed) \in Nat
        BY <3>2
      <4>3. ASSUME NEW x, placed' = Append(placed, x)
            PROVE  p \in DOMAIN placed' /\ placed'[p] = placed[p]
        BY <4>2, <4>3
      <4> QED BY <3>2, <4>1, <4>3
    <3> QED BY <1>2, <2>4, <3>2, <3>3 DEF Holds
  <2>5. CASE k = Len(msgs) + 1
    <3>1. n.len <= pageSize
      BY <1>1, <1>2, <1>6, <2>1, <2>5 DEF Short
    <3>2. PICK q : placed' = Append(placed, B!Place(n, q))
      BY <2>2, <2>3, <3>1, ShortIsPlaced
    <3> DEFINE x == B!Place(n, q)
    <3>3. /\ x.kind = "msg" /\ x.ack /\ x.seq = seqEnd
          /\ x.len = MsgHdr + m.len
      BY <2>1 DEF B!Place
    <3>4. placed' = Append(placed, x)
      BY <3>2
    <3> HIDE DEF x
    <3>5. /\ Len(placed) + 1 \in DOMAIN placed'
          /\ placed'[Len(placed) + 1] = x
      BY <3>4
    <3> QED BY <1>2, <2>5, <3>3, <3>5 DEF Holds
  <2> QED BY <1>2, <2>4, <2>5
<1> QED BY <1>4, <1>5, <1>6 DEF HeldByBatch

LEMMA StepKeepsDelivery ==
    ASSUME SendInv, SendInv', BP!AnyInv, DeliveryInv, [SendNext]_allVars
    PROVE  DeliveryInv'
<1>1. /\ placed \in Seq(BP!Placed) /\ pageSize \in Nat /\ seqEnd \in Nat
      /\ msgs \in Seq(Msg)
  BY DEF BP!AnyInv, BP!TypeOK, SendInv, IInv, TypeOK
<1>2. ASSUME msgs' = msgs, numbers' = numbers, UNCHANGED batchVars
      PROVE  DeliveryInv'
  <2>1. HeldByBatch => HeldByBatch'
    BY <1>1, <1>2, OthersKeepHeld DEF batchVars, DeliveryInv
  <2> QED BY <1>2, <2>1 DEF DeliveryInv, batchVars
<1>3. CASE FillSet
  <2>1. msgs' = msgs /\ numbers' = numbers /\ UNCHANGED batchVars
    BY <1>3 DEF FillSet, AddElement, AddInterval
  <2> QED BY <1>2, <2>1
<1>4. CASE UseIter
  <2>1. msgs' = msgs /\ numbers' = numbers /\ UNCHANGED batchVars
    BY <1>4 DEF UseIter, ElemsIter, IterSome, IterNone, DropMsg, KeepMsg
  <2> QED BY <1>2, <2>1
<1>5. CASE AddElems
  <2>1. msgs' = msgs /\ numbers' = numbers /\ UNCHANGED batchVars
    BY <1>5 DEF AddElems, WriteStart, Push, Fits
  <2> QED BY <1>2, <2>1
<1>6. CASE UNCHANGED allVars
  BY <1>2, <1>6 DEF allVars, vars
<1>7. CASE NewBatch
  <2>1. msgs' = msgs /\ numbers' = numbers
    BY <1>7 DEF NewBatch, vars
  <2>2. phase \in {"new", "started"}
    BY <1>7 DEF NewBatch, B!SizePanics, B!AllocFails, B!WithPageSize,
               B!WriteBegin, B!BeginPanics, B!BeginAborts
  <2>3. msgs' = <<>>
    BY <2>1, <2>2 DEF DeliveryInv
  <2>4. HeldByBatch'
    BY <2>3 DEF HeldByBatch
  <2> QED BY <2>1, <2>3, <2>4 DEF DeliveryInv
<1>8. ASSUME NEW l, AddOther(l) PROVE DeliveryInv'
  <2>1. msgs' = msgs /\ numbers' = numbers
    BY <1>8 DEF AddOther, vars
  <2>2. CASE B!AddAborts(l)
    BY <2>1, <2>2 DEF DeliveryInv, B!AddAborts, B!UpdateFails
  <2>3. CASE B!Add(l)
    <3>1. /\ phase = "open" /\ phase' = phase /\ pageSize' = pageSize
          /\ seqEnd' = seqEnd + 1 /\ B!Update(B!AddedMsg(l))
      BY <2>3 DEF B!Add
    <3>2. HeldByBatch'
      BY <1>1, <2>1, <3>1, UpdateGrows, OthersKeepHeld DEF DeliveryInv
    <3> QED BY <2>1, <3>1, <3>2 DEF DeliveryInv
  <2> QED BY <1>8, <2>2, <2>3 DEF AddOther
<1>9. CASE AddElemsEnds
  <2> DEFINE len == MsgHdr + msgs'[Len(msgs')].len
  <2>1. numbers' = Append(numbers, seqEnd)
    BY <1>9 DEF AddElemsEnds
  <2>2. PICK m : msgs' = Append(msgs, m)
    BY <1>9 DEF AddElemsEnds, WriteNothing, Overflows, WriteLast, Close
  <2>3. /\ numbers' \in Seq(Nat) /\ Len(numbers') = Len(msgs')
        /\ Len(msgs') = Len(msgs) + 1 /\ msgs'[Len(msgs')] = m
    BY <1>1, <2>1, <2>2 DEF DeliveryInv
  <2>4. Len(msgs') \in DOMAIN msgs'
    BY <1>1, <2>2
  <2>5. m \in Msg
    <3>1. msgs' \in Seq(Msg)
      BY DEF SendInv, IInv, TypeOK
    <3> QED BY <2>3, <2>4, <3>1
  <2>6. m.len <= NestMax
    BY <2>3, <2>4 DEF SendInv, IInv, MsgsInv, ClosedNestsFit
  <2>7. CASE B!AddAborts(len)
    BY <2>3, <2>7 DEF DeliveryInv, B!AddAborts, B!UpdateFails
  <2>8. CASE B!Add(len)
    <3>1. phase = "open" /\ phase' = phase
      BY <2>8 DEF B!Add
    <3>2. B!Add(MsgHdr + m.len)
      BY <2>3, <2>8
    <3>3. HeldByBatch'
      BY <1>1, <2>1, <2>2, <2>5, <2>6, <3>1, <3>2, WrittenIsHeld DEF DeliveryInv
    <3> QED BY <2>3, <3>1, <3>3 DEF DeliveryInv
  <2> QED BY <1>9, <2>7, <2>8 DEF AddElemsEnds
<1>10. CASE Finalize
  <2>1. msgs' = msgs /\ numbers' = numbers
    BY <1>10 DEF Finalize, vars
  <2>2. CASE B!FinalizeAborts
    BY <2>1, <2>2 DEF DeliveryInv, B!FinalizeAborts, B!UpdateFails
  <2>3. CASE B!Finalize
    <3>1. /\ phase = "open" /\ phase' = "finalized" /\ pageSize' = pageSize
          /\ seqEnd' \in {seqEnd, seqEnd + 1} /\ B!Update(B!FrameMsg("end"))
      BY <2>3 DEF B!Finalize, B!SeqAfterFrame
    <3>2. HeldByBatch'
      BY <1>1, <2>1, <3>1, UpdateGrows, OthersKeepHeld DEF DeliveryInv
    <3> QED BY <2>1, <3>1, <3>2 DEF DeliveryInv
  <2> QED BY <1>10, <2>2, <2>3 DEF Finalize
<1> QED BY <1>3, <1>4, <1>5, <1>6, <1>7, <1>8, <1>9, <1>10 DEF SendNext

(***************************************************************************)
(* A message of the batch stands for one of the set's: the numbers tell.   *)
(***************************************************************************)
LEMMA HeldOnce ==
    ASSUME HeldByBatch, BP!AnyInv, phase = "finalized",
           numbers \in Seq(Nat), Len(numbers) = Len(msgs), msgs \in Seq(Msg),
           NEW j \in DOMAIN msgs, NEW k \in DOMAIN msgs,
           NEW p \in DOMAIN placed, NEW q \in DOMAIN placed,
           Holds(p, j), Holds(q, k), j <= k
    PROVE  p <= q /\ (j = k => p = q)
<1>1. BP!Numbered(placed, seqEnd) /\ placed \in Seq(BP!Placed)
  BY DEF BP!AnyInv, BP!TypeOK
<1>2. p \in Nat /\ q \in Nat /\ j \in Nat /\ k \in Nat
  BY <1>1
<1>3. /\ placed[p].ack /\ placed[q].ack
      /\ placed[p].seq = numbers[j] /\ placed[q].seq = numbers[k]
  BY DEF Holds
<1>4. numbers[j] \in Nat /\ numbers[k] \in Nat
  <2>1. j \in DOMAIN numbers /\ k \in DOMAIN numbers
    OBVIOUS
  <2> QED BY <2>1
<1>5. numbers[j] <= numbers[k]
  <2>1. j < k => numbers[j] < numbers[k]
    BY DEF HeldByBatch
  <2>2. j = k \/ j < k
    BY <1>2
  <2> QED BY <1>4, <2>1, <2>2
<1>6. q < p => numbers[k] < numbers[j]
  BY <1>1, <1>3 DEF BP!Numbered
<1>7. p < q => numbers[j] < numbers[k]
  BY <1>1, <1>3 DEF BP!Numbered
<1>8. q < p => FALSE
  BY <1>4, <1>5, <1>6
<1>9. p < q /\ j = k => FALSE
  BY <1>4, <1>7
<1> QED BY <1>2, <1>8, <1>9

(* The carriers of an element are those of the message that has it. *)
LEMMA CarriersAre ==
    ASSUME HeldByBatch, SentOnceInOrder, msgs \in Seq(Msg),
           NEW i \in Nat, NEW k \in DOMAIN msgs, i \in Sent(msgs[k])
    PROVE  Carriers(i) = {p \in DOMAIN placed : Holds(p, k)}
<1>1. ASSUME NEW j \in DOMAIN msgs, i \in Sent(msgs[j]) PROVE j = k
  <2>1. j \in Nat /\ k \in Nat
    OBVIOUS
  <2>2. j < k => i < i
    BY <1>1 DEF SentOnceInOrder
  <2>3. k < j => i < i
    BY <1>1 DEF SentOnceInOrder
  <2> QED BY <2>1, <2>2, <2>3
<1> QED BY <1>1 DEF Carriers

LEMMA DeliveredFromInv ==
    ASSUME SendInv, BP!AnyInv, DeliveryInv PROVE SetDelivered
<1> SUFFICES ASSUME phase = "finalized", pc = "done", MsgHdr + NestMax <= pageSize
             PROVE  /\ \A i \in 0..(Len(elems) - 1) : Cardinality(Carriers(i)) = 1
                    /\ \A i, j \in 0..(Len(elems) - 1) : i < j =>
                           \A p \in Carriers(i), q \in Carriers(j) : p <= q
  BY DEF SetDelivered
<1>1. /\ HeldByBatch /\ SentOnceInOrder /\ next = Len(elems)
      /\ msgs \in Seq(Msg) /\ elems \in Seq(Elem)
      /\ numbers \in Seq(Nat) /\ Len(numbers) = Len(msgs)
  BY DEF DeliveryInv, SendInv, IInv, MsgsInv, CellsInv, TypeOK
<1>2. ASSUME NEW i \in 0..(Len(elems) - 1)
      PROVE  \E k \in DOMAIN msgs : i \in Sent(msgs[k])
  <2>1. i + 1 \in 1..next /\ (i + 1) - 1 = i
    BY <1>1
  <2> QED BY <1>1, <2>1 DEF SentOnceInOrder
<1>3. ASSUME NEW i \in 0..(Len(elems) - 1) PROVE Cardinality(Carriers(i)) = 1
  <2>1. PICK k \in DOMAIN msgs : i \in Sent(msgs[k])
    BY <1>2
  <2>2. PICK p \in DOMAIN placed : Holds(p, k)
    <3>1. msgs[k] \in Msg /\ msgs[k].len <= NestMax
      BY <1>1 DEF SendInv, IInv, MsgsInv, ClosedNestsFit
    <3>2. msgs[k].len \in Nat
      BY <3>1 DEF Msg
    <3>3. pageSize \in Nat
      BY DEF BP!AnyInv, BP!TypeOK
    <3>4. Short(k)
      BY <3>1, <3>2, <3>3, LengthAssumption DEF Short
    <3> QED BY <1>1, <3>4 DEF HeldByBatch
  <2>3. ASSUME NEW q \in DOMAIN placed, Holds(q, k) PROVE q = p
    <3>1. k <= k
      BY <1>1
    <3> QED BY <1>1, <2>2, <2>3, <3>1, HeldOnce
  <2>4. Carriers(i) = {q \in DOMAIN placed : Holds(q, k)}
    BY <1>1, <2>1, CarriersAre
  <2>5. Carriers(i) = {p}
    BY <2>2, <2>3, <2>4
  <2> QED BY <2>5, FS_Singleton
<1>4. ASSUME NEW i \in 0..(Len(elems) - 1), NEW j \in 0..(Len(elems) - 1), i < j,
             NEW p \in Carriers(i), NEW q \in Carriers(j)
      PROVE  p <= q
  <2>1. PICK k \in DOMAIN msgs : i \in Sent(msgs[k]) /\ Holds(p, k)
    BY DEF Carriers
  <2>2. PICK l \in DOMAIN msgs : j \in Sent(msgs[l]) /\ Holds(q, l)
    BY DEF Carriers
  <2>3. p \in DOMAIN placed /\ q \in DOMAIN placed
    BY DEF Carriers
  <2>4. l < k => j < i
    BY <1>1, <2>1, <2>2 DEF SentOnceInOrder
  <2>5. k <= l
    BY <1>1, <1>4, <2>4
  <2> QED BY <1>1, <2>1, <2>2, <2>3, <2>5, HeldOnce
<1> QED BY <1>3, <1>4

(* What holds of the messages sent, for the theorems below. *)
LEMMA DeliveryInvariant == SendSpec => [](DeliveryInv /\ BP!AnyInv /\ SendInv)
<1>1. SendInit => DeliveryInv
  BY DEF SendInit, Init, B!Init, DeliveryInv
<1>2. SendInv /\ SendInv' /\ BP!AnyInv /\ DeliveryInv /\ [SendNext]_allVars
      => DeliveryInv'
  BY StepKeepsDelivery
<1>3. BP!Spec => []BP!AnyInv
  BY BatchAssumptions, BP!AnyPageInvariant
<1> QED BY <1>1, <1>2, <1>3, SendInvariant, SendingIsBatching, PTL DEF SendSpec

(***************************************************************************)
(* A finalized batch with pages for the longest message of elements brings *)
(* each element of the set once, and in order: messages that the program   *)
(* dropped are handed out again, and those it adds twice find the elements *)
(* that follow, whatever else is in the batch.                             *)
(***************************************************************************)
THEOREM SetIsDelivered == SendSpec => []SetDelivered
<1>1. SendInv /\ BP!AnyInv /\ DeliveryInv => SetDelivered
  BY DeliveredFromInv
<1> QED BY <1>1, DeliveryInvariant, PTL
=============================================================================
