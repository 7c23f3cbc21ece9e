---------------------------- MODULE Batch_proofs ----------------------------
(***************************************************************************)
(* Proofs about Batch, for every page size, every set of message lengths   *)
(* and every number of messages.                                           *)
(***************************************************************************)
EXTENDS Batch, SequenceTheorems, TLAPS

(* A message before the pages take it. *)
Message == [kind : {"begin", "msg", "end"}, seq : Nat, ack : BOOLEAN,
            len : 1..MsgMax]

----------------------------------------------------------------------------
(* Messages.                                                               *)

(* A sum that fits into a u32 is not wrapped. *)
LEMMA NoWrap ==
    ASSUME NEW x \in Nat, NEW u \in Nat, x <= u
    PROVE  x % (u + 1) = x
OBVIOUS

(* The begin and the end are messages, numbered if they are acknowledged. *)
LEMMA FrameIsMessage ==
    ASSUME seqEnd \in Nat, NEW k \in {"begin", "end"}
    PROVE  /\ FrameMsg(k) \in Message
           /\ FrameMsg(k).kind = k
           /\ FrameMsg(k).ack = AckBatchEnd
           /\ AckBatchEnd => FrameMsg(k).seq = seqEnd /\ SeqAfterFrame = seqEnd + 1
           /\ ~AckBatchEnd => SeqAfterFrame = seqEnd
<1>1. AckBatchEnd \in BOOLEAN
  BY DEF AckBatchEnd
<1>2. FrameLen \in 1..MsgMax
  BY MsgAssumption
<1> HIDE DEF AckBatchEnd
<1> QED BY <1>1, <1>2 DEF FrameMsg, Message, SeqAfterFrame

LEMMA AddedIsMessage ==
    ASSUME seqEnd \in Nat, NEW l \in MsgLens
    PROVE  /\ AddedMsg(l) \in Message
           /\ AddedMsg(l).kind = "msg"
           /\ AddedMsg(l).ack /\ AddedMsg(l).seq = seqEnd
<1>1. l \in 1..MsgMax
  BY MsgAssumption
<1> QED BY <1>1 DEF AddedMsg, Message

(* A message keeps its header wherever it is placed. *)
LEMMA PlacedMessage ==
    ASSUME NEW m \in Message, NEW p \in Nat \ {0}
    PROVE  /\ Place(m, p) \in Placed
           /\ Place(m, p).kind = m.kind /\ Place(m, p).seq = m.seq
           /\ Place(m, p).ack = m.ack /\ Place(m, p).len = m.len
           /\ Place(m, p).page = p
BY MsgAssumption DEF Message, Placed, Place

----------------------------------------------------------------------------
(* Numbers.                                                                *)

(* The acknowledged messages of s are numbered in order, below n. *)
Numbered(s, n) ==
    /\ \A i \in DOMAIN s : s[i].ack => s[i].seq \in 1..(n - 1)
    /\ \A i, j \in DOMAIN s :
           i < j /\ s[i].ack /\ s[j].ack => s[i].seq < s[j].seq

(* Each number below n is that of an acknowledged message of s. *)
Asked(s, n) ==
    \A q \in 1..(n - 1) : \E i \in DOMAIN s : s[i].ack /\ s[i].seq = q

LEMMA AppendedMessage ==
    ASSUME NEW s \in Seq(Placed), NEW x \in Placed
    PROVE  /\ Append(s, x) \in Seq(Placed)
           /\ DOMAIN s = 1..Len(s) /\ DOMAIN Append(s, x) = 1..(Len(s) + 1)
           /\ \A i \in 1..Len(s) : Append(s, x)[i] = s[i]
           /\ Append(s, x)[Len(s) + 1] = x
           /\ Len(s) \in Nat /\ Len(Append(s, x)) = Len(s) + 1
OBVIOUS

(* Counting on keeps the messages numbered. *)
LEMMA NumberedLater ==
    ASSUME NEW s \in Seq(Placed), NEW n \in Nat \ {0}, Numbered(s, n)
    PROVE  Numbered(s, n + 1)
<1>1. \A i \in DOMAIN s : s[i].seq \in 1..(n - 1) => s[i].seq \in 1..((n + 1) - 1)
  OBVIOUS
<1> QED BY <1>1 DEF Numbered

(* So does a message with the next number, or with none. *)
LEMMA NumberedAppend ==
    ASSUME NEW s \in Seq(Placed), NEW x \in Placed, NEW n \in Nat \ {0},
           Numbered(s, n), x.ack => x.seq = n
    PROVE  /\ x.ack => Numbered(Append(s, x), n + 1)
           /\ ~x.ack => Numbered(Append(s, x), n)
<1> DEFINE t == Append(s, x)
<1>1. /\ DOMAIN s = 1..Len(s) /\ DOMAIN t = 1..(Len(s) + 1)
      /\ \A i \in 1..Len(s) : t[i] = s[i]
      /\ t[Len(s) + 1] = x /\ Len(s) \in Nat
  BY AppendedMessage
<1> HIDE DEF t
<1>2. \A i \in 1..Len(s) : s[i].ack => s[i].seq \in Nat /\ 1 <= s[i].seq /\ s[i].seq < n
  BY <1>1 DEF Numbered
<1>3. \A i, j \in 1..Len(s) :
          i < j /\ s[i].ack /\ s[j].ack => s[i].seq < s[j].seq
  BY <1>1 DEF Numbered
<1>4. ASSUME x.ack PROVE Numbered(t, n + 1)
  <2>1. \A i \in 1..(Len(s) + 1) : t[i].ack => t[i].seq \in 1..((n + 1) - 1)
    <3> TAKE i \in 1..(Len(s) + 1)
    <3>1. CASE i \in 1..Len(s)
      BY <3>1, <1>1, <1>2
    <3>2. CASE i = Len(s) + 1
      BY <3>2, <1>1, <1>4
    <3> QED BY <3>1, <3>2, <1>1
  <2>2. ASSUME NEW i \in 1..(Len(s) + 1), NEW j \in 1..(Len(s) + 1),
               i < j, t[i].ack, t[j].ack
        PROVE  t[i].seq < t[j].seq
    <3>1. i \in 1..Len(s)
      BY <2>2, <1>1
    <3>2. CASE j \in 1..Len(s)
      BY <3>1, <3>2, <2>2, <1>1, <1>3
    <3>3. CASE j = Len(s) + 1
      BY <3>1, <3>3, <2>2, <1>1, <1>2, <1>4
    <3> QED BY <3>2, <3>3, <1>1
  <2> QED BY <2>1, <2>2, <1>1 DEF Numbered
<1>5. ASSUME ~x.ack PROVE Numbered(t, n)
  <2>1. \A i \in 1..(Len(s) + 1) : t[i].ack => i \in 1..Len(s)
    BY <1>1, <1>5
  <2> QED BY <2>1, <1>1, <1>2, <1>3 DEF Numbered
<1> QED BY <1>4, <1>5 DEF t

(* A message with the next number takes it up; one without leaves none out. *)
LEMMA AskedAppend ==
    ASSUME NEW s \in Seq(Placed), NEW x \in Placed, NEW n \in Nat \ {0},
           Asked(s, n), x.ack => x.seq = n
    PROVE  /\ x.ack => Asked(Append(s, x), n + 1)
           /\ ~x.ack => Asked(Append(s, x), n)
<1> DEFINE t == Append(s, x)
<1>1. /\ DOMAIN s = 1..Len(s) /\ DOMAIN t = 1..(Len(s) + 1)
      /\ \A i \in 1..Len(s) : t[i] = s[i]
      /\ t[Len(s) + 1] = x /\ Len(s) \in Nat
  BY AppendedMessage
<1> HIDE DEF t
<1>2. ASSUME NEW q \in 1..(n - 1)
      PROVE  \E i \in DOMAIN t : t[i].ack /\ t[i].seq = q
  <2>1. PICK i \in 1..Len(s) : s[i].ack /\ s[i].seq = q
    BY <1>1 DEF Asked
  <2> QED BY <2>1, <1>1
<1>3. ASSUME x.ack, NEW q \in 1..((n + 1) - 1)
      PROVE  \E i \in DOMAIN t : t[i].ack /\ t[i].seq = q
  <2>1. CASE q = n
    BY <2>1, <1>1, <1>3
  <2>2. CASE q # n
    BY <2>2, <1>2
  <2> QED BY <2>1, <2>2
<1> QED BY <1>2, <1>3 DEF Asked, t

----------------------------------------------------------------------------
(* Pages.                                                                  *)

(* What taking a message does to pages of any size. *)
LEMMA UpdateEffect ==
    ASSUME pages \in Seq(Nat), pages # <<>>, pageSize \in Nat,
           msgs \in Seq(Placed), NEW m \in Message, Update(m)
    PROVE  /\ pages' \in Seq(Nat) /\ pages' # <<>>
           /\ (\A p \in DOMAIN pages : pages[p] <= pageSize)
                  => \A p \in DOMAIN pages' : pages'[p] <= pageSize
           /\ \/ msgs' = msgs
              \/ \E p \in Nat \ {0} : msgs' = Append(msgs, Place(m, p))
<1>1. /\ m.len \in Nat /\ Len(pages) \in Nat /\ cur \in Nat \ {0}
      /\ DOMAIN pages = 1..Len(pages) /\ pages[cur] \in Nat
  BY MsgAssumption DEF Message, cur
<1>2. CASE Commit(m)
  <2>1. /\ pages[cur] + m.len <= pageSize
        /\ pages' = [pages EXCEPT ![cur] = pages[cur] + m.len]
        /\ msgs' = Append(msgs, Place(m, cur))
    BY <1>2 DEF Commit, InPage
  <2>2. pages' \in Seq(Nat) /\ DOMAIN pages' = DOMAIN pages /\ Len(pages') = Len(pages)
    <3>1. pages[cur] + m.len \in Nat /\ cur \in 1..Len(pages)
      BY <1>1 DEF cur
    <3> QED BY <3>1, <2>1, <1>1, ExceptSeq
  <2>3. \A p \in DOMAIN pages : pages'[p] = IF p = cur THEN pages[cur] + m.len ELSE pages[p]
    BY <2>1, <1>1
  <2>4. pages' # <<>>
    BY <2>2, <1>1
  <2> QED BY <2>1, <2>2, <2>3, <2>4, <1>1
<1>3. CASE Spill(m)
  BY <1>1, <1>3 DEF Spill, cur
<1>4. CASE Lose(m)
  BY <1>1, <1>4 DEF Lose
<1> QED BY <1>2, <1>3, <1>4 DEF Update

----------------------------------------------------------------------------
(* Pages of any size.                                                      *)

(***************************************************************************)
(* The invariant that holds whatever the page size.  Once the batch has a  *)
(* page, the sum that with_page_size checks did not overflow; before its   *)
(* begin is written, it has no message and no number is taken.             *)
(***************************************************************************)
AnyInv ==
    /\ TypeOK
    /\ phase \in {"started", "open", "finalized"} => pages # <<>>
    /\ pages # <<>> => pageSize + MsgMax <= U32Max
    /\ \A p \in DOMAIN pages : pages[p] <= pageSize
    /\ phase \in {"new", "started"} => msgs = <<>> /\ seqEnd = 1
    /\ phase \in {"open", "finalized"} => Numbered(msgs, seqEnd)

LEMMA InitAnyInv == Init => AnyInv
<1> SUFFICES ASSUME Init PROVE AnyInv
  OBVIOUS
<1>1. /\ pages = <<>> /\ msgs = <<>> /\ DOMAIN pages = {}
      /\ phase = "new" /\ pageSize = 0 /\ seqEnd = 1 /\ release \in Releases
  BY DEF Init
<1>2. pages \in Seq(Nat) /\ msgs \in Seq(Placed)
  BY <1>1
<1> QED BY <1>1, <1>2 DEF AnyInv, TypeOK, Phase

(* A message that takes the next number if it is acknowledged keeps it. *)
LEMMA TakeKeepsAnyInv ==
    ASSUME AnyInv, phase \in {"started", "open"}, NEW m \in Message,
           Update(m), m.ack => m.seq = seqEnd,
           m.ack => seqEnd' = seqEnd + 1, ~m.ack => seqEnd' = seqEnd,
           release' = release, pageSize' = pageSize,
           phase' \in {"open", "finalized"}
    PROVE  AnyInv'
<1>1. /\ pages \in Seq(Nat) /\ pages # <<>> /\ pageSize \in Nat
      /\ msgs \in Seq(Placed) /\ seqEnd \in Nat \ {0} /\ release \in Releases
  BY DEF AnyInv, TypeOK
<1>2. /\ pages' \in Seq(Nat) /\ pages' # <<>>
      /\ \A p \in DOMAIN pages' : pages'[p] <= pageSize'
  BY <1>1, UpdateEffect DEF AnyInv
<1>3. Numbered(msgs, seqEnd)
  <2>1. CASE phase = "started"
    BY <2>1 DEF AnyInv, Numbered
  <2>2. CASE phase = "open"
    BY <2>2 DEF AnyInv
  <2> QED BY <2>1, <2>2
<1>4. msgs' \in Seq(Placed) /\ Numbered(msgs', seqEnd')
  <2>1. CASE msgs' = msgs
    BY <2>1, <1>1, <1>3, NumberedLater
  <2>2. ASSUME NEW p \in Nat \ {0}, msgs' = Append(msgs, Place(m, p))
        PROVE  msgs' \in Seq(Placed) /\ Numbered(msgs', seqEnd')
    <3> DEFINE x == Place(m, p)
    <3>1. x \in Placed /\ x.ack = m.ack /\ x.seq = m.seq
      BY PlacedMessage
    <3> HIDE DEF x
    <3>2. /\ x.ack => Numbered(Append(msgs, x), seqEnd + 1)
          /\ ~x.ack => Numbered(Append(msgs, x), seqEnd)
      BY <3>1, <1>1, <1>3, NumberedAppend
    <3>3. msgs' = Append(msgs, x)
      BY <2>2 DEF x
    <3>4. CASE m.ack
      BY <3>1, <3>2, <3>3, <3>4, <1>1
    <3>5. CASE ~m.ack
      BY <3>1, <3>2, <3>3, <3>5, <1>1
    <3> QED BY <3>4, <3>5
  <2> QED BY <2>1, <2>2, <1>1, UpdateEffect
<1>5. seqEnd' \in Nat \ {0} /\ phase' \in Phase /\ pageSize' + MsgMax <= U32Max
  BY <1>1 DEF Phase, AnyInv
<1> QED BY <1>1, <1>2, <1>4, <1>5 DEF AnyInv, TypeOK

(* So does a step that takes no message and gives up the batch. *)
LEMMA GiveUpKeepsAnyInv ==
    ASSUME AnyInv, phase' \in {"panicked", "aborted"}, seqEnd' \in {seqEnd, seqEnd + 1},
           release' = release, pageSize' = pageSize, pages' = pages, msgs' = msgs
    PROVE  AnyInv'
<1>1. seqEnd' \in Nat \ {0}
  BY DEF AnyInv, TypeOK
<1> QED BY <1>1 DEF AnyInv, TypeOK, Phase

(* The steps of Next, as takes and as ends. *)
LEMMA FrameTaken ==
    ASSUME AnyInv, NEW k \in {"begin", "end"}, seqEnd' = SeqAfterFrame
    PROVE  LET m == FrameMsg(k)
           IN  /\ m \in Message /\ m.kind = k
               /\ m.ack => m.seq = seqEnd
               /\ m.ack => seqEnd' = seqEnd + 1
               /\ ~m.ack => seqEnd' = seqEnd
<1>1. seqEnd \in Nat
  BY DEF AnyInv, TypeOK
<1> QED BY <1>1, FrameIsMessage

LEMMA StepKeepsAnyInv == AnyInv /\ [Next]_vars => AnyInv'
<1> SUFFICES ASSUME AnyInv, [Next]_vars PROVE AnyInv'
  OBVIOUS
<1>1. seqEnd \in Nat \ {0}
  BY DEF AnyInv, TypeOK
<1>2. ASSUME NEW s \in PageSizes, WithPageSize(s) PROVE AnyInv'
  <2>1. s \in Nat
    BY BuildAssumption
  <2>2. pages' = <<0>> /\ pages' \in Seq(Nat) /\ DOMAIN pages' = {1} /\ pages'[1] = 0
    BY <1>2 DEF WithPageSize
  <2> QED BY <1>2, <2>1, <2>2, <1>1 DEF WithPageSize, AnyInv, TypeOK, Phase
<1>3. ASSUME NEW s \in PageSizes, SizePanics(s) \/ AllocFails(s) PROVE AnyInv'
  BY <1>3, GiveUpKeepsAnyInv DEF SizePanics, AllocFails
<1>4. CASE WriteBegin
  BY <1>4, FrameTaken, TakeKeepsAnyInv DEF WriteBegin
<1>5. CASE BeginPanics
  BY <1>5, GiveUpKeepsAnyInv DEF BeginPanics
<1>6. CASE BeginAborts \/ FinalizeAborts
  <2>1. SeqAfterFrame \in {seqEnd, seqEnd + 1}
    BY DEF SeqAfterFrame
  <2> QED BY <1>6, <2>1, GiveUpKeepsAnyInv DEF BeginAborts, FinalizeAborts, UpdateFails
<1>7. ASSUME NEW l \in MsgLens, Add(l) PROVE AnyInv'
  BY <1>7, <1>1, AddedIsMessage, TakeKeepsAnyInv DEF Add
<1>8. ASSUME NEW l \in MsgLens, AddAborts(l) PROVE AnyInv'
  BY <1>8, GiveUpKeepsAnyInv DEF AddAborts, UpdateFails
<1>9. CASE Finalize
  BY <1>9, FrameTaken, TakeKeepsAnyInv DEF Finalize
<1>10. CASE UNCHANGED vars
  BY <1>10 DEF vars, AnyInv, TypeOK
<1> QED BY <1>2, <1>3, <1>4, <1>5, <1>6, <1>7, <1>8, <1>9, <1>10 DEF Next

(* AnyInv is an invariant, whatever the page size. *)
THEOREM AnyPageInvariant == Spec => []AnyInv
BY InitAnyInv, StepKeepsAnyInv, PTL DEF Spec

(* Type correctness of the batch and of the pages. *)
THEOREM TypeCorrect == Spec => []TypeOK
<1>1. AnyInv => TypeOK
  BY DEF AnyInv
<1> QED BY <1>1, AnyPageInvariant, PTL

(***************************************************************************)
(* The messages that ask for an acknowledgement carry increasing numbers   *)
(* below seqs.end, even in a batch that lost messages.                     *)
(***************************************************************************)
THEOREM NumbersAreInOrder == Spec => []NumbersIncrease
<1>1. AnyInv => NumbersIncrease
  BY DEF AnyInv, Numbered, NumbersIncrease, SequenceNumbers
<1> QED BY <1>1, AnyPageInvariant, PTL

(***************************************************************************)
(* No page outgrows its limit, and a page's allocation always has room for *)
(* a message of the greatest length: add() may write before it checks.     *)
(***************************************************************************)
THEOREM PagesHaveRoom == Spec => []RoomForAny
<1>1. ASSUME AnyInv PROVE RoomForAny
  <2>1. /\ pageSize \in Nat /\ MsgMax \in Nat /\ U32Max \in Nat /\ pages \in Seq(Nat)
    BY MsgAssumption, BuildAssumption, <1>1 DEF AnyInv, TypeOK
  <2>2. ASSUME NEW p \in DOMAIN pages
        PROVE  pages[p] <= pageSize /\ pages[p] + MsgMax <= PageRoom
    <3>1. pages[p] \in Nat /\ pages[p] <= pageSize /\ pages # <<>>
      BY <1>1, <2>1 DEF AnyInv
    <3>2. pageSize + MsgMax \in Nat /\ pageSize + MsgMax <= U32Max
      BY <1>1, <2>1, <3>1 DEF AnyInv
    <3>3. PageRoom = pageSize + MsgMax
      BY <3>2, <2>1, NoWrap DEF PageRoom
    <3> QED BY <3>1, <3>3, <2>1
  <2> QED BY <2>2 DEF RoomForAny
<1> QED BY <1>1, AnyPageInvariant, PTL

----------------------------------------------------------------------------
(* Frames.                                                                 *)

(* A begun list of messages; a finished one. *)
Begun(s) ==
    /\ Len(s) >= 1
    /\ \A i \in DOMAIN s : (s[i].kind = "begin" <=> i = 1) /\ s[i].kind # "end"

Ended(s) ==
    /\ Len(s) >= 2
    /\ \A i \in DOMAIN s : /\ s[i].kind = "begin" <=> i = 1
                           /\ s[i].kind = "end" <=> i = Len(s)

LEMMA FrameGrows ==
    ASSUME NEW s \in Seq(Placed), NEW x \in Placed
    PROVE  /\ s = <<>> /\ x.kind = "begin" => Begun(Append(s, x))
           /\ Begun(s) /\ x.kind = "msg" => Begun(Append(s, x))
           /\ Begun(s) /\ x.kind = "end" => Ended(Append(s, x))
<1> DEFINE t == Append(s, x)
<1>1. /\ DOMAIN s = 1..Len(s) /\ DOMAIN t = 1..(Len(s) + 1)
      /\ \A i \in 1..Len(s) : t[i] = s[i]
      /\ t[Len(s) + 1] = x /\ Len(s) \in Nat /\ Len(t) = Len(s) + 1
  BY AppendedMessage
<1>2. s = <<>> => Len(s) = 0
  OBVIOUS
<1> HIDE DEF t
<1>3. \A i \in 1..(Len(s) + 1) : i \in 1..Len(s) \/ i = Len(s) + 1
  BY <1>1
<1> QED BY <1>1, <1>2, <1>3 DEF Begun, Ended, t

----------------------------------------------------------------------------
(* Pages that can hold any message.                                        *)

(***************************************************************************)
(* The assumption under which no message is lost.  The default page size,  *)
(* 32 memory pages, satisfies it: nft_nlmsg_maxsize() is less than 17.     *)
(***************************************************************************)
LargePages == \A s \in PageSizes : MsgMax <= s

(* What holds besides AnyInv if every page can hold any message. *)
PageInv ==
    /\ phase \in {"started", "open", "finalized"} => MsgMax <= pageSize
    /\ phase = "started" => pages = <<0>>
    /\ phase \in {"open", "finalized"} =>
           Asked(msgs, seqEnd) /\ \A p \in DOMAIN pages : pages[p] > 0
    /\ phase = "open" => Begun(msgs)
    /\ phase = "finalized" => Ended(msgs)
    /\ \A i \in DOMAIN msgs : msgs[i].page <= Len(pages)

(* Every message taken is stored, in the same page or in a new one. *)
LEMMA TakeStores ==
    ASSUME AnyInv, PageInv, phase \in {"started", "open"},
           NEW m \in Message, Update(m), pageSize' = pageSize
    PROVE  /\ \A q \in DOMAIN pages' : pages'[q] > 0
           /\ Len(pages) <= Len(pages')
           /\ \E p \in Nat \ {0} : /\ msgs' = Append(msgs, Place(m, p))
                                  /\ p <= Len(pages')
<1>1. /\ pages \in Seq(Nat) /\ pages # <<>> /\ pageSize \in Nat
      /\ MsgMax \in Nat /\ MsgMax <= pageSize
  BY MsgAssumption DEF AnyInv, TypeOK, PageInv
<1>2. /\ m.len \in Nat \ {0} /\ m.len <= pageSize
      /\ Len(pages) \in Nat \ {0} /\ cur = Len(pages)
      /\ DOMAIN pages = 1..Len(pages) /\ pages[cur] \in Nat
  BY <1>1 DEF Message, cur
<1>3. \A q \in 1..Len(pages) : q # cur => pages[q] > 0
  <2>1. CASE phase = "started"
    <3>1. pages = <<0>>
      BY <2>1 DEF PageInv
    <3> QED BY <3>1, <1>2
  <2>2. CASE phase = "open"
    BY <2>2, <1>2 DEF PageInv
  <2> QED BY <2>1, <2>2
<1>4. CASE Commit(m)
  <2>1. /\ pages' = [pages EXCEPT ![cur] = pages[cur] + m.len]
        /\ msgs' = Append(msgs, Place(m, cur))
    BY <1>4 DEF Commit
  <2>2. /\ Len(pages') = cur /\ DOMAIN pages' = 1..Len(pages)
        /\ \A q \in 1..Len(pages) :
               pages'[q] = IF q = cur THEN pages[cur] + m.len ELSE pages[q]
    <3>1. pages[cur] + m.len \in Nat /\ cur \in 1..Len(pages)
      BY <1>2
    <3> QED BY <3>1, <2>1, <1>1, <1>2, ExceptSeq
  <2>3. ASSUME NEW q \in DOMAIN pages' PROVE pages'[q] > 0
    <3>1. q \in 1..Len(pages)
      BY <2>2
    <3>2. CASE q = cur
      BY <3>1, <3>2, <2>2, <1>2
    <3>3. CASE q # cur
      BY <3>1, <3>3, <2>2, <1>3
    <3> QED BY <3>2, <3>3
  <2>4. Len(pages) <= Len(pages') /\ cur <= Len(pages') /\ cur \in Nat \ {0}
    <3>1. cur \in Nat \ {0} /\ Len(pages) = cur /\ Len(pages') = cur
      BY <2>2, <1>2
    <3>2. \A k \in Nat \ {0} : k <= k
      OBVIOUS
    <3> QED BY <3>1, <3>2
  <2>5. \A q \in DOMAIN pages' : pages'[q] > 0
    BY <2>3
  <2>6. \E p \in Nat \ {0} : msgs' = Append(msgs, Place(m, p)) /\ p <= Len(pages')
    BY <2>1, <2>4
  <2> QED BY <2>4, <2>5, <2>6
<1>5. CASE Spill(m)
  <2>1. /\ pages' = Append(pages, m.len)
        /\ msgs' = Append(msgs, Place(m, cur + 1))
        /\ pages[cur] + m.len > pageSize
    BY <1>5, <1>1, <1>2 DEF Spill, InPage
  <2>2. /\ Len(pages') = cur + 1 /\ DOMAIN pages' = 1..(Len(pages) + 1)
        /\ pages'[cur + 1] = m.len
        /\ \A q \in 1..Len(pages) : pages'[q] = pages[q]
    BY <2>1, <1>1, <1>2
  <2>3. pages[cur] > 0
    BY <2>1, <1>1, <1>2
  <2>4. ASSUME NEW q \in 1..(Len(pages) + 1) PROVE pages'[q] > 0
    <3>1. CASE q = cur + 1
      BY <3>1, <2>2, <1>2
    <3>2. CASE q # cur + 1
      BY <3>2, <2>2, <2>3, <1>2, <1>3
    <3> QED BY <3>1, <3>2
  <2> QED BY <2>1, <2>2, <2>4, <1>2
<1>6. ~Lose(m)
  BY <1>1, <1>2 DEF Lose
<1> QED BY <1>4, <1>5, <1>6 DEF Update

LEMMA TakeKeepsPageInv ==
    ASSUME AnyInv, PageInv, phase \in {"started", "open"},
           NEW m \in Message, Update(m), m.ack => m.seq = seqEnd,
           m.ack => seqEnd' = seqEnd + 1, ~m.ack => seqEnd' = seqEnd,
           pageSize' = pageSize,
           \/ phase = "started" /\ m.kind = "begin" /\ phase' = "open"
           \/ phase = "open" /\ m.kind = "msg" /\ phase' = "open"
           \/ phase = "open" /\ m.kind = "end" /\ phase' = "finalized"
    PROVE  PageInv'
<1>1. PICK p \in Nat \ {0} : msgs' = Append(msgs, Place(m, p)) /\ p <= Len(pages')
  BY TakeStores
<1> DEFINE x == Place(m, p)
<1>2. /\ x \in Placed /\ x.kind = m.kind /\ x.ack = m.ack /\ x.seq = m.seq
      /\ x.page = p
  BY PlacedMessage
<1>3. msgs' = Append(msgs, x)
  BY <1>1
<1> HIDE DEF x
<1>4. msgs \in Seq(Placed) /\ seqEnd \in Nat \ {0}
  BY DEF AnyInv, TypeOK
<1>5. Asked(msgs', seqEnd')
  <2>1. Asked(msgs, seqEnd)
    BY DEF AnyInv, PageInv, Asked
  <2>2. /\ x.ack => Asked(msgs', seqEnd + 1)
        /\ ~x.ack => Asked(msgs', seqEnd)
    BY <2>1, <1>2, <1>3, <1>4, AskedAppend
  <2>3. CASE m.ack
    BY <2>2, <2>3, <1>2
  <2>4. CASE ~m.ack
    BY <2>2, <2>4, <1>2
  <2> QED BY <2>3, <2>4
<1>6. (phase' = "open" => Begun(msgs')) /\ (phase' = "finalized" => Ended(msgs'))
  <2>1. CASE phase = "started" /\ m.kind = "begin" /\ phase' = "open"
    BY <2>1, <1>2, <1>3, <1>4, FrameGrows DEF AnyInv
  <2>2. CASE phase = "open" /\ m.kind = "msg" /\ phase' = "open"
    BY <2>2, <1>2, <1>3, <1>4, FrameGrows DEF PageInv
  <2>3. CASE phase = "open" /\ m.kind = "end" /\ phase' = "finalized"
    BY <2>3, <1>2, <1>3, <1>4, FrameGrows DEF PageInv
  <2> QED BY <2>1, <2>2, <2>3
<1>7. ASSUME NEW i \in DOMAIN msgs' PROVE msgs'[i].page <= Len(pages')
  <2>1. /\ DOMAIN msgs = 1..Len(msgs) /\ DOMAIN msgs' = 1..(Len(msgs) + 1)
        /\ \A k \in 1..Len(msgs) : msgs'[k] = msgs[k]
        /\ msgs'[Len(msgs) + 1] = x /\ Len(msgs) \in Nat
    BY <1>2, <1>3, <1>4, AppendedMessage
  <2>2. CASE i = Len(msgs) + 1
    BY <2>1, <2>2, <1>1, <1>2
  <2>3. CASE i \in 1..Len(msgs)
    <3>1. msgs[i] \in Placed /\ msgs[i].page <= Len(pages)
      BY <2>1, <2>3, <1>4 DEF PageInv
    <3>2. Len(pages) \in Nat /\ Len(pages') \in Nat /\ Len(pages) <= Len(pages')
      <4>1. pages \in Seq(Nat) /\ pages' \in Seq(Nat)
        BY UpdateEffect DEF AnyInv, TypeOK
      <4> QED BY <4>1, TakeStores
    <3> QED BY <3>1, <3>2, <2>1, <2>3 DEF Placed
  <2> QED BY <2>1, <2>2, <2>3
<1>8. \A q \in DOMAIN pages' : pages'[q] > 0
  BY TakeStores
<1>9. MsgMax <= pageSize'
  BY DEF PageInv
<1> QED BY <1>5, <1>6, <1>7, <1>8, <1>9 DEF PageInv

LEMMA GiveUpKeepsPageInv ==
    ASSUME PageInv, phase' \in {"panicked", "aborted"},
           pageSize' = pageSize, pages' = pages, msgs' = msgs
    PROVE  PageInv'
BY DEF PageInv

LEMMA StepKeepsPageInv ==
    ASSUME LargePages, AnyInv, PageInv, [Next]_vars
    PROVE  PageInv'
<1>1. seqEnd \in Nat \ {0}
  BY DEF AnyInv, TypeOK
<1>2. ASSUME NEW s \in PageSizes, WithPageSize(s) PROVE PageInv'
  <2>1. msgs' = <<>> /\ pages' = <<0>> /\ phase' = "started" /\ pageSize' = s
    BY <1>2 DEF WithPageSize, AnyInv
  <2>2. MsgMax <= s
    BY DEF LargePages
  <2> QED BY <2>1, <2>2 DEF PageInv
<1>3. ASSUME NEW s \in PageSizes, SizePanics(s) \/ AllocFails(s) PROVE PageInv'
  BY <1>3, GiveUpKeepsPageInv DEF SizePanics, AllocFails
<1>4. CASE WriteBegin
  BY <1>4, FrameTaken, TakeKeepsPageInv DEF WriteBegin
<1>5. CASE BeginPanics
  BY <1>5, GiveUpKeepsPageInv DEF BeginPanics
<1>6. CASE BeginAborts \/ FinalizeAborts
  BY <1>6, GiveUpKeepsPageInv DEF BeginAborts, FinalizeAborts, UpdateFails
<1>7. ASSUME NEW l \in MsgLens, Add(l) PROVE PageInv'
  BY <1>7, <1>1, AddedIsMessage, TakeKeepsPageInv DEF Add
<1>8. ASSUME NEW l \in MsgLens, AddAborts(l) PROVE PageInv'
  BY <1>8, GiveUpKeepsPageInv DEF AddAborts, UpdateFails
<1>9. CASE Finalize
  BY <1>9, FrameTaken, TakeKeepsPageInv DEF Finalize
<1>10. CASE UNCHANGED vars
  BY <1>10 DEF vars, PageInv
<1> QED BY <1>2, <1>3, <1>4, <1>5, <1>6, <1>7, <1>8, <1>9, <1>10 DEF Next

(* With large pages, nothing a batch is given is lost. *)
THEOREM LargePageInvariant ==
    ASSUME LargePages PROVE Spec => [](AnyInv /\ PageInv)
<1>1. Init => PageInv
  BY DEF Init, PageInv
<1>2. AnyInv /\ PageInv /\ [Next]_vars => PageInv'
  BY StepKeepsPageInv
<1> QED BY <1>1, <1>2, AnyPageInvariant, PTL DEF Spec

(***************************************************************************)
(* Every number of sequence_numbers() is that of a message that expects an *)
(* acknowledgement.                                                        *)
(***************************************************************************)
THEOREM EveryNumberIsAsked ==
    ASSUME LargePages PROVE Spec => []EveryNumberAsked
<1>1. PageInv => EveryNumberAsked
  BY DEF PageInv, Asked, EveryNumberAsked, SequenceNumbers
<1> QED BY <1>1, LargePageInvariant, PTL

(* A finalized batch has its begin first, its end last, and neither between. *)
THEOREM BatchesAreFramed ==
    ASSUME LargePages PROVE Spec => []Framed
<1>1. PageInv => Framed
  BY DEF PageInv, Ended, Framed
<1> QED BY <1>1, LargePageInvariant, PTL

(* iter() hands out every message and no empty buffer. *)
THEOREM IterIsComplete ==
    ASSUME LargePages PROVE Spec => []BuffersComplete
<1>1. ASSUME AnyInv, PageInv PROVE BuffersComplete
  <2>1. ASSUME phase = "finalized"
        PROVE  /\ \A p \in 1..IovecLen : pages[p] > 0
               /\ \A i \in DOMAIN msgs : msgs[i].page <= IovecLen
    <3>1. pages \in Seq(Nat) /\ pages # <<>> /\ cur = Len(pages)
      BY <1>1, <2>1 DEF AnyInv, TypeOK, cur
    <3>2. \A p \in 1..Len(pages) : pages[p] > 0
      BY <1>1, <2>1, <3>1 DEF PageInv
    <3>3. IovecLen = Len(pages)
      BY <3>1, <3>2 DEF IovecLen
    <3> QED BY <1>1, <3>2, <3>3 DEF PageInv
  <2> QED BY <2>1 DEF BuffersComplete
<1> QED BY <1>1, LargePageInvariant, PTL

----------------------------------------------------------------------------
(* The batch implements BatchLog.                                          *)

(* The header of a placed message, and those of a list of messages. *)
Header(m) == [kind |-> m.kind, seq |-> m.seq, ack |-> m.ack]

Headers(s) == [i \in DOMAIN s |-> Header(s[i])]

HeaderSet == [kind : {"begin", "msg", "end"}, seq : Nat, ack : BOOLEAN]

LEMMA HeadersAppend ==
    ASSUME NEW s \in Seq(Placed), NEW x \in Placed
    PROVE  Headers(Append(s, x)) = Append(Headers(s), Header(x))
<1> DEFINE t == Append(s, x)
<1>1. /\ t \in Seq(Placed) /\ DOMAIN s = 1..Len(s) /\ DOMAIN t = 1..(Len(s) + 1)
      /\ \A i \in 1..Len(s) : t[i] = s[i]
      /\ t[Len(s) + 1] = x /\ Len(s) \in Nat
      /\ \A i \in 1..Len(s) : s[i] \in Placed
  BY AppendedMessage
<1> HIDE DEF t
<1>2. Header(x) \in HeaderSet /\ \A i \in 1..Len(s) : Header(s[i]) \in HeaderSet
  BY <1>1 DEF Header, HeaderSet, Placed
<1>3. /\ Headers(s) \in Seq(HeaderSet) /\ Len(Headers(s)) = Len(s)
      /\ \A i \in 1..Len(s) : Headers(s)[i] = Header(s[i])
  BY <1>1, <1>2 DEF Headers
<1> DEFINE h == Headers(s)
           y == Header(x)
           g == Headers(t)
<1>4. /\ g \in Seq(HeaderSet) /\ Len(g) = Len(s) + 1
      /\ \A i \in 1..(Len(s) + 1) : g[i] = Header(t[i])
  <2>1. \A i \in 1..(Len(s) + 1) : Header(t[i]) \in HeaderSet
    <3>1. \A i \in 1..(Len(s) + 1) : i \in 1..Len(s) \/ i = Len(s) + 1
      BY <1>1
    <3> QED BY <3>1, <1>1, <1>2
  <2> QED BY <2>1, <1>1 DEF Headers
<1>5. h \in Seq(HeaderSet) /\ y \in HeaderSet /\ Len(h) = Len(s)
      /\ \A i \in 1..Len(s) : h[i] = Header(s[i])
  BY <1>2, <1>3
<1> HIDE DEF h, y, g
<1>6. /\ Append(h, y) \in Seq(HeaderSet) /\ Len(Append(h, y)) = Len(s) + 1
      /\ \A i \in 1..Len(s) : Append(h, y)[i] = h[i]
      /\ Append(h, y)[Len(s) + 1] = y
  BY <1>5
<1>7. \A i \in 1..Len(g) : g[i] = Append(h, y)[i]
  <2> TAKE i \in 1..Len(g)
  <2>1. CASE i = Len(s) + 1
    BY <2>1, <1>1, <1>4, <1>6 DEF y
  <2>2. CASE i # Len(s) + 1
    <3>1. i \in 1..Len(s)
      BY <2>2, <1>1, <1>4
    <3> QED BY <3>1, <1>1, <1>4, <1>5, <1>6
  <2> QED BY <2>1, <2>2
<1>8. g = Append(h, y)
  BY <1>4, <1>6, <1>7, SeqEqual
<1> QED BY <1>8 DEF t, h, y, g

(* A message taken becomes the abstract list's next one. *)
LEMMA TakeAppends ==
    ASSUME AnyInv, PageInv, phase \in {"started", "open"},
           NEW m \in Message, Update(m), pageSize' = pageSize
    PROVE  Headers(msgs') = Append(Headers(msgs), Header(m))
<1>1. PICK p \in Nat \ {0} : msgs' = Append(msgs, Place(m, p))
  BY TakeStores
<1>2. Place(m, p) \in Placed /\ Header(Place(m, p)) = Header(m)
  BY PlacedMessage DEF Header
<1>3. msgs \in Seq(Placed)
  BY DEF AnyInv, TypeOK
<1> QED BY <1>1, <1>2, <1>3, HeadersAppend

(* The abstract list. *)
logBar == Headers(msgs)
phaseBar == IF phase = "started" THEN "new"
            ELSE IF phase \in {"panicked", "aborted"} THEN "dead" ELSE phase

LEMMA LogMapping ==
    /\ Log!Begin <=> /\ phaseBar = "new" /\ phaseBar' = "open"
                     /\ logBar' = <<Log!Frame("begin")>>
                     /\ seqEnd' = IF AckBatchEnd THEN 2 ELSE 1
                     /\ AckBatchEnd' = AckBatchEnd
    /\ Log!Add <=> /\ phaseBar = "open"
                   /\ logBar' = Append(logBar, [kind |-> "msg", seq |-> seqEnd, ack |-> TRUE])
                   /\ seqEnd' = seqEnd + 1
                   /\ phaseBar' = phaseBar /\ AckBatchEnd' = AckBatchEnd
    /\ Log!Finalize <=> /\ phaseBar = "open" /\ phaseBar' = "finalized"
                        /\ logBar' = Append(logBar, Log!Frame("end"))
                        /\ seqEnd' = IF AckBatchEnd THEN seqEnd + 1 ELSE seqEnd
                        /\ AckBatchEnd' = AckBatchEnd
    /\ Log!Die <=> /\ phaseBar \in {"new", "open"} /\ phaseBar' = "dead"
                   /\ seqEnd' \in {seqEnd, seqEnd + 1}
                   /\ AckBatchEnd' = AckBatchEnd /\ logBar' = logBar
BY DEF Log!Begin, Log!Add, Log!Finalize, Log!Die, phaseBar, logBar, Headers, Header

LEMMA FrameHeader ==
    ASSUME NEW k
    PROVE  Header(FrameMsg(k)) = Log!Frame(k)
BY DEF Header, FrameMsg, Log!Frame

(* A step that gives up the batch is an end of the abstract list. *)
LEMMA GiveUpDies ==
    ASSUME phase \in {"new", "started", "open"},
           phase' \in {"panicked", "aborted"}, seqEnd' \in {seqEnd, seqEnd + 1},
           release' = release, msgs' = msgs
    PROVE  Log!Next
<1>1. AckBatchEnd' = AckBatchEnd
  BY DEF AckBatchEnd, KernelVersion
<1>2. phaseBar \in {"new", "open"} /\ phaseBar' = "dead" /\ logBar' = logBar
  BY DEF phaseBar, logBar
<1> QED BY <1>1, <1>2, LogMapping DEF Log!Next

LEMMA StepRefinesLog ==
    ASSUME LargePages, AnyInv, PageInv, [Next]_vars
    PROVE  [Log!Next]_(Log!vars)
<1>1. seqEnd \in Nat \ {0}
  BY DEF AnyInv, TypeOK
<1>2. ASSUME NEW s \in PageSizes, WithPageSize(s) PROVE UNCHANGED Log!vars
  <2>1. phase = "new" /\ phase' = "started" /\ msgs' = msgs /\ seqEnd' = seqEnd
        /\ release' = release
    BY <1>2 DEF WithPageSize
  <2>2. AckBatchEnd' = AckBatchEnd
    BY <2>1 DEF AckBatchEnd, KernelVersion
  <2> QED BY <2>1, <2>2 DEF Log!vars
<1>3. ASSUME NEW s \in PageSizes, SizePanics(s) \/ AllocFails(s) PROVE Log!Next
  BY <1>3, GiveUpDies DEF SizePanics, AllocFails
<1>4. CASE WriteBegin
  <2>1. /\ phase = "started" /\ phase' = "open" /\ release' = release
        /\ Update(FrameMsg("begin")) /\ seqEnd' = SeqAfterFrame
        /\ pageSize' = pageSize
    BY <1>4 DEF WriteBegin
  <2>2. FrameMsg("begin") \in Message
    BY <1>1, FrameIsMessage
  <2>3. Headers(msgs') = Append(Headers(msgs), Header(FrameMsg("begin")))
    BY <2>1, <2>2, TakeAppends
  <2>4. msgs = <<>> /\ seqEnd = 1
    BY <2>1 DEF AnyInv
  <2>5. Headers(msgs) = <<>>
    BY <2>4 DEF Headers
  <2>6. logBar' = <<Log!Frame("begin")>>
    BY <2>3, <2>5, FrameHeader DEF logBar
  <2>7. AckBatchEnd' = AckBatchEnd
    BY <2>1 DEF AckBatchEnd, KernelVersion
  <2>8. seqEnd' = IF AckBatchEnd THEN 2 ELSE 1
    BY <2>1, <2>4 DEF SeqAfterFrame
  <2> QED BY <2>1, <2>6, <2>7, <2>8, LogMapping DEF phaseBar, Log!Next
<1>5. CASE BeginPanics
  BY <1>5, GiveUpDies DEF BeginPanics
<1>6. CASE BeginAborts \/ FinalizeAborts
  <2>1. SeqAfterFrame \in {seqEnd, seqEnd + 1}
    BY DEF SeqAfterFrame
  <2> QED BY <1>6, <2>1, GiveUpDies DEF BeginAborts, FinalizeAborts, UpdateFails
<1>7. ASSUME NEW l \in MsgLens, Add(l) PROVE Log!Next
  <2>1. /\ phase = "open" /\ phase' = "open" /\ release' = release
        /\ Update(AddedMsg(l)) /\ seqEnd' = seqEnd + 1 /\ pageSize' = pageSize
    BY <1>7 DEF Add
  <2>2. AddedMsg(l) \in Message
    BY <1>1, AddedIsMessage
  <2>3. Headers(msgs') = Append(Headers(msgs), Header(AddedMsg(l)))
    BY <2>1, <2>2, TakeAppends
  <2>4. Header(AddedMsg(l)) = [kind |-> "msg", seq |-> seqEnd, ack |-> TRUE]
    BY DEF Header, AddedMsg
  <2>5. logBar' = Append(logBar, [kind |-> "msg", seq |-> seqEnd, ack |-> TRUE])
    BY <2>3, <2>4 DEF logBar
  <2>6. AckBatchEnd' = AckBatchEnd
    BY <2>1 DEF AckBatchEnd, KernelVersion
  <2> QED BY <2>1, <2>5, <2>6, LogMapping DEF phaseBar, Log!Next
<1>8. ASSUME NEW l \in MsgLens, AddAborts(l) PROVE Log!Next
  BY <1>8, GiveUpDies DEF AddAborts, UpdateFails
<1>9. CASE Finalize
  <2>1. /\ phase = "open" /\ phase' = "finalized" /\ release' = release
        /\ Update(FrameMsg("end")) /\ seqEnd' = SeqAfterFrame
        /\ pageSize' = pageSize
    BY <1>9 DEF Finalize
  <2>2. FrameMsg("end") \in Message
    BY <1>1, FrameIsMessage
  <2>3. Headers(msgs') = Append(Headers(msgs), Header(FrameMsg("end")))
    BY <2>1, <2>2, TakeAppends
  <2>4. logBar' = Append(logBar, Log!Frame("end"))
    BY <2>3, FrameHeader DEF logBar
  <2>5. AckBatchEnd' = AckBatchEnd
    BY <2>1 DEF AckBatchEnd, KernelVersion
  <2> QED BY <2>1, <2>4, <2>5, LogMapping DEF phaseBar, Log!Next, SeqAfterFrame
<1>10. CASE UNCHANGED vars
  <2>1. msgs' = msgs /\ seqEnd' = seqEnd /\ phase' = phase /\ release' = release
    BY <1>10 DEF vars
  <2>2. AckBatchEnd' = AckBatchEnd
    BY <2>1 DEF AckBatchEnd, KernelVersion
  <2> QED BY <2>1, <2>2 DEF Log!vars
<1> QED BY <1>2, <1>3, <1>4, <1>5, <1>6, <1>7, <1>8, <1>9, <1>10 DEF Next

(***************************************************************************)
(* With large pages, a batch is the framed and numbered list of messages   *)
(* that BatchLog describes, whatever pages it is spread over.              *)
(***************************************************************************)
THEOREM ImplementsBatchLog ==
    ASSUME LargePages PROVE Spec => LogSpec
<1>1. Init => Log!Init
  <2> SUFFICES ASSUME Init PROVE Log!Init
    OBVIOUS
  <2>1. phase = "new" /\ seqEnd = 1 /\ msgs = <<>>
    BY DEF Init
  <2>2. AckBatchEnd \in BOOLEAN
    BY DEF AckBatchEnd
  <2> QED BY <2>1, <2>2 DEF Log!Init
<1>2. AnyInv /\ PageInv /\ [Next]_vars => [Log!Next]_(Log!vars)
  BY StepRefinesLog
<1> QED BY <1>1, <1>2, LargePageInvariant, PTL DEF Spec, LogSpec, Log!Spec

----------------------------------------------------------------------------
(* Acknowledgements of the begin and the end.                              *)

(* KERNEL_VERSION reads the release, or reading it panics. *)
VersionNoticed == \A r \in Releases : r.parsable \/ DebugBuild

(* The begin and the end ask only a kernel that answers. *)
FrameAcked == \A i \in DOMAIN msgs : msgs[i].kind # "msg" /\ msgs[i].ack => KernelAcksFrame

(* Begun batches know the kernel's version. *)
AckInv ==
    /\ FrameAcked
    /\ phase \in {"open", "finalized"} => ~VersionPanics

(* A frame asks for an acknowledgement only of a kernel that is known. *)
LEMMA KnownVersion ==
    ASSUME VersionNoticed, AnyInv, ~VersionPanics, AckBatchEnd
    PROVE  KernelAcksFrame
<1>1. release.parsable
  <2>1. release \in Releases /\ (release.parsable \/ DebugBuild)
    BY DEF AnyInv, TypeOK, VersionNoticed
  <2> QED BY <2>1 DEF VersionPanics, KernelVersion
<1>2. release.version \in Nat \X Nat
  BY BuildAssumption DEF AnyInv, TypeOK
<1>3. KernelVersion = release.version /\ KernelVersion # None
  <2>1. release.version # <<>>
    BY <1>2
  <2> QED BY <1>1, <2>1 DEF KernelVersion, None
<1>4. AtLeast(release.version, 6, 10)
  BY <1>3 DEF AckBatchEnd
<1> QED BY <1>4 DEF KernelAcksFrame

LEMMA TakeKeepsAckInv ==
    ASSUME AnyInv, AckInv, phase \in {"started", "open"}, NEW m \in Message,
           Update(m), m.kind # "msg" /\ m.ack => KernelAcksFrame,
           ~VersionPanics, release' = release
    PROVE  AckInv'
<1>1. KernelAcksFrame' = KernelAcksFrame /\ VersionPanics' = VersionPanics
  BY DEF KernelAcksFrame, VersionPanics, KernelVersion
<1>2. msgs \in Seq(Placed) /\ pages \in Seq(Nat) /\ pages # <<>>
  BY DEF AnyInv, TypeOK
<1>3. FrameAcked'
  <2>1. CASE msgs' = msgs
    BY <2>1, <1>1 DEF AckInv, FrameAcked
  <2>2. ASSUME NEW p \in Nat \ {0}, msgs' = Append(msgs, Place(m, p))
        PROVE  FrameAcked'
    <3> DEFINE x == Place(m, p)
    <3>1. x \in Placed /\ x.kind = m.kind /\ x.ack = m.ack
      BY PlacedMessage
    <3>2. msgs' = Append(msgs, x)
      BY <2>2
    <3> HIDE DEF x
    <3>3. /\ DOMAIN msgs = 1..Len(msgs) /\ DOMAIN msgs' = 1..(Len(msgs) + 1)
          /\ \A i \in 1..Len(msgs) : msgs'[i] = msgs[i]
          /\ msgs'[Len(msgs) + 1] = x /\ Len(msgs) \in Nat
      BY <3>1, <3>2, <1>2, AppendedMessage
    <3>4. ASSUME NEW i \in DOMAIN msgs', msgs'[i].kind # "msg", msgs'[i].ack
          PROVE  KernelAcksFrame
      <4>1. CASE i \in 1..Len(msgs)
        BY <4>1, <3>3, <3>4 DEF AckInv, FrameAcked
      <4>2. CASE i = Len(msgs) + 1
        BY <4>2, <3>1, <3>3, <3>4
      <4> QED BY <4>1, <4>2, <3>3
    <3> QED BY <3>4, <1>1 DEF FrameAcked
  <2>3. pageSize \in Nat
    BY DEF AnyInv, TypeOK
  <2>4. \/ msgs' = msgs
        \/ \E p \in Nat \ {0} : msgs' = Append(msgs, Place(m, p))
    BY <2>3, <1>2, UpdateEffect
  <2> QED BY <2>1, <2>2, <2>4
<1> QED BY <1>1, <1>3 DEF AckInv

LEMMA StepKeepsAckInv ==
    ASSUME VersionNoticed, AnyInv, AckInv, [Next]_vars
    PROVE  AckInv'
<1>1. seqEnd \in Nat \ {0}
  BY DEF AnyInv, TypeOK
<1>2. ASSUME msgs' = msgs, release' = release,
             phase' \in {"open", "finalized"} => phase' = phase
      PROVE  AckInv'
  BY <1>2 DEF AckInv, FrameAcked, KernelAcksFrame, VersionPanics, KernelVersion
<1>3. ASSUME NEW s \in PageSizes, SizePanics(s) \/ AllocFails(s) \/ WithPageSize(s)
      PROVE  AckInv'
  BY <1>2, <1>3 DEF SizePanics, AllocFails, WithPageSize
<1>4. ASSUME NEW k \in {"begin", "end"}, phase \in {"started", "open"},
             Update(FrameMsg(k)), ~VersionPanics, release' = release
      PROVE  AckInv'
  <2>1. FrameMsg(k) \in Message /\ FrameMsg(k).ack = AckBatchEnd
    BY <1>1, FrameIsMessage
  <2>2. FrameMsg(k).ack => KernelAcksFrame
    BY <2>1, <1>4, KnownVersion
  <2> QED BY <2>1, <2>2, <1>4, TakeKeepsAckInv
<1>5. CASE WriteBegin
  BY <1>5, <1>4 DEF WriteBegin
<1>6. CASE BeginPanics
  BY <1>2, <1>6 DEF BeginPanics
<1>7. CASE BeginAborts \/ FinalizeAborts
  BY <1>2, <1>7 DEF BeginAborts, FinalizeAborts, UpdateFails
<1>8. ASSUME NEW l \in MsgLens, Add(l) PROVE AckInv'
  <2>1. AddedMsg(l) \in Message /\ AddedMsg(l).kind = "msg"
    BY <1>1, AddedIsMessage
  <2>2. phase = "open" /\ ~VersionPanics /\ Update(AddedMsg(l)) /\ release' = release
    BY <1>8 DEF Add, AckInv
  <2> QED BY <2>1, <2>2, TakeKeepsAckInv
<1>9. ASSUME NEW l \in MsgLens, AddAborts(l) PROVE AckInv'
  BY <1>2, <1>9 DEF AddAborts, UpdateFails
<1>10. CASE Finalize
  <2>1. phase = "open" /\ ~VersionPanics /\ Update(FrameMsg("end")) /\ release' = release
    BY <1>10 DEF Finalize, AckInv
  <2> QED BY <2>1, <1>4
<1>11. CASE UNCHANGED vars
  BY <1>2, <1>11 DEF vars
<1> QED BY <1>3, <1>5, <1>6, <1>7, <1>8, <1>9, <1>10, <1>11 DEF Next
=============================================================================
