------------------------- MODULE Transaction_proofs -------------------------
(***************************************************************************)
(* Proofs about Transaction, for every batch whose messages are all        *)
(* stored, every socket size and every way the kernel decides.             *)
(***************************************************************************)
EXTENDS Transaction, Batch_proofs

(***************************************************************************)
(* The assumptions: every page can hold any message, and the kernel's      *)
(* version is read or its being unreadable noticed.  Without the first,    *)
(* messages are lost; without the second, the driver may wait for          *)
(* acknowledgements that an old kernel does not give.                      *)
(***************************************************************************)
Sendable == LargePages /\ VersionNoticed

----------------------------------------------------------------------------
(* The numbers of a batch.                                                 *)

(* A begin that is not acknowledged takes no number. *)
Skipped == IF AckBatchEnd THEN 0 ELSE 1

(* Message i asks for an answer and has the number of its place, or neither. *)
CountInv ==
    /\ phase = "open" => seqEnd = Len(msgs) + 1 - Skipped
    /\ phase = "finalized" => seqEnd = Len(msgs) + 1 - 2 * Skipped
    /\ \A i \in DOMAIN msgs :
           /\ msgs[i].ack <=> (AckBatchEnd \/ msgs[i].kind = "msg")
           /\ msgs[i].seq = IF msgs[i].ack THEN i - Skipped ELSE 0

LEMMA TakeKeepsCountInv ==
    ASSUME AnyInv, PageInv, CountInv, phase \in {"started", "open"},
           NEW m \in Message, Update(m), pageSize' = pageSize, release' = release,
           m.ack <=> (AckBatchEnd \/ m.kind = "msg"),
           m.seq = IF m.ack THEN seqEnd ELSE 0,
           seqEnd' = IF m.ack THEN seqEnd + 1 ELSE seqEnd,
           \/ phase = "started" /\ m.kind = "begin" /\ phase' = "open"
           \/ phase = "open" /\ m.kind = "msg" /\ phase' = "open"
           \/ phase = "open" /\ m.kind = "end" /\ phase' = "finalized"
    PROVE  CountInv'
<1>1. PICK p \in Nat \ {0} : msgs' = Append(msgs, Place(m, p))
  BY TakeStores
<1> DEFINE x == Place(m, p)
<1>2. x \in Placed /\ x.kind = m.kind /\ x.ack = m.ack /\ x.seq = m.seq
  BY PlacedMessage
<1>3. msgs' = Append(msgs, x)
  BY <1>1
<1> HIDE DEF x
<1>4. msgs \in Seq(Placed) /\ seqEnd \in Nat \ {0}
  BY DEF AnyInv, TypeOK
<1>5. /\ DOMAIN msgs = 1..Len(msgs) /\ DOMAIN msgs' = 1..(Len(msgs) + 1)
      /\ \A i \in 1..Len(msgs) : msgs'[i] = msgs[i]
      /\ msgs'[Len(msgs) + 1] = x
      /\ Len(msgs) \in Nat /\ Len(msgs') = Len(msgs) + 1
  BY <1>2, <1>3, <1>4, AppendedMessage
<1>6. AckBatchEnd' = AckBatchEnd /\ AckBatchEnd \in BOOLEAN
  BY DEF AckBatchEnd, KernelVersion
<1>7. phase = "started" => Len(msgs) = 0 /\ seqEnd = 1
  <2>1. phase = "started" => msgs = <<>> /\ seqEnd = 1
    BY DEF AnyInv
  <2> QED BY <2>1
<1> HIDE DEF AckBatchEnd
<1>8. Skipped' = Skipped /\ Skipped = (IF AckBatchEnd THEN 0 ELSE 1)
  BY <1>6 DEF Skipped
<1> HIDE DEF Skipped
<1>9. m.ack => seqEnd = Len(msgs) + 1 - Skipped
  <2>1. CASE phase = "started"
    BY <2>1, <1>6, <1>7, <1>8
  <2>2. CASE phase = "open"
    BY <2>2 DEF CountInv
  <2> QED BY <2>1, <2>2
<1>10. /\ x.ack <=> (AckBatchEnd \/ x.kind = "msg")
       /\ x.seq = IF x.ack THEN Len(msgs) + 1 - Skipped ELSE 0
  BY <1>2, <1>9
<1>11. ASSUME NEW i \in 1..(Len(msgs) + 1)
       PROVE  /\ msgs'[i].ack <=> (AckBatchEnd \/ msgs'[i].kind = "msg")
              /\ msgs'[i].seq = IF msgs'[i].ack THEN i - Skipped ELSE 0
  <2>1. CASE i \in 1..Len(msgs)
    BY <2>1, <1>5 DEF CountInv
  <2>2. CASE i = Len(msgs) + 1
    <3>1. msgs'[i] = x
      BY <2>2, <1>5
    <3>2. msgs'[i].seq = IF msgs'[i].ack THEN i - Skipped ELSE 0
      BY <3>1, <2>2, <1>5, <1>8, <1>10
    <3>3. msgs'[i].ack <=> (AckBatchEnd \/ msgs'[i].kind = "msg")
      BY <3>1, <1>10
    <3> QED BY <3>2, <3>3
  <2> QED BY <2>1, <2>2, <1>5
<1>12. phase' = "open" => seqEnd' = Len(msgs') + 1 - Skipped
  <2>1. CASE phase = "started"
    BY <2>1, <1>4, <1>5, <1>6, <1>7, <1>8
  <2>2. CASE phase = "open"
    BY <2>2, <1>4, <1>5, <1>6, <1>8 DEF CountInv
  <2> QED BY <2>1, <2>2
<1>13. phase' = "finalized" => seqEnd' = Len(msgs') + 1 - 2 * Skipped
  BY <1>4, <1>5, <1>6, <1>8 DEF CountInv
<1> QED BY <1>5, <1>6, <1>8, <1>11, <1>12, <1>13 DEF CountInv

LEMMA StepKeepsCountInv ==
    ASSUME LargePages, AnyInv, PageInv, CountInv, [Next]_vars
    PROVE  CountInv'
<1>1. seqEnd \in Nat \ {0}
  BY DEF AnyInv, TypeOK
<1>2. ASSUME msgs' = msgs, release' = release,
             phase' \in {"open", "finalized"} => phase' = phase /\ seqEnd' = seqEnd
      PROVE  CountInv'
  <2>1. AckBatchEnd' = AckBatchEnd
    BY <1>2 DEF AckBatchEnd, KernelVersion
  <2> QED BY <1>2, <2>1 DEF CountInv, Skipped
<1>3. ASSUME NEW s \in PageSizes, SizePanics(s) \/ AllocFails(s) \/ WithPageSize(s)
      PROVE  CountInv'
  BY <1>2, <1>3 DEF SizePanics, AllocFails, WithPageSize
<1>4. ASSUME NEW k \in {"begin", "end"}
      PROVE  /\ FrameMsg(k) \in Message /\ FrameMsg(k).kind = k
             /\ FrameMsg(k).ack <=> (AckBatchEnd \/ FrameMsg(k).kind = "msg")
             /\ FrameMsg(k).seq = IF FrameMsg(k).ack THEN seqEnd ELSE 0
             /\ SeqAfterFrame = IF FrameMsg(k).ack THEN seqEnd + 1 ELSE seqEnd
  BY <1>1, FrameIsMessage DEF FrameMsg, SeqAfterFrame
<1>5. CASE WriteBegin
  BY <1>4, <1>5, TakeKeepsCountInv DEF WriteBegin
<1>6. CASE BeginPanics
  BY <1>2, <1>6 DEF BeginPanics
<1>7. CASE BeginAborts \/ FinalizeAborts
  BY <1>2, <1>7 DEF BeginAborts, FinalizeAborts, UpdateFails
<1>8. ASSUME NEW l \in MsgLens, Add(l) PROVE CountInv'
  <2>1. /\ AddedMsg(l) \in Message /\ AddedMsg(l).kind = "msg"
        /\ AddedMsg(l).ack = TRUE /\ AddedMsg(l).seq = seqEnd
    BY <1>1, AddedIsMessage DEF AddedMsg
  <2>2. /\ phase = "open" /\ phase' = "open" /\ Update(AddedMsg(l))
        /\ release' = release /\ pageSize' = pageSize /\ seqEnd' = seqEnd + 1
    BY <1>8 DEF Add
  <2> QED BY <2>1, <2>2, TakeKeepsCountInv
<1>9. ASSUME NEW l \in MsgLens, AddAborts(l) PROVE CountInv'
  BY <1>2, <1>9 DEF AddAborts, UpdateFails
<1>10. CASE Finalize
  BY <1>4, <1>10, TakeKeepsCountInv DEF Finalize
<1>11. CASE UNCHANGED vars
  BY <1>2, <1>11 DEF vars
<1> QED BY <1>3, <1>5, <1>6, <1>7, <1>8, <1>9, <1>10, <1>11 DEF Next

(* All that is needed of the batch. *)
BatchInv == AnyInv /\ PageInv /\ AckInv /\ CountInv

LEMMA InitBatchInv == Init => BatchInv
<1>1. Init => PageInv
  BY DEF Init, PageInv
<1>2. Init => AckInv
  BY DEF Init, AckInv, FrameAcked
<1>3. Init => CountInv
  BY DEF Init, CountInv
<1> QED BY <1>1, <1>2, <1>3, InitAnyInv DEF BatchInv

LEMMA StepKeepsBatchInv ==
    ASSUME Sendable, BatchInv, [Next]_vars
    PROVE  BatchInv'
BY StepKeepsAnyInv, StepKeepsPageInv, StepKeepsAckInv, StepKeepsCountInv
   DEF BatchInv, Sendable

----------------------------------------------------------------------------
(* The answers.                                                            *)

(* The answers that the driver may still read, in order. *)
Stream(read, held, given, cut) == (read \o held) \o (IF cut THEN <<>> ELSE given)

Pending == Stream(inbox, queue, answers, overrun)

Fails(s) == \E k \in DOMAIN s : ~s[k].ok

(***************************************************************************)
(* Up to its first error, s answers the numbers from e on, in order and    *)
(* below end; the error itself may carry no number.                        *)
(***************************************************************************)
Sound(s, e, end) ==
    \A k \in DOMAIN s :
        (\A j \in 1..(k - 1) : s[j].ok) =>
            /\ s[k].seq \in {0, e + k - 1}
            /\ end > 1 => e + k - 1 < end

LEMMA AnswerFacts ==
    ASSUME NEW s \in Seq(Answer)
    PROVE  /\ Len(s) \in Nat /\ DOMAIN s = 1..Len(s)
           /\ \A k \in 1..Len(s) : s[k] \in Answer /\ s[k].ok \in BOOLEAN
           /\ s = <<>> <=> Len(s) = 0
<1>1. Len(s) \in Nat /\ DOMAIN s = 1..Len(s) /\ \A k \in 1..Len(s) : s[k] \in Answer
  BY ElementOfSeq, LenProperties
<1>2. \A a \in Answer : a.ok \in BOOLEAN
  BY DEF Answer
<1>3. s = <<>> <=> Len(s) = 0
  BY EmptySeq
<1> QED BY <1>1, <1>2, <1>3

(* The next answer, if there is one, is to the number e or to the batch. *)
LEMMA SoundHead ==
    ASSUME NEW s \in Seq(Answer), s # <<>>, NEW e \in Nat, NEW end \in Nat,
           Sound(s, e, end)
    PROVE  s[1].seq \in {0, e} /\ (end > 1 => e < end)
<1>1. 1 \in DOMAIN s /\ (\A j \in 1..(1 - 1) : s[j].ok) /\ e + 1 - 1 = e
  BY AnswerFacts
<1> QED BY <1>1 DEF Sound

LEMMA SoundTail ==
    ASSUME NEW s \in Seq(Answer), s # <<>>, NEW e \in Nat, NEW end \in Nat,
           Sound(s, e, end), s[1].ok
    PROVE  /\ Sound(Tail(s), e + 1, end)
           /\ Fails(Tail(s)) <=> Fails(s)
           /\ Tail(s) \in Seq(Answer) /\ Len(Tail(s)) = Len(s) - 1
<1> DEFINE t == Tail(s)
<1>1. /\ Len(s) \in Nat \ {0} /\ DOMAIN s = 1..Len(s)
      /\ t \in Seq(Answer) /\ Len(t) = Len(s) - 1 /\ DOMAIN t = 1..(Len(s) - 1)
      /\ \A k \in 1..(Len(s) - 1) : t[k] = s[k + 1]
  BY AnswerFacts
<1> HIDE DEF t
<1>2. ASSUME NEW k \in 1..(Len(s) - 1), \A j \in 1..(k - 1) : t[j].ok
      PROVE  t[k].seq \in {0, (e + 1) + k - 1} /\ (end > 1 => (e + 1) + k - 1 < end)
  <2>1. k + 1 \in DOMAIN s /\ e + (k + 1) - 1 = (e + 1) + k - 1
    BY <1>1
  <2>2. ASSUME NEW j \in 1..((k + 1) - 1) PROVE s[j].ok
    <3>1. CASE j = 1
      BY <3>1
    <3>2. CASE j # 1
      <4>1. j - 1 \in 1..(k - 1) /\ t[j - 1] = s[(j - 1) + 1] /\ (j - 1) + 1 = j
        BY <3>2, <1>1
      <4> QED BY <4>1, <1>2
    <3> QED BY <3>1, <3>2
  <2>3. /\ s[k + 1].seq \in {0, e + (k + 1) - 1}
        /\ end > 1 => e + (k + 1) - 1 < end
    BY <2>1, <2>2 DEF Sound
  <2> QED BY <2>1, <2>3, <1>1
<1>3. Fails(t) => Fails(s)
  <2>1. \A k \in 1..(Len(s) - 1) : k + 1 \in 1..Len(s)
    BY <1>1
  <2> QED BY <2>1, <1>1 DEF Fails
<1>4. Fails(s) => Fails(t)
  <2>1. \A k \in 1..Len(s) : k # 1 => k - 1 \in 1..(Len(s) - 1) /\ (k - 1) + 1 = k
    BY <1>1
  <2> SUFFICES ASSUME NEW k \in 1..Len(s), ~s[k].ok PROVE Fails(t)
    BY <1>1 DEF Fails
  <2>2. k # 1
    OBVIOUS
  <2>3. t[k - 1] = s[k] /\ k - 1 \in DOMAIN t
    BY <2>1, <2>2, <1>1
  <2> QED BY <2>3 DEF Fails
<1> QED BY <1>1, <1>2, <1>3, <1>4 DEF Sound, t

(* What is left of a stream that loses its end. *)
LEMMA SoundPrefix ==
    ASSUME NEW s \in Seq(Answer), NEW u \in Seq(Answer), u # <<>>,
           NEW e \in Nat, NEW end \in Nat, Sound(s \o u, e, end)
    PROVE  /\ Sound(s, e, end)
           /\ ~Fails(s) => end <= 1 \/ e + Len(s) < end
           /\ Fails(s) => Fails(s \o u)
<1> DEFINE t == s \o u
<1>1. /\ Len(s) \in Nat /\ Len(u) \in Nat \ {0} /\ DOMAIN s = 1..Len(s)
      /\ DOMAIN t = 1..(Len(s) + Len(u))
      /\ \A k \in 1..Len(s) : t[k] = s[k]
  BY AnswerFacts, LenProperties, ConcatProperties
<1>2. Sound(t, e, end)
  OBVIOUS
<1> HIDE DEF t
<1>3. ASSUME NEW k \in 1..Len(s), \A j \in 1..(k - 1) : s[j].ok
      PROVE  s[k].seq \in {0, e + k - 1} /\ (end > 1 => e + k - 1 < end)
  <2>1. k \in DOMAIN t /\ t[k] = s[k] /\ \A j \in 1..(k - 1) : t[j] = s[j]
    BY <1>1
  <2> QED BY <2>1, <1>2, <1>3 DEF Sound
<1>4. ASSUME ~Fails(s), end > 1 PROVE e + Len(s) < end
  <2>1. Len(s) + 1 \in DOMAIN t /\ e + (Len(s) + 1) - 1 = e + Len(s)
    BY <1>1
  <2>2. \A j \in 1..((Len(s) + 1) - 1) : t[j].ok
    BY <1>1, <1>4 DEF Fails
  <2> QED BY <2>1, <2>2, <1>2, <1>4 DEF Sound
<1>5. Fails(s) => Fails(t)
  BY <1>1 DEF Fails
<1> QED BY <1>1, <1>3, <1>4, <1>5 DEF Sound, t

(* The answers to the first messages of a batch, in order. *)
LEMMA CountedSound ==
    ASSUME NEW s \in Seq(Answer), NEW end \in Nat, Len(s) < end,
           \A k \in DOMAIN s : s[k].seq = k
    PROVE  Sound(s, 1, end)
<1>1. \A k \in 1..Len(s) : 1 + k - 1 = k /\ k < end
  BY AnswerFacts
<1> QED BY <1>1, AnswerFacts DEF Sound

(* An error to the batch as a whole, before whatever else. *)
LEMMA RefusedSound ==
    ASSUME NEW s \in Seq(Answer), NEW end \in Nat, s # <<>>,
           ~s[1].ok, s[1].seq \in {0, 1}
    PROVE  Sound(s, 1, end) /\ Fails(s)
<1>1. 1 \in DOMAIN s /\ DOMAIN s \subseteq Nat
  BY AnswerFacts
<1>2. ASSUME NEW k \in DOMAIN s, \A j \in 1..(k - 1) : s[j].ok
      PROVE  k = 1
  BY <1>2, AnswerFacts
<1> QED BY <1>1, <1>2 DEF Sound, Fails

(* Nothing was sent. *)
IdleInv ==
    /\ driver \in {"building", "err"} /\ expected = 1
    /\ inbox = <<>> /\ queue = <<>> /\ answers = <<>>
    /\ at = 1 /\ ~failed /\ ~committed /\ ~overrun

(* The kernel has remembered an answer for each number before `at'. *)
RunningInv ==
    /\ driver = "waiting" \/ (driver = "ok" /\ seqEnd = 1)
    /\ expected = 1 /\ inbox = <<>> /\ queue = <<>>
    /\ ~overrun /\ ~committed
    /\ Len(answers) = IF at = 1 THEN 0 ELSE at - 1 - Skipped
    /\ \A k \in DOMAIN answers : answers[k].seq = k
    /\ failed <=> Fails(answers)

(* The batch is decided, and the driver has not returned. *)
StreamInv ==
    /\ driver = "waiting" => inbox = <<>>
    /\ driver = "reading" => seqEnd > 1
    /\ Sound(Pending, expected, seqEnd)
    /\ ~committed => overrun \/ Fails(Pending)
    /\ committed => ~Fails(Pending)
    /\ committed /\ ~overrun => expected + Len(Pending) = seqEnd
    /\ overrun => /\ Len(queue) >= QueueMax
                  /\ Fails(Pending) \/ seqEnd = 1 \/ expected + Len(Pending) < seqEnd

ReplyingInv ==
    /\ driver \in {"waiting", "reading", "ok", "err"}
    /\ driver \in {"waiting", "reading"} => StreamInv
    /\ driver = "ok" =>
           \/ seqEnd = 1
           \/ /\ committed /\ ~overrun
              /\ inbox = <<>> /\ queue = <<>> /\ answers = <<>>
    /\ driver = "err" => ~committed \/ overrun

TxInv ==
    /\ BatchInv
    /\ TxTypeOK
    /\ kernel = "idle" => IdleInv
    /\ driver # "building" => phase = "finalized"
    /\ kernel = "running" => RunningInv
    /\ kernel = "replying" => ReplyingInv

----------------------------------------------------------------------------
(* The batch that the kernel is given.                                     *)

LEMMA SentBatch ==
    ASSUME BatchInv, phase = "finalized"
    PROVE  /\ Len(msgs) \in Nat /\ Len(msgs) >= 2 /\ DOMAIN msgs = 1..Len(msgs)
           /\ Skipped \in {0, 1}
           /\ seqEnd \in Nat \ {0} /\ seqEnd = Len(msgs) + 1 - 2 * Skipped
           /\ \A i \in 1..Len(msgs) :
                  /\ msgs[i].kind = "begin" <=> i = 1
                  /\ msgs[i].kind = "end" <=> i = Len(msgs)
           /\ \A i \in 1..Len(msgs) : msgs[i].kind \in {"begin", "msg", "end"}
           /\ msgs[1].seq \in {0, 1}
<1>1. msgs \in Seq(Placed) /\ seqEnd \in Nat \ {0} /\ Ended(msgs) /\ CountInv
  BY DEF BatchInv, AnyInv, TypeOK, PageInv
<1>2. Skipped \in {0, 1}
  BY DEF Skipped
<1>3. /\ Len(msgs) \in Nat /\ Len(msgs) >= 2 /\ DOMAIN msgs = 1..Len(msgs)
      /\ \A i \in 1..Len(msgs) : msgs[i] \in Placed
  BY <1>1, LenProperties, ElementOfSeq DEF Ended
<1>4. msgs[1].seq \in {0, 1 - Skipped}
  BY <1>1, <1>3 DEF CountInv
<1>5. \A m \in Placed : m.kind \in {"begin", "msg", "end"} /\ m.seq \in Nat
  BY DEF Placed
<1>6. seqEnd = Len(msgs) + 1 - 2 * Skipped
  BY <1>1 DEF CountInv
<1> HIDE DEF Skipped
<1>7. msgs[1].seq \in {0, 1}
  BY <1>2, <1>4
<1> QED BY <1>1, <1>2, <1>3, <1>5, <1>6, <1>7 DEF Ended

(* The answer to each kind of message. *)
LEMMA SentMessage ==
    ASSUME BatchInv, phase = "finalized", NEW i \in 1..Len(msgs)
    PROVE  /\ msgs[i].kind = "msg" => msgs[i].ack /\ msgs[i].seq = i - Skipped
           /\ msgs[i].kind # "msg" =>
                  FrameReply(msgs[i]) = IF Skipped = 0 THEN <<[seq |-> i, ok |-> TRUE]>>
                                        ELSE <<>>
<1>1. /\ Skipped \in {0, 1} /\ (Skipped = 0 <=> AckBatchEnd)
  BY DEF Skipped
<1>2. /\ msgs[i].ack <=> (AckBatchEnd \/ msgs[i].kind = "msg")
      /\ msgs[i].seq = IF msgs[i].ack THEN i - Skipped ELSE 0
      /\ msgs[i].kind # "msg" /\ msgs[i].ack => KernelAcksFrame
  BY SentBatch DEF BatchInv, CountInv, AckInv, FrameAcked
<1>3. ASSUME msgs[i].kind # "msg"
      PROVE  FrameReply(msgs[i]) = IF Skipped = 0 THEN <<[seq |-> i, ok |-> TRUE]>>
                                   ELSE <<>>
  <2> HIDE DEF Skipped, AckBatchEnd, KernelAcksFrame
  <2>1. CASE AckBatchEnd
    <3>1. msgs[i].ack /\ KernelAcksFrame /\ msgs[i].seq = i
      <4>1. msgs[i].ack /\ KernelAcksFrame /\ msgs[i].seq = i - Skipped
        BY <1>2, <1>3, <2>1
      <4>2. Skipped = 0 /\ i - 0 = i
        <5>1. Len(msgs) \in Nat
          BY SentBatch
        <5> QED BY <5>1, <1>1, <2>1
      <4> QED BY <4>1, <4>2
    <3> QED BY <3>1, <2>1, <1>1 DEF FrameReply, Reply
  <2>2. CASE ~AckBatchEnd
    BY <1>1, <1>2, <1>3, <2>2 DEF FrameReply
  <2> QED BY <2>1, <2>2
<1> QED BY <1>2, <1>3

(* A step that leaves the batch alone. *)
LEMMA BatchAlone ==
    ASSUME Sendable, BatchInv, UNCHANGED vars
    PROVE  /\ BatchInv' /\ Skipped' = Skipped
           /\ seqEnd' = seqEnd /\ msgs' = msgs /\ phase' = phase
<1>1. BatchInv'
  BY StepKeepsBatchInv
<1> QED BY <1>1 DEF vars, Skipped, AckBatchEnd, KernelVersion

(* Answers are answers. *)
LEMMA ReplyIsAnswer ==
    ASSUME NEW m \in Placed, NEW ok \in BOOLEAN
    PROVE  Reply(m, ok) \in Answer /\ Reply(m, ok).ok = ok /\ Reply(m, ok).seq = m.seq
BY DEF Reply, Answer, Placed

LEMMA AppendedAnswer ==
    ASSUME NEW s \in Seq(Answer), NEW r \in Answer
    PROVE  /\ Append(s, r) \in Seq(Answer) /\ Len(Append(s, r)) = Len(s) + 1
           /\ \A k \in 1..Len(s) : Append(s, r)[k] = s[k]
           /\ Append(s, r)[Len(s) + 1] = r
           /\ Fails(Append(s, r)) <=> Fails(s) \/ ~r.ok
<1> DEFINE t == Append(s, r)
<1>1. /\ t \in Seq(Answer) /\ Len(t) = Len(s) + 1 /\ Len(s) \in Nat
      /\ \A k \in 1..Len(s) : t[k] = s[k]
      /\ t[Len(s) + 1] = r
      /\ DOMAIN s = 1..Len(s) /\ DOMAIN t = 1..(Len(s) + 1)
  BY AppendProperties, LenProperties
<1> HIDE DEF t
<1>2. Fails(t) <=> Fails(s) \/ ~r.ok
  <2>1. \A k \in 1..(Len(s) + 1) : k \in 1..Len(s) \/ k = Len(s) + 1
    BY <1>1
  <2>2. Fails(t) => Fails(s) \/ ~r.ok
    BY <2>1, <1>1 DEF Fails
  <2>3. ~r.ok => Fails(t)
    BY <1>1 DEF Fails
  <2>4. Fails(s) => Fails(t)
    BY <1>1 DEF Fails
  <2> QED BY <2>2, <2>3, <2>4
<1> QED BY <1>1, <1>2 DEF t

----------------------------------------------------------------------------
(* The kernel's steps.                                                     *)

LEMMA RunningFacts ==
    ASSUME TxInv, kernel = "running"
    PROVE  /\ phase = "finalized" /\ BatchInv /\ RunningInv /\ TxTypeOK
           /\ at \in 1..Len(msgs) /\ msgs[at] \in Placed /\ msgs[1] \in Placed
           /\ answers \in Seq(Answer)
           /\ Len(answers) \in Nat /\ DOMAIN answers = 1..Len(answers)
           /\ answers = <<>> <=> Len(answers) = 0
<1>1. /\ BatchInv /\ TxTypeOK /\ RunningInv
      /\ driver # "building" => phase = "finalized"
  BY DEF TxInv
<1>2. phase = "finalized"
  BY <1>1 DEF RunningInv
<1>3. at \in DOMAIN msgs /\ answers \in Seq(Answer)
  BY <1>1 DEF TxTypeOK
<1>4. DOMAIN msgs = 1..Len(msgs) /\ Len(msgs) \in Nat /\ Len(msgs) >= 2
  BY <1>1, <1>2, SentBatch
<1>5. msgs \in Seq(Placed)
  BY <1>1 DEF BatchInv, AnyInv, TypeOK
<1>6. 1 \in 1..Len(msgs) /\ at \in 1..Len(msgs)
  BY <1>3, <1>4
<1>7. msgs[at] \in Placed /\ msgs[1] \in Placed
  BY <1>5, <1>6, ElementOfSeq
<1> QED BY <1>1, <1>2, <1>3, <1>6, <1>7, AnswerFacts

(* The kernel's part of a state, when the driver's does not change. *)
LEMMA KernelTypes ==
    ASSUME TxTypeOK, UNCHANGED <<driver, expected, inbox, queue, overrun>>,
           msgs' = msgs, seqEnd' = seqEnd,
           kernel' \in {"running", "replying"},
           at' \in Nat \ {0}, kernel' = "running" => at' \in DOMAIN msgs,
           failed' \in BOOLEAN, committed' \in BOOLEAN, answers' \in Seq(Answer)
    PROVE  TxTypeOK'
BY DEF TxTypeOK

LEMMA KernelBeginKeeps ==
    ASSUME Sendable, TxInv, KernelBegin
    PROVE  TxInv'
<1>1. /\ kernel = "running" /\ msgs[at].kind = "begin"
      /\ answers' = FrameReply(msgs[at]) /\ at' = at + 1
      /\ UNCHANGED <<vars, driver, expected, inbox, kernel, failed, committed, queue, overrun>>
  BY DEF KernelBegin, driverVars, socketVars
<1>2. /\ phase = "finalized" /\ BatchInv /\ RunningInv /\ TxTypeOK
      /\ at \in 1..Len(msgs)
      /\ answers = <<>> <=> Len(answers) = 0
  BY <1>1, RunningFacts
<1>3. /\ BatchInv' /\ Skipped' = Skipped /\ seqEnd' = seqEnd
      /\ msgs' = msgs /\ phase' = phase
  BY <1>1, <1>2, BatchAlone
<1>4. /\ Len(msgs) >= 2 /\ Len(msgs) \in Nat /\ DOMAIN msgs = 1..Len(msgs)
      /\ at = 1 /\ Skipped \in {0, 1}
  BY <1>1, <1>2, SentBatch
<1>5. answers' = IF Skipped = 0 THEN <<[seq |-> 1, ok |-> TRUE]>> ELSE <<>>
  BY <1>1, <1>2, <1>4, SentMessage
<1>6. /\ answers' \in Seq(Answer) /\ Len(answers') = 1 - Skipped
      /\ \A k \in DOMAIN answers' : answers'[k].seq = k
      /\ ~Fails(answers')
  <2> DEFINE r == [seq |-> 1, ok |-> TRUE]
  <2>1. r \in Answer /\ r.seq = 1 /\ r.ok
    BY DEF Answer
  <2> HIDE DEF r
  <2>2. CASE Skipped = 0
    <3>1. answers' = <<r>>
      BY <2>2, <1>5 DEF r
    <3>2. answers' \in Seq(Answer) /\ Len(answers') = 1 /\ DOMAIN answers' = {1}
          /\ answers'[1] = r
      BY <3>1, <2>1
    <3> QED BY <2>1, <2>2, <3>2 DEF Fails
  <2>3. CASE Skipped = 1
    <3>1. answers' = <<>>
      BY <2>3, <1>5
    <3> QED BY <2>3, <3>1 DEF Fails
  <2> QED BY <2>2, <2>3, <1>4
<1>7. ~failed
  <2>1. answers = <<>>
    BY <1>2, <1>4 DEF RunningInv
  <2> QED BY <2>1, <1>2 DEF RunningInv, Fails
<1>8. at' = 2 /\ 2 \in DOMAIN msgs
  BY <1>1, <1>4
<1>9. TxTypeOK'
  BY <1>1, <1>2, <1>3, <1>6, <1>8, KernelTypes DEF TxTypeOK
<1>10. RunningInv'
  <2>1. Len(answers') = at' - 1 - Skipped /\ at' # 1
    BY <1>4, <1>6, <1>8
  <2>2. /\ (driver = "waiting" \/ (driver = "ok" /\ seqEnd = 1))'
        /\ expected' = 1 /\ inbox' = <<>> /\ queue' = <<>> /\ ~overrun' /\ ~committed'
    BY <1>1, <1>2, <1>3 DEF RunningInv
  <2> QED BY <2>1, <2>2, <1>1, <1>3, <1>6, <1>7 DEF RunningInv
<1> QED BY <1>1, <1>2, <1>3, <1>9, <1>10 DEF TxInv

LEMMA KernelMsgKeeps ==
    ASSUME Sendable, TxInv, NEW ok \in BOOLEAN, KernelMsg(ok)
    PROVE  TxInv'
<1> DEFINE r == Reply(msgs[at], ok)
<1>1. /\ kernel = "running" /\ msgs[at].kind = "msg"
      /\ answers' = (IF msgs[at].ack \/ ~ok THEN Append(answers, r) ELSE answers)
      /\ failed' = (failed \/ ~ok) /\ at' = at + 1
      /\ UNCHANGED <<vars, driver, expected, inbox, kernel, committed, queue, overrun>>
  BY DEF KernelMsg, driverVars, socketVars
<1>2. /\ phase = "finalized" /\ BatchInv /\ RunningInv /\ TxTypeOK
      /\ at \in 1..Len(msgs) /\ msgs[at] \in Placed
      /\ answers \in Seq(Answer) /\ Len(answers) \in Nat
      /\ DOMAIN answers = 1..Len(answers)
  BY <1>1, RunningFacts
<1>3. /\ BatchInv' /\ Skipped' = Skipped /\ seqEnd' = seqEnd
      /\ msgs' = msgs /\ phase' = phase
  BY <1>1, <1>2, BatchAlone
<1>4. /\ Len(msgs) \in Nat /\ DOMAIN msgs = 1..Len(msgs) /\ Skipped \in {0, 1}
      /\ at # 1 /\ at # Len(msgs)
  BY <1>1, <1>2, SentBatch
<1>5. msgs[at].ack /\ msgs[at].seq = at - Skipped
  BY <1>1, <1>2, SentMessage
<1>6. r \in Answer /\ r.ok = ok /\ r.seq = at - Skipped
  BY <1>2, <1>5, ReplyIsAnswer
<1>7. answers' = Append(answers, r)
  BY <1>1, <1>5
<1> HIDE DEF r
<1>8. /\ answers' \in Seq(Answer) /\ Len(answers') = Len(answers) + 1
      /\ DOMAIN answers' = 1..(Len(answers) + 1)
      /\ \A k \in 1..Len(answers) : answers'[k] = answers[k]
      /\ answers'[Len(answers) + 1] = r
      /\ Fails(answers') <=> Fails(answers) \/ ~r.ok
  <2>1. answers' \in Seq(Answer) /\ Len(answers') = Len(answers) + 1
    BY <1>2, <1>6, <1>7, AppendedAnswer
  <2>2. DOMAIN answers' = 1..(Len(answers) + 1)
    BY <2>1, LenProperties
  <2>3. \A k \in 1..Len(answers) : answers'[k] = answers[k]
    BY <1>2, <1>6, <1>7, AppendedAnswer
  <2>4. answers'[Len(answers) + 1] = r
    BY <1>2, <1>6, <1>7, AppendedAnswer
  <2>5. Fails(answers') <=> Fails(answers) \/ ~r.ok
    BY <1>2, <1>6, <1>7, AppendedAnswer
  <2> QED BY <2>1, <2>2, <2>3, <2>4, <2>5
<1>9. Len(answers) = at - 1 - Skipped /\ at \in Nat
  <2>1. Len(answers) = (IF at = 1 THEN 0 ELSE at - 1 - Skipped)
    BY <1>2 DEF RunningInv
  <2>2. at \in Nat
    BY <1>2 DEF TxTypeOK
  <2>3. at # 1
    BY <1>4
  <2> QED BY <2>1, <2>2, <2>3
<1>10. \A k \in DOMAIN answers' : answers'[k].seq = k
  <2>1. ASSUME NEW k \in 1..(Len(answers) + 1) PROVE answers'[k].seq = k
    <3>1. CASE k \in 1..Len(answers)
      BY <3>1, <1>2, <1>8 DEF RunningInv
    <3>2. CASE k = Len(answers) + 1
      <4>1. k = at - Skipped
        <5>1. Len(answers) \in Nat /\ Skipped \in {0, 1}
          BY <1>2, <1>4
        <5> QED BY <5>1, <3>2, <1>9
      <4>2. answers'[k] = r
        BY <3>2, <1>8
      <4> QED BY <4>1, <4>2, <1>6
    <3> QED BY <3>1, <3>2, <1>2
  <2> QED BY <2>1, <1>8
<1>11. at' \in 1..Len(msgs) /\ at' # 1 /\ Len(answers') = at' - 1 - Skipped
  <2>1. at' = at + 1 /\ Len(answers') = Len(answers) + 1
    BY <1>1, <1>8
  <2>2. at + 1 \in 1..Len(msgs) /\ at + 1 # 1
    <3>1. Len(msgs) \in Nat /\ at \in 1..Len(msgs) /\ at # Len(msgs)
      BY <1>2, <1>4
    <3> QED BY <3>1
  <2>3. Len(answers) \in Nat /\ Skipped \in {0, 1}
    BY <1>2, <1>4
  <2>4. Len(answers) + 1 = (at + 1) - 1 - Skipped
    BY <2>3, <1>9
  <2> QED BY <2>1, <2>2, <2>4
<1>12. failed' <=> Fails(answers')
  BY <1>1, <1>2, <1>6, <1>8 DEF RunningInv
<1>13. TxTypeOK'
  <2>1. failed' \in BOOLEAN /\ committed' \in BOOLEAN
    BY <1>1, <1>2 DEF TxTypeOK
  <2>2. at' \in Nat \ {0} /\ at' \in DOMAIN msgs
    BY <1>4, <1>11
  <2> QED BY <2>1, <2>2, <1>1, <1>2, <1>3, <1>8, KernelTypes
<1>14. RunningInv'
  <2>1. /\ (driver = "waiting" \/ (driver = "ok" /\ seqEnd = 1))'
        /\ expected' = 1 /\ inbox' = <<>> /\ queue' = <<>> /\ ~overrun' /\ ~committed'
    BY <1>1, <1>2, <1>3 DEF RunningInv
  <2> QED BY <2>1, <1>3, <1>10, <1>11, <1>12 DEF RunningInv
<1> QED BY <1>1, <1>2, <1>3, <1>13, <1>14 DEF TxInv

(* The kernel decides: its answers are what the driver has to read. *)
LEMMA DecidingKeeps ==
    ASSUME Sendable, TxInv, kernel = "running", kernel' = "replying",
           UNCHANGED <<vars, driver, expected, inbox, at, failed, queue, overrun>>,
           answers' \in Seq(Answer), committed' \in BOOLEAN,
           Sound(answers', 1, seqEnd), ~committed' => Fails(answers'),
           committed' => ~Fails(answers') /\ 1 + Len(answers') = seqEnd
    PROVE  TxInv'
<1>1. /\ phase = "finalized" /\ BatchInv /\ RunningInv /\ TxTypeOK
      /\ at \in 1..Len(msgs)
  BY RunningFacts
<1>2. /\ BatchInv' /\ Skipped' = Skipped /\ seqEnd' = seqEnd
      /\ msgs' = msgs /\ phase' = phase
  BY <1>1, BatchAlone
<1>3. TxTypeOK'
  BY <1>1, <1>2, KernelTypes DEF TxTypeOK
<1>4. Pending' = answers'
  <2>1. inbox' = <<>> /\ queue' = <<>> /\ ~overrun'
    BY <1>1 DEF RunningInv
  <2>2. <<>> \o <<>> = <<>> /\ <<>> \o answers' = answers'
    BY ConcatEmptySeq, EmptySeq
  <2> QED BY <2>1, <2>2 DEF Pending, Stream
<1>5. ASSUME driver' = "waiting" PROVE StreamInv'
  <2>1. expected' = 1 /\ inbox' = <<>> /\ ~overrun'
    BY <1>1 DEF RunningInv
  <2>2. Sound(Pending', expected', seqEnd')
    BY <2>1, <1>2, <1>4
  <2>3. committed' => ~Fails(Pending') /\ expected' + Len(Pending') = seqEnd'
    BY <2>1, <1>2, <1>4
  <2>4. ~committed' => Fails(Pending')
    BY <1>4
  <2> QED BY <1>5, <2>1, <2>2, <2>3, <2>4 DEF StreamInv
<1>6. ReplyingInv'
  <2>1. driver' = "waiting" \/ (driver' = "ok" /\ seqEnd' = 1)
    BY <1>1, <1>2 DEF RunningInv
  <2> QED BY <2>1, <1>5 DEF ReplyingInv
<1> QED BY <1>1, <1>2, <1>3, <1>6 DEF TxInv

(* All the messages before the end were answered in order. *)
LEMMA AnsweredBeforeEnd ==
    ASSUME TxInv, kernel = "running", msgs[at].kind = "end"
    PROVE  /\ at = Len(msgs) /\ Skipped \in {0, 1} /\ at \in Nat /\ seqEnd \in Nat
           /\ Len(answers) = at - 1 - Skipped
           /\ seqEnd = at + 1 - 2 * Skipped
           /\ answers \in Seq(Answer) /\ Len(answers) \in Nat
           /\ DOMAIN answers = 1..Len(answers)
           /\ \A k \in DOMAIN answers : answers[k].seq = k
           /\ failed <=> Fails(answers)
           /\ ~committed
           /\ FrameReply(msgs[at]) = IF Skipped = 0 THEN <<[seq |-> at, ok |-> TRUE]>>
                                     ELSE <<>>
<1>1. /\ phase = "finalized" /\ BatchInv /\ RunningInv
      /\ at \in 1..Len(msgs) /\ answers \in Seq(Answer)
      /\ Len(answers) \in Nat /\ DOMAIN answers = 1..Len(answers)
  BY RunningFacts
<1>2. /\ Len(msgs) >= 2 /\ Len(msgs) \in Nat /\ Skipped \in {0, 1}
      /\ at = Len(msgs)
      /\ seqEnd \in Nat /\ seqEnd = Len(msgs) + 1 - 2 * Skipped
  BY <1>1, SentBatch
<1>3. at # 1
  BY <1>2
<1>4. FrameReply(msgs[at]) = IF Skipped = 0 THEN <<[seq |-> at, ok |-> TRUE]>> ELSE <<>>
  BY <1>1, SentMessage
<1> QED BY <1>1, <1>2, <1>3, <1>4 DEF RunningInv

LEMMA KernelCommitsKeeps ==
    ASSUME Sendable, TxInv, KernelCommits
    PROVE  TxInv'
<1>1. /\ kernel = "running" /\ msgs[at].kind = "end" /\ ~failed
      /\ committed' = TRUE /\ answers' = answers \o FrameReply(msgs[at])
      /\ kernel' = "replying"
      /\ UNCHANGED <<vars, driver, expected, inbox, at, failed, queue, overrun>>
  BY DEF KernelCommits, driverVars, socketVars
<1>2. /\ Skipped \in {0, 1} /\ at \in Nat /\ seqEnd \in Nat
      /\ Len(answers) = at - 1 - Skipped /\ Len(answers) \in Nat
      /\ seqEnd = at + 1 - 2 * Skipped
  BY <1>1, AnsweredBeforeEnd
<1>3. /\ answers \in Seq(Answer) /\ DOMAIN answers = 1..Len(answers)
      /\ \A k \in DOMAIN answers : answers[k].seq = k
      /\ ~Fails(answers)
  BY <1>1, AnsweredBeforeEnd
<1>4. /\ answers' \in Seq(Answer) /\ 1 + Len(answers') = seqEnd
      /\ \A k \in DOMAIN answers' : answers'[k].seq = k
      /\ ~Fails(answers')
  <2>1. CASE Skipped = 0
    <3> DEFINE r == [seq |-> at, ok |-> TRUE]
    <3>1. r \in Answer /\ r.ok /\ r.seq = at
      BY <1>2 DEF Answer
    <3>2. answers' = answers \o <<r>>
      BY <2>1, <1>1, AnsweredBeforeEnd
    <3> HIDE DEF r
    <3>3. answers' = Append(answers, r)
      BY <3>1, <3>2, <1>3, AppendIsConcat
    <3>4. /\ answers' \in Seq(Answer) /\ Len(answers') = Len(answers) + 1
          /\ \A k \in 1..Len(answers) : answers'[k] = answers[k]
          /\ answers'[Len(answers) + 1] = r
          /\ ~Fails(answers')
      BY <3>1, <3>3, <1>3, AppendedAnswer
    <3>5. Len(answers) + 1 = at /\ 1 + (Len(answers) + 1) = seqEnd
      BY <2>1, <1>2
    <3>6. DOMAIN answers' = 1..Len(answers')
      BY <3>4, LenProperties
    <3>7. \A k \in 1..(Len(answers) + 1) : k \in 1..Len(answers) \/ k = Len(answers) + 1
      BY <1>2
    <3>8. \A k \in DOMAIN answers' : answers'[k].seq = k
      BY <3>1, <3>4, <3>5, <3>6, <3>7, <1>3
    <3> QED BY <3>4, <3>5, <3>8
  <2>2. CASE Skipped = 1
    <3>1. answers' = answers \o <<>>
      BY <2>2, <1>1, AnsweredBeforeEnd
    <3>2. answers' = answers
      BY <3>1, <1>3, ConcatEmptySeq
    <3>3. 1 + Len(answers) = seqEnd
      BY <2>2, <1>2
    <3> QED BY <3>2, <3>3, <1>3
  <2> QED BY <2>1, <2>2, <1>2
<1>5. Len(answers') < seqEnd
  BY <1>2, <1>4, LenProperties
<1>6. Sound(answers', 1, seqEnd)
  BY <1>2, <1>4, <1>5, CountedSound
<1> QED BY <1>1, <1>4, <1>6, DecidingKeeps

LEMMA KernelAbortsKeeps ==
    ASSUME Sendable, TxInv, KernelAborts
    PROVE  TxInv'
<1>1. /\ kernel = "running" /\ msgs[at].kind = "end" /\ failed
      /\ kernel' = "replying"
      /\ UNCHANGED <<vars, driver, expected, inbox, at, failed, committed, answers,
                     queue, overrun>>
  BY DEF KernelAborts, driverVars, socketVars
<1>2. Len(answers) < seqEnd
  <2>1. /\ Skipped \in {0, 1} /\ at \in Nat /\ seqEnd = at + 1 - 2 * Skipped
        /\ Len(answers) = at - 1 - Skipped
    BY <1>1, AnsweredBeforeEnd
  <2> QED BY <2>1
<1>3. Sound(answers, 1, seqEnd) /\ Fails(answers) /\ answers \in Seq(Answer) /\ ~committed
  BY <1>1, <1>2, AnsweredBeforeEnd, CountedSound
<1>4. answers' = answers /\ ~committed' /\ committed' \in BOOLEAN
  BY <1>1, <1>3 DEF TxInv, TxTypeOK
<1>5. UNCHANGED <<vars, driver, expected, inbox, at, failed, queue, overrun>>
  BY <1>1
<1>6. Sound(answers', 1, seqEnd) /\ Fails(answers') /\ answers' \in Seq(Answer)
  BY <1>3, <1>4
<1> QED BY <1>1, <1>4, <1>5, <1>6, DecidingKeeps

(* The answer that stands for the whole batch comes first. *)
LEMMA RefusingKeeps ==
    ASSUME Sendable, TxInv, KernelRefuses \/ CommitFails
    PROVE  TxInv'
<1> DEFINE r == Reply(msgs[1], FALSE)
<1>1. /\ kernel = "running" /\ kernel' = "replying"
      /\ answers' = <<r>> \/ answers' = <<r>> \o answers
      /\ UNCHANGED <<vars, driver, expected, inbox, at, failed, committed, queue, overrun>>
  BY DEF KernelRefuses, CommitFails, driverVars, socketVars
<1>2. /\ phase = "finalized" /\ BatchInv /\ ~committed
      /\ msgs[1] \in Placed /\ answers \in Seq(Answer)
  BY <1>1, RunningFacts DEF RunningInv
<1>3. r \in Answer /\ ~r.ok /\ r.seq \in {0, 1} /\ seqEnd \in Nat
  BY <1>2, ReplyIsAnswer, SentBatch
<1> HIDE DEF r
<1>4. answers' \in Seq(Answer) /\ answers' # <<>> /\ answers'[1] = r
  <2>1. <<r>> \in Seq(Answer) /\ Len(<<r>>) = 1 /\ <<r>>[1] = r /\ <<r>> # <<>>
    BY <1>3
  <2>2. /\ <<r>> \o answers \in Seq(Answer) /\ <<r>> \o answers # <<>>
        /\ (<<r>> \o answers)[1] = r
    BY <2>1, <1>2, ConcatProperties, LenProperties
  <2> QED BY <2>1, <2>2, <1>1
<1>5. Sound(answers', 1, seqEnd) /\ Fails(answers')
  BY <1>3, <1>4, RefusedSound
<1>6. ~committed' /\ committed' \in BOOLEAN
  BY <1>1, <1>2 DEF TxInv, TxTypeOK
<1>7. UNCHANGED <<vars, driver, expected, inbox, at, failed, queue, overrun>>
  BY <1>1
<1> QED BY <1>1, <1>4, <1>5, <1>6, <1>7, DecidingKeeps

----------------------------------------------------------------------------
(* The socket.                                                             *)

LEMMA TailConcat ==
    ASSUME NEW s \in Seq(Answer), NEW u \in Seq(Answer), s # <<>>
    PROVE  /\ Tail(s \o u) = Tail(s) \o u
           /\ s \o u # <<>> /\ (s \o u)[1] = s[1]
           /\ Tail(s) \in Seq(Answer) /\ s[1] \in Answer /\ Len(Tail(s)) = Len(s) - 1
<1> DEFINE t == s \o u
           v == Tail(s)
<1>1. /\ Len(s) \in Nat \ {0} /\ Len(u) \in Nat
      /\ t \in Seq(Answer) /\ Len(t) = Len(s) + Len(u)
      /\ \A k \in 1..(Len(s) + Len(u)) :
             t[k] = IF k <= Len(s) THEN s[k] ELSE u[k - Len(s)]
      /\ t # <<>>
  <2>1. Len(s) \in Nat \ {0} /\ Len(u) \in Nat
    BY EmptySeq, LenProperties
  <2>2. /\ t \in Seq(Answer) /\ Len(t) = Len(s) + Len(u)
        /\ \A k \in 1..(Len(s) + Len(u)) :
               t[k] = IF k <= Len(s) THEN s[k] ELSE u[k - Len(s)]
    BY ConcatProperties
  <2>3. t # <<>>
    BY <2>1, <2>2, EmptySeq
  <2> QED BY <2>1, <2>2, <2>3
<1>2. /\ v \in Seq(Answer) /\ Len(v) = Len(s) - 1
      /\ \A k \in 1..(Len(s) - 1) : v[k] = s[k + 1]
      /\ s[1] \in Answer
  BY <1>1, HeadTailProperties, ElementOfSeq
<1> HIDE DEF t, v
<1>3. /\ Tail(t) \in Seq(Answer) /\ Len(Tail(t)) = Len(s) + Len(u) - 1
      /\ \A k \in 1..(Len(s) + Len(u) - 1) : Tail(t)[k] = t[k + 1]
  BY <1>1, HeadTailProperties
<1>4. /\ v \o u \in Seq(Answer) /\ Len(v \o u) = (Len(s) - 1) + Len(u)
      /\ \A k \in 1..((Len(s) - 1) + Len(u)) :
             (v \o u)[k] = IF k <= Len(s) - 1 THEN v[k] ELSE u[k - (Len(s) - 1)]
  <2>1. /\ v \o u \in Seq(Answer) /\ Len(v \o u) = Len(v) + Len(u)
        /\ \A k \in 1..(Len(v) + Len(u)) :
               (v \o u)[k] = IF k <= Len(v) THEN v[k] ELSE u[k - Len(v)]
    BY <1>2, ConcatProperties
  <2> QED BY <2>1, <1>2
<1>5. ASSUME NEW k \in 1..(Len(s) + Len(u) - 1) PROVE Tail(t)[k] = (v \o u)[k]
  <2>1. Tail(t)[k] = IF k + 1 <= Len(s) THEN s[k + 1] ELSE u[(k + 1) - Len(s)]
    <3>1. k + 1 \in 1..(Len(s) + Len(u))
      BY <1>1
    <3> QED BY <3>1, <1>1, <1>3
  <2>2. CASE k + 1 <= Len(s)
    <3>1. k \in 1..(Len(s) - 1) /\ k <= Len(s) - 1 /\ k \in 1..((Len(s) - 1) + Len(u))
      BY <2>2, <1>1
    <3>2. (v \o u)[k] = v[k] /\ v[k] = s[k + 1]
      BY <3>1, <1>2, <1>4
    <3> QED BY <2>1, <2>2, <3>2
  <2>3. CASE ~(k + 1 <= Len(s))
    <3>1. ~(k <= Len(s) - 1) /\ k - (Len(s) - 1) = (k + 1) - Len(s)
          /\ k \in 1..((Len(s) - 1) + Len(u))
      BY <2>3, <1>1
    <3>2. (v \o u)[k] = u[k - (Len(s) - 1)]
      BY <3>1, <1>4
    <3> QED BY <2>1, <2>3, <3>1, <3>2
  <2> QED BY <2>2, <2>3
<1>6. Tail(t) = v \o u
  <2>1. Len(s) + Len(u) - 1 = (Len(s) - 1) + Len(u)
    BY <1>1
  <2> QED BY <2>1, <1>3, <1>4, <1>5, SeqEqual
<1>7. t[1] = s[1]
  BY <1>1
<1> QED BY <1>1, <1>2, <1>6, <1>7 DEF t, v

LEMMA HeadTailConcat ==
    ASSUME NEW s \in Seq(Answer), s # <<>>
    PROVE  s = <<Head(s)>> \o Tail(s)
<1>1. Len(s) \in Nat \ {0}
  BY EmptySeq
<1>2. 1 \in 1..Len(s) /\ Len(s) \in 1..Len(s)
  BY <1>1
<1>3. SubSeq(s, 1, Len(s)) = <<s[1]>> \o SubSeq(s, 1 + 1, Len(s))
  BY <1>2, SubSeqRecursiveFirst
<1>4. SubSeq(s, 1, Len(s)) = s /\ Tail(s) = SubSeq(s, 2, Len(s)) /\ Head(s) = s[1]
  BY SubSeqFull, TailIsSubSeq
<1> QED BY <1>3, <1>4

(* What the driver may still read is a sequence of answers. *)
LEMMA StreamFacts ==
    ASSUME NEW r \in Seq(Answer), NEW q \in Seq(Answer), NEW a \in Seq(Answer),
           NEW cut \in BOOLEAN
    PROVE  LET s == Stream(r, q, a, cut)
           IN  /\ s \in Seq(Answer) /\ Len(s) \in Nat
               /\ r \o q \in Seq(Answer)
               /\ ~cut => s = (r \o q) \o a
               /\ cut => s = r \o q
               /\ Len(s) = 0 => r = <<>> /\ q = <<>>
               /\ Len(s) = 0 /\ ~cut => a = <<>>
<1> DEFINE s == Stream(r, q, a, cut)
<1>1. /\ r \o q \in Seq(Answer) /\ (r \o q) \o a \in Seq(Answer)
      /\ Len(r \o q) = Len(r) + Len(q)
      /\ Len((r \o q) \o a) = Len(r \o q) + Len(a)
      /\ (r \o q) \o <<>> = r \o q
  BY ConcatProperties, ConcatEmptySeq
<1>2. Len(r) \in Nat /\ Len(q) \in Nat /\ Len(a) \in Nat
  BY LenProperties
<1>3. s = IF cut THEN r \o q ELSE (r \o q) \o a
  BY <1>1 DEF Stream
<1> HIDE DEF s
<1>4. /\ Len(r) = 0 => r = <<>>
      /\ Len(q) = 0 => q = <<>>
      /\ Len(a) = 0 => a = <<>>
  BY AnswerFacts
<1>5. /\ cut => Len(s) = Len(r) + Len(q)
      /\ ~cut => Len(s) = (Len(r) + Len(q)) + Len(a)
  BY <1>1, <1>3
<1>6. /\ Len(s) = 0 => Len(r) = 0 /\ Len(q) = 0
      /\ Len(s) = 0 /\ ~cut => Len(a) = 0
  BY <1>2, <1>5
<1>7. s \in Seq(Answer) /\ Len(s) \in Nat
  BY <1>1, <1>3, LenProperties
<1> QED BY <1>1, <1>3, <1>4, <1>6, <1>7 DEF s

(* An answer goes to the socket, or is dropped because the socket is full. *)
LEMMA DeliverKeeps ==
    ASSUME Sendable, TxInv, Deliver
    PROVE  TxInv'
<1>1. /\ kernel = "replying" /\ answers # <<>> /\ answers' = Tail(answers)
      /\ UNCHANGED <<vars, driver, expected, inbox, kernel, at, failed, committed>>
      /\ \/ /\ Len(queue) < QueueMax
            /\ queue' = Append(queue, Head(answers)) /\ overrun' = overrun
         \/ /\ ~(Len(queue) < QueueMax)
            /\ overrun' = TRUE /\ queue' = queue
  BY DEF Deliver, driverVars
<1>2. BatchInv /\ TxTypeOK /\ ReplyingInv
  BY <1>1 DEF TxInv
<1>3. BatchInv' /\ seqEnd' = seqEnd /\ msgs' = msgs /\ phase' = phase
  BY <1>1, <1>2, BatchAlone
<1>4. /\ inbox \in Seq(Answer) /\ queue \in Seq(Answer) /\ answers \in Seq(Answer)
      /\ Len(queue) \in Nat /\ QueueMax \in Nat /\ Len(queue) <= QueueMax
      /\ overrun \in BOOLEAN
  BY <1>2, QueueAssumption, LenProperties DEF TxTypeOK
<1>5. Head(answers) \in Answer /\ Tail(answers) \in Seq(Answer)
  BY <1>1, <1>4, HeadTailProperties
<1>6. TxTypeOK' /\ queue' \in Seq(Answer) /\ overrun' \in BOOLEAN
  <2>1. queue' \in Seq(Answer) /\ Len(queue') <= QueueMax /\ overrun' \in BOOLEAN
    <3>1. CASE Len(queue) < QueueMax
      <4>1. queue' = Append(queue, Head(answers)) /\ overrun' = overrun
        BY <1>1, <3>1
      <4>2. queue' \in Seq(Answer) /\ Len(queue') = Len(queue) + 1
        BY <4>1, <1>4, <1>5, AppendProperties
      <4> QED BY <3>1, <4>1, <4>2, <1>4
    <3>2. CASE ~(Len(queue) < QueueMax)
      BY <3>2, <1>1, <1>4
    <3> QED BY <3>1, <3>2
  <2> QED BY <2>1, <1>1, <1>2, <1>3, <1>5 DEF TxTypeOK
<1>7. ASSUME driver \in {"waiting", "reading"} PROVE StreamInv'
  <2>1. StreamInv
    BY <1>2, <1>7 DEF ReplyingInv
  <2>2. expected \in Nat /\ seqEnd \in Nat \ {0}
    BY <1>2 DEF TxTypeOK, BatchInv, AnyInv, TypeOK
  <2>3. CASE Len(queue) < QueueMax
    <3>1. ~overrun /\ ~overrun' /\ queue' = Append(queue, Head(answers))
      BY <1>1, <1>4, <2>1, <2>3 DEF StreamInv
    <3>2. Pending' = Pending
      <4> DEFINE h == Head(answers)
                 t == Tail(answers)
      <4>1. queue' = queue \o <<h>> /\ <<h>> \in Seq(Answer)
        BY <3>1, <1>4, <1>5, AppendIsConcat
      <4>2. answers = <<h>> \o t
        BY <1>1, <1>4, HeadTailConcat
      <4>3. h \in Answer /\ t \in Seq(Answer) /\ answers' = t
        BY <1>1, <1>5
      <4> HIDE DEF h, t
      <4>4. Pending' = (inbox \o (queue \o <<h>>)) \o t
        BY <3>1, <4>1, <4>3, <1>1 DEF Pending, Stream
      <4>5. Pending = (inbox \o queue) \o (<<h>> \o t)
        BY <3>1, <4>2 DEF Pending, Stream
      <4>6. inbox \o queue \in Seq(Answer)
        BY <1>4, ConcatProperties
      <4>7. (inbox \o queue) \o (<<h>> \o t) = ((inbox \o queue) \o <<h>>) \o t
        BY <4>1, <4>3, <4>6, ConcatAssociative
      <4>8. (inbox \o queue) \o <<h>> = inbox \o (queue \o <<h>>)
        BY <4>1, <1>4, ConcatAssociative
      <4> QED BY <4>4, <4>5, <4>7, <4>8, Zenon
    <3> QED BY <3>1, <3>2, <1>1, <1>3, <2>1 DEF StreamInv
  <2>4. CASE ~(Len(queue) < QueueMax)
    <3>1. overrun' /\ queue' = queue /\ Len(queue') >= QueueMax
      BY <1>1, <1>4, <2>4
    <3>2. Pending' = inbox \o queue
      <4>1. Stream(inbox, queue, Tail(answers), TRUE) = inbox \o queue
        BY DEF Stream
      <4>2. /\ overrun' = TRUE /\ queue' = queue
            /\ inbox' = inbox /\ answers' = Tail(answers)
        BY <1>1, <1>4, <2>4
      <4> QED BY <4>1, <4>2 DEF Pending
    <3>3. inbox \o queue \in Seq(Answer)
      BY <1>4, ConcatProperties
    <3>4. Pending = IF overrun THEN inbox \o queue ELSE (inbox \o queue) \o answers
      BY <3>3, ConcatEmptySeq DEF Pending, Stream
    <3>5. CASE overrun
      <4>1. Pending' = Pending
        BY <3>2, <3>4, <3>5
      <4> QED BY <4>1, <3>1, <3>5, <1>1, <1>3, <2>1 DEF StreamInv
    <3>6. CASE ~overrun
      <4>1. Pending = Pending' \o answers
        BY <3>2, <3>4, <3>6
      <4>2. Sound(Pending, expected, seqEnd) /\ (committed => ~Fails(Pending))
        BY <2>1 DEF StreamInv
      <4>3. /\ Sound(Pending', expected, seqEnd)
            /\ ~Fails(Pending') => seqEnd <= 1 \/ expected + Len(Pending') < seqEnd
            /\ Fails(Pending') => Fails(Pending)
        BY <3>2, <3>3, <4>1, <4>2, <1>1, <1>4, <2>2, SoundPrefix
      <4>4. Fails(Pending') \/ seqEnd = 1 \/ expected + Len(Pending') < seqEnd
        BY <4>3, <2>2
      <4> QED BY <4>2, <4>3, <4>4, <3>1, <1>1, <1>3, <2>1 DEF StreamInv
    <3> QED BY <3>5, <3>6
  <2> QED BY <2>3, <2>4
<1>8. ReplyingInv'
  <2>1. driver = "ok" => seqEnd = 1
    BY <1>1, <1>2 DEF ReplyingInv
  <2>2. overrun => overrun'
    BY <1>1
  <2> QED BY <2>1, <2>2, <1>1, <1>2, <1>3, <1>7 DEF ReplyingInv
<1> QED BY <1>1, <1>2, <1>3, <1>6, <1>8 DEF TxInv

----------------------------------------------------------------------------
(* The driver's steps.                                                     *)

LEMMA DriverFacts ==
    ASSUME TxInv
    PROVE  /\ BatchInv /\ TxTypeOK /\ QueueMax \in Nat
           /\ seqEnd \in Nat \ {0} /\ expected \in 1..seqEnd
           /\ driver = "building" <=> kernel = "idle" /\ driver # "err"
           /\ driver = "reading" => kernel = "replying"
           /\ driver # "panicked"
<1>1. /\ BatchInv /\ TxTypeOK /\ kernel \in {"idle", "running", "replying"}
      /\ seqEnd \in Nat \ {0} /\ expected \in 1..seqEnd
  BY DEF TxInv, TxTypeOK, BatchInv, AnyInv, TypeOK
<1>2. CASE kernel = "idle"
  BY <1>1, <1>2, QueueAssumption DEF TxInv, IdleInv
<1>3. CASE kernel = "running"
  BY <1>1, <1>3, QueueAssumption DEF TxInv, RunningInv
<1>4. CASE kernel = "replying"
  BY <1>1, <1>4, QueueAssumption DEF TxInv, ReplyingInv
<1> QED BY <1>1, <1>2, <1>3, <1>4

LEMMA BuildKeeps ==
    ASSUME Sendable, TxInv, Build
    PROVE  TxInv'
<1>1. Next /\ UNCHANGED <<driver, expected, inbox, kernel, at, failed, committed, answers,
                          queue, overrun>>
  BY DEF Build, driverVars, kernelVars, socketVars
<1>2. phase # "finalized"
  BY <1>1 DEF Next, SizePanics, AllocFails, WithPageSize, WriteBegin, BeginPanics,
              BeginAborts, Add, AddAborts, Finalize, FinalizeAborts
<1>3. driver = "building" /\ kernel = "idle" /\ IdleInv /\ TxTypeOK
  BY <1>2, DriverFacts DEF TxInv
<1>4. BatchInv' /\ seqEnd' \in Nat \ {0}
  <2>1. BatchInv'
    BY <1>1, StepKeepsBatchInv DEF TxInv
  <2> QED BY <2>1 DEF BatchInv, AnyInv, TypeOK
<1>5. TxTypeOK'
  BY <1>1, <1>3, <1>4 DEF TxTypeOK, IdleInv
<1>6. IdleInv'
  BY <1>1, <1>3 DEF IdleInv
<1> QED BY <1>1, <1>3, <1>4, <1>5, <1>6 DEF TxInv

LEMMA SendKeeps ==
    ASSUME Sendable, TxInv, Send \/ SendFails
    PROVE  TxInv'
<1>1. /\ driver = "building" /\ phase = "finalized"
      /\ UNCHANGED <<vars, inbox, at, failed, committed, answers, queue, overrun>>
      /\ \/ driver' = "err" /\ kernel' = kernel /\ expected' = expected
         \/ driver' = "waiting" /\ kernel' = "running" /\ expected' = 1
  BY DEF Send, SendFails, kernelVars, socketVars
<1>2. BatchInv /\ TxTypeOK /\ kernel = "idle" /\ IdleInv
  BY <1>1, DriverFacts DEF TxInv
<1>3. BatchInv' /\ seqEnd' = seqEnd /\ msgs' = msgs /\ phase' = phase
  BY <1>1, <1>2, BatchAlone
<1>4. 1 \in DOMAIN msgs /\ 1 \in 1..seqEnd
  <2>1. /\ Len(msgs) \in Nat /\ Len(msgs) >= 2 /\ DOMAIN msgs = 1..Len(msgs)
        /\ seqEnd \in Nat \ {0}
    BY <1>1, <1>2, SentBatch
  <2> QED BY <2>1
<1>5. TxTypeOK'
  BY <1>1, <1>2, <1>3, <1>4 DEF TxTypeOK, DriverPhase, IdleInv
<1>6. CASE driver' = "err"
  <2>1. IdleInv'
    BY <1>1, <1>2, <1>6 DEF IdleInv
  <2> QED BY <2>1, <1>1, <1>2, <1>3, <1>5, <1>6 DEF TxInv
<1>7. CASE driver' = "waiting"
  <2>1. RunningInv'
    <3>1. Len(answers') = 0 /\ answers' = <<>> /\ at' = 1 /\ ~failed'
      BY <1>1, <1>2 DEF IdleInv
    <3>2. ~Fails(answers')
      BY <3>1 DEF Fails
    <3> QED BY <3>1, <3>2, <1>1, <1>2, <1>7 DEF RunningInv, IdleInv
  <2> QED BY <2>1, <1>1, <1>3, <1>5, <1>7 DEF TxInv
<1> QED BY <1>1, <1>6, <1>7

(* A driver that has seen every number has read every answer. *)
LEMMA AllRead ==
    ASSUME TxInv, driver = "waiting", AllSeen, kernel = "replying", seqEnd # 1
    PROVE  /\ committed /\ ~overrun
           /\ inbox = <<>> /\ queue = <<>> /\ answers = <<>>
<1>1. StreamInv /\ expected = seqEnd /\ seqEnd \in Nat \ {0} /\ seqEnd > 1
  BY DriverFacts DEF TxInv, ReplyingInv, AllSeen
<1>2. /\ inbox \in Seq(Answer) /\ queue \in Seq(Answer) /\ answers \in Seq(Answer)
      /\ overrun \in BOOLEAN
  BY DEF TxInv, TxTypeOK
<1>3. Pending \in Seq(Answer) /\ Len(Pending) \in Nat
  BY <1>2, StreamFacts DEF Pending
<1>4. Pending # <<>> => seqEnd < seqEnd
  <2>1. Sound(Pending, seqEnd, seqEnd)
    BY <1>1 DEF StreamInv
  <2> QED BY <2>1, <1>1, <1>3, SoundHead
<1>5. Len(Pending) = 0 /\ ~Fails(Pending)
  <2>1. Pending = <<>>
    BY <1>1, <1>4
  <2> QED BY <2>1 DEF Fails
<1>6. ~overrun /\ committed
  BY <1>1, <1>5 DEF StreamInv
<1> QED BY <1>2, <1>5, <1>6, StreamFacts DEF Pending

LEMMA ReturnOkKeeps ==
    ASSUME Sendable, TxInv, ReturnOk
    PROVE  TxInv'
<1>1. /\ driver = "waiting" /\ AllSeen /\ expected = seqEnd /\ driver' = "ok"
      /\ UNCHANGED <<vars, expected, inbox, kernel, at, failed, committed, answers,
                     queue, overrun>>
  BY DEF ReturnOk, AllSeen, kernelVars, socketVars
<1>2. /\ BatchInv /\ TxTypeOK /\ kernel # "idle"
      /\ seqEnd \in Nat \ {0} /\ kernel \in {"idle", "running", "replying"}
  BY <1>1, DriverFacts DEF TxTypeOK
<1>3. BatchInv' /\ seqEnd' = seqEnd /\ msgs' = msgs /\ phase' = phase
      /\ Skipped' = Skipped
  BY <1>1, <1>2, BatchAlone
<1>4. TxTypeOK'
  BY <1>1, <1>2, <1>3 DEF TxTypeOK, DriverPhase
<1>5. phase = "finalized"
  BY <1>1 DEF TxInv
<1>6. CASE kernel = "running"
  <2>1. RunningInv /\ seqEnd = 1
    BY <1>1, <1>6 DEF TxInv, RunningInv
  <2>2. RunningInv'
    BY <2>1, <1>1, <1>3 DEF RunningInv
  <2> QED BY <2>2, <1>1, <1>3, <1>4, <1>5, <1>6 DEF TxInv
<1>7. CASE kernel = "replying"
  <2>1. ReplyingInv'
    BY <1>1, <1>3, <1>7, AllRead DEF ReplyingInv
  <2> QED BY <2>1, <1>1, <1>3, <1>4, <1>5, <1>7 DEF TxInv
<1> QED BY <1>2, <1>6, <1>7

LEMMA RecvFailsKeeps ==
    ASSUME Sendable, TxInv, RecvFails
    PROVE  TxInv'
<1>1. /\ driver = "waiting" /\ overrun /\ driver' = "err"
      /\ UNCHANGED <<vars, expected, inbox, kernel, at, failed, committed, answers,
                     queue, overrun>>
  BY DEF RecvFails, kernelVars, socketVars
<1>2. BatchInv /\ TxTypeOK /\ kernel = "replying" /\ phase = "finalized"
  BY <1>1, DriverFacts DEF TxInv, RunningInv, TxTypeOK
<1>3. BatchInv' /\ seqEnd' = seqEnd /\ msgs' = msgs /\ phase' = phase
  BY <1>1, <1>2, BatchAlone
<1>4. TxTypeOK'
  BY <1>1, <1>2, <1>3 DEF TxTypeOK, DriverPhase
<1>5. ReplyingInv'
  BY <1>1 DEF ReplyingInv
<1> QED BY <1>1, <1>2, <1>3, <1>4, <1>5 DEF TxInv

LEMMA RecvKeeps ==
    ASSUME Sendable, TxInv, NEW n \in 1..Len(queue), Recv(n)
    PROVE  TxInv'
<1>1. /\ driver = "waiting" /\ expected # seqEnd /\ ~overrun /\ driver' = "reading"
      /\ inbox' = SubSeq(queue, 1, n)
      /\ queue' = SubSeq(queue, n + 1, Len(queue))
      /\ UNCHANGED <<vars, expected, kernel, at, failed, committed, answers, overrun>>
  BY DEF Recv, AllSeen, kernelVars
<1>2. /\ BatchInv /\ TxTypeOK /\ kernel # "idle" /\ phase = "finalized"
      /\ seqEnd \in Nat \ {0} /\ expected \in 1..seqEnd
      /\ kernel \in {"idle", "running", "replying"}
  BY <1>1, DriverFacts DEF TxInv, TxTypeOK
<1>3. /\ queue \in Seq(Answer) /\ Len(queue) \in Nat /\ Len(queue) <= QueueMax
      /\ DOMAIN queue = 1..Len(queue) /\ QueueMax \in Nat
  BY <1>2, LenProperties, QueueAssumption DEF TxTypeOK
<1>4. kernel = "replying" /\ StreamInv
  <2>1. kernel # "running"
    <3>1. kernel = "running" => Len(queue) = 0
      BY DEF TxInv, RunningInv
    <3> QED BY <3>1
  <2> QED BY <2>1, <1>1, <1>2 DEF TxInv, ReplyingInv
<1>5. BatchInv' /\ seqEnd' = seqEnd /\ msgs' = msgs /\ phase' = phase
  BY <1>1, <1>2, BatchAlone
<1>6. /\ inbox' \in Seq(Answer) /\ inbox' # <<>> /\ queue' \in Seq(Answer)
      /\ Len(queue') <= QueueMax /\ inbox' \o queue' = queue
  <2>1. inbox' \in Seq(Answer) /\ Len(inbox') = n
    <3>1. \A k \in 1..n : queue[k] \in Answer
      BY <1>3, ElementOfSeq
    <3> QED BY <3>1, <1>1, SubSeqProperties
  <2>2. queue' \in Seq(Answer) /\ Len(queue') <= QueueMax
    <3>1. \A k \in (n + 1)..Len(queue) : queue[k] \in Answer
      BY <1>3, ElementOfSeq
    <3>2. /\ queue' \in Seq(Answer)
          /\ Len(queue') = IF n + 1 <= Len(queue) THEN Len(queue) - (n + 1) + 1 ELSE 0
      BY <3>1, <1>1, <1>3, SubSeqProperties
    <3>3. Len(queue') <= Len(queue)
      <4>1. CASE n + 1 <= Len(queue)
        BY <4>1, <3>2, <1>3
      <4>2. CASE ~(n + 1 <= Len(queue))
        BY <4>2, <3>2, <1>3
      <4> QED BY <4>1, <4>2
    <3>4. Len(queue') \in Nat /\ Len(queue) \in Nat /\ QueueMax \in Nat
          /\ Len(queue) <= QueueMax
      BY <3>2, <1>3, LenProperties
    <3>5. Len(queue') <= QueueMax
      BY <3>3, <3>4
    <3> QED BY <3>2, <3>5
  <2>3. inbox' \o queue' = queue
    <3>1. 1 \in 1..(Len(queue) + 1) /\ n \in (1 - 1)..Len(queue) /\ Len(queue) \in n..Len(queue)
      BY <1>3
    <3>2. SubSeq(queue, 1, n) \o SubSeq(queue, n + 1, Len(queue)) = SubSeq(queue, 1, Len(queue))
      BY <3>1, <1>3, ConcatAdjacentSubSeq
    <3> QED BY <3>2, <1>1, <1>3, SubSeqFull
  <2>4. inbox' # <<>>
    BY <2>1
  <2> QED BY <2>1, <2>2, <2>3, <2>4
<1>7. TxTypeOK'
  BY <1>1, <1>2, <1>5, <1>6 DEF TxTypeOK, DriverPhase
<1>8. Pending' = Pending
  <2>1. inbox \o queue = queue
    <3>1. inbox = <<>>
      BY <1>1, <1>4 DEF StreamInv
    <3> QED BY <3>1, <1>3, ConcatEmptySeq
  <2> QED BY <2>1, <1>1, <1>6 DEF Pending, Stream
<1>9. StreamInv'
  <2>1. seqEnd > 1
    BY <1>1, <1>2
  <2> QED BY <2>1, <1>1, <1>4, <1>5, <1>8 DEF StreamInv
<1>10. ReplyingInv'
  BY <1>1, <1>9 DEF ReplyingInv
<1> QED BY <1>1, <1>2, <1>4, <1>5, <1>7, <1>10 DEF TxInv

(* The next answer is to the number expected, and there is such a number. *)
LEMMA NextAnswer ==
    ASSUME TxInv, driver = "reading"
    PROVE  /\ kernel = "replying" /\ StreamInv /\ seqEnd > 1
           /\ expected < seqEnd /\ ~AllSeen
           /\ inbox \in Seq(Answer) /\ inbox # <<>> /\ inbox[1] = Head(inbox)
           /\ Head(inbox) \in Answer /\ SeqOk(Head(inbox))
           /\ queue \in Seq(Answer) /\ answers \in Seq(Answer) /\ overrun \in BOOLEAN
           /\ Pending \in Seq(Answer) /\ Pending # <<>> /\ Pending[1] = Head(inbox)
           /\ Tail(Pending) = Stream(Tail(inbox), queue, answers, overrun)
           /\ Tail(inbox) \in Seq(Answer) /\ Len(Tail(inbox)) = Len(inbox) - 1
<1>1. /\ kernel = "replying" /\ StreamInv /\ seqEnd > 1
      /\ inbox # <<>> /\ seqEnd \in Nat \ {0} /\ expected \in 1..seqEnd
  <2>1. kernel = "replying" /\ TxTypeOK
    BY DriverFacts
  <2>2. StreamInv
    BY <2>1 DEF TxInv, ReplyingInv
  <2> QED BY <2>1, <2>2, DriverFacts DEF StreamInv, TxTypeOK
<1>2. /\ inbox \in Seq(Answer) /\ queue \in Seq(Answer) /\ answers \in Seq(Answer)
      /\ overrun \in BOOLEAN
  BY DEF TxInv, TxTypeOK
<1>3. /\ inbox[1] = Head(inbox) /\ Head(inbox) \in Answer
  BY <1>1, <1>2, HeadTailProperties
<1> DEFINE rest == IF overrun THEN <<>> ELSE answers
<1>4. rest \in Seq(Answer)
  BY <1>2
<1>5. Pending = (inbox \o queue) \o rest
  BY DEF Pending, Stream
<1>6. Stream(Tail(inbox), queue, answers, overrun) = (Tail(inbox) \o queue) \o rest
  BY DEF Stream
<1> HIDE DEF rest
<1>7. /\ inbox \o queue \in Seq(Answer)
      /\ Tail(inbox \o queue) = Tail(inbox) \o queue
      /\ inbox \o queue # <<>> /\ (inbox \o queue)[1] = inbox[1]
      /\ Tail(inbox) \in Seq(Answer) /\ Len(Tail(inbox)) = Len(inbox) - 1
  BY <1>1, <1>2, TailConcat, ConcatProperties
<1>8. /\ Pending \in Seq(Answer) /\ Pending # <<>> /\ Pending[1] = Head(inbox)
      /\ Tail(Pending) = Stream(Tail(inbox), queue, answers, overrun)
  <2> DEFINE w == inbox \o queue
  <2>1. w \in Seq(Answer) /\ w # <<>> /\ w[1] = inbox[1]
        /\ Tail(w) = Tail(inbox) \o queue /\ Pending = w \o rest
    BY <1>5, <1>7
  <2> HIDE DEF w
  <2>2. /\ w \o rest \in Seq(Answer) /\ w \o rest # <<>> /\ (w \o rest)[1] = w[1]
        /\ Tail(w \o rest) = Tail(w) \o rest
    BY <2>1, <1>4, TailConcat, ConcatProperties
  <2> QED BY <2>1, <2>2, <1>3, <1>6
<1>9. Pending[1].seq \in {0, expected} /\ expected < seqEnd
  BY <1>1, <1>8, SoundHead DEF StreamInv
<1>10. SeqOk(Head(inbox)) /\ ~AllSeen
  BY <1>1, <1>8, <1>9 DEF SeqOk, AllSeen
<1> QED BY <1>1, <1>2, <1>3, <1>7, <1>8, <1>9, <1>10

(* A negative answer says that the batch has no effect. *)
LEMMA FailureMeansAborted ==
    ASSUME TxInv, driver = "reading", ~Head(inbox).ok
    PROVE  ~committed
<1>1. StreamInv /\ Pending \in Seq(Answer) /\ Pending # <<>> /\ Pending[1] = Head(inbox)
  BY NextAnswer
<1>2. 1 \in DOMAIN Pending
  BY <1>1, AnswerFacts
<1>3. Fails(Pending)
  BY <1>1, <1>2 DEF Fails
<1> QED BY <1>1, <1>3 DEF StreamInv

LEMMA ExamineKeeps ==
    ASSUME Sendable, TxInv, Examine
    PROVE  TxInv'
<1> DEFINE r == Head(inbox)
<1>1. /\ driver = "reading" /\ inbox' = Tail(inbox)
      /\ UNCHANGED <<vars, kernel, at, failed, committed, answers, queue, overrun>>
  BY DEF Examine, kernelVars, socketVars
<1>2. /\ kernel = "replying" /\ StreamInv /\ seqEnd > 1
      /\ expected < seqEnd /\ ~AllSeen /\ SeqOk(r)
      /\ inbox \in Seq(Answer) /\ inbox # <<>>
      /\ Pending \in Seq(Answer) /\ Pending # <<>> /\ Pending[1] = r
      /\ Tail(Pending) = Stream(Tail(inbox), queue, answers, overrun)
      /\ Tail(inbox) \in Seq(Answer) /\ Len(Tail(inbox)) = Len(inbox) - 1
  BY <1>1, NextAnswer
<1>3. /\ driver' = IF ~r.ok THEN "err" ELSE IF Len(inbox) = 1 THEN "waiting" ELSE "reading"
      /\ expected' = expected + 1
  BY <1>2 DEF Examine, Outcome
<1>4. /\ BatchInv /\ TxTypeOK /\ phase = "finalized"
      /\ seqEnd \in Nat \ {0} /\ expected \in 1..seqEnd
  BY <1>1, DriverFacts DEF TxInv
<1>5. BatchInv' /\ seqEnd' = seqEnd /\ msgs' = msgs /\ phase' = phase
  BY <1>1, <1>4, BatchAlone
<1>6. /\ Len(inbox) = 1 => inbox' = <<>>
      /\ Len(inbox) # 1 => inbox' # <<>>
  <2>1. Len(inbox) \in Nat /\ Len(inbox') = Len(inbox) - 1 /\ inbox' \in Seq(Answer)
    BY <1>1, <1>2, LenProperties
  <2>2. inbox' = <<>> <=> Len(inbox') = 0
    BY <2>1, AnswerFacts
  <2> QED BY <2>1, <2>2
<1>7. TxTypeOK'
  <2>1. expected' \in 1..seqEnd
    BY <1>2, <1>3, <1>4
  <2>2. driver' \in {"err", "waiting", "reading"} /\ (driver' = "reading" => inbox' # <<>>)
    BY <1>3, <1>6
  <2> QED BY <2>1, <2>2, <1>1, <1>2, <1>4, <1>5 DEF TxTypeOK, DriverPhase
<1>8. Pending' = Tail(Pending)
  BY <1>1, <1>2 DEF Pending
<1>9. CASE ~r.ok
  <2>1. ~committed
    BY <1>1, <1>9, FailureMeansAborted
  <2>2. ReplyingInv'
    BY <2>1, <1>1, <1>2, <1>3, <1>9 DEF ReplyingInv
  <2> QED BY <2>2, <1>1, <1>2, <1>3, <1>4, <1>5, <1>7 DEF TxInv
<1>10. CASE r.ok
  <2>1. driver' \in {"waiting", "reading"} /\ (driver' = "waiting" => inbox' = <<>>)
    BY <1>3, <1>6, <1>10
  <2>2. /\ Sound(Pending', expected + 1, seqEnd)
        /\ Fails(Pending') <=> Fails(Pending)
        /\ Len(Pending') = Len(Pending) - 1
    BY <1>2, <1>4, <1>8, <1>10, SoundTail DEF StreamInv
  <2>3. Len(Pending) \in Nat /\ expected \in Nat
    BY <1>2, <1>4, LenProperties
  <2>4. expected' + Len(Pending') = expected + Len(Pending)
    BY <2>2, <2>3, <1>3
  <2>5. StreamInv'
    BY <2>1, <2>2, <2>4, <1>1, <1>2, <1>3, <1>5 DEF StreamInv
  <2>6. ReplyingInv'
    BY <2>1, <2>5 DEF ReplyingInv
  <2> QED BY <2>1, <2>6, <1>1, <1>2, <1>4, <1>5, <1>7 DEF TxInv
<1> QED BY <1>9, <1>10

----------------------------------------------------------------------------
(* The invariant of the whole, and what follows from it.                   *)

LEMMA InitTxInv == TxInit => TxInv
<1> SUFFICES ASSUME TxInit PROVE TxInv
  OBVIOUS
<1>1. BatchInv
  BY InitBatchInv DEF TxInit
<1>2. IdleInv
  BY DEF TxInit, IdleInv
<1>3. TxTypeOK
  <2>1. <<>> \in Seq(Answer) /\ Len(<<>>) <= QueueMax
    BY QueueAssumption
  <2>2. seqEnd \in Nat \ {0} /\ 1 \in 1..seqEnd
    BY <1>1 DEF BatchInv, AnyInv, TypeOK
  <2>3. /\ driver = "building" /\ expected = 1 /\ inbox = <<>> /\ kernel = "idle"
        /\ at = 1 /\ failed = FALSE /\ committed = FALSE /\ overrun = FALSE
        /\ answers = <<>> /\ queue = <<>>
    BY DEF TxInit
  <2>4. failed \in BOOLEAN /\ committed \in BOOLEAN /\ overrun \in BOOLEAN
    BY <2>3
  <2>5. /\ answers \in Seq(Answer) /\ inbox \in Seq(Answer)
        /\ queue \in Seq(Answer) /\ Len(queue) <= QueueMax
    BY <2>1, <2>3
  <2>6. expected \in 1..seqEnd /\ at \in Nat \ {0}
    BY <2>2, <2>3
  <2> QED BY <2>3, <2>4, <2>5, <2>6 DEF TxTypeOK, DriverPhase
<1> QED BY <1>1, <1>2, <1>3 DEF TxInit, TxInv

LEMMA StepKeepsTxInv ==
    ASSUME Sendable, TxInv, [TxNext]_txVars
    PROVE  TxInv'
<1>1. CASE UNCHANGED txVars
  <2>1. UNCHANGED <<vars, driver, expected, inbox, kernel, at, failed, committed, answers,
                    queue, overrun>>
    BY <1>1 DEF txVars, driverVars, kernelVars, socketVars
  <2>2. BatchInv' /\ seqEnd' = seqEnd /\ msgs' = msgs /\ phase' = phase /\ Skipped' = Skipped
    BY <2>1, BatchAlone DEF TxInv
  <2>3. TxTypeOK' /\ Pending' = Pending
    BY <2>1, <2>2 DEF TxInv, TxTypeOK, Pending
  <2>4. StreamInv => StreamInv'
    BY <2>1, <2>2, <2>3 DEF StreamInv
  <2>5. (IdleInv => IdleInv') /\ (RunningInv => RunningInv')
    BY <2>1, <2>2 DEF IdleInv, RunningInv
  <2>6. ReplyingInv => ReplyingInv'
    BY <2>1, <2>2, <2>4 DEF ReplyingInv
  <2> QED BY <2>1, <2>2, <2>3, <2>5, <2>6 DEF TxInv
<1>2. CASE Build
  BY <1>2, BuildKeeps
<1>3. CASE Send \/ SendFails
  BY <1>3, SendKeeps
<1>4. CASE KernelBegin
  BY <1>4, KernelBeginKeeps
<1>5. ASSUME NEW ok \in BOOLEAN, KernelMsg(ok) PROVE TxInv'
  BY <1>5, KernelMsgKeeps
<1>6. CASE KernelCommits
  BY <1>6, KernelCommitsKeeps
<1>7. CASE KernelRefuses \/ CommitFails
  BY <1>7, RefusingKeeps
<1>8. CASE KernelAborts
  BY <1>8, KernelAbortsKeeps
<1>9. CASE Deliver
  BY <1>9, DeliverKeeps
<1>10. CASE ReturnOk
  BY <1>10, ReturnOkKeeps
<1>11. CASE RecvFails
  BY <1>11, RecvFailsKeeps
<1>12. CASE Examine
  BY <1>12, ExamineKeeps
<1>13. ASSUME NEW n \in 1..Len(queue), Recv(n) PROVE TxInv'
  BY <1>13, RecvKeeps
<1> QED BY <1>1, <1>2, <1>3, <1>4, <1>5, <1>6, <1>7, <1>8, <1>9, <1>10, <1>11, <1>12,
           <1>13 DEF TxNext, Kernel, Driver

THEOREM TxInvariant ==
    ASSUME Sendable PROVE TxSpec => []TxInv
<1>1. TxInv /\ [TxNext]_txVars => TxInv'
  BY StepKeepsTxInv
<1> QED BY <1>1, InitTxInv, PTL DEF TxSpec

(* Type correctness of the driver, the kernel and the socket. *)
THEOREM TransactionTypeCorrect ==
    ASSUME Sendable PROVE TxSpec => []TxTypeOK
<1>1. TxInv => TxTypeOK
  BY DEF TxInv
<1> QED BY <1>1, TxInvariant, PTL

(* A batch none of whose messages asks for an answer takes no number. *)
LEMMA AsksANumber ==
    ASSUME TxInv, phase = "finalized", seqEnd = 1
    PROVE  \A i \in DOMAIN msgs : ~msgs[i].ack
<1>1. \A i \in DOMAIN msgs : msgs[i].ack => msgs[i].seq \in 1..(seqEnd - 1)
  BY DEF TxInv, BatchInv, AnyInv, Numbered
<1> QED BY <1>1

(* Ok is returned only at the end of an answered batch. *)
LEMMA OkMeans ==
    ASSUME TxInv, driver = "ok", \E i \in DOMAIN msgs : msgs[i].ack
    PROVE  committed /\ answers = <<>> /\ queue = <<>> /\ inbox = <<>>
<1>1. phase = "finalized" /\ seqEnd # 1
  <2>1. phase = "finalized"
    BY DEF TxInv
  <2> QED BY <2>1, AsksANumber
<1>2. kernel = "replying"
  BY <1>1, DriverFacts DEF TxInv, TxTypeOK, IdleInv, RunningInv
<1> QED BY <1>1, <1>2 DEF TxInv, ReplyingInv

(***************************************************************************)
(* If send_and_process returns Ok, the batch has taken effect, unless it   *)
(* has no message but a begin and an end that are not acknowledged.        *)
(***************************************************************************)
THEOREM OkIsTrue ==
    ASSUME Sendable PROVE TxSpec => []OkMeansCommitted
<1>1. TxInv => OkMeansCommitted
  BY OkMeans DEF OkMeansCommitted
<1> QED BY <1>1, TxInvariant, PTL

(***************************************************************************)
(* When it returns Ok, it has read every answer to the batch: neither the  *)
(* kernel, nor the socket, nor the driver's buffer holds one that the next *)
(* batch on this socket would find.                                        *)
(***************************************************************************)
THEOREM EveryAnswerIsRead ==
    ASSUME Sendable PROVE TxSpec => []AllAnswersRead
<1>1. TxInv => AllAnswersRead
  BY OkMeans DEF AllAnswersRead
<1> QED BY <1>1, TxInvariant, PTL

(***************************************************************************)
(* If it returns an error, the batch has not taken effect, unless the      *)
(* socket dropped an answer.                                               *)
(***************************************************************************)
THEOREM ErrIsTrue ==
    ASSUME Sendable PROVE TxSpec => []ErrMeansNotCommitted
<1>1. TxInv => ErrMeansNotCommitted
  <2> SUFFICES ASSUME TxInv, driver = "err" PROVE ~committed \/ overrun \/ GuessedWrong
    BY DEF ErrMeansNotCommitted
  <2>1. kernel \in {"idle", "running", "replying"}
    BY DEF TxInv, TxTypeOK
  <2> QED BY <2>1 DEF TxInv, IdleInv, RunningInv, ReplyingInv
<1> QED BY <1>1, TxInvariant, PTL

(***************************************************************************)
(* The driver reads the answers in the order of the numbers it expects,    *)
(* and no answer after the last of them.                                   *)
(***************************************************************************)
THEOREM AnswersAreExpected ==
    ASSUME Sendable PROVE TxSpec => [](AnswersMatch /\ NoUnexpectedAck)
<1>1. TxInv => AnswersMatch /\ NoUnexpectedAck
  BY NextAnswer, DriverFacts DEF AnswersMatch, NoUnexpectedAck
<1> QED BY <1>1, TxInvariant, PTL

----------------------------------------------------------------------------
(* Executing a batch implements AtomicBatch.                               *)

(* Nothing is missing but what the socket dropped: no version is guessed. *)
MissingIsDropped == Missing = overrun

LEMMA NothingGuessed == ASSUME Sendable, TxInv PROVE MissingIsDropped
<1>1. ASSUME phase = "finalized" PROVE ~GuessedWrong
  <2>1. ~VersionPanics
    BY <1>1 DEF TxInv, BatchInv, AckInv
  <2>2. release \in Releases
    BY DEF TxInv, BatchInv, AnyInv, TypeOK
  <2>3. release.version \in Nat \X Nat
    BY <2>2, BuildAssumption
  <2>4. release.version # <<>>
    <3>1. PICK x \in Nat, y \in Nat : release.version = <<x, y>>
      BY <2>3
    <3>2. <<x, y>> # <<>>
      OBVIOUS
    <3> QED BY <3>1, <3>2
  <2> QED BY <2>1, <2>2, <2>4
          DEF Sendable, VersionNoticed, VersionPanics, GuessedWrong, KernelVersion, None
<1>2. ASSUME Decision \in {"committed", "aborted"} PROVE phase = "finalized"
  <2>1. kernel = "replying"
    BY <1>2 DEF TxInv, TxTypeOK, IdleInv, RunningInv, Decision
  <2> QED BY <2>1, DriverFacts DEF TxInv
<1>3. ~(GuessedWrong /\ Decision \in {"committed", "aborted"})
  BY <1>1, <1>2
<1>4. overrun \in BOOLEAN
  BY DEF TxInv, TxTypeOK
<1> QED BY <1>3, <1>4 DEF MissingIsDropped, Missing

(* The actions of the abstract specification, in the terms of this one. *)
LEMMA AtomicMapping ==
    ASSUME MissingIsDropped, MissingIsDropped'
    PROVE
    /\ Atomic!Compose <=> /\ Decision = "unsent" /\ Told = "none"
                          /\ Asks' \in BOOLEAN
                          /\ Decision' = Decision /\ overrun' = overrun /\ Told' = Told
    /\ Atomic!Send <=> /\ Decision = "unsent" /\ Told = "none"
                       /\ Decision' = "undecided"
                       /\ Asks' = Asks /\ overrun' = overrun /\ Told' = Told
    /\ Atomic!Decide <=> /\ Decision = "undecided"
                         /\ Decision' \in {"committed", "aborted"}
                         /\ overrun' \in {overrun, TRUE}
                         /\ Asks' = Asks /\ Told' = Told
    /\ Atomic!Lose <=> /\ Decision \in {"committed", "aborted"}
                       /\ overrun' = TRUE
                       /\ Asks' = Asks /\ Decision' = Decision /\ Told' = Told
    /\ Atomic!Report <=>
           /\ Told = "none"
           /\ \/ /\ Told' = "ok"
                 /\ Decision = "committed" \/ (Decision # "unsent" /\ ~Asks)
              \/ /\ Told' = "err"
                 /\ \/ Decision \in {"unsent", "aborted"}
                    \/ Decision = "committed" /\ overrun
           /\ Asks' = Asks /\ Decision' = Decision /\ overrun' = overrun
BY DEF Atomic!Compose, Atomic!Send, Atomic!Decide, Atomic!Lose, Atomic!Report,
       Atomic!MayReportOk, Atomic!MayReportErr, MissingIsDropped

(* A step of which the program and the batch's effect show nothing. *)
LEMMA Stutters ==
    ASSUME msgs' = msgs, committed' = committed, kernel' = kernel, overrun' = overrun,
           Told' = Told, MissingIsDropped, MissingIsDropped'
    PROVE  UNCHANGED Atomic!vars
BY DEF Atomic!vars, Asks, Decision, MissingIsDropped

LEMMA StepRefinesAtomic ==
    ASSUME Sendable, TxInv, [TxNext]_txVars, MissingIsDropped, MissingIsDropped'
    PROVE  [Atomic!Next]_(Atomic!vars)
<1>1. /\ TxTypeOK /\ kernel \in {"idle", "running", "replying"}
      /\ kernel # "replying" => ~committed
      /\ Asks \in BOOLEAN /\ Asks' \in BOOLEAN
  BY DEF TxInv, TxTypeOK, IdleInv, RunningInv, Asks
<1>2. ASSUME UNCHANGED vars PROVE msgs' = msgs /\ Asks' = Asks
  BY <1>2 DEF vars, Asks
<1>3. CASE UNCHANGED txVars
  BY <1>2, <1>3, Stutters DEF txVars, driverVars, kernelVars, socketVars, Told
<1>4. CASE Build
  <2>1. Next /\ UNCHANGED <<driver, kernel, committed, overrun>>
    BY <1>4 DEF Build, driverVars, kernelVars, socketVars
  <2>2. phase # "finalized"
    BY <2>1 DEF Next, SizePanics, AllocFails, WithPageSize, WriteBegin, BeginPanics,
                BeginAborts, Add, AddAborts, Finalize, FinalizeAborts
  <2>3. driver = "building" /\ kernel = "idle"
    BY <2>2, DriverFacts DEF TxInv
  <2>4. Decision = "unsent" /\ Told = "none" /\ Decision' = Decision /\ Told' = Told
    BY <2>1, <2>3, <1>1 DEF Decision, Told
  <2>5. Atomic!Compose
    BY <2>1, <2>4, <1>1, AtomicMapping
  <2> QED BY <2>5 DEF Atomic!Next
<1>5. CASE Send
  <2>1. /\ driver = "building" /\ driver' = "waiting" /\ kernel' = "running"
        /\ UNCHANGED <<vars, committed, overrun>>
    BY <1>5 DEF Send, socketVars
  <2>2. kernel = "idle"
    BY <2>1, DriverFacts
  <2>3. /\ Decision = "unsent" /\ Decision' = "undecided"
        /\ Told = "none" /\ Told' = "none" /\ Asks' = Asks
    BY <2>1, <2>2, <1>1, <1>2 DEF Decision, Told
  <2>4. Atomic!Send
    BY <2>1, <2>3, AtomicMapping
  <2> QED BY <2>4 DEF Atomic!Next
<1>6. ASSUME NEW d \in {"ok", "err"}, Told = "none", driver' = d,
             UNCHANGED <<vars, kernel, committed, overrun>>,
             d = "ok" => Decision = "committed" \/ (Decision # "unsent" /\ ~Asks),
             d = "err" => \/ Decision \in {"unsent", "aborted"}
                          \/ Decision = "committed" /\ overrun
      PROVE  Atomic!Next
  <2>1. Told' = d
    BY <1>6 DEF Told
  <2>2. Asks' = Asks /\ Decision' = Decision /\ overrun' = overrun
    BY <1>2, <1>6 DEF Decision
  <2>3. Atomic!Report
    BY <2>1, <2>2, <1>6, AtomicMapping
  <2> QED BY <2>3 DEF Atomic!Next
<1>7. CASE SendFails
  <2>1. /\ driver = "building" /\ driver' = "err"
        /\ UNCHANGED <<vars, kernel, committed, overrun>>
    BY <1>7 DEF SendFails, kernelVars, socketVars
  <2>2. Told = "none" /\ Decision = "unsent"
    BY <2>1, <1>1, DriverFacts DEF Told, Decision
  <2> QED BY <2>1, <2>2, <1>6
<1>8. ASSUME kernel = "running", kernel' = kernel,
             UNCHANGED <<vars, driver, committed, overrun>>
      PROVE  UNCHANGED Atomic!vars
  BY <1>2, <1>8, Stutters DEF Told
<1>9. CASE KernelBegin \/ \E ok \in BOOLEAN : KernelMsg(ok)
  BY <1>8, <1>9 DEF KernelBegin, KernelMsg, driverVars, socketVars
<1>10. CASE KernelCommits \/ CommitFails \/ KernelAborts \/ KernelRefuses
  <2>1. /\ kernel = "running" /\ kernel' = "replying"
        /\ UNCHANGED <<vars, driver, overrun>>
        /\ committed' = TRUE \/ committed' = committed
    BY <1>10 DEF KernelCommits, CommitFails, KernelAborts, KernelRefuses,
                driverVars, socketVars
  <2>2. /\ Decision = "undecided" /\ Decision' \in {"committed", "aborted"}
        /\ Told' = Told /\ Asks' = Asks
    BY <2>1, <1>1, <1>2 DEF Decision, Told
  <2>3. Atomic!Decide
    BY <2>1, <2>2, AtomicMapping
  <2> QED BY <2>3 DEF Atomic!Next
<1>11. CASE Deliver
  <2>1. /\ kernel = "replying"
        /\ UNCHANGED <<vars, driver, kernel, committed>>
        /\ overrun' = overrun \/ overrun' = TRUE
    BY <1>11 DEF Deliver, driverVars
  <2>2. /\ Decision \in {"committed", "aborted"} /\ Decision' = Decision
        /\ Told' = Told /\ Asks' = Asks
    BY <2>1, <1>2 DEF Decision, Told
  <2>3. CASE overrun' = overrun
    BY <2>1, <2>2, <2>3 DEF Atomic!vars, MissingIsDropped
  <2>4. CASE overrun' = TRUE
    <3>1. Atomic!Lose
      BY <2>2, <2>4, AtomicMapping
    <3> QED BY <3>1 DEF Atomic!Next
  <2> QED BY <2>1, <2>3, <2>4
<1>12. CASE ReturnOk
  <2>1. /\ driver = "waiting" /\ AllSeen /\ driver' = "ok"
        /\ UNCHANGED <<vars, kernel, committed, overrun>>
    BY <1>12 DEF ReturnOk, kernelVars, socketVars
  <2>2. kernel # "idle" /\ phase = "finalized" /\ Told = "none"
    BY <2>1, DriverFacts DEF TxInv, Told
  <2>3. CASE seqEnd = 1
    <3>1. ~Asks /\ Decision # "unsent"
      BY <2>2, <2>3, AsksANumber DEF Asks, Decision
    <3> QED BY <3>1, <2>1, <2>2, <1>6
  <2>4. CASE seqEnd # 1
    <3>1. kernel = "replying"
      BY <2>1, <2>2, <2>4, <1>1 DEF TxInv, RunningInv, AllSeen
    <3>2. Decision = "committed"
      BY <3>1, <2>1, <2>4, AllRead DEF Decision
    <3> QED BY <3>2, <2>1, <2>2, <1>6
  <2> QED BY <2>3, <2>4
<1>13. CASE RecvFails
  <2>1. /\ driver = "waiting" /\ overrun /\ driver' = "err"
        /\ UNCHANGED <<vars, kernel, committed, overrun>>
    BY <1>13 DEF RecvFails, kernelVars, socketVars
  <2>2. kernel = "replying" /\ Told = "none"
    BY <2>1, <1>1 DEF TxInv, IdleInv, RunningInv, Told
  <2>3. Decision \in {"committed", "aborted"}
    BY <2>2 DEF Decision
  <2> QED BY <2>1, <2>2, <2>3, <1>6
<1>14. ASSUME NEW n \in 1..Len(queue), Recv(n) PROVE UNCHANGED Atomic!vars
  BY <1>2, <1>14, Stutters DEF Recv, kernelVars, Told
<1>15. CASE Examine
  <2>1. /\ driver = "reading" /\ UNCHANGED <<vars, kernel, committed, overrun>>
        /\ driver' = Outcome(Head(inbox))
    BY <1>15 DEF Examine, kernelVars, socketVars
  <2>2. ~AllSeen /\ SeqOk(Head(inbox)) /\ kernel = "replying"
    BY <2>1, NextAnswer
  <2>3. CASE Head(inbox).ok
    <3>1. driver' \in {"waiting", "reading"}
      BY <2>1, <2>2, <2>3 DEF Outcome
    <3>2. Told' = Told
      BY <3>1, <2>1 DEF Told
    <3> QED BY <3>2, <2>1, <1>2, Stutters
  <2>4. CASE ~Head(inbox).ok
    <3>1. driver' = "err"
      BY <2>1, <2>2, <2>4 DEF Outcome
    <3>2. Decision = "aborted" /\ Told = "none"
      BY <2>1, <2>2, <2>4, FailureMeansAborted DEF Decision, Told
    <3> QED BY <3>1, <3>2, <2>1, <1>6
  <2> QED BY <2>3, <2>4
<1> QED BY <1>3, <1>4, <1>5, <1>7, <1>9, <1>10, <1>11, <1>12, <1>13, <1>14, <1>15
        DEF TxNext, Kernel, Driver

(***************************************************************************)
(* A batch that is sent takes effect as a whole or not at all, and what    *)
(* send_and_process returns says which, unless an answer was lost.         *)
(***************************************************************************)
THEOREM ImplementsAtomicBatch ==
    ASSUME Sendable PROVE TxSpec => AtomicSpec
<1>1. TxInit => Atomic!Init
  <2> SUFFICES ASSUME TxInit PROVE Atomic!Init
    OBVIOUS
  <2>1. msgs = <<>> /\ driver = "building" /\ kernel = "idle" /\ committed = FALSE
        /\ overrun = FALSE
    BY DEF TxInit, Init
  <2>2. Asks = FALSE
    BY <2>1 DEF Asks
  <2> QED BY <2>1, <2>2 DEF Atomic!Init, Decision, Told, Missing
<1>2. TxInv => MissingIsDropped
  BY NothingGuessed
<1>3. TxInv /\ MissingIsDropped /\ MissingIsDropped' /\ [TxNext]_txVars
          => [Atomic!Next]_(Atomic!vars)
  BY StepRefinesAtomic
<1> QED BY <1>1, <1>2, <1>3, TxInvariant, PTL DEF TxSpec, AtomicSpec, Atomic!Spec
=============================================================================
