---------------------------- MODULE Transaction ----------------------------
(***************************************************************************)
(* Executing a batch: the send_and_process function that the programs in   *)
(* nftnl/examples share, with netfilter's side of the socket.              *)
(*                                                                         *)
(* The program sends the buffers of the finalized batch and then checks    *)
(* one answer for each number of sequence_numbers().  netfilter performs   *)
(* all the messages or none: it remembers an answer for each message that  *)
(* asks for one or fails, commits if none failed, and then delivers the    *)
(* answers.  The socket holds a limited number of them; when it overruns,  *)
(* the next recv() fails.                                                  *)
(*                                                                         *)
(* mnl and the kernel are external: they are modelled as far as the driver *)
(* relies on them.  The buffers are taken to reach the kernel as a single  *)
(* request.                                                                *)
(***************************************************************************)
EXTENDS Batch

CONSTANT QueueMax   \* answers the socket holds

ASSUME QueueAssumption == QueueMax \in Nat

VARIABLES
    driver,     \* send_and_process: see DriverPhase
    expected,   \* the start of expected_seqs; its end is seqEnd
    inbox,      \* answers of the last recv() not yet looked at
    kernel,     \* "idle", "running" or "replying"
    at,         \* the message the kernel is to perform
    failed,     \* has a message failed?
    committed,  \* has the batch taken effect?
    answers,    \* the kernel's answers not yet delivered: [seq, ok]
    queue,      \* answers in the socket
    overrun     \* was an answer dropped because the socket was full?

driverVars == <<driver, expected, inbox>>
kernelVars == <<kernel, at, failed, committed, answers>>
socketVars == <<queue, overrun>>
txVars == <<vars, driverVars, kernelVars, socketVars>>

DriverPhase == {"building", "waiting", "reading", "ok", "err", "panicked"}

Answer == [seq : Nat, ok : BOOLEAN]

TxInit ==
    /\ Init
    /\ driver = "building" /\ expected = 1 /\ inbox = <<>>
    /\ kernel = "idle" /\ at = 1 /\ failed = FALSE /\ committed = FALSE
    /\ answers = <<>> /\ queue = <<>> /\ overrun = FALSE

Build == Next /\ UNCHANGED <<driverVars, kernelVars, socketVars>>

----------------------------------------------------------------------------
(* The kernel (external).                                                  *)

Reply(m, ok) == [seq |-> m.seq, ok |-> ok]

(* A begin or an end is answered if it asks for that and the kernel can. *)
FrameReply(m) ==
    IF m.ack /\ KernelAcksFrame THEN <<Reply(m, TRUE)>> ELSE <<>>

KernelBegin ==
    /\ kernel = "running" /\ msgs[at].kind = "begin"
    /\ answers' = FrameReply(msgs[at])
    /\ at' = at + 1
    /\ UNCHANGED <<vars, driverVars, kernel, failed, committed, socketVars>>

(* A failing message does not stop the batch: those after it are tried too. *)
KernelMsg(ok) ==
    /\ kernel = "running" /\ msgs[at].kind = "msg"
    /\ answers' = IF msgs[at].ack \/ ~ok THEN Append(answers, Reply(msgs[at], ok))
                  ELSE answers
    /\ failed' = (failed \/ ~ok)
    /\ at' = at + 1
    /\ UNCHANGED <<vars, driverVars, kernel, committed, socketVars>>

KernelCommits ==
    /\ kernel = "running" /\ msgs[at].kind = "end" /\ ~failed
    /\ committed' = TRUE
    /\ answers' = answers \o FrameReply(msgs[at])
    /\ kernel' = "replying"
    /\ UNCHANGED <<vars, driverVars, at, failed, socketVars>>

(* Committing fails, if there is anything to commit; answered at once. *)
CommitFails ==
    /\ kernel = "running" /\ msgs[at].kind = "end" /\ ~failed
    /\ at > 2
    /\ answers' = <<Reply(msgs[1], FALSE)>> \o answers
    /\ kernel' = "replying"
    /\ UNCHANGED <<vars, driverVars, at, failed, committed, socketVars>>

KernelAborts ==
    /\ kernel = "running" /\ msgs[at].kind = "end" /\ failed
    /\ kernel' = "replying"
    /\ UNCHANGED <<vars, driverVars, at, failed, committed, answers, socketVars>>

(* No nf_tables, no memory: one answer, to the begin, stands for all. *)
KernelRefuses ==
    /\ kernel = "running"
    /\ answers' = <<Reply(msgs[1], FALSE)>>
    /\ kernel' = "replying"
    /\ UNCHANGED <<vars, driverVars, at, failed, committed, socketVars>>

Deliver ==
    /\ kernel = "replying" /\ answers # <<>>
    /\ answers' = Tail(answers)
    /\ IF Len(queue) < QueueMax
       THEN queue' = Append(queue, Head(answers)) /\ UNCHANGED overrun
       ELSE overrun' = TRUE /\ UNCHANGED queue
    /\ UNCHANGED <<vars, driverVars, kernel, at, failed, committed>>

----------------------------------------------------------------------------
(* send_and_process                                                        *)

(* Socket::new or send_all fails. *)
SendFails ==
    /\ driver = "building" /\ phase = "finalized"
    /\ driver' = "err"
    /\ UNCHANGED <<vars, expected, inbox, kernelVars, socketVars>>

Send ==
    /\ driver = "building" /\ phase = "finalized"
    /\ driver' = "waiting" /\ expected' = 1
    /\ kernel' = "running"
    /\ UNCHANGED <<vars, inbox, at, failed, committed, answers, socketVars>>

(* Mutant: the last number is not waited for. *)
AllSeenEarly == expected + 1 >= seqEnd

(* expected_seqs.is_empty() *)
AllSeen == expected = seqEnd

ReturnOk ==
    /\ driver = "waiting" /\ AllSeen
    /\ driver' = "ok"
    /\ UNCHANGED <<vars, expected, inbox, kernelVars, socketVars>>

RecvFails ==
    /\ driver = "waiting" /\ ~AllSeen
    /\ overrun
    /\ driver' = "err"
    /\ UNCHANGED <<vars, expected, inbox, kernelVars, socketVars>>

(* recv() blocks until there is an answer, and may return several. *)
Recv(n) ==
    /\ driver = "waiting" /\ ~AllSeen
    /\ ~overrun
    /\ driver' = "reading"
    /\ inbox' = SubSeq(queue, 1, n)
    /\ queue' = SubSeq(queue, n + 1, Len(queue))
    /\ UNCHANGED <<vars, expected, kernelVars, overrun>>

(* libmnl lets an answer without a number pass. *)
SeqOk(r) == r.seq = 0 \/ r.seq = expected

(* Mutants: an error is not looked at; the inner loop is never left. *)
OutcomeOfSeq(r) ==
    IF AllSeen THEN "panicked"
    ELSE IF ~SeqOk(r) THEN "err"
    ELSE IF Len(inbox) = 1 THEN "waiting" ELSE "reading"
OutcomeOfAny(r) ==
    IF AllSeen THEN "panicked"
    ELSE IF ~SeqOk(r) \/ ~r.ok THEN "err" ELSE "reading"

(***************************************************************************)
(* Having an answer in hand, expected_seqs.next() may find no number left  *)
(* ("Unexpected ACK"), and cb_run an error or a number not expected.       *)
(***************************************************************************)
Outcome(r) ==
    IF AllSeen THEN "panicked"
    ELSE IF ~SeqOk(r) \/ ~r.ok THEN "err"
    ELSE IF Len(inbox) = 1 THEN "waiting" ELSE "reading"

Examine ==
    /\ driver = "reading"
    /\ driver' = Outcome(Head(inbox))
    /\ expected' = IF AllSeen THEN expected ELSE expected + 1
    /\ inbox' = Tail(inbox)
    /\ UNCHANGED <<vars, kernelVars, socketVars>>

----------------------------------------------------------------------------
Kernel ==
    \/ KernelBegin
    \/ \E ok \in BOOLEAN : KernelMsg(ok)
    \/ KernelCommits \/ CommitFails \/ KernelAborts \/ KernelRefuses
    \/ Deliver

Driver ==
    \/ ReturnOk \/ RecvFails \/ Examine
    \/ \E n \in 1..Len(queue) : Recv(n)

TxNext == Build \/ SendFails \/ Send \/ Kernel \/ Driver

TxSpec == TxInit /\ [][TxNext]_txVars

(***************************************************************************)
(* The kernel finishes a request it has accepted, and the driver's thread  *)
(* runs whenever it is not blocked in recv().                              *)
(***************************************************************************)
FairTxSpec == TxSpec /\ WF_txVars(Kernel) /\ WF_txVars(Driver)

----------------------------------------------------------------------------
(* Properties.                                                             *)

(* Type invariant of the driver, the kernel and the socket. *)
TxTypeOK ==
    /\ driver \in DriverPhase
    /\ expected \in 1..seqEnd
    /\ kernel \in {"idle", "running", "replying"}
    /\ at \in Nat \ {0} /\ (kernel = "running" => at \in DOMAIN msgs)
    /\ failed \in BOOLEAN /\ committed \in BOOLEAN /\ overrun \in BOOLEAN
    /\ answers \in Seq(Answer)
    /\ queue \in Seq(Answer) /\ Len(queue) <= QueueMax
    /\ inbox \in Seq(Answer) /\ (driver = "reading" => inbox # <<>>)

(***************************************************************************)
(* If send_and_process returns Ok, the batch has taken effect.  A batch    *)
(* that asks for no answer has no messages and no effect.                  *)
(***************************************************************************)
OkMeansCommitted ==
    driver = "ok" => committed \/ \A i \in DOMAIN msgs : ~msgs[i].ack

(***************************************************************************)
(* The version was not read, and the kernel does not answer the frame, as  *)
(* a release build takes it to ("only if the kernel supports it" is what   *)
(* batch.rs:147 says): the numbers of the frame stay without an answer.    *)
(***************************************************************************)
GuessedWrong == KernelVersion = None /\ ~KernelAcksFrame

(***************************************************************************)
(* If it returns an error, the batch has not taken effect; or an answer    *)
(* was lost, or an answer expected that does not come, and then the        *)
(* program cannot know.                                                    *)
(***************************************************************************)
ErrMeansNotCommitted == driver = "err" => ~committed \/ overrun \/ GuessedWrong

(***************************************************************************)
(* Each answer read is the one to the number expected next, or to a batch  *)
(* as a whole that carries no number: unless the kernel's version was      *)
(* guessed wrong, no correct run fails in cb_run's check of the number.    *)
(***************************************************************************)
AnswersMatch ==
    driver = "reading" => AllSeen \/ SeqOk(Head(inbox)) \/ GuessedWrong

(***************************************************************************)
(* After Ok, no answer to this batch is left to be taken for one to the    *)
(* next batch on the same socket.                                          *)
(***************************************************************************)
AllAnswersRead ==
    driver = "ok" /\ (\E i \in DOMAIN msgs : msgs[i].ack) =>
        answers = <<>> /\ queue = <<>> /\ inbox = <<>>

(* The driver never finds an answer more than it expects (its expect()). *)
NoUnexpectedAck == driver # "panicked"

(***************************************************************************)
(* A batch that is sent is decided: the driver does not wait for ever.     *)
(* Only for a batch without messages it may, if the version was guessed    *)
(* wrong: it asks for the answers of its frame, and gets none.             *)
(***************************************************************************)
DriverReturns ==
    driver = "waiting" ~> driver \in {"ok", "err"} \/ (GuessedWrong /\ Len(msgs) = 2)

----------------------------------------------------------------------------
(* Executing a batch implements AtomicBatch, as far as the program sees.   *)
Asks == \E i \in DOMAIN msgs : msgs[i].ack

Decision ==
    IF committed THEN "committed"
    ELSE IF kernel = "idle" THEN "unsent"
    ELSE IF kernel = "running" THEN "undecided" ELSE "aborted"

Missing == overrun \/ (GuessedWrong /\ Decision \in {"committed", "aborted"})

Told == IF driver \in {"ok", "err", "panicked"} THEN driver ELSE "none"

Atomic == INSTANCE AtomicBatch WITH
    asks <- Asks, outcome <- Decision, missing <- Missing, report <- Told

AtomicSpec == Atomic!Spec
=============================================================================
