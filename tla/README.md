# Verification of nftnl-rs

TLA+ models, model-checking configurations and machine-checked proofs for the
`nftnl` crate, the safe Rust layer over libnftnl: a program describes tables,
chains, rules and sets, serializes them as netlink messages into a batch, and
hands the batch to netfilter, which performs all of it or nothing.

Paths are relative to the repository (`nftnl/src/...`).

## The system

| Component | State it keeps | Operations | What makes it correct |
|---|---|---|---|
| `Set` (`set/mod.rs`, `set/kind.rs`, `datatype.rs`) | a libnftnl set: flags, types, the list of elements | `new`, `new_named`, `add`, `add_exact` of four kinds, `flush`, `elems_iter` | the elements denote the ranges the program asked for; the description fits the keys |
| `SetElemsIter`, `SetElemsMsg` (`set/mod.rs:287-425`, `syswrap/nlmsg.rs`) | two cells shared by the iterator and every message it hands out: `next`, `ret` | `next()`, `write()` | every element is sent once, in order; an interval's two elements travel together; a 16-bit nest length never wraps |
| `Batch`, `FinalizedBatch` (`batch.rs`, `lib.rs`, `util.rs`) | libnftnl's paged buffer, the range `seqs` | `with_page_size`, `add`, `add_iter`, `finalize`, `iter`, `sequence_numbers` | framing; numbers agree with the messages that expect an acknowledgement; no write leaves a page; no message is lost |
| `send_and_process` (`examples/*.rs`) | the numbers still expected, the answers in hand | send, receive, examine | the result it returns is what became of the batch; it returns |
| netfilter, libmnl, libnftnl (external) | the transaction, the socket's queue, the pages | | modelled from what `src/` relies on |
| `FlushSet` (`set/mod.rs:430-450`) | none: the elements in the set's handle | `write` | a flush empties the set in the kernel |
| `Table`, `Chain`, `Rule` | one libnftnl object each; a rule's list of expressions | setters, `add_expr`, `write`, `drop` | each is added to, and deleted from, the table it belongs to; rules and expressions are evaluated in the order they were added; what is allocated is freed once |
| expressions (`expr/*`) | values | `to_expr` | a rule decides what the program meant: the right bytes of a packet, in the right register, compared in the right byte order |
| `get_tables_nlmsg`, `get_tables_cb` (`table.rs`) | the set of names the caller passes | request, callback | the names collected are those of the tables there are |
| `nftnl-sys` | none | generated bindings to libnftnl, one file for each of its versions | |

How they interact: a program calls `Set::add`, then `batch.add(&set)` and
`batch.add_iter(set.elems_iter())`. `add_iter` takes a message from the
iterator and calls its `write()` with a pointer into libnftnl's current page;
`write()` moves the cells, on which the next call of the iterator depends.
`Batch::next` then makes libnftnl account for what was written, which may
allocate a page and copy the message to it. `finalize` consumes the batch and
gives the buffers (`iter`) and the numbers (`sequence_numbers`) to the driver,
which sends the former and waits for an answer to each of the latter.

What is hard here: there is no thread in the crate, but there is shared mutable
state behind `&self` (the cells); a serializer that discovers it has written
too much and takes it back; limits of three different widths (a 16-bit nest, a
page, a 32-bit allocation) that meet in one buffer; a protocol that changes
with the kernel's version; a conversation with a concurrent peer that may
refuse, fail half way, or lose its answers; and rules that are programs for
another machine, whose registers overlap, keep what other rules left in them,
and hold numbers in two byte orders. `PROJECT.json` lists these hazards
at the lines where they bite, with the properties that cover them.

## Modules

| Module | Models | Checked by | Proofs |
|---|---|---|---|
| `SetElems` | `Set::add`, `elems_iter`, `SetElemsIter::next`, `SetElemsMsg::write` | `MCSetElems` | `SetElems_proofs` |
| `ElemStream` | what the iterator promises | refinement `StreamSpec` | `ImplementsElemStream` |
| `Batch` | `Batch`, `FinalizedBatch`, libnftnl's pages, the kernel version | `MCTransaction`, `MCSetBatch`; a lost message: `MCBatch` | `Batch_proofs` |
| `BatchLog` | what a batch promises | refinement `LogSpec` | `ImplementsBatchLog` |
| `ByteOrder` | byte strings in the order of memcmp(), `increment_be` | with `SetKeys` | `SetKeys_proofs` |
| `SetKeys` | `Set::add` of every kind with the bytes of keys and data; netfilter's lookup | `MCSetKeys` | `SetKeys_proofs`, for pairs `MCSetKeys_proofs` |
| `RangeMap` | what a set promises | refinement `RangeMapSpec` | `ImplementsRangeMap` |
| `SetBatch` | `SetElems` and `Batch` together: a set's messages in the pages of a batch | `MCSetBatch` | `SetBatch_proofs` |
| `Transaction` | `Batch` with the driver, netfilter and the socket | `MCTransaction` | `Transaction_proofs` |
| `AtomicBatch` | what executing a batch promises | refinement `AtomicSpec` | `ImplementsAtomicBatch` |
| `Store` | the messages of tables, chains, rules, sets, elements and flushes; what netfilter makes of them; reading tables | `MCStore` | `Store_proofs` |
| `Inventory` | what a batch of such messages promises | refinement `InventorySpec` | `Store_proofs` |
| `Concatenation` | the padding of `Data for (A, B)` | with `SetKeys`, `Rules` | `SetKeys_proofs`, `Rules_proofs` |
| `Registers` | `expr/mod.rs`, and what storing and fetching do | with `Rules` | `Rules_proofs` |
| `Packets` | protocol numbers of `expr/cmp.rs`; headers on the wire and metadata (external) | with `Rules` | |
| `Expressions` | `to_expr` of 13 expressions | with `Rules` | `Rules_proofs` |
| `Traversal` | how a packet goes through chains (external) | with `Rules`, `Ruleset` | |
| `Rules` | `Rule`, `Chain`, and netfilter evaluating them | `MCRules` | `Rules_proofs` |
| `Ruleset` | what rules promise | refinement `RulesetSpec` | |

Each module holds, next to the definitions that translate the code, a few
marked *Mutant*: the same definition with a plausible bug. `PROJECT.json` pairs
each property of each run with a mutant that violates it.

### SetElems

`elems` is libnftnl's element list (`syswrap/set.rs`), an element being its
serialized length and its `INTERVAL_END` flag. `AddElement` and `AddInterval`
are what the four `add` functions append (`set/mod.rs:199-263`): a start, and
an end unless `increment_be` finds that the upper bound has no successor.

`write()` is split where the message is longest. `WriteStart` reads the cells;
`Push` serializes an element; then the length test at `set/mod.rs:400` is
either `Fits` or `Overflows`, and the end of the list is `WriteLast`.
`Overflows` takes bytes back as the code does: it shrinks by the length of the
overflowing element, and by `prev_len` too when that element is an end, and
keeps whatever attributes lie within the remaining bytes (`Within`). Nothing in
the model says that whole elements remain; `MessagesTiled` is the property that
they do. `held` counts the messages handed out by the iterator and not yet
written: with `MaxHeld = 1` the program would be `add_iter`, or any loop that
writes what it takes; the runs set it to 2, so that the program may also take a
message before it has written the previous one.

### SetKeys

The other half of `Set::add`: not how long elements are, but what they say. The
key type and the kind are type parameters in Rust and constants here
(`FieldLens`, `Interval`, `Map`). A key is the octets of its fields; `KeyBytes`
is `Data::data`, with the padding of pairs, and `WriteElem` the attributes a
datum leaves in its element. `AddRange` appends a start and, unless
`increment_be` returns `None`, an end. `asked` remembers the calls; the code has
no such list, the properties do. `IncrementBe` says which bytes the loop of
`increment_be` gets to (`Reaches`) instead of looping: byte `i` is touched if
all later ones have wrapped to 0.

The rest is netfilter: `Lookup` gives the attributes of the elements a key
finds, `Reads` what they mean, `Cut` how a concatenated key is divided.
`RangesMatched` compares the answers to byte strings with the ranges asked for;
`RangeMapSpec` compares them once more with the *numbers* the keys stand for and
the data the program meant, and says of each call that it changes no answer but
those it names. Both are about ranges that do not overlap (`Disjoint`,
`Promise!Legal`): nothing in the crate checks this, netfilter does.

### Rules

The program has *clauses* in mind ("destination port 80", "in this set",
"count", "jump to side"; constant `Clauses`). It adds a rule to a chain
(`NewRule`), says a clause (`Say`) and adds the expressions of that clause one
by one (`AddExpr`), until it puts the rule into the batch (`AddRule`). `Exprs`
is how the examples translate a clause: the guard on the protocol, the load, the
comparison or the lookup; `Expressions` is what `to_expr` makes of each. The
`family` of the table is one of `Families`; reject and tproxy depend on it, and
a table of one family sees the packets of that family only. Then a
packet arrives (`Arrive`) and netfilter evaluates, one action per expression,
with the 64 bytes of registers, the stack of jumps and the policy at the end.
Registers hold `Junk` when a packet arrives, since nothing clears them.

`meant` and the number `of` of a clause in each expression are history variables:
they are never read by an action, they say which clause an expression belongs
to. `Ruleset` is the promise in `rule.rs` ("Expressions are evaluated from first
to last added. As soon as an expression does not match the packet it's being
evaluated for, evaluation stops and the packet is evaluated against the next
rule in the chain"), said of clauses: it has fields and numbers and knows
neither registers nor bytes nor byte orders. `RulesetSpec` maps a place between
expressions to the clause it lies in; the loads of a clause are stutters, a
failing guard is a clause that does not match.

A wrong offset, length, byte order, register, padding, terminator or reject
family is a step that `Ruleset` does not allow. `ReadsAreWritten` says more of
the registers: no expression reads a byte that its own rule has not written,
also where the junk would happen not to matter.

Sets that a lookup names are values here: the keys and their length, with
`TupleData` of `SetKeys`' subject. A `u16` of a header is compared after
`to_be()`, as every example does.

### Batch

A message is written at the end of the current page before anything is checked,
then `nftnl_batch_update` runs: `Commit` when the message lies within the page's
limit, `Spill` when it does not and a new page can hold it, `Lose` when the new
page cannot hold it either. `PageRoom` is the allocation behind a page, in the
32-bit arithmetic of libnftnl. The begin and the end use a number and ask for
an acknowledgement if `AckBatchEnd` says so (`batch.rs:22-34`), which in a debug
build panics when the version cannot be read (`VersionPanics`); a release build
takes it for 6.10 or later. Each place that allocates may abort. The pages are
libnftnl's and external: what is stated of them is only what the crate chooses,
the room for a message (`RoomForAny`) and the buffers handed out
(`BuffersComplete`).

A lost message is not reported, although `add_iter` is documented to return
"the error for that failure" (`batch.rs:99-101`), and its number is announced
although `sequence_numbers` gives "messages in this batch that expect an ACK"
(`batch.rs:220`). The run `batch_lost` shows it.

### Transaction

EXTENDS `Batch`; the program builds any batch, then runs `send_and_process`.
`Kernel` performs one message at a time, remembers an answer for each message
that asks for one or fails, and at the end commits, fails to commit, or aborts;
then `Deliver` moves the answers into a socket that holds `QueueMax` of them and
remembers an overrun. `Recv(n)` returns any prefix of the queue in one buffer,
as `recv()` may. What `send_all` does with several buffers belongs to mnl; the
model takes them to arrive as one request. For a batch of several pages all that
is said here, `AtomicSpec` included, is conditional on that: nothing in `src/`
makes two sends one transaction.

`AtomicBatch` is the promise of `batch.rs` ("a batch of netfilter messages to
be performed in one atomic operation"): the messages take effect together or
not at all, and the program is told which. `AtomicSpec` maps the kernel's
commit to the abstract decision, and the driver's return to its announcement.
When an answer is missing (`missing`) the driver may be told that it failed
although the batch took effect: the abstract specification has a step for just
this case, and none by which Ok is returned for a batch that did not take effect.
(On a kernel before 6.10 a batch without messages asks for no answer: the
driver returns at once, and there is nothing to take effect.)

An answer is missing when the socket overran, and when a release build guessed
the version wrong (`GuessedWrong`, `Missing`). The comment at `batch.rs:147`
says that the frame asks for acknowledgements "only if the kernel supports it";
`batch.rs:28` assumes that it does if the version cannot be read. The run shows
what that means on a kernel before 6.10: Ok is still never returned for a batch
that did not take effect, but one that did may be reported as failed (the first
answer has the number of the second message), and for a batch without messages
the driver waits for ever. These are the exceptions in `ErrMeansNotCommitted`,
`AnswersMatch` and `DriverReturns`. The opposite guess would cost nothing: a
kernel of 6.10 or later does not acknowledge a frame that does not ask.

### SetBatch

EXTENDS `SetElems` and takes `Batch` as an instance whose messages are
`placed`. `AddElems` is `write()` called by `Batch::add` on the current
position of the page, step by step, and `AddElemsEnds` the return of `write()`
followed by `Batch::next` for a message as long as what was written. `AddOther`
puts other messages in front and behind; pages may be of any size, so that a
message of elements ends inside the page, is moved to the next one, or is lost.
The program is freer than `add_iter`: it may drop a message without writing it
(`DropMsg`) and, since `add` takes a reference, write one a second time
(`KeepMsg`).

This is where the two halves rely on each other. `SetElems` writes beyond the
limit of a nest and takes it back; `Batch` writes beyond the limit of a page
before it looks. `WritesInRoom` says that even then, with both overruns at
once, everything lies in the page's allocation. `SetDelivered` is what a user
of both wants: in a finalized batch every element of the set is in exactly one
message, in order. `numbers` is a history variable. `NumbersIncrease` and
`RoomForAny` are those of `Batch`, here for pages of any size: the numbers of
the messages that are there stay in order also when others were lost (that no
number is announced for a lost one, they do not say; it is false).

### Store

What each object's `write()` puts into a message, and what netfilter makes of
it. A message has a type, a family, flags and attributes; an attribute that was
never set is not there (`Opt`), and netfilter's reading of what is absent
matters: no handle deletes every rule of a chain, no elements empty a set.
`local` is what the program has added to the handle of each set; `add` puts into
the batch what an object is at that time. `Results` is netfilter, written from
what the messages of `src/` rely on; it works on a `draft` that becomes `now`
when the batch is committed.

A dump of the tables calls `get_tables_cb` for one table after another
(`GetTablesCb`), and each name goes into the set the caller passed, which may be
a fresh one or one that holds names already. When a message cannot be parsed
(`GetTablesFails`) the callback returns the error and touches nothing
(`table.rs:118-126`): the names of earlier messages stay with the caller, who
reads again into the same set or another. `before` is a history variable, what
the set held when the dump began.

`Inventory` says what the program asked for without types, flags and attributes:
`InventorySpec` is that each batch does all of it in order or nothing, and that
a dump that ends adds the names of all tables that are there to what the set
held, one that fails those of some (`ReadNames`, `ReadFails`). Requests that
netfilter has to refuse are part of it (an element that is in the set already, a
rule behind one that is not in the chain, a policy for a chain without a hook).
A flush is a request to empty the set if the handle is empty and to delete the
handle's elements if it is not; `FlushEmpties` is what the documentation says
instead, and the run `store_flush` shows the difference.

## Runs

| Run | Bounds | What it shows |
|---|---|---|
| `set_elems` (`SetElems.cfg`) | elements of 2 or 3 units, up to 6 of them; a nest of 9 with a header of 1; up to two messages taken before they are written | no interval is torn, everything is sent once and in order, the bytes left by `shrink` are whole elements, no write leaves the buffer, only messages taken too early are superfluous, the loop ends, and the iterator implements `ElemStream` |
| `set_batch` (`SetBatch.cfg`) | up to four elements of 2 or 3 units; a nest of 7, a longest message (`MsgMax`) of 11, other messages of 1 and 2, frames of 1; pages of 0, 5, 7, 11, 21 and 22, `U32Max` 32; two messages held, dropped or added again; up to five numbers; kernels on both sides of 6.10, one unreadable, a debug build | no write leaves a page's allocation, whose size does not wrap; numbers stay in order, also in a batch that loses messages; with pages of 11 or more each element is delivered once, in order; a message is empty only after all elements are sent |
| `set_keys` (`SetKeys.cfg`) | interval maps with keys of two bytes, bytes of one bit, two data; verdict maps of pairs of one and two bytes, padded to eight; three calls in any order | every key is answered as its range says, `RangeMap`; fields are recovered from keys, keys do not collide, data are read as meant |
| `set_keys_reject` (violation) | a map to `Accept` and `Reject`, two calls | a key mapped to `Reject` is dropped |
| `batch_lost` (`BatchLost.cfg`, violation) | pages of 3, messages of 1, 3 and 6, frames of 2, kernels 6.9 and 6.10 | a message longer than the page is lost, and `sequence_numbers()` announces its number |
| `transaction` (`Transaction.cfg`) | pages of 6, 7, 8, 10 and 11 units, none smaller than a message, up to three messages of 1, 3 and 6, frames of 2, kernels 6.9 and 6.10 whose version can be read or not, a release build, a socket of 4 answers | framing, numbering, completeness of `iter()`, and `BatchLog`; what `send_and_process` returns is what became of the batch, it returns, and the messages take effect together (`AtomicBatch`); what a wrong guess of the version does |
| `rules` (`Rules.cfg`) | inet table, little-endian host, seven packets of IPv4, IPv6, TCP, UDP and ICMPv6 with and without a link header, every field of every packet and 19 more ways to look at one, two clauses in one or two rules of two chains | each decides as it should, alone and next to each other; no byte is read that was not written |
| `rules_flow` | inet and ipv4 table, big-endian host, three packets; three clauses in up to two rules per chain: counting, marks, verdict maps, jump, goto, return, drop, tproxy, destination translation with the backends of `add-vmap.rs` | order, stops, returns and effects; the family of tproxy |
| `rules_numgen` (violation) | the same backends on a little-endian host | only the backend with key 0 is found |
| `rules_reject` (violation) | ipv4 table | the sender is told another reason |
| `store` (`Store.cfg`) | the program's tables of one name in two families and somebody else's of another name, a chain in one and a set in the other, two keys, one element per message, rules by one known handle, a policy; up to three requests in one batch or several; netfilter empty, with one table, or filled at the start; dumps that end or fail, into a fresh set or the one used before | each batch does what was asked for, in order, or nothing; the names read are those of the tables there are, of some of them if a dump fails (`Inventory`) |
| `store_flush` (violation) | the same with two requests in all, one local element | a flush through a handle that holds an element leaves the others in the set |

Why the bounds are enough. `SetElems`: a nest of 9 fits four short elements
exactly, three long ones no more; six elements then need up to three messages,
and every way to overflow occurs (on a key, on a start, on an end after a start
that fitted, on the first pair after a full message). `MsgMax = 14` is the
header, the nest and one long element: the smallest value `SlackAssumption`
admits, so a single byte more would be seen. `SetKeys`: four keys have a carry,
a least and a greatest key, ranges that touch on either side, and a gap between
two ranges; three ranges let one lie between two others. `Transaction`: pages
that the longest message fills alone (6, and 7 with a unit to spare), behind the
begin (8) and between begin and end (10); with 10 `size + MsgMax` is the
greatest u32, with 11 it is one more; four numbers are enough to begin three
pages of 6. `batch_lost`: the frame and short messages fit a page of 3, a
message of 6 does not. `SetBatch`: pages that hold no message of elements (0),
some of them (5, 7), exactly the longest written before an overflow is undone
(11), and one of these behind others (21); with 22 `size + MsgMax` is just 33,
beyond the u32. Four elements need up to two messages, and a third that is
empty. `Store`: three requests fill an empty netfilter, and on a filled one add,
change and delete the same object in one batch; two elements take two messages;
every request is met in some batch and refused in another; with two names a dump
can fail behind one and before the other. `Transaction`: a queue of 4 is one
less than the answers to the longest batch, so that it can overrun.

`Rules`: two clauses are enough for one expression to disturb the registers of
another, and three for a jump, what happens behind it and what happens after
the return; the numbers have two different bytes, one name begins with the
other, addresses share a prefix, and TCP and UDP ports lie at the same offset,
so that a missing guard shows.

A batch or an iterator may end, and a packet has its verdict in the end, so
deadlock is not checked: a program that has its result stops.

**Fairness.** `FairSpec` of `SetElems` says that the program, once it has the
iterator, takes its next step: one thread runs a loop in which nothing blocks.
`FairTxSpec` says that the kernel goes on with a request it has accepted and
delivers its answers, and that the driver's thread runs while it is not blocked
in `recv()`. Nothing is assumed about which answers come, nor about building
the batch: `DriverReturns` speaks of batches that were sent.

**Findings.** The five violations are disagreements between the code and its
own comments or examples, listed in `PROJECT.json`: the message that `add_iter`
loses without an error, what becomes of `Verdict::Reject` in a map, the keys of numbers made by numgen, the code of
a reject in tables of one family, and a flush through a handle that holds
elements.

**Where the runs stop on purpose.** Some properties hold only of programs of a
certain form, and the runs say which by their constants. `EveryNumberAsked` and
the other properties of a batch's contents, checked in the run `transaction`,
need pages that hold any message: a longer one is lost while its number is kept
(`Lose`; run `batch_lost`). `InventorySpec` is checked for sets
of their table's family (`OwnFamily`): a set given another one is created in
one table and filled in another, for which no promise is stated anywhere.
A version that a release build guesses wrong (`batch.rs:28`) is in the run
`transaction`, and is an exception in the properties it breaks (`GuessedWrong`).

## Proofs

All theorems hold for every value of the constants that meets the named
assumptions of the modules: elements are not empty, an interval fits a nest, the
slack of `nft_nlmsg_maxsize()` covers one element and the fixed part of a
message (`LengthAssumption`, `SlackAssumption`), and a message is no longer than
`nft_nlmsg_maxsize()` (`MsgAssumption`); in what netfilter holds at first, names
stand for one object and the rules of a chain are a list of handles
(`StartsAssumption`). A theorem that needs more of its program says so in its
statement: `LargePages`, `Sendable`, `OwnFamilies` and the like.

`SetElems_proofs`. `TypeOK` and the properties are not inductive: while
`write()` runs, the nest holds what no property mentions yet. `IInv` adds that
the attributes in the open nest are exactly the elements from `next` up to the
one at hand, back to back from the nest's header (`Packed`); that `prevLen` is
the length of the start just written if there is one; and that the cells are at
a boundary between intervals. The step that matters is `Overflows`: lemma
`OverflowLeaves` shows that the bytes undone are those of the last attribute or
of the last two, so that what lies within the rest is packed again and ends at
a boundary. From `IInv` follow `TypeCorrect`, `PairsStayIntact`,
`ElementsSentOnceInOrder`, `MessagesAreTiled`, `WritesStayInBounds` and
`IterationIsComplete`, for any `MaxHeld`. `NeededInv`, the second inductive
invariant, remembers why the last message was closed and counts the messages
that were taken too early, written or not; it gives `EveryMessageIsNeeded`.
`ImplementsElemStream` needs `IInv` only: a message is a `Send` of the stream,
or a `SendNothing` when it was taken too early.

`Batch_proofs`. `AnyInv` holds for pages of any size, also those that lose
messages; it gives `TypeCorrect`, `NumbersAreInOrder` and `PagesHaveRoom`. Lemma
`UpdateEffect` says what taking a message does to such pages. Under `LargePages`
(a page can hold any message, which is true of the default page size) lemma
`TakeStores` says more: a message is stored, in a page that `iter()` hands out.
`PageInv` is that much stronger, and gives `EveryNumberIsAsked`,
`BatchesAreFramed`, `IterIsComplete` and `ImplementsBatchLog`. Without
`LargePages` a message may be lost (`Lose`) and its number stays.

`Transaction_proofs`. Where the invariant of a batch is about numbers, that of
the transaction (`TxInv`) is about answers: those the kernel has yet to give,
holds back, has put into the socket and the driver has in its buffer are, put
one behind the other (`Pending`), the answers to the numbers still expected, in
order, up to the first error; they hold none if the batch is committed, and one
if it is not, unless the socket overran. It holds for batches in pages that hold
their messages and kernels whose version was noticed (`Sendable`, that is
`LargePages` and `VersionNoticed`: every version can be read, or the build is a
debug one), which are the conditions under which a batch has the numbers it
announces. Then nothing was guessed (`NothingGuessed`) and only the socket loses
answers (`MissingIsDropped`); batches of a release build that guesses are only
model-checked. From it follow `OkIsTrue`, `ErrIsTrue`, `AnswersAreExpected`,
`TransactionTypeCorrect` and, step by step, `ImplementsAtomicBatch`, for batches
and sockets of any size. It also gives `EveryAnswerIsRead`: when the driver
returns `Ok`, `Pending` has nothing left in any of its four parts (if the batch
asks for an answer at all).

`SetBatch_proofs` joins the first two without repeating them. Every step of
`SetBatch` is a step of `SetElems`, or drops or keeps a message, which `IInv`
survives: `SendInvariant`. From `IInv` a message that `write()` has ended is no
longer than `nft_nlmsg_maxsize()`, which is all that `Batch` asks of its
messages, so every step is also one of `Batch`: `SendingIsBatching`. The
theorems of `Batch_proofs` then hold of a batch that carries a set, and
`WritesHaveRoom` is the room of the one (`PagesHaveRoom`) minus what the other
takes of it (`BoundsFromInv`). `NumbersStayInOrder` and `RoomStays` are what
`NumbersAreInOrder` and `PagesHaveRoom` become for such a batch. For
`SetIsDelivered` one more invariant, `DeliveryInv`, says that each message
written is in the pages with its number and length, if pages are long enough;
that the numbers are distinct comes from `Batch`, that the elements are from
`SetElems`.

`SetKeys_proofs` holds for bytes of any number of values (256), keys of any
length, any kind and any data. Lemma `OrderIsTotal`, about memcmp(), finds the
first byte in which two strings differ; lemma `Carry` finds the byte that takes
the carry; from both, `IncrementIsSuccessor`: the strings before
`increment_be(b)` are those up to `b`. The inductive invariant of `SetKeys` is
that the elements are exactly the starts and the ends of the ranges
(`Represented`); the netfilter side needs no induction. `EveryKeyIsAnswered`
then has two halves: a key in a range finds its start, since anything closer
would start or end another range inside this one (`NothingCloser`); and a key
beyond a range finds its end (`OthersDoNot`).

`ImplementsRangeMap` says the same of the *numbers* that keys stand for.
`Number` is a recursive function, of which the provers know nothing until it is
shown to exist (`SumsExist`, `NumberIsSum`). That, and lemma `NumbersAreOrdered`
(memcmp() puts byte strings of one length in the order of their numbers), are
proved by looking at the least length at which they would fail. With it a range
of byte strings is a range of numbers, and the answers the abstract map changes
are the answers the elements change. `DescriptionFits` is about the type the set
announces: the length of the description is that of the keys. `MCSetKeys_proofs`
has what holds of pairs as corollaries of the instance for pairs (`PairsFit`,
`PairsMap`).

`Rules_proofs` is first about any values and any registers they fit:
`FieldsAreOneKey` says that two fields loaded into successive words are, from the
first word on, the key that `Data::data` makes of the pair, which is why
`add-vmap.rs` loads a port behind an IPv6 address into `Reg32_04`. `KeysDiffer`
says that padding never makes two keys one.

Then it is about any list of clauses and any packets of the form that
`ClausesAssumption` and `PacketsAssumption` state. `RegistersAreWritten` is the
reason to trust registers that nothing clears: no expression reads a byte its
own rule did not write. Reads happen in the middle of a rule, and the rule may
have been built in any order of clauses, so the invariant is about the
expressions still to come. `ClauseCovered` is the part without states: of the
expressions of one clause, each reads only what earlier ones of the same clause
have written (`Covered`). Hence whatever clauses were said, every suffix of a
rule is covered given the bytes written so far. The invariant (`RulesInvariant`)
carries this along both ways a rule moves: while the program adds expressions
(the rest of the current clause is covered by what has been added of it) and
while netfilter evaluates them, where the bytes a rule has written grow with
each expression (`CoveredByMore`), and a jump or a return starts at the head of
some rule, from which everything is covered by nothing.

`Store_proofs` shows `InventorySpec` (`ImplementsInventory`) for any objects,
any requests, any number of elements in a message and any names: those collected
in a dump are those the set held before and those of tables no longer `left`. It
needs `OwnFamilies` and `AllHandles`: netfilter numbers rules from 1 on and
never runs out of numbers, while a run has five. Netfilter performs messages and
`Inventory` requests, and a request for elements is as many messages as it
takes, none if there are no elements. So the invariant (`StoreInvariant`) has
two halves. The messages of the batch spell the requests (`Spells`,
`Remaining`): cut at the right places, they are the one message of a request, or
lists that are the keys of the request, one behind the other. And the draft is
what the requests before the next message may have made, and the keys listed so
far of the one it belongs to (`Performing`). One message of each kind does what
its request says (`OneDone`, kind by kind, down to the handle and the place of a
rule), a list of keys does what is asked of one more part of them (`ElemsStep`),
and if that is refused so is the whole (`PartRefused`). `Inventory` says what
requests may have made with a recursive function; that there is one is shown by
looking at the first number of requests without one (`AfterExists`).

Only model-checked: `RulesetSpec`, the decision of whole rulesets, whose proof
would be a proof of every expression's arithmetic against every field's;
`IterationEnds` and `DriverReturns`, since liveness under fairness is beyond the
prover.

## Not modelled

* What `send_all` makes of several buffers is mnl's; the properties of
  `Transaction` are conditional on its delivering them as one request.
* `seqs.end` is a u32 in the code and a natural number here: it would take
  2^32 messages in memory to tell the two apart.
* The kernel may run a batch again after loading a module (`EAGAIN`); nobody
  sees the abandoned attempt, so the model has a single one.
* The text of messages, names and log lines, and libnftnl's own layout of
  attributes: they are lengths.
* Intervals of concatenated keys, keys of variable length (`&CStr`) and pairs
  within pairs: see the hazards at their lines.
* Raw payloads, whose fields are named in bits while libnftnl takes bytes.
* Conntrack, socket and masquerade expressions, the other keys of `Meta`, source
  NAT, incremental numgen and TPROXY to an address: further attributes of the
  form modelled.
* Order comparisons of numbers in the host's order, see the hazard at `Lt`.
* Bitwise with other masks than 0 and 255 per byte, or a xor: arithmetic of
  the kernel.
* `FlushSet` observes no limit: how long its message is, and what netfilter makes
  of one that is too long, depends on libnftnl.
* The flags of a table (`OWNER`, `DORMANT`), the number, priority, type and device of
  a hook, comments, anonymous sets: attributes that are passed on as they are.
* Who frees which libnftnl object: Rust's ownership decides it at compile time,
  except for the early return of `set_comment` (a leak, listed as a hazard).
* `nftnl-sys`: bindings that bindgen generated for 25 versions of libnftnl, and
  the build script that picks one. They have no control flow. They are also nine tenths of
  the lines of the repository, so that the share of all lines that the models
  map is small; of the `nftnl` crate's own code they map about two fifths, the
  rest being tests, type declarations and setters.

## What could be added

1. Pairs within pairs and keys of variable length in `SetKeys`; anonymous sets,
   which vanish with the last rule that names them, in `Store`.
2. A proof of `RulesetSpec`, clause by clause: a finite case analysis over
   many operators.
3. Several batches in flight on one socket: the examples send one at a time.
