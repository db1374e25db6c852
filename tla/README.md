# TLA+ specifications of subtx-generator

subtx-generator produces synthetic Bitcoin traffic: transactions in multicast frames, subtree
announcements, and bare subtree and block objects on TCP lanes. tunnel-sink is the diagnostic
counterpart that receives, identifies and relays such streams. The specifications in this
directory model the concurrent and failure-handling parts of these programs; TLC checks them on
small instances, and TLAPS proves the main results for every value of the constants.

## 1. The system

### Components

| Component | State | Operations | What makes it correct |
|---|---|---|---|
| `sender.Runner` (`internal/sender`) | atomic counters `issued`, `sent`, `errors`, `bytes`; the channel `tokens`; a connection and, over TCP, a `bufio.Writer` per worker | dispatcher loop; worker loop (dial, receive, build, encode, write or buffer, flush, count or release); cancel; return | never more than `Count` frames; exactly `Count` if nothing went wrong; nothing left in a buffer; it stops |
| `seq.Allocator` (`internal/seq`) | atomic `next` and `counter`; `pending` under a mutex | `Next`, `DueRetransmits` | no number lost or used twice; gaps exactly as configured; a delayed gap handed over once |
| `seq.PerFlowAllocator` and stamping in the workers | a map of allocators under a mutex; the field `Runner.pfa` | lookup-or-create, `Next`; lazy construction of `pfa` | each frame of a flow has its own number |
| `announce.Sender` (`internal/announce`) | atomic `phase`, `writeMu`, one connection | re-announce loop, phase goroutine, closer, `sendUpTo` | datagrams never mixed; only active subtrees announced, all of them again and again; it stops |
| `send-subtree-push`, `send-block-push` | connection, `sent`, previous hash and height | build, dial with backoff, write, tick | streams aligned on objects; one chain of headers; `-count` exact; it stops |
| `tunnel-sink` | per connection the sniffed prefix, the class and the relay's edge connection; shared statistics | sniffing, pumps, relay, edge watcher, summary | honest streams classified; no object lost; the relay aligned; log and statistics agree |
| `tx.Builder` (`internal/tx`) | none (pure) | `splitSlack`, `Build`, `BuildEF` | exactly the requested size |
| `rate.Pacer` | a ticker's channel, the tokens left from the last tick | `Wait` | never more than a burst per tick; no flood after a stall |
| `merkle.Root` | none (pure) | one level up, until one hash is left | the root a verifying proxy computes |
| `blockhdr` | none (pure) | nonce search | a header that passes if it can |
| `send-anchor-frame`, `send-block-announce`, `send-subtree-data` | one connection, the round, a pool of subtrees | check flags, dial, then build, write and pause per round | the peer gets a prefix of the planned frames; exit 0 means all of them; ids and sizes match the payloads |
| `subtx-gen` (`cmd/subtx-gen`) | flags, the signal context, the announcer goroutine | check flags, start the announcer, call `Run`, exit | a refused command line sends nothing, though the announcer starts before `Run` looks |
| `subtree.Pool`, `frame` | read-only after construction, or none | pure functions | the computed layout |

### How they interact

`subtx-gen` builds one Runner and, if asked to, one announce.Sender; they share a context and the
read-only Pool. Inside the Runner the dispatcher passes tokens to the workers over a channel;
`issued` is written by both sides, `sent` and `errors` by the workers. Workers share the
PerFlowAllocator. main waits for the Runner only: when `Run` returns the process ends, wherever the
announcer is. The announcer's two goroutines share a connection under `writeMu`; a third one
closes it when the context ends. Push programs are sequential processes that talk to a peer over
a connection that fails and is replaced. In tunnel-sink each connection has its own handler, a
relay has a second goroutine that watches the edge, and main prints the shared statistics when a
signal comes.

### What is hard

* The `Count` promise is kept by counters that the dispatcher and the workers update in separate
  steps, and the token is on the channel before it is counted.
* TCP writes are buffered: success is reported before anything is on the network, an error
  sticks, and the tail is written by a deferred call.
* Lazy initialisation of `Runner.pfa` is not synchronised.
* Several parts only stop if somebody else unblocks them: a full channel, a mutex held across a
  write, a peer that does not read.
* A write that fails half way is retried on a new connection with a new object.
* The announcer is started before `Run` has looked at its configuration, and nobody waits for it.
* A class is inferred from a prefix of any length, under a deadline that must not survive.

`PROJECT.json` lists each of these hazards at its line, with the properties that watch it.

## 2. Modules

| Module | Models | Used by |
|---|---|---|
| `CountedRun` | the contract of `Runner.Run`, without dispatcher or workers | `Runner` (refinement) |
| `Runner` | `Run`, dispatcher, workers, counters, buffers, failures, cancellation | `MCRunner`, `RunnerProofs` |
| `Allocator` | `Allocator.Next` one atomic operation at a time, `DueRetransmits` | `FlowStamp`, `AllocatorProofs` |
| `FlowStamp` | composes Allocator with `PerFlowAllocator.Next` and the stamping code of the workers; refines Allocator | `MCFlowStamp`, `FlowStampProofs` |
| `Announce` | `Sender.Run`, its goroutines, `sendUpTo`, the peer and the listener's expiry | `Generator` |
| `Generator` | the subtx-gen process: composes Announce with CountedRun, main, exits and signals | `MCGenerator`, `GeneratorProofs` |
| `PushLoop` | the loop of `send-subtree-push` | `BlockPush` |
| `BlockPush` | composes PushLoop with the chain of headers of `send-block-push` | `MCBlockPush`, `PushProofs` |
| `Merkle` | `merkle.Root`, and the perfect tree it stands for | `FrameList` |
| `BlockHdr` | `blockhdr.Grind` | `FrameList` |
| `FrameList` | `send-anchor-frame`, `send-block-announce`, `send-subtree-data` | `MCFrameList`, `FrameListProofs` |
| `Sink` | one tunnel-sink connection: sniffing, pump, relay, watcher, statistics, exit | `MCSink`, `SinkProofs` |
| `TxSize` | the sizes that `splitSlack`, `Build` and `BuildEF` produce | `FrameList` |
| `Pacer` | `smoothPacer` and `burstPacer` over a ticker | `PacerProofs` |
| `*Proofs` | theorems and their proofs | |

**Granularity.** An action is one step that other goroutines can observe: one atomic operation,
one channel operation, one critical section, one socket call. The position between two steps is a
location variable (`disp`, `wpc`, `apc`, `spc`, `pc`, `hpc`). What a goroutine does between two
such steps on its own data is part of the step.

**Runner.** `disp` follows lines 206-238 of sender.go: context check, Count gate, pacer, send on
the channel or abort, `Add(1)`. `wpc` follows lines 255-474: dial, receive, build, encode, write
or buffer, flush, count or release. `issued` is a word that wraps, since a release is
`Add(^uint64(0))` and can come before the dispatcher's `Add(1)`. `tcp` says whether frames go out as datagrams or through a `bufio.Writer`; both are
explored. `buf` and `werr` are the contents
and the sticky error of a worker's `bufio.Writer`; `wire` is a ghost that counts what the kernel
has accepted.

**Allocator.** `next` = 0 stands for a cell that does not exist yet. A gap is reserved one number
at a time by separate atomic adds (seq.go lines 73-77), so other callers' numbers can fall between
them; `gap` is the caller's own list, `pending` the queue under the mutex, `due` the entries of it
whose delay has passed. `handed`, `skipped` and `resent` are ghosts.

**FlowStamp.** A cell is a pair of an allocator instance and a flow. The instance is `Shared` when
New built `pfa` (gap injection), and the worker that built it otherwise. `EagerSpec` is the program
as it is, in which time passes for the queued gaps and nobody asks for them. `PolledSpec` adds an
owner that may call `DueRetransmits` at any moment, the use that the comments of seq.go describe; it
states safety only, and nothing obliges that owner to call.
`FlowsAreAllocators` maps a flow's cell, created or not, to one independent Allocator.

**Announce.** `limit` is what a sweep was called with, `pos` how far it is. `fresh` is what the
listener currently knows; `Expire` removes entries. The peer reads, stalls or resets at any time.
`phaseSize` is the flag, 0 when nothing is phased. No check bounds it, so `NextPhase` adds in an int32
that wraps: the sum may be negative, which the clamp lets through and `sendUpTo` ignores. That no
sweep leaves the pool holds for every size; `OnlyActiveAnnounced` and `RampCompletes` are about sizes
whose sum with the pool fits (`RampFits`), as the active set shrinks when it does not.

**Generator.** main is a location; flag values are reduced to what main decides on (`print`, `bad`,
`small`, `badMode`, `announce`). Most refusals come before `NotifyContext`; those of `-mode` and of
the flags of direct-multicast (`RefuseMode`) come after it, when a signal no longer kills. `Run` is taken as CountedRun, which Runner is proved to implement, so the
composition is with the contract and not with workers. `Exit` ends every goroutine and closes the
announcer's connection. A signal kills the process before `NotifyContext` and cancels afterwards.

**FrameList.** Three programs of one shape; `opt` says which, with its flags. A frame is its kind,
its round, the id in its header and what its payload amounts to. `stream` is what reached the
connection, with a torn frame where a TCP write failed or the process was killed. Hashes are
symbolic pairs (`Merkle`), the nonces that pass a header's target a set chosen with the header
(`BlockHdr`), sizes are those of `TxSize`. `Root` climbs level by level as the code does; its
reference, `PerfectRoot`, is node 0 of the perfect tree over the padded leaves at the first height
that covers them all. `Planned(k)` is the kind and round of frame number k.

**Pacer.** Time is counted in ticks. A window may be opened at any moment, to say what the
dispatcher can be given from then on.

**PushLoop, BlockPush.** `stream` is what the current connection has been given: whole objects and
possibly a part of one. `site` remembers which of the two calls of `dial` is under way. A block is
its height, its hash and the hash before it; every build has a new hash, since the subtree roots
that its header commits to are drawn afresh. `BlockPush` refines no line of the loop: it adds the assignments the block program makes.

**Sink.** Bytes are not modelled. What the sniffer knows is the length of the buffer in bands
(below 4 bytes, below the block prefix, below `sniffDecideAt`, below `sniffCap`, beyond), the
classes still viable and the objects each has walked. The class the client really sends (`truth`)
stays viable; what the other classes make of the same bytes is arbitrary, subject to what no class
can do before it has enough bytes. So the checks hold for every content that passes the
plausibility tests of its own class. A stream cut inside an object ends with an error, except that a
frame cut just behind its header, or before its V3 extension, may pass for a clean end
(`EndErrors`). A relay write may fail with a part of its bytes sent.

**TxSize.** `splitSlack` chooses two script lengths whose bytes, with their variable-length
prefixes, fill the rest of a transaction. The scan of the code is the operator `Fits` and a
choice; sizes are natural numbers without bound, as the theorems need.

## 3. Runs

| Run | Instance | What it shows |
|---|---|---|
| `runner` | 2 workers, datagrams or TCP, paced, Count 5, 2 failures, flush at 2 frames; 221,141 states | the slot ledger balances at every interleaving (`SlotsConserved`); `Count` is never exceeded; a run without failures is exact; no frame reaches the kernel without a slot; at the return only what failed writers hold is missing from the wire; `Run` implements `CountedRun`; a cancelled run returns; a counted run ends while one connection works |
| `runner_exact` | 2 workers, Count 2, 1 failure | **violation** of `StillExact`: a slot released after the channel was closed is not reissued |
| `runner_idle` | 2 TCP workers, paced, Count 4 | **violation** of `NeverHeldIdle`: a frame stays buffered with nothing queued |
| `runner_stall` | 2 TCP workers, Count 2, a peer that need not read | **violation** of `CancelReturns`: a worker blocked in Flush never sees the context |
| `stamp` | 2 workers, 2 flows, 4 frames, gaps of 2 every 2 frames, delayed, `Config.Start` 0; 146,439 states | numbers are neither lost nor used twice, gaps come as configured, each skipped number is in one place only, whether or not anybody asks for it, and every flow is an independent Allocator |
| `stamp_lazy` | 2 workers, 2 flows, no gaps | **violation** of `UniquePerFlow`: unsynchronised `pfa` numbers one flow twice |
| `stamp_resend` | 2 workers, one flow, delayed gaps, nobody polls | **violation** of `SkippedIsResent`: a due gap is never sent |
| `generator` | main, `Run`, pool of 2, no phases or phases of 1 or 7, one group, one frame; 126,456 states | sweeps never mix, only active pairs are announced, entries are refreshed, the ramp completes, the announcer stops with the context, a refused command line sends nothing |
| `push` | 3 blocks, counted or not | connections stay aligned, one chain, `-count` exact, the loop ends when the peer is there |
| `push_overrun` | the same loop, any peer | **violation** of `PushStops`: the reconnect path never looks at the context |
| `sink` | 2 objects, every role and kind of stream; 591,386 states | honest streams are classified on the best evidence, nothing in the prefix is lost, the relay stays aligned, statistics agree, an edge that closes ends the handler |
| `frames` | 3 programs, up to 2 rounds, up to 5 nodes, sizes on both sides of each step; 246,499 states | the peer gets a prefix of the plan and exit 0 means all of it; roots are those of the perfect tree; sizes are what the flags say; headers pass if they can |

`generator` and `frames` are the passing runs without deadlock checking: a process that has exited
takes no more steps. The other models end in an explicit stuttering step.

### Bounds

* `Word` = 16 in Runner is far above `Count`, as 2^64 is above any count, and small enough for a
  wrapped counter to show. The theorems hold for every width.
* `MaxErrors` limits transient failures, and `errors` saturates there. Two are enough for a failure
  in each worker, or two in one. `FlushAt` = 2 lets a frame be buffered and another one flush it.
* `Count` 5 with two workers and a channel of four: the channel fills while both workers hold slots
  and the dispatcher is at its gate.
* `MaxFrames` = 4 over two flows with a gap every two frames: both gaps in one flow, with a worker
  between the reservations of the other's gap, or one gap in each. `Start` = 0 is the value that
  `seq.New` corrects to 1; the sender passes 1 itself, which gives the same numbers.
* Pool 2 with phases of 1 makes the two goroutines sweep different lengths, and the ticks after the
  second clamped ones. `Half` = 8 is the width of the int32, so that phases of 7 fill the pool on the
  first tick and wrap on the second, as 2147483647 would. One frame lets `Run` end before, during
  and after a sweep.
* Two rounds in `frames` reach the reuse of a pooled subtree and a failure between an announce and
  its coinbase. Five nodes give two odd levels in one tree, three a single one; every set of zero
  hashes among them occurs. Sizes lie on both sides of 253, of 65536, of the datagram limit and of
  a whole number of nodes. With three nonces every search that has to wrap occurs.
* Three objects in the push runs allow a failure before the first, between two, and before the
  last one.
* Two objects in `sink` allow one read while sniffing and one by the pump, and ties between
  classes. The five bands of lengths are all that the decision distinguishes.

### Fairness

* Go runs every goroutine that can run: weak fairness of each goroutine's own steps.
* Goroutines blocked on a channel are served in the order in which they came: strong fairness of
  `Receive`. A `sync.Mutex` is handed to a starving waiter: strong fairness of `Lock`. A select
  picks among its ready cases at random: strong fairness of the cases that must win in the end.
* Goroutine by goroutine, `GenFairness` says this of main and of the announcer's three; nothing
  obliges `Run` to make progress, a signal to come, or a stalled proxy to read.
* `PolledSpec` has no fairness: the program has no owner that calls `DueRetransmits`, which is what
  `stamp_resend` shows.
* Tickers tick and deadlines pass: weak fairness of the steps that wait for them.
* A peer owes nothing. `StallSpec`, `AnyPeerSpec`, `Generator` and `Sink` say nothing of what a peer
  reads or sends. `Runner!Spec` and `PushSpec`/`BlockSpec` add, as a named conjunct
  (`NetworkFairness`, `PeerFairness`), that a flush ends, or that of endlessly many attempts one
  succeeds. The violations show what happens without it.
* Cancellation, expiry, failures and the arrival of objects are never fair.
* `EdgeEndEnds` reads "the edge ended" as a socket closed in both directions: a write to it fails
  in the end. One that is only half closed, and does not read either, can hold the handler.

## 4. Findings

Each violation run is a disagreement between the code and something the repository says; the
quotations are in `PROJECT.json`.

1. *Released slots are not always reissued* (`runner_exact`; sender.go:438 against the comment at
   436-437). The dispatcher leaves as soon as `issued` has reached `Count`, so a failure afterwards
   leaves the run short, though workers are still there.
2. *A frame can be held with nothing queued* (`runner_idle`; sender.go:458 against 278-279).
3. *A stalled TCP peer outlives the context* (`runner_stall`; sender.go:459 against 187).
4. *`pfa` is built by racing workers* (`stamp_lazy`; sender.go:414-422 against
   docs/architecture.md:85).
5. *Push programs can overrun `-duration`* (`push_overrun`; send-subtree-push/main.go:97-108 against
   the flag's text at line 49 and the comment at 68-70), without any delay between the attempts.
6. *Delayed gaps are never sent* (`stamp_resend`; sender.go:415 and seq.go:92 against
   docs/configuration.md:76-77 and docs/usage.md:51-52). Nothing calls `DueRetransmits` and
   `PerFlowAllocator` does not offer it, so `pending` grows for the life of a run.

Also noted, without a run:

* `-seq-start` (docs/configuration.md:31, "First sequence number") has no effect: a PerFlowAllocator
  is always started at 1 (sender.go:167, 420), and the result of `alloc.Next` is dropped at 424.
* The numbers of one gap are "consecutive" (docs/configuration.md:74) only while no other worker
  takes a number of the flow between the reservations (seq.go:75-77).
* `-pps` above 1000 is truncated to a multiple of 1000 (pacer.go:66): 1999 gives 1000 a second.
* A failure that repeats for every frame, such as a payload too long for a datagram, makes a
  counted run reissue its slots for ever (sender.go:469).
* `-announce-phase-size` is not bounded, and the phases are added in an int32 (announce/sender.go:98).
  With 2147483647 the second tick makes `phase` negative; the announcer then refreshes nothing until
  later ticks have brought it back above zero, although the whole pool had been announced.
* tunnel-sink reports a frame cut just behind its header as a clean close: `io.ReadFull` of the payload
  returns a plain EOF (tunnel-sink main.go:312, 324, 384).

## 5. Proofs

All theorems hold for every value of the constants that satisfies the named assumptions
(`RunnerAssumption`: finitely many workers, `Count` below the word; `AllocatorAssumption` and the
like), which TLC evaluates in the runs. Every safety property of the passing runs is a theorem, and
the inductive invariants named below were checked by TLC on the instance of the run first.

**RunnerProofs** (any number of workers, any `Count`, any word).

* `TypeCorrect`: `SafetySpec => []TypeOK`, one step per action.
* `LedgerBalances`: `SlotsConserved` is inductive together with the types. The bound
  `sent <= Count` is not: a state with free slots in the channel but the wrong `issued` would
  violate it later. The ledger states what `issued` is: the slots counted, queued and in workers'
  hands, or one less (modulo the word) while the dispatcher is between send and `Add`. The lemmas
  `SlotKept`, `SlotTaken` and `SlotGiven` say how one worker's move changes the number of slots in
  hands, by the cardinality theorems of the library.
* `CountNeverExceeded` follows from the ledger.
* `CleanRunExact`: strengthened by `CleanInv`. While no error was counted and nothing was
  cancelled, no worker is on a release path, none leaves before the channel is closed and empty, a
  closed channel means that `Count` slots exist, and `returned` comes last.
* `RunImplementsContract`: initial states map to initial states and each step maps to `Emit`,
  `Excuse`, `Finish` or a stutter of `CountedRun`, with excuse = cancelled, an error, or no worker
  connected.
* `WireNeverExceedsSlots`, `TailsAreFlushed`: neither is inductive, since a flush passes frames that
  were counted long before. `WireInv` bounds the frames counted from both sides: the wire and the
  frames buffered by sound writers are at most `sent` and the frames just written, and `sent` is at
  most the wire and all the frames in buffers, those of failed writers included. At the return the
  sound buffers are empty, so that what `Run` reports and the wire lacks is held by writers whose
  flush failed. The frames in buffers are a set of pairs (worker, frame number), which the library's
  cardinality theorems can count (`FramesMove`).

**AllocatorProofs** (any callers, cells, start and gaps).

* `NumbersUsedOnce`, `NumbersAccounted`: `NoNumberTwice` and `NoNumberLost` are inductive only
  together (`NumbersInv`): a number that is taken or reserved is `next` itself, which is above all
  that is accounted for.
* `AllocTypeCorrect`: types, and 0 is never handed out.
* `SkippedNumbersOnce`: `SkippedOnce` needs `GapsApart`, the gaps of different callers, of the
  queue and of the due entries are disjoint, which holds because numbers are not used twice.
* `GapsKeepCadence`: `CadenceInv` keeps the books of a cell. `next` is the first number plus the
  calls begun and the numbers skipped; the numbers skipped and those that callers still owe their
  gaps make `GapSize` for every `GapEvery` calls counted.

**FlowStampProofs** (any workers and flows).

* `FlowsIndependent`: the refinement `PolledSpec => FlowsAreAllocators`. The lookup holds `p.mu`
  and the call of `Next` after it does not; `StampInv` says that a flow that was looked up exists and
  stays, so that creating a cell is a stutter of the Allocator that the flow is.
* `FlowNumbersUsedOnce`, `FlowNumbersAccounted`, `FlowTypeCorrect`, `FlowSkippedOnce`,
  `FlowGapCadence`: the theorems of AllocatorProofs, instantiated through the refinement
  (`Flow == INSTANCE AllocatorProofs WITH ...`) and read back. `UnpolledNumbersUsedOnce` is the
  first of them for the program as it is, without anyone who polls. All of them assume what the run
  `stamp` does, that `New` built `pfa`; `stamp_lazy` shows why.

**GeneratorProofs** (any pool, phases, groups and frame count). The proofs are about announce.Sender
inside the process, where exits can come between any two of its steps.

* `AnnounceTypeCorrect`: for every phase size, `phase` is an int32 that is never above the pool
  (`Int32Bounded`, `NextPhaseBounded`), and no sweep has a limit outside the pool.
* `NoInterleaving`, `OnlyActive`: `AnnounceInv` says that a sweep that writes holds `writeMu`, and that
  a limit, however long ago it was read, is at most the active pairs while the phases fit an int32,
  for then `phase` only grows once the connection is made. The product of pairs and phases makes
  `PairsGrow` and `NextPhaseGrows` lemmas of their own.
* `RefusalIsSilent`: `MainInv`, no announcer before main starts one and no frame before `Run` is called.
* `AnnounceAlone`: the same for `Sender.Run` in a process that does not end.

**PushProofs** (any count, start height and failures).

* `SubtreesAligned`, `BlocksAligned`: `LoopInv`, a connection that main still has carries whole
  objects only.
* `BlocksChained`, `BlocksCounted`: `BlockInv`, `prevHash` is the hash of the last block written
  whole, and the block in hand was built on it at the next height, whatever was lost in between.

**SinkProofs** (any number of objects).

* `HonestStreamsClassified`, `LaneHasBestEvidence`, `DeadlineNeverEscapes`: `SniffInv`; the class the
  stream has is never ruled out, the lane is decided on once (`LaneDecidedOnce`), and the deadline is
  armed only while sniffing. `ClassifyWins` is the lemma about the decision itself.
* `EveryObjectLogged`, `RelayIsFaithful`, `SummaryIsRight`: `PumpInv`; where an object is between the
  edge, the log and the statistics follows from where the handler is.

**FrameListProofs** (any flags, any size of the nonce space).

* `SplitExact`: every slack up to the five-byte ceiling is split exactly, across the places at 253
  and 65536 where a length prefix grows and one script alone cannot reach the total.
* `RawExact`, `EFExact`: `Build` and `BuildEF` emit exactly the bytes asked for, so their internal
  sizing error cannot occur. `AcceptedSizeIsBuilt`: a size that passes the check at the start of
  `Run` is built for every frame and every payload format. `frames` runs TxSize at the sizes around
  253 and 65536; those around 2^32 are beyond TLC's integers, and the theorems cover all of them.
* `GrindFinds`: every nonce is tried by some round, wherever the search starts.
* `RootIsPerfect`: the fold of `merkle.Root` is the root of the perfect tree, for any number of
  leaves and any zero hashes among them. The provers have no induction over data; a smallest
  counterexample (`LeastNatural`, from the well-foundedness of the naturals) does its work. It
  first shows that the recursive functions `Levels`, `Nodes` and `Pow2` satisfy their equations
  (`LevelsDefined`, `NodesDefined`, `Pow2Defined`), then that at every height the level of the code
  is that of the perfect tree without its padding, with just enough hashes to cover the leaves
  (`LevelsAreNodes`); the first level of one hash is therefore the first height that covers them all.
* `StreamsAsPlanned`: `StreamAsPlanned` says nothing of a round under way. `PlanInv` adds that
  `sent` and the frames still to be written make up the rounds so far, that those are the next of
  the plan, and that a coinbase comes right after the announce that names it.
* `HeadersAlwaysPass`, `RootsAlwaysVerify`, `SizesAlwaysExact`: `FrameInv`, each frame built, pooled or
  written is right by its kind, from the operator theorems above. `SizesAlwaysExact` assumes that
  `-payload-size` of `send-anchor-frame` is at most the 4 GiB that `splitSlack` can represent: beyond
  it, the builder does refuse what main has accepted.

**PacerProofs** (every rate from 1 on).

* `PacerKeepsRate`: `Spec => [](NoFlood /\ WithinRate)`. Neither bound is inductive: both count
  tokens that were given, and what is still owed (`remaining`, and a burst for a tick in the
  channel) decides the next step. `Balance` adds it to both, and `BalanceInductive` proves it. Ticks
  that find the channel full are dropped, so arrears never exceed two bursts. Pacer has no run: its
  counters are unbounded, and the theorem says all of it.

**Only model-checked.** Liveness under fairness, in all modules (`CancelReturns`, `CountedRunEnds`,
`AnnounceStops`, `RefreshKeepsUp`, `RampCompletes`, `CountedPushEnds`, `PushStops`, `EdgeEndEnds`): it needs ENABLED, which the provers do not handle.

## 6. Not modelled

* Contents: bytes of transactions, headers, hashes, proof of work, names of interfaces, and the
  layout of lines and of the summary. The byte counter and the periodic log of the Runner only
  report.
* `rate.Pacer` inside Runner: only that `Wait` comes back with true; its false branch is dead, as no
  pacer closes its channel.
* Time: ticks, backoffs and deadlines happen in some order, without durations.
* `bufio.Writer`: frames are taken to be smaller than its 128 KiB buffer, so that `Write` does not
  write through. A flush either passes all frames or breaks after some of them.
* The corrupt-rate option alters payload bytes only.
* `frame` (the layout of one header, a pure function whose failure is `EncodeFails`) and
  `subtree.Pool` (hashes of a seed, read-only after construction).
* `ParseGroupIDs`, `parseUint16` and the other parsing of flags: their outcome is a flag value that
  is accepted or refused.
* An announcer over an empty pool or without groups, which sends nothing; random sources that fail.
* The third branch of stamping, which drops the number it takes (sender.go:424).
* In Sink, connections are independent apart from the statistics, so there is one. A read that
  returns data and an error at once does not occur on TCP.

## 7. Plan

Done, in this order: Runner with its contract; Allocator and FlowStamp; Announce; PushLoop and
BlockPush; TxSize; Sink; the theorems on Runner, Allocator and TxSize; Generator; Merkle, BlockHdr
and FrameList; Pacer and its theorem; FlowStamp as a refinement of Allocator; then the theorems on
every other safety property of the runs, FlowsAreAllocators included.

Next:

1. Action properties that follow from the invariants and say what a step may never do: in Runner
   that `sent` and the wire never go back and nothing is counted after the return; in Sink that the
   log only grows.
2. Generator composed with Runner's refinement: what is proved of CountedRun in the process holds
   of the workers.
3. The safety halves of the liveness properties (what must still be enabled when something is owed),
   stated as invariants and proved.
