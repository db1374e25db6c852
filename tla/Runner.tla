------------------------------- MODULE Runner -------------------------------
(***************************************************************************)
(* sender.Runner.Run (src/internal/sender/sender.go): a dispatcher         *)
(* goroutine turns pacer ticks into tokens on a bounded channel, worker    *)
(* goroutines turn every token into one frame on their own connection, and *)
(* three shared atomic counters keep the Count promise.                    *)
(*                                                                         *)
(* Each action is one indivisible step of one goroutine: one atomic        *)
(* operation, one channel operation or one socket call, so all the windows *)
(* between them are explored.  In particular the token is on the channel   *)
(* before the dispatcher counts it (lines 232-233), and a worker counts a  *)
(* failure before it releases the slot (lines 434-438, 465-469).           *)
(*                                                                         *)
(* What a frame contains is left to other modules; a frame here is a slot  *)
(* that is taken, buffered, written and counted.  ModeDirectMulticast and  *)
(* ModeUnicast over UDP take the same path (tcp = FALSE).                  *)
(***************************************************************************)
EXTENDS Integers, FiniteSets

CONSTANTS
    Workers,    \* worker goroutines, Config.Workers of them
    Count,      \* Config.Count; 0 means unlimited
    Word,       \* modulus of the atomic.Uint64 counters (2^64 in the program)
    Modes,      \* the values of Config.TCP that are explored
    Paced,      \* Config.PPS > 0
    BuildMayFail, \* the payload builder can refuse Config.PayloadSize
    FlushAt,    \* frames that make Buffered() reach tcpFlushBytes
    MaxErrors   \* bound: transient failures per run; errors saturates here

ASSUME RunnerAssumption ==
    /\ IsFiniteSet(Workers) /\ Workers # {}
    /\ Word \in Nat \ {0}
    /\ Count \in 0 .. Word - 1
    /\ Modes \subseteq BOOLEAN /\ Paced \in BOOLEAN /\ BuildMayFail \in BOOLEAN
    /\ FlushAt \in Nat \ {0}
    /\ MaxErrors \in Nat

VARIABLES
    tcp,        \* Config.TCP: frames go through a bufio.Writer; fixed for a run
    cancelled,  \* runCtx is done: SIGINT, or Duration elapsed
    disp,       \* where the dispatcher is; "closed" once tokens is closed
    issued,     \* Runner.issued
    tokens,     \* len(tokens)
    wpc,        \* where each worker is
    sent,       \* Runner.sent
    errors,     \* Runner.errors
    buf,        \* whole frames in each worker's bufio.Writer
    werr,       \* the sticky error of each worker's bufio.Writer
    wire,       \* frames the kernel accepted (ghost)
    returned    \* Run has returned

dispVars == <<disp, issued, tokens>>
ioVars   == <<buf, werr, wire>>
vars     == <<tcp, cancelled, disp, issued, tokens, wpc, sent, errors, buf,
              werr, wire, returned>>

Capacity == 2 * Cardinality(Workers)

\* Worker locations at which a token has been taken and its slot is neither
\* counted in sent nor given back.
Holding  == {"hold", "flush", "wrote", "release", "releaseQuit",
             "closingHeld", "goneHeld"}
Terminal == {"failed", "gone", "goneHeld"}
Slots    == {w \in Workers : wpc[w] \in Holding}

-----------------------------------------------------------------------------
(* Unsigned atomic arithmetic: Add(1) and Add(^uint64(0)).                 *)

Inc(x) == IF x = Word - 1 THEN 0 ELSE x + 1

DecSigned(x) == x - 1
Dec(x) == IF x = 0 THEN Word - 1 ELSE x - 1

CountError == errors' = IF errors < MaxErrors THEN errors + 1 ELSE errors

Goto(w, pc) == wpc' = [wpc EXCEPT ![w] = pc]

-----------------------------------------------------------------------------
Init ==
    /\ tcp \in Modes
    /\ cancelled = FALSE
    /\ disp = "ctx"
    /\ issued = 0
    /\ tokens = 0
    /\ wpc = [w \in Workers |-> "dial"]
    /\ sent = 0
    /\ errors = 0
    /\ buf = [w \in Workers |-> 0]
    /\ werr = [w \in Workers |-> FALSE]
    /\ wire = 0
    /\ returned = FALSE

\* The caller cancels, or the Duration deadline passes.
Cancel ==
    /\ ~cancelled /\ ~returned
    /\ cancelled' = TRUE
    /\ UNCHANGED <<tcp, dispVars, wpc, sent, errors, ioVars, returned>>

-----------------------------------------------------------------------------
(* The dispatcher goroutine.                                               *)

DispStep(from, to) ==
    /\ disp = from
    /\ disp' = to
    /\ UNCHANGED <<tcp, cancelled, wpc, sent, errors, ioVars, returned>>

CtxCheck ==
    /\ DispStep("ctx", IF cancelled THEN "closed" ELSE "gate")
    /\ UNCHANGED <<issued, tokens>>

CountGateOnSent ==
    /\ DispStep("gate", IF Count > 0 /\ sent >= Count THEN "closed" ELSE "wait")
    /\ UNCHANGED <<issued, tokens>>
CountGateLate ==
    /\ DispStep("gate", IF Count > 0 /\ issued > Count THEN "closed" ELSE "wait")
    /\ UNCHANGED <<issued, tokens>>
CountGate ==
    /\ DispStep("gate", IF Count > 0 /\ issued >= Count THEN "closed" ELSE "wait")
    /\ UNCHANGED <<issued, tokens>>

\* pacer.Wait: no pacer closes its tick channel, so it only ever reports true.
PacerWait ==
    /\ DispStep("wait", "offer")
    /\ UNCHANGED <<issued, tokens>>

Offer ==
    /\ tokens < Capacity
    /\ DispStep("offer", "add")
    /\ tokens' = tokens + 1
    /\ UNCHANGED issued

OfferForever ==
    /\ FALSE
    /\ DispStep("offer", "closed")
    /\ UNCHANGED <<issued, tokens>>
OfferAbort ==
    /\ cancelled
    /\ DispStep("offer", "closed")
    /\ UNCHANGED <<issued, tokens>>

AddIssued ==
    /\ DispStep("add", "ctx")
    /\ issued' = Inc(issued)
    /\ UNCHANGED tokens

Dispatcher ==
    CtxCheck \/ CountGate \/ PacerWait \/ Offer \/ OfferAbort \/ AddIssued

-----------------------------------------------------------------------------
(* A worker goroutine: connect, then one frame per token.                  *)

WorkerStep(w, from, to) ==
    /\ wpc[w] = from
    /\ Goto(w, to)
    /\ UNCHANGED <<tcp, cancelled, disp, returned>>

\* net.Dial or openMulticastEgress, and the PRNG seed.
Dial(w) ==
    /\ WorkerStep(w, "dial", "recv")
    /\ UNCHANGED <<issued, tokens, sent, errors, ioVars>>

DialFails(w) ==
    /\ WorkerStep(w, "dial", "failed")
    /\ UNCHANGED <<issued, tokens, sent, errors, ioVars>>

\* The receive select: with several cases ready, any of them is taken.
Receive(w) ==
    /\ tokens > 0
    /\ WorkerStep(w, "recv", "hold")
    /\ tokens' = tokens - 1
    /\ UNCHANGED <<issued, sent, errors, ioVars>>

StopOnCtx(w) ==
    /\ cancelled
    /\ WorkerStep(w, "recv", "closing")
    /\ UNCHANGED <<issued, tokens, sent, errors, ioVars>>

StopOnCloseEarly(w) ==
    /\ disp = "closed"
    /\ WorkerStep(w, "recv", "closing")
    /\ UNCHANGED <<issued, tokens, sent, errors, ioVars>>
StopOnClose(w) ==
    /\ disp = "closed" /\ tokens = 0
    /\ WorkerStep(w, "recv", "closing")
    /\ UNCHANGED <<issued, tokens, sent, errors, ioVars>>

\* Build or BuildEF refuses the payload: the worker gives up after releasing.
\* Run has checked the minimum size, so only a size beyond the largest script
\* length is refused.
BuildFails(w) ==
    /\ BuildMayFail /\ errors < MaxErrors
    /\ WorkerStep(w, "hold", "releaseQuit")
    /\ CountError
    /\ UNCHANGED <<issued, tokens, sent, ioVars>>

\* objfmt.TxID or frame.Encode refuses the frame.
EncodeFailsKeepingSlot(w) ==
    /\ errors < MaxErrors
    /\ WorkerStep(w, "hold", "recv")
    /\ CountError
    /\ UNCHANGED <<issued, tokens, sent, ioVars>>
EncodeFails(w) ==
    /\ errors < MaxErrors
    /\ WorkerStep(w, "hold", "release")
    /\ CountError
    /\ UNCHANGED <<issued, tokens, sent, ioVars>>

\* uconn.Write or WriteToUDP.
WriteDatagram(w) ==
    /\ ~tcp
    /\ WorkerStep(w, "hold", "wrote")
    /\ wire' = wire + 1
    /\ UNCHANGED <<issued, tokens, sent, errors, buf, werr>>

\* The error branch after a write: net.ErrClosed ends the worker with its slot
\* kept, anything else releases the slot.
WriteFails(w) ==
    /\ ~tcp /\ errors < MaxErrors
    /\ \E to \in {"release", "closingHeld"} : WorkerStep(w, "hold", to)
    /\ CountError
    /\ UNCHANGED <<issued, tokens, sent, ioVars>>

\* tcpW.Write, then the two flush triggers.
NeedsFlush(w) == buf[w] + 1 >= FlushAt \/ (Paced /\ tokens = 0)

BufferFrame(w) ==
    /\ tcp /\ ~werr[w]
    /\ WorkerStep(w, "hold", IF NeedsFlush(w) THEN "flush" ELSE "wrote")
    /\ buf' = [buf EXCEPT ![w] = @ + 1]
    /\ UNCHANGED <<issued, tokens, sent, errors, werr, wire>>

\* A bufio.Writer that failed once fails every later Write.
BufferRefusesAgain(w) ==
    /\ tcp /\ werr[w]
    /\ WorkerStep(w, "hold", "hold")
    /\ CountError
    /\ UNCHANGED <<issued, tokens, sent, ioVars>>
BufferRefuses(w) ==
    /\ tcp /\ werr[w]
    /\ WorkerStep(w, "hold", "release")
    /\ CountError
    /\ UNCHANGED <<issued, tokens, sent, ioVars>>

\* bufio.Writer.Flush: everything buffered reaches the kernel, or the writer
\* fails with its last frame, at least, incomplete.
FlushAll(w) ==
    /\ wire' = wire + buf[w]
    /\ buf' = [buf EXCEPT ![w] = 0]
    /\ UNCHANGED werr

FlushBreaks(w) ==
    /\ \E k \in 0 .. buf[w] - 1 :
          /\ wire' = wire + k
          /\ buf' = [buf EXCEPT ![w] = @ - k]
    /\ werr' = [werr EXCEPT ![w] = TRUE]

FlushTwice(w) ==
    /\ WorkerStep(w, "flush", "wrote")
    /\ wire' = wire + buf[w]
    /\ UNCHANGED <<issued, tokens, sent, errors, buf, werr>>
Flush(w) ==
    /\ WorkerStep(w, "flush", "wrote")
    /\ FlushAll(w)
    /\ UNCHANGED <<issued, tokens, sent, errors>>

FlushFails(w) ==
    /\ errors < MaxErrors
    /\ \E to \in {"release", "closingHeld"} : WorkerStep(w, "flush", to)
    /\ FlushBreaks(w)
    /\ CountError
    /\ UNCHANGED <<issued, tokens, sent>>

Release(w) ==
    /\ WorkerStep(w, "release", "recv")
    /\ issued' = Dec(issued)
    /\ UNCHANGED <<tokens, sent, errors, ioVars>>

ReleaseQuit(w) ==
    /\ WorkerStep(w, "releaseQuit", "closing")
    /\ issued' = Dec(issued)
    /\ UNCHANGED <<tokens, sent, errors, ioVars>>

CountSent(w) ==
    /\ WorkerStep(w, "wrote", "recv")
    /\ sent' = Inc(sent)
    /\ UNCHANGED <<issued, tokens, errors, ioVars>>

\* The deferred Flush and Close.  With nothing buffered, or after an earlier
\* failure, Flush does not touch the socket.
Leave(w) ==
    \/ WorkerStep(w, "closing", "gone")
    \/ WorkerStep(w, "closingHeld", "goneHeld")

CloseIdle(w) ==
    /\ buf[w] = 0 \/ werr[w]
    /\ Leave(w)
    /\ UNCHANGED <<issued, tokens, sent, errors, ioVars>>

\* The result of the deferred Flush is dropped.
CloseWithoutFlush(w) ==
    /\ buf[w] > 0 /\ ~werr[w]
    /\ Leave(w)
    /\ UNCHANGED <<issued, tokens, sent, errors, ioVars>>
CloseFlushing(w) ==
    /\ buf[w] > 0 /\ ~werr[w]
    /\ Leave(w)
    /\ FlushAll(w) \/ FlushBreaks(w)
    /\ UNCHANGED <<issued, tokens, sent, errors>>

\* wg.Wait has seen the dispatcher and every worker off.
Return ==
    /\ ~returned /\ disp = "closed"
    /\ \A w \in Workers : wpc[w] \in Terminal
    /\ returned' = TRUE
    /\ UNCHANGED <<tcp, cancelled, dispVars, wpc, sent, errors, ioVars>>

-----------------------------------------------------------------------------
\* Steps of a worker that end by themselves: the kernel gives up on a dial, and
\* a datagram is accepted or refused at once.
Local(w) ==
    \/ Dial(w) \/ DialFails(w)
    \/ StopOnCtx(w) \/ StopOnClose(w)
    \/ WriteDatagram(w) \/ WriteFails(w)
    \/ BufferFrame(w) \/ BufferRefuses(w)
    \/ Release(w) \/ ReleaseQuit(w) \/ CountSent(w)
    \/ CloseIdle(w)

\* Steps of a worker that wait for the peer to read: no deadline is set on the
\* connection, and closing the context does not interrupt them.
Socket(w) == Flush(w) \/ FlushFails(w) \/ CloseFlushing(w)

\* A frame that cannot be made; nothing obliges this to happen.
Refuse(w) == BuildFails(w) \/ EncodeFails(w)

Worker(w) == Receive(w) \/ Refuse(w) \/ Local(w) \/ Socket(w)

Done == returned /\ UNCHANGED vars

Next == Cancel \/ Dispatcher \/ (\E w \in Workers : Worker(w)) \/ Return \/ Done

SafetySpec == Init /\ [][Next]_vars

(***************************************************************************)
(* Fairness.  The Go scheduler runs every goroutine that can run, and a    *)
(* pacer keeps ticking: weak fairness of the dispatcher and of each worker *)
(* step that waits for nobody.  Receivers blocked on a channel are served  *)
(* in FIFO order, so a waiting worker is not starved by another one:       *)
(* strong fairness of Receive.  Cancel is the caller's and is not fair.    *)
(* StallSpec says nothing of the TCP peer; Spec assumes that it reads, or  *)
(* fails, so that every flush ends.                                        *)
(***************************************************************************)
GoFairness ==
    /\ WF_vars(Dispatcher)
    /\ WF_vars(Return)
    /\ \A w \in Workers : WF_vars(Local(w)) /\ SF_vars(Receive(w))

NetworkFairness == \A w \in Workers : WF_vars(Socket(w))

StallSpec == SafetySpec /\ GoFairness
Spec      == StallSpec /\ NetworkFairness

-----------------------------------------------------------------------------
(* Properties.                                                             *)

\* Every variable keeps its type: in particular the slot counter stays a
\* Word-bit value across the Add(^uint64(0)) of a release.
TypeOK ==
    /\ tcp \in BOOLEAN
    /\ cancelled \in BOOLEAN
    /\ disp \in {"ctx", "gate", "wait", "offer", "add", "closed"}
    /\ issued \in 0 .. Word - 1
    /\ tokens \in 0 .. Capacity
    /\ wpc \in [Workers -> {"dial", "recv", "closing"} \cup Holding \cup Terminal]
    /\ sent \in 0 .. Word - 1
    /\ errors \in 0 .. MaxErrors
    /\ buf \in [Workers -> Nat]
    /\ werr \in [Workers -> BOOLEAN]
    /\ wire \in Nat
    /\ returned \in BOOLEAN

\* Slots that exist: counted as sent, queued, or in a worker's hands.
Taken == sent + tokens + Cardinality(Slots)

\* The slot ledger balances at every interleaving (lines 231-236 against 368,
\* 384, 438 and 469): issued is exactly the number of slots in existence, one
\* less while the dispatcher is between its channel send and its Add(1).  A
\* worker that fails inside that window drives issued through zero to
\* 2^64 - 1, and the pending Add brings it back.  No more than Count slots
\* ever exist, and the dispatcher only waits to issue when one is missing.
SlotsConserved ==
    Count > 0 =>
        /\ Taken <= Count
        /\ disp \in {"wait", "offer"} => Taken < Count
        /\ disp # "add" => issued = Taken
        /\ disp = "add" => issued = IF Taken = 0 THEN Word - 1 ELSE Taken - 1

\* Run never reports more than Count frames (the promise of the comment at
\* lines 221-224), whatever fails and is reissued.
NeverOvershoots == Count > 0 => sent <= Count

\* Nothing reaches the network beyond the frames a slot pays for: the kernel
\* has accepted no more than sent, plus the frames written and about to be
\* counted (lines 441-473).
WireWithinSlots ==
    Count > 0 => wire <= sent + Cardinality({w \in Workers : wpc[w] = "wrote"})

\* If nothing was cancelled, nothing failed and a worker came up, Run returns
\* only once it has emitted exactly Count frames: no token still queued is
\* abandoned by the close of the channel (lines 216, 338-341).
CleanRunIsExact ==
    (/\ returned /\ ~cancelled /\ errors = 0
     /\ \E w \in Workers : wpc[w] # "failed")
        => sent = Count

\* Whole frames that a bufio.Writer held when it failed: they are lost.
Stranded == UNION {{w} \X (1 .. buf[w]) : w \in {v \in Workers : werr[v]}}

\* When Run returns, every frame it reports sent was handed to the kernel or is
\* stranded in a bufio.Writer that failed: the deferred flush drains each tail
\* (lines 297-298), and where it fails, which goes unreported, no more is missing
\* than what that connection still had to send.
FlushedAtReturn ==
    (Count > 0 /\ returned) =>
        wire <= sent /\ sent <= wire + Cardinality(Stranded)

-----------------------------------------------------------------------------
(* What Run implements.                                                    *)

AllFailed == \A w \in Workers : wpc[w] = "failed"

Contract == INSTANCE CountedRun WITH
    Limit    <- Count,
    Modulus  <- Word,
    emitted  <- sent,
    excused  <- cancelled \/ errors > 0 \/ AllFailed,
    finished <- returned

\* Run implements CountedRun: sent grows one frame at a time and not after
\* Run returned, never past Count, and Run returns short of Count only when
\* it was cancelled, an error was counted, or no worker could connect.
ImplementsCountedRun == Contract!Spec

-----------------------------------------------------------------------------
(* Progress.                                                               *)

\* A cancelled run returns (line 187: "Run blocks until ctx is canceled ..."),
\* wherever dispatcher and workers were when the context ended.
CancelReturns == cancelled ~> returned

Useless(w) == wpc[w] \in Terminal \cup {"closing", "closingHeld"} \/ werr[w]

\* A counted run ends by itself as long as one worker keeps a working
\* connection: slots released by failing workers are issued again until the
\* healthy one has emitted them (lines 436-438).  The way out is a run whose
\* last usable worker is lost while tokens are still being issued.
CountedRunEnds ==
    Count > 0 =>
        <>(\/ returned \/ cancelled
           \/ disp # "closed" /\ \A w \in Workers : Useless(w))

-----------------------------------------------------------------------------
(* What comments of the program say and the code does not do.              *)

\* "release the Count slot so the dispatcher reissues and we still emit
\* exactly Count" (lines 436-437): with no cancellation and every worker
\* connected from start to end, Run returns exactly Count.
StillExact ==
    (/\ returned /\ ~cancelled /\ Count > 0
     /\ \A w \in Workers : wpc[w] = "gone" /\ ~werr[w])
        => sent = Count

\* "a tx is never held once the pacer has nothing more queued" (lines
\* 278-279): while the dispatcher waits for the next tick, no token is queued
\* and every worker is idle, no frame sits in a write buffer.
NeverHeldIdle ==
    (/\ Paced /\ disp = "wait" /\ tokens = 0
     /\ \A w \in Workers : wpc[w] = "recv")
        => \A w \in Workers : buf[w] = 0
=============================================================================
