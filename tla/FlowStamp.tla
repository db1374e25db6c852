----------------------------- MODULE FlowStamp ------------------------------
(***************************************************************************)
(* How the workers of sender.Runner stamp SeqNums (sender.go lines         *)
(* 408-425) through seq.PerFlowAllocator (seq.go lines 148-174).           *)
(*                                                                         *)
(* With gap injection New builds the per-flow allocator before any worker  *)
(* runs (Eager).  In direct-multicast mode without gaps the first worker   *)
(* that finds r.pfa nil builds it; r.pfa is an ordinary field, so its      *)
(* reads and writes by different workers interleave in any order.          *)
(*                                                                         *)
(* The cells of Allocator are pairs of a PerFlowAllocator and a flow; a    *)
(* PerFlowAllocator is named after the worker that built it.               *)
(***************************************************************************)
EXTENDS Allocator, FiniteSetsExt

CONSTANTS
    Flows,      \* (groupIdx, subtreeID) keys
    Shared,     \* the PerFlowAllocator built by New
    Nil,        \* a nil *PerFlowAllocator
    MaxFrames   \* bound: frames stamped, over all flows

ASSUME FlowStampAssumption ==
    \* Only LazySpec needs the cells that workers build.
    /\ {Shared} \X Flows \subseteq Cells
    /\ Cells \subseteq (Callers \cup {Shared}) \X Flows
    /\ MaxFrames \in Nat
    /\ Shared \notin Callers /\ Nil \notin Callers /\ Nil # Shared

VARIABLES
    pfa,        \* Runner.pfa
    spc,        \* where each worker is in the stamping code
    flow,       \* the flow of its current frame
    inst        \* the PerFlowAllocator it read from r.pfa

stampVars == <<pfa, spc, flow, inst>>
vars      == <<allocVars, stampVars>>

Target(w) == <<inst[w], flow[w]>>

StampInit(built) ==
    /\ AllocInit(0)
    /\ pfa = built
    /\ spc = [w \in Callers |-> "frame"]
    /\ flow = [w \in Callers |-> CHOOSE f \in Flows : TRUE]
    /\ inst = [w \in Callers |-> Nil]

At(w, from, to) ==
    /\ spc[w] = from
    /\ spc' = [spc EXCEPT ![w] = to]

\* A frame: its TxID gives the group, Pool.Pick the subtree; then the test
\* "if r.pfa != nil".
NewFrame(w, f) ==
    /\ At(w, "frame", IF pfa # Nil THEN "load" ELSE "again")
    /\ flow' = [flow EXCEPT ![w] = f]
    /\ UNCHANGED <<allocVars, pfa, inst>>

\* The second test, "if r.pfa == nil", in the direct-multicast branch.
TestAgain(w) ==
    /\ At(w, "again", IF pfa = Nil THEN "build" ELSE "load")
    /\ UNCHANGED <<allocVars, pfa, flow, inst>>

\* r.pfa = seq.NewPerFlow(...)
Build(w) ==
    /\ At(w, "build", "load")
    /\ pfa' = w
    /\ UNCHANGED <<allocVars, flow, inst>>

\* r.pfa is read once more as the receiver of Next.
Load(w) ==
    /\ At(w, "load", "lookup")
    /\ inst' = [inst EXCEPT ![w] = pfa]
    /\ UNCHANGED <<allocVars, pfa, flow>>

\* PerFlowAllocator.Next under p.mu: get or create the flow's Allocator.
LookupCreates(w) ==
    /\ At(w, "lookup", "next")
    /\ next' = [next EXCEPT ![Target(w)] = First]
    /\ UNCHANGED <<counter, pending, due, apc, cell, got, gap, begun, handed,
                   skipped, resent, pfa, flow, inst>>
Lookup(w) ==
    /\ At(w, "lookup", "next")
    /\ next' = [next EXCEPT ![Target(w)] = IF @ = 0 THEN First ELSE @]
    /\ UNCHANGED <<counter, pending, due, apc, cell, got, gap, begun, handed,
                   skipped, resent, pfa, flow, inst>>

Frames == MapThenSumSet(LAMBDA c : begun[c], Cells)

\* a.Next(), outside p.mu.
CallNext(w) ==
    /\ Frames < MaxFrames
    /\ At(w, "next", "inside")
    /\ Take(w, Target(w))
    /\ UNCHANGED <<pfa, flow, inst>>

InsideNext(w) ==
    /\ spc[w] = "inside"
    /\ Bump(w) \/ Reserve(w) \/ Queue(w)
    /\ UNCHANGED stampVars

\* f.SeqNum is set and the worker goes on to encode and send the frame.
Stamp(w) ==
    /\ At(w, "inside", "frame")
    /\ GiveNumber(w)
    /\ UNCHANGED <<pfa, flow, inst>>

\* The bound on frames is reached.
Exhausted ==
    /\ Frames = MaxFrames /\ \A w \in Callers : spc[w] = "next"
    /\ UNCHANGED vars

Number(w) ==
    \/ \E f \in Flows : NewFrame(w, f)
    \/ Load(w) \/ Lookup(w) \/ CallNext(w) \/ InsideNext(w) \/ Stamp(w)

\* Gap injection: New has built r.pfa, and nobody writes it again.
EagerNext == (\E w \in Callers : Number(w)) \/ Exhausted
EagerInit == StampInit(Shared)

\* Time passes for the queued gaps, and nobody asks for them: the stamping
\* code has no call of DueRetransmits, and PerFlowAllocator does not offer it.
DelayEnds(c) == Ripen(c) /\ UNCHANGED stampVars

EagerSpec ==
    /\ EagerInit /\ [][EagerNext \/ \E c \in Cells : DelayEnds(c)]_vars
    /\ \A w \in Callers : WF_vars(Number(w))
    /\ \A c \in Cells : WF_vars(DelayEnds(c))

\* The same workers next to an owner that may poll every flow's Allocator, the
\* use that the comments on Allocator.Next and DueRetransmits describe.
Poll(c) == DueRetransmits(c) /\ UNCHANGED stampVars

PolledNext == EagerNext \/ \E c \in Cells : DelayEnds(c) \/ Poll(c)
PolledSpec == EagerInit /\ [][PolledNext]_vars

\* Direct multicast without gaps: the workers build it.
LazyNext ==
    (\E w \in Callers : Number(w) \/ TestAgain(w) \/ Build(w)) \/ Exhausted
LazySpec == StampInit(Nil) /\ [][LazyNext]_vars

-----------------------------------------------------------------------------
(* Properties.                                                             *)

\* The flows of one PerFlowAllocator seen as Allocators that exist from the
\* start: one that Lookup has yet to create is an unused one.
Independent == INSTANCE Allocator WITH
    next <- [c \in Cells |-> IF next[c] = 0 THEN First ELSE next[c]]

\* Workers that meet in PerFlowAllocator.Next (seq.go lines 164-174), where the
\* lookup holds p.mu and the call of Next does not, still see every flow as
\* one independent Allocator: whoever created it, nobody starts it again.
FlowsAreAllocators == Independent!AllocSafety

\* No two frames of a flow carry the same SeqNum (docs/architecture.md line 85:
\* "Each frame gets a unique SeqNum"): PerFlowAllocators built by different
\* workers (lines 419-421) never number the same flow alike.
UniquePerFlow ==
    \A f \in Flows : \A i, j \in Callers \cup {Shared} :
        i # j => handed[<<i, f>>] \cap handed[<<j, f>>] = {}
=============================================================================
