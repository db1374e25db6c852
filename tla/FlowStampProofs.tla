-------------------------- MODULE FlowStampProofs ---------------------------
(***************************************************************************)
(* Theorems about FlowStamp: the flows of one seq.PerFlowAllocator are     *)
(* independent Allocators, and what is proved of an Allocator holds of     *)
(* them, for every number of workers and flows.                            *)
(***************************************************************************)
EXTENDS FlowStamp, TLAPS

\* Allocator's theorems, read for the flows as FlowsAreAllocators sees them.
Flow == INSTANCE AllocatorProofs WITH
    next <- [c \in Cells |-> IF next[c] = 0 THEN First ELSE next[c]]

\* What a worker may rely on between the lookup, which holds p.mu, and the call
\* of Next, which does not: it is at a flow of the one PerFlowAllocator, and the
\* flow it looked up exists and stays.
StampInv ==
    /\ pfa = Shared
    /\ spc \in [Callers -> {"frame", "load", "lookup", "next", "inside"}]
    /\ flow \in [Callers -> Flows]
    /\ inst \in [Callers -> {Nil, Shared}]
    /\ next \in [Cells -> Nat]
    /\ apc \in [Callers -> {"idle", "count", "reserve", "queue", "return"}]
    /\ cell \in [Callers -> Cells]
    /\ \A w \in Callers :
          /\ spc[w] \in {"lookup", "next", "inside"} => inst[w] = Shared
          /\ spc[w] = "next" => next[Target(w)] # 0
          /\ spc[w] = "inside" <=> apc[w] # "idle"
          /\ spc[w] = "inside" => next[cell[w]] # 0

\* Without a poller the steps are some of those with one: what holds of
\* PolledSpec holds of the program as it is.
LEMMA PolledOrNot == EagerSpec => PolledSpec
  <1>1. (EagerNext \/ \E c \in Cells : DelayEnds(c)) => PolledNext
    BY DEF PolledNext
  <1> QED BY <1>1, PTL DEF PolledSpec, EagerSpec

\* The first number is at least one.
LEMMA FirstNumber == First \in Nat /\ First > 0
  BY AllocatorAssumption DEF First

\* A looked-up flow is one of the cells.
LEMMA TargetIsCell ==
  ASSUME StampInv, NEW w \in Callers, spc[w] \in {"lookup", "next"}
  PROVE  Target(w) \in Cells
  BY FlowStampAssumption DEF StampInv, Target

\* The stamping code keeps StampInv.
LEMMA StampInvariant == PolledSpec => []StampInv
  <1> USE FirstNumber
  <1>1. EagerInit => StampInv
    <2> SUFFICES ASSUME EagerInit PROVE StampInv
      OBVIOUS
    <2>1. (CHOOSE f \in Flows : TRUE) \in Flows
      BY AllocatorAssumption, FlowStampAssumption
    <2>2. (CHOOSE c \in Cells : TRUE) \in Cells
      BY AllocatorAssumption
    <2> QED BY <2>1, <2>2 DEF EagerInit, StampInit, AllocInit, StampInv
  <1>2. StampInv /\ [PolledNext]_vars => StampInv'
    <2> SUFFICES ASSUME StampInv, [PolledNext]_vars PROVE StampInv'
      OBVIOUS
    <2>1. ASSUME NEW w \in Callers, NEW f \in Flows, NewFrame(w, f) PROVE StampInv'
      BY <2>1, FlowStampAssumption DEF NewFrame, At, StampInv, Target, allocVars
    <2>2. ASSUME NEW w \in Callers, Load(w) PROVE StampInv'
      BY <2>2 DEF Load, At, StampInv, Target, allocVars
    <2>3. ASSUME NEW w \in Callers, Lookup(w) PROVE StampInv'
      BY <2>3, TargetIsCell DEF Lookup, At, StampInv, Target
    <2>4. ASSUME NEW w \in Callers, CallNext(w) PROVE StampInv'
      BY <2>4, TargetIsCell DEF CallNext, Take, CallerAt, At, StampInv, Target
    <2>5. ASSUME NEW w \in Callers, InsideNext(w) PROVE StampInv'
      <3>1. CASE Bump(w)
        BY <2>5, <3>1 DEF InsideNext, Bump, CallerAt, StampInv, Target, stampVars
      <3>2. CASE Reserve(w)
        <4>1. cell[w] \in Cells /\ next[cell[w]] \in Nat /\ next' = [next EXCEPT ![cell[w]] = @ + 1]
          BY <3>2 DEF Reserve, StampInv
        <4>2. next' \in [Cells -> Nat] /\ \A c \in Cells : next[c] # 0 => next'[c] # 0
          BY <4>1 DEF StampInv
        <4>3. /\ UNCHANGED <<spc, flow, inst, pfa, cell>>
              /\ apc[w] # "idle" /\ apc'[w] # "idle" /\ \A v \in Callers \ {w} : apc'[v] = apc[v]
              /\ apc' \in [Callers -> {"idle", "count", "reserve", "queue", "return"}]
          BY <2>5, <3>2 DEF InsideNext, Reserve, CallerAt, StampInv, stampVars
        <4>4. \A v \in Callers : spc[v] = "next" => Target(v) \in Cells
          BY TargetIsCell
        <4> QED BY <4>2, <4>3, <4>4 DEF StampInv, Target
      <3>3. CASE Queue(w)
        BY <2>5, <3>3 DEF InsideNext, Queue, CallerAt, StampInv, Target, stampVars
      <3> QED BY <2>5, <3>1, <3>2, <3>3 DEF InsideNext
    <2>6. ASSUME NEW w \in Callers, Stamp(w) PROVE StampInv'
      BY <2>6 DEF Stamp, GiveNumber, CallerAt, At, StampInv, Target
    <2>7. ASSUME NEW c \in Cells, DelayEnds(c) \/ Poll(c) PROVE StampInv'
      BY <2>7 DEF DelayEnds, Poll, Ripen, DueRetransmits, StampInv, Target, stampVars
    <2>8. CASE UNCHANGED vars
      BY <2>8 DEF StampInv, Target, vars, allocVars, stampVars
    <2> QED BY <2>1, <2>2, <2>3, <2>4, <2>5, <2>6, <2>7, <2>8
            DEF PolledNext, EagerNext, Number, Exhausted
  <1> QED BY <1>1, <1>2, PTL DEF PolledSpec

-----------------------------------------------------------------------------
(***************************************************************************)
(* The refinement.  A flow that Lookup has yet to create is seen as an     *)
(* unused Allocator, so creating it changes nothing; every other step is a *)
(* step of the Allocator it is taken on, or leaves them all alone.         *)
(***************************************************************************)
Seen == [c \in Cells |-> IF next[c] = 0 THEN First ELSE next[c]]

\* A step that leaves next alone is seen as it is.
LEMMA SeenSame ==
  ASSUME next' = next
  PROVE  Seen' = Seen
  BY DEF Seen

\* A number taken from a flow that exists is taken from the Allocator seen.
LEMMA SeenTaken ==
  ASSUME StampInv, NEW c \in Cells, next[c] # 0, next' = [next EXCEPT ![c] = @ + 1]
  PROVE  Seen[c] = next[c] /\ Seen' = [Seen EXCEPT ![c] = @ + 1]
  <1>1. next[c] \in Nat /\ next'[c] = next[c] + 1 /\ \A d \in Cells \ {c} : next'[d] = next[d]
    BY DEF StampInv
  <1>2. next'[c] # 0
    BY <1>1
  <1> QED BY <1>1, <1>2 DEF Seen

\* Looking a flow up is not seen, whether or not it creates the flow.
LEMMA SeenLookup ==
  ASSUME StampInv, NEW w \in Callers, Lookup(w)
  PROVE  Seen' = Seen
  <1>1. PICK c \in Cells : c = Target(w)
    BY TargetIsCell DEF Lookup, At
  <1>2. /\ next'[c] = (IF next[c] = 0 THEN First ELSE next[c])
        /\ \A d \in Cells \ {c} : next'[d] = next[d]
    BY <1>1 DEF Lookup, StampInv
  <1> QED BY <1>2, FirstNumber DEF Seen

\* A set is counted alike on both sides.
LEMMA SameCount ==
  \A S : /\ Flow!Cardinality(S) = Cardinality(S)
         /\ Independent!Cardinality(S) = Cardinality(S)
  BY DEF Flow!Cardinality, Independent!Cardinality, Cardinality

\* Every step of the workers and of the poller is a step of one flow's
\* Allocator or none at all.
LEMMA StepsAreAllocatorSteps ==
  ASSUME StampInv, [PolledNext]_vars
  PROVE  [Flow!Next]_(Flow!allocVars)
  <1>1. ASSUME NEW w \in Callers, NEW f \in Flows, NewFrame(w, f)
        PROVE  UNCHANGED Flow!allocVars
    BY <1>1 DEF NewFrame, allocVars, Flow!allocVars
  <1>2. ASSUME NEW w \in Callers, Load(w) PROVE UNCHANGED Flow!allocVars
    BY <1>2 DEF Load, allocVars, Flow!allocVars
  <1>3. ASSUME NEW w \in Callers, Lookup(w) PROVE UNCHANGED Flow!allocVars
    BY <1>3, SeenLookup DEF Lookup, Flow!allocVars, Seen
  <1>4. ASSUME NEW w \in Callers, CallNext(w) PROVE \E c \in Cells : Flow!Take(w, c)
    <2>1. PICK c \in Cells : c = Target(w) /\ next[c] # 0
      BY <1>4, TargetIsCell DEF CallNext, At, StampInv
    <2>2. Seen[c] = next[c] /\ Seen' = [Seen EXCEPT ![c] = @ + 1]
      BY <1>4, <2>1, SeenTaken DEF CallNext, Take
    <2> QED BY <1>4, <2>1, <2>2
            DEF CallNext, Take, CallerAt, GapEnabled, Seen,
                Flow!Take, Flow!CallerAt, Flow!GapEnabled
  <1>5. ASSUME NEW w \in Callers, InsideNext(w) PROVE Flow!Inside(w)
    <2>1. CASE Bump(w)
      BY <2>1 DEF Bump, CallerAt, Flow!Inside, Flow!Bump, Flow!CallerAt
    <2>2. CASE Reserve(w)
      <3>1. PICK c \in Cells : c = cell[w] /\ next[c] # 0
        BY <1>5 DEF InsideNext, StampInv
      <3>2. Seen[c] = next[c] /\ Seen' = [Seen EXCEPT ![c] = @ + 1]
        BY <2>2, <3>1, SeenTaken DEF Reserve
      <3>3. /\ Seen' = [Seen EXCEPT ![cell[w]] = @ + 1]
            /\ gap' = [gap EXCEPT ![w] = @ \cup {Seen[cell[w]]}]
            /\ skipped' = [skipped EXCEPT ![cell[w]] = @ \cup {Seen[cell[w]]}]
        BY <2>2, <3>1, <3>2 DEF Reserve
      <3>4. Flow!Reserve(w)
        BY <2>2, <3>3, SameCount DEF Reserve, CallerAt, Seen, Flow!Reserve, Flow!CallerAt
      <3> QED BY <3>4 DEF Flow!Inside
    <2>3. CASE Queue(w)
      BY <2>3 DEF Queue, CallerAt, Flow!Inside, Flow!Queue, Flow!CallerAt
    <2> QED BY <1>5, <2>1, <2>2, <2>3 DEF InsideNext
  <1>6. ASSUME NEW w \in Callers, Stamp(w) PROVE Flow!Inside(w)
    BY <1>6 DEF Stamp, GiveNumber, CallerAt, Flow!Inside, Flow!GiveNumber, Flow!CallerAt
  <1>7. ASSUME NEW c \in Cells, DelayEnds(c) \/ Poll(c)
        PROVE  Flow!Ripen(c) \/ Flow!DueRetransmits(c)
    BY <1>7 DEF DelayEnds, Poll, Ripen, DueRetransmits, Flow!Ripen, Flow!DueRetransmits
  <1>8. CASE UNCHANGED vars
    BY <1>8 DEF vars, allocVars, Flow!allocVars
  <1> QED BY <1>1, <1>2, <1>3, <1>4, <1>5, <1>6, <1>7, <1>8
          DEF PolledNext, EagerNext, Number, Exhausted, Flow!Next

\* Before any frame every flow is an unused Allocator.
LEMMA StartsAsAllocators == EagerInit => Flow!Init
  BY FirstNumber DEF EagerInit, StampInit, AllocInit, Flow!Init, Flow!AllocInit, Flow!First, First

\* The flows behave as Allocators.
LEMMA FlowsBehave == PolledSpec => Flow!AllocSafety
  BY StampInvariant, StepsAreAllocatorSteps, StartsAsAllocators, PTL
     DEF PolledSpec, Flow!AllocSafety

\* Workers that race for a flow in PerFlowAllocator.Next, the lookup under p.mu
\* and the call of Next outside it, implement one independent Allocator per
\* flow, whichever of them created it.
THEOREM FlowsIndependent == PolledSpec => FlowsAreAllocators
  <1>1. Flow!Init => Independent!Init
    BY DEF Flow!Init, Flow!AllocInit, Flow!First,
           Independent!Init, Independent!AllocInit, Independent!First
  <1>2. Flow!Next => Independent!Next
    <2>1. \A w \in Callers, c \in Cells : Flow!Take(w, c) => Independent!Take(w, c)
      BY DEF Flow!Take, Flow!CallerAt, Flow!GapEnabled,
             Independent!Take, Independent!CallerAt, Independent!GapEnabled
    <2>2. \A w \in Callers : Flow!Bump(w) => Independent!Bump(w)
      BY DEF Flow!Bump, Flow!CallerAt, Independent!Bump, Independent!CallerAt
    <2>3. \A w \in Callers : Flow!Reserve(w) => Independent!Reserve(w)
      BY SameCount DEF Flow!Reserve, Flow!CallerAt, Independent!Reserve, Independent!CallerAt
    <2>4. \A w \in Callers : Flow!Queue(w) => Independent!Queue(w)
      BY DEF Flow!Queue, Flow!CallerAt, Independent!Queue, Independent!CallerAt
    <2>5. \A w \in Callers : Flow!GiveNumber(w) => Independent!GiveNumber(w)
      BY DEF Flow!GiveNumber, Flow!CallerAt, Independent!GiveNumber, Independent!CallerAt
    <2>6. \A c \in Cells : /\ Flow!Ripen(c) => Independent!Ripen(c)
                           /\ Flow!DueRetransmits(c) => Independent!DueRetransmits(c)
      BY DEF Flow!Ripen, Flow!DueRetransmits, Independent!Ripen, Independent!DueRetransmits
    <2> QED BY <2>1, <2>2, <2>3, <2>4, <2>5, <2>6
            DEF Flow!Next, Flow!Inside, Independent!Next, Independent!Inside
  <1>3. UNCHANGED Flow!allocVars => UNCHANGED Independent!allocVars
    BY DEF Flow!allocVars, Independent!allocVars
  <1> QED BY <1>1, <1>2, <1>3, FlowsBehave, PTL
          DEF FlowsAreAllocators, Flow!AllocSafety, Independent!AllocSafety

-----------------------------------------------------------------------------
(***************************************************************************)
(* What is proved of an Allocator, for the flows.                          *)
(***************************************************************************)

\* The constants are those of the Allocators.
LEMMA FlowAssumption == Flow!AllocatorAssumption
  BY AllocatorAssumption DEF Flow!AllocatorAssumption, Flow!IsFiniteSet, IsFiniteSet

\* No two frames of a flow are stamped with the same SeqNum, and none with one
\* that was skipped.
THEOREM FlowNumbersUsedOnce == PolledSpec => []NoNumberTwice
  <1>1. Flow!AllocSafety => []Flow!NoNumberTwice
    BY FlowAssumption, Flow!NumbersUsedOnce
  <1>2. Flow!NoNumberTwice => NoNumberTwice
    BY DEF Flow!NoNumberTwice, Flow!Busy, NoNumberTwice, Busy
  <1> QED BY <1>1, <1>2, FlowsBehave, PTL

\* The same for subtx-gen as it is, where nobody polls for due gaps.
THEOREM UnpolledNumbersUsedOnce == EagerSpec => []NoNumberTwice
  <1>1. Flow!AllocSafety => []Flow!NoNumberTwice
    BY FlowAssumption, Flow!NumbersUsedOnce
  <1>2. Flow!NoNumberTwice => NoNumberTwice
    BY DEF Flow!NoNumberTwice, Flow!Busy, NoNumberTwice, Busy
  <1> QED BY <1>1, <1>2, FlowsBehave, PolledOrNot, PTL

\* The numbers of a flow run on without a hole: all below next are stamped, in
\* a worker's hands or skipped on purpose, and a flow not yet created has none.
THEOREM FlowNumbersAccounted == PolledSpec => []NoNumberLost
  <1>1. Flow!AllocSafety => []Flow!NoNumberLost
    BY FlowAssumption, Flow!NumbersAccounted
  <1>2. StampInv /\ Flow!NoNumberLost => NoNumberLost
    <2> SUFFICES ASSUME StampInv, Flow!NoNumberLost, NEW c \in Cells
                 PROVE  First .. next[c] - 1 = handed[c] \cup InFlight(c) \cup skipped[c]
      BY DEF NoNumberLost
    <2>1. First .. Seen[c] - 1 = handed[c] \cup InFlight(c) \cup skipped[c]
      BY DEF Flow!NoNumberLost, Flow!InFlight, Flow!Busy, Flow!First, First, Seen, InFlight, Busy
    <2>2. First .. Seen[c] - 1 = First .. next[c] - 1
      BY FirstNumber DEF Seen, StampInv
    <2> QED BY <2>1, <2>2
  <1> QED BY <1>1, <1>2, FlowsBehave, StampInvariant, PTL

\* The variables keep their types, and no frame is stamped with the SeqNum 0.
THEOREM FlowTypeCorrect == PolledSpec => []AllocTypeOK
  <1>1. Flow!AllocSafety => []Flow!AllocTypeOK
    BY FlowAssumption, Flow!AllocTypeCorrect
  <1>2. StampInv /\ Flow!AllocTypeOK => AllocTypeOK
    BY DEF Flow!AllocTypeOK, AllocTypeOK, StampInv
  <1> QED BY <1>1, <1>2, FlowsBehave, StampInvariant, PTL

\* A flow's skipped numbers are each in one place: in the hands of the worker
\* that skipped them, queued, or handed over for retransmission.
THEOREM FlowSkippedOnce == PolledSpec => []SkippedOnce
  <1>1. Flow!AllocSafety => []Flow!SkippedOnce
    BY FlowAssumption, Flow!SkippedNumbersOnce
  <1>2. Flow!SkippedOnce => SkippedOnce
    BY DEF Flow!SkippedOnce, Flow!InHands, Flow!Queued, Flow!Busy,
           SkippedOnce, InHands, Queued, Busy
  <1> QED BY <1>1, <1>2, FlowsBehave, PTL

\* Every flow keeps the configured cadence of gaps, whichever workers stamp its
\* frames.
THEOREM FlowGapCadence == PolledSpec => []GapCadence
  <1>1. Flow!AllocSafety => []Flow!GapCadence
    BY FlowAssumption, Flow!GapsKeepCadence
  <1>2. Flow!GapCadence => GapCadence
    <2> SUFFICES ASSUME Flow!GapCadence, NEW c \in Cells, Busy(c) = {}, next[c] # 0
                 PROVE  next[c] = First + begun[c]
                           + (IF GapEnabled THEN GapSize * (begun[c] \div GapEvery) ELSE 0)
      BY DEF GapCadence
    <2>1. Seen[c] = next[c] /\ Seen[c] # 0
      BY DEF Seen
    <2>2. (Flow!Busy(c) = {} /\ Seen[c] # 0) =>
             Seen[c] = First + begun[c]
                       + (IF GapEnabled THEN GapSize * (begun[c] \div GapEvery) ELSE 0)
      BY DEF Flow!GapCadence, Flow!First, Flow!GapEnabled, First, GapEnabled, Seen
    <2> QED BY <2>1, <2>2 DEF Flow!Busy, Busy
  <1> QED BY <1>1, <1>2, FlowsBehave, PTL
=============================================================================
