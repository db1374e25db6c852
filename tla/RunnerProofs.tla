---------------------------- MODULE RunnerProofs ----------------------------
(***************************************************************************)
(* Theorems about Runner, for every number of workers, every Count and     *)
(* every counter width.                                                    *)
(***************************************************************************)
EXTENDS Runner, FiniteSetTheorems, TLAPS

\* The channel capacity is a natural number.
LEMMA CapacityNat == Capacity \in Nat
  BY RunnerAssumption, FS_CardinalityType DEF Capacity

\* The slots in the workers' hands are finitely many.
LEMMA SlotsFinite == IsFiniteSet(Slots) /\ Cardinality(Slots) \in Nat
  BY RunnerAssumption, FS_Subset, FS_CardinalityType DEF Slots

\* One worker moving between two locations of the same kind moves no slot.
LEMMA SlotKept ==
  ASSUME NEW w \in Workers, NEW pc, TypeOK, Goto(w, pc),
         wpc[w] \in Holding <=> pc \in Holding
  PROVE  Slots' = Slots
  BY DEF Slots, Goto, TypeOK

\* A worker that receives a token holds one slot more.
LEMMA SlotTaken ==
  ASSUME NEW w \in Workers, NEW pc, TypeOK, Goto(w, pc),
         wpc[w] \notin Holding, pc \in Holding
  PROVE  Cardinality(Slots') = Cardinality(Slots) + 1
  <1>1. Slots' = Slots \cup {w} /\ w \notin Slots
    BY DEF Slots, Goto, TypeOK
  <1> QED BY <1>1, SlotsFinite, FS_AddElement

\* A worker that counts or releases its frame holds one slot less.
LEMMA SlotGiven ==
  ASSUME NEW w \in Workers, NEW pc, TypeOK, Goto(w, pc),
         wpc[w] \in Holding, pc \notin Holding
  PROVE  Cardinality(Slots') = Cardinality(Slots) - 1 /\ Cardinality(Slots) > 0
  <1>1. Slots' = Slots \ {w} /\ w \in Slots
    BY DEF Slots, Goto, TypeOK
  <1>2. Cardinality(Slots \ {w}) = Cardinality(Slots) - 1
    BY <1>1, SlotsFinite, FS_RemoveElement
  <1>3. IsFiniteSet(Slots \ {w})
    BY SlotsFinite, FS_RemoveElement
  <1>4. Cardinality(Slots \ {w}) \in Nat
    BY <1>3, FS_CardinalityType
  <1> QED BY <1>1, <1>2, <1>4, SlotsFinite

-----------------------------------------------------------------------------
\* Every step of a worker keeps the types.
LEMMA WorkerTypes ==
  ASSUME NEW w \in Workers, TypeOK, Worker(w)
  PROVE  TypeOK'
  <1> USE RunnerAssumption, CapacityNat
  <1>1. CASE Receive(w)
    BY <1>1 DEF TypeOK, Receive, WorkerStep, Goto, Holding, Terminal, ioVars
  <1>2. CASE BuildFails(w) \/ EncodeFails(w) \/ WriteFails(w) \/ BufferRefuses(w)
    BY <1>2 DEF TypeOK, BuildFails, EncodeFails, WriteFails, BufferRefuses,
                CountError, WorkerStep, Goto, Holding, Terminal, ioVars
  <1>3. CASE Dial(w) \/ DialFails(w) \/ StopOnCtx(w) \/ StopOnClose(w) \/ CloseIdle(w)
    BY <1>3 DEF TypeOK, Dial, DialFails, StopOnCtx, StopOnClose, CloseIdle, Leave,
                WorkerStep, Goto, Holding, Terminal, ioVars
  <1>4. CASE WriteDatagram(w) \/ BufferFrame(w)
    BY <1>4 DEF TypeOK, WriteDatagram, BufferFrame, WorkerStep, Goto, Holding,
                Terminal, ioVars
  <1>5. CASE Release(w) \/ ReleaseQuit(w) \/ CountSent(w)
    BY <1>5 DEF TypeOK, Release, ReleaseQuit, CountSent, Inc, Dec, WorkerStep, Goto,
                Holding, Terminal, ioVars
  <1>6. ASSUME FlushAll(w) \/ FlushBreaks(w)
        PROVE  wire' \in Nat /\ buf' \in [Workers -> Nat]
               /\ werr' \in [Workers -> BOOLEAN]
    <2>1. CASE FlushAll(w)
      BY <2>1 DEF TypeOK, FlushAll
    <2>2. CASE FlushBreaks(w)
      <3>1. PICK k \in 0 .. buf[w] - 1 :
               wire' = wire + k /\ buf' = [buf EXCEPT ![w] = @ - k]
        BY <2>2 DEF FlushBreaks
      <3>2. buf[w] \in Nat /\ k \in Nat /\ buf[w] - k \in Nat
        BY <3>1 DEF TypeOK
      <3>3. wire' \in Nat /\ buf' \in [Workers -> Nat]
        BY <3>1, <3>2 DEF TypeOK
      <3> QED BY <2>2, <3>3 DEF FlushBreaks, TypeOK
    <2> QED BY <1>6, <2>1, <2>2
  <1>7. CASE Flush(w) \/ FlushFails(w) \/ CloseFlushing(w)
    <2>1. FlushAll(w) \/ FlushBreaks(w)
      BY <1>7 DEF Flush, FlushFails, CloseFlushing
    <2>2. \E pc \in {"wrote", "release", "closingHeld", "gone", "goneHeld"} :
             Goto(w, pc)
      BY <1>7 DEF Flush, FlushFails, CloseFlushing, Leave, WorkerStep
    <2>3. wpc' \in [Workers -> {"dial", "recv", "closing"} \cup Holding \cup Terminal]
      BY <2>2 DEF Goto, TypeOK, Holding, Terminal
    <2>4. errors' \in 0 .. MaxErrors
      BY <1>7 DEF Flush, FlushFails, CloseFlushing, CountError, TypeOK
    <2>5. UNCHANGED <<tcp, cancelled, disp, returned, issued, tokens, sent>>
      BY <1>7 DEF Flush, FlushFails, CloseFlushing, Leave, WorkerStep
    <2>6. wire' \in Nat /\ buf' \in [Workers -> Nat] /\ werr' \in [Workers -> BOOLEAN]
      BY <1>6, <2>1
    <2> QED BY <2>3, <2>4, <2>5, <2>6 DEF TypeOK, Holding, Terminal
  <1> QED BY <1>1, <1>2, <1>3, <1>4, <1>5, <1>7 DEF Worker, Refuse, Local, Socket

\* Type correctness of the dispatcher, the counters and the workers.
THEOREM TypeCorrect == SafetySpec => []TypeOK
  <1> USE RunnerAssumption, CapacityNat
  <1>1. Init => TypeOK
    <2> SUFFICES ASSUME Init PROVE TypeOK
      OBVIOUS
    <2>1. /\ werr \in [Workers -> BOOLEAN] /\ cancelled \in BOOLEAN
          /\ returned \in BOOLEAN /\ tcp \in BOOLEAN
      BY Zenon DEF Init, RunnerAssumption
    <2>2. wpc \in [Workers -> {"dial", "recv", "closing"} \cup Holding \cup Terminal]
      BY DEF Init
    <2>3. buf \in [Workers -> Nat] /\ wire \in Nat
      BY DEF Init
    <2>4. /\ issued \in 0 .. Word - 1 /\ sent \in 0 .. Word - 1
          /\ tokens \in 0 .. Capacity /\ errors \in 0 .. MaxErrors
      BY DEF Init
    <2> QED BY <2>1, <2>2, <2>3, <2>4 DEF Init, TypeOK
  <1>2. TypeOK /\ [Next]_vars => TypeOK'
    <2> SUFFICES ASSUME TypeOK, [Next]_vars PROVE TypeOK'
      OBVIOUS
    <2>1. CASE Cancel
      BY <2>1 DEF TypeOK, Cancel, dispVars, ioVars, Holding, Terminal
    <2>2. CASE Dispatcher
      BY <2>2 DEF TypeOK, Dispatcher, CtxCheck, CountGate, PacerWait, Offer, OfferAbort,
                  AddIssued, DispStep, Inc, ioVars, Holding, Terminal
    <2>3. CASE \E w \in Workers : Worker(w)
      BY <2>3, WorkerTypes
    <2>4. CASE Return
      BY <2>4 DEF TypeOK, Return, dispVars, ioVars, Holding, Terminal
    <2>5. CASE UNCHANGED vars
      BY <2>5 DEF TypeOK, vars, Holding, Terminal
    <2> QED BY <2>1, <2>2, <2>3, <2>4, <2>5 DEF Next, Done
  <1> QED BY <1>1, <1>2, PTL DEF SafetySpec

-----------------------------------------------------------------------------
(***************************************************************************)
(* The slot ledger.  SlotsConserved is inductive given the types: while    *)
(* the dispatcher is between the channel send and Add(1), issued lags by   *)
(* one, possibly through a wrap, and only the dispatcher reads it.         *)
(***************************************************************************)

\* The worker steps that leave the ledger's terms alone.
LEMMA QuietWorker ==
  ASSUME NEW w \in Workers, TypeOK, Worker(w),
         ~Receive(w), ~Release(w), ~ReleaseQuit(w), ~CountSent(w)
  PROVE  Slots' = Slots /\ UNCHANGED <<disp, issued, tokens, sent>>
  <1>1. UNCHANGED <<disp, issued, tokens, sent>>
    BY DEF Worker, Refuse, Local, Socket, Dial, DialFails, StopOnCtx, StopOnClose,
           BuildFails, EncodeFails, WriteDatagram, WriteFails, BufferFrame,
           BufferRefuses, Flush, FlushFails, CloseIdle, CloseFlushing, Leave, WorkerStep
  <1>2. \E pc : Goto(w, pc) /\ (wpc[w] \in Holding <=> pc \in Holding)
    <2>1. CASE Dial(w) \/ DialFails(w) \/ StopOnCtx(w) \/ StopOnClose(w)
      BY <2>1 DEF Dial, DialFails, StopOnCtx, StopOnClose, WorkerStep, Holding
    <2>2. CASE BuildFails(w) \/ EncodeFails(w) \/ WriteDatagram(w) \/ BufferRefuses(w)
      BY <2>2 DEF BuildFails, EncodeFails, WriteDatagram, BufferRefuses, WorkerStep,
                  Holding
    <2>3. CASE WriteFails(w) \/ FlushFails(w)
      BY <2>3 DEF WriteFails, FlushFails, WorkerStep, Holding
    <2>4. CASE BufferFrame(w) \/ Flush(w)
      BY <2>4 DEF BufferFrame, Flush, WorkerStep, Holding
    <2>5. CASE CloseIdle(w) \/ CloseFlushing(w)
      BY <2>5 DEF CloseIdle, CloseFlushing, Leave, WorkerStep, Holding
    <2> QED BY <2>1, <2>2, <2>3, <2>4, <2>5 DEF Worker, Refuse, Local, Socket
  <1> QED BY <1>1, <1>2, SlotKept

\* The ledger survives every step of a worker.
LEMMA WorkerLedger ==
  ASSUME NEW w \in Workers, TypeOK, SlotsConserved, Worker(w)
  PROVE  SlotsConserved'
  <1> SUFFICES ASSUME Count > 0 PROVE SlotsConserved'
    BY DEF SlotsConserved
  <1>0. /\ Count \in Nat /\ Word \in Nat /\ Count <= Word - 1
        /\ sent \in Nat /\ tokens \in Nat /\ issued \in Nat
        /\ Cardinality(Slots) \in Nat
    BY RunnerAssumption, CapacityNat, SlotsFinite DEF TypeOK
  <1>1. CASE Receive(w)
    <2>1. Cardinality(Slots') = Cardinality(Slots) + 1
      BY <1>1, SlotTaken DEF Receive, WorkerStep, Holding
    <2>2. Taken' = Taken /\ UNCHANGED <<disp, issued>>
      BY <1>0, <1>1, <2>1 DEF Receive, WorkerStep, Taken
    <2> QED BY <2>2 DEF SlotsConserved
  <1>2. CASE Release(w) \/ ReleaseQuit(w)
    <2>1. Cardinality(Slots') = Cardinality(Slots) - 1 /\ Cardinality(Slots) > 0
      <3>1. \E pc : Goto(w, pc) /\ wpc[w] \in Holding /\ pc \notin Holding
        BY <1>2 DEF Release, ReleaseQuit, WorkerStep, Holding
      <3> QED BY <3>1, SlotGiven
    <2>2. Taken' = Taken - 1 /\ Taken > 0 /\ Taken \in Nat
      BY <1>0, <1>2, <2>1 DEF Release, ReleaseQuit, Taken
    <2>3. UNCHANGED disp /\ issued' = IF issued = 0 THEN Word - 1 ELSE issued - 1
      BY <1>2 DEF Release, ReleaseQuit, WorkerStep, Dec
    <2> QED BY <1>0, <2>2, <2>3 DEF SlotsConserved
  <1>3. CASE CountSent(w)
    <2>1. Cardinality(Slots') = Cardinality(Slots) - 1 /\ Cardinality(Slots) > 0
      BY <1>3, SlotGiven DEF CountSent, WorkerStep, Holding
    <2>2. sent < Word - 1
      BY <1>0, <2>1 DEF SlotsConserved, Taken
    <2>3. Taken' = Taken /\ UNCHANGED <<disp, issued>>
      BY <1>0, <1>3, <2>1, <2>2 DEF CountSent, WorkerStep, Inc, Taken
    <2> QED BY <2>3 DEF SlotsConserved
  <1>4. CASE ~Receive(w) /\ ~Release(w) /\ ~ReleaseQuit(w) /\ ~CountSent(w)
    <2>1. Slots' = Slots /\ UNCHANGED <<disp, issued, tokens, sent>>
      BY <1>4, QuietWorker
    <2> QED BY <2>1 DEF SlotsConserved, Taken
  <1> QED BY <1>1, <1>2, <1>3, <1>4

\* The ledger survives every step of the dispatcher.
LEMMA DispatcherLedger ==
  ASSUME TypeOK, SlotsConserved, Dispatcher
  PROVE  SlotsConserved'
  <1> SUFFICES ASSUME Count > 0 PROVE SlotsConserved'
    BY DEF SlotsConserved
  <1>0. /\ Count \in Nat /\ Word \in Nat /\ Count <= Word - 1
        /\ sent \in Nat /\ tokens \in Nat /\ issued \in Nat
        /\ Cardinality(Slots) \in Nat
    BY RunnerAssumption, CapacityNat, SlotsFinite DEF TypeOK
  <1>1. Slots' = Slots /\ sent' = sent
    BY DEF Dispatcher, CtxCheck, CountGate, PacerWait, Offer, OfferAbort, AddIssued,
           DispStep, Slots
  <1>2. CASE CtxCheck \/ CountGate \/ PacerWait \/ OfferAbort
    <2>1. Taken' = Taken /\ issued' = issued
      BY <1>1, <1>2 DEF CtxCheck, CountGate, PacerWait, OfferAbort, Taken
    <2> QED BY <1>0, <1>2, <2>1
            DEF CtxCheck, CountGate, PacerWait, OfferAbort, DispStep, SlotsConserved
  <1>3. CASE Offer
    <2>1. Taken' = Taken + 1 /\ issued' = issued /\ Taken \in Nat
      BY <1>0, <1>1, <1>3 DEF Offer, Taken
    <2> QED BY <1>0, <1>3, <2>1 DEF Offer, DispStep, SlotsConserved
  <1>4. CASE AddIssued
    <2>1. Taken' = Taken /\ Taken \in Nat
      BY <1>0, <1>1, <1>4 DEF AddIssued, Taken
    <2> QED BY <1>0, <1>4, <2>1 DEF AddIssued, DispStep, Inc, SlotsConserved
  <1> QED BY <1>2, <1>3, <1>4 DEF Dispatcher

\* The slot ledger balances in every reachable state of Run.
THEOREM LedgerBalances == SafetySpec => []SlotsConserved
  <1>1. Init => SlotsConserved
    <2> SUFFICES ASSUME Init PROVE SlotsConserved
      OBVIOUS
    <2>1. Slots = {}
      BY DEF Init, Slots, Holding
    <2>2. Cardinality(Slots) = 0
      BY <2>1, FS_EmptySet
    <2> QED BY <2>2, RunnerAssumption DEF Init, SlotsConserved, Taken
  <1>2. TypeOK /\ SlotsConserved /\ [Next]_vars => SlotsConserved'
    <2> SUFFICES ASSUME TypeOK, SlotsConserved, [Next]_vars PROVE SlotsConserved'
      OBVIOUS
    <2>1. CASE Dispatcher
      BY <2>1, DispatcherLedger
    <2>2. CASE \E w \in Workers : Worker(w)
      BY <2>2, WorkerLedger
    <2>3. CASE Cancel \/ Return \/ UNCHANGED vars
      <3>1. UNCHANGED <<disp, issued, tokens, wpc, sent>>
        BY <2>3 DEF Cancel, Return, vars, dispVars
      <3>2. Slots' = Slots
        BY <3>1 DEF Slots
      <3> QED BY <3>1, <3>2 DEF SlotsConserved, Taken
    <2> QED BY <2>1, <2>2, <2>3 DEF Next, Done
  <1> QED BY <1>1, <1>2, TypeCorrect, PTL DEF SafetySpec

\* A counted run never reports more than Count frames.
THEOREM CountNeverExceeded == SafetySpec => []NeverOvershoots
  <1>1. TypeOK /\ SlotsConserved => NeverOvershoots
    BY RunnerAssumption, CapacityNat, SlotsFinite
       DEF TypeOK, SlotsConserved, NeverOvershoots, Taken
  <1> QED BY <1>1, TypeCorrect, LedgerBalances, PTL

-----------------------------------------------------------------------------
(***************************************************************************)
(* A clean run is exact.  As long as nothing was cancelled and no error    *)
(* was counted, no slot is given back, no worker leaves while a token may  *)
(* still come, and the channel is closed only with Count slots taken.      *)
(***************************************************************************)
NoSlotLost ==
    errors = 0 =>
        \A w \in Workers :
            /\ wpc[w] \notin {"release", "releaseQuit", "closingHeld", "goneHeld"}
            /\ werr[w] => wpc[w] = "gone"

NobodyLeavesEarly ==
    (errors = 0 /\ ~cancelled) =>
        \A w \in Workers :
            wpc[w] \in {"closing", "gone"} => disp = "closed" /\ tokens = 0

ClosedOnCount ==
    (errors = 0 /\ ~cancelled /\ disp = "closed") => Count > 0 /\ Taken = Count

ReturnedLast ==
    returned => disp = "closed" /\ \A w \in Workers : wpc[w] \in Terminal

CleanInv == NoSlotLost /\ NobodyLeavesEarly /\ ClosedOnCount /\ ReturnedLast

\* Which workers move where when the error counter is still zero afterwards.
LEMMA CleanWorkerSteps ==
  ASSUME NEW w \in Workers, TypeOK, NoSlotLost, Worker(w), errors' = 0
  PROVE  /\ errors = 0 /\ UNCHANGED <<cancelled, disp, returned>>
         /\ \/ Dial(w) \/ DialFails(w) \/ Receive(w) \/ StopOnCtx(w) \/ StopOnClose(w)
            \/ WriteDatagram(w) \/ BufferFrame(w) \/ Flush(w) \/ CountSent(w)
            \/ CloseIdle(w) \/ CloseFlushing(w)
  <1>1. errors \in Nat /\ MaxErrors \in Nat
    BY RunnerAssumption DEF TypeOK
  <1>2. UNCHANGED <<cancelled, disp, returned>>
    BY DEF Worker, Refuse, Local, Socket, Receive, Release, ReleaseQuit, CountSent, Dial,
           DialFails, StopOnCtx, StopOnClose, BuildFails, EncodeFails, WriteDatagram,
           WriteFails, BufferFrame, BufferRefuses, Flush, FlushFails, CloseIdle,
           CloseFlushing, Leave, WorkerStep
  <1>3. errors = 0
    BY <1>1 DEF Worker, Refuse, Local, Socket, Receive, Release, ReleaseQuit, CountSent,
           Dial, DialFails, StopOnCtx, StopOnClose, BuildFails, EncodeFails,
           WriteDatagram, WriteFails, BufferFrame, BufferRefuses, Flush, FlushFails,
           CloseIdle, CloseFlushing, CountError
  <1>4. ~BuildFails(w) /\ ~EncodeFails(w) /\ ~WriteFails(w) /\ ~FlushFails(w)
    BY <1>1, <1>3 DEF BuildFails, EncodeFails, WriteFails, FlushFails, CountError
  <1>5. ~BufferRefuses(w) /\ ~Release(w) /\ ~ReleaseQuit(w)
    BY <1>3 DEF NoSlotLost, BufferRefuses, Release, ReleaseQuit, WorkerStep
  <1> QED BY <1>2, <1>3, <1>4, <1>5 DEF Worker, Refuse, Local, Socket

\* A worker step keeps the invariant of clean runs.
LEMMA WorkerClean ==
  ASSUME NEW w \in Workers, TypeOK, SlotsConserved, CleanInv, Worker(w)
  PROVE  CleanInv'
  <1>1. NoSlotLost'
    <2> SUFFICES ASSUME errors' = 0, NEW v \in Workers
                 PROVE  /\ wpc'[v] \notin {"release", "releaseQuit", "closingHeld", "goneHeld"}
                        /\ werr'[v] => wpc'[v] = "gone"
      BY DEF NoSlotLost
    <2>0. errors = 0
      BY CleanWorkerSteps DEF CleanInv
    <2>1. CASE \/ Dial(w) \/ DialFails(w) \/ Receive(w) \/ StopOnCtx(w) \/ StopOnClose(w)
               \/ WriteDatagram(w) \/ BufferFrame(w) \/ CountSent(w)
      BY <2>0, <2>1 DEF CleanInv, NoSlotLost, TypeOK, Dial, DialFails, Receive, StopOnCtx,
            StopOnClose, WriteDatagram, BufferFrame, CountSent, WorkerStep, Goto, ioVars
    <2>2. CASE Flush(w)
      BY <2>0, <2>2 DEF CleanInv, NoSlotLost, TypeOK, Flush, FlushAll, WorkerStep, Goto
    <2>3. CASE CloseIdle(w)
      BY <2>0, <2>3 DEF CleanInv, NoSlotLost, TypeOK, CloseIdle, Leave, WorkerStep, Goto,
                        ioVars
    <2>4. CASE CloseFlushing(w)
      BY <2>0, <2>4 DEF CleanInv, NoSlotLost, TypeOK, CloseFlushing, Leave, FlushAll,
                        FlushBreaks, WorkerStep, Goto
    <2> QED BY <2>1, <2>2, <2>3, <2>4, CleanWorkerSteps DEF CleanInv
  <1>2. NobodyLeavesEarly'
    <2> SUFFICES ASSUME errors' = 0, ~cancelled', NEW v \in Workers,
                        wpc'[v] \in {"closing", "gone"}
                 PROVE  disp' = "closed" /\ tokens' = 0
      BY DEF NobodyLeavesEarly
    <2>0. errors = 0 /\ UNCHANGED <<cancelled, disp>>
      BY CleanWorkerSteps DEF CleanInv
    <2>1. CASE Receive(w)
      <3>1. tokens > 0 /\ v # w
        BY <2>1 DEF Receive, WorkerStep, Goto, TypeOK
      <3>2. wpc[v] \in {"closing", "gone"}
        BY <2>1, <3>1 DEF Receive, WorkerStep, Goto, TypeOK
      <3>3. tokens = 0
        BY <2>0, <3>2 DEF CleanInv, NobodyLeavesEarly
      <3> QED BY <3>1, <3>3
    <2>2. CASE \/ Dial(w) \/ DialFails(w) \/ WriteDatagram(w) \/ BufferFrame(w)
               \/ Flush(w) \/ CountSent(w)
      BY <2>0, <2>2 DEF CleanInv, NobodyLeavesEarly, TypeOK, Dial, DialFails,
            WriteDatagram, BufferFrame, Flush, CountSent, WorkerStep, Goto
    <2>3. CASE StopOnCtx(w) \/ StopOnClose(w)
      BY <2>0, <2>3 DEF CleanInv, NobodyLeavesEarly, TypeOK, StopOnCtx, StopOnClose,
            WorkerStep, Goto
    <2>4. CASE CloseIdle(w) \/ CloseFlushing(w)
      <3>1. wpc[w] = "closing" /\ tokens' = tokens
        BY <2>0, <2>4 DEF CleanInv, NoSlotLost, CloseIdle, CloseFlushing, Leave, WorkerStep
      <3> QED BY <2>0, <3>1 DEF CleanInv, NobodyLeavesEarly
    <2> QED BY <2>1, <2>2, <2>3, <2>4, CleanWorkerSteps DEF CleanInv
  <1>3. ClosedOnCount'
    <2> SUFFICES ASSUME errors' = 0, ~cancelled', disp' = "closed"
                 PROVE  Count > 0 /\ Taken' = Count
      BY DEF ClosedOnCount
    <2>1. errors = 0 /\ UNCHANGED <<cancelled, disp>> /\ ~Release(w) /\ ~ReleaseQuit(w)
      BY CleanWorkerSteps
         DEF CleanInv, NoSlotLost, Release, ReleaseQuit, WorkerStep
    <2>2. Count > 0 /\ Taken = Count
      BY <2>1 DEF CleanInv, ClosedOnCount
    <2>3. /\ Count \in Nat /\ Word \in Nat /\ Count <= Word - 1
          /\ sent \in Nat /\ tokens \in Nat /\ Cardinality(Slots) \in Nat
      BY RunnerAssumption, CapacityNat, SlotsFinite DEF TypeOK
    <2>4. CASE Receive(w)
      <3>1. Cardinality(Slots') = Cardinality(Slots) + 1
        BY <2>4, SlotTaken DEF Receive, WorkerStep, Holding
      <3> QED BY <2>2, <2>3, <2>4, <3>1 DEF Receive, Taken
    <2>5. CASE CountSent(w)
      <3>1. Cardinality(Slots') = Cardinality(Slots) - 1 /\ Cardinality(Slots) > 0
        BY <2>5, SlotGiven DEF CountSent, WorkerStep, Holding
      <3> QED BY <2>2, <2>3, <2>5, <3>1 DEF CountSent, Inc, Taken
    <2>6. CASE ~Receive(w) /\ ~CountSent(w)
      BY <2>1, <2>2, <2>6, QuietWorker DEF Taken
    <2> QED BY <2>4, <2>5, <2>6
  <1>4. ReturnedLast'
    <2>1. UNCHANGED <<disp, returned>>
      BY DEF Worker, Refuse, Local, Socket, Receive, Release, ReleaseQuit, CountSent, Dial,
           DialFails, StopOnCtx, StopOnClose, BuildFails, EncodeFails, WriteDatagram,
           WriteFails, BufferFrame, BufferRefuses, Flush, FlushFails, CloseIdle,
           CloseFlushing, Leave, WorkerStep
    <2>2. wpc[w] \notin Terminal
      BY DEF Worker, Refuse, Local, Socket, Receive, Release, ReleaseQuit, CountSent, Dial,
           DialFails, StopOnCtx, StopOnClose, BuildFails, EncodeFails, WriteDatagram,
           WriteFails, BufferFrame, BufferRefuses, Flush, FlushFails, CloseIdle,
           CloseFlushing, Leave, WorkerStep, Terminal
    <2> QED BY <2>1, <2>2 DEF CleanInv, ReturnedLast
  <1> QED BY <1>1, <1>2, <1>3, <1>4 DEF CleanInv

\* A dispatcher step keeps the invariant of clean runs.
LEMMA DispatcherClean ==
  ASSUME TypeOK, SlotsConserved, CleanInv, Dispatcher
  PROVE  CleanInv'
  <1>1. UNCHANGED <<cancelled, wpc, sent, errors, werr, returned>>
    BY DEF Dispatcher, CtxCheck, CountGate, PacerWait, Offer, OfferAbort, AddIssued,
           DispStep, ioVars
  <1>2. disp # "closed"
    BY DEF Dispatcher, CtxCheck, CountGate, PacerWait, Offer, OfferAbort, AddIssued,
           DispStep
  <1>3. NoSlotLost' /\ ReturnedLast'
    BY <1>1, <1>2 DEF CleanInv, NoSlotLost, ReturnedLast
  <1>4. NobodyLeavesEarly'
    BY <1>1, <1>2 DEF CleanInv, NobodyLeavesEarly
  <1>5. ClosedOnCount'
    <2> SUFFICES ASSUME errors = 0, ~cancelled, disp' = "closed"
                 PROVE  Count > 0 /\ Taken' = Count
      BY <1>1 DEF ClosedOnCount
    <2>1. CountGate /\ Count > 0 /\ issued >= Count /\ tokens' = tokens
      BY DEF Dispatcher, CtxCheck, CountGate, PacerWait, Offer, OfferAbort, AddIssued,
             DispStep
    <2>2. Taken' = Taken
      BY <1>1, <2>1 DEF Taken, Slots
    <2>3. issued = Taken /\ Taken <= Count
      BY <2>1 DEF SlotsConserved, CountGate, DispStep
    <2>4. Count \in Nat /\ issued \in Nat
      BY RunnerAssumption DEF TypeOK
    <2> QED BY <2>1, <2>2, <2>3, <2>4
  <1> QED BY <1>3, <1>4, <1>5 DEF CleanInv

\* The invariant of clean runs holds in every reachable state.
LEMMA CleanInvariant == SafetySpec => []CleanInv
  <1>1. Init => CleanInv
    BY DEF Init, CleanInv, NoSlotLost, NobodyLeavesEarly, ClosedOnCount, ReturnedLast
  <1>2. TypeOK /\ SlotsConserved /\ CleanInv /\ [Next]_vars => CleanInv'
    <2> SUFFICES ASSUME TypeOK, SlotsConserved, CleanInv, [Next]_vars PROVE CleanInv'
      OBVIOUS
    <2>1. CASE Dispatcher
      BY <2>1, DispatcherClean
    <2>2. CASE \E w \in Workers : Worker(w)
      BY <2>2, WorkerClean
    <2>3. CASE Cancel
      BY <2>3 DEF Cancel, dispVars, ioVars, CleanInv, NoSlotLost, NobodyLeavesEarly,
                  ClosedOnCount, ReturnedLast
    <2>4. CASE Return \/ UNCHANGED vars
      <3>1. UNCHANGED <<cancelled, disp, tokens, wpc, sent, errors, werr>>
        BY <2>4 DEF Return, vars, dispVars, ioVars
      <3>2. NoSlotLost' /\ NobodyLeavesEarly'
        BY <3>1 DEF CleanInv, NoSlotLost, NobodyLeavesEarly
      <3>3. ClosedOnCount'
        BY <3>1 DEF CleanInv, ClosedOnCount, Taken, Slots
      <3>4. ReturnedLast'
        BY <2>4, <3>1 DEF CleanInv, ReturnedLast, Return, vars
      <3> QED BY <3>2, <3>3, <3>4 DEF CleanInv
    <2> QED BY <2>1, <2>2, <2>3, <2>4 DEF Next, Done
  <1> QED BY <1>1, <1>2, TypeCorrect, LedgerBalances, PTL DEF SafetySpec

\* With no cancellation, no error and a worker that came up, Run returns
\* having emitted exactly Count frames.
THEOREM CleanRunExact == SafetySpec => []CleanRunIsExact
  <1>1. TypeOK /\ CleanInv => CleanRunIsExact
    <2> SUFFICES ASSUME TypeOK, CleanInv, returned, ~cancelled, errors = 0,
                        NEW w \in Workers, wpc[w] # "failed"
                 PROVE  sent = Count
      BY DEF CleanRunIsExact
    <2>1. wpc[w] = "gone" /\ disp = "closed"
      BY DEF CleanInv, ReturnedLast, NoSlotLost, Terminal
    <2>2. tokens = 0 /\ Taken = Count
      BY <2>1 DEF CleanInv, NobodyLeavesEarly, ClosedOnCount
    <2>3. Slots = {}
      BY DEF CleanInv, ReturnedLast, NoSlotLost, Terminal, Slots, Holding
    <2>4. Cardinality(Slots) = 0
      BY <2>3, FS_EmptySet
    <2> QED BY <2>2, <2>4 DEF Taken, TypeOK
  <1> QED BY <1>1, TypeCorrect, CleanInvariant, PTL

-----------------------------------------------------------------------------
(***************************************************************************)
(* Run implements CountedRun.                                              *)
(***************************************************************************)
Excused == cancelled \/ errors > 0 \/ AllFailed

\* A worker step is an Emit, an Excuse or a stutter of the contract.
LEMMA WorkerRefines ==
  ASSUME NEW w \in Workers, TypeOK, SlotsConserved, CleanInv, Worker(w)
  PROVE  [Contract!Next]_(Contract!vars)
  <1>1. wpc[w] \notin Terminal /\ UNCHANGED <<cancelled, returned>>
    BY DEF Worker, Refuse, Local, Socket, Receive, Release, ReleaseQuit, CountSent, Dial,
           DialFails, StopOnCtx, StopOnClose, BuildFails, EncodeFails, WriteDatagram,
           WriteFails, BufferFrame, BufferRefuses, Flush, FlushFails, CloseIdle,
           CloseFlushing, Leave, WorkerStep, Terminal
  <1>2. ~returned /\ ~AllFailed
    BY <1>1 DEF CleanInv, ReturnedLast, AllFailed, Terminal
  <1>3. CASE CountSent(w)
    <2>1. errors' = errors /\ ~AllFailed'
      BY <1>3 DEF CountSent, WorkerStep, Goto, AllFailed, TypeOK
    <2>2. Excused' = Excused
      BY <1>1, <1>2, <2>1 DEF Excused
    <2>3. Count = 0 \/ sent < Count
      <3>1. Cardinality(Slots) > 0
        BY <1>3, SlotGiven DEF CountSent, WorkerStep, Holding
      <3> QED BY <3>1, RunnerAssumption, CapacityNat, SlotsFinite
              DEF TypeOK, SlotsConserved, Taken
    <2>4. Contract!Emit
      BY <1>1, <1>2, <1>3, <2>2, <2>3 DEF Contract!Emit, CountSent, Inc, Excused
    <2> QED BY <2>4 DEF Contract!Next
  <1>4. CASE ~CountSent(w)
    <2>1. sent' = sent
      BY <1>4 DEF Worker, Refuse, Local, Socket, Receive, Release, ReleaseQuit, Dial,
           DialFails, StopOnCtx, StopOnClose, BuildFails, EncodeFails, WriteDatagram,
           WriteFails, BufferFrame, BufferRefuses, Flush, FlushFails, CloseIdle,
           CloseFlushing
    <2>2. errors' = errors \/ errors' > 0
      BY RunnerAssumption
         DEF Worker, Refuse, Local, Socket, Receive, Release, ReleaseQuit, CountSent, Dial,
           DialFails, StopOnCtx, StopOnClose, BuildFails, EncodeFails, WriteDatagram,
           WriteFails, BufferFrame, BufferRefuses, Flush, FlushFails, CloseIdle,
           CloseFlushing, CountError, TypeOK
    <2>3. CASE Excused'
      BY <1>1, <1>2, <2>1, <2>3 DEF Contract!Next, Contract!Excuse, Excused
    <2>4. CASE ~Excused'
      <3>1. ~Excused
        BY <1>1, <1>2, <2>2, <2>4 DEF Excused
      <3> QED BY <1>1, <2>1, <2>4, <3>1 DEF Contract!vars, Excused
    <2> QED BY <2>3, <2>4
  <1> QED BY <1>3, <1>4

\* Run implements the contract CountedRun: it emits one frame at a time, never
\* past Count, and returns short of Count only with an excuse.
THEOREM RunImplementsContract == SafetySpec => ImplementsCountedRun
  <1>1. Init => Contract!Init
    <2> SUFFICES ASSUME Init PROVE Contract!Init
      OBVIOUS
    <2>1. ~AllFailed
      BY RunnerAssumption DEF Init, AllFailed
    <2> QED BY <2>1 DEF Init, Contract!Init
  <1>2. /\ TypeOK /\ SlotsConserved /\ CleanInv /\ CleanRunIsExact'
        /\ CleanInv' /\ [Next]_vars
        => [Contract!Next]_(Contract!vars)
    <2> SUFFICES ASSUME TypeOK, SlotsConserved, CleanInv, CleanRunIsExact', CleanInv',
                        [Next]_vars
                 PROVE  [Contract!Next]_(Contract!vars)
      OBVIOUS
    <2>1. CASE \E w \in Workers : Worker(w)
      BY <2>1, WorkerRefines
    <2>2. CASE Cancel
      BY <2>2 DEF Cancel, Contract!Next, Contract!Excuse
    <2>3. CASE Dispatcher \/ UNCHANGED vars
      <3>1. UNCHANGED <<cancelled, wpc, sent, errors, returned>>
        BY <2>3 DEF Dispatcher, CtxCheck, CountGate, PacerWait, Offer, OfferAbort,
                    AddIssued, DispStep, vars
      <3>2. AllFailed' = AllFailed
        BY <3>1 DEF AllFailed
      <3> QED BY <3>1, <3>2 DEF Contract!vars
    <2>4. CASE Return
      <3>1. ~returned /\ returned' /\ UNCHANGED <<cancelled, disp, wpc, sent, errors>>
        BY <2>4 DEF Return, dispVars
      <3>2. AllFailed' = AllFailed /\ Excused' = Excused
        BY <3>1 DEF AllFailed, Excused
      <3>3. Excused \/ (Count > 0 /\ sent = Count)
        <4> SUFFICES ASSUME ~Excused PROVE Count > 0 /\ sent = Count
          OBVIOUS
        <4>1. errors = 0 /\ ~cancelled /\ ~AllFailed
          BY DEF Excused, TypeOK
        <4>2. sent = Count
          BY <3>1, <4>1 DEF CleanRunIsExact, AllFailed
        <4>3. Count > 0
          BY <2>4, <4>1 DEF Return, CleanInv, ClosedOnCount
        <4> QED BY <4>2, <4>3
      <3>4. Contract!Finish
        BY <3>1, <3>2, <3>3, <2>4 DEF Contract!Finish, Excused, Return
      <3> QED BY <3>4 DEF Contract!Next
    <2> QED BY <2>1, <2>2, <2>3, <2>4 DEF Next, Done
  <1> QED BY <1>1, <1>2, TypeCorrect, LedgerBalances, CleanInvariant, CleanRunExact, PTL
          DEF SafetySpec, ImplementsCountedRun, Contract!Spec

-----------------------------------------------------------------------------
(***************************************************************************)
(* The frames on the wire.  A frame that a worker has buffered and counted *)
(* is paid for by its slot although it is not on the wire yet: the books   *)
(* balance only with the buffered frames, over all workers, in them.  They *)
(* are counted as a set of pairs of a worker and a place in its buffer.    *)
(* The frame whose flush is under way is not counted.  What a failed       *)
(* writer holds will never be sent, so that it is not Spare, but Run may   *)
(* have reported it, so that it is Buffered.                               *)
(***************************************************************************)
Held(w)    == IF wpc[w] = "flush" THEN buf[w] - 1 ELSE buf[w]
Waiting(w) == IF werr[w] THEN 0 ELSE Held(w)

Frames(n) == UNION {{w} \X (1 .. n[w]) : w \in Workers}
Spare     == Frames([w \in Workers |-> Waiting(w)])
Buffered  == Frames([w \in Workers |-> Held(w)])
Wrote     == {w \in Workers : wpc[w] = "wrote"}

\* No more frames than slots reach the wire, and no fewer than slots but for
\* what is buffered.
WireInv ==
    /\ \A w \in Workers :
          /\ wpc[w] = "flush" => buf[w] > 0 /\ ~werr[w]
          /\ (wpc[w] \in Terminal \cup {"dial"} /\ ~werr[w]) => buf[w] = 0
    /\ IsFiniteSet(Spare) /\ IsFiniteSet(Buffered)
    /\ Count > 0 =>
          /\ wire + Cardinality(Spare) <= sent + Cardinality(Wrote)
          /\ sent + Cardinality(Wrote) <= wire + Cardinality(Buffered)

\* The parts of a finite set are counted apart.
LEMMA DisjointUnion ==
  ASSUME NEW S, NEW T, IsFiniteSet(S), IsFiniteSet(T), S \cap T = {}
  PROVE  /\ IsFiniteSet(S \cup T)
         /\ Cardinality(S \cup T) = Cardinality(S) + Cardinality(T)
  <1>1. Cardinality(S \cap T) = 0 /\ Cardinality(S) \in Nat /\ Cardinality(T) \in Nat
    BY FS_EmptySet, FS_CardinalityType
  <1>2. /\ IsFiniteSet(S \cup T)
        /\ Cardinality(S \cup T) = Cardinality(S) + Cardinality(T) - Cardinality(S \cap T)
    BY FS_Union
  <1> QED BY <1>1, <1>2

\* A step of one worker changes the number of buffered frames by what it does
\* to its own buffer.
LEMMA FramesMove ==
  ASSUME NEW w \in Workers, NEW n, NEW m, IsFiniteSet(Frames(n)),
         n[w] \in Nat, m[w] \in Nat, \A v \in Workers \ {w} : m[v] = n[v]
  PROVE  /\ IsFiniteSet(Frames(m))
         /\ Cardinality(Frames(n)) \in Nat /\ Cardinality(Frames(m)) \in Nat
         /\ Cardinality(Frames(m)) = Cardinality(Frames(n)) + m[w] - n[w]
  <1> DEFINE Rest == {p \in Frames(n) : p[1] # w}
             Mine == {w} \X (1 .. n[w])
             Left == {w} \X (1 .. m[w])
  <1>1. \A k \in Nat : IsFiniteSet({w} \X (1 .. k)) /\ Cardinality({w} \X (1 .. k)) = k
    <2> SUFFICES ASSUME NEW k \in Nat
                 PROVE  IsFiniteSet({w} \X (1 .. k)) /\ Cardinality({w} \X (1 .. k)) = k
      OBVIOUS
    <2>1. IsFiniteSet({w}) /\ Cardinality({w}) = 1
      BY FS_Singleton
    <2>2. IsFiniteSet(1 .. k) /\ Cardinality(1 .. k) = k
      <3>1. 1 \in Int /\ k \in Int /\ (IF 1 > k THEN 0 ELSE k - 1 + 1) = k
        OBVIOUS
      <3> QED BY <3>1, FS_Interval
    <2>3. 1 * k = k
      OBVIOUS
    <2> QED BY <2>1, <2>2, <2>3, FS_Product
  <1>2. Frames(n) = Rest \cup Mine /\ Rest \cap Mine = {}
    BY DEF Frames
  <1>3. Frames(m) = Rest \cup Left /\ Rest \cap Left = {}
    BY DEF Frames
  <1>4. IsFiniteSet(Rest) /\ Cardinality(Rest) \in Nat
    BY FS_Subset, FS_CardinalityType
  <1>5. IsFiniteSet(Mine) /\ Cardinality(Mine) = n[w]
    BY <1>1
  <1>6. IsFiniteSet(Left) /\ Cardinality(Left) = m[w]
    BY <1>1
  <1> HIDE DEF Rest, Mine, Left
  <1>7. Cardinality(Rest \cup Mine) = Cardinality(Rest) + Cardinality(Mine)
    BY <1>2, <1>4, <1>5, DisjointUnion
  <1>8. /\ IsFiniteSet(Rest \cup Left)
        /\ Cardinality(Rest \cup Left) = Cardinality(Rest) + Cardinality(Left)
    BY <1>3, <1>4, <1>6, DisjointUnion
  <1> QED BY <1>2, <1>3, <1>4, <1>5, <1>6, <1>7, <1>8

\* A worker's share of the frames that are about to be counted.
Hit(w) == IF wpc[w] = "wrote" THEN 1 ELSE 0

\* One worker moving changes the number of frames about to be counted by what
\* it does itself.
LEMMA WroteMoves ==
  ASSUME NEW w \in Workers, \A v \in Workers \ {w} : wpc'[v] = wpc[v]
  PROVE  /\ Cardinality(Wrote) \in Nat /\ Cardinality(Wrote') \in Nat
         /\ Cardinality(Wrote') = Cardinality(Wrote) + Hit(w)' - Hit(w)
  <1>1. IsFiniteSet(Wrote) /\ Cardinality(Wrote) \in Nat
    BY RunnerAssumption, FS_Subset, FS_CardinalityType DEF Wrote
  <1>2. IsFiniteSet(Wrote') /\ Cardinality(Wrote') \in Nat
    BY RunnerAssumption, FS_Subset, FS_CardinalityType DEF Wrote
  <1>3. CASE (wpc[w] = "wrote") <=> (wpc'[w] = "wrote")
    <2>1. Wrote' = Wrote
      BY <1>3 DEF Wrote
    <2> QED BY <1>1, <1>3, <2>1 DEF Hit
  <1>4. CASE wpc[w] # "wrote" /\ wpc'[w] = "wrote"
    <2>1. Wrote' = Wrote \cup {w} /\ w \notin Wrote
      BY <1>4 DEF Wrote
    <2>2. Cardinality(Wrote') = Cardinality(Wrote) + 1
      BY <1>1, <2>1, FS_AddElement
    <2> QED BY <1>1, <1>2, <1>4, <2>2 DEF Hit
  <1>5. CASE wpc[w] = "wrote" /\ wpc'[w] # "wrote"
    <2>1. Wrote = Wrote' \cup {w} /\ w \notin Wrote'
      BY <1>5 DEF Wrote
    <2>2. Cardinality(Wrote) = Cardinality(Wrote') + 1
      BY <1>2, <2>1, FS_AddElement
    <2> QED BY <1>1, <1>2, <1>5, <2>2 DEF Hit
  <1> QED BY <1>3, <1>4, <1>5

\* What a step of one worker has to do to its own buffer and to the counters.
LEMMA WireStep ==
  ASSUME NEW w \in Workers, TypeOK, TypeOK', WireInv,
         \A v \in Workers \ {w} : wpc'[v] = wpc[v] /\ buf'[v] = buf[v] /\ werr'[v] = werr[v],
         wpc'[w] = "flush" => buf'[w] > 0 /\ ~werr'[w],
         (wpc'[w] \in Terminal \cup {"dial"} /\ ~werr'[w]) => buf'[w] = 0,
         Count > 0 =>
            /\ wire' + Waiting(w)' + sent + Hit(w) <= wire + Waiting(w) + sent' + Hit(w)'
            /\ wire + Held(w) + sent' + Hit(w)' <= wire' + Held(w)' + sent + Hit(w)
  PROVE  WireInv'
  <1> DEFINE n == [v \in Workers |-> Waiting(v)]
             m == [v \in Workers |-> Waiting(v)']
             h == [v \in Workers |-> Held(v)]
             k == [v \in Workers |-> Held(v)']
  <1>1. \A v \in Workers \ {w} : m[v] = n[v] /\ k[v] = h[v]
    BY DEF Waiting, Held
  <1>2. /\ Waiting(w) \in Nat /\ Waiting(w)' \in Nat /\ Held(w) \in Nat /\ Held(w)' \in Nat
        /\ Hit(w) \in Nat /\ Hit(w)' \in Nat
        /\ wire \in Nat /\ wire' \in Nat /\ sent \in Nat /\ sent' \in Nat
    BY RunnerAssumption DEF Waiting, Held, Hit, TypeOK, WireInv
  <1>3. /\ n[w] = Waiting(w) /\ m[w] = Waiting(w)' /\ h[w] = Held(w) /\ k[w] = Held(w)'
        /\ Spare = Frames(n) /\ Spare' = Frames(m)
        /\ Buffered = Frames(h) /\ Buffered' = Frames(k)
    BY DEF Spare, Buffered, Frames
  <1> HIDE DEF n, m, h, k
  <1>4. /\ IsFiniteSet(Spare')
        /\ Cardinality(Spare) \in Nat /\ Cardinality(Spare') \in Nat
        /\ Cardinality(Spare') = Cardinality(Spare) + Waiting(w)' - Waiting(w)
    <2>1. IsFiniteSet(Frames(n)) /\ n[w] \in Nat /\ m[w] \in Nat
      BY <1>2, <1>3 DEF WireInv
    <2>2. /\ IsFiniteSet(Frames(m))
          /\ Cardinality(Frames(n)) \in Nat /\ Cardinality(Frames(m)) \in Nat
          /\ Cardinality(Frames(m)) = Cardinality(Frames(n)) + m[w] - n[w]
      BY <1>1, <2>1, FramesMove
    <2> QED BY <1>3, <2>2
  <1>5. /\ IsFiniteSet(Buffered')
        /\ Cardinality(Buffered) \in Nat /\ Cardinality(Buffered') \in Nat
        /\ Cardinality(Buffered') = Cardinality(Buffered) + Held(w)' - Held(w)
    <2>1. IsFiniteSet(Frames(h)) /\ h[w] \in Nat /\ k[w] \in Nat
      BY <1>2, <1>3 DEF WireInv
    <2>2. /\ IsFiniteSet(Frames(k))
          /\ Cardinality(Frames(h)) \in Nat /\ Cardinality(Frames(k)) \in Nat
          /\ Cardinality(Frames(k)) = Cardinality(Frames(h)) + k[w] - h[w]
      BY <1>1, <2>1, FramesMove
    <2> QED BY <1>3, <2>2
  <1>6. /\ Cardinality(Wrote) \in Nat /\ Cardinality(Wrote') \in Nat
        /\ Cardinality(Wrote') = Cardinality(Wrote) + Hit(w)' - Hit(w)
    BY WroteMoves
  <1>7. \A v \in Workers :
          /\ wpc'[v] = "flush" => buf'[v] > 0 /\ ~werr'[v]
          /\ (wpc'[v] \in Terminal \cup {"dial"} /\ ~werr'[v]) => buf'[v] = 0
    BY DEF WireInv
  <1>8. Count > 0 => /\ wire + Cardinality(Spare) <= sent + Cardinality(Wrote)
                     /\ sent + Cardinality(Wrote) <= wire + Cardinality(Buffered)
    BY DEF WireInv
  <1>9. Count > 0 => wire' + Cardinality(Spare') <= sent' + Cardinality(Wrote')
    BY <1>2, <1>4, <1>6, <1>8
  <1>10. Count > 0 => sent' + Cardinality(Wrote') <= wire' + Cardinality(Buffered')
    BY <1>2, <1>5, <1>6, <1>8
  <1> QED BY <1>4, <1>5, <1>7, <1>9, <1>10 DEF WireInv

\* Every step of a worker keeps the books of the wire.
LEMMA WorkerWire ==
  ASSUME NEW w \in Workers, TypeOK, TypeOK', SlotsConserved, WireInv, Worker(w)
  PROVE  WireInv'
  <1>0. /\ buf[w] \in Nat /\ wire \in Nat /\ sent \in Nat
        /\ Word \in Nat /\ Count \in Nat /\ Count <= Word - 1
        /\ wpc[w] = "flush" => buf[w] > 0 /\ ~werr[w]
        /\ (wpc[w] \in Terminal \cup {"dial"} /\ ~werr[w]) => buf[w] = 0
    BY RunnerAssumption DEF TypeOK, WireInv
  <1>1. CASE Dial(w) \/ DialFails(w) \/ Receive(w) \/ StopOnCtx(w) \/ StopOnClose(w)
    <2>1. /\ UNCHANGED <<buf, werr, wire, sent>>
          /\ \E pc \in {"recv", "failed", "hold", "closing"} : Goto(w, pc)
          /\ wpc[w] \in {"dial", "recv"} /\ (wpc'[w] = "failed" => wpc[w] = "dial")
      BY <1>1 DEF Dial, DialFails, Receive, StopOnCtx, StopOnClose, WorkerStep, Goto, ioVars, TypeOK
    <2> QED BY <1>0, <2>1, WireStep DEF Goto, Waiting, Held, Hit, Terminal, TypeOK
  <1>2. CASE \/ BuildFails(w) \/ EncodeFails(w) \/ WriteFails(w) \/ BufferRefuses(w)
             \/ Release(w) \/ ReleaseQuit(w)
    <2>1. /\ UNCHANGED <<buf, werr, wire, sent>>
          /\ \E pc \in {"release", "releaseQuit", "closingHeld", "recv", "closing"} : Goto(w, pc)
          /\ wpc[w] \in {"hold", "release", "releaseQuit"}
      BY <1>2 DEF BuildFails, EncodeFails, WriteFails, BufferRefuses, Release, ReleaseQuit,
                  WorkerStep, ioVars
    <2> QED BY <1>0, <2>1, WireStep DEF Goto, Waiting, Held, Hit, Terminal, TypeOK
  <1>3. CASE WriteDatagram(w)
    BY <1>0, <1>3, WireStep DEF WriteDatagram, WorkerStep, Goto, Waiting, Held, Hit, Terminal, TypeOK
  <1>4. CASE BufferFrame(w)
    <2>1. /\ ~werr[w] /\ UNCHANGED <<werr, wire, sent>> /\ buf' = [buf EXCEPT ![w] = @ + 1]
          /\ wpc[w] = "hold" /\ \E pc \in {"flush", "wrote"} : Goto(w, pc)
      BY <1>4 DEF BufferFrame, WorkerStep
    <2> QED BY <1>0, <2>1, WireStep DEF Goto, Waiting, Held, Hit, Terminal, TypeOK
  <1>5. CASE Flush(w)
    BY <1>0, <1>5, WireStep DEF Flush, FlushAll, WorkerStep, Goto, Waiting, Held, Hit, Terminal, TypeOK
  <1>6. CASE FlushFails(w)
    <2>1. PICK k \in 0 .. buf[w] - 1 : wire' = wire + k /\ buf' = [buf EXCEPT ![w] = @ - k]
      BY <1>6 DEF FlushFails, FlushBreaks
    <2>2. /\ werr' = [werr EXCEPT ![w] = TRUE] /\ sent' = sent
          /\ wpc[w] = "flush" /\ \E pc \in {"release", "closingHeld"} : Goto(w, pc)
      BY <1>6 DEF FlushFails, FlushBreaks, WorkerStep
    <2>3. /\ werr'[w] = TRUE /\ Waiting(w)' = 0 /\ Waiting(w) = buf[w] - 1
          /\ Held(w) = buf[w] - 1 /\ Held(w)' = buf[w] - k
      BY <1>0, <2>1, <2>2 DEF TypeOK, Goto, Waiting, Held
    <2>4. Hit(w)' = 0 /\ Hit(w) = 0 /\ wpc'[w] # "flush"
      BY <2>2 DEF Goto, Hit, TypeOK
    <2>5. /\ wire' + Waiting(w)' + sent + Hit(w) <= wire + Waiting(w) + sent' + Hit(w)'
          /\ wire + Held(w) + sent' + Hit(w)' <= wire' + Held(w)' + sent + Hit(w)
      BY <1>0, <2>1, <2>2, <2>3, <2>4
    <2>6. \A v \in Workers \ {w} : wpc'[v] = wpc[v] /\ buf'[v] = buf[v] /\ werr'[v] = werr[v]
      BY <2>1, <2>2 DEF Goto, TypeOK
    <2> QED BY <2>3, <2>4, <2>5, <2>6, WireStep
  <1>7. CASE CountSent(w)
    <2>1. Cardinality(Slots) > 0
      BY <1>7, SlotGiven DEF CountSent, WorkerStep, Holding
    <2>2. Count > 0 => sent' = sent + 1
      BY <1>0, <1>7, <2>1, SlotsFinite, CapacityNat
         DEF CountSent, Inc, SlotsConserved, Taken, TypeOK
    <2> QED BY <1>0, <1>7, <2>2, WireStep DEF CountSent, WorkerStep, Goto, ioVars, Waiting, Held, Hit,
                                              Terminal, TypeOK
  <1>8. CASE CloseIdle(w)
    BY <1>0, <1>8, WireStep DEF CloseIdle, Leave, WorkerStep, Goto, ioVars, Waiting, Held, Hit, Terminal,
                                TypeOK
  <1>9. CASE CloseFlushing(w)
    <2>1. /\ wpc[w] \in {"closing", "closingHeld"} /\ sent' = sent /\ ~werr[w]
          /\ \E pc \in {"gone", "goneHeld"} : Goto(w, pc)
      BY <1>9 DEF CloseFlushing, Leave, WorkerStep
    <2>2. CASE FlushAll(w)
      BY <1>0, <2>1, <2>2, WireStep DEF FlushAll, Goto, Waiting, Held, Hit, Terminal, TypeOK
    <2>3. CASE FlushBreaks(w)
      <3>1. PICK k \in 0 .. buf[w] - 1 : wire' = wire + k /\ buf' = [buf EXCEPT ![w] = @ - k]
        BY <2>3 DEF FlushBreaks
      <3>2. werr' = [werr EXCEPT ![w] = TRUE]
        BY <2>3 DEF FlushBreaks
      <3>3. /\ werr'[w] = TRUE /\ Waiting(w)' = 0 /\ Waiting(w) = buf[w]
            /\ Held(w) = buf[w] /\ Held(w)' = buf[w] - k
        BY <1>0, <2>1, <3>1, <3>2 DEF TypeOK, Goto, Waiting, Held
      <3>4. Hit(w)' = 0 /\ Hit(w) = 0 /\ wpc'[w] # "flush"
        BY <2>1 DEF Goto, Hit, TypeOK
      <3>5. /\ wire' + Waiting(w)' + sent + Hit(w) <= wire + Waiting(w) + sent' + Hit(w)'
            /\ wire + Held(w) + sent' + Hit(w)' <= wire' + Held(w)' + sent + Hit(w)
        BY <1>0, <2>1, <3>1, <3>2, <3>3, <3>4
      <3>6. \A v \in Workers \ {w} : wpc'[v] = wpc[v] /\ buf'[v] = buf[v] /\ werr'[v] = werr[v]
        BY <2>1, <3>1, <3>2 DEF Goto, TypeOK
      <3> QED BY <3>3, <3>4, <3>5, <3>6, WireStep
    <2> QED BY <1>9, <2>2, <2>3 DEF CloseFlushing
  <1> QED BY <1>1, <1>2, <1>3, <1>4, <1>5, <1>6, <1>7, <1>8, <1>9
          DEF Worker, Refuse, Local, Socket

\* The books of the wire balance in every reachable state of Run.
LEMMA WireInvariant == SafetySpec => []WireInv
  <1>1. Init => WireInv
    <2> SUFFICES ASSUME Init PROVE WireInv
      OBVIOUS
    <2>1. \A w \in Workers : ~werr[w] /\ buf[w] = 0 /\ wpc[w] = "dial"
                          /\ Waiting(w) = 0 /\ Held(w) = 0
      BY DEF Init, Waiting, Held
    <2>2. Spare = {} /\ Buffered = {} /\ Wrote = {}
      <3>1. \A w \in Workers : {w} \X (1 .. Waiting(w)) = {} /\ {w} \X (1 .. Held(w)) = {}
        BY <2>1
      <3>2. Spare = {} /\ Buffered = {}
        BY <3>1 DEF Spare, Buffered, Frames
      <3> QED BY <2>1, <3>2 DEF Wrote
    <2>3. /\ IsFiniteSet(Spare) /\ Cardinality(Spare) = 0 /\ Cardinality(Wrote) = 0
          /\ IsFiniteSet(Buffered) /\ Cardinality(Buffered) = 0
      BY <2>2, FS_EmptySet
    <2> QED BY <2>1, <2>3 DEF Init, WireInv
  <1>2. TypeOK /\ TypeOK' /\ SlotsConserved /\ WireInv /\ [Next]_vars => WireInv'
    <2> SUFFICES ASSUME TypeOK, TypeOK', SlotsConserved, WireInv, [Next]_vars PROVE WireInv'
      OBVIOUS
    <2>1. CASE \E w \in Workers : Worker(w)
      BY <2>1, WorkerWire
    <2>2. CASE Dispatcher \/ Cancel \/ Return \/ UNCHANGED vars
      <3>1. UNCHANGED <<wpc, sent, buf, werr, wire>>
        BY <2>2 DEF Dispatcher, CtxCheck, CountGate, PacerWait, Offer, OfferAbort, AddIssued,
                    DispStep, Cancel, Return, vars, ioVars
      <3>2. Spare' = Spare /\ Buffered' = Buffered /\ Wrote' = Wrote
        BY <3>1 DEF Spare, Buffered, Frames, Waiting, Held, Wrote
      <3> QED BY <3>1, <3>2 DEF WireInv
    <2> QED BY <2>1, <2>2 DEF Next, Done
  <1> QED BY <1>1, <1>2, TypeCorrect, LedgerBalances, PTL DEF SafetySpec

\* The kernel never accepts more frames than Run has counted or is about to,
\* on however many connections and whatever they fail with.
THEOREM WireNeverExceedsSlots == SafetySpec => []WireWithinSlots
  <1>1. TypeOK /\ WireInv => WireWithinSlots
    <2> SUFFICES ASSUME TypeOK, WireInv, Count > 0
                 PROVE  wire <= sent + Cardinality(Wrote)
      BY DEF WireWithinSlots, Wrote
    <2>1. Cardinality(Spare) \in Nat /\ Cardinality(Wrote) \in Nat
      BY RunnerAssumption, FS_CardinalityType, FS_Subset DEF WireInv, Wrote
    <2> QED BY <2>1, RunnerAssumption DEF WireInv, TypeOK
  <1> QED BY <1>1, TypeCorrect, WireInvariant, PTL

\* By the time Run returns everything it reports as sent was handed to the
\* kernel, but for what a failed writer still held.
THEOREM TailsAreFlushed == SafetySpec => []FlushedAtReturn
  <1>1. TypeOK /\ WireInv /\ CleanInv => FlushedAtReturn
    <2> SUFFICES ASSUME TypeOK, WireInv, CleanInv, Count > 0, returned
                 PROVE  wire <= sent /\ sent <= wire + Cardinality(Stranded)
      BY DEF FlushedAtReturn
    <2>1. \A w \in Workers : wpc[w] \in Terminal
      BY DEF CleanInv, ReturnedLast
    <2>2. \A w \in Workers : wpc[w] # "wrote" /\ Held(w) = buf[w] /\ (~werr[w] => buf[w] = 0)
      BY <2>1 DEF WireInv, Held, Terminal
    <2>3. Wrote = {}
      BY <2>2 DEF Wrote
    <2>4. Buffered = Stranded
      <3>1. \A w \in Workers : ~werr[w] => {w} \X (1 .. Held(w)) = {}
        BY <2>2
      <3>2. Buffered = UNION {{w} \X (1 .. Held(w)) : w \in Workers}
        BY DEF Buffered, Frames
      <3> QED BY <2>2, <3>1, <3>2 DEF Stranded
    <2>5. Cardinality(Wrote) = 0 /\ Cardinality(Spare) \in Nat /\ Cardinality(Stranded) \in Nat
      BY <2>3, <2>4, FS_EmptySet, FS_CardinalityType DEF WireInv
    <2>6. /\ wire + Cardinality(Spare) <= sent + Cardinality(Wrote)
          /\ sent + Cardinality(Wrote) <= wire + Cardinality(Stranded)
      BY <2>4 DEF WireInv
    <2> QED BY <2>5, <2>6, RunnerAssumption DEF TypeOK
  <1> QED BY <1>1, TypeCorrect, WireInvariant, CleanInvariant, PTL
=============================================================================
