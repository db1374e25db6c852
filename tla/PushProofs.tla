----------------------------- MODULE PushProofs -----------------------------
(***************************************************************************)
(* Theorems about PushLoop and BlockPush, for every count, start height    *)
(* and number of failures.                                                 *)
(***************************************************************************)
EXTENDS BlockPush, TLAPS

\* The loop's variables keep their types.
LoopTypeOK ==
    /\ count \in Nat /\ cancelled \in BOOLEAN /\ conn \in BOOLEAN /\ sent \in Nat
    /\ pc \in {"dial", "backoff", "build", "write", "wait", "exited"}
    /\ site \in {"start", "loop"}
    /\ stream \in Seq({"whole", "part"})

\* What the loop keeps true: main only writes to a connection it has, and one
\* it still has carries whole objects only; -count is not reached before main
\* exits, and is reached exactly unless the context ended it.
LoopInv ==
    /\ LoopTypeOK
    /\ pc = "write" => conn = TRUE
    /\ conn = TRUE => \A i \in 1 .. Len(stream) : stream[i] = "whole"
    /\ ObjectAligned
    /\ (count > 0 /\ pc # "exited") => sent < count
    /\ pc = "exited" => cancelled = TRUE \/ (count > 0 /\ sent = count)

Hashes == Nat \X {0, 1}
Blocks == [hash : Hashes, prev : Hashes, height : Nat]

\* The block in hand is the one to be written next.
InHand == pc = "write" \/ (pc \in {"dial", "backoff"} /\ site = "loop")

\* What the block loop adds: prevHash is the hash of the last block that was
\* written whole, and a block in hand was built on it at the next height, no
\* matter how many blocks were built and lost in between.
BlockInv ==
    /\ LoopInv
    /\ prevHash \in Hashes /\ obj \in Blocks /\ chain \in Seq(Blocks)
    /\ sent = Len(chain)
    /\ prevHash = IF sent = 0 THEN Genesis ELSE chain[sent].hash
    /\ InHand => obj.prev = prevHash /\ obj.height = HeightStart + sent
    /\ ChainLinked

-----------------------------------------------------------------------------
(* The loop.                                                               *)

\* The flags are parsed and main dials.
LEMMA LoopStarts ==
  ASSUME LoopInit
  PROVE  LoopInv
  <1>1. count \in Nat
    BY PushAssumption DEF LoopInit
  <1>2. cancelled \in BOOLEAN /\ conn \in BOOLEAN
    BY Zenon DEF LoopInit
  <1> QED BY <1>1, <1>2 DEF LoopInit, LoopInv, LoopTypeOK, ObjectAligned

\* Cancelling, the control steps and staying put.
LEMMA ControlKeeps ==
  ASSUME LoopInv, Cancel \/ Control \/ UNCHANGED loopVars
  PROVE  LoopInv'
  <1>1. CASE Cancel
    <2>1. cancelled' \in BOOLEAN
      BY <1>1, Zenon DEF Cancel
    <2> QED BY <1>1, <2>1 DEF Cancel, LoopInv, LoopTypeOK, ObjectAligned
  <1>2. CASE Control
    BY <1>2 DEF Control, DialFails, BackoffEnds, DialGivesUp, Tick, StopOnCtx, LoopInv,
                LoopTypeOK, ObjectAligned
  <1>3. CASE UNCHANGED loopVars
    BY <1>3 DEF loopVars, LoopInv, LoopTypeOK, ObjectAligned
  <1> QED BY <1>1, <1>2, <1>3

\* A new connection carries nothing yet.
LEMMA DialKeeps ==
  ASSUME LoopInv, DialSucceeds
  PROVE  LoopInv'
  <1>1. conn' \in BOOLEAN
    BY Zenon DEF DialSucceeds
  <1>2. stream' \in Seq({"whole", "part"}) /\ Len(stream') = 0
    BY DEF DialSucceeds
  <1> QED BY <1>1, <1>2 DEF DialSucceeds, LoopInv, LoopTypeOK, ObjectAligned

\* Without a connection main dials before it writes.
LEMMA BuildKeeps ==
  ASSUME LoopInv, Build
  PROVE  LoopInv'
  BY DEF Build, LoopInv, LoopTypeOK, ObjectAligned

\* A whole object follows whole objects.
LEMMA WriteKeeps ==
  ASSUME LoopInv, WriteSucceeds
  PROVE  LoopInv'
  <1>1. /\ stream \in Seq({"whole", "part"}) /\ stream' = Append(stream, "whole")
        /\ \A i \in 1 .. Len(stream) : stream[i] = "whole"
        /\ sent \in Nat /\ count \in Nat
    BY DEF WriteSucceeds, LoopInv, LoopTypeOK
  <1>2. /\ stream' \in Seq({"whole", "part"})
        /\ Len(stream') = Len(stream) + 1 /\ Len(stream) \in Nat
        /\ \A i \in 1 .. Len(stream') : stream'[i] = "whole"
    BY <1>1
  <1>3. ObjectAligned'
    BY <1>2 DEF ObjectAligned
  <1> QED BY <1>1, <1>2, <1>3 DEF WriteSucceeds, LoopInv, LoopTypeOK

\* A partial object ends its connection.
LEMMA WriteFailsKeeps ==
  ASSUME LoopInv, WriteFails
  PROVE  LoopInv'
  <1>1. conn' = FALSE /\ conn' \in BOOLEAN
    BY Zenon DEF WriteFails
  <1>2. /\ stream \in Seq({"whole", "part"}) /\ Len(stream) \in Nat
        /\ \A i \in 1 .. Len(stream) : stream[i] = "whole"
        /\ stream' \in {stream, Append(stream, "part")}
    BY DEF WriteFails, LoopInv, LoopTypeOK
  <1>3. stream' \in Seq({"whole", "part"}) /\ ObjectAligned'
    <2>1. CASE stream' = stream
      BY <1>2, <2>1 DEF ObjectAligned
    <2>2. CASE stream' = Append(stream, "part")
      BY <1>2, <2>2 DEF ObjectAligned
    <2> QED BY <1>2, <2>1, <2>2
  <1> QED BY <1>1, <1>3 DEF WriteFails, LoopInv, LoopTypeOK

\* Every step of send-subtree-push.
LEMMA LoopKeeps ==
  ASSUME LoopInv, [LoopNext]_loopVars
  PROVE  LoopInv'
  BY ControlKeeps, DialKeeps, BuildKeeps, WriteKeeps, WriteFailsKeeps DEF LoopNext, Exited

\* send-subtree-push never writes behind a partial object, on whichever
\* connection and after however many failures, whatever the peer does.
THEOREM SubtreesAligned == AnyPeerSpec => []ObjectAligned
  <1>1. LoopInv /\ [LoopNext]_loopVars => LoopInv'
    BY LoopKeeps
  <1>2. LoopInv => ObjectAligned
    BY DEF LoopInv
  <1> QED BY <1>1, <1>2, LoopStarts, PTL DEF AnyPeerSpec

-----------------------------------------------------------------------------
(* The chain of blocks.                                                    *)

\* Nothing is written yet.
LEMMA BlockStarts ==
  ASSUME Init
  PROVE  BlockInv
  <1>1. LoopInv
    BY LoopStarts DEF Init
  <1> QED BY <1>1 DEF Init, LoopInit, BlockInv, InHand, ChainLinked, Hashes, Blocks, Genesis

\* A block is built on the last one written.
LEMMA BuildBlockKeeps ==
  ASSUME BlockInv, BuildBlock
  PROVE  BlockInv'
  <1>1. LoopInv'
    BY BuildKeeps DEF BlockInv, BuildBlock
  <1>2. /\ sent' = sent /\ prevHash' = prevHash /\ chain' = chain
        /\ obj' = NewBlock(prevHash)
    BY DEF BuildBlock, Build
  <1>3. sent \in Nat /\ obj.hash[2] \in {0, 1} /\ prevHash \in Hashes /\ HeightStart \in Nat
    BY HeightAssumption DEF BlockInv, LoopInv, LoopTypeOK, Blocks, Hashes
  <1>4. obj' \in Blocks /\ obj'.prev = prevHash /\ obj'.height = HeightStart + sent
    BY <1>2, <1>3 DEF NewBlock, Blocks, Hashes
  <1> QED BY <1>1, <1>2, <1>4 DEF BlockInv, ChainLinked

\* The block written joins the chain.
LEMMA WriteBlockKeeps ==
  ASSUME BlockInv, WriteBlock
  PROVE  BlockInv'
  <1>1. LoopInv'
    BY WriteKeeps DEF BlockInv, WriteBlock
  <1>2. /\ sent' = sent + 1 /\ prevHash' = obj.hash /\ obj' = obj
        /\ chain' = Append(chain, obj) /\ pc = "write" /\ pc' \in {"exited", "wait"}
    BY DEF WriteBlock, WriteSucceeds
  <1>3. /\ sent \in Nat /\ sent = Len(chain) /\ chain \in Seq(Blocks) /\ obj \in Blocks
        /\ obj.prev = prevHash /\ obj.height = HeightStart + sent
        /\ obj.hash \in Hashes /\ HeightStart \in Nat
    BY <1>2, HeightAssumption DEF BlockInv, LoopInv, LoopTypeOK, InHand, Blocks
  <1>4. /\ chain' \in Seq(Blocks) /\ Len(chain') = sent + 1
        /\ chain'[sent + 1] = obj
        /\ \A i \in 1 .. sent : chain'[i] = chain[i]
    BY <1>2, <1>3
  <1>5. ChainLinked'
    <2> SUFFICES ASSUME NEW i \in 1 .. sent + 1
                 PROVE  /\ chain'[i].height = HeightStart + i - 1
                        /\ chain'[i].prev = IF i = 1 THEN Genesis ELSE chain'[i - 1].hash
      BY <1>4 DEF ChainLinked
    <2>1. CASE i = sent + 1
      <3>1. chain'[i] = obj /\ (i = 1 <=> sent = 0) /\ i - 1 = sent
        BY <1>3, <1>4, <2>1
      <3>2. sent # 0 => chain'[sent] = chain[sent]
        BY <1>3, <1>4
      <3>3. prevHash = IF sent = 0 THEN Genesis ELSE chain[sent].hash
        BY DEF BlockInv
      <3> QED BY <1>3, <2>1, <3>1, <3>2, <3>3
    <2>2. CASE i \in 1 .. sent
      <3>1. /\ chain[i].height = HeightStart + i - 1
            /\ chain[i].prev = IF i = 1 THEN Genesis ELSE chain[i - 1].hash
        BY <1>3, <2>2 DEF BlockInv, ChainLinked
      <3>2. chain'[i] = chain[i] /\ (i # 1 => chain'[i - 1] = chain[i - 1])
        BY <1>3, <1>4, <2>2
      <3> QED BY <3>1, <3>2
    <2> QED BY <1>3, <2>1, <2>2
  <1>6. ~InHand'
    BY <1>2 DEF InHand
  <1> QED BY <1>1, <1>2, <1>3, <1>4, <1>5, <1>6 DEF BlockInv

\* The rest of the loop leaves the chain alone, and no other step takes main
\* to the write or into a dial of the loop.
LEMMA OtherKeeps ==
  ASSUME BlockInv, (Other /\ UNCHANGED blockVars) \/ UNCHANGED vars
  PROVE  BlockInv'
  <1>1. LoopInv'
    BY LoopKeeps DEF BlockInv, Other, LoopNext, vars
  <1>2. sent' = sent /\ UNCHANGED blockVars /\ (InHand' => InHand)
    BY DEF Other, Cancel, Control, DialFails, BackoffEnds, DialGivesUp, Tick, StopOnCtx,
           DialSucceeds, WriteFails, Exited, vars, loopVars, InHand, BlockInv, LoopInv, LoopTypeOK
  <1> QED BY <1>1, <1>2 DEF BlockInv, ChainLinked, blockVars

\* Every run of send-block-push keeps the invariant.
LEMMA BlockInvariant == BlockSpec => []BlockInv
  <1>1. BlockInv /\ [Next]_vars => BlockInv'
    BY BuildBlockKeeps, WriteBlockKeeps, OtherKeeps DEF Next
  <1> QED BY <1>1, BlockStarts, PTL DEF BlockSpec

\* The same for send-block-push: a partial block is the last thing its
\* connection carries.
THEOREM BlocksAligned == BlockSpec => []ObjectAligned
  <1>1. BlockInv => ObjectAligned
    BY DEF BlockInv, LoopInv
  <1> QED BY <1>1, BlockInvariant, PTL

\* Blocks form one chain without forks or holes, whatever is lost.
THEOREM BlocksChained == BlockSpec => []ChainLinked
  <1>1. BlockInv => ChainLinked
    BY DEF BlockInv
  <1> QED BY <1>1, BlockInvariant, PTL

\* -count is exact: failed writes are neither counted nor forgotten.
THEOREM BlocksCounted == BlockSpec => []PushCountExact
  <1>1. BlockInv => PushCountExact
    BY DEF BlockInv, LoopInv, PushCountExact
  <1> QED BY <1>1, BlockInvariant, PTL
=============================================================================
