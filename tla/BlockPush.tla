----------------------------- MODULE BlockPush ------------------------------
(***************************************************************************)
(* send-block-push (src/cmd/send-block-push/main.go): the loop of PushLoop *)
(* around blocks.  A block names the hash of the one before it and its     *)
(* height is the start height plus the number sent so far.                 *)
(*                                                                         *)
(* A block's hash is a pair of its height and a bit that changes whenever  *)
(* a block is built: a block built again after a failed write has fresh    *)
(* random roots, hence another hash.  The hash of a block that was never   *)
(* written is forgotten, so two values tell the ones that matter apart.    *)
(***************************************************************************)
EXTENDS PushLoop

CONSTANT HeightStart  \* -height-start

ASSUME HeightAssumption == HeightStart \in Nat

VARIABLES
    prevHash,   \* prevHash
    obj,        \* the block built last
    chain       \* the blocks written whole, in order (ghost)

blockVars == <<prevHash, obj, chain>>
vars      == <<loopVars, blockVars>>

Genesis == <<0, 0>>

Init ==
    /\ LoopInit
    /\ prevHash = Genesis
    /\ obj = [hash |-> Genesis, prev |-> Genesis, height |-> 0]
    /\ chain = <<>>

NewBlock(prev) ==
    [hash   |-> <<HeightStart + sent, 1 - obj.hash[2]>>,
     prev   |-> prev,
     height |-> HeightStart + sent]

BuildBlockAdvancing ==
    /\ Build
    /\ obj' = NewBlock(prevHash)
    /\ prevHash' = obj'.hash
    /\ UNCHANGED chain
BuildBlock ==
    /\ Build
    /\ obj' = NewBlock(prevHash)
    /\ UNCHANGED <<prevHash, chain>>

WriteBlock ==
    /\ WriteSucceeds
    /\ prevHash' = obj.hash
    /\ chain' = Append(chain, obj)
    /\ UNCHANGED obj

Other == Cancel \/ Control \/ DialSucceeds \/ WriteFails \/ Exited

Next == BuildBlock \/ WriteBlock \/ (Other /\ UNCHANGED blockVars)

BlockSpec ==
    /\ Init /\ [][Next]_vars
    /\ WF_loopVars(Main) /\ SF_loopVars(StopOnCtx) /\ SF_loopVars(DialGivesUp)
    /\ PeerFairness

-----------------------------------------------------------------------------
(* Properties.                                                             *)

\* "Headers are chained (each prevHash = the prior block hash)" (line 20), with
\* one block per height, although a block whose write failed is replaced by a
\* different one: what was written whole is a chain without forks or holes.
ChainLinked ==
    \A i \in 1 .. Len(chain) :
        /\ chain[i].height = HeightStart + i - 1
        /\ chain[i].prev = IF i = 1 THEN Genesis ELSE chain[i - 1].hash

\* -count counts blocks that were written whole: sent is their number however
\* many writes failed in between, and unless cancelled main ends with exactly
\* count of them (lines 114-136).
PushCountExact ==
    /\ sent = Len(chain)
    /\ (count > 0 /\ pc = "exited" /\ ~cancelled) => Len(chain) = count
=============================================================================
