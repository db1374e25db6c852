---------------------------- MODULE MCFlowStamp -----------------------------
(***************************************************************************)
(* Small instances of FlowStamp: workers sharing flows.                    *)
(***************************************************************************)
EXTENDS FlowStamp

CONSTANTS w1, w2, f1, f2

TwoWorkers == {w1, w2}
TwoFlows   == {f1, f2}
AllCells   == (TwoWorkers \cup {Shared}) \X TwoFlows
OneFlow    == {f1}
OneCell    == {Shared} \X OneFlow
SharedCells == {Shared} \X TwoFlows
=============================================================================
