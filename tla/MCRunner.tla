------------------------------ MODULE MCRunner ------------------------------
(***************************************************************************)
(* Small instances of Runner.  Word is far above Count, as 2^64 is, yet    *)
(* small enough that a wrapped counter is visible.                         *)
(***************************************************************************)
EXTENDS Runner

CONSTANTS w1, w2

TwoWorkers == {w1, w2}
=============================================================================
