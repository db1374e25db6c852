---------------------------- MODULE MCGenerator -----------------------------
(***************************************************************************)
(* Small instance of Generator: two subtrees activated one at a time, so   *)
(* that the sweeps of the two goroutines differ in length and the ticks    *)
(* after the second are clamped, or seven at a time in an int32 that ends  *)
(* at 7, so that the second tick wraps to -7; one group, since a sweep is  *)
(* a run of pairs anyway; one frame, so that Run ends before, during and   *)
(* after a sweep.                                                          *)
(***************************************************************************)
EXTENDS Generator
=============================================================================
