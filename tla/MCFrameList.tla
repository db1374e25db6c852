---------------------------- MODULE MCFrameList -----------------------------
(***************************************************************************)
(* Small instance of FrameList: two rounds, anchor sizes on both sides of  *)
(* each step of the length encoding and of the datagram limit, node counts *)
(* up to five, payload sizes on both sides of a whole number of nodes.     *)
(***************************************************************************)
EXTENDS FrameList
=============================================================================
