---------------------------- MODULE MCBlockPush -----------------------------
(***************************************************************************)
(* Small instances of BlockPush.  A run of a few blocks reaches every      *)
(* order of failed dials, failed writes, ticks and the end of the context. *)
(***************************************************************************)
EXTENDS BlockPush
=============================================================================
