------------------------------- MODULE MCSink -------------------------------
(***************************************************************************)
(* Small instance of Sink: two objects are enough for one read while       *)
(* sniffing and one from the pump, and for ties between classes.           *)
(***************************************************************************)
EXTENDS Sink
=============================================================================
