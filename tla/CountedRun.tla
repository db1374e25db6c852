----------------------------- MODULE CountedRun -----------------------------
(***************************************************************************)
(* What sender.Runner.Run promises its caller, without dispatcher, tokens  *)
(* or workers: frames are emitted one at a time, never more than Limit of  *)
(* them when there is a limit, and Run returns short of the limit only if  *)
(* something excused it (the context was cancelled, an error was counted,  *)
(* or no worker came up).  The value reported is the number emitted.       *)
(***************************************************************************)
EXTENDS Naturals

CONSTANTS
    Limit,      \* Config.Count; 0 means no limit
    Modulus     \* the emitted counter is an unsigned word

VARIABLES
    emitted,    \* frames emitted so far
    excused,    \* Run may return short
    finished    \* Run has returned

vars == <<emitted, excused, finished>>

Init ==
    /\ emitted = 0
    /\ excused = FALSE
    /\ finished = FALSE

Emit ==
    /\ ~finished
    /\ Limit = 0 \/ emitted < Limit
    /\ emitted' = IF emitted = Modulus - 1 THEN 0 ELSE emitted + 1
    /\ UNCHANGED <<excused, finished>>

Excuse ==
    /\ ~finished
    /\ excused' = TRUE
    /\ UNCHANGED <<emitted, finished>>

Finish ==
    /\ ~finished
    /\ excused \/ (Limit > 0 /\ emitted = Limit)
    /\ finished' = TRUE
    /\ UNCHANGED <<emitted, excused>>

Next == Emit \/ Excuse \/ Finish

Spec == Init /\ [][Next]_vars
=============================================================================
