----------------------------- MODULE Generator ------------------------------
(***************************************************************************)
(* The subtx-gen process (src/cmd/subtx-gen/main.go): main checks the      *)
(* flags, starts the announcer goroutine if one is configured, calls       *)
(* sender.Runner.Run and returns when Run does.  It composes Announce, the *)
(* announcer that runs beside main, with CountedRun, what Run is known to  *)
(* implement (Runner).                                                     *)
(*                                                                         *)
(* The two share the signal context and the life of the process: when main *)
(* returns the announcer's goroutines are gone wherever they were, and the *)
(* kernel closes their connection.  Run's own deadline (-duration) ends    *)
(* Run only.                                                               *)
(***************************************************************************)
EXTENDS Announce

CONSTANTS
    Limit,      \* -count
    Modulus     \* the emitted counter is an unsigned word

VARIABLES
    flags,      \* the command line
    main,       \* where main is; "exited" once the process has ended
    status,     \* "none", then "done" (exit 0), "fatal" (exit 1) or "killed"
    emitted, excused, finished      \* Runner.Run, as in CountedRun

runVars  == <<emitted, excused, finished>>
mainVars == <<flags, main, status>>
genVars  == <<vars, mainVars, runVars>>

R == INSTANCE CountedRun

\* print: -print-subtrees; bad: a frame version or payload format that does not
\* exist; small: -payload-size below the format's minimum; badMode: a value that
\* the switch on -mode refuses.
Flags == [print : BOOLEAN, bad : BOOLEAN, small : BOOLEAN, badMode : BOOLEAN,
          announce : {"off", "on", "badGroups"}]

GenInit ==
    /\ InitAt("none")
    /\ R!Init
    /\ flags \in Flags
    /\ main = "flags"
    /\ status = "none"

-----------------------------------------------------------------------------
(* main.                                                                   *)

\* The process ends: no goroutine runs on, its socket is closed.
Exit(how) ==
    /\ main' = "exited"
    /\ status' = how
    /\ pc' = [g \in Goroutines |-> IF pc[g] = "none" THEN "none" ELSE "returned"]
    /\ conn' = IF conn = "open" THEN "closed" ELSE conn
    /\ UNCHANGED <<flags, phaseSize, cancelled, peer, phase, mu, limit, pos, last, fresh,
                   runVars>>

Goto(from, to) ==
    /\ main = from /\ main' = to
    /\ UNCHANGED <<flags, status, runVars>>

PrintSubtrees == main = "flags" /\ flags.print /\ Exit("done")

RefusedUnchecked == flags.bad
Refused == flags.bad \/ flags.small

RefuseFlags == main = "flags" /\ ~flags.print /\ Refused /\ Exit("fatal")

\* seq.New and signal.NotifyContext.
Configure ==
    /\ ~flags.print /\ ~Refused
    /\ Goto("flags", "mode")
    /\ UNCHANGED vars

\* The switch on -mode, with the flags of direct-multicast: by now a signal
\* cancels the context, which nobody looks at yet.
RefuseMode == main = "mode" /\ flags.badMode /\ Exit("fatal")

\* sender.New.
AcceptMode ==
    /\ ~flags.badMode
    /\ Goto("mode", "ready")
    /\ UNCHANGED vars

RefuseGroups == main = "ready" /\ flags.announce = "badGroups" /\ Exit("fatal")

StartAnnouncer ==
    /\ flags.announce = "on"
    /\ Goto("ready", "call")
    /\ pc' = [pc EXCEPT !["run"] = "dial"]
    /\ UNCHANGED <<phaseSize, cancelled, conn, peer, phase, mu, limit, pos, last, fresh>>

SkipAnnouncer ==
    /\ flags.announce = "off"
    /\ Goto("ready", "call")
    /\ UNCHANGED vars

\* Run is called; it checks the payload size once more, and main calls fatalf
\* on its error.
CallRun ==
    IF flags.small
    THEN main = "call" /\ Exit("fatal")
    ELSE Goto("call", "running") /\ UNCHANGED vars

RunStep ==
    /\ main = "running"
    /\ R!Emit \/ R!Excuse \/ R!Finish
    /\ UNCHANGED <<vars, mainVars>>

\* Run has returned; main reports and returns without waiting for anybody.
MainReturns == main = "running" /\ finished /\ Exit("done")

Main ==
    \/ PrintSubtrees \/ RefuseFlags \/ Configure \/ RefuseMode \/ AcceptMode \/ RefuseGroups
    \/ StartAnnouncer \/ SkipAnnouncer \/ CallRun \/ MainReturns

-----------------------------------------------------------------------------
(* Signals, and the announcer beside main.                                 *)

\* Before NotifyContext a signal ends the process.
EarlySignal == main = "flags" /\ Exit("killed")

\* After it, the first signal cancels the context and later ones do nothing.
Signal ==
    /\ main \in {"mode", "ready", "call", "running"}
    /\ Cancel
    /\ UNCHANGED <<mainVars, runVars>>

Beside(A) == main # "exited" /\ A /\ UNCHANGED <<mainVars, runVars>>

GenNext ==
    \/ Main \/ RunStep \/ EarlySignal \/ Signal
    \/ Beside(Environment) \/ Beside(Connect) \/ Beside(CloseOnCtx)
    \/ Beside(ReannounceTick) \/ Beside(PhaseTick)
    \/ \E g \in Goroutines : Beside(Goroutine(g))

(***************************************************************************)
(* Fairness.  Goroutines that can run do: main, and the announcer's three. *)
(* A dial ends within its five seconds; ticks come, and a select with two  *)
(* ready cases serves each of them in the end; a Go mutex is not refused   *)
(* for ever.  Nothing obliges a stalled peer to read, a signal to come, or *)
(* Run to make progress.                                                   *)
(***************************************************************************)
GenFairness ==
    /\ WF_genVars(Main)
    /\ WF_genVars(Beside(Connect))
    /\ WF_genVars(Beside(CloseOnCtx))
    /\ SF_genVars(Beside(ReannounceTick)) /\ WF_genVars(Beside(PhaseTick))
    /\ \A g \in Goroutines :
          /\ SF_genVars(Beside(Stop(g))) /\ SF_genVars(Beside(Lock(g)))
          /\ WF_genVars(Beside(Write(g))) /\ WF_genVars(Beside(WriteFails(g)))

GenSpec == GenInit /\ [][GenNext]_genVars /\ GenFairness

-----------------------------------------------------------------------------
(* Properties.                                                             *)

\* A command line that is refused has no effect on the network: no frame was
\* emitted and no datagram announced when the process exits with status 1,
\* although the announcer is started before Run looks at its configuration
\* (lines 128-131, 173-231 and 256-260).
RefusedSendsNothing == status = "fatal" => emitted = 0 /\ last[2] = -1
=============================================================================
