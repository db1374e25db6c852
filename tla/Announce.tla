------------------------------ MODULE Announce ------------------------------
(***************************************************************************)
(* announce.Sender.Run (src/internal/announce/sender.go): the Run          *)
(* goroutine re-announces the active subtrees on a ticker, a phase         *)
(* goroutine makes more of them active on another one, both write to the   *)
(* same TCP connection under writeMu, and a third goroutine closes that    *)
(* connection when the context ends.                                       *)
(*                                                                         *)
(* A datagram is one (subtree, group) pair; pairs are numbered in the      *)
(* order sendUpTo visits them, so subtree i owns the pairs from            *)
(* i * Groups on.  What the listener knows is whether a pair is fresh: an  *)
(* announcement makes it fresh until its TTL runs out.                     *)
(***************************************************************************)
EXTENDS Integers

CONSTANTS
    PoolLen,    \* Pool.Len()
    Groups,     \* len(GroupIDs)
    PhaseSizes, \* values of PhaseSize: main checks nothing of the flag
    Half        \* 2^31: phase is an int32

ASSUME AnnounceAssumption ==
    /\ PoolLen \in Nat \ {0} /\ Groups \in Nat \ {0}
    /\ PhaseSizes \subseteq Nat
    \* int32(Pool.Len()) is the number of subtrees: the pool is held in memory.
    /\ Half \in Nat /\ PoolLen < Half

VARIABLES
    phaseSize,  \* PhaseSize, 0 if PhaseInterval is; fixed for a run
    cancelled,  \* ctx is done
    conn,       \* "none", "open" or "closed" at this end
    peer,       \* what the other end does: "reads", "stalled" or "reset"
    phase,      \* Sender.phase
    mu,         \* holder of writeMu, or "free"
    pc,         \* where the goroutines "run" and "phase" are
    limit,      \* the argument of their sendUpTo, in pairs
    pos,        \* the next pair they write
    last,       \* the last datagram on the stream: writer and pair (ghost)
    fresh       \* pairs that the listener holds unexpired (ghost)

vars == <<phaseSize, cancelled, conn, peer, phase, mu, pc, limit, pos, last, fresh>>

Goroutines == {"run", "phase"}
Pairs      == 0 .. PoolLen * Groups - 1

\* Conversion to int32, and so int32 addition too.
Int32(x) == ((x + Half) % (2 * Half)) - Half

\* The next value of phase, clamped to the pool from above.
NextPhaseShort ==
    LET next == Int32(phase + Int32(phaseSize))
    IN  IF next >= PoolLen THEN PoolLen - 1 ELSE next
NextPhaseUnclamped == Int32(phase + Int32(phaseSize))
NextPhase ==
    LET next == Int32(phase + Int32(phaseSize))
    IN  IF next > PoolLen THEN PoolLen ELSE next

\* Start with no active subtrees and add some on every tick.
phased == phaseSize > 0

\* start: where Run is, "dial" once it has been called.
InitAt(start) ==
    /\ phaseSize \in PhaseSizes
    /\ cancelled = FALSE
    /\ conn = "none"
    /\ peer = "reads"
    /\ phase = 0
    /\ mu = "free"
    /\ pc = [g \in Goroutines |-> IF g = "run" THEN start ELSE "none"]
    /\ limit = [g \in Goroutines |-> 0]
    /\ pos = [g \in Goroutines |-> 0]
    /\ last = <<"run", -1>>
    /\ fresh = {}

-----------------------------------------------------------------------------
(* The environment.                                                        *)

Cancel ==
    /\ ~cancelled
    /\ cancelled' = TRUE
    /\ UNCHANGED <<phaseSize, conn, peer, phase, mu, pc, limit, pos, last, fresh>>

\* The peer stops reading, starts again, or resets the connection for good.
PeerChanges ==
    /\ peer # "reset"
    /\ \E p \in {"reads", "stalled", "reset"} \ {peer} : peer' = p
    /\ UNCHANGED <<phaseSize, cancelled, conn, phase, mu, pc, limit, pos, last, fresh>>

Expire ==
    /\ \E p \in fresh : fresh' = fresh \ {p}
    /\ UNCHANGED <<phaseSize, cancelled, conn, peer, phase, mu, pc, limit, pos, last>>

-----------------------------------------------------------------------------
(* Run: connect, start the other goroutines, announce at once unless the   *)
(* active set ramps up.                                                    *)

DialFails ==
    /\ pc["run"] = "dial"
    /\ pc' = [pc EXCEPT !["run"] = "returned"]
    /\ UNCHANGED <<phaseSize, cancelled, conn, peer, phase, mu, limit, pos, last, fresh>>

DialPhased ==
    /\ pc["run"] = "dial" /\ phased
    /\ conn' = "open"
    /\ phase' = 0
    /\ pc' = [g \in Goroutines |-> "select"]
    /\ UNCHANGED <<phaseSize, cancelled, peer, mu, limit, pos, last, fresh>>

DialAndAnnounce ==
    /\ pc["run"] = "dial" /\ ~phased
    /\ conn' = "open"
    /\ phase' = PoolLen
    /\ limit' = [limit EXCEPT !["run"] = PoolLen * Groups]
    /\ pc' = [pc EXCEPT !["run"] = "lock"]
    /\ UNCHANGED <<phaseSize, cancelled, peer, mu, pos, last, fresh>>

\* The goroutine that waits for the context to close the connection.
CloseNever ==
    /\ FALSE /\ cancelled /\ conn = "open"
    /\ conn' = "closed"
    /\ UNCHANGED <<phaseSize, cancelled, peer, phase, mu, pc, limit, pos, last, fresh>>
CloseOnCtx ==
    /\ cancelled /\ conn = "open"
    /\ conn' = "closed"
    /\ UNCHANGED <<phaseSize, cancelled, peer, phase, mu, pc, limit, pos, last, fresh>>

-----------------------------------------------------------------------------
(* The two select loops.  A tick and the context may both be ready.        *)

Reannounce(active) ==
    /\ pc["run"] = "select" /\ active > 0
    /\ limit' = [limit EXCEPT !["run"] = active * Groups]
    /\ pc' = [pc EXCEPT !["run"] = "lock"]
    /\ UNCHANGED <<phaseSize, cancelled, conn, peer, phase, mu, pos, last, fresh>>

ReannounceTickShort == Reannounce(phase - 1)
ReannounceTick == Reannounce(phase)

\* sendUpTo(conn, next) by the phase goroutine: nothing to do without subtrees.
AnnouncePhase(next) ==
    IF next > 0
    THEN /\ limit' = [limit EXCEPT !["phase"] = next * Groups]
         /\ pc' = [pc EXCEPT !["phase"] = "lock"]
    ELSE UNCHANGED <<limit, pc>>

PhaseTickStoresNothing ==
    /\ pc["phase"] = "select"
    /\ AnnouncePhase(NextPhase)
    /\ UNCHANGED <<phaseSize, cancelled, conn, peer, phase, mu, pos, last, fresh>>
PhaseTick ==
    /\ pc["phase"] = "select"
    /\ phase' = NextPhase
    /\ AnnouncePhase(NextPhase)
    /\ UNCHANGED <<phaseSize, cancelled, conn, peer, mu, pos, last, fresh>>

\* Run returns; its deferred Close runs.  The phase goroutine just ends.
Stop(g) ==
    /\ pc[g] = "select" /\ cancelled
    /\ pc' = [pc EXCEPT ![g] = "returned"]
    /\ conn' = IF g = "run" THEN "closed" ELSE conn
    /\ UNCHANGED <<phaseSize, cancelled, peer, phase, mu, limit, pos, last, fresh>>

-----------------------------------------------------------------------------
(* sendUpTo.                                                               *)

LockIgnored(g) ==
    /\ pc[g] = "lock"
    /\ mu' = g
    /\ pos' = [pos EXCEPT ![g] = 0]
    /\ pc' = [pc EXCEPT ![g] = "write"]
    /\ UNCHANGED <<phaseSize, cancelled, conn, peer, phase, limit, last, fresh>>
Lock(g) ==
    /\ pc[g] = "lock" /\ mu = "free"
    /\ mu' = g
    /\ pos' = [pos EXCEPT ![g] = 0]
    /\ pc' = [pc EXCEPT ![g] = "write"]
    /\ UNCHANGED <<phaseSize, cancelled, conn, peer, phase, limit, last, fresh>>

\* One datagram; after the last one the mutex is released.
Write(g) ==
    /\ pc[g] = "write" /\ conn = "open" /\ peer = "reads"
    /\ last' = <<g, pos[g]>>
    /\ fresh' = fresh \cup {pos[g]}
    /\ pos' = [pos EXCEPT ![g] = @ + 1]
    /\ IF pos[g] + 1 = limit[g]
       THEN mu' = "free" /\ pc' = [pc EXCEPT ![g] = "select"]
       ELSE UNCHANGED <<mu, pc>>
    /\ UNCHANGED <<phaseSize, cancelled, conn, peer, phase, limit>>

\* A write fails once this end is closed or the peer has reset: the sweep is
\* abandoned.  Run returns the error; the phase goroutine logs it and goes on.
WriteFails(g) ==
    /\ pc[g] = "write" /\ (conn = "closed" \/ peer = "reset")
    /\ mu' = "free"
    /\ pc' = [pc EXCEPT ![g] = IF g = "run" THEN "returned" ELSE "select"]
    /\ conn' = IF g = "run" THEN "closed" ELSE conn
    /\ UNCHANGED <<phaseSize, cancelled, peer, phase, limit, pos, last, fresh>>

-----------------------------------------------------------------------------
Environment == PeerChanges \/ Expire

Connect == DialFails \/ DialPhased \/ DialAndAnnounce

Goroutine(g) == Stop(g) \/ Lock(g) \/ Write(g) \/ WriteFails(g)

Next ==
    \/ Cancel \/ Environment
    \/ Connect \/ CloseOnCtx \/ ReannounceTick \/ PhaseTick
    \/ \E g \in Goroutines : Goroutine(g)

\* Run by itself.
Spec == InitAt("dial") /\ [][Next]_vars

-----------------------------------------------------------------------------
(* Properties.                                                             *)

\* Every variable keeps its type.  Whatever -announce-phase-size is, a sweep
\* stays within the pool, so that Pool.At is only called for members: phase
\* never exceeds it, and a phase that wrapped below zero starts no sweep (lines
\* 97-105, 128-131, 141 and 151).
AnnounceTypeOK ==
    /\ phaseSize \in PhaseSizes /\ cancelled \in BOOLEAN
    /\ conn \in {"none", "open", "closed"}
    /\ peer \in {"reads", "stalled", "reset"}
    /\ phase \in -Half .. PoolLen
    /\ mu \in Goroutines \cup {"free"}
    /\ pc \in [Goroutines -> {"none", "dial", "select", "lock", "write", "returned"}]
    /\ limit \in [Goroutines -> 0 .. PoolLen * Groups]
    /\ pos \in [Goroutines -> 0 .. PoolLen * Groups]
    /\ last \in Goroutines \X (Pairs \cup {-1})
    /\ fresh \in SUBSET Pairs

\* "datagrams are never interleaved" (lines 61-63): within a sweep each
\* datagram follows, on the shared stream, the one its own sweep wrote before.
NeverInterleaved ==
    \A g \in Goroutines :
        (pc[g] = "write" /\ pos[g] > 0) => last = <<g, pos[g] - 1>>

\* The sum of line 98 stays an int32 throughout the ramp.  With a larger
\* -announce-phase-size it wraps, and phase falls below zero again and again.
RampFits == phaseSize + PoolLen < Half

\* A listener only ever hears of active subtrees, although the re-announce
\* sweep uses a limit read before it waited for writeMu (lines 127-131, 147).
OnlyActiveAnnounced == RampFits => \A p \in fresh : p < phase * Groups

\* When the context ends both goroutines end, even if one of them holds
\* writeMu in a write to a peer that has stopped reading: closing the
\* connection (lines 79-82) breaks the write.
AnnounceStops ==
    cancelled ~> \A g \in Goroutines : pc[g] \in {"none", "returned"}

Healthy == ~cancelled /\ peer = "reads" /\ pc["run"] \notin {"none", "returned"}

KnownIfActive(p) == p < phase * Groups => p \in fresh

\* As long as the connection is healthy, whatever expires at the listener is
\* announced again: every active pair is fresh over and over (lines 119-134).
RefreshKeepsUp ==
    \A p \in Pairs : []<>(Healthy => KnownIfActive(p))

\* A run that stays healthy ends up with the whole pool active (lines 10-12:
\* "adds PhaseSize more every PhaseInterval tick, up to Pool.Len()"), if the
\* phase size fits.
RampCompletes == (Healthy /\ RampFits) ~> (phase = PoolLen \/ ~Healthy)
=============================================================================
