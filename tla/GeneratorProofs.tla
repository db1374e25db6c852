-------------------------- MODULE GeneratorProofs ---------------------------
(***************************************************************************)
(* Theorems about Generator, and so about Announce as the process runs it, *)
(* for every pool, number of groups, phase size (one that wraps the int32  *)
(* included) and frame count.                                              *)
(***************************************************************************)
EXTENDS Generator, TLAPS

\* What the goroutines of announce.Sender.Run keep true between them, beyond
\* the types.  Nothing was announced before the dial (Fresh start); a sweep
\* that writes holds writeMu; and, if the phase size fits, what a sweep may
\* still write was active when its limit was read and is active now, for phase
\* then only grows after the dial.
AnnounceInv ==
    /\ AnnounceTypeOK
    /\ pc["run"] \in {"none", "dial"} =>
          pc["phase"] = "none" /\ phase = 0 /\ last[2] = -1 /\ fresh = {}
    /\ \A g \in Goroutines :
          /\ pc[g] = "write" => mu = g /\ pos[g] < limit[g]
          /\ pc[g] \in {"lock", "write"} => 0 < limit[g]
          /\ RampFits /\ pc[g] \in {"lock", "write"} => limit[g] <= phase * Groups
    /\ RampFits => 0 <= phase
    /\ NeverInterleaved
    /\ OnlyActiveAnnounced

\* What main keeps true: before the announcer is started there is none, before
\* Run is called no frame is emitted, and -payload-size was checked on the way.
MainInv ==
    /\ main \in {"flags", "mode", "ready", "call", "running", "exited"}
    /\ main # "exited" => status = "none"
    /\ main \in {"flags", "mode", "ready"} => pc["run"] = "none"
    /\ main \in {"flags", "mode", "ready", "call"} => emitted = 0
    /\ main \in {"mode", "ready", "call"} => ~flags.small
    /\ RefusedSendsNothing

GenInv == AnnounceInv /\ MainInv

-----------------------------------------------------------------------------
(* Pairs and phases.                                                       *)

\* The pairs of more subtrees are more pairs, and a subtree has some.
LEMMA PairsGrow ==
  ASSUME NEW a \in Nat, NEW b \in Nat, a <= b
  PROVE  /\ a * Groups \in Nat /\ b * Groups \in Nat
         /\ a * Groups <= b * Groups
         /\ 0 < a => 0 < a * Groups
  <1>1. Groups \in Nat /\ Groups > 0
    BY AnnounceAssumption
  <1>2. PICK d \in Nat : b = a + d
    <2>1. b - a \in Nat /\ b = a + (b - a)
      OBVIOUS
    <2> QED BY <2>1
  <1>3. a * Groups \in Nat /\ d * Groups \in Nat /\ b * Groups = a * Groups + d * Groups
    BY <1>1, <1>2
  <1>4. 0 < a => 0 < a * Groups
    BY <1>1
  <1> QED BY <1>3, <1>4

\* A conversion to int32 gives an int32.
LEMMA Int32Bounded ==
  ASSUME NEW x \in Int
  PROVE  Int32(x) \in -Half .. Half - 1
  <1> DEFINE m == 2 * Half
  <1>1. Half \in Nat /\ m \in Nat /\ m > 0 /\ x + Half \in Int
    BY AnnounceAssumption
  <1>2. (x + Half) % m \in 0 .. m - 1
    <2> HIDE DEF m
    <2> QED BY <1>1
  <1> QED BY <1>1, <1>2 DEF Int32

\* Whatever the phase size, NextPhase is an int32 no larger than the pool.
LEMMA NextPhaseBounded ==
  ASSUME phase \in Int, phaseSize \in PhaseSizes
  PROVE  NextPhase \in -Half .. PoolLen
  <1>1. PoolLen \in Nat /\ Half \in Nat /\ phaseSize \in Int
    BY AnnounceAssumption
  <1>2. phase + Int32(phaseSize) \in Int
    BY <1>1, Int32Bounded
  <1>3. Int32(phase + Int32(phaseSize)) \in -Half .. Half - 1
    BY <1>2, Int32Bounded
  <1> QED BY <1>1, <1>3 DEF NextPhase

\* A phase size that fits: the int32 sum does not wrap, so that the clamped
\* phase stays in the pool and never falls.
LEMMA NextPhaseGrows ==
  ASSUME RampFits, phase \in 0 .. PoolLen, phaseSize \in PhaseSizes
  PROVE  NextPhase \in 0 .. PoolLen /\ phase <= NextPhase
  <1> DEFINE x == phase + phaseSize
  <1>1. /\ PoolLen \in Nat /\ PoolLen > 0 /\ phaseSize \in Nat
        /\ Half \in Nat /\ phase \in Nat /\ phase <= PoolLen /\ phaseSize + PoolLen < Half
    BY AnnounceAssumption DEF RampFits
  <1>2. \A y \in Nat : y < Half => Int32(y) = y
    <2> TAKE y \in Nat
    <2> HAVE y < Half
    <2>1. y + Half \in Nat /\ 2 * Half \in Nat /\ y + Half < 2 * Half
      BY <1>1
    <2>2. (y + Half) % (2 * Half) = y + Half
      BY <2>1
    <2> QED BY <1>1, <2>2 DEF Int32
  <1>3. x \in Nat /\ x < Half /\ phaseSize < Half
    BY <1>1
  <1>4. Int32(phaseSize) = phaseSize /\ Int32(x) = x
    BY <1>1, <1>2, <1>3
  <1> QED BY <1>1, <1>3, <1>4 DEF NextPhase

-----------------------------------------------------------------------------
(* The announcer's steps.                                                  *)

\* Before Run is called, and when it is.
LEMMA AnnounceStarts ==
  ASSUME NEW start \in {"none", "dial"}, InitAt(start)
  PROVE  AnnounceInv
  <1> USE DEF InitAt, Goroutines
  <1>1. PoolLen \in Nat /\ Half \in Nat /\ PoolLen * Groups \in Nat
    BY AnnounceAssumption, PairsGrow
  <1>2. phaseSize \in PhaseSizes /\ cancelled \in BOOLEAN
    BY Zenon
  <1>3. /\ phase \in -Half .. PoolLen
        /\ limit \in [Goroutines -> 0 .. PoolLen * Groups]
        /\ pos \in [Goroutines -> 0 .. PoolLen * Groups]
    BY <1>1
  <1>4. AnnounceTypeOK
    BY <1>2, <1>3 DEF AnnounceTypeOK
  <1> QED BY <1>4 DEF AnnounceInv, NeverInterleaved, OnlyActiveAnnounced, RampFits

\* The environment's steps and closing the connection.
LEMMA EnvironmentKeeps ==
  ASSUME AnnounceInv, Cancel \/ PeerChanges \/ Expire \/ CloseOnCtx \/ UNCHANGED vars
  PROVE  AnnounceInv'
  <1>1. CASE Cancel
    BY <1>1 DEF Cancel, AnnounceInv, AnnounceTypeOK, NeverInterleaved, OnlyActiveAnnounced, RampFits
  <1>2. CASE PeerChanges
    BY <1>2 DEF PeerChanges, AnnounceInv, AnnounceTypeOK, NeverInterleaved, OnlyActiveAnnounced, RampFits
  <1>3. CASE Expire
    BY <1>3 DEF Expire, AnnounceInv, AnnounceTypeOK, NeverInterleaved, OnlyActiveAnnounced, RampFits
  <1>4. CASE CloseOnCtx
    BY <1>4 DEF CloseOnCtx, AnnounceInv, AnnounceTypeOK, NeverInterleaved, OnlyActiveAnnounced, RampFits
  <1>5. CASE UNCHANGED vars
    BY <1>5 DEF vars, AnnounceInv, AnnounceTypeOK, NeverInterleaved, OnlyActiveAnnounced, RampFits, Pairs
  <1> QED BY <1>1, <1>2, <1>3, <1>4, <1>5

\* The dial: phase is set when nothing is announced yet.
LEMMA ConnectKeeps ==
  ASSUME AnnounceInv, Connect
  PROVE  AnnounceInv'
  <1> USE DEF Goroutines
  <1>1. /\ PoolLen \in Nat /\ PoolLen > 0 /\ Half \in Nat
        /\ PoolLen * Groups \in Nat /\ 0 < PoolLen * Groups
    BY AnnounceAssumption, PairsGrow
  <1>2. CASE DialFails
    BY <1>2 DEF DialFails, AnnounceInv, AnnounceTypeOK, NeverInterleaved, OnlyActiveAnnounced, RampFits
  <1>3. CASE DialPhased
    BY <1>1, <1>3 DEF DialPhased, AnnounceInv, AnnounceTypeOK, NeverInterleaved, OnlyActiveAnnounced, RampFits
  <1>4. CASE DialAndAnnounce
    BY <1>1, <1>4 DEF DialAndAnnounce, AnnounceInv, AnnounceTypeOK, NeverInterleaved, OnlyActiveAnnounced, RampFits
  <1> QED BY <1>2, <1>3, <1>4 DEF Connect

\* A re-announce tick reads phase: its sweep stays below it.
LEMMA ReannounceKeeps ==
  ASSUME AnnounceInv, ReannounceTick
  PROVE  AnnounceInv'
  <1> USE DEF Goroutines
  <1>1. phase \in Nat /\ 0 < phase /\ phase <= PoolLen /\ PoolLen \in Nat
    BY AnnounceAssumption DEF AnnounceInv, AnnounceTypeOK, ReannounceTick, Reannounce
  <1>2. /\ phase * Groups \in Nat /\ PoolLen * Groups \in Nat
        /\ 0 < phase * Groups /\ phase * Groups <= PoolLen * Groups
    BY <1>1, PairsGrow
  <1> QED BY <1>2 DEF ReannounceTick, Reannounce, AnnounceInv, AnnounceTypeOK, NeverInterleaved,
                      OnlyActiveAnnounced, RampFits

\* A phase tick: a new sweep stays in the pool even if phase has wrapped, and
\* if it does not wrap, limits and announcements stay below it.
LEMMA PhaseTickKeeps ==
  ASSUME AnnounceInv, PhaseTick
  PROVE  AnnounceInv'
  <1> USE DEF Goroutines
  <1> DEFINE next == NextPhase
  <1>1. /\ PoolLen \in Nat /\ Half \in Nat /\ PoolLen * Groups \in Nat
        /\ phase \in -Half .. PoolLen /\ phaseSize \in PhaseSizes
    BY AnnounceAssumption, PairsGrow DEF AnnounceInv, AnnounceTypeOK
  <1>2. next \in -Half .. PoolLen
    BY <1>1, NextPhaseBounded
  <1>3. RampFits => phase \in Nat /\ next \in Nat /\ phase <= next
    <2> SUFFICES ASSUME RampFits PROVE phase \in Nat /\ next \in Nat /\ phase <= next
      OBVIOUS
    <2>1. phase \in 0 .. PoolLen
      BY <1>1 DEF AnnounceInv
    <2> QED BY <1>1, <2>1, NextPhaseGrows
  <1>4. /\ phase' = next /\ pc["run"] \notin {"none", "dial"} /\ pc["phase"] = "select"
        /\ \/ /\ next > 0
              /\ limit' = [limit EXCEPT !["phase"] = next * Groups]
              /\ pc' = [pc EXCEPT !["phase"] = "lock"]
           \/ limit' = limit /\ pc' = pc
        /\ UNCHANGED <<phaseSize, cancelled, conn, peer, mu, pos, last, fresh>>
    BY DEF PhaseTick, AnnouncePhase, AnnounceInv
  <1> HIDE DEF next
  <1>5. next > 0 => /\ next * Groups \in Nat /\ 0 < next * Groups
                    /\ next * Groups <= PoolLen * Groups
    BY <1>1, <1>2, PairsGrow
  <1>6. RampFits => /\ phase * Groups \in Nat /\ next * Groups \in Nat
                    /\ phase * Groups <= next * Groups
    BY <1>3, PairsGrow
  <1>7. AnnounceTypeOK'
    BY <1>1, <1>2, <1>4, <1>5 DEF AnnounceInv, AnnounceTypeOK
  <1>8. NeverInterleaved'
    BY <1>4 DEF AnnounceInv, AnnounceTypeOK, NeverInterleaved
  <1>9. RampFits' <=> RampFits
    BY <1>4 DEF RampFits
  <1>10. OnlyActiveAnnounced'
    <2>1. RampFits => \A p \in fresh : p \in Int /\ p < phase * Groups
      BY <1>1 DEF AnnounceInv, AnnounceTypeOK, OnlyActiveAnnounced, Pairs
    <2> QED BY <1>4, <1>6, <1>9, <2>1 DEF OnlyActiveAnnounced
  <1>11. \A g \in Goroutines : limit[g] \in Int
    BY <1>1 DEF AnnounceInv, AnnounceTypeOK
  <1>12. \A g \in Goroutines :
           /\ pc'[g] = "write" => mu' = g /\ pos'[g] < limit'[g]
           /\ pc'[g] \in {"lock", "write"} => 0 < limit'[g]
    BY <1>4, <1>5 DEF AnnounceInv, AnnounceTypeOK
  <1>13. \A g \in Goroutines :
           RampFits /\ pc'[g] \in {"lock", "write"} => limit'[g] <= phase' * Groups
    BY <1>4, <1>6, <1>11 DEF AnnounceInv, AnnounceTypeOK
  <1>14. pc'["run"] \notin {"none", "dial"} /\ (RampFits => 0 <= phase')
    BY <1>3, <1>4 DEF AnnounceInv, AnnounceTypeOK
  <1> QED BY <1>7, <1>8, <1>9, <1>10, <1>12, <1>13, <1>14 DEF AnnounceInv

\* A goroutine's own steps: the mutex keeps the other one from writing.
LEMMA GoroutineKeeps ==
  ASSUME AnnounceInv, NEW g \in Goroutines, Goroutine(g)
  PROVE  AnnounceInv'
  <1>1. PoolLen * Groups \in Nat /\ (RampFits => phase * Groups \in Nat)
    <2>1. PoolLen \in Nat /\ (RampFits => phase \in Nat)
      BY AnnounceAssumption DEF AnnounceInv, AnnounceTypeOK
    <2> QED BY <2>1, PairsGrow
  <1>2. CASE Stop(g)
    BY <1>2 DEF Stop, AnnounceInv, AnnounceTypeOK, NeverInterleaved, OnlyActiveAnnounced, RampFits, Goroutines
  <1>3. CASE Lock(g)
    BY <1>1, <1>3 DEF Lock, AnnounceInv, AnnounceTypeOK, NeverInterleaved, OnlyActiveAnnounced, RampFits, Goroutines
  <1>4. CASE Write(g)
    <2>1. /\ pc[g] = "write" /\ mu = g /\ pos[g] \in Nat /\ limit[g] \in Nat
          /\ pos[g] < limit[g] /\ limit[g] <= PoolLen * Groups
          /\ RampFits => limit[g] <= phase * Groups
          /\ pc["run"] \notin {"none", "dial"}
      BY <1>1, <1>4 DEF Write, AnnounceInv, AnnounceTypeOK, Goroutines
    <2>2. \A h \in Goroutines \ {g} : pc[h] # "write"
      BY <2>1 DEF AnnounceInv
    <2>3. pos[g] \in Pairs
      BY <1>1, <2>1 DEF Pairs
    <2>4. /\ last' = <<g, pos[g]>> /\ fresh' = fresh \cup {pos[g]}
          /\ pos' = [pos EXCEPT ![g] = pos[g] + 1] /\ limit' = limit /\ phase' = phase
          /\ UNCHANGED <<phaseSize, cancelled, conn, peer>> /\ (RampFits' <=> RampFits)
      BY <1>4 DEF Write, RampFits
    <2>5. \/ /\ pos[g] + 1 = limit[g] /\ mu' = "free"
             /\ pc' = [pc EXCEPT ![g] = "select"]
          \/ pos[g] + 1 < limit[g] /\ mu' = mu /\ pc' = pc
      BY <1>4, <2>1 DEF Write
    <2>6. pos[g] + 1 \in 0 .. PoolLen * Groups
      BY <1>1, <2>1
    <2>7. AnnounceTypeOK'
      BY <2>3, <2>4, <2>5, <2>6 DEF AnnounceInv, AnnounceTypeOK
    <2>8. NeverInterleaved'
      BY <2>1, <2>2, <2>4, <2>5 DEF AnnounceInv, AnnounceTypeOK, NeverInterleaved
    <2>9. OnlyActiveAnnounced'
      BY <1>1, <2>1, <2>4 DEF AnnounceInv, OnlyActiveAnnounced
    <2>10. \A h \in Goroutines :
             /\ pc'[h] = "write" => mu' = h /\ pos'[h] < limit'[h]
             /\ pc'[h] \in {"lock", "write"} => 0 < limit'[h]
             /\ RampFits /\ pc'[h] \in {"lock", "write"} => limit'[h] <= phase' * Groups
      BY <2>1, <2>2, <2>4, <2>5 DEF AnnounceInv, AnnounceTypeOK
    <2>11. pc'["run"] \notin {"none", "dial"}
      BY <2>1, <2>5 DEF AnnounceInv, AnnounceTypeOK, Goroutines
    <2> QED BY <2>4, <2>7, <2>8, <2>9, <2>10, <2>11 DEF AnnounceInv
  <1>5. CASE WriteFails(g)
    BY <1>1, <1>5 DEF WriteFails, AnnounceInv, AnnounceTypeOK, NeverInterleaved, OnlyActiveAnnounced, RampFits, Goroutines
  <1> QED BY <1>2, <1>3, <1>4, <1>5 DEF Goroutine

\* Whatever the announcer does beside main.
LEMMA AnnounceKeeps ==
  ASSUME AnnounceInv, [Next]_vars
  PROVE  AnnounceInv'
  BY EnvironmentKeeps, ConnectKeeps, ReannounceKeeps, PhaseTickKeeps, GoroutineKeeps
     DEF Next, Environment

-----------------------------------------------------------------------------
(* main's steps.                                                           *)

\* The end of the process leaves no goroutine in a sweep.
LEMMA ExitKeeps ==
  ASSUME GenInv, NEW how, how # "none", Exit(how),
         how = "fatal" => emitted = 0 /\ last[2] = -1
  PROVE  GenInv'
  <1>1. AnnounceInv'
    BY DEF GenInv, Exit, AnnounceInv, AnnounceTypeOK, NeverInterleaved, OnlyActiveAnnounced, RampFits,
           Goroutines
  <1>2. MainInv'
    BY DEF GenInv, Exit, MainInv, RefusedSendsNothing, runVars
  <1> QED BY <1>1, <1>2 DEF GenInv

\* Every step of main.  The announcer is started before Run is called, but by
\* then -payload-size has been checked: CallRun's own check cannot fail.
LEMMA MainKeeps ==
  ASSUME GenInv, Main
  PROVE  GenInv'
  <1>1. CASE PrintSubtrees
    BY <1>1, ExitKeeps DEF PrintSubtrees
  <1>2. CASE RefuseFlags
    BY <1>2, ExitKeeps DEF RefuseFlags, GenInv, MainInv, AnnounceInv
  <1>3. CASE Configure
    BY <1>3, EnvironmentKeeps DEF Configure, Goto, Refused, GenInv, MainInv, RefusedSendsNothing,
                                  vars, runVars
  <1>4. CASE RefuseGroups \/ RefuseMode
    BY <1>4, ExitKeeps DEF RefuseGroups, RefuseMode, GenInv, MainInv, AnnounceInv
  <1>5. CASE StartAnnouncer
    <2>1. AnnounceInv'
      BY <1>5 DEF StartAnnouncer, Goto, GenInv, MainInv, AnnounceInv, AnnounceTypeOK,
                  NeverInterleaved, OnlyActiveAnnounced, RampFits, Goroutines
    <2>2. MainInv'
      BY <1>5 DEF StartAnnouncer, Goto, GenInv, MainInv, RefusedSendsNothing, runVars
    <2> QED BY <2>1, <2>2 DEF GenInv
  <1>6. CASE SkipAnnouncer \/ AcceptMode
    BY <1>6, EnvironmentKeeps DEF SkipAnnouncer, AcceptMode, Goto, GenInv, MainInv, RefusedSendsNothing,
                                  vars, runVars
  <1>7. CASE CallRun
    <2>1. main = "call" /\ ~flags.small /\ Goto("call", "running") /\ UNCHANGED vars
      BY <1>7 DEF CallRun, Goto, GenInv, MainInv
    <2> QED BY <2>1, EnvironmentKeeps DEF Goto, GenInv, MainInv, RefusedSendsNothing,
                                          vars, runVars
  <1>8. CASE MainReturns
    BY <1>8, ExitKeeps DEF MainReturns
  <1> QED BY <1>1, <1>2, <1>3, <1>4, <1>5, <1>6, <1>7, <1>8 DEF Main

\* Frames are emitted, and datagrams announced, while status is still "none".
LEMMA OtherKeeps ==
  ASSUME GenInv,
         \/ RunStep \/ EarlySignal \/ UNCHANGED genVars
         \/ main # "exited" /\ main' = main /\ Next /\ UNCHANGED <<mainVars, runVars>>
            /\ (main \in {"flags", "mode", "ready"} => pc'["run"] = pc["run"])
  PROVE  GenInv'
  <1>1. CASE RunStep
    BY <1>1, EnvironmentKeeps DEF RunStep, GenInv, MainInv, RefusedSendsNothing, vars, mainVars
  <1>2. CASE EarlySignal
    BY <1>2, ExitKeeps DEF EarlySignal
  <1>3. CASE UNCHANGED genVars
    BY <1>3, EnvironmentKeeps DEF genVars, GenInv, MainInv, RefusedSendsNothing, vars,
                                  mainVars, runVars
  <1>4. CASE main # "exited" /\ Next /\ UNCHANGED <<mainVars, runVars>>
             /\ (main \in {"flags", "mode", "ready"} => pc'["run"] = pc["run"])
    BY <1>4, AnnounceKeeps DEF GenInv, MainInv, RefusedSendsNothing, mainVars, runVars
  <1> QED BY <1>1, <1>2, <1>3, <1>4

\* Before the dial the announcer's part of Next leaves its pc alone.
LEMMA BesideIdle ==
  ASSUME AnnounceInv, pc["run"] = "none",
         \/ Cancel \/ Environment \/ Connect \/ CloseOnCtx \/ ReannounceTick \/ PhaseTick
         \/ \E g \in Goroutines : Goroutine(g)
  PROVE  pc'["run"] = pc["run"]
  BY DEF AnnounceInv, Cancel, Environment, PeerChanges, Expire, Connect, DialFails, DialPhased,
         DialAndAnnounce, CloseOnCtx, ReannounceTick, Reannounce, PhaseTick, Goroutine, Stop,
         Lock, Write, WriteFails, Goroutines

\* The whole invariant, for every run of the process.
LEMMA GenInvariant == GenInit /\ [][GenNext]_genVars => []GenInv
  <1>1. GenInit => GenInv
    <2> SUFFICES ASSUME GenInit PROVE GenInv
      OBVIOUS
    <2>1. AnnounceInv
      BY AnnounceStarts DEF GenInit
    <2>2. MainInv
      BY DEF GenInit, InitAt, R!Init, MainInv, RefusedSendsNothing, Goroutines
    <2> QED BY <2>1, <2>2 DEF GenInv
  <1>2. GenInv /\ [GenNext]_genVars => GenInv'
    <2> SUFFICES ASSUME GenInv, [GenNext]_genVars PROVE GenInv'
      OBVIOUS
    <2>1. CASE Main
      BY <2>1, MainKeeps
    <2>2. CASE RunStep \/ EarlySignal \/ UNCHANGED genVars
      BY <2>2, OtherKeeps
    <2>3. CASE Signal
      BY <2>3, OtherKeeps, BesideIdle DEF Signal, Next, GenInv, MainInv, mainVars
    <2>4. CASE \/ Beside(Environment) \/ Beside(Connect) \/ Beside(CloseOnCtx)
               \/ Beside(ReannounceTick) \/ Beside(PhaseTick)
               \/ \E g \in Goroutines : Beside(Goroutine(g))
      <3>1. /\ main # "exited" /\ main' = main /\ UNCHANGED <<mainVars, runVars>>
            /\ \/ Environment \/ Connect \/ CloseOnCtx \/ ReannounceTick \/ PhaseTick
               \/ \E g \in Goroutines : Goroutine(g)
        BY <2>4 DEF Beside, mainVars
      <3>2. main \in {"flags", "mode", "ready"} => pc'["run"] = pc["run"]
        BY <3>1, BesideIdle DEF GenInv, MainInv
      <3> QED BY <3>1, <3>2, OtherKeeps DEF Next
    <2> QED BY <2>1, <2>2, <2>3, <2>4 DEF GenNext
  <1> QED BY <1>1, <1>2, PTL

-----------------------------------------------------------------------------
(* The results.                                                            *)

\* Every variable of the announcer keeps its type; in particular a sweep never
\* leaves the pool, whatever -announce-phase-size is and however phase wraps.
THEOREM AnnounceTypeCorrect == GenSpec => []AnnounceTypeOK
  <1>1. GenInv => AnnounceTypeOK
    BY DEF GenInv, AnnounceInv
  <1> QED BY <1>1, GenInvariant, PTL DEF GenSpec

\* writeMu keeps the two sweeps apart on the stream, for any number of
\* datagrams, until the process ends.
THEOREM NoInterleaving == GenSpec => []NeverInterleaved
  <1>1. GenInv => NeverInterleaved
    BY DEF GenInv, AnnounceInv
  <1> QED BY <1>1, GenInvariant, PTL DEF GenSpec

\* A listener never hears of a subtree that is not active, although a sweep
\* uses a limit that it read before it waited for writeMu; for every phase size
\* that fits.
THEOREM OnlyActive == GenSpec => []OnlyActiveAnnounced
  <1>1. GenInv => OnlyActiveAnnounced
    BY DEF GenInv, AnnounceInv
  <1> QED BY <1>1, GenInvariant, PTL DEF GenSpec

\* A refused command line sends nothing: not a frame, not an announcement.
THEOREM RefusalIsSilent == GenSpec => []RefusedSendsNothing
  <1>1. GenInv => RefusedSendsNothing
    BY DEF GenInv, MainInv
  <1> QED BY <1>1, GenInvariant, PTL DEF GenSpec

\* The same for an announcer whose process does not end: announce.Sender.Run
\* by itself interleaves nothing and announces active subtrees only.
THEOREM AnnounceAlone == Spec => [](NeverInterleaved /\ OnlyActiveAnnounced)
  <1>1. InitAt("dial") => AnnounceInv
    BY AnnounceStarts
  <1>2. AnnounceInv /\ [Next]_vars => AnnounceInv'
    BY AnnounceKeeps
  <1>3. AnnounceInv => NeverInterleaved /\ OnlyActiveAnnounced
    BY DEF AnnounceInv
  <1> QED BY <1>1, <1>2, <1>3, PTL DEF Spec
=============================================================================
