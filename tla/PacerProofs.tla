---------------------------- MODULE PacerProofs -----------------------------
(***************************************************************************)
(* Theorems about Pacer for every rate.                                    *)
(***************************************************************************)
EXTENDS Pacer, TLAPS

\* A burst is at least one token, and a thousand bursts are at most PPS above a
\* thousand per second.
LEMMA BurstBounds ==
  ASSUME PPS \in Nat \ {0}
  PROVE  /\ Burst \in Nat \ {0}
         /\ PPS > 1000 => 1000 * Burst <= PPS
  BY DEF Burst

\* The tokens given, those left of the burst and those the buffered tick is
\* good for, against the ticks of the window and of the whole run.
Balance ==
    /\ tokens - winTokens + remaining + Burst * ch
          < Burst * (ticks - winTicks) + 2 * Burst
    /\ tokens + remaining + Burst * ch <= Burst * ticks

\* Types and balance are preserved by every step.
LEMMA BalanceInductive ==
  ASSUME PPS \in Nat \ {0}, PacerTypeOK, Balance, [Next]_vars
  PROVE  PacerTypeOK' /\ Balance'
  <1> DEFINE b == Burst
  <1>b. b \in Nat \ {0}
    BY BurstBounds
  <1>m. /\ b * 0 = 0 /\ b * 1 = b
        /\ \A n \in Int : b * (n + 1) = b * n + b
    BY <1>b
  <1>c. ch = 0 \/ ch = 1
    BY DEF PacerTypeOK
  <1>1. CASE Tick
    <2>1. ticks' - winTicks' = (ticks - winTicks) + 1 /\ ticks' = ticks + 1
      BY <1>1 DEF Tick, PacerTypeOK
    <2>2. /\ b * (ticks' - winTicks') = b * (ticks - winTicks) + b
          /\ b * ticks' = b * ticks + b
      BY <2>1, <1>m DEF PacerTypeOK
    <2>3. b * ch >= 0 /\ b * ch' = b
      BY <1>1, <1>m, <1>c, <1>b DEF Tick
    <2>4. b * (ticks - winTicks) \in Int /\ b * ticks \in Int /\ b * ch \in Int
      BY <1>b DEF PacerTypeOK
    <2> HIDE DEF b
    <2>5. /\ tokens - winTokens + remaining + b * ch < b * (ticks - winTicks) + 2 * b
          /\ tokens + remaining + b * ch <= b * ticks
      BY DEF Balance, b
    <2>6. /\ tokens' - winTokens' + remaining' + b * ch'
                < b * (ticks' - winTicks') + 2 * b
          /\ tokens' + remaining' + b * ch' <= b * ticks'
      BY <1>1, <1>b, <2>2, <2>3, <2>4, <2>5 DEF Tick, PacerTypeOK
    <2> QED BY <1>1, <2>6 DEF Tick, PacerTypeOK, Balance, b
  <1>2. CASE WaitBurst
    BY <1>2, <1>b DEF WaitBurst, PacerTypeOK, Balance
  <1>3. CASE WaitTick
    <2>1. b * ch = b /\ b * ch' = 0
      BY <1>3, <1>m DEF WaitTick
    <2> QED BY <1>3, <1>b, <2>1 DEF WaitTick, PacerTypeOK, Balance
  <1>4. CASE OpenWindow
    <2>1. b * (ticks' - winTicks') = 0 /\ b * ch <= b
      BY <1>4, <1>m, <1>c, <1>b DEF OpenWindow, PacerTypeOK
    <2> QED BY <1>4, <1>b, <2>1 DEF OpenWindow, PacerTypeOK, Balance
  <1>5. CASE UNCHANGED vars
    BY <1>5 DEF vars, PacerTypeOK, Balance
  <1> QED BY <1>1, <1>2, <1>3, <1>4, <1>5 DEF Next

\* A dispatcher that was held up is not given more than two bursts of arrears,
\* and over the whole run never more than one burst per tick: burstPacer.Wait
\* and the one-tick channel keep to the rate, for every -pps.
THEOREM PacerKeepsRate ==
  ASSUME PPS \in Nat \ {0}
  PROVE  Spec => [](NoFlood /\ WithinRate)
  <1>1. Init => PacerTypeOK /\ Balance
    BY BurstBounds DEF Init, PacerTypeOK, Balance
  <1>2. PacerTypeOK /\ Balance /\ [Next]_vars => (PacerTypeOK /\ Balance)'
    BY BalanceInductive
  <1>3. PacerTypeOK /\ Balance => NoFlood /\ WithinRate
    <2> SUFFICES ASSUME PacerTypeOK, Balance PROVE NoFlood /\ WithinRate
      OBVIOUS
    <2>1. Burst * ch >= 0
      BY BurstBounds DEF PacerTypeOK
    <2> QED BY <2>1, BurstBounds DEF PacerTypeOK, Balance, NoFlood, WithinRate
  <1> QED BY <1>1, <1>2, <1>3, PTL DEF Spec
=============================================================================
