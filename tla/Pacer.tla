------------------------------- MODULE Pacer --------------------------------
(***************************************************************************)
(* rate.smoothPacer and rate.burstPacer (src/internal/rate/pacer.go): a    *)
(* time.Ticker whose channel holds one tick, and in burst mode a count of  *)
(* tokens left from the last tick.  The smooth pacer is the case of one    *)
(* token per tick.  Only the dispatcher calls Wait.                        *)
(*                                                                         *)
(* Time is counted in ticks.  A window may be opened at any moment, to say *)
(* what the dispatcher can be given from then on.                          *)
(***************************************************************************)
EXTENDS Integers

CONSTANT
    PPS         \* packets per second; New makes a pacer that never waits of 0

VARIABLES
    ticks,      \* ticks of the timer so far
    ch,         \* ticks in the ticker's channel
    remaining,  \* burstPacer.remaining
    tokens,     \* calls of Wait that returned
    winTicks,   \* ticks when the window was opened
    winTokens   \* tokens when the window was opened

vars == <<ticks, ch, remaining, tokens, winTicks, winTokens>>

\* burst = pps / 1000, at least 1.
Burst == IF PPS <= 1000 \/ PPS \div 1000 < 1 THEN 1 ELSE PPS \div 1000

Init ==
    /\ ticks = 0 /\ ch = 0 /\ remaining = 0 /\ tokens = 0
    /\ winTicks = 0 /\ winTokens = 0

\* The timer fires; a tick that finds the channel full is dropped.
Tick ==
    /\ ticks' = ticks + 1
    /\ ch' = 1
    /\ UNCHANGED <<remaining, tokens, winTicks, winTokens>>

\* Wait with tokens left from the last tick.
WaitBurst ==
    /\ remaining > 0
    /\ remaining' = remaining - 1
    /\ tokens' = tokens + 1
    /\ UNCHANGED <<ticks, ch, winTicks, winTokens>>

\* Wait that takes the tick; with none in the channel it blocks.
WaitTick ==
    /\ remaining = 0 /\ ch = 1
    /\ ch' = 0
    /\ remaining' = Burst - 1
    /\ tokens' = tokens + 1
    /\ UNCHANGED <<ticks, winTicks, winTokens>>

OpenWindow ==
    /\ winTicks' = ticks
    /\ winTokens' = tokens
    /\ UNCHANGED <<ticks, ch, remaining, tokens>>

Next == Tick \/ WaitBurst \/ WaitTick \/ OpenWindow

Spec == Init /\ [][Next]_vars

-----------------------------------------------------------------------------
(* Properties.                                                             *)

PacerTypeOK ==
    /\ ticks \in Nat /\ tokens \in Nat
    /\ ch \in 0 .. 1
    /\ remaining \in 0 .. Burst - 1
    /\ winTicks \in 0 .. ticks
    /\ winTokens \in 0 .. tokens

\* However long the dispatcher was held up, it is never given more than one
\* burst per tick plus two bursts of arrears (lines 76-87): a stall is not
\* followed by a flood that makes up for it.
NoFlood ==
    tokens - winTokens < Burst * (ticks - winTicks) + 2 * Burst

\* From the start on there are no arrears: never more than a burst per tick, so
\* never more than PPS per second.
WithinRate == tokens <= Burst * ticks
=============================================================================
