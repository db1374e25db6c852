----------------------------- MODULE Allocator ------------------------------
(***************************************************************************)
(* seq.Allocator (src/internal/seq/seq.go): sequence numbers handed out to *)
(* concurrent callers through two atomic counters, with deliberate gaps    *)
(* and a mutex-protected list of gaps to be sent late.                     *)
(*                                                                         *)
(* Next() is not atomic: taking the number, counting the call, reserving   *)
(* each skipped number and queueing the gap are separate steps, and other  *)
(* callers run in between.  Several allocators (cells) of one              *)
(* configuration live side by side, as in seq.PerFlowAllocator.            *)
(*                                                                         *)
(* Time is not counted: a queued gap becomes due once its delay is over.   *)
(***************************************************************************)
EXTENDS Integers, FiniteSets

CONSTANTS
    Callers,    \* goroutines calling Next
    Cells,      \* allocators
    Start,      \* Config.Start
    GapEvery,   \* Config.GapEvery; 0 = no gaps
    GapSize,    \* Config.GapSize; 0 = no gaps
    Delayed,    \* Config.GapDelay > 0
    MaxCalls    \* bound: calls of Next per cell

ASSUME AllocatorAssumption ==
    /\ IsFiniteSet(Callers) /\ Cells # {}
    /\ Start \in Nat /\ GapEvery \in Nat /\ GapSize \in Nat /\ MaxCalls \in Nat
    /\ Delayed \in BOOLEAN

VARIABLES
    next,       \* Allocator.next of each cell; 0 while the cell does not exist
    counter,    \* Allocator.counter
    pending,    \* gaps in Allocator.pending whose delay is still running
    due,        \* gaps in Allocator.pending whose delay is over
    apc,        \* where each caller is inside Next
    cell,       \* the cell it is calling
    got,        \* s, the number it took
    gap,        \* gap, the numbers it has reserved so far
    begun,      \* calls of Next begun on each cell (ghost)
    handed,     \* numbers returned by Next (ghost)
    skipped,    \* numbers reserved for gaps (ghost)
    resent      \* numbers returned by DueRetransmits (ghost)

allocVars == <<next, counter, pending, due, apc, cell, got, gap, begun, handed,
               skipped, resent>>

\* New: a Start of 0 means 1.
FirstUncorrected == Start
First == IF Start = 0 THEN 1 ELSE Start

GapEnabled == GapEvery # 0 /\ GapSize # 0

AllocInit(initial) ==
    /\ next = [c \in Cells |-> initial]
    /\ counter = [c \in Cells |-> 0]
    /\ pending = [c \in Cells |-> {}]
    /\ due = [c \in Cells |-> {}]
    /\ apc = [w \in Callers |-> "idle"]
    /\ cell = [w \in Callers |-> CHOOSE c \in Cells : TRUE]
    /\ got = [w \in Callers |-> 0]
    /\ gap = [w \in Callers |-> {}]
    /\ begun = [c \in Cells |-> 0]
    /\ handed = [c \in Cells |-> {}]
    /\ skipped = [c \in Cells |-> {}]
    /\ resent = [c \in Cells |-> {}]

-----------------------------------------------------------------------------
(* The steps of Next().                                                    *)

CallerAt(w, from, to) ==
    /\ apc[w] = from
    /\ apc' = [apc EXCEPT ![w] = to]

\* s := a.next.Add(1) - 1, and the return when gaps are off.
Take(w, c) ==
    /\ begun[c] < MaxCalls
    /\ CallerAt(w, "idle", IF GapEnabled THEN "count" ELSE "return")
    /\ got' = [got EXCEPT ![w] = next[c]]
    /\ next' = [next EXCEPT ![c] = @ + 1]
    /\ cell' = [cell EXCEPT ![w] = c]
    /\ begun' = [begun EXCEPT ![c] = @ + 1]
    /\ UNCHANGED <<counter, pending, due, gap, handed, skipped, resent>>

\* n := a.counter.Add(1); n % a.gapEvery == 0
BumpOneEarly(w) ==
    LET c == cell[w] IN
    /\ CallerAt(w, "count",
                IF counter[c] % GapEvery = 0 THEN "reserve" ELSE "return")
    /\ counter' = [counter EXCEPT ![c] = @ + 1]
    /\ UNCHANGED <<next, pending, due, cell, got, gap, begun, handed, skipped, resent>>
Bump(w) ==
    LET c == cell[w] IN
    /\ CallerAt(w, "count",
                IF (counter[c] + 1) % GapEvery = 0 THEN "reserve" ELSE "return")
    /\ counter' = [counter EXCEPT ![c] = @ + 1]
    /\ UNCHANGED <<next, pending, due, cell, got, gap, begun, handed, skipped, resent>>

\* One round of the reservation loop: gap = append(gap, a.next.Add(1)-1).
ReserveStaleNumber(w) ==
    LET c == cell[w] IN
    /\ CallerAt(w, "reserve",
                IF Cardinality(gap[w]) + 1 < GapSize THEN "reserve"
                ELSE IF Delayed THEN "queue" ELSE "return")
    /\ next' = [next EXCEPT ![c] = @ + 1]
    /\ gap' = [gap EXCEPT ![w] = @ \cup {got[w] + 1 + Cardinality(gap[w])}]
    /\ skipped' = [skipped EXCEPT ![c] = @ \cup {got[w] + 1 + Cardinality(gap[w])}]
    /\ UNCHANGED <<counter, pending, due, cell, got, begun, handed, resent>>
Reserve(w) ==
    LET c == cell[w] IN
    /\ CallerAt(w, "reserve",
                IF Cardinality(gap[w]) + 1 < GapSize THEN "reserve"
                ELSE IF Delayed THEN "queue" ELSE "return")
    /\ next' = [next EXCEPT ![c] = @ + 1]
    /\ gap' = [gap EXCEPT ![w] = @ \cup {next[c]}]
    /\ skipped' = [skipped EXCEPT ![c] = @ \cup {next[c]}]
    /\ UNCHANGED <<counter, pending, due, cell, got, begun, handed, resent>>

\* Under mu: a.pending = append(a.pending, pendingGap{gap, now + gapDelay}).
QueueDropped(w) ==
    /\ CallerAt(w, "queue", "return")
    /\ UNCHANGED <<next, counter, pending, due, cell, got, gap, begun, handed,
                   skipped, resent>>
Queue(w) ==
    /\ CallerAt(w, "queue", "return")
    /\ pending' = [pending EXCEPT ![cell[w]] = @ \cup {gap[w]}]
    /\ UNCHANGED <<next, counter, due, cell, got, gap, begun, handed, skipped, resent>>

\* return s
GiveNumber(w) ==
    /\ CallerAt(w, "return", "idle")
    /\ handed' = [handed EXCEPT ![cell[w]] = @ \cup {got[w]}]
    /\ gap' = [gap EXCEPT ![w] = {}]
    /\ UNCHANGED <<next, counter, pending, due, cell, got, begun, skipped, resent>>

Inside(w) == Bump(w) \/ Reserve(w) \/ Queue(w) \/ GiveNumber(w)

-----------------------------------------------------------------------------
(* The retransmission list.                                                *)

\* The delay of one queued gap is over.
Ripen(c) ==
    /\ \E g \in pending[c] :
          /\ pending' = [pending EXCEPT ![c] = @ \ {g}]
          /\ due' = [due EXCEPT ![c] = @ \cup {g}]
    /\ UNCHANGED <<next, counter, apc, cell, got, gap, begun, handed, skipped, resent>>

\* Under mu: the entries that are due leave the list, the others are kept.
DueRetransmits(c) ==
    /\ due[c] # {}
    /\ resent' = [resent EXCEPT ![c] = @ \cup UNION due[c]]
    /\ due' = [due EXCEPT ![c] = {}]
    /\ UNCHANGED <<next, counter, pending, apc, cell, got, gap, begun, handed, skipped>>

-----------------------------------------------------------------------------
(* Callers of one allocator each time, and an owner that polls it.         *)

Init == AllocInit(First)

Next ==
    \/ \E w \in Callers : Inside(w) \/ \E c \in Cells : Take(w, c)
    \/ \E c \in Cells : Ripen(c) \/ DueRetransmits(c)

AllocSafety == Init /\ [][Next]_allocVars

-----------------------------------------------------------------------------
(* Properties.                                                             *)

Busy(c) == {w \in Callers : apc[w] # "idle" /\ cell[w] = c}

\* Numbers that callers have taken and not yet returned.
InFlight(c) == {got[w] : w \in Busy(c)}

\* Every variable keeps its type, and 0, the SeqNum of a frame that was not
\* stamped, is never handed out (New, lines 57-60).
AllocTypeOK ==
    /\ next \in [Cells -> Nat]
    /\ counter \in [Cells -> Nat]
    /\ pending \in [Cells -> SUBSET SUBSET Nat]
    /\ due \in [Cells -> SUBSET SUBSET Nat]
    /\ apc \in [Callers -> {"idle", "count", "reserve", "queue", "return"}]
    /\ cell \in [Callers -> Cells]
    /\ got \in [Callers -> Nat]
    /\ gap \in [Callers -> SUBSET Nat]
    /\ begun \in [Cells -> 0 .. MaxCalls]
    /\ handed \in [Cells -> SUBSET (Nat \ {0})]
    /\ skipped \in [Cells -> SUBSET Nat]
    /\ resent \in [Cells -> SUBSET Nat]

\* The numbers below next are exactly those handed out, in flight or skipped:
\* a gap is only ever a deliberate one (Next, lines 67-88).
NoNumberLost ==
    \A c \in Cells :
        First .. next[c] - 1 =
            handed[c] \cup InFlight(c) \cup skipped[c]

\* No number is used twice, however callers interleave: one caller's number is
\* not another's, was not returned before and is not a skipped one.
NoNumberTwice ==
    \A c \in Cells :
        /\ handed[c] \cap skipped[c] = {}
        /\ \A w \in Busy(c) :
              /\ got[w] \notin handed[c] \cup skipped[c]
              /\ \A v \in Busy(c) : got[v] = got[w] => v = w

\* When no call is under way the gaps taken are exactly those configured: one
\* of GapSize numbers per GapEvery calls (line 72), whichever caller drew it.
GapCadence ==
    \A c \in Cells :
        (Busy(c) = {} /\ next[c] # 0) =>
            next[c] = First + begun[c]
                      + (IF GapEnabled THEN GapSize * (begun[c] \div GapEvery) ELSE 0)

Queued(c)  == UNION (pending[c] \cup due[c])
InHands(c) == UNION {gap[w] : w \in {v \in Busy(c) : apc[v] \in {"reserve", "queue"}}}

\* With a delay, a skipped number is in one place only: being reserved, queued,
\* or handed over for retransmission; without one it is never sent (lines 78-85
\* and 92-109).
SkippedOnce ==
    \A c \in Cells :
        IF Delayed
        THEN /\ skipped[c] = InHands(c) \cup Queued(c) \cup resent[c]
             /\ InHands(c) \cap (Queued(c) \cup resent[c]) = {}
             /\ Queued(c) \cap resent[c] = {}
        ELSE resent[c] = {} /\ Queued(c) = {}

\* The numbers that can be skipped within the bound: a gap comes after at least
\* GapEvery numbers were taken.
Skippable ==
    First + GapEvery .. First + MaxCalls + GapSize * (MaxCalls \div GapEvery) - 1

\* Every skipped number is eventually handed over for retransmission, as
\* docs/configuration.md lines 76-77 and docs/usage.md lines 51-52 say of
\* -seq-gap-delay; only DueRetransmits does that (lines 90-91).
SkippedIsResent ==
    (Delayed /\ GapEnabled) =>
        \A c \in Cells :
            \A n \in Skippable : n \in skipped[c] ~> n \in resent[c]
=============================================================================
