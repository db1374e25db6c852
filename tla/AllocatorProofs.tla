-------------------------- MODULE AllocatorProofs ---------------------------
(***************************************************************************)
(* Theorems about Allocator, for every number of callers and cells, every  *)
(* Start and every gap configuration.                                      *)
(***************************************************************************)
EXTENDS Allocator, FiniteSetTheorems, TLAPS

\* The first number is at least one.
LEMMA FirstPositive == First \in Nat /\ First > 0
  BY AllocatorAssumption DEF First

\* The types, without the claim that 0 is never handed out.
AllocTypes ==
    /\ next \in [Cells -> Nat]
    /\ counter \in [Cells -> Nat]
    /\ pending \in [Cells -> SUBSET SUBSET Nat]
    /\ due \in [Cells -> SUBSET SUBSET Nat]
    /\ apc \in [Callers -> {"idle", "count", "reserve", "queue", "return"}]
    /\ cell \in [Callers -> Cells]
    /\ got \in [Callers -> Nat]
    /\ gap \in [Callers -> SUBSET Nat]
    /\ begun \in [Cells -> 0 .. MaxCalls]
    /\ handed \in [Cells -> SUBSET Nat]
    /\ skipped \in [Cells -> SUBSET Nat]
    /\ resent \in [Cells -> SUBSET Nat]

\* Every step of Next and of DueRetransmits keeps the types.
LEMMA AllocTypesInvariant == AllocSafety => []AllocTypes
  <1> USE AllocatorAssumption, FirstPositive
  <1>1. Init => AllocTypes
    BY DEF Init, AllocInit, AllocTypes
  <1>2. AllocTypes /\ [Next]_allocVars => AllocTypes'
    <2> SUFFICES ASSUME AllocTypes, [Next]_allocVars PROVE AllocTypes'
      OBVIOUS
    <2>1. ASSUME NEW w \in Callers, NEW c \in Cells, Take(w, c) PROVE AllocTypes'
      BY <2>1 DEF AllocTypes, Take, CallerAt
    <2>2. ASSUME NEW w \in Callers, Bump(w) PROVE AllocTypes'
      BY <2>2 DEF AllocTypes, Bump, CallerAt
    <2>3. ASSUME NEW w \in Callers, Reserve(w) PROVE AllocTypes'
      <3> DEFINE c == cell[w]
      <3>1. c \in Cells /\ next[c] \in Nat
        BY DEF AllocTypes
      <3>2. /\ next' \in [Cells -> Nat] /\ gap' \in [Callers -> SUBSET Nat]
            /\ skipped' \in [Cells -> SUBSET Nat]
        BY <2>3, <3>1 DEF AllocTypes, Reserve
      <3>3. apc' \in [Callers -> {"idle", "count", "reserve", "queue", "return"}]
        BY <2>3 DEF AllocTypes, Reserve, CallerAt
      <3> QED BY <2>3, <3>2, <3>3 DEF AllocTypes, Reserve
    <2>4. ASSUME NEW w \in Callers, Queue(w) PROVE AllocTypes'
      BY <2>4 DEF AllocTypes, Queue, CallerAt
    <2>5. ASSUME NEW w \in Callers, GiveNumber(w) PROVE AllocTypes'
      BY <2>5 DEF AllocTypes, GiveNumber, CallerAt
    <2>6. ASSUME NEW c \in Cells, Ripen(c) PROVE AllocTypes'
      BY <2>6 DEF AllocTypes, Ripen
    <2>7. ASSUME NEW c \in Cells, DueRetransmits(c) PROVE AllocTypes'
      <3>1. UNION due[c] \in SUBSET Nat
        BY DEF AllocTypes
      <3> QED BY <2>7, <3>1 DEF AllocTypes, DueRetransmits
    <2>8. CASE UNCHANGED allocVars
      BY <2>8 DEF AllocTypes, allocVars
    <2> QED BY <2>1, <2>2, <2>3, <2>4, <2>5, <2>6, <2>7, <2>8 DEF Next, Inside
  <1> QED BY <1>1, <1>2, PTL DEF AllocSafety

-----------------------------------------------------------------------------
(***************************************************************************)
(* The numbers of a cell.  NoNumberLost and NoNumberTwice are inductive    *)
(* together: a freshly taken or reserved number is next itself, which is   *)
(* above everything accounted for so far.                                  *)
(***************************************************************************)

\* Taking a number uses a new one.
LEMMA TakeNumbers ==
  ASSUME AllocTypes, NoNumberLost, NoNumberTwice, \A c \in Cells : next[c] >= First,
         NEW w \in Callers, NEW c \in Cells, Take(w, c)
  PROVE  /\ NoNumberLost' /\ NoNumberTwice' /\ \A d \in Cells : next'[d] >= First
  <1> USE FirstPositive
  <1>1. /\ apc[w] = "idle" /\ apc'[w] # "idle" /\ cell'[w] = c /\ got'[w] = next[c]
        /\ \A v \in Callers \ {w} : apc'[v] = apc[v] /\ cell'[v] = cell[v] /\ got'[v] = got[v]
        /\ next' = [next EXCEPT ![c] = @ + 1]
        /\ UNCHANGED <<handed, skipped>>
    BY DEF Take, CallerAt, AllocTypes
  <1>2. Busy(c)' = Busy(c) \cup {w} /\ w \notin Busy(c)
    BY <1>1 DEF Busy
  <1>3. \A d \in Cells \ {c} : Busy(d)' = Busy(d) /\ w \notin Busy(d)
    BY <1>1 DEF Busy
  <1>4. \A d \in Cells \ {c} : InFlight(d)' = InFlight(d)
    BY <1>1, <1>3 DEF InFlight, Busy
  <1>5. InFlight(c)' = InFlight(c) \cup {next[c]}
    BY <1>1, <1>2 DEF InFlight, Busy
  <1>6. next[c] \in Nat /\ next[c] >= First /\ next'[c] = next[c] + 1
    BY <1>1 DEF AllocTypes
  <1>7. next[c] \notin handed[c] \cup InFlight(c) \cup skipped[c]
    BY <1>6 DEF NoNumberLost
  <1>8. First .. next'[c] - 1 = (First .. next[c] - 1) \cup {next[c]}
    BY <1>6
  <1>9. ASSUME NEW d \in Cells
        PROVE  First .. next'[d] - 1 = handed'[d] \cup InFlight(d)' \cup skipped'[d]
    <2>1. CASE d = c
      BY <1>1, <1>5, <1>8, <2>1 DEF NoNumberLost
    <2>2. CASE d # c
      <3>1. next'[d] = next[d] /\ InFlight(d)' = InFlight(d)
        BY <1>1, <1>4, <2>2 DEF AllocTypes
      <3> QED BY <1>1, <3>1 DEF NoNumberLost
    <2> QED BY <2>1, <2>2
  <1>10. NoNumberLost'
    BY <1>9 DEF NoNumberLost
  <1>11. NoNumberTwice'
    <2> SUFFICES ASSUME NEW d \in Cells, NEW v \in Busy(d)'
                 PROVE  /\ got'[v] \notin handed[d] \cup skipped[d]
                        /\ \A u \in Busy(d)' : got'[u] = got'[v] => u = v
      BY <1>1 DEF NoNumberTwice
    <2>1. CASE d # c
      BY <1>1, <1>3, <2>1 DEF NoNumberTwice, Busy
    <2>2. CASE d = c
      <3>1. \A u \in Busy(c) : got'[u] = got[u] /\ got[u] \in InFlight(c) /\ got[u] # next[c]
        BY <1>1, <1>2, <1>7 DEF Busy, InFlight
      <3> QED BY <1>1, <1>2, <1>7, <2>2, <3>1 DEF NoNumberTwice
    <2> QED BY <2>1, <2>2
  <1>12. \A d \in Cells : next'[d] >= First
    BY <1>1 DEF AllocTypes
  <1> QED BY <1>10, <1>11, <1>12

\* Reserving a skipped number uses a new one.
LEMMA ReserveNumbers ==
  ASSUME AllocTypes, NoNumberLost, NoNumberTwice, \A c \in Cells : next[c] >= First,
         NEW w \in Callers, Reserve(w)
  PROVE  /\ NoNumberLost' /\ NoNumberTwice' /\ \A d \in Cells : next'[d] >= First
  <1> USE FirstPositive
  <1> DEFINE c == cell[w]
  <1>1. /\ c \in Cells /\ UNCHANGED <<cell, got, handed>>
        /\ \A v \in Callers : apc'[v] = "idle" <=> apc[v] = "idle"
        /\ next' = [next EXCEPT ![c] = @ + 1]
        /\ skipped' = [skipped EXCEPT ![c] = @ \cup {next[c]}]
    BY DEF Reserve, CallerAt, AllocTypes
  <1>2. \A d \in Cells : Busy(d)' = Busy(d) /\ InFlight(d)' = InFlight(d)
    BY <1>1 DEF Busy, InFlight
  <1>3. next[c] \in Nat /\ next[c] >= First /\ next'[c] = next[c] + 1
    BY <1>1 DEF AllocTypes
  <1>4. next[c] \notin handed[c] \cup InFlight(c) \cup skipped[c]
    BY <1>1, <1>3 DEF NoNumberLost
  <1>5. First .. next'[c] - 1 = (First .. next[c] - 1) \cup {next[c]}
    BY <1>3
  <1>6. skipped'[c] = skipped[c] \cup {next[c]}
    BY <1>1 DEF AllocTypes
  <1>7. \A d \in Cells \ {c} : next'[d] = next[d] /\ skipped'[d] = skipped[d]
    BY <1>1 DEF AllocTypes
  <1>8. NoNumberLost'
    <2> SUFFICES ASSUME NEW d \in Cells
                 PROVE  First .. next'[d] - 1 = handed'[d] \cup InFlight(d)' \cup skipped'[d]
      BY DEF NoNumberLost
    <2>1. CASE d = c
      BY <1>1, <1>2, <1>5, <1>6, <2>1 DEF NoNumberLost
    <2>2. CASE d # c
      BY <1>1, <1>2, <1>7, <2>2 DEF NoNumberLost
    <2> QED BY <2>1, <2>2
  <1>9. NoNumberTwice'
    <2>1. \A v \in Busy(c) : got[v] # next[c]
      BY <1>4 DEF InFlight
    <2>2. ASSUME NEW d \in Cells
          PROVE  /\ handed'[d] \cap skipped'[d] = {}
                 /\ \A v \in Busy(d)' :
                       /\ got'[v] \notin handed'[d] \cup skipped'[d]
                       /\ \A u \in Busy(d)' : got'[u] = got'[v] => u = v
      <3>1. CASE d = c
        BY <1>1, <1>2, <1>4, <1>6, <2>1, <3>1 DEF NoNumberTwice
      <3>2. CASE d # c
        BY <1>1, <1>2, <1>7, <3>2 DEF NoNumberTwice
      <3> QED BY <3>1, <3>2
    <2> QED BY <2>2 DEF NoNumberTwice
  <1>10. \A d \in Cells : next'[d] >= First
    BY <1>1 DEF AllocTypes
  <1> QED BY <1>8, <1>9, <1>10

\* Returning a number moves it from the caller's hands to those handed out.
LEMMA GiveNumbers ==
  ASSUME AllocTypes, NoNumberLost, NoNumberTwice, \A c \in Cells : next[c] >= First,
         NEW w \in Callers, GiveNumber(w)
  PROVE  /\ NoNumberLost' /\ NoNumberTwice' /\ \A d \in Cells : next'[d] >= First
  <1> DEFINE c == cell[w]
  <1>1. /\ c \in Cells /\ UNCHANGED <<cell, got, next, skipped>>
        /\ apc[w] = "return" /\ apc'[w] = "idle"
        /\ \A v \in Callers \ {w} : apc'[v] = apc[v]
        /\ handed' = [handed EXCEPT ![c] = @ \cup {got[w]}]
    BY DEF GiveNumber, CallerAt, AllocTypes
  <1>2. Busy(c)' = Busy(c) \ {w} /\ w \in Busy(c)
    BY <1>1 DEF Busy
  <1>3. \A d \in Cells \ {c} : Busy(d)' = Busy(d) /\ handed'[d] = handed[d]
    BY <1>1 DEF Busy, AllocTypes
  <1>4. handed'[c] = handed[c] \cup {got[w]}
    BY <1>1 DEF AllocTypes
  <1>5. InFlight(c)' = InFlight(c) \ {got[w]} /\ got[w] \in InFlight(c)
    BY <1>1, <1>2 DEF InFlight, NoNumberTwice
  <1>6. NoNumberLost'
    <2> SUFFICES ASSUME NEW d \in Cells
                 PROVE  First .. next[d] - 1 = handed'[d] \cup InFlight(d)' \cup skipped[d]
      BY <1>1 DEF NoNumberLost
    <2>1. CASE d = c
      BY <1>1, <1>4, <1>5, <2>1 DEF NoNumberLost
    <2>2. CASE d # c
      <3>1. Busy(d)' = Busy(d) /\ handed'[d] = handed[d] /\ got' = got
        BY <1>1, <1>3, <2>2
      <3>2. InFlight(d)' = InFlight(d)
        BY <3>1 DEF InFlight
      <3> QED BY <3>1, <3>2 DEF NoNumberLost
    <2> QED BY <2>1, <2>2
  <1>7. NoNumberTwice'
    <2> SUFFICES ASSUME NEW d \in Cells
                 PROVE  /\ handed'[d] \cap skipped[d] = {}
                        /\ \A v \in Busy(d)' :
                              /\ got[v] \notin handed'[d] \cup skipped[d]
                              /\ \A u \in Busy(d)' : got[u] = got[v] => u = v
      BY <1>1 DEF NoNumberTwice
    <2>1. CASE d = c
      <3>1. handed[c] \cap skipped[c] = {} /\ got[w] \notin skipped[c]
        BY <1>1, <1>2 DEF NoNumberTwice
      <3>2. \A v \in Busy(c) \ {w} : got[v] # got[w]
        BY <1>1, <1>2 DEF NoNumberTwice
      <3> QED BY <1>1, <1>2, <1>4, <2>1, <3>1, <3>2 DEF NoNumberTwice
    <2>2. CASE d # c
      BY <1>3, <2>2 DEF NoNumberTwice
    <2> QED BY <2>1, <2>2
  <1> QED BY <1>1, <1>6, <1>7

\* Everything else leaves the numbers alone.
LEMMA OtherNumbers ==
  ASSUME AllocTypes, NoNumberLost, NoNumberTwice, \A c \in Cells : next[c] >= First,
         \/ \E w \in Callers : Bump(w) \/ Queue(w)
         \/ \E c \in Cells : Ripen(c) \/ DueRetransmits(c)
         \/ UNCHANGED allocVars
  PROVE  /\ NoNumberLost' /\ NoNumberTwice' /\ \A d \in Cells : next'[d] >= First
  <1>1. /\ UNCHANGED <<next, cell, got, handed, skipped>>
        /\ \A v \in Callers : apc'[v] = "idle" <=> apc[v] = "idle"
    BY DEF Bump, Queue, Ripen, DueRetransmits, allocVars, CallerAt, AllocTypes
  <1>2. \A d \in Cells : Busy(d)' = Busy(d) /\ InFlight(d)' = InFlight(d)
    BY <1>1 DEF Busy, InFlight
  <1>3. NoNumberLost'
    BY <1>1, <1>2 DEF NoNumberLost
  <1>4. NoNumberTwice'
    BY <1>1, <1>2 DEF NoNumberTwice
  <1> QED BY <1>1, <1>3, <1>4

\* What the numbers of a cell keep true; next is never below the first one.
NumbersInv == NoNumberLost /\ NoNumberTwice /\ \A c \in Cells : next[c] >= First

\* Every step keeps it.
LEMMA NumbersInvariant == AllocSafety => []NumbersInv
  <1>1. Init => NumbersInv
    <2> SUFFICES ASSUME Init PROVE NumbersInv
      OBVIOUS
    <2>1. \A c \in Cells : /\ Busy(c) = {} /\ InFlight(c) = {} /\ next[c] = First
                           /\ handed[c] = {} /\ skipped[c] = {}
      BY DEF Init, AllocInit, Busy, InFlight
    <2>2. First .. First - 1 = {}
      BY FirstPositive
    <2> QED BY <2>1, <2>2, FirstPositive DEF NumbersInv, NoNumberLost, NoNumberTwice
  <1>2. AllocTypes /\ NumbersInv /\ [Next]_allocVars => NumbersInv'
    BY TakeNumbers, ReserveNumbers, GiveNumbers, OtherNumbers DEF Next, Inside, NumbersInv
  <1> QED BY <1>1, <1>2, AllocTypesInvariant, PTL DEF AllocSafety

\* Next never uses a number twice, whatever the callers' interleaving and the
\* gap configuration.
THEOREM NumbersUsedOnce == AllocSafety => []NoNumberTwice
  <1>1. NumbersInv => NoNumberTwice
    BY DEF NumbersInv
  <1> QED BY <1>1, NumbersInvariant, PTL

\* Next never loses a number: what it has drawn is handed out, in a caller's
\* hands or skipped on purpose.
THEOREM NumbersAccounted == AllocSafety => []NoNumberLost
  <1>1. NumbersInv => NoNumberLost
    BY DEF NumbersInv
  <1> QED BY <1>1, NumbersInvariant, PTL

\* The variables keep their types and no frame is ever given the SeqNum 0.
THEOREM AllocTypeCorrect == AllocSafety => []AllocTypeOK
  <1>1. AllocTypes /\ NoNumberLost => AllocTypeOK
    <2> SUFFICES ASSUME AllocTypes, NoNumberLost PROVE AllocTypeOK
      OBVIOUS
    <2>1. \A c \in Cells : handed[c] \subseteq Nat \ {0}
      BY FirstPositive DEF NoNumberLost, AllocTypes
    <2>2. handed \in [Cells -> SUBSET (Nat \ {0})]
      BY <2>1 DEF AllocTypes
    <2> QED BY <2>2 DEF AllocTypes, AllocTypeOK
  <1> QED BY <1>1, AllocTypesInvariant, NumbersAccounted, PTL

-----------------------------------------------------------------------------
(***************************************************************************)
(* The skipped numbers.  SkippedOnce needs the gaps of different callers,  *)
(* and those that wait and those that are due, to be pairwise disjoint: a  *)
(* gap that is queued or ripens must not take a number of another with it. *)
(***************************************************************************)

\* Callers that are collecting or queueing a gap.
Holders(c) == {w \in Busy(c) : apc[w] \in {"reserve", "queue"}}

GapsApart ==
    /\ \A w \in Callers :
          /\ apc[w] \in {"idle", "count"} => gap[w] = {}
          /\ apc[w] = "queue" => Delayed
    /\ Delayed => \A c \in Cells :
          /\ \A v, w \in Holders(c) : v # w => gap[v] \cap gap[w] = {}
          /\ \A g, h \in pending[c] : g # h => g \cap h = {}
          /\ \A g \in pending[c], h \in due[c] : g \cap h = {}

SkipInv == SkippedOnce /\ GapsApart

\* Membership in the numbers of gaps.
LEMMA SkipMembers ==
  ASSUME NEW c \in Cells, NEW n
  PROVE  /\ n \in InHands(c) <=> \E w \in Holders(c) : n \in gap[w]
         /\ n \in Queued(c) <=> \E g \in pending[c] \cup due[c] : n \in g
  BY DEF InHands, Holders, Queued

\* Counting a call begins an empty gap or none.
LEMMA QuietSkips ==
  ASSUME AllocTypes, SkipInv, NEW w \in Callers,
         Bump(w) \/ (\E c \in Cells : Take(w, c)) \/ GiveNumber(w)
  PROVE  SkipInv'
  <1>1. /\ UNCHANGED <<pending, due, skipped, resent>>
        /\ \A v \in Callers \ {w} : apc'[v] = apc[v] /\ cell'[v] = cell[v] /\ gap'[v] = gap[v]
        /\ apc[w] \in {"idle", "count", "return"} /\ apc'[w] # "queue"
        /\ apc'[w] \in {"idle", "count", "reserve"} => gap'[w] = {}
    BY DEF Bump, Take, GiveNumber, CallerAt, AllocTypes, SkipInv, GapsApart
  <1>2. \A c \in Cells : w \notin Holders(c) /\ Holders(c) \subseteq Holders(c)'
                         /\ Holders(c)' \subseteq Holders(c) \cup {w}
    BY <1>1 DEF Holders, Busy
  <1>3. \A c \in Cells : w \in Holders(c)' => gap'[w] = {}
    BY <1>1 DEF Holders
  <1>4. GapsApart'
    <2>1. \A v \in Callers : /\ apc'[v] \in {"idle", "count"} => gap'[v] = {}
                            /\ apc'[v] = "queue" => Delayed
      BY <1>1 DEF SkipInv, GapsApart
    <2>2. ASSUME Delayed, NEW c \in Cells, NEW v \in Holders(c)', NEW u \in Holders(c)', v # u
          PROVE  gap'[v] \cap gap'[u] = {}
      <3>1. CASE v = w \/ u = w
        BY <1>3, <3>1
      <3>2. CASE v # w /\ u # w
        <4>1. v \in Holders(c) /\ u \in Holders(c) /\ gap'[v] = gap[v] /\ gap'[u] = gap[u]
          BY <1>1, <1>2, <3>2 DEF Holders, Busy
        <4> QED BY <2>2, <4>1 DEF SkipInv, GapsApart
      <3> QED BY <3>1, <3>2
    <2> QED BY <1>1, <2>1, <2>2 DEF SkipInv, GapsApart
  <1>5. \A c \in Cells : InHands(c)' = InHands(c) /\ Queued(c)' = Queued(c)
    <2> SUFFICES ASSUME NEW c \in Cells PROVE InHands(c)' = InHands(c) /\ Queued(c)' = Queued(c)
      OBVIOUS
    <2>1. \A n : n \in InHands(c)' <=> n \in InHands(c)
      <3> SUFFICES ASSUME NEW n PROVE n \in InHands(c)' <=> n \in InHands(c)
        OBVIOUS
      <3>1. n \in InHands(c) <=> \E v \in Holders(c) : n \in gap[v]
        BY SkipMembers
      <3>2. n \in InHands(c)' <=> \E v \in Holders(c)' : n \in gap'[v]
        BY DEF InHands, Holders
      <3>3. \A v \in Holders(c) : gap'[v] = gap[v]
        BY <1>1, <1>2 DEF Holders, Busy
      <3> QED BY <1>2, <1>3, <3>1, <3>2, <3>3
    <2> QED BY <1>1, <2>1 DEF Queued, InHands
  <1>6. SkippedOnce'
    BY <1>1, <1>5 DEF SkipInv, SkippedOnce
  <1> QED BY <1>4, <1>6 DEF SkipInv

\* Reserving takes a number that no gap has.
LEMMA ReserveSkips ==
  ASSUME AllocTypes, SkipInv, NoNumberLost, \A c \in Cells : next[c] >= First,
         NEW w \in Callers, Reserve(w)
  PROVE  SkipInv'
  <1> DEFINE c == cell[w]
  <1>1. /\ UNCHANGED <<pending, due, cell, resent>> /\ c \in Cells
        /\ \A v \in Callers \ {w} : apc'[v] = apc[v] /\ gap'[v] = gap[v]
        /\ apc[w] = "reserve" /\ apc'[w] \in {"reserve", "queue", "return"}
        /\ Delayed => apc'[w] \in {"reserve", "queue"}
        /\ apc'[w] = "queue" => Delayed
        /\ gap'[w] = gap[w] \cup {next[c]}
        /\ skipped'[c] = skipped[c] \cup {next[c]}
        /\ \A d \in Cells \ {c} : skipped'[d] = skipped[d]
    BY DEF Reserve, CallerAt, AllocTypes
  <1>2. CASE ~Delayed
    BY <1>1, <1>2 DEF SkipInv, SkippedOnce, GapsApart, Queued
  <1>3. CASE Delayed
    <2>1. next[c] \notin skipped[c]
      BY <1>1, FirstPositive DEF NoNumberLost, AllocTypes
    <2>2. \A d \in Cells : Holders(d)' = Holders(d)
      BY <1>1, <1>3 DEF Holders, Busy
    <2>3. w \in Holders(c) /\ \A d \in Cells \ {c} : w \notin Holders(d)
      BY <1>1 DEF Holders, Busy
    <2>4. \A d \in Cells : \A v \in Holders(d) : v # w => gap'[v] = gap[v]
      BY <1>1 DEF Holders, Busy
    <2>5. skipped[c] = InHands(c) \cup Queued(c) \cup resent[c]
      BY <1>1, <1>3 DEF SkipInv, SkippedOnce
    <2>6. \A v \in Holders(c) : next[c] \notin gap[v]
      BY <1>1, <2>1, <2>5, SkipMembers
    <2>7. GapsApart'
      <3>1. \A v \in Callers : /\ apc'[v] \in {"idle", "count"} => gap'[v] = {}
                              /\ apc'[v] = "queue" => Delayed
        BY <1>1, <1>3 DEF SkipInv, GapsApart
      <3>2. ASSUME NEW d \in Cells, NEW v \in Holders(d), NEW u \in Holders(d), v # u
            PROVE  gap'[v] \cap gap'[u] = {}
        <4>1. gap[v] \cap gap[u] = {}
          BY <1>3, <3>2 DEF SkipInv, GapsApart
        <4>2. (v = w \/ u = w) => d = c
          BY <2>3, <3>2
        <4>3. gap'[v] = (IF v = w THEN gap[v] \cup {next[c]} ELSE gap[v])
          BY <1>1, <2>4
        <4>4. gap'[u] = (IF u = w THEN gap[u] \cup {next[c]} ELSE gap[u])
          BY <1>1, <2>4
        <4> QED BY <2>6, <3>2, <4>1, <4>2, <4>3, <4>4
      <3> QED BY <1>1, <1>3, <2>2, <3>1, <3>2 DEF SkipInv, GapsApart
    <2>8. \A d \in Cells \ {c} : InHands(d)' = InHands(d)
      <3> SUFFICES ASSUME NEW d \in Cells \ {c} PROVE InHands(d)' = InHands(d)
        OBVIOUS
      <3>1. \A v \in Holders(d) : gap'[v] = gap[v]
        BY <2>3, <2>4
      <3> QED BY <2>2, <3>1 DEF InHands, Holders
    <2>9. InHands(c)' = InHands(c) \cup {next[c]}
      <3>1. \A n : n \in InHands(c)' <=> \E v \in Holders(c) : n \in gap'[v]
        BY <1>1, <2>2 DEF InHands, Holders
      <3>2. \A n : n \in InHands(c) <=> \E v \in Holders(c) : n \in gap[v]
        BY <1>1, SkipMembers
      <3>3. \A n : n \in InHands(c)' <=> n \in InHands(c) \cup {next[c]}
        BY <1>1, <2>3, <2>4, <3>1, <3>2
      <3> QED BY <3>3 DEF InHands
    <2>10. \A d \in Cells : Queued(d)' = Queued(d)
      BY <1>1 DEF Queued
    <2>11. SkippedOnce'
      <3> SUFFICES ASSUME NEW d \in Cells
                   PROVE  /\ skipped'[d] = InHands(d)' \cup Queued(d)' \cup resent'[d]
                          /\ InHands(d)' \cap (Queued(d)' \cup resent'[d]) = {}
                          /\ Queued(d)' \cap resent'[d] = {}
        BY <1>3 DEF SkippedOnce
      <3>1. /\ skipped[d] = InHands(d) \cup Queued(d) \cup resent[d]
            /\ InHands(d) \cap (Queued(d) \cup resent[d]) = {}
            /\ Queued(d) \cap resent[d] = {}
        BY <1>3 DEF SkipInv, SkippedOnce
      <3>2. CASE d = c
        BY <1>1, <2>1, <2>9, <2>10, <3>1, <3>2
      <3>3. CASE d # c
        BY <1>1, <2>8, <2>10, <3>1, <3>3
      <3> QED BY <3>2, <3>3
    <2> QED BY <2>7, <2>11 DEF SkipInv
  <1> QED BY <1>2, <1>3, AllocatorAssumption

\* Queueing moves a whole gap from its caller's hands to the list.
LEMMA QueueSkips ==
  ASSUME AllocTypes, SkipInv, NEW w \in Callers, Queue(w)
  PROVE  SkipInv'
  <1>0. PICK k \in Cells : k = cell[w]
    BY DEF AllocTypes
  <1>1. /\ UNCHANGED <<due, cell, gap, skipped, resent>>
        /\ \A v \in Callers \ {w} : apc'[v] = apc[v]
        /\ apc[w] = "queue" /\ apc'[w] = "return"
        /\ pending'[k] = pending[k] \cup {gap[w]}
        /\ \A d \in Cells \ {k} : pending'[d] = pending[d]
    BY <1>0 DEF Queue, CallerAt, AllocTypes
  <1>2. Delayed
    BY <1>1 DEF SkipInv, GapsApart
  <1>3. Holders(k)' = Holders(k) \ {w} /\ w \in Holders(k)
    BY <1>0, <1>1 DEF Holders, Busy
  <1>4. \A d \in Cells \ {k} : Holders(d)' = Holders(d)
    BY <1>0, <1>1 DEF Holders, Busy
  <1>5. \A d \in Cells \ {k} : InHands(d)' = InHands(d) /\ Queued(d)' = Queued(d)
    <2> SUFFICES ASSUME NEW d \in Cells \ {k}
                 PROVE  InHands(d)' = InHands(d) /\ Queued(d)' = Queued(d)
      OBVIOUS
    <2>1. Holders(d)' = Holders(d) /\ gap' = gap
      BY <1>1, <1>4
    <2> QED BY <1>1, <2>1 DEF InHands, Queued, Holders
  <1>6. Queued(k)' = Queued(k) \cup gap[w]
    BY <1>1 DEF Queued
  <1>7. InHands(k) = InHands(k)' \cup gap[w] /\ InHands(k)' \cap gap[w] = {}
    <2>1. \A n : n \in InHands(k)' <=> \E v \in Holders(k)' : n \in gap[v]
      BY <1>1 DEF InHands, Holders
    <2>2. \A n : n \in InHands(k) <=> \E v \in Holders(k) : n \in gap[v]
      BY <1>1, SkipMembers
    <2>3. \A v \in Holders(k)' : gap[v] \cap gap[w] = {}
      BY <1>1, <1>2, <1>3 DEF SkipInv, GapsApart
    <2> QED BY <1>3, <2>1, <2>2, <2>3
  <1>8. /\ skipped[k] = InHands(k) \cup Queued(k) \cup resent[k]
        /\ InHands(k) \cap (Queued(k) \cup resent[k]) = {}
        /\ Queued(k) \cap resent[k] = {}
    BY <1>1, <1>2 DEF SkipInv, SkippedOnce
  <1>9. SkippedOnce'
    <2> SUFFICES ASSUME NEW d \in Cells
                 PROVE  /\ skipped[d] = InHands(d)' \cup Queued(d)' \cup resent[d]
                        /\ InHands(d)' \cap (Queued(d)' \cup resent[d]) = {}
                        /\ Queued(d)' \cap resent[d] = {}
      BY <1>1, <1>2 DEF SkippedOnce
    <2>1. CASE d = k
      BY <1>6, <1>7, <1>8, <2>1
    <2>2. CASE d # k
      BY <1>2, <1>5, <2>2 DEF SkipInv, SkippedOnce
    <2> QED BY <2>1, <2>2
  <1>10. GapsApart'
    <2>1. \A v \in Callers : /\ apc'[v] \in {"idle", "count"} => gap'[v] = {}
                            /\ apc'[v] = "queue" => Delayed
      BY <1>1, <1>2 DEF SkipInv, GapsApart
    <2>2. \A d \in Cells : \A v, u \in Holders(d)' : v # u => gap'[v] \cap gap'[u] = {}
      <3> SUFFICES ASSUME NEW d \in Cells, NEW v \in Holders(d)', NEW u \in Holders(d)', v # u
                   PROVE  gap'[v] \cap gap'[u] = {}
        OBVIOUS
      <3>1. v \in Holders(d) /\ u \in Holders(d)
        BY <1>3, <1>4
      <3> QED BY <1>1, <1>2, <3>1 DEF SkipInv, GapsApart
    <2>3. \A g \in pending[k] \cup due[k] : gap[w] \cap g = {}
      BY <1>7, <1>8 DEF Queued
    <2>4. \A d \in Cells : /\ \A g, h \in pending[d] : g # h => g \cap h = {}
                          /\ \A g \in pending[d], h \in due[d] : g \cap h = {}
      BY <1>2 DEF SkipInv, GapsApart
    <2>5. \A d \in Cells : /\ \A g, h \in pending'[d] : g # h => g \cap h = {}
                          /\ \A g \in pending'[d], h \in due'[d] : g \cap h = {}
      BY <1>1, <2>3, <2>4
    <2> QED BY <1>1, <1>2, <2>1, <2>2, <2>5 DEF SkipInv, GapsApart
  <1> QED BY <1>9, <1>10 DEF SkipInv

\* A gap that becomes due, and due gaps that are handed over, go whole.
LEMMA DueSkips ==
  ASSUME AllocTypes, SkipInv, NEW c \in Cells, Ripen(c) \/ DueRetransmits(c)
  PROVE  SkipInv'
  <1>1. UNCHANGED <<apc, cell, gap, skipped>>
    BY DEF Ripen, DueRetransmits
  <1>2. \A d \in Cells : Holders(d)' = Holders(d) /\ InHands(d)' = InHands(d)
    BY <1>1 DEF Holders, InHands, Busy
  <1>3. CASE Ripen(c)
    <2>1. PICK g \in pending[c] : /\ pending' = [pending EXCEPT ![c] = @ \ {g}]
                                 /\ due' = [due EXCEPT ![c] = @ \cup {g}]
      BY <1>3 DEF Ripen
    <2>2. /\ pending'[c] = pending[c] \ {g} /\ due'[c] = due[c] \cup {g}
          /\ \A d \in Cells \ {c} : pending'[d] = pending[d] /\ due'[d] = due[d]
          /\ resent' = resent
      BY <1>3, <2>1 DEF AllocTypes, Ripen
    <2>3. \A d \in Cells : pending'[d] \cup due'[d] = pending[d] \cup due[d]
      BY <2>1, <2>2
    <2>4. \A d \in Cells : Queued(d)' = Queued(d)
      BY <2>3 DEF Queued
    <2>5. SkippedOnce'
      BY <1>1, <1>2, <2>2, <2>4 DEF SkipInv, SkippedOnce
    <2>6. Delayed => \A d \in Cells :
             /\ \A e, h \in pending'[d] : e # h => e \cap h = {}
             /\ \A e \in pending'[d], h \in due'[d] : e \cap h = {}
      <3> SUFFICES ASSUME Delayed, NEW d \in Cells
                   PROVE  /\ \A e, h \in pending'[d] : e # h => e \cap h = {}
                          /\ \A e \in pending'[d], h \in due'[d] : e \cap h = {}
        OBVIOUS
      <3>1. /\ \A e, h \in pending[d] : e # h => e \cap h = {}
            /\ \A e \in pending[d], h \in due[d] : e \cap h = {}
        BY DEF SkipInv, GapsApart
      <3>2. CASE d # c
        BY <2>2, <3>1, <3>2
      <3>3. CASE d = c
        BY <2>1, <2>2, <3>1, <3>3
      <3> QED BY <3>2, <3>3
    <2>7. GapsApart'
      BY <1>1, <1>2, <2>6 DEF SkipInv, GapsApart
    <2> QED BY <2>5, <2>7 DEF SkipInv
  <1>4. CASE DueRetransmits(c)
    <2>1. /\ due'[c] = {} /\ resent'[c] = resent[c] \cup UNION due[c]
          /\ \A d \in Cells \ {c} : due'[d] = due[d] /\ resent'[d] = resent[d]
          /\ pending' = pending /\ due[c] # {}
      BY <1>4 DEF DueRetransmits, AllocTypes
    <2>2. \A d \in Cells \ {c} : Queued(d)' = Queued(d)
      BY <2>1 DEF Queued
    <2>3. Queued(c)' = UNION pending[c] /\ Queued(c) = (UNION pending[c]) \cup (UNION due[c])
      <3>1. pending'[c] \cup due'[c] = pending[c]
        BY <2>1
      <3>2. \A n : n \in Queued(c) <=> n \in (UNION pending[c]) \cup (UNION due[c])
        BY SkipMembers
      <3> QED BY <3>1, <3>2 DEF Queued
    <2>4. CASE Delayed
      <3>1. (UNION pending[c]) \cap (UNION due[c]) = {}
        <4> SUFFICES ASSUME NEW n \in UNION pending[c], n \in UNION due[c] PROVE FALSE
          OBVIOUS
        <4>1. PICK g \in pending[c] : n \in g
          OBVIOUS
        <4>2. PICK h \in due[c] : n \in h
          OBVIOUS
        <4>3. g \cap h = {}
          BY <2>4 DEF SkipInv, GapsApart
        <4> QED BY <4>1, <4>2, <4>3
      <3>2. SkippedOnce'
        <4> SUFFICES ASSUME NEW d \in Cells
                     PROVE  /\ skipped[d] = InHands(d) \cup Queued(d)' \cup resent'[d]
                            /\ InHands(d) \cap (Queued(d)' \cup resent'[d]) = {}
                            /\ Queued(d)' \cap resent'[d] = {}
          BY <1>1, <1>2, <2>4 DEF SkippedOnce
        <4>1. /\ skipped[d] = InHands(d) \cup Queued(d) \cup resent[d]
              /\ InHands(d) \cap (Queued(d) \cup resent[d]) = {}
              /\ Queued(d) \cap resent[d] = {}
          BY <2>4 DEF SkipInv, SkippedOnce
        <4>2. CASE d = c
          <5>1. /\ Queued(d)' = UNION pending[d] /\ Queued(d) = (UNION pending[d]) \cup (UNION due[d])
                /\ resent'[d] = resent[d] \cup UNION due[d]
                /\ (UNION pending[d]) \cap (UNION due[d]) = {}
            BY <2>1, <2>3, <3>1, <4>2
          <5> DEFINE P == UNION pending[d]
                     D == UNION due[d]
          <5>2. /\ Queued(d)' = P /\ Queued(d) = P \cup D
                /\ resent'[d] = resent[d] \cup D /\ P \cap D = {}
            BY <5>1
          <5> HIDE DEF P, D
          <5> QED BY <4>1, <5>2
        <4>3. CASE d # c
          BY <2>1, <2>2, <4>1, <4>3
        <4> QED BY <4>2, <4>3
      <3>3. \A d \in Cells : \A g \in pending[d], h \in due'[d] : g \cap h = {}
        <4> SUFFICES ASSUME NEW d \in Cells, NEW g \in pending[d], NEW h \in due'[d]
                     PROVE  g \cap h = {}
          OBVIOUS
        <4>1. h \in due[d]
          BY <2>1
        <4> QED BY <2>4, <4>1 DEF SkipInv, GapsApart
      <3>4. GapsApart'
        BY <1>1, <1>2, <2>1, <2>4, <3>3 DEF SkipInv, GapsApart
      <3> QED BY <3>2, <3>4 DEF SkipInv
    <2>5. CASE ~Delayed
      <3>1. \A d \in Cells : Queued(d) = {} /\ resent[d] = {}
        BY <2>5 DEF SkipInv, SkippedOnce
      <3>2. UNION pending[c] = {} /\ UNION due[c] = {}
        BY <2>3, <3>1
      <3>3. \A d \in Cells : resent'[d] = {} /\ Queued(d)' = {}
        BY <2>1, <2>2, <2>3, <3>1, <3>2
      <3> QED BY <1>1, <2>5, <3>3 DEF SkipInv, SkippedOnce, GapsApart
    <2> QED BY <2>4, <2>5, AllocatorAssumption
  <1> QED BY <1>3, <1>4

\* Every step keeps the gaps apart and their numbers in one place.
LEMMA SkipInvariant == AllocSafety => []SkipInv
  <1>1. Init => SkipInv
    <2> SUFFICES ASSUME Init PROVE SkipInv
      OBVIOUS
    <2>1. \A c \in Cells : /\ Holders(c) = {} /\ InHands(c) = {} /\ Queued(c) = {}
                           /\ skipped[c] = {} /\ resent[c] = {} /\ pending[c] = {} /\ due[c] = {}
      BY DEF Init, AllocInit, Holders, Busy, InHands, Queued
    <2>2. \A w \in Callers : gap[w] = {} /\ apc[w] = "idle"
      BY DEF Init, AllocInit
    <2> QED BY <2>1, <2>2 DEF SkipInv, SkippedOnce, GapsApart
  <1>2. AllocTypes /\ NumbersInv /\ SkipInv /\ [Next]_allocVars => SkipInv'
    <2> SUFFICES ASSUME AllocTypes, NumbersInv, SkipInv, [Next]_allocVars PROVE SkipInv'
      OBVIOUS
    <2>1. CASE \E w \in Callers : Bump(w) \/ GiveNumber(w) \/ \E c \in Cells : Take(w, c)
      BY <2>1, QuietSkips
    <2>2. CASE \E w \in Callers : Reserve(w)
      BY <2>2, ReserveSkips DEF NumbersInv
    <2>3. CASE \E w \in Callers : Queue(w)
      BY <2>3, QueueSkips
    <2>4. CASE \E c \in Cells : Ripen(c) \/ DueRetransmits(c)
      BY <2>4, DueSkips
    <2>5. CASE UNCHANGED allocVars
      <3>1. UNCHANGED <<pending, due, apc, cell, gap, skipped, resent>>
        BY <2>5 DEF allocVars
      <3>2. \A c \in Cells : /\ Holders(c)' = Holders(c) /\ InHands(c)' = InHands(c)
                             /\ Queued(c)' = Queued(c)
        BY <3>1 DEF Holders, InHands, Queued, Busy
      <3> QED BY <3>1, <3>2 DEF SkipInv, SkippedOnce, GapsApart
    <2> QED BY <2>1, <2>2, <2>3, <2>4, <2>5 DEF Next, Inside
  <1> QED BY <1>1, <1>2, AllocTypesInvariant, NumbersInvariant, PTL DEF AllocSafety

\* With a delay every skipped number is in one place: in the hands of the
\* caller that skipped it, queued, or handed over for retransmission.  None is
\* lost and none is sent twice, however callers and the poller interleave.
THEOREM SkippedNumbersOnce == AllocSafety => []SkippedOnce
  <1>1. SkipInv => SkippedOnce
    BY DEF SkipInv
  <1> QED BY <1>1, SkipInvariant, PTL

-----------------------------------------------------------------------------
(***************************************************************************)
(* The cadence of the gaps.  GapCadence speaks of a cell nobody is in; for *)
(* it to be kept, the calls that have a number and are not counted yet,    *)
(* and the numbers still to be reserved for gaps already begun, must be in *)
(* the books of every state.  The latter are counted over all callers as a *)
(* set of pairs of a caller and a place in its gap.                        *)
(***************************************************************************)

\* Calls that have taken a number and not yet bumped the counter.
Counting(c) == {w \in Callers : apc[w] = "count" /\ cell[w] = c}

\* Numbers a caller has still to reserve for its gap.
Owes(w, c) ==
    IF apc[w] = "reserve" /\ cell[w] = c THEN GapSize - Cardinality(gap[w]) ELSE 0
Owed(c) == {p \in Callers \X (1 .. GapSize) : p[2] <= Owes(p[1], c)}

CellBooks(c) ==
    /\ IsFiniteSet(skipped[c])
    /\ next[c] = First + begun[c] + Cardinality(skipped[c])
    /\ GapEnabled => begun[c] = counter[c] + Cardinality(Counting(c))
    /\ GapEnabled => Cardinality(skipped[c]) + Cardinality(Owed(c))
                        = GapSize * (counter[c] \div GapEvery)
    /\ ~GapEnabled => skipped[c] = {}

GapBegun(w) ==
    /\ IsFiniteSet(gap[w])
    /\ apc[w] \in {"count", "reserve", "queue"} => GapEnabled
    /\ apc[w] = "reserve" => /\ Cardinality(gap[w]) < GapSize
                             /\ gap[w] \subseteq skipped[cell[w]]

CadenceInv == (\A w \in Callers : GapBegun(w)) /\ (\A c \in Cells : CellBooks(c))

\* The parts of a finite set are counted apart.
LEMMA DisjointUnion ==
  ASSUME NEW S, NEW T, IsFiniteSet(S), IsFiniteSet(T), S \cap T = {}
  PROVE  /\ IsFiniteSet(S \cup T)
         /\ Cardinality(S \cup T) = Cardinality(S) + Cardinality(T)
  <1>1. Cardinality(S \cap T) = 0 /\ Cardinality(S) \in Nat /\ Cardinality(T) \in Nat
    BY FS_EmptySet, FS_CardinalityType
  <1>2. /\ IsFiniteSet(S \cup T)
        /\ Cardinality(S \cup T) = Cardinality(S) + Cardinality(T) - Cardinality(S \cap T)
    BY FS_Union
  <1> QED BY <1>1, <1>2

\* What is owed can be counted.
LEMMA OwedFinite ==
  ASSUME NEW c
  PROVE  /\ IsFiniteSet(Owed(c)) /\ Cardinality(Owed(c)) \in Nat
         /\ IsFiniteSet(Counting(c)) /\ Cardinality(Counting(c)) \in Nat
  <1>1. IsFiniteSet(Callers) /\ IsFiniteSet(1 .. GapSize)
    BY AllocatorAssumption, FS_Interval
  <1>2. IsFiniteSet(Callers \X (1 .. GapSize))
    BY <1>1, FS_Product
  <1>3. Owed(c) \in SUBSET (Callers \X (1 .. GapSize)) /\ Counting(c) \in SUBSET Callers
    BY DEF Owed, Counting
  <1> QED BY <1>1, <1>2, <1>3, FS_Subset, FS_CardinalityType

\* A step of one caller changes what is owed by what it does itself.
LEMMA OwedMoves ==
  ASSUME NEW w \in Callers, NEW c \in Cells,
         Owes(w, c) \in 0 .. GapSize, Owes(w, c)' \in 0 .. GapSize,
         \A v \in Callers \ {w} : Owes(v, c)' = Owes(v, c)
  PROVE  /\ Cardinality(Owed(c)) \in Nat /\ Cardinality(Owed(c)') \in Nat
         /\ Cardinality(Owed(c)') = Cardinality(Owed(c)) + Owes(w, c)' - Owes(w, c)
  <1> DEFINE Rest == {p \in Owed(c) : p[1] # w}
             Mine == {w} \X (1 .. Owes(w, c))
             Left == {w} \X (1 .. Owes(w, c)')
  <1>1. \A n \in Nat : IsFiniteSet({w} \X (1 .. n)) /\ Cardinality({w} \X (1 .. n)) = n
    <2> SUFFICES ASSUME NEW n \in Nat
                 PROVE  IsFiniteSet({w} \X (1 .. n)) /\ Cardinality({w} \X (1 .. n)) = n
      OBVIOUS
    <2>1. IsFiniteSet({w}) /\ Cardinality({w}) = 1
      BY FS_Singleton
    <2>2. IsFiniteSet(1 .. n) /\ Cardinality(1 .. n) = n
      <3>1. 1 \in Int /\ n \in Int /\ (IF 1 > n THEN 0 ELSE n - 1 + 1) = n
        OBVIOUS
      <3> QED BY <3>1, FS_Interval
    <2>3. 1 * n = n
      OBVIOUS
    <2> QED BY <2>1, <2>2, <2>3, FS_Product
  <1>2. Owed(c) = Rest \cup Mine /\ Rest \cap Mine = {}
    BY AllocatorAssumption DEF Owed
  <1>3. Owed(c)' = Rest \cup Left /\ Rest \cap Left = {}
    BY AllocatorAssumption DEF Owed
  <1>4. IsFiniteSet(Rest) /\ Cardinality(Rest) \in Nat
    BY OwedFinite, FS_Subset, FS_CardinalityType
  <1>5. IsFiniteSet(Mine) /\ Cardinality(Mine) = Owes(w, c)
    BY <1>1
  <1>6. IsFiniteSet(Left) /\ Cardinality(Left) = Owes(w, c)'
    BY <1>1
  <1> HIDE DEF Rest, Mine, Left
  <1>7. Cardinality(Rest \cup Mine) = Cardinality(Rest) + Cardinality(Mine)
    BY <1>2, <1>4, <1>5, DisjointUnion
  <1>8. Cardinality(Rest \cup Left) = Cardinality(Rest) + Cardinality(Left)
    BY <1>3, <1>4, <1>6, DisjointUnion
  <1> QED BY <1>2, <1>3, <1>4, <1>5, <1>6, <1>7, <1>8

\* A cell none of whose books a step touches.
LEMMA QuietCell ==
  ASSUME NEW c \in Cells, CellBooks(c),
         next'[c] = next[c], begun'[c] = begun[c], counter'[c] = counter[c],
         skipped'[c] = skipped[c], Counting(c)' = Counting(c),
         \A v \in Callers : Owes(v, c)' = Owes(v, c)
  PROVE  CellBooks(c)'
  <1>1. Owed(c)' = Owed(c)
    BY DEF Owed
  <1> QED BY <1>1 DEF CellBooks

\* How the number of gaps grows with the number of calls.
LEMMA GapCount ==
  ASSUME NEW n \in Nat, NEW k \in Nat \ {0}
  PROVE  (n + 1) \div k = (n \div k) + (IF (n + 1) % k = 0 THEN 1 ELSE 0)
  OBVIOUS

\* A new call: one more number, one more call to be counted.
LEMMA TakeCadence ==
  ASSUME AllocTypes, SkipInv, CadenceInv, NEW w \in Callers, NEW c \in Cells, Take(w, c)
  PROVE  CadenceInv'
  <1>1. /\ apc[w] = "idle" /\ apc'[w] = (IF GapEnabled THEN "count" ELSE "return")
        /\ \A v \in Callers \ {w} : apc'[v] = apc[v] /\ cell'[v] = cell[v]
        /\ cell'[w] = c /\ gap' = gap /\ skipped' = skipped /\ counter' = counter
        /\ next'[c] = next[c] + 1 /\ begun'[c] = begun[c] + 1
        /\ \A d \in Cells \ {c} : next'[d] = next[d] /\ begun'[d] = begun[d]
    BY DEF Take, CallerAt, AllocTypes
  <1>2. \A v \in Callers : GapBegun(v)'
    BY <1>1 DEF CadenceInv, GapBegun
  <1>3. \A v \in Callers, d \in Cells : Owes(v, d)' = Owes(v, d)
    BY <1>1 DEF Owes
  <1>4. ASSUME NEW d \in Cells, d # c PROVE CellBooks(d)'
    <2>1. Counting(d)' = Counting(d)
      BY <1>1, <1>4 DEF Counting
    <2> QED BY <1>1, <1>3, <1>4, <2>1, QuietCell DEF CadenceInv
  <1>5. CellBooks(c)'
    <2>1. Owed(c)' = Owed(c)
      BY <1>3 DEF Owed
    <2>2. GapEnabled => Counting(c)' = Counting(c) \cup {w} /\ w \notin Counting(c)
      BY <1>1 DEF Counting
    <2>3. GapEnabled => Cardinality(Counting(c)') = Cardinality(Counting(c)) + 1
      BY <2>2, OwedFinite, FS_AddElement
    <2>4. /\ next[c] \in Nat /\ begun[c] \in Nat /\ counter[c] \in Nat
          /\ CellBooks(c) /\ IsFiniteSet(skipped[c])
      BY AllocatorAssumption DEF AllocTypes, CadenceInv, CellBooks
    <2>5. Cardinality(skipped[c]) \in Nat /\ Cardinality(Counting(c)) \in Nat
      BY <2>4, OwedFinite, FS_CardinalityType
    <2> QED BY <1>1, <2>1, <2>3, <2>4, <2>5, FirstPositive DEF CellBooks
  <1> QED BY <1>2, <1>4, <1>5 DEF CadenceInv

\* Counting a call: the numbers of a gap are owed when it is the last of its
\* round.
LEMMA BumpCadence ==
  ASSUME AllocTypes, SkipInv, CadenceInv, NEW w \in Callers, Bump(w)
  PROVE  CadenceInv'
  <1>0. PICK c \in Cells : c = cell[w]
    BY DEF AllocTypes
  <1>1. /\ apc[w] = "count"
        /\ apc'[w] = (IF (counter[c] + 1) % GapEvery = 0 THEN "reserve" ELSE "return")
        /\ \A v \in Callers \ {w} : apc'[v] = apc[v]
        /\ cell' = cell /\ gap' = gap /\ skipped' = skipped
        /\ next' = next /\ begun' = begun /\ counter'[c] = counter[c] + 1
        /\ \A d \in Cells \ {c} : counter'[d] = counter[d]
    BY <1>0 DEF Bump, CallerAt, AllocTypes
  <1>2. gap[w] = {} /\ GapEnabled /\ Cardinality(gap[w]) = 0
    BY <1>1, FS_EmptySet DEF SkipInv, GapsApart, CadenceInv, GapBegun
  <1>3. GapEvery \in Nat \ {0} /\ GapSize \in Nat \ {0}
    BY <1>2, AllocatorAssumption DEF GapEnabled
  <1>4. \A v \in Callers : GapBegun(v)'
    <2>1. \A v \in Callers \ {w} : GapBegun(v)'
      BY <1>1 DEF CadenceInv, GapBegun
    <2>2. GapBegun(w)'
      <3>1. gap'[w] = {} /\ Cardinality(gap'[w]) = 0 /\ Cardinality(gap'[w]) < GapSize
        BY <1>1, <1>2, <1>3
      <3> QED BY <1>2, <3>1, FS_EmptySet DEF GapBegun
    <2> QED BY <2>1, <2>2
  <1>5. \A v \in Callers \ {w}, d \in Cells : Owes(v, d)' = Owes(v, d)
    BY <1>1 DEF Owes
  <1>6. ASSUME NEW d \in Cells, d # c PROVE CellBooks(d)'
    <2>1. Counting(d)' = Counting(d)
      BY <1>0, <1>1, <1>6 DEF Counting
    <2>2. Owes(w, d)' = Owes(w, d)
      BY <1>0, <1>1, <1>6 DEF Owes
    <2> QED BY <1>1, <1>5, <1>6, <2>1, <2>2, QuietCell DEF CadenceInv
  <1>7. CellBooks(c)'
    <2>1. Counting(c) = Counting(c)' \cup {w} /\ w \notin Counting(c)'
      BY <1>0, <1>1 DEF Counting
    <2>2. Counting(c)' = Counting(c) \ {w} /\ w \in Counting(c)
      BY <2>1
    <2>3. Cardinality(Counting(c)') = Cardinality(Counting(c)) - 1
      BY <2>2, OwedFinite, FS_RemoveElement
    <2>4. /\ Owes(w, c) = 0
          /\ Owes(w, c)' = (IF (counter[c] + 1) % GapEvery = 0 THEN GapSize ELSE 0)
      BY <1>0, <1>1, <1>2, <1>3 DEF Owes
    <2>5. Cardinality(Owed(c)') = Cardinality(Owed(c)) + Owes(w, c)'
      <3>1. Owes(w, c) \in 0 .. GapSize /\ Owes(w, c)' \in 0 .. GapSize
        BY <1>3, <2>4
      <3> QED BY <1>3, <1>5, <2>4, <3>1, OwedMoves
    <2>6. /\ begun[c] \in Nat /\ counter[c] \in Nat /\ CellBooks(c)
          /\ Cardinality(Counting(c)) \in Nat /\ Cardinality(Owed(c)) \in Nat
          /\ Cardinality(skipped[c]) \in Nat
      BY OwedFinite, AllocatorAssumption, FS_CardinalityType
         DEF AllocTypes, CadenceInv, CellBooks
    <2>7. begun'[c] = counter'[c] + Cardinality(Counting(c)')
      BY <1>1, <1>2, <2>3, <2>6 DEF CellBooks
    <2>8. Cardinality(skipped'[c]) + Cardinality(Owed(c)') = GapSize * (counter'[c] \div GapEvery)
      <3> DEFINE q == counter[c] \div GapEvery
                 r == IF (counter[c] + 1) % GapEvery = 0 THEN 1 ELSE 0
      <3>1. (counter[c] + 1) \div GapEvery = q + r
        BY <1>3, <2>6, GapCount
      <3>2. Owes(w, c)' = GapSize * r
        BY <1>3, <2>4
      <3>3. q \in Int /\ r \in Int /\ GapSize \in Int
        BY <1>3, <2>6
      <3>4. GapSize * (q + r) = GapSize * q + GapSize * r
        <4> HIDE DEF q, r
        <4> QED BY <3>3
      <3>5. Cardinality(skipped[c]) + Cardinality(Owed(c)) = GapSize * q
        BY <1>2, <2>6 DEF CellBooks
      <3> HIDE DEF q, r
      <3>6. GapSize * q \in Int /\ GapSize * r \in Int
        BY <3>3
      <3> QED BY <1>1, <2>5, <2>6, <3>1, <3>2, <3>4, <3>5, <3>6
    <2> QED BY <1>1, <1>2, <2>6, <2>7, <2>8 DEF CellBooks
  <1> QED BY <1>4, <1>6, <1>7 DEF CadenceInv

\* Reserving a number pays one that was owed.
LEMMA ReserveCadence ==
  ASSUME AllocTypes, NumbersInv, SkipInv, CadenceInv, NEW w \in Callers, Reserve(w)
  PROVE  CadenceInv'
  <1>0. PICK c \in Cells : c = cell[w]
    BY DEF AllocTypes
  <1> DEFINE k == Cardinality(gap[w])
  <1>1. /\ apc[w] = "reserve" /\ apc'[w] \in {"reserve", "queue", "return"}
        /\ apc'[w] = "reserve" <=> k + 1 < GapSize
        /\ \A v \in Callers \ {w} : apc'[v] = apc[v] /\ gap'[v] = gap[v]
        /\ cell' = cell /\ gap'[w] = gap[w] \cup {next[c]}
        /\ skipped'[c] = skipped[c] \cup {next[c]} /\ next'[c] = next[c] + 1
        /\ begun' = begun /\ counter' = counter
        /\ \A d \in Cells \ {c} : next'[d] = next[d] /\ skipped'[d] = skipped[d]
    BY <1>0 DEF Reserve, CallerAt, AllocTypes
  <1>2. /\ GapEnabled /\ IsFiniteSet(gap[w]) /\ k < GapSize
        /\ gap[w] \subseteq skipped[c] /\ CellBooks(c) /\ IsFiniteSet(skipped[c])
    BY <1>0, <1>1 DEF CadenceInv, GapBegun, CellBooks
  <1>3. next[c] \notin skipped[c] /\ next[c] \notin gap[w]
    BY <1>2, FirstPositive DEF NumbersInv, NoNumberLost, AllocTypes
  <1>4. /\ IsFiniteSet(gap'[w]) /\ Cardinality(gap'[w]) = k + 1
        /\ IsFiniteSet(skipped'[c]) /\ Cardinality(skipped'[c]) = Cardinality(skipped[c]) + 1
    <2>1. /\ IsFiniteSet(gap[w] \cup {next[c]})
          /\ Cardinality(gap[w] \cup {next[c]}) = k + 1
      BY <1>2, <1>3, FS_AddElement
    <2>2. /\ IsFiniteSet(skipped[c] \cup {next[c]})
          /\ Cardinality(skipped[c] \cup {next[c]}) = Cardinality(skipped[c]) + 1
      BY <1>2, <1>3, FS_AddElement
    <2> QED BY <1>1, <2>1, <2>2
  <1>5. k \in Nat /\ GapSize \in Nat /\ Cardinality(skipped[c]) \in Nat
    BY <1>2, AllocatorAssumption, FS_CardinalityType
  <1>6. \A v \in Callers : GapBegun(v)'
    <2>1. ASSUME NEW v \in Callers, v # w PROVE GapBegun(v)'
      <3>1. skipped[cell[v]] \subseteq skipped'[cell[v]]
        BY <1>1 DEF AllocTypes
      <3> QED BY <1>1, <2>1, <3>1 DEF CadenceInv, GapBegun
    <2>2. GapBegun(w)'
      BY <1>0, <1>1, <1>2, <1>4 DEF GapBegun
    <2> QED BY <2>1, <2>2
  <1>7. \A v \in Callers \ {w}, d \in Cells : Owes(v, d)' = Owes(v, d)
    BY <1>1 DEF Owes
  <1>8. \A d \in Cells : Counting(d)' = Counting(d)
    BY <1>1 DEF Counting
  <1>9. ASSUME NEW d \in Cells, d # c PROVE CellBooks(d)'
    <2>1. Owes(w, d)' = Owes(w, d)
      BY <1>0, <1>1, <1>9 DEF Owes
    <2> QED BY <1>1, <1>7, <1>8, <1>9, <2>1, QuietCell DEF CadenceInv
  <1>10. CellBooks(c)'
    <2>1. Owes(w, c) = GapSize - k /\ Owes(w, c)' = GapSize - k - 1
      BY <1>0, <1>1, <1>2, <1>4, <1>5 DEF Owes
    <2>2. Owes(w, c) \in 0 .. GapSize /\ Owes(w, c)' \in 0 .. GapSize
      BY <1>2, <1>5, <2>1
    <2>3. /\ Cardinality(Owed(c)) \in Nat /\ Cardinality(Owed(c)') \in Nat
          /\ Cardinality(Owed(c)') = Cardinality(Owed(c)) + Owes(w, c)' - Owes(w, c)
      BY <1>7, <2>2, OwedMoves
    <2>4. Cardinality(skipped'[c]) + Cardinality(Owed(c)') = Cardinality(skipped[c]) + Cardinality(Owed(c))
      BY <1>4, <1>5, <2>1, <2>3
    <2>5. next'[c] = First + begun'[c] + Cardinality(skipped'[c])
      BY <1>1, <1>2, <1>4, <1>5, FirstPositive, AllocatorAssumption DEF CellBooks, AllocTypes
    <2> QED BY <1>1, <1>2, <1>4, <1>8, <2>4, <2>5 DEF CellBooks
  <1> QED BY <1>6, <1>9, <1>10 DEF CadenceInv

\* The other steps touch no cell's books.
LEMMA OtherCadence ==
  ASSUME AllocTypes, CadenceInv,
         \/ \E w \in Callers : Queue(w) \/ GiveNumber(w)
         \/ \E c \in Cells : Ripen(c) \/ DueRetransmits(c)
         \/ UNCHANGED allocVars
  PROVE  CadenceInv'
  <1>1. /\ UNCHANGED <<next, counter, cell, begun, skipped>>
        /\ \A v \in Callers : \/ apc'[v] = apc[v] /\ gap'[v] = gap[v]
                              \/ /\ apc[v] \in {"queue", "return"} /\ apc'[v] \in {"return", "idle"}
                                 /\ gap'[v] = gap[v] \/ gap'[v] = {}
    BY DEF Queue, GiveNumber, Ripen, DueRetransmits, CallerAt, AllocTypes, allocVars
  <1>2. \A v \in Callers : GapBegun(v)'
    BY <1>1, FS_EmptySet DEF CadenceInv, GapBegun
  <1>3. \A c \in Cells : Counting(c)' = Counting(c) /\ \A v \in Callers : Owes(v, c)' = Owes(v, c)
    BY <1>1 DEF Counting, Owes
  <1>4. \A c \in Cells : CellBooks(c)'
    BY <1>1, <1>3, QuietCell DEF CadenceInv
  <1> QED BY <1>2, <1>4 DEF CadenceInv

\* Every step keeps the books.
LEMMA CadenceInvariant == AllocSafety => []CadenceInv
  <1>1. Init => CadenceInv
    <2> SUFFICES ASSUME Init PROVE CadenceInv
      OBVIOUS
    <2>1. \A w \in Callers : GapBegun(w)
      BY FS_EmptySet DEF Init, AllocInit, GapBegun
    <2>2. ASSUME NEW c \in Cells PROVE CellBooks(c)
      <3>1. Owed(c) = {} /\ Counting(c) = {} /\ skipped[c] = {}
        BY AllocatorAssumption DEF Init, AllocInit, Owed, Owes, Counting
      <3>2. next[c] = First /\ begun[c] = 0 /\ counter[c] = 0
        BY DEF Init, AllocInit
      <3>3. GapEnabled => GapSize * (0 \div GapEvery) = 0
        BY AllocatorAssumption DEF GapEnabled
      <3> QED BY <3>1, <3>2, <3>3, FS_EmptySet, FirstPositive DEF CellBooks
    <2> QED BY <2>1, <2>2 DEF CadenceInv
  <1>2. AllocTypes /\ NumbersInv /\ SkipInv /\ CadenceInv /\ [Next]_allocVars => CadenceInv'
    BY TakeCadence, BumpCadence, ReserveCadence, OtherCadence DEF Next, Inside
  <1> QED BY <1>1, <1>2, AllocTypesInvariant, NumbersInvariant, SkipInvariant, PTL DEF AllocSafety

\* Whatever the interleaving, when no call is under way a cell has skipped
\* GapSize numbers for every GapEvery calls, no more and no fewer.
THEOREM GapsKeepCadence == AllocSafety => []GapCadence
  <1>1. AllocTypes /\ CadenceInv => GapCadence
    <2> SUFFICES ASSUME AllocTypes, CadenceInv, NEW c \in Cells, Busy(c) = {}
                 PROVE  next[c] = First + begun[c]
                           + (IF GapEnabled THEN GapSize * (begun[c] \div GapEvery) ELSE 0)
      BY DEF GapCadence
    <2>1. Counting(c) = {}
      BY DEF Busy, Counting
    <2>2. Owed(c) = {}
      <3>1. \A w \in Callers : Owes(w, c) = 0
        BY DEF Busy, Owes
      <3> QED BY <3>1, AllocatorAssumption DEF Owed
    <2>3. CellBooks(c) /\ begun[c] \in Nat /\ counter[c] \in Nat /\ IsFiniteSet(skipped[c])
      BY AllocatorAssumption DEF CadenceInv, AllocTypes, CellBooks
    <2>4. Cardinality(skipped[c]) \in Nat
      BY <2>3, FS_CardinalityType
    <2>5. GapEnabled => counter[c] = begun[c]
      BY <2>1, <2>3, FS_EmptySet DEF CellBooks
    <2>6. GapEnabled => Cardinality(skipped[c]) = GapSize * (counter[c] \div GapEvery)
      BY <2>2, <2>3, <2>4, FS_EmptySet DEF CellBooks
    <2>7. ~GapEnabled => Cardinality(skipped[c]) = 0
      BY <2>3, FS_EmptySet DEF CellBooks
    <2> QED BY <2>3, <2>5, <2>6, <2>7 DEF CellBooks
  <1> QED BY <1>1, AllocTypesInvariant, CadenceInvariant, PTL
=============================================================================
