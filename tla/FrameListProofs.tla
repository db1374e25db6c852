-------------------------- MODULE FrameListProofs ---------------------------
(***************************************************************************)
(* Theorems about FrameList and the operators it builds on: the exact      *)
(* sizes of TxSize, the nonce search of BlockHdr, and the streams of the   *)
(* three programs, for every choice of their flags.                        *)
(***************************************************************************)
EXTENDS FrameList, WellFoundedInduction, TLAPS

-----------------------------------------------------------------------------
(***************************************************************************)
(* The exact-size contract of tx.Builder, for every size: arithmetic by    *)
(* cases over the three widths of a script's length prefix.                *)
(***************************************************************************)

\* All that is needed of 2^32 - 1, the largest five-byte length.
LEMMA Max32Fact == Max32 \in Nat /\ Max32 > 65540
BY DEF Max32

\* A remainder that fits is represented exactly, by a script whose length
\* prefix has the width the case of splitSlack assumes (lines 94-99).
LEMMA BulkCost ==
    ASSUME NEW rem \in Int, Fits(rem)
    PROVE  Bulk(rem) \in 0 .. Max32 /\ cost(Bulk(rem)) = rem
<1>1. CASE rem >= 0 /\ rem <= 252
  BY <1>1, Max32Fact DEF Bulk, cost, varintSize
<1>2. CASE rem >= 255 /\ rem <= 65537
  BY <1>2, Max32Fact DEF Bulk, cost, varintSize
<1>3. CASE rem >= 65540 /\ rem <= Max32 + 4
  BY <1>3, Max32Fact DEF Bulk, cost, varintSize
<1> QED BY <1>1, <1>2, <1>3 DEF Fits

\* The gaps are two bytes wide, so one of three consecutive numbers fits.
LEMMA OneFits ==
    ASSUME NEW slack \in 0 .. MaxSlack
    PROVE  Fits(slack) \/ Fits(slack - 1) \/ Fits(slack - 2)
<1>1. slack \in Int /\ 0 <= slack /\ slack <= Max32 + 6
  BY DEF MaxSlack
<1>2. slack - 1 \in Int /\ slack - 2 \in Int
  BY <1>1
<1> QED BY <1>1, <1>2, Max32Fact DEF Fits

\* One or two bytes of unlocking script cost what they are long.
LEMMA ShimCost == \A s \in 0 .. 2 : cost(s) = s
BY DEF cost, varintSize

\* "Every slack >= 0 (up to the 5-byte varint ceiling) is therefore exactly
\* representable" (tx.go lines 86-87): splitSlack never refuses one and the two
\* scripts make up the slack exactly.
THEOREM SplitExact ==
    ASSUME NEW slack \in 0 .. MaxSlack
    PROVE  LET s == splitSlack(slack)
           IN  /\ s.shim \in 0 .. 2
               /\ s.bulk \in 0 .. Max32
               /\ cost(s.shim) + cost(s.bulk) = slack
<1> DEFINE s == splitSlack(slack)
<1> USE DEF splitSlack
<1>0. slack \in Int
  BY DEF MaxSlack
<1>1. CASE Fits(slack)
  <2>1. s.shim = 0 /\ s.bulk = Bulk(slack)
    BY <1>1
  <2> QED BY <2>1, <1>0, <1>1, BulkCost, ShimCost
<1>2. CASE ~Fits(slack) /\ Fits(slack - 1)
  <2>1. s.shim = 1 /\ s.bulk = Bulk(slack - 1)
    BY <1>2
  <2>2. slack - 1 \in Int
    BY <1>0
  <2>3. Bulk(slack - 1) \in 0 .. Max32 /\ cost(Bulk(slack - 1)) = slack - 1
    BY <2>2, <1>2, BulkCost
  <2>4. cost(1) = 1
    BY ShimCost
  <2> QED BY <2>1, <2>3, <2>4, <1>0
<1>3. CASE ~Fits(slack) /\ ~Fits(slack - 1) /\ Fits(slack - 2)
  <2>1. s.shim = 2 /\ s.bulk = Bulk(slack - 2)
    BY <1>3
  <2>2. slack - 2 \in Int
    BY <1>0
  <2>3. Bulk(slack - 2) \in 0 .. Max32 /\ cost(Bulk(slack - 2)) = slack - 2
    BY <2>2, <1>3, BulkCost
  <2>4. cost(2) = 2
    BY ShimCost
  <2> QED BY <2>1, <2>3, <2>4, <1>0
<1> QED BY <1>1, <1>2, <1>3, OneFits

\* A script's bytes are its cost and the prefix byte the minimum counts.
LEMMA ScriptCost == \A l \in Int : script(l) = cost(l) + 1
BY DEF script, cost, varintSize

\* "a random BRC-12 raw transaction of EXACTLY targetSize bytes" (tx.go lines
\* 105-111): every size from the minimum to the ceiling is built to the byte,
\* so the "internal sizing bug" exit is never taken; a smaller one is refused.
THEOREM RawExact ==
    ASSUME NEW targetSize \in Int
    PROVE  /\ targetSize \in MinRawSize .. MinRawSize + MaxSlack
                  => Build(targetSize) = targetSize
           /\ targetSize < MinRawSize => Build(targetSize) = Refused
<1> DEFINE s == splitSlack(targetSize - MinRawSize)
<1>1. ASSUME targetSize \in MinRawSize .. MinRawSize + MaxSlack
      PROVE  Build(targetSize) = targetSize
  <2>1. targetSize - MinRawSize \in 0 .. MaxSlack
    BY Max32Fact, <1>1 DEF MinRawSize, MaxSlack
  <2>2. /\ s.shim \in 0 .. 2 /\ s.bulk \in 0 .. Max32
        /\ cost(s.shim) + cost(s.bulk) = targetSize - MinRawSize
    BY <2>1, SplitExact
  <2>3. script(s.shim) = cost(s.shim) + 1 /\ script(s.bulk) = cost(s.bulk) + 1
    BY <2>2, ScriptCost 
  <2>4. cost(s.shim) \in Int /\ cost(s.bulk) \in Int
    BY <2>2 DEF cost, varintSize
  <2>5. rawBytes(s.shim, s.bulk) = targetSize
    <3> HIDE DEF s
    <3> QED BY <2>2, <2>3, <2>4 DEF rawBytes, MinRawSize
  <2>6. s.shim # Refused /\ ~(targetSize < MinRawSize)
    BY <2>2, <1>1 DEF Refused, MinRawSize, MaxSlack
  <2> QED BY <2>5, <2>6 DEF Build, Checked
<1>2. ASSUME targetSize < MinRawSize
      PROVE  Build(targetSize) = Refused
  BY <1>2 DEF Build
<1> QED BY <1>1, <1>2

\* The same for BRC-30 Extended Format (ef.go lines 22-38).
THEOREM EFExact ==
    ASSUME NEW targetSize \in Int
    PROVE  /\ targetSize \in MinEFSize .. MinEFSize + MaxSlack
                  => BuildEF(targetSize) = targetSize
           /\ targetSize < MinEFSize => BuildEF(targetSize) = Refused
<1> DEFINE s == splitSlack(targetSize - MinEFSize)
<1>1. ASSUME targetSize \in MinEFSize .. MinEFSize + MaxSlack
      PROVE  BuildEF(targetSize) = targetSize
  <2>1. targetSize - MinEFSize \in 0 .. MaxSlack
    BY Max32Fact, <1>1 DEF MinEFSize, MaxSlack
  <2>2. /\ s.shim \in 0 .. 2 /\ s.bulk \in 0 .. Max32
        /\ cost(s.shim) + cost(s.bulk) = targetSize - MinEFSize
    BY <2>1, SplitExact
  <2>3. script(s.shim) = cost(s.shim) + 1 /\ script(s.bulk) = cost(s.bulk) + 1
    BY <2>2, ScriptCost 
  <2>4. cost(s.shim) \in Int /\ cost(s.bulk) \in Int /\ script(0) = 1
    BY <2>2 DEF cost, script, varintSize
  <2>5. efBytes(s.shim, s.bulk) = targetSize
    <3> HIDE DEF s
    <3> QED BY <2>2, <2>3, <2>4 DEF efBytes, MinEFSize
  <2>6. s.shim # Refused /\ ~(targetSize < MinEFSize)
    BY <2>2, <1>1 DEF Refused, MinEFSize, MaxSlack
  <2> QED BY <2>5, <2>6 DEF BuildEF, Checked
<1>2. ASSUME targetSize < MinEFSize
      PROVE  BuildEF(targetSize) = Refused
  BY <1>2 DEF BuildEF
<1> QED BY <1>1, <1>2

\* "Cannot happen after the Run() size validation" (sender.go lines 364-365):
\* for every format, a size that Run accepts and whose raw form is within the
\* ceiling is built exactly, for every frame of a worker.
THEOREM AcceptedSizeIsBuilt ==
    ASSUME NEW format \in Formats, NEW local \in Nat,
           NEW size \in MinPayloadSize(format) .. MinRawSize + MaxSlack
    PROVE  Payload(format, local, size) = size
<1>1. size \in Int /\ size \in MinRawSize .. MinRawSize + MaxSlack
  BY DEF MinPayloadSize, MinRawSize, MinEFSize, MaxSlack
<1>2. Build(size) = size
  BY <1>1, RawExact
<1>3. ASSUME format \in {"brc128", "mixed"}
      PROVE  BuildEF(size) = size
  <2>1. size \in MinEFSize .. MinEFSize + MaxSlack
    BY Max32Fact, <1>1, <1>3 DEF MinPayloadSize, MinRawSize, MinEFSize, MaxSlack
  <2> QED BY <1>1, <2>1, EFExact
<1> QED BY <1>2, <1>3 DEF Payload, Formats

-----------------------------------------------------------------------------
(***************************************************************************)
(* The nonce search.  The rounds of a full search try every nonce, and     *)
(* among the rounds that pass there is a first one.                        *)
(***************************************************************************)

\* A non-empty set of naturals has a least element.
LEMMA LeastNatural ==
  ASSUME NEW T, T \subseteq Nat, T # {}
  PROVE  \E x \in T : \A y \in T : x <= y
  <1>1. PICK x \in T : \A y \in T : ~(<<y, x>> \in OpToRel(<, Nat))
    BY NatLessThanWellFounded, WFMin
  <1>2. \A y \in T : ~(y < x)
    BY <1>1 DEF OpToRel
  <1> QED BY <1>2

\* Every nonce is tried by some round, wherever the search starts.
LEMMA EveryNonceTried ==
  ASSUME NEW start \in 0 .. Nonces - 1, NEW n \in 0 .. Nonces - 1
  PROVE  \E k \in 0 .. Nonces - 1 : Tried(start, k) = n
  <1> USE BlockHdrAssumption
  <1>1. CASE n >= start
    <2>1. n - start \in 0 .. Nonces - 1 /\ Tried(start, n - start) = n
      BY <1>1 DEF Tried
    <2> QED BY <2>1
  <1>2. CASE n < start
    <2>1. n - start + Nonces \in 0 .. Nonces - 1 /\ Tried(start, n - start + Nonces) = n
      BY <1>2 DEF Tried
    <2> QED BY <2>1
  <1> QED BY <1>1, <1>2

\* "the whole 2^32 space is tried before giving up" (blockhdr.go lines 53-54):
\* if any nonce passes, Grind leaves one that passes, wherever it starts.
THEOREM GrindFinds ==
  ASSUME NEW start \in 0 .. Nonces - 1, NEW passing \in SUBSET (0 .. Nonces - 1),
         passing # {}
  PROVE  Grind(start, passing) \in passing
  <1> DEFINE hits == {k \in 0 .. Nonces - 1 : Tried(start, k) \in passing}
  <1>1. hits # {} /\ hits \subseteq Nat
    <2>1. PICK n \in 0 .. Nonces - 1 : n \in passing
      OBVIOUS
    <2>2. PICK k \in 0 .. Nonces - 1 : Tried(start, k) = n
      BY EveryNonceTried
    <2>3. 0 .. Nonces - 1 \subseteq Nat
      BY BlockHdrAssumption
    <2> QED BY <2>1, <2>2, <2>3
  <1>2. \E k \in hits : \A j \in hits : k <= j
    BY <1>1, LeastNatural
  <1>3. Tried(start, CHOOSE k \in hits : \A j \in hits : k <= j) \in passing
    BY <1>2
  <1> QED BY <1>1, <1>3 DEF Grind, Search

-----------------------------------------------------------------------------
(***************************************************************************)
(* Sequences of frames, whatever a frame is.                               *)
(***************************************************************************)
IsSequence(s) == s \in Seq({s[k] : k \in DOMAIN s})

\* A sequence of elements of some set is one.
LEMMA AnySequence ==
  ASSUME NEW S, NEW s \in Seq(S)
  PROVE  IsSequence(s) /\ Len(s) \in Nat /\ DOMAIN s = 1 .. Len(s)
  BY DEF IsSequence

\* What Append adds and keeps.
LEMMA Appended ==
  ASSUME NEW s, NEW e, IsSequence(s)
  PROVE  /\ IsSequence(Append(s, e)) /\ Len(s) \in Nat /\ DOMAIN s = 1 .. Len(s)
         /\ Len(Append(s, e)) = Len(s) + 1 /\ DOMAIN Append(s, e) = 1 .. Len(s) + 1
         /\ \A k \in 1 .. Len(s) : Append(s, e)[k] = s[k]
         /\ Append(s, e)[Len(s) + 1] = e
  <1> DEFINE S == {s[k] : k \in DOMAIN s} \cup {e}
  <1>1. s \in Seq(S)
    BY DEF IsSequence
  <1>2. e \in S /\ Append(s, e) \in Seq(S)
    BY <1>1
  <1> HIDE DEF S
  <1>3. IsSequence(Append(s, e)) /\ Len(s) \in Nat /\ DOMAIN s = 1 .. Len(s)
    BY <1>1, <1>2, AnySequence
  <1>4. /\ Len(Append(s, e)) = Len(s) + 1 /\ DOMAIN Append(s, e) = 1 .. Len(s) + 1
        /\ \A k \in 1 .. Len(s) : Append(s, e)[k] = s[k]
        /\ Append(s, e)[Len(s) + 1] = e
    BY <1>1, <1>2
  <1> QED BY <1>3, <1>4

\* What is left without the first.
LEMMA Removed ==
  ASSUME NEW s, IsSequence(s), s # <<>>
  PROVE  /\ Len(s) \in Nat \ {0} /\ Head(s) = s[1]
         /\ IsSequence(Tail(s)) /\ Len(Tail(s)) = Len(s) - 1
         /\ \A k \in 1 .. Len(s) - 1 : Tail(s)[k] = s[k + 1]
  <1> DEFINE S == {s[k] : k \in DOMAIN s}
  <1>1. s \in Seq(S)
    BY DEF IsSequence
  <1> HIDE DEF S
  <1>2. Tail(s) \in Seq(S)
    BY <1>1
  <1>3. IsSequence(Tail(s))
    BY <1>2, AnySequence
  <1>4. /\ Len(s) \in Nat \ {0} /\ Head(s) = s[1] /\ Len(Tail(s)) = Len(s) - 1
        /\ \A k \in 1 .. Len(s) - 1 : Tail(s)[k] = s[k + 1]
    BY <1>1
  <1> QED BY <1>3, <1>4

\* One and two frames.
LEMMA OneAndTwo ==
  ASSUME NEW a, NEW b
  PROVE  /\ IsSequence(<<>>) /\ Len(<<>>) = 0
         /\ IsSequence(<<a>>) /\ Len(<<a>>) = 1 /\ <<a>>[1] = a
         /\ IsSequence(<<a, b>>) /\ Len(<<a, b>>) = 2
         /\ <<a, b>>[1] = a /\ <<a, b>>[2] = b
  <1>1. <<>> \in Seq({a, b}) /\ <<a>> \in Seq({a, b}) /\ <<a, b>> \in Seq({a, b})
    OBVIOUS
  <1>2. IsSequence(<<>>) /\ IsSequence(<<a>>) /\ IsSequence(<<a, b>>)
    BY <1>1, AnySequence
  <1>3. Len(<<>>) = 0 /\ Len(<<a>>) = 1 /\ Len(<<a, b>>) = 2
    BY <1>1
  <1>4. <<a>>[1] = a /\ <<a, b>>[1] = a /\ <<a, b>>[2] = b
    OBVIOUS
  <1> QED BY <1>2, <1>3, <1>4

-----------------------------------------------------------------------------
(***************************************************************************)
(* merkle.Root for every number of nodes.  The provers have no induction   *)
(* over data; a smallest counterexample (LeastNatural) does its work, both *)
(* to show that the recursive functions of Merkle are what they say and to *)
(* climb the two trees together.                                           *)
(***************************************************************************)

\* Levels is what its recursion says (merkle.go lines 21-39): ever longer partial
\* functions agree where they overlap.
LEMMA LevelsDefined ==
  ASSUME NEW level
  PROVE  Levels(level) = [k \in Nat |-> IF k = 0 THEN level ELSE NextLevel(Levels(level)[k - 1])]
  <1> DEFINE Part(g, n) == g = [k \in 0 .. n |-> IF k = 0 THEN level ELSE NextLevel(g[k - 1])]
             Upto(n) == CHOOSE g : Part(g, n)
  <1>1. \A n \in Nat : \E g : Part(g, n)
    <2> DEFINE missing == {n \in Nat : ~\E g : Part(g, n)}
    <2> SUFFICES ASSUME missing # {} PROVE FALSE
      OBVIOUS
    <2>1. PICK n \in missing : \A m \in missing : n <= m
      <3>1. missing \subseteq Nat
        OBVIOUS
      <3> QED BY <3>1, LeastNatural
    <2>2. CASE n = 0
      <3>1. Part([k \in 0 .. 0 |-> level], 0)
        OBVIOUS
      <3> QED BY <2>2, <3>1
    <2>3. CASE n # 0
      <3>1. n - 1 \in Nat /\ n - 1 \notin missing
        <4>1. n \in Nat
          OBVIOUS
        <4> HIDE DEF missing
        <4> QED BY <2>1, <2>3, <4>1
      <3>2. PICK g : Part(g, n - 1)
        BY <3>1
      <3> DEFINE longer == [k \in 0 .. n |-> IF k = 0 THEN level ELSE NextLevel(g[k - 1])]
      <3>3. \A k \in 0 .. n - 1 : g[k] = IF k = 0 THEN level ELSE NextLevel(g[k - 1])
        BY <3>2
      <3>4. \A k \in 0 .. n - 1 : longer[k] = g[k]
        BY <3>1, <3>3
      <3>5. \A k \in 0 .. n : k # 0 => k - 1 \in 0 .. n - 1
        BY <3>1
      <3>6. Part(longer, n)
        BY <3>4, <3>5
      <3> QED BY <3>6
    <2> QED BY <2>2, <2>3
  <1>2. \A n \in Nat : Part(Upto(n), n)
    BY <1>1
  <1>3. \A n \in Nat : \A k \in 0 .. n :
           Upto(n)[k] = IF k = 0 THEN level ELSE NextLevel(Upto(n)[k - 1])
    BY <1>2
  <1> HIDE DEF Part, Upto
  <1>4. \A n \in Nat : \A k \in 0 .. n : Upto(n)[k] = Upto(k)[k]
    <2> SUFFICES ASSUME NEW n \in Nat PROVE \A k \in 0 .. n : Upto(n)[k] = Upto(k)[k]
      OBVIOUS
    <2> DEFINE apart == {k \in Nat : \E m \in Nat : k <= m /\ Upto(m)[k] # Upto(k)[k]}
    <2>1. ASSUME apart # {} PROVE FALSE
      <3>1. PICK k \in apart : \A j \in apart : k <= j
        BY <2>1, LeastNatural
      <3>2. PICK m \in Nat : k <= m /\ Upto(m)[k] # Upto(k)[k]
        BY <3>1
      <3>3. k \in Nat /\ k \in 0 .. m /\ k \in 0 .. k
        BY <3>2
      <3>4. k # 0
        BY <1>3, <3>2, <3>3
      <3>5. k - 1 \in Nat /\ k - 1 \notin apart /\ k - 1 <= m /\ k - 1 <= k
        BY <3>1, <3>2, <3>4
      <3>6. Upto(m)[k - 1] = Upto(k - 1)[k - 1] /\ Upto(k)[k - 1] = Upto(k - 1)[k - 1]
        BY <3>5
      <3> QED BY <1>3, <3>2, <3>3, <3>4, <3>6
    <2> QED BY <2>1
  <1> DEFINE whole == [k \in Nat |-> Upto(k)[k]]
  <1>5. \A k \in Nat : whole[k] = IF k = 0 THEN level ELSE NextLevel(whole[k - 1])
    <2> SUFFICES ASSUME NEW k \in Nat
                 PROVE  whole[k] = IF k = 0 THEN level ELSE NextLevel(whole[k - 1])
      OBVIOUS
    <2>1. whole[k] = IF k = 0 THEN level ELSE NextLevel(Upto(k)[k - 1])
      BY <1>3
    <2>2. k # 0 => Upto(k)[k - 1] = whole[k - 1]
      BY <1>4
    <2> QED BY <2>1, <2>2
  <1>6. whole = [k \in Nat |-> IF k = 0 THEN level ELSE NextLevel(whole[k - 1])]
    BY <1>5
  <1> HIDE DEF whole
  <1> QED BY <1>6 DEF Levels

\* The same for the nodes of the perfect tree.
LEMMA NodesDefined ==
  ASSUME NEW leaves
  PROVE  Nodes(leaves) = [k \in Nat |-> IF k = 0 THEN Padded(leaves) ELSE Pairs(Nodes(leaves)[k - 1])]
  <1> DEFINE Part(g, n) == g = [k \in 0 .. n |-> IF k = 0 THEN Padded(leaves) ELSE Pairs(g[k - 1])]
             Upto(n) == CHOOSE g : Part(g, n)
  <1>1. \A n \in Nat : \E g : Part(g, n)
    <2> DEFINE missing == {n \in Nat : ~\E g : Part(g, n)}
    <2> SUFFICES ASSUME missing # {} PROVE FALSE
      OBVIOUS
    <2>1. PICK n \in missing : \A m \in missing : n <= m
      <3>1. missing \subseteq Nat
        OBVIOUS
      <3> QED BY <3>1, LeastNatural
    <2>2. CASE n = 0
      <3>1. Part([k \in 0 .. 0 |-> Padded(leaves)], 0)
        OBVIOUS
      <3> QED BY <2>2, <3>1
    <2>3. CASE n # 0
      <3>1. n - 1 \in Nat /\ n - 1 \notin missing
        <4>1. n \in Nat
          OBVIOUS
        <4> HIDE DEF missing
        <4> QED BY <2>1, <2>3, <4>1
      <3>2. PICK g : Part(g, n - 1)
        BY <3>1
      <3> DEFINE longer == [k \in 0 .. n |-> IF k = 0 THEN Padded(leaves) ELSE Pairs(g[k - 1])]
      <3>3. \A k \in 0 .. n - 1 : g[k] = IF k = 0 THEN Padded(leaves) ELSE Pairs(g[k - 1])
        BY <3>2
      <3>4. \A k \in 0 .. n - 1 : longer[k] = g[k]
        BY <3>1, <3>3
      <3>5. \A k \in 0 .. n : k # 0 => k - 1 \in 0 .. n - 1
        BY <3>1
      <3>6. Part(longer, n)
        BY <3>4, <3>5
      <3> QED BY <3>6
    <2> QED BY <2>2, <2>3
  <1>2. \A n \in Nat : Part(Upto(n), n)
    BY <1>1
  <1>3. \A n \in Nat : \A k \in 0 .. n :
           Upto(n)[k] = IF k = 0 THEN Padded(leaves) ELSE Pairs(Upto(n)[k - 1])
    BY <1>2
  <1> HIDE DEF Part, Upto
  <1>4. \A n \in Nat : \A k \in 0 .. n : Upto(n)[k] = Upto(k)[k]
    <2> SUFFICES ASSUME NEW n \in Nat PROVE \A k \in 0 .. n : Upto(n)[k] = Upto(k)[k]
      OBVIOUS
    <2> DEFINE apart == {k \in Nat : \E m \in Nat : k <= m /\ Upto(m)[k] # Upto(k)[k]}
    <2>1. ASSUME apart # {} PROVE FALSE
      <3>1. PICK k \in apart : \A j \in apart : k <= j
        BY <2>1, LeastNatural
      <3>2. PICK m \in Nat : k <= m /\ Upto(m)[k] # Upto(k)[k]
        BY <3>1
      <3>3. k \in Nat /\ k \in 0 .. m /\ k \in 0 .. k
        BY <3>2
      <3>4. k # 0
        BY <1>3, <3>2, <3>3
      <3>5. k - 1 \in Nat /\ k - 1 \notin apart /\ k - 1 <= m /\ k - 1 <= k
        BY <3>1, <3>2, <3>4
      <3>6. Upto(m)[k - 1] = Upto(k - 1)[k - 1] /\ Upto(k)[k - 1] = Upto(k - 1)[k - 1]
        BY <3>5
      <3> QED BY <1>3, <3>2, <3>3, <3>4, <3>6
    <2> QED BY <2>1
  <1> DEFINE whole == [k \in Nat |-> Upto(k)[k]]
  <1>5. \A k \in Nat : whole[k] = IF k = 0 THEN Padded(leaves) ELSE Pairs(whole[k - 1])
    <2> SUFFICES ASSUME NEW k \in Nat
                 PROVE  whole[k] = IF k = 0 THEN Padded(leaves) ELSE Pairs(whole[k - 1])
      OBVIOUS
    <2>1. whole[k] = IF k = 0 THEN Padded(leaves) ELSE Pairs(Upto(k)[k - 1])
      BY <1>3
    <2>2. k # 0 => Upto(k)[k - 1] = whole[k - 1]
      BY <1>4
    <2> QED BY <2>1, <2>2
  <1>6. whole = [k \in Nat |-> IF k = 0 THEN Padded(leaves) ELSE Pairs(whole[k - 1])]
    BY <1>5
  <1> HIDE DEF whole
  <1> QED BY <1>6 DEF Nodes

\* The same for the powers of two.
LEMMA Pow2Defined ==
  Pow2 = [k \in Nat |-> IF k = 0 THEN 1 ELSE 2 * Pow2[k - 1]]
  <1> DEFINE Part(g, n) == g = [k \in 0 .. n |-> IF k = 0 THEN 1 ELSE 2 * g[k - 1]]
             Upto(n) == CHOOSE g : Part(g, n)
  <1>1. \A n \in Nat : \E g : Part(g, n)
    <2> DEFINE missing == {n \in Nat : ~\E g : Part(g, n)}
    <2> SUFFICES ASSUME missing # {} PROVE FALSE
      OBVIOUS
    <2>1. PICK n \in missing : \A m \in missing : n <= m
      <3>1. missing \subseteq Nat
        OBVIOUS
      <3> QED BY <3>1, LeastNatural
    <2>2. CASE n = 0
      <3>1. Part([k \in 0 .. 0 |-> 1], 0)
        OBVIOUS
      <3> QED BY <2>2, <3>1
    <2>3. CASE n # 0
      <3>1. n - 1 \in Nat /\ n - 1 \notin missing
        <4>1. n \in Nat
          OBVIOUS
        <4> HIDE DEF missing
        <4> QED BY <2>1, <2>3, <4>1
      <3>2. PICK g : Part(g, n - 1)
        BY <3>1
      <3> DEFINE longer == [k \in 0 .. n |-> IF k = 0 THEN 1 ELSE 2 * g[k - 1]]
      <3>3. \A k \in 0 .. n - 1 : g[k] = IF k = 0 THEN 1 ELSE 2 * g[k - 1]
        BY <3>2
      <3>4. \A k \in 0 .. n - 1 : longer[k] = g[k]
        BY <3>1, <3>3
      <3>5. \A k \in 0 .. n : k # 0 => k - 1 \in 0 .. n - 1
        BY <3>1
      <3>6. Part(longer, n)
        BY <3>4, <3>5
      <3> QED BY <3>6
    <2> QED BY <2>2, <2>3
  <1>2. \A n \in Nat : Part(Upto(n), n)
    BY <1>1
  <1>3. \A n \in Nat : \A k \in 0 .. n :
           Upto(n)[k] = IF k = 0 THEN 1 ELSE 2 * Upto(n)[k - 1]
    BY <1>2
  <1> HIDE DEF Part, Upto
  <1>4. \A n \in Nat : \A k \in 0 .. n : Upto(n)[k] = Upto(k)[k]
    <2> SUFFICES ASSUME NEW n \in Nat PROVE \A k \in 0 .. n : Upto(n)[k] = Upto(k)[k]
      OBVIOUS
    <2> DEFINE apart == {k \in Nat : \E m \in Nat : k <= m /\ Upto(m)[k] # Upto(k)[k]}
    <2>1. ASSUME apart # {} PROVE FALSE
      <3>1. PICK k \in apart : \A j \in apart : k <= j
        BY <2>1, LeastNatural
      <3>2. PICK m \in Nat : k <= m /\ Upto(m)[k] # Upto(k)[k]
        BY <3>1
      <3>3. k \in Nat /\ k \in 0 .. m /\ k \in 0 .. k
        BY <3>2
      <3>4. k # 0
        BY <1>3, <3>2, <3>3
      <3>5. k - 1 \in Nat /\ k - 1 \notin apart /\ k - 1 <= m /\ k - 1 <= k
        BY <3>1, <3>2, <3>4
      <3>6. Upto(m)[k - 1] = Upto(k - 1)[k - 1] /\ Upto(k)[k - 1] = Upto(k - 1)[k - 1]
        BY <3>5
      <3> QED BY <1>3, <3>2, <3>3, <3>4, <3>6
    <2> QED BY <2>1
  <1> DEFINE whole == [k \in Nat |-> Upto(k)[k]]
  <1>5. \A k \in Nat : whole[k] = IF k = 0 THEN 1 ELSE 2 * whole[k - 1]
    <2> SUFFICES ASSUME NEW k \in Nat
                 PROVE  whole[k] = IF k = 0 THEN 1 ELSE 2 * whole[k - 1]
      OBVIOUS
    <2>1. whole[k] = IF k = 0 THEN 1 ELSE 2 * Upto(k)[k - 1]
      BY <1>3
    <2>2. k # 0 => Upto(k)[k - 1] = whole[k - 1]
      BY <1>4
    <2> QED BY <2>1, <2>2
  <1>6. whole = [k \in Nat |-> IF k = 0 THEN 1 ELSE 2 * whole[k - 1]]
    BY <1>5
  <1> HIDE DEF whole
  <1> QED BY <1>6 DEF Pow2

\* One level up has half as many hashes, rounded up, and each is the node over
\* its pair: an odd last hash and a zero right hash are both an absent sibling.
LEMMA OneLevelUp ==
  ASSUME NEW L, IsSequence(L)
  PROVE  /\ Len(L) \in Nat
         /\ IsSequence(NextLevel(L)) /\ Len(NextLevel(L)) = (Len(L) + 1) \div 2
         /\ Padded(NextLevel(L)) = Pairs(Padded(L))
  <1> DEFINE n == (Len(L) + 1) \div 2
  <1>1. Len(L) \in Nat /\ n \in Nat
    <2>1. Len(L) \in Nat
      BY AnySequence DEF IsSequence
    <2> QED BY <2>1
  <1> DEFINE S == {NextLevel(L)[p] : p \in 1 .. n}
  <1>2. NextLevel(L) = [p \in 1 .. n |-> NextLevel(L)[p]]
    BY DEF NextLevel
  <1>3. \A p \in 1 .. n : NextLevel(L)[p] \in S
    OBVIOUS
  <1>4. NextLevel(L) \in [1 .. n -> S]
    <2> HIDE DEF S
    <2> QED BY <1>2, <1>3
  <1>5. NextLevel(L) \in Seq(S) /\ Len(NextLevel(L)) = n
    <2> HIDE DEF S, n
    <2> QED BY <1>1, <1>4
  <1>6. IsSequence(NextLevel(L))
    <2> HIDE DEF S
    <2> QED BY <1>5, AnySequence
  <1>7. ASSUME NEW k \in Nat
        PROVE  Padded(NextLevel(L))[k] = Pairs(Padded(L))[k]
    <2>1. 2 * k \in Nat /\ 2 * k + 1 \in Nat
      OBVIOUS
    <2>2. Pairs(Padded(L))[k] = Join(Padded(L)[2 * k], Padded(L)[2 * k + 1])
      BY DEF Pairs
    <2>3. CASE k < n
      <3>1. k + 1 \in 1 .. n
        BY <1>1, <2>3
      <3>2. Padded(NextLevel(L))[k] = NextLevel(L)[k + 1]
        BY <1>5, <2>3 DEF Padded
      <3>3. 2 * k < Len(L)
        BY <1>1, <2>3
      <3>4. Padded(L)[2 * k] = L[2 * k + 1]
        BY <2>1, <3>3 DEF Padded
      <3>5. Padded(L)[2 * k + 1] = IF 2 * k + 1 < Len(L) THEN L[2 * k + 2] ELSE Zero
        <4>1. 2 * k + 1 + 1 = 2 * k + 2
          OBVIOUS
        <4> QED BY <2>1, <4>1 DEF Padded
      <3>6. 2 * (k + 1) - 1 = 2 * k + 1 /\ 2 * (k + 1) = 2 * k + 2
        OBVIOUS
      <3>7. 2 * k + 2 <= Len(L) <=> 2 * k + 1 < Len(L)
        BY <1>1
      <3>8. NextLevel(L)[k + 1] =
              LET left  == L[2 * k + 1]
                  right == IF 2 * k + 2 <= Len(L) /\ L[2 * k + 2] # Zero
                           THEN L[2 * k + 2] ELSE left
              IN  IF left = Zero THEN Zero ELSE <<left, right>>
        BY <3>1, <3>6 DEF NextLevel
      <3> HIDE DEF n
      <3>9. NextLevel(L)[k + 1] = Join(Padded(L)[2 * k], Padded(L)[2 * k + 1])
        BY <3>4, <3>5, <3>7, <3>8 DEF Join
      <3> QED BY <2>2, <3>2, <3>9
    <2>4. CASE ~(k < n)
      <3>1. Padded(NextLevel(L))[k] = Zero
        BY <1>5, <2>4 DEF Padded
      <3>2. ~(2 * k < Len(L))
        BY <1>1, <2>4
      <3>3. Padded(L)[2 * k] = Zero
        BY <2>1, <3>2 DEF Padded
      <3> QED BY <2>2, <3>1, <3>3 DEF Join
    <2> QED BY <2>3, <2>4
  <1>8. Padded(NextLevel(L)) = Pairs(Padded(L))
    <2>1. /\ Padded(NextLevel(L)) = [k \in Nat |-> Padded(NextLevel(L))[k]]
          /\ Pairs(Padded(L)) = [k \in Nat |-> Pairs(Padded(L))[k]]
      BY DEF Padded, Pairs
    <2> QED BY <1>7, <2>1
  <1> QED BY <1>1, <1>5, <1>6, <1>8

\* Multiplication is monotonic.
LEMMA TimesMonotonic ==
  ASSUME NEW a \in Int, NEW b \in Int, NEW c \in Nat, a <= b
  PROVE  a * c <= b * c
  <1>1. (b - a) * c >= 0
    OBVIOUS
  <1> QED BY <1>1

\* Powers of two.
LEMMA Powers ==
  ASSUME NEW h \in Nat
  PROVE  Pow2[h] \in Nat \ {0} /\ Pow2[h] > h /\ Pow2[h + 1] = 2 * Pow2[h] /\ Pow2[0] = 1
  <1>0. \A k \in Nat : Pow2[k] = IF k = 0 THEN 1 ELSE 2 * Pow2[k - 1]
    BY Pow2Defined
  <1> HIDE DEF Pow2
  <1>1. Pow2[0] = 1
    BY <1>0
  <1>2. \A k \in Nat : Pow2[k + 1] = 2 * Pow2[k]
    <2> SUFFICES ASSUME NEW k \in Nat PROVE Pow2[k + 1] = 2 * Pow2[k]
      OBVIOUS
    <2>1. k + 1 \in Nat /\ k + 1 # 0 /\ k + 1 - 1 = k
      OBVIOUS
    <2> QED BY <1>0, <2>1
  <1> DEFINE bad == {k \in Nat : ~(Pow2[k] \in Nat \ {0} /\ Pow2[k] > k)}
  <1>3. ASSUME bad # {} PROVE FALSE
    <2>1. bad \subseteq Nat
      OBVIOUS
    <2>2. PICK k \in bad : \A j \in bad : k <= j
      BY <1>3, <2>1, LeastNatural
    <2>3. k \in Nat /\ k # 0
      BY <1>1
    <2>4. k - 1 \in Nat /\ k - 1 \notin bad
      <3> HIDE DEF bad
      <3> QED BY <2>2, <2>3
    <2>5. Pow2[k] = 2 * Pow2[k - 1]
      BY <1>0, <2>3
    <2> QED BY <2>3, <2>4, <2>5
  <1> QED BY <1>1, <1>2, <1>3

\* At every height the code's level is the perfect tree's, without the padding,
\* and has as many hashes as it takes to cover the leaves.
LEMMA LevelsAreNodes ==
  ASSUME NEW leaves, IsSequence(leaves), Len(leaves) \in Nat \ {0}, NEW h \in Nat
  PROVE  LET m == Len(Levels(leaves)[h])
         IN  /\ IsSequence(Levels(leaves)[h]) /\ m \in Nat \ {0}
             /\ (m - 1) * Pow2[h] < Len(leaves) /\ Len(leaves) <= m * Pow2[h]
             /\ Nodes(leaves)[h] = Padded(Levels(leaves)[h])
  <1> DEFINE n == Len(leaves)
             m(k) == Len(Levels(leaves)[k])
             Same(k) == /\ IsSequence(Levels(leaves)[k]) /\ m(k) \in Nat \ {0}
                        /\ (m(k) - 1) * Pow2[k] < n /\ n <= m(k) * Pow2[k]
                        /\ Nodes(leaves)[k] = Padded(Levels(leaves)[k])
  <1>1. Levels(leaves)[0] = leaves /\ Nodes(leaves)[0] = Padded(leaves)
    <2>1. Levels(leaves)[0] = leaves
      BY LevelsDefined
    <2>2. Nodes(leaves)[0] = Padded(leaves)
      BY NodesDefined
    <2> QED BY <2>1, <2>2
  <1>2. \A k \in Nat \ {0} : /\ Levels(leaves)[k] = NextLevel(Levels(leaves)[k - 1])
                             /\ Nodes(leaves)[k] = Pairs(Nodes(leaves)[k - 1])
    <2>1. \A k \in Nat \ {0} : Levels(leaves)[k] = NextLevel(Levels(leaves)[k - 1])
      BY LevelsDefined
    <2>2. \A k \in Nat \ {0} : Nodes(leaves)[k] = Pairs(Nodes(leaves)[k - 1])
      BY NodesDefined
    <2> QED BY <2>1, <2>2
  <1>3. Same(0)
    <2>1. Pow2[0] = 1
      BY Powers
    <2> QED BY <1>1, <2>1
  <1>4. ASSUME NEW k \in Nat \ {0}, Same(k - 1) PROVE Same(k)
    <2> DEFINE L == Levels(leaves)[k - 1]
               P == Pow2[k - 1]
    <2>1. k - 1 \in Nat /\ k - 1 + 1 = k
      OBVIOUS
    <2>2. P \in Nat \ {0} /\ Pow2[k] = 2 * P
      BY <2>1, Powers
    <2>3. /\ IsSequence(L) /\ Len(L) \in Nat \ {0}
          /\ (Len(L) - 1) * P < n /\ n <= Len(L) * P
          /\ Nodes(leaves)[k - 1] = Padded(L)
      BY <1>4
    <2>4. Levels(leaves)[k] = NextLevel(L) /\ Nodes(leaves)[k] = Pairs(Padded(L))
      BY <1>2, <2>3
    <2> HIDE DEF L, P, n
    <2>5. /\ IsSequence(NextLevel(L)) /\ Len(NextLevel(L)) = (Len(L) + 1) \div 2
          /\ Padded(NextLevel(L)) = Pairs(Padded(L))
      BY <2>3, OneLevelUp
    <2>6. n \in Nat
      BY DEF n
    <2>7. PICK a \in Nat \ {0} : a = Len(L)
      BY <2>3
    <2>8. PICK b \in Nat \ {0} : b = (a + 1) \div 2
      BY <2>7
    <2>9. 2 * (b - 1) <= a - 1 /\ a <= 2 * b
      BY <2>8
    <2>10. (2 * (b - 1)) * P <= (a - 1) * P /\ a * P <= (2 * b) * P
      <3>1. (2 * (b - 1)) * P <= (a - 1) * P
        BY <2>2, <2>9, TimesMonotonic
      <3>2. a * P <= (2 * b) * P
        BY <2>2, <2>9, TimesMonotonic
      <3> QED BY <3>1, <3>2
    <2>11. (b - 1) * (2 * P) = (2 * (b - 1)) * P /\ b * (2 * P) = (2 * b) * P
      BY <2>2
    <2>12. (b - 1) * Pow2[k] < n /\ n <= b * Pow2[k]
      <3>1. (a - 1) * P < n /\ n <= a * P
        BY <2>3, <2>7
      <3>2. (b - 1) * Pow2[k] <= (a - 1) * P /\ a * P <= b * Pow2[k]
        BY <2>2, <2>10, <2>11
      <3>3. (a - 1) * P \in Int /\ a * P \in Int /\ (b - 1) * Pow2[k] \in Int /\ b * Pow2[k] \in Int
        BY <2>2
      <3> QED BY <2>6, <3>1, <3>2, <3>3
    <2>13. m(k) = b
      BY <2>4, <2>5, <2>7, <2>8
    <2> QED BY <2>4, <2>5, <2>12, <2>13
  <1> DEFINE wrong == {k \in Nat : ~Same(k)}
  <1>5. ASSUME wrong # {} PROVE FALSE
    <2>1. wrong \subseteq Nat
      OBVIOUS
    <2>2. PICK k \in wrong : \A j \in wrong : k <= j
      <3> HIDE DEF wrong
      <3> QED BY <1>5, <2>1, LeastNatural
    <2> HIDE DEF Same
    <2>3. k \in Nat \ {0} /\ ~Same(k)
      BY <1>3
    <2>4. k - 1 \in Nat /\ k - 1 \notin wrong
      <3> HIDE DEF wrong
      <3> QED BY <2>2, <2>3
    <2>5. Same(k - 1)
      BY <2>4
    <2> QED BY <1>4, <2>3, <2>5
  <1>6. Same(h)
    <2> HIDE DEF Same
    <2> QED BY <1>5
  <1> QED BY <1>6

\* Root "computes a subtree merkle root the way Teranode does" (merkle.go line 1),
\* the one that a proxy verifies against:
\* for every number of nodes, one at least, and wherever zero hashes stand among
\* them, the level by level fold is the root of the perfect padded tree.
THEOREM RootIsPerfect ==
  ASSUME NEW S, NEW leaves \in Seq(S), leaves # <<>>
  PROVE  Root(leaves) = PerfectRoot(leaves)
  <1> DEFINE n == Len(leaves)
             One(k) == Len(Levels(leaves)[k]) = 1
             Covers(k) == Pow2[k] >= n
             First(k) == Covers(k) /\ \A g \in 0 .. k - 1 : ~Covers(g)
  <1>1. IsSequence(leaves) /\ n \in Nat \ {0}
    BY AnySequence
  <1>2. \A k \in Nat : /\ Len(Levels(leaves)[k]) \in Nat \ {0} /\ Pow2[k] \in Nat
                       /\ One(k) <=> Covers(k)
                       /\ Nodes(leaves)[k] = Padded(Levels(leaves)[k])
    <2> SUFFICES ASSUME NEW k \in Nat
                 PROVE  /\ Len(Levels(leaves)[k]) \in Nat \ {0} /\ Pow2[k] \in Nat
                        /\ One(k) <=> Covers(k)
                        /\ Nodes(leaves)[k] = Padded(Levels(leaves)[k])
      OBVIOUS
    <2>1. PICK m \in Nat \ {0} : m = Len(Levels(leaves)[k])
      BY <1>1, LevelsAreNodes
    <2>2. /\ (m - 1) * Pow2[k] < n /\ n <= m * Pow2[k]
          /\ Nodes(leaves)[k] = Padded(Levels(leaves)[k])
      BY <1>1, <2>1, LevelsAreNodes
    <2>3. Pow2[k] \in Nat
      BY Powers
    <2>4. m = 1 => Covers(k)
      BY <2>2, <2>3
    <2>5. m # 1 => ~Covers(k)
      <3>1. SUFFICES ASSUME m # 1 PROVE ~Covers(k)
        OBVIOUS
      <3>2. 1 * Pow2[k] <= (m - 1) * Pow2[k]
        <4>1. 1 <= m - 1 /\ m - 1 \in Int
          BY <3>1
        <4> QED BY <2>3, <4>1, TimesMonotonic
      <3>3. (m - 1) * Pow2[k] \in Int
        BY <2>3
      <3> QED BY <1>1, <2>2, <2>3, <3>2, <3>3
    <2> QED BY <2>1, <2>2, <2>3, <2>4, <2>5
  <1>3. \E h \in 0 .. n : First(h)
    <2> DEFINE high == {k \in Nat : Covers(k)}
    <2>1. n \in high
      BY <1>1, Powers
    <2>2. high \subseteq Nat
      OBVIOUS
    <2>3. PICK h \in high : \A j \in high : h <= j
      <3> HIDE DEF high
      <3> QED BY <2>1, <2>2, LeastNatural
    <2>4. h \in 0 .. n
      <3>1. h \in Nat /\ h <= n
        <4> HIDE DEF high
        <4> QED BY <2>1, <2>2, <2>3
      <3> QED BY <1>1, <3>1
    <2>5. \A g \in 0 .. h - 1 : g \notin high
      <3> HIDE DEF high
      <3> QED BY <2>3, <2>4
    <2> QED BY <2>4, <2>5
  <1>4. \A k \in 0 .. n :
           (One(k) /\ \A j \in 0 .. k - 1 : Len(Levels(leaves)[j]) > 1) <=> First(k)
    <2> SUFFICES ASSUME NEW k \in 0 .. n
                 PROVE (One(k) /\ \A j \in 0 .. k - 1 : Len(Levels(leaves)[j]) > 1) <=> First(k)
      OBVIOUS
    <2>1. k \in Nat /\ (One(k) <=> Covers(k))
      BY <1>2
    <2>2. \A j \in 0 .. k - 1 : Len(Levels(leaves)[j]) > 1 <=> ~Covers(j)
      <3> SUFFICES ASSUME NEW j \in 0 .. k - 1
                   PROVE Len(Levels(leaves)[j]) > 1 <=> ~Covers(j)
        OBVIOUS
      <3>1. j \in Nat
        BY <2>1
      <3>2. Len(Levels(leaves)[j]) \in Nat \ {0} /\ (One(j) <=> Covers(j))
        BY <1>2, <3>1
      <3>3. \A m \in Nat \ {0} : m > 1 <=> ~(m = 1)
        OBVIOUS
      <3>4. Len(Levels(leaves)[j]) > 1 <=> ~One(j)
        <4>1. Len(Levels(leaves)[j]) \in Nat \ {0}
          BY <3>2
        <4> QED BY <3>3, <4>1
      <3> HIDE DEF Covers, One
      <3> QED BY <3>2, <3>4
    <2> HIDE DEF Covers, One
    <2> QED BY <2>1, <2>2
  <1>5. \A a, b \in 0 .. n : First(a) /\ First(b) => a = b
    <2> SUFFICES ASSUME NEW a \in 0 .. n, NEW b \in 0 .. n, First(a), First(b) PROVE a = b
      OBVIOUS
    <2> HIDE DEF Covers
    <2>1. a \in Nat /\ b \in Nat
      BY <1>1
    <2>2. ~(a < b) /\ ~(b < a)
      BY <2>1
    <2> QED BY <2>1, <2>2
  <1>6. PICK top \in 0 .. n : First(top)
    BY <1>3
  <1>7. \A g \in Nat : ~Covers(g) <=> Pow2[g] < n
    BY <1>1, <1>2
  <1>8. Height(n) = top
    <2>1. \A h \in 0 .. n : (Pow2[h] >= n /\ \A g \in 0 .. h - 1 : Pow2[g] < n) <=> First(h)
      <3> SUFFICES ASSUME NEW h \in 0 .. n
                   PROVE (Pow2[h] >= n /\ \A g \in 0 .. h - 1 : Pow2[g] < n) <=> First(h)
        OBVIOUS
      <3>1. \A g \in 0 .. h - 1 : Pow2[g] < n <=> ~Covers(g)
        <4>1. \A g \in 0 .. h - 1 : g \in Nat
          BY <1>1
        <4> HIDE DEF Covers
        <4> QED BY <1>7, <4>1
      <3> QED BY <3>1
    <2> DEFINE P(h) == Pow2[h] >= n /\ \A g \in 0 .. h - 1 : Pow2[g] < n
    <2>2. Height(n) = CHOOSE h \in 0 .. n : P(h)
      BY DEF Height
    <2>3. \A h \in 0 .. n : P(h) <=> h = top
      <3> HIDE DEF First
      <3> QED BY <1>5, <1>6, <2>1
    <2> HIDE DEF P
    <2> QED BY <2>2, <2>3
  <1>9. Root(leaves) = Levels(leaves)[top][1]
    <2> DEFINE P(k) == One(k) /\ \A j \in 0 .. k - 1 : Len(Levels(leaves)[j]) > 1
    <2>1. Root(leaves) = Levels(leaves)[CHOOSE k \in 0 .. n : P(k)][1]
      BY DEF Root
    <2>2. \A k \in 0 .. n : P(k) <=> k = top
      <3> HIDE DEF First
      <3> QED BY <1>4, <1>5, <1>6
    <2> HIDE DEF P
    <2>3. (CHOOSE k \in 0 .. n : P(k)) = top
      BY <2>2
    <2> QED BY <2>1, <2>3
  <1>10. PerfectRoot(leaves) = Levels(leaves)[top][1]
    <2>1. top \in Nat
      BY <1>1
    <2>2. Nodes(leaves)[top] = Padded(Levels(leaves)[top]) /\ Len(Levels(leaves)[top]) = 1
      BY <1>2, <1>6, <2>1
    <2>3. Padded(Levels(leaves)[top])[0] = Levels(leaves)[top][1]
      BY <2>2 DEF Padded
    <2> QED BY <1>8, <2>2, <2>3 DEF PerfectRoot
  <1> QED BY <1>9, <1>10

-----------------------------------------------------------------------------
(***************************************************************************)
(* What one frame amounts to.                                              *)
(***************************************************************************)

\* Division into 32 or 48 byte nodes, "as many nodes as fit" and one at least,
\* with what is left of the requested size smaller than a node.
LEMMA NodesFit ==
  ASSUME NEW o \in SubtreeOpts
  PROVE  /\ nodes(o) \in Nat \ {0}
         /\ payLen(o) = 32 + nodes(o) * nodeSize(o)
         /\ o.size > 0 => /\ payLen(o) <= o.size \/ nodes(o) = 1
                          /\ payLen(o) + nodeSize(o) > o.size
  <1>1. o.size \in Int /\ o.nodes \in Int
    BY FrameListAssumption DEF SubtreeOpts
  <1>2. CASE o.msgType = "hashes"
    BY <1>1, <1>2 DEF nodes, payLen, nodeSize, AtLeastOne, Quo, payloadHeaderSize, conflictCountSize
  <1>3. CASE o.msgType # "hashes"
    BY <1>1, <1>3 DEF nodes, payLen, nodeSize, AtLeastOne, Quo, payloadHeaderSize, conflictCountSize
  <1> QED BY <1>2, <1>3

\* A subtree has the number of nodes that the flags give it, and their root.
LEMMA SubtreeSound ==
  ASSUME NEW o \in SubtreeOpts, NEW k, NEW st \in newSubtrees(o, k)
  PROVE  Len(st.nodes) = nodes(o) /\ st.root = PerfectRoot(st.nodes)
  <1>1. PICK absent \in SUBSET (1 .. nodes(o)) :
           /\ st.nodes = [j \in 1 .. nodes(o) |->
                             IF j \in absent THEN Zero ELSE Leaf(100 * k + j)]
           /\ st.root = Root(st.nodes)
    <2> DEFINE h(absent) ==
                 [j \in 1 .. nodes(o) |-> IF j \in absent THEN Zero ELSE Leaf(100 * k + j)]
    <2>1. PICK absent \in SUBSET (1 .. nodes(o)) :
             st = [root |-> Root(h(absent)), nodes |-> h(absent)]
      BY DEF newSubtrees
    <2> QED BY <2>1
  <1> DEFINE S == {Zero} \cup {Leaf(100 * k + j) : j \in 1 .. nodes(o)}
  <1>2. \A j \in 1 .. nodes(o) : (IF j \in absent THEN Zero ELSE Leaf(100 * k + j)) \in S
    OBVIOUS
  <1> HIDE DEF S
  <1>3. st.nodes \in [1 .. nodes(o) -> S]
    BY <1>1, <1>2
  <1>4. nodes(o) \in Nat \ {0}
    BY NodesFit
  <1>5. st.nodes \in Seq(S) /\ Len(st.nodes) = nodes(o)
    BY <1>3, <1>4
  <1>6. st.nodes # <<>>
    BY <1>4, <1>5
  <1>7. Root(st.nodes) = PerfectRoot(st.nodes)
    BY <1>5, <1>6, RootIsPerfect
  <1> QED BY <1>1, <1>5, <1>7

\* A transaction that is not refused has the size asked for.
LEMMA BuiltExactly ==
  ASSUME NEW size, Build(size) # Refused
  PROVE  Build(size) = size
  BY DEF Build, Checked

-----------------------------------------------------------------------------
(***************************************************************************)
(* What reaches the connection.  The plan is a matter of counting: between *)
(* rounds sent is the number of frames of the rounds completed, and while  *)
(* a round is written, sent and the frames still to be written make up     *)
(* those of the round.  A round's frames are the next ones of the plan, and *)
(* a coinbase frame comes after the announce that names it.                *)
(***************************************************************************)

\* The frames of the current round that are still to be written, and what was
\* written of it before them.
RoundInv ==
    /\ Len(built) \in 1 .. PerRound
    /\ sent + Len(built) = PerRound * (i + 1)
    /\ \A k \in 1 .. Len(built) :
          /\ IsWhole(built[k])
          /\ <<built[k].kind, built[k].round>> = Planned(sent + k)
          /\ built[k].kind = "coinbase" => built[k].id = i
          /\ built[k].kind = "announce" => built[k].coinbase = i
    /\ built[1].kind = "coinbase" => sent > 0 /\ stream[sent].coinbase = i
    /\ Len(built) = 2 => built[1].kind = "announce"

PlanInv ==
    /\ opt \in AnchorOpts \cup BlockOpts \cup SubtreeOpts
    /\ i \in Nat /\ sent \in Nat
    /\ IsSequence(stream) /\ IsSequence(built)
    /\ pc # "exited" => Len(stream) = sent /\ status = "running"
    /\ pc \in {"flags", "dial", "loop"} => i <= opt.count /\ sent = PerRound * i
    /\ pc = "write" => i < opt.count /\ RoundInv
    /\ pc = "pause" => i < opt.count /\ sent = PerRound * (i + 1)
    /\ StreamAsPlanned

\* What is known of a frame by its kind.
GoodFrame(f) ==
    /\ f.kind = "anchor" => f.size = opt.size
    /\ f.kind = "subtree" =>
          /\ opt.prog = "subtree" /\ Len(f.nodes) = nodes(opt) /\ f.size = payLen(opt)
          /\ f.id = PerfectRoot(f.nodes)
    /\ (f.kind = "announce" /\ f.passing # {}) => f.nonce \in f.passing

FrameInv ==
    /\ \A k \in DOMAIN stream : GoodFrame(stream[k])
    /\ \A k \in DOMAIN built : GoodFrame(built[k])
    /\ IsSequence(pool)
    /\ \A k \in DOMAIN pool : /\ Len(pool[k].nodes) = nodes(opt)
                              /\ pool[k].root = PerfectRoot(pool[k].nodes)
    /\ pc \notin {"flags", "exited"} => ~BadFlags

\* The flags that the counting depends on.
LEMMA PlanTypes ==
  ASSUME opt \in AnchorOpts \cup BlockOpts \cup SubtreeOpts
  PROVE  /\ opt.count \in Nat /\ PerRound \in {1, 2}
         /\ opt.prog \in {"anchor", "block", "subtree"}
  <1>1. opt.count \in Nat
    BY FrameListAssumption DEF AnchorOpts, BlockOpts, SubtreeOpts
  <1>2. PerRound \in {1, 2}
    BY DEF PerRound
  <1>3. opt.prog \in {"anchor", "block", "subtree"}
    BY DEF AnchorOpts, BlockOpts, SubtreeOpts
  <1> QED BY <1>1, <1>2, <1>3

\* The first frame of round n, and the second of a round of two.
LEMMA PlannedRound ==
  ASSUME opt \in AnchorOpts \cup BlockOpts \cup SubtreeOpts, NEW n \in Nat
  PROVE  /\ Planned(PerRound * n + 1) = <<IF opt.prog = "block" THEN "announce" ELSE opt.prog, n>>
         /\ PerRound = 2 => Planned(PerRound * n + 2) = <<"coinbase", n>>
  <1>1. CASE PerRound = 1
    <2>1. (PerRound * n + 1 - 1) % PerRound = 0 /\ (PerRound * n + 1 - 1) \div PerRound = n
      BY <1>1
    <2> QED BY <1>1, <2>1 DEF Planned
  <1>2. CASE PerRound = 2
    <2>1. /\ (PerRound * n + 1 - 1) % PerRound = 0 /\ (PerRound * n + 1 - 1) \div PerRound = n
          /\ (PerRound * n + 2 - 1) % PerRound = 1 /\ (PerRound * n + 2 - 1) \div PerRound = n
      BY <1>2
    <2>2. opt.prog = "block"
      BY <1>2 DEF PerRound
    <2> QED BY <1>2, <2>1, <2>2 DEF Planned
  <1> QED BY <1>1, <1>2, PlanTypes

\* A torn write keeps the plan: one incomplete frame at the end.
LEMMA TornPlanned ==
  ASSUME PlanInv, pc # "exited", stream' \in Torn, UNCHANGED <<opt, sent>>,
         status' # "done"
  PROVE  IsSequence(stream') /\ StreamAsPlanned'
  <1> USE DEF PlanInv
  <1>0. /\ PerRound' = PerRound /\ \A k \in Nat : Planned(k)' = Planned(k)
        /\ opt'.count = opt.count /\ sent' = sent
    BY DEF PerRound, Planned
  <1>1. CASE stream' = stream
    <2>1. IsSequence(stream')
      BY <1>1
    <2>2. StreamAsPlanned'
      BY <1>0, <1>1 DEF StreamAsPlanned, IsWhole
    <2> QED BY <2>1, <2>2
  <1>2. CASE stream' = Append(stream, Partial)
    <2>1. /\ IsSequence(stream') /\ Len(stream) = sent /\ DOMAIN stream = 1 .. sent
          /\ Len(stream') = sent + 1 /\ DOMAIN stream' = 1 .. sent + 1
          /\ \A k \in 1 .. sent : stream'[k] = stream[k]
          /\ stream'[sent + 1] = Partial
      BY <1>2, Appended
    <2>2. ~IsWhole(stream'[sent + 1])
      BY <2>1 DEF IsWhole, Partial
    <2>3. \A k \in 1 .. sent : IsWhole(stream'[k])
      BY <2>1 DEF StreamAsPlanned, IsWhole
    <2>4. {k \in DOMAIN stream' : IsWhole(stream'[k])} = 1 .. sent
      BY <2>1, <2>2, <2>3
    <2>5. \A k \in 1 .. sent :
             /\ <<stream'[k].kind, stream'[k].round>> = Planned(k)
             /\ stream'[k].kind = "coinbase" => stream'[k].id = stream'[k - 1].coinbase
      <3> SUFFICES ASSUME NEW k \in 1 .. sent
                   PROVE  /\ <<stream'[k].kind, stream'[k].round>> = Planned(k)
                          /\ stream'[k].kind = "coinbase" => stream'[k].id = stream'[k - 1].coinbase
        OBVIOUS
      <3>1. k = 1 => stream[k].kind # "coinbase"
        <4>1. PerRound \in {1, 2} /\ opt.prog \in {"anchor", "block", "subtree"}
          BY PlanTypes
        <4>2. Planned(PerRound * 0 + 1) =
                 <<IF opt.prog = "block" THEN "announce" ELSE opt.prog, 0>>
          BY PlannedRound
        <4>3. Planned(1)[1] # "coinbase"
          BY <4>1, <4>2
        <4>4. <<stream[k].kind, stream[k].round>> = Planned(k)
          BY DEF StreamAsPlanned
        <4> QED BY <4>3, <4>4
      <3>2. k # 1 => k - 1 \in 1 .. sent
        OBVIOUS
      <3> QED BY <2>1, <3>1, <3>2 DEF StreamAsPlanned
    <2>6. \A k \in 1 .. sent : k \in Nat
      OBVIOUS
    <2> QED BY <1>0, <2>1, <2>4, <2>5, <2>6 DEF StreamAsPlanned, IsWhole
  <1> QED BY <1>1, <1>2 DEF Torn

\* A frame that reaches the connection is the next one of the plan.
LEMMA WritePlanned ==
  ASSUME PlanInv, Write
  PROVE  PlanInv'
  <1> USE DEF PlanInv
  <1>0. /\ PerRound' = PerRound /\ \A k \in Nat : Planned(k)' = Planned(k)
        /\ opt' = opt /\ sent' = sent + 1 /\ i' = i /\ pc = "write"
        /\ status' = status /\ status = "running"
        /\ pc' = IF Len(built) > 1 THEN "write" ELSE "pause"
        /\ stream' = Append(stream, Head(built)) /\ built' = Tail(built) /\ built # <<>>
    BY DEF Write, Step, PerRound, Planned
  <1>1. opt.count \in Nat /\ PerRound \in {1, 2}
    BY PlanTypes
  <1>2. RoundInv /\ i < opt.count
    BY <1>0
  <1>3. /\ IsSequence(stream') /\ Len(stream) = sent /\ DOMAIN stream = 1 .. sent
        /\ Len(stream') = sent + 1 /\ DOMAIN stream' = 1 .. sent + 1
        /\ \A k \in 1 .. sent : stream'[k] = stream[k]
        /\ stream'[sent + 1] = Head(built)
    BY <1>0, Appended
  <1>4. /\ Len(built) \in Nat \ {0} /\ Head(built) = built[1]
        /\ IsSequence(built') /\ Len(built') = Len(built) - 1
        /\ \A k \in 1 .. Len(built) - 1 : built'[k] = built[k + 1]
    BY <1>0, Removed
  <1>5. StreamAsPlanned'
    <2>1. {k \in DOMAIN stream' : IsWhole(stream'[k])} = 1 .. sent + 1
      <3>1. IsWhole(stream'[sent + 1])
        BY <1>2, <1>3, <1>4 DEF RoundInv
      <3>2. \A k \in 1 .. sent : IsWhole(stream'[k])
        BY <1>3 DEF StreamAsPlanned, IsWhole
      <3> QED BY <1>3, <3>1, <3>2
    <2>2. sent + 1 <= PerRound * opt.count
      <3>1. sent + 1 <= PerRound * (i + 1)
        BY <1>1, <1>2, <1>4 DEF RoundInv
      <3>2. PerRound * (i + 1) <= PerRound * opt.count
        BY <1>1, <1>2
      <3> QED BY <1>1, <3>1, <3>2
    <2>3. ASSUME NEW k \in 1 .. sent + 1
          PROVE  /\ <<stream'[k].kind, stream'[k].round>> = Planned(k)
                 /\ stream'[k].kind = "coinbase" => stream'[k].id = stream'[k - 1].coinbase
      <3>1. CASE k = sent + 1
        <4>1. stream'[k] = built[1]
          BY <1>3, <1>4, <3>1
        <4>2. <<built[1].kind, built[1].round>> = Planned(sent + 1)
          BY <1>2, <1>4 DEF RoundInv
        <4>3. built[1].kind = "coinbase" =>
                 sent > 0 /\ stream[sent].coinbase = i /\ built[1].id = i
          BY <1>2, <1>4 DEF RoundInv
        <4>4. sent > 0 => stream'[k - 1] = stream[sent]
          BY <1>3, <3>1
        <4> QED BY <3>1, <4>1, <4>2, <4>3, <4>4
      <3>2. CASE k \in 1 .. sent
        <4>1. /\ <<stream[k].kind, stream[k].round>> = Planned(k)
              /\ stream[k].kind = "coinbase" => stream[k].id = stream[k - 1].coinbase
          BY <3>2 DEF StreamAsPlanned
        <4>2. k = 1 => stream[k].kind # "coinbase"
          <5>1. Planned(PerRound * 0 + 1) =
                   <<IF opt.prog = "block" THEN "announce" ELSE opt.prog, 0>>
            BY PlannedRound
          <5>2. opt.prog \in {"anchor", "block", "subtree"}
            BY PlanTypes
          <5>3. Planned(1)[1] # "coinbase"
            BY <1>1, <5>1, <5>2
          <5> QED BY <4>1, <5>3
        <4>3. k # 1 => k - 1 \in 1 .. sent
          BY <3>2
        <4> QED BY <1>3, <3>2, <4>1, <4>2, <4>3
      <3> QED BY <3>1, <3>2
    <2>4. \A k \in 1 .. sent + 1 : k \in Nat
      OBVIOUS
    <2>5. status' # "done"
      BY <1>0
    <2>6. \A k \in 1 .. sent' :
             /\ <<stream'[k].kind, stream'[k].round>> = Planned(k)'
             /\ stream'[k].kind = "coinbase" => stream'[k].id = stream'[k - 1].coinbase
      BY <1>0, <2>3, <2>4
    <2>7. /\ Len(stream') <= sent' + 1 /\ sent' <= PerRound' * opt'.count
          /\ {k \in DOMAIN stream' : IsWhole(stream'[k])} = 1 .. sent'
      BY <1>0, <1>3, <2>1, <2>2
    <2> QED BY <2>5, <2>6, <2>7 DEF StreamAsPlanned, IsWhole
  <1>6. CASE Len(built) > 1
    <2>1. Len(built) = 2 /\ Len(built') = 1 /\ built'[1] = built[2] /\ built[1].kind = "announce"
      BY <1>1, <1>2, <1>4, <1>6 DEF RoundInv
    <2>2. /\ IsWhole(built[2]) /\ <<built[2].kind, built[2].round>> = Planned(sent + 2)
          /\ built[2].kind = "coinbase" => built[2].id = i
          /\ built[2].kind = "announce" => built[2].coinbase = i
          /\ built[1].coinbase = i
      BY <1>2, <2>1 DEF RoundInv
    <2>3. sent + 2 = PerRound * (i + 1) /\ PerRound = 2
      BY <1>1, <1>2, <2>1 DEF RoundInv
    <2>4. stream'[sent + 1].coinbase = i
      BY <1>3, <1>4, <2>2
    <2>5. Planned(sent + 1)' = Planned(sent + 2)
      <3>1. sent' + 1 = sent + 2
        BY <1>0
      <3> QED BY <1>0, <3>1 DEF Planned
    <2>6. RoundInv'
      <3>1. Len(built') \in 1 .. PerRound' /\ sent' + Len(built') = PerRound' * (i' + 1)
        <4>1. PerRound' = 2 /\ i' + 1 = i + 1 /\ sent' + 1 = 2 * (i + 1)
          BY <1>0, <2>3
        <4> QED BY <2>1, <4>1
      <3>2. \A k \in 1 .. Len(built') : k = 1
        BY <2>1
      <3>3. <<built'[1].kind, built'[1].round>> = Planned(sent + 1)'
        BY <2>1, <2>2, <2>5
      <3>4. /\ IsWhole(built'[1])
            /\ built'[1].kind = "coinbase" => built'[1].id = i'
            /\ built'[1].kind = "announce" => built'[1].coinbase = i'
        BY <1>0, <2>1, <2>2
      <3>5. sent' > 0 /\ stream'[sent'].coinbase = i'
        BY <1>0, <2>4
      <3> QED BY <2>1, <3>1, <3>2, <3>3, <3>4, <3>5 DEF RoundInv, IsWhole
    <2>7. pc' = "write" /\ Len(stream') = sent'
      BY <1>0, <1>3, <1>6
    <2> QED BY <1>0, <1>2, <1>3, <1>4, <1>5, <2>6, <2>7
  <1>7. CASE ~(Len(built) > 1)
    <2>1. pc' = "pause" /\ Len(stream') = sent'
      BY <1>0, <1>3, <1>7
    <2>2. sent' = PerRound' * (i' + 1)
      BY <1>0, <1>1, <1>2, <1>4, <1>7 DEF RoundInv
    <2> QED BY <1>0, <1>2, <1>3, <1>4, <1>5, <2>1, <2>2
  <1> QED BY <1>6, <1>7

\* A round begins with what is built in it: one frame, or an announce and the
\* coinbase that it names.
LEMMA RoundBegun ==
  ASSUME PlanInv, pc = "loop", i < opt.count, pc' = "write",
         UNCHANGED <<opt, i, stream, sent, status>>,
         IsSequence(built'), Len(built') = PerRound,
         built'[1].kind = IF opt.prog = "block" THEN "announce" ELSE opt.prog,
         built'[1].round = i,
         opt.prog = "block" => built'[1].coinbase = i,
         PerRound = 2 => /\ built'[2].kind = "coinbase"
                         /\ built'[2].round = i /\ built'[2].id = i
  PROVE  PlanInv'
  <1> USE DEF PlanInv
  <1>0. /\ PerRound' = PerRound /\ Planned(sent + 1)' = Planned(sent + 1)
        /\ Planned(sent + 2)' = Planned(sent + 2)
        /\ opt' = opt /\ i' = i /\ sent' = sent /\ stream' = stream /\ status' = "running"
    BY DEF PerRound, Planned
  <1>1. /\ opt.count \in Nat /\ PerRound \in {1, 2} /\ sent = PerRound * i
        /\ opt.prog \in {"anchor", "block", "subtree"} /\ (PerRound = 2 => opt.prog = "block")
    BY PlanTypes DEF PerRound
  <1>2. /\ <<built'[1].kind, built'[1].round>> = Planned(sent + 1)
        /\ PerRound = 2 => <<built'[2].kind, built'[2].round>> = Planned(sent + 2)
    BY <1>1, PlannedRound
  <1>3. IsSequence(stream') /\ StreamAsPlanned'
    BY <1>0, TornPlanned DEF Torn
  <1>4. RoundInv'
    <2>1. Len(built') \in 1 .. PerRound' /\ sent' + Len(built') = PerRound' * (i' + 1)
      BY <1>0, <1>1
    <2>2. built'[1].kind # "coinbase" /\ (PerRound = 2 => built'[1].kind = "announce")
      BY <1>1
    <2>3. ASSUME NEW k \in 1 .. Len(built')
          PROVE  /\ IsWhole(built'[k])
                 /\ <<built'[k].kind, built'[k].round>> = Planned(sent + k)'
                 /\ built'[k].kind = "coinbase" => built'[k].id = i'
                 /\ built'[k].kind = "announce" => built'[k].coinbase = i'
      <3>1. CASE k = 1
        BY <1>0, <1>1, <1>2, <2>2, <3>1 DEF IsWhole
      <3>2. CASE k = 2
        BY <1>0, <1>1, <1>2, <3>2 DEF IsWhole
      <3>3. k = 1 \/ k = 2
        BY <1>1
      <3> QED BY <3>1, <3>2, <3>3
    <2>4. Len(built') = 2 => PerRound = 2
      OBVIOUS
    <2> QED BY <2>1, <2>2, <2>3, <2>4 DEF RoundInv, IsWhole
  <1> QED BY <1>0, <1>1, <1>3, <1>4

\* A step that ends the program, whatever it tears.
LEMMA EndPlanned ==
  ASSUME PlanInv, pc # "exited", pc' = "exited", status' # "done", stream' \in Torn,
         UNCHANGED <<opt, i, built, sent>>
  PROVE  PlanInv'
  <1>1. IsSequence(stream') /\ StreamAsPlanned'
    BY TornPlanned
  <1> QED BY <1>1 DEF PlanInv

\* PlanInv is inductive.
LEMMA PlanStep ==
  ASSUME PlanInv, [Next]_vars
  PROVE  PlanInv'
  <1>0. stream \in Torn
    BY DEF Torn
  <1>1. CASE RefuseFlags
    BY <1>0, <1>1, EndPlanned DEF RefuseFlags, Fatal
  <1>2. CASE DialFails
    BY <1>0, <1>2, EndPlanned DEF DialFails, Fatal
  <1>3. CASE WriteFails
    BY <1>3, EndPlanned DEF WriteFails, Fatal
  <1>4. CASE Killed
    BY <1>0, <1>4, EndPlanned DEF Killed
  <1>5. CASE AcceptFlags \/ AcceptAndFillPool \/ Dial \/ NextRound
    <2>1. /\ pc # "exited" /\ UNCHANGED <<opt, stream, sent, built, status>>
          /\ pc' \in {"dial", "loop"}
          /\ \/ pc \in {"flags", "dial"} /\ i' = i
             \/ pc = "pause" /\ i' = i + 1
      BY <1>5 DEF AcceptFlags, AcceptAndFillPool, Dial, NextRound, Step
    <2>2. status' # "done"
      BY <2>1 DEF PlanInv
    <2>3. IsSequence(stream') /\ StreamAsPlanned'
      BY <1>0, <2>1, <2>2, TornPlanned
    <2>4. PerRound' = PerRound /\ opt.count \in Nat /\ PerRound \in {1, 2}
      BY <2>1, PlanTypes DEF PerRound, PlanInv
    <2>5. i' \in Nat /\ i' <= opt'.count /\ sent' = PerRound' * i'
      BY <2>1, <2>4 DEF PlanInv
    <2> QED BY <2>1, <2>3, <2>5 DEF PlanInv
  <1>6. CASE BuildAnchor
    <2>1. CASE Build(opt.size) = Refused
      BY <1>0, <1>6, <2>1, EndPlanned DEF BuildAnchor, BuildTx, Fatal
    <2>2. CASE Build(opt.size) # Refused
      <3> DEFINE f == [kind |-> "anchor", round |-> i, id |-> i, size |-> Build(opt.size)]
      <3>1. /\ opt.prog = "anchor" /\ i < opt.count /\ pc = "loop" /\ pc' = "write"
            /\ UNCHANGED <<opt, i, stream, sent, status>> /\ built' = <<f>>
        BY <1>6, <2>2 DEF BuildAnchor, BuildTx, Step
      <3>2. PerRound = 1
        BY <3>1 DEF PerRound
      <3>3. IsSequence(built') /\ Len(built') = 1 /\ built'[1] = f
        BY <3>1, OneAndTwo
      <3>4. built'[1].kind = "anchor" /\ built'[1].round = i
        BY <3>3
      <3> HIDE DEF f
      <3> QED BY <3>1, <3>2, <3>3, <3>4, RoundBegun
    <2> QED BY <2>1, <2>2
  <1>7. CASE BuildBlock
    <2>1. CASE Build(coinbaseSize) = Refused
      BY <1>0, <1>7, <2>1, EndPlanned DEF BuildBlock, BuildTx, Fatal
    <2>2. CASE Build(coinbaseSize) # Refused
      <3> DEFINE ann(p) == [kind |-> "announce", round |-> i,
                            id |-> <<i, Grind(i % Nonces, p)>>,
                            nonce |-> Grind(i % Nonces, p), passing |-> p, coinbase |-> i]
                 coin == [kind |-> "coinbase", round |-> i, id |-> i,
                          size |-> Build(coinbaseSize)]
      <3>1. PICK p \in SUBSET (0 .. Nonces - 1) :
               built' = IF opt.coinbase THEN <<ann(p), coin>> ELSE <<ann(p)>>
        BY <1>7, <2>2 DEF BuildBlock, BuildTx
      <3>2. /\ opt.prog = "block" /\ i < opt.count /\ pc = "loop" /\ pc' = "write"
            /\ UNCHANGED <<opt, i, stream, sent, status>>
        BY <1>7, <2>2 DEF BuildBlock, BuildTx, Step
      <3>3. /\ ann(p).kind = "announce" /\ ann(p).round = i /\ ann(p).coinbase = i
            /\ coin.kind = "coinbase" /\ coin.round = i /\ coin.id = i
        OBVIOUS
      <3> HIDE DEF ann, coin
      <3>4. CASE opt.coinbase
        <4>1. PerRound = 2
          BY <3>2, <3>4 DEF PerRound
        <4>2. built' = <<ann(p), coin>>
          BY <3>1, <3>4
        <4>3. IsSequence(built') /\ Len(built') = 2 /\ built'[1] = ann(p) /\ built'[2] = coin
          BY <4>2, OneAndTwo
        <4> QED BY <3>2, <3>3, <4>1, <4>3, RoundBegun
      <3>5. CASE ~opt.coinbase
        <4>1. PerRound = 1
          BY <3>2, <3>5 DEF PerRound
        <4>2. built' = <<ann(p)>>
          BY <3>1, <3>5
        <4>3. IsSequence(built') /\ Len(built') = 1 /\ built'[1] = ann(p)
          BY <4>2, OneAndTwo
        <4> QED BY <3>2, <3>3, <4>1, <4>3, RoundBegun
      <3> QED BY <3>4, <3>5
    <2> QED BY <2>1, <2>2
  <1>8. CASE BuildSubtree
    <2> DEFINE f(st) == [kind |-> "subtree", round |-> i, id |-> st.root,
                         nodes |-> st.nodes, size |-> payLen(opt)]
    <2>1. PICK st : built' = <<f(st)>>
      BY <1>8 DEF BuildSubtree
    <2>2. /\ opt.prog = "subtree" /\ i < opt.count /\ pc = "loop" /\ pc' = "write"
          /\ UNCHANGED <<opt, i, stream, sent, status>>
      BY <1>8 DEF BuildSubtree, Step
    <2>3. PerRound = 1
      BY <2>2 DEF PerRound
    <2>4. f(st).kind = "subtree" /\ f(st).round = i
      OBVIOUS
    <2> HIDE DEF f
    <2>5. IsSequence(built') /\ Len(built') = 1 /\ built'[1] = f(st)
      BY <2>1, OneAndTwo
    <2> QED BY <2>2, <2>3, <2>4, <2>5, RoundBegun
  <1>9. CASE Write
    BY <1>9, WritePlanned
  <1>10. CASE ExitDone
    <2>1. /\ pc = "loop" /\ i >= opt.count /\ pc' = "exited"
          /\ UNCHANGED <<opt, i, built, stream, sent>>
      BY <1>10 DEF ExitDone
    <2>2. PerRound' = PerRound /\ opt.count \in Nat /\ (\A k \in Nat : Planned(k)' = Planned(k))
      BY <2>1, PlanTypes DEF PerRound, Planned, PlanInv
    <2>3. Len(stream) = sent /\ sent = PerRound * opt.count
      BY <2>1, <2>2 DEF PlanInv
    <2>4. \A k \in 1 .. sent : k \in Nat
      BY DEF PlanInv
    <2>5. StreamAsPlanned'
      BY <2>1, <2>2, <2>3, <2>4 DEF StreamAsPlanned, IsWhole, PlanInv
    <2> QED BY <2>1, <2>5 DEF PlanInv
  <1>11. CASE UNCHANGED vars
    <2>1. StreamAsPlanned'
      BY <1>11 DEF vars, PlanInv, StreamAsPlanned, IsWhole, PerRound, Planned
    <2>2. RoundInv => RoundInv'
      BY <1>11 DEF vars, RoundInv, IsWhole, PerRound, Planned
    <2>3. PerRound' = PerRound
      BY <1>11 DEF vars, PerRound
    <2> QED BY <1>11, <2>1, <2>2, <2>3 DEF vars, PlanInv
  <1> QED
    BY <1>1, <1>2, <1>3, <1>4, <1>5, <1>6, <1>7, <1>8, <1>9, <1>10, <1>11 DEF Next

\* Before the first frame.
LEMMA PlanInit == Init => PlanInv
  <1> SUFFICES ASSUME Init PROVE PlanInv
    OBVIOUS
  <1>1. opt.count \in Nat /\ PerRound \in {1, 2}
    BY PlanTypes DEF Init
  <1>2. IsSequence(<<>>) /\ Len(<<>>) = 0 /\ DOMAIN <<>> = {}
    <2>1. IsSequence(<<>>) /\ Len(<<>>) = 0
      BY OneAndTwo
    <2>2. DOMAIN <<>> = {}
      OBVIOUS
    <2> QED BY <2>1, <2>2
  <1>3. 0 <= PerRound * opt.count /\ PerRound * 0 = 0
    BY <1>1
  <1>4. StreamAsPlanned
    BY <1>1, <1>2, <1>3 DEF Init, StreamAsPlanned
  <1> QED BY <1>1, <1>2, <1>3, <1>4 DEF Init, PlanInv

\* StreamAsPlanned for every program, count and choice of flags: wherever a write
\* fails or the process is killed, the proxy has received the planned frames in
\* order and at most one incomplete frame after them, and exit 0 means all of
\* them (send-block-announce lines 95-117, send-subtree-data 112-126,
\* send-anchor-frame 95-107).
THEOREM StreamsAsPlanned == Spec => []StreamAsPlanned
  <1>1. PlanInv => StreamAsPlanned
    BY DEF PlanInv
  <1> QED BY <1>1, PlanInit, PlanStep, PTL DEF Spec

-----------------------------------------------------------------------------
(***************************************************************************)
(* What is in the frames: FrameInv, on top of PlanInv.                     *)
(***************************************************************************)

\* Which options belong to which program.
LEMMA ProgramOf ==
  ASSUME opt \in AnchorOpts \cup BlockOpts \cup SubtreeOpts
  PROVE  /\ opt.prog = "subtree" => opt \in SubtreeOpts
         /\ opt.prog = "anchor" => opt \in AnchorOpts
  <1>1. opt \in AnchorOpts => opt.prog = "anchor"
    BY DEF AnchorOpts
  <1>2. opt \in BlockOpts => opt.prog = "block"
    BY DEF BlockOpts
  <1>3. opt \in SubtreeOpts => opt.prog = "subtree"
    BY DEF SubtreeOpts
  <1> QED BY <1>1, <1>2, <1>3

\* An incomplete frame claims nothing.
LEMMA TornGood ==
  ASSUME PlanInv, FrameInv, stream' \in Torn, opt' = opt
  PROVE  \A k \in DOMAIN stream' : GoodFrame(stream'[k])
  <1>1. CASE stream' = stream
    BY <1>1 DEF FrameInv
  <1>2. CASE stream' = Append(stream, Partial)
    <2>1. /\ DOMAIN stream = 1 .. Len(stream) /\ Len(stream) \in Nat
          /\ DOMAIN stream' = 1 .. Len(stream) + 1
          /\ \A k \in 1 .. Len(stream) : stream'[k] = stream[k]
          /\ stream'[Len(stream) + 1] = Partial
      BY <1>2, Appended DEF PlanInv
    <2>2. GoodFrame(Partial)
      BY DEF GoodFrame, Partial
    <2>3. \A k \in 1 .. Len(stream) + 1 : k \in 1 .. Len(stream) \/ k = Len(stream) + 1
      BY <2>1
    <2> QED BY <2>1, <2>2, <2>3 DEF FrameInv
  <1> QED BY <1>1, <1>2 DEF Torn

\* FrameInv after a step that builds nothing.
LEMMA FrameKept ==
  ASSUME FrameInv, opt' = opt, pool' = pool,
         \A k \in DOMAIN stream' : GoodFrame(stream'[k]),
         \A k \in DOMAIN built' : GoodFrame(built'[k]),
         pc' \notin {"flags", "exited"} => ~BadFlags
  PROVE  FrameInv'
  <1>1. BadFlags' <=> BadFlags
    BY DEF BadFlags
  <1>2. \A k \in DOMAIN stream' : GoodFrame(stream[k])'
    BY DEF GoodFrame
  <1>3. \A k \in DOMAIN built' : GoodFrame(built[k])'
    BY DEF GoodFrame
  <1> QED BY <1>1, <1>2, <1>3 DEF FrameInv

\* Build steps: every frame of the round is good.
LEMMA RoundGood ==
  ASSUME PlanInv, FrameInv, BuildAnchor \/ BuildBlock \/ BuildSubtree
  PROVE  \A k \in DOMAIN built' : GoodFrame(built'[k])
  <1>0. \A a, b : DOMAIN <<a>> = {1} /\ DOMAIN <<a, b>> = {1, 2}
    OBVIOUS
  <1>1. CASE built' = built
    BY <1>1 DEF FrameInv
  <1>2. CASE BuildAnchor /\ built' # built
    <2> DEFINE f == [kind |-> "anchor", round |-> i, id |-> i, size |-> Build(opt.size)]
    <2>1. built' = <<f>> /\ Build(opt.size) # Refused
      BY <1>2 DEF BuildAnchor, BuildTx
    <2>2. GoodFrame(f)
      BY <2>1, BuiltExactly DEF GoodFrame
    <2> HIDE DEF f
    <2>3. built'[1] = f /\ DOMAIN built' = {1}
      BY <1>0, <2>1, OneAndTwo
    <2> QED BY <2>2, <2>3
  <1>3. CASE BuildBlock /\ built' # built
    <2> DEFINE ann(p) == [kind |-> "announce", round |-> i,
                          id |-> <<i, Grind(i % Nonces, p)>>,
                          nonce |-> Grind(i % Nonces, p), passing |-> p, coinbase |-> i]
               coin == [kind |-> "coinbase", round |-> i, id |-> i,
                        size |-> Build(coinbaseSize)]
    <2>1. PICK p \in SUBSET (0 .. Nonces - 1) :
             built' = IF opt.coinbase THEN <<ann(p), coin>> ELSE <<ann(p)>>
      BY <1>3 DEF BuildBlock, BuildTx
    <2>2. i % Nonces \in 0 .. Nonces - 1
      BY BlockHdrAssumption DEF PlanInv
    <2>3. GoodFrame(ann(p))
      BY <2>2, GrindFinds DEF GoodFrame
    <2>4. GoodFrame(coin)
      BY DEF GoodFrame
    <2> HIDE DEF ann, coin
    <2>5. CASE opt.coinbase
      <3>1. built'[1] = ann(p) /\ built'[2] = coin /\ DOMAIN built' = {1, 2}
        BY <1>0, <2>1, <2>5, OneAndTwo
      <3> QED BY <2>3, <2>4, <3>1
    <2>6. CASE ~opt.coinbase
      <3>1. built'[1] = ann(p) /\ DOMAIN built' = {1}
        BY <1>0, <2>1, <2>6, OneAndTwo
      <3> QED BY <2>3, <3>1
    <2> QED BY <2>5, <2>6
  <1>4. CASE BuildSubtree
    <2> DEFINE f(st) == [kind |-> "subtree", round |-> i, id |-> st.root,
                         nodes |-> st.nodes, size |-> payLen(opt)]
    <2>1. opt \in SubtreeOpts /\ opt.prog = "subtree"
      BY <1>4, ProgramOf DEF BuildSubtree, PlanInv
    <2>2. PICK st \in IF pool # <<>> THEN {pool[(i % Len(pool)) + 1]}
                      ELSE newSubtrees(opt, i + 1) : built' = <<f(st)>>
      BY <1>4 DEF BuildSubtree
    <2>3. Len(st.nodes) = nodes(opt) /\ st.root = PerfectRoot(st.nodes)
      <3>1. CASE pool # <<>>
        <4>1. Len(pool) \in Nat \ {0} /\ DOMAIN pool = 1 .. Len(pool)
          <5>1. pool \in Seq({pool[k] : k \in DOMAIN pool})
            BY DEF FrameInv, IsSequence
          <5> QED BY <3>1, <5>1
        <4>2. (i % Len(pool)) + 1 \in DOMAIN pool
          BY <4>1 DEF PlanInv
        <4> QED BY <2>2, <3>1, <4>2 DEF FrameInv
      <3>2. CASE pool = <<>>
        BY <2>1, <2>2, <3>2, SubtreeSound
      <3> QED BY <3>1, <3>2
    <2>4. GoodFrame(f(st))
      BY <2>1, <2>3 DEF GoodFrame
    <2> HIDE DEF f
    <2>5. built'[1] = f(st) /\ DOMAIN built' = {1}
      BY <1>0, <2>2, OneAndTwo
    <2> QED BY <2>4, <2>5
  <1> QED BY <1>1, <1>2, <1>3, <1>4

\* FrameInv is inductive on top of PlanInv.
LEMMA FrameStep ==
  ASSUME PlanInv, FrameInv, [Next]_vars
  PROVE  FrameInv'
  <1>0. stream \in Torn /\ (\A k \in DOMAIN stream : GoodFrame(stream[k]))
                        /\ (\A k \in DOMAIN built : GoodFrame(built[k]))
    BY DEF Torn, FrameInv
  <1>1. CASE RefuseFlags \/ AcceptFlags \/ Dial \/ DialFails \/ NextRound \/ ExitDone
    <2>1. /\ UNCHANGED <<opt, pool, stream, built>>
          /\ pc' \notin {"flags", "exited"} => pc \notin {"flags", "exited"} \/ ~BadFlags
      BY <1>1 DEF RefuseFlags, AcceptFlags, Dial, DialFails, NextRound, ExitDone, Step, Fatal
    <2>2. pc' \notin {"flags", "exited"} => ~BadFlags
      BY <2>1 DEF FrameInv
    <2> QED BY <1>0, <2>1, <2>2, FrameKept
  <1>2. CASE WriteFails \/ Killed
    <2>1. UNCHANGED <<opt, pool, built>> /\ stream' \in Torn /\ pc' = "exited"
      BY <1>0, <1>2 DEF WriteFails, Killed, Fatal
    <2>2. \A k \in DOMAIN stream' : GoodFrame(stream'[k])
      BY <2>1, TornGood
    <2> QED BY <1>0, <2>1, <2>2, FrameKept
  <1>3. CASE BuildAnchor \/ BuildBlock \/ BuildSubtree
    <2>1. UNCHANGED <<opt, pool, stream>> /\ pc = "loop"
      BY <1>3 DEF BuildAnchor, BuildBlock, BuildSubtree, BuildTx, Step, Fatal
    <2>2. \A k \in DOMAIN built' : GoodFrame(built'[k])
      BY <1>3, RoundGood
    <2>3. ~BadFlags
      BY <2>1 DEF FrameInv
    <2> QED BY <1>0, <2>1, <2>2, <2>3, FrameKept
  <1>4. CASE Write
    <2>1. /\ UNCHANGED <<opt, pool>> /\ built # <<>> /\ pc = "write"
          /\ stream' = Append(stream, Head(built)) /\ built' = Tail(built)
      BY <1>4 DEF Write, Step
    <2>2. /\ Len(stream) \in Nat /\ DOMAIN stream = 1 .. Len(stream)
          /\ DOMAIN stream' = 1 .. Len(stream) + 1
          /\ \A k \in 1 .. Len(stream) : stream'[k] = stream[k]
          /\ stream'[Len(stream) + 1] = Head(built)
      BY <2>1, Appended DEF PlanInv
    <2>3. /\ Len(built) \in Nat \ {0} /\ Head(built) = built[1]
          /\ IsSequence(built') /\ Len(built') = Len(built) - 1
          /\ \A k \in 1 .. Len(built) - 1 : built'[k] = built[k + 1]
      BY <2>1, Removed DEF PlanInv
    <2>4. DOMAIN built = 1 .. Len(built) /\ DOMAIN built' = 1 .. Len(built')
      BY <2>3 DEF PlanInv, IsSequence
    <2>5. \A k \in DOMAIN built' : GoodFrame(built'[k])
      <3> SUFFICES ASSUME NEW k \in DOMAIN built' PROVE GoodFrame(built'[k])
        OBVIOUS
      <3>1. k \in 1 .. Len(built) - 1 /\ k + 1 \in DOMAIN built
        BY <2>3, <2>4
      <3>2. built'[k] = built[k + 1]
        BY <2>3, <3>1
      <3> QED BY <1>0, <3>1, <3>2
    <2>6. GoodFrame(Head(built))
      <3>1. 1 \in DOMAIN built
        BY <2>3, <2>4
      <3> QED BY <1>0, <2>3, <3>1
    <2>7. \A k \in DOMAIN stream' : GoodFrame(stream'[k])
      <3>1. \A k \in 1 .. Len(stream) + 1 : k \in 1 .. Len(stream) \/ k = Len(stream) + 1
        BY <2>2
      <3> QED BY <1>0, <2>2, <2>6, <3>1
    <2>8. ~BadFlags
      BY <2>1 DEF FrameInv
    <2> QED BY <2>1, <2>5, <2>7, <2>8, FrameKept
  <1>5. CASE AcceptAndFillPool
    <2>1. /\ ~BadFlags /\ opt.prog = "subtree" /\ UNCHANGED <<opt, stream, built>>
          /\ \A k \in DOMAIN pool' : pool'[k] \in newSubtrees(opt, k)
      BY <1>5 DEF AcceptAndFillPool, Step
    <2>2. pool' \in [1 .. opt.subtreeCount ->
                       UNION {newSubtrees(opt, k) : k \in 1 .. opt.subtreeCount}]
      BY <1>5 DEF AcceptAndFillPool
    <2>3. opt \in SubtreeOpts
      BY <2>1, ProgramOf DEF PlanInv
    <2>4. opt.subtreeCount \in Nat
      BY <2>3, FrameListAssumption DEF SubtreeOpts
    <2>5. IsSequence(pool')
      <3> DEFINE S == UNION {newSubtrees(opt, k) : k \in 1 .. opt.subtreeCount}
      <3> HIDE DEF S
      <3>1. pool' \in [1 .. opt.subtreeCount -> S]
        BY <2>2 DEF S
      <3>2. pool' \in Seq(S)
        BY <2>4, <3>1
      <3> QED BY <3>2, AnySequence
    <2>6. \A k \in DOMAIN pool' : /\ Len(pool'[k].nodes) = nodes(opt)
                                 /\ pool'[k].root = PerfectRoot(pool'[k].nodes)
      BY <2>1, <2>3, SubtreeSound
    <2>7. nodes(opt)' = nodes(opt) /\ ~BadFlags'
      BY <2>1 DEF BadFlags
    <2>8. \A k \in DOMAIN stream' : GoodFrame(stream[k])'
      BY <1>0, <2>1 DEF GoodFrame
    <2>9. \A k \in DOMAIN built' : GoodFrame(built[k])'
      BY <1>0, <2>1 DEF GoodFrame
    <2> QED BY <2>1, <2>5, <2>6, <2>7, <2>8, <2>9 DEF FrameInv
  <1>6. CASE UNCHANGED vars
    <2>1. UNCHANGED <<opt, pool, stream, built, pc>>
      BY <1>6 DEF vars
    <2>2. pc' \notin {"flags", "exited"} => ~BadFlags
      BY <2>1 DEF FrameInv
    <2> QED BY <1>0, <2>1, <2>2, FrameKept
  <1> QED BY <1>1, <1>2, <1>3, <1>4, <1>5, <1>6 DEF Next

\* Before the first frame.
LEMMA FrameInit == Init => FrameInv
  <1>1. DOMAIN <<>> = {}
    OBVIOUS
  <1>2. IsSequence(<<>>)
    BY OneAndTwo
  <1> QED BY <1>1, <1>2 DEF Init, FrameInv

\* HeadersPass for every number of blocks, coinbase flag and size of the nonce
\* space: an announced header that has a passing nonce carries one, wherever the
\* search started (blockhdr.go lines 53-73).
THEOREM HeadersAlwaysPass == Spec => []HeadersPass
  <1>1. FrameInv => HeadersPass
    BY DEF FrameInv, GoodFrame, HeadersPass
  <1> QED BY <1>1, PlanInit, PlanStep, FrameInit, FrameStep, PTL DEF Spec

\* RootsVerify for every node count, payload size, pool and pattern of zero hashes:
\* the SubtreeID of a frame is the root of the perfect tree over the nodes in it
\* (send-subtree-data lines 6-8, merkle.go lines 15-41).
THEOREM RootsAlwaysVerify == Spec => []RootsVerify
  <1>1. FrameInv => RootsVerify
    BY DEF FrameInv, GoodFrame, RootsVerify
  <1> QED BY <1>1, PlanInit, PlanStep, FrameInit, FrameStep, PTL DEF Spec

NeverRefused == why # "build"

\* No transaction that main asks for is refused: its own check of -payload-size
\* keeps an anchor above the minimum, and a coinbase has 128 to 191 bytes.
LEMMA NothingRefused ==
  ASSUME \A s \in AnchorSizes : s <= MinRawSize + MaxSlack,
         PlanInv, FrameInv, [Next]_vars, NeverRefused
  PROVE  NeverRefused'
  <1> USE DEF NeverRefused
  <1>1. CASE BuildAnchor
    <2>1. pc = "loop" /\ opt.prog = "anchor"
      BY <1>1 DEF BuildAnchor, BuildTx, Step, Fatal
    <2>2. opt.size \in AnchorSizes
      BY <2>1, ProgramOf DEF PlanInv, AnchorOpts
    <2>3. opt.size \in Int /\ ~(opt.size < MinRawSize) /\ opt.size <= MinRawSize + MaxSlack
      <3>1. ~BadFlags
        BY <2>1 DEF FrameInv
      <3>2. ~(opt.size < MinRawSize)
        BY <2>1, <3>1 DEF BadFlags
      <3>3. opt.size \in Nat
        BY <2>2, FrameListAssumption
      <3>4. opt.size <= MinRawSize + MaxSlack
        BY <2>2
      <3> QED BY <3>2, <3>3, <3>4
    <2>4. opt.size \in MinRawSize .. MinRawSize + MaxSlack
      BY <2>3, Max32Fact DEF MinRawSize, MaxSlack
    <2>5. Build(opt.size) = opt.size
      BY <2>3, <2>4, RawExact
    <2>6. Build(opt.size) # Refused
      BY <2>3, <2>5 DEF Refused, MinRawSize
    <2> QED BY <1>1, <2>6 DEF BuildAnchor, BuildTx, Step
  <1>2. CASE BuildBlock
    <2>1. coinbaseSize \in 128 .. 191
      BY DEF coinbaseSize, PlanInv
    <2>2. coinbaseSize \in MinRawSize .. MinRawSize + MaxSlack /\ coinbaseSize \in Int
      BY <2>1, Max32Fact DEF MinRawSize, MaxSlack
    <2>3. Build(coinbaseSize) = coinbaseSize
      BY <2>2, RawExact
    <2>4. Build(coinbaseSize) # Refused
      BY <2>1, <2>3 DEF Refused
    <2> QED BY <1>2, <2>4 DEF BuildBlock, BuildTx, Step
  <1>3. CASE RefuseFlags \/ DialFails \/ WriteFails
    BY <1>3 DEF RefuseFlags, DialFails, WriteFails, Fatal
  <1>4. CASE AcceptFlags \/ AcceptAndFillPool \/ Dial \/ BuildSubtree \/ Write \/ NextRound
    BY <1>4 DEF AcceptFlags, AcceptAndFillPool, Dial, BuildSubtree, Write, NextRound, Step
  <1>5. CASE ExitDone \/ Killed \/ UNCHANGED vars
    BY <1>5 DEF ExitDone, Killed, vars
  <1> QED BY <1>1, <1>2, <1>3, <1>4, <1>5 DEF Next

\* SizesExact for every choice of flags, with -payload-size of send-anchor-frame
\* up to the 4 GiB ceiling of tx.splitSlack: "exactly -payload-size bytes"
\* (send-anchor-frame lines 50-51), no accepted size is refused by the builder,
\* and a subtree frame has "as many nodes as fit" (send-subtree-data line 54).
THEOREM SizesAlwaysExact ==
  ASSUME \A s \in AnchorSizes : s <= MinRawSize + MaxSlack
  PROVE  Spec => []SizesExact
  <1>1. PlanInv /\ FrameInv /\ NeverRefused => SizesExact
    <2> SUFFICES ASSUME PlanInv, FrameInv, NEW k \in DOMAIN stream
                 PROVE  LET f == stream[k] IN
                        /\ f.kind = "anchor" => f.size = opt.size
                        /\ f.kind = "subtree" =>
                              /\ f.size = 32 + Len(f.nodes) * nodeSize(opt)
                              /\ opt.size > 0 =>
                                    /\ f.size <= opt.size \/ Len(f.nodes) = 1
                                    /\ f.size + nodeSize(opt) > opt.size
      BY DEF SizesExact, NeverRefused
    <2>1. GoodFrame(stream[k])
      BY DEF FrameInv
    <2>2. opt.prog = "subtree" => opt \in SubtreeOpts
      BY ProgramOf DEF PlanInv
    <2>3. opt \in SubtreeOpts =>
             /\ payLen(opt) = 32 + nodes(opt) * nodeSize(opt)
             /\ opt.size > 0 => /\ payLen(opt) <= opt.size \/ nodes(opt) = 1
                                /\ payLen(opt) + nodeSize(opt) > opt.size
      BY NodesFit
    <2> QED BY <2>1, <2>2, <2>3 DEF GoodFrame
  <1>2. Init => NeverRefused
    BY DEF Init, NeverRefused
  <1>3. PlanInv /\ FrameInv /\ [Next]_vars /\ NeverRefused => NeverRefused'
    BY NothingRefused
  <1> QED BY <1>1, <1>2, <1>3, PlanInit, PlanStep, FrameInit, FrameStep, PTL DEF Spec
=============================================================================
