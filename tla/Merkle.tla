------------------------------- MODULE Merkle -------------------------------
(***************************************************************************)
(* merkle.Root (src/internal/merkle/merkle.go) and the tree it stands for. *)
(*                                                                         *)
(* A hash is Zero (32 zero bytes), a leaf <<k>>, or the pair <<l, r>> that *)
(* was hashed: double SHA-256 is taken to be injective and never zero.     *)
(***************************************************************************)
EXTENDS Integers, Sequences

Zero    == <<>>
Leaf(k) == <<k>>

\* One level up: an odd level pairs its last hash with itself, a zero left
\* hash gives zero, a zero right hash counts as absent.
NextLevelPadded(level) ==
    [p \in 1 .. (Len(level) + 1) \div 2 |->
        LET left  == level[2 * p - 1]
            right == IF 2 * p <= Len(level) THEN level[2 * p] ELSE Zero
        IN  IF left = Zero THEN Zero ELSE <<left, right>>]
NextLevel(level) ==
    [p \in 1 .. (Len(level) + 1) \div 2 |->
        LET left  == level[2 * p - 1]
            right == IF 2 * p <= Len(level) /\ level[2 * p] # Zero
                     THEN level[2 * p] ELSE left
        IN  IF left = Zero THEN Zero ELSE <<left, right>>]

\* Level after level, until one hash is left.
Levels(level) ==
    LET above[k \in Nat] == IF k = 0 THEN level ELSE NextLevel(above[k - 1])
    IN  above

Root(level) ==
    LET top == CHOOSE k \in 0 .. Len(level) :
                  /\ Len(Levels(level)[k]) = 1
                  /\ \A j \in 0 .. k - 1 : Len(Levels(level)[j]) > 1
    IN  Levels(level)[top][1]

-----------------------------------------------------------------------------
(* The reference: the perfect binary tree over the leaves padded with Zero *)
(* without end, cut at the first height whose node 0 covers all of them.   *)

Join(l, r) == IF l = Zero THEN Zero ELSE <<l, IF r = Zero THEN l ELSE r>>

\* Nodes(leaves)[h][k] is the node number k (from 0) at height h.
Pairs(lower) == [k \in Nat |-> Join(lower[2 * k], lower[2 * k + 1])]

Padded(leaves) == [k \in Nat |-> IF k < Len(leaves) THEN leaves[k + 1] ELSE Zero]

Nodes(leaves) ==
    LET node[h \in Nat] == IF h = 0 THEN Padded(leaves) ELSE Pairs(node[h - 1])
    IN  node

Pow2[h \in Nat] == IF h = 0 THEN 1 ELSE 2 * Pow2[h - 1]

Height(n) == CHOOSE h \in 0 .. n : Pow2[h] >= n /\ \A g \in 0 .. h - 1 : Pow2[g] < n

PerfectRoot(leaves) == Nodes(leaves)[Height(Len(leaves))][0]
=============================================================================
