------------------------------ MODULE BlockHdr ------------------------------
(***************************************************************************)
(* blockhdr.Grind (src/internal/blockhdr/blockhdr.go): the search for a    *)
(* nonce with which a header passes pow.CheckHeader.  Which nonces pass is *)
(* the header's affair, a set chosen with it.                              *)
(***************************************************************************)
EXTENDS Integers

CONSTANT
    Nonces      \* size of the nonce space: 2^32

ASSUME BlockHdrAssumption == Nonces \in Nat \ {0}

\* The nonce that round k of the loop tries.  It is a uint32 and wraps.
Tried(start, k) == (start + k) % Nonces

\* The nonce left in the header: the first that passes, or the last one tried.
Search(start, rounds, passing) ==
    LET hits == {k \in 0 .. rounds - 1 : Tried(start, k) \in passing}
    IN  IF hits = {} THEN Tried(start, rounds - 1)
        ELSE Tried(start, CHOOSE k \in hits : \A j \in hits : k <= j)

GrindNoWrap(start, passing) == Search(start, Nonces - start, passing)
Grind(start, passing) == Search(start, Nonces, passing)
=============================================================================
