------------------------------- MODULE TxSize -------------------------------
(***************************************************************************)
(* The sizes of the transactions that tx.Builder makes (src/internal/tx):  *)
(* the slack between the requested size and the format's minimum is split  *)
(* over two scripts whose length prefixes grow with them, so some totals   *)
(* are out of one script's reach.                                          *)
(*                                                                         *)
(* A transaction is the number of bytes written so far; the bytes are      *)
(* random.  A Go int is wide enough for every size here.                   *)
(***************************************************************************)
EXTENDS Integers

Refused == -1   \* an error instead of a transaction

Max32 == 65536 * 65536 - 1

MinRawSize == 60
MinEFSize  == 75

varintSize(v) ==
    IF v < 253 THEN 1
    ELSE IF v <= 65535 THEN 3
    ELSE IF v <= Max32 THEN 5
    ELSE 9

\* What a script of length l adds beyond its first prefix byte.
cost(l) == l + varintSize(l) - 1

-----------------------------------------------------------------------------
(* splitSlack: the unlocking script takes 0, 1 or 2 bytes, the first that  *)
(* leaves the locking script a remainder it can represent.                 *)

Fits(rem) ==
    \/ rem >= 0 /\ rem <= 252
    \/ rem >= 255 /\ rem <= 65537
    \/ rem >= 65540 /\ rem <= Max32 + 4

\* The locking script that makes up a remainder.
Bulk(rem) ==
    IF rem <= 252 THEN rem
    ELSE IF rem <= 65537 THEN rem - 2
    ELSE rem - 4

splitSlack(slack) ==
    IF Fits(slack) THEN [shim |-> 0, bulk |-> Bulk(slack)]
    ELSE IF Fits(slack - 1) THEN [shim |-> 1, bulk |-> Bulk(slack - 1)]
    ELSE IF Fits(slack - 2) THEN [shim |-> 2, bulk |-> Bulk(slack - 2)]
    ELSE [shim |-> Refused, bulk |-> Refused]

\* The largest slack that splitSlack takes.
MaxSlack == Max32 + 6

-----------------------------------------------------------------------------
(* The builders: bytes written, field after field, for a target size.  The *)
(* last test is the builder's own check of its result.                     *)

script(l) == varintSize(l) + l

rawBytes(shim, bulk) == 4 + 1 + 36 + script(shim) + 4 + 1 + 8 + script(bulk) + 4

efBytes(shim, bulk) ==
    4 + 6 + 1 + 36 + script(shim) + 4 + 8 + script(0) + 1 + 8 + script(bulk) + 4

Checked(bytes, targetSize) == IF bytes = targetSize THEN bytes ELSE Refused

Build(targetSize) ==
    LET s == splitSlack(targetSize - MinRawSize)
    IN  IF targetSize < MinRawSize \/ s.shim = Refused THEN Refused
        ELSE Checked(rawBytes(s.shim, s.bulk), targetSize)

BuildEF(targetSize) ==
    LET s == splitSlack(targetSize - MinEFSize)
    IN  IF targetSize < MinEFSize \/ s.shim = Refused THEN Refused
        ELSE Checked(efBytes(s.shim, s.bulk), targetSize)

-----------------------------------------------------------------------------
(* What Runner.Run asks for.                                               *)

Formats == {"brc124", "brc128", "mixed"}

MinPayloadSize(format) ==
    IF format \in {"brc128", "mixed"} THEN MinEFSize ELSE MinRawSize

\* The payload of a worker's frame number local.
Payload(format, local, size) ==
    IF format = "brc128" \/ (format = "mixed" /\ local % 2 = 1)
    THEN BuildEF(size)
    ELSE Build(size)
=============================================================================
