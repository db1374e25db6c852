----------------------------- MODULE FrameList ------------------------------
(***************************************************************************)
(* The three programs that write a fixed list of frames to a proxy over    *)
(* one connection and exit at the first failure: send-anchor-frame,        *)
(* send-block-announce and send-subtree-data (src/cmd).  They share one    *)
(* shape: check the flags, dial, then build, write and pause per round.    *)
(*                                                                         *)
(* A frame is its kind, its round, the id in its header and what its       *)
(* payload amounts to: the length of a transaction, a ground header and    *)
(* the coinbase it names, or the nodes of a subtree.  The byte layout of   *)
(* the headers is left out.  The transaction built in round i is known by  *)
(* i, as objfmt.TxID of random bytes would know it.                        *)
(***************************************************************************)
EXTENDS Merkle, BlockHdr, TxSize

CONSTANTS
    Counts,         \* values of -count, -blocks, -frames
    AnchorSizes,    \* -payload-size of send-anchor-frame
    NodeCounts,     \* -nodes
    PayloadSizes,   \* -payload-size of send-subtree-data; 0 = use -nodes
    PoolSizes,      \* -subtree-count; 0 = a fresh subtree per frame
    MaxDatagram     \* the longest UDP payload

ASSUME FrameListAssumption ==
    /\ Counts \subseteq Nat /\ AnchorSizes \subseteq Nat /\ PoolSizes \subseteq Nat
    /\ NodeCounts \subseteq Int /\ PayloadSizes \subseteq Int
    /\ MaxDatagram \in Nat

VARIABLES
    opt,        \* the program and its flags
    pc,         \* where main is
    i,          \* the round of its loop
    pool,       \* subtreePool
    built,      \* the frames of this round that are still to be written
    stream,     \* what has reached the connection
    sent,       \* sent
    status,     \* "running", "done" (exit 0), "fatal" (exit 1) or "killed"
    why         \* what made it call fatalf (ghost)

vars == <<opt, pc, i, pool, built, stream, sent, status, why>>

headerSize == 92

AnchorOpts  == [prog : {"anchor"}, count : Counts, size : AnchorSizes, tcp : BOOLEAN]
BlockOpts   == [prog : {"block"}, count : Counts, coinbase : BOOLEAN, tcp : {TRUE}]
SubtreeOpts == [prog : {"subtree"}, count : Counts, tcp : {TRUE},
                msgType : {"hashes", "full", "other"},
                size : PayloadSizes, nodes : NodeCounts, subtreeCount : PoolSizes]

-----------------------------------------------------------------------------
(* What send-subtree-data makes of its flags.                              *)

payloadHeaderSize == 24
conflictCountSize == 8

nodeSize(o) == IF o.msgType = "hashes" THEN 32 ELSE 48

\* Go's division truncates towards zero.
Quo(a, b) == IF a < 0 THEN -((-a) \div b) ELSE a \div b

\* Nodes per frame.
AtLeastOne(n) == IF n < 1 THEN 1 ELSE n

nodesNoTrailer(o) ==
    AtLeastOne(IF o.size > 0 THEN Quo(o.size - payloadHeaderSize, nodeSize(o)) ELSE o.nodes)
nodes(o) ==
    AtLeastOne(IF o.size > 0
               THEN Quo(o.size - payloadHeaderSize - conflictCountSize, nodeSize(o))
               ELSE o.nodes)

payLen(o) == payloadHeaderSize + nodes(o) * nodeSize(o) + conflictCountSize

\* newSubtree: random node hashes, any of which may be zero, and their root.
\* Subtree number k has hashes of its own.
newSubtrees(o, k) ==
    LET hashes == {[j \in 1 .. nodes(o) |-> IF j \in absent THEN Zero ELSE Leaf(100 * k + j)] :
                      absent \in SUBSET (1 .. nodes(o))}
    IN  {[root |-> Root(h), nodes |-> h] : h \in hashes}

-----------------------------------------------------------------------------
Init ==
    /\ opt \in AnchorOpts \cup BlockOpts \cup SubtreeOpts
    /\ pc = "flags"
    /\ i = 0
    /\ pool = <<>>
    /\ built = <<>>
    /\ stream = <<>>
    /\ sent = 0
    /\ status = "running"
    /\ why = "none"

Step(from, to) == pc = from /\ pc' = to /\ UNCHANGED <<opt, status, why>>

\* fatalf: os.Exit(1), no deferred call runs.
Fatal(from, reason) ==
    /\ pc = from /\ pc' = "exited"
    /\ status' = "fatal"
    /\ why' = reason
    /\ UNCHANGED opt

BadFlags ==
    \/ opt.prog = "anchor" /\ opt.size < MinRawSize
    \/ opt.prog = "subtree" /\ opt.msgType = "other"

RefuseFlags ==
    /\ BadFlags
    /\ Fatal("flags", "flags")
    /\ UNCHANGED <<i, pool, built, stream, sent>>

AcceptFlags ==
    /\ ~BadFlags /\ opt.prog # "subtree"
    /\ Step("flags", "dial")
    /\ UNCHANGED <<i, pool, built, stream, sent>>

\* The pool is generated before the connection is made.
AcceptAndFillPool ==
    /\ ~BadFlags /\ opt.prog = "subtree"
    /\ Step("flags", "dial")
    /\ \E p \in [1 .. opt.subtreeCount -> UNION {newSubtrees(opt, k) : k \in 1 .. opt.subtreeCount}] :
          /\ \A k \in DOMAIN p : p[k] \in newSubtrees(opt, k)
          /\ pool' = p
    /\ UNCHANGED <<i, built, stream, sent>>

Dial ==
    /\ Step("dial", "loop")
    /\ UNCHANGED <<i, pool, built, stream, sent>>

DialFails ==
    /\ Fatal("dial", "dial")
    /\ UNCHANGED <<i, pool, built, stream, sent>>

-----------------------------------------------------------------------------
(* One round: what is built.                                               *)

\* A tx that Builder.Build refuses ends the program before anything is written.
BuildTx(size, frames) ==
    IF Build(size) = Refused
    THEN Fatal("loop", "build") /\ UNCHANGED built
    ELSE Step("loop", "write") /\ built' = frames

BuildAnchor ==
    /\ opt.prog = "anchor" /\ i < opt.count
    /\ BuildTx(opt.size, <<[kind |-> "anchor", round |-> i, id |-> i,
                            size |-> Build(opt.size)]>>)
    /\ UNCHANGED <<i, pool, stream, sent>>

coinbaseSize == 128 + (i % 64)

\* passing: the nonces that satisfy the random header's target.
BuildBlock ==
    /\ opt.prog = "block" /\ i < opt.count
    /\ \E passing \in SUBSET (0 .. Nonces - 1) :
          LET nonce    == Grind(i % Nonces, passing)
              announce == [kind |-> "announce", round |-> i, id |-> <<i, nonce>>,
                           nonce |-> nonce, passing |-> passing, coinbase |-> i]
              coinbase == [kind |-> "coinbase", round |-> i, id |-> i,
                           size |-> Build(coinbaseSize)]
          IN  BuildTx(coinbaseSize,
                      IF opt.coinbase THEN <<announce, coinbase>> ELSE <<announce>>)
    /\ UNCHANGED <<i, pool, stream, sent>>

BuildSubtree ==
    /\ opt.prog = "subtree" /\ i < opt.count
    /\ Step("loop", "write")
    /\ \E st \in IF pool # <<>> THEN {pool[(i % Len(pool)) + 1]}
                 ELSE newSubtrees(opt, i + 1) :
          built' = <<[kind |-> "subtree", round |-> i, id |-> st.root,
                      nodes |-> st.nodes, size |-> payLen(opt)]>>
    /\ UNCHANGED <<i, pool, stream, sent>>

-----------------------------------------------------------------------------
(* Writing, with a deadline of five seconds per frame.                     *)

TooLong(f) == ~opt.tcp /\ headerSize + f.size > MaxDatagram

Write ==
    /\ built # <<>>
    /\ ~TooLong(Head(built))
    /\ Step("write", IF Len(built) > 1 THEN "write" ELSE "pause")
    /\ stream' = Append(stream, Head(built))
    /\ built' = Tail(built)
    /\ sent' = sent + 1
    /\ UNCHANGED <<i, pool>>

\* A TCP write may fail with part of the frame sent; a datagram is all or none.
Partial == [kind |-> "partial", round |-> i]

Torn == {stream} \cup (IF opt.tcp THEN {Append(stream, Partial)} ELSE {})

WriteFailsOn ==
    /\ Step("write", "pause")
    /\ stream' \in Torn
    /\ built' = <<>>
    /\ UNCHANGED <<i, pool, sent>>
WriteFails ==
    /\ Fatal("write", "write")
    /\ stream' \in Torn
    /\ UNCHANGED <<i, pool, built, sent>>

\* time.Sleep between rounds, none after the last.
NextRound ==
    /\ Step("pause", "loop")
    /\ i' = i + 1
    /\ UNCHANGED <<pool, built, stream, sent>>

ExitDone ==
    /\ pc = "loop" /\ i >= opt.count
    /\ pc' = "exited"
    /\ status' = "done"
    /\ UNCHANGED <<opt, i, pool, built, stream, sent, why>>

\* No program handles signals: SIGINT or SIGTERM ends it where it is.
Killed ==
    /\ pc # "exited" /\ pc' = "exited"
    /\ status' = "killed"
    /\ stream' \in IF pc = "write" THEN Torn ELSE {stream}
    /\ UNCHANGED <<opt, i, pool, built, sent, why>>

Next ==
    \/ RefuseFlags \/ AcceptFlags \/ AcceptAndFillPool \/ Dial \/ DialFails
    \/ BuildAnchor \/ BuildBlock \/ BuildSubtree
    \/ Write \/ WriteFails \/ NextRound \/ ExitDone \/ Killed

Spec == Init /\ [][Next]_vars

-----------------------------------------------------------------------------
(* Properties.                                                             *)

\* The frames that the flags ask for: so many in every round, and frame number
\* k as its kind and its round.
PerRound == IF opt.prog = "block" /\ opt.coinbase THEN 2 ELSE 1

Planned(k) ==
    <<IF opt.prog # "block" THEN opt.prog
      ELSE IF (k - 1) % PerRound = 0 THEN "announce" ELSE "coinbase",
      (k - 1) \div PerRound>>

IsWhole(f) == f.kind # "partial"

\* Wherever a write fails or the process is killed, the proxy has received the
\* planned frames from the first on, none missing or repeated, and at most one
\* incomplete frame, at the very end; a coinbase frame carries the id that the
\* announce before it named; and exit status 0, with sent frames reported, means the
\* whole plan (send-block-announce lines 95-117, send-subtree-data 112-126,
\* send-anchor-frame 95-107).
StreamAsPlanned ==
    /\ {k \in DOMAIN stream : IsWhole(stream[k])} = 1 .. sent
    /\ Len(stream) <= sent + 1
    /\ sent <= PerRound * opt.count
    /\ \A k \in 1 .. sent :
          /\ <<stream[k].kind, stream[k].round>> = Planned(k)
          /\ stream[k].kind = "coinbase" => stream[k].id = stream[k - 1].coinbase
    /\ status = "done" => Len(stream) = sent /\ sent = PerRound * opt.count

\* "a proxy running -verify-subtree-root forwards it" (send-subtree-data lines
\* 6-8): the SubtreeID of every frame is the root of the perfect tree over the
\* nodes in the same frame, for every node count, with zero hashes among them
\* and for subtrees reused from the pool.
RootsVerify ==
    \A k \in DOMAIN stream :
        stream[k].kind = "subtree" => stream[k].id = PerfectRoot(stream[k].nodes)

\* Sizes are what the flags say: an anchor is "exactly -payload-size bytes"
\* (send-anchor-frame lines 50-51) at the lengths where the script's prefix
\* grows, no accepted size is refused by the builder, and send-subtree-data
\* puts in "as many nodes as fit" (line 54), one at least.
SizesExact ==
    /\ why # "build"
    /\ \A k \in DOMAIN stream :
          LET f == stream[k] IN
          /\ f.kind = "anchor" => f.size = opt.size
          /\ f.kind = "subtree" =>
                /\ f.size = 32 + Len(f.nodes) * nodeSize(opt)
                /\ opt.size > 0 =>
                      /\ f.size <= opt.size \/ Len(f.nodes) = 1
                      /\ f.size + nodeSize(opt) > opt.size

\* "the whole 2^32 space is tried before giving up" (blockhdr.go lines 53-54):
\* wherever the search starts, an announced header passes the proof-of-work
\* gate if it has a passing nonce at all.
HeadersPass ==
    \A k \in DOMAIN stream :
        (stream[k].kind = "announce" /\ stream[k].passing # {})
            => stream[k].nonce \in stream[k].passing
=============================================================================
