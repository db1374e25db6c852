------------------------------ MODULE PushLoop ------------------------------
(***************************************************************************)
(* The loop of send-subtree-push (src/cmd/send-subtree-push/main.go):      *)
(* build an object, connect if there is no connection, write the object,   *)
(* and start over on a new connection if the write fails.  send-block-push *)
(* has the same loop around blocks that are chained: module BlockPush.     *)
(*                                                                         *)
(* Objects delimit themselves and nothing marks where one starts, so the   *)
(* receiver of a connection is lost once a partial object is followed by   *)
(* anything.  Delays (interval, backoff, deadlines) take any time.         *)
(***************************************************************************)
EXTENDS Naturals, Sequences

CONSTANTS
    Counts,     \* values of -count explored; 0 means until cancelled
    MaxSent     \* bound: without -count, ticks stop after so many objects

ASSUME PushAssumption == Counts \subseteq Nat /\ MaxSent \in Nat

VARIABLES
    count,      \* -count, fixed for a run
    cancelled,  \* ctx is done: SIGINT, SIGTERM or the -duration deadline
    pc,         \* where main is
    site,       \* which call of dial is under way: before or in the loop
    conn,       \* conn # nil
    sent,       \* objects written
    stream      \* what the current connection carries (ghost)

loopVars == <<count, cancelled, pc, site, conn, sent, stream>>

LoopInit ==
    /\ count \in Counts
    /\ cancelled = FALSE
    /\ pc = "dial"
    /\ site = "start"
    /\ conn = FALSE
    /\ sent = 0
    /\ stream = <<>>

Cancel ==
    /\ ~cancelled /\ pc # "exited"
    /\ cancelled' = TRUE
    /\ UNCHANGED <<count, pc, site, conn, sent, stream>>

-----------------------------------------------------------------------------
(* dial: retry until it succeeds or ctx is cancelled.                      *)

\* ctx is not looked at when the attempt succeeds.
DialSucceeds ==
    /\ pc = "dial"
    /\ conn' = TRUE
    /\ stream' = <<>>
    /\ pc' = IF site = "start" THEN "build" ELSE "write"
    /\ UNCHANGED <<count, cancelled, site, sent>>

DialFails ==
    /\ pc = "dial"
    /\ pc' = "backoff"
    /\ UNCHANGED <<count, cancelled, site, conn, sent, stream>>

BackoffEndsNever ==
    /\ FALSE /\ pc = "backoff"
    /\ pc' = "dial"
    /\ UNCHANGED <<count, cancelled, site, conn, sent, stream>>
BackoffEnds ==
    /\ pc = "backoff"
    /\ pc' = "dial"
    /\ UNCHANGED <<count, cancelled, site, conn, sent, stream>>

\* dial returns nil: the call before the loop goes on to the loop, the one in
\* the loop returns from main.
DialGivesUp ==
    /\ pc = "backoff" /\ cancelled
    /\ pc' = IF site = "start" THEN "build" ELSE "exited"
    /\ UNCHANGED <<count, cancelled, site, conn, sent, stream>>

-----------------------------------------------------------------------------
(* The loop.                                                               *)

\* The object is built and self-verified; without a connection dial is called.
Build ==
    /\ pc = "build"
    /\ IF conn
       THEN pc' = "write" /\ UNCHANGED site
       ELSE pc' = "dial" /\ site' = "loop"
    /\ UNCHANGED <<count, cancelled, conn, sent, stream>>

\* The kernel takes the whole object; -count may be reached.
WriteSucceeds ==
    /\ pc = "write"
    /\ sent' = sent + 1
    /\ stream' = Append(stream, "whole")
    /\ pc' = IF count > 0 /\ sent + 1 >= count THEN "exited" ELSE "wait"
    /\ UNCHANGED <<count, cancelled, site, conn>>

\* An error, or the write deadline: a proper prefix of the object went out, or
\* nothing.  The connection is closed and the loop starts over.
WriteFailsCounted ==
    /\ pc = "write"
    /\ stream' \in {stream, Append(stream, "part")}
    /\ sent' = sent + 1
    /\ conn' = FALSE
    /\ pc' = IF count > 0 /\ sent + 1 >= count THEN "exited" ELSE "build"
    /\ UNCHANGED <<count, cancelled, site>>
WriteFailsKeepingConn ==
    /\ pc = "write"
    /\ stream' \in {stream, Append(stream, "part")}
    /\ pc' = "build"
    /\ UNCHANGED <<count, cancelled, site, conn, sent>>
WriteFails ==
    /\ pc = "write"
    /\ stream' \in {stream, Append(stream, "part")}
    /\ conn' = FALSE
    /\ pc' = "build"
    /\ UNCHANGED <<count, cancelled, site, sent>>

Tick ==
    /\ pc = "wait" /\ (count = 0 => sent < MaxSent)
    /\ pc' = "build"
    /\ UNCHANGED <<count, cancelled, site, conn, sent, stream>>

StopOnCtxIgnored ==
    /\ FALSE /\ pc = "wait" /\ cancelled
    /\ pc' = "exited"
    /\ UNCHANGED <<count, cancelled, site, conn, sent, stream>>
StopOnCtx ==
    /\ pc = "wait" /\ cancelled
    /\ pc' = "exited"
    /\ UNCHANGED <<count, cancelled, site, conn, sent, stream>>

-----------------------------------------------------------------------------
\* Steps of main that touch neither the object nor the connection's contents.
Control == DialFails \/ BackoffEnds \/ DialGivesUp \/ Tick \/ StopOnCtx

Exited == pc = "exited" /\ UNCHANGED loopVars

LoopNext ==
    \/ Cancel \/ Control \/ DialSucceeds \/ Build \/ WriteSucceeds \/ WriteFails
    \/ Exited

Main == Control \/ DialSucceeds \/ Build \/ WriteSucceeds \/ WriteFails

(***************************************************************************)
(* Fairness.  main keeps running: a dial ends within its five seconds, a   *)
(* write within its deadline, timers fire; a select whose two cases are    *)
(* ready again and again takes each of them.  That is all the program can  *)
(* count on (AnyPeerSpec).  PushSpec also has a peer that is there: of     *)
(* attempts repeated for ever, one connects and one write goes through.    *)
(***************************************************************************)
AnyPeerSpec ==
    /\ LoopInit /\ [][LoopNext]_loopVars
    /\ WF_loopVars(Main) /\ SF_loopVars(StopOnCtx) /\ SF_loopVars(DialGivesUp)

PeerFairness == SF_loopVars(DialSucceeds) /\ SF_loopVars(WriteSucceeds)

PushSpec == AnyPeerSpec /\ PeerFairness

-----------------------------------------------------------------------------
(* Properties.                                                             *)

\* On every connection a partial object is the last thing: after a failed
\* write nothing more is written to it (lines 104-108), so a receiver that
\* splits the stream by object size never loses its place.
ObjectAligned == \A i \in 1 .. Len(stream) - 1 : stream[i] = "whole"

\* A counted run ends if the peer is there: failed dials and writes are made
\* up for (lines 104-108, 170-185).
CountedPushEnds == count > 0 => <>(pc = "exited")

\* "stop after this long" (flag -duration, line 49; "must not overrun the
\* requested runtime", lines 68-70): once the context is done main ends.
PushStops == cancelled ~> pc = "exited"
=============================================================================
