-------------------------------- MODULE Sink --------------------------------
(***************************************************************************)
(* tunnel-sink (src/cmd/tunnel-sink/main.go): one accepted connection, its *)
(* handler (delivery or submit relay), the goroutine that watches the edge *)
(* and main, which prints the summary and ends the process.                *)
(*                                                                         *)
(* A lane class is inferred from the bytes read so far.  What they say is  *)
(* evidence: how far the buffer has grown, which classes are still viable  *)
(* and how many whole objects each has walked.  For the class the stream   *)
(* really has, that is the objects it carries; what the others make of the *)
(* same bytes is arbitrary.  Contents of objects are left out.             *)
(***************************************************************************)
EXTENDS Integers, FiniteSets

CONSTANT MaxObjects   \* bound: objects a client sends

ASSUME SinkAssumption == MaxObjects \in Nat \ {0}

Classes == {"tx", "subtree", "block"}

\* sniffOrder.
Order == [tx |-> 1, subtree |-> 2, block |-> 3]

\* Buffer lengths that matter: 0 below 4 bytes (neither magic nor version), 1
\* below BlockPrefixSize, 2 below sniffDecideAt, 3 below sniffCap, 4 beyond.
Window  == 2
DecideAt == 3
Cap     == 4

VARIABLES
    role,       \* "recv", "sent", or "forced": a delivery with -lane given
    truth,      \* what the client sends: a class, "framed" or "garbage"
    hpc,        \* where the handler is
    length,     \* length of buf, as above
    viable,     \* classes that walkCandidate has not ruled out
    walked,     \* whole objects each of them walks in buf
    eof,        \* eof in sniffClass
    armed,      \* the connection has a read deadline
    lane,       \* the class decided on
    client,     \* "open", "fin" (ended by the peer) or "closed" (by us)
    torn,       \* the client ended inside an object
    arrived,    \* whole objects of that class received from the client
    pumped,     \* objects the pump has split off
    edge,       \* "none", "open", "ended" by the peer
    relayed,    \* objects written whole to the edge
    edgeTorn,   \* the edge has part of an object
    logged,     \* lines printed
    recorded,   \* objects in stats
    parseErrs, active,   \* stats
    exited      \* the process has ended

sniffVars == <<length, viable, walked, eof, armed, lane>>
edgeVars  == <<edge, relayed, edgeTorn>>
statVars  == <<logged, recorded, parseErrs, active>>
vars == <<role, truth, hpc, sniffVars, client, torn, arrived, pumped, edgeVars,
          statVars, exited>>

None    == "none"
Running == ~exited

Init ==
    /\ role \in {"recv", "sent", "forced"}
    /\ truth \in Classes \cup {"framed", "garbage"}
    /\ lane \in IF role = "forced" THEN Classes ELSE {None}
    /\ hpc = "accepted"
    /\ length = 0 /\ viable = Classes /\ walked = [c \in Classes |-> 0]
    /\ eof = FALSE /\ armed = FALSE
    /\ client = "open" /\ torn = FALSE /\ arrived = 0 /\ pumped = 0
    /\ edge = "none" /\ relayed = 0 /\ edgeTorn = FALSE
    /\ logged = 0 /\ recorded = 0 /\ parseErrs = 0 /\ active = 0
    /\ exited = FALSE

-----------------------------------------------------------------------------
(* The decision.                                                           *)

Completed == {c \in viable : walked[c] >= 1}

TheOnly(S) == CHOOSE c \in S : TRUE

\* bestCandidate: most objects walked, ties in sniffOrder.
BestCandidateFirst(requireComplete) ==
    IF viable = {} \/ (requireComplete /\ Completed = {}) THEN None
    ELSE CHOOSE c \in viable : \A d \in viable : Order[c] <= Order[d]
BestCandidate(requireComplete) ==
    IF viable = {} \/ (requireComplete /\ Completed = {}) THEN None
    ELSE CHOOSE c \in viable : \A d \in viable :
            \/ walked[c] > walked[d]
            \/ walked[c] = walked[d] /\ Order[c] <= Order[d]

\* classifyBuffer.
ClassifyBufferComplete ==
    IF ~(eof \/ length >= Window) \/ viable = {} THEN None
    ELSE IF Cardinality(viable) = 1 THEN TheOnly(viable)
    ELSE IF Cardinality(Completed) = 1 THEN TheOnly(Completed)
    ELSE IF eof \/ length >= DecideAt THEN BestCandidate(TRUE)
    ELSE None
ClassifyBuffer ==
    IF ~(eof \/ length >= Window) \/ viable = {} THEN None
    ELSE IF Cardinality(viable) = 1 THEN TheOnly(viable)
    ELSE IF Cardinality(Completed) = 1 THEN TheOnly(Completed)
    ELSE IF eof \/ length >= DecideAt THEN BestCandidate(FALSE)
    ELSE None

-----------------------------------------------------------------------------
(* sniffClass.  Its deferred call clears the deadline on every return.     *)

Goto(pc) == Running /\ hpc' = pc

\* The handler starts: connOpen.
ConnOpen ==
    /\ hpc = "accepted"
    /\ Goto(IF role = "forced" THEN "next" ELSE "eval")
    /\ active' = active + 1
    /\ UNCHANGED <<role, truth, sniffVars, client, torn, arrived, pumped, edgeVars,
                   logged, recorded, parseErrs, exited>>

\* The handler returns; its deferred calls close the connections.  edge stays
\* as the handler left it.
LeavesActive(errs) ==
    /\ Goto("done")
    /\ parseErrs' = parseErrs + errs
    /\ client' = "closed"
    /\ UNCHANGED <<role, truth, torn, arrived, pumped, edge, relayed, logged,
                   recorded, active, exited>>
Leaves(errs) ==
    /\ Goto("done")
    /\ parseErrs' = parseErrs + errs
    /\ active' = active - 1
    /\ client' = "closed"
    /\ UNCHANGED <<role, truth, torn, arrived, pumped, edge, relayed, logged,
                   recorded, exited>>

\* The prefix is handed to the pump: of a class it holds what was walked, of
\* frames any number.
InPrefix(c) == IF c \in Classes THEN {walked[c]} ELSE 0 .. MaxObjects

ClassifiedArmed(c) ==
    /\ Goto(IF role = "sent" THEN "dial" ELSE "next")
    /\ lane' = c
    /\ arrived' \in InPrefix(c)
    /\ UNCHANGED <<role, truth, length, viable, walked, eof, armed, client, torn,
                   pumped, edgeVars, statVars, exited>>
ClassifiedDrained(c) ==
    /\ Goto(IF role = "sent" THEN "dial" ELSE "next")
    /\ lane' = c
    /\ armed' = FALSE
    /\ arrived' \in InPrefix(c)
    /\ pumped' = arrived'
    /\ UNCHANGED <<role, truth, length, viable, walked, eof, client, torn,
                   edgeVars, statVars, exited>>
Classified(c) ==
    /\ Goto(IF role = "sent" THEN "dial" ELSE "next")
    /\ lane' = c
    /\ armed' = FALSE
    /\ arrived' \in InPrefix(c)
    /\ UNCHANGED <<role, truth, length, viable, walked, eof, client, torn,
                   pumped, edgeVars, statVars, exited>>

Magic == truth = "framed" /\ length > 0

EvalFramed == hpc = "eval" /\ Magic /\ Classified("framed")

EvalClass ==
    /\ hpc = "eval" /\ ~Magic /\ ClassifyBuffer # None
    /\ Classified(ClassifyBuffer)

EvalGivesUp ==
    /\ hpc = "eval" /\ ~Magic /\ ClassifyBuffer = None
    /\ eof \/ length = Cap
    /\ armed' = FALSE
    /\ UNCHANGED <<length, viable, walked, eof, lane, edgeTorn>>
    /\ Leaves(1)

EvalReads ==
    /\ hpc = "eval" /\ ~Magic /\ ClassifyBuffer = None
    /\ ~eof /\ length < Cap
    /\ Goto("read")
    /\ armed' = TRUE
    /\ UNCHANGED <<role, truth, length, viable, walked, eof, lane, client, torn,
                   arrived, pumped, edgeVars, statVars, exited>>

\* What more bytes can say.  Below 4 bytes no class can be judged, and a block
\* is not walked before its prefix is there.  A stream of a class is one whose
\* objects pass the checks of walkCandidate (version, node count, subtree count).
Evidence(l, v, n) ==
    /\ l = 0 => v = Classes /\ n = walked
    /\ truth \in Classes => truth \in v
    /\ l < Window => "block" \in v /\ n["block"] = 0
    /\ \A c \in Classes : n[c] >= walked[c] /\ (c \notin v => n[c] = walked[c])

ReadMore ==
    /\ hpc = "read" /\ client = "open"
    /\ Goto("eval")
    /\ length' \in length .. Cap
    /\ viable' \in SUBSET viable
    /\ walked' \in [Classes -> 0 .. MaxObjects]
    /\ Evidence(length', viable', walked')
    /\ UNCHANGED <<role, truth, eof, armed, lane, client, torn, arrived, pumped,
                   edgeVars, statVars, exited>>

\* The deadline passes: settle for a class that has walked an object, if any.
ReadSettles ==
    /\ hpc = "read" /\ BestCandidate(TRUE) # None
    /\ Classified(BestCandidate(TRUE))

ReadTimesOut ==
    /\ hpc = "read" /\ BestCandidate(TRUE) = None
    /\ Goto("eval")
    /\ UNCHANGED <<role, truth, sniffVars, client, torn, arrived, pumped, edgeVars,
                   statVars, exited>>

ReadEnds ==
    /\ hpc = "read" /\ client # "open"
    /\ Goto("eval")
    /\ eof' = TRUE
    /\ UNCHANGED <<role, truth, length, viable, walked, armed, lane, client, torn,
                   arrived, pumped, edgeVars, statVars, exited>>

Sniff ==
    \/ EvalFramed \/ EvalClass \/ EvalGivesUp \/ EvalReads
    \/ ReadMore \/ ReadSettles \/ ReadTimesOut \/ ReadEnds

-----------------------------------------------------------------------------
(* The relay's connection to the edge, and the goroutine that watches it.  *)

DialEdge ==
    /\ hpc = "dial" /\ Goto("next")
    /\ edge' = "open"
    /\ UNCHANGED <<role, truth, sniffVars, client, torn, arrived, pumped, relayed,
                   edgeTorn, statVars, exited>>

DialEdgeFails == hpc = "dial" /\ UNCHANGED <<sniffVars, edgeTorn>> /\ Leaves(0)

WatchEdgeOnly ==
    /\ Running /\ FALSE
    /\ client' = "closed"
    /\ UNCHANGED <<role, truth, hpc, sniffVars, torn, arrived, pumped, edgeVars,
                   statVars, exited>>
WatchEdge ==
    /\ Running /\ edge = "ended" /\ client # "closed"
    /\ client' = "closed"
    /\ UNCHANGED <<role, truth, hpc, sniffVars, torn, arrived, pumped, edgeVars,
                   statVars, exited>>

-----------------------------------------------------------------------------
(* The pumps: split off an object, forward it, print it, record it.        *)

\* An object the sniffed prefix already holds, which the pump reads first.
NextBuffered ==
    /\ hpc = "next" /\ pumped < arrived
    /\ Goto(IF role = "sent" THEN "forward" ELSE "log")
    /\ pumped' = pumped + 1
    /\ UNCHANGED <<role, truth, sniffVars, client, torn, arrived, edgeVars, statVars,
                   exited>>

\* An object from the connection.
NextArrives ==
    /\ hpc = "next" /\ pumped = arrived /\ client = "open" /\ arrived < MaxObjects
    /\ Goto(IF role = "sent" THEN "forward" ELSE "log")
    /\ arrived' = arrived + 1
    /\ pumped' = pumped + 1
    /\ UNCHANGED <<role, truth, sniffVars, client, torn, edgeVars, statVars, exited>>

\* Malformed, too large, or a lost frame boundary.
NextFails == hpc = "next" /\ UNCHANGED <<sniffVars, edgeTorn>> /\ Leaves(1)

\* logStreamEnd: a stream cut inside an object is an error, but one cut just
\* behind a frame's header or before its V3 extension may pass for a clean end,
\* since io.ReadFull then has read nothing and reports a plain EOF.
EndErrors ==
    IF ~(client = "fin" /\ torn) THEN {0} ELSE IF lane = "framed" THEN {0, 1} ELSE {1}

NextEnds ==
    /\ hpc = "next" /\ client # "open" /\ pumped = arrived
    /\ UNCHANGED <<sniffVars, edgeTorn>>
    /\ \E errs \in EndErrors : Leaves(errs)

\* A bare object is one write, a frame is two: header, then payload.
ForwardHeader ==
    /\ hpc = "forward" /\ lane = "framed"
    /\ Goto("payload")
    /\ edgeTorn' = TRUE
    /\ UNCHANGED <<role, truth, sniffVars, client, torn, arrived, pumped, edge,
                   relayed, statVars, exited>>

ForwardRest ==
    /\ hpc = "payload" \/ (hpc = "forward" /\ lane # "framed")
    /\ Goto("log")
    /\ relayed' = relayed + 1
    /\ edgeTorn' = FALSE
    /\ UNCHANGED <<role, truth, sniffVars, client, torn, arrived, pumped, edge,
                   statVars, exited>>

\* Either write may fail with a part of its bytes sent.
ForwardFailsOn ==
    /\ hpc \in {"forward", "payload"} /\ edge = "ended"
    /\ Goto("log")
    /\ UNCHANGED <<role, truth, sniffVars, client, torn, arrived, pumped, edgeVars,
                   statVars, exited>>
ForwardFails ==
    /\ hpc \in {"forward", "payload"} /\ edge = "ended"
    /\ edgeTorn' \in {edgeTorn, TRUE}
    /\ UNCHANGED sniffVars
    /\ Leaves(1)

LogLine ==
    /\ hpc = "log" /\ Goto("record")
    /\ logged' = logged + 1
    /\ UNCHANGED <<role, truth, sniffVars, client, torn, arrived, pumped, edgeVars,
                   recorded, parseErrs, active, exited>>

Record ==
    /\ hpc = "record" /\ Goto("next")
    /\ recorded' = recorded + 1
    /\ UNCHANGED <<role, truth, sniffVars, client, torn, arrived, pumped, edgeVars,
                   logged, parseErrs, active, exited>>

Pump ==
    \/ NextBuffered \/ NextArrives \/ NextFails \/ NextEnds
    \/ ForwardHeader \/ ForwardRest \/ ForwardFails
    \/ LogLine \/ Record

-----------------------------------------------------------------------------
(* The peers and main.                                                     *)

ClientEnds ==
    /\ Running /\ client = "open"
    /\ client' = "fin"
    /\ torn' \in BOOLEAN
    /\ UNCHANGED <<role, truth, hpc, sniffVars, arrived, pumped, edgeVars, statVars,
                   exited>>

\* The edge closes its socket.  (One that only stops sending, and reading as
\* well, is not modelled.)
EdgeEnds ==
    /\ Running /\ edge = "open" /\ hpc # "done"
    /\ edge' = "ended"
    /\ UNCHANGED <<role, truth, hpc, sniffVars, client, torn, arrived, pumped,
                   relayed, edgeTorn, statVars, exited>>

\* printSummary reads the statistics under their mutex.
Summary == [active |-> active, objects |-> recorded]

\* A signal: main prints the summary and returns, wherever the handler is.
Exit ==
    /\ Running
    /\ exited' = TRUE
    /\ UNCHANGED <<role, truth, hpc, sniffVars, client, torn, arrived, pumped,
                   edgeVars, statVars>>

Exited == ~Running /\ UNCHANGED vars

Next ==
    \/ ConnOpen \/ Sniff \/ DialEdge \/ DialEdgeFails \/ WatchEdge \/ Pump
    \/ ClientEnds \/ EdgeEnds \/ Exit \/ Exited

\* Goroutines run, deadlines pass, a dial ends.  A peer need not send, and the
\* edge need not read: NextArrives and the writes that succeed are not fair.
Local ==
    \/ ConnOpen \/ EvalFramed \/ EvalClass \/ EvalGivesUp \/ EvalReads \/ ReadEnds
    \/ ReadSettles \/ DialEdge \/ DialEdgeFails \/ NextBuffered \/ NextEnds
    \/ ForwardFails \/ LogLine \/ Record

Spec == Init /\ [][Next]_vars /\ WF_vars(Local) /\ WF_vars(WatchEdge)

-----------------------------------------------------------------------------
(* Properties.                                                             *)

\* Only a stream that is of no class is given up as unclassifiable, whatever
\* the other classes make of its bytes, in however small pieces it arrives and
\* wherever it ends: an object beyond the sniffing bound does not count against
\* its stream (lines 417-425, 509-523).
HonestClassified ==
    (hpc = "done" /\ lane = None) => truth = "garbage"

\* The class decided on is viable and none has walked more whole objects: a
\* wrong class wins only on evidence at least as good (lines 491-541).
BestEvidence ==
    (role # "forced" /\ lane \in Classes) =>
        lane \in viable /\ \A c \in viable : walked[c] <= walked[lane]

\* "it must never escape into the steady-state pump" (lines 406-409).
DeadlineCleared == hpc \in {"dial", "next", "forward", "payload"} => ~armed

\* One line per object: when a connection has ended without an error, every
\* object that arrived was printed, those read while sniffing included (lines
\* 253, 299).
NothingLost ==
    (hpc = "done" /\ edge # "ended" /\ parseErrs = 0
        /\ (role = "sent" => edge = "open"))
            => logged = arrived

\* What is printed as SENT was written to the edge whole, in order, and a
\* partial object is the last thing the edge gets (lines 260-265, 327-335).
RelayFaithful ==
    role = "sent" =>
        /\ logged <= relayed /\ relayed <= pumped /\ pumped <= relayed + 1
        /\ edgeTorn => hpc \in {"payload", "done"}

\* Whenever main takes it, the summary agrees with the log up to the object in
\* the handler's hands, and counts the connection as open exactly from connOpen
\* to connClose (lines 136-139, 268-292, 381, 652-664).
SummaryAgrees ==
    /\ Summary.objects = IF hpc = "record" THEN logged - 1 ELSE logged
    /\ Summary.active = IF hpc \in {"accepted", "done"} THEN 0 ELSE 1

\* "drain the edge side only to notice close" (lines 234-238): once the edge
\* has ended the connection the handler ends, though its client may be idle.
EdgeEndEnds == edge = "ended" ~> (hpc = "done" \/ ~Running)
=============================================================================
