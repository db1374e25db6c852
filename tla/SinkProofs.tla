----------------------------- MODULE SinkProofs -----------------------------
(***************************************************************************)
(* Theorems about Sink, for every number of objects: how a lane is decided *)
(* on, and what the log, the statistics and the edge say of the objects.   *)
(***************************************************************************)
EXTENDS Sink, FiniteSetTheorems, TLAPS

Sniffing == {"accepted", "eval", "read"}
Handling == {"dial", "next", "forward", "payload", "log", "record"}

\* The variables keep their types.
SinkTypeOK ==
    /\ role \in {"recv", "sent", "forced"}
    /\ truth \in Classes \cup {"framed", "garbage"}
    /\ hpc \in Sniffing \cup Handling \cup {"done"}
    /\ length \in 0 .. Cap /\ viable \in SUBSET Classes /\ walked \in [Classes -> Nat]
    /\ eof \in BOOLEAN /\ armed \in BOOLEAN
    /\ lane \in Classes \cup {"framed", None}
    /\ edge \in {"none", "open", "ended"}
    /\ arrived \in Nat /\ pumped \in Nat /\ relayed \in Nat
    /\ logged \in Nat /\ recorded \in Nat /\ parseErrs \in Nat

\* What sniffing keeps true: a lane is decided on once, by a handler that then
\* leaves the sniffer; the class the stream has is never ruled out; and below
\* four bytes nothing is.
SniffInv ==
    /\ role # "forced" /\ hpc \in Sniffing => lane = None
    /\ role = "forced" => lane \in Classes /\ hpc \notin {"eval", "read"}
    /\ hpc \in Handling => lane # None
    /\ truth \in Classes => truth \in viable
    /\ length = 0 => viable = Classes
    /\ armed => hpc \in {"eval", "read"}
    /\ HonestClassified
    /\ BestEvidence

\* What the pump keeps true: where an object is between the edge, the log and
\* the statistics follows from where the handler is.
PumpInv ==
    /\ hpc \in Sniffing \cup {"dial"} => edge = "none"
    /\ role # "sent" => hpc \notin {"dial", "forward", "payload"}
    /\ role # "sent" => pumped = IF hpc = "log" THEN logged + 1 ELSE logged
    /\ role = "sent" =>
          /\ relayed = IF hpc = "log" THEN logged + 1 ELSE logged
          /\ hpc # "done" => pumped = IF hpc \in {"forward", "payload"} THEN relayed + 1 ELSE relayed
    /\ (hpc = "done" /\ parseErrs = 0 /\ (role = "sent" => edge # "none")) => logged = arrived
    /\ RelayFaithful
    /\ SummaryAgrees

-----------------------------------------------------------------------------
(* The decision.                                                           *)

\* "No decision" is not a class.
LEMMA NoneIsNoClass == None \notin Classes
  BY DEF None, Classes

\* Among some classes one has walked the most objects, the earliest of
\* sniffOrder if there are several: bestCandidate returns a class.
LEMMA BestExists ==
  ASSUME SinkTypeOK, viable # {}
  PROVE  \E c \in viable : \A d \in viable :
            walked[c] > walked[d] \/ (walked[c] = walked[d] /\ Order[c] <= Order[d])
  <1> DEFINE Better(c, d) == walked[c] > walked[d] \/ (walked[c] = walked[d] /\ Order[c] <= Order[d])
  <1>1. \A c \in Classes : walked[c] \in Nat /\ Order[c] \in Nat
    BY DEF SinkTypeOK, Classes, Order
  <1>2. viable \subseteq Classes
    BY DEF SinkTypeOK
  <1>3. \A c, d \in Classes : Better(c, d) \/ Better(d, c)
    BY <1>1
  <1>4. \A c, d, e \in Classes : Better(c, d) /\ Better(d, e) => Better(c, e)
    BY <1>1
  <1>5. \A c \in Classes : Better(c, c)
    BY <1>1
  <1> HIDE DEF Better
  <1>6. \E c \in viable : \A d \in viable : Better(c, d)
    <2>1. CASE "tx" \in viable /\ "subtree" \in viable /\ "block" \in viable
      BY <1>2, <1>3, <1>4, <1>5, <2>1 DEF Classes
    <2>2. CASE "tx" \notin viable
      BY <1>2, <1>3, <1>5, <2>2 DEF Classes
    <2>3. CASE "subtree" \notin viable
      BY <1>2, <1>3, <1>5, <2>3 DEF Classes
    <2>4. CASE "block" \notin viable
      BY <1>2, <1>3, <1>5, <2>4 DEF Classes
    <2> QED BY <2>1, <2>2, <2>3, <2>4
  <1> QED BY <1>6 DEF Better

\* A class that wins: viable, and none has walked more.
Winner(c) == c \in viable /\ \A d \in viable : walked[d] <= walked[c]

\* bestCandidate returns a winner or nothing.
LEMMA BestWins ==
  ASSUME SinkTypeOK, NEW requireComplete \in BOOLEAN, BestCandidate(requireComplete) # None
  PROVE  Winner(BestCandidate(requireComplete))
  <1>1. viable # {} /\ \A c \in viable : walked[c] \in Nat
    BY DEF BestCandidate, SinkTypeOK
  <1>2. BestCandidate(requireComplete) =
          CHOOSE c \in viable : \A d \in viable :
            walked[c] > walked[d] \/ (walked[c] = walked[d] /\ Order[c] <= Order[d])
    BY DEF BestCandidate
  <1>3. /\ BestCandidate(requireComplete) \in viable
        /\ \A d \in viable :
             \/ walked[BestCandidate(requireComplete)] > walked[d]
             \/ walked[BestCandidate(requireComplete)] = walked[d]
    BY <1>2, BestExists
  <1> QED BY <1>1, <1>3 DEF Winner

\* Any set of classes with one member is decided by it.
LEMMA OnlyOne ==
  ASSUME NEW S \in SUBSET Classes, Cardinality(S) = 1
  PROVE  S = {TheOnly(S)}
  <1>1. IsFiniteSet(Classes)
    <2>1. IsFiniteSet({}) /\ IsFiniteSet({"tx"}) /\ Classes = ({"tx"} \cup {"subtree"}) \cup {"block"}
      BY FS_EmptySet, FS_Singleton DEF Classes
    <2>2. IsFiniteSet({"tx"} \cup {"subtree"})
      BY <2>1, FS_AddElement
    <2> QED BY <2>1, <2>2, FS_AddElement
  <1>2. \E x : S = {x}
    BY <1>1, FS_Subset, FS_Singleton
  <1> QED BY <1>2 DEF TheOnly

\* classifyBuffer returns a winner or nothing.
LEMMA ClassifyWins ==
  ASSUME SinkTypeOK, ClassifyBuffer # None
  PROVE  Winner(ClassifyBuffer)
  <1>1. viable \in SUBSET Classes /\ Completed \in SUBSET viable /\ \A c \in Classes : walked[c] \in Nat
    BY DEF SinkTypeOK, Completed
  <1>2. CASE Cardinality(viable) = 1
    <2>1. ClassifyBuffer = TheOnly(viable) /\ viable = {TheOnly(viable)}
      BY <1>1, <1>2, OnlyOne DEF ClassifyBuffer
    <2> QED BY <1>1, <2>1 DEF Winner
  <1>3. CASE Cardinality(viable) # 1 /\ Cardinality(Completed) = 1
    <2>1. ClassifyBuffer = TheOnly(Completed)
      BY <1>3 DEF ClassifyBuffer
    <2>2. Completed = {TheOnly(Completed)}
      BY <1>1, <1>3, OnlyOne
    <2>3. \A d \in viable : walked[d] < 1 \/ d = ClassifyBuffer
      BY <1>1, <2>1, <2>2 DEF Completed
    <2>4. ClassifyBuffer \in viable /\ walked[ClassifyBuffer] >= 1
      BY <2>1, <2>2 DEF Completed
    <2> QED BY <1>1, <2>3, <2>4 DEF Winner
  <1>4. CASE Cardinality(viable) # 1 /\ Cardinality(Completed) # 1
    <2>1. ClassifyBuffer = BestCandidate(FALSE)
      BY <1>4 DEF ClassifyBuffer
    <2> QED BY <2>1, BestWins
  <1> QED BY <1>2, <1>3, <1>4

\* At the end of the stream, or of the buffer, classifyBuffer decides on
\* something as long as a class is viable.
LEMMA ClassifyDecides ==
  ASSUME SinkTypeOK, viable # {}, eof \/ length = Cap
  PROVE  ClassifyBuffer # None
  <1>1. /\ (eof \/ length >= Window) /\ (eof \/ length >= DecideAt)
        /\ viable \in SUBSET Classes /\ Completed \in SUBSET Classes
    BY DEF SinkTypeOK, Window, DecideAt, Cap, Completed
  <1>2. CASE Cardinality(viable) = 1
    BY <1>1, <1>2, OnlyOne, NoneIsNoClass DEF ClassifyBuffer
  <1>3. CASE Cardinality(viable) # 1 /\ Cardinality(Completed) = 1
    BY <1>1, <1>3, OnlyOne, NoneIsNoClass DEF ClassifyBuffer
  <1>4. CASE Cardinality(viable) # 1 /\ Cardinality(Completed) # 1
    <2>1. ClassifyBuffer = BestCandidate(FALSE)
      BY <1>1, <1>4 DEF ClassifyBuffer
    <2>2. BestCandidate(FALSE) \in viable
      BY BestExists DEF BestCandidate
    <2> QED BY <1>1, <2>1, <2>2, NoneIsNoClass
  <1> QED BY <1>2, <1>3, <1>4

-----------------------------------------------------------------------------
(* Types.                                                                  *)

\* A connection is accepted.
LEMMA TypesStart ==
  ASSUME Init
  PROVE  SinkTypeOK
  <1>1. eof \in BOOLEAN /\ armed \in BOOLEAN
    BY Zenon DEF Init
  <1> QED BY <1>1 DEF Init, SinkTypeOK, Sniffing, Handling, Cap

\* Deciding on a lane, which the steps that classify have in common.
LEMMA ClassifiedTypes ==
  ASSUME SinkTypeOK, NEW c \in Classes \cup {"framed"}, Classified(c)
  PROVE  SinkTypeOK'
  <1>1. armed' \in BOOLEAN
    BY Zenon DEF Classified
  <1>2. arrived' \in Nat
    BY SinkAssumption DEF Classified, InPrefix, SinkTypeOK
  <1>3. hpc' \in {"dial", "next"}
    BY DEF Classified, Goto
  <1> QED BY <1>1, <1>2, <1>3
          DEF Classified, SinkTypeOK, edgeVars, statVars, Sniffing, Handling

\* A handler that returns.
LEMMA LeavesTypes ==
  ASSUME SinkTypeOK, NEW errs \in {0, 1}, Leaves(errs), armed' \in BOOLEAN,
         UNCHANGED <<length, viable, walked, eof, lane>>
  PROVE  SinkTypeOK'
  BY DEF Leaves, Goto, SinkTypeOK, edgeVars, Sniffing, Handling

\* What classifyBuffer and bestCandidate return is a class or nothing.
LEMMA DecisionTypes ==
  ASSUME SinkTypeOK
  PROVE  /\ ClassifyBuffer # None => ClassifyBuffer \in Classes
         /\ BestCandidate(TRUE) # None => BestCandidate(TRUE) \in Classes
  BY ClassifyWins, BestWins DEF Winner, SinkTypeOK

\* Every step keeps the types.
LEMMA TypesKeep ==
  ASSUME SinkTypeOK, [Next]_vars
  PROVE  SinkTypeOK'
  <1> USE DEF Sniffing, Handling, Goto
  <1>1. CASE ConnOpen
    BY <1>1 DEF ConnOpen, SinkTypeOK, sniffVars, edgeVars
  <1>2. CASE EvalFramed
    BY <1>2, ClassifiedTypes DEF EvalFramed
  <1>3. CASE EvalClass
    BY <1>3, ClassifiedTypes, DecisionTypes DEF EvalClass
  <1>4. CASE EvalGivesUp
    <2>1. armed' \in BOOLEAN
      BY <1>4, Zenon DEF EvalGivesUp
    <2> QED BY <1>4, <2>1, LeavesTypes DEF EvalGivesUp
  <1>5. CASE EvalReads
    <2>1. armed' \in BOOLEAN
      BY <1>5, Zenon DEF EvalReads
    <2> QED BY <1>5, <2>1 DEF EvalReads, SinkTypeOK, edgeVars, statVars
  <1>6. CASE ReadMore
    <2>1. /\ length' \in 0 .. Cap /\ viable' \in SUBSET Classes /\ walked' \in [Classes -> Nat]
      BY <1>6, SinkAssumption DEF ReadMore, SinkTypeOK, Cap
    <2> QED BY <1>6, <2>1 DEF ReadMore, SinkTypeOK, edgeVars, statVars
  <1>7. CASE ReadSettles
    BY <1>7, ClassifiedTypes, DecisionTypes DEF ReadSettles
  <1>8. CASE ReadTimesOut
    BY <1>8 DEF ReadTimesOut, SinkTypeOK, sniffVars, edgeVars, statVars
  <1>9. CASE ReadEnds
    <2>1. eof' \in BOOLEAN
      BY <1>9, Zenon DEF ReadEnds
    <2> QED BY <1>9, <2>1 DEF ReadEnds, SinkTypeOK, edgeVars, statVars
  <1>10. CASE DialEdge
    BY <1>10 DEF DialEdge, SinkTypeOK, sniffVars, statVars
  <1>11. CASE DialEdgeFails \/ NextFails \/ ForwardFails \/ NextEnds
    <2>1. PICK errs \in {0, 1} : Leaves(errs) /\ UNCHANGED sniffVars
      BY <1>11 DEF DialEdgeFails, NextFails, ForwardFails, NextEnds, EndErrors
    <2>2. armed' \in BOOLEAN
      BY <2>1 DEF SinkTypeOK, sniffVars
    <2> QED BY <2>1, <2>2, LeavesTypes DEF sniffVars
  <1>12. CASE WatchEdge \/ ClientEnds \/ Exit
    BY <1>12 DEF WatchEdge, ClientEnds, Exit, SinkTypeOK, sniffVars, edgeVars, statVars
  <1>13. CASE NextBuffered \/ NextArrives
    BY <1>13 DEF NextBuffered, NextArrives, SinkTypeOK, sniffVars, edgeVars, statVars
  <1>14. CASE ForwardHeader \/ ForwardRest
    BY <1>14 DEF ForwardHeader, ForwardRest, SinkTypeOK, sniffVars, statVars
  <1>15. CASE LogLine \/ Record
    BY <1>15 DEF LogLine, Record, SinkTypeOK, sniffVars, edgeVars
  <1>16. CASE EdgeEnds
    BY <1>16 DEF EdgeEnds, SinkTypeOK, sniffVars, statVars
  <1>17. CASE UNCHANGED vars
    BY <1>17 DEF vars, SinkTypeOK, sniffVars, edgeVars, statVars
  <1> QED BY <1>1, <1>2, <1>3, <1>4, <1>5, <1>6, <1>7, <1>8, <1>9, <1>10, <1>11, <1>12, <1>13,
             <1>14, <1>15, <1>16, <1>17 DEF Next, Sniff, Pump, Exited

-----------------------------------------------------------------------------
(* Sniffing.                                                               *)

\* A lane that wins is recorded, and the handler leaves the sniffer with the
\* deadline cleared.
LEMMA ClassifiedSniff ==
  ASSUME SinkTypeOK, SniffInv, hpc \in {"eval", "read"},
         NEW c, Winner(c) \/ c = "framed", Classified(c)
  PROVE  SniffInv'
  <1>1. /\ lane' = c /\ ~armed' /\ hpc' \in {"dial", "next"} /\ role # "forced"
        /\ UNCHANGED <<role, truth, length, viable, walked>>
    BY DEF Classified, Goto, SniffInv
  <1>2. c # None /\ (c \in Classes => Winner(c))
    BY DEF Winner, SinkTypeOK, Classes, None
  <1> QED BY <1>1, <1>2 DEF SniffInv, HonestClassified, BestEvidence, Winner, Sniffing, Handling

\* The steps that neither decide nor look at the bytes: what sniffing found
\* stays, and the handler does not come back to it.
LEMMA SettledSniff ==
  ASSUME SinkTypeOK, SniffInv, UNCHANGED <<role, truth, length, viable, walked, lane, armed>>,
         \/ hpc' = hpc
         \/ hpc = "accepted" /\ hpc' = IF role = "forced" THEN "next" ELSE "eval"
         \/ hpc \in Handling /\ hpc' \in Handling \cup {"done"}
  PROVE  SniffInv'
  BY DEF SinkTypeOK, SniffInv, HonestClassified, BestEvidence, Sniffing, Handling, Classes, None

\* Every step keeps what sniffing keeps true.
LEMMA SniffKeep ==
  ASSUME SinkTypeOK, SniffInv, [Next]_vars
  PROVE  SniffInv'
  <1> USE DEF Goto
  <1>1. CASE EvalFramed
    BY <1>1, ClassifiedSniff DEF EvalFramed
  <1>2. CASE EvalClass
    BY <1>2, ClassifiedSniff, ClassifyWins DEF EvalClass
  <1>3. CASE ReadSettles
    BY <1>3, ClassifiedSniff, BestWins DEF ReadSettles
  <1>4. CASE EvalGivesUp
    <2>1. (eof \/ length = Cap) /\ ~Magic /\ ClassifyBuffer = None
      BY <1>4 DEF EvalGivesUp
    <2>2. viable = {}
      BY <2>1, ClassifyDecides
    <2>3. truth = "garbage"
      BY <2>1, <2>2 DEF SniffInv, SinkTypeOK, Magic, Classes, Cap
    <2> QED BY <1>4, <2>3 DEF EvalGivesUp, Leaves, SniffInv, HonestClassified, BestEvidence,
                              Sniffing, Handling, Classes, None
  <1>5. CASE EvalReads
    BY <1>5 DEF EvalReads, SniffInv, HonestClassified, BestEvidence, Sniffing, Handling, Classes, None
  <1>6. CASE ReadMore
    <2>1. lane = None /\ role # "forced"
      BY <1>6 DEF ReadMore, SniffInv, Sniffing
    <2>2. (truth \in Classes => truth \in viable') /\ (length' = 0 => viable' = Classes)
      BY <1>6 DEF ReadMore, Evidence
    <2> QED BY <1>6, <2>1, <2>2 DEF ReadMore, SniffInv, HonestClassified, BestEvidence, Sniffing,
                                    Handling, Classes, None
  <1>7. CASE ReadTimesOut \/ ReadEnds
    BY <1>7 DEF ReadTimesOut, ReadEnds, sniffVars, SniffInv, HonestClassified, BestEvidence,
                Sniffing, Handling, Classes, None
  <1>8. CASE ConnOpen
    BY <1>8, SettledSniff DEF ConnOpen, sniffVars
  <1>9. CASE DialEdge \/ DialEdgeFails
    BY <1>9, SettledSniff DEF DialEdge, DialEdgeFails, Leaves, sniffVars, Handling
  <1>10. CASE Pump
    BY <1>10, SettledSniff DEF Pump, NextBuffered, NextArrives, NextFails, NextEnds, ForwardHeader,
               ForwardRest, ForwardFails, LogLine, Record, Leaves, sniffVars, Handling
  <1>11. CASE WatchEdge \/ ClientEnds \/ EdgeEnds \/ Exit \/ UNCHANGED vars
    BY <1>11, SettledSniff DEF WatchEdge, ClientEnds, EdgeEnds, Exit, vars, sniffVars
  <1> QED BY <1>1, <1>2, <1>3, <1>4, <1>5, <1>6, <1>7, <1>8, <1>9, <1>10, <1>11
          DEF Next, Sniff, Exited

-----------------------------------------------------------------------------
(* The pump.                                                               *)

\* Steps within the sniffer, and those that move no object, leave the books
\* alone.
LEMMA QuietPump ==
  ASSUME SinkTypeOK, PumpInv,
         UNCHANGED <<role, pumped, relayed, edgeTorn, logged, recorded, parseErrs, active>>,
         \/ hpc' = hpc /\ arrived' = arrived /\ (edge' = edge \/ (edge = "open" /\ hpc # "done"))
         \/ hpc \in {"eval", "read"} /\ edge' = edge
            /\ hpc' \in {"eval", "read", IF role = "sent" THEN "dial" ELSE "next"}
         \/ hpc = "dial" /\ hpc' = "next" /\ arrived' = arrived
  PROVE  PumpInv'
  BY DEF SinkTypeOK, PumpInv, RelayFaithful, SummaryAgrees, Summary, Sniffing, Handling

\* The handler returns: an error is counted, the edge was never reached, or
\* there was nothing left to pump.
LEMMA LeavesPump ==
  ASSUME SinkTypeOK, PumpInv, NEW errs \in {0, 1}, Leaves(errs),
         hpc \in {"eval", "dial", "next", "forward", "payload"},
         errs = 1 \/ hpc = "dial" \/ (hpc = "next" /\ pumped = arrived)
  PROVE  PumpInv'
  <1>1. /\ hpc' = "done" /\ parseErrs' = parseErrs + errs /\ active' = active - 1
        /\ UNCHANGED <<role, arrived, pumped, edge, relayed, logged, recorded>>
    BY DEF Leaves, Goto
  <1> QED BY <1>1 DEF SinkTypeOK, PumpInv, RelayFaithful, SummaryAgrees, Summary, Sniffing, Handling

\* Every step keeps the books.
LEMMA PumpKeep ==
  ASSUME SinkTypeOK, PumpInv, [Next]_vars
  PROVE  PumpInv'
  <1> USE DEF Goto
  <1>1. CASE ConnOpen
    BY <1>1 DEF ConnOpen, edgeVars, SinkTypeOK, PumpInv, RelayFaithful, SummaryAgrees, Summary,
                Sniffing, Handling
  <1>2. CASE EvalFramed \/ EvalClass \/ ReadSettles
    BY <1>2, QuietPump DEF EvalFramed, EvalClass, ReadSettles, Classified, edgeVars, statVars
  <1>3. CASE EvalReads \/ ReadMore \/ ReadTimesOut \/ ReadEnds
    BY <1>3, QuietPump DEF EvalReads, ReadMore, ReadTimesOut, ReadEnds, edgeVars, statVars
  <1>4. CASE EvalGivesUp \/ DialEdgeFails \/ NextFails \/ ForwardFails \/ NextEnds
    BY <1>4, LeavesPump DEF EvalGivesUp, DialEdgeFails, NextFails, ForwardFails, NextEnds, EndErrors
  <1>5. CASE DialEdge
    BY <1>5, QuietPump DEF DialEdge, statVars
  <1>6. CASE NextBuffered \/ NextArrives
    BY <1>6 DEF NextBuffered, NextArrives, edgeVars, statVars, SinkTypeOK, PumpInv, RelayFaithful,
                SummaryAgrees, Summary, Sniffing, Handling
  <1>7. CASE ForwardHeader \/ ForwardRest
    BY <1>7 DEF ForwardHeader, ForwardRest, statVars, SinkTypeOK, PumpInv, RelayFaithful,
                SummaryAgrees, Summary, Sniffing, Handling
  <1>8. CASE LogLine
    BY <1>8 DEF LogLine, edgeVars, SinkTypeOK, PumpInv, RelayFaithful, SummaryAgrees, Summary,
                Sniffing, Handling
  <1>9. CASE Record
    BY <1>9 DEF Record, edgeVars, SinkTypeOK, PumpInv, RelayFaithful, SummaryAgrees, Summary,
                Sniffing, Handling
  <1>10. CASE WatchEdge \/ ClientEnds \/ EdgeEnds \/ Exit \/ UNCHANGED vars
    BY <1>10, QuietPump DEF WatchEdge, ClientEnds, EdgeEnds, Exit, vars, edgeVars, statVars
  <1> QED BY <1>1, <1>2, <1>3, <1>4, <1>5, <1>6, <1>7, <1>8, <1>9, <1>10
          DEF Next, Sniff, Pump, Exited

-----------------------------------------------------------------------------
(* The results.                                                            *)

\* Every connection keeps all three parts of the invariant.
LEMMA SinkInvariant == Spec => [](SinkTypeOK /\ SniffInv /\ PumpInv)
  <1>1. Init => SniffInv
    <2> SUFFICES ASSUME Init PROVE SniffInv
      OBVIOUS
    <2>1. /\ hpc = "accepted" /\ ~armed /\ viable = Classes
          /\ role # "forced" => lane = None
          /\ role = "forced" => lane \in Classes
      BY DEF Init
    <2>2. BestEvidence /\ HonestClassified
      BY <2>1 DEF BestEvidence, HonestClassified, None, Classes
    <2> QED BY <2>1, <2>2 DEF SniffInv, Sniffing, Handling
  <1>2. Init => PumpInv
    BY DEF Init, PumpInv, RelayFaithful, SummaryAgrees, Summary, Sniffing
  <1>3. SinkTypeOK /\ SniffInv /\ PumpInv /\ [Next]_vars => (SinkTypeOK /\ SniffInv /\ PumpInv)'
    BY TypesKeep, SniffKeep, PumpKeep
  <1> QED BY <1>1, <1>2, <1>3, TypesStart, PTL DEF Spec

\* A stream is given up as unclassifiable only if it is of no class.
THEOREM HonestStreamsClassified == Spec => []HonestClassified
  <1>1. SniffInv => HonestClassified
    BY DEF SniffInv
  <1> QED BY <1>1, SinkInvariant, PTL

\* The lane decided on has the best evidence there was.
THEOREM LaneHasBestEvidence == Spec => []BestEvidence
  <1>1. SniffInv => BestEvidence
    BY DEF SniffInv
  <1> QED BY <1>1, SinkInvariant, PTL

\* The sniffer's read deadline never reaches the pump.
THEOREM DeadlineNeverEscapes == Spec => []DeadlineCleared
  <1>1. SniffInv => DeadlineCleared
    BY DEF SniffInv, DeadlineCleared
  <1> QED BY <1>1, SinkInvariant, PTL

\* A connection that ends without an error has every object in the log.
THEOREM EveryObjectLogged == Spec => []NothingLost
  <1>1. PumpInv => NothingLost
    BY DEF PumpInv, NothingLost
  <1> QED BY <1>1, SinkInvariant, PTL

\* What is logged as sent reached the edge whole, and a partial object is the
\* last thing the edge gets.
THEOREM RelayIsFaithful == Spec => []RelayFaithful
  <1>1. PumpInv => RelayFaithful
    BY DEF PumpInv
  <1> QED BY <1>1, SinkInvariant, PTL

\* The summary agrees with the log and counts each connection once.
THEOREM SummaryIsRight == Spec => []SummaryAgrees
  <1>1. PumpInv => SummaryAgrees
    BY DEF PumpInv
  <1> QED BY <1>1, SinkInvariant, PTL

\* The lane is decided on once: no step changes it afterwards, so that every
\* object of a connection is split and counted under the same class.
THEOREM LaneDecidedOnce == Spec => [][lane = None]_lane
  <1>1. SinkTypeOK /\ SniffInv /\ [Next]_vars => [lane = None]_lane
    <2> SUFFICES ASSUME SinkTypeOK, SniffInv, [Next]_vars, lane' # lane PROVE lane = None
      OBVIOUS
    <2>1. EvalFramed \/ EvalClass \/ ReadSettles
      BY DEF Next, ConnOpen, Sniff, EvalGivesUp, EvalReads, ReadMore, ReadTimesOut, ReadEnds,
             DialEdge, DialEdgeFails, WatchEdge, Pump, NextBuffered, NextArrives, NextFails,
             NextEnds, ForwardHeader, ForwardRest, ForwardFails, LogLine, Record, ClientEnds,
             EdgeEnds, Exit, Exited, vars, sniffVars
    <2>2. hpc \in {"eval", "read"}
      BY <2>1 DEF EvalFramed, EvalClass, ReadSettles
    <2> QED BY <2>2 DEF SniffInv, Sniffing
  <1> QED BY <1>1, SinkInvariant, PTL DEF Spec
=============================================================================
