--------------------------- MODULE EventBook_proofs ---------------------------
(***************************************************************************)
(* Proofs about EventBook for any number of handlers of each kind, also    *)
(* overlapping ones, any final scores and any number of staff calls.       *)
(***************************************************************************)
EXTENDS EventBook, TLAPS

\* An event row, in the table or in a snapshot, that is ENDED has no score of
\* a running game.
FinalRow(row) == row.status = "ENDED" => row.score \in Finals \cup {Null}

\* What the database holds.
RowsOK ==
    /\ phase \in Phases
    /\ event \in EventRow /\ FinalRow(event)
    /\ market \in BookStatus /\ selection \in BookStatus
    /\ bet \in {"NONE", "PENDING", "ACCEPTED", "GRADED"}
    /\ result \in Finals \cup {Null}
    /\ bet = "GRADED" => result \in Finals
    /\ calls \in 0..MaxCalls

\* What a handler has in hand, however old: a snapshot wherever a step uses it or
\* will, and scores read from ENDED rows only.
HandlersOK ==
    /\ pc \in [Procs -> Steps]
    /\ odds \in [Procs -> OddsAnswers]
    /\ snap \in [Procs -> EventRow \cup {Null}]
    /\ seenScore \in [Procs -> Finals \cup {Null}]
    /\ seenClosed \in [Procs -> BOOLEAN]
    /\ \A p \in Procs :
          /\ snap[p] # Null => FinalRow(snap[p])
          /\ pc[p] = "event" => snap[p] # Null
          /\ pc[p] \in {"market", "selection"} => odds[p] # "none"
          /\ pc[p] # "scores" /\ odds[p] # "none" => snap[p] # Null

IInv == RowsOK /\ HandlersOK

\* The first listing of an event has no score, and nobody is at work.
LEMMA InitIInv == Init => IInv
  BY ScoresAssumption, MaxCallsAssumption
  DEF Init, IInv, RowsOK, HandlersOK, Phases, EventRow, BookStatus, Scores, Steps,
      OddsAnswers, FinalRow

\* The mapper turns what the provider returns into a row that is ENDED only with
\* the score of a completed game.
LEMMA SnapshotRow ==
    ASSUME NEW answer, NEW report \in ScoresReturned
    PROVE  /\ EventInSnapshot(answer, report) \in EventRow \cup {Null}
           /\ EventInSnapshot(answer, report) # Null =>
                 FinalRow(EventInSnapshot(answer, report))
<1> DEFINE row == [status |-> StatusOf(report),
                   score |-> IF report = Null THEN Null ELSE report.score]
<1>1. /\ StatusOf(report) \in {"SCHEDULED", "LIVE", "ENDED"}
      /\ report # Null => report.score \in Scores
      /\ report # Null /\ report.completed => report.score \in Finals \cup {Null}
    BY DEF ScoresReturned, ScoresReported, Scores, StatusOf
<1>2. StatusOf(report) = "ENDED" => report # Null /\ report.completed
    BY DEF StatusOf
<1>3. row \in EventRow
    BY <1>1 DEF EventRow, Scores
<1>4. FinalRow(row)
    BY <1>1, <1>2 DEF FinalRow
<1>5. EventInSnapshot(answer, report) \in {row, Null}
    BY DEF EventInSnapshot
<1> QED BY <1>3, <1>4, <1>5

\* A handler that forgets what it holds and is at none of the steps that use it.
LEMMA ForgetKeeps ==
    ASSUME HandlersOK, NEW p \in Procs, Forget(p),
           NEW step \in Steps \ {"event", "market", "selection"}, Goto(p, step)
    PROVE  HandlersOK'
  BY DEF HandlersOK, Forget, Goto, OddsAnswers, FinalRow

\* The end of an ingest, and of a look at the bet.
LEMMA DoneKeeps ==
    ASSUME HandlersOK, NEW p \in Procs, IngestDone(p) \/ LeaveBet(p)
    PROVE  HandlersOK'
  BY ForgetKeeps DEF IngestDone, LeaveBet, Steps

\* A handler that goes on from a snapshot to its markets, if there are any.
LEMMA MarketsKeeps ==
    ASSUME HandlersOK, NEW p \in Procs, Markets(p), pc[p] # "scores"
    PROVE  HandlersOK'
<1>1. CASE odds[p] = "full"
    BY <1>1 DEF Markets, HandlersOK, Goto, locals, Steps
<1>2. CASE odds[p] # "full"
    BY <1>2, DoneKeeps DEF Markets
<1> QED BY <1>1, <1>2

\* A handler that moves on and neither learns nor forgets anything.
LEMMA GotoKeeps ==
    ASSUME HandlersOK, NEW p \in Procs, pc[p] # "scores", UNCHANGED locals,
           NEW step \in Steps \ {"event", "market", "selection"}, Goto(p, step)
    PROVE  HandlersOK'
  BY DEF HandlersOK, Goto, locals

-----------------------------------------------------------------------------

\* Steps of an ingest: only UpsertEvent writes a score, the one in its snapshot.
LEMMA IngestStep ==
    ASSUME IInv, NEW p \in Procs,
           \/ FetchOdds(p) \/ StartResults(p)
           \/ \E report \in ScoresReturned : FetchScores(p, report)
           \/ UpsertEvent(p) \/ CloseMarkets(p) \/ CloseSelections(p)
           \/ UpsertMarket(p) \/ UpsertSelection(p)
    PROVE  IInv'
<1> USE DEF IInv
<1>1. CASE FetchOdds(p)
  <2>1. OddsReturned \subseteq OddsAnswers
      BY DEF OddsReturned, OddsAnswers
  <2>2. HandlersOK'
      BY <1>1, <2>1 DEF FetchOdds, HandlersOK, Goto, Steps
  <2> QED BY <1>1, <2>2 DEF FetchOdds, RowsOK, rows
<1>2. CASE StartResults(p)
  <2>1. HandlersOK'
      BY <1>2 DEF StartResults, HandlersOK, Goto, Steps, locals
  <2> QED BY <1>2, <2>1 DEF StartResults, RowsOK, rows
<1>3. ASSUME NEW report \in ScoresReturned, FetchScores(p, report) PROVE IInv'
  <2> DEFINE s == EventInSnapshot(odds[p], report)
  <2>1. RowsOK'
      BY <1>3 DEF FetchScores, RowsOK, rows
  <2>2. CASE s = Null
      BY <1>3, <2>1, <2>2, DoneKeeps DEF FetchScores
  <2>3. CASE s # Null
    <3>1. s \in EventRow \cup {Null} /\ FinalRow(s)
        BY <2>3, SnapshotRow
    <3>2. /\ snap' = [snap EXCEPT ![p] = s]
          /\ odds' = [odds EXCEPT ![p] = IF @ = "bare" THEN "none" ELSE @]
          /\ Goto(p, "event")
          /\ UNCHANGED <<seenScore, seenClosed>>
        BY <1>3, <2>3 DEF FetchScores
    <3> HIDE DEF s
    <3> QED BY <2>1, <2>3, <3>1, <3>2 DEF HandlersOK, Goto, Steps, OddsAnswers
  <2> QED BY <2>2, <2>3
<1>4. CASE UpsertEvent(p)
  <2>1. snap[p] \in EventRow /\ FinalRow(snap[p])
      BY <1>4 DEF UpsertEvent, HandlersOK
  <2>2. RowsOK'
      BY <1>4, <2>1 DEF UpsertEvent, RowsOK
  <2>3. HandlersOK'
      BY <1>4, MarketsKeeps, GotoKeeps DEF UpsertEvent, Steps
  <2> QED BY <2>2, <2>3
<1>5. CASE CloseMarkets(p)
  <2>1. HandlersOK'
      BY <1>5, GotoKeeps DEF CloseMarkets, Steps
  <2> QED BY <1>5, <2>1 DEF CloseMarkets, RowsOK, BookStatus
<1>6. CASE CloseSelections(p)
  <2>1. HandlersOK'
      BY <1>6, MarketsKeeps DEF CloseSelections
  <2> QED BY <1>6, <2>1 DEF CloseSelections, RowsOK, BookStatus
<1>7. CASE UpsertMarket(p)
  <2>1. HandlersOK'
      BY <1>7 DEF UpsertMarket, HandlersOK, Goto, locals, Steps
  <2> QED BY <1>7, <2>1 DEF UpsertMarket, RowsOK, BookStatus, BookStatusOf
<1>8. CASE UpsertSelection(p)
  <2>1. HandlersOK'
      BY <1>8, DoneKeeps DEF UpsertSelection
  <2> QED BY <1>8, <2>1 DEF UpsertSelection, RowsOK, BookStatus, BookStatusOf
<1> QED BY <1>1, <1>2, <1>3, <1>4, <1>5, <1>6, <1>7, <1>8

\* Steps of staff: a manual result is final, a suspension keeps the score but
\* takes the ENDED away.
LEMMA StaffStep ==
    ASSUME IInv, NEW p \in Procs,
           \/ \E score \in Finals : FinalizeEvent(p, score)
           \/ StartSettle(p)
           \/ \E step \in {"suspendEvent", "suspendMarket", "resume"} : CheckTrading(p, step)
           \/ SuspendEvent(p) \/ SuspendMarket(p) \/ ResumeMarket(p)
    PROVE  IInv'
<1> USE DEF IInv
<1>1. Calls(p) => pc[p] # "scores" /\ calls' \in 0..MaxCalls
    BY MaxCallsAssumption DEF Calls, RowsOK
<1>2. ASSUME NEW score \in Finals, FinalizeEvent(p, score) PROVE IInv'
  <2>1. HandlersOK'
      BY <1>1, <1>2, GotoKeeps DEF FinalizeEvent, Steps
  <2> QED BY <1>1, <1>2, <2>1 DEF FinalizeEvent, RowsOK, EventRow, Scores, FinalRow
<1>3. CASE StartSettle(p)
  <2>1. HandlersOK'
      BY <1>1, <1>3, GotoKeeps DEF StartSettle, Steps
  <2> QED BY <1>1, <1>3, <2>1 DEF StartSettle, RowsOK, rows
<1>4. ASSUME NEW step \in {"suspendEvent", "suspendMarket", "resume"},
             CheckTrading(p, step)
      PROVE  IInv'
  <2>1. HandlersOK'
      BY <1>1, <1>4, GotoKeeps DEF CheckTrading, Steps
  <2> QED BY <1>1, <1>4, <2>1 DEF CheckTrading, RowsOK, rows
<1>5. CASE SuspendEvent(p)
  <2>1. HandlersOK'
      BY <1>5, GotoKeeps DEF SuspendEvent, Steps
  <2> QED BY <1>5, <2>1 DEF SuspendEvent, RowsOK, EventRow, FinalRow, BookStatus
<1>6. CASE SuspendMarket(p)
  <2>1. HandlersOK'
      BY <1>6, GotoKeeps DEF SuspendMarket, Steps
  <2> QED BY <1>6, <2>1 DEF SuspendMarket, RowsOK, BookStatus
<1>7. CASE ResumeMarket(p)
  <2>1. HandlersOK'
      BY <1>7, GotoKeeps DEF ResumeMarket, Steps
  <2> QED BY <1>7, <2>1 DEF ResumeMarket, RowsOK, BookStatus
<1> QED BY <1>2, <1>3, <1>4, <1>5, <1>6, <1>7

\* Placement and settlement: a grade takes the score that was read of an ENDED
\* event.
LEMMA BetStep ==
    ASSUME IInv, NEW p \in Procs,
           \/ ValidatePlacement(p) \/ CreateBet(p)
           \/ OpenBet(p) \/ ReadEvent(p) \/ ReadMarket(p) \/ Grade(p)
    PROVE  IInv'
<1> USE DEF IInv
<1>1. CASE ValidatePlacement(p)
  <2>1. HandlersOK'
      BY <1>1, GotoKeeps DEF ValidatePlacement, Steps
  <2> QED BY <1>1, <2>1 DEF ValidatePlacement, RowsOK, rows
<1>2. CASE CreateBet(p)
  <2>1. HandlersOK'
      BY <1>2, GotoKeeps DEF CreateBet, Steps
  <2> QED BY <1>2, <2>1 DEF CreateBet, RowsOK, rows
<1>3. CASE OpenBet(p)
  <2>1. HandlersOK'
      BY <1>3, GotoKeeps DEF OpenBet, Steps
  <2> QED BY <1>3, <2>1 DEF OpenBet, RowsOK, rows
<1>4. CASE ReadEvent(p)
  <2>1. HandlersOK'
    <3>1. CASE EventDecided
        BY <1>4, <3>1 DEF ReadEvent, EventDecided, RowsOK, FinalRow, HandlersOK
    <3>2. CASE ~EventDecided
        BY <1>4, <3>2, DoneKeeps DEF ReadEvent
    <3> QED BY <3>1, <3>2
  <2> QED BY <1>4, <2>1 DEF ReadEvent, RowsOK, rows
<1>5. CASE ReadMarket(p)
  <2>1. HandlersOK'
    <3>1. CASE market = "SETTLED"
        BY <1>5, <3>1 DEF ReadMarket, HandlersOK
    <3>2. CASE market # "SETTLED"
        BY <1>5, <3>2, DoneKeeps DEF ReadMarket
    <3> QED BY <3>1, <3>2
  <2> QED BY <1>5, <2>1 DEF ReadMarket, RowsOK, rows
<1>6. CASE Grade(p)
  <2>1. HandlersOK'
      BY <1>6, DoneKeeps DEF Grade
  <2>2. seenScore[p] \in Finals
      BY <1>6 DEF Grade, HandlersOK
  <2> QED BY <1>6, <2>1, <2>2 DEF Grade, RowsOK, rows
<1> QED BY <1>1, <1>2, <1>3, <1>4, <1>5, <1>6

\* Every step keeps the invariant.
LEMMA NextIInv == IInv /\ [Next]_vars => IInv'
<1> SUFFICES ASSUME IInv, [Next]_vars PROVE IInv'
    OBVIOUS
<1>1. CASE PhaseAdvances
    BY <1>1 DEF PhaseAdvances, Phases, IInv, RowsOK, HandlersOK, rows, locals
<1>2. CASE DebitAnswered
    BY <1>2 DEF DebitAnswered, IInv, RowsOK, HandlersOK, rows, locals
<1>3. ASSUME NEW p \in Procs, HandlerDies(p) PROVE IInv'
  <2>1. HandlersOK'
      BY <1>3, ForgetKeeps DEF HandlerDies, IInv, Steps
  <2> QED BY <1>3, <2>1 DEF HandlerDies, IInv, RowsOK, rows
<1>4. CASE UNCHANGED vars
    BY <1>4 DEF vars, IInv, RowsOK, HandlersOK, rows, locals
<1> QED BY <1>1, <1>2, <1>3, <1>4, IngestStep, StaffStep, BetStep DEF Next

\* The rows and the handlers' knowledge fit together.
THEOREM Invariance == Spec => []IInv
  BY InitIInv, NextIInv, PTL DEF Spec

\* Every row and every local variable has its type.
THEOREM TypeCorrect == Spec => []TypeOK
<1>1. IInv => TypeOK
    BY DEF IInv, RowsOK, HandlersOK, TypeOK, Scores
<1> QED BY <1>1, Invariance, PTL

-----------------------------------------------------------------------------

\* The game is over, or staff have made a call, which may have been a result.
Ended == Over \/ calls > 0

\* Nothing says that the game is over: no row, no snapshot and no read, however old.
Quiet ==
    /\ event.status # "ENDED" /\ bet # "GRADED"
    /\ \A p \in Procs : /\ snap[p] # Null => snap[p].status # "ENDED"
                        /\ seenScore[p] = Null

\* The end of the game, and a call of staff, are never undone.
LEMMA EndedStays == IInv /\ Ended /\ [Next]_vars => Ended'
<1> SUFFICES ASSUME IInv, Ended, [Next]_vars PROVE Ended'
    OBVIOUS
<1>1. calls \in Nat
    BY MaxCallsAssumption DEF IInv, RowsOK
<1>2. CASE PhaseAdvances
    BY <1>1, <1>2 DEF PhaseAdvances, Ended, Over
<1>3. CASE UNCHANGED <<phase, calls>>
    BY <1>3 DEF Ended, Over
<1>4. CASE phase' = phase /\ calls' = calls + 1
    BY <1>1, <1>4 DEF Ended, Over
<1>5. ASSUME NEW p \in Procs, ~UNCHANGED <<phase, calls>>,
             \/ \E score \in Finals : FinalizeEvent(p, score)
             \/ StartSettle(p)
             \/ \E step \in {"suspendEvent", "suspendMarket", "resume"} : CheckTrading(p, step)
      PROVE  phase' = phase /\ calls' = calls + 1
    BY <1>5 DEF FinalizeEvent, StartSettle, CheckTrading, Calls
<1>6. ASSUME NEW p \in Procs,
             \/ HandlerDies(p)
             \/ FetchOdds(p) \/ StartResults(p)
             \/ \E report \in ScoresReturned : FetchScores(p, report)
             \/ UpsertEvent(p) \/ CloseMarkets(p) \/ CloseSelections(p)
             \/ UpsertMarket(p) \/ UpsertSelection(p)
             \/ SuspendEvent(p) \/ SuspendMarket(p) \/ ResumeMarket(p)
             \/ ValidatePlacement(p) \/ CreateBet(p)
             \/ OpenBet(p) \/ ReadEvent(p) \/ ReadMarket(p) \/ Grade(p)
      PROVE  UNCHANGED <<phase, calls>>
    BY <1>6 DEF HandlerDies, FetchOdds, StartResults, FetchScores, UpsertEvent, CloseMarkets,
       CloseSelections, UpsertMarket, UpsertSelection, SuspendEvent, SuspendMarket, ResumeMarket,
       ValidatePlacement, CreateBet, OpenBet, ReadEvent, ReadMarket, Grade
<1>7. CASE DebitAnswered \/ UNCHANGED vars
    BY <1>3, <1>7 DEF DebitAnswered, vars
<1> QED BY <1>2, <1>3, <1>4, <1>5, <1>6, <1>7 DEF Next

\* A handler that forgets or just moves on has no news.
LEMMA NoNews ==
    ASSUME IInv, Quiet, NEW p \in Procs,
           Markets(p) \/ IngestDone(p) \/ LeaveBet(p) \/ Forget(p) \/ UNCHANGED locals
    PROVE  \A q \in Procs : /\ snap'[q] # Null => snap'[q].status # "ENDED"
                            /\ seenScore'[q] = Null
  BY DEF IInv, HandlersOK, Quiet, Markets, IngestDone, LeaveBet, Forget, locals

\* Nobody learns of the end before there is one: what a step newly writes or reads as
\* ENDED comes from a completed report, from a manual result or from an ENDED row.
LEMMA QuietUntilEnd == IInv /\ Quiet /\ [Next]_vars => Quiet' \/ Ended \/ Ended'
<1> SUFFICES ASSUME IInv, Quiet, [Next]_vars, ~Ended PROVE Quiet' \/ Ended'
    OBVIOUS
<1>1. CASE PhaseAdvances \/ DebitAnswered \/ UNCHANGED vars
    BY <1>1 DEF PhaseAdvances, DebitAnswered, vars, rows, locals, Quiet
<1>2. ASSUME NEW p \in Procs, FetchOdds(p) \/ StartResults(p) \/ HandlerDies(p) PROVE Quiet'
    BY <1>2, NoNews DEF FetchOdds, StartResults, HandlerDies, rows, Quiet
<1>3. ASSUME NEW p \in Procs, NEW report \in ScoresReturned, FetchScores(p, report) PROVE Quiet'
  <2> DEFINE s == EventInSnapshot(odds[p], report)
  <2>1. UNCHANGED <<event, bet>>
      BY <1>3 DEF FetchScores, rows
  <2>2. CASE s = Null
      BY <1>3, <2>1, <2>2, NoNews DEF FetchScores, Quiet
  <2>3. CASE s # Null
    <3>1. report # Null => ~report.completed
        BY DEF ScoresReturned, Ended
    <3>2. s.status # "ENDED"
        BY <2>3, <3>1 DEF EventInSnapshot, StatusOf
    <3>3. snap' = [snap EXCEPT ![p] = s] /\ UNCHANGED seenScore
        BY <1>3, <2>3 DEF FetchScores
    <3> HIDE DEF s
    <3> QED BY <2>1, <3>2, <3>3 DEF Quiet, IInv, HandlersOK
  <2> QED BY <2>2, <2>3
<1>4. ASSUME NEW p \in Procs, UpsertEvent(p) PROVE Quiet'
  <2>1. event'.status # "ENDED" /\ UNCHANGED bet
      BY <1>4 DEF UpsertEvent, Quiet, IInv, HandlersOK
  <2>2. Markets(p) \/ UNCHANGED locals
      BY <1>4 DEF UpsertEvent
  <2> QED BY <2>1, <2>2, NoNews DEF Quiet
<1>5. ASSUME NEW p \in Procs,
             \/ CloseMarkets(p) \/ CloseSelections(p) \/ UpsertMarket(p) \/ UpsertSelection(p)
             \/ SuspendMarket(p) \/ ResumeMarket(p) \/ ValidatePlacement(p) \/ CreateBet(p)
             \/ OpenBet(p) \/ StartSettle(p)
             \/ \E step \in {"suspendEvent", "suspendMarket", "resume"} : CheckTrading(p, step)
      PROVE  Quiet'
    BY <1>5, NoNews DEF CloseMarkets, CloseSelections, UpsertMarket, UpsertSelection, SuspendMarket,
       ResumeMarket, ValidatePlacement, CreateBet, OpenBet, StartSettle, CheckTrading, rows, Quiet
<1>6. ASSUME NEW p \in Procs, SuspendEvent(p) PROVE Quiet'
    BY <1>6, NoNews DEF SuspendEvent, Quiet, IInv, RowsOK, EventRow
<1>7. ASSUME NEW p \in Procs, NEW score \in Finals, FinalizeEvent(p, score) PROVE Ended'
    BY <1>7, MaxCallsAssumption DEF FinalizeEvent, Calls, Ended, IInv, RowsOK
<1>8. ASSUME NEW p \in Procs, ReadEvent(p) \/ ReadMarket(p) PROVE Quiet'
  <2>1. LeaveBet(p) \/ UNCHANGED <<snap, seenScore>>
      BY <1>8 DEF ReadEvent, ReadMarket, EventDecided, Quiet
  <2>2. UNCHANGED <<event, bet>>
      BY <1>8 DEF ReadEvent, ReadMarket, rows
  <2> QED BY <2>1, <2>2, NoNews DEF Quiet
<1>9. ASSUME NEW p \in Procs, Grade(p) PROVE FALSE
    BY <1>9 DEF Grade, Quiet
<1> QED BY <1>1, <1>2, <1>3, <1>4, <1>5, <1>6, <1>7, <1>8, <1>9 DEF Next

\* No bet is graded on a score of a running game, nor before the game is over unless
\* staff have stepped in, however ingestion, staff and settlement overlap.
THEOREM GradesAreFinal == Spec => []GradedOnFinalScore
<1>1. Init => Ended \/ Quiet
    BY DEF Init, Quiet
<1>2. IInv /\ (Ended \/ Quiet) /\ [Next]_vars => (Ended \/ Quiet)'
    BY EndedStays, QuietUntilEnd
<1>3. IInv /\ (Ended \/ Quiet) => GradedOnFinalScore
    BY DEF IInv, RowsOK, Quiet, Ended, GradedOnFinalScore
<1> QED BY <1>1, <1>2, <1>3, Invariance, PTL DEF Spec

=============================================================================
