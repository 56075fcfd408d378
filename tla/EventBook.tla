------------------------------ MODULE EventBook ------------------------------
(***************************************************************************)
(* One event, one of its markets and a bet on one selection of it, under   *)
(* everything that writes their rows: catalog and live ingestion, results  *)
(* ingestion with settlement, staff suspending, resuming and entering a    *)
(* result, and placement.  They share the rows without locks; every query  *)
(* or transaction is a step.                                               *)
(*                                                                         *)
(* Scores are tokens: InPlay, or a member of Finals, of which there may be *)
(* several because final scores get corrected.  The odds provider writes   *)
(* no CANCELLED event and no VOID market.                                  *)
(***************************************************************************)
EXTENDS Integers

CONSTANTS
    CatalogProcs, \* handlers that run catalog ingests and live ticks
    ResultsProcs, \* handlers that run results ticks, or settlement alone
    UserProcs,    \* handlers of staff and player requests
    Finals,       \* possible final scores
    InPlay,       \* a score of a game that is not over
    Null,
    MaxCalls      \* bound on the calls that staff make

ASSUME ScoresAssumption == InPlay \notin Finals /\ Null \notin Finals \cup {InPlay}
ASSUME MaxCallsAssumption == MaxCalls \in Nat

Procs == CatalogProcs \cup ResultsProcs \cup UserProcs

VARIABLES
    phase,      \* what the provider knows of the game
    event,      \* Event row: status and score
    market,     \* Market.status
    selection,  \* Selection.status
    bet,        \* Bet.status of a bet with one leg, GRADED for WON and LOST;
                \* after a rejection another bet takes its place
    result,     \* the score that it was graded on
    calls,      \* calls made by staff
    pc,         \* per handler: its next step
    odds,       \* per handler: what /odds returned for the event
    snap,       \* per handler: the event in the snapshot
    seenScore,  \* per handler: the score that gradeBet read of an ended event
    seenClosed  \* per handler: has gradeBet read a settled market?

rows == <<event, market, selection>>
locals == <<odds, snap, seenScore, seenClosed>>
vars == <<phase, rows, bet, result, calls, pc, locals>>

Phases == {"upcoming", "inplay", "finished", "delisted"}
Scores == Finals \cup {InPlay, Null}
EventRow == [status : {"SCHEDULED", "LIVE", "SUSPENDED", "ENDED"}, score : Scores]
BookStatus == {"OPEN", "SUSPENDED", "SETTLED"}
Steps == {"idle", "scores", "event", "close", "closeSelections", "market", "selection",
          "settle", "read", "suspendEvent", "suspendMarket", "resume", "place"}

\* none: not returned or the call failed; bare: without a usable bookmaker,
\* which counts as none once the snapshot is built; full: with the market.  (One
\* that comes with other points leaves this selection as it is, which is what a
\* handler that dies between the market and the selection does.)
OddsAnswers == {"none", "bare", "full"}

TypeOK ==
    /\ phase \in Phases
    /\ event \in EventRow
    /\ market \in BookStatus /\ selection \in BookStatus
    /\ bet \in {"NONE", "PENDING", "ACCEPTED", "GRADED"}
    /\ result \in Scores
    /\ calls \in 0..MaxCalls
    /\ pc \in [Procs -> Steps]
    /\ odds \in [Procs -> OddsAnswers]
    /\ snap \in [Procs -> EventRow \cup {Null}]
    /\ seenScore \in [Procs -> Scores]
    /\ seenClosed \in [Procs -> BOOLEAN]

\* The first catalog ingest has listed the event.
Init ==
    /\ phase = "upcoming"
    /\ event = [status |-> "SCHEDULED", score |-> Null]
    /\ market = "OPEN" /\ selection = "OPEN"
    /\ bet = "NONE" /\ result = Null
    /\ calls = 0
    /\ pc = [p \in Procs |-> "idle"]
    /\ odds = [p \in Procs |-> "none"]
    /\ snap = [p \in Procs |-> Null]
    /\ seenScore = [p \in Procs |-> Null]
    /\ seenClosed = [p \in Procs |-> FALSE]

Goto(p, step) == pc' = [pc EXCEPT ![p] = step]

Forget(p) ==
    /\ odds' = [odds EXCEPT ![p] = "none"]
    /\ snap' = [snap EXCEPT ![p] = Null]
    /\ seenScore' = [seenScore EXCEPT ![p] = Null]
    /\ seenClosed' = [seenClosed EXCEPT ![p] = FALSE]

\* An ingest is over: results ticks and manual results go on to settle.
IngestDone(p) ==
    /\ Goto(p, IF p \in CatalogProcs THEN "idle" ELSE "settle")
    /\ Forget(p)

\* A crash, an exception or a failed query: what was written stays.
HandlerDies(p) ==
    /\ pc[p] # "idle"
    /\ Goto(p, "idle")
    /\ Forget(p)
    /\ UNCHANGED <<phase, rows, bet, result, calls>>

-----------------------------------------------------------------------------
(* The provider                                                            *)

Started == phase # "upcoming"

PhaseAdvances ==
    /\ phase' = CASE phase = "upcoming" -> "inplay"
                  [] phase = "inplay"   -> "finished"
                  [] OTHER              -> "delisted"
    /\ phase # "delisted"
    /\ UNCHANGED <<rows, bet, result, calls, pc, locals>>

\* A finished game may stay in /odds for a while.
OddsReturned == IF phase = "delisted" THEN {"none"} ELSE OddsAnswers

Over == phase \in {"finished", "delisted"}

\* What /scores may say of the event, Null when it fails or leaves it out.  A
\* completed report may come before its score.
ScoresReported ==
    {s \in Scores : /\ s \in Finals <=> Over /\ s # Null
                    /\ s = InPlay => phase = "inplay"
                    /\ s = Null => phase # "delisted"}
ScoresReturned == {Null} \cup [completed : {Over}, score : ScoresReported]

\* Without a report a game that has kicked off counts as LIVE, with no score.
StatusOf(report) ==
    IF report # Null /\ report.completed THEN "ENDED"
    ELSE IF Started THEN "LIVE" ELSE "SCHEDULED"

\* The event in the snapshot: absent when neither call has returned it.
EventInSnapshot(answer, report) ==
    IF answer = "none" /\ report = Null THEN Null
    ELSE [status |-> StatusOf(report),
          score |-> IF report = Null THEN Null ELSE report.score]

-----------------------------------------------------------------------------
(* Ingestion                                                               *)

\* buildSnapshot asks for the odds first.
FetchOdds(p) ==
    /\ p \in CatalogProcs /\ pc[p] = "idle"
    /\ \E answer \in OddsReturned : odds' = [odds EXCEPT ![p] = answer]
    /\ Goto(p, "scores")
    /\ UNCHANGED <<phase, rows, bet, result, calls, snap, seenScore, seenClosed>>

\* ingestOpenBetResults asks for scores only, and only of open bets.
StartResults(p) ==
    /\ p \in ResultsProcs /\ pc[p] = "idle"
    /\ bet = "ACCEPTED"
    /\ Goto(p, "scores")
    /\ UNCHANGED <<phase, rows, bet, result, calls, locals>>

FetchScores(p, report) ==
    /\ pc[p] = "scores"
    /\ LET s == EventInSnapshot(odds[p], report)
       IN IF s = Null
          THEN IngestDone(p)
          ELSE /\ snap' = [snap EXCEPT ![p] = s]
               /\ odds' = [odds EXCEPT ![p] = IF @ = "bare" THEN "none" ELSE @]
               /\ Goto(p, "event")
               /\ UNCHANGED <<seenScore, seenClosed>>
    /\ UNCHANGED <<phase, rows, bet, result, calls>>

\* After the event come the markets of the snapshot, if it has any.
Markets(p) ==
    IF odds[p] = "full"
    THEN Goto(p, "market") /\ UNCHANGED locals
    ELSE IngestDone(p)

UpsertEvent(p) ==
    /\ pc[p] = "event"
    /\ event' = snap[p]
    /\ IF snap[p].status = "ENDED"
       THEN Goto(p, "close") /\ UNCHANGED locals
       ELSE Markets(p)
    /\ UNCHANGED <<phase, market, selection, bet, result, calls>>

\* Faulty variant: only markets that still take bets are closed.
CloseOpenMarkets(p) ==
    /\ pc[p] = "close"
    /\ market' = IF market = "OPEN" THEN "SETTLED" ELSE market
    /\ Goto(p, "closeSelections")
    /\ UNCHANGED <<phase, event, selection, bet, result, calls, locals>>

\* closeMarketsForEndedEvent, two statements.
CloseMarkets(p) ==
    /\ pc[p] = "close"
    /\ market' = "SETTLED"
    /\ Goto(p, "closeSelections")
    /\ UNCHANGED <<phase, event, selection, bet, result, calls, locals>>

\* Faulty variant: a suspended selection is left as it is.
CloseOpenSelections(p) ==
    /\ pc[p] = "closeSelections"
    /\ selection' = IF selection = "OPEN" THEN "SETTLED" ELSE selection
    /\ Markets(p)
    /\ UNCHANGED <<phase, event, market, bet, result, calls>>

CloseSelections(p) ==
    /\ pc[p] = "closeSelections"
    /\ selection' = "SETTLED"
    /\ Markets(p)
    /\ UNCHANGED <<phase, event, market, bet, result, calls>>

\* Faulty variant: the event's status without a mapping of its own.
BookStatusUnmapped(s) == s.status

\* The mapper gives a market and its selections the status of the event.
BookStatusOf(s) == IF s.status = "ENDED" THEN "SETTLED" ELSE "OPEN"

UpsertMarket(p) ==
    /\ pc[p] = "market"
    /\ market' = BookStatusOf(snap[p])
    /\ Goto(p, "selection")
    /\ UNCHANGED <<phase, event, selection, bet, result, calls, locals>>

UpsertSelection(p) ==
    /\ pc[p] = "selection"
    /\ selection' = BookStatusOf(snap[p])
    /\ IngestDone(p)
    /\ UNCHANGED <<phase, event, market, bet, result, calls>>

-----------------------------------------------------------------------------
(* Staff                                                                   *)

Calls(p) ==
    /\ p \in UserProcs /\ pc[p] = "idle"
    /\ calls < MaxCalls
    /\ calls' = calls + 1

\* finalizeEventResult, then the markets, then settlement.
FinalizeEvent(p, score) ==
    /\ Calls(p)
    /\ event' = [status |-> "ENDED", score |-> score]
    /\ Goto(p, "close")
    /\ UNCHANGED <<phase, market, selection, bet, result, locals>>

\* runSettlementForEvent, and the settlement command or worker by itself.
StartSettle(p) ==
    /\ Calls(p) /\ bet = "ACCEPTED"
    /\ Goto(p, "settle")
    /\ UNCHANGED <<phase, rows, bet, result, locals>>

\* Trading checks a row in one query and writes in a later transaction.
CheckTrading(p, step) ==
    /\ Calls(p)
    /\ \/ step = "suspendEvent" /\ event.status # "ENDED"
       \/ step = "suspendMarket" /\ market # "SETTLED"
       \/ step = "resume" /\ event.status # "ENDED"
    /\ Goto(p, step)
    /\ UNCHANGED <<phase, rows, bet, result, locals>>

SuspendEvent(p) ==
    /\ pc[p] = "suspendEvent"
    /\ event' = [event EXCEPT !.status = "SUSPENDED"]
    /\ market' = "SUSPENDED" /\ selection' = "SUSPENDED"
    /\ Goto(p, "idle")
    /\ UNCHANGED <<phase, bet, result, calls, locals>>

SuspendMarket(p) ==
    /\ pc[p] = "suspendMarket"
    /\ market' = "SUSPENDED" /\ selection' = "SUSPENDED"
    /\ Goto(p, "idle")
    /\ UNCHANGED <<phase, event, bet, result, calls, locals>>

ResumeMarket(p) ==
    /\ pc[p] = "resume"
    /\ market' = "OPEN" /\ selection' = "OPEN"
    /\ Goto(p, "idle")
    /\ UNCHANGED <<phase, event, bet, result, calls, locals>>

-----------------------------------------------------------------------------
(* Placement and settlement                                                *)

\* validatePlacement; the wallet is asked for the balance before the insert.
ValidatePlacement(p) ==
    /\ p \in UserProcs /\ pc[p] = "idle"
    /\ bet = "NONE"
    /\ selection = "OPEN" /\ market = "OPEN"
    /\ event.status \notin {"ENDED", "SUSPENDED"}
    /\ Goto(p, "place")
    /\ UNCHANGED <<phase, rows, bet, result, calls, locals>>

CreateBet(p) ==
    /\ pc[p] = "place"
    /\ bet = "NONE"
    /\ bet' = "PENDING"
    /\ Goto(p, "idle")
    /\ UNCHANGED <<phase, rows, result, calls, locals>>

DebitAnswered ==
    /\ bet = "PENDING"
    /\ \E s \in {"ACCEPTED", "NONE"} : bet' = s
    /\ UNCHANGED <<phase, rows, result, calls, pc, locals>>

\* gradeBet reads the bet, then its event and its market side by side.
OpenBet(p) ==
    /\ pc[p] = "settle"
    /\ Goto(p, IF bet = "ACCEPTED" THEN "read" ELSE "idle")
    /\ UNCHANGED <<phase, rows, bet, result, calls, locals>>

\* Faulty variant: any score will do.
EventScored == event.score # Null

EventDecided == event.status = "ENDED" /\ event.score # Null

LeaveBet(p) == Goto(p, "idle") /\ Forget(p)

\* A bet that either read shows to be undecided is left alone.
ReadEvent(p) ==
    /\ pc[p] = "read" /\ seenScore[p] = Null
    /\ IF EventDecided
       THEN seenScore' = [seenScore EXCEPT ![p] = event.score]
            /\ UNCHANGED <<pc, odds, snap, seenClosed>>
       ELSE LeaveBet(p)
    /\ UNCHANGED <<phase, rows, bet, result, calls>>

ReadMarket(p) ==
    /\ pc[p] = "read" /\ ~seenClosed[p]
    /\ IF market = "SETTLED"
       THEN seenClosed' = [seenClosed EXCEPT ![p] = TRUE]
            /\ UNCHANGED <<pc, odds, snap, seenScore>>
       ELSE LeaveBet(p)
    /\ UNCHANGED <<phase, rows, bet, result, calls>>

\* The second of two runs fails: the bet's SETTLE row is there already.
Grade(p) ==
    /\ pc[p] = "read" /\ seenScore[p] # Null /\ seenClosed[p]
    /\ IF bet = "ACCEPTED"
       THEN bet' = "GRADED" /\ result' = seenScore[p]
       ELSE UNCHANGED <<bet, result>>
    /\ LeaveBet(p)
    /\ UNCHANGED <<phase, rows, calls>>

Next ==
    \/ PhaseAdvances \/ DebitAnswered
    \/ \E p \in Procs :
          \/ HandlerDies(p)
          \/ FetchOdds(p) \/ StartResults(p)
          \/ \E report \in ScoresReturned : FetchScores(p, report)
          \/ UpsertEvent(p) \/ CloseMarkets(p) \/ CloseSelections(p)
          \/ UpsertMarket(p) \/ UpsertSelection(p)
          \/ \E score \in Finals : FinalizeEvent(p, score)
          \/ StartSettle(p)
          \/ \E step \in {"suspendEvent", "suspendMarket", "resume"} : CheckTrading(p, step)
          \/ SuspendEvent(p) \/ SuspendMarket(p) \/ ResumeMarket(p)
          \/ ValidatePlacement(p) \/ CreateBet(p)
          \/ OpenBet(p) \/ ReadEvent(p) \/ ReadMarket(p) \/ Grade(p)

Spec == Init /\ [][Next]_vars

-----------------------------------------------------------------------------
(* Fairness.  The game goes on until the provider drops it from /odds with  *)
(* a score; catalog and results ticks start for ever, their calls do not    *)
(* fail for ever, handlers go on, and crashes cease at some time.  Staff    *)
(* make finitely many calls.                                                *)

Continues(p) ==
    \/ FetchScores(p, Null)
    \/ UpsertEvent(p) \/ CloseMarkets(p) \/ CloseSelections(p)
    \/ UpsertMarket(p) \/ UpsertSelection(p)
    \/ SuspendEvent(p) \/ SuspendMarket(p) \/ ResumeMarket(p) \/ CreateBet(p)
    \/ OpenBet(p) \/ ReadEvent(p) \/ ReadMarket(p) \/ Grade(p)

\* A step that ends a handler without a write looks like a death but is none.
CrashesCease == <>[][\A p \in Procs : HandlerDies(p) => Continues(p)]_vars

Fairness ==
    /\ WF_vars(PhaseAdvances)
    /\ \A p \in CatalogProcs \cup ResultsProcs :
          SF_vars(\E report \in ScoresReturned \ {Null} : FetchScores(p, report))
    /\ \A p \in Procs : WF_vars(FetchOdds(p) \/ StartResults(p) \/ Continues(p))

FairSpec == Spec /\ Fairness /\ CrashesCease

-----------------------------------------------------------------------------

\* A bet is graded on a score that a completed report or a manual result gave,
\* never on one of a running game and, unless staff have stepped in, never before
\* the game is over, although LIVE and ENDED snapshots, suspensions and manual
\* results overwrite each other in any order: status and score are always written
\* and read together.
GradedOnFinalScore == bet = "GRADED" => result \in Finals /\ (Over \/ calls > 0)

\* An accepted bet is graded once the game is over, whatever stale snapshots,
\* suspensions and late resumes left in the event and market rows: README,
\* "Settlement".
AcceptedBetGraded == bet = "ACCEPTED" ~> bet = "GRADED"

\* The book of a finished game closes for good: no suspension or resume that was
\* checked before the end, and no snapshot fetched before it, has the last word.
BookCloses ==
    <>[](event.status = "ENDED" /\ market = "SETTLED" /\ selection = "SETTLED")

=============================================================================
