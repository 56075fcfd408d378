----------------------------- MODULE LegGrading -----------------------------
(***************************************************************************)
(* One market from the provider's quote to the grade of a leg placed on    *)
(* it.  The provider quotes outcomes, each with a name and perhaps a point *)
(* of its own; the mapper keeps one line per market; a placed leg freezes  *)
(* its label and the market's line of that moment; grading reads the label *)
(* for the side and the frozen line for the number.                        *)
(*                                                                         *)
(* Points, lines and compared scores are in half points.                   *)
(***************************************************************************)
EXTENDS Integers

CONSTANTS
    Types,      \* MarketTypes considered
    Points,     \* points the provider may quote: the total, or home's handicap
    MaxGoals,   \* bound on a side's score
    Null

ASSUME TypesAssumption ==
    Types \subseteq {"MATCH_RESULT", "TOTAL", "HANDICAP", "BOTH_TEAMS_SCORE"}
ASSUME PointsAssumption == Points \subseteq Int
ASSUME NullAssumption == Null \notin Int
ASSUME MaxGoalsAssumption == MaxGoals \in Nat

Results == {"WON", "LOST", "VOID"}
Scores == (0..MaxGoals) \X (0..MaxGoals)

\* What the outcomes of a market of each type are called.
Picks(type) ==
    CASE type = "MATCH_RESULT"     -> {"HOME", "DRAW", "AWAY"}
      [] type = "TOTAL"            -> {"OVER", "UNDER"}
      [] type = "HANDICAP"         -> {"HOME", "AWAY"}
      [] type = "BOTH_TEAMS_SCORE" -> {"YES", "NO"}

HasPoint(type) == type \in {"TOTAL", "HANDICAP"}

VARIABLES
    type,     \* Market.type
    status,   \* Market.status, once the event is over no longer OPEN
    line,     \* Market.line
    offered,  \* Selection rows: a name and the point that is part of it
    score,    \* the event's final score
    leg,      \* a placed leg: selection name and frozen marketLine
    result,   \* its outcome
    nested,   \* does the away team's name contain the home team's?
    quoted,   \* history: the last quote, its point and the outcome listed first
    basis     \* history: the quote that was the last one when the leg was placed

vars == <<type, status, line, offered, score, leg, result, nested, quoted, basis>>

Lines == Points \cup {-p : p \in Points}
Quotes == [point : Points, first : {"HOME", "AWAY"}]
Selection == [pick : UNION {Picks(t) : t \in Types}, point : Lines \cup {Null}]

TypeOK ==
    /\ type \in Types
    /\ status \in {"OPEN", "SETTLED", "VOID"}
    /\ line \in Lines \cup {Null}
    /\ offered \subseteq Selection
    /\ score \in Scores \cup {Null}
    /\ leg \in [sel : Selection, line : Lines \cup {Null}] \cup {Null}
    /\ result \in Results \cup {Null}
    /\ nested \in BOOLEAN
    /\ quoted \in Quotes \cup {Null}
    /\ basis \in Quotes \cup {Null}

Init ==
    /\ type \in Types
    /\ status = "OPEN"
    /\ line = Null
    /\ offered = {}
    /\ score = Null
    /\ leg = Null
    /\ result = Null
    /\ nested \in BOOLEAN
    /\ quoted = Null
    /\ basis = Null

-----------------------------------------------------------------------------
(* LegOutcomeService                                                       *)

\* The words that a lower-cased label contains.
Contains(pick) ==
    {pick} \cup IF pick = "AWAY" /\ nested THEN {"HOME"} ELSE {}

\* Number(null) is 0.
NumberOf(l) == IF l = Null THEN 0 ELSE l

\* Faulty variant: a push of its own, which nothing downstream knows.
ByMarginPush(m) == IF m = 0 THEN "PUSH" ELSE IF m > 0 THEN "WON" ELSE "LOST"

\* Half points of margin by which a pick beats its line: none is a push.
ByMargin(m) == IF m = 0 THEN "VOID" ELSE IF m > 0 THEN "WON" ELSE "LOST"

WonIf(condition) == IF condition THEN "WON" ELSE "LOST"

MatchResult(pick, h, a) ==
    WonIf(\/ pick = "DRAW" /\ h = a
          \/ pick = "HOME" /\ h > a
          \/ pick = "AWAY" /\ a > h)

\* Faulty variant: a push is lost.
TotalWithoutPush(pick, l, h, a) ==
    WonIf(IF pick = "OVER" THEN 2 * (h + a) > l ELSE 2 * (h + a) < l)

Total(pick, l, h, a) ==
    ByMargin(IF pick = "OVER" THEN 2 * (h + a) - l ELSE l - 2 * (h + a))

\* The home team's name is looked for first.
Handicap(pick, l, h, a) ==
    IF "HOME" \in Contains(pick)
    THEN ByMargin(2 * h + l - 2 * a)
    ELSE ByMargin(2 * a - l - 2 * h)

BothTeamsScore(pick, h, a) == WonIf((h > 0 /\ a > 0) <=> pick = "YES")

Evaluate(t, marketStatus, pick, l, s) ==
    IF marketStatus = "VOID" THEN "VOID"
    ELSE IF s = Null THEN Null
    ELSE CASE t = "MATCH_RESULT"     -> MatchResult(pick, s[1], s[2])
           [] t = "TOTAL"            -> Total(pick, NumberOf(l), s[1], s[2])
           [] t = "HANDICAP"         -> Handicap(pick, NumberOf(l), s[1], s[2])
           [] t = "BOTH_TEAMS_SCORE" -> BothTeamsScore(pick, s[1], s[2])

-----------------------------------------------------------------------------
(* Quotes, placement, results                                              *)

\* The point of an outcome when the market is quoted at p: both sides of a
\* total carry p, the away side of a handicap carries -p.
PointOf(t, pick, p) ==
    CASE ~HasPoint(t) -> Null
      [] t = "HANDICAP" /\ pick = "AWAY" -> -p
      [] OTHER -> p

\* marketLine takes the point of the first outcome listed.
LineOf(t, first, p) == PointOf(t, first, p)

\* ingestLiveData: the market's line is overwritten.  The point is part of a
\* selection's providerRef, so a moved line adds selections; nothing closes
\* the ones with the old point.
Quote(p, first) ==
    /\ status = "OPEN"
    /\ first = "AWAY" => type = "HANDICAP"
    /\ type = "TOTAL" => p > 0
    /\ line' = LineOf(type, first, p)
    /\ offered' = offered \cup
          {[pick |-> k, point |-> PointOf(type, k, p)] : k \in Picks(type)}
    /\ quoted' = [point |-> p, first |-> first]
    /\ UNCHANGED <<type, status, score, leg, result, nested, basis>>

\* validatePlacement reads selection and market in one query.
PlaceLeg(s) ==
    /\ leg = Null
    /\ status = "OPEN"
    /\ s \in offered
    /\ leg' = [sel |-> s, line |-> line]
    /\ basis' = quoted
    /\ UNCHANGED <<type, status, line, offered, score, result, nested, quoted>>

\* closeMarketsForEndedEvent, with a score unless the provider sent none.  A
\* later results tick or a manual result may correct the score.
EndEvent(s) ==
    /\ status # "VOID"
    /\ status' = "SETTLED"
    /\ score' = s
    /\ UNCHANGED <<type, line, offered, leg, result, nested, quoted, basis>>

ProviderVoids ==
    /\ status = "OPEN"
    /\ status' = "VOID"
    /\ UNCHANGED <<type, line, offered, score, leg, result, nested, quoted, basis>>

\* Faulty variant: the line is read from the market again, not from the leg.
GradeByCurrentLine ==
    /\ leg # Null /\ result = Null
    /\ status # "OPEN"
    /\ LET r == Evaluate(type, status, leg.sel.pick, line, score)
       IN r # Null /\ result' = r
    /\ UNCHANGED <<type, status, line, offered, score, leg, nested, quoted, basis>>

\* gradeBet for a slip of this one leg: graded once, and only on an outcome.
Grade ==
    /\ leg # Null /\ result = Null
    /\ status # "OPEN"
    /\ LET r == Evaluate(type, status, leg.sel.pick, leg.line, score)
       IN r # Null /\ result' = r
    /\ UNCHANGED <<type, status, line, offered, score, leg, nested, quoted, basis>>

Next ==
    \/ \E p \in Points, first \in {"HOME", "AWAY"} : Quote(p, first)
    \/ \E s \in offered : PlaceLeg(s)
    \/ \E s \in Scores \cup {Null} : EndEvent(s)
    \/ ProviderVoids
    \/ Grade

Spec == Init /\ [][Next]_vars

-----------------------------------------------------------------------------

\* What the label promises the player: the picked side, with the point in the
\* label added to its own score, beats the other side.
LabelResult(s) ==
    LET h == score[1]
        a == score[2]
    IN CASE type = "HANDICAP" ->
              ByMargin(s.point + 2 * IF s.pick = "HOME" THEN h - a ELSE a - h)
         [] type = "TOTAL" ->
              ByMargin((IF s.pick = "OVER" THEN 1 ELSE -1) * (2 * (h + a) - s.point))
         [] type = "MATCH_RESULT" ->
              WonIf(s.pick = IF h > a THEN "HOME" ELSE IF h < a THEN "AWAY" ELSE "DRAW")
         [] type = "BOTH_TEAMS_SCORE" ->
              WonIf(s.pick = IF h = 0 \/ a = 0 THEN "NO" ELSE "YES")

\* The three ways in which the snapshot differs from the label: the line moved
\* after the selection was quoted, the away side's point was kept as the line,
\* or the away team's name contains the home team's.
LineMoved == HasPoint(type) /\ leg.sel.point # PointOf(type, leg.sel.pick, basis.point)
AwayFirst == type = "HANDICAP" /\ basis.first = "AWAY"
TakenForHome == type = "HANDICAP" /\ leg.sel.pick = "AWAY" /\ nested

\* A leg is graded by what its label said when it was placed, although the
\* label goes through one line per market and the sign of the home side, and
\* whatever is quoted afterwards; the only legs graded otherwise are those of
\* the three cases above.  README, "Bet leg snapshot", promises it of every leg.
\* Stated of the grading step: a score corrected later does not regrade.
GradedAsLabelled ==
    [][/\ result' # result
       /\ status # "VOID"
       /\ ~(LineMoved \/ AwayFirst \/ TakenForHome)
       => result' = LabelResult(leg.sel)]_vars

\* What each pick of the market would be graded as now.
Graded == [k \in Picks(type) |-> Evaluate(type, status, k, line, score)]

\* The house never wins or loses both sides of a market: of the picks at one
\* line exactly one wins, or all are void, whichever line is the last.  A
\* handicap whose away team's name contains the home team's is the exception:
\* both its picks are graded as the home side.
OneSideWins ==
    status = "SETTLED" /\ score # Null /\ ~(type = "HANDICAP" /\ nested) =>
        \/ \A k \in Picks(type) : Graded[k] = "VOID"
        \/ \E k \in Picks(type) :
              /\ Graded[k] = "WON"
              /\ \A j \in Picks(type) \ {k} : Graded[j] = "LOST"

=============================================================================
