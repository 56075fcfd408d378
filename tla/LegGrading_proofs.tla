------------------------- MODULE LegGrading_proofs -------------------------
(***************************************************************************)
(* Proofs about LegGrading for any scores, any quoted points and any moves *)
(* of the line.                                                            *)
(***************************************************************************)
EXTENDS LegGrading, TLAPS

\* Negated points and lines are integers too.
LEMMA LinesAreIntegers == Lines \subseteq Int
<1> SUFFICES ASSUME NEW l \in Lines PROVE l \in Int
    OBVIOUS
<1>1. CASE l \in Points
    BY <1>1, PointsAssumption
<1>2. CASE \E p \in Points : l = -p
  <2> PICK p \in Points : l = -p
      BY <1>2
  <2>1. p \in Int
      BY PointsAssumption
  <2> QED BY <2>1
<1> QED BY <1>1, <1>2 DEF Lines

\* What a quote writes is a line, and what its selections carry are points.
LEMMA PointsOfQuote ==
  ASSUME NEW t \in Types, NEW k, NEW p \in Points
  PROVE  PointOf(t, k, p) \in Lines \cup {Null}
  BY DEF PointOf, Lines

\* Variables keep their types: lines stay among the quoted points and their
\* negations.
THEOREM TypeCorrect == Spec => []TypeOK
<1>1. Init => TypeOK
    BY DEF Init, TypeOK
<1>2. TypeOK /\ [Next]_vars => TypeOK'
  <2> SUFFICES ASSUME TypeOK, [Next]_vars PROVE TypeOK'
      OBVIOUS
  <2>1. ASSUME NEW p \in Points, NEW first \in {"HOME", "AWAY"}, Quote(p, first) PROVE TypeOK'
    <3>1. line' \in Lines \cup {Null}
        BY <2>1, PointsOfQuote DEF Quote, LineOf, TypeOK
    <3>2. \A k \in Picks(type) : [pick |-> k, point |-> PointOf(type, k, p)] \in Selection
        BY PointsOfQuote DEF Selection, TypeOK
    <3> QED BY <2>1, <3>1, <3>2 DEF Quote, Quotes, TypeOK
  <2>2. ASSUME NEW s \in offered, PlaceLeg(s) PROVE TypeOK'
      BY <2>2 DEF PlaceLeg, TypeOK
  <2>3. ASSUME NEW s \in Scores \cup {Null}, EndEvent(s) PROVE TypeOK'
      BY <2>3 DEF EndEvent, TypeOK
  <2>4. CASE ProviderVoids
      BY <2>4 DEF ProviderVoids, TypeOK
  <2>5. CASE Grade
    <3>1. \A t, m, k, l, s : t \in Types => Evaluate(t, m, k, l, s) \in Results \cup {Null}
        BY TypesAssumption DEF Evaluate, MatchResult, Total, Handicap, BothTeamsScore, ByMargin,
           WonIf, Results
    <3> QED BY <2>5, <3>1 DEF Grade, TypeOK
  <2>6. CASE UNCHANGED vars
      BY <2>6 DEF vars, TypeOK
  <2> QED BY <2>1, <2>2, <2>3, <2>4, <2>5, <2>6 DEF Next
<1> QED BY <1>1, <1>2, PTL DEF Spec

\* Of the picks of a market at one line exactly one wins or all are void, for
\* every score, every line and every type of market; a handicap between teams
\* one of whose names contains the other is excepted in OneSideWins itself.
THEOREM NoMarketPaysTwice == Spec => []OneSideWins
<1>1. TypeOK => OneSideWins
  <2> SUFFICES ASSUME TypeOK, status = "SETTLED", score # Null,
                      ~(type = "HANDICAP" /\ nested)
               PROVE  OneSideWins
      BY DEF OneSideWins
  <2> DEFINE h == score[1]
             a == score[2]
             n == NumberOf(line)
  <2>1. h \in Nat /\ a \in Nat
      BY MaxGoalsAssumption DEF TypeOK, Scores
  <2>2. n \in Int
      BY LinesAreIntegers DEF TypeOK, NumberOf
  <2>3. CASE type = "MATCH_RESULT"
    <3>1. Picks(type) = {"HOME", "DRAW", "AWAY"}
        BY <2>3 DEF Picks
    <3>2. \A k \in Picks(type) : Graded[k] = MatchResult(k, h, a)
        BY <2>3 DEF Evaluate, Graded
    <3> HIDE DEF h, a
    <3> QED BY <2>1, <3>1, <3>2 DEF MatchResult, WonIf, OneSideWins
  <2>4. CASE type = "TOTAL"
    <3>1. Picks(type) = {"OVER", "UNDER"}
        BY <2>4 DEF Picks
    <3>2. \A k \in Picks(type) : Graded[k] = Total(k, n, h, a)
        BY <2>4 DEF Evaluate, Graded
    <3> HIDE DEF h, a, n
    <3> QED BY <2>1, <2>2, <3>1, <3>2 DEF Total, ByMargin, OneSideWins
  <2>5. CASE type = "HANDICAP"
    <3>1. Picks(type) = {"HOME", "AWAY"}
        BY <2>5 DEF Picks
    <3>2. \A k \in Picks(type) : Graded[k] = Handicap(k, n, h, a)
        BY <2>5 DEF Evaluate, Graded
    <3>3. "HOME" \in Contains("HOME") /\ "HOME" \notin Contains("AWAY")
        BY <2>5 DEF Contains
    <3> HIDE DEF h, a, n
    <3> QED BY <2>1, <2>2, <3>1, <3>2, <3>3 DEF Handicap, ByMargin, OneSideWins
  <2>6. CASE type = "BOTH_TEAMS_SCORE"
    <3>1. Picks(type) = {"YES", "NO"}
        BY <2>6 DEF Picks
    <3>2. \A k \in Picks(type) : Graded[k] = BothTeamsScore(k, h, a)
        BY <2>6 DEF Evaluate, Graded
    <3> HIDE DEF h, a
    <3> QED BY <2>1, <3>1, <3>2 DEF BothTeamsScore, WonIf, OneSideWins
  <2> QED BY <2>3, <2>4, <2>5, <2>6, TypesAssumption DEF TypeOK
<1> QED BY <1>1, TypeCorrect, PTL

-----------------------------------------------------------------------------

\* The market's line is the last quote's, a placed leg's that of the quote it
\* was placed under, and both pick one of the market's outcomes.
LabelOK ==
    /\ \A s \in offered : s.pick \in Picks(type)
    /\ offered # {} => /\ quoted \in Quotes
                       /\ line = LineOf(type, quoted.first, quoted.point)
    /\ leg # Null => /\ leg.sel.pick \in Picks(type)
                     /\ basis \in Quotes
                     /\ leg.line = LineOf(type, basis.first, basis.point)

\* A quote overwrites the line and leaves a placed leg alone; placement copies
\* the selection and the line of the last quote.
LEMMA LabelsFollowLine == Spec => []LabelOK
<1>1. Init => LabelOK
    BY DEF Init, LabelOK
<1>2. LabelOK /\ TypeOK /\ [Next]_vars => LabelOK'
  <2> SUFFICES ASSUME LabelOK, TypeOK, [Next]_vars PROVE LabelOK'
      OBVIOUS
  <2> USE DEF LabelOK, LineOf, PointOf, HasPoint, Picks
  <2>1. ASSUME NEW p \in Points, NEW first \in {"HOME", "AWAY"}, Quote(p, first) PROVE LabelOK'
    <3>1. /\ quoted' = [point |-> p, first |-> first]
          /\ line' = LineOf(type, first, p)
          /\ offered' = offered \cup
                {[pick |-> k, point |-> PointOf(type, k, p)] : k \in Picks(type)}
          /\ type' = type /\ leg' = leg /\ basis' = basis
        BY <2>1 DEF Quote
    <3>2. quoted' \in Quotes
        BY <3>1 DEF Quotes
    <3>3. ASSUME NEW s \in offered' PROVE s.pick \in Picks(type)
      <4>1. CASE s \in offered
          BY <4>1
      <4>2. CASE \E k \in Picks(type) : s = [pick |-> k, point |-> PointOf(type, k, p)]
        <5> HIDE DEF PointOf, Picks
        <5> QED BY <4>2
      <4> QED BY <3>1, <4>1, <4>2
    <3>4. line' = LineOf(type, quoted.first, quoted.point)'
        BY <3>1
    <3> QED BY <3>1, <3>2, <3>3, <3>4
  <2>2. ASSUME NEW s \in offered, PlaceLeg(s) PROVE LabelOK'
      BY <2>2 DEF PlaceLeg
  <2>3. ASSUME NEW s \in Scores \cup {Null}, EndEvent(s) PROVE LabelOK'
      BY <2>3 DEF EndEvent
  <2>4. CASE ProviderVoids
      BY <2>4 DEF ProviderVoids
  <2>5. CASE Grade
      BY <2>5 DEF Grade
  <2>6. CASE UNCHANGED vars
      BY <2>6 DEF vars
  <2> QED BY <2>1, <2>2, <2>3, <2>4, <2>5, <2>6 DEF Next
<1> QED BY <1>1, <1>2, TypeCorrect, PTL DEF Spec

\* A leg is graded by what its label said: grading goes through the frozen line
\* and home's sign and comes to the same result as the label read as it is, for
\* every leg that is none of the three exceptions GradedAsLabelled names.
THEOREM GradedByLabel == Spec => GradedAsLabelled
<1>1. TypeOK /\ LabelOK /\ [Next]_vars
      => [/\ result' # result
          /\ status # "VOID"
          /\ ~(LineMoved \/ AwayFirst \/ TakenForHome)
          => result' = LabelResult(leg.sel)]_vars
  <2> SUFFICES ASSUME TypeOK, LabelOK, [Next]_vars, result' # result, status # "VOID",
                      ~LineMoved, ~AwayFirst, ~TakenForHome
               PROVE  result' = LabelResult(leg.sel)
      OBVIOUS
  <2>1. Grade
      BY DEF Next, Quote, PlaceLeg, EndEvent, ProviderVoids, vars
  <2> DEFINE h == score[1]
             a == score[2]
             k == leg.sel.pick
             n == leg.line
  <2>2. /\ result' = Evaluate(type, status, k, n, score)
        /\ result' # Null
        /\ leg # Null
      BY <2>1 DEF Grade
  <2>3. score # Null
      BY <2>2 DEF Evaluate
  <2>4. h \in Nat /\ a \in Nat
      BY <2>3, MaxGoalsAssumption DEF TypeOK, Scores
  <2>5. k \in Picks(type)
      BY <2>2 DEF LabelOK
  <2>10. ASSUME HasPoint(type)
         PROVE  /\ n = basis.point /\ n \in Int /\ n # Null
                /\ leg.sel.point = PointOf(type, k, n)
    <3>1. /\ basis \in Quotes
          /\ n = LineOf(type, basis.first, basis.point)
        BY <2>2 DEF LabelOK, TypeOK
    <3>2. basis.first \in {"HOME", "AWAY"} /\ basis.point \in Points
        BY <3>1 DEF Quotes
    <3>3. type = "HANDICAP" => basis.first = "HOME"
        BY <3>2 DEF AwayFirst
    <3>4. n = basis.point
        BY <2>10, <3>1, <3>2, <3>3 DEF LineOf, PointOf, HasPoint
    <3>5. leg.sel.point = PointOf(type, k, basis.point)
        BY <2>10 DEF LineMoved
    <3> HIDE DEF n, k
    <3> QED BY <3>2, <3>4, <3>5, PointsAssumption, NullAssumption
  <2>6. CASE type = "MATCH_RESULT"
    <3>1. k \in {"HOME", "DRAW", "AWAY"}
        BY <2>5, <2>6 DEF Picks
    <3>2. result' = MatchResult(k, h, a)
        BY <2>2, <2>3, <2>6 DEF Evaluate
    <3>3. LabelResult(leg.sel)
            = WonIf(k = IF h > a THEN "HOME" ELSE IF h < a THEN "AWAY" ELSE "DRAW")
        BY <2>6 DEF LabelResult
    <3> HIDE DEF h, a, k
    <3> QED BY <2>4, <3>1, <3>2, <3>3 DEF MatchResult, WonIf
  <2>7. CASE type = "TOTAL"
    <3>1. k \in {"OVER", "UNDER"}
        BY <2>5, <2>7 DEF Picks
    <3>2. n \in Int /\ n # Null /\ leg.sel.point = n
        BY <2>7, <2>10 DEF HasPoint, PointOf
    <3>3. result' = Total(k, n, h, a)
        BY <2>2, <2>3, <2>7, <3>2 DEF Evaluate, NumberOf
    <3>4. LabelResult(leg.sel)
            = ByMargin((IF k = "OVER" THEN 1 ELSE -1) * (2 * (h + a) - n))
        BY <2>7, <3>2 DEF LabelResult
    <3> HIDE DEF h, a, k, n
    <3> QED BY <2>4, <3>1, <3>2, <3>3, <3>4 DEF Total, ByMargin
  <2>8. CASE type = "HANDICAP"
    <3>1. k \in {"HOME", "AWAY"}
        BY <2>5, <2>8 DEF Picks
    <3>2. /\ n \in Int /\ n # Null
          /\ leg.sel.point = IF k = "AWAY" THEN -n ELSE n
        BY <2>8, <2>10 DEF HasPoint, PointOf
    <3>3. result' = Handicap(k, n, h, a)
        BY <2>2, <2>3, <2>8, <3>2 DEF Evaluate, NumberOf
    <3>4. LabelResult(leg.sel)
            = ByMargin((IF k = "AWAY" THEN -n ELSE n) + 2 * IF k = "HOME" THEN h - a ELSE a - h)
        BY <2>8, <3>2 DEF LabelResult
    <3>5. "HOME" \in Contains(k) <=> k = "HOME"
        BY <2>8, <3>1 DEF Contains, TakenForHome
    <3> HIDE DEF h, a, k, n
    <3> QED BY <2>4, <3>1, <3>2, <3>3, <3>4, <3>5 DEF Handicap, ByMargin
  <2>9. CASE type = "BOTH_TEAMS_SCORE"
    <3>1. k \in {"YES", "NO"}
        BY <2>5, <2>9 DEF Picks
    <3>2. result' = BothTeamsScore(k, h, a)
        BY <2>2, <2>3, <2>9 DEF Evaluate
    <3>3. LabelResult(leg.sel) = WonIf(k = IF h = 0 \/ a = 0 THEN "NO" ELSE "YES")
        BY <2>9 DEF LabelResult
    <3> HIDE DEF h, a, k
    <3> QED BY <2>4, <3>1, <3>2, <3>3 DEF BothTeamsScore, WonIf
  <2> QED BY <2>6, <2>7, <2>8, <2>9, TypesAssumption DEF TypeOK
<1> QED BY <1>1, TypeCorrect, LabelsFollowLine, PTL DEF Spec, GradedAsLabelled

=============================================================================
