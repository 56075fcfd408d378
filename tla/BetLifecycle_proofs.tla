------------------------ MODULE BetLifecycle_proofs ------------------------
(***************************************************************************)
(* Proofs about BetLifecycle for any bets, any handlers in any overlap,    *)
(* any number of settlement runs and every kind of merchant.               *)
(*                                                                         *)
(* The properties of the ledger are not inductive alone.  What carries     *)
(* them is a chain of justifications: a movement in the ledger or on the   *)
(* wire is justified by an outbox row, a credit row by a bet once seen     *)
(* ACCEPTED, and ACCEPTED by a debit in the ledger.  A handler that has    *)
(* read the bet or a row and not acted yet holds a link of that chain in   *)
(* its local state, where it must survive whatever others do meanwhile.    *)
(***************************************************************************)
EXTENDS BetRaces, TLAPS

Taken(b) == <<b, "DEBIT">> \in applied
Decided(b) == bet[b] \notin {"NONE", "PENDING"}
Debiting == {"readBet", "readOutbox", "postDebit", "commitDebit"}

\* A row that credits a bet, and a bet that may be credited, follow a debit; and no
\* row is given up or goes missing while its bet still needs it.
RowOK(b) ==
    /\ settle[b] # "NONE" => outcome[b] \in Outcomes
    /\ bet[b] \in {"ACCEPTED"} \cup Outcomes => Taken(b)
    /\ settle[b] # "NONE" \/ void[b] # "NONE" => Taken(b)
    /\ bet[b] \in {"WON", "LOST"} => outcome[b] = bet[b]
    /\ bet[b] = "VOID" => outcome[b] = "VOID" \/ void[b] # "NONE"
    /\ settle[b] # "FAILED" /\ void[b] # "FAILED"
    /\ outcome[b] # "NONE" => settle[b] # "NONE"
    /\ bet[b] = "PENDING" => debit[b] = "PENDING"
    /\ debit[b] # "NONE" => bet[b] # "NONE"

RowsOK == \A b \in Bets : RowOK(b)

\* A debit or void row is marked after its movement is booked.
MarkedOK ==
    \A b \in Bets :
        /\ debit[b] = "COMPLETED" => Taken(b)
        /\ void[b] = "COMPLETED" => <<b, "STAFF_VOID">> \in applied

\* What a handler has read is still true enough to act on.
HandlersOK ==
    \A p \in Procs :
        /\ pc[p] \in {"idle", "readBet", "readOutbox", "postDebit", "postVoid"} => run[p] = 0
        /\ pc[p] \in Debiting => \A b \in scope[p] : bet[b] # "NONE"
        /\ pc[p] = "voidTx" => \A b \in scope[p] : Taken(b) /\ Decided(b)
        /\ \A g \in graded[p] : Taken(g[1]) /\ Decided(g[1])
        /\ pc[p] \in {"postBatch", "commitBatch"} => \A b \in scope[p] : settle[b] # "NONE"
        /\ pc[p] \in {"postVoid", "commitVoid"} => \A b \in scope[p] : void[b] # "NONE"

\* A handler about to mark a debit or void row on a good answer.
AnswersOK ==
    \A p \in Procs : reply[p] = "OK" =>
        /\ pc[p] = "commitDebit" => \A b \in scope[p] : Taken(b)
        /\ pc[p] = "commitVoid" => \A b \in scope[p] : <<b, "STAFF_VOID">> \in applied

\* The outbox row that lets movement c happen.
Justified(c) ==
    \/ c[2] = "DEBIT" /\ bet[c[1]] # "NONE"
    \/ c[2] = "STAFF_VOID" /\ void[c[1]] # "NONE"
    \/ c[2] \in Outcomes /\ settle[c[1]] # "NONE" /\ outcome[c[1]] = c[2]

LedgerOK ==
    /\ \A c \in applied : Justified(c)
    /\ \A r \in wire : \A c \in r.codes : Justified(c)

IInv == TypeOK /\ RowsOK /\ MarkedOK /\ HandlersOK /\ AnswersOK /\ LedgerOK

-----------------------------------------------------------------------------

\* Every movement in the ledger or on the wire is a movement of a known bet.
LEMMA LedgerTyped ==
  ASSUME IInv
  PROVE  /\ \A c \in applied : c[1] \in Bets
         /\ \A r \in wire : \A c \in r.codes : c[1] \in Bets
  BY DEF IInv, TypeOK, Codes, Requests

\* What a handler is about to send is justified by the row it was read from.
LEMMA CodesJustified ==
  ASSUME IInv, NEW p \in Procs, pc[p] \in Posting
  PROVE  CodesOf(p) \subseteq Codes /\ \A c \in CodesOf(p) : Justified(c)
<1> USE DEF CodesOf, Codes, Justified
<1>1. scope[p] \subseteq Bets
    BY DEF IInv, TypeOK
<1>2. CASE pc[p] = "postDebit"
    BY <1>1, <1>2 DEF IInv, HandlersOK, Debiting
<1>3. CASE pc[p] = "postVoid"
    BY <1>1, <1>3 DEF IInv, HandlersOK
<1>4. CASE pc[p] = "postBatch"
    <2>1. \A b \in scope[p] : settle[b] # "NONE" /\ outcome[b] \in Outcomes
        BY <1>1, <1>4 DEF IInv, HandlersOK, RowsOK, RowOK
    <2>2. CodesOf(p) = {<<b, outcome[b]>> : b \in scope[p]}
        BY <1>4
    <2> QED BY <1>1, <2>1, <2>2 DEF Outcomes
<1> QED BY <1>2, <1>3, <1>4 DEF Posting

\* Placement and debit steps: ACCEPTED is only written on an answer that put the
\* debit in the ledger.
LEMMA PlacementKeepsIInv ==
  ASSUME IInv, NEW p \in Procs, PlaceAndDebit(p)
  PROVE  IInv'
<1> USE MaxRunsAssumption DEF IInv, TypeOK, RowsOK, RowOK, MarkedOK, HandlersOK, AnswersOK, LedgerOK, Justified, Taken, Decided, Debiting, rows, local, merchant, Goto, Finish, Outcomes, BetStatus, RowStatus, RowType, PCs
<1>1. ASSUME NEW b \in Bets, PlaceBet(p, b) PROVE IInv'
      BY <1>1 DEF PlaceBet, Begin
<1>2. ASSUME NEW b \in Bets, RetryPlacement(p, b) PROVE IInv'
      BY <1>2 DEF RetryPlacement, Begin
<1>3. ASSUME NEW b \in Bets, PickDebit(p, b) PROVE IInv'
    <2>1. TypeOK'
      BY <1>3 DEF PickDebit, Begin
    <2>2. RowsOK' /\ MarkedOK' /\ AnswersOK' /\ LedgerOK'
      BY <1>3 DEF PickDebit, Begin
    <2>3. HandlersOK'
      <3>1. bet[b] # "NONE" /\ UNCHANGED <<bet, settle, void, run, graded, applied>>
        BY <1>3 DEF PickDebit, Begin
      <3>2. \A q \in Procs : pc'[q] = (IF q = p THEN "readBet" ELSE pc[q])
                              /\ scope'[q] = (IF q = p THEN {b} ELSE scope[q])
        BY <1>3 DEF PickDebit, Begin
      <3>3. pc[p] = "idle"
        BY <1>3 DEF PickDebit, Begin
      <3> HIDE DEF TypeOK, RowsOK, MarkedOK, AnswersOK, LedgerOK
      <3> QED BY <3>1, <3>2, <3>3
    <2> QED BY <2>1, <2>2, <2>3
<1>4. ASSUME ReadBet(p) PROVE IInv'
    <2>1. TypeOK'
      BY <1>4, SMTT(30) DEF ReadBet
    <2>2. RowsOK' /\ MarkedOK' /\ HandlersOK' /\ AnswersOK'
      BY <1>4 DEF ReadBet
    <2>3. LedgerOK'
      BY <1>4 DEF ReadBet
    <2> QED BY <2>1, <2>2, <2>3
<1>5. ASSUME ReadOutbox(p) PROVE IInv'
    <2>1. TypeOK'
      BY <1>5 DEF ReadOutbox
    <2>2. RowsOK' /\ MarkedOK' /\ HandlersOK' /\ AnswersOK'
      BY <1>5 DEF ReadOutbox
    <2>3. LedgerOK'
      BY <1>5 DEF ReadOutbox
    <2> QED BY <2>1, <2>2, <2>3
<1>6. ASSUME AcceptBet(p) PROVE IInv'
      BY <1>6 DEF AcceptBet
<1>7. ASSUME RejectBet(p) PROVE IInv'
      BY <1>7 DEF RejectBet
<1>8. ASSUME RetryDebitLater(p) PROVE IInv'
      BY <1>8 DEF RetryDebitLater, Backoff
<1> HIDE DEF IInv
<1> QED
    BY <1>1, <1>2, <1>3, <1>4, <1>5, <1>6, <1>7, <1>8 DEF PlaceAndDebit

\* Settlement and staff void steps: both start from a bet read as ACCEPTED.
LEMMA OutcomeKeepsIInv ==
  ASSUME IInv, NEW p \in Procs, SettleOrVoid(p)
  PROVE  IInv'
<1> USE MaxRunsAssumption DEF IInv, TypeOK, RowsOK, RowOK, MarkedOK, HandlersOK, AnswersOK, LedgerOK, Justified, Taken, Decided, Debiting, rows, local, merchant, Goto, Finish, Outcomes, BetStatus, RowStatus, RowType, PCs
<1>1. ASSUME NEW S \in SUBSET Bets, SelectAccepted(p, S) PROVE IInv'
      BY <1>1 DEF SelectAccepted, Begin
<1>2. ASSUME NEW b \in Bets, NEW o \in Outcomes, GradeBet(p, b, o) PROVE IInv'
      BY <1>2 DEF GradeBet
<1>3. ASSUME NEW b \in Bets, SkipBet(p, b) PROVE IInv'
      BY <1>3 DEF SkipBet
<1>4. ASSUME StartPersist(p) PROVE IInv'
      BY <1>4, SMTT(30) DEF StartPersist
<1>5. ASSUME NEW b \in Bets, NEW o \in Outcomes, PersistOne(p, b, o) PROVE IInv'
    <2>1. TypeOK'
      BY <1>5 DEF PersistOne
    <2>2. RowsOK'
      <3>1. Taken(b) /\ UNCHANGED <<applied, void, debit>>
        BY <1>5 DEF PersistOne
      <3>2. bet'[b] = o /\ outcome'[b] = o /\ settle'[b] = "PENDING"
        BY <1>5 DEF PersistOne
      <3>3. \A x \in Bets \ {b} :
               bet'[x] = bet[x] /\ outcome'[x] = outcome[x] /\ settle'[x] = settle[x]
        BY <1>5 DEF PersistOne
      <3> HIDE DEF TypeOK, MarkedOK, HandlersOK, AnswersOK, LedgerOK
      <3>4. RowOK(b)'
        BY <3>1, <3>2
      <3>5. \A x \in Bets \ {b} : RowOK(x)'
        BY <3>1, <3>3
      <3> HIDE DEF RowOK
      <3> QED BY <3>4, <3>5
    <2>3. MarkedOK'
      <3>1. UNCHANGED <<applied, debit, void>> /\ settle'[b] = "PENDING"
        BY <1>5 DEF PersistOne
      <3>2. \A x \in Bets \ {b} : settle'[x] = settle[x] /\ outcome'[x] = outcome[x]
        BY <1>5 DEF PersistOne
      <3> HIDE DEF TypeOK, RowsOK, HandlersOK, AnswersOK, LedgerOK
      <3> QED BY <3>1, <3>2
    <2>4. HandlersOK' /\ AnswersOK'
      BY <1>5 DEF PersistOne
    <2>5. LedgerOK'
      BY <1>5 DEF PersistOne
    <2> QED BY <2>1, <2>2, <2>3, <2>4, <2>5
<1>6. ASSUME NEW b \in Bets, NEW o \in Outcomes, PersistConflict(p, b, o) PROVE IInv'
      BY <1>6 DEF PersistConflict
<1>7. ASSUME PersistDone(p) PROVE IInv'
      BY <1>7 DEF PersistDone
<1>8. ASSUME NEW b \in Bets, StartVoid(p, b) PROVE IInv'
      BY <1>8 DEF StartVoid, Begin
<1>9. ASSUME VoidBet(p) PROVE IInv'
    <2>1. TypeOK'
      BY <1>9 DEF VoidBet
    <2>2. RowsOK' /\ MarkedOK' /\ HandlersOK' /\ AnswersOK'
      BY <1>9 DEF VoidBet
    <2>3. LedgerOK'
      <3>1. \A c : Justified(c) /\ c[1] \in Bets => Justified(c)'
        BY <1>9 DEF VoidBet
      <3>2. UNCHANGED <<applied, wire>>
        BY <1>9 DEF VoidBet
      <3> QED BY <3>1, <3>2, LedgerTyped
    <2> QED BY <2>1, <2>2, <2>3
<1> HIDE DEF IInv
<1> QED
    BY <1>1, <1>2, <1>3, <1>4, <1>5, <1>6, <1>7, <1>8, <1>9 DEF SettleOrVoid

\* Delivery steps: what is sent is read from rows that exist.
LEMMA DeliveryKeepsIInv ==
  ASSUME IInv, NEW p \in Procs, Deliver(p)
  PROVE  IInv'
<1> USE MaxRunsAssumption DEF IInv, TypeOK, RowsOK, RowOK, MarkedOK, HandlersOK, AnswersOK, LedgerOK, Justified, Taken, Decided, Debiting, rows, local, merchant, Goto, Finish, Outcomes, BetStatus, RowStatus, RowType, PCs
<1>1. ASSUME StartFlush(p) PROVE IInv'
      BY <1>1 DEF StartFlush, Begin
<1>2. ASSUME StaffRetry(p) PROVE IInv'
      BY <1>2 DEF StaffRetry, Begin
<1>3. ASSUME NEW n \in 0..MaxRuns, SelectBatch(p, n) PROVE IInv'
      BY <1>3 DEF SelectBatch, DueEntries
<1>4. ASSUME NothingToFlush(p) PROVE IInv'
      BY <1>4 DEF NothingToFlush
<1>5. ASSUME CompleteBatch(p) PROVE IInv'
    <2>1. TypeOK'
      BY <1>5 DEF CompleteBatch
    <2>2. RowsOK' /\ MarkedOK' /\ HandlersOK' /\ AnswersOK'
      BY <1>5 DEF CompleteBatch
    <2>3. LedgerOK'
      <3>1. \A c : Justified(c) /\ c[1] \in Bets => Justified(c)'
        BY <1>5 DEF CompleteBatch
      <3>2. UNCHANGED <<applied, wire>>
        BY <1>5 DEF CompleteBatch
      <3> QED BY <3>1, <3>2, LedgerTyped
    <2> QED BY <2>1, <2>2, <2>3
<1>6. ASSUME NEW b \in Bets, RetryEntryLater(p, b) PROVE IInv'
    <2>1. TypeOK'
      <3> HIDE DEF RowsOK, MarkedOK, HandlersOK, AnswersOK, LedgerOK
      <3>1. waiting' \subseteq RowType \X Bets
        BY <1>6 DEF RetryEntryLater, Backoff
      <3>2. CASE scope[p] = {b}
        BY <3>1, <3>2, <1>6 DEF RetryEntryLater
      <3>3. CASE scope[p] # {b}
        BY <3>1, <3>3, <1>6 DEF RetryEntryLater
      <3> QED BY <3>2, <3>3
    <2>2. RowsOK' /\ MarkedOK' /\ HandlersOK' /\ AnswersOK'
      BY <1>6, SMTT(30) DEF RetryEntryLater, Backoff
    <2>3. LedgerOK'
      BY <1>6 DEF RetryEntryLater, Backoff
    <2> QED BY <2>1, <2>2, <2>3
<1>7. ASSUME NEW b \in Bets, PickVoid(p, b) PROVE IInv'
      BY <1>7 DEF PickVoid, Begin
<1>8. ASSUME CompleteVoid(p) PROVE IInv'
    <2>1. TypeOK'
      BY <1>8 DEF CompleteVoid
    <2>2. RowsOK' /\ MarkedOK' /\ HandlersOK' /\ AnswersOK'
      BY <1>8 DEF CompleteVoid
    <2>3. LedgerOK'
      <3>1. \A c : Justified(c) /\ c[1] \in Bets => Justified(c)'
        BY <1>8 DEF CompleteVoid
      <3>2. UNCHANGED <<applied, wire>>
        BY <1>8 DEF CompleteVoid
      <3> QED BY <3>1, <3>2, LedgerTyped
    <2> QED BY <2>1, <2>2, <2>3
<1>9. ASSUME RetryVoidLater(p) PROVE IInv'
      BY <1>9 DEF RetryVoidLater, Backoff
<1> HIDE DEF IInv
<1> QED
    BY <1>1, <1>2, <1>3, <1>4, <1>5, <1>6, <1>7, <1>8, <1>9 DEF Deliver

\* Replies to a handler: what reaches the ledger or the wire is justified by a row.
LEMMA NetworkKeepsIInv ==
  ASSUME IInv, NEW p \in Procs, Network(p)
  PROVE  IInv'
<1> USE MaxRunsAssumption DEF IInv, TypeOK, RowsOK, RowOK, MarkedOK, HandlersOK, AnswersOK, LedgerOK, Justified, Taken, Decided, Debiting, rows, local, merchant, Goto, Finish, Outcomes, BetStatus, RowStatus, RowType, PCs
<1>1. ASSUME MerchantApplies(p) PROVE IInv'
    <2> USE <1>1
    <2>1. CodesOf(p) \subseteq Codes /\ \A c \in CodesOf(p) : Justified(c)
      BY CodesJustified DEF MerchantApplies, Answer
    <2>2. applied' \subseteq applied \cup CodesOf(p) /\ applied \subseteq applied'
      BY DEF MerchantApplies, Book, RequestOf
    <2>3. pc[p] # "postBatch" => CodesOf(p) \subseteq applied'
      BY DEF MerchantApplies, Answer, Posting, Book, RequestOf, Known
    <2>4. batches' \subseteq 1..MaxRuns
      <3>1. run[p] \in 0..MaxRuns
        OBVIOUS
      <3>2. batches' \subseteq batches \cup ({run[p]} \ {0})
        BY DEF MerchantApplies, Book, RequestOf
      <3> QED BY <3>1, <3>2
    <2>5. TypeOK'
      BY <2>1, <2>2, <2>4 DEF MerchantApplies, Answer, Posting
    <2>6. RowsOK' /\ MarkedOK' /\ HandlersOK'
      BY <2>2 DEF MerchantApplies, Answer, Posting
    <2>7. AnswersOK'
      <3>1. CASE pc[p] = "postDebit"
        BY <2>2, <2>3, <3>1 DEF MerchantApplies, Answer, CodesOf
      <3>2. CASE pc[p] = "postVoid"
        BY <2>2, <2>3, <3>2 DEF MerchantApplies, Answer, CodesOf
      <3>3. CASE pc[p] = "postBatch"
        BY <2>2, <3>3 DEF MerchantApplies, Answer
      <3> QED BY <3>1, <3>2, <3>3 DEF MerchantApplies, Answer, Posting
    <2>8. LedgerOK'
      BY <2>1, <2>2 DEF MerchantApplies, Answer
    <2> QED BY <2>5, <2>6, <2>7, <2>8
<1>2. ASSUME MerchantRefuses(p) PROVE IInv'
      BY <1>2 DEF MerchantRefuses, Answer, Posting, CodesOf, Codes
<1>3. ASSUME RequestTimesOut(p) PROVE IInv'
    <2> USE <1>3
    <2>1. CodesOf(p) \subseteq Codes /\ \A c \in CodesOf(p) : Justified(c)
      BY CodesJustified DEF RequestTimesOut, Answer
    <2>2. RequestOf(p) \in Requests
      BY <2>1 DEF RequestOf, Requests
    <2>3. TypeOK'
      BY <2>2 DEF RequestTimesOut, Answer, Posting
    <2>4. RowsOK' /\ MarkedOK' /\ HandlersOK' /\ AnswersOK'
      BY DEF RequestTimesOut, Answer, Posting
    <2>5. LedgerOK'
      BY <2>1 DEF RequestTimesOut, Answer, RequestOf
    <2> QED BY <2>3, <2>4, <2>5
<1>4. ASSUME ErrorBody(p) PROVE IInv'
      BY <1>4 DEF ErrorBody, Answer, Posting, CodesOf, RequestOf, Codes, Requests
<1> HIDE DEF IInv
<1> QED
    BY <1>1, <1>2, <1>3, <1>4 DEF Network

\* The three kinds of step outside a handler's normal course.
LEMMA OthersKeepIInv ==
  ASSUME IInv,
         \/ \E p \in Procs : HandlerDies(p)
         \/ \E type \in RowType, b \in Bets : RetryTimeReached(type, b)
         \/ \E r \in wire : LateApply(r)
         \/ UNCHANGED vars
  PROVE  IInv'
<1> USE MaxRunsAssumption DEF IInv, TypeOK, RowsOK, RowOK, MarkedOK, HandlersOK, AnswersOK, LedgerOK, Justified, Taken, Decided, Debiting, rows, local, merchant, Goto, Finish, Outcomes, BetStatus, RowStatus, RowType, PCs
<1>1. ASSUME NEW p \in Procs, HandlerDies(p) PROVE IInv'
      BY <1>1 DEF HandlerDies
<1>2. ASSUME NEW type \in RowType, NEW b \in Bets, RetryTimeReached(type, b) PROVE IInv'
      BY <1>2 DEF RetryTimeReached
<1>3. ASSUME NEW r \in wire, LateApply(r) PROVE IInv'
    <2> USE <1>3
    <2>1. r \in Requests /\ \A c \in r.codes : Justified(c)
      BY DEF LateApply
    <2>2. applied' \subseteq applied \cup r.codes /\ applied \subseteq applied'
      BY DEF LateApply, Book
    <2>3. batches' \subseteq 1..MaxRuns
      <3>1. r.batch \in 0..MaxRuns
        BY <2>1 DEF Requests
      <3>2. batches' \subseteq batches \cup ({r.batch} \ {0})
        BY DEF LateApply, Book
      <3> QED BY <3>1, <3>2
    <2>4. TypeOK'
      BY <2>1, <2>2, <2>3 DEF LateApply, Requests
    <2>5. RowsOK' /\ MarkedOK' /\ HandlersOK' /\ AnswersOK'
      BY <2>2 DEF LateApply
    <2>6. LedgerOK'
      BY <2>1, <2>2 DEF LateApply
    <2> QED BY <2>4, <2>5, <2>6
<1>4. CASE UNCHANGED vars
      BY <1>4, SMTT(30) DEF vars
<1> QED BY <1>1, <1>2, <1>3, <1>4

\* The empty system satisfies the invariant.
LEMMA InitIInv == Init => IInv
  BY MaxRunsAssumption DEF Init, IInv, TypeOK, RowsOK, RowOK, MarkedOK, HandlersOK, AnswersOK,
     LedgerOK, Outcomes,
     BetStatus, RowStatus, RowType, PCs

\* Every step of every handler, of the merchant and of the clock keeps it.
LEMMA NextIInv == IInv /\ [Next]_vars => IInv'
<1> SUFFICES ASSUME IInv, [Next]_vars PROVE IInv'
    OBVIOUS
<1>1. CASE \E p \in Procs : PlaceAndDebit(p)
    BY <1>1, PlacementKeepsIInv
<1>2. CASE \E p \in Procs : SettleOrVoid(p)
    BY <1>2, OutcomeKeepsIInv
<1>3. CASE \E p \in Procs : Deliver(p)
    BY <1>3, DeliveryKeepsIInv
<1>4. CASE \E p \in Procs : Network(p)
    BY <1>4, NetworkKeepsIInv
<1> QED
    BY <1>1, <1>2, <1>3, <1>4, OthersKeepIInv DEF Next

\* The chain of justifications holds in every reachable state.
THEOREM Invariance == Spec => []IInv
  BY InitIInv, NextIInv, PTL DEF Spec

-----------------------------------------------------------------------------

\* Every variable keeps its type; in particular only codes of movements the
\* code can produce ever reach the merchant's ledger.
THEOREM TypeCorrect == Spec => []TypeOK
<1>1. IInv => TypeOK
    BY DEF IInv
<1> QED BY <1>1, Invariance, PTL

\* No credit without a booked stake, under any overlap, crash, loss, delay or
\* repetition, and with every kind of merchant.
THEOREM CreditFollowsDebit == Spec => []NoCreditBeforeDebit
<1>1. IInv => NoCreditBeforeDebit
    BY DEF IInv, TypeOK, Codes, LedgerOK, Justified, RowsOK, RowOK, Taken, NoCreditBeforeDebit
<1> QED BY <1>1, Invariance, PTL

\* At most one graded outcome of a bet is ever credited, although a bet put
\* back to ACCEPTED may be graded again with another result.
THEOREM SingleOutcome == Spec => []OneSettlementOutcome
<1>1. IInv => OneSettlementOutcome
    BY DEF IInv, TypeOK, LedgerOK, Justified, OneSettlementOutcome, Outcomes
<1> QED BY <1>1, Invariance, PTL

\* A bet that is PENDING or closed always has the outbox row, due or delivered, that
\* the worker needs to finish it: nothing is stranded, whatever crashes or overlaps.
THEOREM ClosedBetHasRow == Spec => []OutcomeHasItsRow
<1>1. IInv => OutcomeHasItsRow
    BY DEF IInv, TypeOK, RowStatus, RowsOK, RowOK, OutcomeHasItsRow
<1> QED BY <1>1, Invariance, PTL

-----------------------------------------------------------------------------
(* Settlement rows.  A row is marked when the merchant has answered for the *)
(* batch it was sent in.  Whatever kind of duplicate the merchant goes by,  *)
(* a batchId it knows, or a transaction of a batch, stands for a row of     *)
(* that batch that it has booked.                                           *)

Delivered(b) == Credited(b) \/ LostInBatch(b)

BookedInBatch(n) == \E c \in Bets : batch[c] = n /\ Credited(c)

BatchOf(r) == r.codes # {} /\ \A c \in r.codes :
                 c[2] = outcome[c[1]] /\ settle[c[1]] # "NONE" /\ batch[c[1]] = r.batch

BatchesOK ==
    /\ \A n \in batches : BookedInBatch(n)
    /\ \A r \in wire : r.batch # 0 => BatchOf(r)

PostersOK ==
    \A p \in Procs :
        /\ pc[p] = "postBatch" => scope[p] # {}
        /\ pc[p] \in {"postBatch", "commitBatch"} => \A b \in scope[p] : batch[b] = run[p]
        /\ pc[p] = "commitBatch" /\ reply[p] = "OK" => \A b \in scope[p] : Delivered(b)

BatchInv ==
    /\ \A b \in Bets : settle[b] = "COMPLETED" => Delivered(b)
    /\ BatchesOK
    /\ PostersOK

\* What the rows and the ledger say of a batch stays true while rows are only added
\* and the ledger only grows.
LEMMA BatchFactsStay ==
  ASSUME applied \subseteq applied',
         \A b \in Bets : settle[b] # "NONE" =>
            settle'[b] # "NONE" /\ outcome'[b] = outcome[b] /\ batch'[b] = batch[b],
         \A b \in Bets : Credited(b) => settle[b] # "NONE"
  PROVE  /\ \A b \in Bets : settle[b] # "NONE" /\ Delivered(b) => Delivered(b)'
         /\ \A n : BookedInBatch(n) => BookedInBatch(n)'
         /\ \A r \in Requests : BatchOf(r) => BatchOf(r)'
<1>1. \A b \in Bets : Credited(b) => Credited(b)' /\ batch'[b] = batch[b]
    BY DEF Credited
<1>2. \A b \in Bets : settle[b] # "NONE" /\ LostInBatch(b) => LostInBatch(b)'
    BY <1>1 DEF LostInBatch
<1>3. \A n : BookedInBatch(n) => BookedInBatch(n)'
    BY <1>1 DEF BookedInBatch
<1>4. \A r \in Requests : BatchOf(r) => BatchOf(r)'
    BY DEF BatchOf, Requests, Codes
<1> QED BY <1>1, <1>2, <1>3, <1>4 DEF Delivered

\* Only rows are credited.
LEMMA CreditedHasRow ==
  ASSUME IInv
  PROVE  \A b \in Bets : Credited(b) => settle[b] # "NONE"
  BY DEF IInv, TypeOK, Codes, LedgerOK, Justified, Credited, Outcomes

\* A step that sends, books and marks nothing keeps the batches in order.
LEMMA QuietBatches ==
  ASSUME IInv, BatchInv,
         UNCHANGED <<applied, batches, wire>>,
         \A b \in Bets : settle[b] # "NONE" =>
            settle'[b] = settle[b] /\ outcome'[b] = outcome[b] /\ batch'[b] = batch[b],
         \A b \in Bets : settle'[b] = "COMPLETED" => settle[b] = "COMPLETED",
         \A q \in Procs : pc'[q] \in {"postBatch", "commitBatch"} =>
            /\ pc'[q] = pc[q] /\ run'[q] = run[q] /\ scope'[q] \subseteq scope[q]
            /\ pc[q] = "postBatch" => scope'[q] = scope[q]
            /\ reply'[q] = "OK" => reply[q] = "OK"
  PROVE  BatchInv'
<1>1. /\ \A b \in Bets : settle[b] # "NONE" /\ Delivered(b) => Delivered(b)'
      /\ \A n : BookedInBatch(n) => BookedInBatch(n)'
      /\ \A r \in Requests : BatchOf(r) => BatchOf(r)'
    BY CreditedHasRow, BatchFactsStay
<1>2. \A q \in Procs : scope[q] \subseteq Bets /\ (pc[q] \in {"postBatch", "commitBatch"} =>
         \A b \in scope[q] : settle[b] # "NONE")
    BY DEF IInv, TypeOK, HandlersOK
<1>3. \A b \in Bets : settle'[b] = "COMPLETED" => Delivered(b)'
    BY <1>1 DEF BatchInv
<1>4. BatchesOK'
    BY <1>1 DEF BatchInv, BatchesOK, IInv, TypeOK
<1>5. PostersOK'
    BY <1>1, <1>2 DEF BatchInv, PostersOK
<1> QED BY <1>3, <1>4, <1>5 DEF BatchInv

\* The merchant books a request: every row of a batch is then booked, or lost in it.
LEMMA BookedBatch ==
  ASSUME IInv, BatchInv, NEW r \in Requests, Book(r), \A c \in r.codes : Justified(c),
         r.batch # 0 => BatchOf(r),
         UNCHANGED <<settle, outcome, batch>>
  PROVE  /\ applied \subseteq applied'
         /\ \A n \in batches' : BookedInBatch(n)'
         /\ r.batch # 0 => \A b \in Bets : <<b, outcome[b]>> \in r.codes => Delivered(b)'
<1>1. applied \subseteq applied' /\ batches' \subseteq batches \cup ({r.batch} \ {0})
    BY DEF Book
<1>2. \A n : BookedInBatch(n) => BookedInBatch(n)'
    BY <1>1, CreditedHasRow, BatchFactsStay
<1>3. ASSUME r.batch # 0 PROVE BookedInBatch(r.batch)'
    <2>0. r.codes # {} /\ \A c \in r.codes :
             c[1] \in Bets /\ c = <<c[1], outcome[c[1]]>> /\ batch[c[1]] = r.batch
        BY <1>3 DEF BatchOf, Requests, Codes
    <2>1. CASE r.codes \cap applied' # {}
        <3>1. PICK c \in r.codes : c \in applied'
            BY <2>1
        <3> QED BY <2>0, <3>1 DEF BookedInBatch, Credited
    <2>2. CASE r.codes \cap applied' = {}
        <3>1. Known(r) /\ ~(r.codes \subseteq applied) /\ r.codes \cap applied = {}
            BY <2>0, <2>2, <1>1 DEF Book
        <3>2. r.batch \in batches
            BY <3>1 DEF Known
        <3> QED BY <1>2, <3>2 DEF BatchInv, BatchesOK
    <2> QED BY <2>1, <2>2
<1>4. \A n \in batches' : BookedInBatch(n)'
    BY <1>1, <1>2, <1>3 DEF BatchInv, BatchesOK
<1>5. ASSUME r.batch # 0, NEW b \in Bets, <<b, outcome[b]>> \in r.codes PROVE Delivered(b)'
    <2>1. batch[b] = r.batch
        BY <1>5 DEF BatchOf
    <2>2. CASE Known(r) /\ ~(r.codes \subseteq applied)
        <3>1. Duplicate # "everyCode"
            BY <2>2 DEF Known
        <3> QED BY <1>3, <1>5, <2>1, <3>1 DEF Delivered, LostInBatch, BookedInBatch
    <2>3. CASE ~Known(r) \/ r.codes \subseteq applied
        BY <1>1, <1>5, <2>3 DEF Book, Delivered, Credited
    <2> QED BY <2>2, <2>3
<1> QED BY <1>1, <1>4, <1>5

\* Placement, debit, settlement and staff void steps send and mark no batch.
LEMMA DecidingKeepsBatches ==
  ASSUME IInv, BatchInv, NEW p \in Procs, PlaceAndDebit(p) \/ SettleOrVoid(p)
  PROVE  BatchInv'
<1>0. TypeOK
    BY DEF IInv
<1> USE <1>0 DEF TypeOK, rows, local, merchant, Goto, Finish, Begin
<1>1. CASE \E b \in Bets : PlaceBet(p, b) \/ RetryPlacement(p, b) \/ PickDebit(p, b)
    BY <1>1, QuietBatches DEF PlaceBet, RetryPlacement, PickDebit
<1>2. CASE ReadBet(p)
    BY <1>2, QuietBatches DEF ReadBet
<1>3. CASE ReadOutbox(p)
    BY <1>3, QuietBatches DEF ReadOutbox
<1>4. CASE AcceptBet(p) \/ RejectBet(p) \/ RetryDebitLater(p)
    BY <1>4, QuietBatches DEF AcceptBet, RejectBet, RetryDebitLater
<1>5. CASE \E S \in SUBSET Bets : SelectAccepted(p, S)
    BY <1>5, QuietBatches DEF SelectAccepted
<1>6. ASSUME NEW b \in Bets, NEW o \in Outcomes, GradeBet(p, b, o) PROVE BatchInv'
    BY <1>6, QuietBatches DEF GradeBet
<1>7. ASSUME NEW b \in Bets, NEW o \in Outcomes, PersistOne(p, b, o) PROVE BatchInv'
    BY <1>7, QuietBatches DEF PersistOne
<1>8. ASSUME NEW b \in Bets, NEW o \in Outcomes, PersistConflict(p, b, o) PROVE BatchInv'
    BY <1>8, QuietBatches DEF PersistConflict
<1>9. ASSUME NEW b \in Bets, SkipBet(p, b) \/ StartVoid(p, b) PROVE BatchInv'
    BY <1>9, QuietBatches DEF SkipBet, StartVoid
<1>10. CASE StartPersist(p)
    BY <1>10, QuietBatches DEF StartPersist
<1>11. CASE PersistDone(p) \/ VoidBet(p)
    BY <1>11, QuietBatches DEF PersistDone, VoidBet
<1> QED
    BY <1>1, <1>2, <1>3, <1>4, <1>5, <1>6, <1>7, <1>8, <1>9, <1>10, <1>11
    DEF PlaceAndDebit, SettleOrVoid

\* Delivery sends due rows of one batch and marks the rows it has sent.
LEMMA DeliveryKeepsBatches ==
  ASSUME IInv, BatchInv, NEW p \in Procs, Deliver(p)
  PROVE  BatchInv'
<1>0. TypeOK
    BY DEF IInv
<1> USE <1>0 DEF TypeOK, rows, local, merchant, Goto, Finish, Begin
<1>1. CASE StartFlush(p) \/ StaffRetry(p) \/ NothingToFlush(p)
    BY <1>1, QuietBatches DEF StartFlush, StaffRetry, NothingToFlush
<1>2. ASSUME NEW n \in 0..MaxRuns, SelectBatch(p, n) PROVE BatchInv'
    <2>1. UNCHANGED <<rows, merchant>>
        BY <1>2 DEF SelectBatch
    <2>2. \A b \in Bets : Delivered(b)' = Delivered(b)
        BY <2>1 DEF Delivered, Credited, LostInBatch
    <2>3. BatchesOK'
        BY <2>1 DEF BatchInv, BatchesOK, BookedInBatch, Credited, BatchOf
    <2>4. scope'[p] = DueEntries(n) /\ scope'[p] # {} /\ run'[p] = n /\ pc'[p] = "postBatch"
        BY <1>2 DEF SelectBatch
    <2>5. \A q \in Procs \ {p} :
             scope'[q] = scope[q] /\ run'[q] = run[q] /\ pc'[q] = pc[q] /\ reply'[q] = reply[q]
        BY <1>2 DEF SelectBatch
    <2>6. PostersOK'
        <3>1. \A b \in scope'[p] : batch'[b] = run'[p]
            BY <2>1, <2>4 DEF DueEntries
        <3>2. \A q \in Procs : scope[q] \subseteq Bets
            OBVIOUS
        <3> HIDE DEF TypeOK
        <3>3. \A b : batch'[b] = batch[b]
            BY <2>1
        <3> QED BY <2>2, <2>4, <2>5, <3>1, <3>2, <3>3 DEF BatchInv, PostersOK
    <2> QED BY <2>1, <2>2, <2>3, <2>6 DEF BatchInv
<1>3. CASE CompleteBatch(p)
    <2>1. UNCHANGED <<outcome, batch, applied, batches, wire>>
        BY <1>3 DEF CompleteBatch
    <2>2. \A b \in Bets : Delivered(b)' = Delivered(b)
        BY <2>1 DEF Delivered, Credited, LostInBatch
    <2>3. \A b \in scope[p] : Delivered(b)
        BY <1>3 DEF CompleteBatch, BatchInv, PostersOK
    <2>4. \A b \in Bets : settle'[b] = IF b \in scope[p] THEN "COMPLETED" ELSE settle[b]
        BY <1>3 DEF CompleteBatch
    <2>5. BatchesOK'
        <3>1. \A n : BookedInBatch(n) => BookedInBatch(n)'
            BY <2>1 DEF BookedInBatch, Credited
        <3>2. \A r \in Requests : BatchOf(r) => BatchOf(r)'
            BY <2>1, <2>4 DEF BatchOf, Requests, Codes
        <3> QED BY <2>1, <3>1, <3>2 DEF BatchInv, BatchesOK
    <2>6. PostersOK'
        BY <1>3, <2>1, <2>2 DEF CompleteBatch, BatchInv, PostersOK
    <2> QED BY <2>2, <2>3, <2>4, <2>5, <2>6 DEF BatchInv
<1>4. ASSUME NEW b \in Bets, RetryEntryLater(p, b) PROVE BatchInv'
    BY <1>4, QuietBatches DEF RetryEntryLater
<1>5. ASSUME NEW b \in Bets, PickVoid(p, b) PROVE BatchInv'
    BY <1>5, QuietBatches DEF PickVoid
<1>6. CASE RetryVoidLater(p)
    BY <1>6, QuietBatches DEF RetryVoidLater
<1>7. CASE CompleteVoid(p)
    BY <1>7, QuietBatches DEF CompleteVoid
<1> QED BY <1>1, <1>2, <1>3, <1>4, <1>5, <1>6, <1>7 DEF Deliver

\* What a handler sends in a batch are rows of that batch.
LEMMA SentBatch ==
  ASSUME IInv, BatchInv, NEW p \in Procs, pc[p] \in Posting
  PROVE  /\ RequestOf(p) \in Requests
         /\ RequestOf(p).batch # 0 => BatchOf(RequestOf(p))
         /\ RequestOf(p).batch # 0 => pc[p] = "postBatch"
<1>1. CodesOf(p) \subseteq Codes /\ run[p] \in 0..MaxRuns /\ scope[p] \subseteq Bets
    BY CodesJustified DEF IInv, TypeOK
<1>2. pc[p] # "postBatch" => run[p] = 0
    BY DEF IInv, HandlersOK, Posting
<1>3. pc[p] = "postBatch" => BatchOf(RequestOf(p))
    <2>1. SUFFICES ASSUME pc[p] = "postBatch" PROVE BatchOf(RequestOf(p))
        OBVIOUS
    <2>2. RequestOf(p).codes = {<<b, outcome[b]>> : b \in scope[p]} /\ RequestOf(p).batch = run[p]
        BY <2>1 DEF RequestOf, CodesOf
    <2>3. scope[p] # {} /\ \A b \in scope[p] : settle[b] # "NONE" /\ batch[b] = run[p]
        BY <1>1, <2>1 DEF IInv, HandlersOK, BatchInv, PostersOK
    <2>4. RequestOf(p).codes # {}
        BY <2>2, <2>3
    <2>5. ASSUME NEW c \in RequestOf(p).codes
          PROVE  c[2] = outcome[c[1]] /\ settle[c[1]] # "NONE" /\ batch[c[1]] = run[p]
        BY <2>2, <2>3, <2>5
    <2> QED BY <2>2, <2>4, <2>5 DEF BatchOf
<1> QED BY <1>1, <1>2, <1>3 DEF RequestOf, Requests

\* A reply, a timeout or a late request books what was sent.
LEMMA NetworkKeepsBatches ==
  ASSUME IInv, BatchInv,
         (\E p \in Procs : Network(p)) \/ (\E r \in wire : LateApply(r))
  PROVE  BatchInv'
<1>0. TypeOK
    BY DEF IInv
<1>1. \A q \in Procs : scope[q] \subseteq Bets /\ (pc[q] \in {"postBatch", "commitBatch"} =>
         \A b \in scope[q] : settle[b] # "NONE")
    BY DEF IInv, TypeOK, HandlersOK
<1>2. ASSUME applied \subseteq applied', UNCHANGED <<settle, outcome, batch>>
      PROVE  /\ \A b \in Bets : settle[b] # "NONE" /\ Delivered(b) => Delivered(b)'
             /\ \A n : BookedInBatch(n) => BookedInBatch(n)'
             /\ \A r \in Requests : BatchOf(r) => BatchOf(r)'
    BY <1>2, CreditedHasRow, BatchFactsStay
<1>3. ASSUME NEW p \in Procs, MerchantApplies(p) PROVE BatchInv'
    <2>1. pc[p] \in Posting /\ Book(RequestOf(p)) /\ UNCHANGED <<settle, outcome, batch, wire, scope, run>>
        BY <1>3 DEF MerchantApplies, Answer, rows
    <2>2. RequestOf(p) \in Requests /\ (RequestOf(p).batch # 0 => BatchOf(RequestOf(p)))
          /\ \A c \in RequestOf(p).codes : Justified(c)
        BY <2>1, SentBatch, CodesJustified DEF RequestOf
    <2>3. /\ applied \subseteq applied'
          /\ \A n \in batches' : BookedInBatch(n)'
          /\ RequestOf(p).batch # 0 =>
                \A b \in Bets : <<b, outcome[b]>> \in RequestOf(p).codes => Delivered(b)'
        BY <2>1, <2>2, BookedBatch
    <2>4. BatchesOK'
        BY <1>0, <1>2, <2>1, <2>3 DEF BatchInv, BatchesOK, TypeOK
    <2>5. \A b \in Bets : settle'[b] = "COMPLETED" => Delivered(b)'
        BY <1>2, <2>1, <2>3 DEF BatchInv
    <2>6. \A q \in Procs \ {p} : pc'[q] = pc[q] /\ reply'[q] = reply[q]
        BY <1>0, <1>3 DEF MerchantApplies, Answer, Goto, TypeOK
    <2>7. pc'[p] # "postBatch" /\ (pc'[p] = "commitBatch" => pc[p] = "postBatch")
        BY <1>0, <1>3 DEF MerchantApplies, Answer, Goto, Posting, TypeOK
    <2>8. pc[p] = "postBatch" => \A b \in scope[p] : Delivered(b)'
        <3>1. SUFFICES ASSUME pc[p] = "postBatch" PROVE \A b \in scope[p] : Delivered(b)'
            OBVIOUS
        <3>2. RequestOf(p).codes = {<<b, outcome[b]>> : b \in scope[p]} /\ RequestOf(p).batch = run[p]
            BY <3>1 DEF RequestOf, CodesOf
        <3>3. CASE run[p] # 0
            BY <1>1, <2>3, <3>2, <3>3
        <3>4. CASE run[p] = 0
            <4>1. ~(0 \in batches)
                BY <1>0 DEF TypeOK
            <4>2. RequestOf(p).codes \subseteq applied'
                BY <2>1, <3>2, <3>4, <4>1 DEF Book, Known
            <4> QED BY <2>1, <3>2, <4>2 DEF Delivered, Credited
        <3> QED BY <3>3, <3>4
    <2>9. PostersOK'
        BY <1>1, <1>2, <2>1, <2>3, <2>6, <2>7, <2>8 DEF BatchInv, PostersOK
    <2> QED BY <2>4, <2>5, <2>9 DEF BatchInv
<1>4. ASSUME NEW p \in Procs, MerchantRefuses(p) PROVE BatchInv'
    <2>1. UNCHANGED <<settle, outcome, batch, applied, batches, wire, scope, run>>
        BY <1>4 DEF MerchantRefuses, Answer, rows, merchant
    <2>2. \A q \in Procs \ {p} : pc'[q] = pc[q] /\ reply'[q] = reply[q]
        BY <1>0, <1>4 DEF MerchantRefuses, Answer, Goto, TypeOK
    <2>3. pc'[p] # "postBatch" /\ (pc'[p] = "commitBatch" => pc[p] = "postBatch" /\ reply'[p] # "OK")
        BY <1>0, <1>4 DEF MerchantRefuses, Answer, Goto, Posting, TypeOK
    <2>4. BatchesOK'
        BY <1>0, <1>2, <2>1 DEF BatchInv, BatchesOK, TypeOK
    <2>5. PostersOK'
        BY <1>1, <1>2, <2>1, <2>2, <2>3 DEF BatchInv, PostersOK
    <2> QED BY <1>2, <2>1, <2>4, <2>5 DEF BatchInv
<1>5. ASSUME NEW p \in Procs, RequestTimesOut(p) \/ ErrorBody(p) PROVE BatchInv'
    <2>1. /\ pc[p] \in Posting /\ wire' = wire \cup {RequestOf(p)}
          /\ UNCHANGED <<settle, outcome, batch, applied, batches, scope, run>>
        BY <1>5 DEF RequestTimesOut, ErrorBody, Answer, rows
    <2>2. \A q \in Procs \ {p} : pc'[q] = pc[q] /\ reply'[q] = reply[q]
        BY <1>0, <1>5 DEF RequestTimesOut, ErrorBody, Answer, Goto, TypeOK
    <2>3. pc'[p] # "postBatch" /\ (pc'[p] = "commitBatch" => pc[p] = "postBatch" /\ reply'[p] # "OK")
        BY <1>0, <1>5 DEF RequestTimesOut, ErrorBody, Answer, Goto, Posting, TypeOK
    <2>4. BatchesOK'
        BY <1>0, <1>2, <2>1, SentBatch DEF BatchInv, BatchesOK, TypeOK
    <2>5. PostersOK'
        BY <1>1, <1>2, <2>1, <2>2, <2>3 DEF BatchInv, PostersOK
    <2> QED BY <1>2, <2>1, <2>4, <2>5 DEF BatchInv
<1>6. ASSUME NEW r \in wire, LateApply(r) PROVE BatchInv'
    <2>1. Book(r) /\ wire' = wire \ {r} /\ UNCHANGED <<settle, outcome, batch, pc, scope, run, reply>>
        BY <1>6 DEF LateApply, rows, local
    <2>2. r \in Requests /\ (r.batch # 0 => BatchOf(r)) /\ \A c \in r.codes : Justified(c)
        BY <1>0 DEF TypeOK, BatchInv, BatchesOK, IInv, LedgerOK
    <2>3. applied \subseteq applied' /\ \A n \in batches' : BookedInBatch(n)'
        BY <2>1, <2>2, BookedBatch
    <2>4. BatchesOK'
        BY <1>0, <1>2, <2>1, <2>3 DEF BatchInv, BatchesOK, TypeOK
    <2>5. PostersOK'
        BY <1>1, <1>2, <2>1, <2>3 DEF BatchInv, PostersOK
    <2> QED BY <1>2, <2>1, <2>3, <2>4, <2>5 DEF BatchInv
<1> QED BY <1>3, <1>4, <1>5, <1>6 DEF Network

\* Every step keeps the batches in order.
LEMMA NextBatches == IInv /\ BatchInv /\ [Next]_vars => BatchInv'
<1> SUFFICES ASSUME IInv, BatchInv, [Next]_vars PROVE BatchInv'
    OBVIOUS
<1>0. TypeOK
    BY DEF IInv
<1>1. CASE \E p \in Procs : PlaceAndDebit(p) \/ SettleOrVoid(p)
    BY <1>1, DecidingKeepsBatches
<1>2. CASE \E p \in Procs : Deliver(p)
    BY <1>2, DeliveryKeepsBatches
<1>3. CASE (\E p \in Procs : Network(p)) \/ (\E r \in wire : LateApply(r))
    BY <1>3, NetworkKeepsBatches
<1> USE <1>0 DEF TypeOK, rows, local, merchant, Goto, Finish
<1>4. ASSUME NEW p \in Procs, HandlerDies(p) PROVE BatchInv'
    BY <1>4, QuietBatches DEF HandlerDies
<1>5. ASSUME NEW type \in RowType, NEW b \in Bets, RetryTimeReached(type, b) PROVE BatchInv'
    BY <1>5, QuietBatches DEF RetryTimeReached
<1>6. CASE UNCHANGED vars
    BY <1>6, QuietBatches DEF vars
<1> HIDE DEF TypeOK
<1> QED BY <1>1, <1>2, <1>3, <1>4, <1>5, <1>6 DEF Next

\* COMPLETED means booked, for any merchant and however batches are gathered, lost,
\* repeated and delayed: a settlement row is marked without its movement only when
\* the merchant had booked another row of the same batch.
THEOREM CompletedMeansBooked == Spec => []CompletedRowsBooked
<1>1. Init => BatchInv
    BY DEF Init, BatchInv, BatchesOK, PostersOK
<1>2. IInv /\ BatchInv => CompletedRowsBooked
    BY DEF IInv, MarkedOK, Taken, BatchInv, Delivered, CompletedRowsBooked
<1> QED BY <1>1, <1>2, InitIInv, NextIInv, NextBatches, PTL DEF Spec

-----------------------------------------------------------------------------
(* The account.  A write of a bet's status maps to the account's step for   *)
(* it, raced when the status is not the one its writer had read; a request  *)
(* the merchant books maps to Book, because the chain of justifications     *)
(* says that a row, or a placed bet, stands behind every movement.          *)

AccountStep == [Account!Next]_(Account!vars)

Races == raced' = raced \cup {b \in Bets : Overwritten(b)}

Voided == {b \in Bets : void[b] # "NONE"}

\* A step that shows nothing of the account stutters.
LEMMA StutterMaps ==
  ASSUME Races, UNCHANGED <<bet, outcome, applied>>,
         \A b \in Bets : settle[b] = "NONE" => settle'[b] = "NONE",
         \A b \in Bets : (void'[b] = "NONE") <=> (void[b] = "NONE")
  PROVE  AccountStep
<1>1. \A b \in Bets : ~Overwritten(b)
    BY DEF Overwritten
<1>2. raced' = raced
    BY <1>1 DEF Races
<1>3. Voided' = Voided
    BY DEF Voided
<1> QED BY <1>2, <1>3 DEF AccountStep, Account!vars, Voided

\* A debit answer written to the bet.
LEMMA AnswerMaps ==
  ASSUME Races, TypeOK, NEW b \in Bets, NEW s \in {"ACCEPTED", "REJECTED"},
         bet' = [bet EXCEPT ![b] = s], UNCHANGED <<settle, outcome, void, applied>>,
         bet[b] # "NONE", s = "ACCEPTED" => Taken(b)
  PROVE  AccountStep
<1>1. bet \in [Bets -> BetStatus]
    BY DEF TypeOK
<1>2. \A x \in Bets : Overwritten(x) <=> x = b /\ bet[b] # s /\ bet[b] # "PENDING"
    BY <1>1 DEF Overwritten
<1>3. CASE bet[b] = s
    <2>1. bet' = bet
        BY <1>1, <1>3
    <2> QED BY <2>1, StutterMaps
<1>4. CASE bet[b] # s
    <2>1. raced' = IF bet[b] = "PENDING" THEN raced ELSE raced \cup {b}
        BY <1>2, <1>4 DEF Races
    <2>2. CASE s = "ACCEPTED"
        <3>1. Account!Accept(b)
            BY <2>1, <2>2 DEF Account!Accept, Account!Become, Taken
        <3> QED BY <3>1 DEF AccountStep, Account!Next
    <2>3. CASE s = "REJECTED"
        <3>1. Account!Reject(b)
            BY <2>1, <2>3 DEF Account!Reject, Account!Become
        <3> QED BY <3>1 DEF AccountStep, Account!Next
    <2> QED BY <2>2, <2>3
<1> QED BY <1>3, <1>4

\* A booked request is booked in the account.
LEMMA BookMaps ==
  ASSUME IInv, Races, NEW r, r.codes \subseteq Codes, \A c \in r.codes : Justified(c),
         Book(r), UNCHANGED <<bet, settle, outcome, void>>
  PROVE  AccountStep
<1>1. CASE Known(r)
    BY <1>1, StutterMaps DEF Book
<1>2. CASE ~Known(r)
    <2>1. ASSUME NEW c \in r.codes PROVE c \in Account!Bookable
        <3>1. c[1] \in Bets /\ c = <<c[1], c[2]>> /\ Justified(c)
            BY DEF Codes
        <3>2. outcome[c[1]] = c[2] /\ c[2] \in Outcomes => outcome[c[1]] # "NONE"
            BY DEF Outcomes
        <3>3. CASE c[2] = "DEBIT" /\ bet[c[1]] # "NONE"
            BY <3>1, <3>3 DEF Account!Bookable
        <3>4. CASE c[2] = "STAFF_VOID" /\ void[c[1]] # "NONE"
            BY <3>1, <3>4 DEF Account!Bookable
        <3>5. CASE c[2] \in Outcomes /\ outcome[c[1]] = c[2]
            BY <3>1, <3>2, <3>5 DEF Account!Bookable
        <3> QED BY <3>1, <3>3, <3>4, <3>5 DEF Justified
    <2>2. raced' = raced
        BY DEF Races, Overwritten
    <2>3. applied' = applied \cup r.codes
        BY <1>2 DEF Book
    <2>4. r.codes \in SUBSET Account!Bookable /\ Account!Book(r.codes)
        BY <2>1, <2>2, <2>3 DEF Account!Book
    <2> QED BY <2>4 DEF AccountStep, Account!Next
<1> QED BY <1>1, <1>2

\* Placement and debit steps are the account's Place, Accept and Reject.
LEMMA PlacementMaps ==
  ASSUME IInv, Races, NEW p \in Procs, PlaceAndDebit(p)
  PROVE  AccountStep
<1> USE DEF rows, merchant
<1>1. TypeOK /\ scope[p] \subseteq Bets
    BY DEF IInv, TypeOK
<1>2. ASSUME NEW b \in Bets, PlaceBet(p, b) PROVE AccountStep
    <2>1. bet[b] = "NONE" /\ bet' = [bet EXCEPT ![b] = "PENDING"]
          /\ UNCHANGED <<settle, outcome, void, applied>>
        BY <1>2 DEF PlaceBet
    <2>2. raced' = raced
        BY <1>1, <2>1 DEF Races, Overwritten, TypeOK
    <2>3. Account!Place(b)
        BY <2>1, <2>2 DEF Account!Place, Account!Become
    <2> QED BY <2>3 DEF AccountStep, Account!Next
<1>3. CASE AcceptBet(p)
    <2>1. PICK b \in scope[p] : bet' = [bet EXCEPT ![b] = "ACCEPTED"]
        BY <1>3 DEF AcceptBet
    <2>2. bet[b] # "NONE" /\ Taken(b)
        BY <1>3, <2>1 DEF AcceptBet, Debiting, IInv, HandlersOK, AnswersOK
    <2>3. UNCHANGED <<settle, outcome, void, applied>>
        BY <1>3 DEF AcceptBet
    <2> QED BY <1>1, <2>1, <2>2, <2>3, AnswerMaps
<1>4. CASE RejectBet(p)
    <2>1. PICK b \in scope[p] : bet' = [bet EXCEPT ![b] = "REJECTED"]
        BY <1>4 DEF RejectBet
    <2>2. bet[b] # "NONE"
        BY <1>4, <2>1 DEF RejectBet, Debiting, IInv, HandlersOK
    <2>3. UNCHANGED <<settle, outcome, void, applied>>
        BY <1>4 DEF RejectBet
    <2> QED BY <1>1, <2>1, <2>2, <2>3, AnswerMaps
<1>5. CASE \/ ReadBet(p) \/ ReadOutbox(p) \/ RetryDebitLater(p)
           \/ \E b \in Bets : RetryPlacement(p, b) \/ PickDebit(p, b)
    <2>1. UNCHANGED <<bet, outcome, applied, settle, void>>
        BY <1>5 DEF ReadBet, ReadOutbox, RetryDebitLater, RetryPlacement, PickDebit
    <2> QED BY <2>1, StutterMaps
<1> QED BY <1>2, <1>3, <1>4, <1>5 DEF PlaceAndDebit

\* A persisted grade is the account's Settle, a staff void its StaffVoid.
LEMMA OutcomeMaps ==
  ASSUME IInv, Races, NEW p \in Procs, SettleOrVoid(p)
  PROVE  AccountStep
<1> USE DEF rows, merchant
<1>1. TypeOK /\ scope[p] \subseteq Bets
    BY DEF IInv, TypeOK
<1>2. ASSUME NEW b \in Bets, NEW o \in Outcomes, PersistOne(p, b, o) PROVE AccountStep
    <2>1. /\ settle[b] = "NONE" /\ <<b, o>> \in graded[p]
          /\ bet' = [bet EXCEPT ![b] = o] /\ outcome' = [outcome EXCEPT ![b] = o]
          /\ settle' = [settle EXCEPT ![b] = "PENDING"] /\ UNCHANGED <<void, applied>>
        BY <1>2 DEF PersistOne
    <2>2. outcome[b] = "NONE" /\ bet[b] \notin {"NONE", "PENDING"}
        BY <2>1 DEF IInv, RowsOK, RowOK, HandlersOK, Decided
    <2>3. \A x \in Bets : Overwritten(x) <=> x = b /\ bet[b] # "ACCEPTED"
        BY <1>1, <2>1 DEF Overwritten, TypeOK, Outcomes
    <2>4. raced' = IF bet[b] = "ACCEPTED" THEN raced ELSE raced \cup {b}
        BY <2>3 DEF Races
    <2>5. Voided' = Voided
        BY <2>1 DEF Voided
    <2>6. Account!Settle(b, o)
        BY <2>1, <2>2, <2>4, <2>5 DEF Account!Settle, Account!Become, Voided
    <2> QED BY <2>6 DEF AccountStep, Account!Next, Outcomes, Account!Outcomes
<1>3. CASE VoidBet(p)
    <2>1. PICK b \in scope[p] :
             IF void[b] = "NONE"
             THEN bet' = [bet EXCEPT ![b] = "VOID"] /\ void' = [void EXCEPT ![b] = "PENDING"]
             ELSE UNCHANGED <<bet, void>>
        BY <1>3 DEF VoidBet
    <2>2. UNCHANGED <<settle, outcome, applied>> /\ pc[p] = "voidTx"
        BY <1>3 DEF VoidBet
    <2>3. CASE void[b] # "NONE"
        BY <2>1, <2>2, <2>3, StutterMaps
    <2>4. CASE void[b] = "NONE"
        <3>1. b \in Bets /\ bet[b] \notin {"NONE", "PENDING"}
            BY <1>1, <2>2 DEF IInv, HandlersOK, Decided
        <3>2. bet' = [bet EXCEPT ![b] = "VOID"] /\ void' = [void EXCEPT ![b] = "PENDING"]
            BY <2>1, <2>4
        <3>3. \A x \in Bets : Overwritten(x) <=> x = b /\ bet[b] # "ACCEPTED"
            BY <1>1, <2>2, <2>4, <3>1, <3>2 DEF Overwritten, TypeOK
        <3>4. raced' = IF bet[b] = "ACCEPTED" THEN raced ELSE raced \cup {b}
            BY <3>1, <3>3 DEF Races
        <3>5. Voided' = Voided \cup {b} /\ b \notin Voided
            BY <1>1, <2>4, <3>1, <3>2 DEF Voided, TypeOK
        <3>6. Account!StaffVoid(b)
            BY <2>2, <3>1, <3>2, <3>4, <3>5 DEF Account!StaffVoid, Account!Become, Voided
        <3> QED BY <3>1, <3>6 DEF AccountStep, Account!Next
    <2> QED BY <2>3, <2>4
<1>4. CASE \/ \E S \in SUBSET Bets : SelectAccepted(p, S)
           \/ \E b \in Bets, o \in Outcomes : GradeBet(p, b, o) \/ PersistConflict(p, b, o)
           \/ \E b \in Bets : SkipBet(p, b) \/ StartVoid(p, b)
           \/ StartPersist(p) \/ PersistDone(p)
    <2>1. UNCHANGED <<bet, outcome, applied, settle, void>>
        BY <1>4 DEF SelectAccepted, GradeBet, PersistConflict, SkipBet, StartVoid, StartPersist, PersistDone
    <2> QED BY <2>1, StutterMaps
<1> QED BY <1>2, <1>3, <1>4 DEF SettleOrVoid

\* Delivery only marks rows that exist: nothing the account shows.
LEMMA DeliveryMaps ==
  ASSUME IInv, Races, NEW p \in Procs, Deliver(p)
  PROVE  AccountStep
<1> USE DEF rows, merchant
<1>1. CASE CompleteBatch(p)
    <2>1. \A b \in Bets : settle[b] = "NONE" => settle'[b] = "NONE"
        BY <1>1 DEF CompleteBatch, IInv, HandlersOK
    <2>2. UNCHANGED <<bet, outcome, applied, void>>
        BY <1>1 DEF CompleteBatch
    <2> QED BY <2>1, <2>2, StutterMaps
<1>2. CASE CompleteVoid(p)
    <2>1. \A b \in Bets : (void'[b] = "NONE") <=> (void[b] = "NONE")
        BY <1>2 DEF CompleteVoid, IInv, HandlersOK
    <2>2. UNCHANGED <<bet, outcome, applied, settle>>
        BY <1>2 DEF CompleteVoid
    <2> QED BY <2>1, <2>2, StutterMaps
<1>3. CASE \/ StartFlush(p) \/ StaffRetry(p) \/ NothingToFlush(p) \/ RetryVoidLater(p)
           \/ \E n \in 0..MaxRuns : SelectBatch(p, n)
           \/ \E b \in Bets : RetryEntryLater(p, b) \/ PickVoid(p, b)
    <2>1. UNCHANGED <<bet, outcome, applied, settle, void>>
        BY <1>3 DEF StartFlush, StaffRetry, NothingToFlush, RetryVoidLater, SelectBatch, RetryEntryLater, PickVoid
    <2> QED BY <2>1, StutterMaps
<1> QED BY <1>1, <1>2, <1>3 DEF Deliver

\* Every step of the handlers, the merchant and the clock is a step of the account
\* or shows nothing of it.
LEMMA StepMaps == IInv /\ [RacesNext]_<<vars, raced>> => AccountStep
<1> SUFFICES ASSUME IInv, [RacesNext]_<<vars, raced>> PROVE AccountStep
    OBVIOUS
<1>1. CASE UNCHANGED <<vars, raced>>
    BY <1>1 DEF AccountStep, Account!vars, vars, rows, merchant
<1> SUFFICES ASSUME Next, Races PROVE AccountStep
    BY <1>1 DEF RacesNext, Races
<1>2. CASE \E p \in Procs : PlaceAndDebit(p)
    BY <1>2, PlacementMaps
<1>3. CASE \E p \in Procs : SettleOrVoid(p)
    BY <1>3, OutcomeMaps
<1>4. CASE \E p \in Procs : Deliver(p)
    BY <1>4, DeliveryMaps
<1>5. ASSUME NEW p \in Procs, MerchantApplies(p) PROVE AccountStep
    <2>1. pc[p] \in Posting /\ Book(RequestOf(p)) /\ UNCHANGED <<bet, settle, outcome, void>>
        BY <1>5 DEF MerchantApplies, Answer, rows
    <2>2. RequestOf(p).codes = CodesOf(p)
        BY DEF RequestOf
    <2>3. CodesOf(p) \subseteq Codes /\ \A c \in CodesOf(p) : Justified(c)
        BY <2>1, CodesJustified
    <2> QED BY <2>1, <2>2, <2>3, BookMaps
<1>6. ASSUME NEW r \in wire, LateApply(r) PROVE AccountStep
    <2>1. Book(r) /\ UNCHANGED <<bet, settle, outcome, void>>
        BY <1>6 DEF LateApply, rows
    <2>2. r.codes \subseteq Codes /\ \A c \in r.codes : Justified(c)
        BY DEF IInv, TypeOK, Requests, LedgerOK
    <2> QED BY <2>1, <2>2, BookMaps
<1>7. CASE \/ \E p \in Procs : \/ MerchantRefuses(p) \/ RequestTimesOut(p) \/ ErrorBody(p)
                              \/ HandlerDies(p)
           \/ \E type \in RowType, b \in Bets : RetryTimeReached(type, b)
    <2>1. UNCHANGED <<bet, outcome, applied, settle, void>>
        BY <1>7 DEF MerchantRefuses, RequestTimesOut, ErrorBody, Answer, HandlerDies, RetryTimeReached,
           rows, merchant
    <2> QED BY <2>1, StutterMaps
<1> QED BY <1>2, <1>3, <1>4, <1>5, <1>6, <1>7 DEF Next, Network

\* Whatever overlaps, crashes, gets lost or arrives late, the handlers, the outbox and
\* the merchant implement the account: a stake is booked before its bet is accepted,
\* a bet is settled once and voided by staff once, and only that is ever booked.
THEOREM Implementation == RacesSpec => ImplementsAccount
<1>1. RacesInit => IInv /\ Account!Init
    BY InitIInv DEF RacesInit, Init, Account!Init
<1>2. IInv /\ [RacesNext]_<<vars, raced>> => IInv'
    BY NextIInv DEF RacesNext, vars
<1> QED BY <1>1, <1>2, StepMaps, PTL DEF RacesSpec, ImplementsAccount, Account!Spec, AccountStep

-----------------------------------------------------------------------------
(* What the account gives the bets that no race has touched.                *)

\* The status of a bet and of its rows tell one story.
OneStory(b) ==
    /\ outcome[b] # "NONE" => bet[b] = outcome[b] /\ void[b] = "NONE"
    /\ void[b] # "NONE" => bet[b] = "VOID" /\ outcome[b] = "NONE"

CleanInv == \A b \in Bets \ raced : OneStory(b)

\* No step of the account, seen from an unraced bet, tells another one.
LEMMA CleanKept ==
  ASSUME TypeOK, CleanInv, AccountStep
  PROVE  CleanInv'
<1> USE DEF CleanInv, OneStory
<1>0. /\ bet \in [Bets -> BetStatus] /\ outcome \in [Bets -> Outcomes \cup {"NONE"}]
      /\ \A b \in Bets : b \in Voided <=> void[b] # "NONE"
      /\ \A b \in Bets : b \in Voided' <=> void'[b] # "NONE"
    BY DEF TypeOK, Voided
<1>1. CASE UNCHANGED Account!vars
    <2>1. UNCHANGED <<bet, outcome, Voided, raced>>
        BY <1>1 DEF Account!vars, Voided
    <2> QED BY <1>0, <2>1
<1>2. ASSUME NEW b \in Bets, Account!Place(b) \/ Account!Accept(b) \/ Account!Reject(b)
      PROVE  CleanInv'
    <2>1. /\ UNCHANGED <<outcome, Voided>> /\ raced \subseteq raced'
          /\ \A x \in Bets : x # b => bet'[x] = bet[x]
          /\ b \in raced' \/ bet[b] \in {"NONE", "PENDING"}
        BY <1>0, <1>2 DEF Account!Place, Account!Accept, Account!Reject, Account!Become, Voided
    <2> QED BY <1>0, <2>1 DEF Outcomes
<1>3. ASSUME NEW b \in Bets, NEW o \in Outcomes, Account!Settle(b, o) PROVE CleanInv'
    <2>1. /\ UNCHANGED Voided /\ raced \subseteq raced'
          /\ \A x \in Bets : x # b => bet'[x] = bet[x] /\ outcome'[x] = outcome[x]
          /\ bet'[b] = o /\ outcome'[b] = o
          /\ b \in raced' \/ bet[b] = "ACCEPTED"
        BY <1>0, <1>3 DEF Account!Settle, Account!Become, Voided
    <2> QED BY <1>0, <2>1 DEF Outcomes
<1>4. ASSUME NEW b \in Bets, Account!StaffVoid(b) PROVE CleanInv'
    <2>1. /\ UNCHANGED outcome /\ Voided' = Voided \cup {b} /\ raced \subseteq raced'
          /\ \A x \in Bets : x # b => bet'[x] = bet[x]
          /\ bet'[b] = "VOID"
          /\ b \in raced' \/ bet[b] = "ACCEPTED"
        BY <1>0, <1>4 DEF Account!StaffVoid, Account!Become, Voided
    <2> QED BY <1>0, <2>1 DEF Outcomes
<1>5. ASSUME NEW movements, Account!Book(movements) PROVE CleanInv'
    <2>1. UNCHANGED <<bet, outcome, Voided, raced>>
        BY <1>5 DEF Account!Book, Voided
    <2> QED BY <1>0, <2>1
<1> HIDE DEF CleanInv
<1> QED BY <1>1, <1>2, <1>3, <1>4, <1>5 DEF AccountStep, Account!Next, Outcomes, Account!Outcomes

\* Every credit in the ledger is the one its bet's status calls for, and there is one
\* at most, unless a handler has overwritten that status unseen: crashes, retries, lost
\* and late requests alone never pay a bet twice or against its status.
THEOREM LedgerAgreesWithBets == RacesSpec => []CreditMatchesStatus
<1>1. RacesInit => IInv /\ CleanInv
    BY InitIInv DEF RacesInit, Init, CleanInv, OneStory
<1>2. IInv /\ CleanInv /\ [RacesNext]_<<vars, raced>> => (IInv /\ CleanInv)'
    BY NextIInv, StepMaps, CleanKept DEF RacesNext, vars, IInv
<1>3. ASSUME IInv, CleanInv PROVE CreditMatchesStatus
    <2>1. SUFFICES ASSUME NEW c \in applied, c[2] # "DEBIT", c[1] \notin raced
                   PROVE  bet[c[1]] \in Outcomes /\ c = CreditDue(c[1])
        BY DEF CreditMatchesStatus
    <2>2. c[1] \in Bets /\ c = <<c[1], c[2]>> /\ Justified(c) /\ OneStory(c[1])
        BY <1>3, <2>1 DEF IInv, TypeOK, Codes, LedgerOK, CleanInv
    <2> QED BY <2>1, <2>2 DEF Justified, OneStory, CreditDue, Outcomes
<1> QED BY <1>1, <1>2, <1>3, PTL DEF RacesSpec

=============================================================================
