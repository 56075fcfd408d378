---------------------------- MODULE BetLifecycle ----------------------------
(***************************************************************************)
(* The life of a bet between the sportsbook's database and the merchant's  *)
(* wallet: placement, stake debit, grading, staff void, and the outbox     *)
(* rows through which money moves.                                         *)
(*                                                                         *)
(* Every handler (player request, outbox tick, results cron, staff call)   *)
(* is a process.  A step of a process is one database call or one HTTP     *)
(* call; between two steps any other process may run, because the code     *)
(* takes no row lock and its interval timers and instances overlap.        *)
(***************************************************************************)
EXTENDS Naturals, FiniteSets

CONSTANTS
    Bets,           \* idempotency keys: at most one bet row exists for each
    DebitProcs,     \* handlers that may debit a stake
    OutcomeProcs,   \* handlers that may grade bets or void one for staff
    DeliveryProcs,  \* handlers that deliver settlement batches and voids
    MaxRuns,        \* bound on settlement runs, hence on batch ids
    Duplicate       \* which batch the merchant answers as a duplicate, without
                    \* booking any of it: one of known transactions only, one
                    \* with a known transaction, or one with a known batchId

ASSUME MaxRunsAssumption == MaxRuns \in Nat
ASSUME DuplicateAssumption == Duplicate \in {"everyCode", "anyCode", "batchId"}

Procs == DebitProcs \cup OutcomeProcs \cup DeliveryProcs

Outcomes == {"WON", "LOST", "VOID"}
BetStatus == {"NONE", "PENDING", "ACCEPTED", "REJECTED"} \cup Outcomes
RowStatus == {"NONE", "PENDING", "COMPLETED", "FAILED"}
RowType == {"DEBIT", "SETTLE", "STAFF_VOID"}

\* A transactionCode is a function of the bet and of the movement.  The debit
\* code is random, but it is written with the bet and never replaced.
Codes == Bets \X ({"DEBIT", "STAFF_VOID"} \cup Outcomes)
Requests == [codes : SUBSET Codes, batch : 0..MaxRuns]

VARIABLES
    bet,      \* Bet.status, "NONE" before bet.create
    debit,    \* status of the bet's WALLET_RESERVE outbox row
    settle,   \* status of its WALLET_SETTLE row
    outcome,  \* outcome in that row's payload
    batch,    \* batchId of that row, 0 for none
    void,     \* status of its WALLET_STAFF_VOID row
    waiting,  \* rows <<type, bet>> whose nextRetryAt is still ahead
    lastRun,  \* batch ids handed out so far
    pc, scope, graded, run, reply,  \* the local state of each handler
    applied,  \* transaction codes in the merchant's ledger
    batches,  \* batch ids the merchant has applied
    wire      \* requests that timed out here and may still reach the merchant

rows == <<bet, debit, settle, outcome, batch, void, waiting, lastRun>>
local == <<pc, scope, graded, run, reply>>
merchant == <<applied, batches, wire>>
vars == <<rows, local, merchant>>

PCs == {"idle", "readBet", "readOutbox", "postDebit", "commitDebit",
        "grade", "persist", "voidTx", "flush", "postBatch", "commitBatch",
        "postVoid", "commitVoid"}

TypeOK ==
    /\ bet \in [Bets -> BetStatus]
    /\ debit \in [Bets -> RowStatus]
    /\ settle \in [Bets -> RowStatus]
    /\ outcome \in [Bets -> Outcomes \cup {"NONE"}]
    /\ batch \in [Bets -> 0..MaxRuns]
    /\ void \in [Bets -> RowStatus]
    /\ waiting \subseteq RowType \X Bets
    /\ lastRun \in 0..MaxRuns
    /\ pc \in [Procs -> PCs]
    /\ scope \in [Procs -> SUBSET Bets]
    /\ graded \in [Procs -> SUBSET (Bets \X Outcomes)]
    /\ run \in [Procs -> 0..MaxRuns]
    /\ reply \in [Procs -> {"NONE", "OK", "INSUFFICIENT", "UNAVAILABLE"}]
    /\ applied \subseteq Codes
    /\ batches \subseteq 1..MaxRuns
    /\ wire \subseteq Requests

Init ==
    /\ bet = [b \in Bets |-> "NONE"]
    /\ debit = [b \in Bets |-> "NONE"]
    /\ settle = [b \in Bets |-> "NONE"]
    /\ outcome = [b \in Bets |-> "NONE"]
    /\ batch = [b \in Bets |-> 0]
    /\ void = [b \in Bets |-> "NONE"]
    /\ waiting = {}
    /\ lastRun = 0
    /\ pc = [p \in Procs |-> "idle"]
    /\ scope = [p \in Procs |-> {}]
    /\ graded = [p \in Procs |-> {}]
    /\ run = [p \in Procs |-> 0]
    /\ reply = [p \in Procs |-> "NONE"]
    /\ applied = {}
    /\ batches = {}
    /\ wire = {}

-----------------------------------------------------------------------------
(* Handlers                                                                *)

Goto(p, label) == pc' = [pc EXCEPT ![p] = label]

\* The handler returns, throws or dies: nothing of its local state survives.
Finish(p) ==
    /\ Goto(p, "idle")
    /\ scope' = [scope EXCEPT ![p] = {}]
    /\ graded' = [graded EXCEPT ![p] = {}]
    /\ run' = [run EXCEPT ![p] = 0]
    /\ reply' = [reply EXCEPT ![p] = "NONE"]

Begin(p, label, S) ==
    /\ pc[p] = "idle"
    /\ Goto(p, label)
    /\ scope' = [scope EXCEPT ![p] = S]
    /\ UNCHANGED <<graded, run, reply>>

\* A crash, a redeploy, or a database error anywhere in a handler.
HandlerDies(p) ==
    /\ pc[p] # "idle"
    /\ Finish(p)
    /\ UNCHANGED <<rows, merchant>>

\* scheduleRetry: the row stays PENDING and waits for its nextRetryAt.
Backoff(type, b) == waiting' = waiting \cup {<<type, b>>}

RetryTimeReached(type, b) ==
    /\ <<type, b>> \in waiting
    /\ waiting' = waiting \ {<<type, b>>}
    /\ UNCHANGED <<bet, debit, settle, outcome, batch, void, lastRun,
                   local, merchant>>

-----------------------------------------------------------------------------
(* Faulty variants.  Each one changes one operation below the way a slip in *)
(* its code would; the properties have to tell it from the real one.        *)

\* Accepts on any reply, a timeout included.
AcceptOnAnyReply(p) ==
    /\ pc[p] = "commitDebit" /\ reply[p] # "NONE"
    /\ \E b \in scope[p] :
          /\ bet' = [bet EXCEPT ![b] = "ACCEPTED"]
          /\ debit' = [debit EXCEPT ![b] = "COMPLETED"]
    /\ Finish(p)
    /\ UNCHANGED <<settle, outcome, batch, void, waiting, lastRun, merchant>>

\* Swaps the two status columns.
RejectSwapsColumns(p) ==
    /\ pc[p] = "commitDebit" /\ reply[p] = "INSUFFICIENT"
    /\ \E b \in scope[p] :
          /\ bet' = [bet EXCEPT ![b] = "FAILED"]
          /\ debit' = [debit EXCEPT ![b] = "REJECTED"]
    /\ Finish(p)
    /\ UNCHANGED <<settle, outcome, batch, void, waiting, lastRun, merchant>>

\* Gives a debit up after its first failure.
DebitGivesUp(p) ==
    /\ pc[p] = "commitDebit" /\ reply[p] = "UNAVAILABLE"
    /\ \E b \in scope[p] : debit' = [debit EXCEPT ![b] = "FAILED"]
    /\ Finish(p)
    /\ UNCHANGED <<bet, settle, outcome, batch, void, waiting, lastRun, merchant>>

\* Upserts the SETTLE row instead of creating it.
PersistUpserts(p, b, o) ==
    /\ pc[p] = "persist"
    /\ <<b, o>> \in graded[p]
    /\ bet' = [bet EXCEPT ![b] = o]
    /\ settle' = [settle EXCEPT ![b] = "PENDING"]
    /\ outcome' = [outcome EXCEPT ![b] = o]
    /\ batch' = [batch EXCEPT ![b] = run[p]]
    /\ graded' = [graded EXCEPT ![p] = @ \ {<<b, o>>}]
    /\ UNCHANGED <<debit, void, waiting, lastRun, pc, scope, run, reply, merchant>>

\* Writes the status outside the transaction that the unique index aborts.
ConflictKeepsStatus(p, b, o) ==
    /\ pc[p] = "persist"
    /\ <<b, o>> \in graded[p]
    /\ settle[b] # "NONE"
    /\ bet' = [bet EXCEPT ![b] = o]
    /\ Finish(p)
    /\ UNCHANGED <<debit, settle, outcome, batch, void, waiting, lastRun, merchant>>

\* Voids a bet in any status.
VoidUnchecked(p, b) ==
    /\ p \in OutcomeProcs
    /\ bet[b] # "NONE"
    /\ Begin(p, "voidTx", {b})
    /\ UNCHANGED <<rows, merchant>>

\* Marks the batch delivered whatever the merchant answered.
CompleteOnAnyReply(p) ==
    /\ pc[p] = "commitBatch" /\ reply[p] # "NONE"
    /\ settle' = [b \in Bets |-> IF b \in scope[p] THEN "COMPLETED" ELSE settle[b]]
    /\ Finish(p)
    /\ UNCHANGED <<bet, debit, outcome, batch, void, waiting, lastRun, merchant>>

\* Marks every open row of the tenant, not only the rows of the batch it sent.
CompleteEveryRow(p) ==
    /\ pc[p] = "commitBatch" /\ reply[p] = "OK"
    /\ settle' = [b \in Bets |-> IF settle[b] = "PENDING" THEN "COMPLETED" ELSE settle[b]]
    /\ Finish(p)
    /\ UNCHANGED <<bet, debit, outcome, batch, void, waiting, lastRun, merchant>>

\* Gives a staff void up after its first failure.
VoidGivesUp(p) ==
    /\ pc[p] = "commitVoid" /\ reply[p] = "UNAVAILABLE"
    /\ void' = [b \in Bets |-> IF b \in scope[p] THEN "FAILED" ELSE void[b]]
    /\ Finish(p)
    /\ UNCHANGED <<bet, debit, settle, outcome, batch, waiting, lastRun, merchant>>

-----------------------------------------------------------------------------
(* Placement and stake debit                                               *)

\* placeBet on a fresh key: one bet.create writes the bet and its debit row.
\* A concurrent create of the same key fails on the unique index.
PlaceBet(p, b) ==
    /\ p \in DebitProcs
    /\ bet[b] = "NONE"
    /\ Begin(p, "readBet", {b})
    /\ bet' = [bet EXCEPT ![b] = "PENDING"]
    /\ debit' = [debit EXCEPT ![b] = "PENDING"]
    /\ UNCHANGED <<settle, outcome, batch, void, waiting, lastRun, merchant>>

\* placeBet on a known key whose bet is still PENDING.
RetryPlacement(p, b) ==
    /\ p \in DebitProcs
    /\ bet[b] = "PENDING"
    /\ Begin(p, "readBet", {b})
    /\ UNCHANGED <<rows, merchant>>

\* processPendingDebits: the worker's list holds due PENDING rows; an entry
\* may be stale by the time the loop reaches it.
PickDebit(p, b) ==
    /\ p \in DebitProcs
    /\ debit[b] = "PENDING"
    /\ <<"DEBIT", b>> \notin waiting
    /\ Begin(p, "readBet", {b})
    /\ UNCHANGED <<rows, merchant>>

\* processSingleDebit returns early for ACCEPTED and REJECTED bets only.
ReadBet(p) ==
    /\ pc[p] = "readBet"
    /\ \E b \in scope[p] :
          IF bet[b] \in {"ACCEPTED", "REJECTED"}
          THEN Finish(p)
          ELSE Goto(p, "readOutbox") /\ UNCHANGED <<scope, graded, run, reply>>
    /\ UNCHANGED <<rows, merchant>>

ReadOutbox(p) ==
    /\ pc[p] = "readOutbox"
    /\ \E b \in scope[p] :
          IF debit[b] \in {"NONE", "COMPLETED"}
          THEN Finish(p)
          ELSE Goto(p, "postDebit") /\ UNCHANGED <<scope, graded, run, reply>>
    /\ UNCHANGED <<rows, merchant>>

\* The transaction after a successful post: it does not look at the bet again.
AcceptBet(p) ==
    /\ pc[p] = "commitDebit" /\ reply[p] = "OK"
    /\ \E b \in scope[p] :
          /\ bet' = [bet EXCEPT ![b] = "ACCEPTED"]
          /\ debit' = [debit EXCEPT ![b] = "COMPLETED"]
    /\ Finish(p)
    /\ UNCHANGED <<settle, outcome, batch, void, waiting, lastRun, merchant>>

\* rejectBet, as unconditional as the above.
RejectBet(p) ==
    /\ pc[p] = "commitDebit" /\ reply[p] = "INSUFFICIENT"
    /\ \E b \in scope[p] :
          /\ bet' = [bet EXCEPT ![b] = "REJECTED"]
          /\ debit' = [debit EXCEPT ![b] = "FAILED"]
    /\ Finish(p)
    /\ UNCHANGED <<settle, outcome, batch, void, waiting, lastRun, merchant>>

\* No usable answer, or the transaction after a good one failed.
RetryDebitLater(p) ==
    /\ pc[p] = "commitDebit" /\ reply[p] \in {"OK", "UNAVAILABLE"}
    /\ \E b \in scope[p] : Backoff("DEBIT", b)
    /\ Finish(p)
    /\ UNCHANGED <<bet, debit, settle, outcome, batch, void, lastRun, merchant>>

-----------------------------------------------------------------------------
(* Settlement run and staff void                                           *)

\* settleBatch reads its oldest ACCEPTED bets, trySettleBet a single one.
SelectAccepted(p, S) ==
    /\ p \in OutcomeProcs
    /\ S # {}
    /\ S \subseteq {b \in Bets : bet[b] = "ACCEPTED"}
    /\ Begin(p, "grade", S)
    /\ UNCHANGED <<rows, merchant>>

\* gradeBet reads the bet again and finds an outcome in the scores it sees.
\* Scores and market states may be overwritten between two runs, so any
\* outcome is possible each time.
GradeBet(p, b, o) ==
    /\ pc[p] = "grade"
    /\ b \in scope[p]
    /\ bet[b] = "ACCEPTED"
    /\ scope' = [scope EXCEPT ![p] = @ \ {b}]
    /\ graded' = [graded EXCEPT ![p] = @ \cup {<<b, o>>}]
    /\ UNCHANGED <<pc, run, reply, rows, merchant>>

\* gradeBet returns null: no longer ACCEPTED, or a leg is not decided yet.
SkipBet(p, b) ==
    /\ pc[p] = "grade"
    /\ b \in scope[p]
    /\ scope' = [scope EXCEPT ![p] = @ \ {b}]
    /\ UNCHANGED <<pc, graded, run, reply, rows, merchant>>

\* All bets graded.  The run gets one batchId; with nothing graded it ends.
StartPersist(p) ==
    /\ pc[p] = "grade" /\ scope[p] = {}
    /\ IF graded[p] = {}
       THEN Finish(p) /\ UNCHANGED lastRun
       ELSE /\ lastRun < MaxRuns
            /\ lastRun' = lastRun + 1
            /\ run' = [run EXCEPT ![p] = lastRun + 1]
            /\ Goto(p, "persist")
            /\ UNCHANGED <<scope, graded, reply>>
    /\ UNCHANGED <<bet, debit, settle, outcome, batch, void, waiting, merchant>>

\* persistGradedSettlements, one bet per transaction: status and SETTLE row.
PersistOne(p, b, o) ==
    /\ pc[p] = "persist"
    /\ <<b, o>> \in graded[p]
    /\ settle[b] = "NONE"
    /\ bet' = [bet EXCEPT ![b] = o]
    /\ settle' = [settle EXCEPT ![b] = "PENDING"]
    /\ outcome' = [outcome EXCEPT ![b] = o]
    /\ batch' = [batch EXCEPT ![b] = run[p]]
    /\ graded' = [graded EXCEPT ![p] = @ \ {<<b, o>>}]
    /\ UNCHANGED <<debit, void, waiting, lastRun, pc, scope, run, reply, merchant>>

\* The unique (betId, type) index refuses a second SETTLE row.  Nothing
\* catches the error: the rest of the run and its flush are lost.
PersistConflict(p, b, o) ==
    /\ pc[p] = "persist"
    /\ <<b, o>> \in graded[p]
    /\ settle[b] # "NONE"
    /\ Finish(p)
    /\ UNCHANGED <<rows, merchant>>

PersistDone(p) ==
    /\ pc[p] = "persist" /\ graded[p] = {}
    /\ Goto(p, "flush")
    /\ run' = [run EXCEPT ![p] = 0]
    /\ UNCHANGED <<scope, graded, reply, rows, merchant>>

\* voidBet: the status check is one read ...
StartVoid(p, b) ==
    /\ p \in OutcomeProcs
    /\ bet[b] = "ACCEPTED"
    /\ Begin(p, "voidTx", {b})
    /\ UNCHANGED <<rows, merchant>>

\* ... and the transaction does not repeat it.  A second STAFF_VOID row for
\* the bet fails on the unique index.
VoidBet(p) ==
    /\ pc[p] = "voidTx"
    /\ \E b \in scope[p] :
          IF void[b] = "NONE"
          THEN /\ bet' = [bet EXCEPT ![b] = "VOID"]
               /\ void' = [void EXCEPT ![b] = "PENDING"]
          ELSE UNCHANGED <<bet, void>>
    /\ Finish(p)
    /\ UNCHANGED <<debit, settle, outcome, batch, waiting, lastRun, merchant>>

-----------------------------------------------------------------------------
(* Outbox delivery                                                         *)

DueEntries(n) ==
    {b \in Bets : /\ settle[b] = "PENDING"
                  /\ batch[b] = n
                  /\ <<"SETTLE", b>> \notin waiting}

\* A worker tick comes to its settlement batches.
StartFlush(p) ==
    /\ p \in DeliveryProcs
    /\ Begin(p, "flush", {})
    /\ \E b \in Bets : settle[b] = "PENDING"
    /\ UNCHANGED <<rows, merchant>>

\* retryWalletSettlementTransmission clears the backoff of every PENDING row.
StaffRetry(p) ==
    /\ p \in DeliveryProcs
    /\ \E b \in Bets : settle[b] = "PENDING"
    /\ Begin(p, "flush", {})
    /\ waiting' = waiting \ {<<"SETTLE", b>> : b \in {c \in Bets : settle[c] = "PENDING"}}
    /\ UNCHANGED <<bet, debit, settle, outcome, batch, void, lastRun, merchant>>

\* flushSettlementBatchForGroup: the anchor row gives the batchId, a second
\* query every due row of that batch.  Which batch comes first depends on
\* createdAt and on commit times, so any batch with due rows may.
SelectBatch(p, n) ==
    /\ pc[p] = "flush"
    /\ DueEntries(n) # {}
    /\ scope' = [scope EXCEPT ![p] = DueEntries(n)]
    /\ run' = [run EXCEPT ![p] = n]
    /\ Goto(p, "postBatch")
    /\ UNCHANGED <<graded, reply, rows, merchant>>

NothingToFlush(p) ==
    /\ pc[p] = "flush"
    /\ \A n \in 0..MaxRuns : DueEntries(n) = {}
    /\ Finish(p)
    /\ UNCHANGED <<rows, merchant>>

CompleteBatch(p) ==
    /\ pc[p] = "commitBatch" /\ reply[p] = "OK"
    /\ settle' = [b \in Bets |-> IF b \in scope[p] THEN "COMPLETED" ELSE settle[b]]
    /\ Finish(p)
    /\ UNCHANGED <<bet, debit, outcome, batch, void, waiting, lastRun, merchant>>

\* The post or the update after it failed: each entry of the batch is
\* rescheduled by an update of its own.
RetryEntryLater(p, b) ==
    /\ pc[p] = "commitBatch" /\ reply[p] \in {"OK", "UNAVAILABLE"}
    /\ b \in scope[p]
    /\ Backoff("SETTLE", b)
    /\ IF scope[p] = {b}
       THEN Finish(p)
       ELSE /\ scope' = [scope EXCEPT ![p] = @ \ {b}]
            /\ reply' = [reply EXCEPT ![p] = "UNAVAILABLE"]
            /\ UNCHANGED <<pc, graded, run>>
    /\ UNCHANGED <<bet, debit, settle, outcome, batch, void, lastRun, merchant>>

\* processPendingStaffVoids: the row is not read again before it is posted.
PickVoid(p, b) ==
    /\ p \in DeliveryProcs
    /\ void[b] = "PENDING"
    /\ <<"STAFF_VOID", b>> \notin waiting
    /\ Begin(p, "postVoid", {b})
    /\ UNCHANGED <<rows, merchant>>

CompleteVoid(p) ==
    /\ pc[p] = "commitVoid" /\ reply[p] = "OK"
    /\ void' = [b \in Bets |-> IF b \in scope[p] THEN "COMPLETED" ELSE void[b]]
    /\ Finish(p)
    /\ UNCHANGED <<bet, debit, settle, outcome, batch, waiting, lastRun, merchant>>

RetryVoidLater(p) ==
    /\ pc[p] = "commitVoid" /\ reply[p] \in {"OK", "UNAVAILABLE"}
    /\ \E b \in scope[p] : Backoff("STAFF_VOID", b)
    /\ Finish(p)
    /\ UNCHANGED <<bet, debit, settle, outcome, batch, void, lastRun, merchant>>

-----------------------------------------------------------------------------
(* The merchant and the network                                            *)

Posting == {"postDebit", "postBatch", "postVoid"}

\* Settlement rows carry their outcome in the payload.
CodesOf(p) ==
    IF pc[p] = "postDebit" THEN {<<b, "DEBIT">> : b \in scope[p]}
    ELSE IF pc[p] = "postVoid" THEN {<<b, "STAFF_VOID">> : b \in scope[p]}
    ELSE {<<b, outcome[b]>> : b \in scope[p]}

RequestOf(p) == [codes |-> CodesOf(p), batch |-> run[p]]

\* What the merchant answers as a duplicate, which the client takes for success
\* of the whole request.
Known(r) ==
    \/ r.codes \subseteq applied
    \/ Duplicate = "anyCode" /\ r.batch # 0 /\ r.codes \cap applied # {}
    \/ Duplicate = "batchId" /\ r.batch \in batches

Book(r) ==
    /\ applied' = IF Known(r) THEN applied ELSE applied \cup r.codes
    /\ batches' = IF r.batch = 0 THEN batches ELSE batches \cup {r.batch}

\* The reply is in; the handler goes on to its commit.
Answer(p, answer) ==
    /\ pc[p] \in Posting
    /\ reply' = [reply EXCEPT ![p] = answer]
    /\ Goto(p, CASE pc[p] = "postDebit" -> "commitDebit"
                 [] pc[p] = "postBatch" -> "commitBatch"
                 [] pc[p] = "postVoid"  -> "commitVoid")
    /\ UNCHANGED <<scope, graded, run, rows>>

MerchantApplies(p) ==
    /\ Answer(p, "OK")
    /\ Book(RequestOf(p))
    /\ UNCHANGED wire

\* success: false in the body.  On a debit the client takes every such body
\* for lack of funds, on a credit for an unavailable merchant.
MerchantRefuses(p) ==
    /\ pc[p] \in Posting
    /\ ~Known(RequestOf(p))
    /\ Answer(p, IF pc[p] = "postDebit" THEN "INSUFFICIENT" ELSE "UNAVAILABLE")
    /\ UNCHANGED merchant

\* 5 s timeout, connection reset, open circuit: the request may be lost or
\* may still be applied later.
RequestTimesOut(p) ==
    /\ Answer(p, "UNAVAILABLE")
    /\ wire' = wire \cup {RequestOf(p)}
    /\ UNCHANGED <<applied, batches>>

\* A 5xx with a body, from the merchant or from a proxy in front of it: on a
\* debit the client parses the body and reports INSUFFICIENT_FUNDS.
ErrorBody(p) ==
    /\ pc[p] = "postDebit"
    /\ Answer(p, "INSUFFICIENT")
    /\ wire' = wire \cup {RequestOf(p)}
    /\ UNCHANGED <<applied, batches>>

LateApply(r) ==
    /\ r \in wire
    /\ wire' = wire \ {r}
    /\ Book(r)
    /\ UNCHANGED <<rows, local>>

-----------------------------------------------------------------------------

PlaceAndDebit(p) ==
    \/ \E b \in Bets : PlaceBet(p, b) \/ RetryPlacement(p, b) \/ PickDebit(p, b)
    \/ ReadBet(p) \/ ReadOutbox(p)
    \/ AcceptBet(p) \/ RejectBet(p) \/ RetryDebitLater(p)

SettleOrVoid(p) ==
    \/ \E S \in SUBSET Bets : SelectAccepted(p, S)
    \/ \E b \in Bets, o \in Outcomes :
          GradeBet(p, b, o) \/ PersistOne(p, b, o) \/ PersistConflict(p, b, o)
    \/ \E b \in Bets : SkipBet(p, b) \/ StartVoid(p, b)
    \/ StartPersist(p) \/ PersistDone(p) \/ VoidBet(p)

Deliver(p) ==
    \/ StartFlush(p) \/ StaffRetry(p) \/ NothingToFlush(p)
    \/ \E n \in 0..MaxRuns : SelectBatch(p, n)
    \/ \E b \in Bets : RetryEntryLater(p, b) \/ PickVoid(p, b)
    \/ CompleteBatch(p) \/ CompleteVoid(p) \/ RetryVoidLater(p)

Network(p) ==
    \/ MerchantApplies(p) \/ MerchantRefuses(p)
    \/ RequestTimesOut(p) \/ ErrorBody(p)

Next ==
    \/ \E p \in Procs :
          PlaceAndDebit(p) \/ SettleOrVoid(p) \/ Deliver(p) \/ Network(p)
          \/ HandlerDies(p)
    \/ \E type \in RowType, b \in Bets : RetryTimeReached(type, b)
    \/ \E r \in wire : LateApply(r)

Spec == Init /\ [][Next]_vars

-----------------------------------------------------------------------------
(* Safety with any overlap of handlers                                     *)

\* The merchant never books a credit for a bet whose stake it has not booked:
\* SETTLE and STAFF_VOID rows are only written for bets seen ACCEPTED, and
\* ACCEPTED is only written after the debit was answered with success.
NoCreditBeforeDebit ==
    \A c \in applied : c[2] # "DEBIT" => <<c[1], "DEBIT">> \in applied

\* A bet is credited for one graded outcome only, although the transaction
\* code depends on the outcome and a re-grade may find another one: the
\* unique (betId, type) index keeps the first SETTLE row.
OneSettlementOutcome ==
    \A b \in Bets, o1, o2 \in Outcomes :
        <<b, o1>> \in applied /\ <<b, o2>> \in applied => o1 = o2

Credited(b) == <<b, outcome[b]>> \in applied

\* A retry gathers the rows that are due then, so its batch may hold others than
\* the one sent before; a merchant that answers for the batch as a whole then
\* books nothing for a new row of a batch of which it has booked another.
LostInBatch(b) ==
    /\ Duplicate # "everyCode"
    /\ \E c \in Bets : batch[c] = batch[b] /\ Credited(c)

\* An outbox row marked COMPLETED has its movement in the merchant's ledger,
\* whatever was lost, retried or sent twice.  The one exception is a row lost
\* in a batch that the merchant had booked in part.
CompletedRowsBooked ==
    \A b \in Bets :
        /\ debit[b] = "COMPLETED" => <<b, "DEBIT">> \in applied
        /\ settle[b] = "COMPLETED" => Credited(b) \/ LostInBatch(b)
        /\ void[b] = "COMPLETED" => <<b, "STAFF_VOID">> \in applied

\* What is not finished has the outbox row that finishes it: no crash or overlap
\* leaves a bet PENDING without a debit to pick up again, or WON, LOST or VOID
\* without a row, due or delivered, that pays what the status says.
OutcomeHasItsRow ==
    \A b \in Bets :
        /\ bet[b] = "PENDING" => debit[b] = "PENDING"
        /\ bet[b] \in {"WON", "LOST"} => outcome[b] = bet[b]
        /\ bet[b] = "VOID" => outcome[b] = "VOID" \/ void[b] \in {"PENDING", "COMPLETED"}
        /\ outcome[b] # "NONE" => settle[b] \in {"PENDING", "COMPLETED"}

-----------------------------------------------------------------------------
(* What the documents promise and an overlap or an error reply breaks      *)

\* docs/DECISIONS.md: a staff void applies to ACCEPTED bets only.  The check
\* and the write of voidBet are two steps, and a settlement fits between.
VoidsOnlyAccepted ==
    [][\A b \in Bets :
          void[b] = "NONE" /\ void'[b] # "NONE" => bet[b] = "ACCEPTED"]_vars

\* docs/WALLET_PROVIDER_INTEGRATION.md: a retried batch carries the same
\* batchId and the same transactions.  The flush gathers its list from the
\* rows due at that moment, so the list of a retry may be another one.
BatchRetriesSameList ==
    \A r1, r2 \in wire : r1.batch = r2.batch /\ r1.batch # 0 => r1.codes = r2.codes

=============================================================================
