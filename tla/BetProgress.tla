----------------------------- MODULE BetProgress -----------------------------
(***************************************************************************)
(* What eventually happens to a placed bet and to its money, under the     *)
(* fairness that timers and retries give, whichever handlers overlap.      *)
(***************************************************************************)
EXTENDS BetLifecycle

(* Fairness.  setInterval starts a worker tick again and again, whatever    *)
(* became of the previous one; a handler that is not killed goes on; the    *)
(* merchant may time out and refuse, and the update after its answer may    *)
(* fail, without end but not every single time; and handlers may be killed  *)
(* any number of times, but not for ever.                                   *)

Returns(p) ==
    \/ ReadBet(p) \/ ReadOutbox(p) \/ StartPersist(p) \/ VoidBet(p) \/ NothingToFlush(p)
    \/ \E b \in Bets, o \in Outcomes : PersistConflict(p, b, o)

CrashesCease == <>[][\A p \in Procs : HandlerDies(p) => Returns(p)]_vars

Continues(p) ==
    \/ ReadBet(p) \/ ReadOutbox(p) \/ AcceptBet(p) \/ RejectBet(p) \/ RetryDebitLater(p)
    \/ StartPersist(p) \/ PersistDone(p) \/ VoidBet(p)
    \/ \E b \in Bets : SkipBet(p, b) \/ RetryEntryLater(p, b)
    \/ \E b \in Bets, o \in Outcomes : PersistOne(p, b, o) \/ PersistConflict(p, b, o)
    \/ NothingToFlush(p) \/ \E n \in 0..MaxRuns : SelectBatch(p, n)
    \/ CompleteBatch(p) \/ CompleteVoid(p) \/ RetryVoidLater(p)

Fairness ==
    /\ \A p \in Procs : WF_vars(Continues(p)) /\ SF_vars(MerchantApplies(p))
    /\ \A p \in Procs : SF_vars(AcceptBet(p) \/ CompleteBatch(p) \/ CompleteVoid(p))
    /\ \A p \in DebitProcs, b \in Bets : WF_vars(PickDebit(p, b))
    /\ \A p \in DeliveryProcs :
          WF_vars(StartFlush(p)) /\ \A b \in Bets : WF_vars(PickVoid(p, b))
    /\ \A type \in RowType, b \in Bets : WF_vars(RetryTimeReached(type, b))

FairSpec == Spec /\ Fairness /\ CrashesCease

-----------------------------------------------------------------------------

\* A placed bet does not stay PENDING: after crashes and timeouts the worker
\* comes back to the debit row until the merchant has answered.
PlacementResolved ==
    \A b \in Bets : bet[b] = "PENDING" ~> bet[b] \in {"ACCEPTED", "REJECTED"}

\* Every row of the bet that moves money to the player is delivered and marked.
Paid(b) ==
    /\ settle[b] # "NONE" => settle[b] = "COMPLETED" /\ Credited(b)
    /\ void[b] # "NONE" => void[b] = "COMPLETED" /\ <<b, "STAFF_VOID">> \in applied

\* The money of a closed bet reaches the merchant: it has a SETTLE or STAFF_VOID
\* row, and its rows are delivered and marked, through crashes between the post and
\* the mark, backoffs, lost replies, and late debit answers that re-open the bet.
ClosedBetPaid ==
    \A b \in Bets :
        bet[b] \in Outcomes ~> Paid(b) /\ "COMPLETED" \in {settle[b], void[b]}

=============================================================================
