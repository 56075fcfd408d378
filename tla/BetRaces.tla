------------------------------ MODULE BetRaces ------------------------------
(***************************************************************************)
(* The bet lifecycle with a history variable: the bets whose status some   *)
(* handler has written although it was no longer what that handler had     *)
(* read.  No step depends on it.  With it the lifecycle, in any overlap of *)
(* handlers, implements BetAccount.                                        *)
(***************************************************************************)
EXTENDS BetLifecycle

VARIABLE raced

\* A debit answer is for a PENDING bet, a grade or a staff void for an ACCEPTED
\* one.  The writes themselves do not look at the status again.
Overwritten(b) ==
    \/ /\ bet'[b] # bet[b] /\ bet'[b] \in {"ACCEPTED", "REJECTED"}
       /\ bet[b] # "PENDING"
    \/ /\ \/ settle[b] = "NONE" /\ settle'[b] # "NONE"
          \/ void[b] = "NONE" /\ void'[b] # "NONE"
       /\ bet[b] # "ACCEPTED"

RacesInit == Init /\ raced = {}

RacesNext == Next /\ raced' = raced \cup {b \in Bets : Overwritten(b)}

RacesSpec == RacesInit /\ [][RacesNext]_<<vars, raced>>

Account == INSTANCE BetAccount WITH
    status <- bet,
    settled <- outcome,
    voided <- {b \in Bets : void[b] # "NONE"},
    ledger <- applied

\* Handlers in any overlap, outbox rows, retries, crashes and late requests
\* implement the account: ACCEPTED after a booked stake only, one settlement and
\* one staff void of a bet at most, and in the ledger only what was decided.
ImplementsAccount == Account!Spec

\* The credit that a closed bet's status and closer call for.
CreditDue(b) == <<b, IF void[b] # "NONE" THEN "STAFF_VOID" ELSE bet[b]>>

\* Unless some handler wrote a bet's status unseen, its credit in the ledger is
\* the one its status calls for, so there is one at most: to pay winnings and
\* return the stake as well, or to credit a rejected or re-opened bet, takes a
\* stale debit answer, grade or void.  Crashes, retries and late requests do not.
CreditMatchesStatus ==
    \A c \in applied : c[2] # "DEBIT" /\ c[1] \notin raced =>
        bet[c[1]] \in Outcomes /\ c = CreditDue(c[1])

=============================================================================
