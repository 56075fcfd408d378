----------------------------- MODULE BetAccount -----------------------------
(***************************************************************************)
(* What the sportsbook promises a player about one bet, with no handlers,  *)
(* outbox, retries or network.  A bet is decided after its stake is taken, *)
(* settled at most once and voided by staff at most once, and the merchant *)
(* books exactly what was decided.  The status itself may be written by    *)
(* someone who does not know what it has become: such a bet is raced.  For *)
(* every other bet the status moves forward once and there is one credit.  *)
(***************************************************************************)
CONSTANT Bets

VARIABLES
    status,   \* status of each bet
    settled,  \* the outcome it was settled at, or "NONE"
    voided,   \* the bets staff has voided
    raced,    \* the bets whose status was written on a stale reading
    ledger    \* movements booked by the merchant

vars == <<status, settled, voided, raced, ledger>>

Outcomes == {"WON", "LOST", "VOID"}

Init ==
    /\ status = [b \in Bets |-> "NONE"]
    /\ settled = [b \in Bets |-> "NONE"]
    /\ voided = {}
    /\ raced = {}
    /\ ledger = {}

\* The status becomes s.  The writer has seen the bet in status seen.
Become(b, seen, s) ==
    /\ status' = [status EXCEPT ![b] = s]
    /\ raced' = IF status[b] = seen THEN raced ELSE raced \cup {b}

Place(b) ==
    /\ status[b] = "NONE"
    /\ Become(b, "NONE", "PENDING")
    /\ UNCHANGED <<settled, voided, ledger>>

Accept(b) ==
    /\ status[b] # "NONE"
    /\ <<b, "DEBIT">> \in ledger
    /\ Become(b, "PENDING", "ACCEPTED")
    /\ UNCHANGED <<settled, voided, ledger>>

Reject(b) ==
    /\ status[b] # "NONE"
    /\ Become(b, "PENDING", "REJECTED")
    /\ UNCHANGED <<settled, voided, ledger>>

Settle(b, o) ==
    /\ status[b] \notin {"NONE", "PENDING"}
    /\ settled[b] = "NONE"
    /\ Become(b, "ACCEPTED", o)
    /\ settled' = [settled EXCEPT ![b] = o]
    /\ UNCHANGED <<voided, ledger>>

StaffVoid(b) ==
    /\ status[b] \notin {"NONE", "PENDING"}
    /\ b \notin voided
    /\ Become(b, "ACCEPTED", "VOID")
    /\ voided' = voided \cup {b}
    /\ UNCHANGED <<settled, ledger>>

\* What the merchant may book: the stake of a placed bet, even of one that was
\* rejected meanwhile, since a request that timed out can arrive at any time;
\* the outcome of a settled bet; the stake of a voided one.
Bookable ==
    {<<b, "DEBIT">> : b \in {x \in Bets : status[x] # "NONE"}}
    \cup {<<b, settled[b]>> : b \in {x \in Bets : settled[x] # "NONE"}}
    \cup {<<b, "STAFF_VOID">> : b \in voided}

Book(movements) ==
    /\ ledger' = ledger \cup movements
    /\ UNCHANGED <<status, settled, voided, raced>>

Next ==
    \/ \E b \in Bets : Place(b) \/ Accept(b) \/ Reject(b) \/ StaffVoid(b)
    \/ \E b \in Bets, o \in Outcomes : Settle(b, o)
    \/ \E movements \in SUBSET Bookable : Book(movements)

Spec == Init /\ [][Next]_vars

=============================================================================
