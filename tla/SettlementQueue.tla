--------------------------- MODULE SettlementQueue ---------------------------
(***************************************************************************)
(* Which bets a settlement run looks at.  settleBatch reads a bounded      *)
(* number of the oldest ACCEPTED bets and grades those that can be graded; *)
(* a bet that cannot stays ACCEPTED, keeps its age and is read again.      *)
(* Bets are numbered in the order of createdAt.                            *)
(***************************************************************************)
EXTENDS Naturals, FiniteSets

CONSTANTS
    MaxBets,      \* bound on the number of bets
    BatchSize,    \* BATCH_SIZE
    MaxHopeless   \* how many bets never get a result

ASSUME MaxBetsAssumption == MaxBets \in Nat
ASSUME BatchSizeAssumption == BatchSize \in Nat \ {0}
ASSUME MaxHopelessAssumption == MaxHopeless \in Nat

Bets == 1..MaxBets

VARIABLES
    status,    \* Bet.status, "CLOSED" standing for WON, LOST and VOID
    rowed,     \* bets that have a SETTLE row
    decided,   \* bets all of whose legs have an outcome now
    taken,     \* bets the current run has read and not graded yet
    graded,    \* bets it has graded and not persisted yet
    hopeless   \* bets on events the provider drops without a result

queue == <<status, rowed, decided, taken, graded, hopeless>>

QueueTypeOK ==
    /\ status \in [Bets -> {"NONE", "PENDING", "ACCEPTED", "REJECTED", "CLOSED"}]
    /\ rowed \subseteq Bets
    /\ decided \subseteq Bets \ hopeless
    /\ taken \subseteq Bets
    /\ graded \subseteq Bets
    /\ Cardinality(taken \cup graded) <= BatchSize
    /\ hopeless \subseteq Bets

QueueInit ==
    /\ status = [b \in Bets |-> "NONE"]
    /\ rowed = {}
    /\ decided = {}
    /\ taken = {}
    /\ graded = {}
    /\ hopeless \in {S \in SUBSET Bets : Cardinality(S) <= MaxHopeless}

Accepted == {b \in Bets : status[b] = "ACCEPTED"}

\* Settled once, and accepted again by a debit answer that came late.
Reopened == Accepted \cap rowed

Oldest(S, n) == {b \in S : Cardinality({c \in S : c < b}) < n}

\* Faulty variants: a read without the limit; a run that ends at the first bet
\* without an outcome.
TakeAll ==
    /\ taken \cup graded = {} /\ Accepted # {}
    /\ taken' = Accepted
    /\ UNCHANGED <<status, rowed, decided, graded, hopeless>>

GradeOrStop ==
    /\ \E b \in Oldest(taken, 1) :
          IF b \in Accepted \cap decided
          THEN taken' = taken \ {b} /\ graded' = graded \cup {b}
          ELSE taken' = {} /\ graded' = {}
    /\ UNCHANGED <<status, rowed, decided, hopeless>>

-----------------------------------------------------------------------------

Place(b) ==
    /\ status[b] = "NONE"
    /\ \A c \in Bets : c < b => status[c] # "NONE"
    /\ status' = [status EXCEPT ![b] = "PENDING"]
    /\ UNCHANGED <<rowed, decided, taken, graded, hopeless>>

\* The debit's answer may come long after younger bets are accepted.
DebitAnswered(b) ==
    /\ status[b] = "PENDING"
    /\ \E s \in {"ACCEPTED", "REJECTED"} : status' = [status EXCEPT ![b] = s]
    /\ UNCHANGED <<rowed, decided, taken, graded, hopeless>>

\* The answer of a second attempt at the debit overwrites what the bet has become.
LateAnswer(b) ==
    /\ status[b] \in {"ACCEPTED", "REJECTED", "CLOSED"}
    /\ \E s \in {"ACCEPTED", "REJECTED"} : status' = [status EXCEPT ![b] = s]
    /\ UNCHANGED <<rowed, decided, taken, graded, hopeless>>

ResultArrives(b) ==
    /\ b \notin decided \cup hopeless
    /\ decided' = decided \cup {b}
    /\ UNCHANGED <<status, rowed, taken, graded, hopeless>>

\* A live ingest overwrites the ENDED status of an event or reopens a market.
ResultWithdrawn(b) ==
    /\ b \in decided
    /\ decided' = decided \ {b}
    /\ UNCHANGED <<status, rowed, taken, graded, hopeless>>

TakeBatch ==
    /\ taken \cup graded = {} /\ Accepted # {}
    /\ taken' = Oldest(Accepted, BatchSize)
    /\ UNCHANGED <<status, rowed, decided, graded, hopeless>>

\* gradeBet reads each bet again: one that is no longer ACCEPTED, or not decided
\* on every leg, is skipped.
GradeNext ==
    /\ \E b \in Oldest(taken, 1) :
          /\ taken' = taken \ {b}
          /\ graded' = IF b \in Accepted \cap decided THEN graded \cup {b} ELSE graded
    /\ UNCHANGED <<status, rowed, decided, hopeless>>

\* One transaction per graded bet.  The unique index refuses a second SETTLE row,
\* and the error ends the run: what it has persisted stays, the rest is lost.
PersistNext ==
    /\ taken = {}
    /\ \E b \in Oldest(graded, 1) :
          IF b \in rowed
          THEN graded' = {} /\ UNCHANGED <<status, rowed>>
          ELSE /\ status' = [status EXCEPT ![b] = "CLOSED"]
               /\ rowed' = rowed \cup {b}
               /\ graded' = graded \ {b}
    /\ UNCHANGED <<decided, taken, hopeless>>

\* The process dies, or a query fails.
RunFails ==
    /\ taken \cup graded # {}
    /\ taken' = {} /\ graded' = {}
    /\ UNCHANGED <<status, rowed, decided, hopeless>>

\* settleBetsForEvent for staff, or a run on another instance, settles the bet.
SettledElsewhere(b) ==
    /\ b \in (Accepted \cap decided) \ rowed
    /\ status' = [status EXCEPT ![b] = "CLOSED"]
    /\ rowed' = rowed \cup {b}
    /\ UNCHANGED <<decided, taken, graded, hopeless>>

StaffVoids(b) ==
    /\ b \in Accepted
    /\ status' = [status EXCEPT ![b] = "CLOSED"]
    /\ UNCHANGED <<rowed, decided, taken, graded, hopeless>>

QueueNext ==
    \/ \E b \in Bets :
          \/ Place(b) \/ DebitAnswered(b) \/ LateAnswer(b)
          \/ ResultArrives(b) \/ ResultWithdrawn(b)
          \/ SettledElsewhere(b) \/ StaffVoids(b)
    \/ TakeBatch \/ GradeNext \/ PersistNext \/ RunFails

QueueSpec == QueueInit /\ [][QueueNext]_queue

\* The cron starts a run on every tick, and runs are killed any number of times
\* but not for ever.  An event that is not dropped gets its result, and ingestion
\* withdraws results only finitely often.  No attempt at a debit starts once its
\* bet is decided, so late answers come to an end.  Nothing is assumed of players
\* or staff.
QueueFairSpec ==
    /\ QueueSpec
    /\ WF_queue(TakeBatch) /\ WF_queue(GradeNext) /\ WF_queue(PersistNext)
    /\ \A b \in Bets : WF_queue(ResultArrives(b))
    /\ <>[][RunFails => GradeNext \/ PersistNext]_queue
    /\ <>[][\A b \in Bets : ~ResultWithdrawn(b) /\ ~LateAnswer(b)]_queue

-----------------------------------------------------------------------------

\* No accepted bet whose outcome is known waits for ever: the runs get to it
\* although they always start from the oldest ACCEPTED bet and one conflict ends
\* a run.  README, "Settlement": when all legs are decided, accepted bets are
\* graded.  What does stop it for ever is a re-opened bet, the bet itself or an
\* older one: every run that gets to it is aborted there.
NoGradableBetStuck ==
    \A b \in Bets :
        <>[](\A c \in Reopened \cap decided : c > b) => []<>~(b \in Accepted \cap decided)

=============================================================================
