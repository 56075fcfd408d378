--------------------------- MODULE CircuitBreaker ---------------------------
(***************************************************************************)
(* The consecutive-failure circuit breaker that all calls to all merchant  *)
(* wallets share.  A call is started by execute() and ends later, so calls *)
(* started in one state of the circuit may end in another.                 *)
(***************************************************************************)
EXTENDS Naturals

CONSTANTS
    Calls,        \* calls that may be in flight together
    Threshold,    \* failureThreshold
    Cooldown,     \* cooldownMs, in clock ticks
    MaxFailures   \* bound: the failure counter saturates here

ASSUME ThresholdAssumption == Threshold \in Nat \ {0}
ASSUME CooldownAssumption == Cooldown \in Nat \ {0}
ASSUME MaxFailuresAssumption == MaxFailures \in Nat /\ MaxFailures >= Threshold

VARIABLES
    state,     \* "closed", "open" or "half-open"
    failures,  \* failures since the last success
    elapsed,   \* ticks since openedAt, up to Cooldown
    running    \* calls between execute() and their result

vars == <<state, failures, elapsed, running>>

TypeOK ==
    /\ state \in {"closed", "open", "half-open"}
    /\ failures \in 0..MaxFailures
    /\ elapsed \in 0..Cooldown
    /\ running \subseteq Calls

\* openedAt = 0 lies far in the past.
Init ==
    /\ state = "closed"
    /\ failures = 0
    /\ elapsed = Cooldown
    /\ running = {}

Tick ==
    /\ elapsed < Cooldown
    /\ elapsed' = elapsed + 1
    /\ UNCHANGED <<state, failures, running>>

-----------------------------------------------------------------------------
(* Faulty variants of the operations below.                                *)

\* Never lets a call through once open.
ExecuteNeverRetries(c) ==
    /\ c \notin running
    /\ state # "open"
    /\ running' = running \cup {c}
    /\ UNCHANGED <<state, failures, elapsed>>

\* Counts a success down instead of resetting the counter.
SuccessCountsDown(c) ==
    /\ c \in running
    /\ running' = running \ {c}
    /\ failures' = failures - 1
    /\ state' = "closed"
    /\ UNCHANGED elapsed

\* Forgets to reset the counter.
SuccessKeepsCount(c) ==
    /\ c \in running
    /\ running' = running \ {c}
    /\ state' = "closed"
    /\ UNCHANGED <<failures, elapsed>>

\* Starts the next round of failures at zero and does not look at half-open.
FailureStartsOver(c) ==
    /\ c \in running
    /\ running' = running \ {c}
    /\ IF failures + 1 >= Threshold
       THEN state' = "open" /\ elapsed' = 0 /\ failures' = 0
       ELSE failures' = failures + 1 /\ UNCHANGED <<state, elapsed>>

-----------------------------------------------------------------------------
(* execute(), onSuccess() and onFailure()                                  *)

\* execute() on an open circuit still cooling down throws at once and changes
\* nothing.  Otherwise the call runs; it moves an open circuit to half-open,
\* and in half-open nothing holds other calls back.
Execute(c) ==
    /\ c \notin running
    /\ state = "open" => elapsed >= Cooldown
    /\ state' = IF state = "open" THEN "half-open" ELSE state
    /\ running' = running \cup {c}
    /\ UNCHANGED <<failures, elapsed>>

OnSuccess(c) ==
    /\ c \in running
    /\ running' = running \ {c}
    /\ failures' = 0
    /\ state' = "closed"
    /\ UNCHANGED elapsed

\* A timeout, a connection error, an HTTP error or a business rejection.
OnFailure(c) ==
    /\ c \in running
    /\ running' = running \ {c}
    /\ failures' = IF failures < MaxFailures THEN failures + 1 ELSE failures
    /\ IF state = "half-open" \/ failures' >= Threshold
       THEN state' = "open" /\ elapsed' = 0
       ELSE UNCHANGED <<state, elapsed>>

Next ==
    \/ Tick
    \/ \E c \in Calls : Execute(c) \/ OnSuccess(c) \/ OnFailure(c)

Spec == Init /\ [][Next]_vars

\* The wallet client is called again and again (outbox ticks, players), every
\* call ends (5 s timeout), and time passes.
Fairness ==
    /\ WF_vars(Tick)
    /\ \A c \in Calls : WF_vars(Execute(c)) /\ WF_vars(OnSuccess(c) \/ OnFailure(c))

FairSpec == Spec /\ Fairness

-----------------------------------------------------------------------------

\* The circuit is closed exactly while fewer than Threshold failures have
\* come since the last success, whatever the order in which overlapping calls
\* end: onFailure's test for half-open never decides alone.
ClosedBelowThreshold == state = "closed" <=> failures < Threshold

\* Half-open is never a dead end: the call that made it so, or a later one,
\* is still running and will close or re-open the circuit.
HalfOpenHasTrial == state = "half-open" => running # {}

\* Once the merchants answer every call with success, the circuit closes for
\* good: a burst of late failures cannot keep it open.
RecoveryCloses ==
    <>[][\A c \in Calls : ~OnFailure(c)]_vars => <>[](state = "closed")

=============================================================================
