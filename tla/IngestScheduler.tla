--------------------------- MODULE IngestScheduler ---------------------------
(***************************************************************************)
(* When odds are ingested: the watch that starts and stops the live poll   *)
(* of each instance, the catalog job, the two locks in Redis that expire   *)
(* by time and are never released, and the pause that a low quota or a 401 *)
(* puts on all instances.  One game stands for the database: its fixture   *)
(* row and its event row decide whether there is anything to poll, and     *)
(* they are written by different jobs.                                     *)
(*                                                                         *)
(* Time runs in units.  A lock and the pause are timers that run down; a   *)
(* handler may be arbitrarily slow between two of its calls.               *)
(***************************************************************************)
EXTENDS Integers

CONSTANTS
    Instances,   \* API processes
    LiveProcs,   \* handlers that run the watch and live ticks
    OtherProcs,  \* handlers of the catalog job, results ticks and commands
    Home,        \* the instance that a handler runs in
    LockTtl,     \* lifetime of a lock (one for both: no property compares them)
    PauseTime,   \* INGEST_ODDS_API_PAUSE_MINUTES
    MaxFaults    \* bound on crashes, failed calls, pauses and manual results

Procs == LiveProcs \cup OtherProcs

ASSUME HomeAssumption == Home \in [Procs -> Instances]
ASSUME TimesAssumption == LockTtl \in Nat \ {0} /\ PauseTime \in Nat \ {0}
ASSUME MaxFaultsAssumption == MaxFaults \in Nat

VARIABLES
    phase,    \* what the provider knows of the game
    fixture,  \* Fixture.status
    event,    \* Event.status
    lock,     \* per kind of ingest: time until its lock expires, 0 when free
    pause,    \* the pause key: its time value and Redis's expiry, 0 when over
    polling,  \* per instance: livePollActive, with its interval
    pc,       \* per handler: its next step
    job,      \* per handler: what it runs
    snap,     \* per handler: the status that the provider's answer gives the game
    age,      \* per handler: time since it acquired the lock, up to LockTtl
    due,      \* per handler: time left of the pause that it is about to set
    faults

game == <<phase, fixture, event>>
redis == <<lock, pause>>
locals == <<pc, job, snap, age, due>>
vars == <<game, redis, polling, locals, faults>>

Phases == {"upcoming", "inplay", "finished", "delisted", "dropped"}
Statuses == {"SCHEDULED", "LIVE", "ENDED"}
Kinds == {"live", "catalog"}
Jobs == {"none", "watch", "live", "catalog", "results", "command"}
Steps == {"idle", "check", "clear", "scope", "lock", "keys", "fetch", "pause", "setPause",
          "fixture", "event"}

TypeOK ==
    /\ phase \in Phases
    /\ fixture \in Statuses /\ event \in Statuses
    /\ lock \in [Kinds -> 0..LockTtl]
    /\ pause \in [until : 0..PauseTime, expiry : 0..PauseTime]
    /\ polling \in [Instances -> BOOLEAN]
    /\ pc \in [Procs -> Steps]
    /\ job \in [Procs -> Jobs]
    /\ snap \in [Procs -> Statuses \cup {"none"}]
    /\ age \in [Procs -> 0..LockTtl]
    /\ due \in [Procs -> 0..PauseTime]
    /\ faults \in 0..MaxFaults

\* The first catalog ingest has listed the game.
Init ==
    /\ phase = "upcoming"
    /\ fixture = "SCHEDULED" /\ event = "SCHEDULED"
    /\ lock = [k \in Kinds |-> 0]
    /\ pause = [until |-> 0, expiry |-> 0]
    /\ polling = [i \in Instances |-> FALSE]
    /\ pc = [p \in Procs |-> "idle"]
    /\ job = [p \in Procs |-> "none"]
    /\ snap = [p \in Procs |-> "none"]
    /\ age = [p \in Procs |-> 0]
    /\ due = [p \in Procs |-> 0]
    /\ faults = 0

-----------------------------------------------------------------------------
(* Handlers                                                                *)

Goto(p, step) ==
    /\ pc' = [pc EXCEPT ![p] = step]
    /\ UNCHANGED <<job, snap, age, due>>

Begin(p, kind, step) ==
    /\ pc[p] = "idle"
    /\ pc' = [pc EXCEPT ![p] = step]
    /\ job' = [job EXCEPT ![p] = kind]
    /\ UNCHANGED <<game, redis, polling, snap, age, due, faults>>

\* The local variables of the handlers in S are gone.
Drop(S) ==
    /\ pc' = [p \in Procs |-> IF p \in S THEN "idle" ELSE pc[p]]
    /\ job' = [p \in Procs |-> IF p \in S THEN "none" ELSE job[p]]
    /\ snap' = [p \in Procs |-> IF p \in S THEN "none" ELSE snap[p]]
    /\ age' = [p \in Procs |-> IF p \in S THEN 0 ELSE age[p]]
    /\ due' = [p \in Procs |-> IF p \in S THEN 0 ELSE due[p]]

Done(p) == Drop({p})

Fault == faults < MaxFaults /\ faults' = faults + 1

\* An exception: the scheduler logs it and the run is over.
RunFails(p) ==
    /\ pc[p] # "idle"
    /\ Fault
    /\ Done(p)
    /\ UNCHANGED <<game, redis, polling>>

\* A crash or redeploy of one instance; the locks stay until they expire.
Restart(i) ==
    /\ Fault
    /\ Drop({p \in Procs : Home[p] = i})
    /\ polling' = [polling EXCEPT ![i] = FALSE]
    /\ UNCHANGED <<game, redis>>

-----------------------------------------------------------------------------
(* Time and the provider                                                   *)

RunDown(t) == IF t = 0 THEN 0 ELSE t - 1

\* A run counts from the moment it has the lock.
Locked(p, kind) == job[p] = kind /\ pc[p] \in {"keys", "fetch", "pause", "setPause", "fixture", "event"}
Running(p) == \E kind \in Kinds : Locked(p, kind)

Passes ==
    /\ lock' = [k \in Kinds |-> RunDown(lock[k])]
    /\ pause' = [until |-> RunDown(pause.until), expiry |-> RunDown(pause.expiry)]
    /\ due' = [p \in Procs |-> RunDown(due[p])]
    /\ age' = [p \in Procs |-> IF Running(p) /\ age[p] < LockTtl THEN age[p] + 1 ELSE age[p]]
    /\ UNCHANGED <<game, polling, pc, job, snap, faults>>

PhaseAdvances ==
    /\ phase \notin {"delisted", "dropped"}
    /\ phase' = CASE phase = "upcoming" -> "inplay"
                  [] phase = "inplay"   -> "finished"
                  [] OTHER              -> "delisted"
    /\ UNCHANGED <<fixture, event, redis, polling, locals, faults>>

\* /scores forgets games some days after their end, and drops some before it.
ProviderDrops ==
    /\ phase \in {"inplay", "finished", "delisted"}
    /\ phase' = "dropped"
    /\ UNCHANGED <<fixture, event, redis, polling, locals, faults>>

\* The status that a snapshot built now gives the game.  /odds lists it until it
\* is delisted, /scores reports it until it is dropped; when the game is over
\* and only /odds answers, it counts as LIVE.
Reported ==
    CASE phase = "upcoming" -> {"SCHEDULED"}
      [] phase = "inplay"   -> {"LIVE"}
      [] phase = "finished" -> {"LIVE", "ENDED"}
      [] phase = "delisted" -> {"ENDED"}
      [] OTHER              -> {"none"}

-----------------------------------------------------------------------------
(* The scheduler                                                           *)

\* Every instance runs the watch at its start and then at an interval; its poll
\* interval, if it has one, starts live ticks.
StartWatch(p) == p \in LiveProcs /\ Begin(p, "watch", "check")
StartTick(p) == p \in LiveProcs /\ polling[Home[p]] /\ Begin(p, "live", "check")
StartCatalog(p) == p \in OtherProcs /\ Begin(p, "catalog", "check")

\* The results tick, the commands: neither pause nor lock is asked.
StartResults(p) == p \in OtherProcs /\ Begin(p, "results", "fetch")
StartCommand(p) == p \in OtherProcs /\ \E step \in {"keys", "fetch"} : Begin(p, "command", step)

\* Faulty variant: the interval is cleared and the flag is not.
StopKeepsFlag(p) == UNCHANGED polling

StopLivePoll(p) == polling' = [polling EXCEPT ![Home[p]] = FALSE]

Unpaused(p) == Goto(p, IF job[p] = "catalog" THEN "lock" ELSE "scope")

\* isPaused: a key with a time that has passed is deleted by a second call.
IsPaused(p) ==
    /\ pc[p] = "check"
    /\ \/ /\ pause.expiry = 0
          /\ Unpaused(p) /\ UNCHANGED polling
       \/ /\ pause.expiry > 0 /\ pause.until = 0
          /\ Goto(p, "clear") /\ UNCHANGED polling
       \/ /\ pause.expiry > 0 /\ pause.until > 0
          /\ IF job[p] = "watch" THEN StopLivePoll(p) ELSE UNCHANGED polling
          /\ Done(p)
    /\ UNCHANGED <<game, redis, faults>>

\* The key that is deleted may be one that was set since.
ClearPause(p) ==
    /\ pc[p] = "clear"
    /\ pause' = [until |-> 0, expiry |-> 0]
    /\ Unpaused(p)
    /\ UNCHANGED <<game, lock, polling, faults>>

\* Faulty variant: only events are looked at.
LiveEvents == event = "LIVE"

HasLiveGames == fixture = "LIVE" \/ event = "LIVE"

\* Watch and tick ask hasLiveGames.  A watch that starts the poll runs the first
\* tick itself, from its beginning.
CheckScope(p) ==
    /\ pc[p] = "scope"
    /\ \/ /\ ~HasLiveGames
          /\ StopLivePoll(p)
          /\ Done(p)
       \/ /\ HasLiveGames /\ job[p] = "watch" /\ polling[Home[p]]
          /\ Done(p)
          /\ UNCHANGED polling
       \/ /\ HasLiveGames /\ job[p] = "watch" /\ ~polling[Home[p]]
          /\ polling' = [polling EXCEPT ![Home[p]] = TRUE]
          /\ pc' = [pc EXCEPT ![p] = "check"]
          /\ job' = [job EXCEPT ![p] = "live"]
          /\ UNCHANGED <<snap, age, due>>
       \/ /\ HasLiveGames /\ job[p] = "live"
          /\ Goto(p, "lock")
          /\ UNCHANGED polling
    /\ UNCHANGED <<game, redis, faults>>

\* Faulty variant: SET without NX.
AcquireAnyway(p) ==
    /\ pc[p] = "lock"
    /\ lock' = [lock EXCEPT ![job[p]] = LockTtl]
    /\ Goto(p, IF job[p] = "live" THEN "keys" ELSE "fetch")
    /\ UNCHANGED <<game, pause, polling, faults>>

\* SET NX EX; a tick that does not get the lock is skipped.
TryAcquire(p) ==
    /\ pc[p] = "lock"
    /\ IF lock[job[p]] = 0
       THEN /\ lock' = [lock EXCEPT ![job[p]] = LockTtl]
            /\ Goto(p, IF job[p] = "live" THEN "keys" ELSE "fetch")
       ELSE Done(p) /\ UNCHANGED lock
    /\ UNCHANGED <<game, pause, polling, faults>>

-----------------------------------------------------------------------------
(* An ingest                                                               *)

\* A game that is about to start may be polled before kickoff.
Prestart == phase = "upcoming" /\ fixture = "SCHEDULED"

ResolveLiveSportKeys(p) ==
    /\ pc[p] = "keys"
    /\ \/ (HasLiveGames \/ Prestart) /\ Goto(p, "fetch")
       \/ ~HasLiveGames /\ Done(p)
    /\ UNCHANGED <<game, redis, polling, faults>>

\* Results are written to the event only.
Write(p) == IF job[p] = "results" THEN "event" ELSE "fixture"

Answered(p, status, step) ==
    /\ snap' = [snap EXCEPT ![p] = status]
    /\ pc' = [pc EXCEPT ![p] = step]
    /\ UNCHANGED <<job, age>>

\* A snapshot.  Without an answer about the game nothing is written.
FetchSnapshot(p, status) ==
    /\ pc[p] = "fetch"
    /\ status \in Reported
    /\ IF status = "none"
       THEN Done(p)
       ELSE Answered(p, status, Write(p)) /\ UNCHANGED due
    /\ UNCHANGED <<game, redis, polling, faults>>

\* The answer was a 401, or its header says that the quota is low; in the second
\* case it may still have the game.
FetchPauses(p, status) ==
    /\ pc[p] = "fetch"
    /\ status \in Reported \cup {"none"}
    /\ Fault
    /\ due' = [due EXCEPT ![p] = PauseTime]
    /\ Answered(p, status, "pause")
    /\ UNCHANGED <<game, redis, polling>>

\* Faulty variant: a snapshot without the game is written as well.
ResumeAnyway(p) == Goto(p, Write(p))

Resume(p) == IF snap[p] = "none" THEN Done(p) ELSE Goto(p, Write(p))

\* pauseForMinutes leaves a longer pause alone.
KeepLongerPause(p) ==
    /\ pc[p] = "pause"
    /\ IF pause.expiry > 0 /\ pause.until > due[p]
       THEN Resume(p)
       ELSE Goto(p, "setPause")
    /\ UNCHANGED <<game, redis, polling, faults>>

SetPause(p) ==
    /\ pc[p] = "setPause"
    /\ pause' = [until |-> due[p], expiry |-> PauseTime]
    /\ Resume(p)
    /\ UNCHANGED <<game, lock, polling, faults>>

UpsertFixture(p) ==
    /\ pc[p] = "fixture"
    /\ fixture' = snap[p]
    /\ Goto(p, "event")
    /\ UNCHANGED <<phase, event, redis, polling, faults>>

UpsertEvent(p) ==
    /\ pc[p] = "event"
    /\ event' = snap[p]
    /\ Done(p)
    /\ UNCHANGED <<phase, fixture, redis, polling, faults>>

\* finalizeEventResult: staff or a command, both rows in one transaction.
FinalizeEventResult ==
    /\ Fault
    /\ fixture' = "ENDED" /\ event' = "ENDED"
    /\ UNCHANGED <<phase, redis, polling, locals>>

Next ==
    \/ Passes \/ PhaseAdvances \/ ProviderDrops \/ FinalizeEventResult
    \/ \E i \in Instances : Restart(i)
    \/ \E p \in Procs :
          \/ RunFails(p)
          \/ StartWatch(p) \/ StartTick(p) \/ StartCatalog(p)
          \/ StartResults(p) \/ StartCommand(p)
          \/ IsPaused(p) \/ ClearPause(p) \/ CheckScope(p) \/ TryAcquire(p)
          \/ ResolveLiveSportKeys(p)
          \/ \E status \in Statuses \cup {"none"} : FetchSnapshot(p, status) \/ FetchPauses(p, status)
          \/ KeepLongerPause(p) \/ SetPause(p)
          \/ UpsertFixture(p) \/ UpsertEvent(p)

Spec == Init /\ [][Next]_vars

-----------------------------------------------------------------------------
(* Fairness.  setInterval starts watches and ticks for ever; a handler that *)
(* is alive goes on; time passes and the game goes on.  Nothing is assumed  *)
(* of the catalog job, of results ticks, commands or staff: each may be     *)
(* switched off; and the provider may drop the game at any time, or never.  *)

Continues(p) ==
    \/ IsPaused(p) \/ ClearPause(p) \/ CheckScope(p) \/ TryAcquire(p)
    \/ ResolveLiveSportKeys(p)
    \/ \E status \in Statuses \cup {"none"} : FetchSnapshot(p, status)
    \/ KeepLongerPause(p) \/ SetPause(p)
    \/ UpsertFixture(p) \/ UpsertEvent(p)

Fairness ==
    /\ WF_vars(Passes) /\ WF_vars(PhaseAdvances)
    /\ \A p \in Procs : WF_vars(Continues(p) \/ StartWatch(p))
    /\ \A p \in LiveProcs : SF_vars(StartTick(p))

FairSpec == Spec /\ Fairness

-----------------------------------------------------------------------------

\* No double poll across instances (README, "Ingestion"): two runs that hold the
\* lock of the same kind are at work together only when one of them has outlived
\* it.  Nothing releases a lock or checks whose it is, so this rests on SET NX
\* and on the expiry alone.
NoDoublePoll ==
    \A p, q \in Procs : \A kind \in Kinds :
        p # q /\ Locked(p, kind) /\ Locked(q, kind) => age[p] = LockTtl \/ age[q] = LockTtl

RowLive == "LIVE" \in {fixture, event}

\* What a drop leaves behind: a LIVE row, or a run that is about to write one.
StillLive == RowLive \/ \E p \in Procs : snap[p] = "LIVE"

\* No row stays LIVE after the game, although results ticks write one of the two
\* rows, polls are stopped by watches that read an older state, locks outlive
\* crashed runs, and slow runs and manual results write in between.  The live
\* scheduler alone brings it about: no catalog run is assumed.  The exception is
\* a game that the provider drops while it is LIVE here: no ingest writes its
\* rows again (RUNBOOKS, "Stale odds / scores"), and only a manual result ends it.
LiveRowsEnd == <>[]~RowLive \/ <>(phase = "dropped" /\ StillLive)

\* The quota is not spent on games that are over: once no row is LIVE any more,
\* every instance stops, whatever its watches and ticks had read before.
PollingStops == <>[]~RowLive => <>[](\A i \in Instances : ~polling[i])

=============================================================================
