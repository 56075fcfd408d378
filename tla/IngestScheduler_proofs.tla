------------------------ MODULE IngestScheduler_proofs ------------------------
(***************************************************************************)
(* Proofs about the ingest scheduler for any instances, handlers,          *)
(* lifetimes and faults.                                                   *)
(***************************************************************************)
EXTENDS IngestScheduler, TLAPS

\* A lock outlives every run that is younger than its lifetime.
LockCovers ==
    \A p \in Procs : \A kind \in Kinds :
        Locked(p, kind) => lock[kind] >= LockTtl - age[p]

\* A handler that waits for a lock runs one of the two kinds of ingest, and its
\* age counts from the lock.
WaitsUnaged ==
    \A p \in Procs :
        /\ pc[p] \in {"check", "clear", "scope", "lock"} => age[p] = 0
        /\ pc[p] = "lock" => job[p] \in Kinds
        /\ pc[p] = "scope" => job[p] \in {"watch", "live"}
        /\ pc[p] \in {"check", "clear"} => job[p] \in {"watch", "live", "catalog"}
        /\ pc[p] = "idle" => age[p] = 0
        /\ pc[p] \in {"fixture", "event"} => snap[p] # "none"

IInv == TypeOK /\ WaitsUnaged /\ LockCovers /\ NoDoublePoll

USE HomeAssumption, TimesAssumption, MaxFaultsAssumption

\* Every variable keeps its type and a handler its role.
LEMMA TypeStep == TypeOK /\ WaitsUnaged /\ [Next]_vars => TypeOK' /\ WaitsUnaged'
<1> SUFFICES ASSUME TypeOK, WaitsUnaged, [Next]_vars
             PROVE  TypeOK' /\ WaitsUnaged'
  OBVIOUS
<1> USE DEF TypeOK, WaitsUnaged, game, redis, locals, Statuses, Kinds, Jobs, Steps
<1>1. CASE Passes
  <2>1. TypeOK'
    BY <1>1 DEF Passes, RunDown
  <2>2. \A p \in Procs : pc[p] \in {"idle", "check", "clear", "scope", "lock"} => ~Running(p)
    BY DEF Running, Locked
  <2>3. WaitsUnaged'
    BY <1>1, <2>2 DEF Passes, RunDown
  <2> QED BY <2>1, <2>3
<1>2. CASE PhaseAdvances \/ ProviderDrops
  BY <1>2 DEF PhaseAdvances, ProviderDrops, Phases
<1>3. CASE FinalizeEventResult
  BY <1>3 DEF FinalizeEventResult, Fault
<1>4. ASSUME NEW i \in Instances, Restart(i) PROVE TypeOK' /\ WaitsUnaged'
  BY <1>4 DEF Restart, Fault, Drop
<1>5. ASSUME NEW p \in Procs, RunFails(p) PROVE TypeOK' /\ WaitsUnaged'
  BY <1>5 DEF RunFails, Fault, Done, Drop
<1>6. ASSUME NEW p \in Procs,
             StartWatch(p) \/ StartTick(p) \/ StartCatalog(p) \/ StartResults(p) \/ StartCommand(p)
      PROVE TypeOK' /\ WaitsUnaged'
  BY <1>6 DEF StartWatch, StartTick, StartCatalog, StartResults, StartCommand, Begin
<1>7. ASSUME NEW p \in Procs, IsPaused(p) PROVE TypeOK' /\ WaitsUnaged'
  <2>1. CASE pause.expiry = 0 /\ Unpaused(p) /\ UNCHANGED polling
    BY <1>7, <2>1 DEF IsPaused, Unpaused, Goto
  <2>2. CASE Goto(p, "clear") /\ UNCHANGED polling
    BY <1>7, <2>2 DEF IsPaused, Goto
  <2>3. CASE Done(p) /\ (StopLivePoll(p) \/ UNCHANGED polling)
    <3>1. polling' \in [Instances -> BOOLEAN]
      BY <1>7, <2>3, Zenon DEF StopLivePoll
    <3> QED BY <1>7, <2>3, <3>1 DEF IsPaused, Done, Drop
  <2> QED BY <1>7, <2>1, <2>2, <2>3 DEF IsPaused
<1>8. ASSUME NEW p \in Procs, ClearPause(p) PROVE TypeOK' /\ WaitsUnaged'
  BY <1>8 DEF ClearPause, Unpaused, Goto
<1>9. ASSUME NEW p \in Procs, CheckScope(p) PROVE TypeOK' /\ WaitsUnaged'
  <2>1. CASE Done(p) /\ (StopLivePoll(p) \/ UNCHANGED polling)
    <3>1. polling' \in [Instances -> BOOLEAN]
      BY <1>9, <2>1, Zenon DEF StopLivePoll
    <3> QED BY <1>9, <2>1, <3>1 DEF CheckScope, Done, Drop
  <2>2. CASE pc' = [pc EXCEPT ![p] = "check"] /\ job' = [job EXCEPT ![p] = "live"]
             /\ polling' = [polling EXCEPT ![Home[p]] = TRUE] /\ UNCHANGED <<snap, age, due>>
    BY <1>9, <2>2 DEF CheckScope
  <2>3. CASE job[p] = "live" /\ Goto(p, "lock") /\ UNCHANGED polling
    BY <1>9, <2>3 DEF CheckScope, Goto
  <2> QED BY <1>9, <2>1, <2>2, <2>3 DEF CheckScope
<1>10. ASSUME NEW p \in Procs, TryAcquire(p) PROVE TypeOK' /\ WaitsUnaged'
  BY <1>10 DEF TryAcquire, Goto, Done, Drop
<1>11. ASSUME NEW p \in Procs, ResolveLiveSportKeys(p) PROVE TypeOK' /\ WaitsUnaged'
  BY <1>11 DEF ResolveLiveSportKeys, Goto, Done, Drop
<1>12. ASSUME NEW p \in Procs, NEW status \in Statuses \cup {"none"}, FetchSnapshot(p, status)
       PROVE TypeOK' /\ WaitsUnaged'
  BY <1>12 DEF FetchSnapshot, Answered, Write, Reported, Done, Drop
<1>13. ASSUME NEW p \in Procs, NEW status \in Statuses \cup {"none"}, FetchPauses(p, status)
       PROVE TypeOK' /\ WaitsUnaged'
  BY <1>13 DEF FetchPauses, Answered, Fault
<1>14. ASSUME NEW p \in Procs, KeepLongerPause(p) \/ SetPause(p) PROVE TypeOK' /\ WaitsUnaged'
  BY <1>14 DEF KeepLongerPause, SetPause, Resume, Write, Goto, Done, Drop
<1>15. ASSUME NEW p \in Procs, UpsertFixture(p) \/ UpsertEvent(p) PROVE TypeOK' /\ WaitsUnaged'
  BY <1>15 DEF UpsertFixture, UpsertEvent, Goto, Done, Drop
<1>16. CASE UNCHANGED vars
  BY <1>16 DEF vars
<1> QED
  BY <1>1, <1>2, <1>3, <1>4, <1>5, <1>6, <1>7, <1>8, <1>9, <1>10, <1>11, <1>12, <1>13, <1>14,
     <1>15, <1>16 DEF Next

\* Only TryAcquire makes a run, only time makes it older, and both keep the lock
\* at least as long as the youngest run.
LEMMA LockStep == IInv /\ [Next]_vars => LockCovers' /\ NoDoublePoll'
<1> SUFFICES ASSUME IInv, [Next]_vars
             PROVE  LockCovers' /\ NoDoublePoll'
  OBVIOUS
<1> USE DEF IInv
<1>0. TypeOK'
  BY TypeStep
<1>1. CASE Passes
  <2>1. \A p \in Procs : \A kind \in Kinds : Locked(p, kind)' <=> Locked(p, kind)
    BY <1>1 DEF Passes, Locked
  <2>2. ASSUME NEW p \in Procs, NEW kind \in Kinds, Locked(p, kind)
        PROVE  /\ age[p] \in 0..LockTtl
               /\ age'[p] = IF age[p] < LockTtl THEN age[p] + 1 ELSE age[p]
               /\ lock[kind] >= LockTtl - age[p] /\ lock[kind] \in 0..LockTtl
               /\ lock'[kind] = IF lock[kind] = 0 THEN 0 ELSE lock[kind] - 1
    BY <1>1, <2>2 DEF Passes, Running, RunDown, TypeOK, LockCovers
  <2>3. LockCovers'
    BY <2>1, <2>2 DEF LockCovers
  <2>4. NoDoublePoll'
    BY <2>1, <2>2 DEF NoDoublePoll
  <2> QED BY <2>3, <2>4
<1>2. ASSUME NEW p \in Procs, TryAcquire(p), lock[job[p]] = 0
      PROVE  LockCovers' /\ NoDoublePoll'
  <2> DEFINE k == job[p]
  <2>1. k \in Kinds /\ age[p] = 0 /\ ~Running(p)
    BY <1>2 DEF TryAcquire, WaitsUnaged, Running, Locked
  <2>2. /\ lock' = [lock EXCEPT ![k] = LockTtl]
        /\ age' = age /\ job' = job
        /\ \A q \in Procs : q # p => pc'[q] = pc[q]
    BY <1>2 DEF TryAcquire, Goto, TypeOK
  <2>3. \A q \in Procs : Locked(q, k) => age[q] = LockTtl
    BY <1>2, <2>1, TimesAssumption DEF LockCovers, TypeOK, Kinds
  <2>4. \A q \in Procs : \A kind \in Kinds :
            Locked(q, kind)' => Locked(q, kind) \/ (q = p /\ kind = k)
    BY <2>2 DEF Locked
  <2>5. LockCovers'
    BY <2>1, <2>2, <2>4, TimesAssumption DEF LockCovers, TypeOK
  <2>6. NoDoublePoll'
    BY <2>2, <2>3, <2>4 DEF NoDoublePoll
  <2> QED BY <2>5, <2>6
<1>3. ASSUME /\ \A q \in Procs : \A kind \in Kinds : Locked(q, kind)' => Locked(q, kind) /\ age'[q] = age[q]
             /\ lock' = lock
      PROVE  LockCovers' /\ NoDoublePoll'
  BY <1>3 DEF LockCovers, NoDoublePoll
<1> USE DEF Locked, Kinds
<1>4. CASE PhaseAdvances \/ ProviderDrops \/ FinalizeEventResult \/ UNCHANGED vars
  BY <1>3, <1>4 DEF PhaseAdvances, ProviderDrops, FinalizeEventResult, vars, redis, locals
<1>5. ASSUME NEW i \in Instances, Restart(i) PROVE LockCovers' /\ NoDoublePoll'
  BY <1>3, <1>5 DEF Restart, Drop, redis
<1>6. ASSUME NEW p \in Procs,
             \/ RunFails(p)
             \/ (IsPaused(p) \/ CheckScope(p)) /\ Done(p)
             \/ TryAcquire(p) /\ lock[job[p]] # 0
      PROVE  LockCovers' /\ NoDoublePoll'
  BY <1>3, <1>6 DEF RunFails, IsPaused, CheckScope, TryAcquire, Done, Drop, redis
<1>7. ASSUME NEW p \in Procs,
             StartWatch(p) \/ StartTick(p) \/ StartCatalog(p) \/ StartResults(p) \/ StartCommand(p)
      PROVE  LockCovers' /\ NoDoublePoll'
  BY <1>3, <1>7
     DEF StartWatch, StartTick, StartCatalog, StartResults, StartCommand, Begin, redis, TypeOK
<1>8. ASSUME NEW p \in Procs, IsPaused(p), ~Done(p) PROVE LockCovers' /\ NoDoublePoll'
  BY <1>3, <1>8 DEF IsPaused, Unpaused, Goto, redis, TypeOK
<1>9. ASSUME NEW p \in Procs, ClearPause(p) PROVE LockCovers' /\ NoDoublePoll'
  BY <1>3, <1>9 DEF ClearPause, Unpaused, Goto, TypeOK
<1>10. ASSUME NEW p \in Procs, CheckScope(p), ~Done(p) PROVE LockCovers' /\ NoDoublePoll'
  BY <1>3, <1>10 DEF CheckScope, Goto, redis, TypeOK
<1>11. ASSUME NEW p \in Procs, ResolveLiveSportKeys(p) PROVE LockCovers' /\ NoDoublePoll'
  BY <1>3, <1>11 DEF ResolveLiveSportKeys, Goto, Done, Drop, redis, TypeOK
<1>12. ASSUME NEW p \in Procs,
              \E status \in Statuses \cup {"none"} :
                 FetchSnapshot(p, status) \/ FetchPauses(p, status)
       PROVE  LockCovers' /\ NoDoublePoll'
  <2>1. PICK status \in Statuses \cup {"none"} :
             FetchSnapshot(p, status) \/ FetchPauses(p, status)
    BY <1>12
  <2> QED BY <1>3, <2>1 DEF FetchSnapshot, FetchPauses, Answered, Write, Done, Drop, redis, TypeOK
<1>13. ASSUME NEW p \in Procs, KeepLongerPause(p) \/ SetPause(p) PROVE LockCovers' /\ NoDoublePoll'
  BY <1>3, <1>13 DEF KeepLongerPause, SetPause, Resume, Write, Goto, Done, Drop, redis, TypeOK
<1>14. ASSUME NEW p \in Procs, UpsertFixture(p) \/ UpsertEvent(p) PROVE LockCovers' /\ NoDoublePoll'
  BY <1>3, <1>14 DEF UpsertFixture, UpsertEvent, Goto, Done, Drop, redis, TypeOK
<1>15. ASSUME NEW p \in Procs, TryAcquire(p) \/ IsPaused(p) \/ CheckScope(p)
       PROVE  LockCovers' /\ NoDoublePoll'
  BY <1>2, <1>6, <1>8, <1>10, <1>15
<1>16. ASSUME NEW p \in Procs,
              \/ RunFails(p)
              \/ StartWatch(p) \/ StartTick(p) \/ StartCatalog(p)
              \/ StartResults(p) \/ StartCommand(p)
              \/ IsPaused(p) \/ ClearPause(p) \/ CheckScope(p) \/ TryAcquire(p)
              \/ ResolveLiveSportKeys(p)
              \/ \E status \in Statuses \cup {"none"} :
                    FetchSnapshot(p, status) \/ FetchPauses(p, status)
              \/ KeepLongerPause(p) \/ SetPause(p)
              \/ UpsertFixture(p) \/ UpsertEvent(p)
       PROVE  LockCovers' /\ NoDoublePoll'
  <2>1. CASE RunFails(p)
    BY <1>6, <2>1
  <2>2. CASE \E status \in Statuses \cup {"none"} :
                FetchSnapshot(p, status) \/ FetchPauses(p, status)
    BY <1>12, <2>2
  <2> QED BY <1>7, <1>9, <1>11, <1>13, <1>14, <1>15, <1>16, <2>1, <2>2
<1> QED
  BY <1>1, <1>4, <1>5, <1>16 DEF Next

\* The scheduler's invariant: types, roles of handlers, and a lock that lasts as
\* long as its youngest run.
THEOREM Invariance == Spec => []IInv
<1>1. Init => IInv
  BY DEF Init, IInv, TypeOK, WaitsUnaged, LockCovers, NoDoublePoll, Locked, Phases, Statuses,
         Kinds, Jobs, Steps
<1>2. IInv /\ [Next]_vars => IInv'
  BY TypeStep, LockStep DEF IInv
<1> QED BY <1>1, <1>2, PTL DEF Spec

\* All variables keep their types: timers never run below zero nor above the
\* lifetime that the code sets them to.
THEOREM TypeCorrect == Spec => []TypeOK
<1>1. IInv => TypeOK
  BY DEF IInv
<1> QED BY <1>1, Invariance, PTL

\* Two runs of runLiveTick, or of runCatalogIngest, overlap only when one of them
\* has outlived its lock, for any number of instances and handlers.
THEOREM LocksExclude == Spec => []NoDoublePoll
<1>1. IInv => NoDoublePoll
  BY DEF IInv
<1> QED BY <1>1, Invariance, PTL

-----------------------------------------------------------------------------

\* The pause key never disappears before the time that it holds: Redis counts from
\* the write, the time in the key from before it.
PauseLasts == pause.until <= pause.expiry

\* Before kickoff nothing is LIVE: no row, no snapshot, and no instance polls.
NothingLiveYet ==
    /\ fixture # "LIVE" /\ event # "LIVE"
    /\ \A p \in Procs : snap[p] # "LIVE"
    /\ \A i \in Instances : polling[i] = FALSE

KickoffOK == phase = "upcoming" => NothingLiveYet

\* No instance spends quota on polling before some game has started.
NoPollBeforeKickoff == phase = "upcoming" => \A i \in Instances : ~polling[i]

\* Only time and the two writes of the key move the pause.
LEMMA PauseStep == TypeOK /\ PauseLasts /\ [Next]_vars => PauseLasts'
<1> SUFFICES ASSUME TypeOK, PauseLasts, [Next]_vars PROVE PauseLasts'
  OBVIOUS
<1> USE DEF TypeOK, PauseLasts
<1>1. CASE Passes
  BY <1>1 DEF Passes, RunDown
<1>2. ASSUME NEW p \in Procs, ClearPause(p) \/ SetPause(p) PROVE PauseLasts'
  BY <1>2 DEF ClearPause, SetPause
<1>3. CASE UNCHANGED pause
  BY <1>3
<1>4. ASSUME NEW p \in Procs,
             \/ RunFails(p)
             \/ StartWatch(p) \/ StartTick(p) \/ StartCatalog(p)
             \/ StartResults(p) \/ StartCommand(p)
             \/ IsPaused(p) \/ CheckScope(p) \/ TryAcquire(p)
             \/ ResolveLiveSportKeys(p)
             \/ \E status \in Statuses \cup {"none"} : FetchSnapshot(p, status) \/ FetchPauses(p, status)
             \/ KeepLongerPause(p)
             \/ UpsertFixture(p) \/ UpsertEvent(p)
      PROVE  UNCHANGED pause
  BY <1>4 DEF RunFails, StartWatch, StartTick, StartCatalog, StartResults, StartCommand, Begin,
     IsPaused, CheckScope, TryAcquire, ResolveLiveSportKeys, FetchSnapshot, FetchPauses,
     KeepLongerPause, UpsertFixture, UpsertEvent, redis
<1>5. CASE PhaseAdvances \/ ProviderDrops \/ FinalizeEventResult \/ UNCHANGED vars
           \/ \E i \in Instances : Restart(i)
  BY <1>5 DEF PhaseAdvances, ProviderDrops, FinalizeEventResult, Restart, vars, redis
<1> QED BY <1>1, <1>2, <1>3, <1>4, <1>5 DEF Next

\* Every LIVE, and with it every poll, stems from an answer of the provider about a
\* game that has started.
LEMMA KickoffStep == TypeOK /\ KickoffOK /\ [Next]_vars => KickoffOK'
<1> SUFFICES ASSUME TypeOK, NothingLiveYet, phase = "upcoming", phase' = "upcoming", [Next]_vars
             PROVE  NothingLiveYet'
  <2>1. phase' = "upcoming" /\ [Next]_vars => phase = "upcoming"
    BY DEF Next, vars, game, Passes, PhaseAdvances, ProviderDrops, FinalizeEventResult, Restart, RunFails,
       StartWatch, StartTick, StartCatalog, StartResults, StartCommand, Begin,
       IsPaused, ClearPause, CheckScope, TryAcquire, ResolveLiveSportKeys, FetchSnapshot,
       FetchPauses, KeepLongerPause, SetPause, UpsertFixture, UpsertEvent
  <2> QED BY <2>1 DEF KickoffOK
<1> USE DEF TypeOK, NothingLiveYet, game, locals
<1>1. CASE Passes
  BY <1>1 DEF Passes
<1>2. CASE PhaseAdvances \/ ProviderDrops
  BY <1>2 DEF PhaseAdvances, ProviderDrops
<1>3. CASE FinalizeEventResult
  BY <1>3 DEF FinalizeEventResult
<1>4. ASSUME NEW i \in Instances, Restart(i) PROVE NothingLiveYet'
  BY <1>4 DEF Restart, Drop
<1>5. ASSUME NEW p \in Procs, RunFails(p) \/ ClearPause(p) \/ TryAcquire(p)
                              \/ ResolveLiveSportKeys(p) \/ KeepLongerPause(p) \/ SetPause(p)
      PROVE  NothingLiveYet'
  BY <1>5 DEF RunFails, ClearPause, TryAcquire, ResolveLiveSportKeys, KeepLongerPause, SetPause,
     Unpaused, Resume, Goto, Done, Drop
<1>6. ASSUME NEW p \in Procs,
             StartWatch(p) \/ StartTick(p) \/ StartCatalog(p) \/ StartResults(p) \/ StartCommand(p)
      PROVE  NothingLiveYet'
  BY <1>6 DEF StartWatch, StartTick, StartCatalog, StartResults, StartCommand, Begin
<1>7. ASSUME NEW p \in Procs, IsPaused(p) PROVE NothingLiveYet'
  <2>1. \A i \in Instances : polling'[i] = FALSE
    BY <1>7 DEF IsPaused, StopLivePoll
  <2>2. \A q \in Procs : snap'[q] # "LIVE"
    BY <1>7 DEF IsPaused, Unpaused, Goto, Done, Drop
  <2> QED BY <1>7, <2>1, <2>2 DEF IsPaused
<1>8. ASSUME NEW p \in Procs, CheckScope(p) PROVE NothingLiveYet'
  <2>1. ~HasLiveGames
    BY DEF HasLiveGames
  <2>2. StopLivePoll(p) /\ Done(p) /\ UNCHANGED game
    BY <1>8, <2>1 DEF CheckScope
  <2>3. \A i \in Instances : polling'[i] = FALSE
    BY <2>2 DEF StopLivePoll
  <2> QED BY <2>2, <2>3 DEF Done, Drop
<1>9. ASSUME NEW p \in Procs, NEW status \in Statuses \cup {"none"},
             FetchSnapshot(p, status) \/ FetchPauses(p, status)
      PROVE  NothingLiveYet'
  <2>1. status # "LIVE"
    BY <1>9 DEF FetchSnapshot, FetchPauses, Reported
  <2> QED BY <1>9, <2>1 DEF FetchSnapshot, FetchPauses, Answered, Done, Drop
<1>10. ASSUME NEW p \in Procs, UpsertFixture(p) \/ UpsertEvent(p) PROVE NothingLiveYet'
  BY <1>10 DEF UpsertFixture, UpsertEvent, Goto, Done, Drop
<1>11. CASE UNCHANGED vars
  BY <1>11 DEF vars
<1> QED
  BY <1>1, <1>2, <1>3, <1>4, <1>5, <1>6, <1>7, <1>8, <1>9, <1>10, <1>11 DEF Next

\* A pause lasts as long as its key says, unless a handler that read an older key
\* deletes it: Redis's expiry never ends it early.
THEOREM PauseKeyLasts == Spec => []PauseLasts
<1>1. Init => PauseLasts
  BY DEF Init, PauseLasts
<1> QED BY <1>1, PauseStep, TypeCorrect, PTL DEF Spec

\* No instance polls before kickoff, whatever restarts, slow runs and manual results
\* happen: a poll follows from a LIVE row and a LIVE row from a started game.
THEOREM PollsAfterKickoff == Spec => []NoPollBeforeKickoff
<1>1. Init => KickoffOK
  BY DEF Init, NothingLiveYet, KickoffOK
<1>2. KickoffOK => NoPollBeforeKickoff
  BY DEF NothingLiveYet, NoPollBeforeKickoff, KickoffOK
<1> QED BY <1>1, <1>2, KickoffStep, TypeCorrect, PTL DEF Spec

=============================================================================
