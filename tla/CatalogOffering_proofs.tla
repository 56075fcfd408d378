------------------------ MODULE CatalogOffering_proofs ------------------------
(***************************************************************************)
(* The catalog's properties for any fixtures, bets, handlers and tenants.  *)
(***************************************************************************)
EXTENDS CatalogOffering, TLAPS

\* What a purge holds stays true of the bets: those that were active when it chose
\* have been placed, and none of their legs is on a chosen row.
SparedOK ==
    \A p \in Procs : \A b \in open[p] : bet[b] # "NONE" /\ legs[b] \cap chosen[p] = {}

\* Only a purge that is about to delete has looked for bets.
NoVictimsYet == \A p \in Procs : pc[p] # "delete" => victims[p] = {}

\* An update is somebody's.
UpdateHasActor == \A p \in Procs : pc[p] = "upsert" => actor[p] \in {"platform", "tenant"}

\* A tenant's request to enable has passed the check: the row it read had no lock.
TenantChecked ==
    \A p \in Procs : pc[p] = "upsert" /\ actor[p] = "tenant" /\ wish[p] =>
                        seen[p] = Null \/ ~seen[p].locked

IInv == TypeOK /\ UpdateHasActor /\ TenantChecked /\ NoVictimsYet /\ SparedOK /\ PurgeSparesOpenBets

USE MockAssumption, FlagsAssumption, MaxIdAssumption, NullAssumption

\* The end of a handler, by whatever step, forgets its purge.
LEMMA DoneKeeps ==
    ASSUME TypeOK, NEW p \in Procs, Done(p)
    PROVE  /\ pc' \in [Procs -> Steps]
           /\ actor' \in [Procs -> {"platform", "tenant", "none"}]
           /\ wish' \in [Procs -> BOOLEAN]
           /\ seen' \in [Procs -> Row \cup {Null}]
           /\ slip' \in [Procs -> SUBSET Ids]
           /\ listed' \in [Procs -> SUBSET Fixtures]
           /\ chosen' \in [Procs -> SUBSET Ids]
           /\ victims' \in [Procs -> SUBSET Bets]
           /\ open' \in [Procs -> SUBSET Bets]
           /\ \A q \in Procs : q # p => /\ open'[q] = open[q]
                                        /\ chosen'[q] = chosen[q]
                                        /\ victims'[q] = victims[q]
           /\ open'[p] = {} /\ victims'[p] = {} /\ pc'[p] = "idle"
           /\ \A q \in Procs : q # p => pc'[q] = pc[q]
  BY DEF Done, Goto, TypeOK, Steps

\* Every step keeps the types.
LEMMA TypeStep == TypeOK /\ [Next]_vars => TypeOK'
<1> SUFFICES ASSUME TypeOK, [Next]_vars PROVE TypeOK'
  OBVIOUS
<1> USE DEF TypeOK, catalog, slips, staff, purge
<1>1. ASSUME NEW b \in Bets, CloseBet(b) \/ \E s \in {"ACCEPTED", "CLOSED"} : DebitAnswered(b, s)
      PROVE  TypeOK'
  BY <1>1 DEF CloseBet, DebitAnswered
<1>2. ASSUME NEW p \in Procs, HandlerDies(p) PROVE TypeOK'
  BY <1>2, DoneKeeps DEF HandlerDies
<1>3. ASSUME NEW p \in Procs, NEW who \in {"platform", "tenant"}, NEW e \in BOOLEAN,
             ReadOffering(p, who, e)
      PROVE  TypeOK'
  BY <1>3 DEF ReadOffering, Goto, Steps
<1>4. ASSUME NEW p \in Procs, PersistOffering(p) PROVE TypeOK'
  <2>1. LockOf(p) \in BOOLEAN
    BY DEF LockOf, Row
  <2>2. offering' \in Row \cup {Null}
    BY <1>4, <2>1 DEF PersistOffering, Row
  <2> QED BY <1>4, <2>2, DoneKeeps DEF PersistOffering
<1>5. ASSUME NEW p \in Procs, NEW picks \in SUBSET rows, ValidatePlacement(p, picks) PROVE TypeOK'
  BY <1>5 DEF ValidatePlacement, Goto, Steps
<1>6. ASSUME NEW p \in Procs, NEW b \in Bets, CreateBet(p, b) PROVE TypeOK'
  BY <1>6, DoneKeeps DEF CreateBet
<1>7. ASSUME NEW p \in Procs, NEW fixtures \in SUBSET Fixtures, UpsertCatalog(p, fixtures)
      PROVE  TypeOK'
  BY <1>7 DEF UpsertCatalog, Goto, Steps
<1>8. ASSUME NEW p \in Procs, SyncTenantLeagues(p) PROVE TypeOK'
  <2>1. offering' \in Row \cup {Null}
    BY <1>8 DEF SyncTenantLeagues, Row
  <2> QED BY <1>8, <2>1 DEF SyncTenantLeagues, Goto, Steps
<1>9. ASSUME NEW p \in Procs, NEW f \in Fixtures, UpsertFixture(p, f) PROVE TypeOK'
  BY <1>9 DEF UpsertFixture, Ids
<1>10. ASSUME NEW p \in Procs, FixturesDone(p) \/ StartPurge(p) PROVE TypeOK'
  BY <1>10, DoneKeeps DEF FixturesDone, StartPurge, Goto, Steps
<1>11. ASSUME NEW p \in Procs, ChooseFixtures(p) PROVE TypeOK'
  BY <1>11, DoneKeeps DEF ChooseFixtures, Purgeable, Goto, Steps
<1>12. ASSUME NEW p \in Procs, FindBets(p) PROVE TypeOK'
  BY <1>12 DEF FindBets, Goto, Steps
<1>13. ASSUME NEW p \in Procs, DeleteFixturesAndBets(p) PROVE TypeOK'
  BY <1>13, DoneKeeps DEF DeleteFixturesAndBets
<1>14. CASE UNCHANGED vars
  BY <1>14 DEF vars
<1> QED
  BY <1>1, <1>2, <1>3, <1>4, <1>5, <1>6, <1>7, <1>8, <1>9, <1>10, <1>11, <1>12, <1>13, <1>14
     DEF Next

\* An update starts with the read of a request.
LEMMA ActorStep == TypeOK /\ UpdateHasActor /\ [Next]_vars => UpdateHasActor'
<1> SUFFICES ASSUME TypeOK, UpdateHasActor, [Next]_vars PROVE UpdateHasActor'
  OBVIOUS
<1> USE DEF UpdateHasActor
<1>1. ASSUME NEW p \in Procs, Done(p) PROVE UpdateHasActor'
  BY <1>1 DEF Done, Goto, TypeOK
<1>2. ASSUME NEW p \in Procs, NEW step \in Steps, step # "upsert", Goto(p, step), UNCHANGED actor
      PROVE  UpdateHasActor'
  BY <1>2 DEF Goto, TypeOK
<1>3. CASE UNCHANGED <<pc, actor>>
  BY <1>3
<1>4. ASSUME NEW p \in Procs, NEW who \in {"platform", "tenant"}, NEW e \in BOOLEAN,
             ReadOffering(p, who, e)
      PROVE  UpdateHasActor'
  BY <1>4 DEF ReadOffering, Goto, TypeOK
<1>5. ASSUME NEW p \in Procs,
             \/ HandlerDies(p) \/ PersistOffering(p) \/ DeleteFixturesAndBets(p)
             \/ \E b \in Bets : CreateBet(p, b)
             \/ \E picks \in SUBSET rows : ValidatePlacement(p, picks)
             \/ \E fixtures \in SUBSET Fixtures : UpsertCatalog(p, fixtures)
             \/ SyncTenantLeagues(p) \/ StartPurge(p)
             \/ FixturesDone(p) \/ ChooseFixtures(p) \/ FindBets(p)
      PROVE  UpdateHasActor'
  BY <1>1, <1>2, <1>5 DEF HandlerDies, PersistOffering, DeleteFixturesAndBets, CreateBet,
     ValidatePlacement, UpsertCatalog, SyncTenantLeagues, StartPurge, FixturesDone,
     ChooseFixtures, FindBets, staff, Steps
<1>6. ASSUME NEW p \in Procs, \E f \in Fixtures : UpsertFixture(p, f) PROVE UpdateHasActor'
  BY <1>3, <1>6 DEF UpsertFixture, staff
<1>7. ASSUME NEW b \in Bets, CloseBet(b) \/ \E s \in {"ACCEPTED", "CLOSED"} : DebitAnswered(b, s)
      PROVE  UpdateHasActor'
  BY <1>3, <1>7 DEF CloseBet, DebitAnswered, staff
<1>8. CASE UNCHANGED vars
  BY <1>3, <1>8 DEF vars, staff
<1> QED
  BY <1>4, <1>5, <1>6, <1>7, <1>8 DEF Next

\* An enabling request of a tenant starts with a read that finds no lock, and
\* keeps what it has read.
LEMMA CheckedStep == TypeOK /\ TenantChecked /\ [Next]_vars => TenantChecked'
<1> SUFFICES ASSUME TypeOK, TenantChecked, [Next]_vars PROVE TenantChecked'
  OBVIOUS
<1> USE DEF TenantChecked
<1>1. ASSUME NEW p \in Procs, Done(p) PROVE TenantChecked'
  BY <1>1 DEF Done, Goto, TypeOK
<1>2. ASSUME NEW p \in Procs, NEW step \in Steps, step # "upsert", Goto(p, step), UNCHANGED staff
      PROVE  TenantChecked'
  BY <1>2 DEF Goto, TypeOK, staff
<1>3. CASE UNCHANGED <<pc, staff>>
  BY <1>3 DEF staff
<1>4. ASSUME NEW p \in Procs, NEW who \in {"platform", "tenant"}, NEW e \in BOOLEAN,
             ReadOffering(p, who, e)
      PROVE  TenantChecked'
  BY <1>4 DEF ReadOffering, Goto, TypeOK
<1>5. ASSUME NEW p \in Procs,
             \/ HandlerDies(p) \/ PersistOffering(p) \/ DeleteFixturesAndBets(p)
             \/ \E b \in Bets : CreateBet(p, b)
             \/ \E picks \in SUBSET rows : ValidatePlacement(p, picks)
             \/ \E fixtures \in SUBSET Fixtures : UpsertCatalog(p, fixtures)
             \/ SyncTenantLeagues(p) \/ StartPurge(p)
             \/ FixturesDone(p) \/ ChooseFixtures(p) \/ FindBets(p)
      PROVE  TenantChecked'
  BY <1>1, <1>2, <1>5 DEF HandlerDies, PersistOffering, DeleteFixturesAndBets, CreateBet,
     ValidatePlacement, UpsertCatalog, SyncTenantLeagues, StartPurge, FixturesDone,
     ChooseFixtures, FindBets, Steps
<1>6. ASSUME NEW p \in Procs, \E f \in Fixtures : UpsertFixture(p, f) PROVE TenantChecked'
  BY <1>3, <1>6 DEF UpsertFixture
<1>7. ASSUME NEW b \in Bets, CloseBet(b) \/ \E s \in {"ACCEPTED", "CLOSED"} : DebitAnswered(b, s)
      PROVE  TenantChecked'
  BY <1>3, <1>7 DEF CloseBet, DebitAnswered
<1>8. CASE UNCHANGED vars
  BY <1>3, <1>8 DEF vars
<1> QED
  BY <1>4, <1>5, <1>6, <1>7, <1>8 DEF Next

\* Bets are looked for in the step before they are deleted.
LEMMA VictimsStep == TypeOK /\ NoVictimsYet /\ [Next]_vars => NoVictimsYet'
<1> SUFFICES ASSUME TypeOK, NoVictimsYet, [Next]_vars PROVE NoVictimsYet'
  OBVIOUS
<1> USE DEF NoVictimsYet
<1>1. ASSUME NEW p \in Procs, Done(p) PROVE NoVictimsYet'
  BY <1>1, DoneKeeps
<1>2. ASSUME NEW p \in Procs, NEW step \in Steps, step # "delete", pc[p] # "delete",
             Goto(p, step), UNCHANGED victims
      PROVE  NoVictimsYet'
  BY <1>2 DEF Goto, TypeOK
<1>3. CASE UNCHANGED <<pc, victims>>
  BY <1>3
<1>4. ASSUME NEW p \in Procs,
             \/ HandlerDies(p) \/ PersistOffering(p)
             \/ \E b \in Bets : CreateBet(p, b)
             \/ DeleteFixturesAndBets(p)
      PROVE  NoVictimsYet'
  BY <1>1, <1>4 DEF HandlerDies, PersistOffering, CreateBet, DeleteFixturesAndBets
<1>5. ASSUME NEW p \in Procs,
             \/ \E who \in {"platform", "tenant"}, e \in BOOLEAN : ReadOffering(p, who, e)
             \/ \E picks \in SUBSET rows : ValidatePlacement(p, picks)
             \/ \E fixtures \in SUBSET Fixtures : UpsertCatalog(p, fixtures)
             \/ SyncTenantLeagues(p) \/ StartPurge(p)
      PROVE  NoVictimsYet'
  BY <1>2, <1>5 DEF ReadOffering, ValidatePlacement, UpsertCatalog, SyncTenantLeagues, StartPurge,
                    purge, Steps
<1>6. ASSUME NEW p \in Procs, FixturesDone(p) \/ ChooseFixtures(p) PROVE NoVictimsYet'
  BY <1>1, <1>2, <1>6 DEF FixturesDone, ChooseFixtures, purge, Steps
<1>7. ASSUME NEW p \in Procs, FindBets(p) PROVE NoVictimsYet'
  BY <1>7 DEF FindBets, Goto, TypeOK
<1>8. ASSUME NEW p \in Procs, \E f \in Fixtures : UpsertFixture(p, f) PROVE NoVictimsYet'
  BY <1>3, <1>8 DEF UpsertFixture, purge
<1>9. ASSUME NEW b \in Bets, CloseBet(b) \/ \E s \in {"ACCEPTED", "CLOSED"} : DebitAnswered(b, s)
      PROVE  NoVictimsYet'
  BY <1>3, <1>9 DEF CloseBet, DebitAnswered, purge
<1>10. CASE UNCHANGED vars
  BY <1>3, <1>10 DEF vars, purge
<1> QED
  BY <1>4, <1>5, <1>6, <1>7, <1>8, <1>9, <1>10 DEF Next

\* Every step keeps what a purge holds.
LEMMA PurgeStep == IInv /\ [Next]_vars => SparedOK' /\ PurgeSparesOpenBets'
<1> SUFFICES ASSUME IInv, [Next]_vars
             PROVE  SparedOK' /\ PurgeSparesOpenBets'
  OBVIOUS
<1> USE DEF IInv, SparedOK, PurgeSparesOpenBets
<1>0. TypeOK /\ TypeOK'
  BY TypeStep
<1>1. ASSUME NEW b \in Bets, CloseBet(b) \/ \E s \in {"ACCEPTED", "CLOSED"} : DebitAnswered(b, s)
      PROVE  SparedOK' /\ PurgeSparesOpenBets'
  BY <1>0, <1>1 DEF CloseBet, DebitAnswered, TypeOK, catalog, purge
<1>2. ASSUME NEW p \in Procs, Done(p), UNCHANGED slips
      PROVE  SparedOK' /\ PurgeSparesOpenBets'
  BY <1>0, <1>2, DoneKeeps DEF slips
<1>3. ASSUME NEW p \in Procs, UNCHANGED <<slips, chosen, victims, open>>
      PROVE  SparedOK' /\ PurgeSparesOpenBets'
  BY <1>0, <1>3 DEF slips
<1>4. ASSUME NEW p \in Procs, NEW b \in Bets, CreateBet(p, b)
      PROVE  SparedOK' /\ PurgeSparesOpenBets'
  <2>1. \A q \in Procs : b \notin open[q]
    BY <1>4 DEF CreateBet
  <2>2. \A c \in Bets : c # b => bet'[c] = bet[c] /\ legs'[c] = legs[c]
    BY <1>0, <1>4 DEF CreateBet, TypeOK
  <2>4. Done(p)
    BY <1>4 DEF CreateBet
  <2>5. \A q \in Procs : open[q] \subseteq Bets
    BY <1>0 DEF TypeOK
  <2> QED BY <1>0, <2>1, <2>2, <2>4, <2>5, DoneKeeps
<1>5. ASSUME NEW p \in Procs, ChooseFixtures(p), Purgeable(p) # {}
      PROVE  SparedOK' /\ PurgeSparesOpenBets'
  <2>1. /\ chosen' = [chosen EXCEPT ![p] = Purgeable(p)]
        /\ open' = [open EXCEPT ![p] = {b \in Bets : Active(b)}]
        /\ victims' = victims /\ UNCHANGED <<bet, legs, rows>>
    BY <1>5 DEF ChooseFixtures, catalog, slips
  <2>2. \A b \in Bets : Active(b) => bet[b] # "NONE" /\ legs[b] \cap Purgeable(p) = {}
    BY DEF Active, Purgeable, HasActiveBets
  <2>3. victims[p] = {}
    BY <1>5 DEF ChooseFixtures, NoVictimsYet
  <2> QED BY <1>0, <2>1, <2>2, <2>3 DEF TypeOK
<1>6. ASSUME NEW p \in Procs, FindBets(p)
      PROVE  SparedOK' /\ PurgeSparesOpenBets'
  BY <1>0, <1>6 DEF FindBets, TypeOK, catalog, slips
<1>7. ASSUME NEW p \in Procs, DeleteFixturesAndBets(p)
      PROVE  SparedOK' /\ PurgeSparesOpenBets'
  <2>1. \A b \in Bets : bet'[b] = "NONE" => bet[b] = "NONE"
    BY <1>0, <1>7 DEF DeleteFixturesAndBets, TypeOK
  <2>2. \A b \in Bets : legs'[b] \subseteq legs[b]
    BY <1>0, <1>7 DEF DeleteFixturesAndBets, TypeOK
  <2>4. Done(p)
    BY <1>7 DEF DeleteFixturesAndBets
  <2>6. \A q \in Procs : open'[q] \subseteq open[q] /\ open[q] \subseteq Bets
    BY <1>0, <2>4, DoneKeeps DEF TypeOK
  <2> QED BY <1>0, <2>1, <2>2, <2>4, <2>6, DoneKeeps
<1>8. CASE UNCHANGED vars
  BY <1>8 DEF vars, catalog, slips, purge
<1>9. ASSUME NEW p \in Procs,
             \/ HandlerDies(p) \/ PersistOffering(p)
             \/ FixturesDone(p) /\ Done(p)
             \/ ChooseFixtures(p) /\ Purgeable(p) = {}
      PROVE  SparedOK' /\ PurgeSparesOpenBets'
  BY <1>2, <1>9 DEF HandlerDies, PersistOffering, FixturesDone, ChooseFixtures
<1>10. ASSUME NEW p \in Procs,
              \/ \E who \in {"platform", "tenant"}, e \in BOOLEAN : ReadOffering(p, who, e)
              \/ \E picks \in SUBSET rows : ValidatePlacement(p, picks)
              \/ \E fixtures \in SUBSET Fixtures : UpsertCatalog(p, fixtures)
              \/ SyncTenantLeagues(p) \/ StartPurge(p)
              \/ \E f \in Fixtures : UpsertFixture(p, f)
              \/ FixturesDone(p) /\ ~Done(p)
       PROVE  SparedOK' /\ PurgeSparesOpenBets'
  <2>1. UNCHANGED <<slips, chosen, victims, open>>
    BY <1>10 DEF ReadOffering, ValidatePlacement, UpsertCatalog, SyncTenantLeagues, StartPurge,
                 UpsertFixture, FixturesDone, catalog, purge
  <2> QED BY <1>3, <2>1
<1> QED
  BY <1>1, <1>4, <1>5, <1>6, <1>7, <1>8, <1>9, <1>10 DEF Next

\* The invariant of the catalog and its purges.
THEOREM Invariance == Spec => []IInv
<1>1. Init => IInv
  BY DEF Init, IInv, TypeOK, UpdateHasActor, NoVictimsYet, TenantChecked, SparedOK,
         PurgeSparesOpenBets, Steps
<1>2. IInv /\ [Next]_vars => IInv'
  BY TypeStep, ActorStep, CheckedStep, VictimsStep, PurgeStep DEF IInv
<1> QED BY <1>1, <1>2, PTL DEF Spec

\* Rows and local variables keep their types.
THEOREM TypeCorrect == Spec => []TypeOK
<1>1. IInv => TypeOK
  BY DEF IInv
<1> QED BY <1>1, Invariance, PTL

\* deleteFixturesAndBetHistory never deletes a bet that was active when it chose
\* the fixtures, for any slips and any number of purges at a time.
THEOREM OpenBetsSpared == Spec => []PurgeSparesOpenBets
<1>1. IInv => PurgeSparesOpenBets
  BY DEF IInv
<1> QED BY <1>1, Invariance, PTL

\* Only the platform takes its lock off, and a league comes back under the lock
\* only through an older request of the tenant or the sync of a demo tenant.
THEOREM LockIsThePlatforms == Spec => LockYieldsToPlatformOnly
<1> DEFINE Holds ==
      offering # Null /\ offering.locked =>
          \/ \E p \in Procs : Persists(p, "platform") /\ wish[p]
          \/ /\ offering'.locked
             /\ offering'.enabled =>
                   \/ offering.enabled
                   \/ Demo /\ \E p \in Procs : pc[p] = "sync" /\ pc'[p] = "fixtures"
                   \/ \E p \in Procs : /\ Persists(p, "tenant")
                                       /\ seen[p] = Null \/ ~seen[p].locked
<1>1. IInv /\ [Next]_vars => Holds
  <2> SUFFICES ASSUME IInv, [Next]_vars, offering # Null, offering.locked PROVE Holds
    OBVIOUS
  <2>0. TypeOK /\ UpdateHasActor /\ TenantChecked
    BY DEF IInv
  <2>1. CASE offering' = offering
    BY <2>1
  <2>2. CASE offering' # offering
    <3>1. PICK p \in Procs : PersistOffering(p) \/ SyncTenantLeagues(p)
      BY <2>2 DEF Next, vars, CloseBet, DebitAnswered, HandlerDies, ReadOffering,
                  ValidatePlacement, CreateBet, UpsertCatalog, UpsertFixture, FixturesDone,
                  StartPurge, ChooseFixtures, FindBets, DeleteFixturesAndBets
    <3>2. CASE SyncTenantLeagues(p)
      <4>1. Demo /\ offering'.locked
        BY <2>0, <2>2, <3>2 DEF SyncTenantLeagues, TypeOK, Row
      <4>2. pc[p] = "sync" /\ pc'[p] = "fixtures"
        BY <2>0, <3>2 DEF SyncTenantLeagues, Goto, TypeOK
      <4> QED BY <4>1, <4>2
    <3>3. CASE PersistOffering(p) /\ actor[p] = "tenant"
      <4>1. offering' = [offering EXCEPT !.enabled = wish[p]]
        BY <3>3 DEF PersistOffering
      <4>2. offering'.locked /\ offering'.enabled = wish[p]
        BY <2>0, <4>1 DEF TypeOK, Row
      <4>3. Persists(p, "tenant")
        BY <2>0, <3>3 DEF Persists, PersistOffering, Done, Goto, TypeOK
      <4>4. wish[p] => seen[p] = Null \/ ~seen[p].locked
        BY <2>0, <3>3 DEF TenantChecked, PersistOffering
      <4> QED BY <4>2, <4>3, <4>4
    <3>4. CASE PersistOffering(p) /\ actor[p] = "platform"
      <4>1. offering' = [enabled |-> wish[p], locked |-> ~wish[p]]
        BY <3>4 DEF PersistOffering, LockOf
      <4>2. Persists(p, "platform")
        BY <2>0, <3>4 DEF Persists, PersistOffering, Done, Goto, TypeOK
      <4>3. wish[p] \in BOOLEAN
        BY <2>0 DEF TypeOK
      <4> QED BY <4>1, <4>2, <4>3
    <3> QED BY <2>0, <3>1, <3>2, <3>3, <3>4 DEF UpdateHasActor, PersistOffering
  <2> QED BY <2>1, <2>2
<1>2. IInv /\ [Next]_vars => [Holds]_vars
  BY <1>1
<1> QED BY <1>2, Invariance, PTL DEF Spec, LockYieldsToPlatformOnly

=============================================================================
