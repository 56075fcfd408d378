--------------------------- MODULE CatalogOffering ---------------------------
(***************************************************************************)
(* Which fixtures exist and which of them a tenant offers: the catalog     *)
(* ingest with its sync of a tenant's leagues and its purge of stale mock  *)
(* fixtures, the purge command, platform and tenant staff who switch a     *)
(* league, and players who place slips meanwhile.                          *)
(*                                                                         *)
(* One tenant and one league.  A fixture row, with its event, markets and  *)
(* selections, is a pair of its reference and an id, because a fixture     *)
(* that was purged and listed again has new rows.  The catalog flags of    *)
(* League and Sport, which no code writes, can only refuse an update.      *)
(***************************************************************************)
EXTENDS Integers, FiniteSets

CONSTANTS
    Fixtures,  \* provider references of fixtures of the league
    Mock,      \* those with the prefix of the mock provider
    Bets,
    Procs,     \* handlers of any kind
    Offered,   \* does the configuration offer the league to this tenant?
    Demo,      \* is it one of the tenants that the ingest syncs?
    Null,
    MaxId      \* bound on the rows that one fixture gets

ASSUME MockAssumption == Mock \subseteq Fixtures
ASSUME FlagsAssumption == Offered \in BOOLEAN /\ Demo \in BOOLEAN
ASSUME MaxIdAssumption == MaxId \in Nat
ASSUME NullAssumption == Null \notin [enabled : BOOLEAN, locked : BOOLEAN]

VARIABLES
    offering,  \* the tenant's CasinoGroupLeague row: enabled, platformLocked
    rows,      \* fixture rows
    lastId,    \* per fixture: the last id given
    bet,       \* Bet.status, CLOSED for rejected, settled and voided bets
    legs,      \* the rows that a bet's legs refer to
    pc,        \* per handler: its next step
    actor,     \* per handler: platform or tenant staff
    wish,      \* per handler: the enabled flag of the request
    seen,      \* per handler: the offering that it has read
    slip,      \* per handler: the rows of a validated slip
    listed,    \* per handler: the fixtures of its snapshot
    chosen,    \* per handler: the rows that its purge deletes
    victims,   \* per handler: the bets that it deletes with them
    open       \* per handler: the bets that were active when it chose (history)

catalog == <<rows, lastId>>
slips == <<bet, legs>>
staff == <<actor, wish, seen>>
purge == <<listed, chosen, victims, open>>
vars == <<offering, catalog, slips, pc, staff, slip, purge>>

Row == [enabled : BOOLEAN, locked : BOOLEAN]
Ids == Fixtures \X (1..MaxId)
Steps == {"idle", "upsert", "create", "sync", "fixtures", "choose", "bets", "delete"}

TypeOK ==
    /\ offering \in Row \cup {Null}
    /\ rows \subseteq Ids
    /\ lastId \in [Fixtures -> 0..MaxId]
    /\ bet \in [Bets -> {"NONE", "PENDING", "ACCEPTED", "CLOSED", "PURGED"}]
    /\ legs \in [Bets -> SUBSET Ids]
    /\ pc \in [Procs -> Steps]
    /\ actor \in [Procs -> {"platform", "tenant", "none"}]
    /\ wish \in [Procs -> BOOLEAN]
    /\ seen \in [Procs -> Row \cup {Null}]
    /\ slip \in [Procs -> SUBSET Ids]
    /\ listed \in [Procs -> SUBSET Fixtures]
    /\ chosen \in [Procs -> SUBSET Ids]
    /\ victims \in [Procs -> SUBSET Bets]
    /\ open \in [Procs -> SUBSET Bets]

Init ==
    /\ offering = Null
    /\ rows = {} /\ lastId = [f \in Fixtures |-> 0]
    /\ bet = [b \in Bets |-> "NONE"] /\ legs = [b \in Bets |-> {}]
    /\ pc = [p \in Procs |-> "idle"]
    /\ actor = [p \in Procs |-> "none"]
    /\ wish = [p \in Procs |-> FALSE]
    /\ seen = [p \in Procs |-> Null]
    /\ slip = [p \in Procs |-> {}]
    /\ listed = [p \in Procs |-> {}]
    /\ chosen = [p \in Procs |-> {}]
    /\ victims = [p \in Procs |-> {}]
    /\ open = [p \in Procs |-> {}]

Goto(p, step) == pc' = [pc EXCEPT ![p] = step]

\* The request or run is over.
Done(p) ==
    /\ Goto(p, "idle")
    /\ actor' = [actor EXCEPT ![p] = "none"]
    /\ wish' = [wish EXCEPT ![p] = FALSE]
    /\ seen' = [seen EXCEPT ![p] = Null]
    /\ slip' = [slip EXCEPT ![p] = {}]
    /\ listed' = [listed EXCEPT ![p] = {}]
    /\ chosen' = [chosen EXCEPT ![p] = {}]
    /\ victims' = [victims EXCEPT ![p] = {}]
    /\ open' = [open EXCEPT ![p] = {}]

\* A crash or a failed query: what was written stays.
HandlerDies(p) ==
    /\ pc[p] # "idle"
    /\ Done(p)
    /\ UNCHANGED <<offering, catalog, slips>>

-----------------------------------------------------------------------------
(* Staff: updateLeagues                                                    *)

\* Reads the row and refuses a tenant who enables a league that the platform
\* has switched off.
ReadOffering(p, who, enabled) ==
    /\ pc[p] = "idle"
    /\ ~(who = "tenant" /\ enabled /\ offering # Null /\ offering.locked)
    /\ actor' = [actor EXCEPT ![p] = who]
    /\ wish' = [wish EXCEPT ![p] = enabled]
    /\ seen' = [seen EXCEPT ![p] = offering]
    /\ Goto(p, "upsert")
    /\ UNCHANGED <<offering, catalog, slips, slip, purge>>

\* The lock that the request carries: the platform locks what it disables, a
\* tenant hands on what it has read.
LockOf(p) ==
    IF actor[p] = "platform" THEN ~wish[p]
    ELSE seen[p] # Null /\ seen[p].locked

\* Faulty variant: an update writes both columns whoever asks.
PersistBoth(p) ==
    /\ pc[p] = "upsert"
    /\ offering' = [enabled |-> wish[p], locked |-> LockOf(p)]
    /\ Done(p)
    /\ UNCHANGED <<catalog, slips>>

\* The upsert of persistOffering: an existing row keeps its lock under a tenant.
PersistOffering(p) ==
    /\ pc[p] = "upsert"
    /\ offering' = IF actor[p] = "tenant" /\ offering # Null
                   THEN [offering EXCEPT !.enabled = wish[p]]
                   ELSE [enabled |-> wish[p], locked |-> LockOf(p)]
    /\ Done(p)
    /\ UNCHANGED <<catalog, slips>>

-----------------------------------------------------------------------------
(* Players                                                                 *)

Visible == offering # Null /\ offering.enabled

\* Legs are on different fixtures, all of them offered.
ValidatePlacement(p, picks) ==
    /\ pc[p] = "idle"
    /\ Visible
    /\ picks # {} /\ picks \subseteq rows
    /\ slip' = [slip EXCEPT ![p] = picks]
    /\ Goto(p, "create")
    /\ UNCHANGED <<offering, catalog, slips, staff, purge>>

\* Faulty variant: a leg keeps the provider's reference, not the row.
CreateBetByRef(p, b) ==
    /\ pc[p] = "create"
    /\ bet[b] = "NONE"
    /\ slip[p] \subseteq rows
    /\ bet' = [bet EXCEPT ![b] = "PENDING"]
    /\ legs' = [legs EXCEPT ![b] = {r[1] : r \in slip[p]}]
    /\ Done(p)
    /\ UNCHANGED <<offering, catalog>>

\* A leg needs its selection row.
CreateBet(p, b) ==
    /\ pc[p] = "create"
    /\ bet[b] = "NONE"
    /\ slip[p] \subseteq rows
    /\ bet' = [bet EXCEPT ![b] = "PENDING"]
    /\ legs' = [legs EXCEPT ![b] = slip[p]]
    /\ Done(p)
    /\ UNCHANGED <<offering, catalog>>

DebitAnswered(b, status) ==
    /\ bet[b] = "PENDING" /\ status \in {"ACCEPTED", "CLOSED"}
    /\ bet' = [bet EXCEPT ![b] = status]
    /\ UNCHANGED <<offering, catalog, legs, pc, staff, slip, purge>>

\* A settlement run or a staff void.
CloseBet(b) ==
    /\ bet[b] = "ACCEPTED"
    /\ bet' = [bet EXCEPT ![b] = "CLOSED"]
    /\ UNCHANGED <<offering, catalog, legs, pc, staff, slip, purge>>

-----------------------------------------------------------------------------
(* Ingest and purge                                                        *)

\* ingestFixtures: the sports, leagues and teams of a snapshot.
UpsertCatalog(p, fixtures) ==
    /\ pc[p] = "idle"
    /\ listed' = [listed EXCEPT ![p] = fixtures]
    /\ Goto(p, "sync")
    /\ UNCHANGED <<offering, catalog, slips, staff, slip, chosen, victims, open>>

\* The enabled flag of a demo tenant follows the configuration; the lock stays.
SyncTenantLeagues(p) ==
    /\ pc[p] = "sync"
    /\ offering' = IF ~Demo THEN offering
                   ELSE IF offering = Null THEN [enabled |-> Offered, locked |-> FALSE]
                   ELSE [offering EXCEPT !.enabled = Offered]
    /\ Goto(p, "fixtures")
    /\ UNCHANGED <<catalog, slips, staff, slip, purge>>

Listed(f) == \E r \in rows : r[1] = f

\* One row at a time; then the purge of mock fixtures that the snapshot leaves
\* out, unless it has no mock fixture at all.
UpsertFixture(p, f) ==
    /\ pc[p] = "fixtures"
    /\ f \in listed[p] /\ ~Listed(f) /\ lastId[f] < MaxId
    /\ lastId' = [lastId EXCEPT ![f] = @ + 1]
    /\ rows' = rows \cup {<<f, lastId[f] + 1>>}
    /\ UNCHANGED <<offering, slips, pc, staff, slip, purge>>

FixturesDone(p) ==
    /\ pc[p] = "fixtures"
    /\ \A f \in listed[p] : Listed(f)
    /\ IF listed[p] \cap Mock = {}
       THEN Done(p)
       ELSE Goto(p, "choose") /\ UNCHANGED <<staff, slip, purge>>
    /\ UNCHANGED <<offering, catalog, slips>>

\* purgeMockCatalog, the command.
StartPurge(p) ==
    /\ pc[p] = "idle"
    /\ Goto(p, "choose")
    /\ UNCHANGED <<offering, catalog, slips, staff, slip, purge>>

Active(b) == bet[b] \in {"PENDING", "ACCEPTED"}

\* Faulty variant: a bet counts as active once its stake is taken.
HasAcceptedBets(r) == \E b \in Bets : bet[b] = "ACCEPTED" /\ r \in legs[b]

HasActiveBets(r) == \E b \in Bets : Active(b) /\ r \in legs[b]

Purgeable(p) == {r \in rows : r[1] \in Mock \ listed[p] /\ ~HasActiveBets(r)}

ChooseFixtures(p) ==
    /\ pc[p] = "choose"
    /\ IF Purgeable(p) = {}
       THEN Done(p)
       ELSE /\ chosen' = [chosen EXCEPT ![p] = Purgeable(p)]
            /\ open' = [open EXCEPT ![p] = {b \in Bets : Active(b)}]
            /\ Goto(p, "bets")
            /\ UNCHANGED <<staff, slip, listed, victims>>
    /\ UNCHANGED <<offering, catalog, slips>>

\* The selections of the chosen rows, and the bets with a leg on one of them.
FindBets(p) ==
    /\ pc[p] = "bets"
    /\ victims' = [victims EXCEPT ![p] = {b \in Bets : legs[b] \cap chosen[p] # {}}]
    /\ Goto(p, "delete")
    /\ UNCHANGED <<offering, catalog, slips, staff, slip, listed, chosen, open>>

Referenced(R, B) == \E b \in B : legs[b] \cap R # {}

\* One transaction; a leg of any other bet makes it fail (HandlerDies).
DeleteFixturesAndBets(p) ==
    /\ pc[p] = "delete"
    /\ ~Referenced(chosen[p], Bets \ victims[p])
    /\ bet' = [b \in Bets |-> IF b \in victims[p] THEN "PURGED" ELSE bet[b]]
    /\ legs' = [b \in Bets |-> IF b \in victims[p] THEN {} ELSE legs[b]]
    /\ rows' = rows \ chosen[p]
    /\ Done(p)
    /\ UNCHANGED <<offering, lastId>>

Next ==
    \/ \E b \in Bets : CloseBet(b) \/ \E s \in {"ACCEPTED", "CLOSED"} : DebitAnswered(b, s)
    \/ \E p \in Procs :
          \/ HandlerDies(p)
          \/ \E who \in {"platform", "tenant"}, e \in BOOLEAN : ReadOffering(p, who, e)
          \/ PersistOffering(p)
          \/ \E picks \in SUBSET rows : ValidatePlacement(p, picks)
          \/ \E b \in Bets : CreateBet(p, b)
          \/ \E fixtures \in SUBSET Fixtures : UpsertCatalog(p, fixtures)
          \/ SyncTenantLeagues(p)
          \/ \E f \in Fixtures : UpsertFixture(p, f)
          \/ FixturesDone(p) \/ StartPurge(p)
          \/ ChooseFixtures(p) \/ FindBets(p) \/ DeleteFixturesAndBets(p)

Spec == Init /\ [][Next]_vars

-----------------------------------------------------------------------------

\* p's request to switch the league is written in this step.
Persists(p, who) == pc[p] = "upsert" /\ actor[p] = who /\ pc'[p] = "idle"

\* What a platform lock is worth.  While the league is locked only the platform
\* takes the lock off, and the league comes back under the lock in two ways
\* only: a tenant's request that had passed the check before the lock was set,
\* and the sync of a demo tenant, which does not look at it.  The schema promises
\* more ("tenant operators cannot re-enable until platform clears it").
LockYieldsToPlatformOnly ==
    [][offering # Null /\ offering.locked =>
          \/ \E p \in Procs : Persists(p, "platform") /\ wish[p]
          \/ /\ offering'.locked
             /\ offering'.enabled =>
                   \/ offering.enabled
                   \/ Demo /\ \E p \in Procs : pc[p] = "sync" /\ pc'[p] = "fixtures"
                   \/ \E p \in Procs : /\ Persists(p, "tenant")
                                       /\ seen[p] = Null \/ ~seen[p].locked]_vars

\* A bet that was PENDING or ACCEPTED when a purge chose its fixtures is not among
\* the bets that this purge deletes, whatever happened to the bet since and
\* however many legs it has.  (One that was placed after the choice may be: the
\* code does not check again.)
PurgeSparesOpenBets == \A p \in Procs : victims[p] \cap open[p] = {}

=============================================================================
