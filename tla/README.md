# sports-betting-service: verification project

TLA+ models of the sports betting backend (NestJS, PostgreSQL through Prisma,
Redis, one HTTP wallet per merchant), the TLC runs that check them and the
proofs that hold for every value of the constants. Paths below are relative to
`src/src/modules/` unless they start with `src/`.

## 1. The system

| Component | State it keeps | Operations | Correct when |
|---|---|---|---|
| Bet placement (`bets/`) | `Bet`, `BetLeg`, the debit row | `placeBet`, its retry under the same idempotency key, `validatePlacement` | one bet per key; a placed bet is decided in the end; the leg freezes what the player saw |
| Wallet outbox (`wallet/wallet-outbox.service.ts`) | `WalletOutbox` rows: type, status, `batchId`, `nextRetryAt` | debit, settlement batch, staff void; worker tick, staff retry | every movement reaches the merchant once; a row is COMPLETED only if booked |
| Wallet client (`wallet/wallet.client.ts`) | the circuit breaker shared by all merchants | post, batch post, balance | a lost reply is retried, a refusal is not taken for a failure and the reverse |
| Settlement (`settlement/`) | `Bet.status`, leg outcomes, SETTLE rows | `settleBatch`, `settleBetsForEvent`, `trySettleBet` | graded once; every bet that can be graded is graded |
| Leg grading (`settlement/leg-outcome.service.ts`) | none | `evaluate` | the result is the one the label promises |
| Staff void, settlement back office (`backoffice/bets`, `backoffice/settlement`) | the same rows | `voidBet`, manual result, run for an event, wallet retry | a void and a settlement never both pay |
| Ingestion (`ingestion/ingestion.service.ts`, `providers/odds-api/odds-api.mapper.ts`) | fixtures, events, markets, selections | catalog and live upserts, final results, purge, league sync | ended stays ended; a suspended market stays so; line and label agree |
| Results ingestion (`ingestion/results-ingest.service.ts`) | event scores | fetch results of open bets, then settle | results reach every open bet |
| Scheduling, lock, quota (`ingestion/ingestion-scheduler.service.ts`, `ingest-lock`, `ingest-quota`) | Redis lock and pause keys, the live poll of each instance | watch, tick, catalog cron, commands | one ingest of a kind within a lock's lifetime; a finished game does not stay LIVE; polling ends when no row is LIVE |
| Trading (`backoffice/trading`) | event, market status | suspend, resume | no resume of an ended event |
| League offering (`backoffice/product`) | `CasinoGroupLeague` | update leagues, platform lock | only the platform takes its lock off |
| Staff (`backoffice/staff`) | accounts, sessions, grants | login, refresh, logout, passwords, operators, tenant access | a new password ends sessions; a replaced token is spent; a disabled account loses access |
| Casino groups, merchants (`casino-groups/`, `backoffice/tenant`, `backoffice/merchants`) | group rows, 60 s Redis cache | resolve, update, create a merchant | a suspended group stops soon |
| Player authentication (`auth/`) | none: signed tokens | launch, guard | sessions end with their lifetime |
| Realtime (`realtime/`) | sockets, rooms, one Redis channel | connect, subscribe, publish, deliver | who stays subscribed sees the latest state in the end, while the game is polled |
| Catalog queries, analytics, compliance, metrics, health | none | reads | not modelled |

Interaction. A player request, an outbox tick (`setInterval`), a results or
settlement tick and staff calls all run concurrently, in one process and in
several instances. They share PostgreSQL rows and take no row locks: each reads,
perhaps awaits an HTTP call, and writes by id. The only guards are unique
indexes, `(casinoGroupId, userId, idempotencyKey)`, `transactionCode` and
`(betId, type)` on outbox rows. The merchant is reached by HTTP with a 5 s
timeout and is asked to treat a known `transactionCode` as a duplicate.

Hard behaviours: checks before an await that no longer hold after it; two
handlers on one bet; answers that arrive after the bet moved on; a crash between
the merchant's booking and the mark of the row; a batch that is retried with
another list; runs that always start from the oldest bet; locks and pauses that end
by time; caches written by a reader that was overtaken; messages delivered at most
once. The complete list,
each at its line, is `hazards` in `PROJECT.json`.

## 2. Modules

| Module | What it is |
|---|---|
| `BetLifecycle` | core: placement, debit, settlement run, staff void, delivery, merchant, network; every handler a process, every database or HTTP call a step |
| `BetAccount` | abstract: the player's account of a bet, without handlers, outbox or network |
| `BetRaces` | `BetLifecycle` with a history variable for statuses written on a stale reading; its refinement of `BetAccount`, in any overlap of handlers |
| `BetProgress` | fairness and liveness of `BetLifecycle`, in any overlap of handlers |
| `BetLifecycle_proofs` | the inductive invariants of `BetLifecycle` and `BetRaces`, the ledger theorems and the refinement of `BetAccount` |
| `SettlementQueue` | which bets a run reads, and who waits |
| `CircuitBreaker` | the breaker with overlapping calls |
| `WorkerLoops_proofs` | theorems about the breaker and the settlement queue |
| `LegGrading`, `LegGrading_proofs` | one market from quote to grade |
| `EventBook`, `EventBook_proofs` | one event, its market and a bet under ingestion, results, trading, manual results, placement and grading |
| `IngestScheduler`, `IngestScheduler_proofs` | watch, polls, catalog job, locks and pause of several instances around one game |
| `CatalogOffering`, `CatalogOffering_proofs` | fixtures, the offering of a league, slips, and the purge that deletes both |
| `StaffAccess`, `StaffAccess_proofs` | back-office accounts, sessions, grants and the creation of merchants |
| `PlayerAccess` | launch, session token, the cached tenant, its update by staff |
| `RealtimeFeed`, `RealtimeFeed_proofs` | `PlayerAccess` composed with the live feed: ingest, publication, Redis, socket |
| `MC...` | definitions for TLC only: symmetry sets, sets with negative numbers |

### BetLifecycle and the code

`bet[b]` is `Bet.status`; `debit`, `settle`, `void` are the status of the bet's
three possible outbox rows; `outcome` and `batch` are the settlement row's
payload outcome and `batchId`; `waiting` holds the rows whose `nextRetryAt` is
ahead (a set: the length of the backoff does not matter, only that a row may be
due or not). `pc`, `scope`, `graded`, `run`, `reply` are the local variables of a
handler between two awaits. `applied` is the merchant's ledger, `wire` holds the
requests that timed out here and may still arrive.

One action is one step of the code between two awaits that matter:
`ReadBet`/`ReadOutbox` are the two reads of `processSingleDebit`, the post is
answered by one of the merchant's actions, `AcceptBet`/`RejectBet`/
`RetryDebitLater` are its three endings. `GradeBet` leaves the outcome open: two
runs may see different scores. `PersistConflict` is the unique index
aborting a run. `HandlerDies` is a crash anywhere; what follows from a restart is
that nothing of the local state survives and that the worker finds the rows.

Abstractions: one merchant (the code never mixes two in a batch); codes are pairs
of bet and movement, because they are hashes of them (the random debit code is
written with the bet and never replaced); amounts are left out. Any due row may
be picked, so neither the limit of 20 nor the order of `createdAt` restricts the
model. A flush that goes on to a next batch is a new `StartFlush`.

`MerchantRefuses` does not refuse a transaction that it has already booked.
`Duplicate` tells apart three merchants that all fit the integration document. All
answer a request of known transactions only as a duplicate, and the client takes
that for success of the whole request (`wallet.client.ts:174`). `"everyCode"`
books the unknown transactions of any other batch; `"anyCode"` answers DUPLICATE, and
books nothing, once one transaction of the batch is known; `"batchId"` does so once
it knows the batch.

### BetAccount, BetRaces and the code

The account has five variables: the status of a bet, the outcome it was settled
at, whether staff voided it, the merchant's ledger, and `raced`, the bets whose
status somebody wrote who did not know what it had become. Two writes of the code
do that, and nothing in it prevents them: a debit answer that comes after another attempt's
(`wallet-outbox.service.ts:174` and 281), which may put a closed bet back to
ACCEPTED or REJECTED, and a grade or a staff void that was
overtaken after its check (`settlement.service.ts:262`, `staff-bets.service.ts:207`).
`BetRaces` computes `raced` from the status before the write. What the account promises of
every bet, raced or not: ACCEPTED after a booked stake only; one settlement and
one staff void at most; the ledger holds only what was decided. Of an unraced bet
it says more: the status moves forward once, and `CreditMatchesStatus` gives it one
credit, the one its status calls for.

### LegGrading and the code

`Quote` is the mapper and the upsert of one market: `LineOf` is `marketLine`,
`PointOf` the point that `selectionLabel` prints. A quote may move the line at any
time while the market is open and may list either team first. `PlaceLeg` freezes
the label and the line. `Grade` is `gradeBet` for a slip with this leg. `Evaluate`
and its operators are `LegOutcomeService`, with a name reduced to the team names it
contains (`nested`: the away team's name contains the home team's) and numbers in
half points. `quoted` and `basis` are history: the last quote, and the quote that was
the last one at placement.

### EventBook and the code

`event`, `market`, `selection` are the rows that `ingestSnapshot`,
`ingestFinalResults`, `TradingService`, `finalizeEventResult` and
`closeMarketsForEndedEvent` write; `bet` is the status of a bet with one leg on
the selection (`NONE` before it is placed and after a rejection, `GRADED` for WON
and LOST). `phase` is what the odds provider knows: `OddsReturned` and
`ScoresReported` say what its two endpoints may answer in each phase. An ingest
asks for odds, then for scores (a game may end between the two), builds
the event of the snapshot (`EventInSnapshot`) and writes event, markets and
selections one statement at a time; a results tick asks for scores only and then
settles. Trading checks a row in one query and writes in a later transaction
(`CheckTrading`, then `SuspendEvent`, `SuspendMarket` or `ResumeMarket`).
`ReadEvent` and `ReadMarket` are the two reads of `gradeBet`, in either order.

Abstractions: scores are tokens, because who wins is the subject of `LegGrading`;
one market with one selection; fixture rows and prices are left out. What
settlement does after grading is `BetLifecycle`. Placement reads no `RiskLimit`
rows, so staff changing them is no action.

### IngestScheduler and the code

`fixture` and `event` are the status of the two rows of one game, `phase` is what
the provider knows of it. `lock` and `pause` are the keys in Redis, as timers that
`Passes` runs down; the pause is a pair because its value and Redis's expiry are
two times, and `isPaused` deletes it by the value. `polling` is `livePollActive` of
each instance. A handler runs one job: `StartWatch`, `StartTick`, `StartCatalog`,
`StartResults` and `StartCommand` begin it, and each await is a step: `IsPaused`,
`ClearPause`, `CheckScope` (`hasLiveGames` in watch and tick), `TryAcquire` (`SET NX
EX`; nothing releases it), `ResolveLiveSportKeys`, `FetchSnapshot`, the answer that
sets a pause (`FetchPauses`, `KeepLongerPause`, `SetPause`, then `Resume`: a 401
ends the run, a low quota does not), `UpsertFixture`, `UpsertEvent`. A results job
writes the event only, as the snapshot that it applies has no fixtures.
`FinalizeEventResult` is the manual result. `RunFails` and `Restart` are failed
calls and crashes of an instance. `ProviderDrops`: from kickoff on the provider may
drop the game at any time, after which no snapshot has it (`Reported`), the
ingests write nothing and only a manual result ends its rows.

Abstractions: one game, so the sport keys reduce to whether it is in scope
(`HasLiveGames`, `Prestart`); one lifetime for both locks; whole units of time.

### CatalogOffering and the code

`offering` is the tenant's `CasinoGroupLeague` row. `ReadOffering` is the read of
`updateLeagues` with its checks, `PersistOffering` the later transaction, which
takes the lock from the older read for a tenant (`LockOf`) but writes it for the
platform only. `SyncTenantLeagues` is the ingest's write of the demo tenants. `rows`
are fixture rows with their selections, as pairs of reference and id, because a
purged fixture that is listed again gets new rows. The purge is three steps:
`ChooseFixtures` (those without active bets), `FindBets` (all bets on them),
`DeleteFixturesAndBets` (one transaction; `BetLeg.selection` has no cascade, so a
leg of any other bet aborts it). `UpsertCatalog`, `UpsertFixture`, `FixturesDone`
are the ingest around it. `open` remembers which bets were active at the choice.

Abstractions: one tenant and one league; the flags of `League` and `Sport`, which
no code writes, can only refuse an update; wallet rows go with their bet.

### StaffAccess and the code

`session[s]` is a `StaffSession` row, `closed` when revoked or past `expiresAt`,
`deleted` after a password change. A request is its check (`Login`,
`CheckRefresh`, `CheckChangePassword`, `CheckResetPassword`, `CheckAddOperator`)
and its writes (`Revoke`, `CreateSession`, `StorePassword`, `AddOperator`), with
any number of other requests or a crash between them. `CreateMerchant` is one
transaction: group, operator account and the grant of the creator.
`SetTenantAccess` replaces the grants of an administrator. `HasAccess` is
`assertCasinoGroupAccess`. `access` holds the users with an access token that has
not expired; `proof`, `parent` and `late` are history. Rows that are closed and that
nobody refers to are used again for new sessions, so chains of refreshes are not
bounded.

Left out: the permissions of each role, the creation of platform administrators,
lists. A super administrator passes every scope check and adds nothing to them.

### PlayerAccess, RealtimeFeed and the code

`group` is the tenant's row, `cache` the two keys in Redis. `CacheHit`,
`CacheMiss`, `QueryGroup` and `WriteCache` are `resolveActiveById` and
`resolveActiveBySlug`, called by the guards and by a socket that connects;
`PatchTenant` and `Invalidate` are `patchTenant`. A failing Redis is a miss in the
first, an exception after the update in the second. `VerifyLaunch` and `Mint` are
the launch. `overlap` remembers which entries were written by a reader that an
update overtook, or left behind by a failed invalidation.

`RealtimeFeed` adds the event: `FetchSnapshot`, `UpsertEvent`,
`PublishEventUpdate` are an ingest, which publishes what it wrote and not what the
row has by then; `channel` is what Redis has not delivered, `EmitToRoom` and
`MessageLost` its two ends; `HandleSubscribe`, `Join`, `HandleUnsubscribe`,
`Disconnect` the socket. A subscriber that asks again after a reconnection is a new
`HandleSubscribe`. The last version, `MaxVersion`, is the end of the game: the live
ticks (`LiveTick`) go on while the row has an earlier one.

Abstractions: one tenant, one player, one event; a version stands for status,
score and clock; the window of the subscription limit is a refusal at any time.
`SwitchLeague` is any writer of the offering (`CatalogOffering` has them all).

## 3. Runs

| Run | Bounds | Shows |
|---|---|---|
| `lifecycle_overlap` | 1 bet, 2 handlers that may each play every role, 2 settlement runs | `BetAccount` is implemented, and the invariants hold, under any overlap; a credit that does not match its bet's status takes a stale write |
| `batch_duplicates` | 2 bets, a debit handler, a handler that settles, voids and delivers, 2 runs, a merchant of kind `"anyCode"` | which settlement rows a merchant that answers for whole batches loses, and that no other row is marked unbooked |
| `bet_progress` | 1 bet, 2 handlers that debit, of which one settles and voids and the other delivers, 2 runs | a placed bet is decided, the rows of a closed bet are paid |
| `void_race` | 1 bet, 2 handlers | violated: staff void against settlement |
| `breaker` | 4 calls, threshold 2, cooldown 2 | the circuit follows its counter and recovers |
| `queue_drains` | 3 bets, batch of 2, 1 never decided | every bet that can be graded is reached, unless a re-opened bet is in the way |
| `grading` | all types, points -1.5, -1, 0, 0.5, 2, moving lines, both listing orders, nested names, up to 3 goals | one side wins; grades agree with labels, with three exceptions |
| `event_book` | one ingest, one results handler, one user handler, one staff call | bets are graded on final scores only, and in the end; the book closes for good |
| `ingest_schedule` | 2 instances with a handler each, the second also for other jobs; locks of 2 units, pause of 1, 1 fault | one run of a kind per lock's lifetime; a row stays LIVE only if the provider drops the game; polling stops when no row is LIVE |
| `catalog` | a mock and a real fixture with 2 rows each, 2 slips of any legs, 2 handlers | purge spares open bets; what a platform lock is worth |
| `staff` | 1 administrator, 1 operator account, 2 groups, 2 requests, 3 session rows in rotation, 2 passwords | what passwords, rotations and failures leave behind; a disabled account loses access |
| `player_feed` | 2 handlers, each of several kinds, 1 setting besides DISABLED, 2 changes (the second is the end of the game), 1 message in the channel | cache stale only as explained, and not for ever; subscribers catch up while live ticks go on |

Why the bounds are enough. Every property of `BetLifecycle` is about one bet, except
through a batch; two handlers in any role give every pair of races, and a third adds
nothing to a pair of conflicting writes. Two runs allow a second grading. Two bets
are the least that make a partial batch; races of handlers of one kind on two bets at
once are too many states, so `batch_duplicates` gives its handlers different roles
and leaves the races to `lifecycle_overlap`. In `bet_progress` debit attempts overlap
each other and everything else, so bets are re-opened and runs aborted; the second
outcome handler (a void against a settlement) is in `lifecycle_overlap` only. Its
delivery handler does not grade, because a grading handler that finds no batch id
left (`MaxRuns`) stays where it is. The theorems of section 5 have no such bounds: any
bets, any handlers in any role. Four calls exceed threshold plus
one, so a late result on each side of an opening exists. Batch size 2 with 1
undecided bet leaves one place that moves, and a third bet that waits behind it. In
`grading` five points have both signs, zero, and whole and half values, so a line
may move across each. In `event_book` one handler of each kind gives each pair of
writers (a stale ingest against a manual result, a late resume or suspension against
the final ingest, a placement against either); its invariant is proved for any
number of handlers, calls and final scores. In `ingest_schedule` a lock of 2 units
lets a run end before, at and after the expiry; the fault is a crash, a failed call,
a pause or a manual result at any step. In `catalog` two slips over two fixtures
give a slip that is in the purge's way by one leg only, and two rows per fixture a
fixture that comes back. In `staff` three rows are two sessions of one token and the
token itself. In `player_feed` the tenant's two rows (one setting, DISABLED) make
the cache right or wrong, a second setting passes as well but takes minutes; two
changes are a version during the game, old and new for two overlapping ingests, and
the end of it, after which live ticks stop; one place in the channel is enough for a
loss and for an inversion, since both handlers hold their message before they
publish.

Deadlock is not checked in runs that may come to rest: every bet closed and
delivered, a leg graded, every session closed and every bound reached.

### What the code does against its documents or expectation

`void_race` ends in a violation; `findings` in `PROJECT.json` quotes the sentence
that it contradicts. The other cases below are modelled as the code does them, and
the properties above are stated so that they hold with them.

- A batch is retried under its `batchId` with another list
  (`src/docs/WALLET_PROVIDER_INTEGRATION.md` says the same one):
  `BatchRetriesSameList` of `BetLifecycle` fails with two bets in one run. A merchant
  that answers for the batch as a whole then never books the rows it has not seen,
  and they are marked COMPLETED: the exception `LostInBatch` of `CompletedRowsBooked`.
- An error response with a body is read as lack of funds: the bet is REJECTED, and
  its stake may be booked by the request that is still under way. The account allows
  it: `Bookable` has the stake of a rejected bet.
- The answer of a second debit attempt overwrites what the bet has become, so a closed
  bet may be ACCEPTED or REJECTED again. `raced` marks it; it is graded again, and the
  unique index aborts that run.
- A run always reads the oldest `BATCH_SIZE` accepted bets, and a conflict ends it.
  `NoGradableBetStuck` fails in `SettlementQueue` once that many bets are never decided
  (`MaxHopeless` at least `BatchSize`); and one re-opened bet whose outcome is known
  stops itself and every younger bet for ever, which is why the property excludes it.
- `src/README.md:253` ("Bet leg snapshot") says that the snapshot is what the player
  bet on. It is not in three cases, the exceptions of `GradedAsLabelled`, each of
  which TLC shows to be needed when it is dropped: a selection with an old point
  stays open after the line moved and freezes the new line (`LineMoved`); the
  provider lists the away side first and its point becomes the line (`AwayFirst`); the
  away team's name contains the home team's and the leg is graded as a home leg
  (`TakenForHome`). In the last case both picks of a handicap are graded as home, so
  `OneSideWins` excludes it as well.
- A game that the provider drops while it is LIVE here stays LIVE, and every instance
  goes on polling for it, until somebody enters the result (`src/docs/RUNBOOKS.md:53`
  and 67, `src/README.md:288` describe the symptom and the remedy). Without its
  second disjunct `LiveRowsEnd` fails.
- The live poll ends with the row, so the last message of a game, if it is lost, not
  published or overtaken, is never sent again: `SubscriberCatchesUp` promises the last
  version to the row and not to the screen.
- A bet that is placed after the purge has chosen its fixtures, and before it looks
  for bets, is deleted with them, although its stake may be taken. Outbox rows of
  closed bets are deleted delivered or not.
- `src/prisma/schema.prisma:194` says that tenant operators cannot re-enable a locked
  league until the platform clears the lock. A tenant's request that read the row
  before the lock writes `enabled` after it (`product.service.ts:112`, 184-185), and so
  does the sync of a demo tenant (`ingestion.service.ts:785`). The lock flag stays, so
  the next request of the tenant is refused, but the league is offered meanwhile.
  `LockYieldsToPlatformOnly` names both ways and says that there is no third.
- `listLeagues` shows a league without a row as enabled; placement and the feed
  want a row.
- A login that checked the old password creates its session after the change
  deleted all sessions. The session is good until it expires.
- Two requests with one refresh token may both get a new one.
- A results job that sees a game LIVE writes the event only, so the fixture stays
  SCHEDULED until a tick or a catalog run.
- A socket outlives its session and the suspension of its tenant, until it
  disconnects.
- A price is published only when it differs from what the ingest read before; if
  that message is lost it is not sent again. A manual result publishes nothing; the
  next ingest that still lists the event does.
- A disabled tenant has no wallet configuration: credits of its players wait.
- A slip with a void leg is void, also when another leg is lost.

## 4. Fairness

`BetProgress!FairSpec`, which assumes nothing of how handlers overlap: `setInterval` starts ticks for
ever (weak fairness of `PickDebit`, `StartFlush`, `PickVoid`), a handler that is
alive goes on (weak fairness of `Continues`), `nextRetryAt` passes; the merchant
answers well, and the update after it succeeds, infinitely often if asked infinitely
often (strong fairness; timeouts and refusals may come any number of times); crashes
may come any number of times, but not for ever. Nothing is assumed of players or
staff, nor that a bet is ever graded. `SettlementQueue`: ticks come and a run that
is alive goes on (weak fairness of `TakeBatch`, `GradeNext`, `PersistNext`), runs
are killed finitely often, results that exist arrive. Ingestion withdraws results,
and late debit answers come, finitely often: no attempt starts once its bet is
decided. That conflicts cease is not assumed. `CircuitBreaker`: calls keep being
made, each one ends, time passes.

`EventBook!Fairness`: the game goes on until the provider drops it from `/odds`
and reports its score; ticks start for ever and a handler that is alive goes on
(weak fairness); the scores call does not fail for ever (strong fairness);
crashes cease at some time (`CrashesCease`); staff make finitely many calls, of
which none is needed. A game whose score the provider never reports is outside
these assumptions: its bets wait for a manual result.

`IngestScheduler!Fairness`: time passes and the game goes on, unless the provider drops
it, which it may do at any time after kickoff; the watch's interval
starts watches for ever, and a handler that is alive goes on, be it with a failed
call (weak fairness); an interval that exists infinitely often fires infinitely
often (strong fairness of `StartTick`, as watches with an older read may stop it in
between). Nothing is assumed of the catalog job, results jobs, commands or staff.
Faults are finitely many. `StaffAccess`: access tokens expire; nothing else.

`RealtimeFeed!Fairness`: tokens and cache entries expire, requests that are alive
end (weak fairness). A write or a publication of an ingest under way, and the delivery
of a message, may fail any number of times but not always (strong fairness). Nothing
is assumed of the start of ingests: that live ticks bring the event again while its row is
not at the end is the premise `LiveTicksGoOn` of `SubscriberCatchesUp`, which is about
a player who stays in the room of an offered event.

## 5. Proofs

`BetLifecycle_proofs`. None of the ledger properties is inductive. A handler may
act on what it read long ago, so the invariant `IInv` has to say what stays true of
it: a bet once seen ACCEPTED has its debit in the ledger for ever, a row that
exists never disappears, its outcome never changes (`PersistOne` needs
`settle[b] = "NONE"`: this is where the unique index enters). The parts are
`RowsOK` (what the rows of a bet imply), `MarkedOK` (a COMPLETED debit or void is
booked), `HandlersOK` and `AnswersOK` (what a handler has read is still good enough),
`LedgerOK` (each movement in the ledger or on the wire has its row). One lemma per
group of actions shows that a step keeps `IInv`. From it: `TypeCorrect`,
`CreditFollowsDebit`, `SingleOutcome`, `ClosedBetHasRow`. The only assumptions on
constants are `MaxRuns \in Nat` and the three kinds of merchant: any sets of bets
and handlers, in any roles and any overlap.

- `CompletedMeansBooked`, for every kind of merchant, needs `BatchInv`: a batch id
  that the merchant knows has a row of that batch in the ledger, a batch on the wire
  consists of rows that have its id (`BatchesOK`), and a handler that was answered
  holds rows that are `Delivered`, booked or lost beside a booked one (`PostersOK`).
- `Implementation`, the refinement of `BetAccount` by `RacesSpec`, has no assumption
  about the overlap. A step shows in the account not at all (`StutterMaps`,
  `AnswerMaps`), as movements booked by the merchant (`BookMaps`), or as a status
  written; one lemma per group of actions, and `StepMaps` for all of them. `IInv`
  gives the guards of the account: a booked stake for `Accept`, a placed and decided bet
  for `Settle` and `StaffVoid`, `Justified` for `Book`.
- `LedgerAgreesWithBets`: the credit of an unraced bet matches its status. `CleanInv`
  says of unraced bets that status and rows tell one story (`OneStory`). It is
  proved of the steps of the account and comes down to the code by the refinement.
  That raced bets are excluded is needed: `void_race` is a bet with both credits due.

`WorkerLoops_proofs`. For the breaker `ClosedBelowThreshold` and `HalfOpenHasTrial` with
`TypeOK` are inductive together: half-open is only entered with the counter at the
threshold, so any failure in half-open re-opens by the counter alone. For any
threshold, cooldown and set of calls. For the queue `QueueTypeCorrect` contains that a
run holds `BATCH_SIZE` bets at most: `Oldest` takes the bets of rank below the batch
size, ranks of two bets differ (`RankGrows`), so they inject into an interval of that
size (`OldestBounded`). `ShortBacklogReadWhole` and `FullBatchBlocks` are the two sides
of the bound in `queue_drains`: a backlog within the batch is read whole, and a batch of
older undecided bets shuts out every younger one.

`LegGrading_proofs`. `NoMarketPaysTwice` for any scores, points and moves of the line.
`GradedByLabel` through `LabelOK`: the market's line is the one that the last quote
gives, a placed leg's that of the quote it was placed under, whatever is quoted
afterwards. Neither theorem assumes anything about lines, listing orders or names;
the exceptions are in the properties.

`EventBook_proofs`. `GradedOnFinalScore` is not inductive: between an ingest's
call and the grading the score passes through a snapshot, the event row and the
grading handler. `IInv` says of each that ENDED with a score means a final score:
`FinalRow` of the event (`RowsOK`) and of every snapshot, and `seenScore` of every
handler (`HandlersOK`). Suspending keeps the score and changes the status away from
ENDED, which is why status and score have to be written together elsewhere. The
second half of the property, not before the end of the game unless staff step in, is
proved by cases: once the game is over or staff have called it stays so (`EndedStays`),
and until then nothing says ENDED, no row, no snapshot, no read (`QuietUntilEnd`). For
any sets of handlers, also overlapping, and any final scores.

`IngestScheduler_proofs`. `NoDoublePoll` needs two facts about time: `LockCovers`, a
run younger than the lifetime of its lock is still covered by it (its age and the
lock's rest add up), and `WaitsUnaged`, a handler that does not hold a lock has not
begun to age. Two young runs of a kind are then impossible because the second
`SET NX` needs the lock to be free. `PauseKeyLasts`: the time in the pause key never lies
beyond the expiry that Redis keeps for it. `PollsAfterKickoff` through `NothingLiveYet`: a
poll follows from a LIVE row, a LIVE row from a snapshot, a snapshot from the provider.
For any instances, handlers and lifetimes.

`CatalogOffering_proofs`. `SparedOK`: between choice and deletion no chosen row is in
the legs of a bet that was open at the choice, because legs never change and a new
bet is not one of those; this is what `PurgeSparesOpenBets` needs of `FindBets`.
`NoVictimsYet` and `UpdateHasActor` say what a handler holds at which step.
`LockIsThePlatforms` needs `TenantChecked`: a tenant's request that is about to
enable the league read the row without a lock, however long ago. For any fixtures,
bets, handlers and configuration.

`StaffAccess_proofs`. `HandlerOK` says what a request that goes on has checked (a user
that exists, a password version that was right, a session that it revoked),
`OpenHasOwner` that an open session has an account. With them `PasswordEndsSessions`
and `ReplacedIsSpent` are inductive. The one about rotation rests on
the order of `Revoke` and `CreateSession`: a row is revoked before its successor
exists, and nothing reopens a row that is somebody's parent.

`RealtimeFeed_proofs`. `StaleOnlyByOverlap` with `TypeOK` is inductive: a step that
makes an entry differ from the row is an update, which then stands before its
invalidation, a late write or a failed invalidation, which are recorded.
`FeedInventsNothing` through `NothingAhead`: versions are copied along snapshot, row,
channel and screen, so none is newer than the provider's latest. For any
handlers, settings and bounds.

Only model-checked: liveness (`PlacementResolved`, `ClosedBetPaid`, `RecoveryCloses`,
`NoGradableBetStuck`, `AcceptedBetGraded`, `BookCloses`, `LiveRowsEnd`, `PollingStops`,
`DisabledLosesAccess`, `GroupCatchesUp`, `SubscriberCatchesUp`), which needs fairness and
ENABLED and is out of the prover's reach. Every invariant of a passing run, every action
property and the refinement have a theorem. The violation of `void_race` is a
counterexample, found by TLC.

## 6. Not modelled, and the plan

1. Proofs: which bets settlement runs that overlap without staff leave unraced, and the
   steps of `PlayerAccess` on their own.
2. Slips of several legs: `aggregateBetResult`, payout, legs decided at different
   times. (`CatalogOffering` has slips of several legs, ungraded.)
3. The order in which debit rows are picked (20 per tick, growing backoff).
4. The odds of market rooms, which are published on change only.

Left out for good: read-only queries and reports, metrics, health, DTO mapping,
wording of the `detail` text, cryptography of tokens and signatures, the HTTP
client of the odds provider.
