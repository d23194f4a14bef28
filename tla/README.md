# Nova Quant: a formal model of its business state

Nova Quant is a TypeScript service (`src/server`, run as serverless functions)
with a React client (`src/`, `app/`, `admin/`) and numeric research engines.
This directory holds TLA+ modules translated from its source, TLC
configurations that check them on small instances, and proofs for TLAPS.
Paths below are relative to the repository.

## 1. The system

### How it runs

The API is deployed as functions: several Node instances serve requests at the
same time and share one Postgres database. Business code is synchronous: a
handler calls `executeSync` / `queryRowsSync`, which block the whole instance on
`Atomics.wait` until a worker thread has run the statement
(`src/server/db/postgresSyncBridge.ts`). Hence one instance runs one handler at
a time, and what interleaves is *SQL statements of different instances*.
`tx_begin` sends a bare `BEGIN`, so transactions run at READ COMMITTED, and
nothing but row locks, unique indexes and conditional updates orders them.

### Components

| component | state it keeps | operations | talks to | hard behaviour | what makes it correct |
| --- | --- | --- | --- | --- | --- |
| points: rewards (`manual/service.ts`) | `manual_user_state`, `manual_points_ledger`, `manual_checkins`, `manual_engagement_daily` | sign-up bonus, check-in, engagement signal, VIP redemption, dashboard | auth (sign-up calls it), Postgres | races of instances, unlocked reads, UTC midnight, equal millisecond stamps, an error swallowed inside a transaction | a bonus once, a day paid once, VIP days equal to points charged, no overdraft, caps, a streak that counts days |
| points: referrals | the same ledger, `manual_referrals` | claim, second milestone, onboarding bonus | the row of *another* user | two users' rows in one transaction, two transactions in one call, a monthly cap | one inviter, milestones once to each side, exact cap, no deadlock |
| prediction markets | `manual_prediction_markets`, `_entries`, `manual_main_prediction_daily`, `manual_free_daily_entries` | submit, settle | the same ledger; the admin route | slots of a day, status read before the transaction, two settlements | slots not overrun, stakes and payouts match entries, results final |
| billing (`billing/service.ts`) | checkout sessions, subscriptions, customers, `billing_webhook_events` | open, view and expire a checkout, cancel, webhooks | Stripe, membership | webhooks late, twice and out of order; a crash between provider and database; deadlocks | the tables change one whole event at a time; what was acknowledged is recorded |
| synchronous bridge (`db/postgresSyncBridge.ts`, `postgresSyncWorker.mjs`) | a message channel, the worker's open transaction, the pool | query, begin, commit, rollback | worker thread, Postgres | time-outs with late answers, a worker that dies, an exhausted pool | an acknowledged write is committed, a transaction is whole, none stays open |
| frontend read caches (`api/queries/frontendReadCache.ts`) | entries with a TTL, loads in flight, a cooldown | read, invalidate | Postgres reads, writers | a load that started before an invalidation | staleness ends; a request joins only a running load of its key |
| request governance of the client (`shared/http/apiGovernance.js`, `utils/api.js`) | breaker, pause, spacing, coalesced requests; deadlines and locks in `localStorage` | fetch | the API, the other tabs | half-open probes, closed tabs, requests sent before the breaker opened | one probe at a time, a gap between requests, a breaker that closes again |
| membership (`membership/service.ts`) | daily Ask Nova usage | read, consume | chat, billing | a counter several instances read and write | the daily limit |
| runtime repository (`db/postgresRuntimeRepository.ts`) and mirror (`postgresBusinessMirror.ts`) | none in the process; the mirror has a write queue nothing in the server uses | one statement per call, over the bridge | Postgres | none beyond the bridge's | what the bridge promises |
| alpha registry, shadow runner, promotion guard | candidates, shadow runs, workflow runs | discover, sample, promote, retire | repository, cron | a run that dies half way | a candidate's life cycle is never skipped |
| provider gate (`ingestion/providerGate.ts`) | none | drop, correct, keep or override price bars, then upsert them | market data feeds, repository | numeric thresholds | the better source wins |
| authentication (`auth/service.ts`) | users, sessions, reset codes, in one of three stores | sign-up, login, rotate, reset | e-mail, points | sequences of independent calls | sessions follow the password |
| outcome resolution (`outcome/resolver.ts`) | outcome reviews | resolve | price history | repeated runs | idempotence (the key is the snapshot and the action) |
| decision, evidence, quant and research engines | none shared | scoring | market data | floating point | not a matter of control |
| engagement, notifications, execution governance, chat, admin, ingestion, web frontends, qlib bridge | see `PROJECT.json` | | | | |

How they interact: the points service, billing, membership and the runtime
repository all run their SQL over the synchronous bridge, so one handler has the
instance for itself; the read caches are the exception (they `await` a pool of
their own and fall back to the bridge), and so is everything the browser does.
Auth calls the points service at sign-up; membership reads the subscriptions that
billing keeps; the client's governance stands in front of every route.

`PROJECT.json` lists every component with its status, and under `hazards` the
places in the code where something can go wrong that a test would hardly reach.

## 2. What is modelled

### Modules and the code they stand for

`PostgresRows` is the part of Postgres the code relies on (external, modelled
from the statements `manual/service.ts` sends). `db` is the committed version of
every unique key, `owner` the transaction that has locked it, `new` what that
transaction sees. It has no notion of tables: a row is a key such as
`<<"checkin", user, day>>`, and a unique index is the fact that a key has one
version.

`PointsLedger` is what all handlers share: the set of committed ledger rows
(`ledger`), those of open transactions (`open`), the locked ones (`held`), and
for each instance the statement it sends next (`pc`), its local variables
(`frame`), its pending `appendPointsLedger` calls (`todo`) and the balance it
last read (`bal`). Actions: a call starts, an append (read the balance, make
the user's row if it is missing, insert under the singleton index), commit,
give up, crash, and a new UTC day.

`ManualRewards`, `ManualReferrals` and `PredictionMarkets` each extend it with
the handlers of a group, one action per SQL statement:

| code | actions |
| --- | --- |
| `tryGrantManualSignupBonus` | SignupCheck, then the append with AppendNoState / MakeState, AppendDuplicate |
| `getManualDashboard` (as far as it writes) | EnsureFound / EnsureMissing / EnsureInsert, Answer |
| `manualDailyCheckin` | Ensure..., Today, CheckinSelect, CheckinInsert, CheckinState, up to three appends |
| `grantManualEngagementSignal` | Ensure..., Today, EngageSelect, EngageInsert, one append |
| `redeemManualVipDay` | VipCap, VipPick, VipLock, VipState, one append |
| `claimManualReferral` | Ensure..., ClaimCheck, ClaimLock, ClaimState, ClaimInsert, two appends |
| `completeManualReferralStage2` | Stage2Read, Stage2Lock, Stage2Cap, Stage2Update, two appends |
| `claimManualOnboardingBonus` | Ensure..., OnboardCheck, one append, OnboardCommit, then the second milestone |
| `submitManualPredictionEntry` | MarketRead, EntrySelect, FreeSelect/FreeInsert or MainSelect/MainInsert, LastPick, LastLock, EntryInsert, one append |
| `resolveAndSettleManualPredictionMarket` | SettleRead, SettleMarket, SettleEntries, SettleNext (one per entry, with its append), SettleDone |

`SELECT ... ORDER BY created_at_ms DESC LIMIT 1 FOR UPDATE` takes two actions
(PickLastRow and the lock), because Postgres picks the row from the statement's
snapshot, may wait for it, and then returns that row even if a newer one was
committed meanwhile.

`UniqueLedger` is the abstract specification: rows are only added, a
transaction's rows appear together or not at all, and no two rows of one user
share a singleton event. `ManualRewards`, `ManualReferrals` and `ManualService`
implement it (`ImplementsUniqueLedger` in `PointsLedger`, the identity on `ledger`
and `open`).

`ManualService` composes the three groups: one ledger, one row per user, all ten
handlers free to mix from an empty database, each statement dispatched to the
module its frame belongs to. The three groups are instances with parameters of
their own, whose assumptions it repeats (`ServiceAssumption`).

`BillingWebhooks` is `billing/service.ts` for one user over `PostgresRows`, one
action per SQL statement:

| code | actions |
| --- | --- |
| `processBillingWebhook` | Deliver, Seen (outside the transaction), Record, then by the event's type, Commit, Answer |
| `checkout.session.*` | SessionRead (which passes over a session that was never stored), SessionWrite, Customer (of an event that names one) |
| `handleStripeInvoicePaidEvent`, `...PaymentFailedEvent` | PaidRead, PaidWrite, Customer; FailedRead, FailedWrite |
| `customer.subscription.*` | Customer, CancelOthers and TakeOthers (one UPDATE, row by row), SubRead, SubInsert or SubUpdate, SessionRead, SessionWrite |
| `createBillingCheckoutSession` | OpenCheckout (at Stripe), NewCustomer, NewSession |
| expiry on read (`getBillingState`, `getBillingCheckoutSession`) | View, ViewRead, ViewExpire |
| `cancelBillingSubscription` | Cancel, CancelRead, CancelSubscriptions and TakeAll |
| an error in the transaction | Abort, from SubInsert (a duplicate, or no session for its foreign key) or as a DeadlockVictim |

Nobody can pay at a checkout whose URL was not handed out, since the request that
opened it is under way or died before the session's INSERT, but Stripe reports its
expiry all the same (`Happened`).

`BillingMirror` is its abstract specification, without transactions and
statements: the local copies of sessions and subscriptions change by one whole
webhook, expiry or cancellation at a time, an invoice never revives a cancelled
subscription, and a subscription that becomes active replaces the others. A
cancellation ends the active subscriptions its UPDATE saw, which may be fewer than
are active when it commits.

`PostgresBridge` is the layer below: the main thread of one process (`Send`,
`Receive`, `Timeout`, `WorkerError`, `WorkerExit`), the worker's handlers
(`HandleMessage`, `Connect`, `ConnectFails`) and the connections (`Execute`,
`ConnectionLost`, `CloseIdle`), for tasks that are one statement or a transaction
of two as `runManualTransaction`, `runBillingTransaction` and `upsertRowsSync`
make it. A connection may be lost, and a worker may die (`WorkerDies`), after
Postgres has run what it was sent. The 'error' and 'exit' events of a worker are
heard one after the other, and a late one makes the main thread forget the worker
it has started meanwhile (`Forget`), which goes on with what it has
(`RunsAdrift`).
It says when the view `PointsLedger` and `BillingWebhooks` have of their own
transaction is right, and when it is not (see section 3).

`FrontendReadCache` is `cachedFrontendRead` (Miss, Store, Rejects), `tryPrimaryPostgresRead`
(QueryReads, QueryFails, QueryAnswers, FallBack) and
`invalidateFrontendReadCacheForUser` as its writers call it (Write), on several
instances.

`RequestGovernance` is `apiGovernance.js` as `fetchApi` uses it, for one bucket and
several tabs. A call ends at once (Paused, BackedOff), is admitted (Admitted) or
tries to become the probe (WouldProbe, then AdmittedAsProbe or ProbeLost). A
request waits for its turn and for the lock (`waitRequestSpacing`: TakeTurn,
PollSpacing, LockSpacing, SpacingLost, LockTimesOut), sleeps, is stamped (Stamp),
leaves when `withAuthHeaders` has its token (Depart) and is finalised (Fails,
Disabled, Succeeds). `tryAcquireAdvisoryLock` is a read, a write (WritesLock) and
a confirming read of `localStorage`, and other tabs run in between.

The `MC...` modules give the constants their values for TLC, and the `..._proofs`
modules hold the theorems; `PostgresAccess_proofs` those of the read cache and of
the bridge, the two ways a service gets to Postgres. (In `FrontendReadCache` the
specification is therefore named `CacheSpec`, and so on.)

### Abstractions

- A handler is atomic *inside* its instance, hence one `pc` per instance.
- A `User` has a row in `auth_users`; guests are refused at the door and left
  out, as are the feature switches that turn a bonus off (a bonus of zero points).
- An invite code is the user it belongs to (its column is UNIQUE).
- Points are small numbers; every one of them is configurable in the code
  through `NOVA_MANUAL_...`. A month has `DaysPerMonth` days, the streaks of 7
  and 30 days are `StreakShort` and `StreakLong`.
- The option a user picks is one of the market's options (the code normalises
  and checks it before it touches the database). `winReturnPoints` and the cold
  start are one constant `WinReturn`.
- The stamp of a ledger row is a logical clock: each insert has a later stamp,
  or, with `MsTies`, the same one as the insert before it.
- The answers handlers give are left out, and so is the dashboard that some of
  them read after their commit.
- A foreign key takes a KEY SHARE lock, which conflicts with no statement here.
- A market's status before it is settled, and the day it closes on, are data.

- Billing: one user; a checkout leads to one subscription; the columns are a
  status and whether the customer is linked. Stripe is external: each set of
  events in `Outboxes` is what it may have to say, in any order and as often as it
  likes until it was answered 200. Postgres aborts one of two transactions that
  wait for each other.
- Bridge: a write is a pair (task, number); which SQL it is does not matter.
- Read cache: a value is the version of the row it was read from; TTL and cooldown
  are times that pass some time after they start.
- Bridge: an abandoned worker that is in a transaction is left out; what one leaves
  behind is the subject of `strayed` (section 3).
- Governance: taking a lock is three steps, every other read-modify-write of
  `localStorage` one. It may be full (`setItem` throws and is passed over:
  `stores`), but it is there. Of a deadline only the time left is kept, and `Tick` lets all of them run down; the
  failure streak stops at the threshold, and the length of a backoff is chosen
  from a set (it grows with the streak and is jittered). `fetch` follows
  redirects, so no 3xx comes back.

## 3. What is checked

Runs that pass:

| run | module | what it shows |
| --- | --- | --- |
| `rewards` | MCManualRewards | two instances, every reward handler of one user, three days, crashes at any statement, equal stamps allowed: each day row paid once and no payment without its row (DailyRowPaidOnce), VIP days equal to the points charged (VipDaysMatchLedger), a streak that counts days (StreakCountsDays), and the abstract ledger implemented, hence one sign-up bonus |
| `referrals` | MCManualReferrals | three users, two instances, crashes, a cap of one: one inviter each (ReferredOnce), milestones paid once to both sides although the onboarding call and the explicit one race (MilestonesPaidOnce), no two completions past the monthly count (InviterMonthlyCap), the abstract ledger implemented, and every call ends although users lock each other's rows (EveryCallEnds) |
| `predictions_slots` | MCPredictionMarkets | one user, three MAIN and two free markets, four calls: the slots of a day are never overrun and agree with the entries, also when a submission fails (DailySlots) |
| `predictions_settle` | MCPredictionMarkets | two users, a STANDARD and a free market, submissions against settlements: points taken and paid match the entries (EntriesMatchLedger) and results are final (ResultsAreFinal) |
| `manual_service` | MCManualService | two instances mix sign-up, redemption, referral, submission and settlement from an empty database over two one-day months, with equal stamps, midnights within a call and crashes: what the balance (RunningBalance, NeverOverdrawn), the monthly VIP cap (VipMonthlyCap) and the markets (ResolvedMeansSettled, WinnersPickedTheAnswer) promise goes wrong for no other reason than the overlaps the properties name |
| `billing` | MCBillingWebhooks | six sets of Stripe events about two checkouts, any order, duplicates, two instances, deadlocks and a crash, while the user opens, views and cancels: every commit is one whole event of the abstract mirror (ImplementsMirror), nothing acknowledged is lost (AckedMeansRecorded), no read takes back a completion (CompletionsSurviveReads), and every event is recorded in the end (EveryEventRecorded) |
| `bridge` | MCPostgresBridge | three tasks over a pool of two, late answers to every kind of message, errors of statements, refused and lost connections, a worker that dies and whose end is heard late: AckedIsDurable, AllOrNothing, IdleIsClean, and the process goes on (EveryTaskEnds) |
| `read_cache` | MCFrontendReadCache | two writes on two instances, two keys, failing queries and reads, expiry and restarts: an entry is older than the instance's own write only if its query was under way then (StaleOnlyIfRaced), a request joins only a running load of its key (InflightRuns), and staleness ends (CatchesUp) |
| `governance` | MCRequestGovernance | two tabs, a server that fails, is disabled or recovers, a tab that is closed, a storage that is full: probes are together only after overlapping attempts at the lock, a lock that ran out or an older request that ended (ProbesAlone), a tab's requests are stamped their gap apart (TabSpacing), every breaker closes after a recovery if the storage can be written (BreakersClose), every request ends (RequestsEnd) |

`manual_service` is about what the code does *not* rule out. The balance, the VIP
days of the month, the status of a market and its open entries are read without a
lock that would keep another transaction from changing them before this one
commits, and `created_at_ms` alone orders the ledger. Each of its properties
therefore has an exception, and the smallest one TLC confirms: a history variable
(`overlaps`) notes for which users two calls had points in hand at the same time
("points"), on which markets a submission and a settlement overlapped ("entries"),
and on which two settlements did ("answers"); `Untied` says that no two of the user's rows
have one stamp. That the exceptions are needed is reported under *Divergences*.

### Bounds

- `rewards`, `referrals`, `predictions_*`: two instances (`Procs`) and three calls
  (`MaxCalls`; four for the slots). Every hazard of this code takes two
  overlapping calls, and a third one to see the damage or to prepare it; users
  beyond the two sides of an invitation and a second inviter only repeat. Where a
  race of three calls matters (two completions against one claim) the run starts
  after an earlier claim (`Claimed`). `MaxDay = 3` with months of two days
  gives a streak of three and a change of month. Points are small and distinct
  enough that no two sums of different rewards agree by accident.
- `manual_service`: two instances, two users and three calls, which are points won
  and two calls that race for them, or a submission and two settlements. The
  handlers left out of it (check-in, engagement, the second milestone,
  onboarding) append in the same way as those in it.
- `billing`: three events per outbox, two checkouts, one crash. A duplicate takes
  both instances; a third event decides which order they came in.
- `bridge`: `MaxTasks = 3` is the task that goes wrong, the one that inherits what
  it left and one to notice; two connections tell "the transaction's" from
  "another"; `MaxCrashes = 1`.
- `read_cache`: `MaxWrites = 2` is a write on each instance, or two on one, and two
  loads are the one under way at a write and the one after it. The instances share
  nothing but the row, so the two keys meet in one of them (`Asked`), and the other
  asks for one.
- `governance`: `Threshold = 2`, two requests under way at a time, one closed tab.
  `Worlds` are four situations: two requests at a failing server; one request at a
  time, a server that is also disabled and a tab that is closed; a spaced bucket
  whose requests succeed and a tab that is closed while it holds the lock; a full
  storage. The breaker touches the spacing only where a success clears both, which the
  third one has.

Invariants are checked on the committed state, that is at every commit. Deadlock
is checked in every run; a quiet system stutters by an explicit step.

### Fairness

The points modules assume weak fairness of each instance's `Step`: a handler that
has started runs on (the bridge blocks on it and nothing else runs in that
instance) until it ends or its instance dies, and Postgres serves a statement
that no lock holds back. Calls, crashes and new days happen or not. Weak fairness is enough
because a wait ends when the other transaction does, and no new one can overtake
for ever within `MaxCalls`. The liveness that rests on it is checked in the run
`referrals`, whose handlers lock most rows.

`BillingWebhooks` has no bound on deliveries, so it assumes strong fairness of a
request's `Step` (Postgres queues those who wait for a row) and of the deliveries
(Stripe retries until it was answered). Two deliveries that always came together
could fail one another by deadlock for ever; EveryEventRecorded assumes that
they do not (`DeadlocksEnd`: Stripe's delays grow).

`PostgresBridge` assumes that the main thread and the worker run on;
`FrontendReadCache` that every load is answered or fails and every TTL runs out;
`RequestGovernance` that timers go off, that every request is answered or
fails, and that the user goes on using the tabs. BreakersClose holds for the behaviours in
which failures stop (`ServerRecovers`).

### Divergences found

These runs are expected to find a counterexample; each is quoted under
`findings` in `PROJECT.json` with the sentence it contradicts.

| run | property | what the code does |
| --- | --- | --- |
| `rewards_overdrawn` | NeverOverdrawn | the row a redemption locks is not the one the next redemption writes, so a waiting redemption spends the same points |
| `read_cache_stale` | NextReadReflectsWrite | an invalidation walks the stored entries only, so a load whose query had read the row stores the old value after it |
| `governance_probe` | OneProbe | a request that was sent before the breaker opened clears the probe's flag and lock when it ends, and a second probe leaves |

More divergences show when a constant of a passing run is changed, or an exception
of its properties dropped. The first two of them contradict a sentence of the
repository too; the run `rewards_overdrawn` stands for both, since it is the same
unlocked reading of points that it follows to its end.

- `docs/MANUAL_POINTS_AND_PREDICTION.md:10` calls `balance_after` the running balance
  (`运行余额`) without a condition. RunningBalance fails without OneAtATime: two
  appends of one user both read the last balance without a lock. And it
  fails without Untied, on one instance as well: a check-in with a streak bonus may
  write two rows in a millisecond, so that the next payment is compared with the
  older one's balance, and NeverOverdrawn fails with it.
- The same document says at line 32 that at most 7 days are redeemed in a calendar
  month (`每自然月最多兑换 7 天`). VipMonthlyCap fails without OneAtATime: the month is
  counted before any lock, so two redemptions both find room. Equal stamps do not
  matter to it.
- ResolvedMeansSettled fails without its exception: the market's status is read
  before the transaction, so an entry can be committed on a market already settled.
  WinnersPickedTheAnswer fails without its own when two settlements carry different
  answers. No document says what should happen then.
- A duplicate key swallowed inside the sign-up transaction aborts it, and no bonus is
  granted.
- With `MidCallRollover = TRUE` the run `rewards` violates StreakCountsDays (a
  check-in of the new day works out its streak from a row it read before the
  check-in of the old day was committed) and `referrals`, over two months, InviterMonthlyCap (the
  completion is stamped before its transaction and counted with a later clock).
  The passing runs let a day end only between calls.
- The bridge's three safety properties exclude behaviours after a BEGIN or a
  ROLLBACK was given up while the worker goes on with it (`strayed`). Without that
  condition TLC finds, in twelve steps, a write that was acknowledged and never
  committed: a BEGIN that timed out (or that threw the error the last worker
  left, after it was posted) still opens a transaction, and it swallows the next
  task's statement. A later `BEGIN` is refused with ALREADY_OPEN, and its catch
  block gives the connection of the open transaction back to the pool. What is
  guaranteed is that late queries and late COMMITs do no such harm.
- Without `world.stores`, BreakersClose fails: where `localStorage` cannot be written no
  lock is ever confirmed, so a tab whose breaker has opened never probes and stays
  shut out until it is reloaded. And two requests of a tab that were stamped a gap
  apart may leave together, after a token both waited for.
- An evicted load that ends takes a newer load of its key out of the in-flight map
  (`Store`), which costs one more query and no more.

## 4. What is proved

TLAPS checks, for any number of users, instances, days, calls, markets, checkouts,
keys and loads:

- `PointsLedger_proofs`: `IndexAlwaysHolds` and `AppendOnly` of the abstract
  ledger, and the lemmas the three groups of handlers share: what each kind of
  statement keeps of rows and locals, what an open transaction still owes, and sums.
- `ManualRewards_proofs`: `RewardsImplementLedger`, `SignupBonusIsOnce` (which no
  run checks by itself: the refinement implies it), `TypesHold`,
  `DailyRowIsPaidOnce`, `VipDaysAreCharged` and, where no UTC day ends within a call,
  `StreaksAreCounted`.
- `ManualReferrals_proofs`: `ReferralsImplementLedger`, `OnboardingBonusIsOnce`,
  `TypesHold`, `ReferredAtMostOnce`, `MilestonesArePaidOnce` and, where no UTC day
  ends within a call, `InviterCapHolds`.
- `PredictionMarkets_proofs`: `TypesHold`, `ResultsStayFinal`, `EntriesAreBooked` and,
  where no UTC day ends within a call, `SlotsAreCounted`.
- `BillingWebhooks_proofs`: `TypesHold`, `AcknowledgedIsRecorded`, `BillingImplementsMirror` and `CompletionsStay`.
- `ManualService_proofs`, of all ten handlers together: `ServiceImplementsLedger` and
  `BonusesAreOnce` (the sign-up and the onboarding bonus, which no run checks of the mix:
  the refinement implies it).
- `PostgresAccess_proofs`, of the bridge: `TypesHold`, `WhatWasAckedIsDurable`,
  `TransactionsAreAtomic` and `NothingLeaks`; of the read cache: `CacheTypesHold`,
  `JoinsRunningLoads` and `OnlyRacedEntriesAreStale`.
- `RequestGovernance_proofs`: `TypesHold`, `OneProbeIsAlone` and `RequestsAreSpaced`.

The arguments:

*The ledger and its refinement.* Uniqueness of the committed rows is not
inductive, since a commit publishes rows that were compared when they were
inserted; `IndexInv` therefore speaks of all rows, committed or open. Every action
of the handlers is a step of `UniqueLedger` or leaves `ledger` and `open` alone
(one proof step for each group of actions). An insert the index lets through is an
Append because it was compared with what its own transaction sees (`Visible`)
*and* has waited for every other transaction that holds the same singleton
(`InsertMayRun`).

*Rows* (`RowsInv`, of the points and of the billing tables). Each kind of statement
keeps every row within the versions its table has, and no committed row goes away.
A COMMIT may not undo that, so the invariant also speaks of the versions the owners
see.

*Types.* `TypeOK` is not inductive in most of these modules: an UPDATE of a row that
is not there, an append with an empty list or a stamp that was never taken would
break it. The invariants say why none of them happens: which locals the code has
set at each statement, and which rows a call relies on. In `ManualRewards` the
fact that matters is `LedgerOK`: a redemption updates a row nobody has looked for,
and finds it because its balance is not 0, so that the ledger has a row of the
user, and no append is sent before the user's row is there.

*Paid once* (`DailyInv` of ManualRewards, `MileInv` of ManualReferrals). Both
properties compare counts of committed rows of two tables, and a transaction
writes one table several statements before the other. So the invariants say what
every open transaction has in hand: nothing, or exactly one new day row (one
referral moved to one milestone) and exactly one row for it, appended or still to
append (`OwesOne`). A COMMIT adds one to both counts, because a row that is
appended has an id no other row has (`IdsOK`), and a day row another transaction
might have inserted is locked by this one.

*Charged and booked* (`VipInv` of ManualRewards, `EInv` of PredictionMarkets). The
same with amounts: the points a transaction has moved, by the rows it has appended
and by the one it appends next (`Moved`), are the price of the days it has credited
or the change of its entries' worth. Stakes and prizes are two books, which never
share an event. The sums are those of the models (`MapThenSumSet` of the community
modules); what adding a member does to a sum is proved by taking a set of least
cardinality for which it would fail.

*One inviter* (`RefInv` of ManualReferrals). A claim writes the user's row and the referral in two
statements, so half of it may be pending. A referral row somebody has locked is
committed already or comes with the user's own row, locked by the same
transaction and naming the same inviter (`PendingClaims`); a committed inviter is
never overwritten (`InvitersStay`); and a row nobody has locked has no pending
version (`UnlockedRows`), so what a claim reads under its lock is what is committed.

*Caps and slots* (`CapInv`, `SlotInv`). A count is read, and acted on two statements
and a COMMIT later. The lock that makes it stay true is the inviter's row, which
everybody who completes a referral of that inviter takes first, or the row of the
day's slot, which a submission holds from its reservation to its COMMIT. The month
or the day counted must be the one stamped, which fails when a UTC day ends within
a call (section 3): the theorems assume `MidCallRollover = FALSE`.

*Streaks* (`StreakInv`). A check-in works out the streak from a row it read with no
lock and outside any transaction, and publishes it at its COMMIT, several statements
later. The lock that matters is the day row: its INSERT is refused if another check-in
of the day was committed, and nothing else changes what a user's row says of the
streak. So what a call has read equals what is committed *until* the day's row is there
(`StreakLocals`), every other transaction that has the user's row rewrites the streak
it found (`StreakRows`), and a COMMIT adds today to the days of a streak that ended
yesterday or begins one (`OneMoreDay`). No induction over the days is needed: the
committed streak is, at all times, the longest run of days that ends on the last one
(`StreakCounted`). A day that ends within a call breaks `StreakLocals`, so this
theorem too assumes `MidCallRollover = FALSE`.

*Final results* (`IInv` of PredictionMarkets). A settlement holds its market's row
lock as long as it works, and the entries it has still to settle are OPEN; an
entry is locked only by the submission that inserted it or by that settlement. So
a second settlement, which gets the lock later, finds them settled.

*All handlers together* (ManualService_proofs). The operators of `PointsLedger` that the
three parts instantiate are shown to be the ones the module extends, statement by
statement; then every step of a part is a step of the abstract ledger for the reasons
given above.

*Acknowledged events* (`IInv` of BillingWebhooks). At "answer" the event's row is
committed; before it, each statement of the transaction has the event's row
inserted by itself or finds it committed, and committed rows stay.

*The mirror* (`RefInv` of BillingWebhooks). A statement maps to a stutter and a COMMIT
to the whole event, so the invariant relates what each request has written to what
is committed *now*, not when it read: a subscription's row lock keeps what an
invoice read true until it commits (`PaidPending`, `FailedPending`), and the
customer's row lock keeps subscriptions from becoming active between
`cancelActiveSubscriptions` and the COMMIT (`ReportOK`, `CancelPending`).

*The bridge* (`BridgeInv`). `Base` and `Deaths` hold of every behaviour: ids are handed
out and taken in order, each statement on a connection has the one handler that
awaits it, and no event of a worker comes without its death. `Clean` holds until
something strays: the messages that may be pending are the one the main thread waits
for, single statements that were late, and the last ones of a transaction about to be
rolled back (`PendingOK`); only the worker's client has a transaction open (`ConnsOK`,
`UsersOK`), whose content follows from where the main thread is (`TxOK`); and so from
what was committed, promised and refused (`DataOK`). What an abandoned worker has left
are single statements of tasks that threw and are unsure (`AdriftOK`). A late COMMIT
finds both writes in its transaction because the connection runs its statements in the
order of their ids.

*Stale entries* (`Fresh` in PostgresAccess_proofs). A load that has read and whose
answer was not under way at a write of its instance carries a version at least as new as what
the instance wrote.

*Probes and gaps* (`ProbeHolds`, `Spaced` of RequestGovernance_proofs). A probe that is
alone has its tab's flag, which keeps out its own tab, and the lock, which keeps out the
others: it was written when no other tab had read it as free and not yet confirmed it
(the tabs that try at the same time mark one another `raced`), and who comes later
finds it taken. Flag and lock go with the first request of the tab to end, with the tab,
or with the lock's time. A tab knows the time of its own last request, and one of its
waiters at a time works out its sleep from it, with the lock or without.

Assumptions: only the named ones the modules declare about their constants
(`BillingAssumption`, `CacheAssumption`, `NoRowAssumption`: the value for "no row" is
no row, `BridgeAssumption`: the value for "no transaction" is no set of writes, ...),
which TLC evaluates in the runs, and the condition named above (`MidCallRollover = FALSE`),
which is a constant of the runs.

Only model-checked: all liveness, EveryCallEnds, EveryEventRecorded, EveryTaskEnds,
CatchesUp, BreakersClose and RequestsEnd (fairness and ENABLED are outside the
prover's reach), and the five invariants of `manual_service`. Every other invariant,
action property and refinement of the passing runs is a theorem.

## 5. What is not modelled

- Numeric scoring, backtests, training, calibration, the provider gate and the
  outcome resolver: arithmetic over market data in floating point. Where they
  write, they upsert under a key that makes repetition harmless.
- The alpha candidates' life cycle: each transition is decided by metrics; a model
  would choose the status freely and then say nothing about the code.
- Membership: one counter in one READ COMMITTED transaction. Two instances can
  count the same request, and no document calls the limit exact.
- Authentication: three interchangeable stores behind sequences of independent
  calls; only its call of the sign-up bonus is modelled.
- The runtime repository: one statement per call over the bridge, so the bridge's
  promises are its own. The mirror's write queue is not used by the server.
- Prompting and model calls, broker adapters, notifications, presentation, the
  qlib bridge: a request and an answer, or rendering.
- Inside the modelled parts: guests, feature switches and the wording of answers
  (points); Stripe's own checks and the portal (billing); tearing the bridge down;
  which API base answers a request (governance).

What would come next, were the project to go on: proofs of the five invariants of
`manual_service` for every number of instances; the composition of the bridge's
`strayed` behaviours with a handler of the points service; and what is left of the
running balance after a race (by how much the last row may differ from the sum of the
rows).
