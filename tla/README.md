# TLA+ verification of psx-ai-quant-trading-intelligence

The system is a web application for investors of the Pakistan Stock Exchange: a
FastAPI service (`psx-api`) over PostgreSQL and Redis, Celery workers that
ingest prices, corporate actions, macro data and news (`psx-ingest`), a small
inference service and a Next.js front end. This directory holds TLA+ models of
its services, tasks and algorithms, the TLC runs that check them on small
instances and TLAPS proofs for instances of any size. Paths
below are relative to the repository root, which the project calls `src/`.

## 1. Inventory

| Component | State | Operations | What is hard | Correct when |
|---|---|---|---|---|
| Payment gateway adapters (`psx-api/psx_api/services/payments`) | none | `create_intent`, `verify_callback` of seven gateways | paisas or rupees, digits or decimals, different success codes | a full payment is recognised, a short or failed one is not |
| Billing (`services/billing_service.py`, `routers/billing.py`) | `payment_intents`, `user_subscriptions` | checkout, gateway callback, sandbox confirmation, free plan | callbacks repeat, overlap and arrive late; a unique index can fail half an activation; crashes | at most one active subscription, no paid intent without one, no activation without money (where the gateway signs its callbacks) |
| Capital gains tax (`tax/cgt.py`, `tax_rules`) | none (seeded rules) | `find_bracket`, `calculate_cgt`, `match_fifo` | bracket edges, the 2024 change of law, rounding per lot | FIFO as defined, every sell has one rule |
| Trades and holdings (`services/transaction_service.py`) | `transactions`, `holdings_snapshot` | preview, create with snapshot refresh | reads without locks, trades dated out of order, a denormalised row | never more sold than bought, the snapshot is the history's |
| Portfolio summary, tax simulator | none (walk the history again) | `summary`, `_simulate_portfolio` | three walks over one history | the reports tell what recording told |
| News ingestion (`psx-ingest/psx_ingest/news`, `tasks/news.py`) | Redis dedupe keys, `news_articles`, `article_mentions`, `article_sentiment` | one task per source | two stores, one transaction per batch with errors caught inside, overlapping runs | each article stored once, with its analysis; none lost |
| Accounts (`services/auth_service.py`, `rate_limiter.py`, `routers/auth.py`) | `users`, `user_sessions`, Redis tokens and counters | sign-up, verification, login, reset, revocation, second factor | Redis and PostgreSQL are not one transaction; INCR and EXPIRE are two commands; a login overtaken by a reset | a reset ends the sessions, a block ends, nobody is locked out |
| Portfolios (`services/portfolio_service.py`) | `portfolios`, one default per user | create, update, delete, get-or-create default | first-use race, demoting the only default | one default portfolio, not lost by a failed request |
| Watchlist, lessons, strategies, notifications, purification | one table each | add, remove, reorder; quiz; fork; settings; donation marks | read-modify-write without locks | what the user entered is kept |
| Price ingestion (`tasks/ohlcv.py`, `backfill.py`, `corporate_actions.py`, `adjust_prices.py`, `adjustments.py`) | `ohlcv_daily`, `corporate_actions` | upserts, backward price adjustment, backfill | read and write in two sessions; order in which splits and dividends accumulate | adjusted prices become those of the stored events |
| Scrapers (`scrapers/dps.py`, `pucars.py`) | rate-limit clock | range in month chunks, announcements | retries, rows of a neighbouring month, unreadable dates | each row once |
| Macro indicators (`tasks/macro.py`, `macro/`) | `macro_indicators` | daily task over three pages | pages change, midnight passes, partial failure | a stored point was shown for its date |
| Pump-and-dump alerts | `suspicious_days` | `evaluate_today` | overlapping evaluations, corrected bars, missing prices | one alert per day, of that day's bar |
| Peer benchmark | `peer_aggregates` | nightly aggregation, panel | users opt out while it runs | only groups large enough, only who agreed |
| Read cache | Redis keys | `cached` | slow loaders, no invalidation | answers of bounded age |
| Indicators, backtest, risk profile, goal plan, predictions, market queries | none | calculators | edges, missing values, warm-up | equal to their definitions |
| Anomaly training, news reading side, seeds, front end, deployment | - | - | - | not modelled, see 6 |

Interaction: every API request is one SQLAlchemy session and one PostgreSQL
transaction at READ COMMITTED (`database.py get_db`: commit at the end, rollback
on an exception, no autoflush). Requests never call each other; they meet in the
tables, through row locks and unique indexes. Gateways call back over HTTP.
Celery tasks open their own sessions and also write to Redis, which no rollback
undoes. `TransactionService`, the tax simulator and the summary call the tax
engine; the alert service, the backtest and the indicators read what price
ingestion wrote.

`PROJECT.json` lists the components with their status and every hazard at its line.

## 2. Modules

| Module | Models | Kind |
|---|---|---|
| `PaymentGateways` | the adapters: unit, number format and vocabulary of each gateway | operators |
| `Billing` | requests of the billing router as transactions, statement by statement | state machine |
| `SubscriptionLedger` | what billing promises of its two tables, one step per request | abstract specification |
| `BillingProofs` | theorems about `Billing` | proofs |
| `TaxCgt` | bracket lookup, tax, FIFO matching, open lots | operators |
| `TradeLedger` | `TransactionService.create` for one portfolio and symbol | state machine, uses `TaxCgt` |
| `FoldFacts` | induction, finite sums, and lists of a finite set | lemmas |
| `LotFacts` | what sorting, eating and matching lots do to the shares in them | lemmas about `TaxCgt` |
| `TradeProofs` | theorems about `TradeLedger` and `TaxReports` | proofs |
| `AlgorithmProofs` | theorems about the tax engine, `PriceAdjust`, `Fractions` and `Backtest` | proofs |
| `TaxReports` | tax simulator and portfolio summary over `TradeLedger`'s tables | operators |
| `NewsIngest`, `NewsProofs` | the scraper task of one source; theorems about it | state machine, proofs |
| `AccountSessions` | login, limiter, reset, session revocation | state machine |
| `AccountRules` | what an account promises of password and sessions, one step per request | abstract specification |
| `AccountProofs` | theorems about `AccountSessions`, `AccountTotp`, `Portfolios` | proofs |
| `AccountSignup`, `AccountTotp` | sign-up and verification; the second factor | state machines |
| `Portfolios`, `Watchlist`, `Learning`, `Strategies`, `Notifications`, `Purification` | the services of those names for one user (strategies: two) | state machines |
| `Prices` | the four tasks that write bars and corporate actions of a symbol, uses `PriceAdjust` | state machine |
| `PriceAdjust` | `compute_adjusted_prices` and its documented meaning | operators |
| `Scrapers`, `MacroIngest` | the exchange scrapers; the macro task | state machines |
| `AlertRules`, `Alerts` | rule, score, severity; their evaluation over days | operators, state machine |
| `PeerBenchmark`, `MarketCache` | nightly aggregation and panel; the read-through cache | state machines |
| `ServiceProofs` | theorems about the one-table services, `Prices`, `Scrapers`, `MacroIngest`, `Alerts`, `PeerBenchmark`, `MarketCache` | proofs |
| `Fractions` | exact fractions with None and NaN, for the numeric services | operators |
| `Indicators`, `MarketQueries`, `RiskProfile`, `GoalPlan`, `Predictions` | the calculators of those names | operators |
| `Backtest` | the engine bar by bar, built-in and composed strategies | state machine, uses `Indicators` |
| `MCBilling`, `MCTradeLedger`, `MCNewsIngest`, `MCServices`, `MCAlgorithms` (with `MCTaxCgt`) | instances for TLC | model checking |

Definitions that start with "Fault:" in their comment are deliberately wrong
variants of the definition below them. No specification uses them; they exist to
show that a property notices such a mistake. A property that bundles several
(`RecordsKept`, `DerivedDataExact`, `AnswersExact`, `ScrapesExact`) has a fault for
each of its parts; any of them can be put in by hand.

### Billing

`payment_intents` and `user_subscriptions` are the committed tables. A handler
`r` has a program counter `pc[r]` and its private reads and writes. One action is
one SQL statement, because that is where handlers interleave:

| Action | Code |
|---|---|
| `Checkout` | `begin_paid_subscription` (one INSERT, so one step) |
| `confirm_payment` | callback verified, intent selected, new status decided (lines 246-312) |
| `gateway_callback`, `sandbox_confirm` | the two routes into it |
| `subscribe_free` | the SELECT of the free plan's handler |
| `SelectSubs`, `UpdateSubs`, `InsertSub`, `InsertConflict` | `_activate_subscription` and its flush |
| `UpdateIntent`, `Commit`, `Crash` | flush of the intent, COMMIT, rollback |
| `AttemptFails`, `TakeMoney`, `Redeliver` | the gateway (external) |
| `ReportTransfer` | anybody who posts to `/callback/manual` (external) |

The session does not autoflush, so the writes come together at `flush`, in the
unit of work's order: canceled rows, the new row, the intent. Row locks
(`HoldsSub`, `HoldsIntent`) make a writer wait; the partial unique index makes an
INSERT wait and then fail (`IndexFree`, `InsertConflict`). A SELECT takes no lock:
the status a handler decides on may be stale when it writes. `UPDATE` names only
changed columns, so a handler that found its intent already in the new state
writes no status (`write = "keep"`). Callbacks stay in `net` for ever, hence may
be delivered never, late, repeatedly and in any order. Signatures are left out: the
callback of a gateway that signs is one that verifies. The manual adapter checks no
signature and the route asks for no login, so `ReportTransfer` lets anybody report a
transfer, of any amount or without one and with or without money behind it. Amounts keep
their unit and number form, so that an adapter that mixed them up would be noticed.

`SubscriptionLedger` has the same two tables and lets whole requests happen in
one step: `Open`, `Record`, `SubscribePaid`, `SubscribeFree`. `Billing` implements
it under the identity mapping of the tables.

### TaxCgt and TradeLedger

`match_fifo` is a fold over the lots in the engine's order (buy date, then id).
The request schema admits four decimals in prices and quantities; both are counted in
those smallest units, so that a product is exact, and `Paisa` such products make a paisa
(10^6 in the code). Rates are tenths of a percent. `match_fifo` rounds the gain and the
tax of every lot half up to a paisa (`HalfUp`, the code's `_quantize`); the snapshot rounds its columns
once, half to even, which is what `Decimal.quantize` does by default (`HalfEven`), and the average
cost to a ten-thousandth. The runs take `Paisa` = 4 with prices and quantities chosen so that products
fall on quarters, halves and wholes of a paisa: ties, both directions of rounding and a drift over several
lots all happen. The proofs hold for every positive `Paisa`.
`SeedBrackets` are the twelve rows of migration 0006, with dates as day numbers.

`TradeLedger` runs `create`: two SELECTs and the tax engine for a sell, the INSERT
and the walk over the history, the SELECT of the snapshot row and its write, then
COMMIT. `created_at` is the time the transaction began and the id a random UUID, so
the model lets the ids come in any order. Brokerage, FED, CVT and notes are stored
as given and nothing reads them back; they are left out.

### NewsIngest

A run lists a feed, then for each stub: SET NX in Redis (`should_fetch`, or
`fall_through` when Redis is away), download (`FetchFails` when it goes wrong),
`ingest_article`, and at the end `Commit`. The transaction of a run may be aborted
by PostgreSQL while Python carries on; the COMMIT is then a ROLLBACK. `dropped` is a
history variable: articles whose own download failed or whose run died or was
rolled back. Keys live 60 days and articles are eligible for 14, so keys do not
expire here. Entity extraction and sentiment are text functions and left out.

### Accounts

`AccountSessions` keeps `password` (whose it is, and whether its argon2 parameters
are outdated), `sessions`, the Redis keys `reset_tokens` and `failures`, and a
program counter with private reads per request. `Login` is the limiter's check,
`LoginVerify` the SELECT and the decision, `LoginFlush` the UPDATE of a renewed hash
(which waits for the row lock), `LoginClear` the deletion of the counter,
`LoginCommit` the commit; `RecordFailure` and `ExpireKey` are the two Redis commands
of a failure. A reset is `reset_password`, `ResetFlush`, `ResetDropToken`,
`ResetDropSessions`, `ResetCommit`. `SesCrash` ends any request: PostgreSQL rolls back,
Redis does not. `epoch`, `raced` and `orphan` are history: resets committed, a login
that a reset's DELETE could not see, a counter left without a lifetime.
`AccountRules` has whole requests only: `SignIn`, `SignOut`, `Reset`, and
`OvertakenSignIn` for the one thing that interleaving adds.

`AccountSignup` follows one address: the link is stored and mailed before the row is
committed, and a resend takes its cool-down before its mail. `AccountTotp` follows
the two columns of the second factor, which an UPDATE writes only where they differ
from what the request loaded.

### One table each

`Portfolios`, `Watchlist`, `Learning`, `Strategies`, `Notifications` and `Purification`
have the same shape: a request reads, decides in Python and writes in a second
step with its COMMIT, so another request can come in between; where the code locks
rows or meets a unique index before COMMIT, those are steps of their own
(`Portfolios!DemoteLock`, `WriteConflict`). History variables (`gaveUp`, `overlapped`,
`mixed`, `crossed`, `wlAlone`) mark the overlaps under which the code keeps less than
without; the properties name them.

`Watchlist` keeps `added_at` beside the number: the list is shown by both, while `reorder` reads the rows
without ORDER BY and sorts them by number only, so rows with equal numbers come in any order.
`Strategies` follows the rules of each row to whoever wrote them, also when `update` replaces them.
A mark of `Purification` that finds no line is answered 204 like any other and kept nowhere.

### Data tasks

`Prices` has one action per transaction of `ingest_eod_ohlcv`, `backfill_ohlcv`,
`ingest_corporate_actions` and `recompute_adjusted_prices`; prices are integers in units
of 0.0001 rupee and NULL is 0. A page of announcements is a batch with one refused action possibly in it,
which aborts the transaction although the loop catches the error. Events of one ex-date are read in any order, since
the SELECT orders by date only and `sorted` is stable. `Scrapers` lets the exchange answer anything: rows,
nothing, a refusal, a network failure. `MacroIngest` sees a page as its parser does,
dated rows newest first, clean or not; the clock that dates a policy rate is read after the page has come.
`Alerts` evaluates days while bars arrive and are corrected; pump or dump is decided on the change rounded to two
decimals of a percent. `PeerBenchmark` reads users one by one, each in three SELECTs, while they trade and opt in and out.
`MarketCache` counts time in units of the shortest lifetime.

### Algorithms

Floats are replaced by exact fractions (`Fractions`) with `None` for the warm-up and
`NaN` for what a NULL becomes. `GoalPlan` replaces the fractional power of the monthly
rate by the simple monthly rate, which is monotone too, and bisects a few times over a
coarse bracket; rates and suggested amounts are rounded to two decimals as in the code. `Predictions` takes probabilities
as inputs and tells apart the classes of features that can be missing. `Backtest` has every operand of the rule
grammar; each says for which periods it raises (`atr` alone does not check its period). Custom rules are started
directly: `BacktestService.run` selects built-in strategies only, and `build_strategy` has no caller outside the tests. The width of Bollinger
bands is compared by its square.

## 3. Runs

| Run | Instance | Result |
|---|---|---|
| `Billing_concurrent` | 1 user, 2 payments, 1 free sign-up, 2 handlers, 3 rows, crashes (156 000 states) | all hold |
| `Billing_gateways` | 7 gateways, 8 codes, 2 cycles, sandbox, 1 payment, transfers reported by anybody, 2 handlers (461 000) | all hold |
| `Billing_live` | 2 payments, 2 handlers, fair (74 000) | all hold |
| `Billing_idempotent` | 1 payment, 2 handlers | violated, see 4 |
| `Algorithms` | up to 3 lots with days at the edges; 5 bars and every strategy; bounded inputs of every calculator (33 000) | all hold |
| `Trades_serial` | 3 trades of every type, any dates, 1 handler (700 000) | all hold |
| `Trades_concurrent` | 3 trades, 2 handlers (110 000) | all hold |
| `Trades_oversell` | 3 trades, 2 handlers | violated, see 4 |
| `News_runs` | 3 articles, the second refused, 2 runs, all faults, fair (250 000) | all hold |
| `News_batch` | 2 articles, the second refused | violated, see 4 |
| `Services` | fifteen components, each with 2 overlapping requests and crashes (635 000) | all hold |
| `Services_live` | sessions, sign-up and prices, fair (16 000) | all hold |

The components of `MCServices` share no table, so a behaviour moves one of them
(`focus`) and the run is the union of their state spaces. `MCAlgorithms` does the same
for inputs (`case`).

What they say:

- *Billing.* `OneActive`, `NeverLapses`, `PaidHasSubscription`: activation is atomic
  although it is four statements that can meet another handler or a crash between
  any two. `ActivatedOnlyWhenPaid`: in production a subscription that names a payment
  through a gateway that signs its callbacks is backed by money of the billed amount; of the manual
  provider this is false (see 4). `PaidSettles`: once a payment is recorded
  and the handlers that read it unpaid have ended, nothing changes it again.
  `FailedHasCause`: a full payment is not refused for a misread amount or code, also
  when a sandbox confirmation overlaps; a report of another amount to the manual provider is a cause. `ImplementsLedger`: the interleavings add
  nothing a sequence of whole requests could not do. `HandlersEnd`, `MoneyActivates`:
  lock waits end, and money taken leads to a subscription.
- *Tax.* `FifoExact` compares `match_fifo` with selling share by share without rounding: they differ
  by at most half a paisa for every lot touched, a bound that is reached; `SplitSell`
  says selling in two parts gains and costs the same up to one paisa each; `RulesDecide` that exactly
  one seeded rule applies on every day.
- *Trades.* `NoOversell` and `SnapshotFresh` hold for one trade at a time in any date
  order. `OpenQuantity` and `Reconciles` compare the snapshot with the tax engine, under
  conditions that are needed: trades entered in date order, and for the gains no two lots
  of one day, and up to half a paisa for each lot that was rounded and for the snapshot itself. Overlapping trades can leave a stale snapshot; `SnapshotBacked` and `SelfHeals`
  say how far that goes: it never shows what was not bought, and the next undisturbed
  trade repairs every column. `TaxReportsAgree`: the simulator's tax is the sum of what was stored
  with each sell and its lots are the open ones, for trades in date order; two windows add up; the
  summary's two figures relate as documented while nothing was sold and closes exist, up to the rounding of the average cost,
  of the amount invested and of the figures themselves, which the property adds up.
- *News.* `OneRow`, `StoredIsScored`: stored once and never without analysis, with or
  without Redis. `SkippedHasReason`, `AllStored`: only a failure of its own download or
  run loses an article; overlap alone does not.
- *Algorithms.* `AdjustExact` compares the one backward pass with crossing event after event.
  `BacktestSound`: cash, position and trades balance after every bar, and the final equity
  is capital plus the net results, up to the commission of the forced exit; rules that passed validation raise only where `validate`
  cannot see it. `AnswersExact`:
  following `has_next` shows each security once; indicators are their windows' means and stay in
  range; a better answer never lowers a risk score and a higher score never gives a more
  cautious archetype; the rate a goal needs reaches it month after month, the suggested contribution is within half a
  paisa of the one that does and the extension is the first that suffices; confidence and severity are monotone; a prediction is
  answered whatever the inference service does, and recorded only when a model or the heuristic gave it.
- *Accounts.* `ResetEndsSessions`: a session older than the last reset belongs to a login that was
  under way when the reset deleted sessions. `ImplementsAccountRules`: nothing else than the
  steps of `AccountRules` ever happens to password and sessions. `FailuresBounded`: with n requests
  at most n - 1 passwords are tried beyond the limit. `LockoutEnds`: a block ends unless a crash
  came between INCR and EXPIRE. `CanVerify`: a user who keeps trying is verified in the end.
  `TotpUsable`: a required second factor has a secret, however set-ups and disabling overlap.
- *Users' records.* `DefaultKept`: at most one default portfolio, kept by requests that fail half way.
  `ReorderRepairs`: numbers that overlapping adds made equal are repaired by the next undisturbed
  reorder, in the order asked for, and rows not named keep their relative order unless their numbers were equal.
  `RecordsKept` has two parts. Whatever overlaps: a lesson is completed exactly when a stored quiz passed, scores and
  donated amounts are real ones, forked rules had been public, and a page of corporate actions is stored whole or not at all and
  erases nothing. Only until two requests of the service have overlapped: the best score, the last mark and the last setting of each
  switch, because the code reads, merges and writes them back without a lock.
- *Data.* `ScrapesExact`: a returned range has each valid row of its months once. `AdjustedSettles`: once
  bars and actions stop changing, adjusted closes become and stay right. `DerivedDataExact`:
  `AlertsSound` (one alert per day, of that day's bar), `PeersAnonymous` (only groups of enough users
  who had opted in, each counted once), `CacheFresh` (age at most a lifetime and a load), `MacroExact` (a point was
  shown by the bank for that date, a policy rate possibly the day before).

**Bounds.** Two handlers suffice for every race of these protocols: the stale read of one
and the commit of another. A second payment or a free sign-up gives them different
intents of one user. Three subscription rows let one be replaced twice; four in
`Billing_live` are all that two payments with two handlers can use. Three trades are two lots
and a sell, or a lot and two sells. Three articles put one before and one after the
refused one. In `Services` two session ids and one reset are a login before and one
after it; three portfolios are an old default, a new one and one that loses; two symbols and three sort
numbers allow equal numbers and a repair; three secrets are one confirmed and two
waiting; two trading days and two kinds of action put an event between prices; months of two days over
five make a last, shorter chunk; two members around a floor of two let a group fall below it; three adds of two symbols
make equal numbers; two strategies with two texts each allow a fork, a change of rules and a fork of the fork.
`MaxAttempts` is 1 or 2 instead of 5 and `Iterations` 5 instead of 80: the code is the same for every
value. `FreeLimit`, `MaxTrades`, `MaxLots`, `MaxResets`, `MaxSetups`, `MaxOrder`, `MaxAdds`, `MaxAsked`, `MaxAnswered`, `MaxForks`, `MaxDividends`, `MaxFetches`,
`MaxDays`, `MaxTime`, `MaxVersions`, `MaxShown` and the sizes of the id sets are bounds of the
model, not of the code. Symmetry is used for handlers and rows in safety runs only.

**Deadlock** is checked in billing and news. Trades, lots, inputs and the services end at their bounds,
so those runs set `CHECK_DEADLOCK FALSE`.

**Fairness.** `Billing!FairSpec`: a started handler goes on (an async request has no other way
to stop than to finish or to fail) and is granted the locks it waits for again and again
(PostgreSQL queues waiters), crashes stop some time (steps that only look like one, such as the
rollback after an index conflict or a commit that changes nothing, do not stop), and the gateway repeats the callback of a
payment until it is accepted (an assumption about the gateways, which only `MoneyActivates` needs);
nothing else is fair, no user has to act. `NewsIngest!FairSpec`: runs go on (HTTP calls have timeouts), workers do not die
for ever, and beat keeps starting runs (every 30 minutes of a trading day in `worker.py`) that list the feed.
`MCServices!LiveSpec`: requests and tasks go on; Redis lifetimes end; the user keeps asking
for a mail and opening what arrives, and the mail server works now and then (only `CanVerify` needs that);
workers stop crashing some time; beat starts the recompute every evening (`worker.py`).

## 4. Where the code and its documentation disagree

1. `Billing_idempotent`: `confirm_payment` says "Idempotent: re-running on an already-paid
   intent is a no-op." The status is read without a lock, so a callback of a failed attempt
   that was read before and written after the success turns the paid intent into `failed`. In the
   same way two overlapping success callbacks insert two subscriptions. `PaidSettles` is what
   remains true.
2. `Trades_oversell`: the open lots come from unlocked SELECTs, so two overlapping sells are both
   matched against the same lot. The same pattern makes the snapshot stale ("Refreshed on every
   transaction commit") until the next trade.
3. `News_batch`: `ingest_article` "Catches errors per article so one bad row doesn't kill the whole
   batch", but PostgreSQL has aborted the transaction. The articles are lost, and since their keys
   are in Redis later runs skip them for 60 days. A failed download has the same effect for one
   article, although `base.py` says that only ingested URLs are skipped.

Three more appear as conditions of properties: a transfer to the manual provider is believed of anybody. The router says "A
forged callback fails there before we touch the DB" and `manual.py` "auth is enforced at the router" and "a privileged endpoint
marks the intent paid", but `POST /callback/{provider}` is the only route, asks for no login and the adapter checks no signature
(`ActivatedOnlyWhenPaid`); a sell dated before its buy is accepted when it makes
no gain and is then missing from the snapshot (`OpenQuantity`); lots of one day are ordered by
UUID in the tax engine and by creation time in the snapshot (`Reconciles`).

Smaller ones, met while modelling and stated in the properties or comments of the modules named:

- `AccountSessions`: a crash between INCR and EXPIRE blocks an address for good; a login overtaken by
  a reset keeps its session and, if it renews the hash, restores the old password.
- `TaxCgt`, `TradeLedger`: gains are rounded half up lot by lot, the snapshot's profit half to even once, so with prices or
  quantities below a paisa the two differ by up to half a paisa per lot (`Reconciles`); `total_invested` and the average cost are rounded apart.
- `Watchlist`: "Anything not in the request keeps its existing relative order" fails for rows with equal numbers: the list also sorts by
  `added_at`, the reorder does not.
- `Purification`: a mark for a symbol without a dividend is answered 204 and kept nowhere.
- `Prices`: the loop over announcements catches errors per row, but a refused row aborts the transaction of its page; events of one ex-date
  are applied in an order nothing fixes.
- `Portfolios`: `update(is_default = false)` leaves no default, after which the row can be deleted; the
  409 of a lost race on the default blames the name. `Strategies`: so does the 409 of a fork.
- `PriceAdjust`: "most recent row's adjusted_close == its close" is false when an ex-date lies ahead.
- `Backtest`: the equity curve's last point does not deduct the forced exit's commission; `holding_days`
  inside `all_of` acts as an alternative; `validate` runs rules on one synthetic bar, so a clause that `all()` or
  `any()` skips is not validated; an `atr` with a negative period passes validation and raises on a shorter history; fills use raw prices while indicators use adjusted ones.
- `GoalPlan`: a goal overshot even at a loss of half is called unrealistic; without a rate the extension
  is always 12 months. `RiskProfile`: caps and nudges together can shift by more than the one step the comment says.
- `Indicators`: one NULL close makes every later moving average NaN; a flat series has an RSI of 100.
- `MarketQueries`: `date.replace` raises on days the target month does not have.
- `Scrapers`: "stock dividend" is filed as a cash dividend; an announcement without a readable date is
  stored anew every day.
- `PeerBenchmark`: the panel reads `pct` where the aggregation writes `median_pct`; a bucket that falls
  below the floor keeps its old row. "We persist any bucket with size > 0" is not so: smaller ones are skipped.
  `aggregate.py` calls an empty portfolio "unknown" although its docstring says such users "bucket into <100K".
- `Alerts`: with a missing price on the newest day, an older bar's alert gets the newest date; a fall that rounds to 0.00 percent is called a pump.
- `Predictions`: two features are always missing, so psx-inference answers 422 and the trained models never answer, although the
  docstring says "we use the real models"; a flat window of closes or a missing rate has the same effect; a NULL price ends
  the request with an exception; "already recorded for today" is not so, no index makes the row unique.
- `MacroIngest`: the docstring's fall-back of the policy rate to KIBOR does not exist; a rate fetched before midnight can be dated
  the day after; a refused point aborts the transaction, and the task still reports its points as inserted.
- `MarketCache`: nothing calls the invalidation, and its keys would not match.
- `TaxReports`: `total_invested` is the sum of all buys ever, so the unrealised gain counts sold shares as lost;
  the simulator raises on histories entered out of order.

## 5. Proofs

All theorems hold for arbitrary sets of users, payments, rows, plans, handlers, articles, runs, ids, names,
trades, lots, prices and days and for any bound on attempts, resets and set-ups. The assumptions on constants are few:
`ConstantsAssumption` (placeholders differ from real values, prices are natural numbers, the short amount
is positive), `NewsAssumption` (articles are numbered, refused ones are among them), `SesAssumption`
(finitely many requests run at once, the bound on resets is a number, the limit of attempts is positive),
`TfaAssumption` (the bound on set-ups is a number), `PflAssumption` ("Main" is a name), `WlAssumption` (the
symbols are finitely many), `AlrtAssumption` (the bound on days is a number, bars have the columns the rule reads),
`PaisaAssumption` (`Paisa` is positive), `TradeAssumption` (quantities are positive, prices natural, days whole numbers, where
quantities and prices count the ten-thousandths the request schema admits),
`ReportAssumption` (there is a first and a last day to ask a report for), `LotsAssumption` (quantities and prices of lots are natural,
days whole numbers) and `BktAssumption` (there are bars and capital, opens are positive since the engine divides by the fill price, closes are not negative, the
commission is below the price, which the request schema caps at five percent, the built-in strategies are the five of the code, and the clauses of composed
rules hold whole numbers). TLC evaluates each of them in the runs of its module.

**BillingProofs.** `OneActive` is not inductive: a commit could make a second row active. `Inv`
adds what each handler knows. `StageOK` ties the program counter to what has been read and inserted
and says that a handler activates exactly when it is about to write `paid`; `ExistingOK` says
the rows to be canceled are the owner's; `AddedOK`, the heart, says that once a handler has inserted its
row, every committed active row of the user is among those it cancels and no other handler has
a row of that user pending. The index keeps it: a second INSERT waits, and a commit in
between changes no row of another user. `NextInv` has one lemma per action. From `Inv`:

- `TypeCorrect`, `AtMostOneActive`, `PaidIsBacked`: invariants;
- `SubscriptionsNeverLapse`, `SettledForGood`: action properties. For the second, `NoNewWrite` shows
  that a handler which starts on a paid intent has nothing to write;
- `ImplementationThm`: `Init` maps to `LInit`, and each commit is one of the ledger's steps
  (`CommitReplaces`), everything else a stutter or `Open`;
- `FailuresHaveCauses`: a failed status comes from a failed attempt's code or an amount that differs, taken or reported, since each
  adapter reads its own codes and units;
- `NoActivationWithoutMoney`: needs `MoneyInv` in addition, which relates callbacks in the network to
  money taken, for gateways that sign; `AmountRoundTrip` shows that what an adapter sends it reads back unchanged, and
  `CodesDiffer` that no failure code of a gateway is one of its success codes.

**NewsProofs.** `NInv` adds `Committable`: an article in an open transaction that is not aborted is
not stored, has its analysis, and is in no other live transaction. It gives `NewsTypeCorrect`, `StoredOnce` and
`StoredWithAnalysis`. `SInv` says where a URL that Redis remembers is (`Held`) and that a run's downloads
are stored, inserted or lost to an abort (`FetchedOK`); it gives `SkipsAccounted`.

**AccountProofs.** `ResetEndsSessions` speaks of committed sessions, but what breaks it is on its way: a
login that has verified the old password, and a reset that has not deleted yet. `SesInv` adds both.
`LoginsOK`: an accepted login from an earlier epoch, or under way when a reset's DELETE ran, is marked
overtaken. `ResetsOK`: once a reset has deleted the sessions, whatever is left or still to be inserted is
overtaken, so its COMMIT may advance the epoch. `IdsOK`: session ids and those of logins under way are all
different. `RenewsOK`: the logins that would renew an outdated hash write the current password, or are all
overtaken by the reset that changed it. From `SesInv`:

- `SesTypeCorrect` and `NoSessionOutlivesReset`: invariants;
- `AccountRulesImplemented`: the map takes the committed sessions and the overtaken ids to
  `AccountRules`; each COMMIT is one of its steps, every other statement a stutter;
- `AttemptsBounded` has an invariant of its own, `LimitInv`: the counter plus the attempts that have
  passed the check stays below the limit plus the number of requests. An attempt joins only while the
  counter is below the limit, and each adds at most one. This is where the set of requests must be finite.

`TfaInv`: an UPDATE that leaves out an unchanged column could enable the second factor on a row
whose secret another request has cleared. It cannot: the secret that waits in Redis is in use
nowhere (`PendingNew`), so what a confirmation writes always differs from what it loaded
(`ConfirmsNew`) and the secret column is among those written. `NobodyLockedOut` follows.

`PflInv` says that ids are unique and an inserted one is nobody else's (`InsertsNew`),
and that a handler which demotes goes on to write another row as the default (`DemotesToReplace`).
With it the commit (`WritePfl`) either brings a default of its own or takes none away, and the partial
index keeps it from being the second. `DefaultIsKept` is the result.

**FoldFacts and LotFacts.** The models of the tax engine and of the snapshot fold over sequences and sum over
sets. Nothing about a fold over an arbitrary operator can be proved here, because the library's induction
theorems take the claim as an operator. What can be proved is a claim about one given fold: `InductionSet` takes
the claim as the set of numbers that satisfy it and follows from `NatSetHasMin`, a least counterexample. With it,
`FoldFacts` shows that the community module's sum is what it should be (`SumRemove`, `SumSplit`, `SumRenamed`) although its
definition picks elements by CHOOSE, and that an ORDER BY, written as "the row with k - 1 rows before it", lists
every row once (`RankedLists`). Each fold gets a lemma that it is a run, one element after the other (`EatRun`, `MatchRun`,
`WalkRun`, `ConsumeRun`). `LotFacts` says what the engine's helpers do to the shares in a list of lots: sorting
keeps them (`OldestFirstHeld`) and leaves a list that is in order as it is (`InOrderStays`), prior sells take off exactly what was
sold (`OpenLotsHeld`), an accepted sell is covered by its lots (`AcceptedIsCovered`), and cutting a
lot between two sells changes its gain and its tax by at most a paisa each, once per split (`SplitMatch`, from what rounding two parts
instead of the whole can do).

**AlgorithmProofs.** `RulesAlwaysDecide`: the seeded table has no gap and no overlap, for every day and holding
period. `FifoIsExact`: `match_fifo` sells exactly the oldest shares, and its gain is theirs up to half a paisa for each lot; the
reference values a sell share by share, from the number of shares older than each lot, and rounds nothing. `SplittingIsNeutral`: a sell in
two parts gains and pays within a paisa of the whole; only the lot in which the first part ends is rounded twice.
The specification `AlgSpec` puts one input together after the other; the theorems are about all of them.

`BackwardPassIsExact` is about any prices and any list of corporate actions, not only the inputs of the run. The code goes back from the newest
day with cumulated factors and a pointer into the sorted events; the docstring rewrites all earlier prices once per event. Both are turned into runs
(`CumulateRun`, `CrossRun`); the pointer always stands behind exactly the events with a later ex-date (`AdjIdxSplits`), so the factors of a day are those
of the events that the rewriting has applied to it (`EventFactors`). `AdjustmentIsExact` instantiates it.

`BacktestsBalance` needs the arithmetic first. `Fractions` keeps reduced fractions, so nothing can be said of a sum without the greatest common divisor:
`GcdDivides` proves Euclid's algorithm, and `PlusValue`, `MinusValue`, `TimesValue`, `RatioValue` and `CompareValues` say that each operator computes what
its name says, as equations between products. On them rest the two facts about a fill: buying spends all cash (`BuySpendsAll`), and what a sell adds to the
cash, less what the position had cost, is the net of its trade (`SellBooks`). The inductive invariant `Sound` adds to the property what makes it inductive: a run without
a position has cash and a quantity of exactly zero, so the next buy is of a positive quantity; there is no position during the warm-up; the books are
fractions. That validated rules raise only where `validate` cannot see it (`LoneRulesRun`) follows because, apart from an `atr` with a negative period, whether a clause
raises depends on the clause and not on the prices or their number (`ConditionRaises`), and a lone clause is evaluated on the synthetic bars.

**TradeProofs.** `HealInv` says which rows the walk of a handler that runs alone was given and which snapshot row it
compared with; `LoneTradesHeal` follows without a word about what the walk computes. `FreshInv` is the same for
handlers one after the other and gives `SerialStaysFresh`; `OneHandlerStaysFresh` needs no hypothesis when there is one handler.
`BackInv` relates every snapshot, committed or on its way, to the trades behind it: the walk never holds more than
was bought (`WalkTotals`), a longer history backs what a shorter one did, rounded once as the code rounds (`HalfEvenGrows`), and a commit takes each column from one of
two backed rows. `PositionsAreBacked` needs no hypothesis: it holds however trades overlap.
`SellInv` adds that at every moment of the past as much was bought as sold, and that a matched sell fits; it gives
`SerialNeverOversells`. With dates in order the walk meets the trades in the order in which they were made, so no sell of the walk
lacks lots, and `SerialPositionIsOpen` says that the snapshot and the tax engine count the same shares.
`Serial`, no two handlers under way, is a hypothesis of these theorems and not a property of the system:
`Trades_oversell` shows that `NoOversell` is false without it.
`SerialReconciles` compares two computations that share no code: the engine matches each sell once, when it comes, against
the lots that eating all prior sells off the acquisitions leaves; the walk starts again from nothing on every trade and keeps lots without
id or date. The proof is a simulation along the history: after k trades the walk's lots are the engine's, stripped, and its
profit is the sum of the gains so far up to half a paisa for each lot that a sell touched (`Agrees`, with `RoundedTimes`): the errors of
the single matches add up (`OneMoreRounding`), and the snapshot's own rounding comes on top (`RoundedApart`). A sell keeps it because one lot is cut the same way by both (`FollowLot`) and because
selling twice is selling the sum at once (`EatTwice`); an acquisition because it sorts last (`SortedAppend`) and, with no more sold than held,
is not eaten (`OpenAppend`). `GainInv` carries what the table does not show, that each sell's gain is that of a match against
exactly the trades created before it.

`SerialReportsAgree` is about the two reports that walk the history again.

- *Windows.* Three simulations of one history, of all days, of those before a day and of those from it on, go side by side (`Split`): which rows are
  counted never touches the lots, so each row is told alike and counted once. This part needs no order of dates. The filer's tax is never above the non-filer's because
  the two matches take the same shares lot by lot (`BesideMatch`) and each seeded rate is at most its counterpart (`FilersPayLess`).
- *Stored taxes.* For trades in date order the simulator's lots after k trades are what the engine saw when trade k + 1 was recorded
  (`Retells`, along `LotsGrow`), so no sell raises or is passed over and its tax is the stored one; unlike `SerialReconciles` this allows several lots a day, because both run `match_fifo` over the same list.
- *Summary.* The walk's lots cost at most what was invested, and the same when nothing was sold (`WalkCost`); the rounded average cost is off by at most
  half a unit per share (`AvgCostClose`). Together they bound the difference between the summary's two figures (`SnapshotCost`, `SummaryFigures`).

**ServiceProofs.** `RecordsAreKept` is an action property with one lemma per service; what makes it hold is what each
request has read and not yet written, for instance that a switch a request writes back is the stored one unless another
request came between (`crossed`), and that a page of announcements which is committed was refused nowhere. `WatchlistRepaired`: a reorder that runs alone gives places 1 to n,
whatever was there and in whatever order the rows with equal numbers were read. `DerivedDataIsExact` bundles four invariants, each with a strengthening about what is under way: an
evaluation's bars, a group's members at the time they were counted, a loader's start, a page read before
midnight. A policy rate waits with its page until the clock is read, so its strengthening allows the next day. `ScrapesAreExact` follows a range through its month chunks: what has been collected is what the finished
months show.

**Only model-checked:** all liveness properties (under fairness, out of the prover's reach), and
`AnswersExact`, which bundles calculators that are finite tables or fractions over small inputs, for which TLC's enumeration
is the better instrument. That serial trades keep `NoOversell`, `SnapshotFresh`, `OpenQuantity`, `Reconciles` and `TaxReportsAgree` is proved for all
constants; `Serial` itself is what the run `Trades_serial` gets from having one handler.

## 6. Not modelled

Signature checks, password hashing, cookies, HTML, JSON and RSS text, entity extraction and sentiment,
the isolation forest of the anomaly models, the training notebooks, Sharpe ratio and drawdown, narration,
charts and pages have no discrete state worth a model. Storing goals is single-row CRUD. `expires_at` of an
intent is stored but compared nowhere, so there is no expiry to model. A statement failing for
reasons other than an index (connection loss) is covered by the crash actions. The curriculum and the list of symbols are data.

## 7. Plan

Done: billing with its ledger and proofs; tax, trades and reports with proofs; news with proofs; accounts with their
abstract specification and proofs; the one-table services, price, macro, alert and benchmark tasks and the scrapers,
with proofs; the algorithms, with proofs for the tax engine, the price adjustment and the backtest.

Left: every safety property that a passing run checks, except `AnswersExact`, is now stated by a theorem. Of `AnswersExact` the
moving averages and the paging could be proved like the backtest, from the lemmas about fractions.
