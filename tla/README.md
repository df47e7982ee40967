# A TLA+ model of CAQRS

CAQRS runs research cycles: six LLM agents take a market observation to a
trading decision, a policy gateway projects the decision onto account limits,
and a broker, paper or live, carries it out. This directory models the parts of
`src/src/caqrs` where the order of steps matters, checks them with TLC on small
instances, and proves with TLAPS, for every instance, what each of them promises: every
safety property of the passing runs, a few under a hypothesis that section 5 names.

Paths below are relative to `src/src/caqrs` unless they start with `docs/`.

## 1. Inventory

| Part | State it keeps | Operations | What is hard | What makes it correct |
|---|---|---|---|---|
| Live broker `execution/live_broker_alpaca.py` | kill switch, live-orders flag, day's loss, attached cycle | `execute`, `kill_switch`, `reenable…`, `enable_live_orders…`, `record_realized_loss`, `reset_day` | a batch of orders is a loop of awaits; the operator acts between them; responses get lost; crashes | audit trail, rollback of a rejected batch, kill switch within one cycle, loss cap |
| Journal and stream `execution/live_broker_journal.py`, `execution/alpaca_stream.py` | SQLite rows of submissions, fills, cancellations | `register_submission`, `record_fill`, `record_cancel`, `attribution`, `consume` | at-least-once delivery, updates before registration, a crash between row and event | at most one event per update, rows before events |
| Alpaca REST `execution/alpaca_rest.py` | none | `submit_order`, `cancel_all_orders` | timeouts with an unknown outcome | outcome honestly reported |
| Alpaca websocket `execution/alpaca_websocket.py` | backoff, connection | connect, authenticate, listen, yield, reconnect | cuts with frames on their way, malformed frames, which errors are retried | hands on what it receives, backs off as long as it fails, listens again |
| Paper broker `execution/paper_broker.py` | cash, positions, realised profit | `execute` | rounding, partial updates of the book | all-or-nothing, cash overspent by rounding at most, value conserved |
| Gateway and loss budget `policy/` | day's baseline | `apply_policy_gateway`, `mark_start_of_day`, `today_realized_loss_usd` | snapshot against a moving book, day boundaries | no trade over a limit, losses of a day never forgotten in it |
| Cycle runner `orchestrator/cycle_runner.py` with state machine, budget, event log | machine state, tokens, artifacts, events, attached broker | `run` | ten ways out of one function; exceptions at each await | one consistent story per cycle, no unjustified trade |
| Cycle queue `orchestrator/cycle_queue.py` | pending requests, running flag | `enqueue`, `run_one`, `drain` | concurrent callers around an await | serial, in order, nothing stuck |
| Cycle store `memory/cycle_store.py` | directories, two files each, an index | `save`, `load`, `prune_older_than` | several disk effects per call, crashes between them | index and files agree, prune resumable |
| Loop detector, preflight, heartbeat `orchestrator/` | windows of recent calls | `record`, `detect_*`, `scan_*`, `is_due` | thresholds at window edges | detects what it documents |
| Agents `agents/`, providers `providers/` | the provider that answered last; logins in files and keychains others write | `run`, `complete` | calls that overlap and move the order, logins that expire, seven shapes of answers | every provider asked once, every call settles |
| Backtest `backtest/` | none | executors, `run_walk_forward` | a row off in shifting, aligning, filling and cost; ties and gaps in ranking | no look-ahead, returns compound, the best are held, the metrics describe one book |
| Entity store `entities/in_memory.py`, `entities/duckdb.py` | issuers, identifier index, series, filings, relations; as tables and a transaction | `upsert_issuer`, `merge_issuers`, `append_*`, lookups | one identifier moving between issuers, records of a merged issuer; a statement or the process failing in between | index and issuers agree, nothing dangles, the file is one call ahead or not at all, disagreeing sources reported |
| Seed loaders `entities/reconciliation.py` | none between runs | `reconcile_from_jquants_master`, `reconcile_from_edinetdb_companies` | two sources binding the same identifiers, edits between pages | a rerun changes nothing, every identifier resolves |
| EDINET DB quota `data/edinetdb/quota.py`, `client.py` | a log of requests in SQLite | `assert_quota_available`, `record_request`, `purge_older_than` | check, await, record; several processes; midnight | bounded overdraft, no answer uncounted |
| Data clients `data/` | last request, streaks of refusals and of empty answers, cached rows, downloaded files | `acquire`, `get_*`, `set_*`, the calls of seven clients | read, sleep, write; state shared by calls that overlap; cancellation and death in a download | a caller's requests spaced, a give-up earned, exhausted means empty, no torn file |
| API `api/app.py`, lint `lint/` | none | | | |

How they interact: `CycleQueue` calls `CycleRunner.run`, one call at a time. The
runner calls the agents, the backtest executor, the price provider and the
broker (each an await), logs to one shared `EventLog`, and saves to the
`CycleStore`. The live broker runs a `PaperBroker` as its pre-flight, calls the
venue through the REST client and writes the journal; `alpaca_stream.consume` is
a second task on the same event loop that reads the websocket and writes the
same journal and event log. The operator's calls are a third actor.

Beside the cycles, the seed loaders fill an entity store, in memory or in DuckDB,
from two data clients; the EDINET DB client checks and records every request at a quota log that all
clients of the account, in any process, share.

`PROJECT.json` lists every part with its status and every hazard with its line.

## 2. Modules

| Module | Models | Used by |
|---|---|---|
| `LiveBroker` | broker, operator, venue, journal, log, stream, crashes | `MCLiveBroker`, `LiveBrokerProofs` |
| `LiveBrokerProofs` | theorems about `LiveBroker` | |
| `CycleRunner` | one run of a cycle | `CycleQueue` |
| `CycleQueue` | queue and runner together | `MCCycleQueue` |
| `CycleService` | abstract specification: a serial service | `CycleQueue` refines it |
| `CycleQueueProofs` | theorems about the queue, the runner, the service and the store | |
| `CycleStore` | the archive on disk | `MCCycleStore`, `CycleQueueProofs` |
| `PaperTrading` | gateway, paper broker, loss tracker and their caller | `MCPaperTrading` |
| `PaperTradingProofs` | theorems about `PaperTrading` | |
| `EntityStore` | issuers, index and records, one action per method, and the reads; also the specification (`StoreSpec`) of any user or other implementation of a store | `Reconciliation`, `DuckDbStore` |
| `DuckDbStore` | the store as tables, statements and transactions of a DuckDB file; refines `EntityStore` | `MCDuckDbStore` |
| `DuckDbStoreProofs` | theorems about `DuckDbStore`, the refinement among them | |
| `Reconciliation` | the two seed loaders and the operators over `EntityStore` | `MCReconciliation` |
| `ReconciliationProofs` | theorems about both | |
| `EdinetDbQuota` | the request log and the calls around it | `DataClients` |
| `DataClients` | the seven data clients, their limiters, retries, caches and files; the EDINET DB one together with `EdinetDbQuota` | `MCDataClients` |
| `AlpacaWebsocket` | the reconnecting stream of trade updates | `MCAlpacaWebsocket` |
| `LlmProviders` | registry, providers, logins, and the agent's call | `MCLlmProviders` |
| `DataClientsProofs` | theorems about `EdinetDbQuota` and `DataClients` | |
| `ServiceClientsProofs` | theorems about `AlpacaWebsocket` and about `LlmProviders`, which share nothing | |
| `Backtest` | one test window, from prices to metrics | `MCBacktest`, `BacktestProofs` |
| `BacktestProofs` | theorems about `Backtest` | |

### LiveBroker

The broker is one coroutine, so an action covers all the code from one await to
the next. `execute` becomes `ExecuteSkipped` (the three short-circuits) and
`ExecuteAccepted` (pre-flight filled, first request sent); then for each order
`VenueAnswers`, `RegisterSubmission`, `EmitSubmitted`, with `SubmitFails`,
`CancelReturns` and `CancelFails` on the error path. The one finer grain is the
pair journal commit / event append: a crash can separate them, another coroutine
cannot, which is what the guard `AtAwait` says. The operator's calls
(`KillSwitch`, `ReenableAfterHumanApproval`,
`EnableLiveOrdersAfterHumanApproval`, `RecordRealizedLoss`, `ResetDay`) can come
at every await. `consume` is `RecordUpdate` followed by `EmitUpdate`; a message
may stay on the wire after it is read (redelivery) and `DropUpdate` takes it
away unread (an unattributed or duplicate update, or a lost one).

The venue is an external party: it may accept, refuse, accept after the client
has given up (`VenueAcceptsLate`), fill in parts, cancel by itself, and cancel
everything on request. It refuses a `client_order_id` it has seen, which is what
the code relies on. A `cancel_all_orders` whose answer was lost is not replayed
at the venue later; it engages the kill switch either way.

An order is the tuple the idempotency key hashes. Quantities are small signed
integers instead of decimals, because only equality, sign and order matter. The
log counts each event up to two. `crash` restarts the process with what its
constructor gives it: live orders off, kill switch off, loss zero, empty book.

Left out: `BROKER_LIVE_REJECTED` and `BROKER_LIVE_KILL_SWITCH` events (the flag
`alarm` of a report stands for the reason `rollback_failed`); a broker without
client, journal or event log (constructor options used by tests); updates
without an execution id, which the journal documents as not deduplicated; the
comparison of tokens in the approval gate.

### CycleRunner and CycleQueue

`stage` is the await `run` is suspended at. `AgentSucceeds` is everything
`_call_agent` does after the answer, the budget check, and the code up to the
next await; `AgentFails`, `CallFails` are the aborts; `CallRaises` the exceptions
`run` has no handler for (`base_llm_agent` turns provider errors into results
and nothing else); `Return` includes the save, which may raise. `late` is the
wall-clock breach. The log of a run is kept as a sequence because the properties
are about its order. A REQUIRE_REVISION verdict of the skeptic is treated by the
code like KILL and is not told apart.

`CycleQueue` adds concurrent callers. The Python `finally` that clears the
running flag and the caller's continuation run in the same step of the event
loop, which `LoopIsFree` expresses. `drain`'s list of results is not kept: no
property reads it.

`CycleService` is what the two promise: requests are begun one at a time, in the
order they came, and each begun one ends. `CycleQueue` maps the end of a run,
not the caller's bookkeeping after it, to the service's `Close`.

### CycleStore

Each action is one effect on disk that survives a crash: `mkdir`, the two
atomic replaces, the index append; for prune the unlinks in any order, the
`rmdir`, the atomic rewrite. Saves carry increasing version numbers which are
also their `ended_at`. The index is kept as the set of its rows: every row has
its own `ended_at`, and a reader takes the newest of a cycle. A temporary file left by a crash is not modelled: nothing
reads it. A torn index line is not modelled either (section 6).

### PaperTrading

`BuildRunner` is what the tracker's documentation asks of its caller before a
cycle: `mark_start_of_day`, `today_realized_loss_usd`, and a `CycleRunner` built
with a gateway configuration that holds the result. The runner keeps that
configuration, as the code does, and may run again. `Trade` is the end of a
cycle: `apply_policy_gateway` and `PaperBroker.execute`, which have no await of
their own. A decision that is demoted, and an action with a price missing,
change nothing, so they are guards and not steps. `ClockMoves` lets the caller's
calendar go anywhere; an earlier day than the marked one makes the mark raise.

Quotients are rounded half to even, as `decimal` does, but at tenths instead of
28 digits, so that rounding is frequent and visible; products are exact. The
rebalance is stated as the target quantities and what becomes of each holding;
the order of the fills, sells first, has no effect on the sums. Prices are
positive. The gateway's allow and deny lists come to one set of permitted
tickers. A sum over holdings is `SumOver`, the community modules' sum of a
function that is zero elsewhere. The broker ignores a target's `side`, so targets have none: a SELL
target is bought like any other, and only the gateway's documentation speaks of
shorts.

### EntityStore and Reconciliation

A store method has no await, so it is one action: `Upsert`, `Merge`,
`AppendFiling`, `AppendRelation`, `AppendMarketPoints`. A call that raises
before it writes is no step. `merge_issuers` can also raise
`IdentifierConflictError` after it has moved some identifiers, but only if the
index gives an identifier of the dropped issuer to a third one; that this never
happens is `IndexAgrees`, which is proved, so the model's `Merge` has no such
branch. Of a record only the issuers it names are kept. A fresh issuer id is any
id without an issuer, because nothing in the store tells an id never used from
the id of an issuer merged away.

A loader is a coroutine that awaits a page and handles its rows without another
await: `Begin`, `Fetch` or `FetchFails`, then one of `RowRefused`,
`RowUnchanged`, `RowPlanned` (dry run), `RowWritten` per row. The guard
`turn = Nobody` says that operators, the other loader and new records wait for
the end of a page. `list_master` of J-Quants is a source of one page. The end of
EDINET DB's pages is told by its total; the fallback for a missing total is left
out, as is a source that changes between runs.

### EdinetDbQuota

`_get_json` is `Admit` (the check, which raises over the budget), `Send` (the
throttle's sleep ends), `Fail` or `Record` (the answer, and its row), and
`Deliver` (parse and return). A call may belong to any process that shares the
file, so `Crash` kills any set of calls and leaves the log. Time moves in ticks,
`TicksPerDay` of them to a UTC day, and not between `Record` and `Deliver`,
which are one piece of code: only a crash separates them. `Purge` takes any
cutoff up to the start of the day; its documented use is about 30 days.

### DataClients

The clients share nothing with each other, so a behaviour is that of one of
them, chosen at the start; its calls overlap on one event loop. `Acquire` is the
limiter (and the `_throttle_sleep` of the clients without one): a call that must
wait computes its turn from the last request, sleeps, and takes the turn when it
wakes (`Wake`). After a request a call ends (`AnswerOnce`, for the three clients
without retries), follows a page (`JQuantsPage`), backs off by the streak it
shares with the others (`JQuantsRefused`), counts empty answers
(`YFinanceEmpty`) or stores rows by their expiry. For EDINET DB each step is
taken together with the step of `EdinetDbQuota` it contains, and the cache comes
before the budget. The archive's file is `tmp` and then `target`; a shared HTTP
client renames in the step that wrote, an owned one after an await.

An answer is what the code tells apart in it: an error, a page, rows, nothing.
One clock stands for the monotonic one and the wall clock, one `streak` for the
counters of J-Quants and Yahoo, which never meet. `Cancel` and `Restart` come at
any await.

### AlpacaWebsocket

`trade_updates_stream` with a connection that holds the frames not read yet. The
library hands them out before it raises; a cut loses any number of the last. An
exception of the handshake or the iteration goes through `Raise`, which asks
`IsTransient`. `ConnectionOver` tells `recv`, which raises on any end of the
connection, from the iteration, which ends quietly when the close is clean. The
sleep doubles after it is slept, and a completed handshake resets it.

### LlmProviders

`Complete` begins a call, of the registry or of an agent with one provider, and
runs to the first request that leaves: a provider whose credential is missing or
stale raises `AuthError` on the spot. `Answer` is an HTTP status and a shape of
body for one of the three parsers (`ParseMessages`, `ParseResponses`,
`ParseToolCall`): an error lets the registry go on (`Fallback`), an answer moves
the warm index. Two kinds of provider use the login of a command line tool, which
logs in and out, in its file or in the keychain, at any time (`LogIn`); the
keychain may refuse when it is asked (`Dark`). `OrderedIndices` gives the warm
index and then the others in their order by position, where the code builds a
list. The names of the specification carry `Providers` so that one module can
hold the proofs of both clients.

### DuckDbStore

A call is its statements: `UpsertIssuer` and `MergeIssuers` inside a
transaction, the appends outside. `Statement`, `Commit`, `Fail`, `Interrupt` and
`Close` can come at any of them, and `Close` is also the death of the process.
`Violates` is the schema: its primary and foreign keys, of which `market_points`
has none. `ImplementsStore` maps the committed tables, not what the connection
sees, to `EntityStore`; a call that fails is a stutter. Reads are operators:
the joins with `issuers`, and `get_market_series` as the set of readings the
engine's order of ties allows (`Readings`). `MovePoints` renames the dropped
issuer in the points that name it.

### Backtest

Every state is the input of a backtest that ends on its last day, and the one
action adds a day. Signals, alignment, filling of gaps, the shift by a day,
costs, turnover, trades, equity and drawdown are operators named after the
engine's functions. Closes divide `Unit`, so all of it is in exact integers
where the code has floats and a trade threshold of 1e-12. A universe lists no ticker
twice: its rows would be double and the pivot would refuse them
(`backtest/engine.py:213`).

## 3. Runs

| Run | Instance | Holds |
|---|---|---|
| `live` | two orders in one cycle over two tickers, a fill id, losses up to twice the cap, one crash, two executes | `AuditTrail`, `OneEventPerUpdate`, `RejectedRolledBack`, `KillSwitchWithinOneCycle`, `LossCapEnforced`, `ExecuteReturns` |
| `cycle` | all twelve configurations, three requests, token cap 3 | `EventProtocol`, `TradeIsJustified`, `ResultTellsTheEnd`, `ContextReleased`, `ServiceSpec`, `DrainServesAll` |
| `cycle_store` | two cycles, four saves, two crashes | `IndexedIsLoadable`, `PruneCanResume`, `PruneKeepsRecent` |
| `reconciliation` | two sources that share one company and one identifier, two pages, three issuer ids, one record, two operator edits, two runs of each loader | `NoDangling`, `RerunIsNoop`, `HistoryFollows` |
| `paper` | ten dollars, two tickers at two or three dollars, six decisions, two runners, two days, three filled actions | `NoTradeOverDailyLoss`, `Rebalanced`, `OverdraftBounded`, `BooksBalance` |
| `data_clients` | two calls of each of the seven clients, a budget of one a day, four days of two ticks, two retries, three empty answers | `OvershootBounded`, `AnswersAreCounted`, `PacedByCaller`, `GiveUpOutlasts`, `ExhaustedMeansEmpties`, `ArchiveWhole` |
| `stream` | three updates, four faults, a sleep of one to three seconds | `NothingReceivedIsLost`, `BackoffFollowsFailures`, `Recovers` |
| `llm` | two calls, two providers of which one logs in, three minutes | `EachTriedOnce`, `Settles` |
| `duckdb` | two issuers, two identifiers, three sources, two records | `ImplementsStore`, `AnswersAgree`, `DisagreementReported` |
| `backtest` | two tickers over four days with gaps, three strategies, windows from day one or two | `NoLookahead`, `ReturnsCompound`, `RankRespected`, `MetricsAgree` |

| Run | Instance | Violated |
|---|---|---|
| `live_kill_switch` | as `live`, no losses | `KillSwitchRefusesOrders` |
| `live_rejected` | as `live`, no losses | `RejectedLeavesNoOpenOrder` |

The types of every module are written down (`TypeOK` and the like) and proved
for all of them; the runs spend their time on the other properties.

Why the bounds are enough. Two orders in a batch are the least for a mid-batch
failure and for a kill switch between orders; two executes and a crash give the
replay of a cycle whose response was lost. One fill id gives one fill, delivered
again and again; that partial fills of one order are told apart is shown by the
proofs alone, for any set of ids. Three requests give a queue behind a running
cycle while a drain is on. Four saves of two cycles give a cycle saved again
before a prune and another after it; the second crash hits the prune that
resumes the first. Two edits are an upsert that takes an identifier and a merge
that moves it; two runs of each loader, in any order, give the rerun and what the
other source's run did to it; one record is enough to dangle, and it may hang on
either end of a merge. Two calls on a budget of one reach the overdraft that
`OvershootBounded` allows, and what two calls do to a shared streak, turn or
file; two retries and a backoff schedule of two entries reach the schedule's end;
three days give requests across midnight and purges of older days. Four faults
are two failed dials, a cut and a malformed frame, so a sleep reaches the ceiling
and starts low again. Two providers and two calls are enough for one call to move
the order of the other; a login of two minutes expires within three. In DuckDB
two records put a point beside a relation or another point of the same time, and
every call may be cut at any of its statements. Four days hold a lookback, a gap
inside the window and a recovery after a loss. Three filled actions give a purchase, a loss that reaches the smaller
of the two daily limits but not the larger, and a third trade that is refused or
goes ahead; weights in sixths at these prices leave remainders of every kind.

`MaxExecs`, `MaxCrashes`, `MaxLoss`, `MaxSaves`, `MaxItems`, `MaxTokens`,
`MaxRecords`, `MaxPoints`, `MaxRuns`, `MaxEdits`, `MaxTime`, `MaxTrades`, `MaxDay`,
`MaxUpdates`, `MaxFaults` and `MaxDays` are the only bounds, each a guard of one kind of action. A configuration that turns the
deadlock check off is one whose system may come to rest: nobody has to call, edit
or crash.

The two violations are disagreements between the code and what it documents;
`PROJECT.json` quotes each line under `findings`.

* The kill switch does not stop a batch under way (ADR-0008 asks for no new
  order once it is invoked). What does hold is `KillSwitchWithinOneCycle`.
* A submission with a lost response is reported as REJECTED with nothing changed
  at the venue, which may be wrong.

### Known divergences

The models behave as the code does, and the code differs from its documents in
more places. Each of the following is a behaviour of a module above; a property
that states the document's sentence fails there.

* `CycleRunner`: the broker is awaited outside any except clause
  (`orchestrator/cycle_runner.py:462`), so what it raises escapes `run` without
  CYCLE_ABORTED, result or save. `docs/requirements/non-functional.md:65`:
  "every external failure produces a `CycleResult` with `aborted_reason` set; 0
  unhandled exceptions escape `run()`".
* `CycleStore`: a crash between the two files of a second save leaves the new
  `result.json` beside the old `events.jsonl`. `memory/cycle_store.py:17`: "a
  crash mid-save leaves the previous state intact for that cycle".
* `Reconciliation`: `_try_upsert` (`entities/reconciliation.py:334`) writes a
  shared issuer back with its own row's identifiers only, so after J-Quants and
  then EDINET DB the J-Quants code leads nowhere until J-Quants runs again.
  `docs/research/data-integration/02-design-spec-tydd.md:25`: "Given any
  source-specific identifier [...] the layer returns the canonical `Issuer` for
  that entity".
* `DataClients`: two calls that wait at one limiter compute the same turn and go
  together (`data/_common/rate_limit.py:82`). Line 5 there: acquire "waits as
  much as needed so consecutive calls are at least ``min_interval_seconds``
  apart". What does hold is `PacedByCaller`. The quota counts UTC days where
  `docs/requirements/non-functional.md:66` speaks of 24 rolling hours.
* `Backtest`: the first `selected_k` of the sorted list are taken whatever their
  return (`backtest/providers.py:246`), so with fewer ranked tickers than places
  one without data is held. Line 221 there: "so they're never selected". What
  does hold is `RankRespected`. The trades of a window's last day are charged to
  no day (`backtest/engine.py:154`).
* `AlpacaWebsocket`: a clean close ends the generator, and a 5xx answer to the
  handshake, which the comment above calls transient, is fatal
  (`execution/alpaca_websocket.py:188`, line 102).
* `LlmProviders`: a credential with a minute to go is sent with a request that
  may take two (`providers/_cli_creds.py:114`), and an expired file hides a fresh
  keychain entry (line 361). Both end in an `AuthError` the registry steps over.
* `DuckDbStore`: a KeyboardInterrupt inside a transaction leaves it open
  (`entities/duckdb.py:554`): later transactions raise, and appends are never
  committed.

## 4. Fairness

`LiveBroker` assumes weak fairness of the broker's own steps, including the
failure of a pending request: httpx gives every request a timeout
(`execution/alpaca_rest.py:105`), so a venue that never answers ends in
`AlpacaError`. Nothing is assumed of the venue, the stream or the operator. The
consumer's second half (`EmitUpdate`) follows without an await.

`CycleQueue` assumes weak fairness of the runner's step and of the caller's
continuation: the providers and the HTTP clients time out
(`providers/anthropic_cli.py:85`, `providers/codex_cli.py:80`,
`providers/openai_compat.py:49`), and the backtest is a computation. Callers are
not assumed to call anything.

`AlpacaWebsocket` assumes weak fairness of the client's steps, which the event
loop runs whenever they can go on, a sleep being finite, and of the venue's
acknowledgement of a request to listen: without it `recv` may wait as long as the
connection lives. `Recovers` leaves the faults to the network; they
are finite in number because a bound says so, as the claim is about what happens
when they stop.

`LlmProviders` assumes weak fairness of `Answer`: each provider's HTTP client has
a timeout, which is one of the ends of a request.

`CycleStore`, `PaperTrading`, `Reconciliation`, `DataClients`, `DuckDbStore` and
`Backtest` make no liveness claim.

## 5. Proofs

Every theorem rests on the named assumption of its module, which says what the
constants are and which TLC evaluates in the runs, and on nothing else unless it
is said below. Each invariant was checked by TLC on the instance of a run before
it was proved.

`LiveBrokerProofs`, for any sets of cycles, tickers, targets and fill ids:

* `TypeCorrect`: `Spec => []TypeOK`, one step per action.
* `SafetyInvariant`: `Spec => []Safe`. `AuditTrail` and `OneEventPerUpdate` are
  not inductive. That a fill row stands for a real execution needs `UpdatesInv`
  (what is on the wire has happened); that an event is appended once needs
  `RecordedInv` and `BatchInv` (between its row and its event, nothing is logged
  yet); that a registration never repeats needs `BatchInv` again (an order just
  accepted is not in the journal, because the venue had not seen it and every
  journal row is of an order the venue has seen); and that a rejected batch
  stays off the book needs `ResultInv` (its orders are at the venue and final).
* `AuditTrailHolds`, `OneEventPerUpdateHolds`, `NoIntegrityErrorHolds`,
  `RejectedRolledBackHolds` follow from `Safe`.
* `KillSwitchHolds` and `LossCapHolds` are each inductive given types.

`CycleQueueProofs`, for any configurations, token caps and requests:

* `RunInvariant`: the machine state, the artifacts and the attached broker match
  the await a run is suspended at (`StageInv`), and the queue has a driver
  exactly while there is a run or one just ended (`QueueInv`). Of these
  `TradeIsJustifiedHolds`, `ResultTellsTheEndHolds` and `ContextReleasedHolds`
  are parts: the broker is asked only in a cycle whose every step succeeded, whose
  verdicts allow it and which is within its budget, whatever else `run` may meet.
* `EventProtocolHolds` quantifies over the places of a log, and needs its end:
  `LogInv` says what the last event of a run in progress is and that it has no
  end event yet. Along the way, `NoTransitionRefused`: the runner never asks the
  state machine for a move it refuses.
* `ImplementsService`: every step of queue, runner and callers is one of
  `CycleService` or a stutter; `ServedInOrder` is then proved once, of the
  service. Its liveness half (`DrainServesAll`) stays with TLC.

The same module, of `CycleStore`, for any number of cycles, saves and crashes:
`StoreInvariant` joins `DiskInv` (nothing is newer than the last save), `SaveInv` (the files of a
save in progress, one after the other) and `PruneInv` (a prune drops no row of a
directory that stays). `IndexedIsLoadable` alone is not inductive: the row comes
three effects after the directory. `PruneCanResumeHolds` is the crash between the
unlinks and the rewrite; `PruneKeepsRecentHolds` is a step property.

`PaperTradingProofs`, for any finite set of tickers, any prices and any unit of
rounding:

* Sums. The library's induction theorems take an operator; here induction is
  over sets of naturals (`NatSets`, from the well-foundedness of `<`) and over
  the subsets of the tickers (`TickerSets`), from which a sum adds, scales and
  keeps order (`SumAdds`, `SumScales`, `SumOrders`).
* `LossBudgetHolds` needs `LossesTold`: the loss a fresh runner was told is at
  least the day's, since the end of a day only takes losses away.
* `RebalancedHolds`: each holding within half a unit of its target's share.
* `BooksHold` and `OverdraftIsBounded` have the hypothesis `[]Solvent`: the equity
  an action rebalances is not negative. The account may be overdrawn by rounding,
  and if prices then fell to that size the equity would be negative and the
  action would aim at selling what is not held. The code does not exclude it
  either; it does not happen in the run. Given it, what an action spends, earns
  and leaves on the books cancels holding by holding (`HoldingBalances`).

`ReconciliationProofs`, for any issuers, identifiers, sources and loaders:

* `StoreInvariant`: the store's types, `IndexAgrees` and `NoDangling`, together
  inductive over the store's own operations. `NoDangling` is not inductive
  alone: a merge redirects the identifiers the dropped issuer lists, and leaves
  none behind only because the index leads to it by no other.
* `ReconciliationUsesStore`: every step of the loaders is one store operation
  or a stutter (`Spec => StoreSpec`). So `IndexAlwaysAgrees`, `NeverDangling`
  and the step property `HistoryAlwaysFollows` are proved once, for the store,
  and hold for every user of it.
* `RerunIsNoopHolds` has the hypothesis `RowsShareNothing`: the rows of one source
  share no identifier. Without it the claim is false: the second of two such rows
  finds the issuer the first one left and gives it its own identifiers, and a
  rerun gives the first's back and takes them again. In both sources a row is a
  company and its identifiers are its own codes. `RerunInv`: in a first run without conflicts each row handled
  so far is stored, so after it all are, and a stored row is found unchanged.
* `ReconciliationInvariant`: `Spec => []TypeOK`.

`DuckDbStoreProofs`, for any sources, issuers, documents and records:

* `DuckInvariant`. `CallInv` says that the open transaction has done the first
  statements of an upsert or a merge, and which; so what the connection sees is
  the file with the first half of a call. `FileInv` says that no row names an
  issuer that is not there (`NamesExist`), which the schema enforces for all
  tables but the points, and the statements of a merge for those.
* `ImplementsStoreHolds`: the committed tables implement `EntityStore`. A commit is
  the store's operation, because all statements are done; a failure, a crash and
  every statement inside a transaction are stutters; an append is its operation
  at its only statement. `NothingDangles` follows.
* `AnswersAgreeHolds`: the joins answer what the abstract store would.
  `DisagreementIsReported`: whichever reading the engine takes, a market value
  on which sources disagree is reported with the others.

`DataClientsProofs`:

* `OvershootAlwaysBounded` and `AnswersAlwaysCounted`. The bound on today's rows
  alone is not inductive, since a call past the check will still add its row.
  `QuotaInv` counts shares: rows of today plus calls between check and row stay
  within the bound, and answers handed out plus answers about to be do not exceed
  the rows. `Record` moves one share from one side to the other; a new day drops
  the rows (`DayFloorOrder`: days do not interleave) and keeps the calls under way.
* `ClientsDriveTheQuota`: the EDINET DB client, with its cache, limiter,
  cancellations and restarts, implements the quota's specification, so
  `ClientsKeepTheBudget` holds of the client as it runs.
* `ClientInvariant`, for any number of calls. The lemma `StepShape` reduces the
  steps of seven clients to what they do to a call. `TurnsKept` (a sleeping call
  wakes no earlier than its caller's last request and the interval) gives
  `CallersArePaced`; `RefusalsWaitedFor` gives `GivingUpTakesLong`, for schedules
  with no backoff shorter than the first (`GradualSchedule`), as both of the
  code's are; `StreakIsEmpties` gives `ExhaustionIsHeard`;
  `NothingTornIsRenamed` (a torn temporary file has no download left that would
  rename it) gives `ArchiveStaysWhole`.

`ServiceClientsProofs`:

* `StreamInvariant`, for any number of updates and faults. `NothingReceivedIsLost`
  speaks of the moments between two connections; in between, `DeliveryInv` says
  that what arrived was handed on or waits. A cut takes the last frames away, and
  that it takes away just those updates needs `OnceInv`: an update waits once, and
  never after it was handed on. A frame is passed over in silence only as the
  acknowledgement, which `ConnectionInv` places first.
* `BackoffFollows`: the code's doubling under a ceiling is the closed form, for any
  first sleep and ceiling. The powers of two are a function on the naturals, whose
  existence and values are proved by the same induction over sets.
* `EachIsTriedOnce`, for any number of providers and calls. The order of a call is
  settled when it begins and names every provider once (`OrderFits`), so what it
  has asked is the part of it up to its position (`CallInv`), whoever moves the
  warm index in the meantime.

`BacktestProofs`, for any universe, strategy, window and history of closes with
gaps:

* `RankRespectedHolds`: placing by return and then by position (`Before`) is a
  strict total order, and in such an order on a finite set exactly `k` members
  have fewer than `k` before them (`FirstOfOrder`, by mapping each member to its
  rank, which takes no induction). That the order is transitive is where the
  sentinel for an absent close matters: fractions with a missing term do not
  compare.
* `NoLookaheadHolds`: the closes of the past stay (`PastKept`), so do the weights
  and the closes filled forward (`LastQuoteKept`), and a column the new day adds
  to the fold earned nothing before (`GrossKept`).
* `ReturnsCompoundHolds`: a fold over a sequence of any length exists and has the
  values its steps give (`FoldExists`, by induction over sets of naturals). The
  invariant over the days is that a ticker has earned nothing until it is first
  quoted, and from then on its last quote over its first. Each day's division
  is exact because every price divides `Unit`.
* `MetricsAgreeHolds`: the equity and the drawdown are such folds, too. `WorstKept`
  is the invariant of the single pass: its peak is the greatest equity so far, no
  loss from a day to a later one exceeds its fraction, and one of them is that
  fraction. Equities of different days are compared as if nothing was earned after
  them (`EarnedUpTo`), which brings them to one scale. That a new loss is worst
  from the peak (`LossFromBelow`) is where the hypothesis of `DrawdownIsWorst`, an
  equity never below zero, is needed. A sum of naturals is zero only if all its
  terms are (`SumOf`), so no trades, no turnover and a book that stays flat are one
  and the same (`Quiet`).

Only model-checked is liveness (`ExecuteReturns`, `DrainServesAll`, `Recovers`,
`Settles` and the fairness in `ServiceSpec`), which is out of the provers' reach.

## 6. Not modelled

A torn last line of the index, a multi-status answer to cancel-all, fills
without an execution id, the schema version of the journal, formatting of
events, requests and results, the entity resolver, the observer signals, the
rolling 24 hours of NFR-REL-2 (the code counts UTC days), prices of zero, the
Sharpe ratio, the aggregate over test windows and the look-back calendar buffer
of the price provider, and the parts `PROJECT.json` marks `not_modelled`: the
loop detector, the preflight scan and the heartbeat, which nothing in the runner
calls, the HTTP endpoints, which keep no state, and the lint.

One limit of the code is modelled but is no property: `NoTradeOverDailyLoss`
speaks of a runner built since the last trade. A `CycleQueue` runs all its
requests on one runner, and so on one configuration: its second cycle trades
even if the first one used up the day's budget.

## 7. Plan

1. Liveness, step by step: that each fair step brings `execute`, a drain or a call
   nearer to its end, for which the proofs would need a measure of what is left.
2. `AlpacaWebsocket` composed with the consumer of `LiveBroker`: updates lost
   between two connections against the events that are logged.
3. The loss budget over a queue: what reusing a runner does to the daily limit.
4. The aggregate over test windows, and the loop detector against a reference
   definition once something calls it.
