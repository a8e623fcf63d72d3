# Verification of the FTSO feed value provider

TLA+ models of the NestJS service in `src/`, checked with TLC and, where a
property should hold for every size of the system, proved with TLAPS. The
service collects prices from exchanges over WebSockets and REST, aggregates
them per feed and answers `/feed-values` and `/feed-values/:votingRoundId`.
All of it runs in one Node.js process: "concurrency" means interleaving at
`await`, timers and socket events.

Paths below are relative to `src/src/`.

## 1. The system

| Part | State it keeps | Operations | Talks to |
| --- | --- | --- | --- |
| Feed values API (`controllers/feed.controller.ts`, `app.service.ts`, `common/base/base.controller.ts`) | nothing between requests; locals of a request across awaits | current values, round values, volumes; retry, fallback, time-out | price lookup, round cache |
| Price lookup (`integration/services/price-aggregation-coordinator.service.ts`, `aggregators/real-time-aggregation.service.ts`) | per feed: batch, active updates, cached price, lock; readiness flags | getCurrentPrice(s), getAggregatedPrice, addPriceUpdate, batch timer | consensus aggregator, data manager (REST), caches, warmer |
| Consensus aggregator (`aggregators/consensus-aggregator.service.ts`) | result cache, trust scores | aggregate, validateUpdate | - |
| Caches (`cache/`) | prices by feed and by voting round, access patterns | get, set, invalidate, warm | price lookup (warming) |
| Circuit breaker (`error-handling/circuit-breaker.service.ts`) | per service: state, counters, times, timer handle | execute, register, open, close, reset, health check | retry service, connection recovery, integration |
| Exchange adapters (`adapters/base/base-exchange-adapter.ts`, `adapters/crypto/`) | per exchange: socket, isConnected flag, subscribed symbols, ping, pong and reconnect timers; for CCXT: batches, watch loops, circuits per exchange | connect, disconnect, subscribe, read messages, keep alive, reconnect, ask by REST | exchanges, data sources |
| Data sources, orchestrator (`integration/services/data-source.factory.ts`, `integration/services/websocket-orchestrator.service.ts`) | connected flag; a belief per exchange | start, reconnect, subscribe, clean up | adapters, data manager |
| Data manager, integration (`data-manager/production-data-manager.service.ts`, `integration/`) | sources, metrics, event subscriptions, start-up flags | initialise, connect with retries, check health, forward updates, shut down | everything above |
| Failover, recovery (`data-manager/failover-manager.service.ts`, `error-handling/connection-recovery.service.ts`) | health of sources, groups with active, failed and backup sources, cooldowns, timers | connection changes, triggerFailover, health checks | connections, circuit breaker |
| Validation (`data-manager/validation/`) | histories and cached verdicts per feed | validateRealTime, validateBatch | only tests call it |
| Retry service (`error-handling/universal-retry.service.ts`), error handler | retry counts, statistics | executeWithRetry, executeWithStandardizedHandling | API, integration |
| Rate limiting (`common/rate-limiting/`) | requests of each client in a window | check, record, clean up | API |
| Lifecycle mixin (`common/base/mixins/lifecycle.mixin.ts`) | timers on record, two promises | initialise, clean up, timers, waits | inherited by every service |
| Start-up, health (`main.ts`, `integration/integration.service.ts`, `controllers/health.controller.ts`) | process state, wiring, readiness | bootstrap, announce complete data, shut down | everything above |
| Alerts (`integration/services/system-health.service.ts`, `monitoring/alerting.service.ts`) | status of sources, alerts, cooldowns | record, check, send, clean up | operators |
| Performance monitoring, logging, configuration, scripts | counters, windows | reports | operators |

What is hard about it: every `await` in a lookup lets other lookups, batches,
warmers and time-outs run between reading a map and using what was read; locks
are released by hand on every path; sockets close, reopen and reconnect on
timers whose handlers refer to the adapter and not to their own socket; several
recovery mechanisms (adapter, orchestrator, data manager, connection recovery,
failover manager) react to one and the same event; the arithmetic of the
consensus has integer boundaries that removal of outliers moves about.

What makes each part correct:

- *Circuit breaker*: an open circuit always has a way back; counters and state
  agree whatever overlaps; it opens and closes only by results that count since
  it last turned; open circuits fail fast.
- *Feed values*: every request is answered; each value belongs to its feed; a
  round answer is complete or an error; no feed stays locked.
- *Consensus*: the price is between the prices and independent of the order of
  updates, half of the weight is at the price or above; a cached result is close
  to a computed one.
- *Connections*: a connected exchange delivers what is subscribed; reconnection
  is bounded; nothing reconnects after shutdown.
- *Active updates*: no update is lost between the ways it may take, none counts
  twice, a critical one is in the price at once.
- *Failover*: a primary is used or known as failed; a backup that cannot serve is
  known as failed, and leaves when the primary is back; whoever reports a source as healthy has seen it connected.
- *Data manager*: a lost connection is always being retried, by few loops.
- *Subscriptions*: what is tracked was asked for, and is heard of.
- *Messages*: a price is accepted only if it is recent or its market tight, and
  only if somebody asked for it; a silent socket is noticed.
- *Validation*: one bad source is told apart, and a moving market is not, as long
  as its price is in the range of accepted ones.
- *Price cache*: bounded; the current price never goes back, and a new one takes
  those of the voting rounds with it.
- *Requests*: limits hold over what the limiter forgets; every request that passes
  is answered.
- *Life of the process*: what connects early is known, completeness is announced
  honestly and in the end, starts and shutdowns end, nothing fires after cleanup.
- *Alerts*: they expire, and a critical state has a current one.

The hazards are listed line by line in `PROJECT.json`.

## 2. The plan, as it was carried out

In order of importance: what a request is answered, then what the prices in the
answer are made of, then how sources stay connected, then the rest of the
process.

| Module | Models | State |
| --- | --- | --- |
| `CircuitBreaker`, `CircuitBreakerProofs` | the circuit breaker | checked, proved |
| `FeedValues`, `FeedValuesProofs` | a request through controller, retry, coordinator, aggregation lock and caches (composes five classes) | checked, safety proved |
| `ConsensusAggregator` (proofs in `AggregatorProofs`) | the pure algorithm and its result cache | checked, safety proved |
| `Validation` (proofs in `PriceCacheProofs`) | validation of updates against their histories | checked, safety proved |
| `ExchangeConnection`, `ExchangeConnectionProofs` | the adapter of one exchange with its sockets and reconnect timer, the orchestrator, the other callers of connect | checked, safety proved |
| `Subscriptions` (proofs in `FailoverProofs`) | what each adapter asks its exchange for | checked, safety proved |
| `MarketData` (proofs in `FeedValuesProofs`) | what exchanges send, what becomes of it, and the keep-alive | checked, safety proved |
| `CcxtAdapter` (proofs in `ExchangeConnectionProofs`) | the adapter of all other exchanges | checked, safety proved |
| `PriceAggregation`, `AggregatorProofs` | which updates of a feed a price is computed from: batch, immediate and REST updates, the cached price, warming | checked, safety proved |
| `PriceCache`, `PriceBoard`, `PriceCacheProofs` | the caches and the abstract board they implement | checked, refinement proved |
| `Failover`, `FailoverProofs` | failover manager with the first reaction of connection recovery | checked, safety proved |
| `SourceHealth`, `SourceHealthProofs` | who believes what of one source; the data manager's retry loops | checked, safety proved |
| `ConnectionRecovery` (proofs in `SourceHealthProofs`) | connection recovery's own health and reconnections | checked, safety proved |
| `RateLimiter`, `Requests` (proofs in `ServerProofs`) | the path of a request around the operation of `FeedValues` | checked, safety proved |
| `Startup`, `ServerProofs` | bootstrap, wiring, announcement of complete data, health endpoints, shutdown | checked, safety proved |
| `Lifecycle` (proofs in `FailoverProofs`) | the lifecycle mixin with its timers | checked, proved |
| `Monitoring` (proofs in `CircuitBreakerProofs`) | system health and alerts | checked, safety proved |

`PriceBoard` is the abstract specification of the caches. Two others were
considered and left: a *lease* per feed for the locks of `FeedValues`, which
`LockHasWork` already says for one lock, and a *link* for `ExchangeConnection`,
which would hide just what goes wrong between the socket and the flags. Every
safety property the runs check is proved.

## 3. The modules

Each `MC*` module extends its component and gives the constants that need a
definition; the component's module itself is what TLC checks and what a
`*Proofs` module extends. A small component shares the proof module of a larger
one, as it shares its run; names that would meet there carry the component's
name (`CcxtInit`, `MarketNext`, `RequestsSpec`). Every definition that stands for
code is listed with its lines in `PROJECT.json` under "map".

### CircuitBreaker

`circuit[s]` is one record for the entries of service `s` in the maps of
`CircuitBreakerService`: state, failure and success counters, the ages of the
last success and failure, the handle kept in `circuitTimers`, and `remaining`,
the time left of every timer that was ever armed (a timer whose handle was
overwritten goes on running). `running[s]` holds the requests that are inside
`execute`, between the check of the state and the recording of the result.

| Action | Code |
| --- | --- |
| `RegisterCircuit`, `UnregisterCircuit`, `OpenCircuit`, `CloseCircuit`, `ResetStats` | the methods of those names |
| `ExecuteRejected`, `ExecuteStarts`, `ExecuteSucceeds`, `ExecuteFails` | the parts of `execute` before and after the awaited operation, with `recordSuccess` and `recordFailure` |
| `RecoveryTimerFires` | the callback of `transitionToOpen` |
| `HealthCheck` | `performCircuitHealthCheck` |
| `Cleanup` | `cleanup` |
| `Tick` | time passes (no code): ages grow to a bound, timers count down |

`ToOpen`, `ToHalfOpen`, `ToClosed` are the transitions as functions on a
circuit; they do nothing but set the state if the circuit has no statistics,
as the code does for a service that was unregistered. An unregistered circuit
leaves its timer running, which later creates the state of a circuit that no
longer exists; the properties are about registered ones. Statistics of
response times are left out.

`streak` is a history variable, which no code reads: the successes recorded since
a circuit became half-open, or the failures in a row since it was closed.
`TurnsAreEarned` compares what the counters let happen with it: manual calls,
stray timers and late results come between, and a counter that survives one of
them turns the circuit too early. A success that began before the circuit
tripped and arrives in HALF_OPEN counts, in the code and in the property; one
that arrives in OPEN does not.

### FeedValues

One HTTP request is a record: kind (current or voting round), status, the
feeds, attempts left, and for each feed the outcome of its lookup. One feed is
a record with everything the services keep of it: where its updates are, who
holds its entry in `activeAggregations`, at which `await` the holder is, how
old its cached price is, and which feed's price is stored for the round.
`Aggregated`/`AfterAggregated` are `getAggregatedPrice` up to its first await,
`CurrentPrice` and `RealTimePrice` the callers around it; `Attempt` starts one
attempt of `executeWithRetry`, with a lookup of every feed asked for, in order;
`RestSucceeds`, `RestFails`, `AggregationSucceeds`, `AggregationFails` are what
the awaits end with, `Delivered` what then happens to whoever holds the lock;
`Fallback` is the chain of fallbacks in `getRealTimeFeedValues`;
`AnswerCurrent`, `AnswerRound` and `Respond` end a request and `TimesOut` is
`handleAsyncOperation`. `UpdateArrives`, `BatchProcessed`, `WarmingTimer`,
`PriceAges` and `RoundExpires` are the rest of the process.

Abstractions: prices are known by whose they are and how old; whether a lookup
triggers warming is free (it depends on access statistics); the warmer and the
update path share one lock holder, `Background`; what remains of an attempt
after a time-out is `Late`; an attempt the circuit breaker rejects is one whose
lookups fail; there is one voting round, and no eviction by size.

### ConsensusAggregator

`Computed` is `performAggregation`: `Valid`, `Stable` and `Validated` are the
three stages of `validateUpdates` with the rules that put removed updates back,
`Points` the weights, `WithoutOutliers` `fastOutlierRemoval`, `WeightedMedian`
the median with its interpolation. `Aggregate` adds the result cache. Prices
and weights are integers and results exact fractions where the code has
floating-point numbers; exponential decay is a table of three values by age.
Left out: the confidence and consensus scores, trust statistics (they never
change, see findings), and collisions of the 32-bit hash: `Key` is the string
that is hashed. The last lines of the median (a crossing that is never found)
cannot be reached in exact arithmetic, as `CrossingExists` proves.
`aggregationCache.of` records what a result was computed from and nothing reads
it but properties.

So that one can reason about it, nothing is sorted and no list is compacted: a
filtered list is a function on the positions that are left, the sorted prices
are told by how many are below (`PricesAt`), and the sorted points by which
precede which (`Precedes`, with the position as the last criterion, since the
sort is stable). `PriceWithinSources` also bounds what the cache can do: a price
that is reused for updates which differ only below the rounding of
`calculateInputHash` is at most a cent outside their prices.

### ExchangeConnection

One exchange. `socket[s]` is the state of a WebSocket and the symbols it was
asked to carry; `ws` and `adapter` are the adapter's fields; `call[c]` is where
caller `c` is in `connect` or `subscribe`; `orchestrator` is its own belief.
The callers are the orchestrator (start and `reconnectExchange`), any number of
`Connectors` (data manager, recovery, REST fetches, which only connect) and a
`Subscriber` (`subscribeToFeed`, failover).

| Action | Code |
| --- | --- |
| `Connect`, `ConnectSucceeds`, `ConnectFails` | `connect` up to its await, after a resolved, after a rejected promise, and what the orchestrator does next |
| `Opened`, `HandshakeFails`, `ClosedRemotely`, `ClosingEnds` | the handlers `connectWebSocket` installs, with the adapters' overrides (`adapter.quiet`) |
| `ConnectionTimesOut`, `PongTimeout`, `Reconnect` | the wait for the connection, the ping and pong timers, the timer of `scheduleReconnect` |
| `StartSubscribing`, `SubscribeToFeed`, `Subscribe`, `SendingEnds`, `Unsubscribe` | `subscribe` and its callers; coinbase waits 100 ms between looking at the socket and sending |
| `OrchestratorCleanup`, `Cleanup` | the two cleanups of shutdown |

`Settle` settles the promise of the call whose socket ended. What follows a
settled promise happens before the next task (`Settled`). A socket that was
replaced in `ws` is still there, and its handlers act on the adapter, as they
do in the code. Binance needs no subscription messages and CCXT has no sockets
of this kind; the orchestrator's `subscribedSymbols` (which nothing reads for a
decision here), a `new WebSocket` that throws, and the data source's flag and
events are left out. Slots in `Sockets` are reused once a socket has closed.

### PriceAggregation

One feed. `batch` and `active` are its entries in `batchProcessor` and
`activePriceUpdates`, `cached` the cached price, known by the updates it was
computed from, `fetch` the REST fetch that is under way (the only thing that
holds the lock of the feed beyond its task).

| Action | Code |
| --- | --- |
| `Lookup` | `getAggregatedPrice` of a request, the warmer or an invalid update |
| `UpdateArrives` | `handlePriceUpdate`, `processPriceUpdate`, `addPriceUpdate`, `processImmediateUpdate` and the lookup that follows, in one task |
| `ProcessBatchedUpdates` | the batch timer |
| `SourceAnswers` | one step of the loop of `getPriceUpdatesForFeed`, and after the last one what the lookup does with the result |
| `Tick` | time passes (no code) |

`warming` says that `trackFeedAccess` starts a lookup before the update is
added: that one has the lock and works on the list as it was. `critical` is the
outcome of `isCriticalUpdate`, free but for the first update of a feed. An
update is known by source, label and time; the coordinator labels those of
WebSockets with the feed's symbol, while REST answers keep the exchange's.
Lists are sets: an update that is fetched twice has two slots, and which of two
updates of the same time survives is free. Nobody subscribes to
prices, so the awaits of a batch are microtasks and the batch is one step.
Left out: the filter of identical updates in flight, eviction by size, and CCXT
sources, which are asked for by exchange as the others are.

### PriceCache and PriceBoard

`cache` maps a feed, and a voting round or `Current`, to the version of the
price that is stored there, with what is left of its time to live, its count of
accesses and the time since the last one; `latest` is the newest version of each
feed's aggregate, `fill` what lookups and requests hold between two of their
steps, `patterns` what the warmer knows.

| Action | Code |
| --- | --- |
| `LookupStarts`, `PriceFetched`, `WarmingStarts` | `getCurrentPrice`, the warmer, and the write when the aggregate is there |
| `RoundStarts`, `RoundPriced`, `RoundStored` | `getCachedHistoricalData`, the lookup of the feed, `cacheHistoricalData` after all feeds of the request have been looked up |
| `UpdateArrives`, `PricePublished` | a new aggregate, whose feed counts as accessed; `handleAggregatedPrice` |
| `CleanupRuns`, `PatternForgotten`, `OptimizePerformance`, `Clear` | the intervals and the calls of those names |
| `Tick` | time passes (no code) |

`Set` is `set` with the adaptive time to live (`AdaptiveTtls`) and the eviction
of a full cache (`Evictions`, by a score of accesses, idleness and remaining
time). `SetPrice` is followed by `invalidateOnPriceUpdate`, as in the code.
`PriceBoard` has three operations: put a current price, which takes the feed's
rounds off, put a price of a round, and lose anything at any time.

### Failover

`source[s]` joins what connection recovery and the failover manager register of
a source: connected, and the manager's counts of failures and successes;
`group[f]` is a `FailoverGroup`. `failover[s]` is the failover of a source that
is under way, over the groups it goes through; its only real wait is the
subscription of a backup.

| Action | Code |
| --- | --- |
| `Configure`, `Unregister` | `configureFeedSources` with `configureFailoverGroup`; `unregisterDataSource` of both services |
| `Lost`, `Connected` | a connection change: recovery's listener runs first and asks for a failover at the first loss, then the manager counts and may ask for its own, or bring the source back |
| `GroupFailover`, `ActivateBackup`, `SubscriptionEnds`, `GroupDone` | `performFailover`, `performGroupFailover` around the awaited subscription |
| `UnsubscriptionEnds` | the unsubscription `handleSourceRecovery` does not wait for |
| `PerformHealthChecks` | `performHealthChecks`, which counts like a connection change |
| `SourceCooldownEnds`, `GroupCooldownEnds` | the two cooldowns |

All groups have the same primaries and backups, as every feed of the
configuration of this model; `quiet` is the outcome of "enough time since the
last failure", which is free. `SubscriptionEnds` makes a backup active whether or
not it was subscribed, as the code does: `waitForCondition` answers false when
all its tries have failed, and nobody looks at the answer. That failed
activations are marked, as a comment says, is `FailedActivationsAreMarked`, which
the run `failover` finds violated (section 7).

### SourceHealth

One source in four places: the adapter (`up`), the data source (`connected`),
the data manager's metrics and the adapter registry (`belief`). `loop` are the
`connectWithRetry` loops of the data manager, any number of which run at once;
`check` is a health check under way, `errors` errors that are being handled,
`orchestrating` a reconnection by the orchestrator. `AdapterOpens`,
`AdapterCloses`, `AdapterError`, `UpdateArrives` are the events of the adapter
with all they set off in one task; `ConnectSucceeds`, `ConnectFails`,
`CheckReadiness`, `ReadinessChecked`, `NotReady`, `BecomesReady`, `TryAgain` the
steps of a loop; `HealthCheck` and `HealthChecked` the check around its await;
`ErrorHandled` what comes of `handleSourceError`; `Forget` `removeDataSource`.
The adapter's own reconnection is `ExchangeConnection`'s: here it opens and
closes as it likes.

### ConnectionRecovery

What `ConnectionRecoveryService` believes of each source (`health`), the times
of its last attempts, the reconnections it has scheduled (`timers`, of which only
one per source is held in `reconnectTimers`: `held`), the attempts and failovers
that are awaited. `Loses` is a lost connection up to the failover,
`FailoverEnds` goes on to `scheduleRecovery`; `Connects` cancels what is held;
`AttemptReconnection`, `AttemptSucceeds`, `AttemptFails` are `attemptReconnection`;
`PerformHealthCheck` marks sources unhealthy; `Unregister` forgets one. `Tick`
counts time in units that are small against the cooldown.

### Subscriptions

What each WebSocket adapter asks its exchange for: `Subscribe` and `PauseEnds`
are `subscribe` with the exchange's `doSubscribe` (Kraken: batches with two
seconds between; Coinbase: a wait before the message; OKX and Crypto.com: one
message; Binance: none), `Unsubscribe` the way back. `socket.asked` is what the
present socket has been asked for. Sockets open and close at any time, with the
exchanges' close handlers. `socket.whole` says how much can be promised: nothing
was tracked or under way when the socket was opened.

### MarketData

From the message of an exchange to the update that the data manager passes on.
Each exchange has its way of naming pairs (`OkxName` ... `BinanceName`,
`StandardizeSymbol`), of judging a ticker (`KrakenValid` ...), of making an
update of it (`KrakenUpdate` ... with `Confidence` and `Update`), of going
through a message (`KrakenHandles` ...) and of asking by REST (`KrakenRest` ...).
`Plausible` and `GoodEnough` are the inspections of `AdapterDataSource` and of the
data manager. Beside it `PingTimerFires`, `PongTimerFires`, `Opens`, `Closes`,
`MessageArrives`, `PongReceived` are the keep-alive of the base adapter, with a
peer that may fall silent without closing the socket. A ticker says which of its
fields are missing or garbled; prices are units, ages milliseconds, confidence
thousandths. Names are short sequences, since Binance's have to be taken apart
by their endings.

### CcxtAdapter

The adapter of all exchanges without one of their own. `ex[e]` is what it keeps
of an exchange: whether it has an instance, what is subscribed, what waits for
the batch timer, its circuit and its cooldown; `jobs` is the bag of everything
that waits for an exchange: loading of markets, watch loops, REST polling,
single tickers. `DoConnect`, `DoDisconnect`, `CcxtCleanup`, `DoSubscribe`,
`DoUnsubscribe`, `AskPrice` are the calls of the adapter, `BatchFires` the batch timer up to the
loading of markets, `LoadSucceeds` and `LoadFails` what follows, `WatchReturns`,
`SymbolReturns`, `WatchBreaks`, `Polls` and `TickerReturns` one round of a job.
`lost` is a history variable: symbols whose job ended, or whose request was
dropped, without a new job; nothing but the properties reads it. Prices are
there or not; the time-outs that slow down after errors are left out.

### RateLimiter and Requests

`RateLimiter` counts the requests of each client by age in both limiters; a
guard's check and record are one step, as they are in the code. `Requests`
extends it by the life of a request around its operation: `Arrives` (guards,
validation), `AttemptStarts`, `AttemptSucceeds`, `AttemptFails`, `RetryDue`
(`executeWithRetry` around the circuit), `DirectEnds` (the controller's
fallback, without the circuit), `TimesOut` (30 seconds, while the work goes on
and its end answers nobody any more),
and `SourceFails`, an error of a data source that is handled with retries of the
error itself. What operations compute is in `FeedValues`. The circuits are those
of `CircuitBreaker` without times. An answer is an answer: which status an error
becomes is left out, and so are the statistics the controller keeps of its
answers. The guards let `/health`, and every request of a process in development,
pass without looking; the model is of the routes and processes they limit.

### Startup

`process` is `main.ts`; `caller` are the two callers of the data source
integration's `initialize` (Nest's hook, if it calls hooks of different services
at once: `hooks`; and the integration service), `source` what the data manager,
the data source and the health service know of each adapter, `coordinator` the
announcement of complete data with its three triggers, `checks` the process's
own questions about its readiness. `AppInit`, `Listens`, `StartFails`,
`FailureExits`, `ShutdownBegins`, `Destroys`, `Exits` are the life of the process.
A start that fails closes the application before it exits with 1, and waits for
the hooks without a limit (`failing`): they may run, fail or never end, and a
signal may come meanwhile, whose own limit of time then ends the process.
`Orchestrated`, `Fails`, `Retries`, `Adds`, `Added` are the initialization of the
data sources; `Wires`, `Subscribes`, `GivesUp` that of the integration; `Prices`,
`PeriodicCheck`, `FallbackCheck`, `Elapses` the announcement; `MonitorAsks` the
readiness.

### Validation

One feed, with the histories its validations leave behind: `Severities` are the
tiers of `validateUpdate` (format, range, outliers by z-score and by the recent
average, other sources, the median of the last ten), `ValidateUpdate` the verdict
and the confidence that is left, `UpdateHistoricalData` what is kept. `Report`
and `Repeat` are `validateRealTime` with its cache, `Batch` is `validateBatch`,
`EndRound`, `Pause` and the clearing actions are time and `cleanupHistoricalData`,
`clearHistoricalData`, `clearCache`. Honest sources report the market, which may
`Move`. The recent prices of the sources are a set, since nothing depends on
their order, and `Median` says which prices a sort puts in the middle. A round is
regular if every source reports once in it and the market stays; `steady` counts
them since the last `Disturb` (a move, a pause, a report that counts twice,
histories or verdicts that are cleared) up to `Regular`, from where nothing
irregular is compared with. What is promised to honest sources is promised of a
market in the range of accepted prices (`MarketInRange`): below
`PRICE_RANGE_MIN`, 0.01 for all feeds, each honest update has a grave error
already, and feeds that trade there are configured (section 7). At this commit only tests call the service; the
properties say what a caller could rely on.

### Monitoring

`RecordSourceHealth` and `RecordAggregationError` are the calls of that name with
the alerts they send within their cooldowns, `HealthIsChecked` the judgement of
the system every 30 seconds, `PeriodicCleanup` and `CleanupOldAlerts` the batched
cleanup of alerts, `Elapse` the clock, in periods of the health check.

### Lifecycle

`LifecycleMixin` for one service: `OnModuleInit`, `InitializationEnds`,
`OnModuleDestroy`, `CleanupEnds`; `CreateTimeout`, `CreateInterval`,
`ScheduleBatch` (`createEventDrivenScheduler`), `ClearTimer`, `TimerFires`;
`WaitForCondition`, `NextAttempt`, `ConditionAnswers`. `managed` is the record of
timers that cleanup clears, which need not be those that are armed.

## 4. What the runs check

Eleven runs pass, and one finds what the code does against its own words. Where a
run has parts, they share nothing and a
behaviour is of one of them (`part`); the MC module says which.

| Run | Instance | States | Shows |
| --- | --- | --- | --- |
| `failures` | 1 service, 2 requests, 2 timers, thresholds 2, timeout 1; a feed with a primary and a backup; 3 pairs, 2 calls, batches of 2, each of 5 exchanges; 2 timers, 2 attempts; alerts about 1 source, a cleanup batched for 1 period, a day of 2, kept for 3 | 393,219 | an open circuit always has a way back, results turn a circuit only when they count; no primary is forgotten; what is tracked is streamed; nothing armed before cleanup outlives it; alerts expire, a critical one is current while the system is unhealthy |
| `feed_values` | 1 request for 2 feeds, 2 attempts | 112,833 | who holds a lock has work, answers to current requests are those of their feeds, every request ends |
| `consensus` | 1 to 4 updates of 4 prices and 3 age patterns, 5 of 3 prices, 6 of 2, one revision; and 4 honest sources with 1 faulty, a market of 50, 100 or 200 (accepted from 60), mistakes 0, 103 and 300, a history of 10, 1 disturbance | 260,178 | the price is within the sources' and independent of their order; one bad source is told apart, a moved market is accepted |
| `exchange_connection` | 2 sockets at once, 1 symbol, orchestrator and 2 more callers, 1 retry, 2 attempts | 233,469 | a connected exchange has something to wait for, nothing after shutdown, a scheduled reconnection leads somewhere |
| `price_aggregation` | 3 sources at 2 exchanges, 2 moments | 24,994 | no update is lost on its ways, all are reflected in the price in the end |
| `source_health` | 3 loops, 1 retry, 1 error; and 2 sources, cooldown 3, delays 1 and 2, 2 attempts, 2 failovers awaited | 230,166 | a loss is always being retried and retries die out; what recovery reports as healthy is connected, one reconnection at a time, and quiet in the end |
| `price_cache` | 2 feeds, 1 round, 2 entries, 3 versions, 1 lookup beside the warmer | 190,296 | the cache is bounded, implements `PriceBoard`, stale prices end |
| `ccxt_adapter` | an exchange watched in batches of 1 and one watched by symbol, 2 symbols, 4 calls, 1 error | 357,676 | an exchange that counts as watched is watched; loops and polling of what is not watched end |
| `requests` | 1 client, limits 2 and 1, a window of 1, 1 request, 1 retry, threshold 2 | 69,608 | limits hold, every request is answered |
| `startup` | 1 adapter, 20 feeds of which 17 come early, 2 attempts of 2 callers | 152,027 | early connections are known, completion is honest and announced, start and shutdown end |
| `market_data` | each of 5 exchanges, 15 tickers, 2 in a message, ticks of 5 to 20 s | 141,853 | a late price is tight, prices are asked for, silent sockets are closed |

The other run, `failover`, has the sources of `failures` and checks
`FailedActivationsAreMarked`, which TLC finds violated by a behaviour of eight
states: a primary fails, the subscription of its backup does too, and the backup
is made active (section 7).

What some properties do not say. `CriticalIsCurrent` is about the alert on the
system's state, whose delivery no cooldown holds back; the cooldowns only limit
the alerts about single sources. `CurrentAnswersOwnValues` is about current
values, not about the rounds. `NoPrimaryIsForgotten` says that a primary is on a
list, not that it is connected: a source that fails within its group's cooldown
stays active (failover-manager 184). `EveryRequestIsAnswered` rests on the
30 seconds' `setTimeout`, which no cleanup clears, and a process that exits
before is not in it.

Why the bounds are enough. Circuits share nothing but the clock and the health
check, which goes through them one by one, so one service stands for all; two
requests overlap, and two timers let one be orphaned. A threshold of 2 tells
"reached" from "not yet". Two feeds let a failed one shift the other, and a
second attempt is one that overlaps with the rest of the first; requests meet
each other only at locks, where `Background` and `Late` already stand for
anybody. Four updates reach each threshold of 40 % and 60 % from both sides;
six are what the z-score needs; the prices are an outlier by each of the
criteria, and inside each. Two sockets are one that is known and one that was
replaced; a third at once would be another of the latter. With one symbol a
subscription is there or is not, since the code treats symbols one by one.
In `price_aggregation` an exchange has two symbols, so that they can be taken
for one another, and another exchange has one; two moments let an update be
late, stale (`FreshFor` 0) and a cached price be too old (`Ttl` 0).

Two feeds and a round compete for two places of the cache, so that each can
evict each; three versions are one that is stored, one a lookup still holds and
a newer one. A group acts on its feed alone, and a primary and a backup are each
other's only alternative; two primaries would only leave one more to use. Three
pairs are a full batch and a rest that the other call may take up. Three loops
are one that ends, one that goes on and one that is started meanwhile. The
times of connection recovery keep their order: every delay (1, 2) is below the
cooldown (3), as 5, 10 and 20 s are below 30. In `validation` five sources are
what one faulty one can be told from, and the history holds as many prices as
the code's median looks at. One client is enough for limits by client; a window
of one tick has one age inside it, one at its end and one beyond, up to where
cleanup forgets; what two ages inside a window add, the theorem covers. A cache
of two entries evicts one at a time; sizes of which a share rounds down to no
entry are excluded by `EvictionAssumption` (the code's are at least 100, and
5 %). 17 of 20 feeds are below all thresholds, and 18, 19 and 20 are
the three of them. The tickers of `market_data` are one that is good, and one
for each way in which a ticker can fail an inspection or pass it closely. For
all safety properties the theorems below remove the bounds.

Bounds that are not in the code: `MaxAge` in `CircuitBreaker` (ages beyond
every timeout are alike), `MaxTries` 2 (of 3 and more), `MaxRevisions`,
`SlotLeft`, the size of `Sockets`, `MaxDelay` and `MaxTime`; `MaxFailures`,
`MaxSuccesses` and one failover of a source at a time in `Failover`; `MaxLoops`
and `MaxErrors` in `SourceHealth`; `MaxFailovers` and `MaxTimers` in
`ConnectionRecovery`; `MaxVersion`, `MaxAccesses`, `MaxIdle` and `Fills` in
`PriceCache`; `MaxCalls` and `MaxErrors` in `CcxtAdapter`; `Early` in `Startup`;
`MaxBatch` in `MarketData`; `MaxDisturbances` in `Validation`; `OldestAlert` in
`Monitoring`; `Slots` in `Lifecycle`.

Deadlock is checked but in the runs whose system may really stop: a shut down
process, service or adapter, sources that are all unregistered or forgotten, and
versions that have run out (`failures`, `failover`, `source_health`,
`price_cache`, `ccxt_adapter`, `startup`).

## 5. Fairness

Safety is proved without any. `failures` has no fairness at all; elsewhere
liveness assumes:

- a microtask that is ready runs (WF): continuations of promises in
  `FeedValues`, `ExchangeConnection` and `Failover`;
- awaited operations end (WF or SF): a REST request has a time-out, an
  operation in `execute` ends, a handshake ends when the network gives up;
  SF where other tasks may run between and disable it for a moment;
- timers that are due fire, and time goes on: `Reconnect`, `Attempt` after its
  delay, the batch timer of `PriceAggregation`, an interval.

Run by run, beyond that:

- `failover`: the subscription of a backup ends (SF: other failovers go before it
  for a moment), and so does the wait for a health check (SF, an interval). The
  violation it finds is of a single step and needs neither.
- `source_health`: every retry loop takes its next step, and a source that is
  not ready is given up in the end (SF, since it may be ready for a moment in
  between). In connection recovery time goes on, timers fire, an attempt ends by
  the circuit's time limit, and an awaited failover ends since its attempts to
  subscribe are limited.
- `price_cache`: time goes on.
- `ccxt_adapter`: the batch timer of each exchange fires; every request of an
  exchange ends, since CCXT has time-outs and the loops wait a bounded time. That
  a `watch` of CCXT returns is an assumption on the environment: the code sets it
  no limit, and in a market that stays quiet it may wait.
- `requests`: time goes on, the limiters' timers fire, attempts start and end
  (the circuit limits them), delays of retries end, the 30 seconds of a request
  and the direct call of its operation end. `AttemptSucceeds` or a time-out: one
  of them, whichever.
- `startup`: waits with a time-out and bounded retries end, the coordinator's
  timers fire, the process asks itself, `process.exit` is reached by the limit
  of time once a signal has come. Nothing is assumed of adapters and prices, nor
  of the `app.close()` of a start that failed: `StartsAndStopsEnd` lets it wait for
  ever, and `CompletionIsAnnounced` is about the others.
- `market_data`: time goes on, and ping and pong timers that are due fire.
- `consensus`: sources go on reporting and rounds end (validation only).

Nothing is assumed of clients, exchanges, updates, manual calls and shutdown.

## 6. Proofs

The theorems hold for every value of the constants that satisfies the named
assumptions of the modules (positive thresholds, model values that differ).

- `CircuitBreakerProofs`. All properties follow from `CircuitOK`, a property of
  one circuit: well formed, a failure counter of 0 if unregistered, a pending
  timer if open and registered, failures below the threshold if closed. The
  counter of unregistered circuits is what makes it inductive: registering sets
  a fresh state, but timers and results of the time before still arrive. Each
  function on circuits has a lemma; `OneCircuit` lifts it to an action.
  `ResultsEarnTurns` needs more: `EarnedInv`, that the counters of a registered
  circuit do not exceed `streak`, which every turn sets back to nothing.
- `FeedValuesProofs`. `PendingHoldsLock` and `LockHasWork` are inductive
  together with the `Shape` of the records: whoever becomes pending takes the
  lock in the same step, and a lock is freed in the step that ends the lookup or
  hands it to `Late`. For the answers, `AnswerInv` adds that only requests that
  wait have lookups under way (`Ended`) and that a lock is held in the name of
  one (`LockIsAsked`): nobody delivers a result to a request that was answered.
- `FeedValuesProofs`, market data. An event passes on nothing, the work on one
  message or one answer, so that the properties come down to one ticker.
  `LatePricesNeedTightBooks` is the sum in `calculateConfidence`: half a second
  costs 500 of 1000, volume gives back 200 at most, and what is left to lose to
  the threshold is 200. `PricesAreOfFeeds` is that each exchange's way of naming
  a pair can be undone (`NamesLeadBack`), which for Binance, whose names have no
  separator, needs that the quote currency is one the adapter knows
  (`PairAssumption`: every pair of `config/feeds.json` is of USDT or USD).
- `ExchangeConnectionProofs`. `NeverStranded` is not inductive: the step that
  marks the adapter connected comes after the promise was resolved.
  `Promises` says that a resolved promise leaves something to wait for until it
  is acted upon, which holds since only other callers' continuations come
  between, and those only open sockets. `StreamsAreTracked` needs `Fresh`, that
  a connecting socket carries nothing.
- `ExchangeConnectionProofs`, CCXT. An exchange is marked as watched in the step
  that starts loops, of which there is one for each chunk of the symbols that
  were loaded, and those are never none; whichever loop breaks takes the mark
  away; a job that ends leaves the others in the bag. `CcxtInv` is that with the
  types, which need that all that waits and all jobs stay within the symbols the
  exchange lists.
- `AggregatorProofs`, active updates. `SocketsCountOnce` needs that nothing of a fetch has
  the slot of a WebSocket, so that its answer brings no duplicate. That the first
  source of an exchange exists, the `find` of the code, is the well-foundedness
  of `<`. `NoUpdateIsLost` follows from `IsLatest`, `CriticalCountsIn` from what
  a lookup caches.
- `AggregatorProofs`, consensus. The invariant `ConsensusInv` only says where the
  cached result and the answer come from: they were computed, of updates that
  had the key. The rest is about `Computed` of any updates. The provers cannot
  do induction, but finite sets have smallest subsets (`SmallestSubset`, by the
  library's well-founded inclusion), and a claim that fails for none of these
  holds: thus the facts on sums, that sets of points have a first and a last,
  and that half of the weight is reached somewhere (`CrossingExists`). From
  there, each case of the median is between two prices (`MedianBetween`), and no
  more than half of the weight is below it (`HalfTheWeightAbove`). So sources
  with less than half of the weight cannot raise the price above the prices of
  all others; they can lower it below them, since the code interpolates from the
  point before the crossing, whatever its weight: 103 of weight 1000 and 100 of
  weight 400 give 100.9. For the order, `Rearranged` relates a list and the same
  in another order; filters, quartiles, means and sums commute with it, and half
  of the weight is reached at points of the same price and weight
  (`OneHalfway`), though not at the same one if several are alike: then either
  all medians are interpolated from the next lower price, or all are that price
  (`SameMedian`). What is assumed: trust scores, tiers and decays in their
  ranges, prices that are natural numbers.
- `PriceCacheProofs`. `SizeIsBounded` is arithmetic about what an eviction
  leaves, and needs that one takes at least one entry and no more than there
  are (`EvictionAssumption`), and facts on cardinalities of the library.
  `ImplementsPriceBoard` is the refinement: under `Board`, the entries that have
  time left, every step of the cache is one of `PriceBoard` or stutters. What
  makes it hold is that no entry of the current price, and nothing a lookup
  holds, is newer than the aggregate, and that whoever writes a current price
  writes the newest (`LookupStarts` and `PriceFetched` write in the task in which
  they read it).
- `PriceCacheProofs`, validation. After as many regular rounds as are looked back
  on, both references are the market price: the median of the last ten prices,
  which are of three rounds of five reports or more, so that three are mistakes
  at most (`HistoryAgrees`), and the median of the other sources
  (`HonestMajority`), of whom an honest one sees three honest ones in every round
  the faulty one is seen in, but the present one, and the faulty one sees only
  honest ones. So an honest report of a price in the accepted range has no grave error
  but the one that is forgiven, from the mean of the last five prices, which mistakes do move; and
  a report that is 4 % off has two. The inductive part says what is left of the
  regular rounds: `RegularStored`, that the other sources' prices are one of each
  source in a round, all of a round or, once too old, none; `RegularHistory`,
  that each round has put one mistake at most into the history, and enough
  prices; `NoneTooOld`, that prices too old to count are gone as soon as somebody
  has reported. The median is the price at a position of the sorted prices; that
  this is the price most of them share is counting (`MedianOfMost`). Assumed are
  four honest sources or more, a history of ten prices, the minimum of the code,
  and a window of other sources of two rounds, as by default. The fourth is
  needed: of three honest ones, TLC shows, the first to report after the faulty
  one is compared with two mistakes and two market prices, and rejected.
- `FailoverProofs`. A primary that is registered is active or failed in each
  configured group: failing moves it, recovering moves it back, and a failover
  that waits for a subscription looks at the group as it is when it goes on, not
  as it was.
- `FailoverProofs`, lifecycle. `CleanupIsQuiet` follows from `OnRecord`: what is
  armed is on the record of the mixin until it fires or is cleared, so that
  cleanup, which clears all that is on record, leaves nothing armed before it.
- `FailoverProofs`, subscriptions. `Streamed` says of a whole socket that what it
  was asked for and is not tracked is a call's that has yet to track it, and that
  what a call has sent was asked for: two calls that have pairs in common, and
  Kraken's batches with pauses, cannot leave one out.
- `SourceHealthProofs`. Whatever makes a source disconnected starts a loop, and a
  loop ends connecting only by taking the source for connected, right or wrong:
  this keeps `AlwaysRetried`, and `LoopOK`, that a loop that sleeps has a try
  left, keeps the types with it. In recovery, a timer fires before the cooldown
  since the attempt that set it is over (`Pending`), hence before
  `scheduleRecovery` sets another; and what is believed connected is
  (`RecoveryInv`), so that the shares behind "healthy" and "degraded" are of
  sources that are there.
- `ServerProofs`. Start-up: `StageInv` orders the process, the integration and
  what is wired; a source connected before the wiring is taken over by it, one
  connected later is reported to it (`SourceKnown`); the announcement and the
  flag that keeps the other two checks from it are one step, on enough data
  (`HonestCoordinator`).
  `LivenessIsAnswered` is the safety part of `StartsAndStopsEnd`. Requests: the
  number of admitted requests in a window is the cardinality of a set of pairs
  (`Number`), which only grows where the limit was looked at (`Within`).
- `CircuitBreakerProofs`, monitoring. Each alert's age and the time to the next
  cleanup add up to no more than its limit (`Expires`), and what the health check
  holds against the system is one check ahead of the alerts (`KeepsUp`).

What the theorems assume beyond model values that differ and positive limits:
`CooldownAssumption`, that the delays of allowed reconnections are shorter than
the cooldown (5, 10 and 20 s against 30; the environment can override the
interval and the attempts in `environment.constants.ts`, and settings that break
it lose `OneReconnection`); `TickerAssumption`, what tickers are; `PairAssumption`;
`TimeAssumption`, that the length of a tick is positive; and those named in the
modules, with the lines they are from.

Some of what is proved is no property of a run, which are limited to what
says most: the type invariants, `ClosedBelowThreshold`, `StreamsAreTracked`,
`SocketsCountOnce`, `CriticalCountsIn`, `PendingHoldsLock`, `ListeningIsAlive`,
`HalfTheWeightAbove`.

Left to TLC: all liveness, `MovesAreAccepted` among it. What is proved of data of
any size (sums, medians, rearrangements) goes by smallest finite sets and by
counting instead of induction, which is out of the provers' reach.

## 7. Where code and comments disagree

`PROJECT.json` quotes each sentence with its line. The models do what the code
does; most of these are visible in one expression. The first one of failover
takes several steps of several actors, and has a run that finds it. In groups:

- *Circuits*: opened by hand, one lets requests through at once; closing leaves
  an orphaned timer; the health check takes the last success for the last
  request; two circuits of one name count each error of a source twice.
- *Answers*: a round answer gives a feed the price of another after a failed
  lookup; "no data" is answered for feeds that have data; a request all of whose
  feeds failed is never retried; 100 feeds pass where 50 are documented.
- *Prices*: the consensus price is no weighted median; the cache of results is
  blind below a cent; trust scores never change; fresh updates disappear with a
  batch or a late update; warming caches the old price after an invalidation; two
  symbols of an exchange replace each other, and REST asks twice for the first.
- *Validation*: the least acceptable price is one for all feeds, and configured
  feeds (BONK/USD, NOT/USD) trade below it: their honest updates have a grave
  error each, and one faulty source is enough to have them rejected.
- *Connections*: a reconnected exchange is not resubscribed; a connecting socket
  is overwritten; retries of `connect` do not wait; quiet adapters never report a
  loss; after a long silence each new socket is closed as it opens; the pong
  timer of an open socket never fires; Kraken's pairs are tracked whether or not
  they were asked for; several loops connect one adapter; a Coinbase ticker of
  any age is stamped anew; CCXT drops a batch within its cooldown, ends polling
  for ever when nothing is watched, and answers prices of any age.
- *Failover*: a backup whose subscription fails is made active and called a
  success (`failover`); a backup whose subscription was awaited while the primary
  came back stays active beside it; a source that connection recovery gives up at
  its first loss is still healthy for the manager, and stays failed when it
  reconnects.
- *Recovery*: reconnections are refused by the cooldown that the failover
  itself has started; steady sources are reported as unhealthy after ten minutes;
  an old verdict overwrites a newer one.
- *Life of the process*: a wait that cleanup interrupts never ends; a failed
  initialization is never tried again; two initializations may wrap one adapter
  twice; a failed shutdown exits with 0; the server does not listen before all is
  connected.
- *Monitoring*: the rate of success falls with each success; alerts of different
  sources replace each other; events nobody emits are waited for; adapted
  thresholds are stored where nobody reads them; statistics by endpoint grow with
  each voting round.

## 8. What is not modelled

Listed with reasons in `PROJECT.json`. In short:

- *Nobody calls it*: `performHealthCheck` of the base adapter, the data manager's
  `getCurrentPrice`, `subscribeToFeed` and `getDataFreshness` (tests only);
  `implementGracefulDegradation`, `getRecoveryStrategies`, `handleDisconnection` of
  connection recovery, whose circuits never open; the rules of `evaluateMetric`
  with e-mail and webhooks; volumes, which are always empty.
- *The performance monitor* and what it would adjust: its response time is fed
  only by its own mean and stays 0, so that aggregation is never optimised; the
  adaptive intervals of the batches come only from there.
- *It decides nothing*: logging, wording and classes of errors, statistics,
  confidence and consensus scores, memory estimates, Swagger, CORS, formatting.
- *Left out of a module that models the rest*: validation of request bodies;
  concurrent validations of one feed, eviction of cached verdicts and prices that
  are no numbers (`Validation`); a REST answer without a time (`MarketData`);
  alerts of inaccurate prices and of the rate of success (`Monitoring`); liveness
  of waits, which does not hold (`Lifecycle`); sending over a socket that is
  replaced at that moment, for other exchanges than Coinbase
  (`ExchangeConnection`, which `Subscriptions` makes up for).
- *No program logic*: scripts, dashboards, generated lists.
