# Formal model of the Aether trading engine

TLA+ modules, TLC configurations and TLAPS proofs for the concurrent core of
the engine under `src/app/src` and of the indicator service it trades on: how a
published setup becomes one purchase per candle, how the result of each contract
reaches balance and risk exactly once, what a session owes and how it survives a
reconnection, who may run a decision cycle, and how the connection to the broker is
replaced by two tasks that do not know of each other. Paths
below are relative to the repository (`src/` included); `orchestrator/` stands
for `src/app/src/application/services/orchestrator/`.

## The system

One process per account runs an asyncio event loop. Its tasks share plain Python
objects, so everything between two `await`s is atomic and everything across an
`await` is not. Several processes may serve one account; they share a Redis.

| component | state it keeps | operations | interacts with |
|---|---|---|---|
| run loop, cycle entry (`orchestrator_run_loop.py`, `trading_cycle_entry*.py`) | `is_trading` slot, cooldowns, skip counters | enter a cycle, run it, free the slot | execution manager, settlement, post-settlement task |
| execution manager (`execution_manager*.py`, `execution_orders.py`) | cycle id, orders of the cycle | choose orders, claim, place, register, `begin_cluster` | claims, trade handler, risk manager |
| order claims (`indicator_order_claims.py`), purchase quarantine | local set of candles, Redis keys `order_claim`, `order_symbol_claim`, `unknown_purchase` | claim, steal a stale symbol claim, release, quarantine | other engines through Redis |
| recovery claim (`pullback_recovery_claim.py`) | share of the loss reserved by an order, locally and in Redis | claim, bind to the contract, release, expire | stake choice, settlement |
| trade handler (`infrastructure/handlers/trade_handler*.py`) | none of its own | proposal, guards, buy, one retry by parameters | WebSocket manager, broker |
| registration (`execution_contract_registration.py`) | - | put a purchase into `active_contracts`, `active_contract_ids`, `contract_to_symbol` | settlement |
| settlement (`settlement_*.py`, `orchestrator_settlement_queue.py`, `execution_settlement.py`) | settlement lock, settled ids, queue and queued ids, worker and watch tasks | enqueue, settle, late settlement, watch, reconcile, prune orphans | risk manager, state lock, cycle |
| Redis settlement queue (`settlement_queue_ops.py`) | sorted set, local bag of pushed ids, queue lock | push while offline, consume and confirm, delete | settlement, other engines |
| risk manager (`domain/risk/`) | open ids, symbols, cluster results, pending loss, streaks, session profit | begin cluster, register result, finalize, size a stake | settlement, cycle |
| state lock and persistence (`orchestrator_atomic_state.py`, `orchestrator_persistence.py`, stores) | `_state_lock`, JSON and Redis snapshots | lock with timeout, save, restore | settlement, shutdown |
| session bootstrap, watchdog (`ws_bootstrap.py`, `watchdog_service.py`) | age of the last tick, cooldown | close, connect by OTP or public gateway, start streams; reconnect when no tick comes | WebSocket manager, stream handler |
| reconnect release, supervisor, shutdown | task handles, flags | free the slot, drain | everything above |
| WebSocket manager (`infrastructure/api/websocket_manager.py`) | current socket, `is_running`, connection in progress, listener and ping tasks, request futures | connect, close, listen, ping, send | every caller of the broker |
| stream handler, ring buffer (`infrastructure/handlers`) | subscriptions, `is_synchronized`, tick buffer | synchronise, resubscribe, record ticks | WebSocket manager, cycle entry |
| indicator service (`src/indicator/app/src/indicator/`) | last candle observed of each symbol, tables `pullback_signals`, `pullback_registry` | observe a closed candle, publish its verdict, restore after a restart, promote a setup version | the engine, through the database |
| order selection (`indicator_consensus.py`, `indicator_period_*.py`, `mandatory_execution_fallback.py`) | verdicts read for the period | read the verdicts, wait for the promoted symbol's, admit, turn, quote and rank the setups, else make up a mandatory order | indicator service, loss quarantine, trade handler |
| loss quarantine (`settlement_loss_quarantine.py`) | rest of a symbol, losses in a row, armed reversals | rest and arm after a loss, clear after a win | settlement, order selection |
| market writer (`infrastructure/market/timescale_writer.py`) | queue, worker task, closed flag | enqueue rows, write batches, flush, close | settlement, audit, shutdown |
| stores, telemetry, machine learning, analytics | data only | - | - |

What is hard here: five tasks may settle the same contract; a settlement pops
its contract before it waits for a lock; others prune risk tracking without that
lock; a purchase may settle before it is registered; a buy may be executed although
its acknowledgement never came; engines share Redis without a common lock; a
trading slot may be taken from a cycle that still runs; main loop and watchdog close and
open the same connection across their `await`s; the settlement queue is read under a
lock that the settlement it starts may ask for again; a reconnection overwrites the
ledger key by key while settlements go on; every wait between a verdict and its
purchase may outlive the candle; rows of one purchase reach the table from two
writers; a process may die anywhere. `PROJECT.json` lists each hazard at its line.

What makes each part correct:

- settlement: each result reaches balance and risk ledger, once and together;
  none is lost; a cycle that sizes a stake misses no result but one on its way to the
  state lock; every open contract is settled in the end.
- claims: one purchase per candle and account; a reservation stays with its owner,
  is given back when nothing was bought, and is kept when something may have been.
- recovery claim: the same loss is never sized into two orders.
- risk ledger: what was lost is pending until it is won back; a strike meets the target.
- session ledger: a reconnection neither forgets nor repeats a result.
- connection: one task at a time opens one; the one in use is listened to; none is
  left open and forgotten; after a loss the engine gets one again; an answer reaches
  the caller that waits for it.
- cycle slot: one cycle at a time; the slot is never held for ever.
- Redis queue: an item stays until its contract's owner has settled it; another
  engine's item is left alone.
- setup orders: what is bought is the published verdict on the candle closed last; a
  loss turns the side of one later order.
- pilot evidence: a version is judged on the broker's own results of its first contracts.

## Modules

| module | what it is |
|---|---|
| `ContractLedger` | abstract: contracts are bought, settled in one step in balance and ledger, or are still open |
| `Settlement` | one engine's settlement, registration, cycle entry, pruning and snapshot savers |
| `MCSettlement`, `settle_*.cfg` | its instances for TLC |
| `SettlementProofs` | its theorems, with the refinement of `ContractLedger` |
| `OrderClaims` | reservations, quarantine and buy outcomes of several engines on one Redis |
| `MCOrderClaims`, `claims_*.cfg` | its instances for TLC |
| `RecoveryClaim` | the reservation of the loss to recover, locally and in Redis |
| `ClaimsProofs` | theorems of `OrderClaims` and `RecoveryClaim` |
| `RiskLedger` | amounts: stakes, profit, pending losses and the counter of losing clusters |
| `SessionLedger` | the ledger in memory and in Redis, saved under the lock and restored without it |
| `session_restored.cfg` | an instance of `SessionLedger` alone |
| `LedgerProofs` | theorems of `RiskLedger` and `SessionLedger` |
| `PilotEvidence` | the writer of contract rows, the table, the promotion of a setup version |
| `PilotEvidenceProofs` | its theorems |
| `SetupOrders` | from a verdict on a candle to a purchase in the next one |
| `SetupOrdersProofs` | its theorems |
| `Requests` | requests over one connection by number |
| `MCAccount`, `account.cfg` | claims, recovery claim, both ledgers, evidence, setup orders and requests for TLC |
| `MarketStream` | the sockets of one WebSocket manager, main loop and watchdog that replace them, and the subscriptions |
| `MCMarketStream`, `stream_down.cfg` | its instance for the counterexample |
| `ConnectionProofs` | theorems of `MarketStream` and `Requests` |
| `RedisQueue` | the settlement queue in Redis, the tasks that consume it and other engines |
| `queue_deadlock.cfg` | an instance of `RedisQueue` alone |
| `RedisQueueProofs` | its theorems |
| `CycleSlot` | `is_trading`, the three tasks that want it and what frees it |
| `CycleSlotProofs` | its theorems |
| `MCEngine`, `engine.cfg` | connection, Redis queue and cycle slot for TLC |

`MCAccount` and `MCEngine` put several modules side by side: a variable `part` names the
one whose next-state relation applies, so that a behaviour is one of a single
module and the reachable states are the sum of the modules' and not their product. The modules
share no state: what one knows of another is a nondeterministic choice (a refused
reservation, a stake that recovers nothing, a broker that is offline), which allows
everything the other may do. They are combined so that the set of runs stays small
enough to repeat.

In every module an action is the code between two suspension points that another
task can disturb. `PROJECT.json` maps each definition to its lines.

### Settlement

An action runs from one suspension point of the code to the next. A settlement
that meets a free state lock does not suspend between `finalize_contract` and the
outcome (`lock.acquire` and the audit queue return at once), which is
`SettleAtOnce`; when a snapshot saver holds the lock it waits with the contract
popped, `SettleMustWait` and then `Resume`. `Complete` is the final write, the
mark in `_settled_contract_ids` and the release of the settlement lock;
`StateLockTimeout` and `PersistError` are the two ways it raises. `Ignore` is a
settlement the locked section turns away. The worker's queue and its end by an
exception are `Enqueue`, `queued` and `workerUp`; the watch, the reconnect audit,
the orphan cleaner and the Redis consumer are members of `Pollers`, as they differ
only in when they ask. `WatchTurn`, `OrphanCleanerPrune` and the end of a settlement (`ScheduleNextCycle`)
prune risk tracking (`PruneOrphans`); the entry of a cycle does not. `Buy`, `Register`,
`Confirm` and `CycleEnd` are the purchase and its registrations in
`execution_orders.py` and `execution_manager_execute.py`, and `begin_cluster`.

Amounts are left out: `credited` and `booked` count how often a result reached
the balance and the ledger, which is all the properties tell apart.

### OrderClaims

An attempt is one passage of `execute_cluster_orders` for the symbol. It asks for
the quarantine (`Begin`, `Ask`), reserves the candle locally and in Redis
(`Claim`), the symbol (`ClaimSymbol`, `Steal`), checks its signal (`Place`) and
buys. A buy is refused, confirmed, loses its acknowledgement (`LoseAck`, then
`Quarantine`), or is abandoned (`AbandonBuy`: the unwrapped retry, a cancelled
cycle, an error after the purchase). `Release` and `ReleaseSymbol` are
`release_unbought_order_claim`, which runs twice after a refusal, in the branch and
in the finally clause. Time is the candle whose entry window is open; keys of 900 s
and of a candle plus 30 s expire at any moment after it. Attempts of one engine overlap because
the slot that should keep them apart can be given away (`post_settlement_cycle.py:60`).
A crash empties an engine's memory and leaves Redis as it is. Only the Redis store
is modelled. Any of its calls may fail, with the command executed or not: the test and the claims
then refuse the purchase (`Ask`, `ClaimFails`, `SymbolFails`), a release leaves what it had not
deleted (`ReleaseFails`), and a quarantine that was not written is only logged, while the
reservation is released all the same (`QuarantineFails`). `stranded` records the attempts whose
last call failed, `unsaved` those whose quarantine was not written, `forgotten` those of them whose
engine restarted since, which lost the local mark too. `AcksLost`, `BuysAbandoned` and `RedisDown` are
the attempts that may meet one of these faults.

### RecoveryClaim

An order that wants to recover the pending loss first takes
`_pullback_recovery_lock` (`AskShare`, or `RefusedLocally` when the engine has a
claim), sends `SET NX EX` (`SetKey`) and records the claim (`TakeShare`). `NoShare` is a
key of somebody else, an error of Redis or a lost answer, after which the key stays without
a claim until it expires. `LossIsLeft` is the test that gives up when contracts are
open without a claim. `BuyContract`, `BuyNothing` and `BuyUnknown` are the
outcomes of the order; `Bind` moves the claim from the token to the contract and
extends the local expiry to 1800 s, the key's stays at 900 s. `ReleaseOrder` is the finally
clause, `ReleaseContract` the settlement, `EndRelease` the script that deletes the key
if it still holds the token. `Tick` is a fraction `1 / Hold` of 900 s; a restart empties
the engine's memory.

### RiskLedger

Stakes in cents, rates in percent, profit and losses in hundredths of a cent, as the code
rounds to two and to four decimals. `Stake` is `pullback_stake`: base, one strike to
the session's target or the recovery in `Steps` under the cap of 5 %. `Target` is a rate of
the balance the session started with, or a fixed sum when that was below `SmallAccount`. `Order` buys for it, or
for somewhat less when the broker forces a lower stake. `Lose` and `Win` are
`apply_contract_settlement_result` with what they do to pending loss, residual of the
payout (`Residual`, `Adjusted`), dust and the counter `linear`; `EndCluster` is the
end of the cluster, with its last expected or its last open result, and
`BeginCluster` comes after the orders, so that a contract may settle before it. `NewSession`
is a new life of the process with the balance it finds. `forgiven` records what the
code drops on purpose: dust, and residuals above the loss.

### SessionLedger

A total is the set of results it takes account of, so that "the profit has this result and
the pending losses have not" can be said. `Start`, `Book`, `Capture` and `Write` are a settlement
that books under the state lock and saves; `CaptureInLoop` is the main loop's save.
`LoadSnapshot`, `ApplySnapshot` and `ApplyCounter` are
`restore_orchestrator_state` on a reconnection, which takes no lock and reads snapshot, losses and
counter one after the other; `Connect` fetches the balance. One behaviour is one life of the
process: it starts with an empty ledger (the reset of the first setup) and with what earlier
sessions left in Redis.

### MarketStream

`ws`, `isRunning`, `connecting` and `listenTask` are the manager's fields;
`listening` holds the sockets whose `_listen` task is alive, which may be more than
the current one, and `live`, `broken` and `subscribed` are what the broker and the
network know. Main loop and watchdog take the same steps: `Close` runs up to the
await of the old socket's close, `Closed` after it (tasks that wait for the same
socket go on together), `FetchFails` is a REST call that fails before the connection,
`Connect` enters `connect` (or returns at once while the other task is connecting),
`Opened` and `OpenFails` are its end after all its attempts. `Begin`, `SetupFails`,
`StartStreams`, `StreamsStarted`, `SyncFails` and `Retry` are the rest of a round of
the main loop (`setup_trading_session`, with the OTP session first and the public
gateway after it, and `start_orchestrator_streams` with its second attempt);
`Evaluate`, `Resubscribed` and `ResubscribeFails` the rest of the watchdog's.
`Lose`, `ListenEnds`, `PingFails` and `MarkOffline` are the ways in which a connection
ends or is reported down: a listener reports it whichever socket it is of, except
after a closing handshake.

Init is the engine after its startup and first tick. Time is abstract: a tick that is
late, a cooldown that is over, a request that times out may happen whenever the code
allows them. A subscription may reach the broker although the request fails, and an
answer may be a refusal, at which the code does not look. The pullback strategy is
enabled, as shipped; without it the watchdog skips the subscriptions. A listener's first
step follows `connect` with no other task in between: a `close` that ends in that very
turn of the event loop is left out. Requests and
their answers are those of `Requests`.

### RedisQueue

Five tasks consume the queue (`Consume` to `Erase`) under `_settlement_redis_lock`, which is not
reentrant: the worker, the main loop, and, as every cycle does so before it enters
(`trading_cycle_entry.py:143`), the callback of a candle and the attempt after a settlement;
last, the passive reconciliation. `Consumers` says which of them an instance has.
`Confirm` and `Unconfirmed` are the broker's answer about an item; `Settle` and `GoOffline` are
`process_contract_settlement` with the broker online or not, and `PushAgain`, `Remove`,
`Add` and `PushFails` the push, which waits for the same lock. An exception of a settlement
leaves a consumer's item in the queue (`ConfirmFails`), is caught by a reconciliation, and ends the worker
when it comes from the stream's message (`SettleFails`, `working`). `Cancel` is the time-out of the attempt
after a settlement, at any wait of its passage. `RedisFails` and `Cancel` at
the removal of an item leave open whether it was executed (`SentInVain`).
`Take` is the stream's message in the worker's hands, `Reconcile` what the orphan cleaner and the
reconciliations settle without the queue. `Wipe` is the clean-up that deletes the key without the lock;
`PeerPush` and `PeerErase` are other engines. Code outside the queue is `idle`. Only the main loop
reconnects. A contract that a settlement forgot by its lock's time-out is `Settlement`'s subject.

### CycleSlot

`trading` is `is_trading`. Main loop, candle callback and post-settlement task enter
(`Enter` under `EntryAllowed`), decide, buy and end; every end clears the flag whoever
holds it (`Free`), and so do the poll at its deadline (`Poll`) and the
recovery (`Recover`). `post` and `polling` are the task that follows a settlement
and the poll it starts; `Attempt` lifts the cadence for every runner while it
lasts; it ends with what the cycle returned (`EndAttempt`) or is cancelled after 90 s and clears the flag
even if it never held it (`TimeOutAttempt`). Time appears as what it changes: a window opens or closes, the cadence
elapses, a pause ends. `ousted` records the cycles whose flag was cleared before their end.

### Requests

`send` gives each request a number and a callback, which the answer of that
number completes. `TimeOut` removes the callback of the latest request,
as the code does, and not its own: `robbed` records the victims. A ping
that fails closes the connection, whose answers are lost without a word to the callers.

### PilotEvidence

`Purchase`, `Attribute` and the `Settle` actions put a row each into the writer's queue
(`SettleLate` none), with the broker's message, the balance or the profit table as the source of the
result; `Collect`, `BatchWritten` and `BatchFails` are the worker, `Flush`,
`CloseWriter`, `WorkerAwaited` and `FlushRest` the shutdown beside it, `Restarted` and
`Crashed` the loss of everything in memory. `Upserted` is the `ON CONFLICT DO UPDATE` of
`contract_executions`, `Ranked` the view of the first `Sample` contracts of a
version, `Promote` the tick of the indicator service that judges it with the lower bound
of the mean return. Assumed: the rows of a purchase are written before its contract
settles (minutes against fractions of a second); orders come one at a time; a failed
batch leaves the table as it was; a wrong guess from the balance is possible;
ticks and bars in the same queue only restart or fail the worker. A return is +0.8 or -1.

### SetupOrders

`clock` runs through the parts of a candle: the 20 s in which a cycle waits for the verdict, the
rest of the 60 s in which one may buy, the time in which nothing is bought, and the last
5 s, in which `signal_epoch_current` takes two candles for current. `Observe` and
`RestartIndicator` are the indicator service, `rows` its table. A cycle reads
(`StartCycle`, `ReadVerdicts`, `ReadAgain`), selects (`Select`), quotes and ranks
(`Rank`), or asks for a mandatory order symbol by symbol (`AskMandatory`,
`MandatoryQuoted`, `TooPoor`), and tries its candidates (`TakeOrder`, `Refused`, `Buy`,
`BuyUnheard`), each step after any amount of time. `ContractSettles` arms the reversal and the rest of
the symbol after a loss. Left open: which candidates evidence and writer admit, how
the market turns them, how quotes rank them, and when a reservation is refused; any choice is
possible. One cycle runs at a time, which is `CycleSlot`'s matter.

## Runs

| run | instance | shows |
|---|---|---|
| `settle_races` | 2 contracts, 2 pollers and the worker, 2 orders a cycle, savers, the watch may time out | `SettlementInv`, no result twice, none lost, none missed by a cycle but that of a popped contract, each open contract settled in the end |
| `settle_failures` | 2 contracts, 1 poller, lock timeouts, one failing final write | only applied contracts are marked as settled, and the settlement lock is always released |
| `settle_ledger` | 3 contracts, 1 poller, one order a cycle, no savers | booked exactly once; refinement of `ContractLedger` |
| `account` | see the bounds | claims: `ReservationSurvives`, `OneBuyPerCandle`, `NothingLeftReserved`, `LostAckIsGuarded`; recovery: `ShareIsExclusive`, `SettledReleases`, `ReleaseKeepsOthers`; amounts: `LossesAreCarried`, `StrikeMeetsTarget`; ledger: `ResultsSurvive`, `LedgerAgrees`, `BalanceCountsOnce`; evidence: `DecidedOnBrokerResults`, `RowsAreWritten`, `CompletePilotIsJudged`; orders: `BoughtAsPublished`, `OneReversalPerLoss`; requests: `AnswersAreDelivered` |
| `engine` | see the bounds | connection: `SingleFlight`, `CurrentIsHeard`, `NoSocketForgotten`, `StreamReconnects`; queue: `OneItemPerContract`, `NoSettlementLost`, `EnqueuedIsQueued`, `PeersItemsStay`, `QueueSettles`; slot: `SlotIsExclusive`, `NoSlotLeak`, `OneOrderAtATime`, `SlotDecides` |
| `settle_booking_pruned` | as `settle_ledger` with savers | violation: a prune in the popped gap loses the result in the risk ledger |
| `settle_lock_timeout` | savers and lock timeouts | violation: a timed out settlement loses the contract |
| `claims_ack_lost` | 1 candle, no crash | violation: the reservation is given back after an ambiguous buy and another engine buys |
| `claims_buy_abandoned` | 1 candle, no crash | violation: an abandoned buy sets no quarantine |
| `stream_down` | main loop and watchdog, 3 sockets, 1 fault | violation: the engine may end without a connection that it believes to be up |
| `session_restored` | 2 results and 1 of an earlier session, 2 outages | violation: a reconnection brings an earlier session's ledger into the new one |
| `queue_deadlock` | 1 contract and 1 of another engine, 2 drops | violation: a consumer waits for its own lock and nobody reconnects |

`StreamReconnects`, `QueueSettles` and `SlotDecides` are `KeepsReconnecting`,
`SettlementsAreBooked` and `KeepsDeciding` in the behaviours of their part, each under the
fairness of its module (`part = "queue" /\ QueueFairness => ...`), so that TLC checks one
part's fairness at a time. The type
invariants are theorems (below); `settle_races` checks that of `Settlement` within
`SettlementInv`.

Bounds. *Settlement*: two contracts and three sources are what a race needs: two sources on one
contract and a third task beside them; a second contract lets a prune or a cluster's
end touch another's tracking. Three contracts with one order a cycle give three
cycles in a row. `PersistFailures` is one, which can fall on every step. `MaxOrders` is
`max_orders_per_cycle`: the configuration ships 1, and 2 is checked where the property
does not depend on it.

*`account`*: two overlapping attempts of one engine and one of another give both kinds of
race for a candle, two candles every expiry, one crash falls on any step; one attempt
may lose its acknowledgement and meet errors of Redis, another of the same engine may be abandoned, and
the one of the other engine meets what they leave. Three orders of two
engines, with expiries of one and two ticks and one restart. Three contracts in clusters
of up to two, with a second session, give loss after loss, a win after losses, and results
before and after `BeginCluster`; banks of 99.90, with the fixed target of 10.00, and of 100.00, with one of
1.5 %, which a loss or a win and a new session exchange, rates of 70 and 87 % and purchases of up to 7 cents below the stake make every rounding and the cap matter. Two
results of the session and one of the past, one outage. A sample of 2 (200 in the code) of 3
purchases, with batches of at most 2 rows and two faults of any kind (a write that fails, a
shutdown, a crash, a settlement not heard from the broker). Two symbols and two candles, so
that a contract of the first settles in the second. Four requests, one loss.

*`engine`*: `Sockets` is the number of connections the
broker admits at a time: the current one, one being closed and one left behind by the
other task; each is used again when nothing refers to it. `MaxFaults` bounds what
befalls a working connection from outside; what the tasks do to each other and the
failures of their own steps are not bounded, and two faults (nearly four times the states)
give the same results. One contract of the engine and one of another, the worker, the main loop and
the attempt after a settlement as consumers (the other two take the same steps and are not
cancelled), one drop and one restart; a drop between a confirmation and its settlement is excluded
(`DropsWhileConfirming`), as it ends in the deadlock of `queue_deadlock`. Two open
contracts, with the pullback strategy on and off.

`CHECK_DEADLOCK FALSE` in every configuration: contracts, attempts, orders and candles are
finite, and when they are used up the system stops.

Every property is tested by a mutant: an operator beside the original, under a
comment that starts with "Bug:", that changes it as a plausible mistake would.

Fairness. `FairSpec` of `Settlement` (used for `EventuallySettled` and `LockIsReleased`): the cycle goes on, a
settlement goes on once the state lock is free, savers let it go, the broker
closes contracts, and the pollers ask again about a contract in `active_contracts`,
which the orphan cleaner and the watch do on a timer. Strong fairness is used where
a competing task may take the lock in between, as asyncio locks are handed over
first come first served. Nothing is assumed of the stream or the worker.

`MainLoopConnects` of `MarketStream` says that both tasks go on,
that pings are sent and dead sockets end, and that a main loop that keeps trying to connect
succeeds: it retries for ever with a delay of at most 60 s. That its turns between two
reconnections end is assumed too; they await a trading cycle with its own timeouts. `stream_down` assumes
`RetriesSucceed` besides: ticks arrive, and starting the streams, or the watchdog's
reconnection, succeeds when it is tried often enough. Its counterexample stops because
nobody tries any more.

`QueueFairness`: a consumer that can take a step takes one, as Redis and the broker answer or time
out and a free asyncio lock goes to who waits longest; the main loop comes to its reconciliation and to
its reconnection however busy the queue keeps it, and a settlement it begins again and again succeeds
once. Nothing is assumed of the worker, which may be dead, of the stream or of other engines. `SlotFairness`: cycles end (each
await in them has a timeout), contracts settle, candles open and close, barriers are
lifted, the post-settlement task goes on, and the main loop, which looks several times
in each window, enters when it can do so again and again.

## Findings

1. `settle_booking_pruned`: a saver holds the state lock, a settlement waits with its contract
   popped, the watch prunes the orphan, and the risk ledger ignores the result.
2. `settle_lock_timeout`: `STATE_LOCK_TIMEOUT` after the pop; after the next prune nothing can settle
   the contract.
3. `claims_ack_lost`: the reservation is released after a purchase of unknown outcome,
   against `src/docs/engineering-settlement.md:39`. Only an engine that passed the quarantine
   test before it was set can use the gap.
4. `claims_buy_abandoned`: the retry by parameters is not covered by the quarantine,
   against line 41 of the same document. Its "inclusive apos reinicio" fails too when Redis refuses the
   quarantine: the engine that restarts has forgotten its own mark (`LostAckIsGuarded`).
5. `stream_down`: `close` sets `ws` to None after it awaited the old socket's end, whatever `ws` is
   by then. When the main loop has connected meanwhile and the watchdog's own connection fails,
   `is_running` stays True without a socket: the main loop acts only when it is False, pings are
   skipped, the watchdog waits for a synchronised stream. `src/docs/engineering-architecture-senior.md:100`
   promises "Reconexao com backoff + jitter e re-subscribe atomico".
6. `session_restored`: every reconnection restores the snapshot, and only the first setup clears it. A
   connection lost before the session's first save brings in the profit and the losses of
   the session before, against `src/docs/medallion.md:503` ("Nova sessão independente com
   novo saldo e nova meta").
7. `queue_deadlock`: the consumer keeps `_settlement_redis_lock` while it settles an item; when the
   broker goes offline in between, the settlement pushes the contract to the queue and waits for that
   lock. In the main loop this ends every reconnection, against its docstring
   (`orchestrator_run_loop.py:144`).

Observed while modelling; the models do what the code does here, and where a property depends on it,
the property says so:

- Claims: the reservation of a loss lasts 1800 s in the engine and 900 s in Redis, so that another
  engine may take it in between (`sinceSet`); a contract that settles before `Bind`
  leaves its share reserved (`settledUnbound`).
- Balance: a settlement that fetches the balance first and then adds its profit counts it twice
  until the next fetch (`early`).
- Requests: a request that times out removes the callback of the latest one, whose answer is lost
  (`robbed`).
- Orders: without a setup the engine buys a mandatory order, against `src/README.md:30`, with
  the verdict or the last candle of whatever age; it may come before a setup that is
  published later in the window. It takes neither the rest of a symbol nor the minimum rate into
  account, nor the limits of the pilot of `src/README.md:31`. After a purchase
  with an unknown outcome the loop goes on to the next candidate, as the quarantine is per symbol.
- Reversal: it turns the side whatever `invert_signal` says; it is used up when the order is chosen,
  also if nothing is bought; the selection that uses it ignores the rest of the symbol, so
  that the rest never applies to the first selection after a loss.
- Queue: after a clean-up an id of the engine stays remembered, and later pushes of that contract are
  refused (`wiped` in `EnqueuedIsQueued`); it is settled all the same, by reconciliation
  (`QueueSettles`). An exception in the worker's own settlement ends the worker for good.
- Slot: an attempt that times out before it entered clears the slot of another cycle (`TimeOutAttempt`).
- Sizing: a cycle that enters while a saver holds the state lock sizes its order without the result of
  the popped contract (`CycleMissesOnlyPopped`).
- Pilot: one lost batch, late or inferred settlement among the first 200 contracts of a version
  keeps it in the pilot for ever (`Spoiled`).

## Proofs

`SettlementProofs` (any contracts, pollers, orders per cycle):

- `TypeCorrect`: types, and one source at a time in the locked section, whatever fails.
- `Inductive`: `SettlementInv`, for `PersistFailures = 0`. It ties where a contract is
  (unregistered, open, in flight, settled) to how often its result was
  applied; "applied at most once" alone is not inductive, as it does not say that
  an open contract was not applied yet.
- `ResultAppliedAtMostOnce`, `SettledStaysUntracked`, `OpenNeverApplied`, `SettledWasApplied`
  follow; `NothingIsLost` needs `LockTimesOut = FALSE` as well, without which run
  `settle_lock_timeout` refutes it.
- `CycleMissesAtMostThePopped`, under the same two assumptions, with savers and any orders to a cluster:
  by `WithinReach` a closed contract without its result is open, which keeps a cycle out, or in the
  hands of the source that popped it.
- `BookedOnceEach` and `SettlementImplementsLedger` (every step is one of
  `ContractLedger` or none) hold under `OneOrderToACluster`: one order to a cluster and nobody else on
  the state lock, no failing write. `ClusterInv` adds to `SettlementInv` that the
  one order that awaits its result is tracked by the risk ledger, and what the cluster
  expects then. Savers are excluded because run `settle_booking_pruned` refutes it with them.

`ClaimsProofs`, of `OrderClaims` (any engines, attempts, candles, crashes, with lost and abandoned
buys): `ReservationInv` adds to the properties whose each Redis key is, that a counted
purchase of the current candle is that of a confirmed attempt, and what holds the
place of the quarantine between the loss and the write. From it follow
`ReservationSurvivesAlways`, `OneBuyPerCandleAlways`, `NothingLeftReservedAlways` and
`LostAckIsGuardedAlways`. For an attempt whose quarantine failed the invariant keeps the local mark until its
engine restarts (`WarnedInv`).

`ClaimsProofs`, of `RecoveryClaim` (any engines, orders, expiries): `ShareIsExclusive` is not inductive, as it does not
know of an order between `SET` and its claim. `ClaimInv` adds who holds each engine's
lock, that who asks found no claim (`AskersFindNone`), that a claim whose `SET` is younger than the
key's life still has its key (`KeyIsHeld`), and that what is erased was given up. From it
`ShareExclusive`, `SettledAlwaysReleases`, `ReleaseKeepsOthersAlways`.

`LedgerProofs`: for `SessionLedger` `LedgerInv` says of every copy (captured, stored, loaded) which
results it has (`CopiesHave`), that its parts agree unless torn (`CopiesAgree`) and that a
writer with a captured ledger holds the lock (`WritersLock`): `ResultsAlwaysSurvive`,
`LedgerAlwaysAgrees`, `BalanceAlwaysCountsOnce` for any results and outages. For `RiskLedger`
`LossesAlwaysCarried` for any stakes, rates, payouts and bounds, with `StakesAgree`
(an order was paid no more than it asked for) and lemmas on the rounding operators.

`StrikesMeetTheTarget`, also of `RiskLedger`, says what a strike that wins leaves missing on the target: at most the
two points of its stake by which the final quote may be lower, or less than a cent, so that a session that did not stake
more than two and a half targets is won. Its invariant `StrikesAreSized` keeps for every open strike what is
still missing against what its stake returns; the rest is arithmetic with two roundings. Its hypotheses are on
the configuration: `SmallTarget >= 20` and `SmallAccount * TargetRate >= 20000` (in cents and tenths of a percent; 10.00,
100.00 and 1.5 % are shipped) make every target 20 cents or more, below which a cent of rounding is more
than the tolerance of the code.

`ConnectionProofs`, of `MarketStream` (any sockets and faults): `StreamInv` adds to the three safety properties that
`_listen_task` is the listener of the current socket, without which the listener that `Close`
cancels might be the only one of another open socket, and that one task at most is connecting,
without which the first to succeed would clear the other's flag.
From it follow `SingleFlightAlways`, `CurrentIsHeardAlways` and `NoSocketForgottenEver`.

`ConnectionProofs`, of `Requests` (any requests and losses): who waits has its callback or was robbed of it
(`WaitersAreHeard`); `EveryAnswerDelivered` follows.

`CycleSlotProofs` (any `MaxOpen`, attempts that time out anywhere): `SlotIsExclusive` and `NoSlotLeak` come from one fact,
`FlagIsHeld`: the flag is set exactly while some cycle that was not ousted runs, and there is at most
one. `OrdersDoNotAddUp` needs it besides.

`RedisQueueProofs` (any contracts, set of consumers, drops, restarts and peers): `QueueInv` adds who owns the lock, that
what a consumer has in its hands is its own, that what it erases is booked, so that an answer lost on a removal leaves only ids of booked contracts, and
that nothing of the contract is queued when an item is added: `OneItemAlways`, `EnqueuedAlwaysQueued`,
`NothingLost`, `PeersItemsAlwaysStay`.

`SetupOrdersProofs` (any symbols, candles and candidates): `BoughtAsPublished` compares what was bought with the
table as it is now, and a cycle may hold its reading for any time before it buys. `SetupInv` therefore says of
everything on the way from the table to a purchase (the reading, each order, each purchase) that it is of no later
candle than the one closed last, and equal to what the table has for that one (`ReadingStands`, `OrdersStand`,
`BoughtStands`). For `OneReversalPerLoss` it adds that an order that was turned disarmed its symbol
(`Answers`), that only a loss arms one, that a cycle has one order per symbol at most, and that nothing settles
while a cycle has orders (`StagesAgree`). From it `AlwaysBoughtAsPublished` and `OneReversalPerLossAlways`; the lemmas
on sequences (a set put into a sequence, a permutation of a part, the tail) serve selection and ranking.

`PilotEvidenceProofs` (any purchases, samples, batch sizes and faults): a row is followed from the queue to the table.
`RowsAreRecorded` says that the row of each event was accepted by the writer or is known to be `missing`
(and `RowsAreWritten`, which is inductive with it, where an accepted row is); `InOrder`, that in the queue, in the flush and in the worker's batch the attribution of one
purchase comes before the rows of the next, so that whatever part is written, the contracts before one in the table are
complete (`EarlierComplete`); `PurchaseWritten`, that a contract settles after its purchase row left the memory, so that
a broker's result comes after the rows of every earlier contract; `BrokerIsQuoted`, that a result in the table with the broker
as its source is the broker's; `VerdictStands`, that a verdict was reached on contracts bought by then. What a batch
does to the table is a recursive function of its length; the lemma `Counting` (a set of naturals with 0 that is closed under
successors up to `n` contains `n`) gives `BatchByRow` and `BatchKeeps` for batches of any length. From `PilotInv`
follow `RowsAlwaysWritten`, `AlwaysDecidedOnBrokerResults` and `CompletePilotAlwaysJudged`. Of the bound on the mean
return the proof uses only that equal results give equal verdicts.

Each module has its type-correctness theorem. Assumptions: the named ones of the modules and
those a theorem states. Every safety property that a passing run checks is stated by a theorem. Model-checked only:
`EventuallySettled`, `LockIsReleased`, `StreamReconnects`, `QueueSettles` and `SlotDecides` (liveness under
fairness is beyond the prover); what the folds and the counts over the sample compute in `PilotEvidence` (an induction
over data), which the mutants of `account` test. `ImplementsLedger`, which `settle_ledger` checks, is proved as `SettlementImplementsLedger`.

## Plan

Done: settlement with its refinement of an abstract ledger, order claims, recovery claim, both
ledgers, Redis queue, cycle slot, connection and requests, pilot evidence and setup orders, with
the proofs above, of every safety property the passing runs check.

Left, in this order:

1. `OrderClaims` composed with `CycleSlot`, to derive which attempts overlap instead of
   allowing all; an abstract "one purchase per candle" that the composition implements.
2. The ring buffer and the candles: gaps that a resynchronisation does not fill, the first
   bar after a start.
3. What a reconnection resets in a cycle that still runs (`reconnect release`).

## Not modelled

- Scores, gates and thresholds of the selection, `pullback.evaluate`, Kelly and Bayes sizing, machine
  learning, analytics: floating-point functions without shared state. Their results are
  nondeterministic choices. Kelly and Bayes are not used with the pullback strategy.
- Candles and the ring buffer: a resynchronisation does not fill the gap of an outage
  (`history_fetch.py:88`); to be modelled (see the plan).
- The JSON copy of the state: written, never restored. The Redis key of the loss quarantine:
  written, never read (`settlement_loss_quarantine.py:91`). The model registry of the indicator
  service: not used by its loop.
- Proposals and price guards: they only refuse; the REST buy, which cannot buy a setup
  (`require_quote_edge`).
- The store without Redis, which leaves an engine with its local reservations only.
- The stream without the pullback strategy (`stream_reconnect.py:90`).
- HTTP, database schemas, panels, logs, scripts, deployment: input and output.
