# A TLA+ model of bscmeme

`bscmeme` watches new BSC meme tokens (factory and portal events, WebSocket
blocks, GMGN and OKX signals), filters them with several strategies, simulates
or really buys the survivors, and sells what it bought down a take-profit
ladder or at a stop. This project models the parts that keep state over time:

* the **live engine** `BscBalancedLiveEngine`, which turns a decision into an
  order at a provider and keeps its books through lost replies, time-outs, sales
  by other tools and process deaths: how it enters, how it exits, and the
  dashboard that may sell the same position from another process;
* the **evidence** behind one of its sales: a position that nobody trades is
  sold, so the program must know that it has seen the trades there were, over a
  WebSocket that loses some;
* the **survivor engine** the live engine extends: the life of a candidate and
  of a paper position around one token;
* the **market-data side** of that engine: the socket monitor, the gap fill, and
  the workers that find the pool of a token before and after its migration;
* the **classic engine** (`realtime.py`, `engines/`, `strategies/baseline.py`,
  `adapters/bsc_live.py`): Paper, Shadow and Live runs on Solana and BSC.

Paths below are relative to `src/src/meme_system/` unless they start with
another directory. SR stands for `strategies/survivor_reversal.py`, BA for
`adapters/binance_agentic_wallet.py`.

## 1. The system

### 1.1 Processes and threads

* The **owner**: one Python process with an asyncio loop. `evaluate()` runs
  once per tick: drain the queues of events and of worker answers, poll the
  orders, evaluate the open positions, then the candidates. Everything called
  *owner loop* below runs in this thread without interruption between two
  `await`s; feed records take the engine's lock between ticks.
* **Worker pools**: `AsyncLiveExecutionBridge` (BA 765-858) for provider calls,
  `AsyncRoundTripQuoteProvider` (BA 669-763) for quotes, and the pools for venue
  jobs, pool validation, gap chunks and flow scans. Each reads outside the lock
  and leaves its answer in a queue that the owner drains later.
* The **socket monitor** `BscPairWssMonitor` (`adapters/bsc_wss.py`): a thread
  of its own that delivers events in the middle of a tick.
* The **executor** (`adapters/gmgn_openapi.py`, with Bitget, Binance Agentic
  Wallet and direct BSC as alternatives): it writes an order journal in a SQLite
  file of its own, before and after the call, from the worker thread.
* The **provider and the wallet**: outside; orders fill or fail there whenever
  they like, and other tools may move the tokens.
* The **live dashboard** (`live_dashboard.py`): another process on the same
  databases. It can sell an OPEN position and it polls orders.
* The **classic runner** (`run_realtime.py` with `realtime.py`): a main loop,
  on Solana a position scheduler thread beside it, and backfill workers. A lock
  `_db_lock` serialises what both threads do to the ledger, not what they read
  before they take it.
* Around them: Telegram control, the single-instance lock, runtime control and
  health files, read-only dashboards, shadow runners.

### 1.2 Components

| Component | State it keeps | Operations | What is hard | What makes it correct | Modelled |
|---|---|---|---|---|---|
| Live entry path (SR `_try_buy`, `_drain_live_events`, reservations, `_restore_*`) | `_entry_reservations`, `_live_buy_context`, `_live_orders`, `_positions`; rows `entry_reservation:*`, `survivor_positions` | reserve, submit, answer, poll, open, release, restore | order known to the provider only; failed writes; death between two commits | exposure never above `max_open_positions`; nothing at stake is unknown; no second entry | yes |
| Live exit path (SR `_evaluate_positions`, `_submit_live_sell`, `_execute_latched_tp`, `reconcile_open_positions_with_wallet`) | position in memory and in its row, `exit_swap_status`, `exit_intent:*`, `_live_sell_context` | latch, submit, confirm, reconcile, resume | two sources of truth for the quantity (fills, `balanceOf`); claims that outlive the sell | one sell at a time; proceeds real and counted once; ladder in order; a close is final | yes |
| Async live bridge (BA 765-858) | in-flight keys, completion queue | submit, poll | single flight per key across answers not yet polled | no key is run twice at a time | yes |
| GMGN executor and journal (`adapters/gmgn_openapi.py`) | journal rows per `side:token` | claim, bind order, update by status, list reconnectable | errors that hide an order; statuses recorded before the owner sees them | one order per journal row; a row that may hide an order refuses another | yes |
| Live dashboard manual sell (`live_dashboard.py`) | the position's row, its own order contexts | claim, sell, poll, apply | two processes claim and book on one row | one sell at a time; a fill is booked once | yes |
| Bitget executor, journal, nonce manager (`adapters/bitget_wallet.py`) | journal, transactions, reserved nonces | claim, reserve, sign, submit, poll | two transactions in a claim; errors that hide an order; nonce of a refused submit | one order per row; a nonce is used once | the sell of one token |
| Runtime store (`storage/runtime_store.py`) | `runtime_state` | set, get, delete; each commits at once | no transaction spans two writes | the order of the commits is what a restart sees | reservations, intents, cursors |
| Flow reconciliation (SR 3396-3600, 3860-4205, 4484-4602, 6510-6580) | `_flow_reconciliation_state` and rows `flow_reconciliation:*`, `_pending_events`, `_pending_gap_events`, three event-key sets, `_wss_trade_markers`, `last_trade_at` | receive a socket event, drain a queue, schedule and run a job, drain its result, degrade on disconnect, restore, give the no-trade verdict | missed, late and recovered events; skipped blocks; flags restored after a down time; bounded deques | a no-trade sale only over a window whose every trade was found; a received trade keeps the position | yes |
| Survivor candidate lifecycle (SR) | the candidate in memory, its row as written and as committed | merge a record, price, reject, arm, expire, prune, hydrate | rows written in one handler and committed in another; a price beyond the ceiling; a prune beside an open position | entered at most as often as the profile allows; an open position keeps its candidate | yes |
| Position mark, hard stop, paper settlement (SR) | position, exit intent, take-profit latch | mark, latch, sell in part, close, resume | two commits per sale; quotes that come ticks later | each stage sold once and in order; a committed exit is the next sale, and the rows implement `TradeBook` | the Paper engine's; not the live confirmation quote |
| Asynchronous quote provider (BA 669-763) | in-flight keys, ready answers | request, complete, consume | answers after the question lost its point | an answer is consumed once | yes |
| Venue resolution, audit prefetch (SR) | venue markers of the candidate, jobs and generations, pool descriptor | schedule, answer, attach, recover, discard | answers after the token migrated or the candidate was reset | no older answer detaches an attached pool | without the prefetch and the Four.meme curve |
| Factory and portal gap fill (SR 3677-3824) | block cursors, target, chunks in flight | require, read a chunk, advance, start up | a chunk fails, the socket breaks again, the process dies; live events move the same cursor | a pool in a range set out for is found, unless a live event passes it | yes |
| WebSocket monitor, pool resolver (`adapters/bsc_wss.py`) | desired and asked addresses, status | set descriptors, dial, acknowledge, drop, wake | changes made during a dial | - | the monitor |
| Baseline strategy (`strategies/baseline.py`) | none | entry verdict, exit reason | order of the rules | the ladder's rules fire in order | yes |
| Simulation ledger (`engines/ledger.py`) | positions, execution rows, exit snapshots, loss counter | open, transition, partial, close, snapshot, recover | every statement commits on its own | units sold add up; a closed row is final | yes |
| Deterministic simulation (`engines/simulation.py`) | live attempts, follow-ups | entry, the exits of Paper, Shadow and Live | a death between any two commits of a handler | no handler fails half-way; slots, lifecycles and the loss pause survive a restart | yes |
| Direct BSC executor (`adapters/bsc_live.py`) | none but the wallet's nonce | approve, swap, wait for the receipt | a transaction mined after the call gave up | one swap of each position and side is mined | yes |
| Realtime coordinator (`realtime.py`), runners | observation windows, queued quotes, backfill workers, both threads | discover, enter, quote, exit, backfill | positions and quotes read outside the lock; a thread that dies | no second lifecycle; deadlines hold; snapshots settle | without the BSC pool registry and feature adapters |
| Runtime control, health, single-instance lock (`runtime_ops.py`) | lock file, control file, health file | acquire, recover stale, release, pause, read | read then rename by two starters; stale copies in memory | one owner at a time; a pause is not lost | the pause |
| Exit holder and market persistence | exit snapshots in rows and stored events | refill at start-up | - | - | the refill |
| Binance Agentic Wallet executor, universal router, BSC quote provider, Telegram control, Solana survivor and its shadow runner, ledger queries and dashboards, Web3 client, Solana adapters, holder monitor, OKX source, configuration, analytics, scripts | caches or nothing | I/O, choices among quotes, presentation | - | - | no, see section 5 |

`PROJECT.json` lists all of them with their sources and their status, and under
`hazards` the places where this code can go wrong in a way a test would hardly
reach; each has the properties that cover it or the reason why none does.

### 1.3 How the modelled components interact

    feed, socket --> candidate --> _try_buy                    venue jobs, gap fill
                        ^            |                              |
                        +--- pool descriptor, marks <---------------+
                                     |
                     Paper: quote, INSERT          Live: reserve, submit
                                                            |
                            bridge --> worker --> provider --> worker --> journal
                                                                |
                                                                +--> queue --> owner
                                                                                 |
         dashboard --> survivor_positions, runtime_state <-----------------------+
                                     ^
                flow reconciliation: the no-trade verdict on a position

A restart has only the databases. It rebuilds reservations from
`runtime_state`, order contexts from journal rows with an order id that are not
final, positions from `survivor_positions`, candidates from their rows, and the
exit intent, block cursors and flow states from `runtime_state`. The classic
engine rebuilds everything from its ledger (`recover()`). Everything that can go
wrong lies in the gaps between these commits, and in answers that come when the
question no longer stands.

## 2. The modules

| Module | Models | Uses |
|---|---|---|
| `GmgnJournal` | rows of the executor's journal and the rules that read them | - |
| `LiveEntry` | the BUY path: owner, bridge, worker, provider, wallet, restart | `GmgnJournal` |
| `ExposureLimit` | abstract: a set of pledged tokens, never more than the limit | - |
| `LiveEntryInvariant` | `IInv`, the inductive invariant, and the refinement mapping | `LiveEntry`, `ExposureLimit` |
| `LiveExit` | the SELL path of one position | `GmgnJournal` |
| `BitgetExecutor` | the sell of one token for several processes: journal, nonces, chain | - |
| `LiveDashboard` | dashboard and engine on one row and one journal | `BitgetExecutor` |
| `FlowReconciliation` | one source with one position: chain, socket, event queues, reconciliation job, no-trade verdict, restart; `FlowIInv` | - |
| `SurvivorCandidate` | one candidate: functions from record to record | - |
| `SurvivorPosition` | one paper position: marks, rules, sales | `SurvivorCandidate` |
| `SurvivorReversal` | the paper engine around one token: `evaluate()`, quotes, pause, clock, restart | `SurvivorPosition`, `TradeBook` |
| `TradeBook` | abstract: one trade at a time, sold down a ladder, closed by one last sale, then forgotten | - |
| `PairMonitor` | the socket thread and its subscriptions | - |
| `FactoryGap` | the chain's pool creations, cursors, gap chunks | `PairMonitor` |
| `VenueCandidate` | what is known of a candidate's venue | - |
| `VenueResolution` | owner loop, venue jobs, pool validation and recovery, restart | `FactoryGap`, `VenueCandidate` |
| `BaselineStrategy` | entry verdict and exit rules over marks | - |
| `SimulationConstants`, `SimulationLedger` | the ledger's rows and its memory | `BaselineStrategy` |
| `BscLiveExecutor` | buy, approve and sell of one wallet: signing, two nodes, mempool, blocks | `SimulationConstants` |
| `DeterministicSimulation` | the handlers as series of operations | `SimulationLedger`, `BscLiveExecutor` |
| `RealtimeCoordinator` | two threads, quotes, backfill workers, restart | `DeterministicSimulation`, `PositionLifecycle` |
| `PositionLifecycle` | abstract: a token is traded once, within the limit, halved at most twice, through phases that never turn back | - |
| `LiveEntryProofs`, `LiveExitProofs`, `FlowReconciliationProofs`, `SurvivorProofs`, `PaperProofs`, `VenueProofs`, `DashboardProofs` | the theorems | the module they are about, TLAPS |
| `SumFacts` | lemmas about smallest members and about sums over finite sets, as `MapThenSumSet` and `SumFunction` compute them; `LiveExitProofs`, `PaperProofs` and `VenueProofs` use it | TLAPS |
| `MCLiveEntry`, `MCLiveExit`, `MCSurvivor`, `MCVenue`, `MCPaper` | instances for TLC | the module they instantiate |

Beside some definitions stands one that no action uses, with a longer name
(`LifecycleChecksOpenOnly` beside `LifecycleChecks`, `RecoverLossesForgotten`
beside `RecoverLosses`): a mistake that code could plausibly have. Put in the
place of its neighbour it makes TLC report the property named with it under
`mutants` in `PROJECT.json`; each property of a passing run has one.

### 2.1 `GmgnJournal`

A row is a state and an order id, keyed by side and token (`buy:<token>`,
`sell:<token>`). `Claimable` is the test under which a new submit takes the row
over, `Reconnectable` the rows of `pending()` that `_restore_executor_orders`
does not skip, `UpdatedByOrder` what a status answer writes. Two facts about the
code carry most of what follows: a row in an active state (`CREATING`,
`SUBMIT_UNKNOWN`, `SUBMITTED`, `PENDING`) refuses every further submit, and a
status answer is recorded by the worker *before* the owner hears of it.

### 2.2 `LiveEntry`

| Variable | Code |
|---|---|
| `dbRes`, `res` | `entry_reservation:<mint>` in `runtime_state`; `_entry_reservations` |
| `open` | OPEN rows of `survivor_positions`, equal to `_positions` |
| `journal` | the executor's rows |
| `buyCtx`, `orders`, `balWait` | `_live_buy_context`; ids in `_live_orders`; aliases `balance:<id>` |
| `buy`, `calls`, `done`, `batch` | the bridge: the BUY call of a token by phase, query calls, the completion queue, the answers of one drain |
| `tok`, `fate`, `held` | orders at the provider and the wallet |
| `restarts` | process deaths so far, bounded by `MaxRestarts` |

One action per handler: `Poll` (drain the queue), `TryBuy` (with its forced
wallet reconciliation and the two writes of the reservation), the handlers of
the BUY, `order_status` and `balance` answers, `PollOrder`, the worker's steps
(claim the journal row, place the order, return, answer a query, lose one), the
provider's steps, and `Restart`, with variants for a death in the middle of a
handler, between two commits. A write that may fail is a choice between the old
and the new row, as `_set_entry_reservation_status` and
`_release_entry_reservation` log and go on.

### 2.3 `LiveExit`

One position of `Quantity` indivisible units. The owner's part of the state is
one record, and each operation of the owner is a function from such a record to
the set of records it may leave (`Submitted`, `ExecuteLatched`, `Reconciled`,
`Booked`, `Settled`, `Evaluations`), so that an action is the handler's whole
body with every call it makes. `pos` is the position in memory, `row` its row:
they differ exactly where the code changes one before the other.
`TokensLeave` is a sale with some other tool; `Restart`, `RestartBeforeClear`
and `RestartBeforePersist` are deaths at the commit boundaries that matter.

### 2.4 `BitgetExecutor` and `LiveDashboard`

| Variable | Code |
|---|---|
| `journal`, `signed` | rows of `execution_orders` (one token) and `execution_transactions` |
| `reserved`, `call` | per process: `_reserved` of its nonce manager, the `_swap` it runs |
| `fate`, `nonce`, `amount`, `chainNonce`, `held` | orders at the provider, the chain, the wallet |
| `row`, `manual`, `intent` | the row in `survivor_positions`; `live_exit_intent`; `exit_intent` |
| `pos`, `ctx`, `tracked`, `answer`, `engine` | the engine's memory and where `_submit_live_sell` is |
| `request`, `poll` | the dashboard's HTTP thread and its poll thread |

Each process reads and writes in separate transactions, so every read, every
write and every provider call is an action. `LookUp` and `Claim` are the two
transactions of `claim()`; `Decide`, `Arm` and `ClaimRow` the three of
`_submit_live_sell`. `Submit` takes an error that is not a time-out for a refusal, as
the code does; whether the order may then be at the provider all the same is the
constant `ErrorMayHideOrder`. The engine's ladder is in `LiveExit`: here it sells all
or half whenever its guard lets it.

### 2.5 `FlowReconciliation`

| Variable | Code |
|---|---|
| `kind` | whether the source has a pool address of its own or is the Flap Portal, whose address all tokens share |
| `now`, `trades`, `air` | the chain: time, blocks with a trade, trades the socket may still deliver |
| `wss`, `sub` | `_wss_provider_state`; the candidate's `wss_subscription_status` |
| `pend`, `gap` | `_pending_events`, `_pending_gap_events`, deques with a `maxlen` |
| `wssKeys`, `recKeys`, `applied` | `_wss_flow_event_key_set`, `_reconciled_flow_event_key_set`, `_processed_flow_event_key_set` |
| `marker` | `_wss_trade_markers[address]` |
| `last`, `saved` | `last_trade_at` in memory and in the committed row |
| `flow`, `row` | `_flow_reconciliation_state[source]` and its row |
| `job`, `schedAt` | the submitted job up to its drained result; `_flow_reconciliation_last_schedule_at` |
| `phase` | how far the tick is; `closed` once the rule sold |
| `counted`, `gone` | history: trades a commit made durable; events a full deque dropped or a death took along |
| `breaks` | disconnects and deaths so far |

`Mine` is a unit of time and the block mined in it. `Deliver` is the socket's
thread, which may run in the middle of a tick. `WssUp` and `WssDown` take the
engine's lock and so run between ticks. A tick is `DrainPending`* `EndPending`
`DrainResult` `DrainGap`* `FinishTick`; the last one contains the verdict of
`_evaluate_positions`, the next schedule and the commit of `_publish`.
`JobBegin` and `JobHead` are the worker: it reads the clock, then the head, then
the range. `Restart` finds the position's row and the source's row and nothing
else.

### 2.6 `SurvivorCandidate`, `SurvivorPosition`, `SurvivorReversal`

| Variable | Code |
|---|---|
| `cand`, `tx`, `candRow` | the candidate in memory, its row as written, its row as committed |
| `wired` | a descriptor is attached and its pool subscribed |
| `pos`, `posId`, `rows` | the OPEN position in memory; `survivor_positions` |
| `intentRow` | `exit_intent:<id>` in `runtime_state` |
| `buyQ`, `sellQ` | the quote provider's answers by key |
| `paused` | `paper_new_entries_paused` |
| `pc` | where the owner loop is |

A candidate is a record and each function of the engine an operator from record
to record (`OnRecord`, `UpdatePrice`, `DiscoveryState`, `EvaluateCandidate`...);
a position is one too, with the sequence of the sales booked for it. `evaluate()`
is cut where the database commits or the provider is asked: `BeginEvaluate`
(drain one event), `EvaluateOpenPosition` (all exit rules in the order the code
tries them), `ClearExitIntent` (the second commit of a partial sale) or
`PersistClosed` (that of a closing one), `EvaluateCandidates`, `Finish` (prune
and commit). `Die` may happen at any cut; `Restart` has the three rows. One
scenario per behaviour says what feed, venue, clock and operator may do; its records
lie in `Records`, what a source can report of a token.

`ImplementsTradeBook` reads `survivor_positions` as a `TradeBook`: of each row its
status and the reasons it was sold for (`Trades`). The commit of an entry is `Open`,
that of a sale `Sell`, the prune `Forget`, and everything else a stutter; the two
commits of a partial sale, deaths, quotes and intents are invisible there.

### 2.7 `PairMonitor`, `FactoryGap`, `VenueCandidate`, `VenueResolution`

| Variable | Code |
|---|---|
| `desired`, `changed`, `asked`, `link`, `wss` | descriptors, `_pool_changed`, what the socket subscribed to, its thread, the status |
| `head`, `created`, `home` | the chain: blocks, pool creations, the token's migration |
| `cursor`, `required`, `target`, `seenHealthy` | `_factory_cursor` and its rows, `_factory_gap_required`, `_factory_gap_target`, `_factory_wss_seen_healthy` |
| `gapJobs`, `gapWork`, `gapResults`, `events`, `gapEvents` | gap chunks and the event queues |
| `v`, `row` | venue facts of the candidate in memory and as committed; the pool descriptor is in memory only |
| `venueGen`, `venueJob`, `priority`, `venueWork`, `venueResults` | venue jobs, their generations and priority copies |
| `poolJobs`, `poolWork`, `recovering`, `recoveryWork`, `factoryResults`, `migrations` | factory validation and migrated-pool recovery |

The owner loop drains its queues in the order of `evaluate()`, one action per
queue; of the gap results it drains one, and then hands out at most one chunk more
(`DrainGapResults`, `ScheduleGapChunk`); the start-up is three actions, with a gap fill that reads in the owner's
thread. Workers answer in any order, late, or not at all when the process dies.

### 2.8 `SimulationLedger`, `DeterministicSimulation`, `BscLiveExecutor`, `RealtimeCoordinator`

| Variable | Code |
|---|---|
| `mintOf`, `candidates`, `rows`, `entries`, `attempts`, `sales`, `outcomes`, `lastMark` | the ledger's tables |
| `saved`, `snapshot` | exit snapshots in the rows and in memory, where they may differ |
| `largeLosses`, `liveAttempted`, `followups` | memory only |
| `op` | the handler in progress under `_db_lock` |
| `signed`, `mempool`, `mined`, `calls` | the executor's transaction, what nodes took, what is in blocks |
| `thread`, `quotes`, `pending`, `excluded` | what each thread holds, `_position_quotes`, observation windows, mints excluded at start-up |
| `workers`, `finished` | backfill workers and their `_completed` keys |

Every operation of the ledger commits on its own, so a handler is a series of
operations: `Order` lists eleven of them (entries, partial take profit, exits of
each mode), `HandlerStep` runs the next one, and `Restart` may come between any
two. What a handler decides it decides on the position it was *handed*; what it
writes it writes to the ledger's. On Solana two threads read a position and
fetch a quote before they take the lock.

`ImplementsLifecycle` reads the rows as a `PositionLifecycle`: of each row its status,
its stage and the units left (`Lives`). The four operations that write a row's status
or units are the four actions of the abstract module, each checking there on its own
what the handler decided operations before; all others are stutters.

### 2.9 Abstractions

Live engine:

* Prices, gas, slippage and scores are left out. A decision that depends on a
  market quote is a choice: which stages the mark has reached, whether a stop
  or the no-trade rule fires.
* One unit sold brings one unit of proceeds, or none when the report cannot be
  read (the code then books nothing). "Counted once" is about that unit.
* The fractions 0.50 and 0.30 of a partial exit are a half and a third in whole
  units; a partial exit of none is submitted and refused by the executor.
* Time is a choice: a poll that is throttled (2 s for orders, 5 s for balances)
  is due or not.
* The hard stop, the trailing and time exits all end in `_close_all` with some
  reason; they are one reason, `STOP`.
* `LiveExit` has a FIFO completion queue, which is the code's. `LiveEntry` lets
  the answers of one drain be handled in any order, a superset.
* `WAITING_CONFIRMATION` (an order that waits for a tap in a phone app) is in
  the sets of states, but GMGN, the executor modelled here, never produces it.
* In `LiveEntry` positions close when their tokens have left the wallet; how
  they leave is `LiveExit`'s subject.
* `ErrorMayHideOrder` says whether the executor's CLI may report a failure for
  an order the provider did accept. `entry` and the theorems allow it, since
  what they show survives it. The exit runs do not.

Flow reconciliation:

* A unit of time, a block and at most one trade per block are the same grid.
  Ticks are short against it: time stands still inside one. The worker's steps
  are taken between ticks, with which they commute.
* Of the lengths of window the code keeps, the model has the one
  `_no_trade_reconciliation_window_key` picks for the rule, and ties `HEALTHY` to
  it. The code gives `HEALTHY` from its 30 s window on, but the verdict asks for
  both, so it is the longer one that decides.
* A chunk of a range that cannot be read at the smallest size fails the whole
  result, as in the code; how a chunk is split is left out.
* The behaviour ends with the first verdict that sells, whole or half.
* Four.meme's one token manager, whose trades renew the marker of every token of
  that source, is not a `kind`: the rule only sells later there.
* Counters, the resubscribe request and the texts shown for a candidate are left
  out. They decide nothing here.

Dashboard and Bitget executor:

* One token, one transaction per order; approvals, calldata and preflight are
  left out. A buy takes the same path under another key.
* `ErrorMayHideOrder` of `BitgetExecutor` says whether an error of `submit_order`
  other than a time-out or a broken connection may come with an order the provider
  took. The code can meet that: an HTTP 5xx, an unreadable reply and `80015` (order
  already submitted) are not ambiguous to `post` (`adapters/bitget_wallet.py` 179-201)
  and journal `FAILED` (712-714). The run has it `FALSE`, so that what it finds is the
  race; the theorems hold for both values.

Survivor engine:

* Prices are small numbers in one unit; USD and BNB prices of one event are the
  same number, and every entry is quoted at `EntryPrice`. The percentages of the
  rules are computed on them.
* The clock's comparisons are flags that time flips (`idle`, `stable`, `inAge`,
  `recent`, `today`); what the flow says of a position is an observation.
* The numeric gates of a record are classes of records.

Venue side:

* One candidate, which is not on a Four.meme curve. The states `NO_POOL_ADDRESS`,
  `UNAVAILABLE` and `STOPPED`, the gap cursor of the Flap Portal, the revalidation
  of quote pools (SR 5450-5524), the pruning of candidates and the limit of two
  results per drain are left out.
* What a worker reads on the chain is its answer: a pool, none, or a failure.

Classic engine:

* A market price is a mark, the interval of the unit return between the
  thresholds of the configurations; an age is below, at or above the limits.
* A token's decimals are left out; a position has `Quantity` units that two
  halvings divide.
* The numeric entry checks are one verdict, the quotes' checks another.
* Transactions and holdings are kept per position. `balanceOf` (`adapters/bsc_live.py:327`)
  is a token's: with two positions of one token it would let a sale of the one spend
  what the other bought.

## 3. What is checked

Every run uses `Spec` of its module, or `FairSpec` where it checks liveness.
`CHECK_DEADLOCK FALSE` is set, except in `venue`, because a bounded behaviour may
really stop: order ids, records and restarts are used up, every position is
closed. The owner loop of `venue` always has a next step, and deadlock is checked.

### 3.1 Runs that pass

| Run | Bounds | Shows |
|---|---|---|
| `entry` | 2 tokens, 2 orders, 1 slot, 1 death | two tokens compete for one slot: `CapacityRespected`, `NothingUnaccounted`, `OneOrderPerToken`, `NoSecondEntry`, the inductive `IInv` (`TypeOK` among its parts), that the path implements `ExposureLimit`, and `TrackedOrderSettles`: each order whose id the owner learned becomes a position or fails |
| `exit` | 2 orders, 4 units, 1 death | the row shows each sell under way (`ClaimCoversOrder`), proceeds are real (`RealizedIsReal`), stages are paid for and in order (`LadderPaid`, `LadderInOrder`), a close is final |
| `exit_live` | 2 orders, 2 units, no death, status column unreliable | `OneSellOrder` from the journal alone, every followed sell settles, the no-trade half is sold once |
| `flow` | rule and window of 3 units, 4 units of time, 2 trades, deques of 1, one disconnect or death | `VerdictCovered`: no sale over a trade nobody found; `ReceivedTradeKeepsPool`; the inductive `FlowIInv` (`TypeOK` among its parts) |
| `paper` | 2 signals, one of them on Solana, 2 mints, 4 units, marks crash, down, tp2, limits of 1, 1 death | slots, one lifecycle per mint, booked ladder, no handler that fails half-way, owned snapshots, one mined swap per side, wallet behind the ledger, the loss pause, final closes, and that the rows implement `PositionLifecycle` |
| `paper_live` | 1 signal, marks down and tp2, 1 death | `DeadlineHolds` and `SnapshotSettles` |
| `survivor` | 2 positions, 6 prices, four scenarios, each with 1 death | each stage sold once and in order, the candidate of an open position is kept, entries by the rules, a committed exit is the next sale |
| `venue` | chunk of 1, 3 blocks, 2 factories, five scenarios (migration, the same with a restart, a candidate that is left, an outage, a restart) | `MigratedPoolKept`; `NoPoolSkipped`: no gap result sets a cursor past a pool it has not found; `GapReached`: a pool in a range set out on reaches the owner, unless a live event of its factory moves the cursor past it first |

Why the bounds are enough. One slot and two tokens give the competition for the
last slot (more tokens add only more losers), and a second order with one death
gives the recovery of one while the other is under way. Four units make a half
(2), a third (1) and a remainder differ, and leave something for TP3; two orders
are the least with which an old answer can meet a new sell. In `flow` the rule
can first sell at time 3 and again at 4, after a disconnect or death and a failed
or skipped range; a deque of one overflows with the second trade; `MaxLag` 0 makes
every range that is more than one behind skip blocks. In `paper` two signals may
name one mint or two, so both the slot and the token are contended, four units are
halved twice, and the one Solana signal is held by both threads at once; the limits
of one are reached by the first position, and the one live entry by it as well. In
`survivor` the prices lie on both sides of each threshold from an entry at 10 (stop,
break-even, the three stages, the retraces, floor and ceiling); a second position
needs the first one sold and its cooldown or its day over. In `venue` three blocks
leave, after a cursor at the first, a range of two chunks, so that a failure or a
death falls between them. The theorems of section 4 hold for all bounds.

### 3.2 Runs that fail, and what they say about the code

Each checks one statement of a comment or document.

| Run | Statement | What the code does |
|---|---|---|
| `entry_adopt` | the journal restores orders that await reconciliation after a restart (`src/PROJECT_STATE.md:26`) | the worker records `CONFIRMED`, the process dies before the position's INSERT, and the restart skips final rows: the fill is never adopted. Its reservation stays, so exposure is still bounded |
| `exit_leftover` | a balance that shrank counts as an external exit only without a pending sell of our own (`src/ARCHITECTURE.md:50`) | a partial reconciliation during the position's own sell is subtracted again when the sell confirms |
| `exit_retry` | a failed take-profit is retried (SR 8291) | after a failure reported by `order_status` the sell context stays, and no retry passes it |
| `dashboard` | the claim in SQLite keeps a dashboard click out (SR 8320) | the row is read, the intent committed and only then the row written, without a condition; the journal's `claim()` reads and inserts in two transactions too: two sells of one position are under way together |

### 3.3 Other behaviour met while modelling

The modules contain the following unless it says otherwise; no run states it as a
property, mostly because no document promises otherwise.

Live exit. A row stays claimed for ever by a sell that filled while the process
was down. A reservation outlives its position after a failed release, so the
token counts twice. A failed write of the sell claim is logged and ignored, so
that a dashboard could sell too. A death between the commit of a partial fill and
the clearing of its intent lets the no-trade half be sold again. A TP3 crossing is
forgotten by a restart when nothing was submitted for it. `_live_buy_context` is
keyed by mint but popped under `buy:<mint>` (SR 8084). A failed SELECT of the
reservations at start-up counts as none; `ReservationReadMayFail` is `FALSE` in
every run and an assumption of the entry theorems.

Dashboard and Bitget. An order that an HTTP 5xx, an unreadable reply or `80015` hides
is journaled `FAILED`, which is not among the `ACTIVE` states: `claim()` lets the next
sell through, and two orders of one position wait at the provider without any race
(with `ErrorMayHideOrder = TRUE` TLC finds it). `_apply_finished` adds the proceeds of an order the engine
has booked already, and writes `OPEN` unless the noted percentage is 100, so it
reopens a row the engine closed; the notes `BALANCE_SYNC_PENDING` and
`SWAP_UNKNOWN` lose that percentage, so a full sale can end `OPEN` with nothing
left. Manual sells in `SWAP_UNKNOWN` are polled by nobody. A dashboard that dies in
a request leaves `MANUAL_SUBMITTING`. The nonce of a refused submission is not
released, and its row in `execution_transactions` is unique and never deleted: a
later swap with that nonce fails, after a restart with an uncaught
`IntegrityError` that leaves the journal row `SIGNED`, which refuses every retry.
With a GMGN deployment the dashboard asks Bitget about GMGN's order ids (not in the
model) and marks the row `SWAP_UNKNOWN`.

Flow. The cursor of a range is committed when its result is drained while the
recovered events wait in memory, so a death loses them and nobody reads that range
again (`gone` holds them; `VerdictCovered` counts them as found). The room the
window needs over the rule is in `FlowAssumption`: the defaults (a rule of 120 s, a
window of 180 s) have it, but a rule of 40 s gets a window of 40 s, which starts
before the first `eth_blockNumber` is answered, so a call of several seconds leaves
trades at the start unread; and a rule above 180 s gets the window of 180 s, which
does not cover it although the docstring at SR 4219 says so. A Portal trade that the
reconciliation recovers after a later one sets `last_trade_at` back (SR 5240), and
the next clean scan sells a position that has just traded; `ReceivedTradeKeepsPool`
is therefore about sources with a pool of their own. Migration logs
(`flap_launched_to_dex`) are never among the socket's keys, so each counts as a
silent miss and degrades its source. A window with unverified flow suspends hard
stop and take profits (SR 6542-6548).

Survivor engine. Eligibility is not computed again after a socket price, so a
candidate above the price ceiling can be bought (SR 5312-5415, 5671, 5952; compare
the comment at SR 2998). A lower low may come after `STOP_CONFIRMED`. The intents of
`TP1_BREAK_EVEN` and `TP1_HIGH_RETRACE_35_PERCENT` are not committed to, as their
names begin with `TP` (SR 6493). After a restart the intent of a half sale sells the
whole rest. A ready quote is consumed by a much later request (BA 715).

Market data. `_pool_changed.clear()` at `adapters/bsc_wss.py:1385` clears a change
made while the socket was being opened: that pool is never asked for, although the
status is `HEALTHY` and the candidate shows `SUBSCRIBED`; a requested resubscribe is
lost the same way. Reconnects for a wake-up and short outages set no
`_factory_gap_required`, so the factory events in between are lost; a live event
after an outage moves the cursor past the hole (SR 5423-5426), whose pools nobody reads
any more unless a chunk's result was under way, which sets the cursor back.
`GapReached` names this exception (`Overtaken`), and `NoPoolSkipped` is about answers
only. The cursor is durable while the events found wait in memory, so that a death
loses pools that `GapReached` counts as handed over. A late `no_pool` or
failed recovery resets `pool_status` of an attached pool, a stale record overwrites
the state of a migrated token, and a discarded duplicate result removes the token's
current job. `ensure_migrated_market_data` is called for records, portal events and
at start-up only, although SR 5592 says that the evaluator requeues it.

Classic engine. A price event for a position that was closed meanwhile raises a
`KeyError` that ends the scheduler's thread (`src/run_realtime.py:886`);
`DeadlineHolds` holds through the main loop. A whole exit settled with a quote that was
asked before the other thread sold half books the quoted quantity in its exit row
(`engines/simulation.py` 574-617), so that half counts twice; the model does the same,
and `LadderBooked`, which leaves out positions with an exit row, does not deny it. A live buy that raises
leaves no lifecycle row: when it is mined later, a second signal of the token in the
same process can buy it again (two positions in the model, so `OneSwapMined`, which is
about each position, allows it).

Outside the model. A sell quote asked for the quantity of before a partial fill and
answered after it is divided by what is left (SR 7890), so the mark is too high and
can latch a take-profit stage that was never reached. A hard stop asks for its
confirming quote only while no exit intent is set (SR 7419), so a take-profit that
waits for its retry keeps it from being asked. `set_paused` writes a cached state (`runtime_ops.py:166`); two
starters can both take over a stale lock (`runtime_ops.py:54`); Telegram's update
offset is in memory (`telegram_control.py:114`). `_run_flap_portal_gap_fill`,
`_resolve_candidate_pool` and the functions `_activate_one_*` and
`_hydrate_legacy_*` have no caller.

### 3.4 Fairness

* `LiveEntry`, `LiveExit`: weak fairness of the owner's handlers and polls (the
  loop runs for ever and drains before it does anything else), of the worker's
  steps (a pool thread runs every submitted call, each call has a time-out), and
  of the provider settling an order it accepted. A single status query may be
  lost; strong fairness of the answer says that a query asked again and again is
  not lost for ever. In `entry` the liveness property excuses a death, in
  `exit_live` there is none: `entry_adopt` shows what a death does.
* `RealtimeCoordinator`: weak fairness of the handler in progress and of a
  candidate whose quotes are there; strong fairness of what the *main* loop does
  for each position (its turns are between those of handlers and of the other
  thread), of time, and of the backfill's answers and drains. Nothing is asked of
  the scheduler's thread, which may be dead.
* `VenueResolution`: weak fairness of the owner loop, which includes the start
  after a death (a supervisor restarts the runner), of the connection attempts
  (the monitor retries for ever) and of the gap worker.

Nothing is assumed about reservations, crossings, other tools, process deaths or
the chain. The runs `flow`, `survivor` and `paper` check safety only.

Symmetry of order ids is used in `exit` and `exit_leftover`, of mints in `paper`;
none of these checks a liveness property.

## 4. What is proved

`LiveEntryProofs` proves for every number of tokens, orders, slots and deaths,
from `EntryAssumption` and `ReservationReadMayFail = FALSE` (without the latter
the limit does not hold: a reservation that cannot be read frees its slot):

| Theorem | Says |
|---|---|
| `Invariance` | `Spec => []IInv` |
| `TypeCorrect` | `Spec => []TypeOK` |
| `Accounted` | whatever the wallet holds or the provider may fill has a position or an active reservation in the database |
| `SingleOrder` | never two orders of one token at the provider |
| `FreshEntry` | an order is placed only for a token with no position, no holding, no other order |
| `PledgedBound` | tokens that are, or after a restart could be, at stake number at most `MaxOpen` |
| `Capacity` | the same of the tokens at stake now |
| `Refinement` | `LiveEntry` implements `ExposureLimit` with `pledged <- Pledged` |

The argument. `CapacityRespected` is not inductive: a restart rebuilds the
reservations from the database, so a row that a failed write left behind takes a
slot again. `Pledged` therefore counts a token as soon as memory *or* the
database holds an active reservation or a position. `IInv` consists of
`TypeOK`, of the parts that follow one BUY through its life (which phase of the
call goes with which journal row, order, context and reservation), and of
`PledgedInv`, the bound on `Pledged`. The first group gives that a token with
an order anywhere has a reservation or a position in the database, whatever
write failed; then only `TryBuy` enlarges `Pledged`, and its guard leaves room
for one more. Each action has a lemma of its own; the refinement uses the same
facts, a step that adds to `Pledged` being `TryBuy`'s and every other step a
removal or a stutter.

`FlowReconciliationProofs` proves for every length of rule, window, interval,
lag and queue, every set of blocks and any number of disconnects and deaths,
from `FlowAssumption`:

| Theorem | Says |
|---|---|
| `ClaimsHold` | `Spec => []FlowIInv` |
| `Types` | `Spec => []TypeOK` |
| `SaleIsCovered` | the rule never sells over a trade of its time, older than the blocks a fresh verdict may not have read, that neither the socket nor a reconciliation found |
| `SaleRespectsMarker` | a trade of a pool received over the socket less than the no-trade time ago keeps the position |

The argument. `FlowInv` says what a state of the source claims: every trade
between the start of its coverage and its cursor is `Accounted` for. It is asked
of the state in memory *and* of its row, since a restart continues from the row.
`JobInv` says that a job resumes exactly where the state's claim ends, or, for
the first job of a source, where nothing before is claimed (`HeadCovered`: the
scan then starts `Confirmations` below a head read up to `MaxCall` after the
coverage starts, which is where the last conjunct of `FlowAssumption` comes
from). A result extends the claim by the range it read, whose missing trades it
queues; a failed one keeps the cursor and clears the window; a source that skips
blocks starts its coverage anew, which is why `VerdictCovered` needs the reset
in `Rescheduled`. `KeysInv` says that a trade whose key is known is queued,
applied, durable or in `gone`, so that a key never hides a trade; a restart moves
the keys it loses to `gone`. In a state with its window set the
cursor is the safe head, so a schedule in the same step as a sale never skips.

`LiveExitProofs` proves for every quantity, every set of orders and every number of
restarts:

| Theorem | Assumes | Says |
|---|---|---|
| `Invariance` | - | `Spec => []IInv` |
| `OneSell` | `ErrorMayHideOrder = FALSE` | never two sells of the position wait at the provider |
| `ClaimCovers` | that, and `DbMayFail = FALSE` | the row shows a sell under way as long as an order of it waits |
| `Ladder` | - | TP2 is filled after TP1, both by a position sold in part |
| `StaysClosed` | - | a closed row stays closed |
| `Types` | - | `Spec => []TypeOK` |
| `RealizedReal` | - | the proceeds in the row never exceed those of the orders the provider filled |
| `LadderPaidFor` | - | stages and the half that count as done never outnumber the filled orders |
| `HalfOnlyOnce` | `MaxRestarts = 0` | no further half is submitted by the no-trade rule once one was sold |

The argument. `IInv` says that each record the owner's operations work on is `Good`
(ladder in order, row and memory agree on what is closed), that contexts, calls and
answers are what their orders say (`ContextKept`, `AnswersTrue`), that a call under way is the one that claimed the
journal row, and, unless an error may hide an order, that at most one order waits and
that the journal row is active while it does (`OneAtATime`); with a status column
that can be written, that the row shows it (`Covered`). Each owner
operation keeps `Good`; the worker's claim fails while the journal row is active,
which keeps the second order out whatever the status column says.

The last four speak of amounts, and need to know which orders can still be booked. An
order is `Live` while the worker holds its id, the owner follows it or a restart would
follow it again; a filled order that is not `Live` is `Spent`. `BooksInv` says that only
a placed order is known to anybody and that a confirmation is true and its journal row
final (`Linked`), that the row's proceeds and its stages never count more than `Spent`
orders do (`Paid`), and that wallet and filled orders together never exceed what was
bought (`Owed`). A booking adds at most what its order sold, and that order becomes
`Spent` in the same step; nothing makes a `Spent` order `Live` again, which is why no
retry, reconciliation or restart counts one twice. The sums follow from the lemmas of
`SumFacts`, by which a sum changes at one point as its function does. `HalfOnlyOnce`
really needs its assumption: a death between the commit of a partial sale and the
clearing of its intent (SR 8119) repeats the half.

`PaperProofs` proves for every set of signals, tokens, marks and limits and any
number of deaths:

| Theorem | Says |
|---|---|
| `Invariance` | `Spec => []PaperIInv` |
| `Capacity` | active positions, the ones being entered included, never exceed `max_open_positions` |
| `OneLifecycle` | a token has one lifecycle at most |
| `Pending` | a waiting exit snapshot belongs to a worker or a queued result |
| `Finality` | a closed row is never opened or sold again, a settled snapshot never overwritten |
| `Types` | `Spec => []TypeOK` |
| `Ladder` | before the closing sale, what the rows say was sold and what is left never exceed what was bought, and make it up between handlers while no process died |
| `OneSwap` | one call and one mined swap per position and side |
| `Backed` | an open live position no sell was tried for has its tokens in the wallet |
| `Paused` | after the limit of large losses on record no position opens |
| `Readiness` | what the operation that stands next in a handler asks of the ledger is true |
| `Refinement` | the rows implement `PositionLifecycle` with `life <- Lives` |

The argument. The properties speak of states between handlers, the code commits
inside them. `PaperIInv` follows the handler in progress along its series: an entry
under way keeps its slot (`SlotKept`) and its token (`TokenFree`) free until its
`open`; an exit's position is active up to its `close` and closed after it
(`ExitTarget`); the snapshots a series still has to write are `none`
(`SnapshotsDue`). A group of lemmas states for each of the eleven series which
operation stands at which place and what the next one is.

The other theorems each add a layer to it. `TypeIInv` is `TypeOK` with the reason for
it: a position holds the share of its stage, so a half that is due is half of what is
left. `LadderInv` balances bought against sold, left and what the handler in progress
has taken from the position and not yet written (`Booking`). `SwapInv` follows a
transaction from its signature through mempool and blocks: nonces tell mined
transactions apart (`Nonces`), a position has one of each side whatever nodes took it
(`Single`), a call leaves a trace in the ledger before it is made (`BuyCalls`,
`SellCalls`), and the handler in progress has the transaction its place says
(`EntryDue`, `ExitDue`), so that it opens or closes a position only after its swap
succeeded. `LossInv` says that the counter in memory is the number of loss rows less
the one just written (`Uncounted`), and that an entry under way passed the limit.
`Readiness` is the state part of `HandlersComplete`: that the operation is then
enabled is checked by TLC. `Refinement` gives each operation that writes a row's
status or units the abstract action it is, with the guards of that action: the slot
and the token free from `SlotKept` and `TokenFree`, a half that is due from
`TypeIInv`, a position still active from `ExitTarget`. One layer more is needed,
`JustOpened`: the transition an entry makes right after its `open` finds the row
pending, whatever the other thread did.

All of it needs of the constants that the set of signals is finite and not empty
(`CoordinatorAssumption`), since losses and slots are counted.

`SurvivorProofs` proves for any prices, records, observations, number of positions,
days and deaths:

| Theorem | Says |
|---|---|
| `Invariance` | `Spec => []SurvivorIInv` |
| `Entries` | a token is entered with no other position open, outside its cooldown or on a day without a trade |
| `CommittedExits` | an exit that waits for its quote is the next thing sold |
| `CandidateKeptWhileOpen` | the prune never takes the candidate of an open position |
| `Types` | `Spec => []TypeOK` |
| `LadderInvariance` | `Spec => [](Typed /\ LadderPart)` |
| `Stages` | each take profit is sold once and in order, a protection only after the one it protects, nothing after a sale of the whole; row and memory agree or the row lags by the closing sale |
| `Refinement` | the rows implement `TradeBook` with `book <- Trades` |

The argument. `PositionPart` says that memory and database agree on the one open
position and on its intent: between the two commits of a partial sale the intent
names the last sale booked, and no rule asks for the rows a prune has deleted.
`CandidatePart` says that the candidate's row, written or committed, is never easier
to prune than the candidate itself, and that an open position's candidate is in a
state no prune takes. Each action's lemma proves that both parts survive together
with the two action properties.

`Types` first says what each operator on candidates and positions returns. It needs
that what a source reports is a record of `Records` (`ScenarioAssumption`). For
`Stages` the invariant is `LadderPart`. The rules look at flags, the property at the
sequence of sales: `OpenLadder` ties them (`filled` is the set of take profits sold),
and adds that TP2 is latched only with TP1, so that the next latch not yet filled is
the next rung. What survives the process is part of it too: an intent in the database
that sells a half is the no-trade rule's, and one of the trailing stop is there only
after TP2. Marks, latches and observations leave a position on its `Stage`; a sale
that is `Due` there takes it to the next.

For `Refinement` the same invariant carries what the abstract book asks of a sale: the
row's own sales, in order (`OpenLadder` of the row, not of memory alone), latches in
the order of the ladder (`LatchOrder`), a flag of the no-trade half that says it was
sold, and between the two commits of a closing sale a reason that `MayClose` admits for
what the *row* still shows. Each action then keeps the sales of every row
(`RowsKept`), or trims the open one (`RowTrimmed`), or is an entry, the second commit
of a close, or the prune.

`VenueProofs` proves, for any factories, chain, chunk, faults and jobs in flight, from
`GapAssumption` and `VenueAssumption`:

| Theorem | Says |
|---|---|
| `PoolKept` | the pool of a migrated token stays attached while the process lives |
| `NoneSkipped` | the answer that will set a factory's cursor to the end of its range has found every pool created between the two |
| `CreationsValidatedOnce` | a pool creation is with one validation at a time, however often socket and gap fill report it |
| `Types` | `Spec => []TypeOK` |

The first needs only that memory and row hold venue facts (`VenueShape`): a job asked
before the migration meets the status it must respect in the handler that drains its
answer, whatever the queues hold.

The second is not inductive, because a result sets the cursor, and sets it *back* when
live events have moved it on meanwhile. `GapIInv` adds what makes that harmless. Every
range in flight, being read or read, has its job in `gapJobs`, starts no later than
behind the cursor and ends on the chain (`Meets`); of one factory there is one at most
(`OneInFlight`), so that no other range can start too late for the cursor a result sets;
and an answer still has every pool of its range (`Complete`), since a new block lies
behind the end of every range. It includes the types of the gap fill's variables, for
which the events of a range must have an order (`OrderExists`, by a smallest set without
one).

For the last two, `Written` says which steps may change each of the other groups of
variables, and each group is typed on its own. `ValidatedOnce` is what the types need:
a drained result takes its creation's job away, and the worker's copies are among the
jobs only as long as no other copy of that creation is left.

`DashboardProofs` proves for every set of processes that has the engine and the
dashboard, every finite set of orders, every quantity and any number of deaths:

| Theorem | Assumes | Says |
|---|---|---|
| `Invariance` | - | `Spec => []IInv` |
| `Types` | - | `Spec => []TypeOK` |
| `OneSubmission` | - | no order reaches the chain twice |
| `OneSellWithoutRace` | `[]NoRace` and `[]NoneHidden` | two sells never wait at the provider together |

The argument. The run `dashboard` shows `OneSellAtATime` violated; the last theorem says
what the violation needs. `NoRace` says of a state that a process whose look at the
journal showed nothing active still finds it so; `NoneHidden`, that the journal does not
say `FAILED` of an order that waits at the provider (it asks nothing when
`ErrorMayHideOrder` is `FALSE`). The behaviours in which both always hold
include deaths, time-outs, and both processes selling over each other's status column,
with one order after the other. In them `OneClaim` is inductive: one process at most is
past its claim, the journal row is active and names its order, and a submitted order is
the one in an active row, so no call is past its claim beside it (`Alone`). So the status
column, which the finding quotes, protects nothing that the journal does not. To
keep the two sells apart takes two changes: a `claim()` in one transaction, and a
submission whose every unclear error is `SUBMIT_UNKNOWN`. Neither is enough alone. The rest is `IInv`: an order is carried by
the call that had it made and by no other (`Holders`), and the chain's count of nonces is
that of the orders it took (`Nonces`), which bounds what a nonce manager reserves. What a
step does to the executor is one of a few kinds (`Move`), and every part of the invariant
but the types of rows and notes is proved of those.

### Only model-checked

* Liveness: `TrackedOrderSettles`, `TrackedSellSettles`, `DeadlineHolds`,
  `SnapshotSettles`, `GapReached`.
* `HandlersComplete`, which says `ENABLED`; `Readiness` proves the guards it stands on.

Both are beyond the prover. Every other property of a passing run is a theorem; what
the runs add to them is that the states the properties speak of are reached. The
properties of the runs that fail have counterexamples; of one, `OneSellAtATime`, a
theorem says what its violation needs. The library's induction
theorems are beyond the installed prover: where a sum needs one, `SumFacts` argues from
a smallest counterexample among the subsets of the set, and `VenueProofs` does the same
for the order of a range's events. No module uses a `RECURSIVE` operator.

## 5. Not modelled

| Part | Why |
|---|---|
| Binance Agentic Wallet executor | one CLI call per operation, no state; the bridge that calls it is modelled with the GMGN executor |
| universal router, BSC quote provider | a choice among quotes by amounts and gas; no state, and its arithmetic is data to every property here |
| single-instance lock, health registry | a protocol on files that ends before any state modelled here exists; every module assumes one engine process; health rows are read by no handler |
| live confirmation of the hard stop (SR 7380-7444, 7874-7928) | a sell quote decides only when a whole sale is submitted, which `LiveExit` allows at any evaluation; the arithmetic of marks is data there |
| audit prefetch | its state gates no purchase |
| Four.meme curve venues, quote-pool revalidation | another path to a descriptor, with the same discard rule |
| BSC pool registry and feature adapters of `realtime.py` | inputs of the model |
| Solana survivor strategy and shadow runner | shadow only, a near copy of the BSC strategy over other sources |
| Telegram control | polling of an external service; its effect on the engine is the pause, which `SurvivorReversal` has |
| dashboards that read, Web3 client, Solana adapters, holder monitor, OKX source, configuration, analytics, scripts | read-only or pure I/O; no state that a property of several steps could be about |

Hazards without a property: a rule of 40 s (SR 4222) and the recovered events a death
loses (SR 4168) are outside what `VerdictCovered` says (3.3); the mark of a quote that
was asked for another quantity (SR 7890) and the nonce of a refused submission
(`adapters/bitget_wallet.py:382`) break nothing a document states; a claim without an order (SR 8322) waits for an
operator on purpose; the double booking of a fill (`live_dashboard.py:720`) and the
lost pool change (`adapters/bsc_wss.py:1385`) are in the models but contradict no
document; the lock take-over (`runtime_ops.py:54`) is not modelled.
