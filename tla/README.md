# A TLA+ model of the AI trader for Interactive Brokers

The repository is an always-on intraday trading system: a language model proposes, plain
Python sizes, gates and places, and Interactive Brokers (IBKR) holds the orders. The process
is one asyncio event loop with six background loops, broker callbacks and a web server; what
it must not forget is in a SQLite file; the truth is at the broker. This directory models its
control: the order ledger, the ways out of a position, the connection, the kill switch, the gate
every trade idea passes, the trading day, the market-data streams, and the model's gateway.

Paths below are relative to the repository's `src/aitrader/`.

## 1. The system's parts

| Component | State it keeps | Operations | Talks to |
|---|---|---|---|
| Order manager (`broker/orders.py`) | rows by order ref, blocked symbols, seen executions, fills | `place_bracket`, `close_position`, cancels, status and execution events, `reconcile`, `load_from_store` | adapter, store |
| IBKR adapter (`broker/ib_adapter.py`) | socket, contract and subscription caches, message pacer | placing, cancelling, queries, market data, events | IB Gateway |
| State store (`data/store.py`) | orders, transitions, fills, key/value rows, caches | upserts and lookups | SQLite |
| Connection service (`broker/gateway.py`) | health, 2FA flag, `ready` | `connect`, watchdog, `_after_connect` hook | adapter, engine |
| Kill switch (`risk/killswitch.py`) | event, action, sentinel file, store row | `trip`, `reset`, `is_tripped`, `should_flatten` | everything that trades |
| Risk engine (`risk/engine.py`) | order times, daily-loss flag | 24 checks in `evaluate`, `evaluate_close`, `submit`, `check_daily_loss` | order manager, kill switch |
| Trading engine (`engine/scheduler.py`, `engine/state.py`) | account, counters, day flags, pending approvals | `start`, six loops, flatten, approvals, shutdown | all of the above |
| Decision cycle (`engine/cycle.py`) | cycle records | `run`, `_execute`, `_handle_close`, `update_focus`, `run_premarket`, `run_eod` | agents, sizing, risk engine |
| Rate limiters (`data/ratelimit.py`) | tokens, request times, lines | `acquire`, `register_violation`, line budget | adapter, market data |
| Market data (`broker/market_data.py`) | bars, subscriptions | subscribe, resubscribe, backfill, scan | adapter, limiters |
| Focus list (`analytics/ranking.py`) | members, challengers' streaks | `update` | cycle |
| Calendar (`engine/calendar.py`), sizing (`risk/sizing.py`) | none | pure functions | cycle, engine |
| LLM gateway (`llm/gateway.py`, `llm/structured.py`) | health, strategy, failure count | `complete` with retries and a strategy ladder | providers |
| Agents, narrative (`agents/roles.py`, `llm/narrative.py`) | the notebook | the six roles with their safe defaults, compaction | LLM gateway |
| Prompts, features, indicators, configuration, pages | text, formulas, settings | | |

What is hard here: every `await` lets another loop, a callback or a web request in; account
snapshots, quotes, sessions and gate results are read before an await and used after it; requests
fail or time out half way through a procedure; the process may die between the row and the order;
the broker tells everything twice and late; caches outlive the connection they belong to; flags of
one day meet the next.

What makes each part right:

* **Orders**: intent is stored before an order is sent; no order is sent twice; memory and
  store agree; never two entries of a symbol at work; a row is not written off while its order
  lives; no held position is left without a stop unless it is reported; an execution is counted
  once; reconciliation ends.
* **Ways out**: no bracket order competes with an exit (what holds: the broker has been asked to cancel
  it before); nobody takes the stop of what was bought
  before an exit path has begun; an entry nobody fills does not outlive its time; an exit leaves
  less of the position than there was.
* **Connection**: nothing trades while a login is wanted, on a dead socket, or (for long) on a
  dead session; the connection comes back.
* **Kill switch**: a halt holds until a person ends it, also through restarts and failed
  writes; a flatten sends exits for what is held.
* **Gate**: one order per symbol, and the caps and cooldowns, under concurrent approvals and
  cycles; a person's wish to approve trades is obeyed.
* **Trading day**: no entry outside the session or in the minutes of the flatten, however long the
  model thinks; the daily count forgets no entry; nobody trades before a plan, or on an old one.
* **Market data**: what is believed to stream does; what is held keeps its feed; lines are never
  overdrawn; membership of the focus list changes for those who have earned it.
* **Language model**: one question at a time; no entry of the cycle without two valid yeses; every question
  ends; a model that was disabled is left alone; the notebook stays short.

## 2. Modules

| Module | What it is |
|---|---|
| `OrderManager` | `broker/orders.py` with the order half of the adapter, the orders table, gate check 20, crashes, reconnects and an external broker |
| `WriteAheadLedger` | the abstract specification the order manager implements |
| `MCOrderManager` | names and symmetry for TLC |
| `OrderManagerProofs` | theorems about `OrderManager` |
| `ExitPaths`, `ExitPathsProofs` | flattens, closes, stale-order expiry and shutdown on one bracket at the broker |
| `Gateway`, `GatewayProofs` | `broker/gateway.py`, `start()` and the decision loop's gate |
| `KillSwitch`, `KillSwitchProofs` | `risk/killswitch.py` with everything that trips, reads, resets or restores it |
| `RiskGate`, `MCRiskGate`, `RiskGateProofs` | the decision cycle, the dashboard's approvals, the gate of `risk/engine.py` and the counters it reads |
| `SessionDay`, `MCSessionDay`, `SessionDayProofs` | `engine/calendar.py`, the schedule and decision loops over several days, the day's part of `AppState` |
| `FocusList` | `FocusListManager.update` as an operator |
| `MarketData`, `MCMarketData`, `MarketDataProofs` | the focus list's updates, subscriptions, the line budget, the adapter's caches, the reconnect hook |
| `LLMGateway`, `LLMGatewayProofs` | `LLMGateway.complete`, the six roles, the cycle's decisions and reviews, the notebook |

### OrderManager

What runs between two awaits is one action. `place_bracket` (the action) is the code up to its
first await: checks, rows, write-ahead. `SendBracket` is the adapter after its pacer together
with the `_apply_status` calls of its caller, `SendBracketFails` its exception. `reconcile()` is
cut at each await: `ReconcileOpen`, `ReconcileResolve` (steps 1 and 2), `ReconcileExecutions`
(steps 3 and the choice of step 4), `EmitProtectiveStop` / `SendProtectiveStop` (step 4), and
`ReconcileFinish` (step 5). A row keeps its state, whether the order id is known, whether it
has a stop price and a parent, and the filled quantity, which is what reconciliation looks at.

The broker is external: messages arrive in order or are lost with the connection; an entry may
be refused; an entry fills share by share; exits fill whole and cancel their sibling; cancels
are processed later; a leg is refused when its parent is. `completed_orders()` and
`executions()` may fail at any time, which the adapter turns into an empty answer.

Left out: prices, shorts (mirror images), the exits (`ExitPaths`), a failing store, the pauses
between the cancels of step 5. The 600 second block is a choice made whenever the code looks at
the clock. `ib.portfolio()` is taken to be current.

### ExitPaths

One symbol, one bracket resting at IBKR, and everyone who may take the position away: tasks that
flatten (the fast loop, a dashboard request) and tasks that close (the cycle, an approval). A way
out is three actions, cut at the awaits: `FlattenAll` or `HandleClose` choose the quantity from the
account of the last sync, `ClosePosition` cancels the symbol's orders and writes a row named by the
second of the clock, `SendExit` is the placement. `ExpireStale` and `ShutdownGracefully` choose
from the rows, which follow the broker only when `on_order_status` comes. A
pass of cancels is one request, as the loop over the rows sends it; requests travel on a pipe and are
carried out in order. Legs become live with the entry, execute for what it bought, and are
an OCA pair. The broker's orders are kept by order id and the rows by ref, so two rows that share a
ref (two exits of one second) are one row here as in the code. IBKR accepts a cancel
(`BrokerReceive`, PendingCancel) and carries it out any time later (`BrokerCancel`); in between the
order may still execute, also beside the exit that was placed after the cancel.

Left out: a lost connection in the middle (`OrderManager` has it), the pauses between the cancels
of one pass, exits that fill in parts.

### Gateway

`pc` is the point that `start()`, and after it the watchdog, has reached; the two never
overlap. The socket and the session behind it are separate: a socket connects whether or not
the weekly token is valid. `_handle_disconnect` may run at any point, so also between a probe
and its result. Backoff delays are finite and left out. The account summary has a time-out of its
own; the other requests of `start()` and of the hook have none (`Unbounded`), so they may wait for ever on
a live socket whose session does not answer.

### KillSwitch

One day. The dashboard (`TripKillSwitch`, `ResetKill`), the command line or a plain `touch`
(`Kill`), the daily loss limit (`CheckDailyLoss` within `FastTick`), the gate (`Submit`), the
wait for the message pacer (`queued`, `Send`), `run_premarket`, crashes and restarts. A write of
the sentinel or of the row may fail; at most one does. Equity is a number in `1..MaxEquity`,
the loss limit a difference. The connection stays up (the fast loop does nothing without one). The loops
see the account as last fetched (`SyncAccount`). A flatten (`FlattenAll`) takes back the exit of an earlier
one, which may still fill while its cancel is under way, and sends another for what that account shows,
which may fail and is then logged and skipped; the position closes when an exit, a stop or a target fills,
if ever. One exit stands for those of all positions; `ExitPaths` cuts a flatten at its awaits.

### RiskGate

Two kinds of coroutine ask for trades: the decision cycle (`StartCycle` ... `EndCycle`, one
proposal at a time) and dashboard requests (`ApproveEntry`, `ApproveClose`), of which several can
be in flight. `job[w]` is what coroutine `w` is waiting to send: from the gate's verdict to the
write-ahead rows a submit awaits nothing (`Enqueue`), then it waits for the message pacer, then it
sends and counts at once (`SendEntry`, `SendExit`) or raises (`PlacementFails`). The cycle judges
with the account it fetched before the model call, an approval with the last synced one. The order
ledger is reduced to what `working_symbols` reads: working entries, resting legs, an exit, and
rows left PENDING by a failure.

Time is kept as ages: of the last entry and close of each symbol, of the orders in the rate window,
of each pending idea. An age stops at the limit it is compared with. The checks on prices, sizes,
session, account money, freshness and the risk officer are folded into `TurnDown` and `Reject`, which
can happen to any idea. Entries are BUYs, since shorts are off by default; the day does not
change (`SessionDay` has the days); the flattens of the fast loop are in `ExitPaths`.

### SessionDay

The clock is an absolute minute, the calendar a constant function from days to minutes, `Phase`
the function of `MarketCalendar.info`. Two coroutines run planning passes and meet at their awaits:
the schedule loop (`ScheduledPremarket` to `ScheduledPlanReady`, `ScheduledEod` to `Reviewed`, or
`ScheduledFails`) and the decision loop (`PlanningPass`, or a cycle). Each pass first resets the
day's part of `AppState` and ends, or is cut short, any time later. A cycle keeps the phase and the
minutes to the close of its start (`decision`) and its entries are judged by them; what bounds their
age is the check on the account's age. An approval is judged by the session of its moment.

Left out: what the other modules are about (the switch, prices, symbols); within its minute an
account request is answered.

### FocusList and MarketData

`Update` follows `FocusListManager.update` over scores, with one order of the scored symbols for its sorts
(ties in any order): `Kept` are the protected names, `Best` the free slots' members, and `Contests` runs
the challengers one after the other against the `Weakest` of what is retained so far, as a recursive
function over the positions of the order. `MarketData` runs it in the cycle's coroutine and then
subscribes what was added and drops what left, one request of the adapter at a time, while the
connection may be lost at any of them, the reconnect hook's coroutine renews the list, and a dashboard
request may enter a symbol (`ApproveProposal`, against the cycle's own `Enter` between its updates); `late` is a
history of symbols approved while the update was giving them up. The
service's set, the reserved lines and the adapter's two caches are four variables, since they can
disagree, and `quotes` and `bars` are what the broker really streams in this session.

Left out: bars and history as data, the scanner, streams asked for twice.

### LLMGateway

Each asker (the decision loop, the schedule loop) has one call at a time. `complete` is cut at its
awaits: `EnsureStrategy` and the probes of a negotiation (outside the semaphore), the semaphore with
its FIFO queue, the attempt, one repair, the backoff (inside the semaphore), the verdict and the
failure counter. An answer is a valid yes, a valid no, or garbage; a time-out, an error and an empty
quota return nothing. The roles turn nothing into their safe defaults, and the cycle (`Decide`,
`Decided`, `Reviewed`, `Compacted`) turns a decision and its reviews into entries and notes. In manual mode
a review turns nothing down: the idea is queued, whatever the risk officer said or did not say
(`engine/cycle.py:252`), and a person may approve, reject or ignore it (`ApproveProposal`,
`DropProposal`) at any await of the loops; the mode is switched there too, and survives a restart, which the
list does not. `heard` is a history variable: whose valid yes this cycle has had for the proposal at hand.
A waiting idea is known by the words it was queued with, the trader's, since the code keeps no trace of the
review with it.

Left out: one model serves all roles (as configured), health figures only the dashboard reads, the
replay cache a running engine never reads, text.

## 3. Runs

| Run | Bounds | Result |
|---|---|---|
| `orders_faults` | 1 bracket of 1 share, 1 recovered stop, 1 crash, 1 lost connection | pass: `TypeOK`, `WriteAhead`, `StoreMirrorsMemory`, `FillsOnce`, `ReconcileProtects`, `AtMostOnce`, `ReconcileTerminates` |
| `orders_crash` | 2 brackets of a symbol, 1 crash, no lost connection, no recovered stops, symmetric cycle ids | pass: `LoneEntry`, `CancelledIsDead` |
| `exits` | 1 bracket of 2 shares, a flattening fast loop and a closing model, 1 second, 2 exits | pass: `TypeOK`, `CancelsComeFirst`, `StopStays`, `EntryExpires` |
| `gateway` | 4 faults | pass: `TypeOK`, `GateShutFor2FA`, `ResumesConnected`, `DeadSessionHalts`, `Reconnects` |
| `kill` | equity 1 to 3, 1 crash, 1 failed write, 1 exit not placed | pass: `TypeOK`, `HaltHolds`, `FlattenHappens` |
| `gate` | 2 symbols, 1 approver, 1 idea at a time, caps 1, 2 and 1, 1 lot, no shorts | pass: `TypeOK`, `OneOrder`, `CapsBounded`, `CooldownKept`, `ManualHolds` |
| `day` | a full day, a holiday, a half day; 3, 2 and 1 minutes for last entry, flatten and account; 2 trades; 1 restart | pass: `TypeOK`, `CapNeverUndercounts`, `NoLateEntry`, `PlanBeforeTrade` |
| `data` | 3 symbols, a list of 2, lines for 2, 1 promotion a cycle, persistence 2, 3 scores, symmetric symbols | pass: `TypeOK`, `FeedsAlive`, `HeldKeepsItsFeed`, `SwapsAreEarned` |
| `llm` | 2 rungs, tier 1, 1 retry, 2 failures to disable, 2 proposals, a notebook of 2, 1 restart | pass: `TypeOK`, `TierRespected`, `FailsClosed`, `CallEnds`, `DisabledGoesQuiet`, `NotebookBounded` |
| `exits_reduce` | 1 share, the fast loop alone | violates `ClosingIsNotNewRisk` |
| `day_second` | as `day` | violates `PlanOfTheDay` |
| `data_held` | as `data`, lines for 3 | violates `HeldIsFed` |

Why the bounds are enough:

* **Orders.** Refs of different symbols never meet except in the pacer, so one symbol shows every
  conflict; two cycle ids are the fewest that compete; a second crash repeats the first, since a
  restart forgets everything but the store and the broker; one share is a fill without a partial
  state.
* **Ways out.** Two shares give an entry a filled part; two tasks are the fewest that take the same
  position; two exits are one too many; in one second they share a ref, which is the case in which the
  rows know least (the proofs are for any clock).
* **Connection.** Four faults allow a time-out, a lost socket and a dead session in one recovery.
* **Kill switch.** One exit that cannot be placed makes a flatten leave the position for the next tick. Three levels of equity allow a breach, a recovery and a new baseline; two failed
  writes would lose both copies, after which nothing in the process's reach remembers the halt.
* **Gate.** One approver and the cycle are the fewest that race; a cap of one is reached and overrun
  by the second order, and the day's cap of two is reached over two cycles; the cooldown of two ticks
  outlasts the one-tick rate window, so the rate limit alone does not enforce it. `MaxLots` and
  `MaxShort` bound what the market may do: an execution that would go short is left out, which
  restricts the broker and not the code (`exits_reduce` has it).
* **Trading day.** Each phase lasts at least a minute, a cycle may begin before the cut-off and end
  after the close or on another day, and a restart may fall on any minute. The half day is one minute
  longer than the cut-off, so that a captured session is soon a late one.
* **Market data.** Three symbols are two members and a challenger; the margin is cleared by one pair
  of the scores and not by the other, below and across zero; a persistence of two needs a streak;
  capacity two makes a swap ask for a line that is not free yet.
* **Language model.** Tier one and two loops make a queue; one retry gives each failure its backoff;
  two failures let the counter be reset in between; a notebook of two is full within a cycle. A restart
  finds the row young or old; entries of a cycle, approved ones included, stop at two, and the lines noted
  outside a cycle at one over the limit.

Deadlock is not checked where the system may really stop: cycle ids or days are used up, a process
has been shut down. `gateway`, `kill` and `gate` check it. Symmetry is used in runs of safety
properties only.

### What the violations show

1. **`exits_reduce`.** "closing risk isn't new risk" (`risk/engine.py:321`). The fast loop flattens
   every 5 seconds from an account synced every 30 (`engine/scheduler.py:455`): the stop fills, or the
   exit of an earlier tick, the next tick still sees the position and sends an exit for it, and the account is
   short. `is_working` does not help, as a filled exit is not working. The close of a cycle or of an approval does the same
   when a stop fires while the model or the person thinks (`engine/cycle.py:298`, `engine/scheduler.py:593`),
   although `approve_proposal` "re-checks current conditions rather than replaying the numbers" (`:572`).
2. **`day_second`.** "Started mid-session: do the planning pass now rather than trading blind"
   (`engine/scheduler.py:431`). `premarket_done` and `eod_done` are cleared by `reset_for_new_session`
   only, which `run_premarket` alone calls, and `run_premarket` is called only while `premarket_done`
   is false. A process that lives into its second trading day neither plans, nor resets its counters,
   nor reviews.
3. **`data_held`.** "A symbol with an open position must never lose its data feed"
   (`tests/test_ranking.py:133`). A protected symbol enters the list through `keep`
   (`analytics/ranking.py:116`) and never through `added`, and `update_focus` subscribes `added` only
   (`engine/cycle.py:80`). A position held over a restart is a member without a feed, and
   `evaluate_close` then rejects its close for want of a quote.

### Seen while modelling, without a run

Of orders and their ways out:

* `connect()` sets `ready` before the hook reconciles (`broker/gateway.py:93`), although "the decision
  loop is gated on this completing" (`broker/orders.py:371`). A bracket placed between two answers of
  `reconcile()` is in neither; step 2 writes its rows off as CANCELLED, and check 20 lets a second entry
  pass. `LoneEntry` and `CancelledIsDead` hold without lost connections only (section 4 proves that they do).
* `_apply_common` overwrites the parent's `transmit = False`, so the parent is live before its stop
  arrives (`broker/ib_adapter.py:591`, `:606`).
* Step 5 cancels the legs of an entry that has not filled yet, since its symbol is not in the account
  (`broker/orders.py:444`).
* Step 4 of `reconcile()` takes every working row with a stop price for a protection, and the entry's row carries
  the bracket's (`broker/orders.py:166`, `:431`). A process that dies after the entry filled in part, with the
  children still on the socket, finds the entry working, its symbol protected, and leaves the shares bare:
  "the process dies between the parent filling and the children being acknowledged" is what the step is for
  (`:425`). `ReconcileProtects` states what does hold: the rows of stops count only if the stop is at work.
* The same row protects an older position of its symbol: after step 5 has cancelled the legs of an entry that
  then fills, a second bracket may be placed, and the next restart takes its entry for the stop of both.
  While a connection is lost, the PENDING rows of a bracket placed meanwhile count as well, so
  `ReconcileProtects` holds for one bracket, or without lost connections.
* After a failed submit the rows stay PENDING, so check 20 rejects the symbol long after its block
  has expired (`broker/orders.py:35`, `:206`).
* While a position's legs rest, its symbol is working, so `evaluate_close` rejects every close of a
  position that is protected (`risk/engine.py:337`).
* `_expire_stale_orders` and `shutdown_gracefully` cancel rows without a parent, exits among them, after
  the legs were cancelled (`engine/scheduler.py:350`): the position is left bare.
* `close_position` sends the cancels of the legs and, without waiting for any Cancelled, the exit
  (`broker/orders.py:230`), although "relying on OCA to fire correctly while we send a competing exit is a
  race" (`:227`); `_STATUS_MAP` itself takes PendingCancel for working (`:44`). A leg may
  execute beside the exit, and both sell the position. `CancelsComeFirst` states what does hold.
* An entry that has filled in part never expires (its state is PARTIALLY_FILLED); a working entry is
  not cancelled by a flatten when the account shows no position yet.
* Two exits of a symbol in one second share a ref, and the later row replaces the earlier.

Of the gate, the switch and the day:

* A bracket waiting for the pacer goes out after a halt (`risk/engine.py:399`); a flatten sends an exit
  for what it buys once an account shows it (`FlattenHappens`).
* A flatten need not end with a flat account: every tick cancels the exit of the tick before, if it has not
  filled within 5 seconds, and sends another; a `close_position` that raises is logged and skipped until the
  next tick (`engine/scheduler.py:455`).
* In manual mode an entry needs no yes of the risk officer: the idea is queued although the review
  vetoed it or gave no answer (`engine/cycle.py:252`), the list does not say so to the person, and
  `approve_proposal` passes `risk_officer_approved=True`, "already vetted once when the idea was proposed"
  (`engine/scheduler.py:640`), against "if the reviewer cannot answer, the trade does not happen"
  (`agents/roles.py:145`). `FailsClosed` states what holds: of the cycle's own entries both words, of a
  person's the trader's.
* `aitrader kill --mode flatten` writes the mode as text that is only read as the reason
  (`main.py:190`); a dashboard flatten becomes a halt after a restart, since the saved action is not
  restored.
* A loss breach the gate notices first keeps the fast loop from tripping the switch, so entries
  resume when equity recovers (`risk/engine.py:232`).
* Check 15 counts the positions of the snapshot and not the entries at work (`risk/engine.py:215`), so two
  entries of one cycle both pass at one below the limit; they are sized against the same buying power.
* The caps are exceeded by one order for each dashboard request in flight, since an order is counted
  after the pacer (`CapsBounded` states the bound that does hold).
* A restart in mid-session restores the starting equity and then runs `run_premarket`, which sets it
  to the current equity (`engine/cycle.py:350`); `trades_today` and the cooldowns start anew as well.
* Stops and targets that fire do not call `note_close`, so the flip-flop guard is blind to them.

Of the connection, the data and the model:

* The requests of `reconcile()` and of the subscriptions after it have no time-out
  (`broker/ib_adapter.py:692`), and a socket may stay up while the session behind it never answers
  (`broker/gateway.py:14`). `start()` then never spawns its loops, or the watchdog stays in the hook
  (`:185`) with the gate open, since `connect()` has set `ready` before (`:93`), and no probe ever runs;
  `ReconcileTerminates` and `DeadSessionHalts` promise nothing there before the socket is lost.
* An idea approved while `update_focus` is giving up its symbol loses its feed with the order at work
  (`engine/cycle.py:86`, `engine/scheduler.py:569`; "must never lose its data feed", `tests/test_ranking.py:133`):
  `removed` was chosen before the awaits. `HeldKeepsItsFeed` leaves out such late approvals.
* One timed-out probe, one good probe, a failing hook: the state is CONNECTED, `ready` is clear, and
  nothing calls the hook again (`broker/gateway.py:150`, `:198`).
* A failed subscription is not tried again before a reconnect. A reconnect whose hook has nothing to
  renew keeps the adapter's stale caches, and a subscription under way while the hook runs may leave a
  quote that no longer moves; `FeedsAlive` leaves out these two. `resubscribe` keeps the lines of symbols it
  dropped, and a subscription repeated while the first is under way streams twice.
* With negative scores the churn margin works the other way (`analytics/ranking.py:150`), and a streak is not
  reset when the cap on promotions ends the round.
* The probes of a negotiation run outside the semaphore. A provider that is down during a negotiation
  leaves the lowest rung in the store for 24 hours. `deterministic_only` is never reset, though it is
  documented as "for the rest of the day" (`llm/gateway.py:64`). A call in flight at that moment may still
  lead to an entry. Backoffs are slept inside the semaphore.
* The message bucket holds one second's worth of tokens, so after an idle second up to twice the rate,
  90 messages, go out within a second (`data/ratelimit.py:43`); IBKR disconnects at about 50.

### Fairness

* `OrderManager`: the event loop goes on with a coroutine that can go on, and placing a stop, which waits
  for the pacer only, ends. A request of `reconcile()` fails once its connection is lost; that a live
  connection answers is not assumed. Nothing of fills, messages, new decisions or outcomes.
* `ExitPaths`: the fast loop's coroutine goes on, its ticks come round, and the broker accepts what it is
  sent and carries out the cancel of the entry. Nothing of fills, events, syncs, trips or closes.
* `Gateway`: `start()` and the watchdog go on, the container is restarted (`restart: unless-stopped`), and a
  dial, a probe and an account request end, which have time-outs. The requests without one (`Unbounded`) end
  when the socket is lost, and otherwise need not. That the operator taps the IB Key push is a premise of
  `Reconnects` (the documentation promises nothing without it) and of no other property.
* `KillSwitch`: the process is restarted, the fast loop ticks and the account loop gets an account in the
  end (`_loop` survives exceptions; the connection stays up and the account request has a time-out). Nothing
  of fills or cancels: `FlattenHappens` promises an exit at work and not a flat account.
* `LLMGateway`: time-outs end every wait for the provider, a backoff is a sleep, the semaphore serves in
  order, and a loop takes what its call returned. Nothing of what the provider answers or a person does.
* `RiskGate`, `SessionDay` and `MarketData` state safety only and assume no fairness.

## 4. Proofs

TLAPS checks these for every value of the constants.

| Module | Theorem | States |
|---|---|---|
| `OrderManagerProofs` | `TypeCorrect` | `TypeOK` |
| | `WriteAheadHolds`, `StoreMirrorsMemoryHolds`, `FillsOnceHolds` | `WriteAhead`, `StoreMirrorsMemory`, `FillsOnce` |
| | `LoneEntryHolds`, `CancelledIsDeadHolds`, `ReconcileProtectsHolds` | `LoneEntry`, `CancelledIsDead`, `ReconcileProtects` while no connection is lost |
| | `SentAtMostOnce` | `AtMostOnce`: refinement of `WriteAheadLedger` |
| `ExitPathsProofs` | `TypeCorrect`, `CancelsComeFirstHolds`, `StopStaysHolds` | `TypeOK`, `CancelsComeFirst`, `StopStays` |
| `GatewayProofs` | `TypeCorrect`, `GateShut`, `ResumesOnlyConnected` | `TypeOK`, `GateShutFor2FA`, `ResumesConnected` |
| `KillSwitchProofs` | `TypeCorrect`, `HaltHoldsAlways` | `TypeOK`, `HaltHolds` |
| `RiskGateProofs` | `TypeCorrect`, `OneOrderHolds`, `CapsHold` | `TypeOK`, `OneOrder`, `CapsBounded` |
| | `CooldownHolds`, `ManualHoldsAlways` | `CooldownKept`, `ManualHolds` |
| `SessionDayProofs` | `TypeCorrect`, `CapNeverUndercountsAlways` | `TypeOK`, `CapNeverUndercounts` |
| | `NoLateEntryAlways`, `PlanBeforeTradeAlways` | `NoLateEntry`, `PlanBeforeTrade` |
| `MarketDataProofs` | `TypeCorrect`, `FeedsAliveHolds` | `TypeOK`, `FeedsAlive` |
| | `HeldKeepsItsFeedHolds`, `SwapsAreEarnedHolds` | `HeldKeepsItsFeed`, `SwapsAreEarned` |
| `LLMGatewayProofs` | `TypeCorrect`, `TierRespectedAlways`, `FailsClosedAlways` | `TypeOK`, `TierRespected`, `FailsClosed` |
| | `NotebookBoundedAlways` | `NotebookBounded` |

**Assumptions.** Bounds are natural numbers (`CloseAssumption` and others), and quantities, limits, rungs and tiers positive where
the configuration has them so. Cycle ids and recovery ids are disjoint (`TagsAssumption`); at most one
write fails (`WriteAssumption`); a finite set of approvers excludes the cycle (`WorkerAssumption`); days
follow one another (`BoundsAssumption` of `SessionDay`); symbols and the tasks of `ExitPaths` are finite
sets; a compaction without a summary keeps at least the lines one with a summary keeps (15 in
`agents/roles.py:223`, 10 in `llm/narrative.py:143`). `GapAssumption` says that the last entry's
minutes exceed the flatten's by the lifetime of an account. The configuration as shipped has 20, 10 and 2
minutes; its validator demands only that the flatten's are not more than the last entry's
(`config.py:83`), so a configuration with less than the gap has no such guarantee.

**Order manager.** `TypeInv` adds to `TypeOK` what the types need: messages concern refs that can
be sent, a filling entry's counter stays within its quantity so that its execution ids exist,
answers held by `reconcile()` are book entries, and a stop about to be sent has its ref.
`LedgerInv` carries write-ahead: `WriteAhead` alone is not inductive, because the order is sent an
await after its row is written. It needs that a call waiting for the pacer has stored rows and
nothing sent (`CallsFresh`, `StopFresh`), that brackets are stored whole (`BracketWhole`), that
whatever is on the wire, in the book or in an answer was sent (`OutIsSent`, `OpenIsSent`), that
what was sent is stored (`SentIsStored`) once (`SentOnce`), and that a dead process holds nothing
(`DownIsIdle`). `FillsSeen` says that counted executions are in the deduplication set.

`LoneEntry`, `CancelledIsDead` and `ReconcileProtects` are proved of behaviours in which no connection is lost
(`NeverLost == disconnects = 0`, the bound of run `orders_crash` with everything else arbitrary: any number
of crashes, cycles, shares and recovered stops). With a lost connection `reconcile()` runs beside the loops
and, once two brackets meet, all three fail (section 3). Without one it runs in `start()` only, so its three answers describe one moment:
nothing comes to work after `open_orders()` answered (`StartsAlone`, `OpenComplete`). Hence, once rows are
resolved, whatever is at work or on its way has a working row (`OutIsWorking`), so check 20 sees it, and
the entries at work, on their way or about to be sent are alone in their symbol (`Alone`). For
`ReconcileProtects` the converse is needed of step 2: a row that works when step 4 looks at it is that of an
order which `open_orders()` had answered (`AnswerIsComplete`). It rests on what `_apply_status` makes of a
completed order, which is never a working row, since a refused order has filled nothing (`RefusedIsEmpty`).

**Ways out.** `TypeInv` says that the order ids left suffice for the tasks about to send an exit, that a
placement on the pipe is for an exit, and which orders the book may hold. `CancelsComeFirst` relates the book
to the rows, which lag behind it, and to the pipe, on which the cancels travel. What is inductive
(`ExitInv`): a row never calls a bracket order done that may still execute (`RowsLag`); while some task is
about to place an exit, the cancel of every bracket order that rests is on the pipe (`SendCovered`); and
before every placement on the pipe stands the cancel of every bracket order that rests (`PlaceCovered`).
`cancel_symbol_orders` provides it because it reads rows that err on the safe side only. When the cancel is
done is the broker's business, so nothing is proved of what executes in between. `StopInv` says that before the first exit path only
cancels of the entry are on the pipe, and either both legs live beside the whole position or everything is
over.

**Gateway.** `ready` is clear while a connection is being made, the 2FA flag while the hook runs;
CONNECTED implies a socket and no pending login. None of it depends on whether a request is ever answered.

**Kill switch.** A requested halt is in the file or the row, and a running process has its event
set or will see the file.

**Gate.** `Exclusive` says that a symbol has at most one order at the broker (a working entry,
resting legs or an exit), that a symbol somebody is about to send for has none, and that no two
coroutines wait with the same symbol; `OneOrder` follows by counting coroutines. It is what makes
the gate's verdict last through the wait for the pacer: the rows were written with the verdict, so
nobody else passes. `Room` says that each counter plus the entries on their way stays within its cap plus
the number of approvers: a verdict is given below the cap, at most the other coroutines are on their way,
and sending moves one from the second number to the first. `Cool` says that a queued entry's symbol has
cooled down, which only sending an entry of the same symbol could undo, and `Exclusive` rules that out.
`ModeStored` says that the mode in memory is the stored one, which a restart needs for `ManualHolds`.

**Trading day.** `DayOfClock` ties the day to the clock, `CycleKeepsItsSession` says that what a cycle holds
is the session of the minute it began in, which is the minute of its account. At an entry that account is at
most `MaxAccountAge` old and the minutes to the close it judges by were more than `NoEntry`; by
`GapAssumption` more than `Flatten` of them are left, so the session is still today's and its close ahead.
`PlannedFirst` says that nobody is about to trade, and nothing has been counted, unless the day is marked as
planned, and that the counter holds what was entered. A pass begins, and resets, only while the day is not
marked, so it never resets a counted entry.

**Market data.** `TasksSound` says what each coroutine has in hand at each of its awaits. `DropClear` says
that what the cycle is about to unsubscribe is not listed, and not held either but for what a person approved
since the update chose it (`late`): the cycle itself enters nothing while its update is under way. `StreamsSound` is about sessions that were renewed (`Fresh`):
the adapter's caches hold nothing of an earlier session, a subscription under way has its line and its
quote, and a member of the service's set has its streams except between the two requests that end them.
`StreakIsWaited` bounds a challenger's streak by the updates it has waited for, which are history.

What `Update` yields is proved for every list of scores: the new list holds what is protected of the old
one, and members with data leave it because the slots no longer suffice or for a challenger that has waited
(`UpdateYields`). Its fold is reasoned about through the least position at which a claim fails (`LeastOf`, from the
well-foundedness of the naturals), which needs no induction theorem with an operator as its parameter:
`ContestsFollow` gives the recurrence of `Contests` for every input, and `ContestsYield` what each round
keeps: no more members go than challengers come whose streak was complete.
`BestCounts` says that `Best` takes as many as there are, up to the number asked for.

**Language model.** `SlotInv` counts the holders of the semaphore's slots, which include those who sleep
between attempts: a finite set that grows by one only when there is room, and contains the questions in
flight. `WordsHeard` says that the risk officer is asked after the trader's yes, and that a yes which has
been returned was heard, so that the step with which the cycle counts an entry has both voices; `IdeasHeard` that
an idea was queued after the trader's yes, which is all an approval can rest on.
`RestsOnlyShort` says that the decision loop comes to rest only by a compaction or with a notebook within
its limit; the plan of a session is noted without that look, and `NotebookBounded` leaves it out.

Only model-checked is liveness (`ReconcileTerminates`, `EntryExpires`, `DeadSessionHalts`, `Reconnects`,
`FlattenHappens`, `CallEnds`, `DisabledGoesQuiet`), which is out of the prover's reach, and what
`orders_faults` shows of `ReconcileProtects` with a lost connection and one bracket.

## 5. Plan

1. A store that fails, in `OrderManager`: what still holds when a save is logged and ignored.
2. A composition of `Gateway` and `OrderManager`, in which reconciliation is the connection's hook.
3. Bounds of the token bucket and the historical pacer over a clock.
4. Proofs: `LoneEntry` and `ReconcileProtects` with lost connections, under the premise that no bracket is
   placed while `reconcile()` runs, which is what the documentation says of the gate.

## 6. Not modelled

Indicators and features (floating-point formulas); position sizing (stateless arithmetic, which
`tests/test_sizing.py` tests on generated inputs, and whose result the gate checks again); prompts and
providers (text and network I/O); configuration parsing; logging, the scanner and read-only pages. The
token bucket and the pacer measure real time; every module has their waits wherever the code calls them.
`PROJECT.json` lists every component with its status.
