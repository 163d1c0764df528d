# xAuby in TLA+

xAuby is an automated trading engine: strategies look at candles, a
single-threaded loop turns their signals into orders on an exchange (OKX
perpetual swaps in the live configuration), and a SQLite database keeps what the
engine believes. A web control plane (`xauby/saas`) hosts one engine per tenant.
These modules model the parts where money can be lost by a wrong order of steps:

* the agreement between the database row, the position and the stop orders the
  exchange keeps (`LivePosition`), and what that promises a reader who cares for
  neither orders nor crashes (`PositionPromise`);
* the guard that every call to the exchange passes (`ApiGuard`);
* who may open, keep and close a position when several pairs, a regime router,
  manual orders and confirmed buys compete (`TradingDesk`);
* which tenant's engine runs, and whether it trades live (`ControlPlane`);
* whether the virtual money of simulation mode stays explained by the engine's own
  books (`PaperTrading`).

## Inventory

| Part | State | Operations | Correct when |
| --- | --- | --- | --- |
| Live position (`engine/orders.py`, `brokers/live_broker.py`) | the `trade_states` row; on the exchange the position and its stop orders | open, close, partial take-profit, place / poll / resize / restore the stop | the tracked stop is the stop in force and covers the position; nothing is closed or booked twice |
| Engine loop (`engine/loop.py`) | where a tick is; management mode | tick: poll stop, manual order, wait cycle, handoff, entry, exit, reverse, trail | one action per tick; no entry over an open position; a trail never loosens the stop |
| Reconciliation (`engine/reconcile.py`, `exchange_close.py`) | queue of unconfirmed closes | adopt, sync, reset, confirm from history, sweep orphans | row and exchange converge; every close is booked; no entry while one is unconfirmed |
| Symbol context (`engine/symbol_context.py`) | halt, pending flag, wait cycles, semi-auto confirmation | set / clear halt, consume wait, confirm or expire | a safety halt is not lost; an expired confirmation never trades |
| Database (`database/db.py`) | rows, closed trades, reconciliation jobs | one transaction per write | a close and the reset of the row are one transaction; a job is idempotent |
| Entry gates (`engine/loop.py`, `engine/base.py`) | several symbols' rows, the semi-automatic ask | count open positions, ask, confirm, expire | never more than `max_open_positions`; only a confirmed buy trades |
| Regime router (`engine/regime_*.py`) | confirmed / pending regime, counters | debounce, no-trade, recover, hand off, force close | no entry in a regime that forbids trading; a position keeps its strategy |
| Manual orders (`saas/app.py`, `saas/store.py`, `runtime/manual_orders.py`) | the challenge row, one JSON file | preview, confirm, write, claim | an order is executed at most as often as it was written, under one key, and never late |
| Simulated broker (`brokers/sim_broker.py`) | cash and one ledger per pair, in memory and in a file | open, close, part close, mark to market | cash, ledgers, rows and closed trades agree as long as no order is torn |
| Exit rules (`runtime/exits.py`) | none | fixed and partial take-profit, minimal-ROI ladder, trailing | a full exit wins the tick; the partial one happens once |
| API resilience (`api/resilience.py`) | breaker state, tokens | admit, succeed, fail | an order is never held back; the breaker recovers; no probe is lost count of |
| Control plane (`saas/*`) | accounts, tenants, approvals, keys; two files and a systemd unit per tenant | sign in, start, stop, connect, activate, deactivate, promote, suspend, remove | slots are bounded; live trading needs tested keys and an approval; off means off, whatever fails half way |
| Everything else | | shadow trading, notifications, UI, replay, backtests, strategies, analytics | no effect on positions |

The loop is the only writer of the row. The exchange is the concurrent actor: a
stop may trigger, an order may fill late or in part, and the account owner may
trade by hand between any two calls. Every call may fail before it has an effect
or after it (the answer is lost). The process may die between any two steps; the
database survives, the symbol context does not.

## Plan

| Step | Modules | State |
| --- | --- | --- |
| 1 | `LivePosition`, `MCLivePosition`; proofs in `LivePositionProofs`, `LivePositionStopProofs` | done |
| 2 | `ApiGuard`, `MCApiGuard`, `ApiGuardProofs`: breaker and token bucket under concurrent callers | done |
| 3 | `ControlPlane`, `MCControlPlane`; `ControlPlaneProofs`, `ControlPlaneSafetyProofs`: store, files and units under the handlers of the web application | done |
| 4 | `RegimeRouter`, `ManualOrders`, composed by `TradingDesk`; `MCTradingDesk`, `TradingDeskProofs` | done |
| 5 | `PositionPromise` and the mapping `LivePositionPromise`; `LivePositionPromiseProofs` | done |
| 6 | `ExchangeClose`: the match of a close with the position history and the split of realised PnL over legs, against a reference definition | open |
| 7 | `EntryOrder`: LIMIT entry, cancel, market fallback, late fill (the shipped configuration enters at market) | open |
| 8 | `PaperTrading`, `MCPaperTrading`, `PaperTradingProofs`: the simulated broker under the exit rules and the engine's books | done |
| 9 | `DeadMan`: heartbeats, the watchdog and the restart preflight | open |

Order: what can lose money first, and within that what more than one actor
touches. Theorems, in order: type correctness, the tracked stop, the trailing
level (1); the breaker and its probes (2); capacity (3); the limit, the regime
gate and the confirmations (4); the refinement (5); sessions, removal, keys, what
is off and what fails (3); cash and ledgers (8); the books of live positions (5).
Every invariant and every safety property of a step that a passing run checks has a
theorem now. Next: an abstract specification of a tenant (off, simulated, live) that
`ControlPlane` implements, on the invariant proved here.

## LivePosition

One symbol, one live swap account in one-way mode, OKX.

State and code:

| Variable | Code |
| --- | --- |
| `local` | the `trade_states` row (`save_trade_state`): state, side, quantity, stop level and id, management mode, partial take-profit flag; `born` stands for `opened_at` |
| `ctx` | `SymbolContext`: halt and its kind, pending reconciliation, wait cycles |
| `pending` | rows of `exchange_close_reconciliations` not completed, with the key of `reconciliation_key` |
| `pc`, `op` | the next call of the engine and the local variables it carries there |
| `net`, `stops`, `inflight` | the exchange: position, stop orders, entries that have not filled |
| `entries`, `epoch`, `left` | bounds: orders sent, rows opened, faults left |
| `closed`, `booked`, `tpLegs` | history, for the properties |

A step of the engine is one exchange call with the code up to the next call; a
database write after a call that had an effect is a step of its own. So a handler
such as `execute_partial_tp` is the chain `TpMarket`, `TpBook`, `TpCancel`,
`PlaceStop`, `SaveRow`, and the exchange or a crash can come in between. A step
without a visible effect in between (a log line, an event) is not one.

Quantities are units that can be traded, so the code's dust rules are absent. A
stop price is a level that grows toward profit. Prices are absent: a signal, an
exit rule or a trigger may come at any tick.

Faults are given by a budget per kind, so that a run says which it allows:
`call` (no effect), `landed` (a close or a stop has its effect, its answer is
lost), `late` (the answer to an entry is lost, it fills later), `partial`,
`history` (the close is not in the position history yet), `crash`, `outside`.

Assumed of the exchange: an order id that is still referred to is not used
again and its final state can be asked for; a reduce-only order never reverses a
position; a cancel of an order that is over is an error. That error has the
textual codes of the OKX adapter, so the branches for the codes -2013 and -2026,
which belong to another exchange, are not taken.

### Runs

| Run | Faults | Shows |
| --- | --- | --- |
| `answers` | one each of `call`, `landed`, `history`; 2 entries of 2 units | `TrackedStopMatches`, `StopCoversPosition`, `BookedWithinClosed`, `EntersOnlyWhenFlat`, `StopNeverLoosens`, and the refinement `KeepsPromise` |
| `crash` | one each of `crash`, `call`, `landed`, `history`; 1 entry of 2 units | `IdleOnlyWhenFlat`, and the four liveness properties |
| `venue` | one each of `late`, `partial`, two of `outside`; 1 entry of 4 units, 1 level | `TypeOK`, `StopCoversPosition` with fills in part, `Converges` |
| `nostop` | `DisableStopLoss`, two each of `crash`, `landed`, `history`; 3 entries of 4 units | `BookedWithinClosed`, `EntersOnlyWhenBooked`, and the refinement with its liveness, `FulfilsPromise` (which implies `IdleOnlyWhenFlat`, `EntersOnlyWhenFlat`, `Converges` and `ClosuresBooked` there), in the configuration the live XAU pair uses |
| `tp_twice` | one `crash` | `PartialTpOnce` is violated |
| `short_partial` | one `partial` | `EntersOnlyWhenFlat` is violated |
| `halt` | one `outside` | `SafetyHaltStays` is violated |

Bounds. Two units are the least that can be closed in part and split by a partial
take-profit; four let it happen twice, and leave something over when a stop that
filled one unit is subtracted twice (`venue`). Two entries give a position, its close and
a second position (also a reverse) that stale state of the first could harm. Two
levels let a trail move once and be undone (`venue` and `nostop` do not ask about
levels and have one). Two interventions of the owner are a close and an entry of
the other side before the engine looks. Six stop ids are never used up: at
most one tracked, one about to be tracked and the orphans of the faults. One
fault of a kind is the case a handler is written for; combinations of kinds are
what the runs differ in. `crash` combines the most kinds and follows one position
from its entry to the sweep after its end; what a crash does to the next entries
is the question of `nostop`. In `nostop` the state is small enough for two of each.

Fairness. The loop is `while True`: it catches every exception and sleeps a fixed
time, so a step that can be taken is taken (`WF_vars(Engine)`), and at rest both
the tick and, once a minute, the reconciliation get their turn (`SF_vars`, since
either is disabled again and again while the other runs). No fairness is asked of
the exchange, the account owner or a fault.

### Properties in words

* `TrackedStopMatches`: the stop the row names exists, and while it is live it
  closes the row's side at the row's level.
* `StopCoversPosition`: a live tracked stop covers what is held, exactly as long as
  everything fills whole (`answers`, and `StopCovers` for all values), and but for
  less than half a lot for each fill in part (`venue`, which has one such fill; the
  owner trading by hand is exempt).
* `BookedWithinClosed`: closed trades plus queued closes never exceed what the
  exchange closed, by more than one lot for each crash, while orders and stops fill
  whole: both runs and the theorem are without fills in part.
* `EntersOnlyWhenFlat`, `EntersOnlyWhenBooked`, `IdleOnlyWhenFlat`,
  `StopNeverLoosens`: what a step may not do.
* `Converges`, `ProtectionRestored`, `ClosuresBooked`, `OrphansSwept`: what must
  happen in the end.

### Where code and documents disagree

* `tp_twice`: the flag of the one-shot partial take-profit is written after the
  close, the booking, the cancel and the new stop (`orders.py:969`).
* `short_partial`: a SHORT entry filled in part counts as a failure
  (`live_broker.py:190`), and the next tick may enter again.
* `halt`: a close confirmation lifts a halt it did not set
  (`symbol_context.py:157-166`).

Seen while modelling, with no run of their own: with a crash, a failed
reconciliation at start-up and a late history, an entry can be sent while a close
waits for its confirmation, because the pending flag is in memory and the retry
is only on the path where both sides are flat; a crash between the write of a
closed trade and the save of the row books the units twice (`BookedWithinClosed`
says how many: at most the lot of one entry for each crash); a partial
take-profit books and subtracts the quantity asked for, not the quantity filled,
so that a partial fill leaves a residue when the row is closed; the save after a
partial LONG close drops the management mode and the partial take-profit flag;
`Synced` copies a smaller quantity from the exchange without a closed trade, and a
stop that stays PARTIALLY_FILLED is then booked again at each tick, without any
crash. Its filled part is then also subtracted twice: of four units one is filled,
the reconciliation lowers the row to three, the next tick reads the stop and asks for
a new one of two (`orders.py:1813-1852`) while three are held, and later
reconciliations raise the row and not the stop. That is why `StopCoversPosition`
allows a shortfall: less than half a lot, because nothing is replaced once the filled
part reaches the row's count, and because a partial take-profit asks for half. A LONG
close leaves its stop to the sweep; both sweeps of the reconciliation look for LONG
stops only, so a stop of a SHORT can outlive it.

### Proofs

Three theorems hold for every lot, level, bound and fault budget (the assumption
`LivePositionAssumption` only gives the constants their types). Each has an
inductive invariant that contains the one before, helper lemmas that say what
the operators return or keep, one lemma per group of actions, and one lemma that
combines the groups.

* `TypeCorrect == Safe => []TypeOK`. `TypeOK` is not inductive: `CloseBook`
  writes a row of `local.qty - op.got` units, a count only because the quantity
  carried there is at most the row's. The invariant adds that
  (`BooksAtMostRow`): a market close fills at most what was asked for
  (`MarketCloseType`), and between the fill and the save nothing else writes the
  row.
* `TrackedStopCorrect == Safe => []TrackedStopMatches` (`LivePositionStopProofs`).
  The row on disk is right because the row that replaces it was right before it
  was saved: `StopInv` says that a row about to be saved matches its stop
  (`SavesMatching`), that a tick after a take-profit too small to split still
  names the tracked stop (`HoldsSameStop`), and that a trailing update names it
  until it gives it up (`MovesTracked`). Of the venue the proof needs `Keeps`: a
  stop that a row names may end but is neither forgotten nor turned into another
  order, also when the engine places one more (`AcceptKeeps`).
* `StopTightens == Safe => StopNeverLoosens` (`LivePositionStopProofs`).
  `LevelInv` adds that neither the row to be saved nor the level to fall back to
  is looser than the row on disk (`WritesTighter`), that no row is younger than
  the last one opened (`BornBefore`, so that a row that changed side counts as
  another position), and that a reverse starts from an idle row (`ReversesIdle`).

`StopInv` and `LevelInv` were checked with TLC on the instance of `answers` first.

`StopCoversPosition`, `EntersOnlyWhenFlat`, `EntersOnlyWhenBooked`,
`IdleOnlyWhenFlat` and `BookedWithinClosed` are proved too, for an undisturbed
account: see the next section. Left to TLC are the liveness properties
(`Converges`, `ProtectionRestored`, `ClosuresBooked`, `OrphansSwept`), which need
fairness.

## Refinement: PositionPromise

`PositionPromise` is what is left of `LivePosition` for a reader who cares for
neither orders, stops, quantities, answers nor crashes. It has three variables,
and `LivePositionPromise` maps them:

| Abstract | Is | In the code |
| --- | --- | --- |
| `row`: idle or bought | `local.state` | `trade_states.state` |
| `venue`: flat or held | `net = 0` or not | the position on the exchange |
| `queued` | `pending # {}` | an open row of `exchange_close_reconciliations` |

Its steps are `Enter` (only where nothing is held, recorded or queued), `Record`
(the row follows the fill), `Leave` (a close or a stop fills), `Close` (the row is
given up, only over a flat venue) and `Settle` (a queued close is booked). Its
fairness says that nothing is left half done: what is held is adopted, a row
without a position is closed, a queued close is booked.

`KeepsPromise` is the safety part, checked by `answers`; `FulfilsPromise` adds the
fairness, checked by `nostop`, where the process dies twice.

The promise is made under `Undisturbed`: orders fill at once and whole, nobody
else trades on the account, and either no REST call fails or the process does not
die. Each part is needed. A late or a partial fill is a position the row does not
know (`short_partial`), the owner's trades are not the engine's, and a restart
whose first `get_positions` fails goes on with the row on disk: if that row is
idle over a position, the next tick enters on top of it.

`LivePositionPromiseProofs` proves six theorems, each for every lot, level, bound
and fault budget that is `Undisturbed`: `PromiseKept` (`KeepsPromise`),
`StopCovers` (`StopCoversPosition`), `EntryNeedsFlat` (`EntersOnlyWhenFlat`),
`EntryNeedsBooked` (`EntersOnlyWhenBooked`), `IdleNeedsFlat` (`IdleOnlyWhenFlat`)
and `NothingInvented` (`BookedWithinClosed`). All rest on one invariant,
`PromiseInv`, which is `StopInv` with

* `Calm`: the faults the assumption rules out have not been spent, nothing is in
  flight;
* `RowTrue`: a bought row covers what is held, and its live stop would close all
  of it;
* `IdleTrue`: over an idle row something is held only while its row is on the way
  to the disk, or lost by a crash and not yet adopted;
* `Carried`: the row, quantity and stop that a step carries to the next are still
  true of the venue when they get there, whatever stop fills in between;
* `QueueTrue`: a queued close keeps the symbol halted, so the engine cannot reach
  an entry.

That is why the abstract guard of `Enter`, three facts on three stores, follows
from where the engine is. The lemmas go by what an action does to the position:
one that lowers it (`LessMoves`), one that leaves it (`StillMoves`, `PlainStep`),
the entry (`EntryMoves`), then one lemma per group of actions and
`PromiseInductive`, whose conclusion is the invariant and the abstract step
together. The fairness of the abstract specification is only model-checked.

`NothingInvented` is about the books, which the abstract position does not see. What
the venue has closed reaches them late and on several ways: a closed trade at once,
a queued close that the history confirms, or a row that the reconciliation finds
without a position. `BookInv` is `PromiseInv` with

* `BooksBalance`: booked, queued and `Gone` are at most what the venue closed and
  one lot for each crash. `Gone` is what the row still shows, less what the venue
  still holds: units closed that the engine has yet to find missing. Of the row in
  hand it is that row's count, since an engine that has booked a leg and not saved
  the rest knows better than the database;
* `OneLot`: neither row nor position exceeds one entry. A crash forgets the row in
  hand and goes back to the one on disk, so `Gone` grows by one lot at most;
* `QueueOne`, `ConfirmsQueued`: at most one close is queued, and a confirmation is
  of that one. An entry waits until the queue is empty, so the total of the queue
  is only ever needed for none and for one (`QueuedUnits`, `WeightsOne`), and a
  confirmation moves its units from the queue to the books (`ConfirmedBooks`).

It was model-checked first: on the instance of `nostop`, with lots of three units,
stops and two crashes, and on the instance of `answers`. The allowance is needed: on
`nostop`'s instance one crash books three units of a lot of four twice (a reduction
whose answer was lost has closed one unit; the engine closes the other three, books
them, and dies before it saves the row of the one unit it believes is left).

## ApiGuard

One CCXT client shared by the engine thread, the balance refresh (`loop.py:750`)
and the candle pool (`loop.py:908`), with the breaker and the bucket armed as in
`bot_config.yaml`. `LivePosition` sees what comes out of it, a call that fails
before its effect; `ApiGuard` says when.

| Variable | Code |
| --- | --- |
| `call` | per thread: at the gate, waiting for a token, at the venue, refused; its method and the one that follows the first load of the markets |
| `state`, `failures`, `halfCalls` | `CircuitBreaker._state`, `_failure_count`, `_half_calls` |
| `cooled` | `recovery_timeout` has passed since `_last_failure` |
| `tokens` | `TokenBucketRateLimiter._tokens`, in whole tokens |
| `loaded` | `CCXTClient._markets_loaded` |
| `faults` | failures the venue may still produce (the bound) |
| `probes`, `refused` | history: the probes of this HALF period on their way, and those the bucket turned away |

A step is what a thread does under one lock: `Gate` (`is_available`), `TakeToken`
and `Throttle` (`acquire`), `PassGate` (a critical call, which takes a token if
there is one), `Answer` and `Fail` (the call at the venue with `record_success` or
`record_failure`). `Begin` starts an operation of the client, by way of
`load_markets` while the markets are not loaded; `Fail` of `cancel_order` may go on
to the algo cancel, the way the client does when the venue does not know the
order. `Cool` and `Refill` are the passing of time.

| Run | Shows |
| --- | --- |
| `guard` | three threads, threshold 2, two counted probes, one token, three faults: `TypeOK`, `TrippedAtThreshold`, `ProbesAccounted`, `ReadsResume`, `CallsReturn` |
| `held_cancel` | `OrdersNeverHeld` is violated, two faults, six tokens |

Bounds. Three faults open the breaker (two) and fail one probe, so that a second
HALF period follows a first; three threads can be the three probes of a period at
once, or two of them and a late answer from before. One token makes the bucket
empty at any moment; in `held_cancel` it is never the bucket that refuses. The
shipped threshold is 3 and the bucket 20: nothing in the code depends on either
beyond zero and the limit, and the theorems hold for all values.

Fairness. Each thread polls in a loop and runs its call to the end: the HTTP
timeout ends a call at the venue, `acquire_timeout` a wait for a token (the action
`TakeToken \/ Throttle` is always enabled there). Nothing is asked of `Refill`, so
`CallsReturn` holds with a bucket that stays empty.

What it shows. The breaker is tripped exactly while the failures since the last
success have reached the threshold (`TrippedAtThreshold`). A HALF period admits one
probe more than `half_max_calls`, because the call that turns OPEN into HALF is not
counted (`ProbesAccounted`). A breaker that opened closes again, with one way out:
a probe that is admitted and then waits too long for its token reports nothing,
and when that happens to all of a period's probes no read is admitted until an
order gets through (`ReadsResume`). With the shipped rate of 10 calls a second and
30 s of patience this needs a clock jump or a very small configured bucket.

`held_cancel` is a defect: an OKX stop is cancelled with
`privatePostTradeCancelAlgos`, which is not among the exempt methods
(`resilience.py:219`), so that an open breaker refuses a call that changes an
order. The first `load_markets` in front of an order is gated in the same way.

Three theorems hold of the guard, for any finite set of threads and any limits
(`NumbersAssumption`): `TypeCorrect == Safe => []TypeOK`,
`BreakerTrips == Safe => []TrippedAtThreshold` and
`ProbesBounded == Safe => []ProbesAccounted` (`ApiGuardProofs`, 275 obligations).
The count of probes is only inductive with `ProbesOnTheirWay`: a thread counted as
a probe waits for a token or an answer, so that a thread at the gate is not yet
one and adding it counts one more; outside HALF there are none. The counting uses
the library's theorems on finite sets (`CountProbes`).

Seen while modelling, with no run of its own: the comment at `resilience.py:122`
says that only an exempt call can succeed while the breaker is OPEN; a read that
was admitted before the breaker opened, and whose answer is slow, does so too, and
ends the recovery time early.

## TradingDesk

The decisions of `_tick_body` over several pairs, in one thread, with the router it
consults (`RegimeRouter`), the manual orders it claims (`ManualOrders`) and the
owner's taps on Telegram. How an order is carried out is `LivePosition`'s subject;
here an order takes effect or fails.

| Variable | Code |
| --- | --- |
| `ctx` | the router's fields of `SymbolContext`: strategy, confirmed and pending regime, phase, counters, target of a handoff |
| `challenge` | rows of `order_challenges`: draft, confirmed, queued, with the idempotency key |
| `click` | confirm requests in `order_confirm`: what each has read and does next |
| `file` | `manual_order_request.json` and whether it is under two minutes old |
| `pos` | `state`, `position_side`, `management_mode` of each pair |
| `ask` | `_semi_auto_pending`, `_semi_auto_confirm`, and whether the ask has expired |
| `turn`, `at`, `claimed` | the pair the tick has reached, how far it is, the request it has read |
| `settled`, `written`, `owed` | history: a handoff has ended in a regime that forbids trading; keys written; writes less executions |
| `desk`, `clicks`, `upsets` | the configuration and the bounds |

A pair's tick is `Skip`, `StopHit`, or `Look` (the claim opens the file), `Claim`
(it unlinks it), then `Act` (a manual order) or `Trade` (one closed candle through
the router, the forced close, then entry, exit or handoff). The web application's
requests interleave with all of it, so a second request can be written between the
read and the unlink of the first. `HotReload` is a changed whitelist,
`EngineCrash` loses the contexts and the asks and keeps the rows and the file.

Abstractions: the strategy's signal, the classifier's regime and its confidence are
choices; the gates that depend on neither regime nor positions (pause, cooldown,
sentiment, feed, socket) are the environment's right to refuse an entry;
`manual_allowed_sides` equals `allowed_sides`; the set of routed pairs survives a
reload. The phase `NO_TRADE` of the code is not in the type: the branch that sets it
cannot be reached, since recovery returns before it. The terminal's manual mode is
left out.

Run `desk`: two pairs, `max_open_positions` 1, three regimes of which one forbids
trading, two strategies, debounce and recovery of two candles, no forced close after
a count. Four desks share the run, so that each meets what is hard about it: three
confirm requests (two at a time) with one upset in `full_auto`; routing with two
upsets; routing with one request; `semi_auto` with routing and one upset. Two pairs
are the least that can compete for one place; debounce and recovery of two is the
least that can be interrupted; two requests at a time are the least that race, and
the third is the retry after either. A crash and a reload in the same behaviour is
the second desk's question.

Properties:

* `OneOrderPerConfirmation`: an order is put to the engine under one key, and is
  executed at most as often as it was written;
* `LimitHolds`: only a buy confirmed by Telegram takes the engine past
  `max_open_positions`;
* `ForbiddenPairStaysOut`: a pair whose regime forbids trading is entered only by
  such a buy, or after a handoff that ended in that regime;
* `OwnerManages`: only a reload or a restart gives an open position to another
  strategy;
* `ManualPositionWaits`: a manual position is ended by its stop or by hand until
  its strategy agrees.

The exceptions in these statements are the code's, not the model's; the four action
properties would be false without them. No fairness is assumed and no liveness
stated: the code promises no progress of a regime phase (below).

Proofs (`TradingDeskProofs`): all six are theorems, for any pairs, regimes,
strategies, mapping, thresholds, keys and numbers of requests. The invariant
`DeskSafe` has three parts. Of the router (`RouterInv`): a handoff has a target, and
a pair whose regime forbids trading blocks entries unless the history says that a
handoff ended there. Of the orders (`OrdersInv`): a key is written only once it is
the key of the confirmed row, so a second request under another key is refused
before it writes. Of the composition: what the engine still owes is at least the
request it has claimed plus the file it has not (`Owes`), so that an unlink that
removes a newer request cannot make it negative.

Where it differs from the documents: `docs/audit_logic_workflow_2026-07-23.md` says of a manual
trade submitted twice that the challenge "prevents duplicate execution"; a retry
under the same key before the row says queued writes the file again, and both may
run. It says that two pairs that signal together share the open-position limit; a
confirmed buy does not look at it. `docs/trading-flow.md` says that recovery
requires `recovery_candles` tradeable candles; a regime equal to the confirmed one
is never reported as confirmed (`regime_debounce.py:36`), so neither recovery nor
the count towards a forced close advances on it. Seen as well: a restart forgets
that trading was forbidden; a semi-automatic SHORT signal enters without
confirmation and also asks for a LONG; a tap goes to the first pair with an ask.

## ControlPlane

The store, the files and the units of the tenants, under the handlers of
`saas/app.py`. A handler touches all three and they share no transaction.

| Variable | Code |
| --- | --- |
| `account`, `session` | `users.account_status`; the user holds a session |
| `row` | `tenants.status` and `live_status` |
| `approvals` | `live_approvals` of the tenant, oldest first |
| `conn` | `exchange_connections.status`; history: whether the stored keys have passed a probe |
| `workspace` | `supervisor.workspace_ready` |
| `files` | the mode `bot_config.yaml` and `coin_whitelist.json` ask for |
| `unit` | the systemd unit; what the running engine has derived from the files at boot, and the whitelist it has read since |
| `req` | the request in flight: the steps it has left, the row it read first, its copy of the files, the status a preflight found |
| `parked`, `overtaken` | the request that rests while another of its tenant runs; history: the tenants that have had two in flight |
| `requests`, `faults`, `crashes` | bounds |
| `last` | history: the request that returned last |

A handler is a sequence of effects, one per transaction, file or systemctl call.
`Path(o, r)` gives the sequence of operation `o` on a row that reads `r`;
`Rescue(req, s)` what its `except` and `finally` blocks leave to do once step `s`
has raised; each effect is an action. `SystemctlTimesOut` raises and has its effect
(30 s of patience, 45 s for a unit to stop), `StepFails` raises without.
`ControlCrash` drops every request in flight, `EngineDies` ends an engine, which
systemd may retry.

The handlers are synchronous endpoints, run in threads, and no lock is held from one
effect to the next. So requests of different tenants interleave, and those of one
tenant as well: `Overtake` begins a request while another one has not returned,
`Switch` lets the two take turns. A handler that was overtaken goes on
with what it read before (the row, the files, the keys, the status of the row at a
login), and a probe puts its verdict on whatever keys are stored by then.

Assumed: a tenant has at most two requests in flight (a third would only add to what
is lost for a tenant that is exempt already, see below); a transaction of the store
does not fail; a file is replaced or not; tenants hold different exchange accounts.
PIN, MFA, the age of a test, certification and candidate checks are refusals before
the first effect, so a request that is refused there is one that did not begin. The
credential file of the engine is derived when its unit starts.

Run `control`: two pilots and one slot, so that one can be refused; three requests,
one fault, one crash anywhere. Everything may be asked for alice, who begins signed in
with tested keys or not at all, so that three requests are enough for an activation,
its failure and what follows; bob starts and stops, which is what competes for her
slot (`Traffic`). A stop or a change of keys may overtake (`Overtaking`): the one
frees the slot and the other replaces the keys under a request that has read them.
`CHECK_DEADLOCK FALSE`, since requests are bounded. Fairness: `HotReload` only,
because the registry looks at the whitelist every 30 s; nothing is assumed of requests.

Properties, of the tenants whose requests never overlapped:

* `SlotsBounded`: these tenants hold at most `max_active_engines` slots;
* `RunsCounted`: without a fault, each engine that runs belongs to a slot;
* `LiveFilesHaveTestedKeys`: live files never stand beside keys that no probe ever
  accepted; keys are not replaced under them (a later test may fail and leave them);
* `RemovedIsDead`: a removed pilot has no engine, session or keys;
* `OffMeansOff`: what returns without an error as stopped is stopped, and what left
  live trading cannot be started live from its files;
* `FailsSafe`: an activation or a promotion that fails leaves simulation files,
  unless live trading is approved, or the files were live beside an unapproved row
  before it began, which only a deactivation that failed half way leaves behind;
* `SessionNeedsWorkspace`: a session means a provisioned workspace;
* `FailedActivationStopsTrading`: after an activation that was undone the engine
  stops trading live, at the latest with its next look at the whitelist.

All of them speak of the tenants whose requests never overlapped (`Sequential`),
whatever the others do meanwhile. The restriction is the program's; stated for all
tenants, `SlotsBounded`, `RunsCounted`, `LiveFilesHaveTestedKeys` and `OffMeansOff` are
violated on this instance, `SessionNeedsWorkspace` and `FailsSafe` once every operation
may overtake (what happens is listed at the end of this section). For the host as a whole
it follows that the slots exceed the limit by at most the number of tenants whose
requests have overlapped.

The safety properties were also checked with every operation of both pilots and no
request that overtakes, at four requests without a crash and at two faults. `FailsSafe`
and `FailedActivationStopsTrading` speak of at most one failure: a second one may hit
the undo itself, and then nothing tries again.

Proofs (`ControlPlaneProofs`): `TypeCorrect`, and `CapacityHeld ==
Safe => []SlotsBounded`, for any tenants, traffic and bounds, and whichever operations
may overtake. The limit is not inductive: a handler that writes `running` long after it
reserved would break it, were the slot gone. `PlanOK` says what the rest of a request
can do to the count: none of its steps raises it (`Plain`), or the tenant holds its slot
and no step before the write gives it up (`Raising`), or it writes back the status it
read (`Connecting`), or the one a preflight found (`Preflight`), which no other request
can have changed as long as none overlaps. A tenant that is overtaken leaves the count
of `SlotsBounded` for good; what it does later concerns only its own row.

`ControlPlaneSafetyProofs` proves the rest of the safety properties, for any tenants,
capacity, traffic, requests, faults and crashes: `SessionsProvisioned`
(`SessionNeedsWorkspace`), `RemovedStaysDead` (`RemovedIsDead`), `LiveFilesTested`
(`LiveFilesHaveTestedKeys`), `OffMeant` (`OffMeansOff`), `EnginesCounted`
(`RunsCounted`) and `FailuresSafe` (the action property `FailsSafe`).

None of them follows from the stores alone: between two effects of a handler the
store, the files and the unit disagree by design, and what they may be meanwhile
depends on how far it is. So the proof first gives a request a program counter. What
is left of it is a list of steps; `Flow(op, seen)` is the set of pairs of steps that
may follow each other in that handler, its rescue paths included, and the list is
always a `Walk` of that relation (`SafetyInv` by way of `Keeps`: `Entry` and
`RescueEntry` say where a path and a rescue path begin, and an effect takes the first
step off). `Now(t)`, the step a request is about to take, is then as good as a
program counter, and the invariant of one tenant, `TenantInv(t)`, is a table of what
is true at each place, besides `Sole` (nothing rests, what the request has read is
still so), in seven parts:

* `SetUp`: a session, and a login about to give one, has its workspace;
* `Removal`: a removed account has no request left, so nothing can revive it;
* `Keys`: keys are proved wherever the files, the row or a copy to be restored is live;
* `Off`: what `stop`, `deactivate` and `suspend` have already put out, step by step;
* `Asked`: a row that asks for live has a request that waits for approval;
* `Clean`: until the first fault, what runs holds its slot, at each place of a start;
* `Fails`: after one fault, how far the undo has come, and that an undo that is under
  way means that a fault was spent.

A step is then one effect of one tenant (`StepOf`), a request that begins, an engine's
own move, or a crash of the control plane that forgets the requests; each is shown to
keep the seven parts of its tenant and to leave the other tenants as they are. A
request that overtakes ends what is claimed of its tenant and touches no other
(`OverlapMoves`). The invariant was model-checked before it was proved. It holds
however many calls fail: where a property speaks of one failure, so does the part for
it. In `Rescue` the guards are disjoint, as the nesting of the handlers' `try` blocks
makes them, so that each failed step has one rescue path.

`FailedActivationStopsTrading`, a liveness property under the fairness of `HotReload`,
stays with TLC.

Seen while modelling, without a run: a deactivation whose `systemctl stop` times out
leaves by its `finally` (`app.py:2157`) with the row reset and the files still live,
so that the next start trades live without an approval, although `README.md:93` says
that an engine starts in guarded SIM mode and that live trading is a separate approval;
three requests and one fault lead there. The status `error` frees a slot although a
timed-out start may still bring the engine up, which is why `RunsCounted` speaks of no
fault; suspending and deactivating leave a requested approval pending, and an admin's
approval does not look at the account's status; a failed approval of a tenant whose
engine ran leaves its row at running.

What is lost when two requests of one tenant overlap; TLC finds each when the property
is stated for all tenants:

* `bot_restart` reads a row that counts (`app.py:1766`), or `bot_start` has reserved;
  `bot_stop` stops the engine and writes `stopped`; the first boots the engine, which
  now runs without a slot, with no fault and after a stop that reported success
  (`RunsCounted`, `OffMeansOff`);
* another tenant reserves the freed slot before the first request writes `running`:
  two tenants hold the one slot (`SlotsBounded`);
* an activation has read tested keys when `exchange_connect` replaces them, stops
  nothing because the row it read was not approved, and writes simulation files; the
  activation then writes live files beside the new keys (`LiveFilesHaveTestedKeys`);
* `exchange_test` reads the keys, `exchange_connect` replaces them, and the verdict on
  the old ones is written on the row of the new ones (`app.py:1891-1931`,
  `store.py:973`, whose `coalesce` keeps the new envelope): the next activation goes
  live on keys nobody has probed (`LiveFilesHaveTestedKeys` again);
* two logins, or a login and a reactivation, repair a workspace: one fails, the other
  succeeds and issues the session, and the first then writes `provision_failed`
  (`app.py:608-614`, `SessionNeedsWorkspace`);
* of two activations one has written a live file when the other finds no request left
  to approve; its undo fails once and marks the row, and the file stays live
  (`FailsSafe`).

## PaperTrading

Simulation mode: the `SimBroker`, the exit rules that decide when it closes, and the
rows and closed trades the engine writes after each of its fills. Broker and engine
keep the same trade in two places, and nothing ties the two writes together.

| Variable | Code |
| --- | --- |
| `cash`, `saved` | the balance file: quote balance and `ledgers` |
| `ledger` | `SimBroker._ledgers` |
| `row` | `trade_states`: side, entry price, quantity, `partial_tp_taken` |
| `booked` | the sum of `net_pnl` over `closed_trades` |
| `job` | what the engine has still to write after a fill |
| `exits` | the exit settings: `fixed_tp_pct` (of a short `risk.take_profit_pct`), `partial_tp_pct`, `minimal_roi` |
| `opens`, `upsets` | bounds |
| `funded`, `torn` | history: funding paid; the two halves of an order came apart |

`Open`, `Close` and `Bank` are the broker's half of an entry, a full exit and a partial
take-profit: ledgers in memory, then one file write that may fail (`Written`).
`SaveOpened`, `BookClosed`, `BookBanked` and `SaveRest` are the engine's half, one
database write each, and each may fail or be cut off by `EngineDies`. `MarkToMarket` is
`update_unrealized`, which charges a short its funding and writes the file at every
tick. Prices are integers chosen so that fee, margin and every share of them are
exact; the rounding of floats is not modelled. A partial take-profit is half of the
position, the default of `partial_tp_fraction`. The choice of a price, of an entry and
of an exit by the strategy is free; what is not free is that a take-profit or a rung
of the ladder turns the tick into a full exit, before the partial one is looked at.
`PaperAssumption` states what `validate_exit_config` refuses at start-up.

Run `paper`: a pair with both sides and a long-only pair on one file; three prices, so
that a position can gain 33, 50, 66, 100 or 200 percent; quantities of one (too small
to split) and two; a partial take-profit alone, below a ladder whose second rung lies
under it, and beside a fixed one; two entries; funding of up to two units on a
ledger; one failed write or one death. Two entries are two positions at once or one
after the other, and one upset is the case that nothing repairs. Deadlock is not
checked, since entries are bounded. No liveness is stated: an exit is the strategy's
choice.

* `CashExplained`: between two orders the broker's cash is the capital plus the booked
  profit, less funding and what the open rows tie up;
* `LedgersFollowRows`: a flat pair has no ledger that would refuse an entry, a short
  has the ledger that its close needs, with the row's quantity and price, and memory
  and file agree.

Both speak of behaviours in which no order was torn; restarts at rest and failed file
writes of `MarkToMarket` are included. Two details are in the statements because they
are in the code: a long's ledger is emptied by its first partial sale
(`sim_broker.py:213`), which neither refuses anything nor counts in the equity; and a
short's funding is taken from the cash but is not in `net_pnl`, because the row's
`funding_paid` stays zero in simulation.

Proofs (`PaperTradingProofs`, 1968 obligations), for any finite set of pairs, any
prices that `PaperAssumption` allows, any exit settings and bounds: `TypeCorrect`,
`CashMatchesBooks` (`CashExplained`) and `LedgersMatchRows` (`LedgersFollowRows`).
Both properties speak of the state between two orders, so the invariant `PaperInv` says
what is true in the middle of one. `Follows` ties a ledger to its row: an entry that
is not saved yet has its ledger and no row, an exit that is not booked yet has its row
and a ledger of the units that will remain (`Remaining`); the margin of a short is
that of its units; and file and memory agree. `Balanced` is the equation of
`CashExplained` with one term more, `Due`: what the cash has moved already and the
engine has still to write, step by step the cost of the entry, the profit and the
amount its units tied up (`Released`), or only that amount once the trade is booked.
The cash of the broker and the profit of the engine are computed by two formulas
(proceeds less fee and margin against price difference less both fees), and the proof
is where they are shown to be the same number, for both sides; whole numbers make it
exact (`RowsWhole`: every price is a multiple of leverage and fee denominator, and a
sale is at most what the row holds).

`AllTied` sums over the pairs with `SumFunction` of the community modules, a fold over
a set. Its equations are needed for every finite set, which is an induction over data
that the library's theorems cannot give here (they take an operator as a parameter).
They are proved by a least counterexample instead, from the well-foundedness of the
naturals and of the subsets of a finite set: of the sizes for which no sum exists there
is a least (`LeastNumber`, `AddsUpTo`), and of the sets that violate an equation a
minimal one (`MinimalSubset`, `TotalStep`). From that follow what a sum is
(`SumIsTotal`), that it is an integer (`SumType`), and what one changed term does to it
(`SumChange`).

What is lost when an order is torn (no document promises otherwise): after an entry
whose row was not saved the pair refuses every further entry ("Position already open");
a short whose close was not booked can never be closed ("No SHORT position"); a long
whose close was not booked is sold, and credited, again; a file write that fails in an
entry leaves the ledger in memory, so that the pair is blocked until a restart; a
partial take-profit whose closed trade was not written lowers the row all the same.

## Not modelled

Spot markets (balances, dust, asset reservation), sizing and fees, the LIMIT
entry with its market fallback, the matching of a close with the position history,
the legacy paper balance without the broker, a change of mode under an open
position, the watchdog, invitations and the second factors of the control plane, and
the components listed as `not_modelled` in `PROJECT.json` with the reason for each. Strategies, the regime classifier, replay and the analytics are numeric:
the models let a signal happen at any tick. A large part of the sources is the user
interface, the launcher, reports and tests, which keep no state that a wrong order
of steps could damage.
