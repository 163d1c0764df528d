---------------------------- MODULE LivePosition ----------------------------
(***************************************************************************)
(* The life of one live perpetual-swap position: the trade_states row the  *)
(* engine keeps in SQLite, the position and the protective stop orders the *)
(* exchange keeps, and the single-threaded engine loop that moves between  *)
(* them (xauby/engine/loop.py, orders.py, reconcile.py).                   *)
(*                                                                         *)
(* Grain of atomicity: a step of the engine is one exchange call together  *)
(* with the code up to the next one; a database write that follows a call  *)
(* with an effect on the exchange is a step of its own, so that the venue  *)
(* may move, and the process may die, between any two of them.             *)
(*                                                                         *)
(* Data abstraction: quantities are counted in tradeable units (dust that  *)
(* the code calls "not tradeable" does not exist), a stop price is a level *)
(* 1..MaxLevel that grows toward profit, and prices are absent: a signal   *)
(* or a stop trigger may come at any time.                                 *)
(***************************************************************************)
EXTENDS Integers, FiniteSets

CONSTANTS
  Lot,         \* units bought or sold by one entry
  MaxLevel,    \* tightest stop level the trailing logic can reach
  DisableStopLoss, \* the strategy works without a stop (disable_stop_loss)
  MaxStops,    \* bound: stop orders the venue keeps at a time
  MaxEntries,  \* bound: entry orders ever sent
  Budget       \* bound: how often each kind of fault happens

Faults == {"call",      \* a REST call fails and has no effect
           "landed",    \* a close or a stop takes effect, its answer is lost
           "late",      \* the answer to an entry is lost: it fills later on
           "partial",   \* an order or a stop fills in part
           "history",   \* position history does not show the close yet
           "crash",     \* the process dies and is restarted
           "outside"}   \* the account owner trades on the venue directly

ASSUME LivePositionAssumption ==
  /\ Lot \in Nat \ {0} /\ MaxLevel \in Nat \ {0}
  /\ MaxStops \in Nat /\ MaxEntries \in Nat /\ DisableStopLoss \in BOOLEAN
  /\ Budget \in [Faults -> Nat]

Sides  == {"LONG", "SHORT"}
Modes  == {"strategy", "strategy_handoff", "manual"}
Ids    == 1 .. MaxStops
Levels == 0 .. MaxLevel

Opposite(side) == IF side = "LONG" THEN "SHORT" ELSE "LONG"
Least(a, b) == IF a <= b THEN a ELSE b

VARIABLES
  local,    \* the trade_states row
  ctx,      \* SymbolContext: halt, pending reconciliation, wait cycle (memory)
  pending,  \* exchange_close_reconciliations rows not yet confirmed (durable)
  pc, op,   \* where the engine is, and what it carries there (memory)
  net,      \* venue: signed one-way position, positive when long
  stops,    \* venue: the stop orders; an id nobody refers to is used again
  inflight, \* venue: accepted entries, by side, that have not filled yet
  entries,  \* entry orders sent so far
  epoch,    \* number of position rows opened so far (stands for opened_at)
  left,     \* faults that may still happen
  closed,   \* history: units of position ever reduced on the venue
  booked,   \* history: units ever written to closed_trades
  tpLegs    \* history: partial take-profits filled for the current position

venueVars == <<net, stops, inflight, closed>>
dbVars    == <<local, pending, booked>>
vars == <<local, ctx, pending, pc, op, net, stops, inflight, entries,
          epoch, left, closed, booked, tpLegs>>

-----------------------------------------------------------------------------
(* Records *)

Row == [state : {"idle", "bought"}, side : Sides, qty : Nat, sl : Levels,
        slId : 0 .. MaxStops, mode : Modes, ptp : BOOLEAN, born : Nat]

IdleRow == [state |-> "idle", side |-> "LONG", qty |-> 0, sl |-> 0,
            slId |-> 0, mode |-> "strategy", ptp |-> FALSE, born |-> 0]

Stop == {s \in [st : {"none", "live", "filled", "cancelled"}, side : Sides,
                 lvl : Levels, size : Nat, done : Nat] : s.done <= s.size}

NoStop == [st |-> "none", side |-> "LONG", lvl |-> 0, size |-> 0, done |-> 0]
(* Of a stop that is over only how it ended is still asked for, and only if *)
(* the row on disk, or the one about to be written, has its id.             *)
Over(i, how) ==
  IF i \in {local.slId, op.row.slId} THEN [NoStop EXCEPT !.st = how] ELSE NoStop

Steps == {"rest", "boot", "poll", "decide", "hold", "flatSweep", "idleSweep",
          "ensure", "confirm", "retry", "partCancel", "place", "save", "tpBook",
          "tpCancel", "closeCancel", "closeMarket", "closeBook", "reverse",
          "trailCancel", "trailVerify"}

(* What the engine carries between two calls: the row it is about to write, *)
(* the stop level to fall back to, whether a failed placement is tried      *)
(* again at that level, whether a reverse follows the close, the quantity   *)
(* filled, whether a stop was cancelled for the close, and the next step.   *)
Op == [row : Row, fall : Levels, again : BOOLEAN, rev : BOOLEAN, got : Nat,
       restore : BOOLEAN, then : {"rest", "decide", "hold", "retry"}]

NoOp == [row |-> IdleRow, fall |-> 0, again |-> FALSE, rev |-> FALSE,
         got |-> 0, restore |-> FALSE, then |-> "rest"]

Closure == [born : Nat, qty : Nat]
ClosureOf(row) == [born |-> row.born, qty |-> row.qty]

Ctx == [pending : BOOLEAN, halted : {"no", "reconcile", "safety"}, wait : 0 .. 1]
FreshCtx == [pending |-> FALSE, halted |-> "no", wait |-> 0]

(* set_exchange_reconcile_pending(True, reason): whatever halt reason was   *)
(* there is replaced.                                                       *)
MarkPending(c) == [c EXCEPT !.pending = TRUE, !.halted = "reconcile"]
(* set_exchange_reconcile_pending(False); schedule_exchange_reconcile_wait  *)
ClearPending(c) ==
  [pending |-> FALSE,
   halted  |-> IF c.halted = "reconcile" THEN "no" ELSE c.halted,
   wait    |-> 1]
(* consume_exchange_reconcile_wait: a cycle is used up unless still pending *)
Consume(c) == IF c.pending THEN c ELSE [c EXCEPT !.wait = 0]
Waiting == ctx.pending \/ ctx.wait > 0

-----------------------------------------------------------------------------
(* The venue's ledger *)

Held(side) == IF side = "LONG" THEN (IF net > 0 THEN net ELSE 0)
                               ELSE (IF net < 0 THEN -net ELSE 0)
(* Mutant: the sign of the venue's quantity is kept. *)
SignedSize == net
Size == IF net < 0 THEN -net ELSE net
NetSide == IF net < 0 THEN "SHORT" ELSE "LONG"
Delta(side, qty) == IF side = "LONG" THEN qty ELSE -qty

(* A fill of q units on `side` (one-way mode: it nets the opposite side)    *)
Increase(side, q) ==
  /\ net' = net + Delta(side, q)
  /\ closed' = closed + Least(q, Held(Opposite(side)))
(* A reduce-only fill of q units against `side`                             *)
Reduce(side, q) ==
  /\ net' = net - Delta(side, q)
  /\ closed' = closed + q

(* A row of closed_trades. No more than this can ever be closed, or closed   *)
(* and booked again after a crash, so that a count that reaches BookCap     *)
(* already tells of a close that was invented.                              *)
BookCap == Lot * (MaxEntries + Budget["outside"] + Budget["crash"]) + 1
Book(q) == booked' = Least(booked + q, BookCap)

Spend(fault) == left[fault] > 0 /\ left' = [left EXCEPT ![fault] = @ - 1]

Init ==
  /\ local = IdleRow /\ ctx = FreshCtx /\ pending = {}
  /\ pc = "boot" /\ op = NoOp
  /\ net = 0 /\ stops = [i \in Ids |-> NoStop]
  /\ inflight = [side \in Sides |-> 0]
  /\ entries = 0 /\ epoch = 0 /\ left = Budget
  /\ closed = 0 /\ booked = 0 /\ tpLegs = 0

Goto(step) == pc' = step /\ op' = NoOp

-----------------------------------------------------------------------------
(* The venue moves on its own *)

LiveStop(i) == stops[i].st = "live" /\ Held(stops[i].side) > 0

(* A stop triggers and closes what is left of it, never more than is held.  *)
StopFires(i) ==
  /\ LiveStop(i)
  /\ LET q == Least(stops[i].size - stops[i].done, Held(stops[i].side)) IN
     /\ Reduce(stops[i].side, q)
     /\ stops' = [stops EXCEPT ![i] = Over(i, "filled")]
  /\ UNCHANGED <<dbVars, ctx, pc, op, inflight, entries, epoch, left, tpLegs>>

(* A triggered stop is a limit order: it can fill in part and stay open.    *)
StopFiresPartly(i) ==
  /\ LiveStop(i)
  /\ stops[i].size - stops[i].done > 1
  /\ Spend("partial")
  /\ Reduce(stops[i].side, 1)
  /\ stops' = [stops EXCEPT ![i].done = @ + 1]
  /\ UNCHANGED <<dbVars, ctx, pc, op, inflight, entries, epoch, tpLegs>>

(* An entry the engine gave up on fills after all.                          *)
LateFill(side) ==
  /\ inflight[side] > 0
  /\ inflight' = [inflight EXCEPT ![side] = @ - 1]
  /\ Increase(side, Lot)
  /\ UNCHANGED <<dbVars, ctx, pc, op, stops, entries, epoch, left, tpLegs>>

(* The account owner, or a liquidation, acts on the venue directly.         *)
OutsideClose ==
  /\ net # 0
  /\ Spend("outside")
  /\ Reduce(NetSide, Size)
  /\ UNCHANGED <<dbVars, ctx, pc, op, stops, inflight, entries, epoch, tpLegs>>

OutsideOpen(side) ==
  /\ net = 0
  /\ Spend("outside")
  /\ Increase(side, Lot)
  /\ UNCHANGED <<dbVars, ctx, pc, op, stops, inflight, entries, epoch, tpLegs>>

OutsideCancel(i) ==
  /\ stops[i].st = "live"
  /\ Spend("outside")
  /\ stops' = [stops EXCEPT ![i] = Over(i, "cancelled")]
  /\ UNCHANGED <<dbVars, ctx, pc, op, net, inflight, entries, epoch, closed, tpLegs>>

Venue ==
  \/ \E i \in Ids : StopFires(i) \/ StopFiresPartly(i) \/ OutsideCancel(i)
  \/ \E side \in Sides : LateFill(side) \/ OutsideOpen(side)
  \/ OutsideClose

-----------------------------------------------------------------------------
(* Order helpers: what the engine shares between its handlers *)

(* Ask for a stop that protects `row`; if none can be placed the row is     *)
(* saved with level `fall` and no stop id.                                  *)
GoPlace(row, fall, again, then) ==
  /\ pc' = "place"
  /\ op' = [NoOp EXCEPT !.row = row, !.fall = fall, !.again = again, !.then = then]

(* The venue gives a new stop an id that is free: not live, and not in the  *)
(* row on disk or the row about to be written.                              *)
FreeIds == {i \in Ids \ {local.slId, op.row.slId} : stops[i].st # "live"}
NextId(i) == i \in FreeIds /\ \A j \in FreeIds : i <= j

(* Mutant: the size of the stop is rounded down one step too far. *)
AcceptTooSmall(row, i) ==
  stops' = [stops EXCEPT ![i] =
    [st |-> "live", side |-> row.side, lvl |-> row.sl, size |-> row.qty - 1, done |-> 0]]

Accept(row, i) ==
  stops' = [stops EXCEPT ![i] =
    [st |-> "live", side |-> row.side, lvl |-> row.sl, size |-> row.qty, done |-> 0]]

Unplaced ==
  IF op.again
  THEN pc' = "place" /\ op' = [op EXCEPT !.row.sl = op.fall, !.again = FALSE]
  ELSE pc' = "save"  /\ op' = [op EXCEPT !.row.sl = op.fall, !.row.slId = 0]

PlaceStop ==
  /\ pc = "place" /\ op.row.sl > 0
  /\ \E i \in Ids :
       /\ NextId(i) /\ Accept(op.row, i)
       /\ op' = [op EXCEPT !.row.slId = i] /\ pc' = "save"
  /\ UNCHANGED <<dbVars, ctx, net, inflight, entries, epoch, left, closed, tpLegs>>

(* _place_sl_with_retry returns None without calling the exchange           *)
PlaceNothing ==
  /\ pc = "place" /\ op.row.sl = 0
  /\ Unplaced
  /\ UNCHANGED <<dbVars, ctx, venueVars, entries, epoch, left, tpLegs>>

PlaceFails ==
  /\ pc = "place" /\ op.row.sl > 0
  /\ Spend("call")
  /\ Unplaced
  /\ UNCHANGED <<dbVars, ctx, venueVars, entries, epoch, tpLegs>>

(* The venue accepted the stop but the answer never came.                   *)
PlaceLanded ==
  /\ pc = "place" /\ op.row.sl > 0
  /\ Spend("landed")
  /\ \E i \in Ids : NextId(i) /\ Accept(op.row, i)
  /\ Unplaced
  /\ UNCHANGED <<dbVars, ctx, net, inflight, entries, epoch, closed, tpLegs>>

SaveRow ==
  /\ pc = "save"
  /\ local' = op.row
  /\ Goto(op.then)
  /\ UNCHANGED <<ctx, pending, venueVars, entries, epoch, left, booked, tpLegs>>

(* cancel_order(slId): done when the venue still has the order live, else an *)
(* error; a call may also fail by itself.                                    *)
Cancelled ==
  /\ local.slId # 0 /\ stops[local.slId].st = "live"
  /\ stops' = [stops EXCEPT ![local.slId] = Over(local.slId, "cancelled")]
  /\ UNCHANGED left

NotCancelled ==
  /\ UNCHANGED stops
  /\ \/ Spend("call")
     \/ local.slId # 0 /\ stops[local.slId].st # "live" /\ UNCHANGED left

(* _cancel_orphan_orders: every live stop of one side except the tracked    *)
(* one; any of the cancels, or the listing, may fail during an outage.      *)
SweepOrphans(side, tracked) ==
  \E kept \in SUBSET {i \in Ids \ {tracked} : stops[i].st = "live" /\ stops[i].side = side} :
    /\ IF kept = {} THEN UNCHANGED left ELSE Spend("call")
    /\ stops' = [i \in Ids |->
         IF stops[i].st = "live" /\ stops[i].side = side /\ i # tracked /\ i \notin kept
         THEN Over(i, "cancelled") ELSE stops[i]]

-----------------------------------------------------------------------------
(* Reconciliation with the exchange, at start-up and once a minute *)

AtReconcile == pc \in {"boot", "rest"}

(* get_positions raises: "Continuing with database state"                   *)
ReconcileFails ==
  /\ AtReconcile
  /\ Spend("call")
  /\ Goto("rest")
  /\ UNCHANGED <<dbVars, ctx, venueVars, entries, epoch, tpLegs>>

(* Mutant: the unknown position is only logged. *)
AdoptNothing ==
  /\ AtReconcile /\ net # 0 /\ local.state = "idle"
  /\ Goto("rest")
  /\ UNCHANGED <<dbVars, ctx, venueVars, entries, epoch, left, tpLegs>>

(* The exchange holds a position the row does not know.                     *)
Adopt ==
  /\ AtReconcile /\ net # 0 /\ local.state = "idle"
  /\ epoch' = epoch + 1 /\ tpLegs' = 0
  /\ local' = [IdleRow EXCEPT !.state = "bought", !.side = NetSide, !.qty = Size,
                              !.mode = "manual", !.born = epoch + 1]
  /\ Goto("rest")
  /\ UNCHANGED <<ctx, pending, venueVars, entries, left, booked>>

(* Mutant: the closure is stored and the row is not reset with it. *)
QueueClosureOnly(then) ==
  /\ pending' = pending \cup {ClosureOf(local)}
  /\ UNCHANGED local
  /\ ctx' = MarkPending(ctx)
  /\ op' = [NoOp EXCEPT !.row = local, !.then = then]

(* The row is open and the exchange is flat: one transaction stores the     *)
(* closure and resets the row.                                              *)
QueueClosure(then) ==
  /\ pending' = pending \cup {ClosureOf(local)}
  /\ local' = IdleRow
  /\ ctx' = MarkPending(ctx)
  /\ op' = [NoOp EXCEPT !.row = local, !.then = then]

(* Mutant: the mismatch only halts trading until somebody looks.            *)
FoundFlatHalts ==
  /\ AtReconcile /\ net = 0 /\ local.state = "bought"
  /\ ctx' = MarkPending(ctx)
  /\ Goto("rest")
  /\ UNCHANGED <<dbVars, venueVars, entries, epoch, left, tpLegs>>

FoundFlat ==
  /\ AtReconcile /\ net = 0 /\ local.state = "bought"
  /\ QueueClosure("rest") /\ pc' = "flatSweep"
  /\ UNCHANGED <<venueVars, entries, epoch, left, booked, tpLegs>>

(* The default side of _cancel_orphan_orders is LONG, in both sweeps.       *)
FlatSweep ==
  /\ pc = "flatSweep"
  /\ SweepOrphans("LONG", 0)
  /\ pc' = "confirm"
  /\ UNCHANGED <<dbVars, ctx, op, net, inflight, entries, epoch, closed, tpLegs>>

(* Mutant: closures stored before a restart are not looked at. *)
BothFlatForgets ==
  /\ AtReconcile /\ net = 0 /\ local.state = "idle"
  /\ Goto("idleSweep")
  /\ UNCHANGED <<dbVars, ctx, venueVars, entries, epoch, left, tpLegs>>

BothFlat ==
  /\ AtReconcile /\ net = 0 /\ local.state = "idle"
  /\ IF pending = {}
     THEN Goto("idleSweep") /\ UNCHANGED ctx
     ELSE Goto("retry") /\ ctx' = MarkPending(ctx)
  /\ UNCHANGED <<dbVars, venueVars, entries, epoch, left, tpLegs>>

(* Mutant: the sweep looks for the closing orders of the other side. *)
IdleSweepOtherSide ==
  /\ pc = "idleSweep"
  /\ SweepOrphans("SHORT", 0)
  /\ Goto("rest")
  /\ UNCHANGED <<dbVars, ctx, net, inflight, entries, epoch, closed, tpLegs>>

IdleSweep ==
  /\ pc = "idleSweep"
  /\ SweepOrphans("LONG", 0)
  /\ Goto("rest")
  /\ UNCHANGED <<dbVars, ctx, net, inflight, entries, epoch, closed, tpLegs>>

(* Mutant: the retry ends before the first row. *)
RetryNothing ==
  /\ pc = "retry"
  /\ Goto("idleSweep")
  /\ UNCHANGED <<dbVars, ctx, venueVars, entries, epoch, left, tpLegs>>

(* _retry_pending_exchange_closures: row by row until one fails             *)
RetryNext ==
  /\ pc = "retry"
  /\ \/ /\ pending = {} /\ Goto("idleSweep")
     \/ \E c \in pending :
          /\ pc' = "confirm"
          /\ op' = [NoOp EXCEPT !.row.born = c.born, !.row.qty = c.qty, !.then = "retry"]
  /\ UNCHANGED <<dbVars, ctx, venueVars, entries, epoch, left, tpLegs>>

(* Mutant: the row is booked and not marked as confirmed. *)
ConfirmedAgain ==
  /\ pc = "confirm"
  /\ Book(op.row.qty)
  /\ ctx' = ClearPending(ctx)
  /\ Goto(op.then)
  /\ UNCHANGED <<local, pending, venueVars, entries, epoch, left, tpLegs>>

(* The venue's history has the close: book it and lift the pending halt.    *)
Confirmed ==
  /\ pc = "confirm"
  /\ Book(op.row.qty)
  /\ pending' = pending \ {ClosureOf(op.row)}
  /\ ctx' = ClearPending(ctx)
  /\ Goto(op.then)
  /\ UNCHANGED <<local, venueVars, entries, epoch, left, tpLegs>>

(* Mutant: a close the history does not show yet no longer holds trading.   *)
NotConfirmedShrugs ==
  /\ pc = "confirm"
  /\ Spend("history")
  /\ ctx' = ClearPending(ctx)
  /\ Goto(IF op.then = "retry" THEN "idleSweep" ELSE op.then)
  /\ UNCHANGED <<dbVars, venueVars, entries, epoch, tpLegs>>

NotConfirmed ==
  /\ pc = "confirm"
  /\ Spend("history")
  /\ ctx' = MarkPending(ctx)
  /\ Goto(IF op.then = "retry" THEN "idleSweep" ELSE op.then)
  /\ UNCHANGED <<dbVars, venueVars, entries, epoch, tpLegs>>

(* Both open on different sides: a manual row follows the exchange and     *)
(* counts as opened now, any other freezes trading.                         *)
FollowSide ==
  /\ local.mode = "manual"
  /\ epoch' = epoch + 1 /\ tpLegs' = 0
  /\ local' = [local EXCEPT !.side = NetSide, !.qty = Size, !.born = epoch + 1]
  /\ UNCHANGED ctx

FreezeTrading ==
  /\ local.mode # "manual"
  /\ ctx' = [ctx EXCEPT !.halted = "safety"]
  /\ UNCHANGED <<local, epoch, tpLegs>>

SideMismatch ==
  /\ AtReconcile /\ net # 0 /\ local.state = "bought" /\ local.side # NetSide
  /\ FollowSide \/ FreezeTrading
  /\ Goto("rest")
  /\ UNCHANGED <<pending, venueVars, entries, left, booked>>

Synced ==
  /\ AtReconcile /\ net # 0 /\ local.state = "bought" /\ local.side = NetSide
  /\ local' = [local EXCEPT !.qty = Size]
  /\ Goto("rest")
  /\ UNCHANGED <<ctx, pending, venueVars, entries, epoch, left, booked, tpLegs>>

Reconcile == Adopt \/ FoundFlat \/ BothFlat \/ SideMismatch \/ Synced

-----------------------------------------------------------------------------
(* A tick first looks at the exchange stop of an open position *)

BeginTick ==
  /\ pc = "rest"
  /\ Goto(IF local.state = "bought" THEN "poll" ELSE "decide")
  /\ UNCHANGED <<dbVars, ctx, venueVars, entries, epoch, left, tpLegs>>

Tracked == stops[local.slId]

(* Mutant: a row without a stop id is taken to need none. *)
PollUntrackedIgnored ==
  /\ pc = "poll" /\ local.slId = 0
  /\ Goto("decide")
  /\ UNCHANGED <<dbVars, ctx, venueVars, entries, epoch, left, tpLegs>>

(* _ensure_sl_protected: no stop id on record                               *)
PollUntracked ==
  /\ pc = "poll" /\ local.slId = 0
  /\ Goto(IF local.sl = 0 THEN "decide" ELSE "ensure")
  /\ UNCHANGED <<dbVars, ctx, venueVars, entries, epoch, left, tpLegs>>

Ensure ==
  /\ pc = "ensure"
  /\ SweepOrphans(local.side, 0)
  /\ GoPlace(local, local.sl, FALSE, "decide")
  /\ UNCHANGED <<dbVars, ctx, net, inflight, entries, epoch, closed, tpLegs>>

PollFails ==
  /\ pc = "poll" /\ local.slId # 0
  /\ Spend("call")
  /\ Goto("decide")
  /\ UNCHANGED <<dbVars, ctx, venueVars, entries, epoch, tpLegs>>

(* A stop that filled in part may still be reported as NEW.                 *)
PollLive ==
  /\ pc = "poll" /\ local.slId # 0 /\ Tracked.st = "live"
  /\ Goto("decide")
  /\ UNCHANGED <<dbVars, ctx, venueVars, entries, epoch, left, tpLegs>>

(* Mutant: a stop that is gone is taken to have been filled. *)
PollGone ==
  /\ pc = "poll" /\ local.slId # 0 /\ Tracked.st \in {"filled", "cancelled"}
  /\ QueueClosure("decide") /\ pc' = "confirm"
  /\ UNCHANGED <<venueVars, entries, epoch, left, booked, tpLegs>>

PollFilled ==
  /\ pc = "poll" /\ local.slId # 0 /\ Tracked.st = "filled"
  /\ QueueClosure("decide") /\ pc' = "confirm"
  /\ UNCHANGED <<venueVars, entries, epoch, left, booked, tpLegs>>

(* Mutant: the row keeps what was filled, not what remains. *)
PollPartialKeepsFill ==
  /\ pc = "poll" /\ local.slId # 0 /\ Tracked.st = "live" /\ Tracked.done > 0
  /\ LET q == Least(Tracked.done, local.qty) IN
     /\ Book(q)
     /\ IF q < local.qty
        THEN /\ pc' = "partCancel"
             /\ op' = [NoOp EXCEPT !.row = [local EXCEPT !.qty = q]]
        ELSE Goto("decide")
  /\ UNCHANGED <<local, ctx, pending, venueVars, entries, epoch, left, tpLegs>>

(* PARTIALLY_FILLED: the leg is booked at once; the row only changes when   *)
(* something remains and a new stop has been asked for.                     *)
PollPartial ==
  /\ pc = "poll" /\ local.slId # 0 /\ Tracked.st = "live" /\ Tracked.done > 0
  /\ LET q == Least(Tracked.done, local.qty) IN
     /\ Book(q)
     /\ IF q < local.qty
        THEN /\ pc' = "partCancel"
             /\ op' = [NoOp EXCEPT !.row = [local EXCEPT !.qty = @ - q]]
        ELSE Goto("decide")
  /\ UNCHANGED <<local, ctx, pending, venueVars, entries, epoch, left, tpLegs>>

PartCancel ==
  /\ pc = "partCancel"
  /\ Cancelled \/ NotCancelled
  /\ GoPlace(op.row, local.sl, FALSE, "decide")
  /\ UNCHANGED <<dbVars, ctx, net, inflight, entries, epoch, closed, tpLegs>>

PollCancelled ==
  /\ pc = "poll" /\ local.slId # 0 /\ Tracked.st = "cancelled"
  /\ GoPlace(local, local.sl, FALSE, "decide")
  /\ UNCHANGED <<dbVars, ctx, venueVars, entries, epoch, left, tpLegs>>

Poll == PollUntracked \/ PollFails \/ PollLive \/ PollFilled \/ PollPartial \/ PollCancelled

-----------------------------------------------------------------------------
(* The rest of the tick: at most one of an entry, a partial take-profit     *)
(* followed by a trail, a close followed by a reverse, or nothing           *)

Deciding  == pc = "decide"
MayTrade  == ctx.halted = "no"
Managed   == local.state = "bought" /\ local.mode = "strategy"

(* The row the tick goes on with: after a partial take-profit that was too   *)
(* small to split it is still the row read before the flag was saved.       *)
TickRow == IF op.row.state = "bought" THEN op.row ELSE local

(* Nothing more to do, or only a new extreme price to save                  *)
EndTick ==
  /\ pc \in {"decide", "hold"}
  /\ ctx' = Consume(ctx)
  /\ Goto("rest")
  /\ local' = local \/ (Managed /\ local' = TickRow)
  /\ UNCHANGED <<pending, booked, venueVars, entries, epoch, left, tpLegs>>

(* A manual entry waits for the strategy to agree with its side.            *)
Handoff ==
  /\ Deciding /\ local.state = "bought" /\ local.mode = "strategy_handoff"
  /\ local' = [local EXCEPT !.mode = "strategy"]
  /\ ctx' = Consume(ctx)
  /\ Goto("rest")
  /\ UNCHANGED <<pending, venueVars, entries, epoch, left, booked, tpLegs>>

(* The row an entry will write. A strategy without a stop asks for none, nor *)
(* does a LONG opened by hand as manual-managed; every other entry asks for *)
(* one at the first level.                                                  *)
EntryRow(side, mode, qty) ==
  [state |-> "bought", side |-> side, qty |-> qty,
   sl |-> IF DisableStopLoss \/ (side = "LONG" /\ mode = "manual") THEN 0 ELSE 1,
   slId |-> 0, mode |-> mode, ptp |-> FALSE, born |-> epoch + 1]

EntryFilled(side, mode, qty) ==
  LET row == EntryRow(side, mode, qty) IN
  /\ Increase(side, qty)
  /\ epoch' = epoch + 1 /\ tpLegs' = 0
  /\ GoPlace(row, row.sl, FALSE, "rest")
  /\ UNCHANGED inflight

(* A refusal of a LONG that says the account mode is wrong halts trading.    *)
EntryRefused(side) ==
  /\ Spend("call")
  /\ ctx' = ctx \/ (side = "LONG" /\ ctx' = [ctx EXCEPT !.halted = "safety"])
  /\ UNCHANGED <<net, closed, inflight>>

(* Not confirmed within the order timeout: the order stays on the venue.    *)
EntryLate(side) ==
  /\ Spend("late")
  /\ inflight' = [inflight EXCEPT ![side] = @ + 1]
  /\ UNCHANGED <<ctx, net, closed>>

(* A SHORT that is not FILLED is a failure even if some of it filled; a     *)
(* LONG keeps whatever filled.                                              *)
EntryPartial(side, mode, qty) ==
  /\ Spend("partial") /\ qty < Lot
  /\ IF side = "LONG" THEN EntryFilled(side, mode, qty)
     ELSE /\ Increase(side, qty) /\ Goto("rest") /\ UNCHANGED <<epoch, tpLegs, inflight>>

SendEntry(side, mode) ==
  /\ entries < MaxEntries
  /\ entries' = entries + 1
  /\ \/ EntryFilled(side, mode, Lot) /\ UNCHANGED <<ctx, left>>
     \/ \E qty \in 1 .. Lot : EntryPartial(side, mode, qty) /\ UNCHANGED ctx
     \/ /\ EntryRefused(side) \/ EntryLate(side)
        /\ Goto("rest") /\ UNCHANGED <<epoch, tpLegs>>
  /\ UNCHANGED <<dbVars, stops>>

StrategyEntry(side) ==
  /\ Deciding /\ local.state = "idle" /\ MayTrade /\ ~Waiting
  /\ SendEntry(side, "strategy")

(* The manual order file: before the wait cycle is consumed.                *)
ManualEntry(side, mode) ==
  /\ Deciding /\ local.state = "idle" /\ MayTrade /\ ~ctx.pending
  /\ SendEntry(side, mode)

(* execute_close of `qty` units of the row's side, reduce-only: how much of *)
(* it filled, and whether the engine learns of it.                          *)
MarketClose(qty, filled) ==
  LET most == Least(qty, Held(local.side)) IN
  \/ /\ filled = most /\ most > 0
     /\ Reduce(local.side, most) /\ UNCHANGED left
  \/ /\ filled \in 1 .. most - 1
     /\ Reduce(local.side, filled) /\ Spend("partial")
  \/ /\ filled = 0 /\ Spend("landed")
     /\ \E lost \in 1 .. most : Reduce(local.side, lost)
  \/ /\ filled = 0
     /\ UNCHANGED <<net, closed>>
     /\ IF most > 0 THEN Spend("call") ELSE UNCHANGED left

(* execute_partial_tp: half of the position, once. What is booked and what  *)
(* remains are computed from the quantity asked for, not from the fill.     *)
Half == local.qty \div 2
TpRow == [local EXCEPT !.qty = @ - Half, !.ptp = TRUE]

TpTooSmall ==
  /\ Deciding /\ Managed /\ MayTrade /\ ~local.ptp /\ Half = 0
  /\ local' = [local EXCEPT !.ptp = TRUE]
  /\ ctx' = Consume(ctx)
  /\ pc' = "hold" /\ op' = [NoOp EXCEPT !.row = local]
  /\ UNCHANGED <<pending, venueVars, entries, epoch, left, booked, tpLegs>>

TpMarket ==
  /\ Deciding /\ Managed /\ MayTrade /\ ~local.ptp /\ Half > 0
  /\ \E filled \in 0 .. Half :
       /\ MarketClose(Half, filled)
       /\ IF filled = 0 THEN Goto("hold") /\ UNCHANGED tpLegs
          ELSE Goto("tpBook") /\ tpLegs' = tpLegs + 1
  /\ ctx' = Consume(ctx)
  /\ UNCHANGED <<dbVars, stops, inflight, entries, epoch>>

TpBook ==
  /\ pc = "tpBook"
  /\ Book(Half)
  /\ IF local.slId # 0 THEN Goto("tpCancel")
     ELSE pc' = "save" /\ op' = [NoOp EXCEPT !.row = TpRow, !.then = "hold"]
  /\ UNCHANGED <<local, ctx, pending, venueVars, entries, epoch, left, tpLegs>>

(* A stop that could not be cancelled is only logged.                       *)
TpCancel ==
  /\ pc = "tpCancel"
  /\ Cancelled \/ NotCancelled
  /\ GoPlace(TpRow, TpRow.sl, FALSE, "hold")
  /\ UNCHANGED <<dbVars, ctx, net, inflight, entries, epoch, closed, tpLegs>>

PartialTp == TpTooSmall \/ TpMarket \/ TpBook \/ TpCancel

-----------------------------------------------------------------------------
(* Closing, reversing *)

(* A close of either side is refused while any halt is on. A SHORT close    *)
(* cancels the exchange stop first; a LONG close leaves it alone.           *)
StartClose(rev) ==
  /\ Deciding /\ local.state = "bought" /\ MayTrade
  /\ pc' = IF local.side = "SHORT" /\ local.slId # 0 THEN "closeCancel" ELSE "closeMarket"
  /\ op' = [NoOp EXCEPT !.rev = rev]
  /\ UNCHANGED <<dbVars, venueVars, entries, epoch, left, tpLegs>>

(* A SELL signal, an exit rule (which a wait cycle does not hold back), or a *)
(* stop and reverse                                                         *)
StrategyClose(rev) ==
  /\ local.mode = "strategy"
  /\ StartClose(rev)
  /\ ctx' = Consume(ctx)

ManualClose == StartClose(FALSE) /\ UNCHANGED ctx

CloseCancel ==
  /\ pc = "closeCancel"
  /\ \/ Cancelled /\ pc' = "closeMarket" /\ op' = [op EXCEPT !.restore = TRUE]
     \/ NotCancelled /\ Goto("rest")
  /\ UNCHANGED <<dbVars, ctx, net, inflight, entries, epoch, closed, tpLegs>>

(* Mutant: result.qty or qty without looking at result.success. *)
CloseMarketTrusting ==
  /\ pc = "closeMarket"
  /\ \E filled \in 0 .. local.qty :
       /\ MarketClose(local.qty, filled)
       /\ pc' = "closeBook"
       /\ op' = [op EXCEPT !.got = IF filled = 0 THEN local.qty ELSE filled]
  /\ UNCHANGED <<dbVars, ctx, stops, inflight, entries, epoch, tpLegs>>

CloseMarket ==
  /\ pc = "closeMarket"
  /\ \E filled \in 0 .. local.qty :
       /\ MarketClose(local.qty, filled)
       /\ IF filled > 0 THEN pc' = "closeBook" /\ op' = [op EXCEPT !.got = filled]
          ELSE IF op.restore THEN GoPlace(local, local.sl, FALSE, "rest")
          ELSE Goto("rest")
  /\ UNCHANGED <<dbVars, ctx, stops, inflight, entries, epoch, tpLegs>>

(* close_position_atomic when nothing is left; else the leg is booked and a  *)
(* stop for the rest asked for. The LONG branch saves the row without its   *)
(* management mode and without the partial take-profit flag.                *)
CloseBook ==
  /\ pc = "closeBook"
  /\ Book(op.got)
  /\ IF op.got = local.qty
     THEN /\ local' = IdleRow
          /\ IF op.rev THEN pc' = "reverse" /\ op' = [NoOp EXCEPT !.row.side = local.side]
             ELSE Goto("rest")
     ELSE /\ LET rest == [local EXCEPT !.qty = @ - op.got]
                 row  == IF local.side = "SHORT" THEN rest
                         ELSE [rest EXCEPT !.mode = "strategy", !.ptp = FALSE]
             IN GoPlace(row, row.sl, FALSE, "rest")
          /\ UNCHANGED local
  /\ UNCHANGED <<ctx, pending, venueVars, entries, epoch, left, tpLegs>>

Close ==
  \/ \E rev \in BOOLEAN : StrategyClose(rev)
  \/ ManualClose \/ CloseCancel \/ CloseMarket \/ CloseBook

(* The opposite side is opened only after get_positions shows nothing held;  *)
(* a failed look, or any entry gate (pause, sentiment, other positions,     *)
(* margin), also ends the tick.                                             *)
ReverseBlocked ==
  /\ pc = "reverse"
  /\ Goto("rest")
  /\ UNCHANGED <<dbVars, ctx, venueVars, entries, epoch, left, tpLegs>>

ReverseEntry ==
  /\ pc = "reverse" /\ net = 0 /\ MayTrade
  /\ SendEntry(Opposite(op.row.side), "strategy")

-----------------------------------------------------------------------------
(* Trailing: cancel the stop, place it at the better level, fall back to    *)
(* the old level; no halt stops this. Without a stop loss nothing trails.   *)

(* Mutant: the candidate level is not compared with the level in force. *)
TrailAnywhere(level) ==
  /\ pc \in {"decide", "hold"} /\ Managed /\ level # TickRow.sl /\ ~DisableStopLoss
  /\ ctx' = Consume(ctx)
  /\ LET row == [TickRow EXCEPT !.sl = level] IN
     IF row.slId = 0 THEN GoPlace(row, local.sl, FALSE, "rest")
     ELSE pc' = "trailCancel" /\ op' = [NoOp EXCEPT !.row = row]
  /\ UNCHANGED <<dbVars, venueVars, entries, epoch, left, tpLegs>>

Trail(level) ==
  /\ pc \in {"decide", "hold"} /\ Managed /\ level > TickRow.sl /\ ~DisableStopLoss
  /\ ctx' = Consume(ctx)
  /\ LET row == [TickRow EXCEPT !.sl = level] IN
     IF row.slId = 0 THEN GoPlace(row, local.sl, FALSE, "rest")
     ELSE pc' = "trailCancel" /\ op' = [NoOp EXCEPT !.row = row]
  /\ UNCHANGED <<dbVars, venueVars, entries, epoch, left, tpLegs>>

TrailCancel ==
  /\ pc = "trailCancel"
  /\ \/ Cancelled /\ GoPlace(op.row, local.sl, TRUE, "rest")
     \/ NotCancelled /\ pc' = "trailVerify" /\ UNCHANGED op
  /\ UNCHANGED <<dbVars, ctx, net, inflight, entries, epoch, closed, tpLegs>>

(* Mutant: the new level is kept although the stop could not be moved. *)
TrailVerifyNewLevel ==
  /\ pc = "trailVerify"
  /\ pc' = "save"
  /\ \/ Tracked.st = "live" /\ UNCHANGED <<op, left>>
     \/ /\ op' = [op EXCEPT !.row.slId = 0]
        /\ Spend("call") \/ (Tracked.st # "live" /\ UNCHANGED left)
  /\ UNCHANGED <<dbVars, ctx, venueVars, entries, epoch, tpLegs>>

(* The cancel failed: keep the id only if the venue says it is still live.  *)
TrailVerify ==
  /\ pc = "trailVerify"
  /\ pc' = "save"
  /\ \/ /\ Tracked.st = "live"
        /\ op' = [op EXCEPT !.row.sl = local.sl]
        /\ UNCHANGED left
     \/ /\ op' = [op EXCEPT !.row.sl = local.sl, !.row.slId = 0]
        /\ Spend("call") \/ (Tracked.st # "live" /\ UNCHANGED left)
  /\ UNCHANGED <<dbVars, ctx, venueVars, entries, epoch, tpLegs>>

-----------------------------------------------------------------------------
(* Everything in memory is lost; the row and the closures are on disk.      *)
Crash ==
  /\ pc # "boot"
  /\ Spend("crash")
  /\ Goto("boot") /\ ctx' = FreshCtx
  /\ UNCHANGED <<dbVars, venueVars, entries, epoch, tpLegs>>

OrderHelpers == PlaceStop \/ PlaceNothing \/ PlaceFails \/ PlaceLanded \/ SaveRow

ReconcileSteps ==
  ReconcileFails \/ FlatSweep \/ IdleSweep \/ RetryNext \/ Confirmed \/ NotConfirmed

TickSteps ==
  \/ Poll \/ Ensure \/ PartCancel
  \/ EndTick \/ Handoff
  \/ \E side \in Sides : StrategyEntry(side)
  \/ \E side \in Sides, mode \in Modes : ManualEntry(side, mode)
  \/ PartialTp \/ Close \/ ReverseBlocked \/ ReverseEntry
  \/ \E level \in Levels : Trail(level)
  \/ TrailCancel \/ TrailVerify

Engine == OrderHelpers \/ ReconcileSteps \/ Reconcile \/ BeginTick \/ TickSteps

Next == Engine \/ Venue \/ Crash

Safe == Init /\ [][Next]_vars

(* The loop sleeps and goes on for ever, so a step that can be taken is     *)
(* taken; at rest both the tick and, once a minute, the reconciliation get  *)
(* their turn. Nothing is asked of the venue.                               *)
Spec == Safe /\ WF_vars(Engine) /\ SF_vars(Reconcile) /\ SF_vars(BeginTick)

-----------------------------------------------------------------------------
(* Properties *)

(* Type correctness: every variable stays in its set. It is not idle: a     *)
(* quantity of the row is a count although the venue's is signed, and a row *)
(* never shrinks below zero however a partial fill is reported.             *)
TypeOK ==
  /\ local \in Row /\ ctx \in Ctx /\ pending \subseteq Closure
  /\ pc \in Steps /\ op \in Op
  /\ net \in Int /\ stops \in [Ids -> Stop] /\ inflight \in [Sides -> Nat]
  /\ entries \in Nat /\ epoch \in Nat /\ left \in [Faults -> Nat]
  /\ closed \in Nat /\ booked \in Nat /\ tpLegs \in Nat

Bought == local.state = "bought"
HasStop == local.slId # 0 /\ stops[local.slId].st = "live"

(* The stop order a row names is one the venue knows, and while it is live   *)
(* it closes the side of the row at the level the row shows: every path     *)
(* that places, replaces, restores or gives up a stop saves stop_loss and   *)
(* stop_loss_order_id so that they still belong together. (A manual-managed *)
(* row that followed the exchange to the other side keeps its old stop.)    *)
Matches(row, orders) ==
  row.state = "bought" /\ row.slId # 0 /\ row.mode # "manual" =>
    /\ orders[row.slId].st # "none"
    /\ orders[row.slId].st = "live" =>
         orders[row.slId].side = row.side /\ orders[row.slId].lvl = row.sl
TrackedStopMatches == Matches(local, stops)

(* The tracked stop covers all that is held on its side, and after fills in  *)
(* part all but less than half a lot per such fill: resizing after a partial *)
(* take-profit or close leaves nothing without protection as long as orders *)
(* and stops fill whole. A stop that filled in part, read after the row has *)
(* followed the exchange, is subtracted twice, and a partial take-profit    *)
(* that filled in part is subtracted as if whole; the stop placed for the   *)
(* rest is then short by that much. (The owner trading by hand is exempt.)  *)
Partials == Budget["partial"] - left["partial"]
Shortfall == Partials * ((Lot - 1) \div 2)
StopCoversPosition ==
  Bought /\ HasStop /\ left["outside"] = Budget["outside"] =>
    Held(stops[local.slId].side)
      <= stops[local.slId].size - stops[local.slId].done + Shortfall

(* Accounting never invents a close: what closed_trades holds, and what is   *)
(* queued to be added from the venue's history, is at most what the venue   *)
(* closed, whichever calls failed or lost their answer in between. While    *)
(* orders and stops fill whole (no run with fills in part checks this: such *)
(* a stop can be booked again), only a crash between the write of a closed  *)
(* trade and the save of its row books units twice, and no crash more than  *)
(* the lot of one position.                                                 *)
Queued == LET sum[rows \in SUBSET pending] ==
                IF rows = {} THEN 0
                ELSE LET c == CHOOSE c \in rows : TRUE IN c.qty + sum[rows \ {c}]
          IN sum[pending]
Crashes == Budget["crash"] - left["crash"]
BookedWithinClosed == booked + Queued <= closed + Lot * Crashes

(* An entry, by signal, by hand or as the second half of a reverse, is sent *)
(* only while the venue holds nothing, although only the reverse looks:     *)
(* exposure is never doubled.                                               *)
EntersOnlyWhenFlat == [][entries' > entries => net = 0]_vars

(* An entry is sent only when no earlier close waits for its confirmation.   *)
EntersOnlyWhenBooked == [][entries' > entries => pending = {}]_vars

(* The row is reset to idle only when the venue holds nothing any more.      *)
IdleOnlyWhenFlat == [][Bought /\ local'.state = "idle" => net = 0]_vars

(* Within one position the recorded stop level never moves away from the     *)
(* profit, however a trailing update fails half way.                        *)
StopNeverLoosens ==
  [][Bought /\ local'.state = "bought" /\ local'.born = local.born => local'.sl >= local.sl]_vars

(* The partial take-profit happens at most once in a position's life.       *)
PartialTpOnce == tpLegs <= 1

(* A halt for a side mismatch is on until the process is restarted.          *)
SafetyHaltStays == [](ctx.halted = "safety" => [](ctx.halted # "no"))

(* However row and venue came to differ, the engine keeps bringing them back *)
(* to both open or both flat.                                               *)
Converges == []<>(Bought <=> net # 0)

(* A position that should have a stop and has none gets one, or is closed.   *)
Exposed == Bought /\ local.sl > 0 /\ ~HasStop
ProtectionRestored == Exposed ~> ~Exposed

(* While the venue stays flat every queued close is eventually booked.       *)
ClosuresBooked == (pending # {} /\ net = 0) ~> (pending = {} \/ net # 0)

(* While the venue stays flat LONG stops left behind are cancelled.          *)
Orphans == {i \in Ids \ {local.slId} : stops[i].st = "live" /\ stops[i].side = "LONG"}
OrphansSwept == (Orphans # {} /\ net = 0) ~> (Orphans = {} \/ net # 0)

=============================================================================
