------------------------- MODULE LivePositionProofs -------------------------
(* Theorems about LivePosition, for every lot, level, bound and fault budget. *)
EXTENDS LivePosition, TLAPS

(* The inductive strengthening of TypeOK: a close never books more than the  *)
(* row holds, so that what is left of the row is a count.                   *)
BooksAtMostRow == pc = "closeBook" => op.got <= local.qty
TypeInv == TypeOK /\ BooksAtMostRow

-----------------------------------------------------------------------------
(* The records the actions build *)

(* The constant records have their types. *)
LEMMA IdleTypes ==
  /\ IdleRow \in Row /\ NoOp \in Op /\ FreshCtx \in Ctx /\ NoStop \in Stop
BY LivePositionAssumption
   DEF IdleRow, Row, NoOp, Op, FreshCtx, Ctx, NoStop, Stop, Levels, Sides, Modes

(* The smaller of two counts is a count below both. *)
LEMMA LeastType ==
  ASSUME NEW a \in Nat, NEW b \in Nat
  PROVE  Least(a, b) \in Nat /\ Least(a, b) <= a /\ Least(a, b) <= b
BY DEF Least

(* What the venue holds of one side is a count. *)
LEMMA HeldType ==
  ASSUME net \in Int, NEW side
  PROVE  Held(side) \in Nat
BY DEF Held

(* The reconciled size is a count: the unsigned quantity get_positions reports. *)
LEMMA SizeType ==
  ASSUME net \in Int
  PROVE  Size \in Nat /\ NetSide \in Sides /\ Held(NetSide) = Size
BY DEF Size, NetSide, Sides, Held

(* Spending a fault leaves a budget. *)
LEMMA SpendType ==
  ASSUME left \in [Faults -> Nat], NEW f \in Faults, Spend(f)
  PROVE  left' \in [Faults -> Nat]
BY DEF Spend

(* Writing a closed trade keeps the booked total a count. *)
LEMMA BookType ==
  ASSUME booked \in Nat, NEW q \in Nat, Book(q)
  PROVE  booked' \in Nat
BY LivePositionAssumption, LeastType DEF Book, BookCap, Least, Faults

(* A reduce-only fill keeps the ledger typed. *)
LEMMA ReduceType ==
  ASSUME net \in Int, closed \in Nat, NEW side, NEW q \in Nat, Reduce(side, q)
  PROVE  net' \in Int /\ closed' \in Nat
BY DEF Reduce, Delta

(* An entry fill keeps the ledger typed. *)
LEMMA IncreaseType ==
  ASSUME net \in Int, closed \in Nat, NEW side, NEW q \in Nat, Increase(side, q)
  PROVE  net' \in Int /\ closed' \in Nat
<1>1. Held(Opposite(side)) \in Nat BY HeldType
<1>2. Least(q, Held(Opposite(side))) \in Nat BY <1>1 DEF Least
<1> QED BY <1>2 DEF Increase, Delta

(* A stop that is over is still a stop record. *)
LEMMA OverType ==
  ASSUME NEW i, NEW how \in {"filled", "cancelled"}
  PROVE  Over(i, how) \in Stop
BY IdleTypes DEF Over, NoStop, Stop

(* The three updates of SymbolContext give a SymbolContext. *)
LEMMA ContextTypes ==
  ASSUME ctx \in Ctx
  PROVE  MarkPending(ctx) \in Ctx /\ ClearPending(ctx) \in Ctx /\ Consume(ctx) \in Ctx
<1>1. MarkPending(ctx) \in Ctx BY DEF Ctx, MarkPending
<1>2. ClearPending(ctx) \in Ctx
  <2>1. ctx.halted \in {"no", "reconcile", "safety"} BY DEF Ctx
  <2> QED BY <2>1 DEF Ctx, ClearPending
<1>3. Consume(ctx) \in Ctx
  <2>1. [ctx EXCEPT !.wait = 0] \in Ctx BY DEF Ctx
  <2> QED BY <2>1 DEF Consume
<1> QED BY <1>1, <1>2, <1>3

(* Going to a step with nothing carried over. *)
LEMMA GotoType ==
  ASSUME NEW step \in Steps, Goto(step)
  PROVE  pc' \in Steps /\ op' \in Op /\ op'.got = 0
BY IdleTypes DEF Goto, NoOp

(* Asking for a stop for a row. *)
LEMMA GoPlaceType ==
  ASSUME NEW row \in Row, NEW fall \in Levels, NEW again \in BOOLEAN,
         NEW then \in {"rest", "decide", "hold", "retry"}, GoPlace(row, fall, again, then)
  PROVE  pc' \in Steps /\ pc' = "place" /\ op' \in Op
BY IdleTypes DEF GoPlace, NoOp, Op, Steps

(* The closure queued for a row. *)
LEMMA ClosureType ==
  ASSUME NEW row \in Row
  PROVE  ClosureOf(row) \in Closure
BY DEF ClosureOf, Closure, Row

(* The venue accepting a stop for a row. *)
LEMMA AcceptType ==
  ASSUME stops \in [Ids -> Stop], NEW row \in Row, NEW i \in Ids, Accept(row, i)
  PROVE  stops' \in [Ids -> Stop]
<1>1. [st |-> "live", side |-> row.side, lvl |-> row.sl, size |-> row.qty, done |-> 0] \in Stop
  BY DEF Row, Stop
<1> QED BY <1>1 DEF Accept

(* Edits of a row that keep it a row. *)
LEMMA RowEdits ==
  ASSUME NEW row \in Row
  PROVE  /\ \A lvl \in Levels : [row EXCEPT !.sl = lvl] \in Row
         /\ \A i \in 0 .. MaxStops : [row EXCEPT !.slId = i] \in Row
         /\ \A q \in Nat : [row EXCEPT !.qty = q] \in Row
         /\ \A m \in Modes : [row EXCEPT !.mode = m] \in Row
         /\ \A b \in BOOLEAN : [row EXCEPT !.ptp = b] \in Row
BY DEF Row

(* A placement that failed: tried again at the old level, or given up. *)
LEMMA UnplacedType ==
  ASSUME op \in Op, Unplaced
  PROVE  op' \in Op /\ pc' \in {"place", "save"}
<1> USE DEF Op
<1>1. op.row \in Row /\ op.fall \in Levels OBVIOUS
<1>2. /\ [op.row EXCEPT !.sl = op.fall] \in Row
      /\ [op.row EXCEPT !.sl = op.fall, !.slId = 0] \in Row
  <2> HIDE DEF Op
  <2> DEFINE fallen == [op.row EXCEPT !.sl = op.fall]
  <2>1. fallen \in Row BY <1>1, RowEdits
  <2>2. 0 \in 0 .. MaxStops BY LivePositionAssumption
  <2>3. [fallen EXCEPT !.slId = 0] \in Row
    <3> HIDE DEF fallen
    <3> QED BY <2>1, <2>2, RowEdits
  <2> QED BY <2>1, <2>3
<1>3. CASE op.again
  <2>1. op' = [op EXCEPT !.row = [op.row EXCEPT !.sl = op.fall], !.again = FALSE]
    BY <1>3 DEF Unplaced
  <2> QED BY <2>1, <1>2, <1>3 DEF Unplaced
<1>4. CASE ~op.again
  <2>1. op' = [op EXCEPT !.row = [op.row EXCEPT !.sl = op.fall, !.slId = 0]]
    BY <1>4 DEF Unplaced
  <2> QED BY <2>1, <1>2, <1>4 DEF Unplaced
<1> QED BY <1>3, <1>4

(* A cancel_order call, whether it succeeds or not. *)
LEMMA CancelType ==
  ASSUME TypeOK, Cancelled \/ NotCancelled
  PROVE  stops' \in [Ids -> Stop] /\ left' \in [Faults -> Nat]
BY OverType, SpendType DEF TypeOK, Cancelled, NotCancelled, Faults

(* _cancel_orphan_orders. *)
LEMMA SweepType ==
  ASSUME TypeOK, NEW side, NEW tracked, SweepOrphans(side, tracked)
  PROVE  stops' \in [Ids -> Stop] /\ left' \in [Faults -> Nat]
BY OverType, SpendType DEF TypeOK, SweepOrphans, Faults

-----------------------------------------------------------------------------
(* One lemma per group of actions: TypeInv is inductive *)

(* The venue's own steps keep TypeInv. *)
LEMMA VenueKeepsTypes == TypeInv /\ Venue => TypeInv'
<1> SUFFICES ASSUME TypeInv, Venue PROVE TypeInv'
  OBVIOUS
<1> USE DEF TypeInv, TypeOK, BooksAtMostRow, dbVars, Faults
<1>1. ASSUME NEW i \in Ids, StopFires(i) PROVE TypeInv'
  <2>1. Least(stops[i].size - stops[i].done, Held(stops[i].side)) \in Nat
    BY <1>1, HeldType, LeastType DEF StopFires, Stop
  <2> QED BY <1>1, <2>1, ReduceType, OverType DEF StopFires
<1>2. ASSUME NEW i \in Ids, StopFiresPartly(i) PROVE TypeInv'
  <2>1. [stops[i] EXCEPT !.done = @ + 1] \in Stop
    BY <1>2 DEF StopFiresPartly, Stop
  <2> QED BY <1>2, <2>1, ReduceType, SpendType DEF StopFiresPartly
<1>3. ASSUME NEW i \in Ids, OutsideCancel(i) PROVE TypeInv'
  BY <1>3, OverType, SpendType DEF OutsideCancel
<1>4. ASSUME NEW side \in Sides, LateFill(side) PROVE TypeInv'
  BY <1>4, IncreaseType, LivePositionAssumption DEF LateFill
<1>5. ASSUME NEW side \in Sides, OutsideOpen(side) PROVE TypeInv'
  BY <1>5, IncreaseType, SpendType, LivePositionAssumption DEF OutsideOpen
<1>6. ASSUME OutsideClose PROVE TypeInv'
  BY <1>6, SizeType, ReduceType, SpendType DEF OutsideClose
<1> QED BY <1>1, <1>2, <1>3, <1>4, <1>5, <1>6 DEF Venue

(* Placing a stop and saving the row keep TypeInv. *)
LEMMA OrderHelpersKeepTypes == TypeInv /\ OrderHelpers => TypeInv'
<1> SUFFICES ASSUME TypeInv, OrderHelpers PROVE TypeInv'
  OBVIOUS
<1> USE DEF TypeInv, TypeOK, BooksAtMostRow, dbVars, venueVars, Faults
<1>1. ASSUME PlaceStop PROVE TypeInv'
  <2>1. PICK i \in Ids : Accept(op.row, i) /\ op' = [op EXCEPT !.row.slId = i]
    BY <1>1 DEF PlaceStop
  <2>2. op.row \in Row BY DEF Op
  <2>3. i \in 0 .. MaxStops BY LivePositionAssumption DEF Ids
  <2>3a. [op.row EXCEPT !.slId = i] \in Row BY <2>2, <2>3, RowEdits
  <2>4. op' \in Op BY <2>1, <2>3a DEF Op
  <2> QED BY <1>1, <2>1, <2>2, <2>4, AcceptType DEF PlaceStop, Steps
<1>2. ASSUME PlaceNothing PROVE TypeInv'
  BY <1>2, UnplacedType DEF PlaceNothing, Steps
<1>3. ASSUME PlaceFails PROVE TypeInv'
  BY <1>3, UnplacedType, SpendType DEF PlaceFails, Steps
<1>4. ASSUME PlaceLanded PROVE TypeInv'
  <2>1. op.row \in Row BY DEF Op
  <2> QED BY <1>4, <2>1, UnplacedType, SpendType, AcceptType DEF PlaceLanded, Steps
<1>5. ASSUME SaveRow PROVE TypeInv'
  <2>1. op.row \in Row /\ op.then \in Steps \ {"closeBook"} BY DEF Op, Steps
  <2> QED BY <1>5, <2>1, GotoType DEF SaveRow, Goto
<1> QED BY <1>1, <1>2, <1>3, <1>4, <1>5 DEF OrderHelpers

(* The reconciliation with the exchange keeps TypeInv. *)
LEMMA ReconcileKeepsTypes == TypeInv /\ (Reconcile \/ ReconcileSteps) => TypeInv'
<1> SUFFICES ASSUME TypeInv, Reconcile \/ ReconcileSteps PROVE TypeInv'
  OBVIOUS
<1> USE DEF TypeInv, TypeOK, BooksAtMostRow, dbVars, venueVars, Faults
<1>1. ASSUME Adopt PROVE TypeInv'
  <2>1. local' \in Row
    <3>1. Size \in Nat /\ NetSide \in Sides /\ epoch + 1 \in Nat /\ "manual" \in Modes
      BY SizeType DEF Modes
    <3> HIDE DEF Size, NetSide
    <3> QED BY <1>1, <3>1, IdleTypes DEF Adopt, Row
  <2> QED BY <1>1, <2>1, GotoType DEF Adopt, Goto, Steps
<1>2. ASSUME NEW then \in {"rest", "decide", "hold", "retry"}, QueueClosure(then)
      PROVE  /\ local' \in Row /\ ctx' \in Ctx /\ op' \in Op
             /\ pending' \subseteq Closure
  BY <1>2, IdleTypes, ContextTypes, ClosureType DEF QueueClosure, NoOp, Op
<1>3. ASSUME FoundFlat PROVE TypeInv'
  BY <1>3, <1>2 DEF FoundFlat, Steps
<1>4. ASSUME BothFlat PROVE TypeInv'
  BY <1>4, GotoType, ContextTypes DEF BothFlat, Goto, Steps
<1>5. ASSUME SideMismatch PROVE TypeInv'
  <2>1. CASE FollowSide
    <3>1. local' \in Row
      <4>1. Size \in Nat /\ NetSide \in Sides /\ epoch + 1 \in Nat
        BY SizeType
      <4> QED BY <2>1, <4>1 DEF FollowSide, Row
    <3> QED BY <1>5, <2>1, <3>1, GotoType DEF SideMismatch, FollowSide, Goto, Steps
  <2>2. CASE FreezeTrading
    <3>1. ctx' \in Ctx BY <2>2 DEF FreezeTrading, Ctx
    <3> QED BY <1>5, <2>2, <3>1, GotoType DEF SideMismatch, FreezeTrading, Goto, Steps
  <2> QED BY <1>5, <2>1, <2>2 DEF SideMismatch
<1>6. ASSUME Synced PROVE TypeInv'
  <2>1. local' \in Row BY <1>6, SizeType, RowEdits DEF Synced
  <2> QED BY <1>6, <2>1, GotoType DEF Synced, Goto, Steps
<1>7. ASSUME ReconcileFails PROVE TypeInv'
  BY <1>7, GotoType, SpendType DEF ReconcileFails, Goto, Steps
<1>8. ASSUME FlatSweep PROVE TypeInv'
  BY <1>8, SweepType DEF FlatSweep, Steps
<1>9. ASSUME IdleSweep PROVE TypeInv'
  BY <1>9, SweepType, GotoType DEF IdleSweep, Goto, Steps
<1>10. ASSUME RetryNext PROVE TypeInv'
  <2>1. CASE pending = {} /\ Goto("idleSweep")
    BY <1>10, <2>1, GotoType DEF RetryNext, Goto, Steps
  <2>2. ASSUME NEW c \in pending, pc' = "confirm",
               op' = [NoOp EXCEPT !.row.born = c.born, !.row.qty = c.qty, !.then = "retry"]
        PROVE  TypeInv'
    <3>1. c.born \in Nat /\ c.qty \in Nat BY DEF Closure
    <3>2. [IdleRow EXCEPT !.born = c.born, !.qty = c.qty] \in Row
      BY <3>1, IdleTypes DEF Row
    <3>3. op' = [NoOp EXCEPT !.row = [IdleRow EXCEPT !.born = c.born, !.qty = c.qty],
                             !.then = "retry"]
      BY <2>2 DEF NoOp
    <3>4. op' \in Op BY <3>2, <3>3, IdleTypes DEF Op
    <3> QED BY <1>10, <2>2, <3>4 DEF RetryNext, Steps
  <2> QED BY <1>10, <2>1, <2>2 DEF RetryNext
<1>11. ASSUME Confirmed PROVE TypeInv'
  <2>1. op.row.qty \in Nat /\ op.then \in Steps \ {"closeBook"} BY DEF Op, Row, Steps
  <2> QED BY <1>11, <2>1, BookType, ContextTypes, GotoType DEF Confirmed, Goto
<1>12. ASSUME NotConfirmed PROVE TypeInv'
  <2>1. (IF op.then = "retry" THEN "idleSweep" ELSE op.then) \in Steps \ {"closeBook"}
    BY DEF Op, Steps
  <2> QED BY <1>12, <2>1, ContextTypes, GotoType, SpendType DEF NotConfirmed, Goto
<1> QED BY <1>1, <1>3, <1>4, <1>5, <1>6, <1>7, <1>8, <1>9, <1>10, <1>11, <1>12
        DEF Reconcile, ReconcileSteps

(* Polling, ensuring and resizing the exchange stop keep TypeInv. *)
LEMMA PollKeepsTypes == TypeInv /\ (Poll \/ Ensure \/ PartCancel \/ BeginTick) => TypeInv'
<1> SUFFICES ASSUME TypeInv, Poll \/ Ensure \/ PartCancel \/ BeginTick PROVE TypeInv'
  OBVIOUS
<1> USE DEF TypeInv, TypeOK, BooksAtMostRow, dbVars, venueVars, Faults
<1>1. local.sl \in Levels /\ local.qty \in Nat BY DEF Row
<1>2. ASSUME BeginTick PROVE TypeInv'
  BY <1>2, GotoType DEF BeginTick, Goto, Steps
<1>3. ASSUME PollUntracked PROVE TypeInv'
  BY <1>3, GotoType DEF PollUntracked, Goto, Steps
<1>4. ASSUME PollFails PROVE TypeInv'
  BY <1>4, GotoType, SpendType DEF PollFails, Goto, Steps
<1>5. ASSUME PollLive PROVE TypeInv'
  BY <1>5, GotoType DEF PollLive, Goto, Steps
<1>6. ASSUME PollFilled PROVE TypeInv'
  <2>1. /\ local' \in Row /\ ctx' \in Ctx /\ op' \in Op /\ pending' \subseteq Closure
    BY <1>6, IdleTypes, ContextTypes, ClosureType DEF PollFilled, QueueClosure, NoOp, Op
  <2> QED BY <1>6, <2>1 DEF PollFilled, Steps
<1>7. ASSUME PollPartial PROVE TypeInv'
  <2> DEFINE q == Least(Tracked.done, local.qty)
  <2>1. local.slId \in Ids
    <3>1. local.slId \in 0 .. MaxStops /\ local.slId # 0 BY <1>7 DEF PollPartial, Row
    <3> QED BY <3>1, LivePositionAssumption DEF Ids
  <2>2. Tracked.done \in Nat BY <2>1 DEF Tracked, Stop
  <2>3. q \in Nat /\ q <= local.qty BY <1>1, <2>2, LeastType
  <2>4. booked' \in Nat BY <1>7, <2>3, BookType DEF PollPartial
  <2>5. CASE q < local.qty
    <3>1. local.qty - q \in Nat BY <1>1, <2>3
    <3>2. [local EXCEPT !.qty = @ - q] \in Row BY <3>1, RowEdits
    <3>3. op' \in Op BY <1>7, <2>5, <3>2, IdleTypes DEF PollPartial, Op
    <3> QED BY <1>7, <2>4, <2>5, <3>3 DEF PollPartial, Steps
  <2>6. CASE ~(q < local.qty)
    BY <1>7, <2>4, <2>6, GotoType DEF PollPartial, Goto, Steps
  <2> QED BY <2>5, <2>6
<1>8. ASSUME PollCancelled PROVE TypeInv'
  BY <1>8, <1>1, GoPlaceType DEF PollCancelled
<1>9. ASSUME Ensure PROVE TypeInv'
  BY <1>9, <1>1, GoPlaceType, SweepType DEF Ensure
<1>10. ASSUME PartCancel PROVE TypeInv'
  <2>1. op.row \in Row BY DEF Op
  <2> QED BY <1>10, <1>1, <2>1, GoPlaceType, CancelType DEF PartCancel
<1> QED BY <1>2, <1>3, <1>4, <1>5, <1>6, <1>7, <1>8, <1>9, <1>10 DEF Poll

(* An entry of either side keeps TypeInv, filled, partly filled, late or refused. *)
LEMMA EntryKeepsTypes ==
  ASSUME TypeInv, NEW side \in Sides, NEW mode \in Modes, SendEntry(side, mode),
         Deciding \/ pc = "reverse"
  PROVE  TypeInv'
<1> USE DEF TypeInv, TypeOK, BooksAtMostRow, dbVars, venueVars, Faults
<1>1. ASSUME NEW qty \in Nat, EntryFilled(side, mode, qty)
      PROVE  /\ pc' = "place" /\ op' \in Op /\ net' \in Int /\ closed' \in Nat
             /\ epoch' \in Nat /\ tpLegs' \in Nat /\ inflight' \in [Sides -> Nat]
  <2>1. EntryRow(side, mode, qty) \in Row /\ EntryRow(side, mode, qty).sl \in Levels
    <3>1. 0 \in Levels /\ 1 \in Levels /\ 0 \in 0 .. MaxStops
      BY LivePositionAssumption DEF Levels
    <3> DEFINE first == IF DisableStopLoss \/ (side = "LONG" /\ mode = "manual") THEN 0 ELSE 1
    <3>2. first \in Levels BY <3>1
    <3>3. epoch + 1 \in Nat OBVIOUS
    <3>4. EntryRow(side, mode, qty) =
            [state |-> "bought", side |-> side, qty |-> qty, sl |-> first, slId |-> 0,
             mode |-> mode, ptp |-> FALSE, born |-> epoch + 1]
      BY DEF EntryRow
    <3> HIDE DEF TypeInv, TypeOK, first
    <3> QED BY <3>1, <3>2, <3>3, <3>4 DEF Row
  <2>2. GoPlace(EntryRow(side, mode, qty), EntryRow(side, mode, qty).sl, FALSE, "rest")
    BY <1>1 DEF EntryFilled
  <2>3. pc' = "place" /\ op' \in Op BY <2>1, <2>2, GoPlaceType
  <2>4. net' \in Int /\ closed' \in Nat BY <1>1, IncreaseType DEF EntryFilled
  <2> QED BY <1>1, <2>3, <2>4 DEF EntryFilled
<1>2. entries' \in Nat BY DEF SendEntry
<1>3. CASE EntryFilled(side, mode, Lot) /\ UNCHANGED <<ctx, left>>
  BY <1>1, <1>2, <1>3, LivePositionAssumption DEF SendEntry, Steps
<1>4. ASSUME NEW qty \in 1 .. Lot, EntryPartial(side, mode, qty), UNCHANGED ctx
      PROVE  TypeInv'
  <2>1. qty \in Nat BY LivePositionAssumption
  <2>2. left' \in [Faults -> Nat] BY <1>4, SpendType DEF EntryPartial
  <2>3. CASE side = "LONG"
    BY <1>1, <1>2, <1>4, <2>1, <2>2, <2>3 DEF EntryPartial, SendEntry, Steps
  <2>4. CASE side # "LONG"
    BY <1>2, <1>4, <2>1, <2>2, <2>4, IncreaseType, GotoType
       DEF EntryPartial, SendEntry, Goto, Steps
  <2> QED BY <2>3, <2>4
<1>5. CASE /\ EntryRefused(side) \/ EntryLate(side)
           /\ Goto("rest") /\ UNCHANGED <<epoch, tpLegs>>
  <2>1. pc' = "rest" /\ op' \in Op BY <1>5, GotoType DEF Goto, Steps
  <2>2. CASE EntryRefused(side)
    <3>1. ctx' \in Ctx BY <2>2 DEF EntryRefused, Ctx
    <3> QED BY <1>2, <1>5, <2>1, <2>2, <3>1, SpendType DEF EntryRefused, SendEntry, Steps
  <2>3. CASE EntryLate(side)
    BY <1>2, <1>5, <2>1, <2>3, SpendType DEF EntryLate, SendEntry, Steps
  <2> QED BY <1>5, <2>2, <2>3
<1> QED BY <1>3, <1>4, <1>5 DEF SendEntry

(* A market close fills at most what was asked for. *)
LEMMA MarketCloseType ==
  ASSUME TypeOK, NEW qty \in Nat, NEW filled \in Nat, MarketClose(qty, filled)
  PROVE  net' \in Int /\ closed' \in Nat /\ left' \in [Faults -> Nat] /\ filled <= qty
<1> USE DEF TypeOK, Faults
<1> DEFINE most == Least(qty, Held(local.side))
<1>1. most \in Nat /\ most <= qty BY HeldType, LeastType
<1>2. CASE filled = most /\ most > 0 /\ Reduce(local.side, most) /\ UNCHANGED left
  BY <1>1, <1>2, ReduceType
<1>3. CASE filled \in 1 .. most - 1 /\ Reduce(local.side, filled) /\ Spend("partial")
  BY <1>1, <1>3, ReduceType, SpendType
<1>4. CASE /\ filled = 0 /\ Spend("landed")
           /\ \E lost \in 1 .. most : Reduce(local.side, lost)
  <2>1. PICK lost \in 1 .. most : Reduce(local.side, lost) BY <1>4
  <2>2. lost \in Nat BY <1>1
  <2> QED BY <1>4, <2>1, <2>2, ReduceType, SpendType
<1>5. CASE /\ filled = 0
           /\ UNCHANGED <<net, closed>>
           /\ IF most > 0 THEN Spend("call") ELSE UNCHANGED left
  BY <1>5, SpendType
<1> QED BY <1>2, <1>3, <1>4, <1>5 DEF MarketClose

(* Partial take-profits and closes keep TypeInv: the steps where the row shrinks. *)
LEMMA TradeKeepsTypes ==
  TypeInv /\ (EndTick \/ Handoff \/ PartialTp \/ Close) => TypeInv'
<1> SUFFICES ASSUME TypeInv, EndTick \/ Handoff \/ PartialTp \/ Close PROVE TypeInv'
  OBVIOUS
<1> USE DEF TypeInv, TypeOK, BooksAtMostRow, dbVars, venueVars, Faults
<1>1. local \in Row /\ op.row \in Row /\ local.qty \in Nat /\ local.sl \in Levels
  BY DEF Row, Op
<1>2. TickRow \in Row BY <1>1 DEF TickRow
<1>3. Half \in Nat /\ local.qty - Half \in Nat BY <1>1 DEF Half
<1>4. ASSUME EndTick PROVE TypeInv'
  BY <1>2, <1>4, ContextTypes, GotoType DEF EndTick, Goto, Steps
<1>5. ASSUME Handoff PROVE TypeInv'
  <2>1. local' \in Row
    <3>1. "strategy" \in Modes BY DEF Modes
    <3> QED BY <1>1, <1>5, <3>1, RowEdits DEF Handoff
  <2> QED BY <1>5, <2>1, ContextTypes, GotoType DEF Handoff, Goto, Steps
<1>6. ASSUME TpTooSmall PROVE TypeInv'
  <2>1. local' \in Row BY <1>1, <1>6, RowEdits DEF TpTooSmall
  <2>2. op' \in Op BY <1>1, <1>6, IdleTypes DEF TpTooSmall, Op
  <2> QED BY <1>6, <2>1, <2>2, ContextTypes DEF TpTooSmall, Steps
<1>7. ASSUME TpMarket PROVE TypeInv'
  <2>1. PICK filled \in 0 .. Half :
          /\ MarketClose(Half, filled)
          /\ IF filled = 0 THEN Goto("hold") /\ UNCHANGED tpLegs
             ELSE Goto("tpBook") /\ tpLegs' = tpLegs + 1
    BY <1>7 DEF TpMarket
  <2>2. net' \in Int /\ closed' \in Nat /\ left' \in [Faults -> Nat]
    BY <1>3, <2>1, MarketCloseType
  <2>3. pc' \in {"hold", "tpBook"} /\ op' \in Op /\ tpLegs' \in Nat
    BY <2>1, GotoType DEF Goto, Steps
  <2> QED BY <1>7, <2>2, <2>3, ContextTypes DEF TpMarket, Steps
<1>8. TpRow \in Row /\ TpRow.sl \in Levels
  <2>1. [local EXCEPT !.qty = @ - Half] \in Row BY <1>1, <1>3, RowEdits
  <2>2. TpRow = [[local EXCEPT !.qty = @ - Half] EXCEPT !.ptp = TRUE] BY DEF TpRow
  <2>3. TpRow \in Row BY <2>1, <2>2, RowEdits
  <2> QED BY <2>3 DEF Row
<1>9. ASSUME TpBook PROVE TypeInv'
  <2>1. booked' \in Nat BY <1>3, <1>9, BookType DEF TpBook
  <2>2. CASE local.slId # 0
    BY <1>9, <2>1, <2>2, GotoType DEF TpBook, Goto, Steps
  <2>3. CASE local.slId = 0
    <3>1. op' = [NoOp EXCEPT !.row = TpRow, !.then = "hold"] BY <1>9, <2>3 DEF TpBook
    <3>2. op' \in Op BY <1>8, <3>1, IdleTypes DEF Op
    <3> QED BY <1>9, <2>1, <2>3, <3>2 DEF TpBook, Steps
  <2> QED BY <2>2, <2>3
<1>10. ASSUME TpCancel PROVE TypeInv'
  BY <1>8, <1>10, CancelType, GoPlaceType DEF TpCancel
<1>11. ASSUME NEW rev \in BOOLEAN, StartClose(rev), ctx' \in Ctx PROVE TypeInv'
  BY <1>11, IdleTypes DEF StartClose, NoOp, Op, Steps
<1>12. ASSUME CloseCancel PROVE TypeInv'
  <2>1. [op EXCEPT !.restore = TRUE] \in Op BY DEF Op
  <2> QED BY <1>12, <2>1, CancelType, GotoType DEF CloseCancel, Goto, Steps
<1>13. ASSUME CloseMarket PROVE TypeInv'
  <2>1. PICK filled \in 0 .. local.qty :
          /\ MarketClose(local.qty, filled)
          /\ IF filled > 0 THEN pc' = "closeBook" /\ op' = [op EXCEPT !.got = filled]
             ELSE IF op.restore THEN GoPlace(local, local.sl, FALSE, "rest")
             ELSE Goto("rest")
    BY <1>13 DEF CloseMarket
  <2>2. net' \in Int /\ closed' \in Nat /\ left' \in [Faults -> Nat]
    BY <1>1, <2>1, MarketCloseType
  <2>3. CASE filled > 0
    <3>1. op' \in Op /\ op'.got = filled BY <1>1, <2>1, <2>3 DEF Op
    <3> QED BY <1>1, <1>13, <2>1, <2>2, <2>3, <3>1 DEF CloseMarket, Steps
  <2>4. CASE ~(filled > 0) /\ op.restore
    BY <1>1, <1>13, <2>1, <2>2, <2>4, GoPlaceType DEF CloseMarket
  <2>5. CASE ~(filled > 0) /\ ~op.restore
    BY <1>13, <2>1, <2>2, <2>5, GotoType DEF CloseMarket, Goto, Steps
  <2> QED BY <2>3, <2>4, <2>5
<1>14. ASSUME CloseBook PROVE TypeInv'
  <2>1. op.got \in Nat /\ op.got <= local.qty BY <1>14 DEF CloseBook, Op
  <2>2. booked' \in Nat BY <1>14, <2>1, BookType DEF CloseBook
  <2>3. CASE op.got = local.qty
    <3>1. local' = IdleRow BY <1>14, <2>3 DEF CloseBook
    <3>2. CASE op.rev
      <4>1. op' = [NoOp EXCEPT !.row.side = local.side] BY <1>14, <2>3, <3>2 DEF CloseBook
      <4>2. [IdleRow EXCEPT !.side = local.side] \in Row BY <1>1, IdleTypes DEF Row
      <4>3. op' = [NoOp EXCEPT !.row = [IdleRow EXCEPT !.side = local.side]]
        BY <4>1 DEF NoOp
      <4>4. op' \in Op BY <4>2, <4>3, IdleTypes DEF Op
      <4> QED BY <1>14, <2>2, <2>3, <3>1, <3>2, <4>4, IdleTypes DEF CloseBook, Steps
    <3>3. CASE ~op.rev
      BY <1>14, <2>2, <2>3, <3>1, <3>3, IdleTypes, GotoType DEF CloseBook, Goto, Steps
    <3> QED BY <3>2, <3>3
  <2>4. CASE op.got # local.qty
    <3> DEFINE rest == [local EXCEPT !.qty = @ - op.got]
               row  == IF local.side = "SHORT" THEN rest
                       ELSE [rest EXCEPT !.mode = "strategy", !.ptp = FALSE]
    <3>1. local.qty - op.got \in Nat BY <1>1, <2>1
    <3>2. rest \in Row BY <1>1, <3>1, RowEdits
    <3>3. [rest EXCEPT !.mode = "strategy", !.ptp = FALSE] \in Row
      <4>1. "strategy" \in Modes BY DEF Modes
      <4> HIDE DEF rest
      <4> QED BY <3>2, <4>1 DEF Row
    <3>4. row \in Row /\ row.sl \in Levels BY <3>2, <3>3 DEF Row
    <3>5. GoPlace(row, row.sl, FALSE, "rest") /\ UNCHANGED local
      BY <1>14, <2>4 DEF CloseBook
    <3>6. pc' = "place" /\ pc' \in Steps /\ op' \in Op
      <4> HIDE DEF row
      <4> QED BY <3>4, <3>5, GoPlaceType
    <3> QED BY <1>14, <2>2, <3>5, <3>6 DEF CloseBook
  <2> QED BY <2>3, <2>4
<1>15. ASSUME PartialTp PROVE TypeInv'
  BY <1>6, <1>7, <1>9, <1>10, <1>15 DEF PartialTp
<1>16. ASSUME Close PROVE TypeInv'
  <2>1. ASSUME NEW rev \in BOOLEAN, StrategyClose(rev) PROVE TypeInv'
    BY <1>11, <2>1, ContextTypes DEF StrategyClose
  <2>2. ASSUME ManualClose PROVE TypeInv'
    BY <1>11, <2>2 DEF ManualClose
  <2> QED BY <1>12, <1>13, <1>14, <1>16, <2>1, <2>2 DEF Close
<1> QED BY <1>4, <1>5, <1>15, <1>16

(* Moving the trailing stop keeps TypeInv. *)
LEMMA TrailKeepsTypes ==
  TypeInv /\ ((\E level \in Levels : Trail(level)) \/ TrailCancel \/ TrailVerify) => TypeInv'
<1> SUFFICES ASSUME TypeInv, (\E level \in Levels : Trail(level)) \/ TrailCancel \/ TrailVerify
             PROVE  TypeInv'
  OBVIOUS
<1> USE DEF TypeInv, TypeOK, BooksAtMostRow, dbVars, venueVars, Faults
<1>1. local \in Row /\ op.row \in Row /\ local.sl \in Levels BY DEF Row, Op
<1>2. ASSUME NEW level \in Levels, Trail(level) PROVE TypeInv'
  <2> DEFINE row == [TickRow EXCEPT !.sl = level]
  <2>1. TickRow \in Row BY <1>1 DEF TickRow
  <2>2. row \in Row BY <2>1, RowEdits
  <2>3. IF row.slId = 0 THEN GoPlace(row, local.sl, FALSE, "rest")
        ELSE pc' = "trailCancel" /\ op' = [NoOp EXCEPT !.row = row]
    BY <1>2 DEF Trail
  <2>4. pc' \in {"place", "trailCancel"} /\ op' \in Op
    <3> HIDE DEF row
    <3>1. CASE row.slId = 0 BY <1>1, <2>2, <2>3, <3>1, GoPlaceType
    <3>2. CASE row.slId # 0 BY <2>2, <2>3, <3>2, IdleTypes DEF Op
    <3> QED BY <3>1, <3>2
  <2> QED BY <1>2, <2>4, ContextTypes DEF Trail, Steps
<1>3. ASSUME TrailCancel PROVE TypeInv'
  <2>1. pc' \in {"place", "trailVerify"} /\ op' \in Op
    BY <1>1, <1>3, GoPlaceType DEF TrailCancel
  <2> QED BY <1>3, <2>1, CancelType DEF TrailCancel, Steps
<1>4. ASSUME TrailVerify PROVE TypeInv'
  <2>1. [op.row EXCEPT !.sl = local.sl] \in Row BY <1>1, RowEdits
  <2>2. [[op.row EXCEPT !.sl = local.sl] EXCEPT !.slId = 0] \in Row
    <3>1. 0 \in 0 .. MaxStops BY LivePositionAssumption
    <3> QED BY <2>1, <3>1, RowEdits
  <2>3. op' \in Op
    <3>1. CASE op' = [op EXCEPT !.row.sl = local.sl]
      <4>1. op' = [op EXCEPT !.row = [op.row EXCEPT !.sl = local.sl]] BY <3>1
      <4> QED BY <2>1, <4>1 DEF Op
    <3>2. CASE op' = [op EXCEPT !.row.sl = local.sl, !.row.slId = 0]
      <4>1. op' = [op EXCEPT !.row = [[op.row EXCEPT !.sl = local.sl] EXCEPT !.slId = 0]]
        BY <3>2
      <4> QED BY <2>2, <4>1 DEF Op
    <3> QED BY <1>4, <3>1, <3>2 DEF TrailVerify
  <2>4. left' \in [Faults -> Nat] BY <1>4, SpendType DEF TrailVerify
  <2> QED BY <1>4, <2>3, <2>4 DEF TrailVerify, Steps
<1> QED BY <1>2, <1>3, <1>4

(* Every step of the engine, the venue or the operating system keeps TypeInv. *)
LEMMA TypeInvInductive == TypeInv /\ [Next]_vars => TypeInv'
<1> SUFFICES ASSUME TypeInv, [Next]_vars PROVE TypeInv'
  OBVIOUS
<1>1. CASE Venue BY <1>1, VenueKeepsTypes
<1>2. CASE OrderHelpers BY <1>2, OrderHelpersKeepTypes
<1>3. CASE Reconcile \/ ReconcileSteps BY <1>3, ReconcileKeepsTypes
<1>4. CASE Poll \/ Ensure \/ PartCancel \/ BeginTick BY <1>4, PollKeepsTypes
<1>5. CASE EndTick \/ Handoff \/ PartialTp \/ Close BY <1>5, TradeKeepsTypes
<1>6. CASE (\E level \in Levels : Trail(level)) \/ TrailCancel \/ TrailVerify
  BY <1>6, TrailKeepsTypes
<1>7. ASSUME NEW side \in Sides, StrategyEntry(side) PROVE TypeInv'
  <2>1. "strategy" \in Modes BY DEF Modes
  <2> QED BY <1>7, <2>1, EntryKeepsTypes DEF StrategyEntry
<1>8. ASSUME NEW side \in Sides, NEW mode \in Modes, ManualEntry(side, mode)
      PROVE  TypeInv'
  BY <1>8, EntryKeepsTypes DEF ManualEntry
<1>9. CASE ReverseEntry
  <2>1. "strategy" \in Modes /\ Opposite(op.row.side) \in Sides
    BY DEF Modes, Opposite, Sides
  <2> QED BY <1>9, <2>1, EntryKeepsTypes DEF ReverseEntry
<1>10. CASE ReverseBlocked
  BY <1>10, GotoType DEF ReverseBlocked, Goto, TypeInv, TypeOK, BooksAtMostRow,
     dbVars, venueVars, Steps
<1>11. CASE Crash
  BY <1>11, GotoType, IdleTypes, SpendType
     DEF Crash, Goto, TypeInv, TypeOK, BooksAtMostRow, dbVars, venueVars, Steps, Faults
<1>12. CASE UNCHANGED vars
  BY <1>12 DEF vars, TypeInv, TypeOK, BooksAtMostRow
<1> QED BY <1>1, <1>2, <1>3, <1>4, <1>5, <1>6, <1>7, <1>8, <1>9, <1>10, <1>11, <1>12
        DEF Next, Engine, TickSteps

(* The first start: no position, no order, an empty database. *)
LEMMA InitTypes == Init => TypeInv
<1>1. 0 \in Nat OBVIOUS
<1> QED BY <1>1, IdleTypes, LivePositionAssumption
        DEF Init, TypeInv, TypeOK, BooksAtMostRow, Steps

(* Every behaviour of the engine and the venue keeps every variable in its   *)
(* set, whatever the lot size, the levels and the faults: in particular the *)
(* row's quantity is never negative.                                        *)
THEOREM TypeCorrect == Safe => []TypeOK
<1>1. TypeInv => TypeOK BY DEF TypeInv
<1> QED BY <1>1, InitTypes, TypeInvInductive, PTL DEF Safe
=============================================================================
