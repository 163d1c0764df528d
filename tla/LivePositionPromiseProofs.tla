---------------------- MODULE LivePositionPromiseProofs ----------------------
(* LivePosition implements PositionPromise, and books no close that did not  *)
(* happen, for every lot, level and bound, as long as the account is        *)
(* undisturbed.                                                             *)
EXTENDS LivePositionPromise, LivePositionStopProofs

(* How much of a signed position n is on a side. *)
Amount(side, n) ==
  IF side = "LONG" THEN (IF n > 0 THEN n ELSE 0) ELSE (IF n < 0 THEN -n ELSE 0)

(* The venue holds nothing the row does not show. *)
Covered(row, n) == Amount(Opposite(row.side), n) = 0 /\ Amount(row.side, n) <= row.qty

(* The stop of the row would close all that is held, or has done so. *)
Guarded(row, orders, n) ==
  row.slId # 0 =>
    /\ orders[row.slId].st = "live" =>
         orders[row.slId].size >= Amount(orders[row.slId].side, n)
    /\ orders[row.slId].st = "filled" => n = 0

(* The faults that are left are those of an undisturbed account. *)
FewFaults(faults) ==
  /\ faults["late"] = 0 /\ faults["partial"] = 0 /\ faults["outside"] = 0
  /\ faults["call"] = 0 \/ faults["crash"] = 0
Calm ==
  /\ FewFaults(left)
  /\ \A side \in Sides : inflight[side] = 0
  /\ \A i \in Ids : stops[i].done = 0

RowTrue == Bought => pending = {} /\ Covered(local, net) /\ Guarded(local, stops, net)

(* A position without a row is one whose row is on its way, or was when the  *)
(* process died.                                                            *)
Unrecorded ==
  pending = {} /\ (pc \in {"place", "save"} \/ (pc = "boot" /\ left["call"] = 0))
IdleTrue == ~Bought => net = 0 \/ Unrecorded

BoughtSteps == {"poll", "ensure", "tpBook", "tpCancel", "closeCancel",
                "closeMarket", "closeBook", "trailCancel", "trailVerify"}
Carried ==
  /\ pc \in {"place", "save"} =>
       op.row.state = "bought" /\ pending = {} /\ Covered(op.row, net)
  /\ pc = "save" => Guarded(op.row, stops, net)
  /\ pc \in {"trailCancel", "trailVerify"} =>
       op.row.state = "bought" /\ op.row.qty = local.qty
  /\ pc = "hold" => op.row.state = "idle" \/ op.row.qty = local.qty
  /\ pc \in {"tpBook", "tpCancel"} => Amount(local.side, net) <= local.qty - Half
  /\ pc = "closeBook" => net = 0
  /\ pc \in BoughtSteps => Bought
  /\ pc # "partCancel"
  /\ pc = "reverse" => ~Bought /\ net = 0 /\ pending = {}

(* A queued close keeps the symbol halted, and is the one being confirmed. *)
QueueTrue ==
  /\ pending # {} =>
       \/ ctx.pending
       \/ pc = "boot" /\ left["call"] = 0
       \/ pc = "retry"
       \/ pc = "confirm" /\ op.then = "retry"
  /\ pc \in {"flatSweep", "confirm"} /\ op.then # "retry" =>
       pending \subseteq {ClosureOf(op.row)}

Truth == RowTrue /\ IdleTrue /\ Carried /\ QueueTrue
PromiseInv == StopInv /\ Calm /\ Truth

(* A step of the abstract specification, or nothing it can see. *)
Moves == [Promise!Next]_(Promise!vars)

-----------------------------------------------------------------------------
(* Amounts *)

(* What the ledger holds of a side is its amount. *)
LEMMA HeldAmount == \A side : Held(side) = Amount(side, net)
BY DEF Held, Amount

(* An amount is a count, and a position has one side. *)
LEMMA AmountType ==
  ASSUME NEW n \in Int
  PROVE  /\ \A side : Amount(side, n) \in Nat
         /\ Amount("LONG", n) = 0 /\ Amount("SHORT", n) = 0 => n = 0
         /\ \A side : n = 0 => Amount(side, n) = 0
BY DEF Amount

(* m is what is left of n. *)
Less(m, n) == \A side \in Sides : Amount(side, m) <= Amount(side, n)

(* Less is reflexive, and what is left of nothing is nothing. *)
LEMMA LessFacts ==
  ASSUME NEW m \in Int, NEW n \in Int
  PROVE  Less(n, n) /\ (Less(m, n) /\ n = 0 => m = 0)
BY AmountType DEF Less, Sides, Amount

(* A row that shows a position shows what is left of it. *)
LEMMA CoveredLess ==
  ASSUME NEW row \in Row, NEW m \in Int, NEW n \in Int, Less(m, n), Covered(row, n)
  PROVE  Covered(row, m)
<1>1. row.side \in Sides /\ Opposite(row.side) \in Sides /\ row.qty \in Nat
  BY DEF Row, Opposite, Sides
<1>2. /\ Amount(row.side, m) <= Amount(row.side, n)
      /\ Amount(Opposite(row.side), m) <= Amount(Opposite(row.side), n)
  BY <1>1 DEF Less
<1>3. \A side : Amount(side, m) \in Nat /\ Amount(side, n) \in Nat BY AmountType
<1> QED BY <1>1, <1>2, <1>3 DEF Covered

(* A reduce-only fill of no more than is held leaves less, and nothing when  *)
(* all of it fills.                                                         *)
LEMMA ReduceLess ==
  ASSUME net \in Int, NEW side \in Sides, NEW q \in Nat, q <= Held(side), Reduce(side, q)
  PROVE  /\ net' \in Int /\ Less(net', net)
         /\ Amount(side, net') = Amount(side, net) - q
         /\ q = Held(side) /\ q > 0 => net' = 0
BY DEF Reduce, Delta, Held, Less, Amount, Sides

(* Every row shows an empty venue. *)
LEMMA CoveredFlat ==
  ASSUME NEW row \in Row
  PROVE  Covered(row, 0)
BY DEF Covered, Amount, Row

(* What happens to a stop that guards: it is over, for good if it filled. *)
Holds(before, after, m) ==
  \/ after = before
  \/ after.st \in {"none", "cancelled"}
  \/ after.st = "filled" /\ m = 0
LEMMA GuardedHolds ==
  ASSUME NEW row \in Row, NEW old \in [Ids -> Stop], NEW new \in [Ids -> Stop],
         NEW m \in Int, NEW n \in Int, Less(m, n), Guarded(row, old, n),
         row.slId # 0 => Holds(old[row.slId], new[row.slId], m)
  PROVE  Guarded(row, new, m)
<1> SUFFICES ASSUME row.slId # 0 PROVE Guarded(row, new, m)
  BY DEF Guarded
<1> DEFINE i == row.slId
<1>1. i \in Ids BY RowIds
<1>2. old[i] \in Stop BY <1>1
<1>3. old[i].side \in Sides /\ old[i].size \in Nat BY <1>2 DEF Stop
<1>4. CASE new[i] = old[i]
  <2>1. Amount(old[i].side, m) <= Amount(old[i].side, n) BY <1>3 DEF Less
  <2>2. Amount(old[i].side, m) \in Nat /\ Amount(old[i].side, n) \in Nat BY AmountType
  <2>3. n = 0 => m = 0 BY LessFacts
  <2> QED BY <1>3, <1>4, <2>1, <2>2, <2>3 DEF Guarded
<1>5. CASE new[i].st \in {"none", "cancelled"} \/ (new[i].st = "filled" /\ m = 0)
  BY <1>5 DEF Guarded
<1> QED BY <1>4, <1>5 DEF Holds

-----------------------------------------------------------------------------
(* What most steps have in common *)

HoldsNamed == \A i \in Named : Holds(stops[i], stops'[i], net')
Unfilled == \A i \in Ids : stops'[i].done = 0

(* A cancel_order call ends a stop without filling it. *)
LEMMA CancelHolds ==
  ASSUME TypeInv, Calm, Cancelled \/ NotCancelled
  PROVE  HoldsNamed /\ Unfilled
<1> USE DEF TypeInv, TypeOK, Calm
<1>1. CASE Cancelled
  BY <1>1 DEF Cancelled, HoldsNamed, Holds, Unfilled, Named, Over, NoStop
<1>2. CASE NotCancelled
  BY <1>2 DEF NotCancelled, HoldsNamed, Holds, Unfilled, Named
<1> QED BY <1>1, <1>2

(* So does a sweep of orphans. *)
LEMMA SweepHolds ==
  ASSUME TypeInv, Calm, NEW side, NEW tracked, SweepOrphans(side, tracked)
  PROVE  HoldsNamed /\ Unfilled
BY DEF TypeInv, TypeOK, Calm, SweepOrphans, HoldsNamed, Holds, Unfilled, Named, Over,
       NoStop

(* A new stop is none of those that are named. *)
LEMMA AcceptHolds ==
  ASSUME TypeInv, Calm, NEW row \in Row, NEW i \in Ids, NextId(i), Accept(row, i)
  PROVE  HoldsNamed /\ Unfilled
BY DEF TypeInv, TypeOK, Calm, NextId, FreeIds, Accept, HoldsNamed, Holds, Unfilled, Named

(* Stops that nobody touches hold. *)
LEMMA SameHolds ==
  ASSUME Calm, stops' = stops
  PROVE  HoldsNamed /\ Unfilled
BY DEF Calm, HoldsNamed, Holds, Unfilled

(* Nothing that disturbs the account happens. *)
LEMMA NothingDisturbs ==
  ASSUME Calm
  PROVE  ~Spend("late") /\ ~Spend("partial") /\ ~Spend("outside")
BY DEF Calm, FewFaults, Spend

(* A call, an answer, the history or the process may fail; the account stays *)
(* undisturbed.                                                             *)
SpendsQuietly ==
  \/ left' = left
  \/ \E fault \in {"call", "landed", "history", "crash"} : Spend(fault)
LEMMA CalmStep ==
  ASSUME TypeInv, Calm, SpendsQuietly, inflight' = inflight, Unfilled
  PROVE  Calm'
<1>1. left \in [Faults -> Nat] BY DEF TypeInv, TypeOK
<1>2. FewFaults(left')
  <2>1. CASE left' = left BY <2>1 DEF Calm
  <2>2. ASSUME NEW fault \in {"call", "landed", "history", "crash"}, Spend(fault)
        PROVE  FewFaults(left')
    <3>1. left' = [left EXCEPT ![fault] = @ - 1] /\ left[fault] > 0 BY <2>2 DEF Spend
    <3>2. left["call"] \in Nat /\ left["crash"] \in Nat BY <1>1 DEF Faults
    <3> QED BY <1>1, <3>1, <3>2 DEF Calm, FewFaults, Faults
  <2> QED BY <2>1, <2>2 DEF SpendsQuietly
<1> QED BY <1>2 DEF Calm, Unfilled

(* The row still tells the truth when less is held and its stop holds. *)
LEMMA RowKept ==
  ASSUME PromiseInv, TypeInv', local' = local, pending' = pending, Less(net', net),
         HoldsNamed
  PROVE  RowTrue'
<1> SUFFICES ASSUME Bought PROVE RowTrue'
  BY DEF RowTrue, Bought
<1>1. /\ local \in Row /\ net \in Int /\ net' \in Int
      /\ stops \in [Ids -> Stop] /\ stops' \in [Ids -> Stop]
  BY DEF PromiseInv, StopInv, TypeInv, TypeOK
<1>2. pending = {} /\ Covered(local, net) /\ Guarded(local, stops, net)
  BY DEF PromiseInv, Truth, RowTrue
<1>3. Covered(local, net') BY <1>1, <1>2, CoveredLess
<1>4. local.slId # 0 => Holds(stops[local.slId], stops'[local.slId], net')
  BY <1>1, RowIds DEF HoldsNamed, Named
<1>5. Guarded(local, stops', net') BY <1>1, <1>2, <1>4, GuardedHolds
<1> QED BY <1>2, <1>3, <1>5 DEF RowTrue

(* Without a row there is nothing more to find on the venue. *)
LEMMA IdleKept ==
  ASSUME PromiseInv, TypeInv', local' = local, Less(net', net), ~Bought => net = 0
  PROVE  IdleTrue'
<1>1. net \in Int /\ net' \in Int BY DEF PromiseInv, StopInv, TypeInv, TypeOK
<1>2. ~Bought => net' = 0 BY <1>1, LessFacts
<1> QED BY <1>2 DEF IdleTrue, Bought

(* Steps at which nothing is carried that the promise depends on. *)
Plain == {"rest", "boot", "decide", "flatSweep", "idleSweep", "confirm", "retry"}
LEMMA PlainCarried ==
  ASSUME \/ pc' \in Plain
         \/ pc' \in {"poll", "ensure", "closeCancel", "closeMarket"} /\ Bought'
         \/ pc' = "hold" /\ op'.row.state = "idle"
  PROVE  Carried'
BY DEF Carried, Plain, BoughtSteps

(* The halt for a queued close stays on. *)
LEMMA QueueKept ==
  ASSUME PromiseInv, pending' = pending, ctx.pending => ctx'.pending,
         pc \notin {"boot", "retry", "confirm"}, pc' \notin {"flatSweep", "confirm"}
  PROVE  QueueTrue'
BY DEF PromiseInv, Truth, QueueTrue

(* Without a queued close there is nothing to keep. *)
LEMMA EmptyQueue ==
  ASSUME pending' = {}
  PROVE  QueueTrue'
BY DEF QueueTrue

(* A stop is asked for a row that shows what is held. *)
LEMMA PlaceTruth ==
  ASSUME PromiseInv, TypeInv', local' = local, pending' = {}, pending = {},
         Less(net', net), HoldsNamed,
         NEW row, NEW fall, NEW again, NEW then, GoPlace(row, fall, again, then),
         row.state = "bought", Covered(row, net')
  PROVE  Truth'
<1>1. RowTrue' BY RowKept
<1>2. pc' = "place" /\ op'.row = row BY DEF GoPlace, NoOp
<1>3. IdleTrue' BY <1>2 DEF IdleTrue, Unrecorded
<1>4. Carried' BY <1>2 DEF Carried, BoughtSteps
<1> QED BY <1>1, <1>3, <1>4, EmptyQueue DEF Truth

(* What the abstract specification sees of a step that only fills. *)
LEMMA LessMoves ==
  ASSUME net \in Int, net' \in Int, local'.state = local.state, pending' = pending,
         Less(net', net)
  PROVE  Moves
<1>1. net = 0 => net' = 0 BY LessFacts
<1>2. CASE net # 0 /\ net' = 0
  BY <1>2 DEF Moves, Promise!Next, Promise!Leave, Promise!vars
<1>3. CASE net = 0 <=> net' = 0
  BY <1>3 DEF Moves, Promise!vars
<1> QED BY <1>1, <1>2, <1>3

(* A step that moves neither the venue, nor the row, nor the queue. *)
LEMMA StillMoves ==
  ASSUME net' = net, local'.state = local.state, pending' = pending
  PROVE  Moves
BY DEF Moves, Promise!vars

(* A plain step of the engine: it ends where nothing is carried. *)
LEMMA PlainStep ==
  ASSUME PromiseInv, StopInv', local' = local, pending' = pending, Less(net', net),
         HoldsNamed, Unfilled, SpendsQuietly, inflight' = inflight,
         ~Bought => net = 0, Carried', QueueTrue'
  PROVE  PromiseInv' /\ Moves
<1>1. TypeInv /\ TypeInv' /\ net \in Int /\ net' \in Int
  BY DEF PromiseInv, StopInv, TypeInv, TypeOK
<1>2. Calm' BY <1>1, CalmStep DEF PromiseInv
<1>3. RowTrue' /\ IdleTrue' BY <1>1, RowKept, IdleKept
<1>4. Moves BY <1>1, LessMoves
<1> QED BY <1>2, <1>3, <1>4 DEF PromiseInv, Truth

-----------------------------------------------------------------------------
(* One lemma per group of actions: each keeps PromiseInv and moves as promised *)

(* A stop that fires empties the venue for the row it guards. *)
LEMMA FireGuards ==
  ASSUME TypeInv, Calm, NEW i \in Ids, StopFires(i), NEW row \in Row,
         Guarded(row, stops, net)
  PROVE  Guarded(row, stops', net')
<1>1. /\ stops \in [Ids -> Stop] /\ net \in Int /\ stops[i].done = 0
      /\ stops[i].size \in Nat /\ stops[i].side \in Sides
  BY DEF TypeInv, TypeOK, Calm, Stop
<1> DEFINE q == Least(stops[i].size, Held(stops[i].side))
<1>2. /\ stops[i].st = "live" /\ Held(stops[i].side) > 0
      /\ Reduce(stops[i].side, q) /\ stops' = [stops EXCEPT ![i] = Over(i, "filled")]
  BY <1>1 DEF StopFires, LiveStop
<1>3. Held(stops[i].side) \in Nat BY <1>1, HeldType
<1>4. q \in Nat /\ q <= Held(stops[i].side) BY <1>1, <1>3, LeastType
<1>5. CASE row.slId = i
  <2>1. i # 0 BY DEF Ids
  <2>2. Held(stops[i].side) <= stops[i].size
    BY <1>2, <1>5, <2>1, HeldAmount DEF Guarded
  <2>3. q = Held(stops[i].side) BY <1>1, <1>3, <2>2 DEF Least
  <2> HIDE DEF q
  <2>4. net' = 0 BY <1>1, <1>2, <1>3, <1>4, <2>3, ReduceLess
  <2>5. stops'[i].st # "live" BY <1>1, <1>2 DEF Over, NoStop
  <2> QED BY <1>5, <2>4, <2>5 DEF Guarded
<1>6. CASE row.slId # i
  <2> HIDE DEF q
  <2>1. net' \in Int /\ Less(net', net) BY <1>1, <1>2, <1>4, ReduceLess
  <2>2. row.slId # 0 => Holds(stops[row.slId], stops'[row.slId], net')
    BY <1>1, <1>2, <1>6, RowIds DEF Holds
  <2>3. stops' \in [Ids -> Stop] BY <1>1, <1>2, OverType
  <2> QED BY <1>1, <2>1, <2>2, <2>3, GuardedHolds
<1> QED BY <1>5, <1>6

(* What the venue does on its own: a guarding stop closes all of the position. *)
LEMMA VenueMoves == PromiseInv /\ StopInv' /\ Venue => PromiseInv' /\ Moves
<1> SUFFICES ASSUME PromiseInv, StopInv', Venue PROVE PromiseInv' /\ Moves
  OBVIOUS
<1>1. /\ TypeInv /\ Calm /\ local \in Row /\ op.row \in Row /\ net \in Int /\ net' \in Int
      /\ local.side \in Sides /\ local.qty \in Nat
      /\ stops \in [Ids -> Stop] /\ inflight \in [Sides -> Nat]
  BY DEF PromiseInv, StopInv, TypeInv, TypeOK, Op, Row
<1>2. PICK i \in Ids : StopFires(i)
  <2>1. ~\E side \in Sides : LateFill(side) BY <1>1 DEF LateFill, Calm
  <2> QED BY <1>1, <2>1, NothingDisturbs
          DEF Venue, StopFiresPartly, OutsideCancel, OutsideOpen, OutsideClose
<1>3. /\ local' = local /\ pending' = pending /\ booked' = booked /\ ctx' = ctx
      /\ pc' = pc /\ op' = op /\ inflight' = inflight /\ left' = left
  BY <1>2 DEF StopFires, dbVars
<1>4. Less(net', net)
  <2> DEFINE q == Least(stops[i].size - stops[i].done, Held(stops[i].side))
  <2>1. stops[i].side \in Sides /\ stops[i].size - stops[i].done \in Nat BY <1>1 DEF Stop
  <2>2. Held(stops[i].side) \in Nat BY <1>1, HeldType
  <2>3. q \in Nat /\ q <= Held(stops[i].side) BY <2>1, <2>2, LeastType
  <2>4. Reduce(stops[i].side, q) BY <1>2 DEF StopFires
  <2> HIDE DEF q
  <2> QED BY <1>1, <2>1, <2>3, <2>4, ReduceLess
<1>5. net = 0 => net' = 0 BY <1>1, <1>4, LessFacts
<1>6. Calm'
  <2>1. Unfilled BY <1>1, <1>2 DEF StopFires, Calm, Unfilled, Over, NoStop
  <2> QED BY <1>1, <1>3, <2>1, CalmStep DEF SpendsQuietly
<1>7. RowTrue'
  <2> SUFFICES ASSUME Bought PROVE RowTrue' BY <1>3 DEF RowTrue, Bought
  <2>1. pending = {} /\ Covered(local, net) /\ Guarded(local, stops, net)
    BY DEF PromiseInv, Truth, RowTrue
  <2>2. Covered(local, net') BY <1>1, <1>4, <2>1, CoveredLess
  <2>3. Guarded(local, stops', net') BY <1>1, <1>2, <2>1, FireGuards
  <2> QED BY <1>3, <2>1, <2>2, <2>3 DEF RowTrue
<1>8. IdleTrue' BY <1>3, <1>5 DEF PromiseInv, Truth, IdleTrue, Unrecorded, Bought
<1>9. Carried'
  <2>1. Carried BY DEF PromiseInv, Truth
  <2>2. pc \in {"place", "save"} => Covered(op.row, net')
    BY <1>1, <1>4, <2>1, CoveredLess DEF Carried
  <2>3. pc = "save" => Guarded(op.row, stops', net')
    BY <1>1, <1>2, <2>1, FireGuards DEF Carried
  <2>4. Amount(local.side, net') <= Amount(local.side, net)
    BY <1>1, <1>4 DEF Less
  <2>5. Amount(local.side, net') \in Nat /\ Amount(local.side, net) \in Nat /\ Half \in Nat
    BY <1>1, AmountType DEF Half
  <2>6. pc \in {"tpBook", "tpCancel"} => Amount(local.side, net') <= local.qty - Half
    BY <1>1, <2>1, <2>4, <2>5 DEF Carried
  <2>7. Half' = Half /\ Bought' = Bought BY <1>3 DEF Half, Bought
  <2> QED BY <1>3, <1>5, <2>1, <2>2, <2>3, <2>6, <2>7 DEF Carried
<1>10. QueueTrue' BY <1>3 DEF PromiseInv, Truth, QueueTrue
<1>11. Moves BY <1>1, <1>3, <1>4, LessMoves
<1> QED BY <1>6, <1>7, <1>8, <1>9, <1>10, <1>11 DEF PromiseInv, Truth

(* Asking for the stop goes on until the row is saved. *)
LEMMA HelperStep ==
  ASSUME PromiseInv, StopInv', pc = "place", local' = local, pending' = pending,
         net' = net, inflight' = inflight, SpendsQuietly, HoldsNamed, Unfilled,
         pc' \in {"place", "save"}, op'.row.state = "bought", Covered(op'.row, net),
         pc' = "save" => Guarded(op'.row, stops', net)
  PROVE  PromiseInv' /\ Moves
<1>1. TypeInv /\ TypeInv' /\ net \in Int BY DEF PromiseInv, StopInv, TypeInv, TypeOK
<1>2. pending = {} BY DEF PromiseInv, Truth, Carried
<1>3. Calm' BY <1>1, CalmStep DEF PromiseInv
<1>4. RowTrue' BY <1>1, RowKept, LessFacts
<1>5. IdleTrue' BY <1>2 DEF IdleTrue, Unrecorded
<1>6. Carried' BY <1>2 DEF Carried, BoughtSteps
<1> QED BY <1>2, <1>3, <1>4, <1>5, <1>6, EmptyQueue, StillMoves DEF PromiseInv, Truth

(* Placing a stop and saving the row: what is saved shows what is held, and  *)
(* its stop closes all of it.                                               *)
LEMMA OrderHelpersMove == PromiseInv /\ StopInv' /\ OrderHelpers => PromiseInv' /\ Moves
<1> SUFFICES ASSUME PromiseInv, StopInv', OrderHelpers PROVE PromiseInv' /\ Moves
  OBVIOUS
<1> USE DEF dbVars, venueVars
<1>1. /\ TypeInv /\ Calm /\ Carried /\ op \in Op /\ op.row \in Row /\ net \in Int
      /\ op.fall \in Levels /\ stops \in [Ids -> Stop]
      /\ op.then \in {"rest", "decide", "hold", "retry"}
  BY DEF PromiseInv, StopInv, TypeInv, TypeOK, Op, Truth
<1>2. pc = "place" => op.row.state = "bought" /\ Covered(op.row, net)
  BY <1>1 DEF Carried
<1>3. ASSUME pc = "place", local' = local, pending' = pending, net' = net,
             inflight' = inflight, SpendsQuietly, HoldsNamed, Unfilled, Unplaced
      PROVE  PromiseInv' /\ Moves
  <2>1. pc' \in {"place", "save"} BY <1>3 DEF Unplaced
  <2>2. /\ op'.row.state = op.row.state /\ op'.row.side = op.row.side
        /\ op'.row.qty = op.row.qty /\ (pc' = "save" => op'.row.slId = 0)
    <3>1. CASE op.again
      <4>1. pc' = "place" /\ op' = [op EXCEPT !.row.sl = op.fall, !.again = FALSE]
        BY <1>3, <3>1 DEF Unplaced
      <4> QED BY <1>1, <4>1 DEF Op, Row
    <3>2. CASE ~op.again
      <4>1. pc' = "save" /\ op' = [op EXCEPT !.row.sl = op.fall, !.row.slId = 0]
        BY <1>3, <3>2 DEF Unplaced
      <4> QED BY <1>1, <4>1 DEF Op, Row
    <3> QED BY <3>1, <3>2
  <2>3. Covered(op'.row, net) BY <1>2, <1>3, <2>2 DEF Covered
  <2>4. pc' = "save" => Guarded(op'.row, stops', net) BY <2>2 DEF Guarded
  <2> QED BY <1>2, <1>3, <2>1, <2>2, <2>3, <2>4, HelperStep
<1>4. ASSUME PlaceStop PROVE PromiseInv' /\ Moves
  <2>1. PICK i \in Ids : NextId(i) /\ Accept(op.row, i)
                         /\ op' = [op EXCEPT !.row.slId = i] /\ pc' = "save"
    BY <1>4 DEF PlaceStop
  <2>2. HoldsNamed /\ Unfilled BY <1>1, <2>1, AcceptHolds
  <2>3. /\ op'.row.state = op.row.state /\ op'.row.side = op.row.side
        /\ op'.row.qty = op.row.qty /\ op'.row.slId = i
    BY <1>1, <2>1 DEF Op, Row
  <2>4. stops'[i].st = "live" /\ stops'[i].side = op.row.side /\ stops'[i].size = op.row.qty
    BY <1>1, <2>1 DEF Accept
  <2>5. pc = "place" /\ Covered(op.row, net) /\ op.row.state = "bought"
    BY <1>2, <1>4 DEF PlaceStop
  <2>6. Covered(op'.row, net) BY <2>3, <2>5 DEF Covered
  <2>7. Guarded(op'.row, stops', net)
    <3>1. Amount(op.row.side, net) \in Nat /\ op.row.qty \in Nat
      BY <1>1, AmountType DEF Row
    <3> QED BY <2>3, <2>4, <2>5, <3>1 DEF Guarded, Covered
  <2>8. /\ local' = local /\ pending' = pending /\ net' = net /\ inflight' = inflight
        /\ SpendsQuietly
    BY <1>4 DEF PlaceStop, SpendsQuietly
  <2> QED BY <2>1, <2>2, <2>3, <2>5, <2>6, <2>7, <2>8, HelperStep
<1>5. ASSUME PlaceNothing \/ PlaceFails PROVE PromiseInv' /\ Moves
  <2>1. HoldsNamed /\ Unfilled BY <1>1, <1>5, SameHolds DEF PlaceNothing, PlaceFails
  <2> QED BY <1>3, <1>5, <2>1 DEF PlaceNothing, PlaceFails, SpendsQuietly
<1>6. ASSUME PlaceLanded PROVE PromiseInv' /\ Moves
  <2>1. HoldsNamed /\ Unfilled BY <1>1, <1>6, AcceptHolds DEF PlaceLanded
  <2> QED BY <1>3, <1>6, <2>1 DEF PlaceLanded, SpendsQuietly
<1>7. ASSUME SaveRow PROVE PromiseInv' /\ Moves
  <2>1. /\ local' = op.row /\ pc' = op.then /\ op' = NoOp /\ stops' = stops /\ net' = net
        /\ pending' = pending /\ inflight' = inflight /\ left' = left
    BY <1>7 DEF SaveRow, Goto
  <2>2. /\ op.row.state = "bought" /\ pending = {} /\ Covered(op.row, net)
        /\ Guarded(op.row, stops, net)
    BY <1>1, <1>7 DEF SaveRow, Carried
  <2>3. Bought' BY <2>1, <2>2 DEF Bought
  <2>4. RowTrue' BY <2>1, <2>2 DEF RowTrue
  <2>5. IdleTrue' BY <2>3 DEF IdleTrue
  <2>6. Carried' BY <1>1, <2>1 DEF Carried, NoOp, IdleRow, BoughtSteps
  <2>7. QueueTrue' BY <2>1, <2>2, EmptyQueue
  <2>8. Calm' BY <1>1, <2>1, SameHolds, CalmStep DEF SpendsQuietly
  <2>9. Moves
    <3>1. CASE Bought BY <2>1, <2>2, <3>1, StillMoves DEF Bought
    <3>2. CASE ~Bought
      <4>1. local.state = "idle" BY <3>2 DEF PromiseInv, StopInv, TypeInv, TypeOK, Row, Bought
      <4> QED BY <2>1, <2>2, <4>1 DEF Moves, Promise!Next, Promise!Record
    <3> QED BY <3>1, <3>2
  <2> QED BY <2>4, <2>5, <2>6, <2>7, <2>8, <2>9 DEF PromiseInv, Truth
<1> QED BY <1>4, <1>5, <1>6, <1>7 DEF OrderHelpers

(* What the proofs ask of the types of the variables. *)
LEMMA PromiseTypes ==
  ASSUME PromiseInv
  PROVE  /\ TypeInv /\ Calm /\ RowTrue /\ IdleTrue /\ Carried /\ QueueTrue
         /\ local \in Row /\ ctx \in Ctx /\ op \in Op /\ op.row \in Row /\ net \in Int
         /\ left \in [Faults -> Nat] /\ stops \in [Ids -> Stop]
         /\ local.state \in {"idle", "bought"} /\ local.side \in Sides /\ local.qty \in Nat
         /\ op.then \in {"rest", "decide", "hold", "retry"}
BY DEF PromiseInv, StopInv, TypeInv, TypeOK, Truth, Op, Row

(* Away from a placement and from a restart the engine knows what is held. *)
LEMMA NothingUnknown ==
  ASSUME PromiseInv, pc \notin {"place", "save", "boot"}
  PROVE  /\ ~Bought => net = 0
         /\ pending # {} => ctx.pending \/ pc = "retry" \/ (pc = "confirm" /\ op.then = "retry")
BY PromiseTypes DEF IdleTrue, Unrecorded, QueueTrue

(* So it does at a restart that cannot look. *)
LEMMA NothingUnknownAtBoot ==
  ASSUME PromiseInv, pc \in {"boot", "rest"}, Spend("call")
  PROVE  /\ ~Bought => net = 0
         /\ pending # {} => ctx.pending
BY PromiseTypes DEF IdleTrue, Unrecorded, QueueTrue, Faults, Spend

(* The row is given up where the venue is flat, and the close is queued. *)
LEMMA QueueMoves ==
  ASSUME PromiseInv, StopInv', Bought, net = 0, net' = net, stops' = stops,
         inflight' = inflight, left' = left, NEW then, then # "retry", QueueClosure(then),
         pc' \in {"flatSweep", "confirm"}
  PROVE  PromiseInv' /\ Moves
<1>1. pending = {} BY PromiseTypes DEF RowTrue
<1>2. /\ pending' = {ClosureOf(local)} /\ local' = IdleRow /\ ctx' = MarkPending(ctx)
      /\ op' = [NoOp EXCEPT !.row = local, !.then = then]
  BY <1>1 DEF QueueClosure
<1>3. op'.row = local /\ op'.then = then BY <1>2 DEF NoOp
<1>4. ctx'.pending = TRUE BY <1>2, PromiseTypes DEF MarkPending, Ctx
<1>5. ~Bought' /\ local'.state = "idle" BY <1>2 DEF Bought, IdleRow
<1>6. RowTrue' /\ IdleTrue' BY <1>5 DEF RowTrue, IdleTrue
<1>7. Carried' BY PlainCarried DEF Plain
<1>8. QueueTrue' BY <1>2, <1>3, <1>4 DEF QueueTrue
<1>9. Calm' BY PromiseTypes, SameHolds, CalmStep DEF SpendsQuietly
<1>10. Moves
  <2>1. pending' # {} BY <1>2
  <2> QED BY <1>1, <1>5, <2>1 DEF Moves, Promise!Next, Promise!Close, Bought
<1> QED BY <1>6, <1>7, <1>8, <1>9, <1>10 DEF PromiseInv, Truth

(* Start-up and the minute's reconciliation: an unknown position is adopted  *)
(* as it is, a closed one is queued, a known one keeps its side.            *)
LEMMA ReconcileMoves == PromiseInv /\ StopInv' /\ Reconcile => PromiseInv' /\ Moves
<1> SUFFICES ASSUME PromiseInv, StopInv', Reconcile PROVE PromiseInv' /\ Moves
  OBVIOUS
<1> USE DEF dbVars, venueVars
<1>1. /\ TypeInv /\ Calm /\ local \in Row /\ net \in Int /\ local.state \in {"idle", "bought"}
      /\ local.side \in Sides /\ RowTrue /\ IdleTrue
  BY PromiseTypes
<1>2. ASSUME stops' = stops, left' = left, inflight' = inflight
      PROVE  Calm' /\ HoldsNamed /\ Unfilled /\ SpendsQuietly
  BY <1>1, <1>2, SameHolds, CalmStep DEF SpendsQuietly
<1>3. Less(net, net) BY <1>1, LessFacts
<1>4. ASSUME NEW step \in Plain, Goto(step) PROVE Carried' /\ pc' = step
  BY <1>4, PlainCarried DEF Goto
<1>5. /\ Size \in Nat /\ NetSide \in Sides /\ Amount(NetSide, net) = Size
      /\ Amount(Opposite(NetSide), net) = 0
  BY <1>1 DEF Size, NetSide, Sides, Amount, Opposite
<1>6. ASSUME Adopt PROVE PromiseInv' /\ Moves
  <2>1. /\ AtReconcile /\ net # 0 /\ local.state = "idle" /\ Goto("rest") /\ net' = net
        /\ stops' = stops /\ left' = left /\ inflight' = inflight /\ pending' = pending
    BY <1>6 DEF Adopt
  <2>2. /\ local'.state = "bought" /\ local'.side = NetSide /\ local'.qty = Size
        /\ local'.slId = 0
    BY <1>6 DEF Adopt, IdleRow
  <2>3. pending = {}
    BY <1>1, <2>1 DEF IdleTrue, Unrecorded, AtReconcile, Bought
  <2>4. RowTrue' BY <1>5, <2>1, <2>2, <2>3 DEF RowTrue, Covered, Guarded
  <2>5. IdleTrue' BY <2>2 DEF IdleTrue, Bought
  <2>6. Moves BY <2>1, <2>2, <2>3 DEF Moves, Promise!Next, Promise!Record
  <2>7. Carried' BY <1>4, <2>1 DEF Plain
  <2> QED BY <1>2, <2>1, <2>3, <2>4, <2>5, <2>6, <2>7, EmptyQueue DEF PromiseInv, Truth
<1>7. ASSUME FoundFlat PROVE PromiseInv' /\ Moves
  BY <1>7, QueueMoves DEF FoundFlat, Bought
<1>8. ASSUME BothFlat PROVE PromiseInv' /\ Moves
  <2>1. /\ net = 0 /\ local.state = "idle" /\ net' = net /\ local' = local
        /\ stops' = stops /\ left' = left /\ inflight' = inflight /\ pending' = pending
        /\ IF pending = {} THEN Goto("idleSweep") ELSE Goto("retry")
    BY <1>8 DEF BothFlat
  <2>2. Carried' BY <1>4, <2>1 DEF Plain
  <2>3. QueueTrue' BY <1>4, <2>1 DEF QueueTrue, Plain
  <2> QED BY <1>2, <1>3, <2>1, <2>2, <2>3, PlainStep
<1>9. ASSUME SideMismatch PROVE FALSE
  <2>1. net # 0 /\ local.side # NetSide /\ Covered(local, net)
    BY <1>1, <1>9 DEF SideMismatch, RowTrue, Bought
  <2>2. Opposite(local.side) = NetSide BY <1>1, <1>5, <2>1 DEF Sides, Opposite
  <2>3. Size # 0 BY <1>1, <2>1 DEF Size
  <2> QED BY <1>5, <2>1, <2>2, <2>3 DEF Covered
<1>10. ASSUME Synced PROVE PromiseInv' /\ Moves
  <2>1. /\ local.state = "bought" /\ local.side = NetSide /\ Goto("rest") /\ net' = net
        /\ stops' = stops /\ left' = left /\ inflight' = inflight /\ pending' = pending
        /\ local' = [local EXCEPT !.qty = Size]
    BY <1>10 DEF Synced
  <2>2. /\ local'.state = "bought" /\ local'.side = NetSide /\ local'.qty = Size
        /\ local'.slId = local.slId
    BY <1>1, <2>1 DEF Row
  <2>3. pending = {} /\ Guarded(local, stops, net) BY <1>1, <2>1 DEF RowTrue, Bought
  <2>4. RowTrue' BY <1>5, <2>1, <2>2, <2>3 DEF RowTrue, Covered, Guarded
  <2>5. IdleTrue' BY <2>2 DEF IdleTrue, Bought
  <2>6. Moves BY <2>1, <2>2, StillMoves
  <2>7. Carried' BY <1>4, <2>1 DEF Plain
  <2> QED BY <1>2, <2>1, <2>3, <2>4, <2>5, <2>6, <2>7, EmptyQueue DEF PromiseInv, Truth
<1> QED BY <1>6, <1>7, <1>8, <1>9, <1>10 DEF Reconcile

(* What a reconciliation does after its look at the positions. *)
LEMMA ReconcileStepsMove == PromiseInv /\ StopInv' /\ ReconcileSteps => PromiseInv' /\ Moves
<1> SUFFICES ASSUME PromiseInv, StopInv', ReconcileSteps PROVE PromiseInv' /\ Moves
  OBVIOUS
<1> USE DEF dbVars, venueVars
<1>1. /\ TypeInv /\ Calm /\ net \in Int /\ QueueTrue /\ RowTrue /\ ctx \in Ctx
      /\ op.then \in {"rest", "decide", "hold", "retry"}
  BY PromiseTypes
<1>2. Less(net, net) BY <1>1, LessFacts
<1>3. ASSUME NEW step \in Plain \cup {"hold"}, Goto(step)
      PROVE  Carried' /\ pc' = step
  BY <1>3, PlainCarried DEF Goto, NoOp, IdleRow
<1>4. ASSUME ReconcileFails PROVE PromiseInv' /\ Moves
  <2>1. /\ pc \in {"boot", "rest"} /\ Spend("call") /\ Goto("rest") /\ net' = net
        /\ local' = local /\ stops' = stops /\ inflight' = inflight /\ pending' = pending
        /\ ctx' = ctx
    BY <1>4 DEF ReconcileFails, AtReconcile
  <2>2. (~Bought => net = 0) /\ (pending # {} => ctx.pending)
    BY <2>1, NothingUnknownAtBoot
  <2>3. Carried' /\ pc' = "rest" BY <1>3, <2>1 DEF Plain
  <2>4. QueueTrue' BY <2>1, <2>2, <2>3 DEF QueueTrue
  <2>5. HoldsNamed /\ Unfilled /\ SpendsQuietly BY <1>1, <2>1, SameHolds DEF SpendsQuietly
  <2> QED BY <1>2, <2>1, <2>2, <2>3, <2>4, <2>5, PlainStep
<1>5. ASSUME FlatSweep \/ IdleSweep PROVE PromiseInv' /\ Moves
  <2>1. /\ pc \in {"flatSweep", "idleSweep"} /\ SweepOrphans("LONG", 0) /\ net' = net
        /\ local' = local /\ inflight' = inflight /\ pending' = pending /\ ctx' = ctx
        /\ \/ pc = "flatSweep" /\ pc' = "confirm" /\ op' = op
           \/ Goto("rest")
    BY <1>5 DEF FlatSweep, IdleSweep
  <2>2. (~Bought => net = 0) /\ (pending # {} => ctx.pending)
    BY <2>1, NothingUnknown
  <2>3. Carried'
    <3>1. pc' \in Plain BY <1>3, <2>1 DEF Plain
    <3> QED BY <3>1, PlainCarried
  <2>4. QueueTrue' BY <1>1, <1>3, <2>1, <2>2 DEF QueueTrue, Plain
  <2>5. HoldsNamed /\ Unfilled BY <1>1, <2>1, SweepHolds
  <2>6. SpendsQuietly BY <2>1 DEF SweepOrphans, SpendsQuietly
  <2> QED BY <1>2, <2>1, <2>2, <2>3, <2>4, <2>5, <2>6, PlainStep
<1>6. ASSUME RetryNext PROVE PromiseInv' /\ Moves
  <2>1. /\ pc = "retry" /\ net' = net /\ left' = left /\ stops' = stops
        /\ local' = local /\ inflight' = inflight /\ pending' = pending
    BY <1>6 DEF RetryNext
  <2>2. ~Bought => net = 0 BY <2>1, NothingUnknown
  <2>3. pc' \in {"idleSweep", "confirm"} /\ QueueTrue'
    <3>1. CASE pending = {} /\ Goto("idleSweep")
      BY <2>1, <3>1, EmptyQueue DEF Goto
    <3>2. CASE \E c \in pending : pc' = "confirm" /\ op' =
               [NoOp EXCEPT !.row.born = c.born, !.row.qty = c.qty, !.then = "retry"]
      <4>1. pc' = "confirm" /\ op'.then = "retry" BY <3>2 DEF NoOp
      <4> QED BY <4>1 DEF QueueTrue
    <3> QED BY <1>6, <3>1, <3>2 DEF RetryNext
  <2>4. Carried' BY <2>3, PlainCarried DEF Plain
  <2>5. HoldsNamed /\ Unfilled /\ SpendsQuietly BY <1>1, <2>1, SameHolds DEF SpendsQuietly
  <2> QED BY <1>2, <2>1, <2>2, <2>3, <2>4, <2>5, PlainStep
<1>7. ASSUME Confirmed PROVE PromiseInv' /\ Moves
  <2>1. /\ pc = "confirm" /\ net' = net /\ left' = left /\ stops' = stops
        /\ local' = local /\ inflight' = inflight /\ Goto(op.then)
        /\ pending' = pending \ {ClosureOf(op.row)}
    BY <1>7 DEF Confirmed
  <2>2. ~Bought => net = 0 BY <2>1, NothingUnknown
  <2>3. Carried' /\ pc' = op.then BY <1>1, <1>3, <2>1 DEF Plain
  <2>4. QueueTrue'
    <3>1. CASE op.then = "retry" BY <2>3, <3>1 DEF QueueTrue
    <3>2. CASE op.then # "retry"
      <4>1. pending \subseteq {ClosureOf(op.row)} BY <1>1, <2>1, <3>2 DEF QueueTrue
      <4> QED BY <2>1, <4>1, EmptyQueue
    <3> QED BY <3>1, <3>2
  <2>5. TypeInv' BY DEF StopInv
  <2>6. HoldsNamed /\ Calm' BY <1>1, <2>1, SameHolds, CalmStep DEF SpendsQuietly
  <2>7. IdleTrue' BY <1>2, <2>1, <2>2, <2>5, IdleKept
  <2>8. RowTrue'
    <3>1. CASE Bought
      <4>1. pending' = pending BY <1>1, <2>1, <3>1 DEF RowTrue
      <4> QED BY <1>2, <2>1, <2>5, <2>6, <4>1, RowKept
    <3>2. CASE ~Bought BY <2>1, <3>2 DEF RowTrue, Bought
    <3> QED BY <3>1, <3>2
  <2>9. Moves
    <3>1. CASE pending # {} /\ pending' = {}
      BY <2>1, <3>1 DEF Moves, Promise!Next, Promise!Settle
    <3>2. CASE pending = {} <=> pending' = {}
      BY <2>1, <3>2 DEF Moves, Promise!vars
    <3> QED BY <2>1, <3>1, <3>2
  <2> QED BY <2>3, <2>4, <2>6, <2>7, <2>8, <2>9 DEF PromiseInv, Truth
<1>8. ASSUME NotConfirmed PROVE PromiseInv' /\ Moves
  <2>1. /\ pc = "confirm" /\ net' = net /\ Spend("history") /\ stops' = stops
        /\ local' = local /\ inflight' = inflight /\ pending' = pending
        /\ ctx' = MarkPending(ctx)
        /\ Goto(IF op.then = "retry" THEN "idleSweep" ELSE op.then)
    BY <1>8 DEF NotConfirmed
  <2>2. ~Bought => net = 0 BY <2>1, NothingUnknown
  <2>3. Carried' /\ pc' \notin {"flatSweep", "confirm"} BY <1>1, <1>3, <2>1 DEF Plain
  <2>4. ctx'.pending = TRUE BY <1>1, <2>1 DEF MarkPending, Ctx
  <2>5. QueueTrue' BY <2>3, <2>4 DEF QueueTrue
  <2>6. HoldsNamed /\ Unfilled /\ SpendsQuietly BY <1>1, <2>1, SameHolds DEF SpendsQuietly
  <2> QED BY <1>2, <2>1, <2>2, <2>3, <2>5, <2>6, PlainStep
<1> QED BY <1>4, <1>5, <1>6, <1>7, <1>8 DEF ReconcileSteps

(* A step to a placement keeps the promise. *)
LEMMA PlaceStep ==
  ASSUME PromiseInv, StopInv', local' = local, pending' = pending, pending = {},
         Less(net', net), HoldsNamed, Unfilled, SpendsQuietly, inflight' = inflight,
         NEW row, NEW fall, NEW again, NEW then, GoPlace(row, fall, again, then),
         row.state = "bought", Covered(row, net')
  PROVE  PromiseInv' /\ Moves
<1>1. TypeInv /\ TypeInv' /\ Calm /\ net \in Int /\ net' \in Int
  BY PromiseTypes DEF StopInv, TypeInv, TypeOK
<1>2. Truth' BY <1>1, PlaceTruth
<1>3. Calm' BY <1>1, CalmStep
<1>4. Moves BY <1>1, LessMoves
<1> QED BY <1>2, <1>3, <1>4 DEF PromiseInv

(* A row that is rewritten with the same side, quantity and stop. *)
LEMMA RewriteStep ==
  ASSUME PromiseInv, StopInv', local'.state = local.state, local'.side = local.side,
         local'.qty = local.qty, local'.slId = local.slId, pending' = pending, net' = net,
         stops' = stops, left' = left, inflight' = inflight, ~Bought => net = 0,
         Carried', QueueTrue'
  PROVE  PromiseInv' /\ Moves
<1>1. Calm' BY PromiseTypes, SameHolds, CalmStep DEF SpendsQuietly
<1>2. RowTrue' BY PromiseTypes DEF RowTrue, Bought, Covered, Guarded
<1>3. IdleTrue' BY DEF IdleTrue, Bought
<1> QED BY <1>1, <1>2, <1>3, StillMoves DEF PromiseInv, Truth

(* Using up a wait cycle does not end a pending halt. *)
LEMMA ConsumeKeeps ==
  ASSUME ctx \in Ctx
  PROVE  Consume(ctx).pending = ctx.pending
BY DEF Ctx, Consume

(* Polling the stop: only a stop that closed all of the position makes the   *)
(* engine give the row up.                                                  *)
LEMMA PollMoves ==
  PromiseInv /\ StopInv' /\ (BeginTick \/ Poll \/ Ensure \/ PartCancel) => PromiseInv' /\ Moves
<1> SUFFICES ASSUME PromiseInv, StopInv', BeginTick \/ Poll \/ Ensure \/ PartCancel
             PROVE  PromiseInv' /\ Moves
  OBVIOUS
<1> USE DEF dbVars, venueVars
<1>1. /\ TypeInv /\ Calm /\ net \in Int /\ local \in Row /\ RowTrue /\ Carried
      /\ local.slId # 0 => local.slId \in Ids
  BY PromiseTypes, RowIds
<1>2. Less(net, net) BY <1>1, LessFacts
<1>3. ASSUME NEW step, Goto(step), local' = local,
             step = "decide" \/ (step \in {"poll", "ensure"} /\ Bought)
      PROVE  Carried' /\ pc' = step
  BY <1>3, PlainCarried DEF Goto, Plain, Bought
<1>4. ASSUME NEW step, Goto(step), step = "decide" \/ (step \in {"poll", "ensure"} /\ Bought),
             pc \in {"rest", "poll"}, net' = net, local' = local, stops' = stops,
             inflight' = inflight, pending' = pending, ctx' = ctx, SpendsQuietly
      PROVE  PromiseInv' /\ Moves
  <2>1. Carried' /\ pc' = step BY <1>3, <1>4
  <2>2. QueueTrue' BY <1>4, <2>1, QueueKept
  <2>3. HoldsNamed /\ Unfilled BY <1>1, <1>4, SameHolds
  <2>4. ~Bought => net = 0 BY <1>4, NothingUnknown
  <2> QED BY <1>2, <1>4, <2>1, <2>2, <2>3, <2>4, PlainStep
<1>5. ASSUME BeginTick PROVE PromiseInv' /\ Moves
  <2>1. CASE Bought BY <1>4, <1>5, <2>1 DEF BeginTick, Bought, SpendsQuietly
  <2>2. CASE ~Bought BY <1>4, <1>5, <2>2 DEF BeginTick, Bought, SpendsQuietly
  <2> QED BY <2>1, <2>2
<1>6. pc \in {"poll", "ensure"} =>
        Bought /\ pending = {} /\ Covered(local, net) /\ Guarded(local, stops, net)
  BY <1>1 DEF Carried, BoughtSteps, RowTrue
<1>7. ASSUME PollUntracked PROVE PromiseInv' /\ Moves
  <2>1. CASE local.sl = 0 BY <1>4, <1>7, <2>1 DEF PollUntracked, SpendsQuietly
  <2>2. CASE local.sl # 0 BY <1>4, <1>6, <1>7, <2>2 DEF PollUntracked, SpendsQuietly
  <2> QED BY <2>1, <2>2
<1>8. ASSUME PollFails \/ PollLive PROVE PromiseInv' /\ Moves
  BY <1>4, <1>8 DEF PollFails, PollLive, SpendsQuietly
<1>9. ASSUME PollFilled PROVE PromiseInv' /\ Moves
  <2>1. Bought /\ net = 0 BY <1>6, <1>9 DEF PollFilled, Tracked, Guarded
  <2> QED BY <1>9, <2>1, QueueMoves DEF PollFilled
<1>10. ASSUME PollPartial PROVE FALSE
  <2>1. stops[local.slId].done = 0 BY <1>1, <1>10 DEF PollPartial, Calm
  <2> QED BY <1>10, <2>1 DEF PollPartial, Tracked
<1>11. ASSUME PollCancelled PROVE PromiseInv' /\ Moves
  <2>1. HoldsNamed /\ Unfilled BY <1>1, <1>11, SameHolds DEF PollCancelled
  <2> QED BY <1>2, <1>6, <1>11, <2>1, PlaceStep DEF PollCancelled, SpendsQuietly, Bought
<1>12. ASSUME Ensure PROVE PromiseInv' /\ Moves
  <2>1. HoldsNamed /\ Unfilled BY <1>1, <1>12, SweepHolds DEF Ensure
  <2>2. SpendsQuietly BY <1>12 DEF Ensure, SweepOrphans, SpendsQuietly
  <2> QED BY <1>2, <1>6, <1>12, <2>1, <2>2, PlaceStep DEF Ensure, Bought
<1>13. ~PartCancel BY <1>1 DEF PartCancel, Carried
<1> QED BY <1>5, <1>7, <1>8, <1>9, <1>10, <1>11, <1>12, <1>13 DEF Poll

(* The end of a tick, and a manual row handed to the strategy. *)
LEMMA TickEndMoves == PromiseInv /\ StopInv' /\ (EndTick \/ Handoff) => PromiseInv' /\ Moves
<1> SUFFICES ASSUME PromiseInv, StopInv', EndTick \/ Handoff PROVE PromiseInv' /\ Moves
  OBVIOUS
<1> USE DEF dbVars, venueVars
<1>1. ctx \in Ctx /\ local \in Row /\ Carried /\ local.state \in {"idle", "bought"}
  BY PromiseTypes
<1>2. /\ pc \in {"decide", "hold"} /\ Goto("rest") /\ ctx' = Consume(ctx)
      /\ pending' = pending /\ net' = net /\ stops' = stops /\ left' = left
      /\ inflight' = inflight
  BY DEF EndTick, Handoff, Deciding
<1>3. /\ local'.state = local.state /\ local'.side = local.side
      /\ local'.qty = local.qty /\ local'.slId = local.slId
  <2>1. CASE local' = local BY <2>1
  <2>2. CASE Managed /\ local' = TickRow
    <3>1. TickRow = local
          \/ (/\ TickRow = op.row /\ SameStop(op.row)
              /\ op.row.qty = local.qty /\ op.row.state = "bought")
      BY <1>1, <1>2 DEF TickRow, PromiseInv, StopInv, DecidesAfresh, HoldsSameStop, Carried
    <3> QED BY <2>2, <3>1 DEF SameStop, Managed
  <2>3. CASE Handoff BY <1>1, <2>3 DEF Handoff, Row
  <2> QED BY <2>1, <2>2, <2>3 DEF EndTick
<1>4. Carried' /\ pc' = "rest" BY <1>2, PlainCarried DEF Goto, Plain
<1>5. QueueTrue' BY <1>1, <1>2, <1>4, ConsumeKeeps, QueueKept
<1>6. ~Bought => net = 0 BY <1>2, NothingUnknown
<1> QED BY <1>2, <1>3, <1>4, <1>5, <1>6, RewriteStep

(* An entry from a flat account: it fills whole and is on its way to the     *)
(* database, or it is refused.                                              *)
LEMMA EntryMoves ==
  ASSUME PromiseInv, StopInv', ~Bought, net = 0, pending = {},
         NEW side \in Sides, NEW mode, SendEntry(side, mode)
  PROVE  PromiseInv' /\ Moves
<1> USE DEF dbVars
<1>1. TypeInv /\ Calm /\ net \in Int /\ local.state = "idle"
  BY PromiseTypes DEF Bought
<1>2. local' = local /\ pending' = pending /\ stops' = stops BY DEF SendEntry
<1>3. HoldsNamed /\ Unfilled BY <1>1, <1>2, SameHolds
<1>4. ASSUME EntryFilled(side, mode, Lot), left' = left PROVE PromiseInv' /\ Moves
  <2> DEFINE row == EntryRow(side, mode, Lot)
  <2>1. row.state = "bought" /\ row.side = side /\ row.qty = Lot BY DEF EntryRow
  <2>2. GoPlace(row, row.sl, FALSE, "rest") /\ Increase(side, Lot) /\ inflight' = inflight
    BY <1>4 DEF EntryFilled
  <2> HIDE DEF row
  <2>3. net' = Delta(side, Lot) /\ net' # 0 /\ net' \in Int
    BY <2>2, LivePositionAssumption DEF Increase, Delta, Sides
  <2>4. Covered(row, net')
    BY <2>1, <2>3, LivePositionAssumption DEF Covered, Amount, Opposite, Delta, Sides
  <2>5. pc' = "place" /\ op'.row = row BY <2>2 DEF GoPlace, NoOp
  <2>6. Calm' BY <1>1, <1>3, <1>4, <2>2, CalmStep DEF SpendsQuietly
  <2>7. RowTrue' /\ IdleTrue'
    BY <1>2, <2>5 DEF RowTrue, Bought, IdleTrue, Unrecorded
  <2>8. Carried' BY <1>2, <2>1, <2>4, <2>5 DEF Carried, BoughtSteps
  <2>9. Moves BY <1>1, <1>2, <2>3 DEF Moves, Promise!Next, Promise!Enter
  <2> QED BY <1>2, <2>6, <2>7, <2>8, <2>9, EmptyQueue DEF PromiseInv, Truth
<1>5. ASSUME EntryRefused(side), Goto("rest") PROVE PromiseInv' /\ Moves
  <2>1. net' = net /\ inflight' = inflight /\ SpendsQuietly
    BY <1>5 DEF EntryRefused, SpendsQuietly
  <2>2. Carried' BY <1>5, PlainCarried DEF Goto, Plain
  <2>3. Less(net', net) BY <1>1, <2>1, LessFacts
  <2> QED BY <1>2, <1>3, <2>1, <2>2, <2>3, EmptyQueue, PlainStep
<1>6. (\A qty : ~EntryPartial(side, mode, qty)) /\ ~EntryLate(side)
  BY <1>1, NothingDisturbs DEF EntryPartial, EntryLate
<1> QED BY <1>4, <1>5, <1>6 DEF SendEntry

(* Every entry is sent from a flat account with nothing waiting. *)
LEMMA EntersFlat ==
  ASSUME PromiseInv, NEW side, NEW mode,
         StrategyEntry(side) \/ ManualEntry(side, mode) \/ ReverseEntry
  PROVE  ~Bought /\ net = 0 /\ pending = {}
<1>1. CASE StrategyEntry(side) \/ ManualEntry(side, mode)
  <2>1. pc = "decide" /\ local.state = "idle" /\ ~ctx.pending
    BY <1>1 DEF StrategyEntry, ManualEntry, Deciding, Waiting
  <2> QED BY <2>1, NothingUnknown DEF Bought
<1>2. CASE ReverseEntry
  BY <1>2, PromiseTypes DEF ReverseEntry, Carried
<1> QED BY <1>1, <1>2

(* A market close of the row's side, as far as the promise goes: what it     *)
(* reports is all that it could fill.                                       *)
LEMMA MarketCloseLess ==
  ASSUME PromiseInv, NEW qty \in Nat, NEW filled, MarketClose(qty, filled)
  PROVE  /\ net' \in Int /\ Less(net', net) /\ SpendsQuietly
         /\ filled # 0 => /\ filled = Least(qty, Held(local.side))
                          /\ Amount(local.side, net') = Amount(local.side, net) - filled
<1>1. net \in Int /\ local.side \in Sides BY PromiseTypes
<1> DEFINE most == Least(qty, Held(local.side))
<1>2. Held(local.side) \in Nat BY <1>1, HeldType
<1>3. most \in Nat /\ most <= Held(local.side) BY <1>2, LeastType
<1>4. \/ filled = most /\ most > 0 /\ Reduce(local.side, most) /\ left' = left
      \/ filled = 0 /\ Spend("landed") /\ \E lost \in 1 .. most : Reduce(local.side, lost)
      \/ filled = 0 /\ net' = net /\ (Spend("call") \/ left' = left)
  BY PromiseTypes, NothingDisturbs DEF MarketClose
<1> HIDE DEF most
<1>5. CASE filled = most /\ most > 0 /\ Reduce(local.side, most) /\ left' = left
  <2>1. /\ net' \in Int /\ Less(net', net)
        /\ Amount(local.side, net') = Amount(local.side, net) - most
    BY <1>1, <1>3, <1>5, ReduceLess
  <2> QED BY <1>5, <2>1 DEF SpendsQuietly, most
<1>6. CASE filled = 0 /\ Spend("landed") /\ \E lost \in 1 .. most : Reduce(local.side, lost)
  <2>1. PICK lost \in 1 .. most : Reduce(local.side, lost) BY <1>6
  <2>2. lost \in Nat /\ lost <= Held(local.side) BY <1>2, <1>3
  <2> QED BY <1>1, <1>6, <2>1, <2>2, ReduceLess DEF SpendsQuietly
<1>7. CASE filled = 0 /\ net' = net /\ (Spend("call") \/ left' = left)
  BY <1>1, <1>7, LessFacts DEF SpendsQuietly
<1> QED BY <1>4, <1>5, <1>6, <1>7

(* Half of a row, and the row it leaves. *)
LEMMA TpRowFacts ==
  ASSUME local \in Row
  PROVE  /\ Half \in Nat /\ Half <= local.qty
         /\ TpRow.state = local.state /\ TpRow.side = local.side /\ TpRow.slId = local.slId
         /\ TpRow.qty = local.qty - Half
<1>1. local.qty \in Nat BY DEF Row
<1>2. Half \in Nat /\ Half <= local.qty BY <1>1 DEF Half
<1> QED BY <1>2 DEF TpRow, Row

(* A partial take-profit leaves no more than the row will show. *)
LEMMA PartialTpMoves == PromiseInv /\ StopInv' /\ PartialTp => PromiseInv' /\ Moves
<1> SUFFICES ASSUME PromiseInv, StopInv', PartialTp PROVE PromiseInv' /\ Moves
  OBVIOUS
<1> USE DEF dbVars, venueVars
<1>1. /\ TypeInv /\ Calm /\ net \in Int /\ local \in Row /\ ctx \in Ctx /\ Carried
      /\ local.side \in Sides /\ local.qty \in Nat
  BY PromiseTypes
<1>2. Less(net, net) BY <1>1, LessFacts
<1>3. Bought => pending = {} /\ Covered(local, net) BY PromiseTypes DEF RowTrue
<1>4. ASSUME TpTooSmall PROVE PromiseInv' /\ Moves
  <2>1. /\ Bought /\ pc' = "hold" /\ op' = [NoOp EXCEPT !.row = local]
        /\ local' = [local EXCEPT !.ptp = TRUE] /\ pending' = pending /\ net' = net
        /\ stops' = stops /\ left' = left /\ inflight' = inflight
    BY <1>4 DEF TpTooSmall, Managed, Bought
  <2>2. /\ local'.state = local.state /\ local'.side = local.side
        /\ local'.qty = local.qty /\ local'.slId = local.slId
    BY <1>1, <2>1 DEF Row
  <2>3. op'.row = local BY <2>1 DEF NoOp
  <2>4. Carried' BY <2>1, <2>2, <2>3 DEF Carried, BoughtSteps
  <2> QED BY <1>3, <2>1, <2>2, <2>4, EmptyQueue, RewriteStep
<1>5. ASSUME TpMarket PROVE PromiseInv' /\ Moves
  <2>1. /\ Bought /\ local' = local /\ pending' = pending /\ stops' = stops
        /\ inflight' = inflight /\ Half > 0
    BY <1>5 DEF TpMarket, Managed, Bought
  <2>2. PICK filled \in 0 .. Half :
          /\ MarketClose(Half, filled)
          /\ IF filled = 0 THEN Goto("hold") ELSE Goto("tpBook")
    BY <1>5 DEF TpMarket
  <2>3. Half \in Nat /\ Half <= local.qty BY <1>1, TpRowFacts
  <2>4. /\ net' \in Int /\ Less(net', net) /\ SpendsQuietly
        /\ filled # 0 => /\ filled = Least(Half, Held(local.side))
                         /\ Amount(local.side, net') = Amount(local.side, net) - filled
    BY <2>2, <2>3, MarketCloseLess
  <2>5. HoldsNamed /\ Unfilled BY <1>1, <2>1, SameHolds
  <2>6. Carried'
    <3>1. CASE filled = 0 BY <2>2, <3>1, PlainCarried DEF Goto, NoOp, IdleRow
    <3>2. CASE filled # 0
      <4>1. pc' = "tpBook" BY <2>2, <3>2 DEF Goto
      <4>2. Held(local.side) = Amount(local.side, net) /\ Amount(local.side, net) \in Nat
        BY <1>1, HeldAmount, AmountType
      <4>3. Amount(local.side, net) <= local.qty BY <1>3, <2>1 DEF Covered
      <4>4. Amount(local.side, net') <= local.qty - Half
        BY <1>1, <2>3, <2>4, <3>2, <4>2, <4>3 DEF Least
      <4>5. Half' = Half BY <2>1 DEF Half
      <4> QED BY <2>1, <4>1, <4>4, <4>5 DEF Carried, BoughtSteps, Bought
    <3> QED BY <3>1, <3>2
  <2> QED BY <1>3, <2>1, <2>4, <2>5, <2>6, EmptyQueue, PlainStep
<1>6. pc \in {"tpBook", "tpCancel"} =>
        /\ Bought /\ pending = {} /\ TpRow.state = "bought" /\ Covered(TpRow, net)
        /\ Amount(local.side, net) <= local.qty - Half
  BY <1>1, <1>3, TpRowFacts DEF Carried, BoughtSteps, Covered, Bought
<1>7. ASSUME TpBook PROVE PromiseInv' /\ Moves
  <2>1. /\ pc = "tpBook" /\ local' = local /\ pending' = pending /\ stops' = stops
        /\ net' = net /\ left' = left /\ inflight' = inflight
        /\ IF local.slId # 0 THEN Goto("tpCancel")
           ELSE pc' = "save" /\ op' = [NoOp EXCEPT !.row = TpRow, !.then = "hold"]
    BY <1>7 DEF TpBook
  <2>2. Half' = Half /\ Bought' = Bought BY <2>1 DEF Half, Bought
  <2>3. Carried'
    <3>1. CASE local.slId # 0
      BY <1>6, <2>1, <2>2, <3>1 DEF Goto, Carried, BoughtSteps
    <3>2. CASE local.slId = 0
      <4>1. pc' = "save" /\ op'.row = TpRow BY <2>1, <3>2 DEF NoOp
      <4>2. TpRow.slId = 0 BY <1>1, <3>2, TpRowFacts
      <4>3. Guarded(op'.row, stops', net') BY <4>1, <4>2 DEF Guarded
      <4> QED BY <1>6, <2>1, <4>1, <4>3 DEF Carried, BoughtSteps
    <3> QED BY <3>1, <3>2
  <2>4. HoldsNamed /\ Unfilled /\ SpendsQuietly BY <1>1, <2>1, SameHolds DEF SpendsQuietly
  <2> QED BY <1>2, <1>6, <2>1, <2>3, <2>4, EmptyQueue, PlainStep
<1>8. ASSUME TpCancel PROVE PromiseInv' /\ Moves
  <2>1. HoldsNamed /\ Unfilled BY <1>1, <1>8, CancelHolds DEF TpCancel
  <2>2. SpendsQuietly BY <1>8 DEF TpCancel, Cancelled, NotCancelled, SpendsQuietly
  <2> QED BY <1>2, <1>6, <1>8, <2>1, <2>2, PlaceStep DEF TpCancel
<1> QED BY <1>4, <1>5, <1>7, <1>8 DEF PartialTp

(* A close ends with the venue flat before the row is given up. *)
LEMMA CloseMoves == PromiseInv /\ StopInv' /\ Close => PromiseInv' /\ Moves
<1> SUFFICES ASSUME PromiseInv, StopInv', Close PROVE PromiseInv' /\ Moves
  OBVIOUS
<1> USE DEF dbVars, venueVars
<1>1. /\ TypeInv /\ Calm /\ net \in Int /\ local \in Row /\ Carried
      /\ local.side \in Sides /\ local.qty \in Nat
  BY PromiseTypes
<1>2. Less(net, net) BY <1>1, LessFacts
<1>3. Bought => pending = {} /\ Covered(local, net) BY PromiseTypes DEF RowTrue
<1>4. pc \in {"closeCancel", "closeMarket", "closeBook"} => Bought
  BY <1>1 DEF Carried, BoughtSteps
<1>5. ASSUME NEW rev, StartClose(rev) PROVE PromiseInv' /\ Moves
  <2>1. /\ Bought /\ local' = local /\ pending' = pending /\ stops' = stops /\ net' = net
        /\ left' = left /\ inflight' = inflight /\ pc' \in {"closeCancel", "closeMarket"}
    BY <1>5 DEF StartClose, Bought
  <2>2. Carried' BY <2>1, PlainCarried DEF Bought
  <2>3. HoldsNamed /\ Unfilled /\ SpendsQuietly BY <1>1, <2>1, SameHolds DEF SpendsQuietly
  <2> QED BY <1>2, <1>3, <2>1, <2>2, <2>3, EmptyQueue, PlainStep
<1>6. ASSUME CloseCancel PROVE PromiseInv' /\ Moves
  <2>1. /\ Bought /\ local' = local /\ pending' = pending /\ net' = net
        /\ inflight' = inflight /\ (pc' = "closeMarket" \/ Goto("rest"))
        /\ Cancelled \/ NotCancelled
    BY <1>4, <1>6 DEF CloseCancel
  <2>2. HoldsNamed /\ Unfilled BY <1>1, <2>1, CancelHolds
  <2>3. SpendsQuietly BY <2>1 DEF Cancelled, NotCancelled, SpendsQuietly
  <2>4. Carried' BY <2>1, PlainCarried DEF Bought, Goto, Plain
  <2> QED BY <1>2, <1>3, <2>1, <2>2, <2>3, <2>4, EmptyQueue, PlainStep
<1>7. ASSUME CloseMarket PROVE PromiseInv' /\ Moves
  <2>1. /\ Bought /\ local' = local /\ pending' = pending /\ stops' = stops
        /\ inflight' = inflight
    BY <1>4, <1>7 DEF CloseMarket
  <2>2. PICK filled \in 0 .. local.qty :
          /\ MarketClose(local.qty, filled)
          /\ IF filled > 0 THEN pc' = "closeBook"
             ELSE \/ GoPlace(local, local.sl, FALSE, "rest")
                  \/ Goto("rest")
    BY <1>7 DEF CloseMarket
  <2>3. /\ net' \in Int /\ Less(net', net) /\ SpendsQuietly
        /\ filled # 0 => /\ filled = Least(local.qty, Held(local.side))
                         /\ Amount(local.side, net') = Amount(local.side, net) - filled
    BY <1>1, <2>2, MarketCloseLess
  <2>4. HoldsNamed /\ Unfilled BY <1>1, <2>1, SameHolds
  <2>5. CASE filled > 0
    <3>1. /\ Held(local.side) = Amount(local.side, net) /\ Amount(local.side, net) \in Nat
          /\ Amount(Opposite(local.side), net') \in Nat
      BY <1>1, <2>3, HeldAmount, AmountType
    <3>2. Amount(local.side, net) <= local.qty /\ Amount(Opposite(local.side), net) = 0
      BY <1>3, <2>1 DEF Covered
    <3>3. Amount(local.side, net') = 0
      BY <1>1, <2>3, <2>5, <3>1, <3>2 DEF Least
    <3>4. Opposite(local.side) \in Sides BY <1>1 DEF Opposite, Sides
    <3>5. Amount(Opposite(local.side), net') = 0
      BY <2>3, <3>1, <3>2, <3>4 DEF Less
    <3>6. net' = 0
      BY <1>1, <2>3, <3>3, <3>5, AmountType DEF Opposite, Sides
    <3>7. Carried' BY <2>1, <2>2, <2>5, <3>6 DEF Carried, BoughtSteps, Bought
    <3> QED BY <1>3, <2>1, <2>3, <2>4, <3>7, EmptyQueue, PlainStep
  <2>6. CASE GoPlace(local, local.sl, FALSE, "rest")
    <3>1. Covered(local, net') BY <1>1, <1>3, <2>1, <2>3, CoveredLess
    <3> QED BY <1>3, <2>1, <2>3, <2>4, <2>6, <3>1, PlaceStep DEF Bought
  <2>7. CASE Goto("rest")
    <3>1. Carried' BY <2>7, PlainCarried DEF Goto, Plain
    <3> QED BY <1>3, <2>1, <2>3, <2>4, <3>1, EmptyQueue, PlainStep
  <2> QED BY <2>2, <2>5, <2>6, <2>7
<1>8. ASSUME CloseBook PROVE PromiseInv' /\ Moves
  <2>1. /\ pc = "closeBook" /\ Bought /\ net = 0 /\ net' = net /\ pending' = pending
        /\ stops' = stops /\ left' = left /\ inflight' = inflight
    BY <1>1, <1>4, <1>8 DEF CloseBook, Carried
  <2>2. HoldsNamed /\ Unfilled /\ SpendsQuietly BY <1>1, <2>1, SameHolds DEF SpendsQuietly
  <2>3. CASE op.got = local.qty
    <3>1. /\ local' = IdleRow /\ pc' \in {"reverse", "rest"}
      BY <1>8, <2>3 DEF CloseBook, Goto
    <3>2. ~Bought' /\ local'.state = "idle" BY <3>1 DEF IdleRow, Bought
    <3>3. RowTrue' /\ IdleTrue' BY <2>1, <3>2 DEF RowTrue, IdleTrue
    <3>4. Carried' BY <1>3, <2>1, <3>1, <3>2 DEF Carried, BoughtSteps
    <3>5. Calm' BY <1>1, <2>1, <2>2, CalmStep
    <3>6. Moves BY <1>3, <2>1, <3>2 DEF Moves, Promise!Next, Promise!Close, Bought
    <3> QED BY <1>3, <2>1, <3>3, <3>4, <3>5, <3>6, EmptyQueue DEF PromiseInv, Truth
  <2>4. CASE op.got # local.qty
    <3> DEFINE rest == [local EXCEPT !.qty = @ - op.got]
               row  == IF local.side = "SHORT" THEN rest
                       ELSE [rest EXCEPT !.mode = "strategy", !.ptp = FALSE]
    <3>1. local' = local /\ GoPlace(row, row.sl, FALSE, "rest")
      BY <1>8, <2>4 DEF CloseBook
    <3>2. op.got \in Nat /\ op.got <= local.qty
      BY <1>1, <2>1, PromiseTypes DEF TypeInv, BooksAtMostRow, Op
    <3>3. local.qty - op.got \in Nat BY <1>1, <3>2
    <3>4. rest \in Row /\ rest.state = local.state BY <1>1, <3>3 DEF Row
    <3> HIDE DEF rest
    <3>5. row \in Row /\ row.state = local.state BY <3>4 DEF Row, Modes
    <3> HIDE DEF row
    <3>6. Covered(row, net') BY <2>1, <3>5, CoveredFlat
    <3>7. Less(net', net) BY <1>2, <2>1
    <3> QED BY <1>3, <2>1, <2>2, <3>1, <3>5, <3>6, <3>7, PlaceStep DEF Bought
  <2> QED BY <2>3, <2>4
<1> QED BY <1>5, <1>6, <1>7, <1>8 DEF Close, StrategyClose, ManualClose

(* Moving the trailing stop: the row that is written shows what the row on   *)
(* disk shows.                                                              *)
LEMMA TrailMoves ==
  PromiseInv /\ StopInv' /\ ((\E level \in Levels : Trail(level)) \/ TrailCancel \/ TrailVerify)
    => PromiseInv' /\ Moves
<1> SUFFICES ASSUME PromiseInv, StopInv',
                    (\E level \in Levels : Trail(level)) \/ TrailCancel \/ TrailVerify
             PROVE  PromiseInv' /\ Moves
  OBVIOUS
<1> USE DEF dbVars, venueVars
<1>1. /\ TypeInv /\ Calm /\ net \in Int /\ local \in Row /\ op.row \in Row /\ op \in Op
      /\ Carried /\ StopInv
  BY PromiseTypes DEF PromiseInv
<1>2. Less(net, net) BY <1>1, LessFacts
<1>3. Bought => pending = {} /\ Covered(local, net) /\ Guarded(local, stops, net)
  BY PromiseTypes DEF RowTrue
<1>4. ASSUME NEW level \in Levels, Trail(level) PROVE PromiseInv' /\ Moves
  <2> DEFINE row == [TickRow EXCEPT !.sl = level]
  <2>1. /\ Bought /\ pc \in {"decide", "hold"} /\ local' = local /\ stops' = stops
        /\ net' = net /\ left' = left /\ inflight' = inflight /\ pending' = pending
        /\ IF row.slId = 0 THEN GoPlace(row, local.sl, FALSE, "rest")
           ELSE pc' = "trailCancel" /\ op' = [NoOp EXCEPT !.row = row]
    BY <1>4 DEF Trail, Managed, Bought
  <2>2. TickRow \in Row BY <1>1 DEF TickRow
  <2>3. TickRow.state = "bought" /\ TickRow.side = local.side /\ TickRow.qty = local.qty
    BY <1>1, <2>1 DEF TickRow, Bought, StopInv, DecidesAfresh, HoldsSameStop, SameStop, Carried
  <2>4. row.state = "bought" /\ row.side = local.side /\ row.qty = local.qty
    BY <2>2, <2>3 DEF Row
  <2> HIDE DEF row
  <2>5. Covered(row, net) BY <1>3, <2>1, <2>4 DEF Covered
  <2>6. HoldsNamed /\ Unfilled /\ SpendsQuietly BY <1>1, <2>1, SameHolds DEF SpendsQuietly
  <2>7. CASE row.slId = 0
    BY <1>2, <1>3, <2>1, <2>4, <2>5, <2>6, <2>7, PlaceStep
  <2>8. CASE row.slId # 0
    <3>1. pc' = "trailCancel" /\ op'.row = row BY <2>1, <2>8 DEF NoOp
    <3>2. Carried' BY <2>1, <2>4, <3>1 DEF Carried, BoughtSteps, Bought
    <3> QED BY <1>2, <1>3, <2>1, <2>6, <3>2, EmptyQueue, PlainStep
  <2> QED BY <2>7, <2>8
<1>5. pc \in {"trailCancel", "trailVerify"} =>
        /\ Bought /\ op.row.state = "bought" /\ op.row.qty = local.qty
        /\ op.row.side = local.side /\ op.row.slId = local.slId
  BY <1>1 DEF StopInv, MovesTracked, Carried, BoughtSteps
<1>6. ASSUME TrailCancel PROVE PromiseInv' /\ Moves
  <2>1. HoldsNamed /\ Unfilled BY <1>1, <1>6, CancelHolds DEF TrailCancel
  <2>2. SpendsQuietly BY <1>6 DEF TrailCancel, Cancelled, NotCancelled, SpendsQuietly
  <2>3. /\ pc = "trailCancel" /\ local' = local /\ net' = net /\ inflight' = inflight
        /\ pending' = pending
    BY <1>6 DEF TrailCancel
  <2>4. Covered(op.row, net) BY <1>3, <1>5, <2>3 DEF Covered
  <2>5. CASE GoPlace(op.row, local.sl, TRUE, "rest")
    BY <1>2, <1>3, <1>5, <2>1, <2>2, <2>3, <2>4, <2>5, PlaceStep
  <2>6. CASE pc' = "trailVerify" /\ op' = op
    <3>1. Carried' BY <1>5, <2>3, <2>6 DEF Carried, BoughtSteps, Bought
    <3> QED BY <1>2, <1>3, <1>5, <2>1, <2>2, <2>3, <3>1, EmptyQueue, PlainStep
  <2> QED BY <1>6, <2>5, <2>6 DEF TrailCancel
<1>7. ASSUME TrailVerify PROVE PromiseInv' /\ Moves
  <2>1. /\ pc = "trailVerify" /\ pc' = "save" /\ local' = local /\ stops' = stops
        /\ net' = net /\ inflight' = inflight /\ pending' = pending
    BY <1>7 DEF TrailVerify
  <2>2. SpendsQuietly BY <1>7 DEF TrailVerify, SpendsQuietly
  <2>3. /\ op'.row.state = "bought" /\ op'.row.side = local.side /\ op'.row.qty = local.qty
        /\ op'.row.slId \in {0, local.slId}
    <3>1. CASE op' = [op EXCEPT !.row.sl = local.sl]
      BY <1>1, <1>5, <2>1, <3>1 DEF Op, Row
    <3>2. CASE op' = [op EXCEPT !.row.sl = local.sl, !.row.slId = 0]
      BY <1>1, <1>5, <2>1, <3>2 DEF Op, Row
    <3> QED BY <1>7, <3>1, <3>2 DEF TrailVerify
  <2>4. Covered(op'.row, net) /\ Guarded(op'.row, stops', net)
    BY <1>3, <1>5, <2>1, <2>3 DEF Covered, Guarded
  <2>5. Carried' BY <1>3, <1>5, <2>1, <2>3, <2>4 DEF Carried, BoughtSteps
  <2>6. HoldsNamed /\ Unfilled BY <1>1, <2>1, SameHolds
  <2> QED BY <1>2, <1>3, <1>5, <2>1, <2>2, <2>5, <2>6, EmptyQueue, PlainStep
<1> QED BY <1>4, <1>6, <1>7

(* A crash: the row on disk and the venue stay, and the restart will look.   *)
LEMMA CrashMoves == PromiseInv /\ StopInv' /\ Crash => PromiseInv' /\ Moves
<1> SUFFICES ASSUME PromiseInv, StopInv', Crash PROVE PromiseInv' /\ Moves
  OBVIOUS
<1>1. /\ TypeInv /\ Calm /\ net \in Int /\ IdleTrue /\ left \in [Faults -> Nat]
  BY PromiseTypes
<1>2. /\ pc # "boot" /\ Spend("crash") /\ Goto("boot") /\ local' = local /\ net' = net
      /\ stops' = stops /\ inflight' = inflight /\ pending' = pending
  BY DEF Crash, dbVars, venueVars
<1>3. pc' = "boot" BY <1>2 DEF Goto
<1>4. left'["call"] = 0 BY <1>1, <1>2 DEF Spend, Calm, FewFaults, Faults
<1>5. TypeInv' /\ Less(net', net) /\ HoldsNamed /\ Unfilled
  BY <1>1, <1>2, LessFacts, SameHolds DEF StopInv
<1>6. Calm' BY <1>1, <1>2, <1>5, CalmStep DEF SpendsQuietly
<1>7. RowTrue' BY <1>2, <1>5, RowKept
<1>8. IdleTrue' BY <1>1, <1>2, <1>3, <1>4 DEF IdleTrue, Unrecorded, Bought
<1>9. Carried' BY <1>3, PlainCarried DEF Plain
<1>10. QueueTrue' BY <1>3, <1>4 DEF QueueTrue
<1>11. Moves BY <1>2, StillMoves
<1> QED BY <1>6, <1>7, <1>8, <1>9, <1>10, <1>11 DEF PromiseInv, Truth

(* Nothing happens. *)
LEMMA StutterMoves == PromiseInv /\ StopInv' /\ UNCHANGED vars => PromiseInv' /\ Moves
<1> SUFFICES ASSUME PromiseInv, StopInv', UNCHANGED vars PROVE PromiseInv' /\ Moves
  OBVIOUS
<1> USE DEF vars
<1>1. Calm' BY PromiseTypes, SameHolds, CalmStep DEF SpendsQuietly
<1>2. RowTrue' BY PromiseTypes DEF RowTrue, Bought
<1>3. IdleTrue' BY PromiseTypes DEF IdleTrue, Unrecorded, Bought
<1>4. Carried' BY PromiseTypes DEF Carried, Bought, Half
<1>5. QueueTrue' BY PromiseTypes DEF QueueTrue
<1> QED BY <1>1, <1>2, <1>3, <1>4, <1>5, StillMoves DEF PromiseInv, Truth

(* Every step keeps PromiseInv and is a step of PositionPromise or none. *)
LEMMA PromiseInductive == PromiseInv /\ [Next]_vars => PromiseInv' /\ Moves
<1> SUFFICES ASSUME PromiseInv, [Next]_vars PROVE PromiseInv' /\ Moves
  OBVIOUS
<1>1. StopInv' BY StopInvInductive DEF PromiseInv
<1>2. CASE Venue BY <1>1, <1>2, VenueMoves
<1>3. CASE OrderHelpers BY <1>1, <1>3, OrderHelpersMove
<1>4. CASE Reconcile BY <1>1, <1>4, ReconcileMoves
<1>5. CASE ReconcileSteps BY <1>1, <1>5, ReconcileStepsMove
<1>6. CASE BeginTick \/ Poll \/ Ensure \/ PartCancel BY <1>1, <1>6, PollMoves
<1>7. CASE EndTick \/ Handoff BY <1>1, <1>7, TickEndMoves
<1>8. CASE PartialTp BY <1>1, <1>8, PartialTpMoves
<1>9. CASE Close BY <1>1, <1>9, CloseMoves
<1>10. CASE (\E level \in Levels : Trail(level)) \/ TrailCancel \/ TrailVerify
  BY <1>1, <1>10, TrailMoves
<1>11. ASSUME NEW side \in Sides, NEW mode \in Modes,
              StrategyEntry(side) \/ ManualEntry(side, mode)
       PROVE  PromiseInv' /\ Moves
  <2>1. ~Bought /\ net = 0 /\ pending = {} BY <1>11, EntersFlat
  <2> QED BY <1>1, <1>11, <2>1, EntryMoves DEF StrategyEntry, ManualEntry
<1>12. CASE ReverseEntry
  <2>1. ~Bought /\ net = 0 /\ pending = {} BY <1>12, EntersFlat
  <2>2. Opposite(op.row.side) \in Sides BY DEF Opposite, Sides
  <2> QED BY <1>1, <1>12, <2>1, <2>2, EntryMoves DEF ReverseEntry
<1>13. CASE ReverseBlocked
  <2>1. /\ pc = "reverse" /\ Goto("rest") /\ net' = net /\ local' = local /\ stops' = stops
        /\ inflight' = inflight /\ pending' = pending /\ left' = left
    BY <1>13 DEF ReverseBlocked, dbVars, venueVars
  <2>2. ~Bought /\ net = 0 /\ pending = {} BY <2>1, PromiseTypes DEF Carried
  <2>3. Less(net', net) BY <2>1, PromiseTypes, LessFacts
  <2>4. HoldsNamed /\ Unfilled /\ SpendsQuietly
    BY <2>1, PromiseTypes, SameHolds DEF SpendsQuietly
  <2>5. Carried' BY <2>1, PlainCarried DEF Goto, Plain
  <2> QED BY <1>1, <2>1, <2>2, <2>3, <2>4, <2>5, EmptyQueue, PlainStep
<1>14. CASE Crash BY <1>1, <1>14, CrashMoves
<1>15. CASE UNCHANGED vars BY <1>1, <1>15, StutterMoves
<1>16. "strategy" \in Modes BY DEF Modes
<1> QED BY <1>2, <1>3, <1>4, <1>5, <1>6, <1>7, <1>8, <1>9, <1>10, <1>11, <1>12, <1>13,
           <1>14, <1>15, <1>16
        DEF Next, Engine, TickSteps

(* The first start of an undisturbed account. *)
LEMMA InitPromise == Undisturbed /\ Init => PromiseInv
<1> SUFFICES ASSUME Undisturbed, Init PROVE PromiseInv
  OBVIOUS
<1>1. StopInv BY InitStops
<1>2. Calm BY DEF Init, Undisturbed, Calm, FewFaults, NoStop
<1>3. Truth
  BY DEF Init, IdleRow, Truth, RowTrue, IdleTrue, Carried, QueueTrue, Bought, BoughtSteps
<1> QED BY <1>1, <1>2, <1>3 DEF PromiseInv

-----------------------------------------------------------------------------

(* While nothing but the engine trades and orders fill whole or not at all,  *)
(* every behaviour of the engine is one of PositionPromise: it enters only  *)
(* where nothing is held, recorded or waiting, gives the row up only when   *)
(* nothing is held, and forgets no queued close.                            *)
THEOREM PromiseKept == Undisturbed /\ Safe => KeepsPromise
<1>1. Init => Promise!Init
  BY DEF Init, IdleRow, Promise!Init
<1>2. PromiseInv /\ [Next]_vars => PromiseInv' /\ [Promise!Next]_(Promise!vars)
  BY PromiseInductive DEF Moves
<1> QED BY <1>1, <1>2, InitPromise, PTL DEF Safe, KeepsPromise, Promise!Safe

(* The stop of the row closes all that is held: as nothing fills in part,    *)
(* there is no shortfall, and resizing after a partial take-profit or a     *)
(* close, moving and replacing the stop leave nothing exposed.              *)
THEOREM StopCovers == Undisturbed /\ Safe => []StopCoversPosition
<1> SUFFICES ASSUME Undisturbed PROVE Safe => []StopCoversPosition
  OBVIOUS
<1>1. PromiseInv => StopCoversPosition
  <2> SUFFICES ASSUME PromiseInv, Bought, HasStop
               PROVE  Held(stops[local.slId].side)
                        <= stops[local.slId].size - stops[local.slId].done + Shortfall
    BY DEF StopCoversPosition
  <2>1. local.slId \in Ids BY PromiseTypes, RowIds DEF HasStop
  <2>2. /\ stops[local.slId].done = 0
        /\ stops[local.slId].size >= Amount(stops[local.slId].side, net)
    BY <2>1, PromiseTypes DEF Calm, RowTrue, Guarded, HasStop
  <2>3. stops[local.slId].size \in Nat BY <2>1, PromiseTypes DEF Stop
  <2>4. Shortfall = 0
    <3>1. Budget["partial"] = 0 /\ left["partial"] = 0
      BY DEF Undisturbed, PromiseInv, Calm, FewFaults
    <3>2. Partials = 0 BY <3>1 DEF Partials
    <3>3. (Lot - 1) \div 2 \in Int BY LivePositionAssumption
    <3> QED BY <3>2, <3>3 DEF Shortfall
  <2> QED BY <2>2, <2>3, <2>4, HeldAmount
<1> QED BY <1>1, PromiseInductive, InitPromise, PTL DEF Safe

(* A step that is not an entry sends none. *)
LEMMA EntriesSent ==
  ASSUME PromiseInv, [Next]_vars, entries' # entries
  PROVE  net = 0 /\ pending = {}
<1>1. CASE \E side \in Sides, mode \in Modes :
             StrategyEntry(side) \/ ManualEntry(side, mode) \/ ReverseEntry
  BY <1>1, EntersFlat
<1>2. ~Venue
  BY DEF Venue, StopFires, StopFiresPartly, OutsideCancel, LateFill, OutsideOpen, OutsideClose
<1>3. ~OrderHelpers
  BY DEF OrderHelpers, PlaceStop, PlaceNothing, PlaceFails, PlaceLanded, SaveRow
<1>4. ~Reconcile /\ ~ReconcileSteps
  BY DEF Reconcile, ReconcileSteps, Adopt, FoundFlat, BothFlat, SideMismatch, Synced,
         ReconcileFails, FlatSweep, IdleSweep, RetryNext, Confirmed, NotConfirmed
<1>5. ~(BeginTick \/ Poll \/ Ensure \/ PartCancel \/ EndTick \/ Handoff)
  BY DEF BeginTick, Poll, PollUntracked, PollFails, PollLive, PollFilled, PollPartial,
         PollCancelled, Ensure, PartCancel, EndTick, Handoff
<1>6. ~PartialTp /\ ~Close
  BY DEF PartialTp, TpTooSmall, TpMarket, TpBook, TpCancel, Close, StrategyClose,
         ManualClose, StartClose, CloseCancel, CloseMarket, CloseBook
<1>7. /\ ~((\E level \in Levels : Trail(level)) \/ TrailCancel \/ TrailVerify)
      /\ ~ReverseBlocked /\ ~Crash /\ ~UNCHANGED vars
  BY DEF Trail, TrailCancel, TrailVerify, ReverseBlocked, Crash, vars
<1>8. "strategy" \in Modes /\ "LONG" \in Sides BY DEF Modes, Sides
<1> QED BY <1>1, <1>2, <1>3, <1>4, <1>5, <1>6, <1>7, <1>8 DEF Next, Engine, TickSteps

(* Exposure is never doubled, although only the reverse looks at the venue.  *)
THEOREM EntryNeedsFlat == Undisturbed /\ Safe => EntersOnlyWhenFlat
<1>1. PromiseInv /\ [Next]_vars => [entries' > entries => net = 0]_vars
  <2> SUFFICES ASSUME PromiseInv, [Next]_vars, entries' > entries PROVE net = 0
    OBVIOUS
  <2>1. entries' # entries
    BY PromiseTypes, TypeInvInductive DEF TypeInv, TypeOK
  <2> QED BY <2>1, EntriesSent
<1> QED BY <1>1, PromiseInductive, InitPromise, PTL DEF Safe, EntersOnlyWhenFlat

(* No entry is sent over a close that still waits to be booked.              *)
THEOREM EntryNeedsBooked == Undisturbed /\ Safe => EntersOnlyWhenBooked
<1>1. PromiseInv /\ [Next]_vars => [entries' > entries => pending = {}]_vars
  <2> SUFFICES ASSUME PromiseInv, [Next]_vars, entries' > entries PROVE pending = {}
    OBVIOUS
  <2>1. entries' # entries
    BY PromiseTypes, TypeInvInductive DEF TypeInv, TypeOK
  <2> QED BY <2>1, EntriesSent
<1> QED BY <1>1, PromiseInductive, InitPromise, PTL DEF Safe, EntersOnlyWhenBooked

(* The row is given up only when the venue holds nothing any more.           *)
THEOREM IdleNeedsFlat == Undisturbed /\ Safe => IdleOnlyWhenFlat
<1>1. Moves => [Bought /\ local'.state = "idle" => net = 0]_vars
  BY DEF Moves, Promise!Next, Promise!vars, Promise!Enter, Promise!Record, Promise!Leave,
         Promise!Close, Promise!Settle, Bought
<1> QED BY <1>1, PromiseInductive, InitPromise, PTL DEF Safe, IdleOnlyWhenFlat

-----------------------------------------------------------------------------
(* The books: what a crash may add to them                                  *)

(* The row the engine goes by: the one it is about to save, or the one on    *)
(* disk. While the stop is cancelled after a partial take-profit, half of   *)
(* the row's units are booked already and still in it.                      *)
Carrying == pc \in {"place", "save"}
InHand == IF Carrying THEN op.row ELSE local
Shown == IF pc = "tpCancel" THEN local.qty - Half ELSE InHand.qty

(* The units that row shows and the venue has closed already: no closed      *)
(* trade speaks of them yet.                                                *)
Gone == IF Carrying \/ Bought THEN Shown - Amount(InHand.side, net) ELSE 0

(* A position, and a row that shows one, is never more than one entry. *)
OneLot ==
  /\ \A side \in Sides : Amount(side, net) <= Lot
  /\ local.qty <= Lot /\ (Carrying => op.row.qty <= Lot)

(* What is closed is booked, queued, or still to be found missing. A crash   *)
(* loses the row in hand, and so at most one lot from what is booked of it. *)
QueueOne == pending = {} \/ \E c \in Closure : pending = {c}
ConfirmsQueued == pc \in {"flatSweep", "confirm"} => ClosureOf(op.row) \in pending
Allowed == Lot * Crashes
BooksBalance == booked + Queued + Gone <= closed + Allowed
BookInv ==
  PromiseInv /\ Crashes \in Nat /\ OneLot /\ QueueOne /\ ConfirmsQueued /\ BooksBalance

-----------------------------------------------------------------------------
(* The units of a queue of at most one close; Queued takes a chosen row out  *)
(* of the queue at a time, and Weights is that function by name.            *)
First(rows) == CHOOSE c \in rows : TRUE
Weigh(rows, g) == IF rows = {} THEN 0 ELSE First(rows).qty + g[rows \ {First(rows)}]
Weights(queue) == CHOOSE g : g = [rows \in SUBSET queue |-> Weigh(rows, g)]

(* The total of the queue, before and after a step. *)
LEMMA QueuedWeighs == Queued = Weights(pending)[pending]
BY DEF Queued, Weights, Weigh, First
LEMMA QueuedWeighsNext == Queued' = Weights(pending')[pending']
BY DEF Queued, Weights, Weigh, First

(* The two queues there are: an empty one and one close. *)
LEMMA WeightsEmpty == Weights({})[{}] = 0
<1> DEFINE g == [rows \in SUBSET {} |-> 0]
<1>1. g = [rows \in SUBSET {} |-> Weigh(rows, g)] BY DEF Weigh
<1>2. Weights({}) = [rows \in SUBSET {} |-> Weigh(rows, Weights({}))]
  <2> HIDE DEF g
  <2> QED BY <1>1 DEF Weights
<1> QED BY <1>2 DEF Weigh

LEMMA WeightsOne ==
  ASSUME NEW c \in Closure
  PROVE  Weights({c})[{c}] = c.qty
<1> DEFINE g == [rows \in SUBSET {c} |-> IF rows = {} THEN 0 ELSE c.qty]
<1>0. c.qty \in Nat BY DEF Closure
<1>1. First({c}) = c BY DEF First
<1>2. SUBSET {c} = {{}, {c}} OBVIOUS
<1>3. g[{}] = 0 /\ g[{c}] = c.qty BY <1>2
<1>4. Weigh({}, g) = 0 BY DEF Weigh
<1>5. Weigh({c}, g) = c.qty + g[{}]
  <2>1. {c} \ {First({c})} = {} BY <1>1
  <2> QED BY <1>1, <2>1 DEF Weigh
<1>6. \A rows \in SUBSET {c} : g[rows] = Weigh(rows, g)
  <2> HIDE DEF g
  <2> QED BY <1>0, <1>2, <1>3, <1>4, <1>5
<1>7. g = [rows \in SUBSET {c} |-> Weigh(rows, g)]
  <2>1. g = [rows \in SUBSET {c} |-> g[rows]] OBVIOUS
  <2> HIDE DEF g
  <2> QED BY <1>6, <2>1
<1>8. Weights({c}) = [rows \in SUBSET {c} |-> Weigh(rows, Weights({c}))]
  <2> HIDE DEF g
  <2> QED BY <1>7 DEF Weights
<1>9. Weights({c})[{}] = 0 BY <1>8 DEF Weigh
<1>10. Weights({c})[{c}] = Weigh({c}, Weights({c})) BY <1>8
<1>11. Weigh({c}, Weights({c})) = c.qty + Weights({c})[{}]
  <2>1. {c} \ {First({c})} = {} BY <1>1
  <2> QED BY <1>1, <2>1 DEF Weigh
<1> QED BY <1>0, <1>9, <1>10, <1>11

(* A queue of one close holds its units, an empty one none.                  *)
LEMMA QueuedUnits ==
  /\ pending = {} => Queued = 0
  /\ \A c \in Closure : pending = {c} => Queued = c.qty
BY QueuedWeighs, WeightsEmpty, WeightsOne
LEMMA QueuedUnitsNext ==
  /\ pending' = {} => Queued' = 0
  /\ \A c \in Closure : pending' = {c} => Queued' = c.qty
BY QueuedWeighsNext, WeightsEmpty, WeightsOne

(* The total is a count. *)
LEMMA QueuedType == QueueOne => Queued \in Nat
BY QueuedUnits DEF QueueOne, Closure

-----------------------------------------------------------------------------
(* The row in hand shows at least what is held, so what is gone is a count.  *)
LEMMA GoneType ==
  ASSUME PromiseInv
  PROVE  /\ Gone \in Nat
         /\ Amount(local.side, net) \in Nat /\ Amount(op.row.side, net) \in Nat
<1>1. /\ op.row.qty \in Nat /\ op.row.side \in Sides /\ local.qty \in Nat /\ Half \in Nat
      /\ Half <= local.qty
  BY PromiseTypes, TpRowFacts DEF Row
<1>2. Amount(local.side, net) \in Nat /\ Amount(op.row.side, net) \in Nat
  BY PromiseTypes, AmountType
<1>3. CASE Carrying
  <2>1. Covered(op.row, net) /\ pc # "tpCancel" BY <1>3, PromiseTypes DEF Carrying, Carried
  <2> QED BY <1>1, <1>2, <1>3, <2>1 DEF Gone, Shown, InHand, Covered
<1>4. CASE ~Carrying /\ Bought
  <2>1. Covered(local, net) BY <1>4, PromiseTypes DEF RowTrue
  <2>2. pc = "tpCancel" => Amount(local.side, net) <= local.qty - Half
    BY PromiseTypes DEF Carried
  <2> QED BY <1>1, <1>2, <1>4, <2>1, <2>2 DEF Gone, Shown, InHand, Covered
<1>5. CASE ~Carrying /\ ~Bought BY <1>2, <1>5 DEF Gone
<1> QED BY <1>2, <1>3, <1>4, <1>5

(* The same after a step. *)
LEMMA GoneTypeNext ==
  ASSUME PromiseInv'
  PROVE  Gone' \in Nat
<1>1. /\ op'.row.qty \in Nat /\ op'.row.side \in Sides /\ local'.qty \in Nat
      /\ local'.side \in Sides /\ net' \in Int /\ local' \in Row
  BY DEF PromiseInv, StopInv, TypeInv, TypeOK, Op, Row
<1>2. Half' \in Nat /\ Half' <= local'.qty BY <1>1 DEF Half
<1>3. Amount(local'.side, net') \in Nat /\ Amount(op'.row.side, net') \in Nat
  BY <1>1, AmountType
<1>4. Carried' /\ RowTrue' BY DEF PromiseInv, Truth
<1>5. CASE Carrying'
  <2>1. Covered(op'.row, net') /\ pc' # "tpCancel" BY <1>4, <1>5 DEF Carrying, Carried
  <2> QED BY <1>1, <1>3, <1>5, <2>1 DEF Gone, Shown, InHand, Covered
<1>6. CASE ~Carrying' /\ Bought'
  <2>1. Covered(local', net') BY <1>4, <1>6 DEF RowTrue
  <2>2. pc' = "tpCancel" => Amount(local'.side, net') <= local'.qty - Half'
    BY <1>4 DEF Carried
  <2> QED BY <1>1, <1>2, <1>3, <1>6, <2>1, <2>2 DEF Gone, Shown, InHand, Covered
<1>7. CASE ~Carrying' /\ ~Bought' BY <1>7 DEF Gone
<1> QED BY <1>5, <1>6, <1>7

(* The books stay balanced in a step that neither books nor queues, and      *)
(* after which no more is gone than the venue has closed.                   *)
Even ==
  /\ pending' = pending /\ booked' = booked
  /\ Gone' <= Gone + (closed' - closed) /\ OneLot'
  /\ pc' \in {"flatSweep", "confirm"} => ClosureOf(op'.row) \in pending'
Books == OneLot' /\ QueueOne' /\ ConfirmsQueued' /\ BooksBalance'

(* What the crashes excuse does not shrink. *)
Allows == Allowed \in Nat /\ Allowed' \in Nat /\ Allowed <= Allowed'

(* The numbers of the balance are counts. *)
LEMMA BookTypes ==
  ASSUME BookInv, PromiseInv'
  PROVE  /\ booked \in Nat /\ closed \in Nat /\ Queued \in Nat /\ Gone \in Nat
         /\ booked' \in Nat /\ closed' \in Nat /\ Gone' \in Nat
BY GoneType, GoneTypeNext, QueuedType DEF BookInv, PromiseInv, StopInv, TypeInv, TypeOK

(* An even step keeps the balance. *)
LEMMA EvenBooks ==
  ASSUME BookInv, PromiseInv', Allows, Even
  PROVE  Books
<1>1. Queued' = Queued BY QueuedWeighs, QueuedWeighsNext DEF Even
<1>2. BooksBalance' BY <1>1, BookTypes DEF Even, BookInv, BooksBalance, Allows
<1>3. QueueOne' BY DEF Even, BookInv, QueueOne
<1>4. ConfirmsQueued' BY DEF Even, ConfirmsQueued
<1> QED BY <1>2, <1>3, <1>4 DEF Even, Books

(* No more is held, and no row shows more, than before. *)
LEMMA LotKept ==
  ASSUME BookInv, PromiseInv', Less(net', net), local'.qty <= local.qty,
         Carrying' => op'.row.qty <= Lot
  PROVE  OneLot'
<1>1. /\ local.qty \in Nat /\ local'.qty \in Nat /\ net \in Int /\ net' \in Int
      /\ Lot \in Nat
  BY LivePositionAssumption DEF BookInv, PromiseInv, StopInv, TypeInv, TypeOK, Row
<1>2. \A side : Amount(side, net) \in Nat /\ Amount(side, net') \in Nat
  BY <1>1, AmountType
<1> QED BY <1>1, <1>2 DEF BookInv, OneLot, Less

(* The same when the venue does not move. *)
LEMMA LotStays ==
  ASSUME BookInv, PromiseInv', net' = net, local'.qty <= local.qty,
         Carrying' => op'.row.qty <= Lot
  PROVE  OneLot'
BY PromiseTypes, LessFacts, LotKept DEF BookInv

(* Where a row is neither saved nor cut in half, it shows what it says.      *)
Untouched == pc \notin {"place", "save", "tpCancel"}
LEMMA RestGone ==
  ASSUME PromiseInv, Untouched, Untouched', net' = net, local'.qty = local.qty,
         local'.side = local.side, local'.state = local.state
  PROVE  Gone' <= Gone
<1>1. Gone' = Gone BY DEF Untouched, Gone, Shown, InHand, Carrying, Bought
<1> QED BY <1>1, GoneType

(* A row that is about to be saved, with the same units on the same side.    *)
LEMMA PlaceGone ==
  ASSUME PromiseInv, Untouched, Bought, pc' \in {"place", "save"}, net' = net,
         op'.row.qty = local.qty, op'.row.side = local.side
  PROVE  Gone' <= Gone
<1>1. Gone' = Gone BY DEF Untouched, Gone, Shown, InHand, Carrying
<1> QED BY <1>1, GoneType

(* The venue closes q units: at most q more are gone.                        *)
LEMMA ReduceAmounts ==
  ASSUME net \in Int, closed \in Nat, NEW side \in Sides, NEW q \in Nat, q <= Held(side),
         Reduce(side, q)
  PROVE  /\ closed' - closed = q
         /\ \A s \in Sides : Amount(s, net) <= Amount(s, net') + q
BY DEF Reduce, Delta, Held, Amount, Sides

-----------------------------------------------------------------------------
(* One lemma per group of actions *)

(* A stop that closes part of the position, or all of it. *)
LEMMA VenueEven ==
  ASSUME BookInv, PromiseInv', Venue
  PROVE  Even
<1>1. /\ PromiseInv /\ Calm /\ local \in Row /\ op.row \in Row /\ net \in Int /\ net' \in Int
      /\ local.side \in Sides /\ op.row.side \in Sides /\ closed \in Nat
      /\ stops \in [Ids -> Stop] /\ inflight \in [Sides -> Nat]
  BY PromiseTypes DEF BookInv, PromiseInv, StopInv, TypeInv, TypeOK, Row
<1>2. PICK i \in Ids : StopFires(i)
  <2>1. ~\E side \in Sides : LateFill(side) BY <1>1 DEF LateFill, Calm
  <2> QED BY <1>1, <2>1, NothingDisturbs
          DEF Venue, StopFiresPartly, OutsideCancel, OutsideOpen, OutsideClose
<1>3. /\ local' = local /\ pending' = pending /\ booked' = booked /\ pc' = pc /\ op' = op
  BY <1>2 DEF StopFires, dbVars
<1>4. PICK q \in Nat : q <= Held(stops[i].side) /\ Reduce(stops[i].side, q)
  <2> DEFINE q == Least(stops[i].size - stops[i].done, Held(stops[i].side))
  <2>1. stops[i].size - stops[i].done \in Nat BY <1>1 DEF Stop
  <2>2. Held(stops[i].side) \in Nat BY <1>1, HeldType
  <2>3. q \in Nat /\ q <= Held(stops[i].side) BY <2>1, <2>2, LeastType
  <2>4. Reduce(stops[i].side, q) BY <1>2 DEF StopFires
  <2> HIDE DEF q
  <2> QED BY <2>3, <2>4
<1>5. stops[i].side \in Sides BY <1>1 DEF Stop
<1>6. closed' - closed = q /\ \A s \in Sides : Amount(s, net) <= Amount(s, net') + q
  BY <1>1, <1>4, <1>5, ReduceAmounts
<1>7. \A s : Amount(s, net) \in Nat /\ Amount(s, net') \in Nat BY <1>1, AmountType
<1>8. Half' = Half /\ Shown' = Shown /\ InHand' = InHand /\ InHand.side \in Sides
      /\ (Carrying \/ Bought)' = (Carrying \/ Bought)
  BY <1>1, <1>3 DEF Half, Shown, InHand, Carrying, Bought
<1>9. Shown \in Int
  BY <1>1, TpRowFacts DEF Shown, InHand, Row
<1>10. Gone' <= Gone + (closed' - closed)
  <2>1. CASE Carrying \/ Bought BY <1>6, <1>7, <1>8, <1>9, <2>1 DEF Gone
  <2>2. CASE ~(Carrying \/ Bought) BY <1>6, <1>8, <2>2 DEF Gone
  <2> QED BY <2>1, <2>2
<1>11. pc \in {"flatSweep", "confirm"} => ClosureOf(op.row) \in pending
  BY DEF BookInv, ConfirmsQueued
<1>12. OneLot'
  <2>1. Less(net', net) BY <1>1, <1>4, <1>5, ReduceLess
  <2>2. Carrying' => op'.row.qty <= Lot BY <1>3 DEF BookInv, OneLot, Carrying
  <2>3. local'.qty <= local.qty BY <1>1, <1>3 DEF Row
  <2> QED BY <2>1, <2>2, <2>3, LotKept
<1> QED BY <1>3, <1>10, <1>11, <1>12 DEF Even

(* Asking for a stop changes neither the units nor the side of the row.      *)
LEMMA HelpersEven ==
  ASSUME BookInv, PromiseInv', OrderHelpers
  PROVE  Even
<1> USE DEF dbVars, venueVars
<1>1. /\ PromiseInv /\ op \in Op /\ op.row \in Row /\ op.row \in Row /\ closed \in Nat
      /\ op.then \in {"rest", "decide", "hold", "retry"} /\ Gone \in Nat
  BY PromiseTypes, GoneType DEF BookInv, PromiseInv, StopInv, TypeInv, TypeOK
<1>2. ASSUME pc = "place", pc' \in {"place", "save"}, net' = net, closed' = closed,
             op'.row.qty = op.row.qty, op'.row.side = op.row.side, pending' = pending,
             booked' = booked, local' = local
      PROVE  Even
  <2>1. Gone' = Gone BY <1>2 DEF Gone, Shown, InHand, Carrying
  <2>2. OneLot' BY <1>2 DEF BookInv, OneLot, Carrying
  <2> QED BY <1>1, <1>2, <2>1, <2>2 DEF Even
<1>3. ASSUME Unplaced
      PROVE  pc' \in {"place", "save"} /\ op'.row.qty = op.row.qty /\ op'.row.side = op.row.side
  <2>1. CASE op' = [op EXCEPT !.row.sl = op.fall, !.again = FALSE]
    BY <1>1, <1>3, <2>1 DEF Unplaced, Op, Row
  <2>2. CASE op' = [op EXCEPT !.row.sl = op.fall, !.row.slId = 0]
    BY <1>1, <1>3, <2>2 DEF Unplaced, Op, Row
  <2> QED BY <1>3, <2>1, <2>2 DEF Unplaced
<1>4. CASE PlaceStop
  <2>1. PICK i \in Ids : op' = [op EXCEPT !.row.slId = i] BY <1>4 DEF PlaceStop
  <2>2. op'.row.qty = op.row.qty /\ op'.row.side = op.row.side BY <1>1, <2>1 DEF Op, Row
  <2> QED BY <1>2, <1>4, <2>2 DEF PlaceStop
<1>5. CASE PlaceNothing BY <1>2, <1>3, <1>5 DEF PlaceNothing
<1>6. CASE PlaceFails BY <1>2, <1>3, <1>6 DEF PlaceFails
<1>7. CASE PlaceLanded BY <1>2, <1>3, <1>7 DEF PlaceLanded
<1>8. CASE SaveRow
  <2>1. /\ pc = "save" /\ local' = op.row /\ net' = net /\ closed' = closed
        /\ pending' = pending /\ booked' = booked /\ pc' = op.then
    BY <1>8 DEF SaveRow, Goto
  <2>2. op.row.state = "bought" BY <2>1, PromiseTypes, <1>1 DEF Carried
  <2>3. Gone' = Gone BY <1>1, <2>1, <2>2 DEF Gone, Shown, InHand, Carrying, Bought
  <2>4. OneLot' BY <1>1, <2>1 DEF BookInv, OneLot, Carrying
  <2> QED BY <1>1, <2>1, <2>3, <2>4 DEF Even
<1> QED BY <1>4, <1>5, <1>6, <1>7, <1>8 DEF OrderHelpers

(* Start-up and reconciliation, but for a row whose position is gone: a row  *)
(* that follows the venue shows exactly what is held.                       *)
LEMMA ReconcileEven ==
  ASSUME BookInv, PromiseInv', Adopt \/ BothFlat \/ SideMismatch \/ Synced
  PROVE  Even
<1> USE DEF dbVars, venueVars
<1>1. /\ PromiseInv /\ local \in Row /\ net \in Int /\ closed \in Nat /\ Gone \in Nat
      /\ local.side \in Sides
  BY PromiseTypes, GoneType DEF BookInv, PromiseInv, StopInv, TypeInv, TypeOK
<1>2. /\ Size \in Nat /\ NetSide \in Sides /\ Amount(NetSide, net) = Size
      /\ Amount(Opposite(NetSide), net) = 0
  BY <1>1 DEF Size, NetSide, Sides, Amount, Opposite
<1>3. ASSUME local'.side = NetSide, local'.qty = Size, pc' = "rest", net' = net
      PROVE  Gone' = 0 /\ OneLot'
  <2>1. Gone' = 0 BY <1>2, <1>3 DEF Gone, Shown, InHand, Carrying
  <2>2. Size <= Lot BY <1>2 DEF BookInv, OneLot
  <2> QED BY <1>3, <2>1, <2>2 DEF BookInv, OneLot, Carrying
<1>4. CASE Adopt
  <2>1. local'.side = NetSide /\ local'.qty = Size BY <1>4 DEF Adopt, IdleRow
  <2> QED BY <1>1, <1>3, <1>4, <2>1 DEF Adopt, Goto, Even
<1>5. CASE Synced
  <2>1. local'.side = NetSide /\ local'.qty = Size BY <1>1, <1>5 DEF Synced, Row
  <2> QED BY <1>1, <1>3, <1>5, <2>1 DEF Synced, Goto, Even
<1>6. CASE BothFlat
  <2>1. /\ Untouched /\ Untouched' /\ net' = net /\ local' = local /\ closed' = closed
        /\ pending' = pending /\ booked' = booked /\ pc' \notin {"flatSweep", "confirm"}
    BY <1>6 DEF BothFlat, AtReconcile, Goto, Untouched
  <2>2. OneLot' BY <2>1 DEF BookInv, OneLot, Carrying, Untouched
  <2> QED BY <1>1, <2>1, <2>2, RestGone DEF Even
<1>7. ~SideMismatch
  <2> SUFFICES ASSUME SideMismatch PROVE FALSE OBVIOUS
  <2>1. net # 0 /\ local.side # NetSide /\ Covered(local, net)
    BY <1>1, PromiseTypes DEF SideMismatch, RowTrue, Bought
  <2>2. Opposite(local.side) = NetSide BY <1>1, <1>2, <2>1 DEF Sides, Opposite
  <2>3. Size # 0 BY <1>1, <2>1 DEF Size
  <2> QED BY <1>2, <2>1, <2>2, <2>3 DEF Covered
<1> QED BY <1>4, <1>5, <1>6, <1>7

(* A step after which the engine carries nothing and the row is as it was.   *)
LEMMA QuietEven ==
  ASSUME BookInv, PromiseInv', Untouched, Untouched', net' = net, closed' = closed,
         local'.qty = local.qty, local'.side = local.side, local'.state = local.state,
         pending' = pending, booked' = booked,
         pc' \in {"flatSweep", "confirm"} => ClosureOf(op'.row) \in pending'
  PROVE  Even
<1>1. PromiseInv /\ closed \in Nat /\ Gone \in Nat
  BY GoneType DEF BookInv, PromiseInv, StopInv, TypeInv, TypeOK
<1>2. Gone' <= Gone BY <1>1, RestGone
<1>3. Gone' \in Nat BY GoneTypeNext
<1>4. OneLot' BY DEF BookInv, OneLot, Carrying, Untouched
<1> QED BY <1>1, <1>2, <1>3, <1>4 DEF Even

(* A step to a placement with the units and the side of the row on disk.     *)
LEMMA PlaceEven ==
  ASSUME BookInv, PromiseInv', Untouched, Bought, net' = net, closed' = closed,
         local' = local, pending' = pending, booked' = booked, NEW row, row.qty = local.qty,
         row.side = local.side, NEW fall, NEW again, NEW then, GoPlace(row, fall, again, then)
  PROVE  Even
<1>1. PromiseInv /\ closed \in Nat /\ Gone \in Nat
  BY GoneType DEF BookInv, PromiseInv, StopInv, TypeInv, TypeOK
<1>2. pc' = "place" /\ op'.row = row BY DEF GoPlace, NoOp
<1>3. Gone' <= Gone BY <1>1, <1>2, PlaceGone
<1>4. Gone' \in Nat BY GoneTypeNext
<1>5. OneLot' BY <1>2 DEF BookInv, OneLot
<1> QED BY <1>1, <1>2, <1>3, <1>4, <1>5 DEF Even

(* The rest of a reconciliation, but for a close that is confirmed.          *)
LEMMA ReconcileStepsEven ==
  ASSUME BookInv, PromiseInv',
         ReconcileFails \/ FlatSweep \/ IdleSweep \/ RetryNext \/ NotConfirmed
  PROVE  Even
<1> USE DEF dbVars, venueVars
<1>1. ReconcileFails => Even BY QuietEven DEF ReconcileFails, AtReconcile, Goto, Untouched
<1>2. FlatSweep => Even
  BY QuietEven DEF FlatSweep, Untouched, BookInv, ConfirmsQueued
<1>3. IdleSweep => Even BY QuietEven DEF IdleSweep, Goto, Untouched
<1>4. NotConfirmed => Even
  <2>1. op.then \in {"rest", "decide", "hold", "retry"} BY PromiseTypes DEF BookInv
  <2> QED BY <2>1, QuietEven DEF NotConfirmed, Goto, Untouched
<1>5. CASE RetryNext
  <2>1. /\ pc = "retry" /\ net' = net /\ closed' = closed /\ local' = local
        /\ pending' = pending /\ booked' = booked
    BY <1>5 DEF RetryNext
  <2>2. CASE Goto("idleSweep") BY <2>1, <2>2, QuietEven DEF Goto, Untouched
  <2>3. ASSUME NEW c \in pending, pc' = "confirm",
               op' = [NoOp EXCEPT !.row.born = c.born, !.row.qty = c.qty, !.then = "retry"]
        PROVE  Even
    <3>1. c \in Closure BY DEF BookInv, PromiseInv, StopInv, TypeInv, TypeOK
    <3>2. op'.row.born = c.born /\ op'.row.qty = c.qty BY <2>3 DEF NoOp, IdleRow
    <3>3. ClosureOf(op'.row) = c BY <3>1, <3>2 DEF ClosureOf, Closure
    <3> QED BY <2>1, <2>3, <3>3, QuietEven DEF Untouched
  <2> QED BY <1>5, <2>2, <2>3 DEF RetryNext
<1> QED BY <1>1, <1>2, <1>3, <1>4, <1>5

(* The poll of the stop, but for a stop that has filled.                     *)
LEMMA PollEven ==
  ASSUME BookInv, PromiseInv', BeginTick \/ (Poll /\ ~PollFilled) \/ Ensure \/ PartCancel
  PROVE  Even
<1> USE DEF dbVars, venueVars
<1>1. PromiseInv /\ (pc \in BoughtSteps => Bought) /\ pc # "partCancel" /\ local \in Row
  BY PromiseTypes DEF BookInv, Carried
<1>2. BeginTick => Even BY QuietEven DEF BeginTick, Goto, Untouched
<1>3. PollUntracked => Even BY QuietEven DEF PollUntracked, Goto, Untouched
<1>4. PollFails \/ PollLive => Even BY QuietEven DEF PollFails, PollLive, Goto, Untouched
<1>5. PollCancelled => Even
  BY <1>1, PlaceEven DEF PollCancelled, Untouched, BoughtSteps
<1>6. Ensure => Even
  BY <1>1, PlaceEven DEF Ensure, Untouched, BoughtSteps
<1>7. ~PartCancel BY <1>1 DEF PartCancel
<1>8. ~PollPartial
  <2> SUFFICES ASSUME PollPartial PROVE FALSE OBVIOUS
  <2>1. local.slId # 0 /\ stops[local.slId].done > 0 BY DEF PollPartial, Tracked
  <2>2. local.slId \in Ids BY <1>1, <2>1, RowIds
  <2>3. stops[local.slId].done = 0 BY <1>1, <2>2, PromiseTypes DEF Calm
  <2> QED BY <2>1, <2>3
<1> QED BY <1>2, <1>3, <1>4, <1>5, <1>6, <1>7, <1>8 DEF Poll

(* A tick that ends, and a row handed back to its strategy.                  *)
LEMMA TickEndEven ==
  ASSUME BookInv, PromiseInv', EndTick \/ Handoff
  PROVE  Even
<1> USE DEF dbVars, venueVars
<1>1. /\ PromiseInv /\ StopInv /\ local \in Row /\ Carried
  BY PromiseTypes DEF BookInv, PromiseInv
<1>2. CASE EndTick
  <2>1. /\ Untouched /\ Untouched' /\ pc' = "rest" /\ net' = net /\ closed' = closed
        /\ pending' = pending /\ booked' = booked
        /\ pc \in {"decide", "hold"} /\ (local' = local \/ (Managed /\ local' = TickRow))
    BY <1>2 DEF EndTick, Goto, Untouched
  <2>2. Managed => /\ TickRow.state = "bought" /\ TickRow.side = local.side
                   /\ TickRow.qty = local.qty
    BY <1>1, <2>1 DEF TickRow, Managed, StopInv, DecidesAfresh, HoldsSameStop, SameStop, Carried
  <2>3. /\ local'.state = local.state /\ local'.side = local.side /\ local'.qty = local.qty
    BY <2>1, <2>2 DEF Managed
  <2> QED BY <2>1, <2>3, QuietEven
<1>3. CASE Handoff
  <2>1. /\ local'.state = local.state /\ local'.side = local.side /\ local'.qty = local.qty
    BY <1>1, <1>3 DEF Handoff, Row
  <2> QED BY <1>3, <2>1, QuietEven DEF Handoff, Deciding, Goto, Untouched
<1> QED BY <1>2, <1>3

(* A market close takes from what is held no more than the venue has closed. *)
LEMMA MarketCloseAmounts ==
  ASSUME PromiseInv, closed \in Nat, NEW qty \in Nat, NEW filled, MarketClose(qty, filled)
  PROVE  /\ net' \in Int /\ closed' - closed \in Nat
         /\ Amount(local.side, net) <= Amount(local.side, net') + (closed' - closed)
<1>1. net \in Int /\ local.side \in Sides BY PromiseTypes
<1> DEFINE most == Least(qty, Held(local.side))
<1>2. Held(local.side) \in Nat BY <1>1, HeldType
<1>3. most \in Nat /\ most <= Held(local.side) BY <1>2, LeastType
<1>4. \/ most > 0 /\ Reduce(local.side, most)
      \/ \E lost \in 1 .. most : Reduce(local.side, lost)
      \/ net' = net /\ closed' = closed
  BY PromiseTypes, NothingDisturbs DEF MarketClose
<1> HIDE DEF most
<1>5. ASSUME NEW q \in Nat, q <= Held(local.side), Reduce(local.side, q)
      PROVE  /\ net' \in Int /\ closed' - closed \in Nat
             /\ Amount(local.side, net) <= Amount(local.side, net') + (closed' - closed)
  BY <1>1, <1>5, ReduceAmounts, ReduceLess
<1>6. ASSUME NEW lost \in 1 .. most, Reduce(local.side, lost)
      PROVE  lost \in Nat /\ lost <= Held(local.side)
  BY <1>2, <1>3
<1>7. Amount(local.side, net) \in Nat BY <1>1, AmountType
<1>8. CASE most > 0 /\ Reduce(local.side, most) BY <1>3, <1>5, <1>8
<1>9. CASE \E lost \in 1 .. most : Reduce(local.side, lost) BY <1>5, <1>6, <1>9
<1>10. CASE net' = net /\ closed' = closed BY <1>1, <1>7, <1>10
<1> QED BY <1>4, <1>8, <1>9, <1>10

(* So after it no more is gone than was before and than the venue closed.    *)
LEMMA CloseGone ==
  ASSUME BookInv, PromiseInv', Bought, Untouched, NEW qty \in Nat, NEW filled,
         MarketClose(qty, filled), local' = local, pending' = pending, booked' = booked,
         \/ Untouched' /\ pc' \notin {"flatSweep", "confirm"}
         \/ pc' = "place" /\ op'.row = local
  PROVE  Even
<1>1. /\ PromiseInv /\ closed \in Nat /\ local \in Row /\ net \in Int /\ local.qty \in Nat
  BY PromiseTypes DEF BookInv, PromiseInv, StopInv, TypeInv, TypeOK
<1>2. /\ net' \in Int /\ closed' - closed \in Nat
      /\ Amount(local.side, net) <= Amount(local.side, net') + (closed' - closed)
  BY <1>1, MarketCloseAmounts
<1>3. Amount(local.side, net) \in Nat /\ Amount(local.side, net') \in Nat
  BY <1>1, <1>2, AmountType
<1>4. Gone = local.qty - Amount(local.side, net)
  BY DEF Untouched, Gone, Shown, InHand, Carrying
<1>5. Gone' = local.qty - Amount(local.side, net')
  BY DEF Untouched, Gone, Shown, InHand, Carrying, Bought
<1>6. pc' \notin {"flatSweep", "confirm"} OBVIOUS
<1>7. OneLot'
  <2>1. Less(net', net) BY <1>1, MarketCloseLess
  <2>2. Carrying' => op'.row.qty <= Lot BY DEF BookInv, OneLot, Carrying, Untouched
  <2> QED BY <1>1, <2>1, <2>2, LotKept
<1> QED BY <1>1, <1>2, <1>3, <1>4, <1>5, <1>6, <1>7 DEF Even

(* A partial take-profit, but for its booking. *)
LEMMA PartialTpEven ==
  ASSUME BookInv, PromiseInv', TpTooSmall \/ TpMarket \/ TpCancel
  PROVE  Even
<1> USE DEF dbVars, venueVars
<1>1. /\ PromiseInv /\ local \in Row /\ Carried /\ Half \in Nat /\ Gone \in Nat
      /\ TpRow.side = local.side /\ TpRow.qty = local.qty - Half /\ closed \in Nat
  BY PromiseTypes, TpRowFacts, GoneType DEF BookInv, PromiseInv, StopInv, TypeInv, TypeOK
<1>2. CASE TpTooSmall
  <2>1. /\ local'.state = local.state /\ local'.side = local.side /\ local'.qty = local.qty
    BY <1>1, <1>2 DEF TpTooSmall, Row
  <2> QED BY <1>2, <2>1, QuietEven DEF TpTooSmall, Deciding, Untouched
<1>3. CASE TpMarket
  <2>1. PICK filled \in 0 .. Half :
          /\ MarketClose(Half, filled)
          /\ IF filled = 0 THEN Goto("hold") ELSE Goto("tpBook")
    BY <1>3 DEF TpMarket
  <2>2. pc' \in {"hold", "tpBook"} BY <2>1 DEF Goto
  <2>3. Bought /\ Untouched /\ Untouched' /\ local' = local /\ pending' = pending
        /\ booked' = booked
    BY <1>3, <2>2 DEF TpMarket, Deciding, Managed, Bought, Untouched
  <2> QED BY <1>1, <2>1, <2>2, <2>3, CloseGone
<1>4. CASE TpCancel
  <2>1. /\ pc = "tpCancel" /\ GoPlace(TpRow, TpRow.sl, FALSE, "hold") /\ net' = net
        /\ local' = local /\ pending' = pending /\ booked' = booked /\ closed' = closed
    BY <1>4 DEF TpCancel
  <2>2. pc' = "place" /\ op'.row = TpRow BY <2>1 DEF GoPlace, NoOp
  <2>3. Bought BY <1>1, <2>1 DEF Carried, BoughtSteps
  <2>4. Gone' = Gone BY <1>1, <2>1, <2>2, <2>3 DEF Gone, Shown, InHand, Carrying
  <2>5. OneLot' BY <1>1, <2>1, <2>2, LivePositionAssumption DEF BookInv, OneLot, Row
  <2> QED BY <1>1, <2>1, <2>2, <2>4, <2>5 DEF Even
<1> QED BY <1>2, <1>3, <1>4

(* A close, but for its booking. *)
LEMMA CloseEven ==
  ASSUME BookInv, PromiseInv', Close /\ ~CloseBook
  PROVE  Even
<1> USE DEF dbVars, venueVars
<1>1. /\ PromiseInv /\ local \in Row /\ local.qty \in Nat /\ (pc \in BoughtSteps => Bought)
  BY PromiseTypes DEF BookInv, Carried
<1>2. ASSUME NEW rev, StartClose(rev) PROVE Even
  <2>1. pc' \in {"closeCancel", "closeMarket"} BY <1>2 DEF StartClose
  <2> QED BY <1>2, <2>1, QuietEven DEF StartClose, Deciding, Untouched
<1>3. CASE CloseCancel
  <2>1. pc' \in {"closeMarket", "rest"} BY <1>3 DEF CloseCancel, Goto
  <2> QED BY <1>3, <2>1, QuietEven DEF CloseCancel, Untouched
<1>4. CASE CloseMarket
  <2>1. PICK filled \in 0 .. local.qty :
          /\ MarketClose(local.qty, filled)
          /\ \/ pc' = "closeBook" \/ GoPlace(local, local.sl, FALSE, "rest") \/ Goto("rest")
    BY <1>4 DEF CloseMarket
  <2>2. pc' \in {"closeBook", "rest"} \/ (pc' = "place" /\ op'.row = local)
    BY <2>1 DEF GoPlace, NoOp, Goto
  <2>3. Bought /\ Untouched /\ local' = local /\ pending' = pending /\ booked' = booked
    BY <1>1, <1>4 DEF CloseMarket, BoughtSteps, Untouched
  <2> QED BY <1>1, <2>1, <2>2, <2>3, CloseGone DEF Untouched
<1> QED BY <1>2, <1>3, <1>4 DEF Close, StrategyClose, ManualClose

(* A trailing update. *)
LEMMA TrailEven ==
  ASSUME BookInv, PromiseInv', (\E level \in Levels : Trail(level)) \/ TrailCancel \/ TrailVerify
  PROVE  Even
<1> USE DEF dbVars, venueVars
<1>1. /\ PromiseInv /\ StopInv /\ local \in Row /\ op \in Op /\ op.row \in Row /\ Carried
      /\ closed \in Nat /\ Gone \in Nat
  BY PromiseTypes, GoneType DEF BookInv, PromiseInv, StopInv, TypeInv, TypeOK
<1>2. pc \in {"trailCancel", "trailVerify"} =>
        Bought /\ op.row.qty = local.qty /\ op.row.side = local.side
  BY <1>1 DEF StopInv, MovesTracked, Carried, BoughtSteps
<1>3. ASSUME NEW level \in Levels, Trail(level) PROVE Even
  <2> DEFINE row == [TickRow EXCEPT !.sl = level]
  <2>1. /\ Bought /\ pc \in {"decide", "hold"} /\ local' = local /\ net' = net
        /\ closed' = closed /\ pending' = pending /\ booked' = booked
        /\ IF row.slId = 0 THEN GoPlace(row, local.sl, FALSE, "rest")
           ELSE pc' = "trailCancel" /\ op' = [NoOp EXCEPT !.row = row]
    BY <1>3 DEF Trail, Managed, Bought
  <2>2. TickRow \in Row BY <1>1 DEF TickRow
  <2>3. TickRow.side = local.side /\ TickRow.qty = local.qty
    BY <1>1, <2>1 DEF TickRow, StopInv, DecidesAfresh, HoldsSameStop, SameStop, Carried
  <2>4. row.side = local.side /\ row.qty = local.qty BY <2>2, <2>3 DEF Row
  <2> HIDE DEF row
  <2>5. CASE row.slId = 0 BY <2>1, <2>4, <2>5, PlaceEven DEF Untouched
  <2>6. CASE row.slId # 0 BY <2>1, <2>6, QuietEven DEF Untouched
  <2> QED BY <2>5, <2>6
<1>4. CASE TrailCancel
  <2>1. /\ pc = "trailCancel" /\ local' = local /\ net' = net /\ closed' = closed
        /\ pending' = pending /\ booked' = booked
        /\ GoPlace(op.row, local.sl, TRUE, "rest") \/ pc' = "trailVerify"
    BY <1>4 DEF TrailCancel
  <2>2. CASE GoPlace(op.row, local.sl, TRUE, "rest")
    BY <1>2, <2>1, <2>2, PlaceEven DEF Untouched
  <2>3. CASE pc' = "trailVerify" BY <2>1, <2>3, QuietEven DEF Untouched
  <2> QED BY <2>1, <2>2, <2>3
<1>5. CASE TrailVerify
  <2>1. /\ pc = "trailVerify" /\ pc' = "save" /\ local' = local /\ net' = net
        /\ closed' = closed /\ pending' = pending /\ booked' = booked
    BY <1>5 DEF TrailVerify
  <2>2. op'.row.side = op.row.side /\ op'.row.qty = op.row.qty
    <3>1. CASE op' = [op EXCEPT !.row.sl = local.sl] BY <1>1, <3>1 DEF Op, Row
    <3>2. CASE op' = [op EXCEPT !.row.sl = local.sl, !.row.slId = 0]
      BY <1>1, <3>2 DEF Op, Row
    <3> QED BY <1>5, <3>1, <3>2 DEF TrailVerify
  <2>3. Gone' <= Gone BY <1>1, <1>2, <2>1, <2>2, PlaceGone DEF Untouched
  <2>4. Gone' \in Nat BY GoneTypeNext
  <2>5. OneLot' BY <1>2, <2>1, <2>2 DEF BookInv, OneLot
  <2> QED BY <1>1, <2>1, <2>3, <2>4, <2>5 DEF Even
<1> QED BY <1>3, <1>4, <1>5

(* An entry: the row on its way shows what has filled, and nothing is closed. *)
LEMMA EntryEven ==
  ASSUME BookInv, PromiseInv', Untouched, ~Bought, net = 0, NEW side \in Sides, NEW mode,
         SendEntry(side, mode)
  PROVE  Even
<1> USE DEF dbVars
<1>1. PromiseInv /\ Calm /\ closed \in Nat /\ Gone = 0 /\ net \in Int
  BY PromiseTypes
     DEF BookInv, PromiseInv, StopInv, TypeInv, TypeOK, Gone, Untouched, Carrying
<1>2. local' = local /\ pending' = pending /\ booked' = booked BY DEF SendEntry
<1>3. CASE EntryFilled(side, mode, Lot)
  <2> DEFINE row == EntryRow(side, mode, Lot)
  <2>1. row.side = side /\ row.qty = Lot BY DEF EntryRow
  <2>2. GoPlace(row, row.sl, FALSE, "rest") /\ Increase(side, Lot) BY <1>3 DEF EntryFilled
  <2> HIDE DEF row
  <2>3. pc' = "place" /\ op'.row = row BY <2>2 DEF GoPlace, NoOp
  <2>4. Amount(side, net') = Lot
    BY <2>2, LivePositionAssumption DEF Increase, Delta, Amount, Sides
  <2>5. closed' = closed
    BY <1>1, <2>2, LivePositionAssumption DEF Increase, Least, Held
  <2>6. Gone' = 0
    BY <2>1, <2>3, <2>4, LivePositionAssumption DEF Gone, Shown, InHand, Carrying
  <2>7. \A s \in Sides : Amount(s, net') <= Lot
    BY <2>2, LivePositionAssumption DEF Increase, Delta, Amount, Sides
  <2>8. OneLot'
    BY <1>2, <2>1, <2>3, <2>7, LivePositionAssumption DEF BookInv, OneLot
  <2> QED BY <1>1, <1>2, <2>3, <2>5, <2>6, <2>8 DEF Even
<1>4. CASE EntryRefused(side) /\ Goto("rest")
  BY <1>2, <1>4, QuietEven DEF EntryRefused, Goto, Untouched
<1>5. (\A qty : ~EntryPartial(side, mode, qty)) /\ ~EntryLate(side)
  BY <1>1, NothingDisturbs DEF EntryPartial, EntryLate
<1> QED BY <1>3, <1>4, <1>5 DEF SendEntry

-----------------------------------------------------------------------------
(* The steps that queue or book *)

(* The units of a row whose position is gone wait in the queue.              *)
LEMMA QueueBooks ==
  ASSUME BookInv, PromiseInv', Allows, FoundFlat \/ PollFilled
  PROVE  Books
<1> USE DEF dbVars, venueVars
<1>1. /\ PromiseInv /\ RowTrue /\ local \in Row /\ local.qty \in Nat /\ net \in Int
  BY PromiseTypes DEF BookInv
<1>2. /\ Bought /\ Untouched /\ net = 0 /\ net' = net /\ closed' = closed
      /\ booked' = booked /\ pc' \in {"flatSweep", "confirm"}
      /\ \E then : QueueClosure(then)
  <2>1. CASE FoundFlat BY <2>1 DEF FoundFlat, Bought, Untouched, AtReconcile
  <2>2. CASE PollFilled
    <3>1. pc = "poll" /\ local.slId # 0 /\ stops[local.slId].st = "filled"
      BY <2>2 DEF PollFilled, Tracked
    <3>2. Bought BY <3>1, PromiseTypes, <1>1 DEF Carried, BoughtSteps
    <3>3. net = 0 BY <1>1, <3>1, <3>2 DEF RowTrue, Guarded
    <3> QED BY <2>2, <3>1, <3>2, <3>3 DEF PollFilled, Untouched
  <2> QED BY <2>1, <2>2
<1>3. pending = {} BY <1>1, <1>2 DEF RowTrue
<1>4. /\ pending' = {ClosureOf(local)} /\ local' = IdleRow /\ op'.row = local
  BY <1>2, <1>3 DEF QueueClosure, NoOp
<1>5. ClosureOf(local) \in Closure /\ ClosureOf(local).qty = local.qty
  BY <1>1, ClosureType DEF ClosureOf
<1>6. Queued = 0 BY <1>3, QueuedUnits
<1>7. Queued' = local.qty BY <1>4, <1>5, QueuedUnitsNext
<1>8. Gone = local.qty
  BY <1>1, <1>2, AmountType DEF Gone, Shown, InHand, Untouched, Carrying
<1>9. Gone' = 0 BY <1>2, <1>4 DEF Gone, Carrying, Bought, IdleRow
<1>10. BooksBalance'
  BY <1>2, <1>6, <1>7, <1>8, <1>9, BookTypes DEF BookInv, BooksBalance, Allows
<1>11. QueueOne' /\ ConfirmsQueued' BY <1>4, <1>5 DEF QueueOne, ConfirmsQueued
<1>12. OneLot' BY <1>1, <1>2, <1>4, LotStays DEF IdleRow, Carrying
<1> QED BY <1>10, <1>11, <1>12 DEF Books

(* Booking q units adds no more than them. *)
LEMMA BookMost ==
  ASSUME booked \in Nat, NEW q \in Nat, Book(q)
  PROVE  booked' \in Nat /\ booked' <= booked + q
BY BookType, LivePositionAssumption DEF Book, Least, BookCap, Faults

(* A confirmed close leaves the queue for the books.                         *)
LEMMA ConfirmedBooks ==
  ASSUME BookInv, PromiseInv', Allows, Confirmed
  PROVE  Books
<1> USE DEF dbVars, venueVars
<1>1. /\ PromiseInv /\ op.row \in Row /\ op.row.qty \in Nat /\ booked \in Nat
      /\ op.then \in {"rest", "decide", "hold", "retry"}
  BY PromiseTypes DEF BookInv, PromiseInv, StopInv, TypeInv, TypeOK, Row
<1>2. /\ pc = "confirm" /\ Book(op.row.qty) /\ pending' = pending \ {ClosureOf(op.row)}
      /\ pc' = op.then /\ local' = local /\ net' = net /\ closed' = closed
  BY DEF Confirmed, Goto
<1>3. ClosureOf(op.row) \in pending BY <1>2 DEF BookInv, ConfirmsQueued
<1>4. ClosureOf(op.row) \in Closure /\ ClosureOf(op.row).qty = op.row.qty
  BY <1>1, ClosureType DEF ClosureOf
<1>5. pending = {ClosureOf(op.row)} BY <1>3 DEF BookInv, QueueOne
<1>6. Queued = op.row.qty BY <1>4, <1>5, QueuedUnits
<1>7. pending' = {} /\ Queued' = 0 BY <1>2, <1>5, QueuedUnitsNext
<1>8. Gone' <= Gone BY <1>1, <1>2, RestGone DEF Untouched
<1>9. booked' <= booked + op.row.qty BY <1>1, <1>2, BookMost
<1>10. BooksBalance'
  BY <1>1, <1>2, <1>6, <1>7, <1>8, <1>9, BookTypes DEF BookInv, BooksBalance, Allows
<1>11. QueueOne' /\ ConfirmsQueued' BY <1>1, <1>2, <1>7 DEF QueueOne, ConfirmsQueued
<1>12. OneLot' BY <1>1, <1>2 DEF BookInv, OneLot, Carrying
<1> QED BY <1>10, <1>11, <1>12 DEF Books

(* What is booked of a row is taken off it, there or in the row to be saved. *)
LEMMA LegBooks ==
  ASSUME BookInv, PromiseInv', Allows, NEW q \in Nat, Book(q), pending' = pending,
         closed' = closed, pc' \notin {"flatSweep", "confirm"}, Gone' + q = Gone, OneLot'
  PROVE  Books
<1>1. Queued' = Queued BY QueuedWeighs, QueuedWeighsNext
<1>2. booked' <= booked + q BY BookTypes, BookMost
<1>3. BooksBalance' BY <1>1, <1>2, BookTypes DEF BookInv, BooksBalance, Allows
<1> QED BY <1>3 DEF BookInv, Books, QueueOne, ConfirmsQueued

(* The leg of a partial take-profit: half of the row. *)
LEMMA TpBooks ==
  ASSUME BookInv, PromiseInv', Allows, TpBook
  PROVE  Books
<1> USE DEF dbVars, venueVars
<1>1. /\ PromiseInv /\ local \in Row /\ local.qty \in Nat /\ Half \in Nat
      /\ TpRow.side = local.side /\ TpRow.qty = local.qty - Half
      /\ Amount(local.side, net) \in Nat
  BY PromiseTypes, TpRowFacts, GoneType DEF BookInv
<1>2. /\ pc = "tpBook" /\ Book(Half) /\ local' = local /\ pending' = pending /\ net' = net
      /\ closed' = closed
      /\ pc' = "tpCancel" \/ (pc' = "save" /\ op'.row = TpRow)
  BY DEF TpBook, Goto, NoOp
<1>3. Bought BY <1>1, <1>2, PromiseTypes DEF Carried, BoughtSteps
<1>4. Gone = local.qty - Amount(local.side, net)
  BY <1>2, <1>3 DEF Gone, Shown, InHand, Carrying
<1>5. Gone' = local.qty - Half - Amount(local.side, net)
  <2>1. CASE pc' = "tpCancel"
    BY <1>2, <1>3, <2>1 DEF Gone, Shown, InHand, Carrying, Bought, Half
  <2>2. CASE pc' = "save" /\ op'.row = TpRow
    BY <1>1, <1>2, <2>2 DEF Gone, Shown, InHand, Carrying
  <2> QED BY <1>2, <2>1, <2>2
<1>6. Gone' + Half = Gone BY <1>1, <1>4, <1>5
<1>7. pc' \notin {"flatSweep", "confirm"} BY <1>2
<1>8. OneLot'
  <2>1. Carrying' => op'.row.qty <= local.qty BY <1>1, <1>2 DEF Carrying
  <2>2. Carrying' => op'.row.qty <= Lot
    BY <1>1, <1>2, <2>1, LivePositionAssumption DEF BookInv, OneLot, Carrying
  <2> QED BY <1>1, <1>2, <2>2, LotStays
<1> QED BY <1>1, <1>2, <1>6, <1>7, <1>8, LegBooks

(* The leg of a close: what the market order has filled. *)
LEMMA CloseBooks ==
  ASSUME BookInv, PromiseInv', Allows, CloseBook
  PROVE  Books
<1> USE DEF dbVars, venueVars
<1>1. /\ PromiseInv /\ local \in Row /\ local.qty \in Nat /\ op.got \in Nat /\ net \in Int
      /\ op.got <= local.qty
  BY PromiseTypes
     DEF BookInv, PromiseInv, StopInv, TypeInv, BooksAtMostRow, CloseBook, Op
<1>2. /\ pc = "closeBook" /\ Book(op.got) /\ pending' = pending /\ net' = net
      /\ closed' = closed
  BY DEF CloseBook
<1>3. Bought /\ net = 0 BY <1>1, <1>2, PromiseTypes DEF Carried, BoughtSteps
<1>4. \A side : Amount(side, net) = 0 BY <1>1, <1>3, AmountType
<1>5. Gone = local.qty BY <1>1, <1>2, <1>3, <1>4 DEF Gone, Shown, InHand, Carrying
<1>6. CASE op.got = local.qty
  <2>1. local' = IdleRow /\ pc' \in {"reverse", "rest"} BY <1>6 DEF CloseBook, Goto
  <2>2. Gone' = 0 BY <2>1 DEF Gone, Carrying, Bought, IdleRow
  <2>3. OneLot' BY <1>1, <1>2, <2>1, LotStays DEF IdleRow, Carrying
  <2> QED BY <1>1, <1>2, <1>5, <1>6, <2>1, <2>2, <2>3, LegBooks
<1>7. CASE op.got # local.qty
  <2> DEFINE rest == [local EXCEPT !.qty = @ - op.got]
             row == IF local.side = "SHORT" THEN rest
                    ELSE [rest EXCEPT !.mode = "strategy", !.ptp = FALSE]
  <2>1. GoPlace(row, row.sl, FALSE, "rest") /\ local' = local BY <1>7 DEF CloseBook
  <2>2. rest.qty = local.qty - op.got BY <1>1 DEF Row
  <2>3. row.qty = local.qty - op.got
    <3>1. CASE local.side = "SHORT" BY <2>2, <3>1
    <3>2. CASE local.side # "SHORT" BY <1>1, <2>2, <3>2 DEF Row
    <3> QED BY <3>1, <3>2
  <2> HIDE DEF row, rest
  <2>4. pc' = "place" /\ op'.row = row BY <2>1 DEF GoPlace, NoOp
  <2>5. Gone' = local.qty - op.got
    BY <1>1, <1>2, <1>4, <2>3, <2>4 DEF Gone, Shown, InHand, Carrying
  <2>6. Gone' + op.got = Gone BY <1>1, <1>5, <2>5
  <2>7. pc' \notin {"flatSweep", "confirm"} BY <2>4
  <2>8. OneLot'
    BY <1>1, <1>2, <2>1, <2>3, <2>4, LivePositionAssumption DEF BookInv, OneLot
  <2> QED BY <1>1, <1>2, <2>6, <2>7, <2>8, LegBooks
<1> QED BY <1>6, <1>7

-----------------------------------------------------------------------------
(* A step spends one fault or none. *)
LEMMA FaultSpent ==
  ASSUME Next
  PROVE  left' = left \/ \E fault \in Faults : Spend(fault)
<1> USE DEF Faults
<1>1. CASE Venue
  BY <1>1 DEF Venue, StopFires, StopFiresPartly, OutsideCancel, LateFill, OutsideOpen,
          OutsideClose
<1>2. CASE OrderHelpers
  BY <1>2 DEF OrderHelpers, PlaceStop, PlaceNothing, PlaceFails, PlaceLanded, SaveRow
<1>3. CASE Reconcile
  BY <1>3 DEF Reconcile, Adopt, FoundFlat, BothFlat, SideMismatch, Synced
<1>4. CASE ReconcileSteps
  BY <1>4 DEF ReconcileSteps, ReconcileFails, FlatSweep, IdleSweep, RetryNext, Confirmed,
          NotConfirmed, SweepOrphans
<1>5. CASE BeginTick \/ Poll \/ Ensure \/ PartCancel \/ EndTick \/ Handoff
  BY <1>5 DEF BeginTick, Poll, PollUntracked, PollFails, PollLive, PollFilled, PollPartial,
         PollCancelled, Ensure, PartCancel, EndTick, Handoff, Cancelled, NotCancelled,
         SweepOrphans
<1>6. CASE PartialTp \/ Close
  BY <1>6 DEF PartialTp, TpTooSmall, TpMarket, TpBook, TpCancel, Close, StrategyClose,
         ManualClose, StartClose, CloseCancel, CloseMarket, CloseBook, MarketClose,
         Cancelled, NotCancelled
<1>7. CASE \/ (\E level \in Levels : Trail(level)) \/ TrailCancel \/ TrailVerify
           \/ ReverseBlocked \/ Crash
  BY <1>7 DEF Trail, TrailCancel, TrailVerify, ReverseBlocked, Crash, Cancelled, NotCancelled
<1>8. ASSUME NEW side, NEW mode, SendEntry(side, mode)
      PROVE  left' = left \/ \E fault \in Faults : Spend(fault)
  BY <1>8 DEF SendEntry, EntryPartial, EntryRefused, EntryLate
<1>9. CASE \/ \E side \in Sides, mode \in Modes : StrategyEntry(side) \/ ManualEntry(side, mode)
           \/ ReverseEntry
  BY <1>8, <1>9 DEF StrategyEntry, ManualEntry, ReverseEntry
<1>10. "strategy" \in Modes BY DEF Modes
<1> QED BY <1>1, <1>2, <1>3, <1>4, <1>5, <1>6, <1>7, <1>9, <1>10 DEF Next, Engine, TickSteps

(* A fault that is spent is one less of its kind: a crash excuses one lot.   *)
LEMMA MoreAllowed ==
  ASSUME BookInv, [Next]_vars
  PROVE  Crashes' \in Nat /\ Allows /\ (Crash => Allowed' = Allowed + Lot)
<1>1. left \in [Faults -> Nat] /\ Crashes \in Nat /\ Lot \in Nat /\ Budget["crash"] \in Nat
  BY PromiseTypes, LivePositionAssumption DEF BookInv, Faults
<1>2. left' = left \/ \E fault \in Faults : Spend(fault) BY FaultSpent DEF vars
<1>3. ASSUME NEW fault \in Faults, Spend(fault)
      PROVE  left'["crash"] \in {left["crash"], left["crash"] - 1}
  BY <1>1, <1>3 DEF Spend, Faults
<1>4. Crashes' = Crashes \/ Crashes' = Crashes + 1
  <2>1. left["crash"] \in Nat BY <1>1 DEF Faults
  <2> QED BY <1>1, <1>2, <1>3, <2>1 DEF Crashes
<1>5. Crash => Crashes' = Crashes + 1
  <2>1. left["crash"] \in Nat BY <1>1 DEF Faults
  <2> QED BY <1>1, <2>1 DEF Crash, Spend, Crashes, Faults
<1>6. Lot * (Crashes + 1) = Lot * Crashes + Lot /\ Lot * Crashes \in Nat
  BY <1>1
<1>7. Allowed' = Lot * Crashes' BY DEF Allowed
<1> QED BY <1>1, <1>4, <1>5, <1>6, <1>7 DEF Allowed, Allows

(* A crash forgets what the engine had in hand: the row on disk shows at     *)
(* most one lot that is booked already or gone.                             *)
LEMMA CrashBooks ==
  ASSUME BookInv, PromiseInv', Allows, Crash, Allowed' = Allowed + Lot
  PROVE  Books
<1> USE DEF dbVars, venueVars
<1>1. /\ pc' = "boot" /\ local' = local /\ net' = net /\ pending' = pending
      /\ booked' = booked /\ closed' = closed
  BY DEF Crash, Goto
<1>2. local.qty \in Nat /\ net \in Int /\ local.qty <= Lot /\ Lot \in Nat
  BY PromiseTypes, LivePositionAssumption DEF BookInv, OneLot
<1>3. Amount(local.side, net) \in Nat BY <1>2, AmountType
<1>4. Gone' <= Lot BY <1>1, <1>2, <1>3 DEF Gone, Shown, InHand, Carrying
<1>5. Queued' = Queued BY <1>1, QueuedWeighs, QueuedWeighsNext
<1>6. BooksBalance' BY <1>1, <1>2, <1>4, <1>5, BookTypes DEF BookInv, BooksBalance, Allows
<1>7. OneLot' BY <1>1 DEF BookInv, OneLot, Carrying
<1> QED BY <1>1, <1>6, <1>7 DEF BookInv, Books, QueueOne, ConfirmsQueued

(* Every step keeps the books balanced. *)
LEMMA BookInductive == BookInv /\ [Next]_vars => BookInv'
<1> SUFFICES ASSUME BookInv, [Next]_vars PROVE BookInv'
  OBVIOUS
<1>1. PromiseInv /\ PromiseInv' BY PromiseInductive DEF BookInv
<1>2. Crashes' \in Nat /\ Allows BY MoreAllowed
<1> SUFFICES Books
  BY <1>1, <1>2 DEF BookInv, Books
<1>3. Even => Books BY <1>1, <1>2, EvenBooks
<1>4. CASE Venue BY <1>1, <1>3, <1>4, VenueEven
<1>5. CASE OrderHelpers BY <1>1, <1>3, <1>5, HelpersEven
<1>6. CASE Reconcile BY <1>1, <1>2, <1>3, <1>6, ReconcileEven, QueueBooks DEF Reconcile
<1>7. CASE ReconcileSteps
  BY <1>1, <1>2, <1>3, <1>7, ReconcileStepsEven, ConfirmedBooks DEF ReconcileSteps
<1>8. CASE BeginTick \/ Poll \/ Ensure \/ PartCancel
  BY <1>1, <1>2, <1>3, <1>8, PollEven, QueueBooks
<1>9. CASE EndTick \/ Handoff BY <1>1, <1>3, <1>9, TickEndEven
<1>10. CASE PartialTp BY <1>1, <1>2, <1>3, <1>10, PartialTpEven, TpBooks DEF PartialTp
<1>11. CASE Close BY <1>1, <1>2, <1>3, <1>11, CloseEven, CloseBooks
<1>12. CASE (\E level \in Levels : Trail(level)) \/ TrailCancel \/ TrailVerify
  BY <1>1, <1>3, <1>12, TrailEven
<1>13. ASSUME NEW side \in Sides, NEW mode \in Modes,
              StrategyEntry(side) \/ ManualEntry(side, mode)
       PROVE  Books
  <2>1. ~Bought /\ net = 0 BY <1>1, <1>13, EntersFlat
  <2>2. Untouched BY <1>13 DEF StrategyEntry, ManualEntry, Deciding, Untouched
  <2> QED BY <1>1, <1>3, <1>13, <2>1, <2>2, EntryEven DEF StrategyEntry, ManualEntry
<1>14. CASE ReverseEntry
  <2>1. ~Bought /\ net = 0 BY <1>1, <1>14, EntersFlat
  <2>2. Untouched BY <1>14 DEF ReverseEntry, Untouched
  <2>3. Opposite(op.row.side) \in Sides BY DEF Opposite, Sides
  <2> QED BY <1>1, <1>3, <1>14, <2>1, <2>2, <2>3, EntryEven DEF ReverseEntry
<1>15. CASE ReverseBlocked
  BY <1>1, <1>3, <1>15, QuietEven DEF ReverseBlocked, Goto, dbVars, venueVars, Untouched
<1>16. CASE Crash BY <1>1, <1>2, <1>16, MoreAllowed, CrashBooks
<1>17. CASE UNCHANGED vars
  <2>1. Gone' = Gone
    BY <1>17 DEF vars, Gone, Shown, InHand, Carrying, Bought, Half
  <2>2. OneLot' BY <1>17 DEF vars, BookInv, OneLot, Carrying
  <2>3. Even
    BY <1>1, <1>17, <2>1, <2>2, BookTypes DEF vars, Even, BookInv, ConfirmsQueued
  <2> QED BY <1>3, <2>3
<1>18. "strategy" \in Modes BY DEF Modes
<1> QED BY <1>4, <1>5, <1>6, <1>7, <1>8, <1>9, <1>10, <1>11, <1>12, <1>13, <1>14, <1>15,
           <1>16, <1>17, <1>18 DEF Next, Engine, TickSteps

(* At the first start nothing is booked, queued or closed. *)
LEMMA InitBooks == Undisturbed /\ Init => BookInv
<1> SUFFICES ASSUME Undisturbed, Init PROVE BookInv
  OBVIOUS
<1>1. PromiseInv BY InitPromise
<1>2. pending = {} /\ Queued = 0 BY QueuedUnits DEF Init
<1>3. Gone = 0 BY DEF Init, IdleRow, Gone, Carrying, Bought
<1>4. Lot \in Nat /\ Budget["crash"] \in Nat BY LivePositionAssumption DEF Faults
<1>5. Crashes = 0 BY <1>4 DEF Init, Crashes
<1>6. BooksBalance BY <1>2, <1>3, <1>4, <1>5 DEF Init, BooksBalance, Allowed
<1>7. OneLot BY <1>4 DEF Init, IdleRow, OneLot, Amount, Carrying
<1> QED BY <1>1, <1>2, <1>5, <1>6, <1>7 DEF Init, BookInv, QueueOne, ConfirmsQueued

(* No close is invented: closed trades and the queue together hold no more   *)
(* units than the venue has closed, whichever calls and answers fail; only  *)
(* a crash may book units twice, and none more than the lot of a position.  *)
THEOREM NothingInvented == Undisturbed /\ Safe => []BookedWithinClosed
<1>1. BookInv => BookedWithinClosed
  <2> SUFFICES ASSUME BookInv PROVE BookedWithinClosed OBVIOUS
  <2>1. /\ booked \in Nat /\ closed \in Nat /\ Queued \in Nat /\ Gone \in Nat
        /\ Lot * Crashes \in Nat
    BY GoneType, QueuedType, LivePositionAssumption
       DEF BookInv, PromiseInv, StopInv, TypeInv, TypeOK
  <2> QED BY <2>1 DEF BookInv, BooksBalance, BookedWithinClosed, Allowed
<1> QED BY <1>1, BookInductive, InitBooks, PTL DEF Safe
=============================================================================
