----------------------- MODULE LivePositionStopProofs -----------------------
(* The stop a row names is the stop in force, and the recorded stop level    *)
(* only moves toward profit within one position, for every lot, level, bound  *)
(* and fault budget.                                                          *)
EXTENDS LivePositionProofs

(* What the engine carries between two steps that write or read a stop id:   *)
(* the row about to be saved already matches its stop; a tick goes on with  *)
(* the row on disk or a copy that names the same stop; a trailing update    *)
(* still names the stop it is about to give up.                             *)
SameStop(row) ==
  /\ row.slId = local.slId /\ row.side = local.side
  /\ row.sl = local.sl /\ row.mode = local.mode

SavesMatching == pc = "save" => Matches(op.row, stops)
DecidesAfresh == pc = "decide" => op.row.state = "idle"
HoldsSameStop == pc = "hold" => op.row.state = "idle" \/ SameStop(op.row)
MovesTracked ==
  pc \in {"trailCancel", "trailVerify"} =>
    /\ Managed
    /\ op.row.slId = local.slId /\ op.row.side = local.side

StopInv ==
  /\ TypeInv /\ TrackedStopMatches
  /\ SavesMatching /\ DecidesAfresh /\ HoldsSameStop /\ MovesTracked

-----------------------------------------------------------------------------
(* What a step does to a stop that a row names: it may be over, it is never  *)
(* forgotten and never becomes another order.                               *)
Keeps(i) ==
  /\ stops[i].st # "none" => stops'[i].st # "none"
  /\ stops'[i].st = "live" =>
       /\ stops[i].st = "live"
       /\ stops'[i].side = stops[i].side /\ stops'[i].lvl = stops[i].lvl
Named == Ids \cap {local.slId, op.row.slId}
KeepsNamed == \A i \in Named : Keeps(i)

(* A row whose stop is kept still matches it. *)
LEMMA KeptMatches ==
  ASSUME NEW row \in Row, row.slId # 0 => Keeps(row.slId), Matches(row, stops)
  PROVE  Matches(row, stops')
BY DEF Keeps, Matches

(* The id of a row is 0 or the id of a stop order. *)
LEMMA RowIds ==
  ASSUME NEW row \in Row, row.slId # 0
  PROVE  row.slId \in Ids
<1>1. row.slId \in 0 .. MaxStops BY DEF Row
<1> QED BY <1>1, LivePositionAssumption DEF Ids

(* A stop that is over and named is remembered by how it ended. *)
LEMMA OverKeeps ==
  ASSUME stops \in [Ids -> Stop], NEW i \in Ids, NEW how \in {"filled", "cancelled"},
         stops' = [stops EXCEPT ![i] = Over(i, how)]
  PROVE  KeepsNamed
<1> SUFFICES ASSUME NEW j \in Named PROVE Keeps(j)
  BY DEF KeepsNamed
<1>1. CASE j = i
  BY <1>1 DEF Keeps, Over, NoStop, Named
<1>2. CASE j # i
  BY <1>2 DEF Keeps, Named
<1> QED BY <1>1, <1>2

(* A cancel_order call keeps every named stop. *)
LEMMA CancelKeeps ==
  ASSUME TypeInv, Cancelled \/ NotCancelled
  PROVE  KeepsNamed
<1> USE DEF TypeInv, TypeOK
<1>1. CASE Cancelled
  <2>1. local.slId \in Ids BY <1>1, RowIds DEF Cancelled
  <2> QED BY <1>1, <2>1, OverKeeps DEF Cancelled
<1>2. CASE NotCancelled
  BY <1>2 DEF NotCancelled, KeepsNamed, Keeps
<1> QED BY <1>1, <1>2

(* A sweep of orphans keeps every named stop. *)
LEMMA SweepKeeps ==
  ASSUME TypeInv, NEW side, NEW tracked, SweepOrphans(side, tracked)
  PROVE  KeepsNamed
BY DEF TypeInv, TypeOK, SweepOrphans, KeepsNamed, Keeps, Named, Over, NoStop

(* The venue accepts a new stop under an id no row names. *)
LEMMA AcceptKeeps ==
  ASSUME TypeInv, NEW row \in Row, NEW i \in Ids, NextId(i), Accept(row, i)
  PROVE  KeepsNamed
BY DEF TypeInv, TypeOK, NextId, FreeIds, Accept, KeepsNamed, Keeps, Named

-----------------------------------------------------------------------------
(* Most steps leave the engine where nothing is asked of what it carries.    *)
Settled ==
  \/ pc' \notin {"save", "decide", "hold", "trailCancel", "trailVerify"}
  \/ pc' \in {"decide", "hold"} /\ op'.row.state = "idle"

(* A step that ends settled only has to leave a matching row. *)
LEMMA SettledStep ==
  ASSUME TypeInv', Matches(local', stops'), Settled
  PROVE  StopInv'
BY DEF StopInv, TrackedStopMatches, SavesMatching, DecidesAfresh, HoldsSameStop,
       MovesTracked, Settled

(* A step that ends settled, keeps the row and keeps the named stops. *)
LEMMA QuietStep ==
  ASSUME StopInv, TypeInv', KeepsNamed, local' = local, Settled
  PROVE  StopInv'
<1>1. local \in Row BY DEF StopInv, TypeInv, TypeOK
<1>2. local.slId # 0 => Keeps(local.slId)
  BY <1>1, RowIds DEF KeepsNamed, Named
<1>3. Matches(local, stops) BY DEF StopInv, TrackedStopMatches
<1>4. Matches(local', stops') BY <1>1, <1>2, <1>3, KeptMatches
<1> QED BY <1>4, SettledStep

(* Going to another step with nothing carried over is settled. *)
LEMMA GotoSettled ==
  ASSUME NEW step, step \notin {"save", "trailCancel", "trailVerify"}, Goto(step)
  PROVE  Settled
BY DEF Goto, NoOp, IdleRow, Settled

(* Leaving the stops alone keeps them. *)
LEMMA SameStops ==
  ASSUME stops' = stops
  PROVE  KeepsNamed
BY DEF KeepsNamed, Keeps

(* A row that names no stop matches. *)
LEMMA UnnamedMatches ==
  ASSUME NEW row, NEW orders, row.slId = 0 \/ row.state # "bought" \/ row.mode = "manual"
  PROVE  Matches(row, orders)
BY DEF Matches

(* A step of the venue: the engine and its row do not move. *)
LEMMA FrameStep ==
  ASSUME StopInv, TypeInv', KeepsNamed, local' = local, pc' = pc, op' = op
  PROVE  StopInv'
<1>1. local \in Row /\ op.row \in Row BY DEF StopInv, TypeInv, TypeOK, Op
<1>2. Matches(local, stops')
  <2>1. local.slId # 0 => Keeps(local.slId) BY <1>1, RowIds DEF KeepsNamed, Named
  <2> QED BY <1>1, <2>1, KeptMatches DEF StopInv, TrackedStopMatches
<1>3. pc = "save" => Matches(op.row, stops')
  <2>1. op.row.slId # 0 => Keeps(op.row.slId) BY <1>1, RowIds DEF KeepsNamed, Named
  <2> QED BY <1>1, <2>1, KeptMatches DEF StopInv, SavesMatching
<1>4. TrackedStopMatches' BY <1>2 DEF TrackedStopMatches
<1>5. SavesMatching' BY <1>3 DEF SavesMatching
<1>6. DecidesAfresh' /\ HoldsSameStop' /\ MovesTracked'
  BY DEF StopInv, DecidesAfresh, HoldsSameStop, SameStop, MovesTracked, Managed
<1> QED BY <1>4, <1>5, <1>6 DEF StopInv

-----------------------------------------------------------------------------
(* One lemma per group of actions: StopInv is inductive *)

(* Whatever the venue does, the row still names the stop in force. *)
LEMMA VenueKeepsStops == StopInv /\ TypeInv' /\ Venue => StopInv'
<1> SUFFICES ASSUME StopInv, TypeInv', Venue PROVE StopInv'
  OBVIOUS
<1>1. stops \in [Ids -> Stop] BY DEF StopInv, TypeInv, TypeOK
<1> USE DEF dbVars
<1>2. ASSUME NEW i \in Ids, StopFires(i) PROVE StopInv'
  BY <1>1, <1>2, OverKeeps, FrameStep DEF StopFires
<1>3. ASSUME NEW i \in Ids, StopFiresPartly(i) PROVE StopInv'
  <2>1. KeepsNamed BY <1>1, <1>3 DEF StopFiresPartly, KeepsNamed, Keeps, Named, Stop, LiveStop
  <2> QED BY <1>3, <2>1, FrameStep DEF StopFiresPartly
<1>4. ASSUME NEW i \in Ids, OutsideCancel(i) PROVE StopInv'
  BY <1>1, <1>4, OverKeeps, FrameStep DEF OutsideCancel
<1>5. ASSUME NEW side \in Sides, LateFill(side) \/ OutsideOpen(side) PROVE StopInv'
  BY <1>5, SameStops, FrameStep DEF LateFill, OutsideOpen
<1>6. ASSUME OutsideClose PROVE StopInv'
  BY <1>6, SameStops, FrameStep DEF OutsideClose
<1> QED BY <1>2, <1>3, <1>4, <1>5, <1>6 DEF Venue

(* Placing a stop and saving the row: the id and the level that are saved    *)
(* belong together.                                                         *)
LEMMA OrderHelpersKeepStops == StopInv /\ TypeInv' /\ OrderHelpers => StopInv'
<1> SUFFICES ASSUME StopInv, TypeInv', OrderHelpers PROVE StopInv'
  OBVIOUS
<1> USE DEF dbVars, venueVars
<1>1. TypeInv /\ op.row \in Row /\ local \in Row /\ op.row.sl \in Levels
  BY DEF StopInv, TypeInv, TypeOK, Op, Row
<1>2. ASSUME KeepsNamed, local' = local, op' \in Op, Matches(op'.row, stops'), pc' = "save"
      PROVE  StopInv'
  <2>1. local.slId # 0 => Keeps(local.slId) BY <1>1, <1>2, RowIds DEF KeepsNamed, Named
  <2>2. Matches(local, stops') BY <1>1, <2>1, KeptMatches DEF StopInv, TrackedStopMatches
  <2> QED BY <1>2, <2>2 DEF StopInv, TrackedStopMatches, SavesMatching, DecidesAfresh,
          HoldsSameStop, MovesTracked
<1>3. ASSUME KeepsNamed, local' = local, Unplaced PROVE StopInv'
  <2>1. CASE op.again
    BY <1>3, <2>1, QuietStep DEF Unplaced, Settled
  <2>2. CASE ~op.again
    <3>1. pc' = "save" /\ op' = [op EXCEPT !.row.sl = op.fall, !.row.slId = 0]
      BY <1>3, <2>2 DEF Unplaced
    <3>2. op'.row.slId = 0 /\ op' \in Op
      BY <1>1, <3>1 DEF Op, Row, TypeInv, TypeOK
    <3> QED BY <1>2, <1>3, <3>1, <3>2, UnnamedMatches
  <2> QED BY <2>1, <2>2
<1>4. ASSUME PlaceStop PROVE StopInv'
  <2>1. PICK i \in Ids : NextId(i) /\ Accept(op.row, i) /\ op' = [op EXCEPT !.row.slId = i]
                         /\ pc' = "save"
    BY <1>4 DEF PlaceStop
  <2>2. /\ op'.row.slId = i /\ op'.row.side = op.row.side /\ op'.row.sl = op.row.sl
        /\ op' \in Op
    BY <1>1, <2>1 DEF Op, Row, TypeInv, TypeOK
  <2>3. /\ stops'[i].st = "live" /\ stops'[i].side = op.row.side
        /\ stops'[i].lvl = op.row.sl
    BY <1>1, <2>1 DEF Accept, TypeInv, TypeOK
  <2>4. Matches(op'.row, stops') BY <2>2, <2>3 DEF Matches
  <2>5. KeepsNamed BY <1>1, <2>1, AcceptKeeps
  <2> QED BY <1>2, <1>4, <2>1, <2>2, <2>4, <2>5 DEF PlaceStop
<1>5. ASSUME PlaceNothing \/ PlaceFails PROVE StopInv'
  BY <1>3, <1>5, SameStops DEF PlaceNothing, PlaceFails
<1>6. ASSUME PlaceLanded PROVE StopInv'
  <2>1. KeepsNamed BY <1>1, <1>6, AcceptKeeps DEF PlaceLanded
  <2> QED BY <1>3, <1>6, <2>1 DEF PlaceLanded
<1>7. ASSUME SaveRow PROVE StopInv'
  <2>1. Matches(local', stops') BY <1>7 DEF SaveRow, StopInv, SavesMatching
  <2>2. op.then \notin {"save", "trailCancel", "trailVerify"}
    BY <1>1 DEF TypeInv, TypeOK, Op
  <2>3. Settled BY <1>7, <2>2, GotoSettled DEF SaveRow
  <2> QED BY <2>1, <2>3, SettledStep
<1> QED BY <1>4, <1>5, <1>6, <1>7 DEF OrderHelpers

(* Reconciling: an adopted row names no stop, a row that changes side is the *)
(* owner's own, and a reset row names nothing.                              *)
LEMMA ReconcileKeepsStops ==
  StopInv /\ TypeInv' /\ (Reconcile \/ ReconcileSteps) => StopInv'
<1> SUFFICES ASSUME StopInv, TypeInv', Reconcile \/ ReconcileSteps PROVE StopInv'
  OBVIOUS
<1> USE DEF dbVars, venueVars
<1>1. TypeInv /\ local \in Row /\ Matches(local, stops)
  BY DEF StopInv, TypeInv, TypeOK, TrackedStopMatches
<1>2. op.then \in {"rest", "decide", "hold", "retry"} BY <1>1 DEF TypeInv, TypeOK, Op
<1>3. ASSUME Adopt PROVE StopInv'
  <2>1. local'.slId = 0 BY <1>3 DEF Adopt, IdleRow
  <2> QED BY <1>3, <2>1, UnnamedMatches, GotoSettled, SettledStep DEF Adopt
<1>4. ASSUME FoundFlat PROVE StopInv'
  <2>1. local'.slId = 0 /\ pc' = "flatSweep" BY <1>4 DEF FoundFlat, QueueClosure, IdleRow
  <2> QED BY <2>1, UnnamedMatches, SettledStep DEF Settled
<1>5. ASSUME BothFlat PROVE StopInv'
  BY <1>5, GotoSettled, SameStops, QuietStep DEF BothFlat
<1>6. ASSUME SideMismatch PROVE StopInv'
  <2>1. CASE FollowSide
    <3>1. local'.mode = "manual" BY <1>1, <2>1 DEF FollowSide, Row
    <3> QED BY <1>6, <3>1, UnnamedMatches, GotoSettled, SettledStep DEF SideMismatch
  <2>2. CASE FreezeTrading
    BY <1>6, <2>2, GotoSettled, SameStops, QuietStep DEF SideMismatch, FreezeTrading
  <2> QED BY <1>6, <2>1, <2>2 DEF SideMismatch
<1>7. ASSUME Synced PROVE StopInv'
  <2>1. /\ local'.state = local.state /\ local'.slId = local.slId /\ local'.mode = local.mode
        /\ local'.side = local.side /\ local'.sl = local.sl /\ stops' = stops
    BY <1>1, <1>7 DEF Synced, Row
  <2>2. Matches(local', stops') BY <1>1, <2>1 DEF Matches
  <2> QED BY <1>7, <2>2, GotoSettled, SettledStep DEF Synced
<1>8. ASSUME ReconcileFails PROVE StopInv'
  BY <1>8, GotoSettled, SameStops, QuietStep DEF ReconcileFails
<1>9. ASSUME FlatSweep PROVE StopInv'
  BY <1>1, <1>9, SweepKeeps, QuietStep DEF FlatSweep, Settled
<1>10. ASSUME IdleSweep PROVE StopInv'
  BY <1>1, <1>10, SweepKeeps, GotoSettled, QuietStep DEF IdleSweep
<1>11. ASSUME RetryNext PROVE StopInv'
  <2>1. Settled BY <1>11 DEF RetryNext, Goto, Settled
  <2> QED BY <1>11, <2>1, SameStops, QuietStep DEF RetryNext
<1>12. ASSUME Confirmed PROVE StopInv'
  BY <1>2, <1>12, GotoSettled, SameStops, QuietStep DEF Confirmed
<1>13. ASSUME NotConfirmed PROVE StopInv'
  <2>1. Settled BY <1>2, <1>13, GotoSettled DEF NotConfirmed
  <2> QED BY <1>13, <2>1, SameStops, QuietStep DEF NotConfirmed
<1> QED BY <1>3, <1>4, <1>5, <1>6, <1>7, <1>8, <1>9, <1>10, <1>11, <1>12, <1>13
        DEF Reconcile, ReconcileSteps

(* Polling the stop, placing a missing one, resizing it after a partial fill. *)
LEMMA PollKeepsStops ==
  StopInv /\ TypeInv' /\ (Poll \/ Ensure \/ PartCancel \/ BeginTick) => StopInv'
<1> SUFFICES ASSUME StopInv, TypeInv', Poll \/ Ensure \/ PartCancel \/ BeginTick
             PROVE  StopInv'
  OBVIOUS
<1> USE DEF dbVars, venueVars
<1>1. TypeInv BY DEF StopInv
<1>2. ASSUME BeginTick PROVE StopInv'
  <2>1. Settled BY <1>2, GotoSettled DEF BeginTick
  <2> QED BY <1>2, <2>1, SameStops, QuietStep DEF BeginTick
<1>3. ASSUME PollUntracked PROVE StopInv'
  <2>1. Settled BY <1>3, GotoSettled DEF PollUntracked
  <2> QED BY <1>3, <2>1, SameStops, QuietStep DEF PollUntracked
<1>4. ASSUME PollFails \/ PollLive PROVE StopInv'
  BY <1>4, GotoSettled, SameStops, QuietStep DEF PollFails, PollLive
<1>5. ASSUME PollFilled PROVE StopInv'
  <2>1. local'.slId = 0 /\ pc' = "confirm" BY <1>5 DEF PollFilled, QueueClosure, IdleRow
  <2> QED BY <2>1, UnnamedMatches, SettledStep DEF Settled
<1>6. ASSUME PollPartial PROVE StopInv'
  <2>1. Settled BY <1>6, GotoSettled DEF PollPartial, Settled
  <2> QED BY <1>6, <2>1, SameStops, QuietStep DEF PollPartial
<1>7. ASSUME PollCancelled PROVE StopInv'
  BY <1>7, SameStops, QuietStep DEF PollCancelled, GoPlace, Settled
<1>8. ASSUME Ensure PROVE StopInv'
  BY <1>1, <1>8, SweepKeeps, QuietStep DEF Ensure, GoPlace, Settled
<1>9. ASSUME PartCancel PROVE StopInv'
  BY <1>1, <1>9, CancelKeeps, QuietStep DEF PartCancel, GoPlace, Settled
<1> QED BY <1>2, <1>3, <1>4, <1>5, <1>6, <1>7, <1>8, <1>9 DEF Poll

(* An entry, however it ends, leaves row and stops alone. *)
LEMMA EntryKeepsStops ==
  ASSUME StopInv, TypeInv', NEW side, NEW mode, SendEntry(side, mode)
  PROVE  StopInv'
<1> USE DEF dbVars
<1>1. Settled
  <2>1. ASSUME NEW qty, EntryFilled(side, mode, qty) PROVE Settled
    BY <2>1 DEF EntryFilled, GoPlace, Settled
  <2>2. ASSUME NEW qty \in 1 .. Lot, EntryPartial(side, mode, qty) PROVE Settled
    BY <2>1, <2>2, GotoSettled DEF EntryPartial
  <2> QED BY <2>1, <2>2, GotoSettled DEF SendEntry
<1> QED BY <1>1, SameStops, QuietStep DEF SendEntry

(* Partial take-profits and closes. *)
LEMMA TradeKeepsStops ==
  StopInv /\ TypeInv' /\ (EndTick \/ Handoff \/ PartialTp \/ Close) => StopInv'
<1> SUFFICES ASSUME StopInv, TypeInv', EndTick \/ Handoff \/ PartialTp \/ Close
             PROVE  StopInv'
  OBVIOUS
<1> USE DEF dbVars, venueVars
<1>1. TypeInv /\ local \in Row /\ op.row \in Row /\ Matches(local, stops)
  BY DEF StopInv, TypeInv, TypeOK, TrackedStopMatches, Op
<1>2. ASSUME EndTick PROVE StopInv'
  <2>1. Settled /\ stops' = stops BY <1>2, GotoSettled DEF EndTick
  <2>2. CASE local' = local BY <2>1, <2>2, SameStops, QuietStep
  <2>3. CASE Managed /\ local' = TickRow
    <3>1. TickRow = local \/ (TickRow = op.row /\ SameStop(op.row) /\ local.state = "bought")
      BY <1>2, <2>3 DEF EndTick, TickRow, StopInv, DecidesAfresh, HoldsSameStop, Managed
    <3>2. Matches(TickRow, stops) BY <1>1, <3>1 DEF Matches, SameStop
    <3> QED BY <2>1, <2>3, <3>2, SettledStep
  <2> QED BY <1>2, <2>2, <2>3 DEF EndTick
<1>3. ASSUME Handoff PROVE StopInv'
  <2>1. Matches(local', stops') BY <1>1, <1>3 DEF Handoff, Matches, Row
  <2> QED BY <1>3, <2>1, GotoSettled, SettledStep DEF Handoff
<1>4. ASSUME TpTooSmall PROVE StopInv'
  <2>1. /\ local'.state = local.state /\ local'.slId = local.slId /\ local'.mode = local.mode
        /\ local'.side = local.side /\ local'.sl = local.sl /\ stops' = stops
    BY <1>1, <1>4 DEF TpTooSmall, Row
  <2>2. Matches(local', stops') BY <1>1, <2>1 DEF Matches
  <2>3. pc' = "hold" /\ op'.row = local BY <1>4 DEF TpTooSmall, NoOp
  <2> QED BY <2>1, <2>2, <2>3 DEF StopInv, TrackedStopMatches, SavesMatching,
          DecidesAfresh, HoldsSameStop, SameStop, MovesTracked
<1>5. ASSUME TpMarket PROVE StopInv'
  <2>1. Settled BY <1>5, GotoSettled DEF TpMarket
  <2> QED BY <1>5, <2>1, SameStops, QuietStep DEF TpMarket
<1>6. ASSUME TpBook PROVE StopInv'
  <2>1. CASE local.slId # 0
    BY <1>6, <2>1, GotoSettled, SameStops, QuietStep DEF TpBook
  <2>2. CASE local.slId = 0
    <3>1. pc' = "save" /\ op'.row = TpRow /\ local' = local /\ stops' = stops
      BY <1>6, <2>2 DEF TpBook, NoOp
    <3>2. op'.row.slId = 0 BY <1>1, <2>2, <3>1 DEF TpRow, Row
    <3>3. Matches(op'.row, stops') BY <3>2, UnnamedMatches
    <3> QED BY <1>1, <3>1, <3>3 DEF StopInv, TrackedStopMatches, SavesMatching,
            DecidesAfresh, HoldsSameStop, MovesTracked
  <2> QED BY <2>1, <2>2
<1>7. ASSUME TpCancel PROVE StopInv'
  BY <1>1, <1>7, CancelKeeps, QuietStep DEF TpCancel, GoPlace, Settled
<1>8. ASSUME NEW rev \in BOOLEAN, StrategyClose(rev) \/ ManualClose PROVE StopInv'
  <2>1. Settled /\ stops' = stops /\ local' = local
    BY <1>8 DEF StrategyClose, ManualClose, StartClose, Settled
  <2> QED BY <2>1, SameStops, QuietStep
<1>9. ASSUME CloseCancel PROVE StopInv'
  <2>1. Settled BY <1>9, GotoSettled DEF CloseCancel, Settled
  <2> QED BY <1>1, <1>9, <2>1, CancelKeeps, QuietStep DEF CloseCancel
<1>10. ASSUME CloseMarket PROVE StopInv'
  <2>1. Settled BY <1>10 DEF CloseMarket, Goto, GoPlace, Settled
  <2> QED BY <1>10, <2>1, SameStops, QuietStep DEF CloseMarket
<1>11. ASSUME CloseBook PROVE StopInv'
  <2>1. Settled BY <1>11 DEF CloseBook, Goto, GoPlace, Settled
  <2>2. CASE op.got = local.qty
    <3>1. local'.slId = 0 BY <1>11, <2>2 DEF CloseBook, IdleRow
    <3> QED BY <2>1, <3>1, UnnamedMatches, SettledStep
  <2>3. CASE op.got # local.qty
    BY <1>11, <2>1, <2>3, SameStops, QuietStep DEF CloseBook
  <2> QED BY <2>2, <2>3
<1>12. ASSUME PartialTp PROVE StopInv'
  BY <1>4, <1>5, <1>6, <1>7, <1>12 DEF PartialTp
<1>13. ASSUME Close PROVE StopInv'
  BY <1>8, <1>9, <1>10, <1>11, <1>13 DEF Close
<1> QED BY <1>2, <1>3, <1>12, <1>13

(* Moving the trailing stop: while the old stop may still be in force the    *)
(* row keeps its id and level, and gives up the id before another is placed. *)
LEMMA TrailKeepsStops ==
  StopInv /\ TypeInv' /\ ((\E level \in Levels : Trail(level)) \/ TrailCancel \/ TrailVerify)
    => StopInv'
<1> SUFFICES ASSUME StopInv, TypeInv',
                    (\E level \in Levels : Trail(level)) \/ TrailCancel \/ TrailVerify
             PROVE  StopInv'
  OBVIOUS
<1> USE DEF dbVars, venueVars
<1>1. TypeInv /\ local \in Row /\ op.row \in Row /\ Matches(local, stops)
  BY DEF StopInv, TypeInv, TypeOK, TrackedStopMatches, Op
<1>2. ASSUME NEW level \in Levels, Trail(level) PROVE StopInv'
  <2> DEFINE row == [TickRow EXCEPT !.sl = level]
  <2>1. TickRow \in Row BY <1>1 DEF TickRow
  <2>2. /\ row.slId = TickRow.slId /\ row.side = TickRow.side
    BY <2>1 DEF Row
  <2>3. TickRow.slId = local.slId /\ TickRow.side = local.side
    BY <1>2 DEF Trail, TickRow, StopInv, DecidesAfresh, HoldsSameStop, SameStop
  <2>4. /\ Managed /\ local' = local /\ stops' = stops
        /\ IF row.slId = 0 THEN GoPlace(row, local.sl, FALSE, "rest")
           ELSE pc' = "trailCancel" /\ op' = [NoOp EXCEPT !.row = row]
    BY <1>2 DEF Trail
  <2> HIDE DEF row
  <2>5. CASE row.slId = 0
    BY <2>4, <2>5, SameStops, QuietStep DEF GoPlace, Settled
  <2>6. CASE row.slId # 0
    <3>1. pc' = "trailCancel" /\ op'.row = row BY <2>4, <2>6 DEF NoOp
    <3>2. MovesTracked' BY <2>2, <2>3, <2>4, <3>1 DEF MovesTracked, Managed
    <3> QED BY <1>1, <2>4, <3>1, <3>2 DEF StopInv, TrackedStopMatches, SavesMatching,
            DecidesAfresh, HoldsSameStop
  <2> QED BY <2>5, <2>6
<1>3. ASSUME TrailCancel PROVE StopInv'
  <2>1. KeepsNamed /\ local' = local BY <1>1, <1>3, CancelKeeps DEF TrailCancel
  <2>2. CASE pc' = "trailVerify" /\ op' = op
    <3>1. local.slId # 0 => Keeps(local.slId) BY <1>1, <2>1, RowIds DEF KeepsNamed, Named
    <3>2. Matches(local', stops') BY <1>1, <2>1, <3>1, KeptMatches
    <3>3. MovesTracked' BY <1>3, <2>1, <2>2 DEF TrailCancel, StopInv, MovesTracked, Managed
    <3> QED BY <2>2, <3>2, <3>3 DEF StopInv, TrackedStopMatches, SavesMatching,
            DecidesAfresh, HoldsSameStop
  <2>3. CASE GoPlace(op.row, local.sl, TRUE, "rest")
    BY <2>1, <2>3, QuietStep DEF GoPlace, Settled
  <2> QED BY <1>3, <2>2, <2>3 DEF TrailCancel
<1>4. ASSUME TrailVerify PROVE StopInv'
  <2>1. pc' = "save" /\ local' = local /\ stops' = stops BY <1>4 DEF TrailVerify
  <2>2. Managed /\ op.row.slId = local.slId /\ op.row.side = local.side
    BY <1>4 DEF TrailVerify, StopInv, MovesTracked
  <2>3. Matches(op'.row, stops')
    <3>1. CASE op' = [op EXCEPT !.row.sl = local.sl]
      <4>1. /\ op'.row.slId = local.slId /\ op'.row.side = local.side
            /\ op'.row.sl = local.sl
        BY <1>1, <2>2, <3>1 DEF TypeInv, TypeOK, Op, Row
      <4> QED BY <1>1, <2>1, <2>2, <4>1 DEF Matches, Managed
    <3>2. CASE op' = [op EXCEPT !.row.sl = local.sl, !.row.slId = 0]
      <4>1. op'.row.slId = 0 BY <1>1, <3>2 DEF TypeInv, TypeOK, Op, Row
      <4> QED BY <4>1, UnnamedMatches
    <3> QED BY <1>4, <3>1, <3>2 DEF TrailVerify
  <2> QED BY <1>1, <2>1, <2>3 DEF StopInv, TrackedStopMatches, SavesMatching,
          DecidesAfresh, HoldsSameStop, MovesTracked
<1> QED BY <1>2, <1>3, <1>4

(* Every step of the engine, the venue or the operating system keeps StopInv. *)
LEMMA StopInvInductive == StopInv /\ [Next]_vars => StopInv'
<1> SUFFICES ASSUME StopInv, [Next]_vars PROVE StopInv'
  OBVIOUS
<1>1. TypeInv' BY TypeInvInductive DEF StopInv
<1>2. CASE Venue BY <1>1, <1>2, VenueKeepsStops
<1>3. CASE OrderHelpers BY <1>1, <1>3, OrderHelpersKeepStops
<1>4. CASE Reconcile \/ ReconcileSteps BY <1>1, <1>4, ReconcileKeepsStops
<1>5. CASE Poll \/ Ensure \/ PartCancel \/ BeginTick BY <1>1, <1>5, PollKeepsStops
<1>6. CASE EndTick \/ Handoff \/ PartialTp \/ Close BY <1>1, <1>6, TradeKeepsStops
<1>7. CASE (\E level \in Levels : Trail(level)) \/ TrailCancel \/ TrailVerify
  BY <1>1, <1>7, TrailKeepsStops
<1>8. ASSUME NEW side \in Sides, NEW mode \in Modes,
             StrategyEntry(side) \/ ManualEntry(side, mode) \/ ReverseEntry
      PROVE  StopInv'
  BY <1>1, <1>8, EntryKeepsStops DEF StrategyEntry, ManualEntry, ReverseEntry
<1>9. CASE ReverseBlocked
  BY <1>1, <1>9, GotoSettled, SameStops, QuietStep DEF ReverseBlocked, dbVars, venueVars
<1>10. CASE Crash
  BY <1>1, <1>10, GotoSettled, SameStops, QuietStep DEF Crash, dbVars, venueVars
<1>11. CASE UNCHANGED vars
  BY <1>1, <1>11, SameStops, FrameStep DEF vars
<1>12. "strategy" \in Modes /\ "LONG" \in Sides BY DEF Modes, Sides
<1> QED BY <1>2, <1>3, <1>4, <1>5, <1>6, <1>7, <1>8, <1>9, <1>10, <1>11, <1>12
        DEF Next, Engine, TickSteps

(* At the first start nothing is named and nothing carried. *)
LEMMA InitStops == Init => StopInv
<1>1. Init => TrackedStopMatches BY DEF Init, IdleRow, TrackedStopMatches, Matches
<1> QED BY InitTypes, <1>1 DEF Init, StopInv, SavesMatching, DecidesAfresh, HoldsSameStop,
        MovesTracked

(* However calls fail, lose their answers or are cut short by a restart, and *)
(* whatever the venue does in between, the stop order the row names is the  *)
(* one in force: it exists, and while it is live it closes the row's side   *)
(* at the row's level.                                                      *)
THEOREM TrackedStopCorrect == Safe => []TrackedStopMatches
<1>1. StopInv => TrackedStopMatches BY DEF StopInv
<1> QED BY <1>1, InitStops, StopInvInductive, PTL DEF Safe

-----------------------------------------------------------------------------
(* The recorded stop level. *)

(* Steps at which the engine carries a row it is going to save. *)
Writing == {"place", "save", "partCancel", "trailCancel", "trailVerify"}

(* No row is younger than the last one opened, so that a row opened by a     *)
(* reconciliation is never taken for the one before it.                     *)
BornBefore ==
  /\ local.born <= epoch
  /\ pc \in Writing \cup {"hold"} => op.row.born <= epoch

(* The other side is opened only after the row has been reset. *)
ReversesIdle == pc = "reverse" => ~Bought

(* Over an open row, neither the row to be saved nor the level it falls back *)
(* to when no stop can be placed is looser than the row on disk.            *)
WritesTighter ==
  Bought => /\ pc \in Writing => op.row.sl >= local.sl
            /\ pc = "place" => op.fall >= local.sl

LevelInv == StopInv /\ BornBefore /\ ReversesIdle /\ WritesTighter

(* What StopNeverLoosens says of one step. *)
Tightens ==
  Bought /\ local'.state = "bought" /\ local'.born = local.born => local'.sl >= local.sl

-----------------------------------------------------------------------------
(* What the types give: levels and birthdays are counts. *)
LEMMA LevelTypes ==
  ASSUME StopInv
  PROVE  /\ local \in Row /\ op.row \in Row /\ op \in Op
         /\ local.sl \in Nat /\ op.row.sl \in Nat /\ op.fall \in Nat
         /\ local.sl \in Levels
         /\ local.born \in Nat /\ op.row.born \in Nat /\ epoch \in Nat
BY LivePositionAssumption DEF StopInv, TypeInv, TypeOK, Op, Row, Levels

(* A step after which no row is waiting to be saved. *)
LEMMA RowStep ==
  ASSUME LevelInv, StopInv', Tightens, local'.born <= epoch',
         pc' \notin Writing \cup {"reverse"},
         pc' = "hold" => op'.row.born <= epoch'
  PROVE  LevelInv' /\ Tightens
BY DEF LevelInv, BornBefore, ReversesIdle, WritesTighter, Writing

(* Such a step that leaves the row alone. *)
LEMMA QuietLevel ==
  ASSUME LevelInv, StopInv', local' = local, epoch' = epoch,
         pc' \notin Writing \cup {"reverse"},
         pc' = "hold" => op'.row.born <= epoch
  PROVE  LevelInv' /\ Tightens
<1>1. Tightens /\ local'.born <= epoch' BY LevelTypes DEF Tightens, LevelInv, BornBefore
<1> QED BY <1>1, RowStep

(* Such a step that resets the row. *)
LEMMA ResetLevel ==
  ASSUME LevelInv, StopInv', local' = IdleRow, epoch' = epoch,
         pc' \notin Writing \cup {"hold"}
  PROVE  LevelInv' /\ Tightens
BY LevelTypes DEF LevelInv, BornBefore, ReversesIdle, WritesTighter, Writing, Tightens,
   IdleRow, Bought

(* Such a step that goes on with nothing carried over. *)
LEMMA GotoLevel ==
  ASSUME LevelInv, StopInv', local' = local, epoch' = epoch, NEW step, Goto(step),
         step \notin Writing \cup {"reverse"}
  PROVE  LevelInv' /\ Tightens
<1>1. op'.row.born <= epoch BY LevelTypes DEF Goto, NoOp, IdleRow, LevelInv
<1> QED BY <1>1, QuietLevel DEF Goto

(* A step that leaves the row alone and carries a tighter one. *)
LEMMA WriteLevel ==
  ASSUME LevelInv, StopInv', local' = local, epoch' = epoch, pc' \in Writing,
         op'.row.born <= epoch, Bought => op'.row.sl >= local.sl,
         Bought /\ pc' = "place" => op'.fall >= local.sl
  PROVE  LevelInv' /\ Tightens
BY LevelTypes DEF LevelInv, BornBefore, ReversesIdle, WritesTighter, Writing, Tightens, Bought

(* A step that asks for a stop at the level of a row, or a tighter one. *)
LEMMA PlaceLevel ==
  ASSUME LevelInv, StopInv', local' = local, epoch' = epoch, pc' = "place",
         op'.row.born <= epoch, op'.row.sl >= local.sl, op'.fall >= local.sl
  PROVE  LevelInv' /\ Tightens
BY WriteLevel DEF Writing

(* A step that moves neither the engine nor its row. *)
LEMMA FrameLevel ==
  ASSUME LevelInv, StopInv', local' = local, pc' = pc, op' = op, epoch' = epoch
  PROVE  LevelInv' /\ Tightens
BY LevelTypes DEF LevelInv, BornBefore, ReversesIdle, WritesTighter, Tightens, Bought

-----------------------------------------------------------------------------
(* One lemma per group of actions *)

(* Placing a stop, falling back to the old level, saving the row. *)
LEMMA OrderHelpersTighten == LevelInv /\ StopInv' /\ OrderHelpers => LevelInv' /\ Tightens
<1> SUFFICES ASSUME LevelInv, StopInv', OrderHelpers PROVE LevelInv' /\ Tightens
  OBVIOUS
<1> USE DEF dbVars, venueVars
<1>1. /\ op \in Op /\ op.row \in Row /\ op.fall \in Nat /\ op.row.sl \in Nat
      /\ local.sl \in Nat
  BY LevelTypes DEF LevelInv
<1>2. pc = "place" => /\ op.row.born <= epoch
                      /\ Bought => op.row.sl >= local.sl /\ op.fall >= local.sl
  BY DEF LevelInv, BornBefore, WritesTighter, Writing
<1>3. ASSUME pc = "place", local' = local, epoch' = epoch, Unplaced
      PROVE  LevelInv' /\ Tightens
  <2>1. pc' \in {"place", "save"} BY <1>3 DEF Unplaced
  <2>2. op'.row.born = op.row.born /\ op'.row.sl = op.fall /\ op'.fall = op.fall
    <3>1. CASE op.again
      <4>1. op' = [op EXCEPT !.row = [op.row EXCEPT !.sl = op.fall], !.again = FALSE]
        BY <1>3, <3>1 DEF Unplaced
      <4> QED BY <1>1, <4>1 DEF Op, Row
    <3>2. CASE ~op.again
      <4>1. op' = [op EXCEPT !.row = [op.row EXCEPT !.sl = op.fall, !.slId = 0]]
        BY <1>3, <3>2 DEF Unplaced
      <4> QED BY <1>1, <4>1 DEF Op, Row
    <3> QED BY <3>1, <3>2
  <2> QED BY <1>2, <1>3, <2>1, <2>2, WriteLevel DEF Writing
<1>4. ASSUME PlaceStop PROVE LevelInv' /\ Tightens
  <2>1. PICK i \in Ids : op' = [op EXCEPT !.row.slId = i] BY <1>4 DEF PlaceStop
  <2>2. op'.row.born = op.row.born /\ op'.row.sl = op.row.sl BY <1>1, <2>1 DEF Op, Row
  <2> QED BY <1>2, <1>4, <2>2, WriteLevel DEF PlaceStop, Writing
<1>5. ASSUME PlaceNothing \/ PlaceFails \/ PlaceLanded PROVE LevelInv' /\ Tightens
  BY <1>3, <1>5 DEF PlaceNothing, PlaceFails, PlaceLanded
<1>6. ASSUME SaveRow PROVE LevelInv' /\ Tightens
  <2>1. op.row.born <= epoch /\ (Bought => op.row.sl >= local.sl)
    BY <1>6 DEF SaveRow, LevelInv, BornBefore, WritesTighter, Writing
  <2>2. local' = op.row /\ epoch' = epoch /\ Goto(op.then) BY <1>6 DEF SaveRow
  <2>3. op.then \notin Writing \cup {"reverse"} BY <1>1 DEF Op, Writing
  <2>4. op'.row.born <= epoch BY <2>2, LevelTypes DEF Goto, NoOp, IdleRow, LevelInv
  <2>5. Tightens BY <2>1, <2>2 DEF Tightens
  <2> QED BY <2>1, <2>2, <2>3, <2>4, <2>5, RowStep DEF Goto
<1> QED BY <1>4, <1>5, <1>6 DEF OrderHelpers

(* Reconciling: a row that is adopted, or that changes side, is a new one. *)
LEMMA ReconcileTightens ==
  LevelInv /\ StopInv' /\ (Reconcile \/ ReconcileSteps) => LevelInv' /\ Tightens
<1> SUFFICES ASSUME LevelInv, StopInv', Reconcile \/ ReconcileSteps
             PROVE  LevelInv' /\ Tightens
  OBVIOUS
<1> USE DEF dbVars, venueVars
<1>1. /\ local \in Row /\ local.sl \in Nat /\ local.born \in Nat /\ epoch \in Nat
      /\ local.born <= epoch /\ op.then \in {"rest", "decide", "hold", "retry"}
  BY LevelTypes DEF LevelInv, BornBefore, Op
<1>2. ASSUME Adopt PROVE LevelInv' /\ Tightens
  <2>1. local'.born = epoch' /\ epoch' \in Nat /\ ~Bought /\ pc' = "rest"
    BY <1>1, <1>2 DEF Adopt, IdleRow, Goto, Bought
  <2> QED BY <2>1, RowStep DEF Tightens, Writing
<1>3. ASSUME FoundFlat PROVE LevelInv' /\ Tightens
  BY <1>3, ResetLevel DEF FoundFlat, QueueClosure, Writing
<1>4. ASSUME BothFlat PROVE LevelInv' /\ Tightens
  <2>1. Goto("idleSweep") \/ Goto("retry") BY <1>4 DEF BothFlat
  <2> QED BY <1>4, <2>1, GotoLevel DEF BothFlat, Writing
<1>5. ASSUME SideMismatch PROVE LevelInv' /\ Tightens
  <2>1. CASE FollowSide
    <3>1. local'.born = epoch + 1 /\ epoch' = epoch + 1 BY <1>1, <2>1 DEF FollowSide, Row
    <3>2. Tightens BY <1>1, <3>1 DEF Tightens
    <3> QED BY <1>1, <1>5, <3>1, <3>2, RowStep DEF SideMismatch, Goto, Writing
  <2>2. CASE FreezeTrading
    BY <1>5, <2>2, GotoLevel DEF SideMismatch, FreezeTrading, Writing
  <2> QED BY <1>5, <2>1, <2>2 DEF SideMismatch
<1>6. ASSUME Synced PROVE LevelInv' /\ Tightens
  <2>1. local'.born = local.born /\ local'.sl = local.sl BY <1>1, <1>6 DEF Synced, Row
  <2>2. Tightens BY <1>1, <2>1 DEF Tightens
  <2> QED BY <1>1, <1>6, <2>1, <2>2, RowStep DEF Synced, Goto, Writing
<1>7. ASSUME ReconcileFails \/ IdleSweep PROVE LevelInv' /\ Tightens
  BY <1>7, GotoLevel DEF ReconcileFails, IdleSweep, Writing
<1>8. ASSUME FlatSweep PROVE LevelInv' /\ Tightens
  BY <1>8, QuietLevel DEF FlatSweep, Writing
<1>9. ASSUME RetryNext PROVE LevelInv' /\ Tightens
  BY <1>9, QuietLevel DEF RetryNext, Goto, Writing
<1>10. ASSUME Confirmed PROVE LevelInv' /\ Tightens
  BY <1>1, <1>10, GotoLevel DEF Confirmed, Writing
<1>11. ASSUME NotConfirmed PROVE LevelInv' /\ Tightens
  <2>1. (IF op.then = "retry" THEN "idleSweep" ELSE op.then) \notin Writing \cup {"reverse"}
    BY <1>1 DEF Writing
  <2> QED BY <1>11, <2>1, GotoLevel DEF NotConfirmed
<1> QED BY <1>2, <1>3, <1>4, <1>5, <1>6, <1>7, <1>8, <1>9, <1>10, <1>11
        DEF Reconcile, ReconcileSteps

(* Polling the stop, placing a missing one, resizing it after a partial fill. *)
LEMMA PollTightens ==
  LevelInv /\ StopInv' /\ (Poll \/ Ensure \/ PartCancel \/ BeginTick) => LevelInv' /\ Tightens
<1> SUFFICES ASSUME LevelInv, StopInv', Poll \/ Ensure \/ PartCancel \/ BeginTick
             PROVE  LevelInv' /\ Tightens
  OBVIOUS
<1> USE DEF dbVars, venueVars
<1>1. local \in Row /\ local.sl \in Nat /\ local.sl \in Levels /\ local.born <= epoch
  BY LevelTypes DEF LevelInv, BornBefore
<1>2. ASSUME BeginTick \/ PollUntracked PROVE LevelInv' /\ Tightens
  <2>1. Goto("poll") \/ Goto("decide") \/ Goto("ensure")
    BY <1>2 DEF BeginTick, PollUntracked
  <2> QED BY <1>2, <2>1, GotoLevel DEF BeginTick, PollUntracked, Writing
<1>3. ASSUME PollFails \/ PollLive PROVE LevelInv' /\ Tightens
  BY <1>3, GotoLevel DEF PollFails, PollLive, Writing
<1>4. ASSUME PollFilled PROVE LevelInv' /\ Tightens
  BY <1>4, ResetLevel DEF PollFilled, QueueClosure, Writing
<1>5. ASSUME PollPartial PROVE LevelInv' /\ Tightens
  <2> DEFINE q == Least(Tracked.done, local.qty)
  <2>1. CASE q < local.qty
    <3>1. pc' = "partCancel" /\ op' = [NoOp EXCEPT !.row = [local EXCEPT !.qty = @ - q]]
      BY <1>5, <2>1 DEF PollPartial
    <3>2. op'.row.born = local.born /\ op'.row.sl = local.sl BY <1>1, <3>1 DEF Row, NoOp
    <3> QED BY <1>1, <1>5, <3>1, <3>2, WriteLevel DEF PollPartial, Writing
  <2>2. CASE ~(q < local.qty)
    BY <1>5, <2>2, GotoLevel DEF PollPartial, Writing
  <2> QED BY <2>1, <2>2
<1>6. ASSUME PollCancelled \/ Ensure PROVE LevelInv' /\ Tightens
  <2>1. pc' = "place" /\ op'.row = local /\ op'.fall = local.sl
    BY <1>6 DEF PollCancelled, Ensure, GoPlace, NoOp
  <2>2. local' = local /\ epoch' = epoch BY <1>6 DEF PollCancelled, Ensure
  <2>3. op'.row.born <= epoch /\ op'.row.sl >= local.sl /\ op'.fall >= local.sl
    BY <1>1, <2>1
  <2> QED BY <2>1, <2>2, <2>3, PlaceLevel
<1>7. ASSUME PartCancel PROVE LevelInv' /\ Tightens
  <2>1. op.row.born <= epoch /\ (Bought => op.row.sl >= local.sl)
    BY <1>7 DEF PartCancel, LevelInv, BornBefore, WritesTighter, Writing
  <2>2. pc' = "place" /\ op'.row = op.row /\ op'.fall = local.sl
    BY <1>7 DEF PartCancel, GoPlace, NoOp
  <2> QED BY <1>1, <1>7, <2>1, <2>2, WriteLevel DEF PartCancel, Writing
<1> QED BY <1>2, <1>3, <1>4, <1>5, <1>6, <1>7 DEF Poll

(* An entry starts from an idle row. *)
LEMMA EntryTightens ==
  ASSUME LevelInv, StopInv', ~Bought, NEW side, NEW mode, SendEntry(side, mode)
  PROVE  LevelInv' /\ Tightens
<1> USE DEF dbVars
<1>1. epoch \in Nat /\ local.born \in Nat /\ local.born <= epoch /\ local' = local
  BY LevelTypes DEF LevelInv, BornBefore, SendEntry
<1>2. ASSUME NEW qty, EntryFilled(side, mode, qty) PROVE LevelInv' /\ Tightens
  <2>1. pc' = "place" /\ op'.row.born = epoch + 1 /\ epoch' = epoch + 1
    BY <1>2 DEF EntryFilled, EntryRow, GoPlace, NoOp
  <2> QED BY <1>1, <2>1 DEF LevelInv, BornBefore, ReversesIdle, WritesTighter, Writing,
          Tightens, Bought
<1>3. ASSUME Goto("rest"), epoch' = epoch PROVE LevelInv' /\ Tightens
  BY <1>1, <1>3, GotoLevel DEF Writing
<1> QED BY <1>2, <1>3 DEF SendEntry, EntryPartial

(* Partial take-profits and closes keep the level of what remains. *)
LEMMA TradeTightens ==
  LevelInv /\ StopInv' /\ (EndTick \/ Handoff \/ PartialTp \/ Close) => LevelInv' /\ Tightens
<1> SUFFICES ASSUME LevelInv, StopInv', EndTick \/ Handoff \/ PartialTp \/ Close
             PROVE  LevelInv' /\ Tightens
  OBVIOUS
<1> USE DEF dbVars, venueVars
<1>1. /\ local \in Row /\ local.sl \in Nat /\ local.born <= epoch /\ op \in Op
      /\ epoch \in Nat /\ local.born \in Nat
  BY LevelTypes DEF LevelInv, BornBefore
<1>2. ASSUME EndTick PROVE LevelInv' /\ Tightens
  <2>1. Goto("rest") /\ epoch' = epoch BY <1>2 DEF EndTick
  <2>2. CASE local' = local BY <2>1, <2>2, GotoLevel DEF Writing
  <2>3. CASE Managed /\ local' = TickRow
    <3>1. TickRow.born <= epoch /\ TickRow.sl = local.sl
      <4>1. CASE op.row.state = "bought"
        <5>1. pc = "hold" /\ SameStop(op.row)
          BY <1>2, <4>1 DEF EndTick, LevelInv, StopInv, DecidesAfresh, HoldsSameStop
        <5>2. op.row.born <= epoch BY <5>1 DEF LevelInv, BornBefore
        <5> QED BY <4>1, <5>1, <5>2 DEF TickRow, SameStop
      <4>2. CASE op.row.state # "bought" BY <1>1, <4>2 DEF TickRow
      <4> QED BY <4>1, <4>2
    <3>2. Tightens BY <1>1, <2>3, <3>1 DEF Tightens
    <3> QED BY <2>1, <2>3, <3>1, <3>2, RowStep DEF Goto, Writing
  <2> QED BY <1>2, <2>2, <2>3 DEF EndTick
<1>3. ASSUME Handoff PROVE LevelInv' /\ Tightens
  <2>1. local'.born = local.born /\ local'.sl = local.sl BY <1>1, <1>3 DEF Handoff, Row
  <2>2. Tightens BY <1>1, <2>1 DEF Tightens
  <2> QED BY <1>1, <1>3, <2>1, <2>2, RowStep DEF Handoff, Goto, Writing
<1>4. ASSUME TpTooSmall PROVE LevelInv' /\ Tightens
  <2>1. local'.born = local.born /\ local'.sl = local.sl BY <1>1, <1>4 DEF TpTooSmall, Row
  <2>2. pc' = "hold" /\ op'.row = local /\ epoch' = epoch BY <1>4 DEF TpTooSmall, NoOp
  <2>3. Tightens BY <1>1, <2>1 DEF Tightens
  <2> QED BY <1>1, <2>1, <2>2, <2>3, RowStep DEF Writing
<1>5. ASSUME TpMarket PROVE LevelInv' /\ Tightens
  <2>1. Goto("hold") \/ Goto("tpBook") BY <1>5 DEF TpMarket
  <2> QED BY <1>5, <2>1, GotoLevel DEF TpMarket, Writing
<1>6. TpRow.born = local.born /\ TpRow.sl = local.sl BY <1>1 DEF TpRow, Row
<1>7. ASSUME TpBook PROVE LevelInv' /\ Tightens
  <2>1. CASE local.slId # 0 BY <1>7, <2>1, GotoLevel DEF TpBook, Writing
  <2>2. CASE local.slId = 0
    <3>1. pc' = "save" /\ op'.row = TpRow BY <1>7, <2>2 DEF TpBook, NoOp
    <3> QED BY <1>1, <1>6, <1>7, <3>1, WriteLevel DEF TpBook, Writing
  <2> QED BY <2>1, <2>2
<1>8. ASSUME TpCancel PROVE LevelInv' /\ Tightens
  <2>1. pc' = "place" /\ op'.row = TpRow /\ op'.fall = TpRow.sl
    BY <1>8 DEF TpCancel, GoPlace, NoOp
  <2> QED BY <1>1, <1>6, <1>8, <2>1, PlaceLevel DEF TpCancel
<1>9. ASSUME NEW rev \in BOOLEAN, StrategyClose(rev) \/ ManualClose
      PROVE  LevelInv' /\ Tightens
  <2>1. local' = local /\ epoch' = epoch /\ pc' \in {"closeCancel", "closeMarket"}
    BY <1>9 DEF StrategyClose, ManualClose, StartClose
  <2> QED BY <2>1, QuietLevel DEF Writing
<1>10. ASSUME CloseCancel PROVE LevelInv' /\ Tightens
  BY <1>10, QuietLevel, GotoLevel DEF CloseCancel, Writing
<1>11. ASSUME CloseMarket PROVE LevelInv' /\ Tightens
  <2>1. local' = local /\ epoch' = epoch BY <1>11 DEF CloseMarket
  <2>2. \/ pc' = "closeBook" \/ Goto("rest")
        \/ pc' = "place" /\ op'.row = local /\ op'.fall = local.sl
    BY <1>11 DEF CloseMarket, GoPlace, NoOp
  <2> QED BY <1>1, <2>1, <2>2, QuietLevel, GotoLevel, PlaceLevel DEF Writing
<1>12. ASSUME CloseBook PROVE LevelInv' /\ Tightens
  <2>1. CASE op.got = local.qty
    <3>1. local' = IdleRow /\ epoch' = epoch /\ pc' \in {"reverse", "rest"}
      BY <1>12, <2>1 DEF CloseBook, Goto
    <3> QED BY <3>1, ResetLevel DEF Writing
  <2>2. CASE op.got # local.qty
    <3> DEFINE rest == [local EXCEPT !.qty = @ - op.got]
               row  == IF local.side = "SHORT" THEN rest
                       ELSE [rest EXCEPT !.mode = "strategy", !.ptp = FALSE]
    <3>1. /\ pc' = "place" /\ op'.row = row /\ op'.fall = row.sl
          /\ local' = local /\ epoch' = epoch
      BY <1>12, <2>2 DEF CloseBook, GoPlace, NoOp
    <3>2. row.born = local.born /\ row.sl = local.sl BY <1>1 DEF Row
    <3> HIDE DEF row
    <3> QED BY <1>1, <3>1, <3>2, PlaceLevel
  <2> QED BY <2>1, <2>2
<1>13. ASSUME PartialTp PROVE LevelInv' /\ Tightens
  BY <1>4, <1>5, <1>7, <1>8, <1>13 DEF PartialTp
<1>14. ASSUME Close PROVE LevelInv' /\ Tightens
  BY <1>9, <1>10, <1>11, <1>12, <1>14 DEF Close
<1> QED BY <1>2, <1>3, <1>13, <1>14

(* Moving the trailing stop: toward profit, or back to where it was. *)
LEMMA TrailTightens ==
  LevelInv /\ StopInv' /\ ((\E level \in Levels : Trail(level)) \/ TrailCancel \/ TrailVerify)
    => LevelInv' /\ Tightens
<1> SUFFICES ASSUME LevelInv, StopInv',
                    (\E level \in Levels : Trail(level)) \/ TrailCancel \/ TrailVerify
             PROVE  LevelInv' /\ Tightens
  OBVIOUS
<1> USE DEF dbVars, venueVars
<1>1. /\ local \in Row /\ op \in Op /\ op.row \in Row /\ local.sl \in Nat
      /\ local.born <= epoch
  BY LevelTypes DEF LevelInv, BornBefore
<1>2. ASSUME NEW level \in Levels, Trail(level) PROVE LevelInv' /\ Tightens
  <2> DEFINE row == [TickRow EXCEPT !.sl = level]
  <2>1. TickRow \in Row BY <1>1 DEF TickRow
  <2>2. row.born = TickRow.born /\ row.sl = level BY <2>1 DEF Row
  <2>3. TickRow.born <= epoch /\ TickRow.sl = local.sl
    <3>1. CASE op.row.state = "bought"
      <4>1. pc = "hold" /\ SameStop(op.row)
        BY <1>2, <3>1 DEF Trail, LevelInv, StopInv, DecidesAfresh, HoldsSameStop
      <4>2. op.row.born <= epoch BY <4>1 DEF LevelInv, BornBefore
      <4> QED BY <3>1, <4>1, <4>2 DEF TickRow, SameStop
    <3>2. CASE op.row.state # "bought" BY <1>1, <3>2 DEF TickRow
    <3> QED BY <3>1, <3>2
  <2>4. level \in Nat /\ level >= local.sl
    BY <1>1, <1>2, <2>3, LivePositionAssumption DEF Trail, Levels
  <2>5. /\ local' = local /\ epoch' = epoch
        /\ \/ pc' = "place" /\ op'.row = row /\ op'.fall = local.sl
           \/ pc' = "trailCancel" /\ op' = [NoOp EXCEPT !.row = row]
    BY <1>2 DEF Trail, GoPlace, NoOp
  <2> HIDE DEF row
  <2>6. CASE pc' = "place" /\ op'.row = row /\ op'.fall = local.sl
    BY <1>1, <2>2, <2>3, <2>4, <2>5, <2>6, PlaceLevel
  <2>7. CASE pc' = "trailCancel" /\ op' = [NoOp EXCEPT !.row = row]
    <3>1. op'.row = row BY <2>7 DEF NoOp
    <3> QED BY <2>2, <2>3, <2>4, <2>5, <2>7, <3>1, WriteLevel DEF Writing
  <2> QED BY <2>5, <2>6, <2>7
<1>3. ASSUME TrailCancel \/ TrailVerify
      PROVE  op.row.born <= epoch /\ (Bought => op.row.sl >= local.sl)
  BY <1>3 DEF TrailCancel, TrailVerify, LevelInv, BornBefore, WritesTighter, Writing
<1>4. ASSUME TrailCancel PROVE LevelInv' /\ Tightens
  <2>1. CASE GoPlace(op.row, local.sl, TRUE, "rest")
    <3>1. pc' = "place" /\ op'.row = op.row /\ op'.fall = local.sl
      BY <2>1 DEF GoPlace, NoOp
    <3> QED BY <1>1, <1>3, <1>4, <3>1, WriteLevel DEF TrailCancel, Writing
  <2>2. CASE pc' = "trailVerify" /\ op' = op
    BY <1>3, <1>4, <2>2, WriteLevel DEF TrailCancel, Writing
  <2> QED BY <1>4, <2>1, <2>2 DEF TrailCancel
<1>5. ASSUME TrailVerify PROVE LevelInv' /\ Tightens
  <2>1. op'.row.born = op.row.born /\ op'.row.sl = local.sl
    <3>1. CASE op' = [op EXCEPT !.row.sl = local.sl] BY <1>1, <3>1 DEF Op, Row
    <3>2. CASE op' = [op EXCEPT !.row.sl = local.sl, !.row.slId = 0]
      BY <1>1, <3>2 DEF Op, Row
    <3> QED BY <1>5, <3>1, <3>2 DEF TrailVerify
  <2> QED BY <1>1, <1>3, <1>5, <2>1, WriteLevel DEF TrailVerify, Writing
<1> QED BY <1>2, <1>4, <1>5

(* Every step keeps LevelInv and never loosens the stop of an open row. *)
LEMMA LevelInvInductive == LevelInv /\ [Next]_vars => LevelInv' /\ [Tightens]_vars
<1> SUFFICES ASSUME LevelInv, [Next]_vars PROVE LevelInv' /\ Tightens
  OBVIOUS
<1>1. StopInv' BY StopInvInductive DEF LevelInv
<1>2. CASE Venue
  <2>1. local' = local /\ pc' = pc /\ op' = op /\ epoch' = epoch
    BY <1>2 DEF Venue, StopFires, StopFiresPartly, OutsideCancel, LateFill, OutsideOpen,
       OutsideClose, dbVars
  <2> QED BY <1>1, <2>1, FrameLevel
<1>3. CASE OrderHelpers BY <1>1, <1>3, OrderHelpersTighten
<1>4. CASE Reconcile \/ ReconcileSteps BY <1>1, <1>4, ReconcileTightens
<1>5. CASE Poll \/ Ensure \/ PartCancel \/ BeginTick BY <1>1, <1>5, PollTightens
<1>6. CASE EndTick \/ Handoff \/ PartialTp \/ Close BY <1>1, <1>6, TradeTightens
<1>7. CASE (\E level \in Levels : Trail(level)) \/ TrailCancel \/ TrailVerify
  BY <1>1, <1>7, TrailTightens
<1>8. ASSUME NEW side \in Sides, NEW mode \in Modes,
             StrategyEntry(side) \/ ManualEntry(side, mode) \/ ReverseEntry
      PROVE  LevelInv' /\ Tightens
  <2>1. ~Bought
    BY <1>8 DEF StrategyEntry, ManualEntry, ReverseEntry, Bought, LevelInv, ReversesIdle
  <2> QED BY <1>1, <1>8, <2>1, EntryTightens DEF StrategyEntry, ManualEntry, ReverseEntry
<1>9. CASE ReverseBlocked
  BY <1>1, <1>9, GotoLevel DEF ReverseBlocked, dbVars, venueVars, Writing
<1>10. CASE Crash
  BY <1>1, <1>10, GotoLevel DEF Crash, dbVars, venueVars, Writing
<1>11. CASE UNCHANGED vars
  BY <1>1, <1>11, FrameLevel DEF vars
<1>12. "strategy" \in Modes /\ "LONG" \in Sides BY DEF Modes, Sides
<1> QED BY <1>2, <1>3, <1>4, <1>5, <1>6, <1>7, <1>8, <1>9, <1>10, <1>11, <1>12
        DEF Next, Engine, TickSteps

(* Within one position the recorded stop level never moves away from the     *)
(* profit: not when a replacement fails and the old stop is restored, not    *)
(* when a stop is resized, and not when the process dies half way.          *)
THEOREM StopTightens == Safe => StopNeverLoosens
<1>1. Init => LevelInv
  <2>1. Init => StopInv BY InitStops
  <2>2. Init => BornBefore /\ ReversesIdle /\ WritesTighter
    BY DEF Init, BornBefore, ReversesIdle, WritesTighter, Bought, IdleRow, Writing
  <2> QED BY <2>1, <2>2 DEF LevelInv
<1>2. [Tightens]_vars => [Bought /\ local'.state = "bought" /\ local'.born = local.born
                            => local'.sl >= local.sl]_vars
  BY DEF Tightens
<1> QED BY <1>1, <1>2, LevelInvInductive, PTL DEF Safe, StopNeverLoosens
=============================================================================
