---------------------------- MODULE TradingDesk ----------------------------
(***************************************************************************)
(* Who may open, keep and close the position of a pair: the decision half  *)
(* of the engine's tick (engine/loop.py), which one thread runs for the    *)
(* active pairs in turn, with the regime router it consults, the manual    *)
(* orders it claims and the semi-automatic buys the owner confirms by      *)
(* Telegram.  How an order is carried out is in LivePosition; here it      *)
(* takes effect or fails.                                                  *)
(*                                                                         *)
(* The price, the signal of the strategy and the gates that depend on      *)
(* neither regime nor positions (pause, cooldown, sentiment, feed, socket) *)
(* are choices of the environment: an entry the model allows may always    *)
(* be refused.  A strategy asks for an exit only when a position is open.  *)
(***************************************************************************)
EXTENDS RegimeRouter, ManualOrders, Sequences, FiniteSets

CONSTANTS
  Order,      \* the active pairs, in the order of the tick
  Sides,      \* allowed_sides of a pair, manual_allowed_sides being the same
  MaxOpen,    \* trading.max_open_positions
  Desks       \* how the engine may be set up: trading_mode, the pairs with
              \* regime_router_enabled, and bounds on the confirm requests and
              \* on the deaths of the engine and changes of the whitelist

TradingModes == {"full_auto", "semi_auto"}

ASSUME DeskAssumption ==
  /\ Symbols = Pairs /\ IsFiniteSet(Symbols)
  /\ Order \in Seq(Symbols) /\ Order /= <<>>
  /\ Sides \in [Symbols -> {{"long"}, {"long", "short"}}]
  /\ MaxOpen \in Nat
  /\ Desks \subseteq [mode : TradingModes, routed : SUBSET Symbols,
                      clicks : 0..MaxClicks, upsets : Nat]

VARIABLES
  desk,    \* the set-up of this engine
  pos,     \* trade_state: state and position_side, management_mode
  ask,     \* SymbolContext._semi_auto_pending and _semi_auto_confirm
  turn,    \* the pair the tick has reached
  at,      \* how far _tick_body has got for it
  claimed, \* the request that claim_manual_order_request has read
  upsets   \* what the bound still allows

router == <<ctx, settled>>
vars == <<router, orders, desk, pos, ask, turn, at, claimed, upsets>>

Position == [side : {"flat", "long", "short"},
             mode : {"strategy", "strategy_handoff"}]
Flat == [side |-> "flat", mode |-> "strategy"]
Held(p) == p.side /= "flat"
Opened(side, mode) == [side |-> side, mode |-> mode]
Opposite(side) == IF side = "long" THEN "short" ELSE "long"

Init ==
  /\ RouterInit /\ OrdersInit
  /\ desk \in Desks
  /\ clicks = desk.clicks
  /\ pos = [s \in Symbols |-> Flat]
  /\ ask = [s \in Symbols |-> "none"]
  /\ turn = 1 /\ at = "look"
  /\ claimed = NoFile
  /\ upsets = desk.upsets

-----------------------------------------------------------------------------
\* Mutant: the limit is compared with <=.
OneTooMany(s) ==
  Cardinality({o \in Symbols \ {s} : Held(pos[o])}) <= MaxOpen
\* The open-position gate, for a pair that is flat or has just been closed.
Room(s) == Cardinality({o \in Symbols \ {s} : Held(pos[o])}) < MaxOpen

\* Pair s is the one _tick_body works on.
On(s, stage) == Order[turn] = s /\ at = stage

NextPair ==
  /\ turn' = IF turn = Len(Order) THEN 1 ELSE turn + 1
  /\ at' = "look"
  /\ claimed' = NoFile

\* No price, or too few candles: the pair's tick ends before the claim.
Skip(s) ==
  /\ On(s, "look")
  /\ NextPair
  /\ UNCHANGED <<router, orders, desk, pos, ask, upsets>>

\* The exchange reports that the stop was filled.
StopHit(s) ==
  /\ On(s, "look")
  /\ Held(pos[s])
  /\ pos' = [pos EXCEPT ![s] = Flat]
  /\ UNCHANGED <<router, orders, desk, ask, turn, at, claimed, upsets>>

\* The claim opens the file: no file or another pair's, and the tick goes on.
Look(s) ==
  /\ On(s, "look")
  /\ IF Waiting(s) THEN at' = "unlink" /\ claimed' = file
                   ELSE at' = "trade" /\ claimed' = NoFile
  /\ UNCHANGED <<router, orders, desk, pos, ask, turn, upsets>>

\* ... and removes it; a request of more than two minutes is dropped.
Claim(s) ==
  /\ On(s, "unlink")
  /\ Unlink
  /\ at' = IF claimed.fresh THEN "act" ELSE "trade"
  /\ UNCHANGED <<router, desk, pos, ask, turn, claimed, upsets>>

-----------------------------------------------------------------------------
\* Manual opens pass the regime and the limit whatever the trading mode; the
\* position waits for its strategy to agree.
Act(s) ==
  LET o == claimed.order
      filled == IF challenge[o].intent = "CLOSE" THEN {Flat}
                ELSE {Opened(side, "strategy_handoff") : side \in Sides[s]}
      allowed == IF challenge[o].intent = "CLOSE" THEN Held(pos[s])
                 ELSE ~Held(pos[s]) /\ ~Blocks(ctx[s]) /\ Room(s)
  IN /\ On(s, "act")
     /\ \/ allowed /\ \E p \in filled : pos' = [pos EXCEPT ![s] = p]
        \/ UNCHANGED pos
     /\ owed' = [owed EXCEPT ![o] = @ - 1]
     /\ NextPair
     /\ UNCHANGED <<router, challenge, click, file, clicks, written, desk, ask,
                    upsets>>

\* Entries of the strategy that pass the gates, with the context after routing.
Entries(s) ==
  IF ~Blocks(ctx'[s]) /\ Room(s)
  THEN {Opened(side, "strategy") : side \in Sides[s]} ELSE {}

\* full_auto carries an entry out, or finds none.
FullAuto(s) ==
  /\ desk.mode = "full_auto"
  /\ \E p \in {Flat} \cup Entries(s) : pos' = [pos EXCEPT ![s] = p]
  /\ UNCHANGED ask

\* semi_auto: a confirmed ask is bought with no gate left to pass; any entry
\* signal asks, and a short one is carried out as well.
SemiAuto(s) ==
  /\ desk.mode = "semi_auto"
  /\ \/ /\ ask[s] = "confirmed"
        /\ pos' = [pos EXCEPT ![s] = Opened("long", "strategy")]
        /\ ask' = [ask EXCEPT ![s] = "none"]
     \/ \E p \in {Flat} \cup Entries(s) :
          /\ \E q \in {Flat} \cup ({p} \cap {Opened("short", "strategy")}) :
               pos' = [pos EXCEPT ![s] = q]
          /\ ask' = [ask EXCEPT ![s] =
                       IF @ = "asked" \/ (@ = "none" /\ Held(p)) THEN "asked"
                       ELSE "none"]

\* The strategy keeps, closes or reverses its position; a manual position only
\* waits to be handed over.
Manage(s, p) ==
  /\ \/ pos' = [pos EXCEPT ![s] = p]
     \/ p.mode = "strategy_handoff" /\ pos' = [pos EXCEPT ![s].mode = "strategy"]
     \/ p.mode = "strategy" /\ pos' = [pos EXCEPT ![s] = Flat]
     \/ /\ p.mode = "strategy"
        /\ Opened(Opposite(p.side), "strategy") \in Entries(s)
        /\ pos' = [pos EXCEPT ![s] = Opened(Opposite(p.side), "strategy")]
  /\ UNCHANGED ask

\* Mutant: the forced close ignores who manages the position.
ForcedAlways(s, g) ==
  IF ForcesClose(ctx[s], g, Held(pos[s])) THEN {pos[s], Flat} ELSE {pos[s]}
\* What is left of the position when the router has spoken.
Forced(s, g) ==
  IF ForcesClose(ctx[s], g, Held(pos[s])) /\ pos[s].mode = "strategy"
  THEN {pos[s], Flat} ELSE {pos[s]}

Decide(s, p) == IF Held(p) THEN Manage(s, p) ELSE FullAuto(s) \/ SemiAuto(s)

\* The rest of the pair's tick; candle says that a new candle is routed.
Trade(s, candle) ==
  /\ On(s, "trade")
  /\ IF candle
     THEN /\ s \in desk.routed
          /\ \E g \in Regimes, sure \in BOOLEAN :
               /\ Route(s, g, sure, Held(pos[s]))
               /\ \E p \in Forced(s, g) : Decide(s, p)
     ELSE UNCHANGED router /\ Decide(s, pos[s])
  /\ NextPair
  /\ UNCHANGED <<orders, desk, upsets>>

-----------------------------------------------------------------------------
\* Taps carry no pair: the first one with an ask, in the order of the contexts.
First(s) ==
  /\ ask[s] /= "none"
  /\ \E i \in DOMAIN Order :
       Order[i] = s /\ \A j \in 1..(i - 1) : ask[Order[j]] = "none"

TapConfirm(s) ==
  /\ First(s)
  /\ ask[s] = "asked"
  /\ ask' = [ask EXCEPT ![s] = "confirmed"]
  /\ UNCHANGED <<router, orders, desk, pos, turn, at, claimed, upsets>>

TapSkip(s) ==
  /\ First(s)
  /\ ask' = [ask EXCEPT ![s] = "none"]
  /\ UNCHANGED <<router, orders, desk, pos, turn, at, claimed, upsets>>

\* semi_auto_confirm_timeout_seconds: a late ask is dropped by the next tick
\* that finds the pair flat, confirmed or not.
AskExpires(s) ==
  /\ ask[s] \in {"asked", "confirmed"}
  /\ ask' = [ask EXCEPT ![s] = "late"]
  /\ UNCHANGED <<router, orders, desk, pos, turn, at, claimed, upsets>>

\* tick: the whitelist file has changed.
HotReload ==
  /\ turn = 1 /\ at = "look"
  /\ upsets > 0
  /\ upsets' = upsets - 1
  /\ Reload
  /\ UNCHANGED <<orders, desk, pos, ask, turn, at, claimed>>

\* The engine dies and starts again: contexts and asks are gone, the position
\* row and the request file are not.
EngineCrash ==
  /\ upsets > 0
  /\ upsets' = upsets - 1
  /\ Forget
  /\ ask' = [s \in Symbols |-> "none"]
  /\ turn' = 1 /\ at' = "look" /\ claimed' = NoFile
  /\ UNCHANGED <<orders, desk, pos>>

Web ==
  /\ Control
  /\ UNCHANGED <<router, desk, pos, ask, turn, at, claimed, upsets>>

Engine ==
  \E s \in Symbols :
    \/ Skip(s) \/ StopHit(s) \/ Look(s) \/ Claim(s) \/ Act(s)
    \/ \E candle \in BOOLEAN : Trade(s, candle)

Owner == \E s \in Symbols : TapConfirm(s) \/ TapSkip(s) \/ AskExpires(s)

Next == Engine \/ Owner \/ Web \/ HotReload \/ EngineCrash

Spec == Init /\ [][Next]_vars

-----------------------------------------------------------------------------
TypeOK ==
  /\ RouterTypeOK /\ OrdersTypeOK
  /\ desk \in Desks
  /\ pos \in [Symbols -> Position]
  /\ ask \in [Symbols -> {"none", "asked", "confirmed", "late"}]
  /\ turn \in 1..Len(Order) /\ at \in {"look", "unlink", "act", "trade"}
  /\ claimed \in Files
  /\ upsets \in 0..desk.upsets

\* A confirmed order is put to the engine under one idempotency key, and the
\* engine runs it at most as often as the web application has written the file,
\* whatever two requests, a claim and a crash do to each other (order_confirm,
\* confirm_challenge, claim_manual_order_request).
OneOrderPerConfirmation ==
  \A o \in Challenges : owed[o] >= 0 /\ Cardinality(written[o]) <= 1

Opens(s) == Held(pos'[s]) /\ pos'[s].side /= pos[s].side
\* A buy the owner has confirmed by Telegram is carried out.
BuysConfirmed(s) == ask[s] = "confirmed" /\ ask'[s] = "none"

\* No entry, manual, automatic or reversing, takes the engine past
\* max_open_positions, except a buy that was confirmed by Telegram, which
\* passes no gate (the three places of loop.py that count open positions).
LimitHolds ==
  [][\A s \in Symbols :
       Opens(s) /\ Cardinality({o \in Symbols : Held(pos'[o])}) > MaxOpen
         => BuysConfirmed(s)]_vars

\* A pair whose confirmed regime forbids trading is not entered, by its strategy
\* or by hand, unless a handoff has ended in that regime, which reopens it
\* (loop.py:1885-1911), or the owner has confirmed a buy by Telegram.
ForbiddenPairStaysOut ==
  [][\A s \in Symbols :
       Opens(s) /\ Forbids(ctx'[s]) => settled'[s] \/ BuysConfirmed(s)]_vars

\* A position is managed by the strategy that managed it the tick before: the
\* router changes the strategy of a pair only without a position.  A changed
\* whitelist and a restart do change it (_init_pair_runtime).
OwnerManages ==
  [][\A s \in Symbols :
       Held(pos[s]) /\ Held(pos'[s]) /\ ctx'[s].strategy /= ctx[s].strategy
         => upsets' /= upsets]_vars

\* A position opened by hand is left alone by the router's forced close and by
\* its strategy until they agree: before that only its stop or another manual
\* order ends it (loop.py:1985-1989, 2070-2107).
ManualPositionWaits ==
  [][\A s \in Symbols :
       pos[s].mode = "strategy_handoff" /\ pos'[s].side /= pos[s].side
         => at \in {"look", "act"}]_vars
=============================================================================
