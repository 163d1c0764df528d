---------------------------- MODULE RegimeRouter ----------------------------
(***************************************************************************)
(* The regime router of the engine (engine/regime_router.py and            *)
(* regime_debounce.py): which strategy a pair runs, and when it may not    *)
(* enter at all.  It advances once per closed candle.                      *)
(***************************************************************************)
EXTENDS Integers

CONSTANTS
  Symbols,           \* active pairs
  Regimes,           \* labels of the classifier
  Strategies,        \* strategy plugins
  Target,            \* the strategy a regime is mapped to, or None
  Configured,        \* the strategy the registry gives each pair
  Debounce,          \* debounce_candles
  RecoveryCandles,   \* recovery_candles
  ForceCloseCandles, \* force_close_candles
  InstantWhenFlat    \* instant_switch_when_flat

None == "none"

ASSUME RouterAssumption ==
  /\ None \notin Regimes \cup Strategies
  /\ Target \in [Regimes -> Strategies \cup {None}]
  /\ Configured \in [Symbols -> Strategies]
  /\ Debounce \in Nat \ {0} /\ RecoveryCandles \in Nat \ {0}
  /\ ForceCloseCandles \in Nat
  /\ InstantWhenFlat \in BOOLEAN

VARIABLES
  ctx,     \* the fields of SymbolContext the router writes
  settled  \* history: the handoff ended while the regime forbade trading

\* bad and good are no_trade_candle_count and no_trade_recovery_count, to is
\* handoff_to_strategy.  The code has one more phase, NO_TRADE, behind a branch
\* that is never taken: in NO_TRADE_PENDING the recovery has returned before.
Context ==
  [strategy : Strategies, confirmed : Regimes \cup {None},
   pending : Regimes \cup {None}, seen : Nat,
   phase : {"ACTIVE", "NO_TRADE_PENDING", "HANDOFF"},
   bad : Nat, good : Nat, to : Strategies \cup {None}]

\* SymbolContext.from_spec
Fresh(s) ==
  [strategy |-> Configured[s], confirmed |-> None, pending |-> None, seen |-> 0,
   phase |-> "ACTIVE", bad |-> 0, good |-> 0, to |-> None]

RouterInit ==
  /\ ctx = [s \in Symbols |-> Fresh(s)]
  /\ settled = [s \in Symbols |-> FALSE]

\* Mutant: a no-trade phase that is only pending lets entries through.
BlocksHandoffOnly(c) == c.phase = "HANDOFF"
\* blocks_new_entries
Blocks(c) == c.phase \in {"NO_TRADE_PENDING", "HANDOFF"}

Forbids(c) == c.confirmed /= None /\ Target[c.confirmed] = None

-----------------------------------------------------------------------------
\* RegimeDebouncer.update: a regime is confirmed by its consecutive candles, or
\* at once; the regime that stands already is never confirmed again.
Debounced(c, g, now) ==
  LET seen == IF g = c.pending THEN c.seen + 1 ELSE 1
  IN  IF g = c.confirmed THEN [c EXCEPT !.pending = None, !.seen = 0]
      ELSE IF now \/ seen >= Debounce
           THEN [c EXCEPT !.confirmed = g, !.pending = None, !.seen = 0]
           ELSE [c EXCEPT !.pending = g, !.seen = seen]
Confirms(c, g, now) == g /= c.confirmed /\ Debounced(c, g, now).confirmed = g

\* Mutant: the target is cleared before it is read.
ClearedFirst(c, held) ==
  IF c.phase = "HANDOFF" /\ ~held
  THEN [c EXCEPT !.strategy = None, !.phase = "ACTIVE", !.to = None] ELSE c
\* The loop ends a handoff at the first candle without a position.
Completed(c, held) ==
  IF c.phase = "HANDOFF" /\ ~held
  THEN [c EXCEPT !.strategy = c.to, !.phase = "ACTIVE", !.to = None]
  ELSE c

Active(c, strategy) ==
  [c EXCEPT !.strategy = strategy, !.phase = "ACTIVE", !.bad = 0, !.good = 0,
            !.to = None]

\* Mutant: the new strategy takes over although the old one holds a position.
SwitchesWhileHeld(c, t, held) == Active(c, t)
\* A confirmed regime whose strategy is t, in a phase where trading is allowed.
Assigned(c, t, held) ==
  IF t = c.strategy \/ ~held THEN Active(c, t)
  ELSE [c EXCEPT !.phase = "HANDOFF", !.bad = 0, !.good = 0, !.to = t]

\* _handle_no_trade_recovery: candles that count toward the forced close.  Only
\* the comparison with the limit matters, so the count stops just above it.
Longer(c) == IF c.bad > ForceCloseCandles THEN c.bad ELSE c.bad + 1

\* RegimeRouter.evaluate on a confirmed regime: d is the debounced context.
Decided(c, d, t, held) ==
  LET out == c.phase = "NO_TRADE_PENDING"
      need == IF InstantWhenFlat /\ ~held THEN 1 ELSE RecoveryCandles
  IN IF t = None
     THEN IF out THEN [d EXCEPT !.bad = Longer(c)]
          ELSE IF c.phase = "ACTIVE"
               THEN [d EXCEPT !.phase = "NO_TRADE_PENDING", !.bad = 0, !.good = 0]
               ELSE d
     ELSE IF out /\ c.good + 1 < need THEN [d EXCEPT !.good = c.good + 1]
          ELSE Assigned(d, t, held)

\* The confidence gate applies to a switch between strategies, never to a
\* regime that forbids trading.
Suppressed(c, t, sure) == t \notin {None, c.strategy} /\ ~sure

Evaluated(c, g, held, sure) ==
  LET now == InstantWhenFlat /\ ~held
      d == Debounced(c, g, now)
  IN IF ~Confirms(c, g, now) THEN d
     ELSE IF Suppressed(c, Target[g], sure)
          THEN [d EXCEPT !.confirmed = IF c.confirmed = None THEN g ELSE c.confirmed]
          ELSE Decided(c, d, Target[g], held)

\* The candle on which evaluate asks for a forced close.
ForcesClose(c, g, held) ==
  /\ held
  /\ Confirms(c, g, FALSE)
  /\ Target[g] = None
  /\ c.phase = "NO_TRADE_PENDING"
  /\ c.bad + 1 > ForceCloseCandles

\* One closed candle of a routed pair: g is its regime, sure whether the
\* classifier's confidence passes the gate.
Route(s, g, sure, held) ==
  LET c == Completed(ctx[s], held)
      n == Evaluated(c, g, held, sure)
  IN /\ ctx' = [ctx EXCEPT ![s] = n]
     /\ settled' = [settled EXCEPT ![s] =
                      Forbids(n) /\ ~Blocks(n) /\ (@ \/ c /= ctx[s])]

\* _init_pair_runtime after a change of the whitelist: contexts are kept, their
\* strategy is the configured one again.
Reload ==
  /\ ctx' = [s \in Symbols |-> [ctx[s] EXCEPT !.strategy = Configured[s]]]
  /\ UNCHANGED settled

\* The engine starts again: contexts are in memory only.
Forget ==
  /\ ctx' = [s \in Symbols |-> Fresh(s)]
  /\ settled' = [s \in Symbols |-> FALSE]

RouterTypeOK ==
  /\ ctx \in [Symbols -> Context]
  /\ settled \in [Symbols -> BOOLEAN]
=============================================================================
