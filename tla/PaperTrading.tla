---------------------------- MODULE PaperTrading ----------------------------
(***************************************************************************)
(* Simulation mode, the mode a new installation and a new pilot trade in:  *)
(* the SimBroker (engine/brokers/sim_broker.py), whose file holds the      *)
(* virtual cash and one ledger per pair, and the engine's own trade_states *)
(* and closed_trades, written after the broker by the same thread.  The    *)
(* broker writes cash and ledgers in one file write, the engine its row in *)
(* another database; nothing ties the two together.                        *)
(*                                                                         *)
(* A fill is at the close of the newest candle, the exit rules look at the *)
(* ticker: both are choices.  A strategy may ask for an exit at any tick.  *)
(* Amounts are integers and the constants are chosen so that every         *)
(* division below is exact.                                                *)
(***************************************************************************)
EXTENDS Integers, Sequences, FiniteSetsExt, Functions

CONSTANTS
  Symbols,     \* the pairs in simulation mode, which share one file
  Sides,       \* allowed_sides of a pair
  Prices,      \* prices of a unit
  Sizes,       \* quantities an entry may come to
  Capital,     \* initial_balance
  FeeDivisor,  \* one part in FeeDivisor of a notional is the fee
  Leverage,    \* of a short
  Exits,       \* exit settings of a strategy: fixed take-profit and partial
               \* take-profit in percent (0 is off), the minimal_roi ladder
  Ages,        \* ages of a position, as the ladder counts them
  MaxFunding,  \* bound: funding charged to one ledger
  MaxOpens,    \* bound: entries in one behaviour
  MaxUpsets    \* bound: writes that fail and deaths of the engine

\* The rung of the ladder for a position of that age, 0 when there is none.
Rung(ladder, age) ==
  LET reached == {i \in DOMAIN ladder : ladder[i].age <= age}
  IN IF reached = {} THEN 0 ELSE ladder[Max(reached)].roi

ASSUME PaperAssumption ==
  /\ IsFiniteSet(Symbols)
  /\ Sides \in [Symbols -> SUBSET {"long", "short"}]
  /\ FeeDivisor \in Nat \ {0} /\ Leverage \in Nat \ {0}
  /\ Prices \subseteq {p \in Nat \ {0} : p % FeeDivisor = 0 /\ p % Leverage = 0}
  /\ Sizes \subseteq Nat \ {0}
  /\ Ages \subseteq Nat
  /\ {Capital, MaxFunding, MaxOpens, MaxUpsets} \subseteq Nat
  /\ Exits \subseteq [profit : Nat, partial : Nat,
                      ladder : Seq([age : Nat, roi : Nat \ {0}])]
  \* validate_exit_config refuses to start with any other settings.
  /\ \A e \in Exits : e.partial = 0 \/ Rung(e.ladder, 0) = 0
                      \/ Rung(e.ladder, 0) > e.partial

VARIABLES
  cash,    \* the quote balance in the broker's file
  saved,   \* the ledgers in the broker's file
  ledger,  \* SimBroker._ledgers: the ledgers in memory
  row,     \* trade_states
  booked,  \* the sum of net_pnl over closed_trades
  job,     \* what the engine still has to write after a fill of the broker; for
           \* an entry the step is named after its side
  exits,   \* the exit settings of this engine
  opens, upsets, \* what the bounds still allow
  funded,  \* history: funding the broker has taken out of the cash
  torn     \* history: the two halves of an order came apart

file == <<cash, saved, ledger, funded>>
db == <<row, booked>>
budget == <<opens, upsets>>
vars == <<file, db, job, exits, budget, torn>>

Flat == [side |-> "flat", entry |-> 0, qty |-> 0, banked |-> FALSE]
NoLedger == [side |-> "long", entry |-> 0, qty |-> 0, margin |-> 0, funding |-> 0]
NoJob == [step |-> "none", pair |-> "none", qty |-> 0, price |-> 0]

Held(s) == row[s].side /= "flat"
Fee(notional) == notional \div FeeDivisor

Init ==
  /\ cash = Capital /\ funded = 0 /\ booked = 0
  /\ saved = [s \in Symbols |-> NoLedger]
  /\ ledger = saved
  /\ row = [s \in Symbols |-> Flat]
  /\ job = NoJob
  /\ exits \in Exits
  /\ opens = MaxOpens /\ upsets = MaxUpsets
  /\ torn = FALSE

-----------------------------------------------------------------------------
(* The broker.                                                              *)

Upset == upsets > 0 /\ upsets' = upsets - 1

\* The ledgers change in memory, then cash and ledgers go to the file in one
\* write; when that fails the order ends in an exception.
Written(new, amount, charge, next) ==
  /\ ledger' = new
  /\ \/ /\ saved' = new
        /\ cash' = cash + amount
        /\ funded' = funded + charge
        /\ job' = next
        /\ UNCHANGED <<upsets, torn>>
     \/ /\ Upset
        /\ torn' = TRUE
        /\ UNCHANGED <<saved, cash, funded, job>>

\* execute_buy and execute_open: a short ties up a margin, a long its price.
Opened(side, q, p) ==
  [side |-> side, entry |-> p, qty |-> q,
   margin |-> IF side = "short" THEN (q * p) \div Leverage ELSE 0, funding |-> 0]
Cost(side, q, p) ==
  Fee(q * p) + IF side = "short" THEN (q * p) \div Leverage ELSE q * p

Open(s, side, q, p) ==
  /\ job = NoJob
  /\ opens > 0 /\ opens' = opens - 1
  /\ ~Held(s)
  /\ cash >= Cost(side, q, p)
  /\ ledger[s].qty = 0
  /\ Written([ledger EXCEPT ![s] = Opened(side, q, p)], 0 - Cost(side, q, p), 0,
             [step |-> side, pair |-> s, qty |-> q, price |-> p])
  /\ UNCHANGED <<db, exits>>

\* The part of the margin and of the funding that q units of a short take along.
Margin(l, q) == (l.margin * q) \div l.qty
Funding(l, q) == (l.funding * q) \div l.qty

\* Mutant: the margin of a covered part stays reserved.
MarginKept(l, q) == [l EXCEPT !.qty = @ - q]
\* Mutant: a part of a short closes the whole ledger.
AllCovered(l, q) == [l EXCEPT !.qty = 0, !.margin = 0]
Covered(l, q) ==
  [l EXCEPT !.qty = @ - q, !.margin = @ - Margin(l, q),
            !.funding = IF q = l.qty THEN Funding(l, q) ELSE @ - Funding(l, q)]

\* Mutant: a close is not cut to what the ledger holds.
Uncut(m, n) == m
\* qty = min(qty, ledger.quantity)
Lesser(m, n) == IF m < n THEN m ELSE n

\* execute_close: a long is sold without a look at its ledger, which is empty
\* afterwards whatever was sold; a short needs its ledger and is covered up to it.
\* A full exit books what was covered, a partial one what it asked for.
BrokerCloses(s, q, p, next) ==
  LET l == ledger[s]
      part == Lesser(q, l.qty)
      gain == (row[s].entry - p) * part - Fee(part * p) - Funding(l, part)
  IN \/ /\ row[s].side = "long"
        /\ Written([ledger EXCEPT ![s].qty = 0], q * p - Fee(q * p), 0, next)
     \/ /\ row[s].side = "short"
        /\ l.qty > 0 /\ l.side = "short"
        /\ Written([ledger EXCEPT ![s] = Covered(l, part)], Margin(l, part) + gain,
                   Funding(l, part),
                   IF next.step = "closed" THEN [next EXCEPT !.qty = part] ELSE next)

\* update_unrealized, at every tick of a position: eight hours may have gone by
\* for a short, and every ledger is written again.  A failure is ignored.
MarkToMarket(s, periods) ==
  LET l == ledger[s]
      due == IF l.side = "short" THEN periods * Fee(l.entry * l.qty) ELSE 0
  IN /\ job = NoJob
     /\ Held(s) /\ l.qty > 0
     /\ l.funding + due <= MaxFunding
     /\ ledger' = [ledger EXCEPT ![s].funding = @ + due]
     /\ \/ saved' = ledger' /\ UNCHANGED upsets
        \/ Upset /\ UNCHANGED saved
     /\ UNCHANGED <<cash, funded, db, job, exits, opens, torn>>

-----------------------------------------------------------------------------
(* The engine: which exit, and what it writes once the broker has filled.   *)

Gain(s, price) ==
  IF row[s].side = "short" THEN row[s].entry - price ELSE price - row[s].entry
Reached(s, price, percent) ==
  percent > 0 /\ Gain(s, price) * 100 >= percent * row[s].entry

\* _apply_fixed_tp_exit and _apply_minimal_roi_exit turn any signal into a SELL.
Sells(s, price, age) ==
  Reached(s, price, exits.profit) \/ Reached(s, price, Rung(exits.ladder, age))

\* A full exit, whose trigger may be the strategy, a stop, a take-profit, the
\* ladder, the router or an order by hand.
Close(s, p) ==
  /\ job = NoJob
  /\ Held(s)
  /\ BrokerCloses(s, row[s].qty, p,
       [step |-> "closed", pair |-> s, qty |-> row[s].qty, price |-> p])
  /\ UNCHANGED <<db, exits, opens>>

\* Half the position is banked, once, unless it is too small to split.
Half(s) == row[s].qty \div 2
PartialDue(s, price, age) ==
  /\ job = NoJob
  /\ Held(s) /\ ~row[s].banked
  /\ Reached(s, price, exits.partial)
  /\ ~Sells(s, price, age)

Bank(s, price, age, p) ==
  /\ PartialDue(s, price, age)
  /\ Half(s) > 0
  /\ BrokerCloses(s, Half(s), p,
       [step |-> "banked", pair |-> s, qty |-> Half(s), price |-> p])
  /\ UNCHANGED <<db, exits, opens>>

TooSmall(s, price, age) ==
  /\ PartialDue(s, price, age)
  /\ Half(s) = 0
  /\ row' = [row EXCEPT ![s].banked = TRUE]
  /\ UNCHANGED <<file, booked, job, exits, budget, torn>>

\* net_pnl of q units closed at p, both fees included.
Net(s, q, p) ==
  (IF row[s].side = "short" THEN row[s].entry - p ELSE p - row[s].entry) * q
  - Fee(row[s].entry * q) - Fee(p * q)

Then(step) == IF step = "done" THEN NoJob ELSE [job EXCEPT !.step = step]

\* save_trade_state of a new position.
SaveOpened(s) ==
  /\ job.pair = s
  /\ job.step \in {"long", "short"}
  /\ row' = [row EXCEPT ![s] = [side |-> job.step, entry |-> job.price,
                                qty |-> job.qty, banked |-> FALSE]]
  /\ job' = Then("done")
  /\ UNCHANGED <<file, booked, exits, budget, torn>>

\* close_position_atomic, or a closed trade for the part that was covered.
BookClosed(s) ==
  /\ job.pair = s /\ job.step = "closed"
  /\ booked' = booked + Net(s, job.qty, job.price)
  /\ IF job.qty < row[s].qty THEN UNCHANGED row /\ job' = Then("rest")
     ELSE row' = [row EXCEPT ![s] = Flat] /\ job' = Then("done")
  /\ UNCHANGED <<file, exits, budget, torn>>

\* The closed trade of a partial take-profit; whether it was written is not
\* looked at.
BookBanked(s) ==
  /\ job.pair = s /\ job.step = "banked"
  /\ \/ booked' = booked + Net(s, job.qty, job.price) /\ UNCHANGED <<upsets, torn>>
     \/ Upset /\ torn' = TRUE /\ UNCHANGED booked
  /\ job' = Then("half")
  /\ UNCHANGED <<file, row, exits, opens>>

\* save_trade_state of what is left.
SaveRest(s) ==
  /\ job.pair = s /\ job.step \in {"rest", "half"}
  /\ row' = [row EXCEPT ![s].qty = @ - job.qty,
                        ![s].banked = @ \/ job.step = "half"]
  /\ job' = Then("done")
  /\ UNCHANGED <<file, booked, exits, budget, torn>>

\* The database refuses one of these writes: the engine goes on to its next tick.
WriteFails(s) ==
  /\ job.pair = s /\ job.step /= "banked"
  /\ Upset
  /\ torn' = TRUE
  /\ job' = NoJob
  /\ UNCHANGED <<file, db, exits, opens>>

\* The engine dies and starts again with the ledgers of the file.
EngineDies ==
  /\ Upset
  /\ ledger' = saved
  /\ torn' = (torn \/ job /= NoJob)
  /\ job' = NoJob
  /\ UNCHANGED <<cash, saved, funded, db, exits, opens>>

Broker(s) ==
  \/ \E side \in Sides[s], q \in Sizes, p \in Prices : Open(s, side, q, p)
  \/ \E p \in Prices : Close(s, p)
  \/ \E periods \in 0..1 : MarkToMarket(s, periods)
  \/ \E price \in Prices, age \in Ages :
       \/ TooSmall(s, price, age)
       \/ \E p \in Prices : Bank(s, price, age, p)

Database(s) ==
  \/ SaveOpened(s) \/ BookClosed(s) \/ BookBanked(s) \/ SaveRest(s)
  \/ WriteFails(s)

Next == EngineDies \/ \E s \in Symbols : Broker(s) \/ Database(s)

Spec == Init /\ [][Next]_vars
-----------------------------------------------------------------------------
Ledger == [side : {"long", "short"}, entry : Nat, qty : Nat, margin : Nat,
           funding : Nat]
Row == [side : {"flat", "long", "short"}, entry : Nat, qty : Nat,
        banked : BOOLEAN]
Job == [step : {"long", "short", "closed", "rest", "banked", "half"},
        pair : Symbols, qty : Nat \ {0}, price : Prices]

TypeOK ==
  /\ cash \in Int /\ booked \in Int /\ funded \in Nat
  /\ saved \in [Symbols -> Ledger] /\ ledger \in [Symbols -> Ledger]
  /\ row \in [Symbols -> Row]
  /\ job \in {NoJob} \cup Job
  /\ exits \in Exits
  /\ opens \in Nat /\ upsets \in Nat
  /\ torn \in BOOLEAN

Settled == job = NoJob /\ ~torn

\* The virtual money of an open position and the fee it was opened with.
Tied(s) ==
  Fee(row[s].entry * row[s].qty)
  + IF row[s].side = "short" THEN saved[s].margin ELSE row[s].entry * row[s].qty

\* Between two orders the broker's cash is what the engine's own books say it
\* should be: the capital, the profit of the closed trades, less the funding and
\* what the open positions tie up.  Broker and engine compute both sides apart,
\* through partial exits, several pairs on one file and restarts.
CashExplained ==
  Settled =>
    cash = Capital + booked - funded - SumFunction([s \in Symbols |-> Tied(s)])

\* As long as no order was torn, a flat pair can be entered and a short can be
\* closed: the broker refuses an entry beside a ledger and a close without one,
\* and nothing reconciles the two.  The ledger of a long is lost with its first
\* part, which neither refuses anything nor counts in the equity.
LedgersFollowRows ==
  Settled =>
    \A s \in Symbols :
      /\ ~Held(s) => ledger[s].qty = 0
      /\ row[s].side = "short" =>
           /\ ledger[s].side = "short" /\ ledger[s].qty = row[s].qty
           /\ ledger[s].entry = row[s].entry
      /\ row[s].side = "long" => ledger[s].qty \in {0, row[s].qty}
      /\ \A field \in {"side", "entry", "qty", "margin"} :
           saved[s][field] = ledger[s][field]
=============================================================================
