------------------------- MODULE TradingDeskProofs -------------------------
(***************************************************************************)
(* What holds of TradingDesk for every set of pairs, regimes, strategies   *)
(* and requests, every mapping and every limit.                            *)
(***************************************************************************)
EXTENDS TradingDesk, FiniteSetTheorems, TLAPS

-----------------------------------------------------------------------------
(* The router. *)

\* A handoff knows the strategy it leads to.
Targeted(c) == c.phase = "HANDOFF" => c.to \in Strategies

\* A regime that forbids trading blocks entries.
Shut(c) == Forbids(c) => Blocks(c)

LEMMA NoneApart == None \notin Regimes /\ None \notin Strategies
  BY RouterAssumption

\* The end of a handoff.
LEMMA CompletedType ==
  ASSUME NEW c \in Context, Targeted(c), NEW held \in BOOLEAN
  PROVE  /\ Completed(c, held) \in Context /\ Targeted(Completed(c, held))
         /\ Completed(c, held).confirmed = c.confirmed
         /\ Completed(c, held) = c \/ ~held
  BY DEF Completed, Context, Targeted

\* The debouncer writes three fields, and a regime it confirms is the new one.
LEMMA DebouncedType ==
  ASSUME NEW c \in Context, NEW g \in Regimes, NEW now \in BOOLEAN
  PROVE  LET d == Debounced(c, g, now) IN
         /\ d \in Context
         /\ d.strategy = c.strategy /\ d.phase = c.phase /\ d.to = c.to
         /\ d.bad = c.bad /\ d.good = c.good
         /\ d.confirmed \in {c.confirmed, g}
<1> DEFINE seen == IF g = c.pending THEN c.seen + 1 ELSE 1
           same == [c EXCEPT !.pending = None, !.seen = 0]
           new == [c EXCEPT !.confirmed = g, !.pending = None, !.seen = 0]
           more == [c EXCEPT !.pending = g, !.seen = seen]
<1>1. seen \in Nat
  BY DEF Context
<1> HIDE DEF seen
<1> DEFINE Good(d) ==
             /\ d \in Context
             /\ d.strategy = c.strategy /\ d.phase = c.phase /\ d.to = c.to
             /\ d.bad = c.bad /\ d.good = c.good
             /\ d.confirmed \in {c.confirmed, g}
<1>2. Good(same)
  BY DEF Context
<1>4. Good(new)
  BY DEF Context
<1>5. Good(more)
  BY <1>1 DEF Context
<1> HIDE DEF same, new, more, Good
<1>3. Debounced(c, g, now) \in {same, new, more}
  BY Zenon DEF Debounced, same, new, more, seen
<1>6. Good(Debounced(c, g, now))
  BY <1>2, <1>3, <1>4, <1>5
<1> QED BY <1>6 DEF Good

\* A regime that allows trading.
LEMMA AssignedType ==
  ASSUME NEW c \in Context, NEW t \in Strategies, NEW held \in BOOLEAN
  PROVE  LET a == Assigned(c, t, held) IN
         /\ a \in Context /\ Targeted(a)
         /\ a.confirmed = c.confirmed
         /\ held => a.strategy = c.strategy
  BY DEF Assigned, Active, Context, Targeted

\* A confirmed regime: it blocks entries if it forbids trading, and moves no
\* position to another strategy.
LEMMA DecidedType ==
  ASSUME NEW c \in Context, Targeted(c), NEW g \in Regimes,
         NEW now \in BOOLEAN, NEW held \in BOOLEAN,
         Confirms(c, g, now)
  PROVE  LET e == Decided(c, Debounced(c, g, now), Target[g], held) IN
         /\ e \in Context /\ Targeted(e) /\ Shut(e)
         /\ held => e.strategy = c.strategy
<1> DEFINE d == Debounced(c, g, now)
           t == Target[g]
           e == Decided(c, d, t, held)
<1>1. /\ d \in Context /\ d.strategy = c.strategy /\ d.phase = c.phase
      /\ d.to = c.to /\ d.bad = c.bad /\ d.good = c.good /\ d.confirmed = g
  BY DebouncedType DEF Confirms
<1>2. t \in Strategies \cup {None}
  BY RouterAssumption
<1> HIDE DEF d
<1>3. CASE t = None
  <2>1. c.bad \in Nat /\ Longer(c) \in Nat
    BY DEF Longer, Context
  <2>2. e \in {[d EXCEPT !.bad = Longer(c)], d,
               [d EXCEPT !.phase = "NO_TRADE_PENDING", !.bad = 0, !.good = 0]}
    BY <1>3, Zenon DEF Decided
  <2>3. e \in Context
    <3>1. d \in Context /\ [d EXCEPT !.bad = Longer(c)] \in Context
      BY <1>1, <2>1 DEF Context
    <3>2. [d EXCEPT !.phase = "NO_TRADE_PENDING", !.bad = 0, !.good = 0] \in Context
      BY <1>1 DEF Context
    <3> QED BY <2>2, <3>1, <3>2, Zenon
  <2>4. e.strategy = c.strategy /\ Blocks(e)
    BY <1>1, <1>3 DEF Decided, Blocks, Context
  <2>5. Targeted(e)
    BY <1>1, <1>3 DEF Decided, Targeted, Context
  <2> QED BY <2>3, <2>4, <2>5 DEF Shut, d
<1>4. CASE t /= None
  <2>1. t \in Strategies
    BY <1>2, <1>4
  <2>2. c.good \in Nat
    BY DEF Context
  <2>3. e = Assigned(d, t, held) \/ e = [d EXCEPT !.good = c.good + 1]
    BY <1>4, Zenon DEF Decided
  <2>4. CASE e = Assigned(d, t, held)
    <3>1. /\ e \in Context /\ Targeted(e) /\ e.confirmed = g
          /\ held => e.strategy = c.strategy
      BY <1>1, <2>1, <2>4, AssignedType
    <3>2. ~Forbids(e)
      BY <1>4, <3>1 DEF Forbids
    <3> QED BY <3>1, <3>2 DEF Shut, d
  <2>5. CASE e = [d EXCEPT !.good = c.good + 1]
    <3>1. e \in Context /\ e.phase = c.phase /\ e.to = c.to
            /\ e.strategy = c.strategy /\ e.confirmed = g
      BY <1>1, <2>2, <2>5 DEF Context
    <3>2. ~Forbids(e)
      BY <1>4, <3>1 DEF Forbids
    <3> QED BY <3>1, <3>2 DEF Shut, Targeted, d
  <2> QED BY <2>3, <2>4, <2>5
<1> QED BY <1>3, <1>4

\* A routed candle: entries are blocked in a regime that forbids trading unless
\* nothing but the debouncer's counts has changed.
LEMMA EvaluatedType ==
  ASSUME NEW c \in Context, Targeted(c), NEW g \in Regimes,
         NEW held \in BOOLEAN, NEW sure \in BOOLEAN
  PROVE  LET n == Evaluated(c, g, held, sure) IN
         /\ n \in Context /\ Targeted(n)
         /\ Shut(n) \/ (n.confirmed = c.confirmed /\ n.phase = c.phase)
         /\ held => n.strategy = c.strategy
<1> DEFINE now == InstantWhenFlat /\ ~held
           d == Debounced(c, g, now)
           n == Evaluated(c, g, held, sure)
<1>1. now \in BOOLEAN
  BY RouterAssumption
<1>2. /\ d \in Context /\ d.strategy = c.strategy /\ d.phase = c.phase
      /\ d.to = c.to /\ d.confirmed \in {c.confirmed, g}
  BY <1>1, DebouncedType
<1>3. CASE ~Confirms(c, g, now)
  <2>1. n = d /\ d.confirmed = c.confirmed
    BY <1>2, <1>3 DEF Evaluated, Confirms
  <2> QED BY <1>2, <2>1 DEF Targeted
<1>4. CASE Confirms(c, g, now) /\ Suppressed(c, Target[g], sure)
  <2> HIDE DEF d
  <2>1. n = [d EXCEPT !.confirmed = IF c.confirmed = None THEN g ELSE c.confirmed]
    BY <1>4, Zenon DEF Evaluated, d
  <2>2. /\ n \in Context /\ n.strategy = c.strategy /\ n.phase = c.phase
        /\ n.to = c.to
        /\ n.confirmed = IF c.confirmed = None THEN g ELSE c.confirmed
    BY <1>2, <2>1 DEF Context
  <2>3. Target[g] /= None
    BY <1>4 DEF Suppressed
  <2>4. Shut(n) \/ n.confirmed = c.confirmed
    BY <2>2, <2>3 DEF Shut, Forbids
  <2> QED BY <2>2, <2>4 DEF Targeted
<1>5. CASE Confirms(c, g, now) /\ ~Suppressed(c, Target[g], sure)
  <2>1. n = Decided(c, d, Target[g], held)
    BY <1>5, Zenon DEF Evaluated
  <2>2. /\ Decided(c, d, Target[g], held) \in Context
        /\ Targeted(Decided(c, d, Target[g], held))
        /\ Shut(Decided(c, d, Target[g], held))
        /\ held => Decided(c, d, Target[g], held).strategy = c.strategy
    <3> HIDE DEF now
    <3> QED BY <1>1, <1>5, DecidedType
  <2> HIDE DEF n, d
  <2>3. n \in Context /\ Targeted(n) /\ Shut(n) /\ (held => n.strategy = c.strategy)
    BY <2>1, <2>2, Zenon
  <2> QED BY <2>3 DEF n
<1> QED BY <1>3, <1>4, <1>5

RouterInv ==
  /\ RouterTypeOK
  /\ \A s \in Symbols : Targeted(ctx[s]) /\ (Shut(ctx[s]) \/ settled[s])

\* A routed candle touches one pair, and its strategy only without a position.
LEMMA RouteStep ==
  ASSUME RouterInv, NEW s \in Symbols, NEW g \in Regimes, NEW sure \in BOOLEAN,
         NEW held \in BOOLEAN, Route(s, g, sure, held)
  PROVE  /\ RouterInv'
         /\ held => ctx'[s].strategy = ctx[s].strategy
         /\ \A o \in Symbols \ {s} : ctx'[o] = ctx[o]
<1> DEFINE c == Completed(ctx[s], held)
           n == Evaluated(c, g, held, sure)
           open == Forbids(n) /\ ~Blocks(n) /\ (settled[s] \/ c /= ctx[s])
<1>1. ctx[s] \in Context /\ Targeted(ctx[s]) /\ (Shut(ctx[s]) \/ settled[s])
  BY DEF RouterInv, RouterTypeOK
<1>2. /\ c \in Context /\ Targeted(c) /\ c.confirmed = ctx[s].confirmed
      /\ c = ctx[s] \/ ~held
  BY <1>1, CompletedType
<1> HIDE DEF c
<1>3. /\ n \in Context /\ Targeted(n)
      /\ Shut(n) \/ (n.confirmed = c.confirmed /\ n.phase = c.phase)
      /\ held => n.strategy = c.strategy
  BY <1>2, EvaluatedType
<1> HIDE DEF n
<1>4. /\ ctx' = [ctx EXCEPT ![s] = n]
      /\ settled' = [settled EXCEPT ![s] = open]
  BY Zenon DEF Route, c, n
<1>5. open \in BOOLEAN
  BY Zenon DEF Forbids, Blocks
<1>6. Shut(n) \/ open
  <2>1. ASSUME ~Shut(n), c = ctx[s] PROVE settled[s]
    <3>1. n.confirmed = ctx[s].confirmed /\ n.phase = ctx[s].phase
      BY <1>3, <2>1
    <3> QED BY <1>1, <2>1, <3>1, Zenon DEF Shut, Forbids, Blocks
  <2> QED BY <2>1, Zenon DEF Shut
<1> HIDE DEF open
<1>7. /\ ctx' \in [Symbols -> Context] /\ settled' \in [Symbols -> BOOLEAN]
      /\ ctx'[s] = n /\ settled'[s] = open
      /\ \A o \in Symbols \ {s} : ctx'[o] = ctx[o] /\ settled'[o] = settled[o]
  BY <1>3, <1>4, <1>5, Zenon DEF RouterInv, RouterTypeOK
<1>8. \A o \in Symbols : Targeted(ctx'[o]) /\ (Shut(ctx'[o]) \/ settled'[o])
  BY <1>3, <1>6, <1>7, Zenon DEF RouterInv
<1>9. RouterInv'
  BY <1>7, <1>8 DEF RouterInv, RouterTypeOK, Targeted, Shut, Forbids, Blocks
<1> QED BY <1>1, <1>2, <1>3, <1>7, <1>9

\* A whitelist that changes gives the pairs back their configured strategies.
LEMMA ReloadStep == RouterInv /\ Reload => RouterInv'
<1> SUFFICES ASSUME RouterInv, Reload PROVE RouterInv'
  OBVIOUS
<1>1. \A s \in Symbols : ctx[s] \in Context /\ Configured[s] \in Strategies
  BY RouterAssumption DEF RouterInv, RouterTypeOK
<1>2. \A s \in Symbols : ctx'[s] = [ctx[s] EXCEPT !.strategy = Configured[s]]
  BY DEF Reload
<1>3. \A s \in Symbols :
        /\ ctx'[s] \in Context /\ ctx'[s].phase = ctx[s].phase
        /\ ctx'[s].to = ctx[s].to /\ ctx'[s].confirmed = ctx[s].confirmed
  <2> TAKE s \in Symbols
  <2>1. ctx[s] \in Context /\ Configured[s] \in Strategies
    BY <1>1
  <2>2. ctx'[s] = [ctx[s] EXCEPT !.strategy = Configured[s]]
    BY <1>2
  <2> QED BY <2>1, <2>2 DEF Context
<1>4. ctx' \in [Symbols -> Context] /\ settled' = settled
  BY <1>2, <1>3, Zenon DEF Reload
<1>5. \A s \in Symbols : Targeted(ctx'[s]) /\ (Shut(ctx'[s]) \/ settled'[s])
  BY <1>3, <1>4 DEF RouterInv, Targeted, Shut, Forbids, Blocks
<1> QED BY <1>4, <1>5 DEF RouterInv, RouterTypeOK, Targeted, Shut, Forbids, Blocks

\* Contexts are built anew when the engine starts.
LEMMA FreshStep ==
  ASSUME NEW s \in Symbols
  PROVE  Fresh(s) \in Context /\ Targeted(Fresh(s)) /\ Shut(Fresh(s))
<1>1. Configured[s] \in Strategies
  BY RouterAssumption
<1> QED BY <1>1 DEF Fresh, Context, Targeted, Shut, Forbids

LEMMA RouterInitInv == RouterInit => RouterInv
  BY FreshStep DEF RouterInit, RouterInv, RouterTypeOK

LEMMA ForgetStep == Forget => RouterInv'
<1> SUFFICES ASSUME Forget PROVE RouterInv'
  OBVIOUS
<1>1. /\ ctx' \in [Symbols -> Context] /\ settled' \in [Symbols -> BOOLEAN]
      /\ \A s \in Symbols : ctx'[s] = Fresh(s)
  BY FreshStep DEF Forget
<1>2. \A s \in Symbols : Targeted(ctx'[s]) /\ Shut(ctx'[s])
  BY <1>1, FreshStep, Zenon
<1> QED BY <1>1, <1>2 DEF RouterInv, RouterTypeOK, Targeted, Shut, Forbids, Blocks

-----------------------------------------------------------------------------
(* The orders. *)

Running(o) == challenge[o].status \in {"confirmed", "queued"}

\* A request past its confirmation carries the key of its challenge.
Carries(k) ==
  click[k].at \in {"confirmed", "written"} =>
    /\ click[k].order \in Challenges /\ click[k].key \in Keys
    /\ Running(click[k].order)
    /\ challenge[click[k].order].key = click[k].key

Atomic(k) ==
  click[k].at /= "idle" => click[k].order \in Challenges /\ click[k].key \in Keys

\* Only the key of a confirmed challenge has been written.
Bound(o) == written[o] \subseteq {challenge[o].key} /\ (written[o] /= {} => Running(o))

OrdersInv ==
  /\ OrdersTypeOK
  /\ \A k \in Clicks : Carries(k) /\ Atomic(k)
  /\ \A o \in Challenges : Bound(o)

\* A step of the web application.
LEMMA ControlStep ==
  ASSUME OrdersInv, Control
  PROVE  /\ OrdersInv'
         /\ \A o \in Challenges :
              \/ owed'[o] = owed[o] /\ (file'.order = o => file.order = o)
              \/ owed'[o] = owed[o] + 1
<1> USE DEF OrdersInv, OrdersTypeOK, Rows, Requests
<1>1. ASSUME NEW o \in Challenges, Preview(o)
      PROVE  OrdersInv' /\ owed' = owed /\ file' = file
  <2>1. PICK p \in Pairs, i \in Intents :
          challenge' = [challenge EXCEPT ![o] =
                          [status |-> "draft", key |-> NoKey, fresh |-> TRUE,
                           pair |-> p, intent |-> i]]
    BY <1>1 DEF Preview
  <2>2. OrdersTypeOK'
    BY <1>1, <2>1 DEF Preview
  <2>3. ~Running(o)
    BY <1>1 DEF Preview, Running
  <2>4. \A q \in Challenges : Running(q) => challenge'[q] = challenge[q]
    BY <2>1, <2>3
  <2> QED BY <1>1, <2>2, <2>3, <2>4 DEF Preview, Carries, Atomic, Bound, Running
<1>2. ASSUME NEW o \in Challenges, PreviewExpires(o)
      PROVE  OrdersInv' /\ owed' = owed /\ file' = file
  <2>1. OrdersTypeOK'
    <3>1. [challenge[o] EXCEPT !.fresh = FALSE] \in Rows
      BY DEF Rows
    <3>2. challenge' \in [Challenges -> Rows]
      BY <1>2, <3>1, Zenon DEF PreviewExpires
    <3> QED BY <1>2, <3>2 DEF PreviewExpires
  <2>2. \A q \in Challenges : /\ challenge'[q].status = challenge[q].status
                              /\ challenge'[q].key = challenge[q].key
    BY <1>2 DEF PreviewExpires
  <2> QED BY <1>2, <2>1, <2>2 DEF PreviewExpires, Carries, Atomic, Bound, Running
<1>3. ASSUME NEW k \in Clicks, NEW o \in Challenges, NEW key \in Keys,
             Check(k, o, key)
      PROVE  OrdersInv' /\ owed' = owed /\ file' = file
  <2>1. OrdersTypeOK'
    BY <1>3, OrdersAssumption DEF Check
  <2> QED BY <1>3, <2>1 DEF Check, Carries, Atomic, Bound, Running
<1>4. ASSUME NEW k \in Clicks, Confirm(k)
      PROVE  OrdersInv' /\ owed' = owed /\ file' = file
  <2> DEFINE o == click[k].order
             key == click[k].key
  <2>1. o \in Challenges /\ key \in Keys
    BY <1>4 DEF Confirm, Atomic
  <2>2. CASE UNCHANGED challenge /\ click' = [click EXCEPT ![k] = Free]
    BY <1>4, <2>2 DEF Confirm, Free, Carries, Atomic, Bound, Running
  <2>3. CASE /\ SameKey(o, key) /\ UNCHANGED challenge
             /\ click' = [click EXCEPT ![k].at = "confirmed"]
    BY <1>4, <2>1, <2>3 DEF Confirm, SameKey, Carries, Atomic, Bound, Running
  <2>4. CASE /\ challenge[o].status = "draft"
             /\ challenge' = [challenge EXCEPT ![o].status = "confirmed", ![o].key = key]
             /\ click' = [click EXCEPT ![k].at = "confirmed"]
    <3>1. challenge' \in [Challenges -> Rows]
      BY <2>1, <2>4 DEF Rows
    <3>2. OrdersTypeOK'
      BY <1>4, <2>4, <3>1 DEF Confirm
    <3>3. /\ \A q \in Challenges \ {o} : challenge'[q] = challenge[q]
          /\ challenge'[o].status = "confirmed" /\ challenge'[o].key = key
      BY <2>1, <2>4
    <3>4. written[o] = {} /\ ~Running(o) /\ written' = written
      BY <1>4, <2>1, <2>4 DEF Bound, Running, Confirm
    <3>5. /\ \A l \in Clicks \ {k} : click'[l] = click[l]
          /\ click'[k].at = "confirmed" /\ click'[k].order = o /\ click'[k].key = key
      BY <2>4
    <3>6. \A q \in Challenges : Bound(q)'
      BY <3>3, <3>4 DEF Bound, Running
    <3>7. \A l \in Clicks : Carries(l)' /\ Atomic(l)'
      BY <2>1, <3>3, <3>4, <3>5 DEF Carries, Atomic, Running
    <3> QED BY <1>4, <3>2, <3>6, <3>7 DEF Confirm
  <2> QED BY <1>4, <2>2, <2>3, <2>4, Zenon DEF Confirm
<1>5. ASSUME NEW k \in Clicks, Write(k)
      PROVE  /\ OrdersInv'
             /\ \A o \in Challenges :
                  \/ owed'[o] = owed[o] /\ (file'.order = o => file.order = o)
                  \/ owed'[o] = owed[o] + 1
  <2> DEFINE o == click[k].order
  <2>1. /\ o \in Challenges /\ Running(o) /\ challenge[o].key = click[k].key
        /\ challenge[o].key \in Keys \cup {NoKey}
    BY <1>5 DEF Write, Carries
  <2>2. CASE click' = [click EXCEPT ![k] = Free] /\ UNCHANGED <<file, written, owed>>
    BY <1>5, <2>2 DEF Write, Free, Carries, Atomic, Bound, Running
  <2>3. CASE /\ file' = [order |-> o, fresh |-> TRUE]
             /\ written' = [written EXCEPT ![o] = @ \cup {click[k].key}]
             /\ owed' = [owed EXCEPT ![o] = @ + 1]
             /\ click' = [click EXCEPT ![k].at = "written"]
    <3>1. click[k].key \in Keys
      BY <1>5 DEF Write, Carries
    <3>2. OrdersTypeOK'
      BY <1>5, <2>1, <2>3, <3>1 DEF Write, Files
    <3> QED BY <1>5, <2>1, <2>3, <3>2 DEF Write, Carries, Atomic, Bound, Running
  <2> QED BY <1>5, <2>2, <2>3, Zenon DEF Write
<1>6. ASSUME NEW k \in Clicks, Queue(k)
      PROVE  OrdersInv' /\ owed' = owed /\ file' = file
  <2>1. click[k].order \in Challenges /\ Running(click[k].order)
    BY <1>6 DEF Queue, Carries
  <2>2. OrdersTypeOK'
    <3> DEFINE o == click[k].order
               new == IF challenge[o].key = click[k].key THEN "queued"
                      ELSE challenge[o].status
    <3>1. challenge[o] \in Rows /\ new \in {"none", "draft", "confirmed", "queued"}
      BY <2>1 DEF Rows
    <3>2. challenge' = [challenge EXCEPT ![o].status = new]
      BY <1>6 DEF Queue
    <3> HIDE DEF new
    <3>3. [challenge[o] EXCEPT !.status = new] \in Rows
      BY <3>1 DEF Rows
    <3>4. challenge' \in [Challenges -> Rows]
      BY <3>2, <3>3, Zenon
    <3>5. Free \in Requests
      BY DEF Free, Requests
    <3>6. click' \in [Clicks -> Requests]
      BY <1>6, <3>5, Zenon DEF Queue
    <3> QED BY <1>6, <3>4, <3>6 DEF Queue
  <2>3. \A q \in Challenges :
          /\ challenge'[q].key = challenge[q].key
          /\ Running(q) => challenge'[q].status \in {"confirmed", "queued"}
    BY <1>6, <2>1 DEF Queue, Running
  <2>4. /\ \A l \in Clicks \ {k} : click'[l] = click[l]
        /\ click'[k].at = "idle"
    BY <1>6 DEF Queue, Free
  <2>5. \A q \in Challenges : Bound(q)'
    BY <1>6, <2>3 DEF Queue, Bound, Running
  <2>6. \A l \in Clicks : Carries(l)' /\ Atomic(l)'
    BY <2>3, <2>4 DEF Carries, Atomic, Running
  <2> QED BY <1>6, <2>2, <2>5, <2>6 DEF Queue
<1>7. ASSUME FileAges \/ ControlDies
      PROVE  OrdersInv' /\ owed' = owed /\ file'.order = file.order
  <2>1. CASE FileAges
    <3>1. file' \in Files /\ file'.order = file.order
      BY <2>1 DEF FileAges, Files
    <3> QED BY <2>1, <3>1 DEF FileAges, Carries, Atomic, Bound, Running
  <2>2. CASE ControlDies
    <3>1. /\ click' \in [Clicks -> Requests]
          /\ \A k \in Clicks : click'[k].at = "idle"
      BY <2>2 DEF ControlDies, Free
    <3> QED BY <2>2, <3>1 DEF ControlDies, Carries, Atomic, Bound, Running
  <2> QED BY <1>7, <2>1, <2>2
<1> QED BY <1>1, <1>2, <1>3, <1>4, <1>5, <1>6, <1>7, Zenon DEF Control

-----------------------------------------------------------------------------
(* The desk. *)

DeskInv ==
  /\ desk \in Desks
  /\ pos \in [Symbols -> Position]
  /\ ask \in [Symbols -> {"none", "asked", "confirmed", "late"}]
  /\ turn \in 1..Len(Order) /\ at \in {"look", "unlink", "act", "trade"}
  /\ claimed \in Files
  /\ upsets \in 0..desk.upsets
  /\ \A s \in Symbols : Held(pos[s]) \/ pos[s] = Flat

\* What a tick may do to the position of pair s.
Fair(s) ==
  /\ pos[s].mode = "strategy_handoff" /\ pos'[s].side /= pos[s].side
       => at \in {"look", "act"}
  /\ Opens(s) => \/ BuysConfirmed(s)
                 \/ /\ ~Blocks(ctx'[s]) /\ Room(s)
                    /\ \A o \in Symbols \ {s} : pos'[o] = pos[o]

\* What a flat pair may turn to: r, an entry that has passed the gates or a buy
\* that was confirmed.
Bought(s, r) ==
  /\ pos' = [pos EXCEPT ![s] = r]
  /\ \/ r \in {Flat} \cup Entries(s)
     \/ /\ r = Opened("long", "strategy")
        /\ ask[s] = "confirmed"
        /\ ask' = [ask EXCEPT ![s] = "none"]
Asks == [Symbols -> {"none", "asked", "confirmed", "late"}]

LEMMA NextPairType ==
  ASSUME DeskInv, NextPair
  PROVE  turn' \in 1..Len(Order) /\ at' = "look" /\ claimed' \in Files
<1>1. Len(Order) \in Nat \ {0}
  BY DeskAssumption
<1>2. turn' \in 1..Len(Order)
  BY <1>1 DEF NextPair, DeskInv
<1> QED BY <1>2 DEF NextPair, NoFile, Files

\* The decisions of a tick: entries pass the gates or were confirmed, and a
\* position opened by hand keeps its side.
LEMMA DecideStep ==
  ASSUME DeskInv, NEW s \in Symbols, NEW p \in Position,
         p = pos[s] \/ (p = Flat /\ pos[s].mode = "strategy"), Decide(s, p)
  PROVE  /\ pos' \in [Symbols -> Position]
         /\ ask' \in [Symbols -> {"none", "asked", "confirmed", "late"}]
         /\ \A o \in Symbols : Held(pos'[o]) \/ pos'[o] = Flat
         /\ \A o \in Symbols \ {s} : pos'[o] = pos[o]
         /\ Opens(s) => BuysConfirmed(s) \/ (~Blocks(ctx'[s]) /\ Room(s))
         /\ pos[s].mode = "strategy_handoff" => pos'[s].side = pos[s].side
<1> DEFINE q == pos'[s]
<1>1. \A e \in Entries(s) :
        /\ e \in Position /\ Held(e) /\ e.mode = "strategy"
        /\ ~Blocks(ctx'[s]) /\ Room(s)
  <2>1. Sides[s] \subseteq {"long", "short"}
    BY DeskAssumption
  <2> QED BY <2>1 DEF Entries, Opened, Held, Position
<1>2. Flat \in Position /\ ~Held(Flat) /\ Flat.mode = "strategy"
  BY DEF Flat, Position, Held
<1>3. pos[s] \in Position /\ (Held(pos[s]) \/ pos[s] = Flat)
  BY DEF DeskInv
<1>4. CASE Held(p)
  <2>1. p = pos[s] /\ UNCHANGED ask
    BY <1>2, <1>4 DEF Decide, Manage
  <2>2. PICK r : /\ pos' = [pos EXCEPT ![s] = r]
                 /\ \/ r = p
                    \/ r = [p EXCEPT !.mode = "strategy"]
                    \/ p.mode = "strategy" /\ r = Flat
                    \/ p.mode = "strategy" /\ r \in Entries(s)
    BY <1>4, <2>1 DEF Decide, Manage, DeskInv
  <2>3. /\ r \in Position /\ (Held(r) \/ r = Flat)
        /\ p.mode = "strategy_handoff" => r.side = p.side
        /\ r.side = p.side \/ ~Held(r) \/ r \in Entries(s)
    <3>1. p.mode \in {"strategy", "strategy_handoff"}
      BY DEF Position
    <3>2. CASE r = p
      BY <1>4, <3>2
    <3>3. CASE r = [p EXCEPT !.mode = "strategy"]
      BY <1>4, <3>3 DEF Position, Held
    <3>4. CASE p.mode = "strategy" /\ r = Flat
      BY <1>2, <3>4
    <3>5. CASE p.mode = "strategy" /\ r \in Entries(s)
      BY <1>1, <3>5
    <3> QED BY <2>2, <3>2, <3>3, <3>4, <3>5
  <2>4. /\ pos' \in [Symbols -> Position] /\ q = r
        /\ \A o \in Symbols \ {s} : pos'[o] = pos[o]
    BY <2>2, <2>3 DEF DeskInv
  <2> QED BY <1>1, <2>1, <2>3, <2>4 DEF DeskInv, Opens
<1>5. CASE ~Held(p)
  <2>1. pos[s].mode = "strategy"
    BY <1>2, <1>3, <1>5
  <2>2. ASSUME FullAuto(s) PROVE (\E r : Bought(s, r)) /\ ask' \in Asks
    <3>1. \E r : Bought(s, r)
      BY <2>2, Zenon DEF FullAuto, Bought
    <3> QED BY <2>2, <3>1 DEF FullAuto, DeskInv, Asks
  <2>3. ASSUME SemiAuto(s) PROVE (\E r : Bought(s, r)) /\ ask' \in Asks
    <3>1. ASSUME /\ ask[s] = "confirmed"
                 /\ pos' = [pos EXCEPT ![s] = Opened("long", "strategy")]
                 /\ ask' = [ask EXCEPT ![s] = "none"]
          PROVE  (\E x : Bought(s, x)) /\ ask' \in Asks
      <4>1. \E r : Bought(s, r)
        BY <3>1, Zenon DEF Bought
      <4> QED BY <3>1, <4>1 DEF DeskInv, Asks
    <3>2. ASSUME NEW e \in {Flat} \cup Entries(s),
                 NEW r \in {Flat} \cup ({e} \cap {Opened("short", "strategy")}),
                 NEW a \in {"asked", "none"},
                 pos' = [pos EXCEPT ![s] = r], ask' = [ask EXCEPT ![s] = a]
          PROVE  (\E x : Bought(s, x)) /\ ask' \in Asks
      <4>1. r \in {Flat} \cup Entries(s)
        BY <3>2, Zenon
      <4>2. \E x : Bought(s, x)
        BY <3>2, <4>1, Zenon DEF Bought
      <4>3. ask' \in Asks
        BY <3>2 DEF DeskInv, Asks
      <4> QED BY <4>2, <4>3
    <3> QED BY <2>3, <3>1, <3>2, Zenon DEF SemiAuto
  <2>4. FullAuto(s) \/ SemiAuto(s)
    BY <1>5, Zenon DEF Decide
  <2>5. (\E r : Bought(s, r)) /\ ask' \in Asks
    <3> QED BY <2>2, <2>3, <2>4, Zenon
  <2>6. PICK r : Bought(s, r)
    BY <2>5, Zenon
  <2>7. r \in Position /\ (Held(r) \/ r = Flat)
    BY <1>1, <1>2, <2>6 DEF Opened, Position, Held, Bought
  <2>8. /\ pos' \in [Symbols -> Position] /\ q = r
        /\ \A o \in Symbols \ {s} : pos'[o] = pos[o]
    BY <2>6, <2>7 DEF DeskInv, Bought
  <2>9. Held(r) => BuysConfirmed(s) \/ (~Blocks(ctx'[s]) /\ Room(s))
    <3>1. CASE r \in {Flat} \cup Entries(s)
      BY <1>1, <1>2, <3>1
    <3>2. CASE ask[s] = "confirmed" /\ ask' = [ask EXCEPT ![s] = "none"]
      BY <3>2 DEF BuysConfirmed, DeskInv
    <3> QED BY <2>6, <3>1, <3>2 DEF Bought
  <2> QED BY <2>1, <2>5, <2>7, <2>8, <2>9 DEF DeskInv, Opens, Asks
<1> QED BY <1>4, <1>5

\* Every pair is where it was.
LEMMA StillFair == UNCHANGED pos => \A s \in Symbols : Fair(s)
  BY DEF Fair, Opens

\* The rest of a pair's tick.
LEMMA TradeStep ==
  ASSUME RouterInv, DeskInv, NEW s \in Symbols, NEW candle \in BOOLEAN,
         Trade(s, candle)
  PROVE  /\ RouterInv' /\ DeskInv'
         /\ \A o \in Symbols : Fair(o)
         /\ \A o \in Symbols : Held(pos[o]) => ctx'[o].strategy = ctx[o].strategy
<1>1. PICK p \in {pos[s], Flat} :
        /\ p = Flat => p = pos[s] \/ pos[s].mode = "strategy"
        /\ Decide(s, p)
        /\ \/ UNCHANGED router
           \/ \E g \in Regimes, sure \in BOOLEAN : Route(s, g, sure, Held(pos[s]))
  BY Zenon DEF Trade, Forced
<1>2. Held(pos[s]) \in BOOLEAN
  BY DEF Held
<1>3. /\ RouterInv'
      /\ \A o \in Symbols : Held(pos[o]) => ctx'[o].strategy = ctx[o].strategy
  <2>1. CASE UNCHANGED router
    BY <2>1 DEF router, RouterInv, RouterTypeOK, Targeted, Shut, Forbids, Blocks
  <2>2. ASSUME NEW g \in Regimes, NEW sure \in BOOLEAN,
               Route(s, g, sure, Held(pos[s]))
        PROVE  /\ RouterInv'
               /\ \A o \in Symbols : Held(pos[o]) => ctx'[o].strategy = ctx[o].strategy
    <3> HIDE DEF RouterInv
    <3> QED BY <1>2, <2>2, RouteStep
  <2> QED BY <1>1, <2>1, <2>2
<1>4. p \in Position /\ (p = pos[s] \/ (p = Flat /\ pos[s].mode = "strategy"))
  BY <1>1 DEF DeskInv, Flat, Position
<1>5. /\ pos' \in [Symbols -> Position]
      /\ ask' \in [Symbols -> {"none", "asked", "confirmed", "late"}]
      /\ \A o \in Symbols : Held(pos'[o]) \/ pos'[o] = Flat
      /\ \A o \in Symbols \ {s} : pos'[o] = pos[o]
      /\ Opens(s) => BuysConfirmed(s) \/ (~Blocks(ctx'[s]) /\ Room(s))
      /\ pos[s].mode = "strategy_handoff" => pos'[s].side = pos[s].side
  BY <1>1, <1>4, DecideStep
<1>6. NextPair /\ UNCHANGED <<desk, upsets>>
  BY Zenon DEF Trade
<1>7. DeskInv'
  BY <1>5, <1>6, NextPairType DEF DeskInv
<1>8. \A o \in Symbols : Fair(o)
  BY <1>5 DEF Fair, Opens
<1> QED BY <1>3, <1>7, <1>8

\* What the engine owes for order o: it has not run it more often than the file
\* was written, and a request on its way is one it may still run.
Owes(o) ==
  /\ owed[o] >= 0
  /\ file.order = o => owed[o] >= 1
  /\ at = "unlink" /\ claimed.order = o => owed[o] >= 1
  /\ at = "act" /\ claimed.order = o =>
       owed[o] >= 1 /\ (file.order = o => owed[o] >= 2)

DeskSafe ==
  /\ RouterInv /\ OrdersInv /\ DeskInv
  /\ \A o \in Challenges : Owes(o)

\* A step that leaves the orders alone.
LEMMA OrdersKept == OrdersInv /\ UNCHANGED orders => OrdersInv'
  BY DEF orders, OrdersInv, OrdersTypeOK, Carries, Atomic, Bound, Running

LEMMA RouterKept == RouterInv /\ UNCHANGED router => RouterInv'
  BY DEF router, RouterInv, RouterTypeOK, Targeted, Shut, Forbids, Blocks

\* What every step respects.
Stepped ==
  /\ DeskSafe'
  /\ \A s \in Symbols :
       /\ Fair(s)
       /\ Held(pos[s]) /\ ctx'[s].strategy /= ctx[s].strategy => upsets' /= upsets

\* The steps of a tick before the decision.
LEMMA TickStep ==
  ASSUME DeskSafe, NEW s \in Symbols,
         Skip(s) \/ StopHit(s) \/ Look(s) \/ Claim(s) \/ Act(s)
  PROVE  Stepped
<1> USE DEF DeskSafe
<1>1. CASE Skip(s)
  <2>1. OrdersInv' /\ RouterInv'
    BY <1>1, OrdersKept, RouterKept DEF Skip
  <2>2. DeskInv'
    BY <1>1, NextPairType DEF Skip, DeskInv
  <2>3. \A o \in Challenges : Owes(o)'
    BY <1>1, NextPairType DEF Skip, Owes, orders
  <2> QED BY <1>1, <2>1, <2>2, <2>3, StillFair DEF Skip, Stepped, router
<1>2. CASE StopHit(s)
  <2>1. OrdersInv' /\ RouterInv'
    BY <1>2, OrdersKept, RouterKept DEF StopHit
  <2>2. Flat \in Position /\ ~Held(Flat)
    BY DEF Flat, Position, Held
  <2>3. DeskInv'
    BY <1>2, <2>2 DEF StopHit, DeskInv
  <2>4. \A o \in Challenges : Owes(o)'
    BY <1>2 DEF StopHit, Owes, orders
  <2>5. \A o \in Symbols : Fair(o)
    BY <1>2, <2>2 DEF StopHit, On, Fair, Opens, DeskInv
  <2> QED BY <1>2, <2>1, <2>3, <2>4, <2>5 DEF StopHit, Stepped, router
<1>3. CASE Look(s)
  <2>1. OrdersInv' /\ RouterInv'
    BY <1>3, OrdersKept, RouterKept DEF Look
  <2>2. NoFile \in Files /\ file \in Files
    BY DEF NoFile, Files, OrdersInv, OrdersTypeOK
  <2>3. \/ at' = "unlink" /\ claimed' = file
        \/ at' = "trade" /\ claimed' = NoFile
    BY <1>3 DEF Look
  <2>4. DeskInv'
    BY <1>3, <2>2, <2>3 DEF Look, DeskInv
  <2>5. \A o \in Challenges : Owes(o)'
    BY <1>3, <2>3 DEF Look, Owes, orders
  <2> QED BY <1>3, <2>1, <2>4, <2>5, StillFair DEF Look, Stepped, router
<1>4. CASE Claim(s)
  <2>1. RouterInv'
    BY <1>4, RouterKept DEF Claim
  <2>2. NoFile \in Files /\ \A o \in Challenges : NoFile.order /= o
    BY OrdersAssumption DEF NoFile, Files
  <2>3. OrdersInv'
    BY <1>4, <2>2 DEF Claim, Unlink, OrdersInv, OrdersTypeOK, Carries, Atomic,
                      Bound, Running
  <2>4. DeskInv'
    BY <1>4 DEF Claim, DeskInv
  <2>5. \A o \in Challenges : Owes(o)'
    BY <1>4, <2>2 DEF Claim, On, Unlink, Owes
  <2> QED BY <1>4, <2>1, <2>3, <2>4, <2>5, StillFair DEF Claim, Stepped, router
<1>5. CASE Act(s)
  <2>1. RouterInv'
    BY <1>5, RouterKept DEF Act
  <2>2. /\ owed' = [owed EXCEPT ![claimed.order] = @ - 1] /\ at = "act"
        /\ UNCHANGED <<challenge, click, file, clicks, written, desk, upsets>>
        /\ NextPair /\ UNCHANGED router /\ UNCHANGED ask
    BY <1>5 DEF Act, On
  <2>3. OrdersInv'
    <3>1. owed' \in [Challenges -> Int]
      <4> DEFINE less == [owed EXCEPT ![claimed.order] = @ - 1]
      <4>1. owed \in [Challenges -> Int]
        BY DEF OrdersInv, OrdersTypeOK
      <4>2. DOMAIN less = Challenges /\ less = [o \in Challenges |-> less[o]]
        BY <4>1, Zenon
      <4>3. \A o \in Challenges : less[o] \in Int
        BY <4>1
      <4> HIDE DEF less
      <4>4. less \in [Challenges -> Int]
        BY <4>2, <4>3, Zenon
      <4> QED BY <2>2, <4>4, Zenon DEF less
    <3> QED BY <2>2, <3>1 DEF OrdersInv, OrdersTypeOK, Carries, Atomic, Bound,
                              Running
  <2>4. /\ at' = "look" /\ claimed' \in Files /\ turn' \in 1..Len(Order)
    BY <2>2, NextPairType
  <2>5. \A o \in Challenges : Owes(o)'
    BY <2>2, <2>4 DEF Owes, OrdersInv, OrdersTypeOK
  <2>6. \/ UNCHANGED pos
        \/ /\ Held(pos[s])
           /\ pos' = [pos EXCEPT ![s] = Flat]
        \/ /\ ~Held(pos[s]) /\ ~Blocks(ctx[s]) /\ Room(s)
           /\ \E side \in Sides[s] :
                pos' = [pos EXCEPT ![s] = Opened(side, "strategy_handoff")]
    BY <1>5 DEF Act
  <2>7. PICK p : \/ UNCHANGED pos
                 \/ /\ pos' = [pos EXCEPT ![s] = p]
                    /\ p \in Position /\ (Held(p) \/ p = Flat)
                    /\ Held(p) => ~Blocks(ctx[s]) /\ Room(s)
    <3>1. Sides[s] \subseteq {"long", "short"}
      BY DeskAssumption
    <3>2. Flat \in Position /\ ~Held(Flat)
      BY DEF Flat, Position, Held
    <3>3. \A side \in Sides[s] :
            /\ Opened(side, "strategy_handoff") \in Position
            /\ Held(Opened(side, "strategy_handoff"))
      BY <3>1 DEF Opened, Position, Held
    <3> QED BY <2>6, <3>2, <3>3, Zenon
  <2>8. DeskInv'
    BY <2>2, <2>4, <2>7 DEF DeskInv
  <2>9. \A o \in Symbols : Fair(o)
    BY <2>2, <2>7 DEF Fair, Opens, DeskInv, router
  <2> QED BY <2>1, <2>2, <2>3, <2>5, <2>8, <2>9 DEF Stepped, router
<1> QED BY <1>1, <1>2, <1>3, <1>4, <1>5

\* Any step.
LEMMA NextStep == DeskSafe /\ [Next]_vars => Stepped \/ UNCHANGED vars
<1> SUFFICES ASSUME DeskSafe, Next PROVE Stepped
  OBVIOUS
<1>1. ASSUME NEW s \in Symbols, NEW candle \in BOOLEAN, Trade(s, candle)
      PROVE  Stepped
  <2>1. /\ RouterInv' /\ DeskInv'
        /\ \A o \in Symbols : Fair(o)
        /\ \A o \in Symbols : Held(pos[o]) => ctx'[o].strategy = ctx[o].strategy
    BY <1>1, TradeStep DEF DeskSafe
  <2>2. NextPair /\ UNCHANGED orders /\ UNCHANGED upsets
    BY <1>1, Zenon DEF Trade
  <2>3. OrdersInv'
    BY <2>2, OrdersKept DEF DeskSafe
  <2>4. \A o \in Challenges : Owes(o)'
    BY <2>2, NextPairType DEF DeskSafe, Owes, orders
  <2> QED BY <2>1, <2>3, <2>4 DEF Stepped, DeskSafe
<1>2. ASSUME NEW s \in Symbols, TapConfirm(s) \/ TapSkip(s) \/ AskExpires(s)
      PROVE  Stepped
  <2>1. /\ UNCHANGED <<router, orders, desk, pos, turn, at, claimed, upsets>>
        /\ ask' \in [Symbols -> {"none", "asked", "confirmed", "late"}]
    BY <1>2 DEF TapConfirm, TapSkip, AskExpires, DeskSafe, DeskInv
  <2>2. OrdersInv' /\ RouterInv'
    BY <2>1, OrdersKept, RouterKept DEF DeskSafe
  <2>3. DeskInv'
    BY <2>1 DEF DeskSafe, DeskInv
  <2>4. \A o \in Challenges : Owes(o)'
    BY <2>1 DEF DeskSafe, Owes, orders
  <2> QED BY <2>1, <2>2, <2>3, <2>4, StillFair DEF Stepped, DeskSafe, router
<1>3. CASE Web
  <2>1. UNCHANGED <<router, desk, pos, ask, turn, at, claimed, upsets>>
    BY <1>3 DEF Web
  <2>2. /\ OrdersInv'
        /\ \A o \in Challenges :
             \/ owed'[o] = owed[o] /\ (file'.order = o => file.order = o)
             \/ owed'[o] = owed[o] + 1
    BY <1>3, ControlStep DEF Web, DeskSafe
  <2>3. RouterInv'
    BY <2>1, RouterKept DEF DeskSafe
  <2>4. DeskInv'
    BY <2>1 DEF DeskSafe, DeskInv
  <2>5. \A o \in Challenges : Owes(o)'
    <3> TAKE o \in Challenges
    <3>1. owed[o] \in Int /\ owed'[o] \in Int
      BY <2>2 DEF DeskSafe, OrdersInv, OrdersTypeOK
    <3> QED BY <2>1, <2>2, <3>1 DEF DeskSafe, Owes
  <2> QED BY <2>1, <2>2, <2>3, <2>4, <2>5, StillFair DEF Stepped, DeskSafe, router
<1>4. CASE HotReload
  <2>1. /\ UNCHANGED <<orders, desk, pos, ask, turn, at, claimed>>
        /\ Reload /\ upsets > 0 /\ upsets' = upsets - 1
    BY <1>4 DEF HotReload
  <2>2. OrdersInv' /\ RouterInv'
    BY <2>1, OrdersKept, ReloadStep DEF DeskSafe
  <2>3. DeskInv' /\ upsets' /= upsets
    BY <2>1, DeskAssumption DEF DeskSafe, DeskInv
  <2>4. \A o \in Challenges : Owes(o)'
    BY <2>1 DEF DeskSafe, Owes, orders
  <2> QED BY <2>1, <2>2, <2>3, <2>4, StillFair DEF Stepped, DeskSafe
<1>5. CASE EngineCrash
  <2>1. /\ UNCHANGED <<orders, desk, pos>> /\ Forget
        /\ upsets > 0 /\ upsets' = upsets - 1
        /\ ask' = [s \in Symbols |-> "none"]
        /\ turn' = 1 /\ at' = "look" /\ claimed' = NoFile
    BY <1>5 DEF EngineCrash
  <2>2. OrdersInv' /\ RouterInv'
    BY <2>1, OrdersKept, ForgetStep DEF DeskSafe
  <2>3. Len(Order) \in Nat \ {0} /\ NoFile \in Files
    BY DeskAssumption DEF NoFile, Files
  <2>4. DeskInv' /\ upsets' /= upsets
    BY <2>1, <2>3, DeskAssumption DEF DeskSafe, DeskInv
  <2>5. \A o \in Challenges : Owes(o)'
    BY <2>1 DEF DeskSafe, Owes, orders
  <2> QED BY <2>1, <2>2, <2>4, <2>5, StillFair DEF Stepped, DeskSafe
<1> QED BY <1>1, <1>2, <1>3, <1>4, <1>5, TickStep, Zenon DEF Next, Engine, Owner

LEMMA DeskInit == Init => DeskSafe
<1> SUFFICES ASSUME Init PROVE DeskSafe
  OBVIOUS
<1>1. RouterInv
  BY RouterInitInv DEF Init
<1>2. /\ NoFile \in Files /\ Free \in Requests
      /\ Flat \in Position
      /\ \A o \in Challenges : NoFile.order /= o
  BY OrdersAssumption DEF NoFile, Files, Free, Requests, Flat, Position
<1>3. OrdersInv
  <2>1. [status |-> "none", key |-> NoKey, fresh |-> TRUE, pair |-> "none",
         intent |-> "none"] \in Rows
    BY DEF Rows
  <2>2. OrdersTypeOK
    BY <1>2, <2>1 DEF Init, OrdersInit, OrdersTypeOK
  <2> QED BY <2>2 DEF Init, OrdersInit, OrdersInv, Carries, Atomic, Bound, Free
<1>4. DeskInv
  <2>1. Len(Order) \in Nat \ {0} /\ desk.upsets \in Nat
    BY DeskAssumption DEF Init
  <2> QED BY <1>2, <2>1 DEF Init, DeskInv
<1>5. \A o \in Challenges : Owes(o)
  BY <1>2 DEF Init, OrdersInit, Owes
<1> QED BY <1>1, <1>3, <1>4, <1>5 DEF DeskSafe

LEMMA AlwaysSafe == Spec => []DeskSafe
<1>1. DeskSafe /\ UNCHANGED vars => DeskSafe'
  <2> SUFFICES ASSUME DeskSafe, UNCHANGED vars PROVE DeskSafe'
    OBVIOUS
  <2>1. /\ UNCHANGED <<router, orders, desk, pos, ask, turn, at, claimed, upsets>>
    BY DEF vars
  <2>2. OrdersInv' /\ RouterInv'
    BY <2>1, OrdersKept, RouterKept DEF DeskSafe
  <2> QED BY <2>1, <2>2 DEF DeskSafe, DeskInv, Owes, orders
<1>2. DeskSafe /\ [Next]_vars => DeskSafe'
  BY <1>1, NextStep DEF Stepped
<1> QED BY <1>2, DeskInit, PTL DEF Spec

\* In every behaviour each variable has its type.
THEOREM TypeCorrect == Spec => []TypeOK
<1>1. DeskSafe => TypeOK
  BY DEF DeskSafe, RouterInv, OrdersInv, DeskInv, TypeOK
<1> QED BY <1>1, AlwaysSafe, PTL

\* A confirmed challenge reaches the engine under one key, and the engine runs
\* it no more often than its file was written, whatever requests race, whatever
\* dies and whatever the claim removes.
THEOREM OrderOnce == Spec => []OneOrderPerConfirmation
<1>1. DeskSafe => OneOrderPerConfirmation
  <2> SUFFICES ASSUME DeskSafe, NEW o \in Challenges
               PROVE  owed[o] >= 0 /\ Cardinality(written[o]) <= 1
    BY DEF OneOrderPerConfirmation
  <2>1. written[o] \subseteq {challenge[o].key}
    BY DEF DeskSafe, OrdersInv, Bound
  <2>2. Cardinality({challenge[o].key}) = 1 /\ IsFiniteSet({challenge[o].key})
    BY FS_Singleton
  <2>3. Cardinality(written[o]) <= 1
    BY <2>1, <2>2, FS_Subset
  <2> QED BY <2>3 DEF DeskSafe, Owes
<1> QED BY <1>1, AlwaysSafe, PTL

\* Whatever the order of manual, automatic and reversing entries, only a buy
\* confirmed by Telegram takes the engine past max_open_positions.
THEOREM LimitKept == Spec => LimitHolds
<1> DEFINE A == \A s \in Symbols :
                  Opens(s) /\ Cardinality({o \in Symbols : Held(pos'[o])}) > MaxOpen
                    => BuysConfirmed(s)
<1>1. DeskSafe /\ [Next]_vars => [A]_vars
  <2> SUFFICES ASSUME Stepped, NEW s \in Symbols, Opens(s), ~BuysConfirmed(s)
               PROVE  ~(Cardinality({o \in Symbols : Held(pos'[o])}) > MaxOpen)
    BY NextStep
  <2> DEFINE Others == {o \in Symbols \ {s} : Held(pos[o])}
  <2>1. /\ Room(s) /\ \A o \in Symbols \ {s} : pos'[o] = pos[o]
        /\ Held(pos'[s])
    BY DEF Stepped, Fair, Opens
  <2>2. {o \in Symbols : Held(pos'[o])} = Others \cup {s}
    BY <2>1
  <2>3. IsFiniteSet(Others)
    BY DeskAssumption, FS_Subset
  <2>4. Cardinality(Others \cup {s}) = Cardinality(Others) + 1
    BY <2>3, FS_AddElement
  <2>5. Cardinality(Others) \in Nat /\ MaxOpen \in Nat
    BY <2>3, FS_CardinalityType, DeskAssumption
  <2>6. Cardinality(Others) < MaxOpen
    BY <2>1 DEF Room
  <2> HIDE DEF Others
  <2> QED BY <2>2, <2>4, <2>5, <2>6
<1> QED BY <1>1, AlwaysSafe, PTL DEF Spec, LimitHolds

\* No pair is entered while its confirmed regime forbids trading, but for a
\* handoff that ends in that regime and a buy confirmed by Telegram.
THEOREM NoTradeKept == Spec => ForbiddenPairStaysOut
<1> DEFINE A == \A s \in Symbols :
                  Opens(s) /\ Forbids(ctx'[s]) => settled'[s] \/ BuysConfirmed(s)
<1>1. DeskSafe /\ [Next]_vars => [A]_vars
  <2> SUFFICES ASSUME Stepped, NEW s \in Symbols, Opens(s), Forbids(ctx'[s]),
                      ~BuysConfirmed(s)
               PROVE  settled'[s]
    BY NextStep
  <2>1. ~Blocks(ctx'[s])
    BY DEF Stepped, Fair
  <2>2. Shut(ctx'[s]) \/ settled'[s]
    BY Zenon DEF Stepped, DeskSafe, RouterInv, Shut, Forbids, Blocks
  <2> QED BY <2>1, <2>2 DEF Shut
<1> QED BY <1>1, AlwaysSafe, PTL DEF Spec, ForbiddenPairStaysOut

\* The strategy of a pair with a position changes by a reload or a restart only.
THEOREM OwnerKept == Spec => OwnerManages
<1>1. DeskSafe /\ [Next]_vars =>
        [\A s \in Symbols :
           Held(pos[s]) /\ Held(pos'[s]) /\ ctx'[s].strategy /= ctx[s].strategy
             => upsets' /= upsets]_vars
  BY NextStep DEF Stepped
<1> QED BY <1>1, AlwaysSafe, PTL DEF Spec, OwnerManages

\* Neither the router nor the strategy ends a position opened by hand before
\* it is handed over.
THEOREM ManualKept == Spec => ManualPositionWaits
<1>1. DeskSafe /\ [Next]_vars =>
        [\A s \in Symbols :
           pos[s].mode = "strategy_handoff" /\ pos'[s].side /= pos[s].side
             => at \in {"look", "act"}]_vars
  BY NextStep DEF Stepped, Fair
<1> QED BY <1>1, AlwaysSafe, PTL DEF Spec, ManualPositionWaits
=============================================================================
