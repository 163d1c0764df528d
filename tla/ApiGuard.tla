------------------------------ MODULE ApiGuard ------------------------------
(***************************************************************************)
(* The guard every REST call of the engine passes (xauby/api/              *)
(* resilience.py): a token bucket and a circuit breaker, shared by the     *)
(* engine thread, the balance thread and the candle threads, with the      *)
(* calls of CCXTClient that decide which method meets the guard and when.  *)
(* A step is what one thread does between two acquisitions of a lock.      *)
(***************************************************************************)
EXTENDS Integers, FiniteSets

CONSTANTS
  Threads,      \* the threads that share one client
  Uses,         \* [Threads -> SUBSET Starts]: what each thread calls
  AlwaysAllow,  \* methods that pass critical=True (always_allow_methods)
  Threshold,    \* failure_threshold
  HalfMax,      \* half_max_calls
  Capacity,     \* whole tokens the bucket holds
  MaxFaults     \* bound: calls the venue fails in one behaviour

\* Methods an operation of the client starts with.  "fetch_ohlcv" stands for
\* every read that names a symbol and "fetch_balance" for one that names none;
\* "cancel_algos" is privatePostTradeCancelAlgos, the cancel of an OKX stop.
Starts == {"fetch_ohlcv", "fetch_balance",
           "create_order", "cancel_order", "cancel_algos"}
Methods == Starts \cup {"load_markets"}
NoMethod == "none"

\* The methods that change an order at the venue.
OrderChanging == {"create_order", "cancel_order", "cancel_algos"}

ASSUME ThreadsAssumption == IsFiniteSet(Threads)
ASSUME UsesAssumption == Uses \in [Threads -> SUBSET Starts]
ASSUME AlwaysAllowAssumption == AlwaysAllow \subseteq Methods
ASSUME NumbersAssumption ==
  /\ Threshold \in Nat \ {0}
  /\ HalfMax \in Nat
  /\ Capacity \in Nat \ {0}
  /\ MaxFaults \in Nat

VARIABLES
  call,      \* per thread: where its call stands, its method, and the
             \* method it calls next once its markets are loaded
  state,     \* CircuitBreaker._state
  failures,  \* _failure_count
  halfCalls, \* _half_calls
  cooled,    \* recovery_timeout has passed since _last_failure
  tokens,    \* whole tokens in the bucket (_tokens)
  loaded,    \* CCXTClient._markets_loaded
  faults,    \* failures the venue may still produce
  probes,    \* history: threads admitted in the current HALF period and
             \* still waiting for a token or an answer
  refused    \* history: calls of this HALF period the bucket turned away

breaker == <<state, failures, halfCalls, cooled>>
history == <<probes, refused>>
vars == <<call, breaker, tokens, loaded, faults, history>>

Call == [pc : {"idle", "gate", "token", "venue", "refused"},
         method : Methods \cup {NoMethod},
         next : Methods \cup {NoMethod}]
AtRest == [pc |-> "idle", method |-> NoMethod, next |-> NoMethod]

Init ==
  /\ call = [t \in Threads |-> AtRest]
  /\ state = "closed"
  /\ failures = 0
  /\ halfCalls = 0
  /\ cooled = TRUE
  /\ tokens = Capacity
  /\ loaded = FALSE
  /\ faults = MaxFaults
  /\ probes = {}
  /\ refused = 0

Ready(t) == call[t].pc \in {"idle", "refused"}
Critical(t) == call[t].method \in AlwaysAllow
Goto(t, pc) == call' = [call EXCEPT ![t].pc = pc]

\* A call to method m that meets the guard, followed by a call to n.
Meets(m, n) == [pc |-> "gate", method |-> m, next |-> n]

-----------------------------------------------------------------------------
\* Thread t calls the client.  Every method but fetch_balance translates its
\* symbol first, and the first translation loads the markets through _call.
Begin(t) ==
  /\ Ready(t)
  /\ \E m \in Uses[t] :
       call' = [call EXCEPT ![t] =
                  IF loaded \/ m = "fetch_balance"
                  THEN Meets(m, NoMethod)
                  ELSE Meets("load_markets", m)]
  /\ UNCHANGED <<breaker, tokens, loaded, faults, history>>

\* Mutant: the critical call takes its token without looking for one.
PassGateUnchecked(t) ==
  /\ call[t].pc = "gate"
  /\ Critical(t)
  /\ tokens' = tokens - 1
  /\ Goto(t, "venue")
  /\ UNCHANGED <<breaker, loaded, faults, history>>

\* Mutant: the critical call waits for its token.
PassGateWaiting(t) ==
  /\ call[t].pc = "gate"
  /\ Critical(t)
  /\ tokens > 0
  /\ tokens' = tokens - 1
  /\ Goto(t, "venue")
  /\ UNCHANGED <<breaker, loaded, faults, history>>

\* A critical call takes a token when one is there and never waits for it.
PassGate(t) ==
  /\ call[t].pc = "gate"
  /\ Critical(t)
  /\ tokens' = IF tokens > 0 THEN tokens - 1 ELSE 0
  /\ Goto(t, "venue")
  /\ UNCHANGED <<breaker, loaded, faults, history>>

\* is_available, CLOSED: admitted.
AdmitClosed(t) ==
  /\ state = "closed"
  /\ Goto(t, "token")
  /\ UNCHANGED <<breaker, history>>

\* Mutant: the probes of the last HALF period stay counted.
AdmitFirstKeepingCount(t) ==
  /\ state = "open" /\ cooled
  /\ state' = "half"
  /\ probes' = {t}
  /\ refused' = 0
  /\ Goto(t, "token")
  /\ UNCHANGED <<failures, halfCalls, cooled>>

\* is_available, OPEN for recovery_timeout: the call starts a HALF period and
\* is not counted among its probes.
AdmitFirst(t) ==
  /\ state = "open" /\ cooled
  /\ state' = "half"
  /\ halfCalls' = 0
  /\ probes' = {t}
  /\ refused' = 0
  /\ Goto(t, "token")
  /\ UNCHANGED <<failures, cooled>>

\* Mutant: one probe too many.
AdmitProbeOverLimit(t) ==
  /\ state = "half" /\ halfCalls <= HalfMax
  /\ halfCalls' = halfCalls + 1
  /\ probes' = probes \cup {t}
  /\ Goto(t, "token")
  /\ UNCHANGED <<state, failures, cooled, refused>>

\* is_available, HALF with a probe left.
AdmitProbe(t) ==
  /\ state = "half" /\ halfCalls < HalfMax
  /\ halfCalls' = halfCalls + 1
  /\ probes' = probes \cup {t}
  /\ Goto(t, "token")
  /\ UNCHANGED <<state, failures, cooled, refused>>

\* is_available is False: CircuitBreakerOpen ends the operation.
HoldBack(t) ==
  /\ \/ state = "open" /\ ~cooled
     \/ state = "half" /\ halfCalls >= HalfMax
  /\ Goto(t, "refused")
  /\ UNCHANGED <<breaker, history>>

Gate(t) ==
  /\ call[t].pc = "gate"
  /\ ~Critical(t)
  /\ AdmitClosed(t) \/ AdmitFirst(t) \/ AdmitProbe(t) \/ HoldBack(t)
  /\ UNCHANGED <<tokens, loaded, faults>>

\* limiter.acquire finds a token.
TakeToken(t) ==
  /\ call[t].pc = "token"
  /\ tokens > 0
  /\ tokens' = tokens - 1
  /\ Goto(t, "venue")
  /\ UNCHANGED <<breaker, loaded, faults, history>>

\* limiter.acquire gives up after acquire_timeout: CircuitBreakerOpen, and
\* the breaker is not told.
Throttle(t) ==
  /\ call[t].pc = "token"
  /\ tokens = 0
  /\ Goto(t, "refused")
  /\ probes' = probes \ {t}
  /\ refused' = IF t \in probes THEN refused + 1 ELSE refused
  /\ UNCHANGED <<breaker, tokens, loaded, faults>>

\* Mutant: the success that closes the breaker keeps the failure count.
RecordSuccessKeepingCount ==
  /\ failures' = IF state = "closed" THEN 0 ELSE failures
  /\ state' = "closed"
  /\ halfCalls' = IF state = "closed" THEN halfCalls ELSE 0
  /\ UNCHANGED cooled

\* record_success closes the breaker from every state.
RecordSuccess ==
  /\ failures' = 0
  /\ state' = "closed"
  /\ halfCalls' = IF state = "closed" THEN halfCalls ELSE 0
  /\ UNCHANGED cooled

\* record_failure starts the recovery time anew, whoever reports it.
RecordFailure ==
  /\ failures' = failures + 1
  /\ cooled' = FALSE
  /\ state' = IF state = "half" \/ failures' >= Threshold THEN "open" ELSE state
  /\ UNCHANGED halfCalls

EndPeriod == probes' = {} /\ refused' = 0

\* The venue answers; loaded markets let the operation go on to its method.
Answer(t) ==
  /\ call[t].pc = "venue"
  /\ RecordSuccess
  /\ EndPeriod
  /\ loaded' = (loaded \/ call[t].method = "load_markets")
  /\ call' = [call EXCEPT ![t] = IF call[t].next = NoMethod THEN AtRest
                                 ELSE Meets(call[t].next, NoMethod)]
  /\ UNCHANGED <<tokens, faults>>

\* The call raises.  cancel_order goes on to the algo cancel when the venue
\* says that it does not know the order.
Fail(t) ==
  /\ call[t].pc = "venue"
  /\ faults > 0
  /\ faults' = faults - 1
  /\ RecordFailure
  /\ EndPeriod
  /\ \/ call' = [call EXCEPT ![t] = AtRest]
     \/ /\ call[t].method = "cancel_order"
        /\ call' = [call EXCEPT ![t] = Meets("cancel_algos", NoMethod)]
  /\ UNCHANGED <<tokens, loaded>>

\* Time passes: the recovery time, and the refill of the bucket.
Cool ==
  /\ ~cooled
  /\ cooled' = TRUE
  /\ UNCHANGED <<call, state, failures, halfCalls, tokens, loaded, faults, history>>

Refill ==
  /\ tokens < Capacity
  /\ tokens' = tokens + 1
  /\ UNCHANGED <<call, breaker, loaded, faults, history>>

Step(t) ==
  \/ Begin(t) \/ PassGate(t) \/ Gate(t)
  \/ TakeToken(t) \/ Throttle(t)
  \/ Answer(t) \/ Fail(t)

Next == (\E t \in Threads : Step(t)) \/ Cool \/ Refill

\* Every thread polls again and runs to the end of its call, the venue answers
\* or the HTTP timeout fails the call, and the recovery time passes.  Nothing
\* says that the bucket is refilled before a thread has waited too long.
Fairness ==
  /\ \A t \in Threads :
       /\ WF_vars(Begin(t))
       /\ WF_vars(PassGate(t) \/ Gate(t))
       /\ WF_vars(TakeToken(t) \/ Throttle(t))
       /\ WF_vars(Answer(t) \/ Fail(t))
  /\ WF_vars(Cool)

Safe == Init /\ [][Next]_vars
Spec == Safe /\ Fairness

-----------------------------------------------------------------------------
TypeOK ==
  /\ call \in [Threads -> Call]
  /\ state \in {"closed", "open", "half"}
  /\ failures \in Nat
  /\ halfCalls \in 0..HalfMax
  /\ cooled \in BOOLEAN
  /\ tokens \in 0..Capacity
  /\ loaded \in BOOLEAN
  /\ faults \in 0..MaxFaults
  /\ probes \subseteq Threads
  /\ refused \in Nat

\* The breaker holds reads back exactly while the failures since the last
\* success number failure_threshold or more: however late the answers of
\* several threads arrive, it neither stays shut after a success nor lets
\* reads through after the threshold (is_available, record_success,
\* record_failure).
TrippedAtThreshold == state # "closed" <=> failures >= Threshold

\* The probes of a HALF period are never lost count of: each is on its way or
\* was turned away by the bucket, and there are at most half_max_calls + 1 of
\* them, the first of which is_available does not count.
ProbesAccounted ==
  state = "half" =>
    /\ Cardinality(probes) + refused = halfCalls + 1
    /\ Cardinality(probes) + refused <= HalfMax + 1

\* Every probe of the HALF period was turned away by the bucket: no call is
\* left that could end the period, and only an order can.
ProbesThrottled == state = "half" /\ refused = HalfMax + 1

\* A venue that has stopped failing is polled again: a breaker that has opened
\* closes, unless local throttling has eaten every probe.
ReadsResume == state # "closed" ~> (state = "closed" \/ ProbesThrottled)

\* No thread waits for ever in the guard, even if the bucket stays empty
\* (acquire_timeout; critical calls never wait).
CallsReturn == \A t \in Threads : ~Ready(t) ~> Ready(t)

\* "The breaker guards the read loop; it never guards an order": no call that
\* changes an order is refused by the guard (ResilienceGuard.run).
OrdersNeverHeld ==
  \A t \in Threads : call[t].pc = "refused" => call[t].method \notin OrderChanging
=============================================================================
