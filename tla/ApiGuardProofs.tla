--------------------------- MODULE ApiGuardProofs ---------------------------
(***************************************************************************)
(* Proofs about ApiGuard: the breaker is tripped exactly at the threshold, *)
(* and no probe of a HALF period is lost count of, for any number of       *)
(* threads and any values of the limits.                                   *)
(***************************************************************************)
EXTENDS ApiGuard, FiniteSetTheorems, TLAPS

\* What a probe is: a gated call that is past is_available, in a HALF period.
ProbesOnTheirWay ==
  /\ \A t \in probes : call[t].pc \in {"token", "venue"}
  /\ state # "half" => probes = {} /\ refused = 0

IInv == TypeOK /\ TrippedAtThreshold /\ ProbesOnTheirWay /\ ProbesAccounted

USE DEF breaker, history

\* A HALF period that ends leaves nothing to account for.
LEMMA OutsideHalf ==
  ASSUME state' # "half", EndPeriod
  PROVE  ProbesOnTheirWay' /\ ProbesAccounted'
  BY DEF EndPeriod, ProbesOnTheirWay, ProbesAccounted

\* Counting a set to which a thread is added or from which one is taken away.
LEMMA CountProbes ==
  ASSUME NEW S \in SUBSET Threads, NEW t \in Threads
  PROVE  /\ Cardinality(S) \in Nat
         /\ t \notin S => Cardinality(S \cup {t}) = Cardinality(S) + 1
         /\ t \in S => Cardinality(S \ {t}) = Cardinality(S) - 1
         /\ t \notin S => S \ {t} = S
  <1>1. IsFiniteSet(S)
    BY ThreadsAssumption, FS_Subset
  <1>2. Cardinality(S) \in Nat
    BY <1>1, FS_CardinalityType
  <1>3. t \notin S => Cardinality(S \cup {t}) = Cardinality(S) + 1
    BY <1>1, FS_AddElement
  <1>4. t \in S => Cardinality(S \ {t}) = Cardinality(S) - 1
    BY <1>1, FS_RemoveElement
  <1>5. t \notin S => S \ {t} = S
    OBVIOUS
  <1> QED BY <1>2, <1>3, <1>4, <1>5

\* A thread that moves on keeps a well-formed call.
LEMMA GotoType ==
  ASSUME TypeOK, NEW t \in Threads, NEW p \in {"token", "venue", "refused"}, Goto(t, p)
  PROVE  /\ call' \in [Threads -> Call]
         /\ call'[t].pc = p
         /\ \A u \in Threads \ {t} : call'[u] = call[u]
  BY DEF TypeOK, Goto, Call

LEMMA InitInvariant == Init => IInv
  <1> SUFFICES ASSUME Init PROVE IInv
    OBVIOUS
  <1>0. call \in [Threads -> Call]
    BY DEF Init, Call, AtRest
  <1>a. cooled \in BOOLEAN /\ loaded \in BOOLEAN
    BY Zenon DEF Init
  <1>b. /\ state \in {"closed", "open", "half"} /\ failures \in Nat
        /\ halfCalls \in 0..HalfMax /\ tokens \in 0..Capacity
        /\ faults \in 0..MaxFaults /\ probes \subseteq Threads /\ refused \in Nat
    BY NumbersAssumption DEF Init
  <1>1. TypeOK
    BY <1>0, <1>a, <1>b DEF TypeOK
  <1>2. TrippedAtThreshold
    BY NumbersAssumption DEF Init, TrippedAtThreshold
  <1>3. ProbesOnTheirWay /\ ProbesAccounted
    BY DEF Init, ProbesOnTheirWay, ProbesAccounted
  <1> QED BY <1>1, <1>2, <1>3 DEF IInv

LEMMA BeginInvariant ==
  ASSUME IInv, NEW t \in Threads, Begin(t)
  PROVE  IInv'
  <1> USE DEF IInv
  <1>1. PICK m \in Uses[t] :
          call' = [call EXCEPT ![t] =
                     IF loaded \/ m = "fetch_balance"
                     THEN Meets(m, NoMethod)
                     ELSE Meets("load_markets", m)]
    BY DEF Begin
  <1>2. m \in Methods
    BY UsesAssumption DEF Methods
  <1>3. call' \in [Threads -> Call]
    BY <1>1, <1>2 DEF TypeOK, Call, Meets, Methods
  <1>4. TypeOK'
    BY <1>3 DEF TypeOK, Begin
  <1>5. t \notin probes
    BY DEF Begin, Ready, ProbesOnTheirWay
  <1>6. \A u \in Threads \ {t} : call'[u] = call[u]
    BY <1>1 DEF TypeOK
  <1>7. ProbesOnTheirWay'
    BY <1>5, <1>6 DEF ProbesOnTheirWay, Begin, TypeOK
  <1>8. TrippedAtThreshold' /\ ProbesAccounted'
    BY DEF Begin, TrippedAtThreshold, ProbesAccounted
  <1> QED BY <1>4, <1>7, <1>8

\* Passing the gate as an order and finding a token change no count.
LEMMA ToVenueInvariant ==
  ASSUME IInv, NEW t \in Threads, PassGate(t) \/ TakeToken(t)
  PROVE  IInv'
  <1> USE DEF IInv
  <1>1. Goto(t, "venue") /\ UNCHANGED <<breaker, loaded, faults, history>>
    BY DEF PassGate, TakeToken
  <1>2. /\ call' \in [Threads -> Call]
        /\ call'[t].pc = "venue"
        /\ \A u \in Threads \ {t} : call'[u] = call[u]
    BY <1>1, GotoType
  <1>3. tokens' \in 0..Capacity
    BY NumbersAssumption DEF PassGate, TakeToken, TypeOK
  <1>4. TypeOK'
    BY <1>1, <1>2, <1>3 DEF TypeOK
  <1>5. ProbesOnTheirWay'
    BY <1>1, <1>2 DEF ProbesOnTheirWay, TypeOK
  <1>6. TrippedAtThreshold' /\ ProbesAccounted'
    BY <1>1 DEF TrippedAtThreshold, ProbesAccounted
  <1> QED BY <1>4, <1>5, <1>6

LEMMA GateInvariant ==
  ASSUME IInv, NEW t \in Threads, Gate(t)
  PROVE  IInv'
  <1> USE DEF IInv
  <1>0. /\ call[t].pc = "gate"
        /\ UNCHANGED <<tokens, loaded, faults>>
        /\ t \notin probes
    BY DEF Gate, ProbesOnTheirWay
  <1>1. CASE AdmitClosed(t)
    <2>1. /\ call' \in [Threads -> Call]
          /\ call'[t].pc = "token"
          /\ \A u \in Threads \ {t} : call'[u] = call[u]
      BY <1>1, GotoType DEF AdmitClosed
    <2>2. TypeOK'
      BY <1>0, <1>1, <2>1 DEF AdmitClosed, TypeOK
    <2>3. ProbesOnTheirWay' /\ TrippedAtThreshold' /\ ProbesAccounted'
      BY <1>1 DEF AdmitClosed, ProbesOnTheirWay, TrippedAtThreshold, ProbesAccounted
    <2> QED BY <2>2, <2>3
  <1>2. CASE AdmitFirst(t)
    <2>1. /\ call' \in [Threads -> Call]
          /\ call'[t].pc = "token"
          /\ \A u \in Threads \ {t} : call'[u] = call[u]
      BY <1>2, GotoType DEF AdmitFirst
    <2>2. TypeOK'
      BY <1>0, <1>2, <2>1, NumbersAssumption DEF AdmitFirst, TypeOK
    <2>3. ProbesOnTheirWay'
      BY <1>2, <2>1 DEF AdmitFirst, ProbesOnTheirWay
    <2>4. TrippedAtThreshold'
      BY <1>2 DEF AdmitFirst, TrippedAtThreshold
    <2>5. Cardinality(probes') = 1
      BY <1>2, FS_Singleton DEF AdmitFirst
    <2>6. ProbesAccounted'
      BY <1>2, <2>5, NumbersAssumption DEF AdmitFirst, ProbesAccounted
    <2> QED BY <2>2, <2>3, <2>4, <2>6
  <1>3. CASE AdmitProbe(t)
    <2>1. /\ call' \in [Threads -> Call]
          /\ call'[t].pc = "token"
          /\ \A u \in Threads \ {t} : call'[u] = call[u]
      BY <1>3, GotoType DEF AdmitProbe
    <2>2. TypeOK'
      BY <1>0, <1>3, <2>1, NumbersAssumption DEF AdmitProbe, TypeOK
    <2>3. ProbesOnTheirWay'
      BY <1>3, <2>1 DEF AdmitProbe, ProbesOnTheirWay, TypeOK
    <2>4. TrippedAtThreshold'
      BY <1>3 DEF AdmitProbe, TrippedAtThreshold
    <2>5. /\ Cardinality(probes) \in Nat
          /\ Cardinality(probes') = Cardinality(probes) + 1
      BY <1>0, <1>3, CountProbes DEF AdmitProbe, TypeOK
    <2>6. ProbesAccounted'
      BY <1>3, <2>5, NumbersAssumption DEF AdmitProbe, ProbesAccounted, TypeOK
    <2> QED BY <2>2, <2>3, <2>4, <2>6
  <1>4. CASE HoldBack(t)
    <2>1. /\ call' \in [Threads -> Call]
          /\ call'[t].pc = "refused"
          /\ \A u \in Threads \ {t} : call'[u] = call[u]
      BY <1>4, GotoType DEF HoldBack
    <2>2. TypeOK'
      BY <1>0, <1>4, <2>1 DEF HoldBack, TypeOK
    <2>3. ProbesOnTheirWay'
      BY <1>0, <1>4, <2>1 DEF HoldBack, ProbesOnTheirWay, TypeOK
    <2>4. TrippedAtThreshold' /\ ProbesAccounted'
      BY <1>4 DEF HoldBack, TrippedAtThreshold, ProbesAccounted
    <2> QED BY <2>2, <2>3, <2>4
  <1> QED BY <1>1, <1>2, <1>3, <1>4 DEF Gate

LEMMA ThrottleInvariant ==
  ASSUME IInv, NEW t \in Threads, Throttle(t)
  PROVE  IInv'
  <1> USE DEF IInv
  <1>1. /\ call' \in [Threads -> Call]
        /\ call'[t].pc = "refused"
        /\ \A u \in Threads \ {t} : call'[u] = call[u]
    BY GotoType DEF Throttle
  <1>2. TypeOK'
    BY <1>1 DEF Throttle, TypeOK
  <1>3. ProbesOnTheirWay'
    BY <1>1 DEF Throttle, ProbesOnTheirWay, TypeOK
  <1>4. TrippedAtThreshold'
    BY DEF Throttle, TrippedAtThreshold
  <1>5. /\ Cardinality(probes) \in Nat
        /\ t \in probes => Cardinality(probes \ {t}) = Cardinality(probes) - 1
        /\ t \notin probes => probes \ {t} = probes
    BY CountProbes DEF TypeOK
  <1>6. Cardinality(probes') + refused' = Cardinality(probes) + refused
    BY <1>5 DEF Throttle, TypeOK
  <1>7. ProbesAccounted'
    BY <1>6 DEF Throttle, ProbesAccounted
  <1> QED BY <1>2, <1>3, <1>4, <1>7

LEMMA AnswerInvariant ==
  ASSUME IInv, NEW t \in Threads, Answer(t)
  PROVE  IInv'
  <1> USE DEF IInv
  <1>1. RecordSuccess /\ EndPeriod /\ UNCHANGED <<tokens, faults>>
    BY DEF Answer
  <1>2. call' \in [Threads -> Call]
    BY DEF Answer, TypeOK, Call, AtRest, Meets
  <1>3. loaded' \in BOOLEAN
    BY DEF Answer, TypeOK
  <1>4. /\ state' = "closed" /\ failures' = 0
        /\ halfCalls' \in 0..HalfMax /\ cooled' = cooled
    BY <1>1, NumbersAssumption DEF RecordSuccess, TypeOK
  <1>5. TypeOK'
    BY <1>1, <1>2, <1>3, <1>4 DEF TypeOK, EndPeriod
  <1>6. TrippedAtThreshold'
    BY <1>4, NumbersAssumption DEF TrippedAtThreshold
  <1>7. ProbesOnTheirWay' /\ ProbesAccounted'
    BY <1>1, <1>4, OutsideHalf
  <1> QED BY <1>5, <1>6, <1>7

LEMMA FailInvariant ==
  ASSUME IInv, NEW t \in Threads, Fail(t)
  PROVE  IInv'
  <1> USE DEF IInv
  <1>1. RecordFailure /\ EndPeriod /\ UNCHANGED <<tokens, loaded>>
    BY DEF Fail
  <1>2. call' \in [Threads -> Call]
    <2>1. /\ AtRest \in Call
          /\ Meets("cancel_algos", NoMethod) \in Call
      BY DEF Call, AtRest, Meets, Methods, Starts
    <2>2. PICK c \in Call : call' = [call EXCEPT ![t] = c]
      BY <2>1 DEF Fail
    <2> QED BY <2>2 DEF TypeOK
  <1>3. faults' \in 0..MaxFaults
    BY NumbersAssumption DEF Fail, TypeOK
  <1>4. /\ failures' = failures + 1 /\ failures' \in Nat
        /\ cooled' = FALSE /\ halfCalls' = halfCalls
        /\ state' \in {"closed", "open"}
        /\ state' # "closed" <=> failures' >= Threshold
    BY <1>1, NumbersAssumption DEF RecordFailure, TypeOK, TrippedAtThreshold
  <1>5. TypeOK'
    BY <1>1, <1>2, <1>3, <1>4 DEF TypeOK, EndPeriod
  <1>6. TrippedAtThreshold'
    BY <1>4 DEF TrippedAtThreshold
  <1>7. ProbesOnTheirWay' /\ ProbesAccounted'
    BY <1>1, <1>4, OutsideHalf
  <1> QED BY <1>5, <1>6, <1>7

\* The passing of time and stuttering.
LEMMA TimeInvariant ==
  ASSUME IInv, Cool \/ Refill \/ UNCHANGED vars
  PROVE  IInv'
  <1> USE DEF IInv
  <1>a. cooled' \in BOOLEAN
    BY Zenon DEF Cool, Refill, vars, TypeOK
  <1>b. tokens' \in 0..Capacity
    BY NumbersAssumption DEF Cool, Refill, vars, TypeOK
  <1>c. UNCHANGED <<call, state, failures, halfCalls, loaded, faults, history>>
    BY DEF Cool, Refill, vars
  <1>1. TypeOK'
    BY <1>a, <1>b, <1>c DEF TypeOK
  <1>2. ProbesOnTheirWay' /\ TrippedAtThreshold' /\ ProbesAccounted'
    BY DEF Cool, Refill, vars, ProbesOnTheirWay, TrippedAtThreshold, ProbesAccounted
  <1> QED BY <1>1, <1>2

LEMMA Invariant == Safe => []IInv
  <1>1. IInv /\ [Next]_vars => IInv'
    <2> SUFFICES ASSUME IInv, [Next]_vars PROVE IInv'
      OBVIOUS
    <2>1. CASE \E t \in Threads : Step(t)
      <3> PICK t \in Threads : Step(t)
        BY <2>1
      <3> QED
        BY BeginInvariant, ToVenueInvariant, GateInvariant, ThrottleInvariant,
           AnswerInvariant, FailInvariant DEF Step
    <2>2. CASE Cool \/ Refill \/ UNCHANGED vars
      BY <2>2, TimeInvariant
    <2> QED BY <2>1, <2>2 DEF Next
  <1> QED BY InitInvariant, <1>1, PTL DEF Safe

\* Every state of the guard is well typed, for any threads and limits: the
\* bucket never holds more than its capacity nor less than nothing.
THEOREM TypeCorrect == Safe => []TypeOK
  <1>1. IInv => TypeOK
    BY DEF IInv
  <1> QED BY Invariant, <1>1, PTL

\* The breaker is tripped exactly while the failures since the last success
\* have reached failure_threshold, whatever the order in which the threads'
\* answers arrive (record_success, record_failure).
THEOREM BreakerTrips == Safe => []TrippedAtThreshold
  <1>1. IInv => TrippedAtThreshold
    BY DEF IInv
  <1> QED BY Invariant, <1>1, PTL

\* Every probe of a HALF period is on its way or was turned away, and a
\* period admits at most half_max_calls + 1 of them (is_available).
THEOREM ProbesBounded == Safe => []ProbesAccounted
  <1>1. IInv => ProbesAccounted
    BY DEF IInv
  <1> QED BY Invariant, <1>1, PTL
=============================================================================
