------------------------- MODULE ControlPlaneProofs -------------------------
(***************************************************************************)
(* What holds of ControlPlane for every set of tenants, every capacity and *)
(* every value of its bounds.                                              *)
(***************************************************************************)
EXTENDS ControlPlane, FiniteSetTheorems, SequenceTheorems, TLAPS

USE DEF store, disk, budget, overlap

\* Four kinds of plan.  A raising one ends with a row that holds a slot and
\* begins by reserving it, unless the row holds one; a connecting one writes
\* back the status the handler read; a preflight goes by the status it found;
\* the rest never give a row a slot.
Plain == Steps \ {"reserve", "running", "live", "connected", "ensure",
                  "provision", "provisionFailed"}
Preflight == {"ensure", "provision", "repaired", "provisionFailed", "session"}
Raising == {"reserve", "request", "approve", "boot", "reboot", "yamlLive",
            "listLive", "running", "live"}
Connecting == {"halt", "yamlSim", "listSim", "reset", "connected", "storeKeys"}

\* Which kind the handlers' plans are.
LEMMA PathPlan ==
  ASSUME NEW o \in Ops, NEW r \in Row
  PROVE  \/ Path(o, r) \in Seq(Plain)
         \/ /\ Path(o, r) \in Seq(Raising) \ {<<>>}
            /\ Counted(r) \/ Head(Path(o, r)) = "reserve"
         \/ Path(o, r) \in Seq(Connecting) \ {<<>>}
         \/ /\ Path(o, r) \in Seq(Preflight) \ {<<>>}
            /\ Head(Path(o, r)) = "ensure"
<1>1. CASE o \in {"start", "restart", "activate", "approve"}
  <2>1. \A q \in {<<"reserve", "boot", "running">>, <<"reserve", "reboot", "running">>,
                  <<"reserve", "request", "approve", "yamlLive", "listLive",
                    "reboot", "live">>,
                  <<"reserve", "approve", "yamlLive", "listLive", "reboot", "live">>} :
          q \in Seq(Raising) \ {<<>>} /\ Head(q) = "reserve"
    <3> DEFINE Good(q) == q \in Seq(Raising) /\ q /= <<>> /\ Head(q) = "reserve"
    <3>1. Good(<<"reserve", "boot", "running">>)
      BY DEF Raising
    <3>2. Good(<<"reserve", "reboot", "running">>)
      BY DEF Raising
    <3>3. Good(<<"reserve", "request", "approve", "yamlLive", "listLive",
                 "reboot", "live">>)
      BY DEF Raising
    <3>4. Good(<<"reserve", "approve", "yamlLive", "listLive", "reboot", "live">>)
      BY DEF Raising
    <3>5. \A q : Good(q) => q \in Seq(Raising) \ {<<>>} /\ Head(q) = "reserve"
      BY Zenon
    <3> HIDE DEF Good
    <3> QED BY <3>1, <3>2, <3>3, <3>4, <3>5, Zenon
  <2>2. <<"reboot", "running">> \in Seq(Raising) \ {<<>>}
    BY DEF Raising
  <2>3. \/ Path(o, r) = <<"reboot", "running">> /\ Counted(r)
        \/ Path(o, r) \in {<<"reserve", "boot", "running">>,
                  <<"reserve", "reboot", "running">>,
                  <<"reserve", "request", "approve", "yamlLive", "listLive",
                    "reboot", "live">>,
                  <<"reserve", "approve", "yamlLive", "listLive", "reboot", "live">>}
    BY <1>1, Zenon DEF Path, RestartPath
  <2> QED BY <2>1, <2>2, <2>3, Zenon
<1>2. CASE o = "connect"
  <2> DEFINE S == Seq(Connecting)
             keys == <<"reset", "connected", "storeKeys">>
  <2>1. /\ <<>> \in S /\ <<"halt">> \in S /\ <<"yamlSim", "listSim">> \in S
        /\ keys \in S
    BY DEF Connecting
  <2>2. Path(o, r) \in {(<<"halt">> \o <<"yamlSim", "listSim">>) \o keys,
                        (<<>> \o <<"yamlSim", "listSim">>) \o keys}
    BY <1>2, Zenon DEF Path, ConnectPath, Cool
  <2>3. \A a, b \in S : a \o b \in S /\ Len(a \o b) = Len(a) + Len(b)
    OBVIOUS
  <2>4. Len(keys) = 3
    OBVIOUS
  <2>5. \A a \in S : a \o keys \in S \ {<<>>}
    <3>1. SUFFICES ASSUME NEW a \in S PROVE a \o keys \in S \ {<<>>}
      OBVIOUS
    <3>2. Len(a \o keys) = Len(a) + 3 /\ Len(a) \in Nat /\ a \o keys \in S
      BY <2>1, <2>3, <2>4
    <3> QED BY <3>2
  <2> HIDE DEF S, keys
  <2>6. Path(o, r) \in S \ {<<>>}
    BY <2>1, <2>2, <2>3, <2>5, Zenon
  <2> QED BY <2>6 DEF S
<1>3. CASE o \in {"login", "reactivate"}
  <2>1. Path(o, r) \in {<<"ensure", "provision", "repaired", "session">>,
                        <<"ensure", "provision", "repaired">>}
    BY <1>3, Zenon DEF Path, LoginPath
  <2>2. \A q \in {<<"ensure", "provision", "repaired", "session">>,
                  <<"ensure", "provision", "repaired">>} :
          q \in Seq(Preflight) \ {<<>>} /\ Head(q) = "ensure"
    <3>1. ASSUME NEW q, q = <<"ensure", "provision", "repaired", "session">>
          PROVE  q \in Seq(Preflight) \ {<<>>} /\ Head(q) = "ensure"
      BY <3>1 DEF Preflight
    <3>2. ASSUME NEW q, q = <<"ensure", "provision", "repaired">>
          PROVE  q \in Seq(Preflight) \ {<<>>} /\ Head(q) = "ensure"
      BY <3>2 DEF Preflight
    <3> QED BY <3>1, <3>2
  <2> QED BY <2>1, <2>2
<1>4. CASE o \in Ops \ {"start", "restart", "activate", "approve", "connect",
                      "login", "reactivate"}
  <2> DEFINE S == Seq(Plain)
  <2>1. /\ <<>> \in S /\ <<"yamlSim", "listSim">> \in S
        /\ <<"halt", "stopped", "reset">> \in S
        /\ <<"halt", "stopped">> \in S /\ <<"halt", "offline">> \in S
        /\ <<"halt">> \in S /\ <<"offline">> \in S /\ <<"tombstone">> \in S
        /\ <<"probe">> \in S /\ <<"request">> \in S /\ <<"pool">> \in S
        /\ <<"yamlLive", "listLive">> \in S
    BY DEF Plain, Steps
  <2>2. \A a, b \in S : a \o b \in S
    OBVIOUS
  <2> DEFINE sw == IF r.status = "running" /\ ~LiveEnabled(r)
                   THEN <<"halt", "stopped">> ELSE HandOff(r)
             off == IF r.status = "absent" THEN <<>> ELSE <<"halt", "offline">>
  <2>3. Cool \in S /\ HandOff(r) \in S /\ sw \in S /\ off \in S
    BY <2>1, Zenon DEF Cool, HandOff
  <2>4. Path(o, r) \in
          {<<"halt", "stopped">>, <<"probe">>, <<"request">>,
           (<<"halt">> \o Cool) \o <<"offline">>, HandOff(r) \o Cool, sw \o Cool,
           <<"yamlLive", "listLive">>, (HandOff(r) \o Cool) \o <<"pool">>, <<>>,
           <<"halt", "offline">> \o Cool, off \o <<"tombstone">>}
    BY <1>4, Zenon DEF Path, Ops, OwnerOps, AdminOps, RemovePath
  <2> HIDE DEF S, sw, off
  <2>5. /\ (<<"halt">> \o Cool) \o <<"offline">> \in S /\ HandOff(r) \o Cool \in S
        /\ sw \o Cool \in S /\ (HandOff(r) \o Cool) \o <<"pool">> \in S
        /\ <<"halt", "offline">> \o Cool \in S /\ off \o <<"tombstone">> \in S
    BY <2>1, <2>2, <2>3, Zenon
  <2>6. Path(o, r) \in S
    BY <2>1, <2>3, <2>4, <2>5, Zenon
  <2> QED BY <2>6 DEF S
<1> QED BY <1>1, <1>2, <1>3, <1>4

LEMMA PathType ==
  ASSUME NEW o \in Ops, NEW r \in Row
  PROVE  Path(o, r) \in Seq(Steps)
<1>1. /\ Plain \subseteq Steps /\ Raising \subseteq Steps
      /\ Connecting \subseteq Steps /\ Preflight \subseteq Steps
  BY DEF Plain, Raising, Connecting, Preflight, Steps
<1>2. /\ Seq(Plain) \subseteq Seq(Steps) /\ Seq(Raising) \subseteq Seq(Steps)
      /\ Seq(Connecting) \subseteq Seq(Steps) /\ Seq(Preflight) \subseteq Seq(Steps)
  BY <1>1
<1> QED BY <1>2, PathPlan

\* No rescue gives a row a slot; the one of a preflight goes by what it found.
LEMMA RescueType ==
  ASSUME NEW r \in Request, NEW s \in Steps
  PROVE  /\ Rescue(r, s) \in Seq(Steps)
         /\ \/ Rescue(r, s) \in Seq(Plain)
            \/ s = "provision" /\ Rescue(r, s) = <<"provisionFailed">>
<1> DEFINE S == Seq(Plain)
           error == IF r.op = "approve" /\ Counted(r.seen) THEN <<>> ELSE <<"error">>
           failed == <<"failed">> \o error
<1>a. <<>> \in S /\ <<"yamlSim", "listSim">> \in S /\ <<"error">> \in S
  BY DEF Plain, Steps
<1>1. <<>> \in S /\ Cool \in S /\ error \in S
  BY <1>a, Zenon DEF Cool
<1>2. \A a, b \in S : a \o b \in S
  OBVIOUS
<1>3. /\ <<"failed">> \in S /\ <<"halt">> \in S /\ <<"offline">> \in S
      /\ <<"restoreYaml", "restoreList">> \in S
  BY DEF Plain, Steps
<1>4. failed \in S
  BY <1>1, <1>2, <1>3
<1>5. Undo(r) \in S
  BY <1>1, <1>2, <1>3 DEF Undo
<1>6. /\ Cool \o failed \in S /\ (<<"halt">> \o Cool) \o failed \in S
      /\ <<"offline">> \o Cool \in S
  BY <1>1, <1>2, <1>3, <1>4
<1>7. \/ Rescue(r, s) \in {error, failed, Cool \o failed, (<<"halt">> \o Cool) \o failed,
                           <<"offline">>, <<"offline">> \o Cool, Undo(r), Cool, <<>>}
      \/ s = "provision" /\ Rescue(r, s) = <<"provisionFailed">>
  BY DEF Rescue
<1>8. S \subseteq Seq(Steps) /\ <<"provisionFailed">> \in Seq(Steps)
  BY DEF Plain, Steps
<1> HIDE DEF S, error, failed
<1>9. Rescue(r, s) \in S \/ (s = "provision" /\ Rescue(r, s) = <<"provisionFailed">>)
  BY <1>1, <1>3, <1>4, <1>5, <1>6, <1>7
<1> QED BY <1>8, <1>9 DEF S
-----------------------------------------------------------------------------
(* Types.                                                                   *)

\* A request that goes on, or returns, keeps what it is.
LEMMA ContinueEffect ==
  ASSUME TypeOK, NEW t \in Tenants, NEW todo \in Seq(Steps), NEW ok \in BOOLEAN,
         Continue(t, todo, ok)
  PROVE  /\ req' \in [Tenants -> Request]
         /\ last' \in [Tenants -> Result]
         /\ \A u \in Tenants \ {t} : req'[u] = req[u] /\ last'[u] = last[u]
         /\ req'[t].todo = todo
         /\ todo /= <<>> => /\ req'[t].op = req[t].op /\ req'[t].ok = ok
                            /\ req'[t].seen = req[t].seen
                            /\ req'[t].copy = req[t].copy
                            /\ req'[t].found = Found(t)
                            /\ req'[t].rekeyed = req[t].rekeyed
<1>1. req[t] \in Request /\ last[t] \in Result
  BY DEF TypeOK
<1>a. Found(t) \in Statuses
  BY DEF Found, TypeOK, Request, Row, Statuses
<1>2. CASE todo = <<>>
  <2>1. Idle \in Request /\ Idle.todo = <<>>
    BY DEF Idle, Request, Row, Files, NoRow, Sim, Statuses, LiveStatuses, Modes
  <2>2. [op |-> req[t].op, ok |-> ok] \in Result
    BY <1>1 DEF Request, Result
  <2>3. /\ req' = [req EXCEPT ![t] = Idle]
        /\ last' = [last EXCEPT ![t] = [op |-> req[t].op, ok |-> ok]]
    BY <1>2 DEF Continue
  <2> QED BY <1>2, <2>1, <2>2, <2>3 DEF TypeOK
<1>3. CASE todo /= <<>>
  <2> DEFINE r == [req[t] EXCEPT !.todo = todo, !.ok = ok, !.found = Found(t)]
  <2>1. req' = [req EXCEPT ![t] = r] /\ last' = last
    BY <1>3 DEF Continue
  <2>2. /\ r \in Request /\ r.todo = todo /\ r.ok = ok /\ r.op = req[t].op
        /\ r.seen = req[t].seen /\ r.copy = req[t].copy
        /\ r.found = Found(t) /\ r.rekeyed = req[t].rekeyed
    BY <1>1, <1>a DEF Request
  <2> HIDE DEF r
  <2> QED BY <2>1, <2>2 DEF TypeOK
<1> QED BY <1>2, <1>3

\* What is left of a request whose step s raised.
Undoes(t, s) ==
  \/ req'[t].todo \in Seq(Plain)
  \/ s = "provision" /\ req'[t].todo = <<"provisionFailed">>

\* What a step does to the request it belongs to: it drops its first step,
\* or replaces what is left by the rescue of that step.
LEMMA StepEffect ==
  ASSUME TypeOK, NEW t \in Tenants, NEW s \in Steps, At(t, s),
         Returns(t) \/ Raises(t)
  PROVE  /\ req' \in [Tenants -> Request]
         /\ last' \in [Tenants -> Result]
         /\ \A u \in Tenants \ {t} : req'[u] = req[u] /\ last'[u] = last[u]
         /\ \/ Returns(t) /\ req'[t].todo = Tail(req[t].todo)
            \/ Raises(t) /\ Undoes(t, s)
         /\ req'[t].todo /= <<>> => /\ req'[t].op = req[t].op
                                    /\ req'[t].seen = req[t].seen
                                    /\ req'[t].copy = req[t].copy
                                    /\ req'[t].found = Found(t)
                                    /\ req'[t].rekeyed = req[t].rekeyed
<1>1. /\ req[t] \in Request /\ req[t].todo \in Seq(Steps) /\ req[t].ok \in BOOLEAN
      /\ req[t].todo /= <<>> /\ Head(req[t].todo) = s
  BY DEF TypeOK, Request, At
<1>2. Tail(req[t].todo) \in Seq(Steps)
  BY <1>1, HeadTailProperties
<1>3. /\ Rescue(req[t], s) \in Seq(Steps)
      /\ \/ Rescue(req[t], s) \in Seq(Plain)
         \/ s = "provision" /\ Rescue(req[t], s) = <<"provisionFailed">>
  BY <1>1, RescueType
<1>4. CASE Returns(t)
  BY <1>1, <1>2, <1>4, ContinueEffect DEF Returns
<1>5. CASE Raises(t)
  <2>1. Continue(t, Rescue(req[t], s), FALSE)
    BY <1>1, <1>5 DEF Raises
  <2> HIDE DEF Raises
  <2> QED BY <1>1, <1>3, <1>5, <2>1, ContinueEffect DEF Undoes
<1> QED BY <1>4, <1>5

LEMMA RaisesTodo ==
  ASSUME TypeOK, NEW t \in Tenants, NEW s \in Steps, At(t, s), Raises(t)
  PROVE  req'[t].todo = Rescue(req[t], s)
<1>1. req[t] \in Request /\ Head(req[t].todo) = s
  BY DEF TypeOK, At
<1>2. Rescue(req[t], s) \in Seq(Steps)
  BY <1>1, RescueType
<1> QED BY <1>1, <1>2, ContinueEffect DEF Raises

\* update_tenant writes the row of one tenant.
LEMMA RowsEffect ==
  ASSUME TypeOK, NEW t \in Tenants, NEW status \in Statuses,
         NEW live \in LiveStatuses, Rows(t, status, live)
  PROVE  /\ row' \in [Tenants -> Row]
         /\ row'[t].status = status /\ row'[t].live = live
         /\ \A u \in Tenants \ {t} : row'[u] = row[u]
  BY DEF TypeOK, Rows, Row

LEMMA RowType ==
  ASSUME TypeOK, NEW t \in Tenants
  PROVE  /\ row[t].status \in Statuses /\ row[t].live \in LiveStatuses
         /\ req[t].seen.status \in Statuses /\ req[t].found \in Statuses
  BY DEF TypeOK, Row, Request

LEMMA InitType == Init => TypeOK
<1> SUFFICES ASSUME Init PROVE TypeOK
  OBVIOUS
<1>1. /\ NoRow \in Row /\ Sim \in Files /\ NoKeys \in Connection
      /\ [status |-> "queued", live |-> "not_requested"] \in Row
      /\ [status |-> "tested", proved |-> TRUE] \in Connection
      /\ [state |-> "down", armed |-> FALSE, list |-> "sim"] \in Unit
  BY DEF NoRow, Row, Sim, Files, NoKeys, Connection, Unit, Statuses, LiveStatuses, Modes
<1>2. Idle \in Request /\ Nothing \in Result
  BY <1>1 DEF Idle, Request, Nothing, Result, Statuses
<1>3. row \in [Tenants -> Row] /\ conn \in [Tenants -> Connection]
  BY <1>1, Zenon DEF Init
<1>4. /\ session \in [Tenants -> BOOLEAN] /\ workspace \in [Tenants -> BOOLEAN]
      /\ account \in [Tenants -> {"active", "suspended", "removed"}]
      /\ files \in [Tenants -> Files] /\ unit \in [Tenants -> Unit]
      /\ req \in [Tenants -> Request] /\ last \in [Tenants -> Result]
      /\ parked \in [Tenants -> Request] /\ overtaken \subseteq Tenants
  BY <1>1, <1>2, Zenon DEF Init
<1>5. approvals \in [Tenants -> Seq(Decisions)]
  <2>1. <<>> \in Seq(Decisions)
    OBVIOUS
  <2> QED BY <2>1, Zenon DEF Init
<1>6. requests \in Nat /\ faults \in Nat /\ crashes \in Nat
  BY NumbersAssumption DEF Init
<1> QED BY <1>3, <1>4, <1>5, <1>6, Zenon DEF TypeOK

\* What an arriving request leaves of the other variables.
LEMMA EnterType ==
  ASSUME TypeOK, NEW t \in Tenants, NEW o \in Ops, Enter(t, o),
         parked' \in [Tenants -> Request], overtaken' \subseteq Tenants
  PROVE  /\ TypeOK'
         /\ UNCHANGED row
         /\ \A u \in Tenants \ {t} : req'[u] = req[u]
<1>1. row[t] \in Row /\ files[t] \in Files
  BY DEF TypeOK
<1>2. Path(o, row[t]) \in Seq(Steps)
  BY <1>1, PathType
<1>3. [op |-> o, todo |-> Path(o, row[t]), ok |-> TRUE, seen |-> row[t],
       copy |-> files[t], found |-> row[t].status, rekeyed |-> FALSE] \in Request
  BY <1>1, <1>2 DEF Request, Row
<1>4. [op |-> o, ok |-> TRUE] \in Result /\ Nothing \in Result
  BY DEF Result, Nothing
<1>a. Idle \in Request
  BY DEF Idle, Request, Row, Files, NoRow, Sim, Statuses, LiveStatuses, Modes
<1>5. /\ req' \in [Tenants -> Request] /\ last' \in [Tenants -> Result]
      /\ \A u \in Tenants \ {t} : req'[u] = req[u]
  <2>1. CASE Path(o, row[t]) = <<>>
    BY <1>4, <1>a, <2>1 DEF Enter, TypeOK
  <2>2. CASE Path(o, row[t]) /= <<>>
    BY <1>3, <1>4, <2>2 DEF Enter, TypeOK
  <2> QED BY <2>1, <2>2
<1>6. account' \in [Tenants -> {"active", "suspended", "removed"}]
  BY DEF Enter, TypeOK
<1>7. session' \in [Tenants -> BOOLEAN]
  BY Zenon DEF Enter, TypeOK
<1>8. requests' \in Nat
  BY DEF Enter, TypeOK
<1>9. /\ UNCHANGED <<row, approvals, conn>> /\ UNCHANGED disk
      /\ UNCHANGED <<unit, faults, crashes>>
  BY DEF Enter
<1> QED BY <1>5, <1>6, <1>7, <1>8, <1>9 DEF TypeOK

\* A request arrives, overtakes another one, or takes over from it.
LEMMA BeginType ==
  ASSUME TypeOK, NEW t \in Tenants, NEW o \in Ops, Begin(t, o) \/ Overtake(t, o)
  PROVE  /\ TypeOK'
         /\ UNCHANGED row
         /\ \A u \in Tenants \ {t} : req'[u] = req[u] /\ parked'[u] = parked[u]
<1>1. req[t] \in Request
  BY DEF TypeOK
<1>2. parked' \in [Tenants -> Request] /\ overtaken' \subseteq Tenants
  BY <1>1, Zenon DEF Begin, Overtake, TypeOK
<1>3. \A u \in Tenants \ {t} : parked'[u] = parked[u]
  BY DEF Begin, Overtake, TypeOK
<1>4. Enter(t, o)
  BY DEF Begin, Overtake
<1> QED BY <1>2, <1>3, <1>4, EnterType

LEMMA SwitchType ==
  ASSUME TypeOK, NEW t \in Tenants, Switch(t)
  PROVE  /\ TypeOK'
         /\ UNCHANGED row
         /\ \A u \in Tenants \ {t} : req'[u] = req[u] /\ parked'[u] = parked[u]
<1>1. req[t] \in Request /\ parked[t] \in Request
  BY DEF TypeOK
<1>2. /\ req' \in [Tenants -> Request] /\ parked' \in [Tenants -> Request]
      /\ \A u \in Tenants \ {t} : req'[u] = req[u] /\ parked'[u] = parked[u]
  BY <1>1 DEF Switch, TypeOK
<1> QED BY <1>2 DEF Switch, TypeOK

LEMMA RekeysType ==
  ASSUME TypeOK, NEW t \in Tenants, Rekeys(t)
  PROVE  parked' \in [Tenants -> Request]
<1>1. parked[t] \in Request
  BY DEF TypeOK
<1>2. [parked[t] EXCEPT !.rekeyed = TRUE] \in Request
  BY <1>1 DEF Request
<1>3. \E r \in Request : parked' = [parked EXCEPT ![t] = r]
  BY <1>1, <1>2 DEF Rekeys
<1> QED BY <1>3, Zenon DEF TypeOK

\* A transaction on the approvals and the row.
LEMMA ApprovalsType ==
  ASSUME TypeOK, NEW t \in Tenants,
         RequestLive(t) \/ ApproveLive(t) \/ ResetLiveApproval(t)
           \/ FailLiveActivation(t)
  PROVE  /\ TypeOK'
         /\ row'[t].status = row[t].status
         /\ \A u \in Tenants \ {t} : row'[u] = row[u]
<1> DEFINE a == approvals[t]
<1>0. a \in Seq(Decisions) /\ row[t].status \in Statuses /\ row[t] \in Row
      /\ row[t].live \in LiveStatuses
  BY RowType DEF TypeOK
<1>1. \A s : [approvals EXCEPT ![t] = s] \in [Tenants -> Seq(Decisions)]
             \/ s \notin Seq(Decisions)
  BY DEF TypeOK
<1>2. \A f : f \in [DOMAIN a -> Decisions] => f \in Seq(Decisions)
  BY <1>0
<1>3. ASSUME RequestLive(t)
      PROVE  /\ approvals' \in [Tenants -> Seq(Decisions)] /\ row' \in [Tenants -> Row]
             /\ row'[t].status = row[t].status
             /\ \A u \in Tenants \ {t} : row'[u] = row[u]
             /\ At(t, "request") /\ Returns(t)
             /\ UNCHANGED <<account, session, conn>> /\ UNCHANGED disk
             /\ UNCHANGED unit /\ UNCHANGED budget /\ UNCHANGED overlap
  <2>1. Append(a, "requested") \in Seq(Decisions)
    BY <1>0 DEF Decisions
  <2>2. "requested" \in LiveStatuses
    BY DEF LiveStatuses
  <2>3. CASE req[t].op = "activate" /\ req[t].seen.live = "requested"
    BY <1>3, <2>3 DEF RequestLive, TypeOK
  <2>4. CASE ~(req[t].op = "activate" /\ req[t].seen.live = "requested")
    <3>1. Rows(t, row[t].status, "requested")
          /\ approvals' = [approvals EXCEPT ![t] = Append(a, "requested")]
      BY <1>3, <2>4 DEF RequestLive
    <3> QED BY <1>0, <1>1, <1>3, <2>1, <2>2, <3>1, RowsEffect DEF RequestLive
  <2> QED BY <2>3, <2>4
<1>4. ASSUME ApproveLive(t)
      PROVE  /\ approvals' \in [Tenants -> Seq(Decisions)] /\ row' \in [Tenants -> Row]
             /\ row'[t].status = row[t].status
             /\ \A u \in Tenants \ {t} : row'[u] = row[u]
             /\ At(t, "approve") /\ (Returns(t) \/ Raises(t))
             /\ UNCHANGED <<account, session, conn>> /\ UNCHANGED disk
             /\ UNCHANGED unit /\ UNCHANGED budget /\ UNCHANGED overlap
  <2>1. CASE UNCHANGED <<row, approvals>>
    BY <1>4, <2>1 DEF ApproveLive, TypeOK
  <2>2. CASE \E i \in DOMAIN a :
               /\ approvals' = [approvals EXCEPT ![t][i] = "approved"]
               /\ Rows(t, row[t].status, "approved")
    <3>1. PICK i \in DOMAIN a :
               /\ approvals' = [approvals EXCEPT ![t][i] = "approved"]
               /\ Rows(t, row[t].status, "approved")
      BY <2>2
    <3>2. [a EXCEPT ![i] = "approved"] \in Seq(Decisions)
      BY <1>0, <1>2, <3>1 DEF Decisions
    <3>3. "approved" \in LiveStatuses
      BY DEF LiveStatuses
    <3>4. approvals' = [approvals EXCEPT ![t] = [a EXCEPT ![i] = "approved"]]
      BY <3>1
    <3> QED BY <1>0, <1>1, <1>4, <3>1, <3>2, <3>3, <3>4, RowsEffect DEF ApproveLive
  <2> QED BY <1>4, <2>1, <2>2 DEF ApproveLive
<1>5. ASSUME ResetLiveApproval(t)
      PROVE  /\ approvals' \in [Tenants -> Seq(Decisions)] /\ row' \in [Tenants -> Row]
             /\ row'[t].status = row[t].status
             /\ \A u \in Tenants \ {t} : row'[u] = row[u]
             /\ At(t, "reset") /\ Returns(t)
             /\ UNCHANGED <<account, session, conn>> /\ UNCHANGED disk
             /\ UNCHANGED unit /\ UNCHANGED budget /\ UNCHANGED overlap
  <2> DEFINE b == [i \in DOMAIN a |->
                     IF a[i] \in {"requested", "approved"} THEN "superseded" ELSE a[i]]
  <2>1. b \in Seq(Decisions)
    BY <1>0, <1>2 DEF Decisions
  <2>2. approvals' = [approvals EXCEPT ![t] = b]
    BY <1>5 DEF ResetLiveApproval
  <2>3. "not_requested" \in LiveStatuses
    BY DEF LiveStatuses
  <2> HIDE DEF b
  <2> QED BY <1>0, <1>1, <1>5, <2>1, <2>2, <2>3, RowsEffect DEF ResetLiveApproval
<1>6. ASSUME FailLiveActivation(t)
      PROVE  /\ approvals' \in [Tenants -> Seq(Decisions)] /\ row' \in [Tenants -> Row]
             /\ row'[t].status = row[t].status
             /\ \A u \in Tenants \ {t} : row'[u] = row[u]
             /\ At(t, "failed") /\ Returns(t)
             /\ UNCHANGED <<account, session, conn>> /\ UNCHANGED disk
             /\ UNCHANGED unit /\ UNCHANGED budget /\ UNCHANGED overlap
  <2> DEFINE b == [i \in DOMAIN a |-> IF i = Len(a) THEN "activation_failed" ELSE a[i]]
  <2>1. b \in Seq(Decisions)
    BY <1>0, <1>2 DEF Decisions
  <2>2. approvals' = [approvals EXCEPT ![t] = b]
    BY <1>6 DEF FailLiveActivation
  <2>3. "activation_failed" \in LiveStatuses
    BY DEF LiveStatuses
  <2> HIDE DEF b
  <2> QED BY <1>0, <1>1, <1>6, <2>1, <2>2, <2>3, RowsEffect DEF FailLiveActivation
<1>7. /\ req' \in [Tenants -> Request] /\ last' \in [Tenants -> Result]
  BY <1>3, <1>4, <1>5, <1>6, StepEffect DEF Steps
<1>8. UNCHANGED <<account, session, conn>> /\ UNCHANGED disk
      /\ UNCHANGED unit /\ UNCHANGED budget /\ UNCHANGED overlap
  BY <1>3, <1>4, <1>5, <1>6
<1>9. /\ approvals' \in [Tenants -> Seq(Decisions)] /\ row' \in [Tenants -> Row]
      /\ row'[t].status = row[t].status
      /\ \A u \in Tenants \ {t} : row'[u] = row[u]
  BY <1>3, <1>4, <1>5, <1>6
<1> QED BY <1>7, <1>8, <1>9 DEF TypeOK

LEMMA ReserveType ==
  ASSUME TypeOK, NEW t \in Tenants, Reserve(t)
  PROVE  /\ TypeOK'
         /\ \A u \in Tenants \ {t} : row'[u] = row[u] /\ req'[u] = req[u]
<1>1. At(t, "reserve") /\ (Returns(t) \/ Raises(t)) /\ "reserve" \in Steps
  BY DEF Reserve, Steps
<1>2. /\ req' \in [Tenants -> Request] /\ last' \in [Tenants -> Result]
      /\ \A u \in Tenants \ {t} : req'[u] = req[u]
  BY <1>1, StepEffect
<1>3. {"starting", "queued"} \subseteq Statuses
  BY DEF Statuses
<1>4. row' \in [Tenants -> Row] /\ \A u \in Tenants \ {t} : row'[u] = row[u]
  <2>1. CASE UNCHANGED row
    BY <2>1 DEF TypeOK
  <2>2. CASE Rows(t, "starting", row[t].live) \/ Rows(t, "queued", row[t].live)
    BY <1>3, <2>2, RowType, RowsEffect
  <2> QED BY <2>1, <2>2 DEF Reserve
<1> QED BY <1>2, <1>4 DEF Reserve, TypeOK

\* The status a step of UpdateTenant writes.
Written(t) ==
  CASE At(t, "running") \/ At(t, "live") -> "running"
    [] At(t, "error") -> "error"
    [] At(t, "stopped") \/ At(t, "offline") -> "stopped"
    [] At(t, "connected") ->
         IF Enabled(req[t].seen) THEN "stopped" ELSE req[t].seen.status
    [] At(t, "repaired") ->
         IF req[t].found = "provision_failed" THEN "queued" ELSE row[t].status
    [] OTHER -> IF req[t].found \in Active THEN "degraded" ELSE "provision_failed"

LEMMA UpdateTenantType ==
  ASSUME TypeOK, NEW t \in Tenants, UpdateTenant(t)
  PROVE  /\ TypeOK'
         /\ row'[t].status = Written(t)
         /\ \A u \in Tenants \ {t} : row'[u] = row[u] /\ req'[u] = req[u]
<1>1. PICK s \in {"running", "live", "error", "stopped", "offline", "connected",
                  "repaired", "provisionFailed"} : At(t, s)
  BY DEF UpdateTenant
<1>2. s \in Steps /\ Returns(t) /\ Head(req[t].todo) = s
  BY <1>1 DEF Steps, UpdateTenant, At
<1>3. /\ req' \in [Tenants -> Request] /\ last' \in [Tenants -> Result]
      /\ \A u \in Tenants \ {t} : req'[u] = req[u]
  BY <1>1, <1>2, StepEffect
<1>4. Written(t) \in Statuses
  BY RowType DEF Written, Statuses
<1>5. \E live \in LiveStatuses : Rows(t, Written(t), live)
  <2> USE DEF At, Written, UpdateTenant
  <2>0. row[t].live \in LiveStatuses /\ {"not_requested", "active"} \subseteq LiveStatuses
    BY RowType DEF LiveStatuses
  <2>1. CASE s = "running"
    BY <1>1, <1>2, <2>0, <2>1
  <2>2. CASE s = "live"
    BY <1>1, <1>2, <2>0, <2>2
  <2>3. CASE s = "error"
    BY <1>1, <1>2, <2>0, <2>3
  <2>4. CASE s = "stopped"
    BY <1>1, <1>2, <2>0, <2>4
  <2>5. CASE s = "offline"
    BY <1>1, <1>2, <2>0, <2>5
  <2>6. CASE s = "connected"
    BY <1>1, <1>2, <2>0, <2>6
  <2>7. CASE s = "repaired"
    BY <1>1, <1>2, <2>0, <2>7
  <2>8. CASE s = "provisionFailed"
    BY <1>1, <1>2, <2>0, <2>8
  <2> QED BY <1>1, <2>1, <2>2, <2>3, <2>4, <2>5, <2>6, <2>7, <2>8
<1>6. /\ row' \in [Tenants -> Row] /\ row'[t].status = Written(t)
      /\ \A u \in Tenants \ {t} : row'[u] = row[u]
  BY <1>4, <1>5, RowsEffect
<1>7. UNCHANGED <<account, session, approvals, conn>> /\ UNCHANGED disk
      /\ UNCHANGED unit /\ UNCHANGED budget /\ UNCHANGED overlap
  BY DEF UpdateTenant
<1> QED BY <1>3, <1>6, <1>7 DEF TypeOK

\* The steps that leave the row alone.
RowFree(t) ==
  \/ StoreKeys(t) \/ Probe(t) \/ CreateSession(t) \/ SavePool(t) \/ Provision(t)
  \/ WriteFile(t) \/ Systemctl(t) \/ SystemctlTimesOut(t) \/ StepFails(t)

LEMMA SystemctlEffectType ==
  ASSUME TypeOK, NEW t \in Tenants, SystemctlEffect(t)
  PROVE  /\ unit' \in [Tenants -> Unit]
         /\ \E s \in {"boot", "reboot", "halt"} : At(t, s)
<1>1. Stored(t) \in BOOLEAN /\ files[t].yaml \in Modes /\ files[t].list \in Modes
  BY DEF Stored, TypeOK, Files
<1>2. [state |-> "up", armed |-> files[t].yaml = "live" /\ Stored(t),
       list |-> files[t].list] \in Unit
  BY <1>1 DEF Unit
<1>3. [state |-> "down", armed |-> FALSE, list |-> "sim"] \in Unit
  BY DEF Unit, Modes
<1>4. Boots(t) => unit' \in [Tenants -> Unit]
  BY <1>2, Zenon DEF Boots, TypeOK
<1>5. Halts(t) => unit' \in [Tenants -> Unit]
  BY <1>3, Zenon DEF Halts, TypeOK
<1>6. UNCHANGED unit => unit' \in [Tenants -> Unit]
  BY DEF TypeOK
<1> QED BY <1>4, <1>5, <1>6, Zenon DEF SystemctlEffect

LEMMA RowFreeType ==
  ASSUME TypeOK, NEW t \in Tenants, RowFree(t)
  PROVE  /\ TypeOK'
         /\ UNCHANGED row
         /\ \E s \in Steps \ {"running", "live", "connected", "reserve", "ensure"} :
              At(t, s) /\ (Returns(t) \/ Raises(t))
<1>1. ASSUME StoreKeys(t)
      PROVE  /\ conn' \in [Tenants -> Connection] /\ At(t, "storeKeys") /\ Returns(t)
             /\ UNCHANGED <<account, session, row, approvals>> /\ UNCHANGED disk
             /\ UNCHANGED unit /\ UNCHANGED budget
             /\ parked' \in [Tenants -> Request] /\ UNCHANGED overtaken
  BY <1>1, RekeysType DEF StoreKeys, TypeOK, Connection
<1>2. ASSUME Probe(t)
      PROVE  /\ conn' \in [Tenants -> Connection] /\ At(t, "probe")
             /\ Returns(t) \/ Raises(t)
             /\ UNCHANGED <<account, session, row, approvals>> /\ UNCHANGED disk
             /\ UNCHANGED unit /\ UNCHANGED budget /\ UNCHANGED overlap
  <2>1. conn[t] \in Connection /\ req[t].rekeyed \in BOOLEAN
    BY DEF TypeOK, Request
  <2>2. \A status \in {"tested", "failed"}, proved \in BOOLEAN :
          Verdict(t, status, proved) => conn' \in [Tenants -> Connection]
    <3>1. SUFFICES ASSUME NEW status \in {"tested", "failed"}, NEW proved \in BOOLEAN,
                          Verdict(t, status, proved)
                   PROVE  conn' \in [Tenants -> Connection]
      OBVIOUS
    <3>2. [status |-> status, proved |-> proved] \in Connection
      BY DEF Connection
    <3>3. \E c \in Connection : conn' = [conn EXCEPT ![t] = c]
      BY <2>1, <3>1, <3>2, Zenon DEF Verdict
    <3> QED BY <3>3, Zenon DEF TypeOK
  <2>3. (conn[t].proved \/ ~req[t].rekeyed) \in BOOLEAN /\ conn[t].proved \in BOOLEAN
    BY <2>1 DEF Connection
  <2>4. conn' \in [Tenants -> Connection]
    BY <1>2, <2>2, <2>3, Zenon DEF Probe
  <2> QED BY <1>2, <2>4 DEF Probe
<1>3. ASSUME CreateSession(t)
      PROVE  /\ session' \in [Tenants -> BOOLEAN] /\ At(t, "session") /\ Returns(t)
             /\ UNCHANGED <<account, row, approvals, conn>> /\ UNCHANGED disk
             /\ UNCHANGED unit /\ UNCHANGED budget /\ UNCHANGED overlap
  BY <1>3, Zenon DEF CreateSession, TypeOK
<1>4. ASSUME SavePool(t)
      PROVE  /\ At(t, "pool") /\ Returns(t) /\ UNCHANGED store /\ UNCHANGED disk
             /\ UNCHANGED unit /\ UNCHANGED budget /\ UNCHANGED overlap
  BY <1>4 DEF SavePool
<1>5. ASSUME Provision(t)
      PROVE  /\ workspace' \in [Tenants -> BOOLEAN] /\ At(t, "provision") /\ Returns(t)
             /\ UNCHANGED store /\ UNCHANGED files
             /\ UNCHANGED unit /\ UNCHANGED budget /\ UNCHANGED overlap
  BY <1>5, Zenon DEF Provision, TypeOK
<1>6. ASSUME WriteFile(t)
      PROVE  /\ workspace' \in [Tenants -> BOOLEAN] /\ files' \in [Tenants -> Files]
             /\ \E s \in {"yamlSim", "listSim", "yamlLive", "listLive",
                          "restoreYaml", "restoreList"} : At(t, s)
             /\ Returns(t) /\ UNCHANGED store
             /\ UNCHANGED unit /\ UNCHANGED budget /\ UNCHANGED overlap
  <2>1. workspace' \in [Tenants -> BOOLEAN]
    BY <1>6, Zenon DEF WriteFile, TypeOK
  <2>2. PICK m \in Modes : \/ files' = [files EXCEPT ![t].yaml = m]
                           \/ files' = [files EXCEPT ![t].list = m]
    <3>1. {"sim", "live", req[t].copy.yaml, req[t].copy.list} \subseteq Modes
      BY DEF TypeOK, Request, Files, Modes
    <3> QED BY <1>6, <3>1, Zenon DEF WriteFile
  <2>3. files' \in [Tenants -> Files]
    <3>1. files[t] \in Files
      BY DEF TypeOK
    <3>2. /\ [files[t] EXCEPT !.yaml = m] \in Files
          /\ [files[t] EXCEPT !.list = m] \in Files
      BY <3>1 DEF Files
    <3>3. \/ files' = [files EXCEPT ![t] = [files[t] EXCEPT !.yaml = m]]
          \/ files' = [files EXCEPT ![t] = [files[t] EXCEPT !.list = m]]
      BY <2>2
    <3> QED BY <3>2, <3>3, Zenon DEF TypeOK
  <2>4. \E s \in {"yamlSim", "listSim", "yamlLive", "listLive",
                  "restoreYaml", "restoreList"} : At(t, s)
    BY <1>6, Zenon DEF WriteFile
  <2> QED BY <1>6, <2>1, <2>3, <2>4 DEF WriteFile
<1>7. ASSUME Systemctl(t) \/ SystemctlTimesOut(t)
      PROVE  /\ unit' \in [Tenants -> Unit]
             /\ \E s \in {"boot", "reboot", "halt"} : At(t, s)
             /\ Returns(t) \/ Raises(t)
             /\ UNCHANGED store /\ UNCHANGED disk /\ UNCHANGED overlap
             /\ requests' \in Nat /\ faults' \in Nat /\ crashes' \in Nat
  BY <1>7, SystemctlEffectType DEF Systemctl, SystemctlTimesOut, Fault, TypeOK
<1>8. ASSUME StepFails(t)
      PROVE  /\ \E s \in {"boot", "reboot", "halt", "yamlSim", "listSim", "yamlLive",
                          "listLive", "restoreYaml", "restoreList", "pool",
                          "provision"} : At(t, s)
             /\ Raises(t)
             /\ UNCHANGED store /\ UNCHANGED disk /\ UNCHANGED unit /\ UNCHANGED overlap
             /\ requests' \in Nat /\ faults' \in Nat /\ crashes' \in Nat
  BY <1>8 DEF StepFails, Fault, TypeOK
<1>9. \E s \in Steps \ {"running", "live", "connected", "reserve", "ensure"} :
        At(t, s) /\ (Returns(t) \/ Raises(t))
  BY <1>1, <1>2, <1>3, <1>4, <1>5, <1>6, <1>7, <1>8 DEF RowFree, Steps
<1>10. req' \in [Tenants -> Request] /\ last' \in [Tenants -> Result]
  BY <1>9, StepEffect
<1>11. UNCHANGED row
  BY <1>1, <1>2, <1>3, <1>4, <1>5, <1>6, <1>7, <1>8 DEF RowFree
<1>12. TypeOK'
  <2>1. /\ account' \in [Tenants -> {"active", "suspended", "removed"}]
        /\ approvals' \in [Tenants -> Seq(Decisions)]
        /\ row' \in [Tenants -> Row]
    BY <1>1, <1>2, <1>3, <1>4, <1>5, <1>6, <1>7, <1>8 DEF RowFree, TypeOK
  <2>2. session' \in [Tenants -> BOOLEAN] /\ workspace' \in [Tenants -> BOOLEAN]
    BY <1>1, <1>2, <1>3, <1>4, <1>5, <1>6, <1>7, <1>8, Zenon DEF RowFree, TypeOK
  <2>3. /\ conn' \in [Tenants -> Connection] /\ files' \in [Tenants -> Files]
        /\ unit' \in [Tenants -> Unit]
        /\ requests' \in Nat /\ faults' \in Nat /\ crashes' \in Nat
        /\ parked' \in [Tenants -> Request] /\ overtaken' \subseteq Tenants
    BY <1>1, <1>2, <1>3, <1>4, <1>5, <1>6, <1>7, <1>8 DEF RowFree, TypeOK
  <2> QED BY <1>10, <2>1, <2>2, <2>3, Zenon DEF TypeOK
<1> QED BY <1>9, <1>11, <1>12

\* The two transactions that create and remove a tenant.
LEMMA LifeType ==
  ASSUME TypeOK, NEW t \in Tenants, EnsureTenant(t) \/ RemovePilot(t)
  PROVE  /\ TypeOK'
         /\ row'[t].status = row[t].status \/ row'[t].status \in {"queued", "removed"}
         /\ \A u \in Tenants \ {t} : row'[u] = row[u] /\ req'[u] = req[u]
         /\ At(t, "ensure") \/ At(t, "tombstone")
         /\ At(t, "ensure") => row'[t].status = IF row[t].status = "absent" THEN "queued"
                                                ELSE row[t].status
         /\ Returns(t) \/ Raises(t)
<1>1. (At(t, "ensure") \/ At(t, "tombstone")) /\ (Returns(t) \/ Raises(t))
  BY DEF EnsureTenant, RemovePilot
<1>2. /\ req' \in [Tenants -> Request] /\ last' \in [Tenants -> Result]
      /\ \A u \in Tenants \ {t} : req'[u] = req[u]
  BY <1>1, StepEffect DEF Steps
<1>3. \/ UNCHANGED row
      \/ Rows(t, "queued", "not_requested") \/ Rows(t, "removed", "not_requested")
  BY DEF EnsureTenant, RemovePilot
<1>4. /\ row' \in [Tenants -> Row]
      /\ row'[t].status = row[t].status \/ row'[t].status \in {"queued", "removed"}
      /\ \A u \in Tenants \ {t} : row'[u] = row[u]
  <2>1. {"queued", "removed"} \subseteq Statuses /\ "not_requested" \in LiveStatuses
    BY DEF Statuses, LiveStatuses
  <2>2. UNCHANGED row => row' \in [Tenants -> Row]
    BY DEF TypeOK
  <2> QED BY <1>3, <2>1, <2>2, RowsEffect
<1>5. conn' \in [Tenants -> Connection]
  <2>1. NoKeys \in Connection
    BY DEF NoKeys, Connection
  <2> QED BY <2>1 DEF EnsureTenant, RemovePilot, TypeOK
<1>6. session' \in [Tenants -> BOOLEAN]
  BY Zenon DEF EnsureTenant, RemovePilot, TypeOK
<1>7. account' \in [Tenants -> {"active", "suspended", "removed"}]
  BY DEF EnsureTenant, RemovePilot, TypeOK
<1>8. UNCHANGED approvals /\ UNCHANGED disk /\ UNCHANGED unit /\ UNCHANGED budget
      /\ UNCHANGED overtaken
  BY DEF EnsureTenant, RemovePilot
<1>9. parked' \in [Tenants -> Request]
  BY RekeysType DEF EnsureTenant, RemovePilot, TypeOK
<1>10. At(t, "ensure") => row'[t].status = IF row[t].status = "absent" THEN "queued"
                                          ELSE row[t].status
  <2>1. At(t, "ensure") => EnsureTenant(t)
    BY DEF RemovePilot, At
  <2>2. "queued" \in Statuses /\ "not_requested" \in LiveStatuses
    BY DEF Statuses, LiveStatuses
  <2> QED BY <2>1, <2>2, RowsEffect DEF EnsureTenant
<1>11. TypeOK'
  BY <1>2, <1>4, <1>5, <1>6, <1>7, <1>8, <1>9, Zenon DEF TypeOK
<1> QED BY <1>1, <1>2, <1>4, <1>10, <1>11

LEMMA EngineType ==
  ASSUME TypeOK, NEW t \in Tenants, Engine(t)
  PROVE  TypeOK' /\ UNCHANGED <<row, req>>
<1>1. [state |-> "down", armed |-> FALSE, list |-> "sim"] \in Unit
      /\ [state |-> "retrying", armed |-> FALSE, list |-> "sim"] \in Unit
  BY DEF Unit, Modes
<1>2. Stored(t) \in BOOLEAN /\ files[t].yaml \in Modes /\ files[t].list \in Modes
  BY DEF Stored, TypeOK, Files
<1>3. [state |-> "up", armed |-> files[t].yaml = "live" /\ Stored(t),
       list |-> files[t].list] \in Unit
  BY <1>2 DEF Unit
<1>4. HotReload(t) => unit' \in [Tenants -> Unit]
  <2>1. unit[t] \in Unit
    BY DEF TypeOK
  <2>2. [unit[t] EXCEPT !.list = files[t].list] \in Unit
    BY <1>2, <2>1 DEF Unit
  <2>3. HotReload(t) =>
          unit' = [unit EXCEPT ![t] = [unit[t] EXCEPT !.list = files[t].list]]
    BY DEF HotReload
  <2> QED BY <2>2, <2>3, Zenon DEF TypeOK
<1>5. EngineDies(t) => unit' \in [Tenants -> Unit]
  <2>1. EngineDies(t) =>
          \E u \in {[state |-> "down", armed |-> FALSE, list |-> "sim"],
                    [state |-> "retrying", armed |-> FALSE, list |-> "sim"]} :
            unit' = [unit EXCEPT ![t] = u]
    BY Zenon DEF EngineDies
  <2> QED BY <1>1, <2>1, Zenon DEF TypeOK
<1>6. UnitRetries(t) => unit' \in [Tenants -> Unit]
  BY <1>3, Zenon DEF UnitRetries, Boots, TypeOK
<1>7. /\ requests' \in Nat /\ faults' \in Nat /\ crashes' \in Nat
      /\ UNCHANGED store /\ UNCHANGED disk /\ UNCHANGED req /\ UNCHANGED last
      /\ UNCHANGED overlap
  BY DEF Engine, HotReload, EngineDies, UnitRetries, Crash, TypeOK
<1> QED BY <1>4, <1>5, <1>6, <1>7 DEF Engine, TypeOK

LEMMA CrashType ==
  ASSUME TypeOK, ControlCrash
  PROVE  TypeOK' /\ UNCHANGED row /\ req' = [t \in Tenants |-> Idle]
<1>1. Idle \in Request
  BY DEF Idle, Request, Row, Files, NoRow, Sim, Statuses, LiveStatuses, Modes
<1>2. req' \in [Tenants -> Request] /\ parked' \in [Tenants -> Request]
  BY <1>1 DEF ControlCrash
<1> QED BY <1>2 DEF ControlCrash, Crash, TypeOK

LEMMA NextCases ==
  ASSUME Next
  PROVE  \/ ControlCrash
         \/ \E t \in Tenants :
              \/ \E o \in Ops : Begin(t, o) \/ Overtake(t, o)
              \/ Switch(t)
              \/ Reserve(t) \/ UpdateTenant(t)
              \/ (RequestLive(t) \/ ApproveLive(t) \/ ResetLiveApproval(t)
                    \/ FailLiveActivation(t))
              \/ (EnsureTenant(t) \/ RemovePilot(t))
              \/ RowFree(t)
              \/ Engine(t)
<1>1. \A t \in Tenants :
        (\E o \in Overtaking : Overtake(t, o)) => \E o \in Ops : Overtake(t, o)
  BY OvertakingAssumption
<1> QED BY <1>1, Zenon DEF Next, Transaction, RowFree

\* Every variable of the control plane keeps its type.
THEOREM TypeCorrect == Safe => []TypeOK
<1>1. TypeOK /\ [Next]_vars => TypeOK'
  <2> SUFFICES ASSUME TypeOK, [Next]_vars PROVE TypeOK'
    OBVIOUS
  <2>1. CASE UNCHANGED vars
    BY <2>1 DEF vars, TypeOK
  <2>2. CASE Next
    BY <2>2, NextCases, CrashType, BeginType, SwitchType, ReserveType, UpdateTenantType,
       ApprovalsType, LifeType, RowFreeType, EngineType
  <2> QED BY <2>1, <2>2
<1> QED BY <1>1, InitType, PTL DEF Safe
-----------------------------------------------------------------------------
(* Capacity.  A row that a plan will publish as running holds its slot      *)
(* since the first step of the plan, and no other step gives a row a slot,  *)
(* unless another request of the tenant has changed the row meanwhile.      *)

PlanOK(t) ==
  \/ req[t].todo \in Seq(Plain)
  \/ /\ req[t].todo \in Seq(Raising) \ {<<>>}
     /\ Counted(row[t]) \/ Head(req[t].todo) = "reserve"
  \/ /\ req[t].todo \in Seq(Connecting) \ {<<>>}
     /\ \/ row[t].status = req[t].seen.status
        \/ Enabled(req[t].seen) /\ row[t].status = "stopped"
  \/ /\ req[t].todo \in Seq(Preflight) \ {<<>>}
     /\ \/ Head(req[t].todo) = "ensure"
        \/ req[t].found \in Active => Counted(row[t])

SlotInv ==
  TypeOK /\ SlotsBounded /\ \A t \in Sequential : parked[t] = Idle /\ PlanOK(t)

\* A step by which no row comes to hold a slot takes none away.
LEMMA SlotsKept ==
  ASSUME TypeOK, SlotsBounded, overtaken \subseteq overtaken',
         \A u \in Sequential : u \notin overtaken' =>
           (Counted(row'[u]) => Counted(row[u]))
  PROVE  SlotsBounded'
<1> DEFINE A == {u \in Sequential : Counted(row[u])}
           B == {u \in Tenants \ overtaken' : Counted(row'[u])}
<1>1. B \subseteq A
  BY DEF Sequential
<1>2. IsFiniteSet(A)
  BY TenantsAssumption, FS_Subset DEF Sequential
<1>3. Cardinality(B) <= Cardinality(A) /\ Cardinality(A) \in Nat /\ Cardinality(B) \in Nat
  BY <1>1, <1>2, FS_Subset, FS_CardinalityType
<1>4. Cardinality(A) <= MaxActive /\ MaxActive \in Nat
  BY NumbersAssumption DEF SlotsBounded
<1>5. Cardinality(B) <= MaxActive
  BY <1>3, <1>4
<1> QED BY <1>5 DEF SlotsBounded, Sequential

\* A step that leaves the status alone keeps the plan of its request.
LEMMA PlanKept ==
  ASSUME TypeOK, NEW t \in Tenants, PlanOK(t), NEW s \in Steps, At(t, s),
         Returns(t) \/ Raises(t), row'[t].status = row[t].status,
         s = "reserve" => Counted(row[t]) \/ req'[t].todo \in Seq(Plain),
         s /= "ensure"
  PROVE  PlanOK(t)'
<1>1. /\ req[t].todo /= <<>> /\ Head(req[t].todo) = s
      /\ \/ req'[t].todo = Tail(req[t].todo)
         \/ req'[t].todo \in Seq(Plain)
         \/ s = "provision" /\ req'[t].todo = <<"provisionFailed">>
      /\ req'[t].todo /= <<>> => /\ req'[t].seen = req[t].seen
                                 /\ req'[t].found = req[t].found
  BY StepEffect DEF At, Undoes, Found
<1>2. \A S : req[t].todo \in Seq(S) => Tail(req[t].todo) \in Seq(S) /\ s \in S
  BY <1>1, HeadTailProperties
<1>3. <<>> \in Seq(Plain)
  OBVIOUS
<1>4. Counted(row'[t]) = Counted(row[t])
  BY DEF Counted
<1>5. CASE req'[t].todo \in Seq(Plain)
  BY <1>5 DEF PlanOK
<1>6. CASE req'[t].todo = Tail(req[t].todo) /\ req'[t].todo /= <<>>
           /\ req[t].todo \in Seq(Raising)
           /\ (Counted(row[t]) \/ Head(req[t].todo) = "reserve")
  <2>1. CASE Counted(row[t])
    BY <1>2, <1>4, <1>6, <2>1 DEF PlanOK
  <2>2. CASE req'[t].todo \in Seq(Plain)
    BY <2>2 DEF PlanOK
  <2> QED BY <1>1, <1>6, <2>1, <2>2
<1>7. CASE req'[t].todo = Tail(req[t].todo) /\ req'[t].todo /= <<>>
           /\ req[t].todo \in Seq(Connecting)
           /\ (\/ row[t].status = req[t].seen.status
               \/ Enabled(req[t].seen) /\ row[t].status = "stopped")
  <2>1. req'[t].seen = req[t].seen /\ req'[t].todo \in Seq(Connecting)
    BY <1>1, <1>2, <1>7
  <2> QED BY <1>7, <2>1 DEF PlanOK
<1>8. CASE req'[t].todo = Tail(req[t].todo) /\ req[t].todo \in Seq(Plain)
  BY <1>2, <1>8 DEF PlanOK
<1>9. req'[t].todo = <<>> => req'[t].todo \in Seq(Plain)
  BY <1>3
<1>10. CASE req[t].todo \in Seq(Preflight) /\ req'[t].todo /= <<>>
            /\ (\/ Head(req[t].todo) = "ensure"
                \/ req[t].found \in Active => Counted(row[t]))
  <2>1. req'[t].found \in Active => Counted(row'[t])
    BY <1>1, <1>4, <1>10
  <2>2. CASE req'[t].todo = Tail(req[t].todo)
    BY <1>2, <1>10, <2>1, <2>2 DEF PlanOK
  <2>3. CASE req'[t].todo = <<"provisionFailed">>
    <3>1. <<"provisionFailed">> \in Seq(Preflight)
      BY DEF Preflight
    <3> QED BY <1>10, <2>1, <2>3, <3>1 DEF PlanOK
  <2> QED BY <1>1, <1>5, <2>2, <2>3
<1>11. CASE s = "provision" /\ req'[t].todo = <<"provisionFailed">>
  <2>1. req[t].todo \in Seq(Preflight)
    BY <1>2, <1>11 DEF PlanOK, Plain, Raising, Connecting
  <2>2. s \notin Plain /\ s \notin Raising /\ s \notin Connecting
    BY <1>11 DEF Plain, Raising, Connecting
  <2>3. \/ Head(req[t].todo) = "ensure"
        \/ req[t].found \in Active => Counted(row[t])
    BY <1>2, <2>2 DEF PlanOK
  <2> QED BY <1>9, <1>5, <1>10, <2>1, <2>3
<1> QED BY <1>1, <1>5, <1>6, <1>7, <1>8, <1>9, <1>10, <1>11, Zenon DEF PlanOK

\* A request of another tenant keeps its plan.
LEMMA PlanOfOthers ==
  ASSUME NEW u \in Tenants, PlanOK(u), row'[u] = row[u], req'[u] = req[u]
  PROVE  PlanOK(u)'
  BY DEF PlanOK, Counted

\* What a step of t has to show: nothing, if requests of t have overlapped.
LEMMA SlotStep ==
  ASSUME SlotInv, TypeOK', NEW t \in Tenants,
         \A u \in Tenants \ {t} :
           row'[u] = row[u] /\ req'[u] = req[u] /\ parked'[u] = parked[u],
         overtaken \subseteq overtaken',
         t \notin overtaken' => parked'[t] = Idle /\ PlanOK(t)' /\ SlotsBounded'
  PROVE  SlotInv'
<1>1. SlotsBounded'
  <2>1. CASE t \notin overtaken'
    BY <2>1
  <2>2. CASE t \in overtaken'
    BY <2>2, SlotsKept DEF SlotInv, Sequential
  <2> QED BY <2>1, <2>2
<1>2. ASSUME NEW u \in Tenants, u \notin overtaken'
      PROVE  parked'[u] = Idle /\ PlanOK(u)'
  <2>1. u \in Sequential
    BY <1>2 DEF Sequential
  <2>2. CASE u = t
    BY <1>2, <2>2
  <2>3. CASE u /= t
    BY <2>1, <2>3, PlanOfOthers DEF SlotInv
  <2> QED BY <2>2, <2>3
<1> QED BY <1>1, <1>2 DEF SlotInv, Sequential

\* A step of a request leaves resting requests alone, but for their keys.
LEMMA OverlapFrame ==
  ASSUME TypeOK, NEW t \in Tenants,
         \/ Reserve(t) \/ UpdateTenant(t)
         \/ (RequestLive(t) \/ ApproveLive(t) \/ ResetLiveApproval(t)
               \/ FailLiveActivation(t))
         \/ (EnsureTenant(t) \/ RemovePilot(t))
         \/ RowFree(t)
         \/ Engine(t)
  PROVE  /\ UNCHANGED overtaken
         /\ \A u \in Tenants \ {t} : parked'[u] = parked[u]
         /\ parked[t] = Idle => parked'[t] = Idle
<1>1. UNCHANGED overtaken /\ (UNCHANGED parked \/ Rekeys(t))
  <2>1. CASE Reserve(t) \/ UpdateTenant(t)
    BY <2>1 DEF Reserve, UpdateTenant
  <2>2. CASE RequestLive(t) \/ ApproveLive(t) \/ ResetLiveApproval(t)
               \/ FailLiveActivation(t)
    BY <2>2 DEF RequestLive, ApproveLive, ResetLiveApproval, FailLiveActivation
  <2>3. CASE EnsureTenant(t) \/ RemovePilot(t)
    BY <2>3 DEF EnsureTenant, RemovePilot
  <2>4. CASE RowFree(t)
    BY <2>4 DEF RowFree, StoreKeys, Probe, CreateSession, SavePool, Provision,
                WriteFile, Systemctl, SystemctlTimesOut, StepFails
  <2>5. CASE Engine(t)
    BY <2>5 DEF Engine, HotReload, EngineDies, UnitRetries
  <2> QED BY <2>1, <2>2, <2>3, <2>4, <2>5
<1>2. CASE UNCHANGED parked
  BY <1>1, <1>2
<1>3. CASE Rekeys(t)
  BY <1>1, <1>3 DEF Rekeys, TypeOK
<1> QED BY <1>1, <1>2, <1>3

LEMMA SlotInit == Init => SlotInv
<1> SUFFICES ASSUME Init PROVE SlotInv
  OBVIOUS
<1>1. \A t \in Tenants : ~Counted(row[t])
  BY DEF Init, Counted, NoRow, Active
<1>2. {t \in Sequential : Counted(row[t])} = {}
  BY <1>1 DEF Sequential
<1>3. SlotsBounded
  BY <1>2, FS_EmptySet, NumbersAssumption DEF SlotsBounded
<1>4. \A t \in Tenants : parked[t] = Idle /\ PlanOK(t)
  <2>1. <<>> \in Seq(Plain)
    OBVIOUS
  <2> QED BY <2>1 DEF Init, Idle, PlanOK
<1> QED BY <1>3, <1>4, InitType DEF SlotInv, Sequential

LEMMA SlotBegin ==
  ASSUME SlotInv, NEW t \in Sequential, NEW o \in Ops, Begin(t, o)
  PROVE  PlanOK(t)' /\ SlotsBounded' /\ parked'[t] = Idle
<1>1. UNCHANGED row /\ req[t] = Idle /\ t \in Tenants /\ UNCHANGED overlap
  BY DEF Begin, Enter, Sequential
<1>2. SlotsBounded' /\ parked'[t] = Idle
  BY <1>1 DEF SlotInv, SlotsBounded, Sequential
<1>3. row[t] \in Row /\ req \in [Tenants -> Request]
  BY <1>1 DEF SlotInv, TypeOK
<1>4. CASE Path(o, row[t]) = <<>>
  <2>1. req'[t].todo = <<>>
    BY <1>1, <1>3, <1>4 DEF Begin, Enter, Idle
  <2>2. <<>> \in Seq(Plain)
    OBVIOUS
  <2> QED BY <1>2, <2>1, <2>2 DEF PlanOK
<1>5. CASE Path(o, row[t]) /= <<>>
  <2>1. req'[t].todo = Path(o, row[t]) /\ req'[t].seen = row[t]
    BY <1>1, <1>3, <1>5 DEF Begin, Enter
  <2>2. row'[t] = row[t]
    BY <1>1
  <2>3. CASE Path(o, row[t]) \in Seq(Plain)
    BY <1>2, <2>1, <2>3 DEF PlanOK
  <2>4. CASE /\ Path(o, row[t]) \in Seq(Raising) \ {<<>>}
             /\ Counted(row[t]) \/ Head(Path(o, row[t])) = "reserve"
    BY <1>2, <2>1, <2>2, <2>4 DEF PlanOK, Counted
  <2>5. CASE Path(o, row[t]) \in Seq(Connecting) \ {<<>>}
    BY <1>2, <2>1, <2>2, <2>5 DEF PlanOK
  <2>6. CASE /\ Path(o, row[t]) \in Seq(Preflight) \ {<<>>}
             /\ Head(Path(o, row[t])) = "ensure"
    BY <1>2, <2>1, <2>6 DEF PlanOK
  <2> QED BY <1>3, <2>3, <2>4, <2>5, <2>6, PathPlan
<1> QED BY <1>4, <1>5

LEMMA SlotReserve ==
  ASSUME SlotInv, NEW t \in Sequential, Reserve(t)
  PROVE  PlanOK(t)' /\ SlotsBounded'
<1> USE DEF SlotInv
<1>0. t \in Tenants /\ overtaken' = overtaken /\ PlanOK(t) /\ TypeOK
  BY DEF Sequential, Reserve
<1>1. At(t, "reserve") /\ "reserve" \in Steps /\ (Returns(t) \/ Raises(t))
  BY DEF Reserve, Steps
<1>2. /\ \/ req'[t].todo = Tail(req[t].todo)
         \/ req'[t].todo \in Seq(Plain)
      /\ req[t].todo /= <<>> /\ Head(req[t].todo) = "reserve"
  BY <1>0, <1>1, StepEffect DEF At, Undoes
<1>3. req[t].todo \in Seq(Raising)
  <2>1. /\ "reserve" \notin Plain /\ "reserve" \notin Connecting
        /\ "reserve" \notin Preflight
    BY DEF Plain, Connecting, Preflight
  <2>2. \A S : req[t].todo \in Seq(S) => Head(req[t].todo) \in S
    BY <1>2, HeadTailProperties
  <2>3. /\ req[t].todo \notin Seq(Plain) /\ req[t].todo \notin Seq(Connecting)
        /\ req[t].todo \notin Seq(Preflight)
    BY <1>2, <2>1, <2>2
  <2> QED BY <1>0, <2>3 DEF PlanOK
<1>4. Tail(req[t].todo) \in Seq(Raising)
  BY <1>2, <1>3, HeadTailProperties
<1>5. ASSUME Counted(row'[t]) \/ req'[t].todo \in Seq(Plain) PROVE PlanOK(t)'
  <2>1. CASE req'[t].todo \in Seq(Plain)
    BY <2>1 DEF PlanOK
  <2>2. CASE req'[t].todo \in Seq(Raising) /\ req'[t].todo /= <<>> /\ Counted(row'[t])
    BY <2>2 DEF PlanOK
  <2>3. <<>> \in Seq(Plain)
    OBVIOUS
  <2> QED BY <1>2, <1>4, <1>5, <2>1, <2>2, <2>3
<1>6. CASE Counted(row[t]) /\ UNCHANGED row
  BY <1>0, <1>5, <1>6 DEF SlotsBounded, Sequential
<1>7. CASE /\ ~Counted(row[t])
           /\ Cardinality({u \in Tenants : Counted(row[u])}) < MaxActive
           /\ Rows(t, "starting", row[t].live)
  <2>1. /\ row'[t].status = "starting" /\ \A u \in Tenants \ {t} : row'[u] = row[u]
    BY <1>0, <1>7, RowType, RowsEffect DEF Statuses
  <2>2. Counted(row'[t])
    BY <2>1 DEF Counted, Active
  <2>3. SlotsBounded'
    <3> DEFINE A == {u \in Tenants : Counted(row[u])}
               B == {u \in Sequential : Counted(row'[u])}
    <3>1. B \subseteq A \cup {t}
      BY <2>1, <2>2 DEF Sequential
    <3>2. IsFiniteSet(A) /\ t \notin A
      BY <1>7, TenantsAssumption, FS_Subset
    <3>3. Cardinality(A \cup {t}) = Cardinality(A) + 1 /\ Cardinality(A) \in Nat
      BY <1>0, <3>2, FS_AddElement, FS_CardinalityType
    <3>4. Cardinality(A) < MaxActive /\ MaxActive \in Nat
      BY <1>7, NumbersAssumption
    <3>5. IsFiniteSet(A \cup {t})
      BY <3>2, FS_AddElement
    <3>6. Cardinality(B) <= Cardinality(A \cup {t}) /\ Cardinality(B) \in Nat
      BY <3>1, <3>5, FS_Subset, FS_CardinalityType
    <3>7. Cardinality(B) <= MaxActive
      BY <3>3, <3>4, <3>6
    <3> QED BY <1>0, <3>7 DEF SlotsBounded, Sequential
  <2> QED BY <1>5, <2>2, <2>3
<1>8. CASE Rows(t, "queued", row[t].live) /\ Raises(t) /\ ~Counted(row[t])
  <2>1. /\ row'[t].status = "queued" /\ \A u \in Tenants \ {t} : row'[u] = row[u]
    BY <1>0, <1>8, RowType, RowsEffect DEF Statuses
  <2>2. ~Counted(row'[t])
    BY <2>1 DEF Counted, Active
  <2>3. SlotsBounded'
    BY <1>0, <2>1, <2>2, SlotsKept DEF Sequential
  <2>4. req'[t].todo = Rescue(req[t], "reserve")
    BY <1>0, <1>1, <1>8, RaisesTodo
  <2>5. req'[t].todo \in Seq(Plain)
    BY <1>0, <1>1, <2>4, RescueType DEF TypeOK
  <2> QED BY <1>5, <2>3, <2>5
<1> QED BY <1>6, <1>7, <1>8 DEF Reserve

LEMMA SlotUpdateTenant ==
  ASSUME SlotInv, NEW t \in Sequential, UpdateTenant(t)
  PROVE  PlanOK(t)' /\ SlotsBounded'
<1> USE DEF SlotInv
<1>0. t \in Tenants /\ overtaken' = overtaken /\ PlanOK(t) /\ TypeOK
  BY DEF Sequential, UpdateTenant
<1>1. PICK s \in {"running", "live", "error", "stopped", "offline", "connected",
                  "repaired", "provisionFailed"} : At(t, s)
  BY DEF UpdateTenant
<1>2. s \in Steps /\ Returns(t) /\ Head(req[t].todo) = s /\ req[t].todo /= <<>>
  BY <1>1 DEF Steps, UpdateTenant, At
<1>3. /\ row'[t].status = Written(t) /\ \A u \in Tenants \ {t} : row'[u] = row[u]
  BY <1>0, UpdateTenantType
<1>4. /\ req'[t].todo = Tail(req[t].todo) \/ req'[t].todo \in Seq(Plain)
      /\ req'[t].todo /= <<>> => /\ req'[t].seen = req[t].seen
                                 /\ req'[t].found = req[t].found
  BY <1>0, <1>1, <1>2, StepEffect DEF Undoes, Found, At
<1>5. \A S : req[t].todo \in Seq(S) => s \in S /\ Tail(req[t].todo) \in Seq(S)
  BY <1>2, HeadTailProperties
<1>6. <<>> \in Seq(Plain)
  OBVIOUS
<1>a. ASSUME Counted(row'[t]) => Counted(row[t]) PROVE SlotsBounded'
  BY <1>0, <1>3, <1>a, SlotsKept DEF Sequential
<1>7. CASE req[t].todo \in Seq(Plain)
  <2>1. s \in {"error", "stopped", "offline", "repaired"}
    BY <1>5, <1>7 DEF Plain
  <2>2. Counted(row'[t]) => Counted(row[t])
    BY <1>1, <1>2, <1>3, <2>1 DEF Written, At, Counted, Active
  <2>3. PlanOK(t)'
    BY <1>4, <1>5, <1>7 DEF PlanOK
  <2> QED BY <1>a, <2>2, <2>3
<1>8. CASE /\ req[t].todo \in Seq(Raising)
           /\ Counted(row[t]) \/ Head(req[t].todo) = "reserve"
  <2>1. s \in {"running", "live"} /\ Counted(row[t])
    BY <1>2, <1>5, <1>8 DEF Raising
  <2>2. Counted(row'[t])
    BY <1>1, <1>2, <1>3, <2>1 DEF Written, At, Counted, Active
  <2>3. PlanOK(t)'
    BY <1>4, <1>5, <1>6, <1>8, <2>2 DEF PlanOK
  <2> QED BY <1>a, <2>1, <2>3
<1>9. CASE /\ req[t].todo \in Seq(Connecting)
           /\ \/ row[t].status = req[t].seen.status
              \/ Enabled(req[t].seen) /\ row[t].status = "stopped"
  <2>1. s = "connected"
    BY <1>5, <1>9 DEF Connecting
  <2>2. row'[t].status = IF Enabled(req[t].seen) THEN "stopped" ELSE req[t].seen.status
    BY <1>2, <1>3, <2>1 DEF Written, At
  <2>3. Counted(row'[t]) => Counted(row[t])
    BY <1>9, <2>2 DEF Counted, Active
  <2>4. PlanOK(t)'
    BY <1>4, <1>5, <1>6, <1>9, <2>2 DEF PlanOK
  <2> QED BY <1>a, <2>3, <2>4
<1>10. CASE /\ req[t].todo \in Seq(Preflight)
            /\ \/ Head(req[t].todo) = "ensure"
               \/ req[t].found \in Active => Counted(row[t])
  <2>1. s \in {"repaired", "provisionFailed"}
    BY <1>5, <1>10 DEF Preflight
  <2>2. req[t].found \in Active => Counted(row[t])
    BY <1>2, <1>10, <2>1
  <2>3. CASE s = "repaired"
    <3>1. row'[t].status = IF req[t].found = "provision_failed" THEN "queued"
                           ELSE row[t].status
      BY <1>2, <1>3, <2>3 DEF Written, At
    <3>2. Counted(row'[t]) => Counted(row[t])
      BY <3>1 DEF Counted, Active
    <3>3. req[t].found \in Active => Counted(row'[t])
      BY <2>2, <3>1 DEF Counted, Active
    <3>4. PlanOK(t)'
      BY <1>4, <1>5, <1>6, <1>10, <3>3 DEF PlanOK
    <3> QED BY <1>a, <3>2, <3>4
  <2>4. CASE s = "provisionFailed"
    <3>1. row'[t].status = IF req[t].found \in Active THEN "degraded"
                           ELSE "provision_failed"
      BY <1>2, <1>3, <2>4 DEF Written, At
    <3>2. Counted(row'[t]) => Counted(row[t])
      BY <2>2, <3>1 DEF Counted, Active
    <3>3. req[t].found \in Active => Counted(row'[t])
      BY <3>1 DEF Counted, Active
    <3>4. PlanOK(t)'
      BY <1>4, <1>5, <1>6, <1>10, <3>3 DEF PlanOK
    <3> QED BY <1>a, <3>2, <3>4
  <2> QED BY <2>1, <2>3, <2>4
<1> QED BY <1>0, <1>7, <1>8, <1>9, <1>10 DEF PlanOK

LEMMA SlotOther ==
  ASSUME SlotInv, NEW t \in Sequential, overtaken' = overtaken,
         NEW s \in Steps \ {"reserve", "ensure"}, At(t, s), Returns(t) \/ Raises(t),
         row'[t].status = row[t].status,
         \A u \in Tenants \ {t} : row'[u] = row[u]
  PROVE  PlanOK(t)' /\ SlotsBounded'
<1> USE DEF SlotInv
<1>0. t \in Tenants /\ PlanOK(t) /\ TypeOK
  BY DEF Sequential
<1>1. PlanOK(t)'
  BY <1>0, PlanKept
<1>2. SlotsBounded'
  BY <1>0, SlotsKept DEF Counted, Sequential
<1> QED BY <1>1, <1>2

LEMMA SlotLife ==
  ASSUME SlotInv, NEW t \in Sequential, EnsureTenant(t) \/ RemovePilot(t)
  PROVE  PlanOK(t)' /\ SlotsBounded'
<1> USE DEF SlotInv
<1>0. t \in Tenants /\ overtaken' = overtaken /\ PlanOK(t) /\ TypeOK
  BY DEF Sequential, EnsureTenant, RemovePilot
<1>1. PICK s \in {"ensure", "tombstone"} : At(t, s)
  BY <1>0, LifeType
<1>2. /\ s \in Steps /\ (Returns(t) \/ Raises(t))
      /\ Head(req[t].todo) = s /\ req[t].todo /= <<>>
  BY <1>0, <1>1, LifeType DEF Steps, At
<1>3. /\ req'[t].todo = Tail(req[t].todo) \/ req'[t].todo \in Seq(Plain)
      /\ req'[t].todo /= <<>> => req'[t].found = Found(t)
  BY <1>0, <1>1, <1>2, StepEffect DEF Undoes
<1>4. \A S : req[t].todo \in Seq(S) => s \in S /\ Tail(req[t].todo) \in Seq(S)
  BY <1>2, HeadTailProperties
<1>5. Counted(row'[t]) => Counted(row[t])
  BY <1>0, LifeType DEF Counted, Active
<1>6. SlotsBounded'
  BY <1>0, <1>5, LifeType, SlotsKept DEF Sequential
<1>7. CASE req'[t].todo \in Seq(Plain)
  BY <1>6, <1>7 DEF PlanOK
<1>8. CASE req[t].todo \in Seq(Plain)
  BY <1>3, <1>4, <1>6, <1>8 DEF PlanOK
<1>9. CASE s = "ensure" /\ req'[t].todo = Tail(req[t].todo) /\ req'[t].todo /= <<>>
  <2>0. s \notin Plain /\ s \notin Raising /\ s \notin Connecting
    BY <1>9 DEF Plain, Raising, Connecting
  <2>1. req[t].todo \in Seq(Preflight)
    BY <1>0, <1>4, <2>0 DEF PlanOK
  <2>2. Found(t) = row'[t].status
    BY <1>0, <1>1, <1>9, LifeType DEF Found
  <2>3. req'[t].found \in Active => Counted(row'[t])
    BY <1>3, <1>9, <2>2 DEF Counted
  <2> QED BY <1>4, <1>6, <1>9, <2>1, <2>3 DEF PlanOK
<1>10. CASE s = "tombstone"
  BY <1>0, <1>4, <1>8, <1>10 DEF PlanOK, Raising, Connecting, Preflight
<1>11. <<>> \in Seq(Plain)
  OBVIOUS
<1> QED BY <1>3, <1>7, <1>9, <1>10, <1>11

\* However the requests of different tenants interleave, fail and are cut short
\* by crashes, and whatever overlapping requests of one tenant do to each other,
\* the tenants whose requests never overlapped hold no more slots together than
\* max_active_engines.
THEOREM CapacityHeld == Safe => []SlotsBounded
<1>1. SlotInv /\ [Next]_vars => SlotInv'
  <2> SUFFICES ASSUME SlotInv, [Next]_vars PROVE SlotInv'
    OBVIOUS
  <2>0. TypeOK /\ \A t \in Sequential : t \in Tenants /\ parked[t] = Idle
    BY DEF SlotInv, Sequential
  <2>1. CASE UNCHANGED vars
    BY <2>1 DEF vars, SlotInv, TypeOK, SlotsBounded, PlanOK, Counted, Sequential
  <2>2. CASE Next
    <3>1. CASE ControlCrash
      <4>1. /\ TypeOK' /\ UNCHANGED <<row, overtaken>>
            /\ \A t \in Tenants : req'[t].todo = <<>> /\ parked'[t] = Idle
        BY <2>0, <3>1, CrashType DEF Idle, ControlCrash
      <4>2. <<>> \in Seq(Plain)
        OBVIOUS
      <4> QED BY <4>1, <4>2 DEF SlotInv, SlotsBounded, PlanOK, Sequential
    <3>2. ASSUME NEW t \in Tenants, NEW o \in Ops, Begin(t, o) \/ Overtake(t, o)
          PROVE  SlotInv'
      <4>1. CASE Begin(t, o)
        BY <2>0, <4>1, BeginType, SlotBegin, SlotStep DEF Begin, Sequential
      <4>2. CASE Overtake(t, o)
        BY <2>0, <4>2, BeginType, SlotStep DEF Overtake
      <4> QED BY <3>2, <4>1, <4>2
    <3>3. ASSUME NEW t \in Tenants, Switch(t) PROVE SlotInv'
      <4>1. t \in overtaken /\ UNCHANGED overtaken
        BY <2>0, <3>3 DEF Switch, Sequential
      <4> QED BY <2>0, <3>3, <4>1, SwitchType, SlotStep
    <3>4. ASSUME NEW t \in Tenants, Reserve(t) PROVE SlotInv'
      <4>1. \A u \in Tenants \ {t} : row'[u] = row[u] /\ req'[u] = req[u]
        BY <2>0, <3>4, ReserveType
      <4> QED BY <2>0, <3>4, <4>1, ReserveType, OverlapFrame, SlotReserve, SlotStep
              DEF Sequential
    <3>5. ASSUME NEW t \in Tenants, UpdateTenant(t) PROVE SlotInv'
      <4>1. \A u \in Tenants \ {t} : row'[u] = row[u] /\ req'[u] = req[u]
        BY <2>0, <3>5, UpdateTenantType
      <4> QED BY <2>0, <3>5, <4>1, UpdateTenantType, OverlapFrame, SlotUpdateTenant,
                 SlotStep DEF Sequential
    <3>6. ASSUME NEW t \in Tenants,
                 RequestLive(t) \/ ApproveLive(t) \/ ResetLiveApproval(t)
                   \/ FailLiveActivation(t)
          PROVE  SlotInv'
      <4>1. PICK s \in Steps \ {"reserve", "ensure"} :
              At(t, s) /\ (Returns(t) \/ Raises(t))
        BY <3>6 DEF RequestLive, ApproveLive, ResetLiveApproval,
                    FailLiveActivation, Steps
      <4>2. \A u \in Tenants \ {t} : row'[u] = row[u] /\ req'[u] = req[u]
        BY <2>0, <3>6, <4>1, ApprovalsType, StepEffect
      <4>3. overtaken' = overtaken /\ TypeOK' /\ row'[t].status = row[t].status
        BY <2>0, <3>6, ApprovalsType, OverlapFrame
      <4>4. t \in Sequential => PlanOK(t)' /\ SlotsBounded'
        BY <4>1, <4>2, <4>3, SlotOther
      <4> QED BY <2>0, <3>6, <4>2, <4>3, <4>4, OverlapFrame, SlotStep DEF Sequential
    <3>7. ASSUME NEW t \in Tenants, EnsureTenant(t) \/ RemovePilot(t) PROVE SlotInv'
      <4>1. \A u \in Tenants \ {t} : row'[u] = row[u] /\ req'[u] = req[u]
        BY <2>0, <3>7, LifeType
      <4> QED BY <2>0, <3>7, <4>1, LifeType, OverlapFrame, SlotLife, SlotStep
              DEF Sequential
    <3>8. ASSUME NEW t \in Tenants, RowFree(t) PROVE SlotInv'
      <4>1. PICK s \in Steps \ {"reserve", "ensure"} :
              At(t, s) /\ (Returns(t) \/ Raises(t))
        BY <2>0, <3>8, RowFreeType
      <4>2. /\ \A u \in Tenants \ {t} : row'[u] = row[u] /\ req'[u] = req[u]
            /\ overtaken' = overtaken /\ TypeOK' /\ row'[t].status = row[t].status
        BY <2>0, <3>8, <4>1, RowFreeType, StepEffect, OverlapFrame
      <4>3. t \in Sequential => PlanOK(t)' /\ SlotsBounded'
        BY <4>1, <4>2, SlotOther
      <4> QED BY <2>0, <3>8, <4>2, <4>3, OverlapFrame, SlotStep DEF Sequential
    <3>9. ASSUME NEW t \in Tenants, Engine(t) PROVE SlotInv'
      <4>1. UNCHANGED <<row, req>> /\ UNCHANGED overlap /\ TypeOK'
        BY <2>0, <3>9, EngineType DEF Engine, HotReload, EngineDies, UnitRetries
      <4> QED BY <4>1 DEF SlotInv, SlotsBounded, PlanOK, Counted, Sequential
    <3> QED BY <2>2, <3>1, <3>2, <3>3, <3>4, <3>5, <3>6, <3>7, <3>8, <3>9, NextCases
  <2> QED BY <2>1, <2>2
<1>2. SlotInv => SlotsBounded
  BY DEF SlotInv
<1> QED BY <1>1, <1>2, SlotInit, PTL DEF Safe
=============================================================================
