---------------------- MODULE ControlPlaneSafetyProofs ----------------------
(***************************************************************************)
(* Keys, sessions, removals, engines and failures: the invariants of       *)
(* ControlPlane about one tenant at a time, for every set of tenants and   *)
(* every bound.                                                            *)
(*                                                                         *)
(* What is left of a request is a list of steps.  Flow says which step may *)
(* follow which, so that the first step of the list serves as the request's*)
(* program counter, and the invariants below attach to it what holds       *)
(* there, as one does with a program.                                      *)
(***************************************************************************)
EXTENDS ControlPlaneProofs

USE DEF store, disk, budget, overlap

-----------------------------------------------------------------------------
(* Lists of steps in which each step is followed by one that R allows.      *)

First(q, e) == IF q = <<>> THEN e ELSE q[1]
After(q, i, e) == IF i = Len(q) THEN e ELSE q[i + 1]
Walk(q, R, e) == \A i \in 1..Len(q) : <<q[i], After(q, i, e)>> \in R

LEMMA WalkOn ==
  ASSUME NEW S, NEW q \in Seq(S), q /= <<>>, NEW R, NEW e, Walk(q, R, e)
  PROVE  /\ Walk(Tail(q), R, e)
         /\ <<First(q, e), First(Tail(q), e)>> \in R
<1> DEFINE p == Tail(q)
<1>1. /\ Len(q) \in Nat \ {0} /\ Len(p) = Len(q) - 1 /\ p \in Seq(S)
      /\ \A i \in 1..Len(p) : p[i] = q[i + 1]
      /\ Len(p) = 0 => p = <<>>
  BY HeadTailProperties, EmptySeq
<1> HIDE DEF p
<1>2. ASSUME NEW i \in 1..Len(p) PROVE <<p[i], After(p, i, e)>> \in R
  <2>1. i + 1 \in 1..Len(q)
    BY <1>1
  <2>2. p[i] = q[i + 1]
    BY <1>1
  <2>3. After(p, i, e) = After(q, i + 1, e)
    BY <1>1 DEF After
  <2> QED BY <2>1, <2>2, <2>3 DEF Walk
<1>3. First(p, e) = After(q, 1, e)
  <2>1. CASE Len(p) = 0
    BY <1>1, <2>1 DEF After, First
  <2>2. CASE Len(p) > 0
    BY <1>1, <2>2 DEF After, First
  <2> QED BY <1>1, <2>1, <2>2
<1>4. 1 \in 1..Len(q) /\ First(q, e) = q[1]
  BY <1>1 DEF First
<1>5. <<First(q, e), First(p, e)>> \in R
  BY <1>3, <1>4 DEF Walk
<1> QED BY <1>2, <1>5 DEF Walk, p

LEMMA WalkBoth ==
  ASSUME NEW S, NEW p \in Seq(S), NEW q \in Seq(S), NEW R, NEW e,
         Walk(p, R, First(q, e)), Walk(q, R, e)
  PROVE  Walk(p \o q, R, e) /\ First(p \o q, e) = First(p, First(q, e))
<1> DEFINE c == p \o q
<1>1. /\ c \in Seq(S) /\ Len(p) \in Nat /\ Len(q) \in Nat
      /\ Len(c) = Len(p) + Len(q)
      /\ \A i \in 1..Len(p) : c[i] = p[i]
      /\ \A i \in 1..Len(q) : c[Len(p) + i] = q[i]
      /\ Len(p) = 0 => p = <<>>
      /\ Len(q) = 0 => q = <<>>
      /\ Len(c) = 0 => c = <<>>
  BY EmptySeq
<1> HIDE DEF c
<1>2. ASSUME NEW i \in 1..Len(c) PROVE <<c[i], After(c, i, e)>> \in R
  <2>1. CASE i <= Len(p)
    <3>1. c[i] = p[i] /\ i \in 1..Len(p)
      BY <1>1, <2>1
    <3>2. After(c, i, e) = After(p, i, First(q, e))
      <4>1. CASE i < Len(p)
        BY <1>1, <4>1 DEF After
      <4>2. CASE i = Len(p) /\ Len(q) = 0
        BY <1>1, <4>2 DEF After, First
      <4>3. CASE i = Len(p) /\ Len(q) > 0
        <5>1. First(q, e) = q[1] /\ q[1] = c[i + 1]
          BY <1>1, <4>3 DEF First
        <5> QED BY <1>1, <4>3, <5>1 DEF After
      <4> QED BY <1>1, <2>1, <4>1, <4>2, <4>3
    <3> QED BY <3>1, <3>2 DEF Walk
  <2>2. CASE i > Len(p)
    <3> DEFINE j == i - Len(p)
    <3>1. j \in 1..Len(q) /\ i = Len(p) + j
      BY <1>1, <2>2
    <3> HIDE DEF j
    <3>2. c[i] = q[j]
      BY <1>1, <3>1
    <3>3. CASE j = Len(q)
      BY <1>1, <3>1, <3>2, <3>3 DEF Walk, After
    <3>4. CASE j < Len(q)
      <4>1. c[i + 1] = q[j + 1]
        <5>1. i + 1 = Len(p) + (j + 1) /\ j + 1 \in 1..Len(q)
          BY <1>1, <3>1, <3>4
        <5> QED BY <1>1, <5>1
      <4> QED BY <1>1, <3>1, <3>2, <3>4, <4>1 DEF Walk, After
    <3> QED BY <3>1, <3>3, <3>4
  <2> QED BY <1>1, <2>1, <2>2
<1>3. First(c, e) = First(p, First(q, e))
  <2>1. CASE Len(p) = 0 /\ Len(q) = 0
    BY <1>1, <2>1 DEF First
  <2>2. CASE Len(p) = 0 /\ Len(q) > 0
    BY <1>1, <2>2 DEF First
  <2>3. CASE Len(p) > 0
    BY <1>1, <2>3 DEF First
  <2> QED BY <1>1, <2>1, <2>2, <2>3
<1> QED BY <1>2, <1>3 DEF Walk, c

LEMMA WalkThree ==
  ASSUME NEW S, NEW p \in Seq(S), NEW q \in Seq(S), NEW z \in Seq(S), NEW R,
         NEW c, NEW d, NEW e, Walk(p, R, c), Walk(q, R, d), Walk(z, R, e),
         First(q, d) = c, First(z, e) = d
  PROVE  Walk((p \o q) \o z, R, e) /\ First((p \o q) \o z, e) = First(p, c)
<1> DEFINE pq == p \o q
<1>1. pq \in Seq(S)
  OBVIOUS
<1>2. Walk(pq, R, d) /\ First(pq, d) = First(p, c)
  BY WalkBoth
<1> HIDE DEF pq
<1>3. Walk(pq \o z, R, e) /\ First(pq \o z, e) = First(pq, d)
  BY <1>1, <1>2, WalkBoth
<1> QED BY <1>2, <1>3 DEF pq

LEMMA StepLists ==
  /\ <<>> \in Seq(Steps) /\ <<"halt">> \in Seq(Steps) /\ <<"pool">> \in Seq(Steps)
  /\ <<"tombstone">> \in Seq(Steps) /\ <<"failed">> \in Seq(Steps)
  /\ <<"error">> \in Seq(Steps) /\ <<"offline">> \in Seq(Steps)
  /\ <<"halt", "stopped">> \in Seq(Steps) /\ <<"halt", "offline">> \in Seq(Steps)
  /\ <<"yamlSim", "listSim">> \in Seq(Steps)
  /\ <<"restoreYaml", "restoreList">> \in Seq(Steps)
  /\ <<"halt", "stopped", "reset">> \in Seq(Steps)
  /\ <<"reset", "connected", "storeKeys">> \in Seq(Steps)
BY DEF Steps

LEMMA Walks ==
  ASSUME NEW R, NEW e
  PROVE  /\ Walk(<<>>, R, e)
         /\ \A a : <<a, e>> \in R => Walk(<<a>>, R, e)
         /\ \A a, b : <<a, b>> \in R /\ <<b, e>> \in R => Walk(<<a, b>>, R, e)
         /\ \A a, b, c : <<a, b>> \in R /\ <<b, c>> \in R /\ <<c, e>> \in R
              => Walk(<<a, b, c>>, R, e)
BY DEF Walk, After


-----------------------------------------------------------------------------
(* The plans of ControlPlane as such walks.                                 *)

\* Which step may follow which in a request of operation op that read the row
\* seen, with the steps of its rescues.
Flow(op, seen) ==
  CASE op = "start" -> {<<"reserve", "boot">>, <<"boot", "running">>,
                        <<"running", "end">>, <<"error", "end">>}
    [] op = "restart" -> {<<"reserve", "reboot">>, <<"reboot", "running">>,
                          <<"running", "end">>, <<"error", "end">>}
    [] op = "stop" -> {<<"halt", "stopped">>, <<"stopped", "end">>}
    [] op = "connect" -> {<<"halt", "yamlSim">>, <<"yamlSim", "listSim">>,
                          <<"listSim", "reset">>, <<"reset", "connected">>,
                          <<"connected", "storeKeys">>, <<"storeKeys", "end">>}
    [] op = "test" -> {<<"probe", "end">>}
    [] op = "request" -> {<<"request", "end">>}
    [] op = "activate" ->
         {<<"reserve", "request">>, <<"request", "approve">>,
          <<"approve", "yamlLive">>, <<"yamlLive", "listLive">>,
          <<"listLive", "reboot">>, <<"reboot", "live">>, <<"live", "end">>,
          <<"yamlSim", "listSim">>, <<"listSim", "failed">>,
          <<"failed", "error">>, <<"error", "end">>}
    [] op = "approve" ->
         {<<"reserve", "approve">>,
          <<"approve", "yamlLive">>, <<"yamlLive", "listLive">>,
          <<"listLive", "reboot">>, <<"reboot", "live">>, <<"live", "end">>,
          <<"halt", "yamlSim">>, <<"yamlSim", "listSim">>, <<"listSim", "failed">>,
          <<"failed", IF Counted(seen) THEN "end" ELSE "error">>, <<"error", "end">>}
    [] op = "deactivate" -> {<<"halt", "yamlSim">>, <<"yamlSim", "listSim">>,
                             <<"listSim", "offline">>, <<"offline", "end">>}
    [] op = "profile" -> {<<"halt", "stopped">>, <<"stopped", "reset">>,
                          <<"reset", "yamlSim">>, <<"yamlSim", "listSim">>,
                          <<"listSim", "end">>}
    [] op = "switch" -> {<<"halt", "stopped">>, <<"stopped", "reset">>,
                         <<"stopped", "yamlSim">>, <<"reset", "yamlSim">>,
                         <<"yamlSim", "listSim">>, <<"listSim", "end">>}
    [] op = "addPair" -> {<<"yamlLive", "listLive">>, <<"listLive", "end">>}
    [] op = "promote" ->
         {<<"halt", "stopped">>, <<"stopped", "reset">>, <<"reset", "yamlSim">>,
          <<"yamlSim", "listSim">>, <<"listSim", "pool">>, <<"pool", "end">>,
          <<"restoreYaml", "restoreList">>, <<"listSim", "end">>,
          <<"restoreList", IF LiveEnabled(seen) THEN "yamlSim" ELSE "end">>}
    [] op = "suspend" -> {<<"halt", "offline">>, <<"offline", "yamlSim">>,
                          <<"yamlSim", "listSim">>, <<"listSim", "end">>}
    [] op = "remove" -> {<<"halt", "offline">>, <<"offline", "tombstone">>,
                         <<"tombstone", "end">>}
    [] op = "login" -> {<<"ensure", "provision">>, <<"provision", "repaired">>,
                        <<"repaired", "session">>, <<"session", "end">>,
                        <<"provisionFailed", "end">>}
    [] op = "reactivate" -> {<<"ensure", "provision">>, <<"provision", "repaired">>,
                             <<"repaired", "end">>, <<"provisionFailed", "end">>}
    [] OTHER -> {}

\* Where an operation begins for a tenant whose row reads r.
Entry(o, r) ==
  CASE o \in {"start", "activate", "approve"} -> "reserve"
    [] o = "restart" -> IF Counted(r) THEN "reboot" ELSE "reserve"
    [] o \in {"stop", "deactivate"} -> "halt"
    [] o = "connect" -> IF Enabled(r) THEN "halt" ELSE "yamlSim"
    [] o = "test" -> "probe"
    [] o = "request" -> "request"
    [] o \in {"profile", "promote"} -> IF LiveEnabled(r) THEN "halt" ELSE "yamlSim"
    [] o = "switch" -> IF r.status = "running" \/ LiveEnabled(r) THEN "halt"
                       ELSE "yamlSim"
    [] o = "addPair" -> "yamlLive"
    [] o = "suspend" -> IF r.status = "absent" THEN "end" ELSE "halt"
    [] o = "remove" -> IF r.status = "absent" THEN "tombstone" ELSE "halt"
    [] OTHER -> "ensure"

\* Where the rescue of step s begins.
RescueEntry(r, s) ==
  CASE r.op \in {"start", "restart"} /\ s /= "reserve" -> "error"
    [] r.op \in {"activate", "approve"} /\ s \in {"yamlSim", "listSim"} -> "failed"
    [] r.op = "activate" /\ s \notin {"reserve", "yamlSim", "listSim"} -> "yamlSim"
    [] r.op = "approve" /\ s = "halt" -> "yamlSim"
    [] r.op = "approve" /\ s \notin {"reserve", "yamlSim", "listSim", "halt"} -> "halt"
    [] r.op = "deactivate" -> "offline"
    [] r.op = "suspend" /\ s = "halt" -> "offline"
    [] r.op = "promote" /\ r.ok /\ s /= "halt" -> "restoreYaml"
    [] r.op = "promote" /\ ~r.ok /\ s \in {"restoreYaml", "restoreList"}
                        /\ LiveEnabled(r.seen) -> "yamlSim"
    [] r.op \in {"login", "reactivate"} /\ s = "provision" -> "provisionFailed"
    [] OTHER -> "end"

\* List q begins with step s and keeps to the flow of op.
Keeps(q, op, seen, s) == Walk(q, Flow(op, seen), "end") /\ First(q, "end") = s

LEMMA PathKeeps ==
  ASSUME NEW o \in Ops, NEW r \in Row
  PROVE  Keeps(Path(o, r), o, r, Entry(o, r))
<1> USE DEF Keeps, Entry
<1>1. CASE o = "start"
  BY <1>1 DEF Path, Flow, Walk, After, First
<1>2. CASE o = "restart"
  BY <1>2 DEF Path, RestartPath, Flow, Walk, After, First
<1>3. CASE o = "stop"
  BY <1>3 DEF Path, Flow, Walk, After, First
<1>4. CASE o \in {"test", "request", "addPair"}
  BY <1>4 DEF Path, Flow, Walk, After, First
<1>5. CASE o = "activate"
  BY <1>5 DEF Path, Flow, Walk, After, First
<1>6. CASE o = "approve"
  BY <1>6 DEF Path, Flow, Walk, After, First
<1>7. CASE o \in {"login", "reactivate"}
  BY <1>7 DEF Path, LoginPath, Flow, Walk, After, First
<1> DEFINE R == Flow(o, r)
           C == <<"yamlSim", "listSim">>
<1>8. Cool = C /\ C \in Seq(Steps) /\ <<>> \in Seq(Steps)
  BY DEF Cool, Steps
<1>9. CASE o = "connect"
  <2> DEFINE H == IF Enabled(r) THEN <<"halt">> ELSE <<>>
             K == <<"reset", "connected", "storeKeys">>
  <2>1. R = {<<"halt", "yamlSim">>, <<"yamlSim", "listSim">>, <<"listSim", "reset">>,
             <<"reset", "connected">>, <<"connected", "storeKeys">>,
             <<"storeKeys", "end">>}
    BY <1>9 DEF Flow
  <2>2. /\ Walk(H, R, "yamlSim") /\ Walk(C, R, "reset") /\ Walk(K, R, "end")
        /\ First(K, "end") = "reset" /\ First(C, "reset") = "yamlSim"
        /\ First(H, "yamlSim") = Entry(o, r)
    BY <1>9, <2>1 DEF Walk, After, First
  <2>3. H \in Seq(Steps) /\ C \in Seq(Steps) /\ K \in Seq(Steps)
    BY StepLists, Zenon
  <2>4. Path(o, r) = (H \o C) \o K
    BY <1>8, <1>9, Zenon DEF Path, ConnectPath
  <2> HIDE DEF R, H, C, K
  <2>5. Walk((H \o C) \o K, R, "end") /\ First((H \o C) \o K, "end") = Entry(o, r)
    BY <2>2, <2>3, WalkThree
  <2> QED BY <2>4, <2>5 DEF R
<1>10. CASE o = "deactivate"
  <2> DEFINE H == <<"halt">>
             K == <<"offline">>
  <2>1. /\ Walk(H, R, "yamlSim") /\ Walk(C, R, "offline") /\ Walk(K, R, "end")
        /\ First(K, "end") = "offline" /\ First(C, "offline") = "yamlSim"
        /\ First(H, "yamlSim") = Entry(o, r)
    BY <1>10 DEF Flow, Walk, After, First
  <2>2. H \in Seq(Steps) /\ C \in Seq(Steps) /\ K \in Seq(Steps)
    BY DEF Steps
  <2>3. Path(o, r) = (H \o C) \o K
    BY <1>8, <1>10, Zenon DEF Path
  <2> HIDE DEF R, H, C, K
  <2>4. Walk((H \o C) \o K, R, "end") /\ First((H \o C) \o K, "end") = Entry(o, r)
    BY <2>1, <2>2, WalkThree
  <2> QED BY <2>3, <2>4 DEF R
<1>11. CASE o \in {"profile", "switch"}
  <2> DEFINE H == IF o = "switch" /\ r.status = "running" /\ ~LiveEnabled(r)
                  THEN <<"halt", "stopped">> ELSE HandOff(r)
  <2>1. H \in {<<"halt", "stopped">>, <<"halt", "stopped", "reset">>, <<>>}
    BY DEF HandOff
  <2>2. /\ Walk(H, R, "yamlSim") /\ Walk(C, R, "end") /\ First(C, "end") = "yamlSim"
        /\ First(H, "yamlSim") = Entry(o, r)
    <3>1. Walk(C, R, "end") /\ First(C, "end") = "yamlSim"
      BY <1>11 DEF Flow, Walk, After, First
    <3>2. CASE o = "switch"
      BY <3>1, <3>2 DEF Flow, Walk, After, First, HandOff
    <3>3. CASE o = "profile"
      BY <3>1, <3>3 DEF Flow, Walk, After, First, HandOff
    <3> QED BY <1>11, <3>2, <3>3
  <2>3. H \in Seq(Steps) /\ C \in Seq(Steps)
    <3>1. <<"halt", "stopped">> \in Seq(Steps) /\ <<"halt", "stopped", "reset">> \in Seq(Steps)
      BY DEF Steps
    <3> QED BY <1>8, <2>1, <3>1
  <2>4. Path(o, r) = H \o C
    BY <1>8, <1>11, Zenon DEF Path
  <2> HIDE DEF R, H, C
  <2>5. Walk(H \o C, R, "end") /\ First(H \o C, "end") = Entry(o, r)
    BY <2>2, <2>3, WalkBoth
  <2> QED BY <2>4, <2>5 DEF R
<1>12. CASE o = "promote"
  <2> DEFINE H == HandOff(r)
             K == <<"pool">>
  <2>1. /\ Walk(H, R, "yamlSim") /\ Walk(C, R, "pool") /\ Walk(K, R, "end")
        /\ First(K, "end") = "pool" /\ First(C, "pool") = "yamlSim"
        /\ First(H, "yamlSim") = Entry(o, r)
    BY <1>12 DEF Flow, Walk, After, First, HandOff
  <2>2. H \in Seq(Steps) /\ C \in Seq(Steps) /\ K \in Seq(Steps)
    BY StepLists, Zenon DEF HandOff
  <2>3. Path(o, r) = (H \o C) \o K
    BY <1>8, <1>12, Zenon DEF Path
  <2> HIDE DEF R, H, C, K
  <2>4. Walk((H \o C) \o K, R, "end") /\ First((H \o C) \o K, "end") = Entry(o, r)
    BY <2>1, <2>2, WalkThree
  <2> QED BY <2>3, <2>4 DEF R
<1>13. CASE o = "suspend" /\ r.status = "absent"
  BY <1>13 DEF Path, Walk, First
<1>14. CASE o = "suspend" /\ r.status /= "absent"
  <2> DEFINE H == <<"halt", "offline">>
  <2>1. /\ Walk(H, R, "yamlSim") /\ Walk(C, R, "end") /\ First(C, "end") = "yamlSim"
        /\ First(H, "yamlSim") = Entry(o, r)
    BY <1>14 DEF Flow, Walk, After, First
  <2>2. H \in Seq(Steps) /\ C \in Seq(Steps)
    BY DEF Steps
  <2>3. Path(o, r) = H \o C
    BY <1>8, <1>14, Zenon DEF Path
  <2> HIDE DEF R, H, C
  <2>4. Walk(H \o C, R, "end") /\ First(H \o C, "end") = Entry(o, r)
    BY <2>1, <2>2, WalkBoth
  <2> QED BY <2>3, <2>4 DEF R
<1>15. CASE o = "remove"
  <2> DEFINE H == IF r.status = "absent" THEN <<>> ELSE <<"halt", "offline">>
             K == <<"tombstone">>
  <2>1. /\ Walk(H, R, "tombstone") /\ Walk(K, R, "end") /\ First(K, "end") = "tombstone"
        /\ First(H, "tombstone") = Entry(o, r)
    BY <1>15 DEF Flow, Walk, After, First
  <2>2. H \in Seq(Steps) /\ K \in Seq(Steps)
    BY StepLists, Zenon
  <2>3. Path(o, r) = H \o K
    BY <1>15, Zenon DEF Path, RemovePath
  <2> HIDE DEF R, H, K
  <2>4. Walk(H \o K, R, "end") /\ First(H \o K, "end") = Entry(o, r)
    BY <2>1, <2>2, WalkBoth
  <2> QED BY <2>3, <2>4 DEF R
<1> QED BY <1>1, <1>2, <1>3, <1>4, <1>5, <1>6, <1>7, <1>9, <1>10, <1>11, <1>12, <1>13,
           <1>14, <1>15 DEF Ops, OwnerOps, AdminOps

\* The flow reaches step s.
Reached(op, seen, s) == \E n : <<s, n>> \in Flow(op, seen)

LEMMA RescueKeeps ==
  ASSUME NEW r \in Request, NEW s \in Steps, Reached(r.op, r.seen, s)
  PROVE  Keeps(Rescue(r, s), r.op, r.seen, RescueEntry(r, s))
<1> USE DEF Keeps, RescueEntry
<1> DEFINE R == Flow(r.op, r.seen)
           C == <<"yamlSim", "listSim">>
           X == IF r.op = "approve" /\ Counted(r.seen) THEN <<>> ELSE <<"error">>
           A == <<"failed">>
           F == A \o X
           B == <<"halt">>
<1>1. /\ Cool = C /\ C \in Seq(Steps) /\ X \in Seq(Steps) /\ A \in Seq(Steps)
      /\ B \in Seq(Steps)
  BY StepLists, Zenon DEF Cool
<1>2. ASSUME r.op \in {"activate", "approve"}
      PROVE  /\ F \in Seq(Steps)
             /\ Walk(F, R, "end") /\ First(F, "end") = "failed"
             /\ Walk(C \o F, R, "end") /\ First(C \o F, "end") = "yamlSim"
  <2>1. /\ Walk(X, R, "end") /\ Walk(A, R, First(X, "end"))
        /\ First(A, First(X, "end")) = "failed"
        /\ Walk(C, R, "failed") /\ First(C, "failed") = "yamlSim"
    <3>1. CASE r.op = "activate"
      BY <3>1 DEF Flow, Walk, After, First
    <3>2. CASE r.op = "approve"
      BY <3>2 DEF Flow, Walk, After, First
    <3> QED BY <1>2, <3>1, <3>2
  <2> HIDE DEF R, C, X, A
  <2>2. /\ F \in Seq(Steps)
        /\ Walk(F, R, "end") /\ First(F, "end") = "failed"
    BY <1>1, <2>1, WalkBoth
  <2> HIDE DEF F
  <2> QED BY <1>1, <2>1, <2>2, WalkBoth
<1>3. CASE r.op \in {"start", "restart"}
  BY <1>3 DEF Rescue, Flow, Walk, After, First
<1>4. CASE r.op = "activate"
  <2>1. Rescue(r, s) = IF s = "reserve" THEN <<>>
                       ELSE IF s \in {"yamlSim", "listSim"} THEN F ELSE C \o F
    BY <1>1, <1>4 DEF Rescue
  <2>2. RescueEntry(r, s) = IF s = "reserve" THEN "end"
                       ELSE IF s \in {"yamlSim", "listSim"} THEN "failed" ELSE "yamlSim"
    BY <1>4
  <2> HIDE DEF R, C, F
  <2>3. Walk(<<>>, R, "end") /\ First(<<>>, "end") = "end"
    BY DEF Walk, First
  <2> QED BY <1>2, <1>4, <2>1, <2>2, <2>3 DEF R
<1>5. CASE r.op = "approve"
  <2>1. Rescue(r, s) = IF s = "reserve" THEN <<>>
                       ELSE IF s \in {"yamlSim", "listSim"} THEN F
                       ELSE IF s = "halt" THEN C \o F ELSE (B \o C) \o F
    BY <1>1, <1>5 DEF Rescue
  <2>2. RescueEntry(r, s) = IF s = "reserve" THEN "end"
                       ELSE IF s \in {"yamlSim", "listSim"} THEN "failed"
                       ELSE IF s = "halt" THEN "yamlSim" ELSE "halt"
    BY <1>5
  <2>3. /\ Walk(B, R, "yamlSim") /\ First(B, "yamlSim") = "halt"
        /\ Walk(C, R, "failed") /\ First(C, "failed") = "yamlSim"
    BY <1>5 DEF Flow, Walk, After, First
  <2> HIDE DEF R, C, F, B
  <2>4. Walk(<<>>, R, "end") /\ First(<<>>, "end") = "end"
    BY DEF Walk, First
  <2>5. Walk((B \o C) \o F, R, "end") /\ First((B \o C) \o F, "end") = "halt"
    BY <1>1, <1>2, <1>5, <2>3, WalkThree
  <2> QED BY <1>2, <1>5, <2>1, <2>2, <2>4, <2>5 DEF R
<1>6. CASE r.op = "deactivate"
  BY <1>6 DEF Rescue, Flow, Walk, After, First
<1>7. CASE r.op = "suspend"
  <2>1. CASE s /= "halt"
    BY <1>7, <2>1 DEF Rescue, Walk, First
  <2>2. CASE s = "halt"
    <3> DEFINE O == <<"offline">>
    <3>1. Rescue(r, s) = O \o C
      BY <1>1, <1>7, <2>2 DEF Rescue
    <3>2. /\ Walk(O, R, "yamlSim") /\ First(O, "yamlSim") = "offline"
          /\ Walk(C, R, "end") /\ First(C, "end") = "yamlSim"
      BY <1>7 DEF Flow, Walk, After, First
    <3>5. O \in Seq(Steps)
      BY StepLists
    <3>3. RescueEntry(r, s) = "offline"
      BY <1>7, <2>2
    <3> HIDE DEF R, C, O
    <3>4. Walk(O \o C, R, "end") /\ First(O \o C, "end") = "offline"
      BY <1>1, <3>2, <3>5, WalkBoth
    <3> QED BY <3>1, <3>3, <3>4 DEF R
  <2> QED BY <2>1, <2>2
<1>8. CASE r.op = "promote"
  <2>1. CASE r.ok /\ s /= "halt"
    <3> DEFINE O == <<"restoreYaml", "restoreList">>
               D == IF LiveEnabled(r.seen) THEN C ELSE <<>>
    <3>1. Rescue(r, s) = O \o D
      BY <1>1, <1>8, <2>1 DEF Rescue, Undo
    <3>2. /\ Walk(O, R, First(D, "end")) /\ First(O, First(D, "end")) = "restoreYaml"
          /\ Walk(D, R, "end")
      BY <1>8 DEF Flow, Walk, After, First
    <3>5. O \in Seq(Steps) /\ D \in Seq(Steps)
      BY StepLists, Zenon
    <3>3. RescueEntry(r, s) = "restoreYaml"
      BY <1>8, <2>1
    <3> HIDE DEF R, O, D
    <3>4. Walk(O \o D, R, "end") /\ First(O \o D, "end") = "restoreYaml"
      BY <3>2, <3>5, WalkBoth
    <3> QED BY <3>1, <3>3, <3>4 DEF R
  <2>2. CASE ~(r.ok /\ s /= "halt")
    <3>1. s = "halt" => s \notin {"restoreYaml", "restoreList"}
      OBVIOUS
    <3>2. r.ok \in BOOLEAN
      BY DEF Request
    <3> QED BY <1>1, <1>8, <2>2, <3>1, <3>2 DEF Rescue, Flow, Walk, After, First
  <2> QED BY <2>1, <2>2
<1>9. CASE r.op \in {"login", "reactivate"}
  BY <1>9 DEF Rescue, Flow, Walk, After, First
<1>10. CASE r.op \notin {"start", "restart", "activate", "approve", "deactivate",
                        "suspend", "promote", "login", "reactivate"}
  BY <1>10 DEF Rescue, Walk, First
<1> QED BY <1>3, <1>4, <1>5, <1>6, <1>7, <1>8, <1>9, <1>10

-----------------------------------------------------------------------------
(* Where a request is, and how a step moves it.                             *)

Now(t) == First(req[t].todo, "end")

\* What is left of a request keeps to the flow of its operation.
Planned(t) ==
  /\ Walk(req[t].todo, Flow(req[t].op, req[t].seen), "end")
  /\ req[t].todo = <<>> => req[t] = Idle
  /\ req[t].todo /= <<>> => req[t].op /= "none" /\ last[t] = Nothing

\* The request returns with result ok, or is still the same one.
Leaves(t, ok) ==
  /\ Now(t)' = "end" => /\ req'[t] = Idle
                        /\ last'[t] = [op |-> req[t].op, ok |-> ok]
  /\ Now(t)' /= "end" => /\ req'[t].op = req[t].op /\ req'[t].seen = req[t].seen
                         /\ req'[t].copy = req[t].copy /\ req'[t].ok = ok
                         /\ req'[t].found = Found(t)
                         /\ req'[t].rekeyed = req[t].rekeyed
                         /\ last'[t] = Nothing

Goes(t) ==
  <<Now(t), Now(t)'>> \in Flow(req[t].op, req[t].seen) /\ Leaves(t, req[t].ok)
Backs(t) == Now(t)' = RescueEntry(req[t], Now(t)) /\ Leaves(t, FALSE)

LEMMA FirstStep ==
  ASSUME NEW q \in Seq(Steps)
  PROVE  /\ First(q, "end") = "end" <=> q = <<>>
         /\ q /= <<>> => First(q, "end") = Head(q) /\ First(q, "end") \in Steps
<1>1. "end" \notin Steps
  BY DEF Steps
<1>2. CASE q = <<>>
  BY <1>2 DEF First
<1>3. CASE q /= <<>>
  <2>1. Head(q) \in Steps /\ q[1] = Head(q)
    BY <1>3
  <2> QED BY <1>1, <1>3, <2>1 DEF First
<1> QED BY <1>2, <1>3

LEMMA Leaving ==
  ASSUME TypeOK, NEW t \in Tenants, NEW todo \in Seq(Steps), NEW ok \in BOOLEAN,
         Continue(t, todo, ok), req[t].op /= "none", last[t] = Nothing,
         Walk(todo, Flow(req[t].op, req[t].seen), "end")
  PROVE  Planned(t)' /\ Leaves(t, ok) /\ Now(t)' = First(todo, "end")
<1>1. CASE todo = <<>>
  <2>1. req'[t] = Idle /\ last'[t] = [op |-> req[t].op, ok |-> ok]
    BY <1>1 DEF Continue, TypeOK
  <2>2. Idle.todo = <<>>
    BY DEF Idle
  <2>3. Now(t)' = "end"
    BY <2>1, <2>2 DEF Now, First
  <2>4. Walk(<<>>, Flow(Idle.op, Idle.seen), "end")
    BY Walks
  <2> QED BY <1>1, <2>1, <2>2, <2>3, <2>4 DEF Planned, Leaves, First
<1>2. CASE todo /= <<>>
  <2>1. /\ req'[t].todo = todo /\ req'[t].op = req[t].op /\ req'[t].ok = ok
        /\ req'[t].seen = req[t].seen /\ req'[t].copy = req[t].copy
        /\ req'[t].found = Found(t) /\ req'[t].rekeyed = req[t].rekeyed
    BY <1>2, ContinueEffect
  <2>2. last'[t] = last[t]
    BY <1>2 DEF Continue
  <2>3. Now(t)' = First(todo, "end") /\ Now(t)' /= "end"
    BY <1>2, <2>1, FirstStep DEF Now
  <2> QED BY <1>2, <2>1, <2>2, <2>3 DEF Planned, Leaves
<1> QED BY <1>1, <1>2

LEMMA Advance ==
  ASSUME TypeOK, NEW t \in Tenants, Planned(t), req[t].todo /= <<>>
  PROVE  /\ Now(t) \in Steps /\ At(t, Now(t)) /\ req[t].op \in Ops
         /\ Reached(req[t].op, req[t].seen, Now(t))
         /\ Returns(t) => Planned(t)' /\ Goes(t)
         /\ Raises(t) => Planned(t)' /\ Backs(t)
<1> DEFINE q == req[t].todo
           R == Flow(req[t].op, req[t].seen)
<1>1. /\ req[t] \in Request /\ q \in Seq(Steps) /\ req[t].ok \in BOOLEAN
      /\ q /= <<>> /\ req[t].op \in Ops \cup {"none"}
  BY DEF TypeOK, Request
<1>2. /\ req[t].op /= "none" /\ last[t] = Nothing /\ Walk(q, R, "end")
  BY DEF Planned
<1>3. Now(t) = Head(q) /\ Now(t) = First(q, "end") /\ Now(t) \in Steps
  BY <1>1, FirstStep DEF Now
<1>4. Tail(q) \in Seq(Steps)
  BY <1>1, HeadTailProperties
<1>5. Walk(Tail(q), R, "end") /\ <<Now(t), First(Tail(q), "end")>> \in R
  <2> HIDE DEF q, R
  <2> QED BY <1>1, <1>2, <1>3, WalkOn
<1>6. Reached(req[t].op, req[t].seen, Now(t))
  BY <1>5 DEF Reached
<1>7. /\ Rescue(req[t], Now(t)) \in Seq(Steps)
      /\ Walk(Rescue(req[t], Now(t)), R, "end")
      /\ First(Rescue(req[t], Now(t)), "end") = RescueEntry(req[t], Now(t))
  <2>1. Keeps(Rescue(req[t], Now(t)), req[t].op, req[t].seen, RescueEntry(req[t], Now(t)))
    BY <1>1, <1>3, <1>6, RescueKeeps
  <2> QED BY <1>1, <1>3, <2>1, RescueType DEF Keeps
<1> HIDE DEF q, R
<1>8. ASSUME Returns(t) PROVE Planned(t)' /\ Goes(t)
  <2>1. Continue(t, Tail(q), req[t].ok)
    BY <1>8 DEF Returns, q
  <2>2. Planned(t)' /\ Leaves(t, req[t].ok) /\ Now(t)' = First(Tail(q), "end")
    BY <1>1, <1>2, <1>4, <1>5, <2>1, Leaving DEF R
  <2> QED BY <1>5, <2>2 DEF Goes, R
<1>9. ASSUME Raises(t) PROVE Planned(t)' /\ Backs(t)
  <2>1. Continue(t, Rescue(req[t], Now(t)), FALSE)
    BY <1>3, <1>9 DEF Raises, q
  <2>2. /\ Planned(t)' /\ Leaves(t, FALSE)
        /\ Now(t)' = First(Rescue(req[t], Now(t)), "end")
    BY <1>2, <1>7, <2>1, Leaving DEF R
  <2> QED BY <1>7, <2>2 DEF Backs
<1> QED BY <1>1, <1>2, <1>3, <1>6, <1>8, <1>9 DEF At, q

-----------------------------------------------------------------------------
(* The actions of a request and the steps they carry out.                   *)

\* A step of the request of tenant t.
StepOf(t) == Transaction(t) \/ Provision(t) \/ WriteFile(t)
             \/ Systemctl(t) \/ SystemctlTimesOut(t) \/ StepFails(t)

FileSteps == {"yamlSim", "listSim", "yamlLive", "listLive", "restoreYaml",
              "restoreList"}
UnitSteps == {"boot", "reboot", "halt"}
RowSteps == {"running", "error", "stopped", "offline", "live", "connected",
             "repaired", "provisionFailed"}

-----------------------------------------------------------------------------
(* What a step does to each part of its tenant.                             *)

\* The actions of a request, each with the steps it carries out.
Cases(t) ==
  \/ Reserve(t) /\ Now(t) = "reserve"
  \/ UpdateTenant(t) /\ Now(t) \in RowSteps
  \/ RequestLive(t) /\ Now(t) = "request"
  \/ ApproveLive(t) /\ Now(t) = "approve"
  \/ ResetLiveApproval(t) /\ Now(t) = "reset"
  \/ FailLiveActivation(t) /\ Now(t) = "failed"
  \/ StoreKeys(t) /\ Now(t) = "storeKeys"
  \/ Probe(t) /\ Now(t) = "probe"
  \/ EnsureTenant(t) /\ Now(t) = "ensure"
  \/ CreateSession(t) /\ Now(t) = "session"
  \/ RemovePilot(t) /\ Now(t) = "tombstone"
  \/ SavePool(t) /\ Now(t) = "pool"
  \/ Provision(t) /\ Now(t) = "provision"
  \/ WriteFile(t) /\ Now(t) \in FileSteps
  \/ Systemctl(t) /\ Now(t) \in UnitSteps
  \/ SystemctlTimesOut(t) /\ Now(t) \in UnitSteps
  \/ StepFails(t) /\ Now(t) \in UnitSteps \cup FileSteps \cup {"pool", "provision"}

LEMMA NowAt == ASSUME TypeOK, NEW t \in Tenants, NEW s, At(t, s) PROVE Now(t) = s
<1>1. req[t].todo \in Seq(Steps) /\ req[t].todo /= <<>> /\ Head(req[t].todo) = s
  BY DEF TypeOK, Request, At
<1> QED BY <1>1, FirstStep DEF Now

LEMMA StepCases == ASSUME TypeOK, NEW t \in Tenants, StepOf(t) PROVE Cases(t)
<1>0. \A s : At(t, s) => Now(t) = s
  BY NowAt
<1>1. \/ Reserve(t) \/ UpdateTenant(t) \/ RequestLive(t) \/ ApproveLive(t)
      \/ ResetLiveApproval(t) \/ FailLiveActivation(t) \/ StoreKeys(t) \/ Probe(t)
      \/ EnsureTenant(t) \/ CreateSession(t) \/ RemovePilot(t) \/ SavePool(t)
      \/ Provision(t) \/ WriteFile(t) \/ Systemctl(t) \/ SystemctlTimesOut(t)
      \/ StepFails(t)
  BY Zenon DEF StepOf, Transaction
<1>2. UpdateTenant(t) => Now(t) \in RowSteps
  BY <1>0 DEF UpdateTenant, RowSteps
<1>3. WriteFile(t) => Now(t) \in FileSteps
  BY <1>0 DEF WriteFile, FileSteps
<1>4. Systemctl(t) \/ SystemctlTimesOut(t) => Now(t) \in UnitSteps
  BY <1>0 DEF Systemctl, SystemctlTimesOut, SystemctlEffect, UnitSteps
<1>5. StepFails(t) => Now(t) \in UnitSteps \cup FileSteps \cup {"pool", "provision"}
  BY <1>0 DEF StepFails, UnitSteps, FileSteps
<1>6. /\ Reserve(t) => Now(t) = "reserve"
      /\ RequestLive(t) => Now(t) = "request"
      /\ ApproveLive(t) => Now(t) = "approve"
      /\ ResetLiveApproval(t) => Now(t) = "reset"
      /\ FailLiveActivation(t) => Now(t) = "failed"
      /\ StoreKeys(t) => Now(t) = "storeKeys"
      /\ Probe(t) => Now(t) = "probe"
      /\ EnsureTenant(t) => Now(t) = "ensure"
      /\ CreateSession(t) => Now(t) = "session"
      /\ RemovePilot(t) => Now(t) = "tombstone"
      /\ SavePool(t) => Now(t) = "pool"
      /\ Provision(t) => Now(t) = "provision"
  BY <1>0 DEF Reserve, RequestLive, ApproveLive, ResetLiveApproval, FailLiveActivation,
         StoreKeys, Probe, EnsureTenant, CreateSession, RemovePilot, SavePool, Provision
<1> QED BY <1>1, <1>2, <1>3, <1>4, <1>5, <1>6 DEF Cases

LEMMA StepTaken ==
  ASSUME TypeOK, NEW t \in Tenants, StepOf(t)
  PROVE  /\ Returns(t) \/ Raises(t)
         /\ req[t].todo /= <<>>
         /\ \A u \in Tenants \ {t} : req'[u] = req[u] /\ last'[u] = last[u]
<1>1. PICK s \in Steps : At(t, s) /\ (Returns(t) \/ Raises(t))
  BY DEF StepOf, Transaction, Reserve, UpdateTenant, RequestLive, ApproveLive,
         ResetLiveApproval, FailLiveActivation, StoreKeys, Probe, EnsureTenant,
         CreateSession, RemovePilot, SavePool, Provision, WriteFile, Systemctl,
         SystemctlTimesOut, SystemctlEffect, StepFails, Steps
<1>2. \A u \in Tenants \ {t} : req'[u] = req[u] /\ last'[u] = last[u]
  BY <1>1, StepEffect
<1> QED BY <1>1, <1>2 DEF At

\* The request of a tenant without any other: what it read still stands.
Sole(t) ==
  /\ parked[t] = Idle /\ ~req[t].rekeyed
  /\ req[t].op = "remove" => account[t] = "suspended"
  /\ Now(t) \in {"provision", "repaired", "provisionFailed"} =>
       req[t].found = row[t].status

\* Which parts of the state a step may change at all.
Framed(t) ==
  /\ Now(t) = "tombstone" \/ UNCHANGED account
  /\ Now(t) \in {"session", "tombstone"} \/ UNCHANGED session
  /\ \/ Now(t) \in RowSteps \cup {"reserve", "request", "approve", "reset",
                                 "failed", "ensure", "tombstone"}
     \/ UNCHANGED row
  /\ Now(t) \in {"request", "approve", "reset", "failed"} \/ UNCHANGED approvals
  /\ Now(t) \in {"storeKeys", "probe", "tombstone"} \/ UNCHANGED conn
  /\ Now(t) \in FileSteps \cup {"provision"} \/ UNCHANGED workspace
  /\ Now(t) \in FileSteps \/ UNCHANGED files
  /\ Now(t) \in UnitSteps \/ UNCHANGED unit

LEMMA Frame == ASSUME TypeOK, NEW t \in Tenants, StepOf(t) PROVE Framed(t)
<1> USE DEF RowSteps, FileSteps, UnitSteps
<1>1. CASE Reserve(t) /\ Now(t) = "reserve"
  BY <1>1 DEF Framed, Reserve
<1>2. CASE UpdateTenant(t) /\ Now(t) \in RowSteps
  BY <1>2 DEF Framed, UpdateTenant
<1>3. CASE RequestLive(t) /\ Now(t) = "request"
  BY <1>3 DEF Framed, RequestLive
<1>4. CASE ApproveLive(t) /\ Now(t) = "approve"
  BY <1>4 DEF Framed, ApproveLive
<1>5. CASE ResetLiveApproval(t) /\ Now(t) = "reset"
  BY <1>5 DEF Framed, ResetLiveApproval
<1>6. CASE FailLiveActivation(t) /\ Now(t) = "failed"
  BY <1>6 DEF Framed, FailLiveActivation
<1>7. CASE StoreKeys(t) /\ Now(t) = "storeKeys"
  BY <1>7 DEF Framed, StoreKeys
<1>8. CASE Probe(t) /\ Now(t) = "probe"
  BY <1>8 DEF Framed, Probe
<1>9. CASE EnsureTenant(t) /\ Now(t) = "ensure"
  BY <1>9 DEF Framed, EnsureTenant
<1>10. CASE CreateSession(t) /\ Now(t) = "session"
  BY <1>10 DEF Framed, CreateSession
<1>11. CASE RemovePilot(t) /\ Now(t) = "tombstone"
  BY <1>11 DEF Framed, RemovePilot
<1>12. CASE SavePool(t) /\ Now(t) = "pool"
  BY <1>12 DEF Framed, SavePool
<1>13. CASE Provision(t) /\ Now(t) = "provision"
  BY <1>13 DEF Framed, Provision
<1>14. CASE WriteFile(t) /\ Now(t) \in FileSteps
  BY <1>14 DEF Framed, WriteFile
<1>15. CASE Systemctl(t) /\ Now(t) \in UnitSteps
  BY <1>15 DEF Framed, Systemctl
<1>16. CASE SystemctlTimesOut(t) /\ Now(t) \in UnitSteps
  BY <1>16 DEF Framed, SystemctlTimesOut
<1>17. CASE StepFails(t)
  BY <1>17 DEF Framed, StepFails
<1>18. Cases(t)
  BY StepCases
<1> QED BY <1>1, <1>2, <1>3, <1>4, <1>5, <1>6, <1>7, <1>8, <1>9, <1>10, <1>11,
           <1>12, <1>13, <1>14, <1>15, <1>16, <1>17, <1>18 DEF Cases

\* The operations that reach a step.
LEMMA FlowFrom ==
  ASSUME NEW op, NEW seen, NEW s, Reached(op, seen, s)
  PROVE  /\ s = "connected" => op = "connect"
         /\ s = "storeKeys" => op = "connect"
         /\ s = "probe" => op = "test"
         /\ s = "tombstone" => op = "remove"
         /\ s \in {"yamlLive", "listLive"} => op \in {"activate", "approve", "addPair"}
         /\ s = "live" => op \in {"activate", "approve"}
         /\ s \in {"restoreYaml", "restoreList"} => op = "promote"
         /\ s = "approve" => op \in {"activate", "approve"}
         /\ s = "reserve" => op \in {"start", "restart", "activate", "approve"}
         /\ s = "failed" => op \in {"activate", "approve"}
         /\ s = "ensure" => op \in {"login", "reactivate"}
         /\ s = "error" => op \in {"start", "restart", "activate", "approve"}
BY DEF Reached, Flow

\* Nothing stops a removal that no other request of the pilot disturbs.
LEMMA TombstoneHeld ==
  ASSUME TypeOK, NEW t \in Tenants, RemovePilot(t), Planned(t), Sole(t)
  PROVE  account[t] = "suspended" /\ Returns(t)
<1>1. At(t, "tombstone")
  BY DEF RemovePilot
<1>2. Now(t) = "tombstone" /\ req[t].todo /= <<>>
  BY <1>1, NowAt DEF At
<1>3. req[t].op = "remove"
  BY <1>2, Advance, FlowFrom
<1> QED BY <1>3 DEF Sole, RemovePilot

AccountEffect(t) ==
  account'[t] = IF Now(t) = "tombstone" THEN "removed" ELSE account[t]

LEMMA AccountStep ==
  ASSUME TypeOK, NEW t \in Tenants, StepOf(t)
  PROVE  /\ Planned(t) /\ Sole(t) => AccountEffect(t)
         /\ \A u \in Tenants \ {t} : account'[u] = account[u]
<1>1. CASE Now(t) = "tombstone"
  <2>1. RemovePilot(t)
    BY <1>1, StepCases DEF Cases, RowSteps, FileSteps, UnitSteps
  <2>2. \A u \in Tenants \ {t} : account'[u] = account[u]
    BY <2>1 DEF RemovePilot, TypeOK
  <2>3. Planned(t) /\ Sole(t) => AccountEffect(t)
    BY <1>1, <2>1, TombstoneHeld DEF RemovePilot, TypeOK, AccountEffect
  <2> QED BY <2>2, <2>3
<1>2. CASE Now(t) /= "tombstone"
  BY <1>2, Frame DEF Framed, AccountEffect
<1> QED BY <1>1, <1>2

SessionEffect(t) ==
  /\ Now(t) = "session" => session'[t]
  /\ Now(t) = "tombstone" => ~session'[t]
  /\ Now(t) \notin {"session", "tombstone"} => session'[t] = session[t]

LEMMA SessionStep ==
  ASSUME TypeOK, NEW t \in Tenants, StepOf(t)
  PROVE  /\ Planned(t) /\ Sole(t) => SessionEffect(t)
         /\ \A u \in Tenants \ {t} : session'[u] = session[u]
<1>0. \A b \in BOOLEAN : session' = [session EXCEPT ![t] = b] =>
        (session'[t] <=> b) /\ \A u \in Tenants \ {t} : session'[u] = session[u]
  BY Zenon DEF TypeOK
<1>1. CASE Now(t) = "session"
  <2>1. CreateSession(t)
    BY <1>1, StepCases DEF Cases, RowSteps, FileSteps, UnitSteps
  <2>2. session' = [session EXCEPT ![t] = TRUE]
    BY <2>1 DEF CreateSession
  <2>3. session'[t] /\ \A u \in Tenants \ {t} : session'[u] = session[u]
    BY <1>0, <2>2
  <2> QED BY <1>1, <2>3 DEF SessionEffect
<1>2. CASE Now(t) = "tombstone"
  <2>1. RemovePilot(t)
    BY <1>2, StepCases DEF Cases, RowSteps, FileSteps, UnitSteps
  <2>2. CASE session' = [session EXCEPT ![t] = FALSE]
    <3>1. ~session'[t] /\ \A u \in Tenants \ {t} : session'[u] = session[u]
      BY <1>0, <2>2
    <3> QED BY <1>2, <3>1 DEF SessionEffect
  <2>3. CASE session' = session /\ account[t] /= "suspended"
    <3>1. ~(Planned(t) /\ Sole(t))
      BY <2>1, <2>3, TombstoneHeld
    <3> QED BY <2>3, <3>1
  <2> QED BY <2>1, <2>2, <2>3 DEF RemovePilot
<1>3. CASE Now(t) \notin {"session", "tombstone"}
  <2>1. session' = session
    BY <1>3, Frame DEF Framed
  <2> QED BY <1>3, <2>1, Zenon DEF SessionEffect
<1> QED BY <1>1, <1>2, <1>3

StatusEffect(t) ==
  /\ Now(t) = "reserve" =>
       \/ Goes(t) /\ Counted(row[t]) /\ row'[t].status = row[t].status
       \/ Goes(t) /\ row'[t].status = "starting"
       \/ Backs(t) /\ ~Counted(row[t]) /\ row'[t].status = "queued"
  /\ Now(t) \in {"running", "live"} => row'[t].status = "running"
  /\ Now(t) = "error" => row'[t].status = "error"
  /\ Now(t) \in {"stopped", "offline"} => row'[t].status = "stopped"
  /\ Now(t) = "connected" =>
       row'[t].status = IF Enabled(req[t].seen) THEN "stopped" ELSE req[t].seen.status
  /\ Now(t) = "repaired" =>
       row'[t].status = IF row[t].status = "provision_failed" THEN "queued"
                        ELSE row[t].status
  /\ Now(t) = "provisionFailed" =>
       row'[t].status = IF Counted(row[t]) THEN "degraded" ELSE "provision_failed"
  /\ Now(t) = "ensure" => row'[t].status = IF row[t].status = "absent" THEN "queued"
                                            ELSE row[t].status
  /\ Now(t) = "tombstone" => row'[t].status = IF row[t].status = "absent" THEN "absent"
                                               ELSE "removed"
  /\ Now(t) \notin RowSteps \cup {"reserve", "ensure", "tombstone"} =>
       row'[t].status = row[t].status

\* Some approval waits for an admin.
Pending(t) == \E i \in DOMAIN approvals[t] : approvals[t][i] = "requested"

LiveEffect(t) ==
  /\ Now(t) \in {"offline", "reset"} => row'[t].live = "not_requested"
  /\ Now(t) = "live" => row'[t].live = "active"
  /\ Now(t) = "failed" => row'[t].live = "activation_failed"
  /\ Now(t) = "request" =>
       \/ row'[t].live = "requested" /\ Pending(t)'
       \/ /\ req[t].op = "activate" /\ req[t].seen.live = "requested"
          /\ row'[t] = row[t] /\ approvals'[t] = approvals[t]
  /\ Now(t) = "approve" =>
       \/ Goes(t) /\ row'[t].live = "approved"
       \/ Backs(t) /\ ~Pending(t) /\ row'[t].live = row[t].live
  /\ Now(t) \in {"ensure", "tombstone"} /\ row'[t] /= row[t] =>
       row'[t].live = "not_requested"
  /\ Now(t) \notin {"offline", "reset", "live", "failed", "request", "approve",
                    "ensure", "tombstone"} => row'[t].live = row[t].live

LEMMA UpdateLive ==
  ASSUME TypeOK, NEW t \in Tenants, UpdateTenant(t)
  PROVE  row'[t].live = CASE Now(t) = "offline" -> "not_requested"
                          [] Now(t) = "live" -> "active"
                          [] OTHER -> row[t].live
<1>1. row[t].live \in LiveStatuses /\ {"not_requested", "active"} \subseteq LiveStatuses
  BY RowType DEF LiveStatuses
<1>2. \A status, live : Rows(t, status, live) => row'[t].live = live
  BY DEF Rows, TypeOK
<1>a. /\ \A s : At(t, s) => Now(t) = s
  BY NowAt
<1> USE DEF At
<1>3. CASE At(t, "offline")
  BY <1>a, <1>2, <1>3 DEF UpdateTenant
<1>4. CASE At(t, "live")
  BY <1>a, <1>2, <1>4 DEF UpdateTenant
<1>5. CASE ~At(t, "offline") /\ ~At(t, "live")
  BY <1>a, <1>2, <1>5 DEF UpdateTenant
<1> QED BY <1>3, <1>4, <1>5

LEMMA RowStep ==
  ASSUME TypeOK, NEW t \in Tenants, StepOf(t)
  PROVE  /\ Planned(t) /\ Sole(t) => StatusEffect(t) /\ LiveEffect(t)
         /\ \A u \in Tenants \ {t} : row'[u] = row[u] /\ approvals'[u] = approvals[u]
         /\ \/ Now(t) \in {"request", "approve", "reset", "failed"}
            \/ approvals'[t] = approvals[t]
<1> DEFINE Alone == Planned(t) /\ Sole(t)
<1> USE DEF RowSteps
<1>a. Alone => (Returns(t) => Goes(t)) /\ (Raises(t) => Backs(t))
  BY StepTaken, Advance
<1>b. /\ Alone => ~req[t].rekeyed
      /\ Alone /\ Now(t) \in {"repaired", "provisionFailed"} =>
           req[t].found = row[t].status
  BY DEF Sole
<1>0. \A status, live : Rows(t, status, live) =>
        /\ row'[t].status = status /\ row'[t].live = live
        /\ \A u \in Tenants \ {t} : row'[u] = row[u]
  BY DEF Rows, TypeOK
<1>1. CASE Reserve(t) /\ Now(t) = "reserve"
  <2>1. UNCHANGED approvals
    BY <1>1 DEF Reserve
  <2>2. CASE Counted(row[t]) /\ UNCHANGED row /\ Returns(t)
    BY <1>a, <1>1, <2>1, <2>2 DEF StatusEffect, LiveEffect
  <2>3. CASE Rows(t, "starting", row[t].live) /\ Returns(t)
    BY <1>a, <1>0, <1>1, <2>1, <2>3 DEF StatusEffect, LiveEffect
  <2>4. CASE Rows(t, "queued", row[t].live) /\ Raises(t) /\ ~Counted(row[t])
    BY <1>a, <1>0, <1>1, <2>1, <2>4 DEF StatusEffect, LiveEffect
  <2> QED BY <1>1, <2>2, <2>3, <2>4 DEF Reserve
<1>2. CASE UpdateTenant(t) /\ Now(t) \in RowSteps
  <2>1. UNCHANGED approvals
    BY <1>2 DEF UpdateTenant
  <2>2. /\ row'[t].status = Written(t) /\ \A u \in Tenants \ {t} : row'[u] = row[u]
    BY <1>2, UpdateTenantType
  <2>3. Alone => At(t, Now(t)) /\ \A s : At(t, s) => Now(t) = s
    BY StepTaken, Advance, NowAt
  <2>4. Alone => StatusEffect(t)
    BY <1>b, <1>2, <2>2, <2>3 DEF StatusEffect, Written, Counted
  <2> QED BY <1>2, <2>1, <2>2, <2>4, UpdateLive DEF LiveEffect
<1>3. CASE RequestLive(t) /\ Now(t) = "request"
  <2>1. CASE UNCHANGED <<row, approvals>> /\ req[t].op = "activate"
             /\ req[t].seen.live = "requested"
    BY <1>3, <2>1 DEF StatusEffect, LiveEffect
  <2>2. CASE /\ approvals' = [approvals EXCEPT ![t] = Append(@, "requested")]
             /\ Rows(t, row[t].status, "requested")
    <3>1. /\ approvals[t] \in Seq(Decisions)
          /\ approvals'[t] = Append(approvals[t], "requested")
          /\ \A u \in Tenants \ {t} : approvals'[u] = approvals[u]
      BY <2>2 DEF TypeOK
    <3>2. Pending(t)'
      <4>1. /\ Len(approvals[t]) + 1 \in DOMAIN approvals'[t]
            /\ approvals'[t][Len(approvals[t]) + 1] = "requested"
        BY <3>1
      <4> QED BY <4>1 DEF Pending
    <3> QED BY <1>0, <1>3, <2>2, <3>1, <3>2 DEF StatusEffect, LiveEffect
  <2> QED BY <1>3, <2>1, <2>2 DEF RequestLive
<1>4. CASE ApproveLive(t) /\ Now(t) = "approve"
  <2>1. CASE ~Pending(t) /\ UNCHANGED <<row, approvals>> /\ Raises(t)
    BY <1>a, <1>4, <2>1 DEF StatusEffect, LiveEffect
  <2>2. CASE /\ \E i \in DOMAIN approvals[t] :
                   approvals' = [approvals EXCEPT ![t][i] = "approved"]
             /\ Rows(t, row[t].status, "approved") /\ Returns(t)
    <3>1. \A u \in Tenants \ {t} : approvals'[u] = approvals[u]
      <4>1. PICK i : approvals' = [approvals EXCEPT ![t] = [approvals[t] EXCEPT ![i] = "approved"]]
        BY <2>2
      <4> QED BY <4>1, Zenon DEF TypeOK
    <3> QED BY <1>a, <1>0, <1>4, <2>2, <3>1 DEF StatusEffect, LiveEffect
  <2> QED BY <1>4, <2>1, <2>2 DEF ApproveLive, Pending
<1>5. CASE ResetLiveApproval(t) /\ Now(t) = "reset"
  <2>1. PICK q : approvals' = [approvals EXCEPT ![t] = q]
    BY <1>5 DEF ResetLiveApproval
  <2>2. \A u \in Tenants \ {t} : approvals'[u] = approvals[u]
    BY <2>1, Zenon DEF TypeOK
  <2>3. Rows(t, row[t].status, "not_requested")
    BY <1>5 DEF ResetLiveApproval
  <2> QED BY <1>0, <1>5, <2>2, <2>3 DEF StatusEffect, LiveEffect
<1>6. CASE FailLiveActivation(t) /\ Now(t) = "failed"
  <2>1. PICK q : approvals' = [approvals EXCEPT ![t] = q]
    BY <1>6 DEF FailLiveActivation
  <2>2. \A u \in Tenants \ {t} : approvals'[u] = approvals[u]
    BY <2>1, Zenon DEF TypeOK
  <2>3. Rows(t, row[t].status, "activation_failed")
    BY <1>6 DEF FailLiveActivation
  <2> QED BY <1>0, <1>6, <2>2, <2>3 DEF StatusEffect, LiveEffect
<1>7. CASE EnsureTenant(t) /\ Now(t) = "ensure"
  <2>1. UNCHANGED approvals
    BY <1>7 DEF EnsureTenant
  <2>2. CASE row[t].status = "absent" /\ Rows(t, "queued", "not_requested")
    BY <1>0, <1>7, <2>1, <2>2 DEF StatusEffect, LiveEffect
  <2>3. CASE row[t].status /= "absent" /\ UNCHANGED row
    BY <1>7, <2>1, <2>3 DEF StatusEffect, LiveEffect
  <2> QED BY <1>7, <2>2, <2>3 DEF EnsureTenant
<1>8. CASE RemovePilot(t) /\ Now(t) = "tombstone"
  <2>1. UNCHANGED approvals
    BY <1>8 DEF RemovePilot
  <2>2. CASE row[t].status /= "absent" /\ Rows(t, "removed", "not_requested")
    BY <1>0, <1>8, <2>1, <2>2 DEF StatusEffect, LiveEffect
  <2>3. CASE row[t].status = "absent" /\ UNCHANGED row
    BY <1>8, <2>1, <2>3 DEF StatusEffect, LiveEffect
  <2>4. CASE account[t] /= "suspended" /\ UNCHANGED row
    <3>1. ~Alone
      BY <1>8, <2>4, TombstoneHeld
    <3> QED BY <1>8, <2>1, <2>4, <3>1
  <2> QED BY <1>8, <2>2, <2>3, <2>4 DEF RemovePilot
<1>9. CASE Now(t) \notin RowSteps \cup {"reserve", "request", "approve", "reset",
                                       "failed", "ensure", "tombstone"}
  <2>1. UNCHANGED row /\ UNCHANGED approvals
    BY <1>9, Frame DEF Framed
  <2> QED BY <1>9, <2>1 DEF StatusEffect, LiveEffect
<1>10. Cases(t)
  BY StepCases
<1>11. \/ Reserve(t) /\ Now(t) = "reserve"
       \/ UpdateTenant(t) /\ Now(t) \in RowSteps
       \/ RequestLive(t) /\ Now(t) = "request"
       \/ ApproveLive(t) /\ Now(t) = "approve"
       \/ ResetLiveApproval(t) /\ Now(t) = "reset"
       \/ FailLiveActivation(t) /\ Now(t) = "failed"
       \/ EnsureTenant(t) /\ Now(t) = "ensure"
       \/ RemovePilot(t) /\ Now(t) = "tombstone"
       \/ Now(t) \notin RowSteps \cup {"reserve", "request", "approve", "reset",
                                      "failed", "ensure", "tombstone"}
  BY <1>10 DEF Cases, FileSteps, UnitSteps, RowSteps
<1> QED BY <1>1, <1>2, <1>3, <1>4, <1>5, <1>6, <1>7, <1>8, <1>9, <1>11

ConnEffect(t) ==
  /\ Now(t) = "storeKeys" => conn'[t] = [status |-> "stored", proved |-> FALSE]
  /\ Now(t) = "tombstone" => conn'[t] = NoKeys
  /\ Now(t) = "probe" =>
       \/ conn'[t] = [status |-> "tested", proved |-> TRUE]
       \/ conn'[t] = [conn[t] EXCEPT !.status = "failed"]
       \/ conn'[t] = conn[t]
  /\ Now(t) \notin {"storeKeys", "tombstone", "probe"} => conn'[t] = conn[t]

LEMMA ConnStep ==
  ASSUME TypeOK, NEW t \in Tenants, StepOf(t)
  PROVE  /\ Planned(t) /\ Sole(t) => ConnEffect(t)
         /\ \A u \in Tenants \ {t} : conn'[u] = conn[u]
<1> DEFINE Sets(k) == conn' = [conn EXCEPT ![t] = k]
<1>0. \A k : Sets(k) => conn'[t] = k /\ \A u \in Tenants \ {t} : conn'[u] = conn[u]
  BY Zenon DEF TypeOK
<1>1. CASE Now(t) = "storeKeys"
  <2>1. StoreKeys(t)
    BY <1>1, StepCases DEF Cases, RowSteps, FileSteps, UnitSteps
  <2>2. Sets([status |-> "stored", proved |-> FALSE])
    BY <2>1 DEF StoreKeys
  <2> QED BY <1>0, <1>1, <2>2 DEF ConnEffect
<1>2. CASE Now(t) = "tombstone"
  <2>1. RemovePilot(t)
    BY <1>2, StepCases DEF Cases, RowSteps, FileSteps, UnitSteps
  <2>2. CASE Sets(NoKeys)
    BY <1>0, <1>2, <2>2 DEF ConnEffect
  <2>3. CASE conn' = conn /\ account[t] /= "suspended"
    <3>1. ~(Planned(t) /\ Sole(t))
      BY <2>1, <2>3, TombstoneHeld
    <3> QED BY <2>3, <3>1
  <2> QED BY <2>1, <2>2, <2>3 DEF RemovePilot
<1>3. CASE Now(t) = "probe"
  <2>1. Probe(t)
    BY <1>3, StepCases DEF Cases, RowSteps, FileSteps, UnitSteps
  <2>2. conn[t] \in Connection
    BY DEF TypeOK
  <2>3. PICK k : Sets(k)
    BY <2>1 DEF Probe, Verdict
  <2>4. \A u \in Tenants \ {t} : conn'[u] = conn[u]
    BY <1>0, <2>3
  <2>5. ASSUME Sole(t) PROVE ConnEffect(t)
    <3>1. ~req[t].rekeyed
      BY <2>5 DEF Sole
    <3>2. [conn[t] EXCEPT !.status = "failed"] = [status |-> "failed", proved |-> conn[t].proved]
      BY <2>2 DEF Connection
    <3>3. (conn[t].proved \/ ~req[t].rekeyed) = TRUE
      BY <3>1
    <3>4. \/ Sets([status |-> "tested", proved |-> TRUE])
          \/ Sets([conn[t] EXCEPT !.status = "failed"])
          \/ Sets(conn[t])
      <4>1. CASE Verdict(t, "tested", conn[t].proved \/ ~req[t].rekeyed)
        BY <3>3, <4>1 DEF Verdict
      <4>2. CASE Verdict(t, "failed", conn[t].proved)
        BY <3>2, <4>2 DEF Verdict
      <4> QED BY <2>1, <4>1, <4>2 DEF Probe
    <3> HIDE DEF Sets
    <3> QED BY <1>0, <1>3, <3>4 DEF ConnEffect
  <2> QED BY <2>4, <2>5
<1>4. CASE Now(t) \notin {"storeKeys", "tombstone", "probe"}
  BY <1>4, Frame DEF Framed, ConnEffect
<1> QED BY <1>1, <1>2, <1>3, <1>4

\* A step with an outcome: it was carried out, or it was refused, or a fault
\* was spent on it.
Outcome(t) ==
  \/ Goes(t) /\ faults' = faults
  \/ Backs(t) /\ faults' = faults /\ Now(t) \in {"reserve", "approve", "probe"}
  \/ /\ Backs(t) /\ faults > 0 /\ faults' = faults - 1
     /\ Now(t) \in UnitSteps \cup FileSteps \cup {"pool", "provision"}
     /\ Now(t) = "provision" => ~workspace[t]

LEMMA OutcomeStep ==
  ASSUME TypeOK, NEW t \in Tenants, StepOf(t), Planned(t), Sole(t)
  PROVE  Outcome(t) /\ Planned(t)'
<1>1. (Returns(t) => Planned(t)' /\ Goes(t)) /\ (Raises(t) => Planned(t)' /\ Backs(t))
  BY StepTaken, Advance
<1>2. Planned(t)'
  BY <1>1, StepTaken
<1>3. CASE SystemctlTimesOut(t) \/ StepFails(t)
  <2>1. Raises(t) /\ Fault
    BY <1>3 DEF SystemctlTimesOut, StepFails
  <2>2. Now(t) \in UnitSteps \cup FileSteps \cup {"pool", "provision"}
    <3>1. \A s : At(t, s) => Now(t) = s
      BY NowAt
    <3> QED BY <1>3, <3>1 DEF SystemctlTimesOut, SystemctlEffect, StepFails, UnitSteps, FileSteps
  <2>3. Now(t) = "provision" => ~workspace[t]
    <3>1. \A s : At(t, s) => Now(t) = s
      BY NowAt
    <3> QED BY <1>3, <3>1 DEF SystemctlTimesOut, SystemctlEffect, StepFails
  <2> QED BY <1>1, <1>2, <2>1, <2>2, <2>3 DEF Outcome, Fault
<1>4. CASE Reserve(t) \/ ApproveLive(t) \/ Probe(t)
  <2>1. faults' = faults /\ (Returns(t) \/ Raises(t))
    BY <1>4 DEF Reserve, ApproveLive, Probe
  <2>2. Now(t) \in {"reserve", "approve", "probe"}
    <3>1. \A s : At(t, s) => Now(t) = s
      BY NowAt
    <3> QED BY <1>4, <3>1 DEF Reserve, ApproveLive, Probe
  <2> QED BY <1>1, <1>2, <2>1, <2>2 DEF Outcome
<1>5. CASE \/ UpdateTenant(t) \/ RequestLive(t) \/ ResetLiveApproval(t)
           \/ FailLiveActivation(t) \/ StoreKeys(t) \/ EnsureTenant(t)
           \/ CreateSession(t) \/ RemovePilot(t) \/ SavePool(t) \/ Provision(t)
           \/ WriteFile(t) \/ Systemctl(t)
  <2>1. Returns(t) /\ faults' = faults
    BY <1>5, TombstoneHeld DEF UpdateTenant, RequestLive, ResetLiveApproval, FailLiveActivation,
       StoreKeys, EnsureTenant, CreateSession, RemovePilot, SavePool, Provision,
       WriteFile, Systemctl
  <2> QED BY <1>1, <1>2, <2>1 DEF Outcome
<1> QED BY <1>3, <1>4, <1>5, Zenon DEF StepOf, Transaction

DiskEffect(t) ==
  /\ workspace[t] => workspace'[t]
  /\ Now(t) = "provision" /\ faults' = faults => workspace'[t]
  /\ Now(t) \notin FileSteps => files'[t] = files[t]
  /\ Now(t) \in FileSteps =>
       \/ faults' /= faults /\ files'[t] = files[t]
       \/ /\ faults' = faults
          /\ Now(t) = "yamlSim" => files'[t] = [files[t] EXCEPT !.yaml = "sim"]
          /\ Now(t) = "listSim" => files'[t] = [files[t] EXCEPT !.list = "sim"]
          /\ Now(t) = "yamlLive" => files'[t] = [files[t] EXCEPT !.yaml = "live"]
          /\ Now(t) = "listLive" => files'[t] = [files[t] EXCEPT !.list = "live"]
          /\ Now(t) = "restoreYaml" =>
               files'[t] = [files[t] EXCEPT !.yaml = req[t].copy.yaml]
          /\ Now(t) = "restoreList" =>
               files'[t] = [files[t] EXCEPT !.list = req[t].copy.list]

LEMMA DiskStep ==
  ASSUME TypeOK, NEW t \in Tenants, StepOf(t)
  PROVE  /\ DiskEffect(t)
         /\ \A u \in Tenants \ {t} : workspace'[u] = workspace[u] /\ files'[u] = files[u]
<1>0. \A s : At(t, s) => Now(t) = s
  BY NowAt
<1>1. CASE WriteFile(t)
  <2> DEFINE Sets(k) == files' = [files EXCEPT ![t] = k]
  <2>1. \A k : Sets(k) => files'[t] = k /\ \A u \in Tenants \ {t} : files'[u] = files[u]
    BY Zenon DEF TypeOK
  <2>2. /\ Now(t) \in FileSteps
        /\ Now(t) = "yamlSim" => Sets([files[t] EXCEPT !.yaml = "sim"])
        /\ Now(t) = "listSim" => Sets([files[t] EXCEPT !.list = "sim"])
        /\ Now(t) = "yamlLive" => Sets([files[t] EXCEPT !.yaml = "live"])
        /\ Now(t) = "listLive" => Sets([files[t] EXCEPT !.list = "live"])
        /\ Now(t) = "restoreYaml" => Sets([files[t] EXCEPT !.yaml = req[t].copy.yaml])
        /\ Now(t) = "restoreList" => Sets([files[t] EXCEPT !.list = req[t].copy.list])
    BY <1>0, <1>1 DEF WriteFile, FileSteps
  <2>3. /\ workspace'[t] /\ faults' = faults
        /\ \A u \in Tenants \ {t} : workspace'[u] = workspace[u]
    BY <1>1 DEF WriteFile, TypeOK
  <2>4. Now(t) /= "provision"
    BY <2>2 DEF FileSteps
  <2> HIDE DEF Sets
  <2> QED BY <2>1, <2>2, <2>3, <2>4 DEF DiskEffect, FileSteps
<1>2. CASE Provision(t)
  <2>1. /\ workspace'[t] /\ files' = files /\ Now(t) = "provision"
        /\ \A u \in Tenants \ {t} : workspace'[u] = workspace[u]
    BY <1>0, <1>2 DEF Provision, TypeOK
  <2> QED BY <2>1 DEF DiskEffect, FileSteps
<1>3. CASE StepFails(t)
  <2>1. UNCHANGED <<workspace, files>> /\ faults' /= faults
    BY <1>3 DEF StepFails, Fault, TypeOK
  <2> QED BY <2>1 DEF DiskEffect
<1>4. CASE Now(t) \notin FileSteps \cup {"provision"}
  BY <1>4, Frame DEF Framed, DiskEffect
<1>5. Cases(t)
  BY StepCases
<1> QED BY <1>1, <1>2, <1>3, <1>4, <1>5 DEF Cases, RowSteps, FileSteps, UnitSteps

Down(t) == unit[t].state = "down"

UnitEffect(t) ==
  /\ Now(t) \notin UnitSteps => unit'[t] = unit[t]
  /\ Now(t) = "halt" =>
       /\ Down(t) => Down(t)'
       /\ faults' = faults => Down(t)'

LEMMA UnitStep ==
  ASSUME TypeOK, NEW t \in Tenants, StepOf(t)
  PROVE  UnitEffect(t) /\ \A u \in Tenants \ {t} : unit'[u] = unit[u]
<1>0. \A s : At(t, s) => Now(t) = s
  BY NowAt
<1>1. CASE Systemctl(t) \/ SystemctlTimesOut(t)
  <2>1. SystemctlEffect(t)
    BY <1>1 DEF Systemctl, SystemctlTimesOut
  <2>2. \A u \in Tenants \ {t} : unit'[u] = unit[u]
    BY <2>1 DEF SystemctlEffect, Boots, Halts, TypeOK
  <2>3. Now(t) \in UnitSteps /\ (Now(t) = "halt" => Halts(t))
    BY <1>0, <2>1 DEF SystemctlEffect, UnitSteps
  <2>4. Halts(t) => Down(t)'
    BY DEF Halts, Down, TypeOK
  <2> QED BY <2>2, <2>3, <2>4 DEF UnitEffect
<1>2. CASE StepFails(t)
  <2>1. UNCHANGED unit /\ faults' /= faults
    BY <1>2 DEF StepFails, Fault, TypeOK
  <2> QED BY <2>1 DEF UnitEffect, Down
<1>3. CASE Now(t) \notin UnitSteps
  <2>1. UNCHANGED unit /\ Now(t) /= "halt"
    BY <1>3, Frame DEF Framed, UnitSteps
  <2> QED BY <1>3, <2>1 DEF UnitEffect
<1>4. Cases(t)
  BY StepCases
<1> QED BY <1>1, <1>2, <1>3, <1>4 DEF Cases, RowSteps, FileSteps, UnitSteps

\* All that belongs to tenant u stays as it is.
Same(u) ==
  /\ account'[u] = account[u] /\ session'[u] = session[u]
  /\ row'[u] = row[u] /\ approvals'[u] = approvals[u] /\ conn'[u] = conn[u]
  /\ workspace'[u] = workspace[u] /\ files'[u] = files[u]
  /\ unit'[u] = unit[u] /\ req'[u] = req[u] /\ last'[u] = last[u]
  /\ parked'[u] = parked[u]

\* A step of a request, part by part.
Moves(t) ==
  /\ Now(t) \in Steps /\ req[t].op \in Ops
  /\ Reached(req[t].op, req[t].seen, Now(t))
  /\ Outcome(t)
  /\ AccountEffect(t) /\ SessionEffect(t) /\ StatusEffect(t) /\ LiveEffect(t)
  /\ ConnEffect(t) /\ DiskEffect(t) /\ UnitEffect(t)
  /\ Now(t) \in {"request", "approve", "reset", "failed"} \/ approvals'[t] = approvals[t]
  /\ parked[t] = Idle => parked'[t] = Idle
  /\ Found(t) = IF Now(t) = "ensure" THEN row'[t].status ELSE req[t].found

LEMMA FaultsStep ==
  ASSUME TypeOK, NEW t \in Tenants, StepOf(t)
  PROVE  /\ faults' \in Nat /\ faults' <= faults
         /\ UNCHANGED overtaken
         /\ \A u \in Tenants \ {t} : parked'[u] = parked[u]
         /\ parked[t] = Idle => parked'[t] = Idle
<1>1. faults \in Nat
  BY DEF TypeOK
<1>2. faults' = faults \/ Fault
  BY DEF StepOf, Transaction, Reserve, UpdateTenant, RequestLive, ApproveLive,
         ResetLiveApproval, FailLiveActivation, StoreKeys, Probe, EnsureTenant,
         CreateSession, RemovePilot, SavePool, Provision, WriteFile, Systemctl,
         SystemctlTimesOut, StepFails
<1>3. \/ Reserve(t) \/ UpdateTenant(t)
      \/ (RequestLive(t) \/ ApproveLive(t) \/ ResetLiveApproval(t)
            \/ FailLiveActivation(t))
      \/ (EnsureTenant(t) \/ RemovePilot(t))
      \/ RowFree(t)
  BY Zenon DEF StepOf, Transaction, RowFree
<1> QED BY <1>1, <1>2, <1>3, OverlapFrame DEF Fault

LEMMA FoundStep ==
  ASSUME TypeOK, NEW t \in Tenants, StepOf(t)
  PROVE  Found(t) = IF Now(t) = "ensure" THEN row'[t].status ELSE req[t].found
<1>1. \A s : At(t, s) => Now(t) = s
  BY NowAt
<1>2. CASE Now(t) = "ensure"
  <2>1. EnsureTenant(t)
    BY <1>2, StepCases DEF Cases, RowSteps, FileSteps, UnitSteps
  <2>2. At(t, "ensure")
    BY <2>1 DEF EnsureTenant
  <2> QED BY <1>2, <2>1, <2>2, LifeType DEF Found
<1>3. CASE Now(t) /= "ensure"
  BY <1>1, <1>3 DEF Found
<1> QED BY <1>2, <1>3

LEMMA StepMoves ==
  ASSUME TypeOK, NEW t \in Tenants, StepOf(t)
  PROVE  /\ Planned(t) /\ Sole(t) => Moves(t) /\ Planned(t)'
         /\ \A u \in Tenants \ {t} : Same(u)
<1>1. ASSUME Planned(t), Sole(t) PROVE Moves(t) /\ Planned(t)'
  BY <1>1, StepTaken, Advance, OutcomeStep, AccountStep, SessionStep, RowStep, ConnStep,
     DiskStep, UnitStep, FaultsStep, FoundStep DEF Moves
<1>2. \A u \in Tenants \ {t} : Same(u)
  BY StepTaken, AccountStep, SessionStep, RowStep, ConnStep, DiskStep, UnitStep,
     FaultsStep DEF Same
<1> QED BY <1>1, <1>2

\* The step each follows.
LEMMA FlowInto ==
  ASSUME NEW op, NEW seen, NEW s, NEW n, <<s, n>> \in Flow(op, seen)
  PROVE  /\ n = "session" => s = "repaired"
         /\ n = "repaired" => s = "provision"
         /\ n = "provision" => s = "ensure"
         /\ n \notin {"provisionFailed", "ensure", "probe", "restoreYaml"}
         /\ n \notin {"reserve", "halt"}
         /\ n = "connected" => s = "reset"
         /\ n = "storeKeys" => s = "connected"
         /\ n = "tombstone" => s = "offline"
         /\ n = "offline" => s = "halt" \/ (op = "deactivate" /\ s = "listSim")
         /\ n = "stopped" => s = "halt"
         /\ n = "boot" => s = "reserve"
         /\ n = "reboot" =>
              s = "reserve" \/ (op \in {"activate", "approve"} /\ s = "listLive")
         /\ n = "running" => s \in {"boot", "reboot"}
         /\ n = "live" => s = "reboot"
         /\ n = "error" => s = "failed" /\ op \in {"activate", "approve"}
         /\ n = "failed" => s = "listSim"
         /\ s \in {"session", "tombstone"} => n = "end"
<1>1. CASE op = "start"
  BY <1>1 DEF Flow
<1>2. CASE op = "restart"
  BY <1>2 DEF Flow
<1>3. CASE op = "stop"
  BY <1>3 DEF Flow
<1>4. CASE op = "connect"
  BY <1>4 DEF Flow
<1>5. CASE op \in {"test", "request", "addPair"}
  BY <1>5 DEF Flow
<1>6. CASE op = "activate"
  BY <1>6 DEF Flow
<1>7. CASE op = "approve"
  BY <1>7 DEF Flow
<1>8. CASE op = "deactivate"
  BY <1>8 DEF Flow
<1>9. CASE op = "suspend"
  BY <1>9 DEF Flow
<1>10. CASE op = "remove"
  BY <1>10 DEF Flow
<1>11. CASE op = "profile"
  BY <1>11 DEF Flow
<1>12. CASE op = "switch"
  BY <1>12 DEF Flow
<1>13. CASE op = "promote"
  BY <1>13 DEF Flow
<1>14. CASE op \in {"login", "reactivate"}
  BY <1>14 DEF Flow
<1>15. CASE op \notin Ops
  <2>1. Flow(op, seen) = {}
    BY <1>15 DEF Flow, Ops, OwnerOps, AdminOps
  <2> QED BY <2>1
<1> QED BY <1>1, <1>2, <1>3, <1>4, <1>5, <1>6, <1>7, <1>8, <1>9,
          <1>10, <1>11, <1>12, <1>13, <1>14, <1>15
        DEF Ops, OwnerOps, AdminOps

LEMMA RescueInto ==
  ASSUME NEW r, NEW s
  PROVE  /\ RescueEntry(r, s) \in {"error", "failed", "yamlSim", "halt", "offline",
                                  "restoreYaml", "provisionFailed", "end"}
         /\ RescueEntry(r, s) = "provisionFailed" => s = "provision"
         /\ RescueEntry(r, s) = "offline" => r.op \in {"deactivate", "suspend"}
         /\ RescueEntry(r, s) = "restoreYaml" => r.op = "promote"
BY DEF RescueEntry

-----------------------------------------------------------------------------
(* How a request begins, how an engine moves and what a crash leaves.       *)

Begins(t, o) ==
  /\ parked'[t] = parked[t] /\ ~req'[t].rekeyed
  /\ req[t] = Idle /\ Now(t) = "end" /\ Admitted(t, o) /\ faults' = faults
  /\ account'[t] = CASE o = "suspend" -> "suspended"
                     [] o = "reactivate" -> "active"
                     [] OTHER -> account[t]
  /\ session'[t] => session[t] /\ o /= "suspend"
  /\ row'[t] = row[t] /\ approvals'[t] = approvals[t] /\ conn'[t] = conn[t]
  /\ workspace'[t] = workspace[t] /\ files'[t] = files[t] /\ unit'[t] = unit[t]
  /\ Now(t)' = Entry(o, row[t])
  /\ Now(t)' = "end" => req'[t] = Idle /\ last'[t] = [op |-> o, ok |-> TRUE]
  /\ Now(t)' /= "end" => /\ req'[t].op = o /\ req'[t].seen = row[t]
                         /\ req'[t].copy = files[t] /\ req'[t].ok = TRUE
                         /\ last'[t] = Nothing

LEMMA BeginMoves ==
  ASSUME TypeOK, NEW t \in Tenants, NEW o \in Ops, Begin(t, o)
  PROVE  Begins(t, o) /\ Planned(t)' /\ \A u \in Tenants \ {t} : Same(u)
<1> DEFINE q == Path(o, row[t])
           r == [op |-> o, todo |-> q, ok |-> TRUE, seen |-> row[t], copy |-> files[t],
                 found |-> row[t].status, rekeyed |-> FALSE]
<1>1. row[t] \in Row
  BY DEF TypeOK
<1>2. /\ q \in Seq(Steps) /\ Walk(q, Flow(o, row[t]), "end")
      /\ First(q, "end") = Entry(o, row[t])
  BY <1>1, PathType, PathKeeps DEF Keeps
<1>3. o /= "none"
  BY DEF Ops, OwnerOps, AdminOps
<1>4. /\ req[t] = Idle /\ Admitted(t, o) /\ faults' = faults
      /\ UNCHANGED <<row, approvals, conn, workspace, files, unit, parked>>
  BY DEF Begin, Enter
<1>5. Idle.todo = <<>> /\ ~Idle.rekeyed /\ Walk(<<>>, Flow(Idle.op, Idle.seen), "end")
  BY Walks DEF Idle
<1>6. Now(t) = "end"
  BY <1>4, <1>5 DEF Now, First
<1>7. /\ account'[t] = CASE o = "suspend" -> "suspended"
                        [] o = "reactivate" -> "active"
                        [] OTHER -> account[t]
      /\ \A u \in Tenants \ {t} : account'[u] = account[u]
  BY DEF Begin, Enter, TypeOK
<1>8. /\ session'[t] => session[t] /\ o /= "suspend"
      /\ \A u \in Tenants \ {t} : session'[u] = session[u]
  BY Zenon DEF Begin, Enter, TypeOK
<1>9. CASE q = <<>>
  <2>1. /\ last' = [last EXCEPT ![t] = [op |-> o, ok |-> TRUE]]
        /\ req' = [req EXCEPT ![t] = Idle]
    BY <1>9 DEF Begin, Enter
  <2>2. /\ last'[t] = [op |-> o, ok |-> TRUE] /\ req'[t] = Idle
        /\ \A u \in Tenants \ {t} : req'[u] = req[u] /\ last'[u] = last[u]
    BY <1>4, <2>1 DEF TypeOK
  <2>3. Now(t)' = "end" /\ Entry(o, row[t]) = "end"
    BY <1>2, <1>5, <1>9, <2>2 DEF Now, First
  <2>4. Planned(t)' /\ ~req'[t].rekeyed
    BY <1>5, <2>2 DEF Planned
  <2> HIDE DEF q
  <2> QED BY <1>4, <1>6, <1>7, <1>8, <2>2, <2>3, <2>4 DEF Begins, Same
<1>10. CASE q /= <<>>
  <2>1. req' = [req EXCEPT ![t] = r] /\ last' = [last EXCEPT ![t] = Nothing]
    BY <1>10 DEF Begin, Enter
  <2>2. /\ last'[t] = Nothing /\ req'[t] = r
        /\ \A u \in Tenants \ {t} : req'[u] = req[u] /\ last'[u] = last[u]
    BY <2>1 DEF TypeOK
  <2>3. Now(t)' = Entry(o, row[t]) /\ Now(t)' /= "end"
    BY <1>2, <1>10, <2>2, FirstStep DEF Now
  <2>4. Planned(t)'
    BY <1>2, <1>3, <1>10, <2>2 DEF Planned
  <2> HIDE DEF q
  <2> QED BY <1>4, <1>6, <1>7, <1>8, <2>2, <2>3, <2>4 DEF Begins, Same
<1> QED BY <1>9, <1>10

\* A request that overtakes another one, and the threads that take turns, do
\* not touch what belongs to other tenants.
LEMMA OverlapMoves ==
  ASSUME TypeOK, NEW t \in Tenants, (\E o \in Ops : Overtake(t, o)) \/ Switch(t)
  PROVE  /\ faults' = faults
         /\ overtaken \subseteq overtaken'
         /\ parked[t] = Idle => t \in overtaken' /\ last'[t].op \in {"none"} \cup Ops
                                /\ last'[t].ok
         /\ \A u \in Tenants \ {t} : Same(u)
<1>1. CASE \E o \in Ops : Overtake(t, o)
  <2>1. PICK o \in Ops : Overtake(t, o)
    BY <1>1
  <2>2. Enter(t, o)
    BY <2>1 DEF Overtake
  <2>3. \E r : last' = [last EXCEPT ![t] = r] /\ r \in {Nothing, [op |-> o, ok |-> TRUE]}
    <3>1. CASE Path(o, row[t]) = <<>>
      BY <2>2, <3>1 DEF Enter
    <3>2. CASE Path(o, row[t]) /= <<>>
      BY <2>2, <3>2 DEF Enter
    <3> QED BY <3>1, <3>2
  <2>4. \A u \in Tenants \ {t} : session'[u] = session[u]
    BY <2>2, Zenon DEF Enter, TypeOK
  <2>5. \A u \in Tenants \ {t} : req'[u] = req[u] /\ parked'[u] = parked[u]
    BY <2>1, BeginType
  <2>6. \A u \in Tenants \ {t} : account'[u] = account[u] /\ last'[u] = last[u]
    BY <2>2, <2>3 DEF Enter, TypeOK
  <2>7. /\ faults' = faults /\ overtaken' = overtaken \cup {t}
        /\ UNCHANGED <<row, approvals, conn, workspace, files, unit>>
    BY <2>1, <2>2 DEF Overtake, Enter
  <2>8. last'[t].op \in {"none"} \cup Ops /\ last'[t].ok
    BY <2>3 DEF TypeOK, Nothing
  <2> QED BY <2>4, <2>5, <2>6, <2>7, <2>8 DEF Same
<1>2. CASE Switch(t)
  <2>1. /\ parked[t] /= Idle /\ UNCHANGED overtaken /\ faults' = faults
        /\ UNCHANGED <<account, session, row, approvals, conn, workspace, files,
                      unit, last>>
    BY <1>2 DEF Switch
  <2> QED BY <1>2, <2>1, SwitchType DEF Same
<1> QED BY <1>1, <1>2

\* An engine that moves was not down, and only its unit changes.
Runs(t) ==
  /\ ~Down(t) /\ faults' = faults
  /\ account'[t] = account[t] /\ session'[t] = session[t]
  /\ row'[t] = row[t] /\ approvals'[t] = approvals[t] /\ conn'[t] = conn[t]
  /\ workspace'[t] = workspace[t] /\ files'[t] = files[t]
  /\ req'[t] = req[t] /\ last'[t] = last[t] /\ parked'[t] = parked[t]

LEMMA EngineMoves ==
  ASSUME TypeOK, NEW t \in Tenants, Engine(t)
  PROVE  Runs(t) /\ \A u \in Tenants \ {t} : Same(u)
<1>1. \A u \in Tenants \ {t} : unit'[u] = unit[u]
  BY DEF Engine, HotReload, EngineDies, UnitRetries, Boots, TypeOK
<1>2. /\ ~Down(t) /\ faults' = faults
      /\ UNCHANGED <<account, session, row, approvals, conn, workspace, files, req,
                    last, parked>>
  BY DEF Engine, HotReload, EngineDies, UnitRetries, Crash, Down
<1> QED BY <1>1, <1>2 DEF Runs, Same

\* A crash of the control plane forgets the requests and nothing else.
Forgets(t) ==
  /\ Now(t)' = "end" /\ req'[t] = Idle /\ parked'[t] = Idle /\ faults' = faults
  /\ account'[t] = account[t] /\ session'[t] = session[t]
  /\ row'[t] = row[t] /\ approvals'[t] = approvals[t] /\ conn'[t] = conn[t]
  /\ workspace'[t] = workspace[t] /\ files'[t] = files[t]
  /\ unit'[t] = unit[t] /\ last'[t] = last[t]

LEMMA CrashMoves ==
  ASSUME TypeOK, ControlCrash, NEW t \in Tenants
  PROVE  Forgets(t) /\ Planned(t)'
<1>1. Idle.todo = <<>> /\ Walk(<<>>, Flow(Idle.op, Idle.seen), "end")
  BY Walks DEF Idle
<1>2. req'[t] = Idle /\ parked'[t] = Idle
  BY DEF ControlCrash
<1>3. /\ faults' = faults
      /\ UNCHANGED <<account, session, row, approvals, conn, workspace, files, unit, last>>
  BY DEF ControlCrash, Crash
<1> QED BY <1>1, <1>2, <1>3 DEF Forgets, Planned, Now, First

-----------------------------------------------------------------------------
(* Requests that do not overlap.                                            *)

LEMMA SoleSame == ASSUME NEW t, Same(t), Sole(t) PROVE Sole(t)'
BY DEF Same, Sole, Now, First

LEMMA SoleMoves ==
  ASSUME NEW t \in Tenants, Moves(t), Sole(t)
  PROVE  Sole(t)'
<1>0. ~Idle.rekeyed /\ Idle.op = "none"
  BY DEF Idle
<1>1. /\ Now(t)' = "end" => req'[t] = Idle
      /\ Now(t)' /= "end" => /\ req'[t].op = req[t].op /\ req'[t].found = Found(t)
                             /\ req'[t].rekeyed = req[t].rekeyed
  BY DEF Moves, Outcome, Goes, Backs, Leaves
<1>2. parked'[t] = Idle /\ ~req'[t].rekeyed
  BY <1>0, <1>1 DEF Moves, Sole
<1>3. req'[t].op = "remove" => account'[t] = "suspended"
  <2>1. Now(t) = "tombstone" => Now(t)' = "end"
    BY FlowInto DEF Moves, Outcome, Goes, UnitSteps, FileSteps
  <2> QED BY <1>0, <1>1, <2>1 DEF Moves, AccountEffect, Sole
<1>4. /\ Now(t)' = "provision" => Now(t) = "ensure"
      /\ Now(t)' \in {"repaired", "provisionFailed"} => Now(t) = "provision"
  <2>1. CASE Goes(t)
    BY <2>1, FlowInto DEF Goes
  <2>2. CASE Backs(t)
    BY <2>2, RescueInto DEF Backs
  <2> QED BY <2>1, <2>2 DEF Moves, Outcome
<1>5. Now(t)' \in {"provision", "repaired", "provisionFailed"} =>
        req'[t].found = row'[t].status
  <2>1. Now(t) = "ensure" => Found(t) = row'[t].status
    BY DEF Moves
  <2>2. Now(t) = "provision" => Found(t) = row'[t].status
    BY DEF Moves, Sole, StatusEffect, RowSteps
  <2> QED BY <1>1, <1>4, <2>1, <2>2
<1> QED BY <1>2, <1>3, <1>5 DEF Sole

LEMMA SoleBegins ==
  ASSUME NEW t \in Tenants, NEW o \in Ops, Begins(t, o), Sole(t)
  PROVE  Sole(t)'
<1>1. Now(t)' \notin {"provision", "repaired", "provisionFailed"}
  BY DEF Begins, Entry
<1>2. req'[t].op \in {o, "none"}
  BY DEF Begins, Idle
<1>3. req'[t].op = "remove" => account'[t] = "suspended"
  BY <1>2 DEF Begins, Admitted
<1> QED BY <1>1, <1>3 DEF Begins, Sole

LEMMA SoleRuns == ASSUME NEW t, Runs(t), Sole(t) PROVE Sole(t)'
BY DEF Runs, Sole, Now, First

LEMMA SoleForgets == ASSUME NEW t, Forgets(t) PROVE Sole(t)'
BY DEF Forgets, Sole, Idle

-----------------------------------------------------------------------------
(* Sessions.                                                                *)

Absent(t) == row[t].status = "absent"
Ready(r) == r.status \notin {"absent", "provision_failed"}

\* A session has a workspace and a row, and so has a login that is about to
\* issue one.
SetUp(t) ==
  /\ session[t] => workspace[t] /\ Ready(row[t])
  /\ Now(t) = "session" => workspace[t] /\ Ready(row[t])
  /\ Now(t) \in {"provision", "repaired"} => ~Absent(t)
  /\ Now(t) = "repaired" => workspace[t]
  /\ Now(t) = "provisionFailed" => ~session[t] /\ ~Absent(t)
  /\ req[t].op = "connect" => Ready(req[t].seen)

LEMMA SetUpSame == ASSUME NEW t, Same(t), SetUp(t) PROVE SetUp(t)'
BY DEF Same, SetUp, Now, First, Absent

LEMMA SetUpMoves ==
  ASSUME NEW t \in Tenants, Moves(t), SetUp(t)
  PROVE  SetUp(t)'
<1>1. /\ workspace[t] => workspace'[t]
      /\ Now(t) = "provision" /\ faults' = faults => workspace'[t]
  BY DEF Moves, DiskEffect
<1>2. /\ Now(t) /= "provisionFailed" /\ Ready(row[t]) => Ready(row'[t])
      /\ Now(t) = "repaired" /\ ~Absent(t) => Ready(row'[t])
      /\ Now(t) = "ensure" => ~Absent(t)'
      /\ ~Absent(t) => ~Absent(t)'
  <2>1. Now(t) = "connected" => Ready(req[t].seen)
    BY FlowFrom DEF Moves, SetUp
  <2> QED BY <2>1 DEF Moves, StatusEffect, Ready, RowSteps, Counted, Active, Absent
<1>3. session'[t] => session[t] \/ Now(t) = "session"
  BY DEF Moves, SessionEffect
<1>4. /\ Now(t)' = "session" => Now(t) = "repaired"
      /\ Now(t)' = "repaired" => Now(t) = "provision" /\ faults' = faults
      /\ Now(t)' = "provision" => Now(t) = "ensure"
      /\ Now(t)' = "provisionFailed" => Now(t) = "provision" /\ ~workspace[t]
  <2>1. CASE Goes(t) /\ faults' = faults
    BY <2>1, FlowInto DEF Goes
  <2>2. CASE Backs(t) /\ (Now(t) = "provision" => ~workspace[t])
    BY <2>2, RescueInto DEF Backs
  <2> QED BY <2>1, <2>2 DEF Moves, Outcome
<1>5. session'[t] => workspace'[t] /\ Ready(row'[t])
  BY <1>1, <1>2, <1>3 DEF SetUp
<1>6. Now(t)' = "session" => workspace'[t] /\ Ready(row'[t])
  BY <1>1, <1>2, <1>4 DEF SetUp
<1>7. Now(t)' \in {"provision", "repaired"} => ~Absent(t)'
  BY <1>2, <1>4 DEF SetUp
<1>8. Now(t)' = "repaired" => workspace'[t]
  BY <1>1, <1>4
<1>9. Now(t)' = "provisionFailed" => ~session'[t] /\ ~Absent(t)'
  BY <1>2, <1>3, <1>4 DEF SetUp
<1>10. req'[t].op = "connect" => Ready(req'[t].seen)
  BY DEF Moves, Outcome, Goes, Backs, Leaves, Idle, SetUp
<1> QED BY <1>5, <1>6, <1>7, <1>8, <1>9, <1>10 DEF SetUp

LEMMA SetUpBegins ==
  ASSUME NEW t \in Tenants, NEW o \in Ops, Begins(t, o), SetUp(t)
  PROVE  SetUp(t)'
<1>1. Now(t)' \notin {"session", "provision", "repaired", "provisionFailed"}
  BY DEF Begins, Entry
<1>2. session'[t] => workspace'[t] /\ Ready(row'[t])
  BY DEF Begins, SetUp
<1>3. req'[t].op = "connect" => Ready(req'[t].seen)
  BY DEF Begins, Admitted, OwnerOps, Idle, SetUp
<1> QED BY <1>1, <1>2, <1>3 DEF SetUp

LEMMA SetUpRuns == ASSUME NEW t, Runs(t), SetUp(t) PROVE SetUp(t)'
BY DEF Runs, SetUp, Now, First, Absent

LEMMA SetUpForgets == ASSUME NEW t, Forgets(t), SetUp(t) PROVE SetUp(t)'
BY DEF Forgets, SetUp, Idle

-----------------------------------------------------------------------------
(* Removals.                                                                *)

\* A removal that has come to its tombstone has stopped the engine, and
\* nothing begins for a removed pilot; a pilot without a row never had an
\* engine, and only signs in or is removed.
Removal(t) ==
  /\ account[t] = "removed" =>
       /\ Down(t) /\ ~session[t] /\ ~Stored(t) /\ Now(t) = "end"
       /\ row[t].status \in {"absent", "removed"}
  /\ Absent(t) => Down(t) /\ Now(t) \in {"end", "ensure", "tombstone"}
  /\ Now(t) = "tombstone" => Down(t)
  /\ Now(t) = "offline" /\ req[t].op = "remove" => Down(t)

LEMMA RemovalSame == ASSUME NEW t, Same(t), Removal(t) PROVE Removal(t)'
BY DEF Same, Removal, Now, First, Absent, Down, Stored

LEMMA RemovalMoves ==
  ASSUME NEW t \in Tenants, Moves(t), SetUp(t), Removal(t)
  PROVE  Removal(t)'
<1>1. account[t] /= "removed"
  BY DEF Moves, Removal, Steps
<1>2. Now(t) \notin UnitSteps => (Down(t) => Down(t)')
  BY DEF Moves, UnitEffect, Down
<1>3. account'[t] = "removed" => Now(t) = "tombstone"
  BY <1>1 DEF Moves, AccountEffect
<1>4. CASE Now(t) = "tombstone"
  <2>1. Down(t) /\ Down(t)'
    BY <1>2, <1>4 DEF Removal, UnitSteps
  <2>2. ~session'[t] /\ ~Stored(t)'
    BY <1>4 DEF Moves, SessionEffect, ConnEffect, Stored, NoKeys
  <2>3. Now(t)' = "end"
    BY <1>4, FlowInto DEF Moves, Outcome, Goes, UnitSteps, FileSteps
  <2>4. row'[t].status \in {"absent", "removed"}
    BY <1>4 DEF Moves, StatusEffect, RowSteps
  <2> QED BY <1>4, <2>1, <2>2, <2>3, <2>4 DEF Removal
<1>5. CASE Now(t) /= "tombstone"
  <2>1. ~Absent(t)'
    <3>1. Now(t) = "connected" => Ready(req[t].seen)
      BY FlowFrom DEF Moves, SetUp
    <3>2. Absent(t) => Now(t) = "ensure"
      BY <1>5 DEF Removal, Moves, Steps
    <3> QED BY <1>5, <3>1, <3>2 DEF Moves, StatusEffect, Ready, RowSteps, Counted, Active, Absent
  <2>2. Now(t)' = "tombstone" => Down(t)'
    <3>1. Now(t)' = "tombstone" => Now(t) = "offline" /\ req[t].op = "remove"
      <4>1. CASE Goes(t)
        <5>1. Now(t)' = "tombstone" => Reached(req[t].op, req[t].seen, Now(t)')
          BY <4>1 DEF Goes, Flow, Reached
        <5> QED BY <4>1, <5>1, FlowInto, FlowFrom DEF Goes
      <4>2. CASE Backs(t)
        BY <4>2, RescueInto DEF Backs
      <4> QED BY <4>1, <4>2 DEF Moves, Outcome
    <3> QED BY <1>2, <3>1 DEF Removal, UnitSteps
  <2>3. Now(t)' = "offline" /\ req'[t].op = "remove" => Down(t)'
    <3>1. CASE Goes(t) /\ faults' = faults
      <4>1. Now(t)' = "offline" /\ req'[t].op = "remove" => Now(t) = "halt"
        BY <3>1, FlowInto DEF Goes, Leaves
      <4> QED BY <3>1, <4>1 DEF Moves, UnitEffect
    <3>2. CASE Backs(t)
      <4>1. Now(t)' = "offline" => req[t].op /= "remove"
        BY <3>2, RescueInto DEF Backs
      <4> QED BY <3>2, <4>1 DEF Backs, Leaves
    <3> QED BY <3>1, <3>2 DEF Moves, Outcome
  <2> QED BY <1>3, <1>5, <2>1, <2>2, <2>3 DEF Removal
<1> QED BY <1>4, <1>5

LEMMA RemovalBegins ==
  ASSUME NEW t \in Tenants, NEW o \in Ops, Begins(t, o), SetUp(t), Removal(t)
  PROVE  Removal(t)'
<1>1. account[t] /= "removed"
  BY DEF Begins, Admitted, Removal, Ops, AdminOps
<1>2. account'[t] /= "removed"
  BY <1>1 DEF Begins
<1>3. Absent(t) => o \in {"login", "reactivate", "suspend", "remove"}
  BY DEF Begins, Admitted, SetUp, Ready, Absent, Ops, AdminOps
<1>4. Absent(t)' => Absent(t) /\ Down(t)'
  BY DEF Begins, Absent, Down, Removal
<1>5. Absent(t) => Now(t)' \in {"end", "ensure", "tombstone"}
  BY <1>3 DEF Begins, Entry, Absent
<1>6. Now(t)' = "tombstone" => Absent(t)
  BY DEF Begins, Entry, Absent
<1>7. Now(t)' /= "offline"
  BY DEF Begins, Entry
<1> QED BY <1>2, <1>4, <1>5, <1>6, <1>7 DEF Removal, Begins, Down

LEMMA RemovalRuns == ASSUME NEW t, Runs(t), Removal(t) PROVE Removal(t)'
<1>1. Now(t)' = Now(t) /\ (Absent(t)' <=> Absent(t))
  BY DEF Runs, Now, First, Absent
<1> QED BY <1>1 DEF Runs, Removal

LEMMA RemovalForgets == ASSUME NEW t, Forgets(t), Removal(t) PROVE Removal(t)'
BY DEF Forgets, Removal, Idle, Absent, Down, Stored

-----------------------------------------------------------------------------
(* Keys.                                                                    *)

Proved(t) == Stored(t) => conn[t].proved

\* Whatever could bring live files about finds tested keys, and the files are
\* in simulation before the keys are replaced.
Keys(t) ==
  /\ conn[t].status = "tested" => conn[t].proved
  /\ files[t].yaml = "live" => Proved(t)
  /\ row[t].live = "active" => Proved(t)
  /\ req[t].op \in {"activate", "approve", "addPair"} => Proved(t)
  /\ req[t].op = "promote" /\ req[t].copy.yaml = "live" => Proved(t)
  /\ Now(t) = "probe" => Stored(t)
  /\ req[t].op = "connect" =>
       /\ Now(t) \in {"listSim", "reset", "connected", "storeKeys"} =>
            files[t].yaml = "sim"
       /\ Now(t) \in {"connected", "storeKeys"} => row[t].live /= "active"

LEMMA KeysSame == ASSUME NEW t, Same(t), Keys(t) PROVE Keys(t)'
<1>1. Now(t)' = Now(t)
  BY DEF Same, Now, First
<1> QED BY <1>1 DEF Same, Keys, Proved, Stored

LEMMA KeysMoves ==
  ASSUME TypeOK, NEW t \in Tenants, Moves(t), Keys(t)
  PROVE  Keys(t)'
<1>0. files[t] \in Files /\ conn[t] \in Connection
  BY DEF TypeOK
<1>1. /\ Now(t) \notin {"storeKeys", "probe", "tombstone"} => conn'[t] = conn[t]
      /\ Proved(t) /\ Now(t) /= "storeKeys" => Proved(t)'
      /\ conn'[t].status = "tested" => conn'[t].proved
  BY <1>0 DEF Moves, ConnEffect, Proved, Stored, Keys, NoKeys, Connection
<1>2. /\ req'[t].op /= "none" => req'[t].op = req[t].op /\ req'[t].copy = req[t].copy
      /\ Now(t)' /= "end" => req'[t].op = req[t].op
      /\ Now(t)' = "end" => req'[t].op = "none"
  BY DEF Moves, Outcome, Goes, Backs, Leaves, Idle
<1>3. CASE Now(t) = "storeKeys"
  <2>1. req[t].op = "connect" /\ Now(t)' = "end"
    <3>1. req[t].op = "connect"
      BY <1>3, FlowFrom DEF Moves
    <3>2. Goes(t)
      BY <1>3 DEF Moves, Outcome, UnitSteps, FileSteps
    <3> QED BY <1>3, <3>1, <3>2 DEF Goes, Flow
  <2>2. files'[t] = files[t] /\ row'[t].live = row[t].live
    BY <1>3 DEF Moves, DiskEffect, LiveEffect, FileSteps
  <2>3. files'[t].yaml /= "live" /\ row'[t].live /= "active"
    BY <1>3, <2>1, <2>2 DEF Keys
  <2> QED BY <1>1, <1>2, <2>1, <2>3 DEF Keys
<1>4. CASE Now(t) /= "storeKeys"
  <2>1. files'[t].yaml = "live" => Proved(t)
    <3>1. Now(t) \in {"yamlLive", "listLive"} => Proved(t)
      BY FlowFrom DEF Moves, Keys
    <3>2. Now(t) = "restoreYaml" /\ req[t].copy.yaml = "live" => Proved(t)
      BY FlowFrom DEF Moves, Keys
    <3>3. files[t].yaml = "live" => Proved(t)
      BY DEF Keys
    <3>4. CASE Now(t) = "restoreYaml"
      BY <1>0, <3>2, <3>3, <3>4 DEF Moves, DiskEffect, FileSteps, Files
    <3>5. CASE Now(t) \in {"yamlLive", "listLive"}
      BY <3>1, <3>5
    <3>6. CASE Now(t) \notin {"yamlLive", "listLive", "restoreYaml"}
      <4>1. files'[t].yaml \in {files[t].yaml, "sim"}
        BY <1>0, <3>6 DEF Moves, DiskEffect, FileSteps, Files
      <4> QED BY <3>3, <4>1
    <3> QED BY <3>4, <3>5, <3>6
  <2>2. row'[t].live = "active" => Proved(t)
    <3>1. Now(t) = "live" => Proved(t)
      BY FlowFrom DEF Moves, Keys
    <3> QED BY <3>1 DEF Moves, LiveEffect, Keys
  <2>3. req'[t].op \in {"activate", "approve", "addPair"} => Proved(t)
    BY <1>2 DEF Keys
  <2>4. req'[t].op = "promote" /\ req'[t].copy.yaml = "live" => Proved(t)
    BY <1>2 DEF Keys
  <2>5. Now(t)' /= "probe"
    <3>1. CASE Goes(t)
      BY <3>1, FlowInto DEF Goes
    <3>2. CASE Backs(t)
      BY <3>2, RescueInto DEF Backs
    <3> QED BY <3>1, <3>2 DEF Moves, Outcome
  <2>6. ASSUME req'[t].op = "connect"
        PROVE  /\ Now(t)' \in {"listSim", "reset", "connected", "storeKeys"} =>
                    files'[t].yaml = "sim"
               /\ Now(t)' \in {"connected", "storeKeys"} => row'[t].live /= "active"
    <3>1. req[t].op = "connect"
      BY <1>2, <2>6
    <3>2. CASE Backs(t)
      BY <3>1, <3>2 DEF Backs, RescueEntry
    <3>3. CASE Goes(t) /\ faults' = faults
      <4>1. /\ Now(t)' = "listSim" => Now(t) = "yamlSim"
            /\ Now(t)' = "reset" => Now(t) = "listSim"
            /\ Now(t)' = "connected" => Now(t) = "reset"
            /\ Now(t)' = "storeKeys" => Now(t) = "connected"
        BY <3>1, <3>3 DEF Goes, Flow
      <4>2. /\ Now(t) = "yamlSim" => files'[t].yaml = "sim"
            /\ Now(t) \in {"listSim", "reset", "connected"} => files'[t].yaml = files[t].yaml
        BY <1>0, <3>3 DEF Moves, DiskEffect, FileSteps, Files
      <4>3. /\ Now(t) = "reset" => row'[t].live = "not_requested"
            /\ Now(t) = "connected" => row'[t].live = row[t].live
        BY DEF Moves, LiveEffect
      <4> QED BY <3>1, <4>1, <4>2, <4>3 DEF Keys
    <3> QED BY <3>2, <3>3 DEF Moves, Outcome
  <2> QED BY <1>1, <1>4, <2>1, <2>2, <2>3, <2>4, <2>5, <2>6 DEF Keys
<1> QED BY <1>3, <1>4

LEMMA KeysBegins ==
  ASSUME TypeOK, NEW t \in Tenants, NEW o \in Ops, Begins(t, o), Keys(t)
  PROVE  Keys(t)'
<1>1. Proved(t)' <=> Proved(t)
  BY DEF Begins, Proved, Stored
<1>2. Now(t)' \notin {"listSim", "reset", "connected", "storeKeys"}
  BY DEF Begins, Entry
<1>3. Now(t)' = "probe" => Stored(t)'
  BY DEF Begins, Entry, Admitted, Stored
<1>4. o \in {"activate", "approve", "addPair"} => Proved(t)
  BY DEF Begins, Admitted, KeysTested, Keys, Proved
<1>5. /\ req'[t].op \in {o, "none"}
      /\ req'[t].op /= "none" => req'[t].copy = files[t]
  BY DEF Begins, Idle
<1> QED BY <1>1, <1>2, <1>3, <1>4, <1>5 DEF Begins, Keys

LEMMA KeysRuns == ASSUME NEW t, Runs(t), Keys(t) PROVE Keys(t)'
<1>1. Now(t)' = Now(t)
  BY DEF Runs, Now, First
<1> QED BY <1>1 DEF Runs, Keys, Proved, Stored

LEMMA KeysForgets == ASSUME NEW t, Forgets(t), Keys(t) PROVE Keys(t)'
BY DEF Forgets, Keys, Idle, Proved, Stored

-----------------------------------------------------------------------------
(* Switching off.                                                           *)

\* Without an error, a request that switches off has stopped the engine and
\* cooled what it has passed; the last result says so until the next request.
Off(t) ==
  /\ Absent(t) => files[t] = Sim /\ row[t].live = "not_requested"
  /\ req[t].ok =>
       /\ req[t].op = "stop" /\ Now(t) = "stopped" => Down(t)
       /\ req[t].op = "deactivate" =>
            /\ Now(t) /= "halt" => Down(t)
            /\ Now(t) \in {"listSim", "offline"} => files[t].yaml = "sim"
            /\ Now(t) = "offline" => files[t].list = "sim"
       /\ req[t].op = "suspend" =>
            /\ Now(t) /= "halt" => Down(t)
            /\ Now(t) \in {"yamlSim", "listSim"} => row[t].live = "not_requested"
            /\ Now(t) = "listSim" => files[t].yaml = "sim"
  /\ last[t].ok =>
       /\ last[t].op \in {"stop", "deactivate", "suspend", "remove"} => Down(t)
       /\ last[t].op \in {"deactivate", "suspend"} =>
            files[t] = Sim /\ row[t].live = "not_requested"

LEMMA OffSame == ASSUME NEW t, Same(t), Off(t) PROVE Off(t)'
<1>1. Now(t)' = Now(t)
  BY DEF Same, Now, First
<1> QED BY <1>1 DEF Same, Off, Absent, Down

LEMMA OffMoves ==
  ASSUME TypeOK, TypeOK', NEW t \in Tenants, Moves(t), SetUp(t), Removal(t), Off(t)
  PROVE  Off(t)'
<1> DEFINE op == req[t].op
<1>0. /\ files[t] \in Files /\ req[t].ok \in BOOLEAN
      /\ op \in Ops /\ op /= "none" /\ Nothing.op = "none" /\ Idle.op = "none"
  BY DEF TypeOK, Request, Moves, Ops, OwnerOps, AdminOps, Nothing, Idle
<1>1. Absent(t)' => files'[t] = Sim /\ row'[t].live = "not_requested"
  <2>1. Absent(t)' => Absent(t)
    <3>1. Now(t) = "connected" => Ready(req[t].seen)
      BY FlowFrom DEF Moves, SetUp
    <3> QED BY <3>1 DEF Moves, StatusEffect, Ready, RowSteps, Counted, Active, Absent
  <2>2. Absent(t) => Now(t) \in {"ensure", "tombstone"}
    BY DEF Removal, Moves, Steps
  <2> QED BY <2>1, <2>2 DEF Off, Moves, DiskEffect, LiveEffect, FileSteps
<1>2. CASE Backs(t)
  <2>1. /\ Now(t)' = "end" => req'[t] = Idle /\ ~last'[t].ok
        /\ Now(t)' /= "end" => ~req'[t].ok /\ last'[t].op = "none"
    BY <1>0, <1>2 DEF Backs, Leaves
  <2> QED BY <1>0, <1>1, <2>1 DEF Off
<1>3. CASE Goes(t) /\ faults' = faults
  <2>1. /\ Now(t)' = "end" => /\ req'[t] = Idle
                             /\ last'[t].op = op /\ last'[t].ok = req[t].ok
        /\ Now(t)' /= "end" => /\ req'[t].ok = req[t].ok /\ req'[t].op = op
                              /\ last'[t].op = "none"
        /\ <<Now(t), Now(t)'>> \in Flow(op, req[t].seen)
    BY <1>0, <1>3 DEF Goes, Leaves
  <2>2. /\ Now(t) = "halt" => Down(t)'
        /\ Now(t) \notin UnitSteps /\ Down(t) => Down(t)'
    BY <1>3 DEF Moves, UnitEffect, Down
  <2>3. /\ Now(t) = "yamlSim" => files'[t].yaml = "sim"
        /\ Now(t) = "listSim" => /\ files'[t].yaml = files[t].yaml
                                /\ files'[t].list = "sim"
        /\ Now(t) \in {"halt", "offline", "tombstone"} => files'[t] = files[t]
        /\ files'[t] \in Files
    <3>1. Now(t) = "yamlSim" => files'[t] = [files[t] EXCEPT !.yaml = "sim"]
      BY <1>3 DEF Moves, DiskEffect, FileSteps
    <3>2. Now(t) = "listSim" => files'[t] = [files[t] EXCEPT !.list = "sim"]
      BY <1>3 DEF Moves, DiskEffect, FileSteps
    <3>3. Now(t) \in {"halt", "offline", "tombstone"} => files'[t] = files[t]
      BY DEF Moves, DiskEffect, FileSteps
    <3>4. files'[t] \in Files
      BY DEF TypeOK
    <3> QED BY <1>0, <3>1, <3>2, <3>3, <3>4 DEF Files
  <2>4. /\ Now(t) = "offline" => row'[t].live = "not_requested"
        /\ Now(t) \in {"yamlSim", "listSim"} => row'[t].live = row[t].live
    BY DEF Moves, LiveEffect
  <2> HIDE DEF op
  <2>a. files'[t].yaml = "sim" /\ files'[t].list = "sim" => files'[t] = Sim
    BY <2>3 DEF Files, Sim
  <2>5. CASE op = "stop" /\ req[t].ok
    <3>1. \/ Now(t) = "halt" /\ Now(t)' = "stopped"
          \/ Now(t) = "stopped" /\ Now(t)' = "end" /\ Down(t)
      BY <2>1, <2>5 DEF Flow, Off, op
    <3> QED BY <1>0, <1>1, <2>1, <2>2, <2>5, <3>1 DEF Off, UnitSteps
  <2>6. CASE op = "deactivate" /\ req[t].ok
    <3>1. \/ Now(t) = "halt" /\ Now(t)' = "yamlSim"
          \/ Now(t) = "yamlSim" /\ Now(t)' = "listSim" /\ Down(t)
          \/ /\ Now(t) = "listSim" /\ Now(t)' = "offline" /\ Down(t)
             /\ files[t].yaml = "sim"
          \/ /\ Now(t) = "offline" /\ Now(t)' = "end" /\ Down(t)
             /\ files[t].yaml = "sim" /\ files[t].list = "sim"
      <4>1. \/ Now(t) = "halt" /\ Now(t)' = "yamlSim"
            \/ Now(t) = "yamlSim" /\ Now(t)' = "listSim"
            \/ Now(t) = "listSim" /\ Now(t)' = "offline"
            \/ Now(t) = "offline" /\ Now(t)' = "end"
        BY <2>1, <2>6 DEF Flow
      <4> QED BY <2>6, <4>1 DEF Off, op
    <3>2. Down(t)'
      BY <2>2, <3>1 DEF UnitSteps
    <3> QED BY <1>0, <1>1, <2>1, <2>3, <2>4, <2>a, <2>6, <3>1, <3>2 DEF Off
  <2>7. CASE op = "suspend" /\ req[t].ok
    <3>1. \/ Now(t) = "halt" /\ Now(t)' = "offline"
          \/ Now(t) = "offline" /\ Now(t)' = "yamlSim" /\ Down(t)
          \/ /\ Now(t) = "yamlSim" /\ Now(t)' = "listSim" /\ Down(t)
             /\ row[t].live = "not_requested"
          \/ /\ Now(t) = "listSim" /\ Now(t)' = "end" /\ Down(t)
             /\ files[t].yaml = "sim" /\ row[t].live = "not_requested"
      <4>1. \/ Now(t) = "halt" /\ Now(t)' = "offline"
            \/ Now(t) = "offline" /\ Now(t)' = "yamlSim"
            \/ Now(t) = "yamlSim" /\ Now(t)' = "listSim"
            \/ Now(t) = "listSim" /\ Now(t)' = "end"
        BY <2>1, <2>7 DEF Flow
      <4> QED BY <2>7, <4>1 DEF Off, op
    <3>2. Down(t)'
      BY <2>2, <3>1 DEF UnitSteps
    <3> QED BY <1>0, <1>1, <2>1, <2>3, <2>4, <2>a, <2>7, <3>1, <3>2 DEF Off
  <2>8. CASE op = "remove" /\ req[t].ok
    <3>1. Now(t)' = "end" => Now(t) = "tombstone" /\ Down(t)
      BY <2>1, <2>8 DEF Flow, Removal
    <3>2. Now(t)' = "end" => Down(t)'
      BY <2>2, <3>1 DEF UnitSteps
    <3> QED BY <1>0, <1>1, <2>1, <2>8, <3>2 DEF Off
  <2>9. CASE op \notin {"stop", "deactivate", "suspend", "remove"} \/ ~req[t].ok
    BY <1>0, <1>1, <2>1, <2>9 DEF Off
  <2> QED BY <2>5, <2>6, <2>7, <2>8, <2>9
<1> QED BY <1>2, <1>3 DEF Moves, Outcome

LEMMA OffBegins ==
  ASSUME NEW t \in Tenants, NEW o \in Ops, Begins(t, o), SetUp(t), Removal(t), Off(t)
  PROVE  Off(t)'
<1>0. o /= "none" /\ Nothing.op = "none" /\ Idle.op = "none"
  BY DEF Ops, OwnerOps, AdminOps, Nothing, Idle
<1>1. (Absent(t)' <=> Absent(t)) /\ (Down(t)' <=> Down(t))
  BY DEF Begins, Absent, Down
<1>2. CASE Now(t)' = "end"
  <2>1. o = "suspend" /\ Absent(t)
    BY <1>2 DEF Begins, Entry, Absent, Ops, OwnerOps, AdminOps
  <2>2. Down(t) /\ files[t] = Sim /\ row[t].live = "not_requested"
    BY <2>1 DEF Removal, Off
  <2>3. req'[t] = Idle /\ files'[t] = files[t] /\ row'[t] = row[t]
    BY <1>2 DEF Begins
  <2> QED BY <1>0, <1>1, <2>2, <2>3 DEF Off
<1>3. CASE Now(t)' /= "end"
  <2>1. /\ req'[t].op = o /\ last'[t].op = "none"
        /\ files'[t] = files[t] /\ row'[t] = row[t]
    BY <1>0, <1>3 DEF Begins
  <2>2. o \in {"stop", "deactivate"} => Now(t)' = "halt"
    BY DEF Begins, Entry
  <2>3. o = "suspend" => Now(t)' = "halt"
    BY <1>3 DEF Begins, Entry
  <2> QED BY <1>1, <2>1, <2>2, <2>3 DEF Off
<1> QED BY <1>2, <1>3

LEMMA OffRuns == ASSUME NEW t, Runs(t), Off(t) PROVE Off(t)'
<1>1. Now(t)' = Now(t)
  BY DEF Runs, Now, First
<1> QED BY <1>1 DEF Runs, Off, Absent, Down

LEMMA OffForgets == ASSUME NEW t, Forgets(t), Off(t) PROVE Off(t)'
BY DEF Forgets, Off, Idle, Absent, Down

-----------------------------------------------------------------------------
(* Approvals.                                                               *)

\* A row that waits for approval has an approval that waits, and so has an
\* activation that is about to approve.
Asked(t) ==
  /\ row[t].live = "requested" => Pending(t)
  /\ req[t].op = "activate" =>
       /\ Now(t) \in {"reserve", "request"} => row[t].live = req[t].seen.live
       /\ Now(t) = "approve" => Pending(t)

LEMMA AskedSame == ASSUME NEW t, Same(t), Asked(t) PROVE Asked(t)'
<1>1. Now(t)' = Now(t)
  BY DEF Same, Now, First
<1> QED BY <1>1 DEF Same, Asked, Pending

LEMMA AskedMoves ==
  ASSUME NEW t \in Tenants, Moves(t), Asked(t)
  PROVE  Asked(t)'
<1>1. approvals'[t] = approvals[t] => (Pending(t)' <=> Pending(t))
  BY DEF Pending
<1>2. Now(t) = "request" => /\ row'[t].live = "requested" => Pending(t)'
                            /\ req[t].op = "activate" => Pending(t)'
  <2>1. CASE row'[t].live = "requested" /\ Pending(t)'
    BY <2>1
  <2>2. CASE /\ req[t].op = "activate" /\ req[t].seen.live = "requested"
             /\ row'[t] = row[t] /\ approvals'[t] = approvals[t]
    BY <1>1, <2>2 DEF Asked
  <2> QED BY <2>1, <2>2 DEF Moves, LiveEffect
<1>3. row'[t].live = "requested" => Pending(t)'
  <2>1. CASE Now(t) = "request"
    BY <1>2, <2>1
  <2>2. CASE Now(t) \in {"approve", "reset", "failed"}
    BY <2>2 DEF Moves, LiveEffect, Asked
  <2>3. CASE Now(t) \notin {"request", "approve", "reset", "failed"}
    <3>1. approvals'[t] = approvals[t]
      BY <2>3 DEF Moves
    <3>2. row'[t].live = "requested" => row[t].live = "requested"
      BY <2>3 DEF Moves, LiveEffect
    <3> QED BY <1>1, <3>1, <3>2 DEF Asked
  <2> QED BY <2>1, <2>2, <2>3
<1>4. ASSUME req'[t].op = "activate"
      PROVE  /\ Now(t)' \in {"reserve", "request"} => row'[t].live = req'[t].seen.live
             /\ Now(t)' = "approve" => Pending(t)'
  <2>1. CASE Goes(t)
    <3>1. req[t].op = "activate" /\ (Now(t)' /= "end" => req'[t].seen = req[t].seen)
      BY <1>4, <2>1 DEF Goes, Leaves, Idle
    <3>2. /\ Now(t)' = "request" => Now(t) = "reserve"
          /\ Now(t)' = "approve" => Now(t) = "request"
          /\ Now(t)' /= "reserve"
      BY <2>1, <3>1 DEF Goes, Flow
    <3>3. Now(t) = "reserve" => row'[t].live = row[t].live
      BY DEF Moves, LiveEffect
    <3> QED BY <1>2, <3>1, <3>2, <3>3 DEF Asked
  <2>2. CASE Backs(t)
    BY <2>2, RescueInto DEF Backs
  <2> QED BY <2>1, <2>2 DEF Moves, Outcome
<1> QED BY <1>3, <1>4 DEF Asked

LEMMA AskedBegins ==
  ASSUME NEW t \in Tenants, NEW o \in Ops, Begins(t, o), Asked(t)
  PROVE  Asked(t)'
<1>1. Pending(t)' <=> Pending(t)
  BY DEF Begins, Pending
<1>2. Now(t)' /= "approve"
  BY DEF Begins, Entry
<1>3. Now(t)' /= "end" => req'[t].seen = row[t]
  BY DEF Begins
<1> QED BY <1>1, <1>2, <1>3 DEF Begins, Asked

LEMMA AskedRuns == ASSUME NEW t, Runs(t), Asked(t) PROVE Asked(t)'
<1>1. Now(t)' = Now(t)
  BY DEF Runs, Now, First
<1> QED BY <1>1 DEF Runs, Asked, Pending

LEMMA AskedForgets == ASSUME NEW t, Forgets(t), Asked(t) PROVE Asked(t)'
BY DEF Forgets, Asked, Idle, Pending

-----------------------------------------------------------------------------
(* Engines.                                                                 *)

Holds(t) == Counted(row[t])

\* Before the first fault, a unit that is not down belongs to a row that holds
\* a slot: a step that starts the unit comes after the slot was taken, a step
\* that gives the slot back after the unit was stopped.
Clean(t) ==
  faults = MaxFaults =>
    /\ ~Down(t) => Holds(t)
    /\ Now(t) \in {"boot", "reboot", "running", "live"} => Holds(t)
    /\ Now(t) \in {"stopped", "offline", "error"} => Down(t)
    /\ req[t].op = "activate" =>
         /\ Now(t) \in {"request", "approve", "yamlLive", "listLive"} => Holds(t)
         /\ Now(t) \notin {"yamlSim", "listSim", "failed", "error"}
    /\ req[t].op = "approve" =>
         /\ Now(t) \in {"approve", "yamlLive", "listLive"} => Holds(t)
         /\ Now(t) \in {"yamlSim", "listSim", "failed"} => Down(t)
    /\ req[t].op = "deactivate" /\ Now(t) \in {"yamlSim", "listSim"} => Down(t)
    /\ req[t].op = "connect" =>
         /\ Now(t) /= "storeKeys" => row[t].status = req[t].seen.status
         /\ (Enabled(req[t].seen) /\ Now(t) /= "storeKeys") =>
              (Now(t) = "halt" \/ Down(t))

LEMMA CleanSame ==
  ASSUME NEW t, Same(t), Clean(t), faults' = MaxFaults => faults = MaxFaults
  PROVE  Clean(t)'
<1>1. Now(t)' = Now(t)
  BY DEF Same, Now, First
<1> QED BY <1>1 DEF Same, Clean, Holds, Down

LEMMA CleanMoves ==
  ASSUME TypeOK, NEW t \in Tenants, Moves(t), SetUp(t), Removal(t), Asked(t),
         Clean(t), faults <= MaxFaults
  PROVE  Clean(t)'
<1> SUFFICES ASSUME faults' = MaxFaults PROVE Clean(t)'
  BY DEF Clean
<1>0. faults \in Nat /\ MaxFaults \in Nat
  BY NumbersAssumption DEF TypeOK
<1>1. /\ faults' = faults /\ faults = MaxFaults
      /\ \/ Goes(t) /\ (Now(t) = "reserve" => Holds(t)')
         \/ /\ Backs(t) /\ Now(t) \in {"reserve", "approve", "probe"}
            /\ Now(t) = "approve" => ~Pending(t)
  <2>1. /\ faults' = faults /\ faults = MaxFaults
        /\ Goes(t) \/ (Backs(t) /\ Now(t) \in {"reserve", "approve", "probe"})
    BY <1>0 DEF Moves, Outcome
  <2>2. CASE Now(t) = "reserve"
    BY <2>1, <2>2 DEF Moves, StatusEffect, Holds, Counted, Active
  <2>3. CASE Now(t) = "approve"
    BY <2>1, <2>3 DEF Moves, LiveEffect
  <2> QED BY <2>1, <2>2, <2>3
<1>2. /\ Now(t) = "halt" => Down(t)'
      /\ Now(t) \notin UnitSteps => (Down(t)' <=> Down(t))
      /\ Now(t) \notin {"boot", "reboot"} /\ Down(t) => Down(t)'
  BY <1>1 DEF Moves, UnitEffect, Down, UnitSteps
\* A slot is given up only while the unit is down.
<1>3. Holds(t) /\ ~Down(t)' => Holds(t)'
  <2> SUFFICES ASSUME Holds(t), ~Down(t)' PROVE Holds(t)'
    OBVIOUS
  <2>1. Now(t) \notin {"error", "stopped", "offline", "tombstone"}
    BY <1>1, <1>2 DEF Clean, Removal
  <2>2. Now(t) = "connected" => /\ ~Enabled(req[t].seen)
                                /\ req[t].seen.status = row[t].status
    BY <1>1, <1>2, FlowFrom DEF Clean, Moves
  <2> QED BY <2>1, <2>2 DEF Moves, StatusEffect, RowSteps, Holds, Counted, Active
<1>4. ~Down(t)' => Holds(t)'
  <2>1. CASE Now(t) \in {"boot", "reboot"}
    BY <1>1, <1>3, <2>1 DEF Clean
  <2>2. CASE Now(t) \notin {"boot", "reboot"}
    BY <1>1, <1>2, <1>3, <2>2 DEF Clean
  <2> QED BY <2>1, <2>2
<1>5. Now(t) \notin RowSteps \cup {"reserve", "ensure", "tombstone"} =>
        row'[t].status = row[t].status /\ (Holds(t)' <=> Holds(t))
  BY DEF Moves, StatusEffect, Holds, Counted, Active
<1>6. CASE Backs(t) /\ Now(t) \in {"reserve", "approve", "probe"}
           /\ (Now(t) = "approve" => ~Pending(t))
  <2>1. Now(t)' = "end" \/ (req[t].op = "approve" /\ Now(t)' = "halt")
    <3>1. CASE Now(t) = "reserve"
      <4>1. req[t].op \in {"start", "restart", "activate", "approve"}
        BY <3>1, FlowFrom DEF Moves
      <4> QED BY <1>6, <3>1, <4>1 DEF Backs, RescueEntry
    <3>2. CASE Now(t) = "approve"
      <4>1. req[t].op = "approve"
        BY <1>6, <3>2, FlowFrom DEF Moves, Asked
      <4> QED BY <1>6, <3>2, <4>1 DEF Backs, RescueEntry
    <3>3. CASE Now(t) = "probe"
      <4>1. req[t].op = "test"
        BY <3>3, FlowFrom DEF Moves
      <4> QED BY <1>6, <3>3, <4>1 DEF Backs, RescueEntry
    <3> QED BY <1>6, <3>1, <3>2, <3>3
  <2>2. /\ Now(t)' = "end" => req'[t].op = "none"
        /\ Now(t)' /= "end" => req'[t].op = req[t].op
    BY <1>6 DEF Backs, Leaves, Idle
  <2> QED BY <1>4, <2>1, <2>2 DEF Clean
<1>7. CASE Goes(t) /\ (Now(t) = "reserve" => Holds(t)')
  <2> DEFINE op == req[t].op
  <2>1. /\ Now(t)' = "end" => req'[t].op = "none"
        /\ Now(t)' /= "end" => req'[t].op = op /\ req'[t].seen = req[t].seen
        /\ <<Now(t), Now(t)'>> \in Flow(op, req[t].seen)
    BY <1>7 DEF Goes, Leaves, Idle
  <2>2. Now(t)' \in {"boot", "reboot", "running", "live"} => Holds(t)'
    <3>1. \/ Now(t)' \notin {"boot", "reboot", "running", "live"}
          \/ Now(t) = "reserve"
          \/ Now(t) \in {"boot", "reboot"}
          \/ op \in {"activate", "approve"} /\ Now(t) = "listLive"
      BY <2>1, FlowInto
    <3> QED BY <1>1, <1>5, <1>7, <3>1 DEF Clean, RowSteps
  <2>3. Now(t)' \in {"stopped", "offline", "error"} => Down(t)'
    <3>1. \/ Now(t)' \notin {"stopped", "offline", "error"}
          \/ Now(t) = "halt"
          \/ op = "deactivate" /\ Now(t) = "listSim"
          \/ op \in {"activate", "approve"} /\ Now(t) = "failed"
      BY <2>1, FlowInto
    <3> QED BY <1>1, <1>2, <3>1 DEF Clean
  <2>4. ASSUME req'[t].op = "activate"
        PROVE  /\ Now(t)' \in {"request", "approve", "yamlLive", "listLive"} => Holds(t)'
               /\ Now(t)' \notin {"yamlSim", "listSim", "failed", "error"}
    <3>1. op = "activate"
      BY <2>1, <2>4
    <3>2. /\ Now(t)' = "request" => Now(t) = "reserve"
          /\ Now(t)' = "approve" => Now(t) = "request"
          /\ Now(t)' = "yamlLive" => Now(t) = "approve"
          /\ Now(t)' = "listLive" => Now(t) = "yamlLive"
          /\ Now(t)' \in {"yamlSim", "listSim", "failed", "error"} =>
               Now(t) \in {"yamlSim", "listSim", "failed", "error"}
      BY <2>1, <3>1 DEF Flow
    <3> QED BY <1>1, <1>5, <1>7, <3>1, <3>2 DEF Clean, RowSteps
  <2>5. ASSUME req'[t].op = "approve"
        PROVE  /\ Now(t)' \in {"approve", "yamlLive", "listLive"} => Holds(t)'
               /\ Now(t)' \in {"yamlSim", "listSim", "failed"} => Down(t)'
    <3>1. op = "approve"
      BY <2>1, <2>5
    <3>2. /\ Now(t)' = "approve" => Now(t) = "reserve"
          /\ Now(t)' = "yamlLive" => Now(t) = "approve"
          /\ Now(t)' = "listLive" => Now(t) = "yamlLive"
          /\ Now(t)' = "yamlSim" => Now(t) = "halt"
          /\ Now(t)' = "listSim" => Now(t) = "yamlSim"
          /\ Now(t)' = "failed" => Now(t) = "listSim"
      BY <2>1, <3>1 DEF Flow
    <3> QED BY <1>1, <1>2, <1>5, <1>7, <3>1, <3>2 DEF Clean, RowSteps
  <2>6. ASSUME req'[t].op = "deactivate"
        PROVE  Now(t)' \in {"yamlSim", "listSim"} => Down(t)'
    <3>1. op = "deactivate"
      BY <2>1, <2>6
    <3>2. /\ Now(t)' = "yamlSim" => Now(t) = "halt"
          /\ Now(t)' = "listSim" => Now(t) = "yamlSim"
      BY <2>1, <3>1 DEF Flow
    <3> QED BY <1>1, <1>2, <3>1, <3>2 DEF Clean
  <2>7. ASSUME req'[t].op = "connect"
        PROVE  /\ Now(t)' /= "storeKeys" => row'[t].status = req'[t].seen.status
               /\ Enabled(req'[t].seen) /\ Now(t)' /= "storeKeys" =>
                    Now(t)' = "halt" \/ Down(t)'
    <3>1. op = "connect" /\ Now(t)' /= "end" /\ req'[t].seen = req[t].seen
      BY <2>1, <2>7
    <3>2. \/ Now(t) \in {"halt", "yamlSim", "listSim", "reset"}
          \/ Now(t)' = "storeKeys"
      BY <2>1, <3>1 DEF Flow
    <3> QED BY <1>1, <1>2, <1>5, <3>1, <3>2 DEF Clean, RowSteps
  <2> QED BY <1>4, <2>2, <2>3, <2>4, <2>5, <2>6, <2>7 DEF Clean
<1> QED BY <1>1, <1>6, <1>7

LEMMA CleanBegins ==
  ASSUME NEW t \in Tenants, NEW o \in Ops, Begins(t, o), Clean(t)
  PROVE  Clean(t)'
<1>1. /\ Holds(t)' <=> Holds(t)
      /\ Down(t)' <=> Down(t)
      /\ row'[t] = row[t]
  BY DEF Begins, Holds, Down
<1>2. /\ Now(t)' = "reboot" => Holds(t)
      /\ Now(t)' \notin {"boot", "running", "live", "stopped", "offline", "error", "failed"}
  BY DEF Begins, Entry, Holds
<1>3. /\ Now(t)' = "end" => req'[t].op = "none"
      /\ Now(t)' /= "end" => req'[t].op = o /\ req'[t].seen = row[t]
      /\ faults' = faults
  BY DEF Begins, Idle
<1>4. /\ o \in {"activate", "approve"} => Now(t)' = "reserve"
      /\ o = "deactivate" => Now(t)' = "halt"
      /\ o = "connect" /\ Enabled(row[t]) => Now(t)' = "halt"
  BY DEF Begins, Entry
<1> QED BY <1>1, <1>2, <1>3, <1>4 DEF Clean

LEMMA CleanRuns == ASSUME NEW t, Runs(t), Clean(t) PROVE Clean(t)'
<1>1. Now(t)' = Now(t)
  BY DEF Runs, Now, First
<1> QED BY <1>1 DEF Runs, Clean, Holds, Down

LEMMA CleanForgets == ASSUME NEW t, Forgets(t), Clean(t) PROVE Clean(t)'
BY DEF Forgets, Clean, Idle, Holds, Down

-----------------------------------------------------------------------------
(* Failures.                                                                *)

Undoing == {"yamlSim", "listSim", "failed", "error"}

\* A fault has sent a failing activation or promotion to its rescue, and no
\* other one has hit the rescue as long as there was only one.
Fails(t) ==
  /\ req[t].op = "activate" =>
       /\ Now(t) = "reserve" => files[t] = req[t].copy
       /\ Now(t) \in Undoing => faults < MaxFaults
       /\ ~req[t].ok => Now(t) \in Undoing
       /\ OneFault /\ Now(t) = "listSim" => files[t].yaml = "sim"
       /\ OneFault /\ Now(t) \in {"failed", "error"} => files[t] = Sim
  /\ req[t].op = "promote" =>
       /\ ~req[t].ok => faults < MaxFaults /\ Now(t) \notin {"halt", "stopped", "reset"}
       /\ Now(t) \in {"restoreYaml", "restoreList"} => ~req[t].ok
       /\ Now(t) = "halt" => LiveEnabled(row[t])
       /\ OneFault /\ ~req[t].ok =>
            /\ Now(t) = "restoreList" => files[t].yaml = req[t].copy.yaml
            /\ Now(t) = "listSim" => files[t].yaml = "sim"
            /\ Now(t) = "pool" => files[t] = Sim

\* What FailsSafe says of one tenant.
Undone(t) ==
  /\ last'[t] /= last[t]
  /\ last'[t].op \in {"activate", "promote"} /\ ~last'[t].ok
  /\ OneFault'
  => \/ files'[t] = Sim \/ LiveEnabled(row'[t])
     \/ files'[t] = req[t].copy /\ ~LiveEnabled(req[t].seen)

LEMMA FailsSame ==
  ASSUME TypeOK, NEW t, Same(t), Fails(t), faults' \in Nat, faults' <= faults
  PROVE  Fails(t)' /\ Undone(t)
<1>0. Now(t)' = Now(t)
  BY DEF Same, Now, First
<1>1. /\ OneFault' => OneFault
      /\ faults < MaxFaults => faults' < MaxFaults
  BY NumbersAssumption DEF OneFault, TypeOK
<1> QED BY <1>0, <1>1 DEF Same, Fails, Undone

LEMMA FailsMoves ==
  ASSUME TypeOK, TypeOK', NEW t \in Tenants, Moves(t), Asked(t), Fails(t),
         faults <= MaxFaults
  PROVE  Fails(t)' /\ Undone(t)
<1> DEFINE op == req[t].op
<1>0. /\ faults \in Nat /\ MaxFaults \in Nat
      /\ files[t] \in Files /\ files'[t] \in Files /\ req[t].copy \in Files
      /\ req[t].ok \in BOOLEAN /\ Nothing.op = "none" /\ Idle.op = "none"
  BY NumbersAssumption DEF TypeOK, Request, Nothing, Idle
\* What a write that is carried out leaves in the files.
<1>1. ASSUME faults' = faults
      PROVE  /\ Now(t) = "yamlSim" => files'[t].yaml = "sim"
             /\ Now(t) = "listSim" => files'[t].yaml = files[t].yaml /\ files'[t].list = "sim"
             /\ Now(t) = "restoreYaml" => files'[t].yaml = req[t].copy.yaml
             /\ Now(t) = "restoreList" => /\ files'[t].yaml = files[t].yaml
                                         /\ files'[t].list = req[t].copy.list
             /\ Now(t) \notin FileSteps => files'[t] = files[t]
  <2>1. /\ Now(t) = "yamlSim" => files'[t] = [files[t] EXCEPT !.yaml = "sim"]
        /\ Now(t) = "listSim" => files'[t] = [files[t] EXCEPT !.list = "sim"]
        /\ Now(t) = "restoreYaml" => files'[t] = [files[t] EXCEPT !.yaml = req[t].copy.yaml]
        /\ Now(t) = "restoreList" => files'[t] = [files[t] EXCEPT !.list = req[t].copy.list]
        /\ Now(t) \notin FileSteps => files'[t] = files[t]
    BY <1>1 DEF Moves, DiskEffect, FileSteps
  <2> QED BY <1>0, <2>1 DEF Files
<1>2. /\ files'[t].yaml = "sim" /\ files'[t].list = "sim" => files'[t] = Sim
      /\ files'[t].yaml = req[t].copy.yaml /\ files'[t].list = req[t].copy.list
           => files'[t] = req[t].copy
  BY <1>0 DEF Files, Sim
<1>3. Now(t) \notin {"offline", "reset", "live", "failed", "request", "approve",
                    "ensure", "tombstone"} => row'[t].live = row[t].live
  BY DEF Moves, LiveEffect
<1>4. CASE Goes(t) /\ faults' = faults
  <2>0. /\ Now(t)' = "end" => /\ req'[t].op = "none"
                             /\ last'[t].op = op /\ last'[t].ok = req[t].ok
        /\ Now(t)' /= "end" => /\ req'[t].op = op /\ req'[t].ok = req[t].ok
                              /\ req'[t].seen = req[t].seen
                              /\ req'[t].copy = req[t].copy
                              /\ last'[t].op = "none"
        /\ <<Now(t), Now(t)'>> \in Flow(op, req[t].seen)
        /\ OneFault' <=> OneFault
    BY <1>0, <1>4 DEF Goes, Leaves, OneFault
  <2>1. CASE op = "activate"
    <3>1. /\ Now(t)' /= "reserve" /\ Now(t)' /= "yamlSim"
          /\ Now(t)' = "listSim" => Now(t) = "yamlSim"
          /\ Now(t)' = "failed" => Now(t) = "listSim"
          /\ Now(t)' = "error" => Now(t) = "failed"
          /\ Now(t)' = "end" => Now(t) \in {"live", "error"}
          /\ Now(t) \in {"yamlSim", "listSim", "failed"} => Now(t)' \in Undoing
          /\ Now(t) = "error" => Now(t)' = "end"
      BY <2>0, <2>1 DEF Flow, Undoing
    <3>2. Undone(t)
      BY <1>1, <1>4, <2>0, <2>1, <3>1 DEF Undone, Fails, FileSteps, Undoing
    <3>3. Fails(t)'
      BY <1>1, <1>2, <1>4, <2>0, <2>1, <3>1 DEF Fails, FileSteps, Undoing
    <3> QED BY <3>2, <3>3
  <2>2. CASE op = "promote"
    <3>1. /\ Now(t)' \notin {"halt", "restoreYaml"}
          /\ Now(t)' = "stopped" => Now(t) = "halt"
          /\ Now(t)' = "reset" => Now(t) = "stopped"
          /\ Now(t)' = "restoreList" => Now(t) = "restoreYaml"
          /\ Now(t)' = "listSim" => Now(t) = "yamlSim"
          /\ Now(t)' = "pool" => Now(t) = "listSim"
          /\ Now(t)' = "end" =>
               \/ Now(t) \in {"pool", "listSim"}
               \/ Now(t) = "restoreList" /\ ~LiveEnabled(req[t].seen)
      BY <2>0, <2>2 DEF Flow
    <3>2. Undone(t)
      BY <1>1, <1>2, <1>4, <2>0, <2>2, <3>1 DEF Undone, Fails, FileSteps
    <3>3. Fails(t)'
      BY <1>1, <1>2, <1>4, <2>0, <2>2, <3>1 DEF Fails, FileSteps
    <3> QED BY <3>2, <3>3
  <2>3. CASE op \notin {"activate", "promote"}
    BY <2>0, <2>3 DEF Fails, Undone
  <2> QED BY <2>1, <2>2, <2>3
<1>5. CASE Backs(t) /\ faults' = faults
           /\ Now(t) \in {"reserve", "approve", "probe"}
           /\ (Now(t) = "approve" => ~Pending(t))
  <2>0. /\ Now(t)' = "end" => /\ req'[t].op = "none"
                             /\ last'[t].op = op /\ ~last'[t].ok
        /\ Now(t)' /= "end" => req'[t].op = op /\ last'[t].op = "none"
        /\ Now(t)' = RescueEntry(req[t], Now(t))
    BY <1>0, <1>5 DEF Backs, Leaves
  <2>1. CASE op = "activate"
    <3>1. Now(t) = "reserve"
      BY <1>5, <2>1, FlowFrom DEF Moves, Asked
    <3>2. Now(t)' = "end"
      BY <2>0, <2>1, <3>1 DEF RescueEntry
    <3>3. files'[t] = req[t].copy
      BY <1>1, <1>5, <2>1, <3>1 DEF Fails, FileSteps
    <3>4. row'[t].live = req[t].seen.live
      BY <1>3, <2>1, <3>1 DEF Asked
    <3> QED BY <2>0, <3>2, <3>3, <3>4 DEF Fails, Undone, LiveEnabled
  <2>2. op /= "promote"
    BY <1>5, FlowFrom DEF Moves
  <2>3. CASE op /= "activate"
    BY <2>0, <2>2, <2>3 DEF Fails, Undone
  <2> QED BY <2>1, <2>3
<1>6. CASE /\ Backs(t) /\ faults > 0 /\ faults' = faults - 1
           /\ Now(t) \in UnitSteps \cup FileSteps \cup {"pool", "provision"}
  <2>0. /\ Now(t)' = "end" => /\ req'[t].op = "none"
                             /\ last'[t].op = op /\ ~last'[t].ok
        /\ Now(t)' /= "end" => req'[t].op = op /\ ~req'[t].ok /\ last'[t].op = "none"
        /\ Now(t)' = RescueEntry(req[t], Now(t))
    BY <1>0, <1>6 DEF Backs, Leaves
  <2>1. /\ faults' < MaxFaults
        /\ faults < MaxFaults => ~OneFault'
    BY <1>0, <1>6 DEF OneFault
  <2>2. CASE op = "activate"
    <3>1. IF Now(t) \in {"yamlSim", "listSim"} THEN Now(t)' = "failed"
          ELSE Now(t)' = "yamlSim"
      BY <1>6, <2>0, <2>2 DEF RescueEntry, UnitSteps, FileSteps
    <3>2. Now(t)' = "failed" => faults < MaxFaults
      BY <2>2, <3>1 DEF Fails, Undoing
    <3> QED BY <2>0, <2>1, <2>2, <3>1, <3>2 DEF Fails, Undone, Undoing
  <2>3. CASE op = "promote"
    <3>1. CASE Now(t) = "halt"
      <4>1. Now(t)' = "end"
        BY <2>0, <2>3, <3>1 DEF RescueEntry
      <4>2. LiveEnabled(row'[t])
        BY <1>3, <2>3, <3>1 DEF Fails, LiveEnabled
      <4> QED BY <2>0, <4>1, <4>2 DEF Fails, Undone
    <3>2. CASE Now(t) /= "halt" /\ req[t].ok
      <4>1. Now(t)' = "restoreYaml"
        BY <2>0, <2>3, <3>2 DEF RescueEntry
      <4> QED BY <2>0, <2>1, <2>3, <4>1 DEF Fails, Undone
    <3>3. CASE Now(t) /= "halt" /\ ~req[t].ok
      <4>1. Now(t)' \in {"yamlSim", "end"}
        BY <2>0, <2>3, <3>3 DEF RescueEntry
      <4>2. ~OneFault'
        BY <2>1, <2>3, <3>3 DEF Fails
      <4> QED BY <2>0, <2>1, <2>3, <4>1, <4>2 DEF Fails, Undone
    <3> QED BY <3>1, <3>2, <3>3
  <2>4. CASE op \notin {"activate", "promote"}
    BY <2>0, <2>4 DEF Fails, Undone
  <2> QED BY <2>2, <2>3, <2>4
<1>7. Now(t) = "approve" => Goes(t) \/ (Backs(t) /\ ~Pending(t))
  BY DEF Moves, LiveEffect
<1> QED BY <1>4, <1>5, <1>6, <1>7 DEF Moves, Outcome

LEMMA FailsBegins ==
  ASSUME TypeOK, NEW t \in Tenants, NEW o \in Ops, Begins(t, o), Fails(t)
  PROVE  Fails(t)' /\ Undone(t)
<1>1. /\ Now(t)' = "end" => req'[t].op = "none" /\ last'[t].ok
      /\ Now(t)' /= "end" => /\ req'[t].op = o /\ req'[t].ok
                            /\ req'[t].copy = files[t] /\ last'[t].ok
      /\ files'[t] = files[t] /\ row'[t] = row[t]
  BY DEF Begins, Idle, Nothing
<1>2. o = "activate" => Now(t)' = "reserve"
  BY DEF Begins, Entry
<1>3. o = "promote" => \/ Now(t)' = "halt" /\ LiveEnabled(row[t])
                       \/ Now(t)' = "yamlSim"
  BY DEF Begins, Entry
<1> QED BY <1>1, <1>2, <1>3 DEF Fails, Undone, Undoing

LEMMA FailsRuns == ASSUME NEW t, Runs(t), Fails(t) PROVE Fails(t)' /\ Undone(t)
<1>1. Now(t)' = Now(t) /\ (OneFault' <=> OneFault)
  BY DEF Runs, Now, First, OneFault
<1> QED BY <1>1 DEF Runs, Fails, Undone

LEMMA FailsForgets == ASSUME NEW t, Forgets(t), Fails(t) PROVE Fails(t)' /\ Undone(t)
BY DEF Forgets, Fails, Idle, Undone

-----------------------------------------------------------------------------
(* The invariant of one tenant, and what follows from it.                   *)

TenantInv(t) ==
  /\ Sole(t) /\ Planned(t) /\ SetUp(t) /\ Removal(t) /\ Keys(t)
  /\ Off(t) /\ Asked(t) /\ Clean(t) /\ Fails(t)

\* It holds of a tenant as long as its requests do not overlap.
SafetyInv ==
  TypeOK /\ faults <= MaxFaults /\ \A t \in Sequential : TenantInv(t)

LEMMA SafetyInit == Init => SafetyInv
<1> SUFFICES ASSUME Init PROVE SafetyInv
  OBVIOUS
<1>1. TypeOK
  BY InitType
<1>2. faults = MaxFaults /\ MaxFaults \in Nat
  BY NumbersAssumption DEF Init
<1>3. ASSUME NEW t \in Tenants PROVE TenantInv(t)
  <2>1. /\ req[t] = Idle /\ parked[t] = Idle /\ last[t] = Nothing /\ account[t] = "active"
        /\ files[t] = Sim /\ unit[t].state = "down" /\ workspace[t] = session[t]
        /\ \/ /\ session[t] /\ row[t] = [status |-> "queued", live |-> "not_requested"]
              /\ conn[t] = [status |-> "tested", proved |-> TRUE]
           \/ ~session[t] /\ row[t] = NoRow /\ conn[t] = NoKeys
    BY DEF Init
  <2>2. /\ Idle.todo = <<>> /\ Idle.op = "none" /\ Idle.ok /\ ~Idle.rekeyed
        /\ Nothing.op = "none" /\ NoRow.status = "absent" /\ NoRow.live = "not_requested"
        /\ NoKeys.status = "none" /\ Sim.yaml = "sim"
    BY DEF Idle, Nothing, NoRow, NoKeys, Sim
  <2>3. Now(t) = "end"
    BY <2>1, <2>2 DEF Now, First
  <2>4. Planned(t) /\ Sole(t)
    BY <2>1, <2>2, <2>3, Walks DEF Planned, Sole
  <2>5. SetUp(t) /\ Removal(t)
    BY <2>1, <2>2, <2>3 DEF SetUp, Removal, Ready, Absent, Down, Stored
  <2>6. Keys(t)
    BY <2>1, <2>2, <2>3 DEF Keys, Proved, Stored
  <2>7. Off(t) /\ Asked(t)
    BY <2>1, <2>2, <2>3 DEF Off, Asked, Absent, Down
  <2>8. Clean(t) /\ Fails(t)
    BY <2>1, <2>2, <2>3 DEF Clean, Fails, Down
  <2> QED BY <2>4, <2>5, <2>6, <2>7, <2>8 DEF TenantInv
<1> QED BY <1>1, <1>2, <1>3 DEF SafetyInv, Sequential

LEMMA SameInv ==
  ASSUME TypeOK, NEW t, Same(t), TenantInv(t), faults <= MaxFaults,
         faults' \in Nat, faults' <= faults
  PROVE  TenantInv(t)' /\ Undone(t)
<1>1. Planned(t)'
  BY DEF Same, TenantInv, Planned
<1>2. faults' = MaxFaults => faults = MaxFaults
  BY NumbersAssumption DEF TypeOK
<1> QED BY <1>1, <1>2, SoleSame, SetUpSame, RemovalSame, KeysSame, OffSame, AskedSame, CleanSame,
           FailsSame DEF TenantInv

LEMMA MovesInv ==
  ASSUME TypeOK, TypeOK', NEW t \in Tenants, Moves(t), Planned(t)', TenantInv(t),
         faults <= MaxFaults
  PROVE  /\ TenantInv(t)' /\ Undone(t)
         /\ faults' \in Nat /\ faults' <= faults
<1>1. faults' \in Nat /\ faults' <= faults
  BY DEF Moves, Outcome, TypeOK
<1> QED BY <1>1, SoleMoves, SetUpMoves, RemovalMoves, KeysMoves, OffMoves, AskedMoves, CleanMoves,
           FailsMoves DEF TenantInv

LEMMA BeginsInv ==
  ASSUME TypeOK, NEW t \in Tenants, NEW o \in Ops, Begins(t, o), Planned(t)', TenantInv(t)
  PROVE  TenantInv(t)' /\ Undone(t)
BY SoleBegins, SetUpBegins, RemovalBegins, KeysBegins, OffBegins, AskedBegins, CleanBegins,
   FailsBegins DEF TenantInv

LEMMA RunsInv ==
  ASSUME NEW t, Runs(t), TenantInv(t)
  PROVE  TenantInv(t)' /\ Undone(t)
<1>1. Planned(t)'
  BY DEF Runs, TenantInv, Planned
<1> QED BY <1>1, SoleRuns, SetUpRuns, RemovalRuns, KeysRuns, OffRuns, AskedRuns, CleanRuns,
           FailsRuns DEF TenantInv

LEMMA ForgetsInv ==
  ASSUME NEW t, Forgets(t), Planned(t)', TenantInv(t)
  PROVE  TenantInv(t)' /\ Undone(t)
BY SoleForgets, SetUpForgets, RemovalForgets, KeysForgets, OffForgets, AskedForgets, CleanForgets,
   FailsForgets DEF TenantInv

\* A step of tenant t has to show something of t, unless its requests overlap.
LEMMA OneMoves ==
  ASSUME SafetyInv, TypeOK', NEW t \in Tenants,
         \A u \in Tenants \ {t} : Same(u),
         faults' <= faults, overtaken \subseteq overtaken',
         t \notin overtaken' => TenantInv(t)',
         t \notin overtaken => Undone(t)
  PROVE  SafetyInv' /\ \A u \in Sequential : Undone(u)
<1>1. faults' \in Nat /\ faults' <= MaxFaults
  <2>1. faults \in Nat /\ faults' \in Nat /\ faults <= MaxFaults /\ MaxFaults \in Nat
    BY NumbersAssumption DEF SafetyInv, TypeOK
  <2> QED BY <2>1
<1>2. ASSUME NEW u \in Sequential, u /= t PROVE TenantInv(u)' /\ Undone(u)
  BY <1>1, <1>2, SameInv DEF SafetyInv, Sequential
<1>3. \A u \in Tenants : u \notin overtaken' => TenantInv(u)'
  BY <1>2 DEF Sequential
<1>4. \A u \in Sequential : Undone(u)
  BY <1>2 DEF Sequential
<1> QED BY <1>1, <1>3, <1>4 DEF SafetyInv, Sequential

LEMMA SafetyStep ==
  ASSUME SafetyInv, [Next]_vars, TypeOK'
  PROVE  SafetyInv' /\ \A t \in Sequential : Undone(t)
<1>0. /\ TypeOK /\ faults <= MaxFaults /\ faults \in Nat
      /\ \A t \in Tenants : t \notin overtaken => TenantInv(t)
  BY DEF SafetyInv, TypeOK, Sequential
<1>1. CASE UNCHANGED vars
  <2>1. /\ faults' = faults /\ overtaken' = overtaken
        /\ \A t \in Tenants : Same(t)
    BY <1>1 DEF vars, Same
  <2> QED BY <1>0, <2>1, SameInv DEF SafetyInv, Sequential
<1>2. CASE ControlCrash
  <2>1. faults' = faults /\ overtaken' = overtaken
    BY <1>2 DEF ControlCrash, Crash
  <2> QED BY <1>0, <1>2, <2>1, CrashMoves, ForgetsInv DEF SafetyInv, Sequential
<1>3. ASSUME NEW t \in Tenants, NEW o \in Ops, Begin(t, o)
      PROVE  SafetyInv' /\ \A u \in Sequential : Undone(u)
  <2>1. Begins(t, o) /\ Planned(t)' /\ \A u \in Tenants \ {t} : Same(u)
    BY <1>0, <1>3, BeginMoves
  <2>2. faults' = faults /\ overtaken' = overtaken
    BY <1>3 DEF Begin, Enter
  <2>3. t \notin overtaken => TenantInv(t)' /\ Undone(t)
    BY <1>0, <2>1, BeginsInv
  <2> QED BY <1>0, <2>1, <2>2, <2>3, OneMoves
<1>4. ASSUME NEW t \in Tenants, StepOf(t)
      PROVE  SafetyInv' /\ \A u \in Sequential : Undone(u)
  <2>1. \A u \in Tenants \ {t} : Same(u)
    BY <1>0, <1>4, StepMoves
  <2>2. faults' <= faults /\ overtaken' = overtaken
    BY <1>0, <1>4, FaultsStep
  <2>3. ASSUME t \notin overtaken PROVE TenantInv(t)' /\ Undone(t)
    <3>1. TenantInv(t)
      BY <1>0, <2>3
    <3>2. Moves(t) /\ Planned(t)'
      BY <1>0, <1>4, <3>1, StepMoves DEF TenantInv
    <3> QED BY <1>0, <3>1, <3>2, MovesInv
  <2> QED BY <2>1, <2>2, <2>3, OneMoves
<1>5. ASSUME NEW t \in Tenants, Engine(t)
      PROVE  SafetyInv' /\ \A u \in Sequential : Undone(u)
  <2>1. Runs(t) /\ \A u \in Tenants \ {t} : Same(u)
    BY <1>0, <1>5, EngineMoves
  <2>2. faults' = faults /\ overtaken' = overtaken
    BY <1>5 DEF Engine, HotReload, EngineDies, UnitRetries, Crash
  <2>3. t \notin overtaken => TenantInv(t)' /\ Undone(t)
    BY <1>0, <2>1, RunsInv
  <2> QED BY <1>0, <2>1, <2>2, <2>3, OneMoves
<1>6. ASSUME NEW t \in Tenants, (\E o \in Ops : Overtake(t, o)) \/ Switch(t)
      PROVE  SafetyInv' /\ \A u \in Sequential : Undone(u)
  <2>1. /\ faults' = faults /\ overtaken \subseteq overtaken'
        /\ \A u \in Tenants \ {t} : Same(u)
        /\ parked[t] = Idle => t \in overtaken' /\ last'[t].ok
    BY <1>0, <1>6, OverlapMoves
  <2>2. t \notin overtaken => t \in overtaken' /\ last'[t].ok
    BY <1>0, <2>1 DEF TenantInv, Sole
  <2>3. (t \notin overtaken' => TenantInv(t)') /\ (t \notin overtaken => Undone(t))
    BY <2>1, <2>2 DEF Undone
  <2> QED BY <1>0, <2>1, <2>3, OneMoves
<1>7. CASE Next
  <2>1. \A t \in Tenants :
          (\E o \in Overtaking : Overtake(t, o)) => \E o \in Ops : Overtake(t, o)
    BY OvertakingAssumption
  <2>2. \/ ControlCrash
        \/ \E t \in Tenants :
             \/ \E o \in Ops : Begin(t, o)
             \/ (\E o \in Ops : Overtake(t, o)) \/ Switch(t)
             \/ StepOf(t) \/ Engine(t)
    BY <1>7, <2>1, Zenon DEF Next, StepOf
  <2> QED BY <1>2, <1>3, <1>4, <1>5, <1>6, <2>2
<1> QED BY <1>1, <1>7

\* The invariant holds in every state of the control plane, whatever its
\* capacity and its bounds, of every tenant whose requests never overlapped.
THEOREM SafetyHeld == Safe => []SafetyInv
<1>1. TypeOK /\ TypeOK' /\ SafetyInv /\ [Next]_vars => SafetyInv'
  BY SafetyStep
<1> QED BY <1>1, SafetyInit, TypeCorrect, PTL DEF Safe

\* No user whose requests never overlapped holds a session whose workspace does
\* not exist or whose row says that provisioning failed, however a login was
\* interrupted.
THEOREM SessionsProvisioned == Safe => []SessionNeedsWorkspace
<1>1. SafetyInv => SessionNeedsWorkspace
  BY DEF SafetyInv, TenantInv, SetUp, Ready, SessionNeedsWorkspace
<1> QED BY <1>1, SafetyHeld, PTL

\* A pilot who was removed, and whose requests never overlapped, has no engine,
\* no session and no keys, and never will.
THEOREM RemovedStaysDead == Safe => []RemovedIsDead
<1>1. SafetyInv => RemovedIsDead
  BY DEF SafetyInv, TenantInv, Removal, Down, RemovedIsDead
<1> QED BY <1>1, SafetyHeld, PTL

\* As long as the requests of a tenant do not overlap, files that ask for live
\* trading never stand beside keys that no probe has ever accepted: a test that
\* fails later leaves such files alone, a rotation of the keys does not.
THEOREM LiveFilesTested == Safe => []LiveFilesHaveTestedKeys
<1>1. SafetyInv => LiveFilesHaveTestedKeys
  BY DEF SafetyInv, TenantInv, Keys, Proved, LiveFilesHaveTestedKeys
<1> QED BY <1>1, SafetyHeld, PTL

\* A request that switches an engine off and reports success has done so, and
\* has left nothing that would start it live again, if no other request of the
\* tenant overlapped.
THEOREM OffMeant == Safe => []OffMeansOff
<1>1. SafetyInv => OffMeansOff
  BY DEF SafetyInv, TenantInv, Off, Down, OffMeansOff
<1> QED BY <1>1, SafetyHeld, PTL

\* Until a systemctl call or a write fails, every engine that runs belongs to a
\* tenant that holds a slot or to one whose requests have overlapped.
THEOREM EnginesCounted == Safe => []RunsCounted
<1>1. SafetyInv => RunsCounted
  BY DEF SafetyInv, TenantInv, Clean, Holds, Down, RunsCounted
<1> QED BY <1>1, SafetyHeld, PTL

\* An activation or a promotion that fails leaves simulation, or a trading mode
\* that was approved, unless a second failure hits the undo or another request
\* of the tenant overlaps.
THEOREM FailuresSafe == Safe => FailsSafe
<1>1. SafetyInv /\ TypeOK' /\ [Next]_vars =>
        [\A t \in Sequential :
           /\ last'[t] /= last[t]
           /\ last'[t].op \in {"activate", "promote"} /\ ~last'[t].ok
           /\ OneFault'
           => \/ files'[t] = Sim \/ LiveEnabled(row'[t])
              \/ files'[t] = req[t].copy /\ ~LiveEnabled(req[t].seen)]_vars
  BY SafetyStep DEF Undone
<1> QED BY <1>1, SafetyHeld, TypeCorrect, PTL DEF Safe, FailsSafe
=============================================================================
