---------------------------- MODULE ControlPlane ----------------------------
(***************************************************************************)
(* The hosted control plane (xauby/saas/): the rows of the store, the two  *)
(* files that decide whether a tenant trades live (bot_config.yaml and     *)
(* coin_whitelist.json), the systemd unit of each tenant and the requests  *)
(* of the web application, which touch all three and share no transaction. *)
(*                                                                         *)
(* A request takes one step per effect: a transaction of the store, a file *)
(* that is rewritten, a systemctl call.  Path lists the steps of a handler *)
(* in order, Rescue the steps an exception in one of them leads to.        *)
(*                                                                         *)
(* The handlers run in threads without a lock.  Requests of different      *)
(* tenants interleave, and a request of a tenant may overtake another of   *)
(* the same tenant, which rests meanwhile; a tenant has at most two in     *)
(* flight.  Much of what the program promises is lost for a tenant whose   *)
(* requests have overlapped: overtaken remembers these tenants, and the    *)
(* properties say what still holds of the others.                          *)
(***************************************************************************)
EXTENDS Integers, Sequences, FiniteSets

CONSTANTS
  Tenants,      \* pilots, each with the workspace of one tenant
  MaxActive,    \* settings.max_active_engines
  MaxRequests,  \* bound: requests in one behaviour
  Traffic,      \* bound: the operations asked for each tenant
  Overtaking,   \* bound: the operations that may overtake a request
  MaxFaults,    \* bound: systemctl calls, probes and writes that fail
  MaxCrashes    \* bound: deaths of an engine or of the control plane

ASSUME TenantsAssumption == IsFiniteSet(Tenants)
ASSUME NumbersAssumption ==
  /\ MaxActive \in Nat \ {0}
  /\ MaxRequests \in Nat
  /\ MaxFaults \in Nat
  /\ MaxCrashes \in Nat

VARIABLES
  account,   \* users.account_status
  session,   \* the user holds a session
  row,       \* tenants.status and tenants.live_status
  approvals, \* live_approvals of the tenant: their status, oldest first
  conn,      \* exchange_connections; proved is history: the keys now stored
             \* have passed a probe
  workspace, \* supervisor.workspace_ready
  files,     \* the execution mode bot_config.yaml and the whitelist ask for
  unit,      \* xauby-engine@tenant.service and what its engine has loaded
  req,       \* the request in flight and the steps it has left
  parked,    \* the request that rests while another one of its tenant runs
  overtaken, \* history: the tenants that have had two requests in flight
  requests, faults, crashes, \* what the bounds still allow
  last       \* history: the last request that returned, until the next one

store == <<account, session, row, approvals, conn>>
disk == <<workspace, files>>
budget == <<requests, faults, crashes>>
overlap == <<parked, overtaken>>
vars == <<store, disk, unit, req, budget, last, overlap>>

OwnerOps == {"start", "stop", "restart", "connect", "test", "request",
             "activate", "deactivate", "profile", "switch", "addPair", "promote"}
AdminOps == {"suspend", "reactivate", "remove", "approve"}
Ops == {"login"} \cup OwnerOps \cup AdminOps
ASSUME OvertakingAssumption == Overtaking \subseteq Ops

Steps == {"reserve", "boot", "reboot", "running", "error", "halt", "stopped",
          "offline", "yamlSim", "listSim", "yamlLive", "listLive", "request",
          "approve", "live", "failed", "reset", "connected", "storeKeys",
          "probe", "pool", "restoreYaml", "restoreList", "ensure",
          "provision", "repaired", "provisionFailed", "session", "tombstone"}

Modes == {"sim", "live"}
Statuses == {"absent", "queued", "starting", "running", "degraded", "stopped",
             "error", "provision_failed", "removed"}
LiveStatuses == {"not_requested", "requested", "approved", "active",
                 "activation_failed"}
Decisions == {"requested", "approved", "superseded", "activation_failed"}
Row == [status : Statuses, live : LiveStatuses]
Connection == [status : {"none", "stored", "tested", "failed"}, proved : BOOLEAN]
Files == [yaml : Modes, list : Modes]
Unit == [state : {"down", "retrying", "up"}, armed : BOOLEAN, list : Modes]
Result == [op : Ops \cup {"none"}, ok : BOOLEAN]
\* seen is the row the handler read first, copy its snapshot of the files,
\* found the status ensure_tenant gave it.  rekeyed is history: the keys it
\* read have been replaced or deleted since.
Request == [op : Ops \cup {"none"}, todo : Seq(Steps), ok : BOOLEAN,
            seen : Row, copy : Files, found : Statuses, rekeyed : BOOLEAN]

Active == {"starting", "running", "degraded"}
Counted(r) == r.status \in Active
LiveEnabled(r) == r.live \in {"requested", "approved", "active"}
Enabled(r) == r.live \in {"approved", "active"}
Stored(t) == conn[t].status /= "none"

Sim == [yaml |-> "sim", list |-> "sim"]
NoRow == [status |-> "absent", live |-> "not_requested"]
NoKeys == [status |-> "none", proved |-> FALSE]
Idle == [op |-> "none", todo |-> <<>>, ok |-> TRUE, seen |-> NoRow, copy |-> Sim,
         found |-> "absent", rekeyed |-> FALSE]
Nothing == [op |-> "none", ok |-> TRUE]

\* A pilot who accepted the invitation and never signed in, or one who has
\* signed in, stored keys and seen them tested.
Init ==
  /\ account = [t \in Tenants |-> "active"]
  /\ session \in [Tenants -> BOOLEAN]
  /\ workspace = session
  /\ row = [t \in Tenants |->
              IF session[t] THEN [status |-> "queued", live |-> "not_requested"]
              ELSE NoRow]
  /\ conn = [t \in Tenants |->
               IF session[t] THEN [status |-> "tested", proved |-> TRUE] ELSE NoKeys]
  /\ approvals = [t \in Tenants |-> <<>>]
  /\ files = [t \in Tenants |-> Sim]
  /\ unit = [t \in Tenants |-> [state |-> "down", armed |-> FALSE, list |-> "sim"]]
  /\ req = [t \in Tenants |-> Idle]
  /\ parked = [t \in Tenants |-> Idle]
  /\ overtaken = {}
  /\ requests = MaxRequests
  /\ faults = MaxFaults
  /\ crashes = MaxCrashes
  /\ last = [t \in Tenants |-> Nothing]
-----------------------------------------------------------------------------
(* The order of effects in each handler.                                    *)

\* Mutant: set_sim_mode forgets the whitelist.
CoolYamlOnly == <<"yamlSim">>
\* set_sim_mode
Cool == <<"yamlSim", "listSim">>

\* A change of profile or strategy takes a live tenant back to approval.
HandOff(r) == IF LiveEnabled(r) THEN <<"halt", "stopped", "reset">> ELSE <<>>

\* Mutant: a restart never reserves a slot.
UnreservedRestart(r) == <<"reboot", "running">>
RestartPath(r) == IF Counted(r) THEN <<"reboot", "running">>
                  ELSE <<"reserve", "reboot", "running">>

\* Mutant: the engine keeps running while its keys are replaced.
ConnectWhileRunning(r) == Cool \o <<"reset", "connected", "storeKeys">>
ConnectPath(r) == (IF Enabled(r) THEN <<"halt">> ELSE <<>>)
                  \o Cool \o <<"reset", "connected", "storeKeys">>

\* Mutant: a removal trusts that the suspension stopped the engine.
RemoveSuspended(r) == <<"offline", "tombstone">>
RemovePath(r) == (IF r.status = "absent" THEN <<>> ELSE <<"halt", "offline">>)
                 \o <<"tombstone">>

\* Mutant: the session is issued before the workspace is provisioned.
SessionFirst == <<"ensure", "session", "provision", "repaired">>
LoginPath == <<"ensure", "provision", "repaired", "session">>

\* The steps of op o for a tenant whose row reads r.
Path(o, r) ==
  CASE o = "start" -> <<"reserve", "boot", "running">>
    [] o = "restart" -> RestartPath(r)
    [] o = "stop" -> <<"halt", "stopped">>
    [] o = "connect" -> ConnectPath(r)
    [] o = "test" -> <<"probe">>
    [] o = "request" -> <<"request">>
    [] o = "activate" -> <<"reserve", "request", "approve", "yamlLive",
                           "listLive", "reboot", "live">>
    [] o = "approve" -> <<"reserve", "approve", "yamlLive",
                          "listLive", "reboot", "live">>
    [] o = "deactivate" -> <<"halt">> \o Cool \o <<"offline">>
    [] o = "profile" -> HandOff(r) \o Cool
    [] o = "switch" -> (IF r.status = "running" /\ ~LiveEnabled(r)
                        THEN <<"halt", "stopped">> ELSE HandOff(r)) \o Cool
    [] o = "addPair" -> <<"yamlLive", "listLive">>
    [] o = "promote" -> HandOff(r) \o Cool \o <<"pool">>
    [] o = "suspend" -> IF r.status = "absent" THEN <<>>
                        ELSE <<"halt", "offline">> \o Cool
    [] o = "remove" -> RemovePath(r)
    [] o = "login" -> LoginPath
    [] o = "reactivate" -> <<"ensure", "provision", "repaired">>

\* Mutant: the old files are restored, live trading with them.
RestoreOnly(r) == <<"restoreYaml", "restoreList">>
\* A promotion that fails restores the files, then forces simulation.
Undo(r) == <<"restoreYaml", "restoreList">>
           \o (IF LiveEnabled(r.seen) THEN Cool ELSE <<>>)

\* Mutant: an activation that fails is only marked, its files stay live.
MarkOnly(r, s) ==
  IF r.op \in {"activate", "approve"} /\ s /= "reserve" THEN <<"failed">> ELSE <<>>
\* What is left of request r once its step s has raised: the except and
\* finally blocks around s.
Rescue(r, s) ==
  LET error == IF r.op = "approve" /\ Counted(r.seen) THEN <<>> ELSE <<"error">>
      failed == <<"failed">> \o error
  IN CASE r.op \in {"start", "restart"} /\ s /= "reserve" -> error
       [] r.op \in {"activate", "approve"} /\ s \in {"yamlSim", "listSim"} -> failed
       [] r.op = "activate" /\ s \notin {"reserve", "yamlSim", "listSim"} ->
            Cool \o failed
       [] r.op = "approve" /\ s = "halt" -> Cool \o failed
       [] r.op = "approve" /\ s \notin {"reserve", "yamlSim", "listSim", "halt"} ->
            <<"halt">> \o Cool \o failed
       [] r.op = "deactivate" -> <<"offline">>
       [] r.op = "suspend" /\ s = "halt" -> <<"offline">> \o Cool
       [] r.op = "promote" /\ r.ok /\ s /= "halt" -> Undo(r)
       [] r.op = "promote" /\ ~r.ok /\ s \in {"restoreYaml", "restoreList"}
                           /\ LiveEnabled(r.seen) -> Cool
       [] r.op \in {"login", "reactivate"} /\ s = "provision" -> <<"provisionFailed">>
       [] OTHER -> <<>>

At(t, s) == req[t].todo /= <<>> /\ Head(req[t].todo) = s

\* ensure_user_workspace goes by the status ensure_tenant returned to it.
Found(t) ==
  IF ~At(t, "ensure") THEN req[t].found
  ELSE IF row[t].status = "absent" THEN "queued" ELSE row[t].status

\* The request goes on with the steps todo, or returns when there is none.
Continue(t, todo, ok) ==
  IF todo = <<>>
  THEN /\ req' = [req EXCEPT ![t] = Idle]
       /\ last' = [last EXCEPT ![t] = [op |-> req[t].op, ok |-> ok]]
  ELSE /\ req' = [req EXCEPT ![t] = [@ EXCEPT !.todo = todo, !.ok = ok,
                                           !.found = Found(t)]]
       /\ UNCHANGED last
Returns(t) == Continue(t, Tail(req[t].todo), req[t].ok)
Raises(t) == Continue(t, Rescue(req[t], Head(req[t].todo)), FALSE)

\* Mutant: stored keys are as good as tested ones.
KeysStored(t) == Stored(t)
KeysTested(t) == conn[t].status = "tested"

\* What a handler checks before it changes anything.
Admitted(t, o) ==
  /\ o \in OwnerOps => session[t] /\ account[t] = "active"
  /\ o = "login" => account[t] = "active"
  /\ o \in {"suspend", "reactivate"} => account[t] /= "removed"
  /\ o = "remove" => account[t] = "suspended"
  /\ o = "approve" => row[t].status \notin {"absent", "removed"}
                     /\ account[t] /= "removed"
  /\ o = "test" => Stored(t)
  /\ o \in {"request", "activate", "approve"} => KeysTested(t)
  /\ o = "addPair" => row[t].live = "active"
  /\ o = "promote" => Counted(row[t]) /\ unit[t].state = "up"

\* A handler reads the row; an admin who suspends or reactivates has already
\* committed the status of the account, which ends every session of a
\* suspended user.
Enter(t, o) ==
  /\ requests > 0 /\ o \in Traffic[t]
  /\ requests' = requests - 1
  /\ Admitted(t, o)
  /\ account' = [account EXCEPT ![t] = CASE o = "suspend" -> "suspended"
                                         [] o = "reactivate" -> "active"
                                         [] OTHER -> @]
  /\ session' = [session EXCEPT ![t] = @ /\ o /= "suspend"]
  /\ LET todo == Path(o, row[t])
     IN IF todo = <<>>
        THEN /\ req' = [req EXCEPT ![t] = Idle]
             /\ last' = [last EXCEPT ![t] = [op |-> o, ok |-> TRUE]]
        ELSE /\ req' = [req EXCEPT ![t] = [op |-> o, todo |-> todo, ok |-> TRUE,
                                           seen |-> row[t], copy |-> files[t],
                                           found |-> row[t].status,
                                           rekeyed |-> FALSE]]
             /\ last' = [last EXCEPT ![t] = Nothing]
  /\ UNCHANGED <<row, approvals, conn, disk, unit, faults, crashes>>

Begin(t, o) ==
  /\ req[t] = Idle /\ parked[t] = Idle
  /\ Enter(t, o)
  /\ UNCHANGED overlap

\* A request overtakes one that has not returned.
Overtake(t, o) ==
  /\ req[t] /= Idle /\ parked[t] = Idle
  /\ Enter(t, o)
  /\ parked' = [parked EXCEPT ![t] = req[t]]
  /\ overtaken' = overtaken \cup {t}

\* The threads of two requests of a tenant take turns.
Switch(t) ==
  /\ parked[t] /= Idle
  /\ req' = [req EXCEPT ![t] = parked[t]]
  /\ parked' = [parked EXCEPT ![t] = req[t]]
  /\ UNCHANGED <<store, disk, unit, budget, last, overtaken>>
-----------------------------------------------------------------------------
(* Transactions of the store.  None of them fails.                          *)

\* Mutant: the two columns are swapped.
SwappedRows(t, status, live) ==
  row' = [row EXCEPT ![t] = [status |-> live, live |-> status]]
Rows(t, status, live) ==
  row' = [row EXCEPT ![t] = [status |-> status, live |-> live]]

Reserve(t) ==
  /\ At(t, "reserve")
  /\ \/ /\ Counted(row[t])
        /\ UNCHANGED row
        /\ Returns(t)
     \/ /\ ~Counted(row[t])
        /\ Cardinality({u \in Tenants : Counted(row[u])}) < MaxActive
        /\ Rows(t, "starting", row[t].live)
        /\ Returns(t)
     \/ /\ ~Counted(row[t])
        /\ Cardinality({u \in Tenants : Counted(row[u])}) >= MaxActive
        /\ Rows(t, "queued", row[t].live)
        /\ Raises(t)
  /\ UNCHANGED <<account, session, approvals, conn, disk, unit, budget, overlap>>

\* update_tenant, with the values the handler passes at step s.
UpdateTenant(t) ==
  /\ \/ At(t, "running") /\ Rows(t, "running", row[t].live)
     \/ At(t, "error") /\ Rows(t, "error", row[t].live)
     \/ At(t, "stopped") /\ Rows(t, "stopped", row[t].live)
     \/ At(t, "offline") /\ Rows(t, "stopped", "not_requested")
     \/ At(t, "live") /\ Rows(t, "running", "active")
     \/ /\ At(t, "connected")
        /\ Rows(t, IF Enabled(req[t].seen) THEN "stopped" ELSE req[t].seen.status,
                row[t].live)
     \/ /\ At(t, "repaired")
        /\ Rows(t, IF req[t].found = "provision_failed" THEN "queued"
                   ELSE row[t].status, row[t].live)
     \/ /\ At(t, "provisionFailed")
        /\ Rows(t, IF req[t].found \in Active THEN "degraded"
                   ELSE "provision_failed", row[t].live)
  /\ Returns(t)
  /\ UNCHANGED <<account, session, approvals, conn, disk, unit, budget, overlap>>

\* request_live; live_activate calls it unless the row it read was requested.
RequestLive(t) ==
  /\ At(t, "request")
  /\ IF req[t].op = "activate" /\ req[t].seen.live = "requested"
     THEN UNCHANGED <<row, approvals>>
     ELSE /\ approvals' = [approvals EXCEPT ![t] = Append(@, "requested")]
          /\ Rows(t, row[t].status, "requested")
  /\ Returns(t)
  /\ UNCHANGED <<account, session, conn, disk, unit, budget, overlap>>

\* approve_live approves the newest request that is pending.
ApproveLive(t) ==
  LET pending == {i \in DOMAIN approvals[t] : approvals[t][i] = "requested"}
  IN /\ At(t, "approve")
     /\ \/ /\ pending = {}
           /\ UNCHANGED <<row, approvals>>
           /\ Raises(t)
        \/ /\ \E i \in pending :
                /\ \A j \in pending : j <= i
                /\ approvals' = [approvals EXCEPT ![t][i] = "approved"]
           /\ Rows(t, row[t].status, "approved")
           /\ Returns(t)
     /\ UNCHANGED <<account, session, conn, disk, unit, budget, overlap>>

\* reset_live_approval
ResetLiveApproval(t) ==
  /\ At(t, "reset")
  /\ approvals' = [approvals EXCEPT ![t] = [i \in DOMAIN @ |->
                     IF @[i] \in {"requested", "approved"} THEN "superseded" ELSE @[i]]]
  /\ Rows(t, row[t].status, "not_requested")
  /\ Returns(t)
  /\ UNCHANGED <<account, session, conn, disk, unit, budget, overlap>>

\* fail_live_activation marks the newest approval, whatever its status.
FailLiveActivation(t) ==
  /\ At(t, "failed")
  /\ approvals' = [approvals EXCEPT ![t] = [i \in DOMAIN @ |->
                     IF i = Len(@) THEN "activation_failed" ELSE @[i]]]
  /\ Rows(t, row[t].status, "activation_failed")
  /\ Returns(t)
  /\ UNCHANGED <<account, session, conn, disk, unit, budget, overlap>>

\* The keys a resting request has read are gone.
Rekeys(t) ==
  parked' = [parked EXCEPT ![t] = IF @ = Idle THEN Idle
                                  ELSE [@ EXCEPT !.rekeyed = TRUE]]

\* set_exchange_connection with a new envelope.
StoreKeys(t) ==
  /\ At(t, "storeKeys")
  /\ conn' = [conn EXCEPT ![t] = [status |-> "stored", proved |-> FALSE]]
  /\ Rekeys(t)
  /\ Returns(t)
  /\ UNCHANGED <<account, session, row, approvals, disk, unit, budget, overtaken>>

\* exchange_test: the verdict of the probe on the keys it read.  A row that was
\* deleted meanwhile is inserted again without keys, which is as good as none.
Verdict(t, status, proved) ==
  conn' = [conn EXCEPT ![t] = IF Stored(t) THEN [status |-> status, proved |-> proved]
                              ELSE @]

Probe(t) ==
  /\ At(t, "probe")
  /\ \/ Verdict(t, "tested", conn[t].proved \/ ~req[t].rekeyed) /\ Returns(t)
     \/ Verdict(t, "failed", conn[t].proved) /\ Raises(t)
  /\ UNCHANGED <<account, session, row, approvals, disk, unit, budget, overlap>>

\* ensure_tenant
EnsureTenant(t) ==
  /\ At(t, "ensure")
  /\ IF row[t].status = "absent" THEN Rows(t, "queued", "not_requested")
     ELSE UNCHANGED row
  /\ Returns(t)
  /\ UNCHANGED <<account, session, approvals, conn, disk, unit, budget, overlap>>

CreateSession(t) ==
  /\ At(t, "session")
  /\ session' = [session EXCEPT ![t] = TRUE]
  /\ Returns(t)
  /\ UNCHANGED <<account, row, approvals, conn, disk, unit, budget, overlap>>

\* remove_pilot looks at the status of the account once more.
RemovePilot(t) ==
  /\ At(t, "tombstone")
  /\ \/ /\ account[t] = "suspended"
        /\ account' = [account EXCEPT ![t] = "removed"]
        /\ session' = [session EXCEPT ![t] = FALSE]
        /\ conn' = [conn EXCEPT ![t] = NoKeys]
        /\ IF row[t].status = "absent" THEN UNCHANGED row
           ELSE Rows(t, "removed", "not_requested")
        /\ Rekeys(t)
        /\ Returns(t)
     \/ /\ account[t] /= "suspended"
        /\ UNCHANGED <<account, session, conn, row, parked>>
        /\ Raises(t)
  /\ UNCHANGED <<approvals, disk, unit, budget, overtaken>>

\* save_strategy_pool at the revision the handler read.
SavePool(t) ==
  /\ At(t, "pool")
  /\ Returns(t)
  /\ UNCHANGED <<store, disk, unit, budget, overlap>>
-----------------------------------------------------------------------------
(* The workspace, the files and the unit.                                   *)

\* ensure_user_workspace: the helper runs unless the workspace is ready.
Provision(t) ==
  /\ At(t, "provision")
  /\ workspace' = [workspace EXCEPT ![t] = TRUE]
  /\ Returns(t)
  /\ UNCHANGED <<store, files, unit, budget, overlap>>

\* apply_profile, set_live_mode, set_sim_mode and _restore_profile_files
\* rewrite bot_config.yaml, then the whitelist; each provisions the workspace.
WriteFile(t) ==
  /\ \/ At(t, "yamlSim") /\ files' = [files EXCEPT ![t].yaml = "sim"]
     \/ At(t, "listSim") /\ files' = [files EXCEPT ![t].list = "sim"]
     \/ At(t, "yamlLive") /\ files' = [files EXCEPT ![t].yaml = "live"]
     \/ At(t, "listLive") /\ files' = [files EXCEPT ![t].list = "live"]
     \/ At(t, "restoreYaml") /\ files' = [files EXCEPT ![t].yaml = req[t].copy.yaml]
     \/ At(t, "restoreList") /\ files' = [files EXCEPT ![t].list = req[t].copy.list]
  /\ workspace' = [workspace EXCEPT ![t] = TRUE]
  /\ Returns(t)
  /\ UNCHANGED <<store, unit, budget, overlap>>

\* ExecStartPre decrypts the keys and derives LIVE_TRADING from the YAML; the
\* engine reads the whitelist.
Boots(t) ==
  unit' = [unit EXCEPT ![t] =
             [state |-> "up", armed |-> files[t].yaml = "live" /\ Stored(t),
              list |-> files[t].list]]
Halts(t) ==
  unit' = [unit EXCEPT ![t] = [state |-> "down", armed |-> FALSE, list |-> "sim"]]

\* systemctl start, which leaves a running unit alone, restart and stop.
SystemctlEffect(t) ==
  \/ /\ At(t, "boot")
     /\ IF unit[t].state = "up" THEN UNCHANGED unit ELSE Boots(t)
  \/ At(t, "reboot") /\ Boots(t)
  \/ At(t, "halt") /\ Halts(t)

Systemctl(t) ==
  /\ SystemctlEffect(t)
  /\ Returns(t)
  /\ UNCHANGED <<store, disk, budget, overlap>>

Fault == faults > 0 /\ faults' = faults - 1

\* subprocess.run gives up after 30 s, a unit may take 45 s to stop: the call
\* raises and its job is carried out all the same.
SystemctlTimesOut(t) ==
  /\ SystemctlEffect(t)
  /\ Raises(t)
  /\ Fault
  /\ UNCHANGED <<store, disk, requests, crashes, overlap>>

\* A systemctl call that is refused, a file that cannot be written, a helper
\* that fails, a pool another request has revised: the step has no effect.
StepFails(t) ==
  /\ \/ \E s \in {"boot", "reboot", "halt", "yamlSim", "listSim", "yamlLive",
                  "listLive", "restoreYaml", "restoreList", "pool"} : At(t, s)
     \/ At(t, "provision") /\ ~workspace[t]
  /\ Raises(t)
  /\ Fault
  /\ UNCHANGED <<store, disk, unit, requests, crashes, overlap>>

\* The engine copies the whitelist it finds changed (PairRegistry.maybe_reload).
HotReload(t) ==
  /\ unit[t].state = "up"
  /\ unit[t].list /= files[t].list
  /\ unit' = [unit EXCEPT ![t].list = files[t].list]
  /\ UNCHANGED <<store, disk, req, budget, last, overlap>>

Crash == crashes > 0 /\ crashes' = crashes - 1

\* The engine exits: Restart=on-failure retries it unless it exited cleanly or
\* with one of RestartPreventExitStatus.
EngineDies(t) ==
  /\ unit[t].state = "up"
  /\ \E s \in {"down", "retrying"} :
       unit' = [unit EXCEPT ![t] = [state |-> s, armed |-> FALSE, list |-> "sim"]]
  /\ Crash
  /\ UNCHANGED <<store, disk, req, requests, faults, last, overlap>>

UnitRetries(t) ==
  /\ unit[t].state = "retrying"
  /\ Boots(t)
  /\ UNCHANGED <<store, disk, req, budget, last, overlap>>

\* The control plane dies and comes back: the handlers in flight are gone.
ControlCrash ==
  /\ \E t \in Tenants : req[t] /= Idle \/ parked[t] /= Idle
  /\ req' = [t \in Tenants |-> Idle]
  /\ parked' = [t \in Tenants |-> Idle]
  /\ Crash
  /\ UNCHANGED <<store, disk, unit, requests, faults, last, overtaken>>

Transaction(t) ==
  \/ Reserve(t) \/ UpdateTenant(t) \/ RequestLive(t) \/ ApproveLive(t)
  \/ ResetLiveApproval(t) \/ FailLiveActivation(t) \/ StoreKeys(t) \/ Probe(t)
  \/ EnsureTenant(t) \/ CreateSession(t) \/ RemovePilot(t) \/ SavePool(t)

Engine(t) == HotReload(t) \/ EngineDies(t) \/ UnitRetries(t)

Next ==
  \/ ControlCrash
  \/ \E t \in Tenants :
       \/ \E o \in Ops : Begin(t, o)
       \/ (\E o \in Overtaking : Overtake(t, o)) \/ Switch(t)
       \/ Transaction(t)
       \/ Provision(t) \/ WriteFile(t)
       \/ Systemctl(t) \/ SystemctlTimesOut(t) \/ StepFails(t)
       \/ Engine(t)

Safe == Init /\ [][Next]_vars

\* The engine reads the whitelist every thirty seconds, and each step of a
\* handler returns or raises.
Spec ==
  /\ Safe
  /\ \A t \in Tenants : WF_vars(HotReload(t))
-----------------------------------------------------------------------------
\* The tenants whose requests never overlapped.
Sequential == Tenants \ overtaken

TypeOK ==
  /\ account \in [Tenants -> {"active", "suspended", "removed"}]
  /\ session \in [Tenants -> BOOLEAN]
  /\ row \in [Tenants -> Row]
  /\ approvals \in [Tenants -> Seq(Decisions)]
  /\ conn \in [Tenants -> Connection]
  /\ workspace \in [Tenants -> BOOLEAN]
  /\ files \in [Tenants -> Files]
  /\ unit \in [Tenants -> Unit]
  /\ req \in [Tenants -> Request] /\ parked \in [Tenants -> Request]
  /\ overtaken \subseteq Tenants
  /\ requests \in Nat /\ faults \in Nat /\ crashes \in Nat
  /\ last \in [Tenants -> Result]

TradesLive(t) == unit[t].state = "up" /\ unit[t].armed /\ unit[t].list = "live"

\* Tenants whose requests never overlapped hold no more slots together than
\* max_active_engines, whatever fails and whatever the requests of the others
\* do: a tenant whose requests overlapped can take one slot too many, its own.
SlotsBounded == Cardinality({t \in Sequential : Counted(row[t])}) <= MaxActive

\* As long as no systemctl call and no write has failed, a unit that runs or is
\* being restarted by systemd belongs to a tenant that holds a slot, unless
\* requests of that tenant have overlapped.
RunsCounted ==
  faults = MaxFaults =>
    \A t \in Sequential : unit[t].state /= "down" => Counted(row[t])

\* Files that ask for live trading stand beside keys that have passed a probe
\* at some time: as long as the requests of a tenant do not overlap, its keys
\* are never replaced under such files.
LiveFilesHaveTestedKeys ==
  \A t \in Sequential : files[t].yaml = "live" /\ Stored(t) => conn[t].proved

\* Nothing of a removed pilot runs, and nothing is left to sign in or to
\* trade with, if its requests never overlapped.
RemovedIsDead ==
  \A t \in Sequential : account[t] = "removed" =>
    unit[t].state = "down" /\ ~session[t] /\ ~Stored(t)

\* A request that switches an engine off and returns without an error has
\* switched it off, and a tenant that was taken out of live trading cannot be
\* started live again from the files it left, unless another of its requests
\* ran meanwhile.
OffMeansOff ==
  \A t \in Sequential : last[t].ok =>
    /\ last[t].op \in {"stop", "deactivate", "suspend", "remove"} =>
         unit[t].state = "down"
    /\ last[t].op \in {"deactivate", "suspend"} =>
         files[t] = Sim /\ row[t].live = "not_requested"

\* At most one systemctl call or write has failed.
OneFault == faults >= MaxFaults - 1

\* A promotion or an activation that fails leaves simulation files behind, or
\* live trading approved.  Only files that asked for live trading beside a row
\* without approval, as a deactivation may leave them, are left as they were.
\* A second failure may hit the undo itself, another request of the tenant its
\* files and its row.
FailsSafe ==
  [][\A t \in Sequential :
       /\ last'[t] /= last[t]
       /\ last'[t].op \in {"activate", "promote"} /\ ~last'[t].ok
       /\ OneFault'
       => \/ files'[t] = Sim \/ LiveEnabled(row'[t])
          \/ files'[t] = req[t].copy /\ ~LiveEnabled(req[t].seen)]_vars

\* No session is issued before the workspace exists and its row says so, even
\* if provisioning was interrupted; two preflights of a tenant at a time may
\* contradict each other.
SessionNeedsWorkspace ==
  \A t \in Sequential : session[t] =>
    workspace[t] /\ row[t].status \notin {"absent", "provision_failed"}

\* After an activation or approval that was undone the engine stops trading
\* live, at the latest when it reads the whitelist again, unless the undo
\* failed as well or requests of the tenant overlap.
FailedActivationStopsTrading ==
  \A t \in Tenants :
    ( /\ t \in Sequential
      /\ last[t].op \in {"activate", "approve"} /\ ~last[t].ok
      /\ row[t].live = "activation_failed" /\ OneFault )
    ~> (last[t] = Nothing \/ ~TradesLive(t) \/ t \notin Sequential)
=============================================================================
