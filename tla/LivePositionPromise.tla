------------------------ MODULE LivePositionPromise ------------------------
(***************************************************************************)
(* LivePosition keeps the promise of PositionPromise where nothing but the *)
(* engine trades on the account and orders fill whole or not at all.       *)
(***************************************************************************)
EXTENDS LivePosition

Promise == INSTANCE PositionPromise WITH
  row    <- local.state,
  venue  <- IF net = 0 THEN "flat" ELSE "held",
  queued <- pending # {}

(* No order fills late or in part, nobody else trades, and either no REST   *)
(* call fails or the process does not die: a restart that cannot read the   *)
(* positions goes on with the row on disk.                                  *)
Undisturbed ==
  /\ Budget["late"] = 0 /\ Budget["partial"] = 0 /\ Budget["outside"] = 0
  /\ Budget["call"] = 0 \/ Budget["crash"] = 0

(* Whatever the engine does around lost answers, late histories and stops,  *)
(* it enters only where nothing is held, recorded or queued, and gives the  *)
(* row up only when nothing is held: orders, retries and closes are steps   *)
(* of PositionPromise or invisible in it.                                   *)
KeepsPromise == Promise!Safe

(* ... and across restarts it leaves nothing half done: what the venue holds *)
(* is adopted, a flat position is closed in the database, a queued close is *)
(* booked.                                                                  *)
FulfilsPromise == Promise!Spec
=============================================================================
