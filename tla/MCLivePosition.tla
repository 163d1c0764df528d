--------------------------- MODULE MCLivePosition ---------------------------
(* Fault budgets for model checking LivePosition: which kinds of faults may *)
(* happen in a run, and how often.                                          *)
EXTENDS LivePositionPromise

NoFaults == [fault \in Faults |-> 0]

(* REST calls fail before or after they take effect; a close is confirmed   *)
(* by the position history only at the second look.                         *)
LostAnswers == [NoFaults EXCEPT !["call"] = 1, !["landed"] = 1, !["history"] = 1]

(* The process dies between any two steps, and calls fail around it.        *)
Restart == [LostAnswers EXCEPT !["crash"] = 1]

(* Orders fill late or in part, and the owner trades by hand on the venue.  *)
UnrulyVenue == [NoFaults EXCEPT !["late"] = 1, !["partial"] = 1, !["outside"] = 2]

(* The process dies, closes are confirmed late or lose their answer.        *)
Unprotected == [NoFaults EXCEPT !["crash"] = 2, !["landed"] = 2, !["history"] = 2]

CrashOnly   == [NoFaults EXCEPT !["crash"] = 1]
PartialOnly == [NoFaults EXCEPT !["partial"] = 1]
OutsideOnly == [NoFaults EXCEPT !["outside"] = 1]
=============================================================================
