-------------------------- MODULE PositionPromise --------------------------
(***************************************************************************)
(* What the engine promises of one position, without its orders, stops,    *)
(* quantities, calls and crashes: a row in the database and a position on  *)
(* the venue that are opened and closed in turn, and a close that is       *)
(* queued until it is booked.                                              *)
(***************************************************************************)

VARIABLES
  row,    \* trade_states.state
  venue,  \* does the venue hold a position?
  queued  \* does a close wait for the venue's history?

vars == <<row, venue, queued>>

Init == row = "idle" /\ venue = "flat" /\ queued = FALSE

\* An entry fills: only where nothing is held, recorded or waiting.
Enter ==
  /\ row = "idle" /\ venue = "flat" /\ ~queued
  /\ venue' = "held"
  /\ UNCHANGED <<row, queued>>

\* The row is written after the fill, when the venue may have closed already.
Record ==
  /\ row = "idle" /\ ~queued
  /\ row' = "bought"
  /\ UNCHANGED <<venue, queued>>

\* The engine's close or a stop fills.
Leave ==
  /\ venue = "held"
  /\ venue' = "flat"
  /\ UNCHANGED <<row, queued>>

\* The row is given up only when nothing is held any more; the close is booked
\* at once, or queued.
Close ==
  /\ row = "bought" /\ venue = "flat"
  /\ row' = "idle"
  /\ queued' \in BOOLEAN
  /\ UNCHANGED venue

Settle ==
  /\ queued
  /\ queued' = FALSE
  /\ UNCHANGED <<row, venue>>

Next == Enter \/ Record \/ Leave \/ Close \/ Settle

Safe == Init /\ [][Next]_vars

\* Nothing is left half done: what the venue holds is recorded, a row without a
\* position is closed, and a queued close is booked.
Adopt == venue = "held" /\ Record
Spec == Safe /\ WF_vars(Adopt) /\ WF_vars(Close) /\ WF_vars(Settle)
=============================================================================
