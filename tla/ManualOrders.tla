---------------------------- MODULE ManualOrders ----------------------------
(***************************************************************************)
(* A manual order on its way from the web application to the engine: the   *)
(* challenge row (saas/store.py), the requests that confirm it             *)
(* (saas/app.py) and the one-slot file the engine claims                   *)
(* (runtime/manual_orders.py).                                             *)
(***************************************************************************)
EXTENDS Integers

CONSTANTS
  Challenges, \* previews that may be made
  Clicks,     \* confirm requests that may be in flight together
  Keys,       \* idempotency keys
  Pairs,      \* pairs an order can be for
  MaxClicks   \* bound: confirm requests in one behaviour

ASSUME OrdersAssumption ==
  /\ "none" \notin Challenges \cup Pairs
  /\ MaxClicks \in Nat

VARIABLES
  challenge, \* order_challenges
  click,     \* confirm requests: where each is, with what it carries
  file,      \* manual_order_request.json
  clicks,    \* what the bound still allows
  written,   \* history: keys a challenge was written to the file with
  owed       \* history: times it was written less times the engine ran it

orders == <<challenge, click, file, clicks, written, owed>>

NoKey == "no key"
Files == [order : Challenges \cup {"none"}, fresh : BOOLEAN]
NoFile == [order |-> "none", fresh |-> FALSE]
Free == [at |-> "idle", order |-> "none", key |-> NoKey]

Intents == {"OPEN", "CLOSE"}

\* An expired draft is a draft that is not fresh: the update to 'expired' is
\* rolled back with the transaction that raises.
Rows == [status : {"none", "draft", "confirmed", "queued"}, key : Keys \cup {NoKey},
         fresh : BOOLEAN, pair : Pairs \cup {"none"}, intent : Intents \cup {"none"}]
Requests == [at : {"idle", "checked", "confirmed", "written"},
             order : Challenges \cup {"none"}, key : Keys \cup {NoKey}]

OrdersInit ==
  /\ challenge = [o \in Challenges |-> [status |-> "none", key |-> NoKey,
                                        fresh |-> TRUE, pair |-> "none",
                                        intent |-> "none"]]
  /\ click = [k \in Clicks |-> Free]
  /\ file = NoFile
  /\ clicks \in 0..MaxClicks
  /\ written = [o \in Challenges |-> {}]
  /\ owed = [o \in Challenges |-> 0]

\* order_preview, which ends in create_challenge.
Preview(o) ==
  /\ challenge[o].status = "none"
  /\ \E p \in Pairs, i \in Intents :
       challenge' = [challenge EXCEPT ![o] =
                       [status |-> "draft", key |-> NoKey, fresh |-> TRUE,
                        pair |-> p, intent |-> i]]
  /\ UNCHANGED <<click, file, clicks, written, owed>>

\* Sixty seconds after the preview; nothing reads the age of a confirmed row.
PreviewExpires(o) ==
  /\ challenge[o].status = "draft"
  /\ challenge[o].fresh
  /\ challenge' = [challenge EXCEPT ![o].fresh = FALSE]
  /\ UNCHANGED <<click, file, clicks, written, owed>>

\* order_confirm reads the row; an order that is queued is answered from it, and
\* manual_order_context checks the engine's last snapshot, which may be half a
\* minute old: the request is refused at will.
Check(k, o, key) ==
  /\ click[k].at = "idle"
  /\ clicks > 0
  /\ clicks' = clicks - 1
  /\ challenge[o].status \in {"draft", "confirmed"}
  /\ click' = [click EXCEPT ![k] = [at |-> "checked", order |-> o, key |-> key]]
  /\ UNCHANGED <<challenge, file, written, owed>>

\* Mutant: a confirmed challenge is returned to whoever asks.
AnyKey(o, key) == challenge[o].status \in {"confirmed", "queued"}
\* The branch of confirm_challenge for a request that comes again.
SameKey(o, key) ==
  challenge[o].status \in {"confirmed", "queued"} /\ challenge[o].key = key

\* confirm_challenge, one transaction.
Confirm(k) ==
  LET o == click[k].order
      key == click[k].key
      write == [click EXCEPT ![k].at = "confirmed"]
      return == [click EXCEPT ![k] = Free]
  IN /\ click[k].at = "checked"
     /\ \/ /\ SameKey(o, key)
           /\ click' = IF challenge[o].status = "queued" THEN return ELSE write
           /\ UNCHANGED challenge
        \/ /\ challenge[o].status = "draft" /\ challenge[o].fresh
           /\ challenge' = [challenge EXCEPT ![o].status = "confirmed", ![o].key = key]
           /\ click' = write
        \/ /\ ~SameKey(o, key)
           /\ ~(challenge[o].status = "draft" /\ challenge[o].fresh)
           /\ click' = return
           /\ UNCHANGED challenge
     /\ UNCHANGED <<file, clicks, written, owed>>

\* queue_manual_order replaces the file, whatever is in it, or fails.
Write(k) ==
  LET o == click[k].order
  IN /\ click[k].at = "confirmed"
     /\ \/ /\ file' = [order |-> o, fresh |-> TRUE]
           /\ written' = [written EXCEPT ![o] = @ \cup {click[k].key}]
           /\ owed' = [owed EXCEPT ![o] = @ + 1]
           /\ click' = [click EXCEPT ![k].at = "written"]
        \/ /\ click' = [click EXCEPT ![k] = Free]
           /\ UNCHANGED <<file, written, owed>>
     /\ UNCHANGED <<challenge, clicks>>

\* mark_challenge_queued
Queue(k) ==
  LET o == click[k].order
  IN /\ click[k].at = "written"
     /\ challenge' = [challenge EXCEPT ![o].status =
                        IF challenge[o].key = click[k].key THEN "queued" ELSE @]
     /\ click' = [click EXCEPT ![k] = Free]
     /\ UNCHANGED <<file, clicks, written, owed>>

\* Two minutes after the file was written.
FileAges ==
  /\ file.order /= "none" /\ file.fresh
  /\ file' = [file EXCEPT !.fresh = FALSE]
  /\ UNCHANGED <<challenge, click, clicks, written, owed>>

\* The control plane dies: the requests in flight are gone.
ControlDies ==
  /\ \E k \in Clicks : click[k] /= Free
  /\ click' = [k \in Clicks |-> Free]
  /\ UNCHANGED <<challenge, file, clicks, written, owed>>

\* The engine sees a request for pair p.
Waiting(p) == file.order /= "none" /\ challenge[file.order].pair = p

\* claim_manual_order_request unlinks the file it has read, or the one that has
\* replaced it meanwhile.
Unlink ==
  /\ file' = NoFile
  /\ UNCHANGED <<challenge, click, clicks, written, owed>>

Control ==
  \/ \E o \in Challenges : Preview(o) \/ PreviewExpires(o)
  \/ \E k \in Clicks :
       \/ \E o \in Challenges, key \in Keys : Check(k, o, key)
       \/ Confirm(k) \/ Write(k) \/ Queue(k)
  \/ FileAges
  \/ ControlDies

OrdersTypeOK ==
  /\ challenge \in [Challenges -> Rows]
  /\ click \in [Clicks -> Requests]
  /\ file \in Files
  /\ clicks \in 0..MaxClicks
  /\ written \in [Challenges -> SUBSET Keys]
  /\ owed \in [Challenges -> Int]
=============================================================================
