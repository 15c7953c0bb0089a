--------------------------- MODULE DeliveryHistory ---------------------------
(***************************************************************************)
(* Delivery with the history that its promise is about: how many attempts  *)
(* were made of each row, which the stored count forgets in a restart and  *)
(* in an operator's retry, and which rows held content that had to go.  No *)
(* action of Delivery reads or is limited by either.                       *)
(***************************************************************************)
EXTENDS Delivery

VARIABLES
  tried,     \* attempts begun of each row, up to MaxAttempts
  withdrawn  \* rows whose content was too old, or erased from its last event

historyVars == <<vars, tried, withdrawn>>

HistoryInit ==
  /\ Init
  /\ tried = [id \in Ids |-> 0]
  /\ withdrawn = {}

(* The pool takes a captured row and attempts it, with a URL or without.    *)
Attempted(id) ==
  /\ job[id].phase = "queued" /\ job'[id].phase \in {"fetching", "refused"}
  /\ tried[id] < MaxAttempts

(* The row is past the window of its content, or each of its events is now  *)
(* an erased one.                                                           *)
Withdrawn(id) ==
  /\ Stored(id)
  /\ rows'[id].age >= 1 \/ rows[id].body.events \subseteq erased'

HistoryNext ==
  /\ Next
  /\ tried' = [id \in Ids |-> IF Attempted(id) THEN tried[id] + 1 ELSE tried[id]]
  /\ withdrawn' = withdrawn \cup {id \in Ids : Withdrawn(id)}

HistorySpec == HistoryInit /\ [][HistoryNext]_historyVars

-----------------------------------------------------------------------------
(* Properties.                                                             *)

Says(id) ==
  CASE rows[id].status = "pending" -> "open"
    [] rows[id].status = "gone" -> "deleted"
    [] OTHER -> rows[id].status

(* A subscriber that got an emptied body has not got the batch. *)
DeliveryPromise == INSTANCE QueuePromise WITH
  Accepted <- Ids,
  Tries <- MaxAttempts,
  outcome <- [id \in Ids |-> Says(id)],
  processed <- {id \in Ids : \E b \in got[id] : b.events # {}},
  asked <- MaxCalls - calls

(* Retention, erasure, retries and restarts may change a row while the pool  *)
(* forwards what it has captured of it: still, a batch is called delivered   *)
(* only if the subscriber has it, failed only after FORWARD_MAX_ATTEMPTS     *)
(* attempts, is deleted while it waits only if its content had to go, and is *)
(* queued again only by an operator.                                         *)
DeliveryKeepsPromise == DeliveryPromise!Safe
=============================================================================
