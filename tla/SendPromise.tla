------------------------------ MODULE SendPromise ------------------------------
(***************************************************************************)
(* What the gateway promises of a message it sends on its own, a recipient *)
(* of a broadcast or a scheduled send: Meta takes it at most once, its     *)
(* outcome is true, and an outcome is never taken back.                    *)
(*                                                                         *)
(* A step may move many messages, each by one of the moves below.          *)
(***************************************************************************)
EXTENDS Naturals

CONSTANT Messages

VARIABLES
  status,  \* what the gateway tells of a message
  taken    \* how often Meta took it

vars == <<status, taken>>

Status == {"none", "open", "sent", "failed", "unknown", "cancelled", "erased"}

Init ==
  /\ status = [m \in Messages |-> "none"]
  /\ taken = [m \in Messages |-> 0]

Stays(m) == status'[m] = status[m] /\ taken'[m] = taken[m]

Accept(m) == status[m] = "none" /\ status'[m] = "open" /\ taken'[m] = taken[m]

(* A message erased while its send is on the way may still reach Meta. *)
Take(m) ==
  /\ status[m] \in {"open", "erased"}
  /\ taken[m] = 0
  /\ status'[m] = status[m]
  /\ taken'[m] = 1

(* Who is told "sent" knows that Meta took the message, who is told "failed" *)
(* or "cancelled" that it did not; "unknown" tells neither.                  *)
Settle(m) ==
  /\ status[m] = "open"
  /\ \/ status'[m] = "sent" /\ taken[m] = 1
     \/ status'[m] \in {"failed", "cancelled"} /\ taken[m] = 0
     \/ status'[m] = "unknown"
  /\ taken'[m] = taken[m]

(* An erasure or the retention deletes what is stored of a message. *)
Erase(m) ==
  /\ status[m] # "none"
  /\ status'[m] = "erased"
  /\ taken'[m] = taken[m]

Next ==
  /\ status' \in [Messages -> Status]
  /\ taken' \in [Messages -> Nat]
  /\ \A m \in Messages :
       Stays(m) \/ Accept(m) \/ Take(m) \/ Settle(m) \/ Erase(m)

Spec == Init /\ [][Next]_vars
=============================================================================
