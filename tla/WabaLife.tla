------------------------------ MODULE WabaLife ------------------------------
(* The life of a registered WhatsApp Business account (WABA) as the webhook  *)
(* path and the send routes see it: its status and its phone numbers. What   *)
(* moves it is the handoff of an Embedded Signup, the provisioning saga and  *)
(* an operator. Provisioning implements it; HeldWebhooks is built on it.     *)
(* `registerWabas`, which no route calls, is left out.                       *)
CONSTANT Phones

VARIABLES
  status,  \* wabas.status; "none" before the WABA is registered
  phones   \* the rows of `phones` of the WABA

lifeVars == <<status, phones>>

LifeTypeOK ==
  /\ status \in {"none", "pending", "active", "failed"}
  /\ phones \subseteq Phones

LifeInit == status = "none" /\ phones = {}

(* An empty list means the handoff named no number, not that there is none.  *)
HandoffPhones(ps) == IF ps = {} THEN phones ELSE ps

Handoff(ps) ==
  /\ status' = "pending"
  /\ phones' = HandoffPhones(ps)

Requeue ==
  /\ status \in {"pending", "failed"}
  /\ status' = "pending"
  /\ UNCHANGED phones

(* Only fills a gap.                                                         *)
Adopt(ps) ==
  /\ status = "pending" /\ phones = {} /\ ps # {}
  /\ phones' = ps
  /\ UNCHANGED status

Activate ==
  /\ status = "pending" /\ phones # {}
  /\ status' = "active"
  /\ UNCHANGED phones

Fail ==
  /\ status = "pending"
  /\ status' = "failed"
  /\ UNCHANGED phones

LifeNext ==
  \/ \E ps \in SUBSET Phones : Handoff(ps) \/ Adopt(ps)
  \/ Requeue
  \/ Activate
  \/ Fail

(* What the rest of the gateway may assume of a WABA: only a handoff takes an *)
(* active one back to pending or changes its numbers, and it is never active *)
(* without a number (control-plane.ts: "active implies a usable number").    *)
LifeSpec == LifeInit /\ [][LifeNext]_lifeVars
=============================================================================
