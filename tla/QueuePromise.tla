---------------------------- MODULE QueuePromise -----------------------------
(* What a forwarding queue promises of each batch it has accepted: it calls  *)
(* it delivered only if the subscriber has it, gives it up only after so     *)
(* many attempts, deletes it only once it was one or the other or its        *)
(* content had to go, takes it up again only when it is asked to, and comes  *)
(* to an end with it. A late outcome may still replace an earlier one.       *)
EXTENDS Naturals

CONSTANTS
  Accepted,  \* the batches
  Tries      \* attempts before a batch is given up

VARIABLES
  outcome,    \* what the queue says of each batch
  processed,  \* the batches whose content the subscriber has
  tried,      \* attempts made of each batch
  withdrawn,  \* the batches whose content had to go: too old, or erased
  asked       \* how often an operator has asked for something

promiseVars == <<outcome, processed, tried, withdrawn, asked>>

Init ==
  /\ outcome = [d \in Accepted |-> "none"]
  /\ processed = {}
  /\ tried = [d \in Accepted |-> 0]
  /\ withdrawn = {}
  /\ asked = 0

Ended(d) == outcome[d] \in {"delivered", "failed"}

MayBe(d, new) ==
  CASE new = "open" -> outcome[d] = "none" \/ (Ended(d) /\ asked < asked')
    [] new = "delivered" -> outcome[d] # "deleted" /\ d \in processed
    [] new = "failed" -> outcome[d] # "deleted" /\ tried'[d] >= Tries
    [] new = "deleted" -> \/ d \in processed
                          \/ tried'[d] >= Tries
                          \/ d \in withdrawn'
    [] OTHER -> FALSE

Next ==
  /\ processed \subseteq processed'
  /\ withdrawn \subseteq withdrawn'
  /\ asked <= asked'
  /\ \A d \in Accepted :
       /\ tried[d] <= tried'[d]
       /\ outcome'[d] # outcome[d] => MayBe(d, outcome'[d])

(* Over finitely many batches: nothing stays open.                           *)
Ends == []<>(\A d \in Accepted : outcome[d] # "open")

(* What is said of a batch is true at all times.                             *)
Safe == Init /\ [][Next]_promiseVars

Spec == Safe /\ Ends
=============================================================================
