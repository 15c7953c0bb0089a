----------------------------- MODULE WabaSystem -----------------------------
(***************************************************************************)
(* One WABA with its provisioning saga and its webhook path. They share    *)
(* the row of the WABA, which the saga writes and the worker reads for     *)
(* each batch, and they meet in two calls: a handoff starts the saga anew, *)
(* and a run whose completion finds the row active releases what was held. *)
(***************************************************************************)
EXTENDS Provisioning, HeldWebhooks

(* The saga's own variables, without the row that both see. *)
sagaVars == <<revision, attempts, wait, onboarding, verified, started, settled,
              windowOpen, run, readFailed, ghostVars, boundVars>>
systemVars == <<lifeVars, sagaVars, hookVars>>

SystemInit == ProvisioningInit /\ HeldInit

(* The worker, the gateway object and Meta: none of them writes the row. *)
WebhookMoves == WebhookStep /\ UNCHANGED sagaVars

(* A handoff of the WABA, the first or a later one. *)
HandedOver ==
  /\ reconnects > 0 /\ reconnects' = reconnects - 1
  /\ \E ps \in SUBSET Phones, type \in {"standard", "coexistence"} :
       Register(ps, type)
  /\ UNCHANGED <<hook, held, ingested, verdict, releases, stranded, repeats,
                 hookFaults>>

(* runClaim: the answer to a reported success is the row as it is then. When *)
(* it is active, whichever run made it so, the hold is released with its     *)
(* numbers.                                                                  *)
FindsActive(r) ==
  Complete(r) /\ run[r].outcome = "success" /\ status' = "active"

CompletesAndReleases(r) ==
  /\ FindsActive(r)
  /\ releases' = releases \cup {phones}
  /\ UNCHANGED <<hook, held, ingested, verdict, stranded, repeats, hookFaults,
                 reconnects>>

(* The run dies or its answer is lost when it has made the row active. *)
CompletesOnly(r) ==
  /\ FindsActive(r) \/ CompleteFails(r)
  /\ status = "pending" /\ status' = "active"
  /\ Spend /\ stranded' = TRUE
  /\ UNCHANGED <<hook, held, ingested, verdict, releases, repeats, reconnects>>

(* The webhook path is not told of anything else that the saga does. *)
SagaMoves ==
  /\ \/ ReadFailed \/ Retry \/ HistorySharingOff \/ WindowCloses \/ Elapse
     \/ \E k \in Kinds : Reset(k) \/ Settle(k)
     \/ \E r \in Runs :
          \/ Claim(r) \/ RunDies(r)
          \/ RunStep(r) /\ ~FindsActive(r)
          \/ CompleteFails(r) /\ status' = status
  /\ UNCHANGED hookVars

SystemNext ==
  \/ WebhookMoves
  \/ HandedOver
  \/ \E r \in Runs : CompletesAndReleases(r) \/ CompletesOnly(r)
  \/ SagaMoves

SystemSpec == SystemInit /\ [][SystemNext]_systemVars
=============================================================================
