--------------------------- MODULE MCControlPlane ---------------------------
(* Small instances of the connect flow, the provisioning saga, the webhook   *)
(* path, and the last two together. The connect flow is about owners of      *)
(* WABAs, the others about one WABA of one owner. A behaviour runs one part: *)
(* the saga against its own row, the webhooks against any life of a WABA,    *)
(* the two of them with one number and one batch. The saga alone comes in    *)
(* three parts: with a WABA of two numbers, with one that is handed over     *)
(* again while runs of the first handoff go on, and with two operators.      *)
EXTENDS WabaSystem, Connect

CONSTANTS
  p1, p2, b1, b2,          \* two numbers of the WABA, a batch for each
  a1, a2, w1, w2, n1, n2,  \* two accounts, two WABAs and their numbers
  g1, g2                   \* two flows

VARIABLE part

controlVars == <<provisioningVars, hookVars, connectVars, part>>

MCPhoneOf == [b \in Batches |-> IF b = b1 THEN p1 ELSE p2]
(* Each number in its WABA, both in one, or one listed twice as it moves.    *)
MCListings ==
  {[w \in Wabas |-> IF w = w1 THEN l[1] ELSE l[2]] :
     l \in {<<{n1}, {}>>, <<{n1}, {n2}>>, <<{n1, n2}, {}>>, <<{n1}, {n1}>>}}

ControlInit ==
  /\ ProvisioningInit /\ HeldInit /\ ConnectInit
  /\ part \in {"numbers", "handoffs", "operators", "hooks", "system",
              "connect"}

OneNumber == phones' \subseteq {p1}
NoOperator == rechecks' = 0

(* Runs are alike: the second one starts only beside the first.              *)
FirstRunFirst ==
  run["r2"].pc = "idle" /\ run'["r2"].pc # "idle" => run["r1"].pc # "idle"

SagaNext ==
  /\ ProvisioningNext /\ FirstRunFirst
  /\ \/ /\ part = "numbers" /\ phones' \in {{}, {p1, p2}}
        /\ handoffs' <= 1 /\ NoOperator
     \/ part = "handoffs" /\ OneNumber /\ NoOperator
     \/ part = "operators" /\ OneNumber /\ handoffs' <= 1 /\ faults' = 0
  /\ UNCHANGED <<hookVars, connectVars>>

(* One batch, a standard WABA that is handed over twice with its number, and *)
(* a second run that is only for the second handoff.                         *)
SystemPart ==
  /\ SystemNext /\ FirstRunFirst
  /\ phones' = {p1} /\ NoOperator
  /\ onboarding' = "standard"
  /\ run'["r2"].claim.handoff # 1
  /\ hook'[b2].pc = "new" /\ repeats' = MaxRepeats
  /\ UNCHANGED connectVars

(* Accounts are alike, and so are WABAs that are asked for.                  *)
ConnectPart ==
  /\ ConnectNext
  /\ flow'[g1].account # a2
  /\ \A f \in Flows : flow'[f].selector # w2
  /\ UNCHANGED <<provisioningVars, hookVars>>

ControlNext ==
  /\ part' = part
  /\ \/ SagaNext
     \/ part = "hooks" /\ HeldNext /\ UNCHANGED <<sagaVars, connectVars>>
     \/ part = "system" /\ SystemPart
     \/ part = "connect" /\ ConnectPart

ControlSpec == ControlInit /\ [][ControlNext]_controlVars

(* The saga's fairness rules out the behaviours of the webhooks that leave a *)
(* WABA pending, which PendingEnds is not about.                             *)
ControlFair == ControlSpec /\ ProvisioningFairness
=============================================================================
