---------------------------- MODULE HeldWebhooks ----------------------------
(* The webhook path of one WABA: the worker routes each batch by the WABA's  *)
(* status, and a batch that arrives while the WABA is pending is held in the *)
(* gateway object until the WABA is active. The worker, the control plane    *)
(* and the gateway object only call each other, so each call is a step and   *)
(* the WABA may change between any two of them.                              *)
EXTENDS WabaLife, Naturals, Sequences

CONSTANTS
  Batches,       \* webhook batches of the WABA
  NoPhone,
  PhoneOf,       \* PhoneOf[b]: the number of a batch, or NoPhone
  MaxHeld,       \* HELD_MAX_EVENTS, counted in batches
  MaxRepeats,    \* bound: batches Meta delivers again after a 200
  MaxHookFaults, \* bound: calls of this path that fail
  MaxReconnects  \* bound: handoffs of the WABA

ASSUME HeldAssumption ==
  /\ NoPhone \notin Phones
  /\ PhoneOf \in [Batches -> Phones \cup {NoPhone}]
  /\ MaxHeld \in Nat

VARIABLES
  hook,       \* the request that delivers each batch, and its phone list
  held,       \* the rows of held_webhooks, in the order of their ids
  ingested,   \* batches in inbound_events
  verdict,    \* why a batch was given up; only the properties read it
  releases,   \* releaseHeld calls on their way, each a phone list
  stranded,   \* a call that would have released the hold failed since the
              \* last release; only the properties read it
  repeats, hookFaults, reconnects  \* what is left of the bounds

hookVars == <<hook, held, ingested, verdict, releases, stranded,
              repeats, hookFaults, reconnects>>
heldVars == <<lifeVars, hookVars>>

Hook == [pc : {"new", "hold", "recheck", "ingest", "done"},
         list : SUBSET Phones]

HeldTypeOK ==
  /\ LifeTypeOK
  /\ hook \in [Batches -> Hook]
  /\ held \in Seq(Batches) /\ Len(held) <= MaxHeld
  /\ ingested \subseteq Batches
  /\ verdict \in [Batches -> {"none", "ignored", "full", "discarded", "expired"}]
  /\ releases \subseteq SUBSET Phones
  /\ stranded \in BOOLEAN

HeldInit ==
  /\ LifeInit
  /\ hook = [b \in Batches |-> [pc |-> "new", list |-> {}]]
  /\ held = <<>>
  /\ ingested = {}
  /\ verdict = [b \in Batches |-> "none"]
  /\ releases = {}
  /\ stranded = FALSE
  /\ repeats = MaxRepeats /\ hookFaults = MaxHookFaults
  /\ reconnects = MaxReconnects

-----------------------------------------------------------------------------
HasRoom == Len(held) < MaxHeld

HeldSet == {held[i] : i \in DOMAIN held}

Registered(b, ps) == PhoneOf[b] = NoPhone \/ PhoneOf[b] \in ps

Goto(b, pc) == hook' = [hook EXCEPT ![b] = [pc |-> pc, list |-> {}]]

GiveUp(S, why) ==
  verdict' = [b \in Batches |-> IF b \in S THEN why ELSE verdict[b]]

Spend == hookFaults > 0 /\ hookFaults' = hookFaults - 1

(* routeBatch: an active WABA's phone list is kept until the ingest answers. *)
Route(b) ==
  /\ hook[b].pc = "new"
  /\ \/ /\ status = "pending"
        /\ Goto(b, "hold")
        /\ UNCHANGED verdict
     \/ /\ status = "active" /\ Registered(b, phones)
        /\ hook' = [hook EXCEPT ![b] = [pc |-> "ingest", list |-> phones]]
        /\ UNCHANGED verdict
     \/ /\ IF status = "active" THEN ~Registered(b, phones)
                                ELSE status # "pending"
        /\ Goto(b, "done")
        /\ GiveUp({b}, "ignored")
  /\ UNCHANGED <<lifeVars, held, ingested, releases, stranded,
                 repeats, hookFaults, reconnects>>

(* A failed lookup is answered 200 like an unknown WABA.                     *)
RouteFails(b) ==
  /\ hook[b].pc = "new" /\ Spend
  /\ Goto(b, "done")
  /\ GiveUp({b}, "ignored")
  /\ UNCHANGED <<lifeVars, held, ingested, releases, stranded,
                 repeats, reconnects>>

(* Slip: the WABA is not read again after the hold. *)
HoldAndLeave(b) ==
  /\ hook[b].pc = "hold"
  /\ Goto(b, "done")
  /\ IF HasRoom THEN held' = Append(held, b) /\ UNCHANGED verdict
                ELSE GiveUp({b}, "full") /\ UNCHANGED held
  /\ UNCHANGED <<lifeVars, ingested, releases, stranded,
                 repeats, hookFaults, reconnects>>

(* holdBatch: the row is written unless the hold is full.                    *)
Hold(b) ==
  /\ hook[b].pc = "hold"
  /\ IF HasRoom
     THEN /\ held' = Append(held, b)
          /\ Goto(b, "recheck")
          /\ UNCHANGED verdict
     ELSE /\ Goto(b, "done")
          /\ GiveUp({b}, "full")
          /\ UNCHANGED held
  /\ UNCHANGED <<lifeVars, ingested, releases, stranded,
                 repeats, hookFaults, reconnects>>

(* The call throws, whether or not the row was written: 503, Meta retries.   *)
HoldFails(b) ==
  /\ hook[b].pc = "hold" /\ Spend
  /\ \/ UNCHANGED <<held, stranded>>
     \/ /\ HasRoom
        /\ held' = Append(held, b)
        /\ stranded' = TRUE
  /\ Goto(b, "new")
  /\ UNCHANGED <<lifeVars, ingested, verdict, releases, repeats, reconnects>>

(* After the hold the worker reads the WABA again and releases if it is      *)
(* active by now; a read that fails releases nothing.                        *)
Recheck(b) ==
  /\ hook[b].pc = "recheck"
  /\ Goto(b, "done")
  /\ releases' = IF status = "active" THEN releases \cup {phones} ELSE releases
  /\ UNCHANGED <<lifeVars, held, ingested, verdict, stranded,
                 repeats, hookFaults, reconnects>>

RecheckFails(b) ==
  /\ hook[b].pc = "recheck" /\ Spend
  /\ Goto(b, "done")
  /\ stranded' = TRUE
  /\ UNCHANGED <<lifeVars, held, ingested, verdict, releases,
                 repeats, reconnects>>

(* ingest stores each event once, and tells of a hold that still waits. The  *)
(* worker then releases it with the list its routing read.                   *)
Ingest(b) ==
  /\ hook[b].pc = "ingest"
  /\ ingested' = ingested \cup {b}
  /\ releases' = IF held # <<>> THEN releases \cup {hook[b].list} ELSE releases
  /\ Goto(b, "done")
  /\ UNCHANGED <<lifeVars, held, verdict, stranded,
                 repeats, hookFaults, reconnects>>

IngestFails(b) ==
  /\ hook[b].pc = "ingest" /\ Spend
  /\ ingested' \in {ingested, ingested \cup {b}}
  /\ Goto(b, "new")
  /\ UNCHANGED <<lifeVars, held, verdict, releases, stranded,
                 repeats, reconnects>>

(* Meta may deliver a batch again although it was answered.                  *)
Repeat(b) ==
  /\ hook[b].pc = "done" /\ repeats > 0
  /\ repeats' = repeats - 1
  /\ Goto(b, "new")
  /\ GiveUp({b}, "none")
  /\ UNCHANGED <<lifeVars, held, ingested, releases, stranded,
                 hookFaults, reconnects>>

-----------------------------------------------------------------------------
(* Slip: a release clears the hold, however far it got. *)
ReleaseRowsThenClear(ps, n) ==
  LET rows == {held[i] : i \in 1..n} IN
  /\ ingested' = ingested \cup {b \in rows : Registered(b, ps)}
  /\ GiveUp({b \in rows : ~Registered(b, ps)}, "discarded")
  /\ held' = <<>>

(* releaseHeld over the first n rows: those of the list's numbers are        *)
(* ingested, the others discarded, and each row is deleted.                  *)
ReleaseRows(ps, n) ==
  LET rows == {held[i] : i \in 1..n} IN
  /\ ingested' = ingested \cup {b \in rows : Registered(b, ps)}
  /\ GiveUp({b \in rows : ~Registered(b, ps)}, "discarded")
  /\ held' = SubSeq(held, n + 1, Len(held))

Release(ps) ==
  /\ ps \in releases
  /\ releases' = releases \ {ps}
  /\ ReleaseRows(ps, Len(held))
  /\ stranded' = FALSE
  /\ UNCHANGED <<lifeVars, hook, repeats, hookFaults, reconnects>>

(* releaseHeldBatches swallows a failure, wherever the call broke off.       *)
ReleaseFails(ps) ==
  /\ ps \in releases /\ Spend
  /\ releases' = releases \ {ps}
  /\ \E n \in 0..Len(held) : ReleaseRows(ps, n)
  /\ stranded' = TRUE
  /\ UNCHANGED <<lifeVars, hook, repeats, reconnects>>

(* The sweep drops what was held for longer than HELD_MAX_AGE_MS.            *)
ExpireHeld ==
  /\ held # <<>>
  /\ held' = Tail(held)
  /\ GiveUp({Head(held)}, "expired")
  /\ UNCHANGED <<lifeVars, hook, ingested, releases, stranded,
                 repeats, hookFaults, reconnects>>

-----------------------------------------------------------------------------
(* The WABA's own life. A run that finds the WABA active after its           *)
(* completion releases the hold, its own completion or another's.            *)
Reconnect ==
  /\ reconnects > 0
  /\ reconnects' = reconnects - 1
  /\ \E ps \in SUBSET Phones : Handoff(ps)
  /\ UNCHANGED <<hook, held, ingested, verdict, releases, stranded,
                 repeats, hookFaults>>

Provision ==
  /\ \/ Requeue
     \/ Fail
     \/ \E ps \in SUBSET Phones : Adopt(ps)
  /\ UNCHANGED hookVars

RunCompletes ==
  /\ \/ Activate
     \/ status = "active" /\ UNCHANGED lifeVars
  /\ releases' = releases \cup {phones}
  /\ UNCHANGED <<hook, held, ingested, verdict, stranded,
                 repeats, hookFaults, reconnects>>

RunDiesActive ==
  /\ Activate /\ Spend
  /\ stranded' = TRUE
  /\ UNCHANGED <<hook, held, ingested, verdict, releases, repeats, reconnects>>

WebhookStep ==
  \/ \E b \in Batches :
       \/ Route(b) \/ RouteFails(b)
       \/ Hold(b) \/ HoldFails(b)
       \/ Recheck(b) \/ RecheckFails(b)
       \/ Ingest(b) \/ IngestFails(b)
       \/ Repeat(b)
  \/ \E ps \in releases : Release(ps) \/ ReleaseFails(ps)
  \/ ExpireHeld

HeldNext ==
  \/ WebhookStep
  \/ Reconnect
  \/ Provision
  \/ RunCompletes
  \/ RunDiesActive

HeldSpec == HeldInit /\ [][HeldNext]_heldVars

-----------------------------------------------------------------------------
(* Properties.                                                               *)

(* A hold that lands just after the activation released is not left behind:  *)
(* while the WABA is active, whatever is held has a release on its way or a  *)
(* worker that is still to look, unless one of these calls failed.           *)
HeldIsAwaited ==
  status = "active" /\ held # <<>> =>
    \/ releases # {}
    \/ \E b \in Batches : hook[b].pc = "recheck"
    \/ stranded

(* "Meta does not resend a webhook answered 200": a batch that was answered  *)
(* is stored, held, or was given up for a reason the log tells.              *)
AnsweredIsKept ==
  \A b \in Batches :
    hook[b].pc = "done" => b \in ingested \cup HeldSet \/ verdict[b] # "none"
=============================================================================
