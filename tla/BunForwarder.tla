---------------------------- MODULE BunForwarder -----------------------------
(* The delivery loop of the single-process target. A webhook stores its      *)
(* batch and starts a pass over the queue, and so does a timer every five    *)
(* seconds, whether or not earlier passes are over: they share the table and *)
(* nothing else. A pass reads up to a batch of due rows once and forwards    *)
(* them one after the other, awaiting the subscriber for each.               *)
EXTENDS Naturals, Sequences, FiniteSets

CONSTANTS
  Entries,             \* rows of deliveries by id
  Passes,              \* bound: passes at a time
  PassSize,            \* the LIMIT of a pass
  ForwardMaxAttempts,  \* FORWARD_MAX_ATTEMPTS
  MaxBunRestarts       \* bound: restarts of the process

ASSUME BunAssumption ==
  /\ Entries \subseteq Nat /\ IsFiniteSet(Entries)
  /\ PassSize \in Nat \ {0} /\ ForwardMaxAttempts \in Nat \ {0}
  /\ MaxBunRestarts \in Nat

VARIABLES
  entry,      \* deliveries
  pass,       \* each pass: the rows it has read and not yet done
  reached,    \* the batches the subscriber has processed
  tries,      \* attempts made of each row, up to ForwardMaxAttempts
  bunRestarts

bunVars == <<entry, pass, reached, tries, bunRestarts>>

(* `hit`: the subscriber has processed the batch in this attempt.            *)
Idle == [todo |-> <<>>, hit |-> FALSE]

BunTypeOK ==
  /\ entry \in [Entries ->
       [status : {"none", "pending", "delivered", "failed", "deleted"},
        attempts : 0..ForwardMaxAttempts, due : BOOLEAN]]
  /\ pass \in [Passes -> [todo : Seq([id : Entries, attempts : Nat]),
                          hit : BOOLEAN]]
  /\ reached \subseteq Entries
  /\ tries \in [Entries -> 0..ForwardMaxAttempts]

BunInit ==
  /\ entry = [d \in Entries |->
                [status |-> "none", attempts |-> 0, due |-> FALSE]]
  /\ pass = [p \in Passes |-> Idle]
  /\ reached = {} /\ tries = [d \in Entries |-> 0] /\ bunRestarts = 0

-----------------------------------------------------------------------------
(* The rows a pass reads: the oldest that are pending and due, in order.     *)
DueEntries(rows) == {d \in Entries : rows[d].status = "pending" /\ rows[d].due}
Nth(i, due) == CHOOSE d \in due : Cardinality({e \in due : e <= d}) = i
Read(rows) ==
  LET due == DueEntries(rows)
      n == IF Cardinality(due) < PassSize THEN Cardinality(due) ELSE PassSize
  IN [i \in 1..n |-> [id |-> Nth(i, due), attempts |-> rows[Nth(i, due)].attempts]]

(* Slip: old rows go whatever became of them. *)
PrunableAtAnyStatus(rows) == {d \in Entries : rows[d].status # "none"}

(* pruneOldRows ends a pass; which rows are old enough is left open.         *)
Prunable(rows) == {d \in Entries : rows[d].status \in {"delivered", "failed"}}
Pruned(rows, old) ==
  [d \in Entries |-> IF d \in old THEN [rows[d] EXCEPT !.status = "deleted"]
                                  ELSE rows[d]]

(* A pass from the rows it finds: one with nothing to forward ends at once.  *)
StartsPass(p, rows) ==
  /\ pass[p] = Idle
  /\ pass' = [pass EXCEPT ![p].todo = Read(rows)]
  /\ IF Read(rows) # <<>> THEN entry' = rows
     ELSE \E old \in SUBSET Prunable(rows) : entry' = Pruned(rows, old)

(* POST /webhooks/meta: enqueueDelivery, then processPending without await.  *)
WebhookStored(d, p) ==
  /\ entry[d].status = "none"
  /\ \A e \in Entries : e < d => entry[e].status # "none"
  /\ StartsPass(p, [entry EXCEPT ![d] =
       [status |-> "pending", attempts |-> 0, due |-> TRUE]])
  /\ UNCHANGED <<reached, tries, bunRestarts>>

LoopFires(p) ==
  /\ StartsPass(p, entry)
  /\ UNCHANGED <<reached, tries, bunRestarts>>

(* The subscriber processes the batch of the attempt in flight.              *)
SubscriberGets(p) ==
  /\ pass[p].todo # <<>> /\ ~pass[p].hit
  /\ pass' = [pass EXCEPT ![p].hit = TRUE]
  /\ reached' = reached \cup {Head(pass[p].todo).id}
  /\ UNCHANGED <<entry, tries, bunRestarts>>

(* The row after an attempt that read `attempts`: an UPDATE by id alone. The *)
(* backoff runs from the start of the pass, so it may be over already.       *)
After(row, attempts, ok, due) ==
  CASE row.status = "deleted" -> row
    [] row.status # "deleted" /\ ok ->
         [row EXCEPT !.status = "delivered", !.attempts = attempts]
    [] row.status # "deleted" /\ ~ok /\ attempts >= ForwardMaxAttempts ->
         [row EXCEPT !.status = "failed", !.attempts = attempts]
    [] OTHER -> [row EXCEPT !.attempts = attempts, !.due = due]

(* The attempt comes back: 2xx, an error, a timeout although the subscriber  *)
(* has the batch, or no subscriber is configured. The last one of the pass   *)
(* is followed by the retention.                                             *)
AttemptEnds(p) ==
  /\ pass[p].todo # <<>>
  /\ LET job == Head(pass[p].todo) IN
     \E ok \in (IF pass[p].hit THEN BOOLEAN ELSE {FALSE}), due \in BOOLEAN :
       LET rows == [entry EXCEPT ![job.id] = After(@, job.attempts + 1, ok, due)]
       IN
       /\ pass' = [pass EXCEPT ![p] = [todo |-> Tail(@.todo), hit |-> FALSE]]
       /\ tries' = [tries EXCEPT ![job.id] =
                     IF @ < ForwardMaxAttempts THEN @ + 1 ELSE @]
       /\ IF Len(pass[p].todo) > 1 THEN entry' = rows
          ELSE \E old \in SUBSET Prunable(rows) : entry' = Pruned(rows, old)
  /\ UNCHANGED <<reached, bunRestarts>>

BackoffOver(d) ==
  /\ entry[d].status = "pending" /\ ~entry[d].due
  /\ entry' = [entry EXCEPT ![d].due = TRUE]
  /\ UNCHANGED <<pass, reached, tries, bunRestarts>>

(* The passes are lost with the process, the table is not.                   *)
BunRestarts ==
  /\ bunRestarts < MaxBunRestarts /\ bunRestarts' = bunRestarts + 1
  /\ pass' = [p \in Passes |-> Idle]
  /\ UNCHANGED <<entry, reached, tries>>

BunNext ==
  \/ \E p \in Passes :
       \/ \E d \in Entries : WebhookStored(d, p)
       \/ LoopFires(p) \/ SubscriberGets(p) \/ AttemptEnds(p)
  \/ \E d \in Entries : BackoffOver(d)
  \/ BunRestarts

BunSpec == BunInit /\ [][BunNext]_bunVars

(* The timer goes on firing, attempts are answered or time out, and backoffs *)
(* end.                                                                      *)
BunFairness ==
  /\ WF_bunVars(Read(entry) # <<>> /\ \E p \in Passes : LoopFires(p))
  /\ WF_bunVars(\E p \in Passes : AttemptEnds(p))
  /\ WF_bunVars(\E d \in Entries : BackoffOver(d))

FairBun == BunSpec /\ BunFairness

-----------------------------------------------------------------------------
(* Properties.                                                               *)

BunPromise == INSTANCE QueuePromise WITH
  Accepted <- Entries,
  Tries <- ForwardMaxAttempts,
  outcome <- [d \in Entries |-> IF entry[d].status = "pending" THEN "open"
                                                              ELSE entry[d].status],
  processed <- reached,
  tried <- tries,
  withdrawn <- {},
  asked <- 0

(* Passes that overlap hold the same row, count its attempts from what they  *)
(* read and overwrite each other: still, a batch is called delivered only if *)
(* the subscriber has it, is given up or deleted only after every attempt it *)
(* is due.                                                                   *)
QueueIsHonest == BunPromise!Safe

(* And none is retried for ever, although attempts are forgotten.            *)
QueueKeepsPromise == QueueIsHonest /\ BunPromise!Ends
=============================================================================
