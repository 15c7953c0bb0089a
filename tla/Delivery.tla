------------------------------ MODULE Delivery ------------------------------
(***************************************************************************)
(* The delivery queue of one EccosGateway Durable Object: `ingest` writes  *)
(* a webhook's events and one `deliveries` row in a single transaction,    *)
(* and `alarm` drains the rows to the subscriber with a bounded pool.      *)
(*                                                                         *)
(* Durable Object requests interleave with a running alarm at its awaits   *)
(* on fetch and RPC, never at its storage calls, and the alarm never       *)
(* overlaps itself.  An action is therefore the code between two awaits.   *)
(*                                                                         *)
(* Times are counted down: a row's `wait` and the alarm's delay are the    *)
(* time that is left, so that a run needs no horizon.                      *)
(***************************************************************************)
EXTENDS Integers, FiniteSets

CONSTANTS
  Ids,            \* the AUTOINCREMENT ids of the deliveries table
  Events,         \* webhook events, by identity (transport message id, type)
  Wamids,         \* messages sent with an origin, which status events name
  Customers,      \* the customers an erasure can name
  NoWamid,        \* what an event that is not a status names
  NoBatch,        \* an event that inbound_events does not hold
  NoAlarm,        \* no alarm is armed
  About,          \* event -> the wamid it is a status of, or NoWamid
  CustomerOf,     \* event -> the customer it is from or about
  MaxAttempts,    \* FORWARD_MAX_ATTEMPTS
  BatchSize,      \* ALARM_BATCH
  PoolSize,       \* ALARM_MAX_CONCURRENCY
  Backoff,        \* attempts made -> delay before the next one (backoffMs)
  SweepInterval,  \* SWEEP_INTERVAL_MS
  MediaRetry,     \* MEDIA_RETRY_MS
  OtherWakes,     \* delays that the sync, send and media steps can ask for
  PurgeCanFail,   \* can R2 refuse the deletion an erasure asks for
  Calls,          \* the operator calls a run makes: a subset of OperatorCalls
  MaxCalls,       \* bound: operator calls in a behaviour
  MaxCrashes      \* bound: restarts of the object in a behaviour

OperatorCalls == {"config", "retry", "erase", "other"}

ASSUME CallsAssumption == Calls \subseteq OperatorCalls
ASSUME IdsAssumption == Ids \subseteq Nat
ASSUME EventsAssumption ==
  /\ About \in [Events -> Wamids \cup {NoWamid}]
  /\ CustomerOf \in [Events -> Customers]
  /\ NoWamid \notin Wamids
ASSUME NoneAssumption == NoBatch \notin Ids /\ NoAlarm \notin Nat
ASSUME LimitsAssumption ==
  /\ MaxAttempts \in Nat \ {0}
  /\ BatchSize \in Nat \ {0}
  /\ PoolSize \in Nat \ {0}
  /\ MaxCalls \in Nat
  /\ MaxCrashes \in Nat
ASSUME DelaysAssumption ==
  /\ Backoff \in [1..MaxAttempts -> Nat]
  /\ SweepInterval \in Nat \ {0}
  /\ MediaRetry \in Nat \ {0}
  /\ OtherWakes \subseteq Nat
  /\ PurgeCanFail \in BOOLEAN

VARIABLES
  rows,         \* the deliveries table
  link,         \* inbound_events: event -> the row that first carried it
  sends,        \* outbound_messages, for the sends that have an origin
  hasUrl,       \* config SUBSCRIBER_WEBHOOK_URL is set
  alarm,        \* delay of the armed alarm, or NoAlarm
  sweepIn,      \* time left until nextSweepAt
  pc,           \* where alarm() is
  hasTarget,    \* alarm()'s hasTarget, read when it starts
  sweepDue,     \* now >= nextSweepAt, for the `now` alarm() starts with
  job,          \* the rows alarm() captured and the state of their forward
  wake,         \* earliest wake computed before alarm()'s last awaits
  wakeArrived,  \* the field of that name
  purging,      \* an erasure awaits R2
  got,          \* history: bodies the subscriber has processed, by row
  erased,       \* history: events erased and not received again
  calls,        \* operator calls left
  crashes       \* restarts left

table == <<rows, link, sends>>
handler == <<pc, hasTarget, sweepDue, job, wake>>
history == <<got, erased>>
vars == <<rows, link, sends, hasUrl, alarm, sweepIn, pc, hasTarget, sweepDue,
          job, wake, wakeArrived, purging, got, erased, calls, crashes>>

-----------------------------------------------------------------------------
(* Rows and bodies.  A body is its set of events and those of them that    *)
(* carry the origin of the send they are about.                            *)

Body == {b \in [events : SUBSET Events, tagged : SUBSET Events] :
           b.tagged \subseteq b.events}
Redacted == [events |-> {}, tagged |-> {}]

Status == {"none", "pending", "delivered", "failed", "gone"}
Row == [status : Status, attempts : 0..MaxAttempts, wait : Nat, age : 0..2,
        body : Body]
NoRow == [status |-> "none", attempts |-> 0, wait |-> 0, age |-> 0,
          body |-> Redacted]
Gone == [NoRow EXCEPT !.status = "gone"]

Pending(id) == rows[id].status = "pending"
Terminal(id) == rows[id].status \in {"delivered", "failed"}
Stored(id) == Pending(id) \/ Terminal(id)

(* A captured row on its way through processDelivery. *)
NoJob == [phase |-> "none", attempts |-> 0, body |-> Redacted]
Phase == {"none", "queued", "fetching", "accepted", "refused", "alerting"}
Job == [phase : Phase, attempts : 0..MaxAttempts, body : Body]

Running == {id \in Ids : job[id].phase \notin {"none", "queued"}}

(* A request runs when alarm() does not, or at one of its awaits: a forward,  *)
(* the sweep's RPC, or the calls of the steps that follow the drain.          *)
AtAwait ==
  \/ pc \in {"idle", "steps"}
  \/ pc = "sweep" /\ sweepDue
  \/ Running # {}

Earliest(S) == CHOOSE m \in S : \A n \in S : m <= n
Dec(n) == IF n > 0 THEN n - 1 ELSE 0

WakeNow == wakeArrived' = TRUE /\ alarm' = 0

Init ==
  /\ rows = [id \in Ids |-> NoRow]
  /\ link = [e \in Events |-> NoBatch]
  /\ sends = [w \in Wamids |-> "open"]
  /\ hasUrl \in BOOLEAN
  /\ alarm = NoAlarm
  /\ sweepIn = 0
  /\ pc = "idle"
  /\ hasTarget = FALSE
  /\ sweepDue = FALSE
  /\ job = [id \in Ids |-> NoJob]
  /\ wake = NoAlarm
  /\ wakeArrived = FALSE
  /\ purging = FALSE
  /\ got = [id \in Ids |-> {}]
  /\ erased = {}
  /\ calls = MaxCalls
  /\ crashes = MaxCrashes

-----------------------------------------------------------------------------
(* Requests.                                                               *)

(* The next AUTOINCREMENT id: ids are never reused, not even a deleted row's. *)
NextId(id) == /\ rows[id].status = "none"
              /\ \A j \in Ids : j < id => rows[j].status # "none"

(* A webhook brings the events S.  Events already stored are ignored by the *)
(* unique indexes; when at least one is new, one row carries them all.      *)
Ingest(S, id) ==
  LET new == {e \in S : link[e] = NoBatch}
      body == [events |-> S,
               tagged |-> {e \in S : About[e] \in Wamids
                                     /\ sends[About[e]] = "logged"}]
  IN /\ AtAwait
     /\ new # {}
     /\ NextId(id)
     /\ rows' = [rows EXCEPT ![id] = [NoRow EXCEPT !.status = "pending",
                                                   !.body = body]]
     /\ link' = [e \in Events |-> IF e \in new THEN id ELSE link[e]]
     /\ erased' = erased \ S
     /\ WakeNow
     /\ UNCHANGED <<sends, hasUrl, sweepIn, handler, purging, got, calls, crashes>>

(* Slip: the send is logged, the events that overtook it are not looked up. *)
LogOutboundOfSend(w) ==
  /\ AtAwait
  /\ sends[w] = "open"
  /\ sends' = [sends EXCEPT ![w] = "logged"]
  /\ UNCHANGED <<rows, link, hasUrl, alarm, sweepIn, handler, wakeArrived,
                 purging, history, calls, crashes>>

(* A send's answer is logged with its origin: the status events that overtook *)
(* it, and their batches that were never attempted, get the origin now.       *)
LogOutbound(w) ==
  LET overtaken == {e \in Events : About[e] = w /\ link[e] # NoBatch}
      unattempted(id) == /\ \E e \in overtaken : link[e] = id
                         /\ Pending(id)
                         /\ rows[id].attempts = 0
  IN /\ AtAwait
     /\ sends[w] = "open"
     /\ sends' = [sends EXCEPT ![w] = "logged"]
     /\ rows' = [id \in Ids |->
          IF unattempted(id)
          THEN [rows[id] EXCEPT !.body.tagged =
                  @ \cup {e \in rows[id].body.events : About[e] = w}]
          ELSE rows[id]]
     /\ UNCHANGED <<link, hasUrl, alarm, sweepIn, handler, wakeArrived, purging,
                    history, calls, crashes>>

Operator(call) ==
  AtAwait /\ call \in Calls /\ calls > 0 /\ calls' = calls - 1

(* A URL arms the alarm for now, with a plain setAlarm. *)
SetSubscriberConfig(url) ==
  /\ Operator("config")
  /\ url # hasUrl
  /\ hasUrl' = url
  /\ alarm' = IF url THEN 0 ELSE alarm
  /\ UNCHANGED <<table, sweepIn, handler, wakeArrived, purging, history, crashes>>

Requeued(row) == [row EXCEPT !.status = "pending", !.attempts = 0, !.wait = 0]

RetryDelivery(id) ==
  /\ Operator("retry")
  /\ Stored(id)
  /\ rows[id].body # Redacted
  /\ rows' = [rows EXCEPT ![id] = Requeued(@)]
  /\ alarm' = 0
  /\ UNCHANGED <<link, sends, hasUrl, sweepIn, handler, wakeArrived, purging,
                 history, crashes>>

(* Every failed row created inside a window; ids are in creation order. *)
RetryFailedDeliveries(from, to) ==
  LET chosen == {id \in Ids : /\ from <= id /\ id <= to
                              /\ rows[id].status = "failed"
                              /\ rows[id].body # Redacted}
  IN /\ Operator("retry")
     /\ chosen # {}
     /\ rows' = [id \in Ids |-> IF id \in chosen THEN Requeued(rows[id])
                                                 ELSE rows[id]]
     /\ alarm' = 0
     /\ UNCHANGED <<link, sends, hasUrl, sweepIn, handler, wakeArrived, purging,
                    history, crashes>>

(* An event names its customer, except a status, which is found only through *)
(* the send it is about.                                                     *)
Targets(c) == {e \in Events : /\ CustomerOf[e] = c
                              /\ \/ About[e] = NoWamid
                                 \/ sends[About[e]] = "logged"}

(* Slips: an emptied batch is kept pending; only rows still to be forwarded  *)
(* are touched, and they are deleted whole.                                  *)
RewrittenToEmpty(row, gone) ==
  [row EXCEPT !.body = [events |-> @.events \ gone, tagged |-> @.tagged \ gone]]
RewrittenIfPending(row, gone) ==
  IF row.status # "pending" \/ row.body.events \cap gone = {} THEN row
  ELSE Gone
Rewritten(row, gone) ==
  LET kept == row.body.events \ gone
  IN IF kept = row.body.events THEN row
     ELSE IF kept # {} THEN [row EXCEPT !.body = [events |-> kept,
                                                   tagged |-> row.body.tagged \ gone]]
     ELSE IF row.status = "pending" THEN Gone
     ELSE [row EXCEPT !.body = Redacted]

EraseByPhone(c) ==
  LET gone == Targets(c)
  IN /\ Operator("erase")
     /\ ~purging
     /\ rows' = [id \in Ids |-> Rewritten(rows[id], gone)]
     /\ link' = [e \in Events |-> IF e \in gone THEN NoBatch ELSE link[e]]
     /\ sends' = [w \in Wamids |->
          IF sends[w] = "logged" /\ \E e \in gone : About[e] = w
          THEN "forgotten" ELSE sends[w]]
     /\ erased' = erased \cup gone
     /\ purging' = TRUE
     /\ UNCHANGED <<hasUrl, alarm, sweepIn, handler, wakeArrived, got, crashes>>

(* The erasure's R2 call returns; a refusal arms the alarm for the retry. *)
PurgeReturns(ok) ==
  /\ AtAwait
  /\ purging
  /\ ok \/ PurgeCanFail
  /\ purging' = FALSE
  /\ alarm' = IF ok THEN alarm ELSE MediaRetry
  /\ UNCHANGED <<table, hasUrl, sweepIn, handler, wakeArrived, history, calls,
                 crashes>>

(* Other work the same alarm serves (createBroadcast, putScheduled,         *)
(* captureSyncPayload, reprocessSyncPayloads) arms it for now, with wakeNow  *)
(* or with a plain setAlarm.                                                 *)
OtherWork ==
  /\ Operator("other")
  /\ alarm' = 0
  /\ wakeArrived' \in {wakeArrived, TRUE}
  /\ UNCHANGED <<table, hasUrl, sweepIn, handler, purging, history, crashes>>

-----------------------------------------------------------------------------
(* alarm().                                                                *)

Due == {id \in Ids : Pending(id) /\ rows[id].wait = 0}
Batch == {id \in Due : Cardinality({j \in Due : j < id}) < BatchSize}

(* The queue is held while there is no target. *)
Captured == IF hasUrl THEN Batch ELSE {}

(* The runtime clears the alarm and calls the handler, which reads the      *)
(* target and captures the due rows before its first await.                 *)
AlarmFires ==
  /\ pc = "idle"
  /\ alarm = 0
  /\ alarm' = NoAlarm
  /\ pc' = "drain"
  /\ wakeArrived' = FALSE
  /\ hasTarget' = hasUrl
  /\ sweepDue' = (sweepIn = 0)
  /\ job' = [id \in Ids |->
       IF id \in Captured
       THEN [phase |-> "queued", attempts |-> rows[id].attempts,
             body |-> rows[id].body]
       ELSE NoJob]
  /\ UNCHANGED <<table, hasUrl, sweepIn, wake, purging, history, calls, crashes>>

(* A pool worker takes the next captured row.  The URL is read here, not    *)
(* when the row was captured; without one the attempt is spent.             *)
ForwardOne(id) ==
  /\ job[id].phase = "queued"
  /\ \A j \in Ids : job[j].phase = "queued" => id <= j
  /\ Cardinality(Running) < PoolSize
  /\ job' = [job EXCEPT ![id].phase = IF hasUrl THEN "fetching" ELSE "refused"]
  /\ UNCHANGED <<table, hasUrl, alarm, sweepIn, pc, hasTarget, sweepDue, wake,
                 wakeArrived, purging, history, calls, crashes>>

(* The subscriber answers 2xx, refuses, or processes the body and its       *)
(* answer is lost or late.                                                  *)
SubscriberAnswers(id, processed, ok) ==
  /\ job[id].phase = "fetching"
  /\ ok => processed
  /\ job' = [job EXCEPT ![id].phase = IF ok THEN "accepted" ELSE "refused"]
  /\ got' = IF processed THEN [got EXCEPT ![id] = @ \cup {job[id].body}] ELSE got
  /\ UNCHANGED <<table, hasUrl, alarm, sweepIn, pc, hasTarget, sweepDue, wake,
                 wakeArrived, purging, erased, calls, crashes>>

(* The UPDATE after the fetch: by id, with the captured attempt count, and   *)
(* with no condition on the row's status.  The retry branch leaves `status`. *)
(* Slips: the whole captured row is written back; a failed attempt is not    *)
(* counted.                                                                  *)
SettledWholeRow(row, j) ==
  [row EXCEPT !.status = IF j.phase = "accepted" THEN "delivered"
                         ELSE IF j.attempts + 1 >= MaxAttempts THEN "failed"
                         ELSE "pending",
              !.attempts = j.attempts + 1, !.body = j.body]
SettledUncounted(row, j) ==
  IF j.phase = "accepted"
  THEN [row EXCEPT !.status = "delivered", !.attempts = j.attempts + 1]
  ELSE [row EXCEPT !.attempts = j.attempts, !.wait = Backoff[1]]
Settled(row, j) ==
  LET attempts == j.attempts + 1
  IN CASE j.phase = "accepted" ->
            [row EXCEPT !.status = "delivered", !.attempts = attempts]
       [] j.phase = "refused" /\ attempts >= MaxAttempts ->
            [row EXCEPT !.status = "failed", !.attempts = attempts]
       [] OTHER ->
            [row EXCEPT !.attempts = attempts, !.wait = Backoff[attempts]]

(* A terminal failure awaits the operator's alert before the worker goes on. *)
ProcessDelivery(id) ==
  /\ job[id].phase \in {"accepted", "refused"}
  /\ rows' = IF Stored(id) THEN [rows EXCEPT ![id] = Settled(@, job[id])]
                           ELSE rows
  /\ job' = [job EXCEPT ![id] =
       IF job[id].phase = "refused" /\ job[id].attempts + 1 >= MaxAttempts
       THEN [@ EXCEPT !.phase = "alerting"] ELSE NoJob]
  /\ UNCHANGED <<link, sends, hasUrl, alarm, sweepIn, pc, hasTarget, sweepDue,
                 wake, wakeArrived, purging, history, calls, crashes>>

AlertReturns(id) ==
  /\ job[id].phase = "alerting"
  /\ job' = [job EXCEPT ![id] = NoJob]
  /\ UNCHANGED <<table, hasUrl, alarm, sweepIn, pc, hasTarget, sweepDue, wake,
                 wakeArrived, purging, history, calls, crashes>>

(* Content past its window goes: terminal rows are redacted and pending ones *)
(* deleted; past the delivery window terminal rows are deleted too.          *)
Pruned(row) ==
  CASE row.status = "pending" /\ row.age >= 1 -> Gone
    [] row.status \in {"delivered", "failed"} /\ row.age = 2 -> Gone
    [] row.status \in {"delivered", "failed"} /\ row.age = 1 ->
         [row EXCEPT !.body = Redacted]
    [] OTHER -> row

(* The pool is done; the hourly sweep runs when it was due at the start.    *)
(* `old` is the set of logged sends past the content window.                *)
PruneExpired(old) ==
  /\ pc = "drain"
  /\ \A id \in Ids : job[id].phase = "none"
  /\ pc' = "sweep"
  /\ old \subseteq {w \in Wamids : sends[w] = "logged"}
  /\ IF sweepDue
     THEN /\ rows' = [id \in Ids |-> Pruned(rows[id])]
          /\ link' = [e \in Events |->
               IF link[e] # NoBatch /\ rows[link[e]].age >= 1 THEN NoBatch
               ELSE link[e]]
          /\ sends' = [w \in Wamids |-> IF w \in old THEN "forgotten" ELSE sends[w]]
     ELSE old = {} /\ UNCHANGED table
  /\ UNCHANGED <<hasUrl, alarm, sweepIn, hasTarget, sweepDue, job, wake,
                 wakeArrived, purging, history, calls, crashes>>

(* The sweep's RPC returned: the delivery wake is computed, before the      *)
(* awaits of the sync, scheduled, broadcast and media steps.                *)
(* Slip: the held queue is not given its slow tick. *)
ComputeWakesOfTarget ==
  LET pending == {id \in Ids : Pending(id)}
      wakes == IF hasTarget THEN {rows[id].wait : id \in pending} ELSE {}
  IN /\ pc = "sweep"
     /\ pc' = "steps"
     /\ sweepIn' = IF sweepDue THEN SweepInterval ELSE sweepIn
     /\ wake' = IF wakes = {} THEN NoAlarm ELSE Earliest(wakes)
     /\ UNCHANGED <<table, hasUrl, alarm, hasTarget, sweepDue, job, wakeArrived,
                    purging, history, calls, crashes>>

ComputeWakes ==
  LET pending == {id \in Ids : Pending(id)}
      wakes == IF hasTarget THEN {rows[id].wait : id \in pending}
               ELSE IF pending # {} THEN {sweepIn'} ELSE {}
  IN /\ pc = "sweep"
     /\ pc' = "steps"
     /\ sweepIn' = IF sweepDue THEN SweepInterval ELSE sweepIn
     /\ wake' = IF wakes = {} THEN NoAlarm ELSE Earliest(wakes)
     /\ UNCHANGED <<table, hasUrl, alarm, hasTarget, sweepDue, job, wakeArrived,
                    purging, history, calls, crashes>>

(* Slip: the handler does not ask whether work arrived while it ran. *)
AlarmReturnsBlind(others) ==
  LET wakes == ({wake} \ {NoAlarm}) \cup others
  IN /\ pc = "steps"
     /\ pc' = "idle"
     /\ alarm' = IF wakes = {} THEN alarm ELSE Earliest(wakes)
     /\ hasTarget' = FALSE
     /\ sweepDue' = FALSE
     /\ wake' = NoAlarm
     /\ UNCHANGED <<table, hasUrl, sweepIn, job, wakeArrived, purging, history,
                    calls, crashes>>

(* Slip: a wake of another step is armed in place of the delivery's. *)
AlarmReturnsUnarmed(others) ==
  /\ pc = "steps"
  /\ pc' = "idle"
  /\ alarm' = IF others = {} THEN alarm ELSE Earliest(others)
  /\ hasTarget' = FALSE
  /\ sweepDue' = FALSE
  /\ wake' = NoAlarm
  /\ UNCHANGED <<table, hasUrl, sweepIn, job, wakeArrived, purging, history,
                 calls, crashes>>

(* The other steps are done and ask for the wakes `others`: the one alarm   *)
(* is armed for the earliest, unless nothing asked for one.                 *)
AlarmReturns(others) ==
  LET wakes == ({wake} \ {NoAlarm}) \cup others
               \cup (IF wakeArrived THEN {0} ELSE {})
  IN /\ pc = "steps"
     /\ pc' = "idle"
     /\ alarm' = IF wakes = {} THEN alarm ELSE Earliest(wakes)
     /\ hasTarget' = FALSE
     /\ sweepDue' = FALSE
     /\ wake' = NoAlarm
     /\ UNCHANGED <<table, hasUrl, sweepIn, job, wakeArrived, purging, history,
                    calls, crashes>>

-----------------------------------------------------------------------------
(* The environment.                                                        *)

(* The object restarts: what was in memory is lost and the runtime calls an *)
(* alarm() it cut short again.                                              *)
Crash ==
  /\ crashes > 0
  /\ crashes' = crashes - 1
  /\ pc' = "idle"
  /\ alarm' = IF pc = "idle" THEN alarm ELSE 0
  /\ hasTarget' = FALSE
  /\ sweepDue' = FALSE
  /\ job' = [id \in Ids |-> NoJob]
  /\ wake' = NoAlarm
  /\ wakeArrived' = FALSE
  /\ purging' = FALSE
  /\ UNCHANGED <<table, hasUrl, sweepIn, history, calls>>

DecDelay(d) == IF d = NoAlarm THEN NoAlarm ELSE Dec(d)

Tick ==
  /\ rows' = [id \in Ids |-> [rows[id] EXCEPT !.wait = Dec(@)]]
  /\ alarm' = DecDelay(alarm)
  /\ wake' = DecDelay(wake)
  /\ sweepIn' = Dec(sweepIn)
  /\ UNCHANGED <<link, sends, hasUrl, pc, hasTarget, sweepDue, job, wakeArrived,
                 purging, history, calls, crashes>>

(* A row passes its content window (1) and then its delivery window (2);    *)
(* resolveRetentionDays keeps the second no shorter than the first.         *)
Age(id) ==
  /\ Stored(id)
  /\ rows[id].age < 2
  /\ \A j \in Ids : j < id /\ Stored(j) => rows[j].age > rows[id].age
  /\ rows' = [rows EXCEPT ![id].age = @ + 1]
  /\ UNCHANGED <<link, sends, hasUrl, alarm, sweepIn, handler, wakeArrived,
                 purging, history, calls, crashes>>

Requests ==
  \/ \E S \in SUBSET Events, id \in Ids : Ingest(S, id)
  \/ \E w \in Wamids : LogOutbound(w)
  \/ \E url \in BOOLEAN : SetSubscriberConfig(url)
  \/ \E id \in Ids : RetryDelivery(id)
  \/ \E from, to \in Ids : RetryFailedDeliveries(from, to)
  \/ \E c \in Customers : EraseByPhone(c)
  \/ \E ok \in BOOLEAN : PurgeReturns(ok)
  \/ OtherWork

Handler ==
  \/ AlarmFires
  \/ \E id \in Ids : ForwardOne(id)
  \/ \E id \in Ids, processed, ok \in BOOLEAN : SubscriberAnswers(id, processed, ok)
  \/ \E id \in Ids : ProcessDelivery(id)
  \/ \E id \in Ids : AlertReturns(id)
  \/ \E old \in SUBSET Wamids : PruneExpired(old)
  \/ ComputeWakes
  \/ \E others \in SUBSET OtherWakes : AlarmReturns(others)

Environment ==
  \/ Crash
  \/ Tick
  \/ \E id \in Ids : Age(id)

Next == Requests \/ Handler \/ Environment

Spec == Init /\ [][Next]_vars

(* The runtime fires an armed alarm and runs its handler to the end; a fetch *)
(* is answered or aborted by its timeout; time passes.  Nothing is assumed   *)
(* of requests, of operators or of the subscriber's answers.                 *)
Fairness ==
  /\ WF_vars(Tick)
  /\ WF_vars(AlarmFires)
  /\ \A id \in Ids : /\ WF_vars(ForwardOne(id))
                     /\ WF_vars(\E processed, ok \in BOOLEAN :
                                  SubscriberAnswers(id, processed, ok))
                     /\ WF_vars(ProcessDelivery(id))
                     /\ WF_vars(AlertReturns(id))
  /\ WF_vars(PruneExpired({}))
  /\ WF_vars(ComputeWakes)
  /\ WF_vars(\E others \in SUBSET OtherWakes : AlarmReturns(others))

FairSpec == Spec /\ Fairness

-----------------------------------------------------------------------------
(* Properties.                                                             *)

TypeOK ==
  /\ rows \in [Ids -> Row]
  /\ link \in [Events -> Ids \cup {NoBatch}]
  /\ sends \in [Wamids -> {"open", "logged", "forgotten"}]
  /\ hasUrl \in BOOLEAN
  /\ alarm \in Nat \cup {NoAlarm}
  /\ sweepIn \in Nat
  /\ pc \in {"idle", "drain", "sweep", "steps"}
  /\ hasTarget \in BOOLEAN
  /\ sweepDue \in BOOLEAN
  /\ job \in [Ids -> Job]
  /\ wake \in Nat \cup {NoAlarm}
  /\ wakeArrived \in BOOLEAN
  /\ purging \in BOOLEAN
  /\ got \in [Ids -> SUBSET Body]
  /\ erased \in SUBSET Events
  /\ calls \in Nat
  /\ crashes \in Nat

(* What waits to be forwarded, in the table or in the pool, has content: the *)
(* subscriber never gets an empty body, whatever retention, erasure and      *)
(* retries did to the row (pruneExpired, eraseByPhone, retryDelivery).       *)
NeverForwardsRedacted ==
  \A id \in Ids :
    /\ Pending(id) => rows[id].body.events # {}
    /\ job[id].phase # "none" => job[id].body.events # {}

(* A row is pending only while it has attempts left, although the UPDATE of  *)
(* processDelivery looks neither at the status nor at the stored count.      *)
PendingHasAttemptsLeft ==
  \A id \in Ids : Pending(id) => rows[id].attempts < MaxAttempts

(* While inbound_events holds an event, its row carries it: it is still to   *)
(* be forwarded, failed, or the subscriber has processed a body with it.     *)
StoredEventIsAccountedFor ==
  \A e \in Events : link[e] # NoBatch =>
    LET id == link[e] IN
      /\ Stored(id)
      /\ e \in rows[id].body.events
      /\ rows[id].status = "delivered" => \E b \in got[id] : e \in b.events

(* No erased event comes back into the tables: neither the UPDATE that       *)
(* follows a forward in flight nor a late origin restores one.               *)
ErasedStaysErased ==
  \A e \in erased : /\ link[e] = NoBatch
                     /\ \A id \in Ids : e \notin rows[id].body.events

(* Pending rows never wait without an alarm, whether they are held for want  *)
(* of a target or arrived while the handler ran (alarm, wakeArrived).        *)
NeverStranded ==
  pc = "idle" /\ (\E id \in Ids : Pending(id)) => alarm # NoAlarm

(* A row that is due goes out now: with a target and the handler idle, the   *)
(* alarm is armed for now, never for a later wake that replaced it.          *)
DueRowsAreAwaited ==
  pc = "idle" /\ hasUrl /\ Due # {} => alarm = 0

(* A batch that was never attempted carries the origin of the send that each *)
(* of its own status events names, whichever of the two came first.          *)
UnattemptedCarriesOrigin ==
  \A e \in Events :
    link[e] # NoBatch /\ About[e] \in Wamids =>
      LET row == rows[link[e]] IN
        row.status = "pending" /\ row.attempts = 0 /\ sends[About[e]] = "logged"
          => e \in row.body.tagged

(* A delivered row stays delivered until retention or erasure deletes it or  *)
(* an operator replays it: no drain takes a settled row again.               *)
DeliveredSticks ==
  [][\A id \in Ids :
       rows[id].status = "delivered" /\ calls' = calls
         => rows'[id].status \in {"delivered", "gone"}]_vars

(* Held means held: while the queue has no target and the handler did not    *)
(* start with one, no attempt is spent.                                      *)
HeldMeansHeld ==
  [][\A id \in Ids :
       rows'[id].attempts > rows[id].attempts => hasTarget]_vars

(* A due row ends (delivered, failed or deleted) unless the target is        *)
(* removed, whatever the subscriber answers.                                 *)
PendingIsSettled ==
  \A id \in Ids : (Pending(id) /\ hasUrl) ~> (~Pending(id) \/ ~hasUrl)

(* Content past its window does not wait for a target: a held row is deleted *)
(* by the slow tick even if nothing else ever wakes the object.              *)
HeldContentExpires ==
  \A id \in Ids : (Pending(id) /\ rows[id].age >= 1) ~> ~Pending(id)
=============================================================================
