------------------------------- MODULE Scheduled -------------------------------
(***************************************************************************)
(* Scheduled sends of one EccosGateway Durable Object: one template to one *)
(* recipient at a set time, under a key of the client.  `scheduledStep`, a *)
(* step of alarm(), ends what is stale or expired, looks up the Meta token,*)
(* claims what is due and sends it.                                        *)
(*                                                                         *)
(* PUT, DELETE and erasures interleave at the awaits of alarm(), so a key  *)
(* may name another row when a send of its earlier row comes back.  Times  *)
(* are those of the clock, since the step compares with the `now` it has   *)
(* read before its awaits.                                                 *)
(***************************************************************************)
EXTENDS Integers, FiniteSets

CONSTANTS
  Keys,          \* keys of the client
  MaxVersions,   \* bound: rows created under one key
  LastExpiry,    \* bound: latest expires_at
  EndOfTime,     \* bound: the clock
  PerTick,       \* sends of one tick (pacing)
  TickMs,        \* delay of the next tick (pacing)
  TokenRetry,    \* delay after a failed token lookup, or a failed step
  StaleMs,       \* STALE_SENDING_MS
  MediaRetry,    \* MEDIA_RETRY_MS
  ThrottleDelay, \* attempts -> delay after a throttled send (throttleDelayMs)
  MaxThrottled,  \* MAX_THROTTLED_ATTEMPTS
  MaxOpen,       \* MAX_PENDING_SCHEDULED
  Tokens,        \* what the control plane may answer: a subset of TokenAnswers
  Answers,       \* what Meta may answer: a subset of MetaAnswers
  LimiterRefuses,\* can the account's limiter refuse a send
  PurgeCanFail,  \* can R2 refuse the deletion an erasure asks for
  Calls,         \* requests a run makes besides PUT: a subset of OperatorCalls
  MaxCalls,      \* bound: those requests in a behaviour
  MaxFaults      \* bound: restarts and failed steps in a behaviour

TokenAnswers == {"ok", "missing", "unavailable"}
MetaAnswers == {"ok", "lost", "throttled", "refused"}
OperatorCalls == {"cancel", "erase", "prune"}

ASSUME AnswersAssumption ==
  /\ Tokens \subseteq TokenAnswers
  /\ Answers \subseteq MetaAnswers
  /\ LimiterRefuses \in BOOLEAN
  /\ PurgeCanFail \in BOOLEAN
  /\ Calls \subseteq OperatorCalls
ASSUME LimitsAssumption ==
  /\ MaxVersions \in Nat
  /\ LastExpiry \in Nat
  /\ EndOfTime \in Nat
  /\ MaxThrottled \in Nat \ {0}
  /\ PerTick \in Nat \ {0}
  /\ MaxOpen \in Nat
  /\ MaxCalls \in Nat
  /\ MaxFaults \in Nat
ASSUME DelaysAssumption ==
  /\ TickMs \in Nat \ {0}
  /\ TokenRetry \in Nat \ {0}
  /\ StaleMs \in Nat
  /\ MediaRetry \in Nat \ {0}
  /\ ThrottleDelay \in [1..MaxThrottled -> Nat \ {0}]

VARIABLES
  clock,    \* Date.now()
  rows,     \* scheduled_sends: key -> row
  tickAt,   \* ops_state scheduled_next_tick_at
  alarm,    \* when the object's alarm fires, for scheduled sends at the latest
  arrived,  \* the field wakeArrived
  pc,       \* where alarm() is
  now,      \* the `now` of the step
  retryAt,  \* when a step that failed asked to run again, or 0
  job,      \* key -> the send of its row that is in flight
  purging,  \* an erasure awaits R2
  putOff,   \* history: the alarm an erasure that R2 refused has set, or 0
  reached,  \* history: messages Meta took, by key and version
  events,   \* history: scheduled_failed events, by key and version
  calls,    \* requests left
  faults    \* faults left

step == <<pc, now, retryAt, job>>
erasure == <<purging, putOff>>
history == <<reached, events>>
vars == <<clock, rows, tickAt, alarm, arrived, pc, now, retryAt, job, purging,
          putOff, reached, events, calls, faults>>

-----------------------------------------------------------------------------

NoAlarm == -1
Versions == 1..MaxVersions
Times == 0..LastExpiry

RowStatus == {"gone", "pending", "sending", "sent", "failed", "unknown", "cancelled"}
(* The version counts the rows created under the key; `since` is the time of *)
(* the claim.                                                                *)
Row == [status : RowStatus, version : 0..MaxVersions, attempts : 0..MaxThrottled,
        due : Nat, exp : Nat, since : Nat]
NoRow == [status |-> "gone", version |-> 0, attempts |-> 0, due |-> 0, exp |-> 0,
          since |-> 0]

(* What a send in flight has captured of its row. *)
Job == [at : {"none", "limiter", "posting", "taken"}, version : 0..MaxVersions,
        attempts : 0..MaxThrottled, exp : Nat]
NoJob == [at |-> "none", version |-> 0, attempts |-> 0, exp |-> 0]

In(statuses) == {k \in Keys : rows[k].status \in statuses}
Open == In({"pending", "sending"})
InFlight == {k \in Keys : job[k].at # "none"}

(* A request runs when the step does not, or at one of its awaits. *)
AtAwait ==
  \/ pc \in {"idle", "before", "token", "after"}
  \/ pc = "sending" /\ InFlight # {}

Least(S) == CHOOSE t \in S : \A u \in S : t <= u
Earlier(t, u) == IF t <= u THEN t ELSE u
Later(t, u) == IF t <= u THEN u ELSE t

Init ==
  /\ clock = 0
  /\ rows = [k \in Keys |-> NoRow]
  /\ tickAt = 0
  /\ alarm = NoAlarm
  /\ arrived = FALSE
  /\ pc = "idle"
  /\ now = 0
  /\ retryAt = 0
  /\ job = [k \in Keys |-> NoJob]
  /\ purging = FALSE
  /\ putOff = 0
  /\ reached = [k \in Keys |-> [v \in Versions |-> 0]]
  /\ events = [k \in Keys |-> [v \in Versions |-> 0]]
  /\ calls = MaxCalls
  /\ faults = MaxFaults

(* The scheduled_failed events of the keys that just ended. *)
Told(ended) ==
  [k \in Keys |-> IF k \in ended THEN [events[k] EXCEPT ![rows[k].version] = @ + 1]
                  ELSE events[k]]

-----------------------------------------------------------------------------
(* Requests.                                                               *)

(* The route validates a PUT, and reads the templates, before it comes here: *)
(* its expiry may have passed.  upsertScheduled: a pending row is replaced,  *)
(* one that ended unsent makes place for a new one, one that was or may have *)
(* been sent stays.                                                          *)
Upserted(row, at, exp) ==
  [status |-> "pending", attempts |-> 0, due |-> at, exp |-> exp, since |-> 0,
   version |-> IF row.status = "pending" THEN row.version ELSE row.version + 1]

(* putScheduled arms the earlier of the alarm and the new send. *)
Armed(at) == IF alarm = NoAlarm THEN at ELSE Earlier(alarm, at)

PutScheduled(k, at, exp) ==
  LET row == rows[k]
  IN /\ AtAwait
     /\ at < exp
     /\ \/ row.status = "pending"
        \/ /\ row.status \in {"gone", "failed", "cancelled"}
           /\ row.version < MaxVersions
           /\ Cardinality(Open) < MaxOpen
     /\ rows' = [rows EXCEPT ![k] = Upserted(row, at, exp)]
     /\ IF at <= clock
        THEN alarm' = clock /\ arrived' = TRUE
        ELSE alarm' = Armed(at) /\ UNCHANGED arrived
     /\ UNCHANGED <<clock, tickAt, step, erasure, history, calls, faults>>

Operator(call) ==
  AtAwait /\ call \in Calls /\ calls > 0 /\ calls' = calls - 1

CancelScheduled(k) ==
  /\ Operator("cancel")
  /\ rows[k].status = "pending"
  /\ rows' = [rows EXCEPT ![k].status = "cancelled"]
  /\ UNCHANGED <<clock, tickAt, alarm, arrived, step, erasure, history, faults>>

(* An erasure deletes the customer's rows, in every status; it may have none. *)
(* R2 is asked for the customer's media next.                                *)
EraseByPhone(mine) ==
  /\ Operator("erase")
  /\ ~purging
  /\ \A k \in mine : rows[k].status # "gone"
  /\ rows' = [k \in Keys |-> IF k \in mine THEN [rows[k] EXCEPT !.status = "gone"]
                            ELSE rows[k]]
  /\ purging' = TRUE
  /\ UNCHANGED <<clock, tickAt, alarm, arrived, step, putOff, history, faults>>

(* A purge that R2 refuses sets the alarm for its retry, whatever it was set  *)
(* for before.                                                               *)
PurgeReturns(ok) ==
  /\ AtAwait
  /\ purging
  /\ ok \/ PurgeCanFail
  /\ purging' = FALSE
  /\ IF ok THEN UNCHANGED <<alarm, putOff>>
     ELSE alarm' = clock + MediaRetry /\ putOff' = clock + MediaRetry
  /\ UNCHANGED <<clock, rows, tickAt, arrived, step, history, calls, faults>>

(* Retention deletes what has ended, in the sweep of alarm(). *)
PruneExpired(k) ==
  /\ pc = "before"
  /\ Operator("prune")
  /\ rows[k].status \in {"sent", "failed", "unknown", "cancelled"}
  /\ rows' = [rows EXCEPT ![k].status = "gone"]
  /\ UNCHANGED <<clock, tickAt, alarm, arrived, step, erasure, history, faults>>

-----------------------------------------------------------------------------
(* scheduledStep.                                                          *)

(* alarm() starts, for a wake of scheduled sends or of another feature. *)
AlarmFires ==
  /\ pc = "idle"
  /\ pc' = "before"
  /\ alarm' = NoAlarm
  /\ arrived' = FALSE
  /\ retryAt' = 0
  /\ putOff' = 0
  /\ UNCHANGED <<clock, rows, tickAt, now, job, purging, history, calls, faults>>

Stale == {k \in Keys : rows[k].status = "sending" /\ rows[k].since < clock - StaleMs}
Expired == {k \in Keys : /\ rows[k].status = "pending"
                         /\ rows[k].due <= clock
                         /\ rows[k].exp <= clock}
Due(t) == {k \in Keys : rows[k].status = "pending" /\ rows[k].due <= t}

(* sweepStaleSending and expireDue. *)
Ended(k) ==
  CASE k \in Stale -> [rows[k] EXCEPT !.status = "unknown"]
    [] k \in Expired -> [rows[k] EXCEPT !.status = "failed"]
    [] OTHER -> rows[k]

(* What has ended is told in the same transaction.  Without a due row, or    *)
(* before the next tick, that is all.                                        *)
StepStarts ==
  /\ pc = "before"
  /\ now' = clock
  /\ rows' = [k \in Keys |-> Ended(k)]
  /\ events' = Told(Stale \cup Expired)
  /\ pc' = IF tickAt > clock \/ Due(clock) \ Expired = {} THEN "after" ELSE "token"
  /\ UNCHANGED <<clock, tickAt, alarm, arrived, retryAt, job, erasure, reached,
                 calls, faults>>

(* An ingest that throws leaves the rows as they were: all of them, or those  *)
(* that were to expire.                                                      *)
StepFails(swept) ==
  /\ pc = "before"
  /\ \/ swept = {} /\ Stale # {}
     \/ swept = Stale /\ Expired # {}
  /\ faults > 0
  /\ faults' = faults - 1
  /\ now' = clock
  /\ rows' = [k \in Keys |-> IF k \in swept THEN Ended(k) ELSE rows[k]]
  /\ events' = Told(swept)
  /\ retryAt' = clock + TokenRetry
  /\ pc' = "after"
  /\ UNCHANGED <<clock, tickAt, alarm, arrived, job, erasure, reached, calls>>

Postponed(row) == [row EXCEPT !.due = Earlier(now + TokenRetry, row.exp)]

(* Without a token nothing is spent: what is due waits, or expires. *)
TokenFails ==
  /\ pc = "token"
  /\ Tokens \cap {"missing", "unavailable"} # {}
  /\ rows' = [k \in Keys |-> IF k \in Due(now) THEN Postponed(rows[k]) ELSE rows[k]]
  /\ pc' = "after"
  /\ UNCHANGED <<clock, tickAt, alarm, arrived, now, retryAt, job, erasure,
                 history, calls, faults>>

(* claimDue: the earliest of what was due at `now`, as many as a tick takes. *)
Claimable(S) ==
  /\ S \subseteq Due(now)
  /\ \/ S = Due(now) /\ Cardinality(S) <= PerTick
     \/ Cardinality(S) = PerTick
  /\ \A k \in S, l \in Due(now) \ S : rows[k].due <= rows[l].due

Claim(S) ==
  /\ pc = "token"
  /\ "ok" \in Tokens
  /\ Claimable(S)
  /\ rows' = [k \in Keys |-> IF k \in S
                THEN [rows[k] EXCEPT !.status = "sending", !.since = now] ELSE rows[k]]
  /\ job' = [k \in Keys |-> IF k \in S
               THEN [at |-> "limiter", version |-> rows[k].version,
                     attempts |-> rows[k].attempts, exp |-> rows[k].exp]
               ELSE NoJob]
  /\ tickAt' = now + TickMs
  /\ pc' = "sending"
  /\ UNCHANGED <<clock, alarm, arrived, now, retryAt, erasure, history, calls, faults>>

-----------------------------------------------------------------------------
(* sendScheduled.  Every UPDATE is for the row of the key that is `sending`. *)

Drop(k) == job' = [job EXCEPT ![k] = NoJob]
Sending(k) == rows[k].status = "sending"

(* Back to pending, at the latest for its expiry, with n attempts spent. *)
Waiting(k, n, delay) ==
  [rows[k] EXCEPT !.status = "pending", !.attempts = n,
                  !.due = Earlier(clock + delay, job[k].exp)]

LimiterRefusesSend(k) ==
  /\ LimiterRefuses
  /\ job[k].at = "limiter"
  /\ Drop(k)
  /\ rows' = IF Sending(k)
             THEN [rows EXCEPT ![k] = Waiting(k, rows[k].attempts, ThrottleDelay[1])]
             ELSE rows
  /\ UNCHANGED <<clock, tickAt, alarm, arrived, pc, now, retryAt, erasure, history,
                 calls, faults>>

(* Slip: the row is not read again after the limiter's answer. *)
LimiterAllowsBlindly(k) ==
  /\ job[k].at = "limiter"
  /\ job' = [job EXCEPT ![k].at = "posting"]
  /\ UNCHANGED <<clock, rows, tickAt, alarm, arrived, pc, now, retryAt, erasure,
                 history, calls, faults>>
(* Slip: what expires here is not told. *)
LimiterAllowsQuietly(k) ==
  /\ job[k].at = "limiter"
  /\ IF Sending(k) /\ clock < rows[k].exp
     THEN job' = [job EXCEPT ![k].at = "posting"] /\ UNCHANGED <<rows, events>>
     ELSE /\ Drop(k)
          /\ rows' = IF Sending(k) THEN [rows EXCEPT ![k].status = "failed"] ELSE rows
          /\ UNCHANGED events
  /\ UNCHANGED <<clock, tickAt, alarm, arrived, pc, now, retryAt, erasure, reached,
                 calls, faults>>
(* The limiter allows the send, and the row is read again: it may have been  *)
(* erased meanwhile or run past its expiry.                                  *)
LimiterAllows(k) ==
  /\ job[k].at = "limiter"
  /\ IF Sending(k) /\ clock < rows[k].exp
     THEN job' = [job EXCEPT ![k].at = "posting"] /\ UNCHANGED <<rows, events>>
     ELSE /\ Drop(k)
          /\ rows' = IF Sending(k) THEN [rows EXCEPT ![k].status = "failed"] ELSE rows
          /\ events' = Told(IF Sending(k) THEN {k} ELSE {})
  /\ UNCHANGED <<clock, tickAt, alarm, arrived, pc, now, retryAt, erasure, reached,
                 calls, faults>>

MetaTakes(k) ==
  /\ job[k].at = "posting"
  /\ job' = [job EXCEPT ![k].at = "taken"]
  /\ reached' = [reached EXCEPT ![k][job[k].version] = @ + 1]
  /\ UNCHANGED <<clock, rows, tickAt, alarm, arrived, pc, now, retryAt, erasure,
                 events, calls, faults>>

(* Meta's answer: a 2xx only if it took the message, a refusal only if it did *)
(* not; it may be lost in both cases.                                         *)
MayAnswer(k, answer) ==
  /\ answer \in Answers
  /\ \/ job[k].at = "taken" /\ answer \in {"ok", "lost"}
     \/ job[k].at = "posting" /\ answer # "ok"

(* classifySendFailure and what becomes of the row. *)
Answered(k, answer) ==
  LET n == job[k].attempts + 1
  IN CASE answer = "throttled" /\ n < MaxThrottled -> Waiting(k, n, ThrottleDelay[n])
       [] answer = "ok" -> [rows[k] EXCEPT !.status = "sent", !.attempts = n]
       [] answer = "lost" -> [rows[k] EXCEPT !.status = "unknown", !.attempts = n]
       [] OTHER -> [rows[k] EXCEPT !.status = "failed", !.attempts = n]

(* Slip: the UPDATE is by key only. *)
MetaAnswersAnyRow(k, answer) ==
  /\ MayAnswer(k, answer)
  /\ Drop(k)
  /\ rows' = IF rows[k].status # "gone" THEN [rows EXCEPT ![k] = Answered(k, answer)] ELSE rows
  /\ events' = Told(IF rows'[k].status \in {"failed", "unknown"} THEN {k} ELSE {})
  /\ UNCHANGED <<clock, tickAt, alarm, arrived, pc, now, retryAt, erasure, reached,
                 calls, faults>>
(* A row that was erased meanwhile is neither stored nor told of. *)
MetaAnswersSend(k, answer) ==
  /\ MayAnswer(k, answer)
  /\ Drop(k)
  /\ rows' = IF Sending(k) THEN [rows EXCEPT ![k] = Answered(k, answer)] ELSE rows
  /\ events' = Told(IF Sending(k) /\ Answered(k, answer).status \in {"failed", "unknown"}
                    THEN {k} ELSE {})
  /\ UNCHANGED <<clock, tickAt, alarm, arrived, pc, now, retryAt, erasure, reached,
                 calls, faults>>

StepJoins ==
  /\ pc = "sending"
  /\ InFlight = {}
  /\ pc' = "after"
  /\ UNCHANGED <<clock, rows, tickAt, alarm, arrived, now, retryAt, job, erasure,
                 history, calls, faults>>

(* scheduledWakeAt, read after the last await of alarm(). *)
NextWakes == {rows[k].due : k \in In({"pending"})}
             \cup {rows[k].since + StaleMs : k \in In({"sending"})}
ScheduledWakes ==
  IF NextWakes = {} THEN {} ELSE {Later(Least(NextWakes), tickAt)}

(* Slip: a step that failed asks for nothing. *)
WakesUnlessFailed ==
  (IF retryAt > 0 THEN {} ELSE ScheduledWakes) \cup (IF arrived THEN {clock} ELSE {})
(* A failed step asks for a retry instead, whatever is due. *)
Wakes ==
  (IF retryAt > 0 THEN {retryAt} ELSE ScheduledWakes) \cup (IF arrived THEN {clock} ELSE {})

AlarmReturns ==
  /\ pc = "after"
  /\ pc' = "idle"
  /\ IF Wakes = {} THEN UNCHANGED <<alarm, putOff>>
     ELSE alarm' = Least(Wakes) /\ putOff' = 0
  /\ UNCHANGED <<clock, rows, tickAt, arrived, now, retryAt, job, purging, history,
                 calls, faults>>

-----------------------------------------------------------------------------
(* The environment.                                                        *)

(* The object restarts; the runtime calls an alarm() it cut short again. *)
Crash ==
  /\ faults > 0
  /\ faults' = faults - 1
  /\ pc # "idle"
  /\ pc' = "idle"
  /\ alarm' = clock
  /\ arrived' = FALSE
  /\ retryAt' = 0
  /\ job' = [k \in Keys |-> NoJob]
  /\ purging' = FALSE
  /\ putOff' = 0
  /\ UNCHANGED <<clock, rows, tickAt, now, history, calls>>

Tick ==
  /\ clock < EndOfTime
  /\ clock' = clock + 1
  /\ UNCHANGED <<rows, tickAt, alarm, arrived, step, erasure, history, calls, faults>>

Requests ==
  \/ \E k \in Keys, at \in Times, exp \in Times : PutScheduled(k, at, exp)
  \/ \E k \in Keys : CancelScheduled(k) \/ PruneExpired(k)
  \/ \E mine \in SUBSET Keys : EraseByPhone(mine)
  \/ \E ok \in BOOLEAN : PurgeReturns(ok)

Sends ==
  \E k \in Keys :
    \/ LimiterRefusesSend(k)
    \/ LimiterAllows(k)
    \/ MetaTakes(k)
    \/ \E answer \in Answers : MetaAnswersSend(k, answer)

Step ==
  \/ AlarmFires
  \/ StepStarts
  \/ \E swept \in SUBSET Keys : StepFails(swept)
  \/ TokenFails
  \/ \E S \in SUBSET Keys : Claim(S)
  \/ StepJoins
  \/ AlarmReturns

Next == Requests \/ Sends \/ Step \/ Crash \/ Tick

Spec == Init /\ [][Next]_vars

(* The runtime fires an armed alarm when its time has come and runs it to    *)
(* the end; every fetch is answered or times out; time passes.  At the end   *)
(* of the bounded clock every time that is armed has come.                   *)
Fairness ==
  /\ WF_vars(Tick)
  /\ WF_vars(/\ alarm # NoAlarm
             /\ alarm <= clock \/ clock = EndOfTime
             /\ AlarmFires)
  /\ WF_vars(StepStarts)
  /\ WF_vars(TokenFails \/ \E S \in SUBSET Keys : Claim(S))
  /\ WF_vars(StepJoins \/ AlarmReturns)
  /\ \A k \in Keys :
       /\ WF_vars(LimiterRefusesSend(k) \/ LimiterAllows(k))
       /\ WF_vars(\E answer \in Answers : MetaAnswersSend(k, answer))

FairSpec == Spec /\ Fairness

-----------------------------------------------------------------------------
(* Properties.                                                             *)

TypeOK ==
  /\ clock \in Nat
  /\ rows \in [Keys -> Row]
  /\ tickAt \in Nat
  /\ alarm \in Nat \cup {NoAlarm}
  /\ arrived \in BOOLEAN
  /\ pc \in {"idle", "before", "token", "sending", "after"}
  /\ now \in Nat
  /\ retryAt \in Nat
  /\ job \in [Keys -> Job]
  /\ purging \in BOOLEAN
  /\ putOff \in Nat
  /\ reached \in [Keys -> [Versions -> Nat]]
  /\ events \in [Keys -> [Versions -> Nat]]
  /\ calls \in Nat
  /\ faults \in Nat

(* Every row ever created under a key is a message of the promise: pending   *)
(* and sending are one open status, a row that was replaced or deleted is    *)
(* erased.                                                                   *)
Promised(k, v) ==
  CASE v > rows[k].version -> "none"
    [] v < rows[k].version -> "erased"
    [] v = rows[k].version ->
         IF rows[k].status = "gone" THEN "erased"
         ELSE IF k \in Open THEN "open" ELSE rows[k].status
Promise == INSTANCE SendPromise WITH
  Messages <- Keys \X Versions,
  status <- [m \in Keys \X Versions |-> Promised(m[1], m[2])],
  taken <- [m \in Keys \X Versions |-> reached[m[1]][m[2]]]

(* "A row is attempted at most once unless Meta says it was not sent; an     *)
(* unknown outcome is never retried": no row's message is taken twice, what  *)
(* is told of it is true, and an outcome is never taken back nor given to    *)
(* the row a client has put under the same key meanwhile.                    *)
KeepsPromise == Promise!Spec

(* "Past `expiresAt` the send ends `failed` with reason `expired`, with no   *)
(* call to Meta", and "erasure means it is never sent": a POST starts only   *)
(* for a row that is still the one that was claimed, and before its expiry.  *)
OnlyLiveIsSent ==
  [][\A k \in Keys : job[k].at = "limiter" /\ job'[k].at = "posting" =>
       /\ rows[k].status = "sending"
       /\ rows[k].version = job[k].version
       /\ clock < rows[k].exp]_vars

(* A scheduled_failed event is emitted exactly when a send ends failed or    *)
(* unknown: once for a row, and not for one that was erased in flight.       *)
FailureIsTold ==
  [][\A k \in Keys, v \in Versions :
       events'[k][v] = events[k][v] +
         IF /\ k \in Open
            /\ v = rows[k].version
            /\ rows'[k].status \in {"failed", "unknown"}
         THEN 1 ELSE 0]_vars

(* "`next_attempt_at <= expires_at` always holds, so the due index finds     *)
(* them": no pending row is ever left out of the expiry.                     *)
DueBeforeExpiry ==
  \A k \in In({"pending"}) : rows[k].due <= rows[k].exp

(* What is open is awaited: by an alarm that is not later than its next      *)
(* attempt, the next tick or the retry of a step that failed.  An erasure    *)
(* whose purge R2 refused since may have put the alarm off, but to its own   *)
(* retry at the latest.                                                      *)
OpenIsAwaited ==
  pc = "idle" /\ Open # {} =>
    /\ alarm # NoAlarm
    /\ \/ \E t \in ScheduledWakes : alarm <= Later(t, clock)
       \/ retryAt > 0 /\ alarm <= retryAt
       \/ putOff > 0 /\ alarm <= putOff

(* A scheduled send ends, at the latest for its expiry: whatever Meta, the   *)
(* limiter and the control plane answer and wherever a run dies.             *)
OpenEnds ==
  \A k \in Keys : (k \in Open) ~> (k \notin Open)
=============================================================================
