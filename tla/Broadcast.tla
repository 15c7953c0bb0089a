------------------------------- MODULE Broadcast -------------------------------
(***************************************************************************)
(* Broadcasts of one EccosGateway Durable Object: `broadcastStep`, a step  *)
(* of alarm(), claims queued recipients of each running broadcast, waits   *)
(* for the Meta token and the send limiter, and sends to them in parallel. *)
(*                                                                         *)
(* Requests (a cancel, an erasure, a new broadcast) interleave at the      *)
(* step's awaits.  alarm() never overlaps itself, so neither does the step *)
(* but for a restart of the object, which leaves rows in `sending`.        *)
(***************************************************************************)
EXTENDS Integers, FiniteSets

CONSTANTS
  Broadcasts,    \* broadcasts, numbered in the order of their creation
  Seqs,          \* recipients of a broadcast, by seq
  PerTick,       \* sends of one tick (pacing)
  TickMs,        \* delay of the next tick (pacing)
  ThrottleDelay, \* attempts -> delay after a throttled tick (throttleDelayMs)
  TokenRetry,    \* delay after a failed token lookup
  MaxThrottled,  \* MAX_THROTTLED_ATTEMPTS
  Breaker,       \* FAILURE_BREAKER
  MaxRunning,    \* MAX_RUNNING_BROADCASTS
  Tokens,        \* what the control plane may answer: a subset of TokenAnswers
  Answers,       \* what Meta may answer: a subset of MetaAnswers
  LimiterRefuses,\* can the account's limiter refuse a send
  Reserved,      \* sends of a tick that scheduled sends may take first
  Calls,         \* requests a run makes: a subset of OperatorCalls
  MaxCalls,      \* bound: those requests in a behaviour
  MaxCrashes     \* bound: restarts of the object in a behaviour

TokenAnswers == {"ok", "missing", "unavailable"}
MetaAnswers == {"ok", "lost", "throttled", "halt", "failed"}
OperatorCalls == {"cancel", "erase", "prune"}

ASSUME IdsAssumption ==
  /\ Broadcasts \subseteq Nat
  /\ Seqs \subseteq Nat
  /\ Seqs # {}
  /\ IsFiniteSet(Seqs)
ASSUME AnswersAssumption ==
  /\ Tokens \subseteq TokenAnswers
  /\ Answers \subseteq MetaAnswers
  /\ LimiterRefuses \in BOOLEAN
  /\ Reserved \subseteq 0..PerTick
  /\ Calls \subseteq OperatorCalls
ASSUME LimitsAssumption ==
  /\ MaxThrottled \in Nat \ {0}
  /\ PerTick \in Nat \ {0}
  /\ Breaker \in Nat \ {0}
  /\ MaxRunning \in Nat \ {0}
  /\ MaxCalls \in Nat
  /\ MaxCrashes \in Nat
ASSUME DelaysAssumption ==
  /\ TickMs \in Nat \ {0}
  /\ TokenRetry \in Nat \ {0}
  /\ ThrottleDelay \in [1..MaxThrottled -> Nat \ {0}]

VARIABLES
  bc,       \* broadcasts.status, or "none" and "deleted"
  rec,      \* broadcast_recipients: broadcast -> seq -> row
  wait,     \* time left until next_send_at
  armed,    \* the object's alarm is armed for a broadcast
  arrived,  \* the field wakeArrived
  pc,       \* where broadcastStep is
  share,    \* sends of this tick that scheduled sends left over
  todo,     \* due broadcasts the step has still to serve
  cur,      \* the broadcast it serves
  token,    \* the token it holds, or "none"
  job,      \* seq -> where its send is
  halt,     \* a send of this tick was refused for everyone
  slow,     \* most attempts of a throttled send of this tick, or 0
  again,    \* the step asked alarm() for another wake
  reached,  \* history: messages Meta took, by broadcast and seq
  calls,    \* requests left
  crashes   \* restarts left

tables == <<bc, rec, wait>>
step == <<pc, share, todo, cur, token, job, halt, slow, again>>
vars == <<bc, rec, wait, armed, arrived, pc, share, todo, cur, token, job,
          halt, slow, again, reached, calls, crashes>>

-----------------------------------------------------------------------------

RowStatus == {"none", "queued", "sending", "sent", "failed", "unknown",
              "cancelled", "erased"}
Rec == [status : RowStatus, attempts : 0..MaxThrottled, stale : BOOLEAN]
NoRec == [status |-> "none", attempts |-> 0, stale |-> FALSE]
Settled(status, n) == [status |-> status, attempts |-> n, stale |-> FALSE]

Running == {b \in Broadcasts : bc[b] = "running"}
Ended(b) == bc[b] \in {"completed", "cancelled", "halted"}
In(b, statuses) == {s \in Seqs : rec[b][s].status \in statuses}

(* A request runs when the step does not, or at one of its awaits: the token  *)
(* lookup, the sends and the media step that follows.                         *)
AtAwait ==
  \/ pc \in {"idle", "media"}
  \/ pc = "token" /\ token = "none"
  \/ pc = "sending" /\ \E s \in Seqs : job[s] # "none"

Dec(n) == IF n > 0 THEN n - 1 ELSE 0
Bigger(m, n) == IF m > n THEN m ELSE n

Init ==
  /\ bc = [b \in Broadcasts |-> "none"]
  /\ rec = [b \in Broadcasts |-> [s \in Seqs |-> NoRec]]
  /\ wait = [b \in Broadcasts |-> 0]
  /\ armed = FALSE
  /\ arrived = FALSE
  /\ pc = "idle"
  /\ share = 0
  /\ todo = {}
  /\ cur = 0
  /\ token = "none"
  /\ job = [s \in Seqs |-> "none"]
  /\ halt = FALSE
  /\ slow = 0
  /\ again = FALSE
  /\ reached = [b \in Broadcasts |-> [s \in Seqs |-> 0]]
  /\ calls = MaxCalls
  /\ crashes = MaxCrashes

-----------------------------------------------------------------------------
(* What the code does to the rows of one broadcast.                        *)

Requeued(row) ==
  IF row.status = "sending" THEN Settled("queued", row.attempts) ELSE row

(* Slip: an ended broadcast is left with what came back to its queue. *)
CancelledIfRunning(rows, status) == rows
(* endBroadcast: unless the broadcast still runs, what is queued is cancelled. *)
Cancelled(rows, status) ==
  IF status = "running" THEN rows
  ELSE [s \in Seqs |-> IF rows[s].status = "queued"
                       THEN Settled("cancelled", rows[s].attempts) ELSE rows[s]]

(* finishBroadcastIfDone. *)
Finished(status, rows) ==
  IF status = "running" /\ \A s \in Seqs : rows[s].status \notin {"queued", "sending"}
  THEN "completed" ELSE status

(* breakerTripped. *)
Tripped(rows) ==
  /\ \A s \in Seqs : rows[s].status # "sent"
  /\ Cardinality({s \in Seqs : rows[s].status = "failed"}) >= Breaker

(* Slip: the age of a row is compared the wrong way round. *)
SweptFresh(row) ==
  IF row.status = "sending" /\ ~row.stale THEN Settled("unknown", row.attempts) ELSE row
(* A row that a run which died left in `sending` ends as unknown. *)
Swept(row) ==
  IF row.status = "sending" /\ row.stale THEN Settled("unknown", row.attempts) ELSE row

-----------------------------------------------------------------------------
(* Requests.                                                               *)

(* Slip: only the alarm is set, which the end of alarm() replaces. *)
CreateBroadcastOnlyArmed(b) ==
  /\ AtAwait
  /\ bc[b] = "none"
  /\ \A other \in Broadcasts : other < b => bc[other] # "none"
  /\ Cardinality(Running) < MaxRunning
  /\ bc' = [bc EXCEPT ![b] = "running"]
  /\ rec' = [rec EXCEPT ![b] = [s \in Seqs |-> Settled("queued", 0)]]
  /\ wait' = [wait EXCEPT ![b] = 0]
  /\ armed' = TRUE
  /\ UNCHANGED <<arrived, step, reached, calls, crashes>>

CreateBroadcast(b) ==
  /\ AtAwait
  /\ bc[b] = "none"
  /\ \A other \in Broadcasts : other < b => bc[other] # "none"
  /\ Cardinality(Running) < MaxRunning
  /\ bc' = [bc EXCEPT ![b] = "running"]
  /\ rec' = [rec EXCEPT ![b] = [s \in Seqs |-> Settled("queued", 0)]]
  /\ wait' = [wait EXCEPT ![b] = 0]
  /\ armed' = TRUE
  /\ arrived' = TRUE
  /\ UNCHANGED <<step, reached, calls, crashes>>

Operator(call) ==
  AtAwait /\ call \in Calls /\ calls > 0 /\ calls' = calls - 1

CancelBroadcast(b) ==
  /\ Operator("cancel")
  /\ bc[b] = "running"
  /\ bc' = [bc EXCEPT ![b] = "cancelled"]
  /\ rec' = [rec EXCEPT ![b] = Cancelled(@, "cancelled")]
  /\ UNCHANGED <<wait, armed, arrived, step, reached, crashes>>

(* An erasure deletes the customer's rows, in every status. *)
EraseByPhone(b, s) ==
  /\ Operator("erase")
  /\ rec[b][s].status \notin {"none", "erased"}
  /\ rec' = [rec EXCEPT ![b][s] = Settled("erased", @.attempts)]
  /\ UNCHANGED <<bc, wait, armed, arrived, step, reached, crashes>>

(* Retention deletes an ended broadcast with its recipients, in the sweep of *)
(* an alarm() that has not come to its broadcast step yet.                   *)
PruneExpired(b) ==
  /\ pc = "idle"
  /\ Operator("prune")
  /\ Ended(b)
  /\ bc' = [bc EXCEPT ![b] = "deleted"]
  /\ rec' = [rec EXCEPT ![b] = [s \in Seqs |-> Settled("erased", 0)]]
  /\ UNCHANGED <<wait, armed, arrived, step, reached, crashes>>

-----------------------------------------------------------------------------
(* broadcastStep.                                                          *)

(* alarm() comes to the step, for a wake of its own or of another feature:  *)
(* stale rows are swept and the due broadcasts are read, for the `now` and  *)
(* with the share of the tick it starts with.                               *)
StepStarts(reserved) ==
  /\ pc = "idle"
  /\ armed' = FALSE
  /\ arrived' = FALSE
  /\ pc' = "loop"
  /\ share' = PerTick - reserved
  /\ todo' = {b \in Running : wait[b] = 0}
  /\ rec' = [b \in Broadcasts |->
       IF b \in Running THEN [s \in Seqs |-> Swept(rec[b][s])] ELSE rec[b]]
  /\ UNCHANGED <<bc, wait, cur, token, job, halt, slow, again, reached, calls, crashes>>

(* The due broadcasts are served in the order of their creation. *)
Serves(b) ==
  /\ pc = "loop"
  /\ b \in todo
  /\ \A other \in todo : b <= other

(* The tick's sends all went to scheduled sends. *)
GiveWay(b) ==
  /\ Serves(b)
  /\ share = 0
  /\ wait' = [wait EXCEPT ![b] = TickMs]
  /\ todo' = todo \ {b}
  /\ UNCHANGED <<bc, rec, armed, arrived, pc, share, cur, token, job, halt, slow,
                 again, reached, calls, crashes>>

Claimed(b) ==
  {s \in In(b, {"queued"}) : Cardinality({r \in In(b, {"queued"}) : r < s}) < share}

(* The claim does not look at the broadcast's status again. *)
Claim(b) ==
  /\ Serves(b)
  /\ share > 0
  /\ Claimed(b) # {}
  /\ rec' = [rec EXCEPT ![b] = [s \in Seqs |->
       IF s \in Claimed(b) THEN Settled("sending", @[s].attempts) ELSE @[s]]]
  /\ job' = [s \in Seqs |-> IF s \in Claimed(b) THEN "claimed" ELSE "none"]
  /\ cur' = b
  /\ pc' = "token"
  /\ UNCHANGED <<bc, wait, armed, arrived, share, todo, token, halt, slow, again, reached,
                 calls, crashes>>

NothingQueued(b) ==
  /\ Serves(b)
  /\ share > 0
  /\ Claimed(b) = {}
  /\ bc' = [bc EXCEPT ![b] = Finished(@, rec[b])]
  /\ todo' = todo \ {b}
  /\ UNCHANGED <<rec, wait, armed, arrived, pc, share, cur, token, job, halt, slow,
                 again, reached, calls, crashes>>

(* The token is looked up once a step; a cached answer needs no await. *)
TokenAnswered(t) == pc = "token" /\ t \in (IF token = "none" THEN Tokens ELSE {token})

(* The next tick is set before sending. *)
TokenReturns ==
  /\ TokenAnswered("ok")
  /\ token' = "ok"
  /\ wait' = [wait EXCEPT ![cur] = TickMs]
  /\ pc' = "sending"
  /\ halt' = FALSE
  /\ slow' = 0
  /\ UNCHANGED <<bc, rec, armed, arrived, share, todo, cur, job, again, reached,
                 calls, crashes>>

Released ==
  [s \in Seqs |-> IF job[s] = "claimed" THEN Requeued(rec[cur][s]) ELSE rec[cur][s]]

(* The WABA is not connected any more: the broadcast is halted. *)
TokenMissing ==
  LET status == IF bc[cur] = "running" THEN "halted" ELSE bc[cur]
  IN /\ TokenAnswered("missing")
     /\ token' = "missing"
     /\ bc' = [bc EXCEPT ![cur] = status]
     /\ rec' = [rec EXCEPT ![cur] = Cancelled(Released, status)]
     /\ job' = [s \in Seqs |-> "none"]
     /\ pc' = "loop"
     /\ todo' = todo \ {cur}
     /\ UNCHANGED <<wait, armed, arrived, share, cur, halt, slow, again, reached, calls,
                    crashes>>

(* The lookup failed: the claimed rows wait in the queue. *)
TokenUnavailable ==
  /\ TokenAnswered("unavailable")
  /\ token' = "unavailable"
  /\ rec' = [rec EXCEPT ![cur] = Released]
  /\ wait' = [wait EXCEPT ![cur] = TokenRetry]
  /\ job' = [s \in Seqs |-> "none"]
  /\ pc' = "loop"
  /\ todo' = todo \ {cur}
  /\ UNCHANGED <<bc, armed, arrived, share, cur, halt, slow, again, reached, calls, crashes>>

(* sendBroadcastRecipient up to its POST: the limiter allows the send, or    *)
(* the row goes back to the queue with no attempt spent.                     *)
CheckSendRate(s, allowed) ==
  /\ pc = "sending"
  /\ job[s] = "claimed"
  /\ allowed \/ LimiterRefuses
  /\ job' = [job EXCEPT ![s] = IF allowed THEN "posting" ELSE "none"]
  /\ rec' = IF allowed THEN rec ELSE [rec EXCEPT ![cur][s] = Requeued(@)]
  /\ slow' = IF allowed THEN slow ELSE Bigger(slow, 1)
  /\ UNCHANGED <<bc, wait, armed, arrived, pc, share, todo, cur, token, halt,
                 again, reached, calls, crashes>>

(* Meta takes the message. *)
MetaTakes(s) ==
  /\ job[s] = "posting"
  /\ job' = [job EXCEPT ![s] = "taken"]
  /\ reached' = [reached EXCEPT ![cur][s] = @ + 1]
  /\ UNCHANGED <<tables, armed, arrived, pc, share, todo, cur, token, halt, slow,
                 again, calls, crashes>>

(* Meta's answer: a 2xx only if it took the message, a refusal only if it did *)
(* not; it may be lost in both cases.                                         *)
MayAnswer(s, answer) ==
  /\ answer \in Answers
  /\ \/ job[s] = "taken" /\ answer \in {"ok", "lost"}
     \/ job[s] = "posting" /\ answer \in {"lost", "throttled", "halt", "failed"}

(* Slip: throttling has no limit. *)
OutcomeThrottledForever(n, answer) ==
  CASE answer = "ok" -> Settled("sent", n)
    [] answer = "lost" -> Settled("unknown", n)
    [] answer = "throttled" -> Settled("queued", MaxThrottled - 1)
    [] OTHER -> Settled("failed", n)
(* classifySendFailure and what becomes of the row. *)
Outcome(n, answer) ==
  CASE answer = "ok" -> Settled("sent", n)
    [] answer = "lost" -> Settled("unknown", n)
    [] answer = "throttled" /\ n < MaxThrottled -> Settled("queued", n)
    [] OTHER -> Settled("failed", n)

(* Slip: the row is written back whole. *)
AnsweredAnyway(row, answer) == Outcome(row.attempts + 1, answer)
(* The UPDATE after the POST: by key, with no condition on the status. *)
Answered(row, answer) ==
  IF row.status = "erased" THEN row ELSE Outcome(row.attempts + 1, answer)

MetaAnswersSend(s, answer) ==
  LET row == rec[cur][s]
      attempts == row.attempts + 1
  IN /\ MayAnswer(s, answer)
     /\ rec' = [rec EXCEPT ![cur][s] = Answered(@, answer)]
     /\ job' = [job EXCEPT ![s] = "none"]
     /\ halt' = (halt \/ answer = "halt")
     /\ slow' = IF answer = "throttled" /\ attempts < MaxThrottled
                THEN Bigger(slow, attempts) ELSE slow
     /\ UNCHANGED <<bc, wait, armed, arrived, pc, share, todo, cur, token, again,
                    reached, calls, crashes>>

(* Every send of the tick is back. *)
StepJoins ==
  LET stopped == halt \/ Tripped(rec[cur])
      status == IF stopped /\ bc[cur] = "running" THEN "halted" ELSE bc[cur]
      rows == Cancelled(rec[cur], status)
  IN /\ pc = "sending"
     /\ \A s \in Seqs : job[s] = "none"
     /\ rec' = [rec EXCEPT ![cur] = rows]
     /\ bc' = [bc EXCEPT ![cur] = Finished(status, rows)]
     /\ wait' = IF ~stopped /\ slow > 0
                THEN [wait EXCEPT ![cur] = ThrottleDelay[slow]] ELSE wait
     /\ pc' = "loop"
     /\ todo' = todo \ {cur}
     /\ UNCHANGED <<armed, arrived, share, cur, token, job, halt, slow, again, reached,
                    calls, crashes>>

(* The step asks for the next tick while anything runs. *)
StepEnds ==
  /\ pc = "loop"
  /\ todo = {}
  /\ pc' = "media"
  /\ again' = (Running # {})
  /\ share' = 0
  /\ cur' = 0
  /\ token' = "none"
  /\ halt' = FALSE
  /\ slow' = 0
  /\ UNCHANGED <<tables, armed, arrived, todo, job, reached, calls, crashes>>

(* The media step, which comes last, is done: alarm() arms the earliest of   *)
(* what was asked for, by this step or another, and of what arrived.         *)
AlarmReturns(others) ==
  /\ pc = "media"
  /\ pc' = "idle"
  /\ again' = FALSE
  /\ armed' = (again \/ arrived \/ (armed /\ ~others))
  /\ UNCHANGED <<tables, arrived, share, todo, cur, token, job, halt, slow, reached,
                 calls, crashes>>

-----------------------------------------------------------------------------
(* The environment.                                                        *)

(* The object restarts; the runtime calls an alarm() it cut short again. *)
Crash ==
  /\ crashes > 0
  /\ pc # "idle"
  /\ crashes' = crashes - 1
  /\ pc' = "idle"
  /\ armed' = TRUE
  /\ arrived' = FALSE
  /\ share' = 0
  /\ todo' = {}
  /\ cur' = 0
  /\ token' = "none"
  /\ job' = [s \in Seqs |-> "none"]
  /\ halt' = FALSE
  /\ slow' = 0
  /\ again' = FALSE
  /\ UNCHANGED <<tables, reached, calls>>

Tick ==
  /\ wait' = [b \in Broadcasts |-> Dec(wait[b])]
  /\ UNCHANGED <<bc, rec, armed, arrived, step, reached, calls, crashes>>

(* STALE_SENDING_MS pass over a row in `sending`. *)
GoStale(b, s) ==
  /\ rec[b][s].status = "sending"
  /\ ~rec[b][s].stale
  /\ rec' = [rec EXCEPT ![b][s].stale = TRUE]
  /\ UNCHANGED <<bc, wait, armed, arrived, step, reached, calls, crashes>>

Requests ==
  \/ \E b \in Broadcasts : CreateBroadcast(b)
  \/ \E b \in Broadcasts : CancelBroadcast(b)
  \/ \E b \in Broadcasts, s \in Seqs : EraseByPhone(b, s)
  \/ \E b \in Broadcasts : PruneExpired(b)

Step ==
  \/ \E reserved \in Reserved : StepStarts(reserved)
  \/ \E b \in Broadcasts : GiveWay(b) \/ Claim(b) \/ NothingQueued(b)
  \/ TokenReturns
  \/ TokenMissing
  \/ TokenUnavailable
  \/ \E s \in Seqs, allowed \in BOOLEAN : CheckSendRate(s, allowed)
  \/ \E s \in Seqs : MetaTakes(s)
  \/ \E s \in Seqs, answer \in Answers : MetaAnswersSend(s, answer)
  \/ StepJoins
  \/ StepEnds
  \/ \E others \in BOOLEAN : AlarmReturns(others)

Environment ==
  \/ Crash
  \/ Tick
  \/ \E b \in Broadcasts, s \in Seqs : GoStale(b, s)

Next == Requests \/ Step \/ Environment

Spec == Init /\ [][Next]_vars

(* The runtime fires an armed alarm and runs it to the end; every fetch is   *)
(* answered or times out; time passes.  Scheduled sends, which all end, do   *)
(* not fill every tick a broadcast is due in for ever.                       *)
Fairness ==
  /\ WF_vars(Tick)
  /\ \A b \in Broadcasts, s \in Seqs : WF_vars(GoStale(b, s))
  /\ WF_vars(armed /\ \E reserved \in Reserved : StepStarts(reserved))
  /\ \A b \in Broadcasts :
       SF_vars(/\ armed /\ b \in Running /\ wait[b] = 0
               /\ \E reserved \in Reserved \ {PerTick} : StepStarts(reserved))
  /\ WF_vars(StepJoins \/ StepEnds
              \/ \E b \in Broadcasts : GiveWay(b) \/ Claim(b) \/ NothingQueued(b)
              \/ \E others \in BOOLEAN : AlarmReturns(others))
  /\ WF_vars(TokenReturns \/ TokenMissing \/ TokenUnavailable)
  /\ \A s \in Seqs :
       /\ WF_vars(\E allowed \in BOOLEAN : CheckSendRate(s, allowed))
       /\ WF_vars(\E answer \in Answers : MetaAnswersSend(s, answer))

FairSpec == Spec /\ Fairness

-----------------------------------------------------------------------------
(* Properties.                                                             *)

TypeOK ==
  /\ bc \in [Broadcasts -> {"none", "running", "completed", "cancelled",
                            "halted", "deleted"}]
  /\ rec \in [Broadcasts -> [Seqs -> Rec]]
  /\ wait \in [Broadcasts -> Nat]
  /\ armed \in BOOLEAN
  /\ arrived \in BOOLEAN
  /\ pc \in {"idle", "loop", "token", "sending", "media"}
  /\ share \in Nat
  /\ todo \in SUBSET Broadcasts
  /\ cur \in Broadcasts \cup {0}
  /\ token \in TokenAnswers \cup {"none"}
  /\ job \in [Seqs -> {"none", "claimed", "posting", "taken"}]
  /\ halt \in BOOLEAN
  /\ slow \in 0..MaxThrottled
  /\ again \in BOOLEAN
  /\ reached \in [Broadcasts -> [Seqs -> Nat]]
  /\ calls \in Nat
  /\ crashes \in Nat

(* Every recipient of a broadcast keeps the promise of a send: queued and    *)
(* being sent are one open status, what Meta took is the history.            *)
Promise == INSTANCE SendPromise WITH
  Messages <- Broadcasts \X Seqs,
  status <- [m \in Broadcasts \X Seqs |->
               IF rec[m[1]][m[2]].status \in {"queued", "sending"}
               THEN "open" ELSE rec[m[1]][m[2]].status],
  taken <- [m \in Broadcasts \X Seqs |-> reached[m[1]][m[2]]]

(* An outcome is never taken back, a message never sent again, a customer   *)
(* never told "failed" or "cancelled" of a message that Meta took: each step *)
(* of the broadcasts is a step of SendPromise, or none.                      *)
KeepsPromise == Promise!Spec

(* "A broadcast can never message anyone twice": not when an answer is lost, *)
(* a run dies with a send in flight, or a throttled recipient is queued      *)
(* again.                                                                    *)
MessagedAtMostOnce ==
  \A b \in Broadcasts, s \in Seqs : reached[b][s] <= 1

(* What a recipient's status says of the message is true: a sent one was     *)
(* taken by Meta; a queued, failed or cancelled one was not.                 *)
OutcomeIsTrue ==
  \A b \in Broadcasts, s \in Seqs :
    /\ rec[b][s].status = "sent" => reached[b][s] = 1
    /\ rec[b][s].status \in {"queued", "failed", "cancelled"} => reached[b][s] = 0

(* A completed broadcast is over: no recipient is queued or being sent to,   *)
(* now or in a run that died.                                                *)
CompletedIsSettled ==
  \A b \in Broadcasts :
    bc[b] = "completed" => In(b, {"queued", "sending"}) = {}

(* Between steps a broadcast that was cancelled or halted has no recipient   *)
(* left in its queue, wherever the cancel landed.                            *)
EndedHasNoneQueued ==
  pc \in {"idle", "media"} => \A b \in Broadcasts :
    bc[b] \in {"cancelled", "halted"} => In(b, {"queued"}) = {}

(* A running broadcast never waits without an alarm, whenever it was created. *)
RunningIsAwaited ==
  pc = "idle" /\ Running # {} => armed

(* A broadcast ends, as long as the token lookup answers and the limiter     *)
(* lets it send, whatever Meta answers and wherever a run dies.              *)
RunningEnds ==
  \A b \in Broadcasts : (bc[b] = "running") ~> (bc[b] # "running")

(* "A run that died mid-send left rows in `sending`: Meta may have them, so  *)
(* they end as unknown."                                                     *)
SendingEnds ==
  \A b \in Broadcasts, s \in Seqs :
    (rec[b][s].status = "sending") ~> (rec[b][s].status # "sending")
=============================================================================
