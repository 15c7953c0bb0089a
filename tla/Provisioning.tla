---------------------------- MODULE Provisioning ----------------------------
(* The saga that takes one registered WABA from pending to active: the row   *)
(* of the control plane with its lease, attempts and coexistence state, and  *)
(* the runs of the saga in the worker, each a claim of the row and the calls *)
(* to Meta and to the control plane that follow it. A run may outlive its    *)
(* lease or die at any call. Meta allows each of the two coexistence syncs   *)
(* once per number. The row's token is sealed and the worker's configuration *)
(* valid; the fingerprint of a handoff is new unless it is a no-op.          *)
EXTENDS WabaLife, Naturals, FiniteSets

CONSTANTS
  Runs,         \* runs of the saga at a time
  NoKind,
  MaxAttempts,  \* PROVISIONING_MAX_ATTEMPTS
  MaxHandoffs,  \* bound: registrations of the WABA
  MaxPolls,     \* bound: attempts that find no number yet
  MaxRechecks,  \* bound: operator calls that act on a failed row
  MaxFaults     \* bound: deaths, lost answers and leases outrun

Kinds == {"contacts", "history"}

ASSUME ProvisioningAssumption ==
  /\ NoKind \notin Kinds
  /\ MaxAttempts \in Nat \ {0}
  /\ IsFiniteSet(Runs)

VARIABLES
  revision, attempts,  \* wabas.provisioning_revision and _attempts
  wait,        \* provisioning_next_attempt_at and the lease: may a run claim
  onboarding,  \* onboarding_type, as the handoff asked for it
  verified,    \* coexistence_verified_type; "unknown" when null
  started,     \* the kinds whose *_sync_started_at is set
  settled,     \* the kinds whose *_sync_request_id is set
  windowOpen,  \* the 24 hours of the handoff, less the margin, are not over
  run,         \* the runs of the saga
  readFailed,  \* operators who read a failed row and are about to requeue it
  posts,       \* requests sent to Meta since the handoff: kind and number
  answered,    \* kinds whose every request of this handoff was answered
  resets,      \* kinds an operator declared as not spent, this handoff
  handoffs, rechecks, faults  \* what is left of the bounds

rowVars == <<status, phones, revision, attempts, wait, onboarding, verified,
             started, settled, windowOpen>>
ghostVars == <<posts, answered, resets>>
boundVars == <<handoffs, rechecks, faults>>
provisioningVars == <<rowVars, run, readFailed, ghostVars, boundVars>>

Outcomes == {"success", "retryable", "terminal", "awaiting"}

(* A run of the saga. `claim` is what it read when it claimed the row.       *)
Claims == [revision : Nat, attempt : Nat, handoff : Nat,
           onboarding : {"standard", "coexistence"},
           verified : {"unknown", "standard", "coexistence"},
           started : SUBSET Kinds, settled : SUBSET Kinds]
Run == [pc : {"idle", "subscribe", "adopt", "save", "verify", "begin", "post",
              "complete"},
        claim : Claims,
        numbers : SUBSET Phones,       \* the numbers it works with
        seen : {"unknown", "standard", "coexistence"},
        got : SUBSET Kinds,            \* progress: request ids it knows
        issued : BOOLEAN,              \* spend.issued
        kind : Kinds \cup {NoKind},    \* the sync at hand
        left : SUBSET Phones,          \* its numbers still to post
        outcome : Outcomes]

NoClaim == [revision |-> 0, attempt |-> 0, handoff |-> 0,
            onboarding |-> "standard", verified |-> "unknown",
            started |-> {}, settled |-> {}]
IdleRun == [pc |-> "idle", claim |-> NoClaim, numbers |-> {},
            seen |-> "unknown", got |-> {}, issued |-> FALSE, kind |-> NoKind,
            left |-> {}, outcome |-> "success"]

ProvisioningTypeOK ==
  /\ LifeTypeOK
  /\ revision \in Nat /\ attempts \in Nat
  /\ wait \in {"due", "leased", "backoff"}
  /\ onboarding \in {"standard", "coexistence"}
  /\ verified \in {"unknown", "standard", "coexistence"}
  /\ started \subseteq Kinds /\ settled \subseteq Kinds
  /\ windowOpen \in BOOLEAN
  /\ run \in [Runs -> Run]
  /\ readFailed \in Nat
  /\ posts \in [Kinds \X Phones -> Nat]
  /\ answered \subseteq Kinds
  /\ resets \in [Kinds -> Nat]

ProvisioningInit ==
  /\ LifeInit
  /\ revision = 0 /\ attempts = 0 /\ wait = "due"
  /\ onboarding = "standard" /\ verified = "unknown"
  /\ started = {} /\ settled = {} /\ windowOpen = TRUE
  /\ run = [r \in Runs |-> IdleRun]
  /\ readFailed = 0
  /\ posts = [kp \in Kinds \X Phones |-> 0]
  /\ answered = {} /\ resets = [k \in Kinds |-> 0]
  /\ handoffs = 0 /\ rechecks = 0 /\ faults = 0

-----------------------------------------------------------------------------
(* Helpers.                                                                  *)

(* Slip: the status is not looked at. *)
OwnsInAnyStatus(r) ==
  revision = run[r].claim.revision /\ attempts = run[r].claim.attempt

(* The guard of every write of a run: the row is still the one it claimed.   *)
Owns(r) ==
  /\ status = "pending"
  /\ revision = run[r].claim.revision
  /\ attempts = run[r].claim.attempt

Fault == faults < MaxFaults /\ faults' = faults + 1

Ends(rec, outcome) == [rec EXCEPT !.pc = "complete", !.outcome = outcome]

(* Slip: only the history is looked at. *)
HistorySpent(c) ==
  c.onboarding = "coexistence" /\ "history" \in c.started \ c.settled

(* coexistenceSyncSpentUnconfirmed, coexistenceSyncOutstanding.              *)
SpentUnconfirmed(c) == c.onboarding = "coexistence" /\ c.started \ c.settled # {}
Outstanding(c) ==
  /\ c.onboarding = "coexistence" /\ c.verified # "standard"
  /\ c.started # Kinds

(* The next sync to start: contacts, then history, without those the claim   *)
(* says were started. With none left the step has succeeded.                 *)
NextSync(rec, todo) ==
  LET next == todo \ rec.claim.started IN
  IF next = {} THEN Ends(rec, "success")
  ELSE [rec EXCEPT !.pc = "begin",
                   !.kind = IF "contacts" \in next THEN "contacts" ELSE "history"]

After(kind) == IF kind = "contacts" THEN {"history"} ELSE {}

(* The syncs may start once the number is verified and the window is open.   *)
Verified(rec, type) ==
  LET known == [rec EXCEPT !.seen = type] IN
  IF type = "standard" THEN Ends(known, "success")
  ELSE IF windowOpen THEN NextSync(known, Kinds)
  ELSE Ends(known, "terminal")

(* runCoexistenceSync up to its first call.                                  *)
StartSync(rec) ==
  IF SpentUnconfirmed(rec.claim) THEN Ends(rec, "terminal")
  ELSE IF ~Outstanding(rec.claim) THEN Ends(rec, "success")
  ELSE IF rec.claim.verified = "unknown" THEN [rec EXCEPT !.pc = "verify"]
  ELSE Verified(rec, rec.claim.verified)

-----------------------------------------------------------------------------
(* The handoffs of an Embedded Signup and the operators.                     *)

(* beginWabaProvisioningBatch: a new handoff clears all the row knew of the  *)
(* last one, and starts Meta's 24 hours.                                     *)
Register(ps, type) ==
  /\ handoffs < MaxHandoffs
  /\ handoffs' = handoffs + 1
  /\ status' = "pending" /\ phones' = IF ps = {} THEN phones ELSE ps
  /\ revision' = revision + 1 /\ attempts' = 0 /\ wait' = "due"
  /\ onboarding' = type /\ verified' = "unknown"
  /\ started' = {} /\ settled' = {} /\ windowOpen' = TRUE
  /\ posts' = [kp \in Kinds \X Phones |-> 0]
  /\ answered' = {} /\ resets' = [k \in Kinds |-> 0]
  /\ UNCHANGED <<run, readFailed, rechecks, faults>>

(* reconcileWaba reads the row; retryWabaProvisioning is another call, and   *)
(* takes a row that is pending by then as well.                              *)
ReadFailed ==
  /\ status = "failed" /\ rechecks < MaxRechecks
  /\ rechecks' = rechecks + 1
  /\ readFailed' = readFailed + 1
  /\ UNCHANGED <<rowVars, run, ghostVars, handoffs, faults>>

Retry ==
  /\ readFailed > 0
  /\ readFailed' = readFailed - 1
  /\ IF status \in {"pending", "failed"}
     THEN /\ status' = "pending"
          /\ revision' = revision + 1 /\ attempts' = 0 /\ wait' = "due"
     ELSE UNCHANGED <<status, revision, attempts, wait>>
  /\ UNCHANGED <<phones, onboarding, verified, started, settled, windowOpen, run,
                 ghostVars, boundVars>>

Unconfirmed(k) == status = "failed" /\ k \in started \ settled

(* resetUnconfirmedCoexistenceSync throws when the WABA has several numbers. *)
Reset(k) ==
  /\ Unconfirmed(k) /\ Cardinality(phones) <= 1
  /\ rechecks < MaxRechecks /\ rechecks' = rechecks + 1
  /\ started' = started \ {k}
  /\ resets' = [resets EXCEPT ![k] = @ + 1]
  /\ UNCHANGED <<status, phones, revision, attempts, wait, onboarding, verified,
                 settled, windowOpen, run, readFailed, posts, answered,
                 handoffs, faults>>

(* settleCoexistenceSyncNotPermitted.                                        *)
Settle(k) ==
  /\ Unconfirmed(k)
  /\ settled' = settled \cup {k}
  /\ UNCHANGED <<status, phones, revision, attempts, wait, onboarding, verified,
                 started, windowOpen, run, readFailed, ghostVars, boundVars>>

(* markHistorySharingOff, which the history webhook calls whatever the row's *)
(* status.                                                                   *)
HistorySharingOff ==
  /\ onboarding = "coexistence"
  /\ settled' = settled \cup {"history"}
  /\ UNCHANGED <<status, phones, revision, attempts, wait, onboarding, verified,
                 started, windowOpen, run, readFailed, ghostVars, boundVars>>

WindowCloses ==
  /\ windowOpen /\ onboarding = "coexistence"
  /\ windowOpen' = FALSE
  /\ UNCHANGED <<status, phones, revision, attempts, wait, onboarding, verified,
                 started, settled, run, readFailed, ghostVars, boundVars>>

-----------------------------------------------------------------------------
(* A run of the saga: each action is one call and what follows its answer.   *)

(* claimProvisioning, by the cron, a kick or an operator's re-check.         *)
Claim(r) ==
  /\ run[r].pc = "idle"
  /\ status = "pending" /\ wait = "due"
  /\ attempts' = attempts + 1 /\ wait' = "leased"
  /\ run' = [run EXCEPT ![r] =
       [IdleRun EXCEPT !.pc = "subscribe", !.numbers = phones,
          !.claim = [revision |-> revision, attempt |-> attempts + 1,
                     handoff |-> handoffs, onboarding |-> onboarding,
                     verified |-> verified,
                     started |-> started, settled |-> settled],
          !.seen = verified, !.got = settled]]
  /\ UNCHANGED <<status, phones, revision, onboarding, verified, started,
                 settled, windowOpen, readFailed, ghostVars, boundVars>>

RunOnly == UNCHANGED <<rowVars, readFailed, ghostVars, boundVars>>

(* subscribeApp. A refusal of Meta that no retry can change is terminal.     *)
Subscribe(r) ==
  /\ run[r].pc = "subscribe"
  /\ run' \in {[run EXCEPT ![r] = rec] : rec \in
       {[run[r] EXCEPT !.pc = IF run[r].numbers = {} THEN "adopt"
                                                     ELSE "save"],
        Ends(run[r], "retryable"), Ends(run[r], "terminal")}}
  /\ RunOnly

(* adoptPhonesFromMeta: a run without numbers asks Meta for them; Meta may   *)
(* have none, or not answer.                                                 *)
AdoptNumbers(r) ==
  /\ run[r].pc = "adopt"
  /\ \E found \in SUBSET Phones :
       IF found # {} /\ Owns(r) /\ phones = {}
       THEN /\ phones' = found
            /\ run' = [run EXCEPT ![r] =
                   [run[r] EXCEPT !.numbers = found, !.pc = "save"]]
       ELSE /\ found = {} => run[r].claim.attempt <= MaxPolls
            /\ run' = [run EXCEPT ![r] = Ends(run[r], "awaiting")]
            /\ UNCHANGED phones
  /\ UNCHANGED <<status, revision, attempts, wait, onboarding, verified, started,
                 settled, windowOpen, readFailed, ghostVars, boundVars>>

(* saveConfig of the gateway object, which no guard of the row protects.     *)
Save(r) ==
  /\ run[r].pc = "save"
  /\ run' \in {[run EXCEPT ![r] = rec] : rec \in
                  {StartSync(run[r]), Ends(run[r], "retryable")}}
  /\ RunOnly

(* verifyOnboardingType: what Meta says the number is, if it answers.        *)
Verify(r) ==
  /\ run[r].pc = "verify"
  /\ run' \in {[run EXCEPT ![r] = rec] : rec \in
       {Verified(run[r], "coexistence"), Verified(run[r], "standard"),
        Ends(run[r], "retryable")}}
  /\ RunOnly

(* A failure of the sync step is final once a sync was spent.                *)
SyncFails(rec) == Ends(rec, IF rec.issued THEN "terminal" ELSE "retryable")

(* Slip: the mark is looked up in the claim. *)
MayBeginAsClaimed(r, k) ==
  onboarding = "coexistence" /\ k \notin run[r].claim.started

(* beginCoexistenceSync: the sync is marked before its request goes out. The *)
(* answer of the call may be lost after the mark.                            *)
MayBegin(r, k) == Owns(r) /\ onboarding = "coexistence" /\ k \notin started

Begin(r) ==
  LET k == run[r].kind IN
  /\ run[r].pc = "begin"
  /\ IF MayBegin(r, k)
     THEN /\ started' = started \cup {k}
          /\ \/ /\ run' = [run EXCEPT ![r] =
                     [run[r] EXCEPT !.pc = "post", !.issued = TRUE, !.left = run[r].numbers]]
                /\ UNCHANGED faults
             \/ /\ run' = [run EXCEPT ![r] = SyncFails(run[r])]
                /\ Fault
     ELSE /\ run' = [run EXCEPT ![r] = SyncFails(run[r])]
          /\ UNCHANGED <<started, faults>>
  /\ UNCHANGED <<status, phones, revision, attempts, wait, onboarding, verified,
                 settled, windowOpen, readFailed, ghostVars, handoffs, rechecks>>

(* One request to Meta. A refusal that settles the sync counts as an answer; *)
(* any other error leaves it unconfirmed and ends the run.                   *)
Post(r) ==
  LET k == run[r].kind
      here == run[r].claim.handoff = handoffs
  IN
  /\ run[r].pc = "post"
  /\ \E p \in run[r].left :
       LET left == run[r].left \ {p}
           done == [run[r] EXCEPT !.left = {}, !.got = @ \cup {k}]
       IN
       /\ posts' = IF here THEN [posts EXCEPT ![<<k, p>>] = @ + 1] ELSE posts
       /\ \/ /\ run' = [run EXCEPT ![r] =
                   IF left = {} THEN NextSync(done, After(k))
                                ELSE [run[r] EXCEPT !.left = left]]
             /\ answered' = IF left = {} /\ here THEN answered \cup {k}
                                                 ELSE answered
          \/ /\ run' = [run EXCEPT ![r] = Ends(run[r], "terminal")]
             /\ UNCHANGED answered
  /\ UNCHANGED <<rowVars, readFailed, resets, boundVars>>

(* Slip: the progress of others is overwritten. *)
SettledAsRead(r) == run[r].got

(* completeWabaProvisioning: the progress and the outcome in one guarded     *)
(* transaction. What is settled and verified stays, whatever the run read.   *)
KnownSettled(r) == settled \cup run[r].got
StatusAfter(outcome) ==
  IF outcome = "success" THEN "active"
  ELSE IF outcome = "terminal" \/ (outcome = "retryable" /\ attempts >= MaxAttempts)
  THEN "failed" ELSE "pending"

Finish(r, outcome) ==
  /\ settled' = KnownSettled(r)
  /\ verified' = IF verified = "unknown" THEN run[r].seen ELSE verified
  /\ status' = StatusAfter(outcome)
  /\ wait' = IF StatusAfter(outcome) = "pending" THEN "backoff" ELSE "due"

Complete(r) ==
  /\ run[r].pc = "complete"
  /\ IF Owns(r) THEN Finish(r, run[r].outcome)
     ELSE UNCHANGED <<status, wait, verified, settled>>
  /\ run' = [run EXCEPT ![r] = IdleRun]
  /\ UNCHANGED <<phones, revision, attempts, onboarding, started, windowOpen,
                 readFailed, ghostVars, boundVars>>

(* The call that reports a success throws, before or after it was applied,   *)
(* and the run reports a failure of its sync step instead.                   *)
CompleteFails(r) ==
  /\ run[r].pc = "complete" /\ run[r].outcome = "success" /\ Fault
  /\ \/ Owns(r) /\ Finish(r, "success")
     \/ UNCHANGED <<status, wait, verified, settled>>
  /\ run' = [run EXCEPT ![r] = SyncFails(run[r])]
  /\ UNCHANGED <<phones, revision, attempts, onboarding, started, windowOpen,
                 readFailed, ghostVars, handoffs, rechecks>>

RunDies(r) ==
  /\ run[r].pc # "idle" /\ Fault
  /\ run' = [run EXCEPT ![r] = IdleRun]
  /\ UNCHANGED <<rowVars, readFailed, ghostVars, handoffs, rechecks>>

(* Slip: a lease has no end. *)
ElapseOfBackoff ==
  /\ wait = "backoff"
  /\ wait' = "due"
  /\ UNCHANGED <<status, phones, revision, attempts, onboarding, verified,
                 started, settled, windowOpen, run, readFailed, ghostVars,
                 boundVars>>

(* The backoff is over, or the lease: of a run that is gone, or too slow.    *)
Elapse ==
  /\ wait # "due"
  /\ wait' = "due"
  /\ IF wait = "leased" /\ \E r \in Runs : run[r].pc # "idle" /\ Owns(r)
     THEN Fault ELSE UNCHANGED faults
  /\ UNCHANGED <<status, phones, revision, attempts, onboarding, verified,
                 started, settled, windowOpen, run, readFailed, ghostVars,
                 handoffs, rechecks>>

-----------------------------------------------------------------------------
RunStep(r) ==
  \/ Subscribe(r) \/ AdoptNumbers(r) \/ Save(r) \/ Verify(r)
  \/ Begin(r) \/ Post(r) \/ Complete(r)

ProvisioningNext ==
  \/ \E ps \in SUBSET Phones, type \in {"standard", "coexistence"} :
       Register(ps, type)
  \/ ReadFailed \/ Retry
  \/ \E k \in Kinds : Reset(k) \/ Settle(k)
  \/ HistorySharingOff
  \/ WindowCloses
  \/ \E r \in Runs : Claim(r) \/ RunStep(r) \/ CompleteFails(r) \/ RunDies(r)
  \/ Elapse

ProvisioningSpec == ProvisioningInit /\ [][ProvisioningNext]_provisioningVars

(* The cron claims what is due every five minutes, a run that is not dead    *)
(* gets its answers or its timeouts, and time passes.                        *)
ProvisioningFairness ==
  /\ WF_provisioningVars(\E r \in Runs : Claim(r))
  /\ \A r \in Runs : WF_provisioningVars(RunStep(r))
  /\ WF_provisioningVars(Elapse)

FairProvisioning == ProvisioningSpec /\ ProvisioningFairness

-----------------------------------------------------------------------------
(* Properties.                                                               *)

(* "Meta allows each sync exactly once per phone number": however runs       *)
(* overlap, die or are retried, a number gets each request of a handoff once *)
(* and once more for each time an operator declares it not spent.            *)
SyncIssuedOnce ==
  \A k \in Kinds, p \in Phones : posts[<<k, p>>] <= 1 + resets[k]

(* "A WABA that has not had it done never reads as `active`": an active      *)
(* coexistence WABA has both syncs settled, or Meta says it is a standard    *)
(* one, whatever claim completed it.                                         *)
ActiveOwesNothing ==
  status = "active" /\ onboarding = "coexistence" =>
    verified = "standard" \/ settled = Kinds

(* What Meta accepted or told of a number is not unlearned by a later        *)
(* attempt or by a run that read less: only a new handoff clears it.         *)
ProgressSticks ==
  [][handoffs' = handoffs =>
       /\ settled \subseteq settled'
       /\ verified # "unknown" => verified' = verified]_provisioningVars

(* A pending WABA that has a number becomes active or failed, although runs  *)
(* die with its lease in hand.                                               *)
PendingEnds == (status = "pending" /\ phones # {}) ~> (status # "pending")

(* "A sync request was sent and no success came back" (docs/operations.md)   *)
(* is what a failed row with a spent, unsettled sync tells its operator.     *)
UnconfirmedWasNotAnswered ==
  status = "failed" => (started \ settled) \cap answered = {}
=============================================================================
