------------------------- MODULE ProvisioningProofs -------------------------
(***************************************************************************)
(* Theorems about Provisioning, for every number of runs, numbers,         *)
(* handoffs, faults and attempts: how the row of a WABA lives, and what    *)
(* runs that overlap and die do to its coexistence syncs.                  *)
(***************************************************************************)
EXTENDS Provisioning, FiniteSetTheorems, TLAPS

-----------------------------------------------------------------------------
(* The record of a run.  What a run knows of the syncs starts from its claim *)
(* and only grows; it works on a sync only for a coexistence number none of  *)
(* whose syncs is spent and unsettled; and a success has found a reason.     *)

KnowsItsClaim(x) ==
  /\ x.claim.settled \subseteq x.got
  /\ x.claim.verified # "unknown" => x.seen = x.claim.verified

Syncs(x) ==
  /\ x.claim.onboarding = "coexistence"
  /\ x.claim.started \subseteq x.claim.settled

Succeeds(x) == x.pc = "complete" /\ x.outcome = "success"

GoodRun(x) ==
  /\ KnowsItsClaim(x)
  /\ x.pc \in {"save", "verify", "begin", "post"} \/ Succeeds(x)
       => x.numbers # {}
  /\ x.pc \in {"verify", "begin", "post"} => Syncs(x)
  /\ x.pc = "verify" => x.claim.verified = "unknown"
  /\ x.pc \in {"begin", "post"} =>
       /\ x.kind \in Kinds
       /\ x.kind = "history" => "contacts" \in x.got
  /\ Succeeds(x) =>
       \/ x.claim.onboarding = "standard"
       \/ x.seen = "standard"
       \/ x.got = Kinds

LEMMA IdleGood == IdleRun \in Run /\ GoodRun(IdleRun)
<1>1. NoClaim \in Claims
  BY DEF NoClaim, Claims
<1>2. IdleRun \in Run
  BY <1>1 DEF IdleRun, Run, Outcomes
<1>3. GoodRun(IdleRun)
  BY DEF GoodRun, KnowsItsClaim, Syncs, Succeeds, IdleRun, NoClaim
<1> QED
  BY <1>2, <1>3

LEMMA EndsRun ==
  ASSUME NEW x \in Run, NEW outcome \in Outcomes
  PROVE  /\ Ends(x, outcome) \in Run
         /\ Ends(x, outcome).pc = "complete"
         /\ Ends(x, outcome).outcome = outcome
         /\ Ends(x, outcome).claim = x.claim
         /\ Ends(x, outcome).numbers = x.numbers
         /\ Ends(x, outcome).seen = x.seen
         /\ Ends(x, outcome).got = x.got
BY DEF Ends, Run, Outcomes

(* A run may always end without a success.                                   *)
LEMMA EndsGood ==
  ASSUME NEW x \in Run, GoodRun(x),
         NEW outcome \in {"retryable", "terminal", "awaiting"}
  PROVE  /\ Ends(x, outcome) \in Run /\ GoodRun(Ends(x, outcome))
         /\ Ends(x, outcome).claim = x.claim
         /\ Ends(x, outcome).numbers = x.numbers
         /\ Ends(x, outcome).pc = "complete" /\ ~Succeeds(Ends(x, outcome))
<1>1. outcome \in Outcomes /\ outcome # "success"
  BY DEF Outcomes
<1> QED
  BY <1>1, EndsRun DEF GoodRun, KnowsItsClaim, Succeeds, Syncs

LEMMA SyncFailsGood ==
  ASSUME NEW x \in Run, GoodRun(x)
  PROVE  /\ SyncFails(x) \in Run /\ GoodRun(SyncFails(x))
         /\ SyncFails(x).pc = "complete" /\ ~Succeeds(SyncFails(x))
         /\ SyncFails(x).claim = x.claim
         /\ SyncFails(x).numbers = x.numbers
<1>1. PICK outcome \in {"retryable", "terminal"} :
        SyncFails(x) = Ends(x, outcome)
  BY DEF SyncFails
<1> QED
  BY <1>1, EndsGood

(* The next sync of a run to which nothing outside `todo` is unknown.        *)
LEMMA NextSyncGood ==
  ASSUME NEW x \in Run, KnowsItsClaim(x), Syncs(x), x.numbers # {},
         NEW todo \in SUBSET Kinds, Kinds \ todo \subseteq x.got
  PROVE  /\ NextSync(x, todo) \in Run /\ GoodRun(NextSync(x, todo))
         /\ NextSync(x, todo).claim = x.claim
         /\ NextSync(x, todo).numbers = x.numbers
         /\ NextSync(x, todo).pc \in {"begin", "complete"}
<1> DEFINE next == todo \ x.claim.started
           kind == IF "contacts" \in next THEN "contacts" ELSE "history"
           y == [x EXCEPT !.pc = "begin", !.kind = kind]
<1>1. CASE next = {}
  <2>1. x.got = Kinds
    BY <1>1 DEF KnowsItsClaim, Syncs, Run
  <2>2. GoodRun(Ends(x, "success"))
    BY <2>1, EndsRun DEF GoodRun, KnowsItsClaim, Succeeds, Outcomes
  <2> QED
    BY <1>1, <2>2, EndsRun DEF NextSync, Outcomes
<1>2. CASE next # {}
  <2>1. NextSync(x, todo) = y
    BY <1>2 DEF NextSync
  <2>2. kind \in Kinds
    BY DEF Kinds
  <2>3. kind = "history" => "contacts" \in x.got
    BY DEF Kinds, KnowsItsClaim, Syncs
  <2>4. y \in Run
    BY <2>2 DEF Run
  <2>5. /\ y.pc = "begin" /\ y.kind = kind /\ y.claim = x.claim
        /\ y.numbers = x.numbers /\ y.seen = x.seen /\ y.got = x.got
    BY DEF Run
  <2>6. GoodRun(y)
    BY <2>2, <2>3, <2>5 DEF GoodRun, KnowsItsClaim, Syncs, Succeeds
  <2> QED
    BY <2>1, <2>4, <2>5, <2>6
<1> QED
  BY <1>1, <1>2

LEMMA VerifiedGood ==
  ASSUME NEW x \in Run, KnowsItsClaim(x), Syncs(x), x.numbers # {},
         NEW type \in {"standard", "coexistence"},
         x.claim.verified # "unknown" => type = x.claim.verified
  PROVE  /\ Verified(x, type) \in Run /\ GoodRun(Verified(x, type))
         /\ Verified(x, type).claim = x.claim
         /\ Verified(x, type).numbers = x.numbers
         /\ Verified(x, type).pc \in {"begin", "complete"}
<1> DEFINE known == [x EXCEPT !.seen = type]
<1>0. Verified(x, type) = IF type = "standard" THEN Ends(known, "success")
                          ELSE IF windowOpen THEN NextSync(known, Kinds)
                          ELSE Ends(known, "terminal")
  BY DEF Verified
<1>1. /\ known \in Run /\ known.seen = type /\ known.claim = x.claim
      /\ known.numbers = x.numbers /\ known.got = x.got
  BY DEF Run
<1>2. KnowsItsClaim(known) /\ Syncs(known)
  BY <1>1 DEF KnowsItsClaim, Syncs
<1> HIDE DEF known
<1>3. CASE type = "standard"
  <2>1. GoodRun(Ends(known, "success"))
    BY <1>1, <1>2, <1>3, EndsRun DEF GoodRun, KnowsItsClaim, Succeeds, Outcomes
  <2> QED
    BY <1>0, <1>1, <1>3, <2>1, EndsRun DEF Outcomes
<1>4. CASE type # "standard" /\ windowOpen
  BY <1>0, <1>1, <1>2, <1>4, NextSyncGood
<1>5. CASE type # "standard" /\ ~windowOpen
  <2>1. GoodRun(Ends(known, "terminal"))
    BY <1>1, <1>2, EndsRun DEF GoodRun, KnowsItsClaim, Succeeds, Outcomes
  <2> QED
    BY <1>0, <1>1, <1>5, <2>1, EndsRun DEF Outcomes
<1> QED
  BY <1>3, <1>4, <1>5

LEMMA StartSyncGood ==
  ASSUME NEW x \in Run, GoodRun(x), x.pc = "save"
  PROVE  /\ StartSync(x) \in Run /\ GoodRun(StartSync(x))
         /\ StartSync(x).claim = x.claim
         /\ StartSync(x).numbers = x.numbers
         /\ StartSync(x).pc \in {"verify", "begin", "complete"}
<1>0. /\ x.numbers # {} /\ KnowsItsClaim(x)
      /\ x.claim.onboarding \in {"standard", "coexistence"}
      /\ x.claim.verified \in {"unknown", "standard", "coexistence"}
      /\ x.claim.settled \subseteq Kinds /\ x.got \subseteq Kinds
      /\ x.claim.started \subseteq Kinds
  BY DEF GoodRun, Run, Claims
<1>1. CASE SpentUnconfirmed(x.claim)
  BY <1>1, EndsGood DEF StartSync
<1>2. CASE ~SpentUnconfirmed(x.claim) /\ ~Outstanding(x.claim)
  <2>1. StartSync(x) = Ends(x, "success")
    BY <1>2 DEF StartSync
  <2>2. \/ x.claim.onboarding = "standard"
        \/ x.claim.verified = "standard"
        \/ x.claim.started = Kinds /\ x.claim.started \subseteq x.claim.settled
    BY <1>0, <1>2 DEF Outstanding, SpentUnconfirmed
  <2>3. \/ x.claim.onboarding = "standard"
        \/ x.seen = "standard"
        \/ x.got = Kinds
    BY <1>0, <2>2 DEF KnowsItsClaim
  <2>4. GoodRun(Ends(x, "success"))
    BY <1>0, <2>3, EndsRun DEF GoodRun, KnowsItsClaim, Succeeds, Outcomes
  <2> QED
    BY <2>1, <2>4, EndsRun DEF Outcomes
<1>3. CASE ~SpentUnconfirmed(x.claim) /\ Outstanding(x.claim)
  <2>1. Syncs(x)
    BY <1>3 DEF Syncs, SpentUnconfirmed, Outstanding
  <2>2. CASE x.claim.verified = "unknown"
    <3> DEFINE y == [x EXCEPT !.pc = "verify"]
    <3>1. StartSync(x) = y
      BY <1>3, <2>2 DEF StartSync
    <3>2. /\ y \in Run /\ y.pc = "verify" /\ y.claim = x.claim
          /\ y.numbers = x.numbers /\ y.got = x.got /\ y.seen = x.seen
      BY DEF Run
    <3>3. GoodRun(y)
      BY <1>0, <2>1, <2>2, <3>2 DEF GoodRun, KnowsItsClaim, Syncs, Succeeds
    <3> QED
      BY <3>1, <3>2, <3>3
  <2>3. CASE x.claim.verified # "unknown"
    <3>1. StartSync(x) = Verified(x, x.claim.verified)
      BY <1>3, <2>3 DEF StartSync
    <3> QED
      BY <1>0, <2>1, <2>3, <3>1, VerifiedGood
  <2> QED
    BY <2>2, <2>3
<1> QED
  BY <1>1, <1>2, <1>3

-----------------------------------------------------------------------------
(* What a run may do: its record stays good and keeps its claim, and it      *)
(* writes the status and the type of the row only while the row is its own.  *)

TypeInv == ProvisioningTypeOK /\ handoffs \in Nat

AtWork(r) == run[r].pc # "idle"

RunsAreGood == \A r \in Runs : GoodRun(run[r])

MovesTo(r, x) ==
  /\ run' = [run EXCEPT ![r] = x]
  /\ x \in Run /\ GoodRun(x)
  /\ x = IdleRun \/ x.claim = run[r].claim
  /\ x.numbers # {} => run[r].numbers # {} \/ phones' # {}

KeepsRow(r, x) ==
  /\ UNCHANGED <<revision, attempts, onboarding, handoffs>>
  /\ phones' \in SUBSET Phones /\ (phones # {} => phones' = phones)
  /\ \/ UNCHANGED <<status, verified>>
     \/ Owns(r) /\ (status' # "pending" \/ x = IdleRun)

LEMMA SubscribeMoves ==
  ASSUME TypeInv, RunsAreGood, NEW r \in Runs, Subscribe(r)
  PROVE  \E x : MovesTo(r, x) /\ KeepsRow(r, x)
<1> DEFINE y == [run[r] EXCEPT !.pc = IF run[r].numbers = {} THEN "adopt"
                                                           ELSE "save"]
<1>1. run[r] \in Run /\ GoodRun(run[r]) /\ run[r].pc = "subscribe"
  BY DEF TypeInv, ProvisioningTypeOK, RunsAreGood, Subscribe
<1>2. /\ y \in Run /\ y.claim = run[r].claim /\ y.numbers = run[r].numbers
      /\ y.got = run[r].got /\ y.seen = run[r].seen
      /\ y.pc = IF run[r].numbers = {} THEN "adopt" ELSE "save"
  BY <1>1 DEF Run
<1>3. GoodRun(y)
  BY <1>1, <1>2 DEF GoodRun, KnowsItsClaim, Succeeds
<1>4. KeepsRow(r, run'[r]) /\ \A x : KeepsRow(r, x)
  BY DEF Subscribe, RunOnly, rowVars, boundVars, KeepsRow, TypeInv,
         ProvisioningTypeOK, LifeTypeOK
<1>5. PICK x \in {y, Ends(run[r], "retryable"), Ends(run[r], "terminal")} :
        run' = [run EXCEPT ![r] = x]
  BY DEF Subscribe
<1> HIDE DEF y
<1>6. /\ x \in Run /\ GoodRun(x) /\ x.claim = run[r].claim
      /\ x.numbers = run[r].numbers
  BY <1>1, <1>2, <1>3, <1>5, EndsGood
<1> QED
  BY <1>4, <1>5, <1>6 DEF MovesTo

LEMMA AdoptMoves ==
  ASSUME TypeInv, RunsAreGood, NEW r \in Runs, AdoptNumbers(r)
  PROVE  \E x : MovesTo(r, x) /\ KeepsRow(r, x)
<1>1. run[r] \in Run /\ GoodRun(run[r]) /\ run[r].pc = "adopt"
  BY DEF TypeInv, ProvisioningTypeOK, RunsAreGood, AdoptNumbers
<1>2. PICK found \in SUBSET Phones :
        IF found # {} /\ Owns(r) /\ phones = {}
        THEN /\ phones' = found
             /\ run' = [run EXCEPT ![r] =
                          [run[r] EXCEPT !.numbers = found, !.pc = "save"]]
        ELSE /\ run' = [run EXCEPT ![r] = Ends(run[r], "awaiting")]
             /\ UNCHANGED phones
  BY DEF AdoptNumbers
<1>3. ASSUME phones' \in SUBSET Phones, phones # {} => phones' = phones, NEW x
      PROVE  KeepsRow(r, x)
  BY <1>3 DEF AdoptNumbers, boundVars, KeepsRow
<1>4. CASE found # {} /\ Owns(r) /\ phones = {}
  <2> DEFINE y == [run[r] EXCEPT !.numbers = found, !.pc = "save"]
  <2>1. run' = [run EXCEPT ![r] = y] /\ phones' = found
    BY <1>2, <1>4 DEF TypeInv, ProvisioningTypeOK
  <2>2. /\ y \in Run /\ y.claim = run[r].claim /\ y.numbers = found
        /\ y.got = run[r].got /\ y.seen = run[r].seen /\ y.pc = "save"
    BY <1>1 DEF Run
  <2>3. GoodRun(y)
    BY <1>1, <1>4, <2>2 DEF GoodRun, KnowsItsClaim, Succeeds
  <2>4. MovesTo(r, y)
    BY <1>4, <2>1, <2>2, <2>3 DEF MovesTo
  <2> QED
    BY <1>3, <1>4, <2>1, <2>4
<1>5. CASE ~(found # {} /\ Owns(r) /\ phones = {})
  <2> DEFINE y == Ends(run[r], "awaiting")
  <2>1. run' = [run EXCEPT ![r] = y] /\ phones' = phones
    BY <1>2, <1>5
  <2>2. /\ y \in Run /\ GoodRun(y) /\ y.claim = run[r].claim
        /\ y.numbers = run[r].numbers
    BY <1>1, EndsGood
  <2>3. MovesTo(r, y)
    BY <2>1, <2>2 DEF MovesTo
  <2> QED
    BY <1>3, <2>1, <2>3 DEF TypeInv, ProvisioningTypeOK, LifeTypeOK
<1> QED
  BY <1>4, <1>5

LEMMA SaveMoves ==
  ASSUME TypeInv, RunsAreGood, NEW r \in Runs, Save(r)
  PROVE  \E x : MovesTo(r, x) /\ KeepsRow(r, x)
<1>1. run[r] \in Run /\ GoodRun(run[r]) /\ run[r].pc = "save"
  BY DEF TypeInv, ProvisioningTypeOK, RunsAreGood, Save
<1>2. \A x : KeepsRow(r, x)
  BY DEF Save, RunOnly, rowVars, boundVars, KeepsRow, TypeInv,
         ProvisioningTypeOK, LifeTypeOK
<1>3. PICK x \in {StartSync(run[r]), Ends(run[r], "retryable")} :
        run' = [run EXCEPT ![r] = x]
  BY DEF Save
<1>4. /\ x \in Run /\ GoodRun(x) /\ x.claim = run[r].claim
      /\ x.numbers = run[r].numbers
  BY <1>1, <1>3, StartSyncGood, EndsGood
<1> QED
  BY <1>2, <1>3, <1>4 DEF MovesTo

LEMMA VerifyMoves ==
  ASSUME TypeInv, RunsAreGood, NEW r \in Runs, Verify(r)
  PROVE  \E x : MovesTo(r, x) /\ KeepsRow(r, x)
<1>1. run[r] \in Run /\ GoodRun(run[r]) /\ run[r].pc = "verify"
  BY DEF TypeInv, ProvisioningTypeOK, RunsAreGood, Verify
<1>2. \A x : KeepsRow(r, x)
  BY DEF Verify, RunOnly, rowVars, boundVars, KeepsRow, TypeInv,
         ProvisioningTypeOK, LifeTypeOK
<1>3. PICK x \in {Verified(run[r], "coexistence"), Verified(run[r], "standard"),
                  Ends(run[r], "retryable")} :
        run' = [run EXCEPT ![r] = x]
  BY DEF Verify
<1>4. KnowsItsClaim(run[r]) /\ Syncs(run[r]) /\ run[r].numbers # {}
  BY <1>1 DEF GoodRun
<1>5. run[r].claim.verified = "unknown"
  BY <1>1 DEF GoodRun
<1>6. /\ x \in Run /\ GoodRun(x) /\ x.claim = run[r].claim
      /\ x.numbers = run[r].numbers
  BY <1>1, <1>3, <1>4, <1>5, VerifiedGood, EndsGood
<1> QED
  BY <1>2, <1>3, <1>6 DEF MovesTo

LEMMA BeginMoves ==
  ASSUME TypeInv, RunsAreGood, NEW r \in Runs, Begin(r)
  PROVE  \E x : MovesTo(r, x) /\ KeepsRow(r, x)
<1>1. run[r] \in Run /\ GoodRun(run[r]) /\ run[r].pc = "begin"
  BY DEF TypeInv, ProvisioningTypeOK, RunsAreGood, Begin
<1>2. \A x : KeepsRow(r, x)
  BY DEF Begin, KeepsRow, TypeInv, ProvisioningTypeOK, LifeTypeOK
<1> DEFINE y == [run[r] EXCEPT !.pc = "post", !.issued = TRUE,
                               !.left = run[r].numbers]
<1>3. PICK x \in {y, SyncFails(run[r])} : run' = [run EXCEPT ![r] = x]
  BY DEF Begin
<1>4. /\ y \in Run /\ y.claim = run[r].claim /\ y.numbers = run[r].numbers
      /\ y.got = run[r].got /\ y.seen = run[r].seen /\ y.kind = run[r].kind
      /\ y.pc = "post"
  BY <1>1 DEF Run
<1> HIDE DEF y
<1>5. GoodRun(y)
  BY <1>1, <1>4 DEF GoodRun, KnowsItsClaim, Syncs, Succeeds
<1>6. /\ x \in Run /\ GoodRun(x) /\ x.claim = run[r].claim
      /\ x.numbers = run[r].numbers
  BY <1>1, <1>3, <1>4, <1>5, SyncFailsGood
<1> QED
  BY <1>2, <1>3, <1>6 DEF MovesTo

(* The record after a request: the next number, the next sync, or the end.   *)
Posted(x, p) ==
  {IF x.left = {p}
   THEN NextSync([x EXCEPT !.left = {}, !.got = @ \cup {x.kind}], After(x.kind))
   ELSE [x EXCEPT !.left = @ \ {p}],
   Ends(x, "terminal")}

LEMMA PostedGood ==
  ASSUME NEW x \in Run, GoodRun(x), x.pc = "post", NEW p \in x.left,
         NEW y \in Posted(x, p)
  PROVE  /\ y \in Run /\ GoodRun(y) /\ y.claim = x.claim
         /\ y.numbers = x.numbers
         /\ y.pc = "post" => y.kind = x.kind /\ y.left = x.left \ {p}
<1>1. CASE y = Ends(x, "terminal")
  BY <1>1, EndsGood
<1>2. CASE x.left # {p} /\ y = [x EXCEPT !.left = @ \ {p}]
  <2>1. /\ y \in Run /\ y.claim = x.claim /\ y.numbers = x.numbers
        /\ y.got = x.got /\ y.seen = x.seen /\ y.kind = x.kind
        /\ y.pc = "post" /\ y.left = x.left \ {p}
    BY <1>2 DEF Run
  <2>2. GoodRun(y)
    BY <2>1 DEF GoodRun, KnowsItsClaim, Syncs, Succeeds
  <2> QED
    BY <2>1, <2>2
<1> DEFINE done == [x EXCEPT !.left = {}, !.got = @ \cup {x.kind}]
<1>3. CASE x.left = {p} /\ y = NextSync(done, After(x.kind))
  <2>1. x.kind \in Kinds
    BY DEF GoodRun
  <2>2. /\ done \in Run /\ done.claim = x.claim /\ done.numbers = x.numbers
        /\ done.seen = x.seen /\ done.got = x.got \cup {x.kind}
    BY <2>1 DEF Run
  <2> HIDE DEF done
  <2>3. KnowsItsClaim(done) /\ Syncs(done) /\ done.numbers # {}
    BY <2>2 DEF GoodRun, KnowsItsClaim, Syncs
  <2>4. After(x.kind) \subseteq Kinds /\ Kinds \ After(x.kind) \subseteq done.got
    BY <2>1, <2>2 DEF After, Kinds, GoodRun
  <2> QED
    BY <1>3, <2>2, <2>3, <2>4, NextSyncGood
<1> QED
  BY <1>1, <1>2, <1>3 DEF Posted

LEMMA PostSteps ==
  ASSUME TypeInv, NEW r \in Runs, Post(r)
  PROVE  \E p \in run[r].left : \E y \in Posted(run[r], p) :
           /\ run' = [run EXCEPT ![r] = y]
           /\ posts' = IF run[r].claim.handoff = handoffs
                       THEN [posts EXCEPT ![<<run[r].kind, p>>] = @ + 1]
                       ELSE posts
<1>1. run[r] \in Run
  BY DEF TypeInv, ProvisioningTypeOK
<1> DEFINE k == run[r].kind
           done == [run[r] EXCEPT !.left = {}, !.got = @ \cup {k}]
           counted(p) == IF run[r].claim.handoff = handoffs
                         THEN [posts EXCEPT ![<<k, p>>] = @ + 1] ELSE posts
<1>2. PICK p \in run[r].left :
        /\ posts' = counted(p)
        /\ \/ run' = [run EXCEPT ![r] =
                IF run[r].left \ {p} = {} THEN NextSync(done, After(k))
                ELSE [run[r] EXCEPT !.left = run[r].left \ {p}]]
           \/ run' = [run EXCEPT ![r] = Ends(run[r], "terminal")]
  BY DEF Post
<1> DEFINE y == IF run[r].left \ {p} = {} THEN NextSync(done, After(k))
                ELSE [run[r] EXCEPT !.left = run[r].left \ {p}]
<1>3. y \in Posted(run[r], p) /\ Ends(run[r], "terminal") \in Posted(run[r], p)
  <2>1. run[r].left \ {p} = {} <=> run[r].left = {p}
    OBVIOUS
  <2> QED
    BY <2>1 DEF Posted
<1> HIDE DEF y
<1> QED
  BY <1>2, <1>3 DEF y

LEMMA PostMoves ==
  ASSUME TypeInv, RunsAreGood, NEW r \in Runs, Post(r)
  PROVE  \E x : MovesTo(r, x) /\ KeepsRow(r, x)
<1>1. run[r] \in Run /\ GoodRun(run[r]) /\ run[r].pc = "post"
  BY DEF TypeInv, ProvisioningTypeOK, RunsAreGood, Post
<1>2. \A x : KeepsRow(r, x)
  BY DEF Post, rowVars, boundVars, KeepsRow, TypeInv, ProvisioningTypeOK,
         LifeTypeOK
<1>3. PICK p \in run[r].left : \E y \in Posted(run[r], p) :
        run' = [run EXCEPT ![r] = y]
  BY PostSteps
<1>4. PICK y \in Posted(run[r], p) : run' = [run EXCEPT ![r] = y]
  BY <1>3
<1>5. /\ y \in Run /\ GoodRun(y) /\ y.claim = run[r].claim
      /\ y.numbers = run[r].numbers
  BY <1>1, PostedGood
<1> QED
  BY <1>2, <1>4, <1>5 DEF MovesTo

LEMMA EndMoves ==
  ASSUME TypeInv, RunsAreGood, NEW r \in Runs,
         Complete(r) \/ CompleteFails(r) \/ RunDies(r)
  PROVE  \E x : MovesTo(r, x) /\ KeepsRow(r, x)
<1>1. run[r] \in Run /\ GoodRun(run[r])
  BY DEF TypeInv, ProvisioningTypeOK, RunsAreGood
<1>2. /\ UNCHANGED <<revision, attempts, onboarding, handoffs, phones>>
      /\ phones \in SUBSET Phones
  BY DEF Complete, CompleteFails, RunDies, rowVars, boundVars, TypeInv,
         ProvisioningTypeOK, LifeTypeOK
<1>3. CASE Complete(r)
  <2>1. /\ run' = [run EXCEPT ![r] = IdleRun]
        /\ UNCHANGED <<status, verified>> \/ Owns(r)
    BY <1>3 DEF Complete
  <2>2. IdleRun.numbers = {}
    BY DEF IdleRun
  <2> QED
    BY <1>2, <2>1, <2>2, IdleGood DEF MovesTo, KeepsRow
<1>4. CASE CompleteFails(r)
  <2>1. /\ run' = [run EXCEPT ![r] = SyncFails(run[r])]
        /\ UNCHANGED <<status, verified>> \/ (Owns(r) /\ status' = "active")
    BY <1>4 DEF CompleteFails, Finish, StatusAfter
  <2> QED
    BY <1>1, <1>2, <2>1, SyncFailsGood DEF MovesTo, KeepsRow
<1>5. CASE RunDies(r)
  <2>1. run' = [run EXCEPT ![r] = IdleRun] /\ UNCHANGED <<status, verified>>
    BY <1>5 DEF RunDies, rowVars
  <2>2. IdleRun.numbers = {}
    BY DEF IdleRun
  <2> QED
    BY <1>2, <2>1, <2>2, IdleGood DEF MovesTo, KeepsRow
<1> QED
  BY <1>3, <1>4, <1>5

LEMMA RunMoves ==
  ASSUME TypeInv, RunsAreGood, NEW r \in Runs,
         RunStep(r) \/ CompleteFails(r) \/ RunDies(r)
  PROVE  \E x : MovesTo(r, x) /\ KeepsRow(r, x)
BY SubscribeMoves, AdoptMoves, SaveMoves, VerifyMoves, BeginMoves, PostMoves,
   EndMoves DEF RunStep

LEMMA RunsAreAtWork ==
  ASSUME NEW r \in Runs, RunStep(r) \/ CompleteFails(r) \/ RunDies(r)
  PROVE  AtWork(r)
BY DEF RunStep, Subscribe, AdoptNumbers, Save, Verify, Begin, Post, Complete,
       CompleteFails, RunDies, AtWork

-----------------------------------------------------------------------------
(* Types.                                                                    *)

LEMMA RunTypes ==
  ASSUME TypeInv, RunsAreGood, NEW r \in Runs,
         RunStep(r) \/ CompleteFails(r) \/ RunDies(r)
  PROVE  TypeInv'
<1>1. PICK x : MovesTo(r, x) /\ KeepsRow(r, x)
  BY RunMoves
<1>2. run' \in [Runs -> Run]
  BY <1>1 DEF MovesTo, TypeInv, ProvisioningTypeOK
<1>3. /\ revision' \in Nat /\ attempts' \in Nat /\ handoffs' \in Nat
      /\ onboarding' \in {"standard", "coexistence"}
      /\ phones' \subseteq Phones
  BY <1>1 DEF KeepsRow, TypeInv, ProvisioningTypeOK
<1>4. /\ run[r].got \subseteq Kinds /\ run[r].kind \in Kinds \cup {NoKind}
      /\ run[r].seen \in {"unknown", "standard", "coexistence"}
      /\ run[r].left \subseteq Phones
      /\ run[r].pc \in {"begin", "post"} => run[r].kind \in Kinds
  BY DEF TypeInv, ProvisioningTypeOK, Run, RunsAreGood, GoodRun
<1>5. /\ status' \in {"none", "pending", "active", "failed"}
      /\ wait' \in {"due", "leased", "backoff"}
      /\ verified' \in {"unknown", "standard", "coexistence"}
      /\ settled' \subseteq Kinds
  <2>1. CASE UNCHANGED <<status, wait, verified, settled>>
    BY <2>1 DEF TypeInv, ProvisioningTypeOK, LifeTypeOK
  <2>2. ASSUME NEW outcome, Finish(r, outcome)
        PROVE  /\ status' \in {"none", "pending", "active", "failed"}
               /\ wait' \in {"due", "leased", "backoff"}
               /\ verified' \in {"unknown", "standard", "coexistence"}
               /\ settled' \subseteq Kinds
    BY <1>4, <2>2 DEF Finish, StatusAfter, KnownSettled, TypeInv,
       ProvisioningTypeOK
  <2>3. \/ UNCHANGED <<status, wait, verified, settled>>
        \/ \E outcome : Finish(r, outcome)
    <3>1. CASE Complete(r) \/ CompleteFails(r)
      BY <3>1 DEF Complete, CompleteFails
    <3>2. CASE Subscribe(r) \/ Save(r) \/ Verify(r) \/ Post(r) \/ RunDies(r)
      BY <3>2 DEF Subscribe, Save, Verify, Post, RunDies, RunOnly, rowVars
    <3>3. CASE AdoptNumbers(r) \/ Begin(r)
      BY <3>3 DEF AdoptNumbers, Begin
    <3> QED
      BY <3>1, <3>2, <3>3 DEF RunStep
  <2> QED
    BY <2>1, <2>2, <2>3
<1>6. /\ started' \subseteq Kinds /\ windowOpen' \in BOOLEAN
      /\ readFailed' \in Nat /\ resets' \in [Kinds -> Nat]
  <2>1. CASE Complete(r) \/ CompleteFails(r)
    BY <2>1 DEF Complete, CompleteFails, ghostVars, TypeInv, ProvisioningTypeOK
  <2>2. CASE Subscribe(r) \/ Save(r) \/ Verify(r) \/ Post(r) \/ RunDies(r)
    BY <2>2 DEF Subscribe, Save, Verify, Post, RunDies, RunOnly, rowVars,
       ghostVars, TypeInv, ProvisioningTypeOK
  <2>3. CASE AdoptNumbers(r)
    BY <2>3 DEF AdoptNumbers, ghostVars, TypeInv, ProvisioningTypeOK
  <2>4. CASE Begin(r)
    <3>1. run[r].kind \in Kinds
      BY <1>4, <2>4 DEF Begin
    <3> QED
      BY <2>4, <3>1 DEF Begin, ghostVars, TypeInv, ProvisioningTypeOK
  <2> QED
    BY <2>1, <2>2, <2>3, <2>4 DEF RunStep
<1>7. /\ posts' \in [Kinds \X Phones -> Nat] /\ answered' \subseteq Kinds
  <2>1. CASE Post(r)
    <3>1. run[r].kind \in Kinds
      BY <1>4, <2>1 DEF Post
    <3>2. answered' \subseteq Kinds
      BY <2>1, <3>1 DEF Post, TypeInv, ProvisioningTypeOK
    <3>3. posts' \in [Kinds \X Phones -> Nat]
      <4>1. PICK p \in run[r].left :
              posts' = IF run[r].claim.handoff = handoffs
                       THEN [posts EXCEPT ![<<run[r].kind, p>>] = @ + 1]
                       ELSE posts
        BY <2>1, PostSteps
      <4>2. posts \in [Kinds \X Phones -> Nat]
        BY DEF TypeInv, ProvisioningTypeOK
      <4> DEFINE q == <<run[r].kind, p>>
      <4>3. q \in Kinds \X Phones
        BY <1>4, <3>1
      <4> HIDE DEF q
      <4>4. posts[q] + 1 \in Nat
        BY <4>2, <4>3
      <4>5. [posts EXCEPT ![q] = @ + 1] \in [Kinds \X Phones -> Nat]
        BY <4>2, <4>3, <4>4
      <4> QED
        BY <4>1, <4>2, <4>5 DEF q
    <3> QED
      BY <3>2, <3>3
  <2>2. CASE ~Post(r)
    BY <2>2 DEF TypeInv, ProvisioningTypeOK, RunStep, Subscribe,
       AdoptNumbers, Save, Verify, Begin, Complete, CompleteFails, RunDies,
       RunOnly, ghostVars
  <2> QED
    BY <2>1, <2>2
<1> QED
  BY <1>2, <1>3, <1>5, <1>6, <1>7 DEF TypeInv, ProvisioningTypeOK, LifeTypeOK

LEMMA ClaimMoves ==
  ASSUME TypeInv, RunsAreGood, NEW r \in Runs, Claim(r)
  PROVE  /\ run'[r] \in Run /\ GoodRun(run'[r])
         /\ run'[r].claim.revision = revision
         /\ run'[r].claim.attempt = attempts + 1
         /\ run'[r].claim.handoff = handoffs
         /\ run'[r].claim.onboarding = onboarding
         /\ run'[r].claim.verified = verified
         /\ run'[r].numbers = phones
         /\ run'[r].pc = "subscribe"
         /\ run' = [run EXCEPT ![r] = run'[r]]
<1> DEFINE c == [revision |-> revision, attempt |-> attempts + 1,
                 handoff |-> handoffs, onboarding |-> onboarding,
                 verified |-> verified, started |-> started, settled |-> settled]
           x == [IdleRun EXCEPT !.pc = "subscribe", !.numbers = phones,
                                !.claim = c, !.seen = verified, !.got = settled]
<1>1. run' = [run EXCEPT ![r] = x]
  BY DEF Claim
<1>2. run'[r] = x
  BY <1>1 DEF TypeInv, ProvisioningTypeOK
<1>3. c \in Claims
  BY DEF Claims, TypeInv, ProvisioningTypeOK
<1>4. /\ c.revision = revision /\ c.attempt = attempts + 1
      /\ c.handoff = handoffs /\ c.onboarding = onboarding
      /\ c.verified = verified /\ c.settled = settled
  OBVIOUS
<1> HIDE DEF c
<1>5. IdleRun \in Run
  BY IdleGood
<1>6. /\ x \in Run /\ x.claim = c /\ x.numbers = phones /\ x.pc = "subscribe"
      /\ x.seen = verified /\ x.got = settled
  BY <1>3, <1>5 DEF TypeInv, ProvisioningTypeOK, LifeTypeOK, Run
<1> HIDE DEF x
<1>7. GoodRun(x)
  BY <1>4, <1>6 DEF GoodRun, KnowsItsClaim, Succeeds
<1> QED
  BY <1>1, <1>2, <1>4, <1>6, <1>7

(* The steps of a request or an operator leave the runs alone.               *)
RowStep ==
  \/ \E ps \in SUBSET Phones, type \in {"standard", "coexistence"} :
       Register(ps, type)
  \/ ReadFailed \/ Retry
  \/ \E k \in Kinds : Reset(k) \/ Settle(k)
  \/ HistorySharingOff \/ WindowCloses \/ Elapse

LEMMA StepCases ==
  ASSUME ProvisioningNext
  PROVE  \/ RowStep
         \/ \E r \in Runs : Claim(r)
         \/ \E r \in Runs : RunStep(r) \/ CompleteFails(r) \/ RunDies(r)
BY DEF ProvisioningNext, RowStep

LEMMA TypeStep ==
  ASSUME TypeInv, RunsAreGood, [ProvisioningNext]_provisioningVars
  PROVE  TypeInv'
<1>1. CASE RowStep
  <2>1. CASE \E ps \in SUBSET Phones, type \in {"standard", "coexistence"} :
               Register(ps, type)
    BY <2>1 DEF Register, TypeInv, ProvisioningTypeOK, LifeTypeOK
  <2>2. CASE ReadFailed \/ Retry
    BY <2>2 DEF ReadFailed, Retry, rowVars, ghostVars, boundVars, TypeInv,
       ProvisioningTypeOK, LifeTypeOK
  <2>3. CASE \E k \in Kinds : Reset(k) \/ Settle(k)
    BY <2>3 DEF Reset, Settle, Unconfirmed, ghostVars, boundVars, TypeInv,
       ProvisioningTypeOK, LifeTypeOK
  <2>4. CASE HistorySharingOff \/ WindowCloses \/ Elapse
    BY <2>4 DEF HistorySharingOff, WindowCloses, Elapse, Kinds, ghostVars,
       boundVars, TypeInv, ProvisioningTypeOK, LifeTypeOK
  <2> QED
    BY <1>1, <2>1, <2>2, <2>3, <2>4 DEF RowStep
<1>2. ASSUME NEW r \in Runs, Claim(r)
      PROVE  TypeInv'
  <2>1. run' \in [Runs -> Run]
    BY <1>2, ClaimMoves DEF TypeInv, ProvisioningTypeOK
  <2> QED
    BY <1>2, <2>1 DEF Claim, ghostVars, boundVars, TypeInv, ProvisioningTypeOK,
       LifeTypeOK
<1>3. CASE \E r \in Runs : RunStep(r) \/ CompleteFails(r) \/ RunDies(r)
  BY <1>3, RunTypes
<1>4. CASE UNCHANGED provisioningVars
  BY <1>4 DEF provisioningVars, rowVars, ghostVars, boundVars, TypeInv,
     ProvisioningTypeOK, LifeTypeOK
<1> QED
  BY <1>1, <1>2, <1>3, <1>4, StepCases

-----------------------------------------------------------------------------
(* Claims.  A run that still owns the row is of the present handoff and has  *)
(* read the verified type that the row has; no two runs own it at once.      *)

SameClaim(c, d) == c.revision = d.revision /\ c.attempt = d.attempt

ClaimIsOld(r) ==
  LET c == run[r].claim IN
  /\ c.handoff <= handoffs
  /\ c.revision <= revision
  /\ c.revision = revision =>
       c.attempt <= attempts /\ c.handoff = handoffs /\ c.onboarding = onboarding
  /\ Owns(r) => verified = c.verified
  /\ run[r].numbers # {} => phones # {}

ClaimsAreOld == \A r \in Runs : AtWork(r) => ClaimIsOld(r)

ClaimsDiffer ==
  \A r, s \in Runs :
    r # s /\ AtWork(r) /\ AtWork(s) => ~SameClaim(run[r].claim, run[s].claim)

RunsInv == TypeInv /\ RunsAreGood /\ ClaimsAreOld /\ ClaimsDiffer

LEMMA NumbersOfClaims ==
  ASSUME TypeInv, NEW r \in Runs
  PROVE  /\ run[r] \in Run
         /\ run[r].claim.revision \in Nat
         /\ run[r].claim.attempt \in Nat
         /\ run[r].claim.handoff \in Nat
         /\ revision \in Nat /\ attempts \in Nat /\ handoffs \in Nat
BY DEF TypeInv, ProvisioningTypeOK, Run, Claims

LEMMA RowStepClaims ==
  ASSUME RunsInv, RowStep
  PROVE  RunsAreGood' /\ ClaimsAreOld' /\ ClaimsDiffer'
<1>1. run' = run
  BY DEF RowStep, Register, ReadFailed, Retry, Reset, Settle, HistorySharingOff,
     WindowCloses, Elapse
<1>2. RunsAreGood' /\ ClaimsDiffer'
  BY <1>1 DEF RunsInv, RunsAreGood, ClaimsDiffer, AtWork
<1>3. ASSUME NEW r \in Runs, AtWork(r)'
      PROVE  ClaimIsOld(r)'
  <2>1. ClaimIsOld(r)
    BY <1>1, <1>3 DEF RunsInv, ClaimsAreOld, AtWork
  <2>2. TypeInv
    BY DEF RunsInv
  <2>3. CASE /\ UNCHANGED <<revision, attempts, handoffs, onboarding, verified,
                            phones, status>>
    BY <1>1, <2>1, <2>3 DEF ClaimIsOld, Owns
  <2>4. CASE \E ps \in SUBSET Phones, type \in {"standard", "coexistence"} :
               Register(ps, type)
    <3>1. /\ revision' = revision + 1 /\ handoffs' = handoffs + 1
          /\ phones # {} => phones' # {}
      BY <2>4 DEF Register
    <3> QED
      BY <1>1, <2>1, <2>2, <3>1, NumbersOfClaims DEF ClaimIsOld, Owns
  <2>5. CASE Retry
    <3>1. UNCHANGED <<handoffs, onboarding, verified, phones>>
      BY <2>5 DEF Retry, boundVars
    <3>2. CASE revision' = revision + 1
      BY <1>1, <2>1, <2>2, <3>1, <3>2, NumbersOfClaims DEF ClaimIsOld, Owns
    <3>3. CASE UNCHANGED <<status, revision, attempts>>
      BY <2>3, <3>1, <3>3
    <3> QED
      BY <2>5, <3>2, <3>3 DEF Retry
  <2>6. CASE \/ ReadFailed \/ HistorySharingOff \/ WindowCloses \/ Elapse
             \/ \E k \in Kinds : Reset(k) \/ Settle(k)
    BY <2>3, <2>6 DEF ReadFailed, Reset, Settle, HistorySharingOff, WindowCloses,
       Elapse, rowVars, boundVars
  <2> QED
    BY <2>4, <2>5, <2>6 DEF RowStep
<1> QED
  BY <1>2, <1>3 DEF ClaimsAreOld

LEMMA ClaimClaims ==
  ASSUME RunsInv, NEW r \in Runs, Claim(r)
  PROVE  RunsAreGood' /\ ClaimsAreOld' /\ ClaimsDiffer'
<1>1. /\ run'[r] \in Run /\ GoodRun(run'[r])
      /\ run'[r].claim.revision = revision
      /\ run'[r].claim.attempt = attempts + 1
      /\ run'[r].claim.handoff = handoffs
      /\ run'[r].claim.onboarding = onboarding
      /\ run'[r].claim.verified = verified
      /\ run'[r].numbers = phones
  BY ClaimMoves DEF RunsInv
<1>2. \A s \in Runs \ {r} : run'[s] = run[s]
  BY ClaimMoves DEF RunsInv, TypeInv, ProvisioningTypeOK
<1>3. /\ UNCHANGED <<revision, handoffs, onboarding, verified, phones, status>>
      /\ attempts' = attempts + 1
  BY DEF Claim, boundVars
<1>4. TypeInv
  BY DEF RunsInv
<1>5. RunsAreGood'
  BY <1>1, <1>2 DEF RunsInv, RunsAreGood
<1>6. ASSUME NEW s \in Runs, AtWork(s)'
      PROVE  ClaimIsOld(s)'
  <2>1. CASE s = r
    BY <1>1, <1>3, <1>4, <2>1, NumbersOfClaims DEF ClaimIsOld
  <2>2. CASE s # r
    <3>1. run'[s] = run[s] /\ ClaimIsOld(s)
      BY <1>2, <1>6, <2>2 DEF RunsInv, ClaimsAreOld, AtWork
    <3> QED
      BY <1>3, <1>4, <3>1, NumbersOfClaims DEF ClaimIsOld, Owns
  <2> QED
    BY <2>1, <2>2
<1>7. ASSUME NEW s \in Runs \ {r}, AtWork(s)'
      PROVE  ~SameClaim(run'[r].claim, run'[s].claim)
  <2>1. run'[s] = run[s] /\ ClaimIsOld(s)
    BY <1>2, <1>7 DEF RunsInv, ClaimsAreOld, AtWork
  <2> QED
    BY <1>1, <1>4, <2>1, NumbersOfClaims DEF ClaimIsOld, SameClaim
<1>8. ClaimsDiffer'
  BY <1>2, <1>7 DEF RunsInv, ClaimsDiffer, AtWork, SameClaim
<1> QED
  BY <1>5, <1>6, <1>8 DEF ClaimsAreOld

LEMMA RunClaims ==
  ASSUME RunsInv, NEW r \in Runs, RunStep(r) \/ CompleteFails(r) \/ RunDies(r)
  PROVE  RunsAreGood' /\ ClaimsAreOld' /\ ClaimsDiffer'
<1>1. AtWork(r)
  BY RunsAreAtWork
<1>2. PICK x : MovesTo(r, x) /\ KeepsRow(r, x)
  BY RunMoves DEF RunsInv
<1>3. run'[r] = x /\ \A s \in Runs \ {r} : run'[s] = run[s]
  BY <1>2 DEF MovesTo, RunsInv, TypeInv, ProvisioningTypeOK
<1>4. RunsAreGood'
  BY <1>2, <1>3 DEF MovesTo, RunsInv, RunsAreGood
<1>5. /\ UNCHANGED <<revision, attempts, onboarding, handoffs>>
      /\ phones # {} => phones' = phones
  BY <1>2 DEF KeepsRow
<1>6. ClaimIsOld(r)
  BY <1>1 DEF RunsInv, ClaimsAreOld
<1>7. IdleRun.pc = "idle"
  BY DEF IdleRun
<1>8. ASSUME NEW s \in Runs, AtWork(s)'
      PROVE  ClaimIsOld(s)'
  <2>1. CASE s = r
    <3>1. run'[s].claim = run[s].claim /\ x # IdleRun
      BY <1>2, <1>3, <1>7, <1>8, <2>1 DEF MovesTo, AtWork
    <3>2. Owns(s)' => verified' = run[s].claim.verified
      BY <1>2, <1>5, <1>6, <2>1, <3>1 DEF KeepsRow, ClaimIsOld, Owns
    <3>3. run'[s].numbers # {} => phones' # {}
      BY <1>2, <1>3, <1>5, <1>6, <2>1 DEF MovesTo, ClaimIsOld
    <3> QED
      BY <1>5, <1>6, <2>1, <3>1, <3>2, <3>3 DEF ClaimIsOld
  <2>2. CASE s # r
    <3>1. run'[s] = run[s] /\ AtWork(s) /\ ClaimIsOld(s)
      BY <1>3, <1>8, <2>2 DEF RunsInv, ClaimsAreOld, AtWork
    <3>2. ~(Owns(r) /\ Owns(s))
      BY <1>1, <2>2, <3>1 DEF RunsInv, ClaimsDiffer, SameClaim, Owns
    <3>3. Owns(s)' => verified' = run[s].claim.verified
      <4>1. CASE UNCHANGED <<status, verified>>
        BY <1>5, <3>1, <4>1 DEF ClaimIsOld, Owns
      <4>2. CASE Owns(r) /\ status' # "pending"
        BY <4>2 DEF Owns
      <4>3. CASE Owns(r) /\ status' = "pending"
        BY <1>5, <3>1, <3>2, <4>3 DEF Owns
      <4> QED
        BY <1>2, <4>1, <4>2, <4>3 DEF KeepsRow
    <3> QED
      BY <1>5, <3>1, <3>3 DEF ClaimIsOld
  <2> QED
    BY <2>1, <2>2
<1>9. ASSUME NEW s \in Runs, AtWork(s)'
      PROVE  AtWork(s) /\ run'[s].claim = run[s].claim
  <2>1. CASE s = r
    BY <1>1, <1>2, <1>3, <1>7, <1>9, <2>1 DEF MovesTo, AtWork
  <2>2. CASE s # r
    BY <1>3, <1>9, <2>2 DEF AtWork
  <2> QED
    BY <2>1, <2>2
<1>10. ClaimsDiffer'
  BY <1>9 DEF RunsInv, ClaimsDiffer
<1> QED
  BY <1>4, <1>8, <1>10 DEF ClaimsAreOld

LEMMA RunsStep ==
  ASSUME RunsInv, [ProvisioningNext]_provisioningVars
  PROVE  RunsInv'
<1>1. TypeInv'
  BY TypeStep DEF RunsInv
<1>2. CASE UNCHANGED provisioningVars
  <2>1. UNCHANGED <<run, revision, attempts, onboarding, handoffs, verified,
                    phones, status>>
    BY <1>2 DEF provisioningVars, rowVars, boundVars
  <2> QED
    BY <1>1, <2>1 DEF RunsInv, RunsAreGood, ClaimsAreOld, ClaimsDiffer, AtWork,
       ClaimIsOld, Owns
<1>3. CASE ProvisioningNext
  BY <1>1, <1>3, StepCases, RowStepClaims, ClaimClaims, RunClaims DEF RunsInv
<1> QED
  BY <1>2, <1>3

LEMMA RunsInit == ProvisioningInit => RunsInv
<1> SUFFICES ASSUME ProvisioningInit PROVE RunsInv
  OBVIOUS
<1>1. \A r \in Runs : run[r] = IdleRun
  BY DEF ProvisioningInit
<1>2. TypeInv
  BY IdleGood DEF ProvisioningInit, LifeInit, TypeInv, ProvisioningTypeOK,
     LifeTypeOK, Kinds
<1>3. RunsAreGood
  BY <1>1, IdleGood DEF RunsAreGood
<1>4. \A r \in Runs : ~AtWork(r)
  BY <1>1 DEF AtWork, IdleRun
<1> QED
  BY <1>2, <1>3, <1>4 DEF RunsInv, ClaimsAreOld, ClaimsDiffer

(* Runs may overlap, outlive their lease and die: what each of them believes *)
(* of its claim (claimProvisioning) stays true as long as it owns the row,   *)
(* and two never own it at once.                                             *)
THEOREM RunsInvariant == ProvisioningSpec => []RunsInv
<1>1. RunsInv /\ [ProvisioningNext]_provisioningVars => RunsInv'
  BY RunsStep
<1> QED
  BY RunsInit, <1>1, PTL DEF ProvisioningSpec

(* Every variable of the provisioning saga keeps its type.                   *)
THEOREM ProvisioningTypeCorrect == ProvisioningSpec => []ProvisioningTypeOK
<1>1. RunsInv => ProvisioningTypeOK
  BY DEF RunsInv, TypeInv
<1> QED
  BY RunsInvariant, <1>1, PTL

-----------------------------------------------------------------------------
(* The end of an attempt.                                                    *)

(* A claimed attempt is completed by Finish or changes nothing of the row.   *)
LEMMA CompletionCases ==
  ASSUME NEW r \in Runs, RunStep(r) \/ CompleteFails(r) \/ RunDies(r)
  PROVE  \/ UNCHANGED <<status, verified, settled>>
         \/ /\ run[r].pc = "complete" /\ Owns(r)
            /\ Finish(r, run[r].outcome)
            /\ UNCHANGED phones
<1>1. CASE Complete(r) \/ CompleteFails(r)
  BY <1>1 DEF Complete, CompleteFails
<1>2. CASE Subscribe(r) \/ Save(r) \/ Verify(r) \/ Post(r) \/ RunDies(r)
  BY <1>2 DEF Subscribe, Save, Verify, Post, RunDies, RunOnly, rowVars
<1>3. CASE AdoptNumbers(r) \/ Begin(r)
  BY <1>3 DEF AdoptNumbers, Begin
<1> QED
  BY <1>1, <1>2, <1>3 DEF RunStep

LEMMA SuccessOwesNothing ==
  ASSUME RunsInv, NEW r \in Runs, run[r].pc = "complete", Owns(r),
         Finish(r, run[r].outcome), status' = "active"
  PROVE  /\ phones # {}
         /\ onboarding = "coexistence" => verified' = "standard" \/ settled' = Kinds
<1>1. /\ run[r] \in Run /\ GoodRun(run[r]) /\ ClaimIsOld(r)
      /\ settled \subseteq Kinds
  BY DEF RunsInv, TypeInv, ProvisioningTypeOK, RunsAreGood, ClaimsAreOld, AtWork
<1>2. run[r].outcome = "success"
  BY DEF Finish, StatusAfter
<1>3. /\ run[r].numbers # {} /\ KnowsItsClaim(run[r])
      /\ \/ run[r].claim.onboarding = "standard"
         \/ run[r].seen = "standard"
         \/ run[r].got = Kinds
  BY <1>1, <1>2 DEF GoodRun, Succeeds
<1>4. /\ phones # {} /\ run[r].claim.onboarding = onboarding
      /\ run[r].claim.verified = verified
  BY <1>1, <1>3 DEF ClaimIsOld, Owns
<1>5. ASSUME run[r].seen = "standard" PROVE verified' = "standard"
  BY <1>3, <1>4, <1>5 DEF Finish, KnowsItsClaim
<1>6. ASSUME run[r].got = Kinds PROVE settled' = Kinds
  BY <1>1, <1>6 DEF Finish, KnownSettled
<1> QED
  BY <1>3, <1>4, <1>5, <1>6

(* "A WABA that has not had it done never reads as `active`": whichever      *)
(* attempt completes the row (completeWabaProvisioning), and whatever        *)
(* operators and webhooks write meanwhile, an active coexistence WABA has    *)
(* both syncs settled or is known to Meta as a standard one.                 *)
THEOREM ActiveOwesNothingHolds == ProvisioningSpec => []ActiveOwesNothing
<1>1. ProvisioningInit => ActiveOwesNothing
  BY DEF ProvisioningInit, LifeInit, ActiveOwesNothing
<1>2. ASSUME RunsInv, ActiveOwesNothing, [ProvisioningNext]_provisioningVars
      PROVE  ActiveOwesNothing'
  <2>1. CASE UNCHANGED <<status, onboarding, verified, settled>>
    BY <1>2, <2>1 DEF ActiveOwesNothing
  <2>2. CASE RowStep
    <3>1. CASE \E ps \in SUBSET Phones, type \in {"standard", "coexistence"} :
                 Register(ps, type)
      BY <3>1 DEF Register, ActiveOwesNothing
    <3>2. CASE Retry
      BY <1>2, <3>2 DEF Retry, ActiveOwesNothing
    <3>3. CASE HistorySharingOff
      <4>1. settled \subseteq Kinds
        BY <1>2 DEF RunsInv, TypeInv, ProvisioningTypeOK
      <4> QED
        BY <1>2, <3>3, <4>1 DEF HistorySharingOff, ActiveOwesNothing, Kinds
    <3>4. CASE \E k \in Kinds : Reset(k) \/ Settle(k)
      BY <3>4 DEF Reset, Settle, Unconfirmed, ActiveOwesNothing
    <3>5. CASE ReadFailed \/ WindowCloses \/ Elapse
      BY <2>1, <3>5 DEF ReadFailed, WindowCloses, Elapse, rowVars
    <3> QED
      BY <2>2, <3>1, <3>2, <3>3, <3>4, <3>5 DEF RowStep
  <2>3. CASE \E r \in Runs : Claim(r)
    BY <2>1, <2>3 DEF Claim
  <2>4. ASSUME NEW r \in Runs, RunStep(r) \/ CompleteFails(r) \/ RunDies(r)
        PROVE  ActiveOwesNothing'
    <3>1. UNCHANGED onboarding
      BY <1>2, <2>4, RunMoves DEF RunsInv, KeepsRow
    <3>2. CASE UNCHANGED <<status, verified, settled>>
      BY <2>1, <3>1, <3>2
    <3>3. CASE /\ run[r].pc = "complete" /\ Owns(r)
               /\ Finish(r, run[r].outcome)
      BY <1>2, <3>1, <3>3, SuccessOwesNothing DEF ActiveOwesNothing
    <3> QED
      BY <2>4, <3>2, <3>3, CompletionCases
  <2>5. CASE UNCHANGED provisioningVars
    BY <2>1, <2>5 DEF provisioningVars, rowVars
  <2> QED
    BY <1>2, <2>2, <2>3, <2>4, <2>5, StepCases
<1> QED
  BY <1>1, <1>2, RunsInvariant, PTL DEF ProvisioningSpec

(* The saga implements the life of a WABA that the webhook path relies on:   *)
(* only a handoff takes an active row back or changes its numbers, an empty  *)
(* list of numbers is filled once (adoptPhonesFromMeta), and no row is       *)
(* active without a number.                                                  *)
THEOREM ProvisioningImplementsLife == ProvisioningSpec => LifeSpec
<1>1. ProvisioningInit => LifeInit
  BY DEF ProvisioningInit
<1>2. ASSUME RunsInv, [ProvisioningNext]_provisioningVars
      PROVE  [LifeNext]_lifeVars
  <2>1. CASE UNCHANGED <<status, phones>>
    BY <2>1 DEF lifeVars
  <2>2. CASE RowStep
    <3>1. CASE \E ps \in SUBSET Phones, type \in {"standard", "coexistence"} :
                 Register(ps, type)
      BY <3>1 DEF Register, LifeNext, Handoff, HandoffPhones
    <3>2. CASE Retry
      BY <2>1, <3>2 DEF Retry, LifeNext, Requeue
    <3>3. CASE \/ ReadFailed \/ HistorySharingOff \/ WindowCloses \/ Elapse
               \/ \E k \in Kinds : Reset(k) \/ Settle(k)
      BY <2>1, <3>3 DEF ReadFailed, HistorySharingOff, WindowCloses, Elapse,
         Reset, Settle, rowVars
    <3> QED
      BY <2>2, <3>1, <3>2, <3>3 DEF RowStep
  <2>3. CASE \E r \in Runs : Claim(r)
    BY <2>1, <2>3 DEF Claim
  <2>4. ASSUME NEW r \in Runs, RunStep(r) \/ CompleteFails(r) \/ RunDies(r)
        PROVE  [LifeNext]_lifeVars
    <3>1. CASE AdoptNumbers(r)
      BY <2>1, <3>1 DEF AdoptNumbers, Owns, LifeNext, Adopt
    <3>2. CASE /\ run[r].pc = "complete" /\ Owns(r)
               /\ Finish(r, run[r].outcome) /\ UNCHANGED phones
      <4>1. status = "pending" /\ status' \in {"pending", "active", "failed"}
        BY <3>2 DEF Owns, Finish, StatusAfter
      <4>2. status' = "active" => phones # {}
        BY <1>2, <3>2, SuccessOwesNothing
      <4> QED
        BY <2>1, <3>2, <4>1, <4>2 DEF LifeNext, Activate, Fail
    <3>3. CASE ~AdoptNumbers(r) /\ UNCHANGED status
      <4>1. UNCHANGED phones
        BY <2>4, <3>3 DEF RunStep, Subscribe, Save, Verify, Begin, Post, Complete,
           CompleteFails, RunDies, RunOnly, rowVars
      <4> QED
        BY <2>1, <3>3, <4>1
    <3> QED
      BY <2>4, <3>1, <3>2, <3>3, CompletionCases
  <2>5. CASE UNCHANGED provisioningVars
    BY <2>1, <2>5 DEF provisioningVars, rowVars
  <2> QED
    BY <1>2, <2>2, <2>3, <2>4, <2>5, StepCases
<1> QED
  BY <1>1, <1>2, RunsInvariant, PTL DEF ProvisioningSpec, LifeSpec

(* What Meta accepted or told of a number is not unlearned by a later        *)
(* attempt, an overlapping run, an operator or a webhook: only a handoff     *)
(* (beginWabaProvisioningBatch) clears it.                                   *)
THEOREM ProgressSticksHolds == ProvisioningSpec => ProgressSticks
<1>1. ASSUME RunsInv, [ProvisioningNext]_provisioningVars, handoffs' = handoffs
      PROVE  settled \subseteq settled' /\ (verified # "unknown" => verified' = verified)
  <2>1. CASE UNCHANGED <<verified, settled>>
    BY <2>1
  <2>2. CASE RowStep
    <3>1. CASE \E ps \in SUBSET Phones, type \in {"standard", "coexistence"} :
                 Register(ps, type)
      BY <1>1, <3>1 DEF Register, RunsInv, TypeInv
    <3>2. CASE ~ \E ps \in SUBSET Phones, type \in {"standard", "coexistence"} :
                   Register(ps, type)
      BY <2>2, <3>2 DEF RowStep, Retry, ReadFailed, HistorySharingOff,
         WindowCloses, Elapse, Reset, Settle, rowVars
    <3> QED
      BY <3>1, <3>2
  <2>3. CASE \E r \in Runs : Claim(r)
    BY <2>1, <2>3 DEF Claim
  <2>4. CASE \E r \in Runs : RunStep(r) \/ CompleteFails(r) \/ RunDies(r)
    BY <2>1, <2>4, CompletionCases DEF Finish, KnownSettled
  <2>5. CASE UNCHANGED provisioningVars
    BY <2>1, <2>5 DEF provisioningVars, rowVars
  <2> QED
    BY <1>1, <2>2, <2>3, <2>4, <2>5, StepCases
<1>2. RunsInv /\ [ProvisioningNext]_provisioningVars =>
        [handoffs' = handoffs =>
           /\ settled \subseteq settled'
           /\ verified # "unknown" => verified' = verified]_provisioningVars
  BY <1>1
<1> QED
  BY <1>2, RunsInvariant, PTL DEF ProvisioningSpec, ProgressSticks

-----------------------------------------------------------------------------
(* Requests to Meta.  A request of this handoff that went out, or that a run *)
(* holds the right to send, has a mark of its own: the sync is started, or   *)
(* an operator declared a former mark as not spent.                          *)

Rights(k, p) ==
  {r \in Runs : /\ run[r].pc = "post" /\ run[r].kind = k
                /\ p \in run[r].left /\ run[r].claim.handoff = handoffs}

Marks(k) == resets[k] + IF k \in started THEN 1 ELSE 0

PostsAreMarked ==
  \A k \in Kinds, p \in Phones : posts[<<k, p>>] + Cardinality(Rights(k, p)) <= Marks(k)

LEMMA RunsAreFinite ==
  ASSUME NEW S \in SUBSET Runs
  PROVE  IsFiniteSet(S) /\ Cardinality(S) \in Nat
BY ProvisioningAssumption, FS_Subset, FS_CardinalityType

LEMMA FewerRuns ==
  ASSUME NEW S \in SUBSET Runs, NEW T \in SUBSET S
  PROVE  Cardinality(T) <= Cardinality(S)
BY RunsAreFinite, FS_Subset

LEMMA OneRunMore ==
  ASSUME NEW S \in SUBSET Runs, NEW r \in Runs, NEW T \in SUBSET (S \cup {r})
  PROVE  Cardinality(T) <= Cardinality(S) + 1
<1>1. IsFiniteSet(S) /\ Cardinality(S) \in Nat
  BY RunsAreFinite
<1>2. Cardinality(S \cup {r}) \in {Cardinality(S), Cardinality(S) + 1}
  BY <1>1, FS_AddElement
<1>3. Cardinality(T) <= Cardinality(S \cup {r}) /\ Cardinality(T) \in Nat
  BY FewerRuns, RunsAreFinite
<1> QED
  BY <1>1, <1>2, <1>3

LEMMA OneRunLess ==
  ASSUME NEW S \in SUBSET Runs, NEW r \in S, NEW T \in SUBSET (S \ {r})
  PROVE  Cardinality(T) + 1 <= Cardinality(S)
<1>1. IsFiniteSet(S) /\ Cardinality(S) \in Nat
  BY RunsAreFinite
<1>2. Cardinality(S \ {r}) = Cardinality(S) - 1
  BY <1>1, FS_RemoveElement
<1>3. Cardinality(T) <= Cardinality(S \ {r}) /\ Cardinality(T) \in Nat
  BY FewerRuns, RunsAreFinite
<1> QED
  BY <1>1, <1>2, <1>3

(* A step that adds neither requests nor rights nor takes marks.             *)
LEMMA NothingSent ==
  ASSUME RunsInv, RunsInv', PostsAreMarked, NEW k \in Kinds, NEW p \in Phones,
         posts'[<<k, p>>] = posts[<<k, p>>], Marks(k)' >= Marks(k),
         Rights(k, p)' \subseteq Rights(k, p)
  PROVE  posts'[<<k, p>>] + Cardinality(Rights(k, p)') <= Marks(k)'
<1>1. /\ Cardinality(Rights(k, p)') <= Cardinality(Rights(k, p))
      /\ Cardinality(Rights(k, p)) \in Nat
      /\ Cardinality(Rights(k, p)') \in Nat
  BY FewerRuns, RunsAreFinite DEF Rights
<1>2. posts[<<k, p>>] \in Nat /\ Marks(k) \in Nat /\ Marks(k)' \in Nat
  BY DEF RunsInv, TypeInv, ProvisioningTypeOK, Marks
<1>3. posts[<<k, p>>] + Cardinality(Rights(k, p)) <= Marks(k)
  BY DEF PostsAreMarked
<1> QED
  BY <1>1, <1>2, <1>3

(* A run that does not end up with rights takes none from the others.        *)
LEMMA RightsOfOthers ==
  ASSUME RunsInv, NEW r \in Runs, NEW x, run' = [run EXCEPT ![r] = x],
         UNCHANGED handoffs, NEW k \in Kinds, NEW p \in Phones,
         ~(x.pc = "post" /\ x.kind = k /\ p \in x.left)
  PROVE  Rights(k, p)' \subseteq Rights(k, p) \ {r}
<1>1. run'[r] = x /\ \A s \in Runs \ {r} : run'[s] = run[s]
  BY DEF RunsInv, TypeInv, ProvisioningTypeOK
<1> QED
  BY <1>1 DEF Rights

LEMMA RowStepMarks ==
  ASSUME RunsInv, RunsInv', PostsAreMarked, RowStep
  PROVE  PostsAreMarked'
<1>1. ASSUME NEW k \in Kinds, NEW p \in Phones
      PROVE  posts'[<<k, p>>] + Cardinality(Rights(k, p)') <= Marks(k)'
  <2>1. run' = run
    BY DEF RowStep, Register, ReadFailed, Retry, Reset, Settle, HistorySharingOff,
       WindowCloses, Elapse
  <2>2. CASE \E ps \in SUBSET Phones, type \in {"standard", "coexistence"} :
               Register(ps, type)
    <3>1. Rights(k, p)' = {}
      <4>1. ASSUME NEW r \in Runs, run'[r].pc = "post",
                   run'[r].claim.handoff = handoffs'
            PROVE  FALSE
        <5>1. ClaimIsOld(r) /\ handoffs' = handoffs + 1
          BY <2>1, <2>2, <4>1 DEF RunsInv, ClaimsAreOld, AtWork, Register
        <5> QED
          BY <2>1, <4>1, <5>1, NumbersOfClaims DEF ClaimIsOld, RunsInv
      <4> QED
        BY <4>1 DEF Rights
    <3>2. posts'[<<k, p>>] = 0 /\ Marks(k)' = 0
      BY <2>2 DEF Register, Marks
    <3> QED
      BY <3>1, <3>2, FS_EmptySet
  <2>3. CASE ~ \E ps \in SUBSET Phones, type \in {"standard", "coexistence"} :
                 Register(ps, type)
    <3>1. UNCHANGED <<posts, handoffs>>
      BY <2>3 DEF RowStep, ReadFailed, Retry, Reset, Settle, HistorySharingOff,
         WindowCloses, Elapse, ghostVars, boundVars
    <3>2. resets[k] \in Nat
      BY DEF RunsInv, TypeInv, ProvisioningTypeOK
    <3>3. Marks(k)' >= Marks(k)
      <4>1. CASE \E j \in Kinds : Reset(j)
        BY <3>2, <4>1 DEF Reset, Unconfirmed, Marks, RunsInv, TypeInv,
           ProvisioningTypeOK
      <4>2. CASE UNCHANGED <<started, resets>>
        BY <3>2, <4>2 DEF Marks
      <4>3. \/ \E j \in Kinds : Reset(j)
            \/ UNCHANGED <<started, resets>>
        BY <2>3 DEF RowStep, ReadFailed, Retry, Settle, HistorySharingOff,
           WindowCloses, Elapse, rowVars, ghostVars
      <4> QED
        BY <4>1, <4>2, <4>3
    <3>4. Rights(k, p)' = Rights(k, p)
      BY <2>1, <3>1 DEF Rights
    <3> QED
      BY <3>1, <3>3, <3>4, NothingSent
  <2> QED
    BY <2>2, <2>3
<1> QED
  BY <1>1 DEF PostsAreMarked

(* Only beginCoexistenceSync gives a run something to post.                  *)
LEMMA NoRightsGiven ==
  ASSUME RunsInv, NEW r \in Runs,
         \/ Claim(r)
         \/ RunStep(r) /\ ~Begin(r) /\ ~Post(r)
         \/ CompleteFails(r) \/ RunDies(r)
  PROVE  /\ UNCHANGED <<posts, started, resets, handoffs>>
         /\ \E x : run' = [run EXCEPT ![r] = x] /\ x.pc # "post"
<1>1. run[r] \in Run /\ GoodRun(run[r])
  BY DEF RunsInv, TypeInv, ProvisioningTypeOK, RunsAreGood
<1>2. \A outcome \in Outcomes : Ends(run[r], outcome).pc # "post"
  BY <1>1, EndsRun
<1>3. IdleRun.pc # "post"
  BY DEF IdleRun
<1>4. CASE Claim(r)
  <2>1. run'[r].pc # "post" /\ run' = [run EXCEPT ![r] = run'[r]]
    BY <1>4, ClaimMoves DEF RunsInv
  <2> QED
    BY <1>4, <2>1 DEF Claim, ghostVars, boundVars
<1>5. CASE Subscribe(r)
  <2> DEFINE y == [run[r] EXCEPT !.pc = IF run[r].numbers = {} THEN "adopt"
                                                              ELSE "save"]
  <2>1. y.pc # "post"
    BY <1>1 DEF Run
  <2>2. \E x \in {y, Ends(run[r], "retryable"), Ends(run[r], "terminal")} :
          run' = [run EXCEPT ![r] = x]
    BY <1>5 DEF Subscribe
  <2> QED
    BY <1>2, <1>5, <2>1, <2>2 DEF Subscribe, RunOnly, rowVars, ghostVars,
       boundVars, Outcomes
<1>6. CASE AdoptNumbers(r)
  <2>1. \A found : [run[r] EXCEPT !.numbers = found, !.pc = "save"].pc # "post"
    BY <1>1 DEF Run
  <2>2. \E x : run' = [run EXCEPT ![r] = x] /\ x.pc # "post"
    BY <1>2, <1>6, <2>1 DEF AdoptNumbers, Outcomes
  <2> QED
    BY <1>6, <2>2 DEF AdoptNumbers, ghostVars, boundVars
<1>7. CASE Save(r)
  <2>1. StartSync(run[r]).pc # "post"
    BY <1>1, <1>7, StartSyncGood DEF Save
  <2> QED
    BY <1>2, <1>7, <2>1 DEF Save, RunOnly, rowVars, ghostVars, boundVars, Outcomes
<1>8. CASE Verify(r)
  <2>1. \A type \in {"standard", "coexistence"} :
          Verified(run[r], type).pc # "post"
    BY <1>1, <1>8, VerifiedGood DEF Verify, GoodRun
  <2> QED
    BY <1>2, <1>8, <2>1 DEF Verify, RunOnly, rowVars, ghostVars, boundVars,
       Outcomes
<1>9. CASE Complete(r) \/ RunDies(r)
  BY <1>3, <1>9 DEF Complete, RunDies, rowVars, ghostVars, boundVars
<1>10. CASE CompleteFails(r)
  <2>1. SyncFails(run[r]).pc # "post"
    BY <1>1, SyncFailsGood
  <2> QED
    BY <1>10, <2>1 DEF CompleteFails, ghostVars
<1> QED
  BY <1>4, <1>5, <1>6, <1>7, <1>8, <1>9, <1>10 DEF RunStep

LEMMA OtherStepMarks ==
  ASSUME RunsInv, RunsInv', PostsAreMarked, NEW r \in Runs,
         \/ Claim(r)
         \/ RunStep(r) /\ ~Begin(r) /\ ~Post(r)
         \/ CompleteFails(r) \/ RunDies(r)
  PROVE  PostsAreMarked'
<1>1. UNCHANGED <<posts, started, resets, handoffs>>
  BY NoRightsGiven
<1>2. PICK x : run' = [run EXCEPT ![r] = x] /\ x.pc # "post"
  BY NoRightsGiven
<1>3. ASSUME NEW k \in Kinds, NEW p \in Phones
      PROVE  posts'[<<k, p>>] + Cardinality(Rights(k, p)') <= Marks(k)'
  <2>1. Rights(k, p)' \subseteq Rights(k, p)
    BY <1>1, <1>2, RightsOfOthers
  <2>2. Marks(k)' = Marks(k) /\ Marks(k) \in Nat
    BY <1>1 DEF Marks, RunsInv, TypeInv, ProvisioningTypeOK
  <2> QED
    BY <1>1, <2>1, <2>2, NothingSent
<1> QED
  BY <1>3 DEF PostsAreMarked

LEMMA BeginMarks ==
  ASSUME RunsInv, RunsInv', PostsAreMarked, NEW r \in Runs, Begin(r)
  PROVE  PostsAreMarked'
<1> DEFINE y == [run[r] EXCEPT !.pc = "post", !.issued = TRUE,
                               !.left = run[r].numbers]
<1>1. run[r] \in Run /\ GoodRun(run[r]) /\ run[r].pc = "begin"
  BY DEF RunsInv, TypeInv, ProvisioningTypeOK, RunsAreGood, Begin
<1>2. y.kind = run[r].kind
  BY <1>1 DEF Run
<1>3. SyncFails(run[r]).pc # "post"
  BY <1>1, SyncFailsGood
<1>4. UNCHANGED <<posts, resets, handoffs>>
  BY DEF Begin, ghostVars
<1>5. \/ run' = [run EXCEPT ![r] = SyncFails(run[r])] /\ started \subseteq started'
      \/ /\ run' = [run EXCEPT ![r] = y]
         /\ run[r].kind \notin started /\ started' = started \cup {run[r].kind}
  BY DEF Begin, MayBegin
<1> HIDE DEF y
<1>6. ASSUME NEW k \in Kinds, NEW p \in Phones
      PROVE  posts'[<<k, p>>] + Cardinality(Rights(k, p)') <= Marks(k)'
  <2>1. resets[k] \in Nat /\ posts[<<k, p>>] \in Nat
    BY DEF RunsInv, TypeInv, ProvisioningTypeOK
  <2>2. Marks(k)' >= Marks(k)
    BY <1>4, <1>5, <2>1 DEF Marks
  <2>3. CASE run' = [run EXCEPT ![r] = SyncFails(run[r])]
    <3>1. Rights(k, p)' \subseteq Rights(k, p)
      BY <1>3, <1>4, <2>3, RightsOfOthers
    <3> QED
      BY <1>4, <2>2, <3>1, NothingSent
  <2>4. CASE run' = [run EXCEPT ![r] = y] /\ k # run[r].kind
    <3>1. Rights(k, p)' \subseteq Rights(k, p)
      BY <1>2, <1>4, <2>4, RightsOfOthers
    <3> QED
      BY <1>4, <2>2, <3>1, NothingSent
  <2>5. CASE /\ run' = [run EXCEPT ![r] = y] /\ k = run[r].kind
             /\ k \notin started /\ k \in started'
    <3>1. \A s \in Runs \ {r} : run'[s] = run[s]
      BY <2>5 DEF RunsInv, TypeInv, ProvisioningTypeOK
    <3>2. Rights(k, p)' \subseteq Rights(k, p) \cup {r}
      BY <1>4, <3>1 DEF Rights
    <3>3. /\ Cardinality(Rights(k, p)') <= Cardinality(Rights(k, p)) + 1
          /\ Cardinality(Rights(k, p)) \in Nat
          /\ Cardinality(Rights(k, p)') \in Nat
      BY <3>2, OneRunMore, RunsAreFinite DEF Rights
    <3>4. Marks(k) = resets[k] /\ Marks(k)' = resets[k] + 1
      BY <1>4, <2>1, <2>5 DEF Marks
    <3>5. posts[<<k, p>>] + Cardinality(Rights(k, p)) <= Marks(k)
      BY DEF PostsAreMarked
    <3> QED
      BY <1>4, <2>1, <3>3, <3>4, <3>5
  <2> QED
    BY <1>5, <2>3, <2>4, <2>5
<1> QED
  BY <1>6 DEF PostsAreMarked

LEMMA PostMarks ==
  ASSUME RunsInv, RunsInv', PostsAreMarked, NEW r \in Runs, Post(r)
  PROVE  PostsAreMarked'
<1> DEFINE kind == run[r].kind
<1>1. run[r] \in Run /\ GoodRun(run[r]) /\ run[r].pc = "post" /\ kind \in Kinds
  BY DEF RunsInv, TypeInv, ProvisioningTypeOK, RunsAreGood, GoodRun, Post
<1>2. PICK q \in run[r].left : \E y \in Posted(run[r], q) :
        /\ run' = [run EXCEPT ![r] = y]
        /\ posts' = IF run[r].claim.handoff = handoffs
                    THEN [posts EXCEPT ![<<kind, q>>] = @ + 1] ELSE posts
  BY PostSteps DEF RunsInv
<1>3. PICK y \in Posted(run[r], q) : run' = [run EXCEPT ![r] = y]
  BY <1>2
<1>4. y.pc = "post" => y.kind = kind /\ y.left = run[r].left \ {q}
  BY <1>1, PostedGood
<1>5. UNCHANGED <<started, resets, handoffs>> /\ q \in Phones
  BY <1>1 DEF Post, rowVars, boundVars, Run
<1>6. ASSUME NEW k \in Kinds, NEW p \in Phones
      PROVE  posts'[<<k, p>>] + Cardinality(Rights(k, p)') <= Marks(k)'
  <2>1. Marks(k)' = Marks(k) /\ Marks(k) \in Nat /\ posts[<<k, p>>] \in Nat
    BY <1>5 DEF Marks, RunsInv, TypeInv, ProvisioningTypeOK
  <2>2. CASE k = kind /\ p = q /\ run[r].claim.handoff = handoffs
    <3>1. r \in Rights(k, p)
      BY <1>1, <2>2 DEF Rights
    <3>2. Rights(k, p)' \subseteq Rights(k, p) \ {r}
      BY <1>3, <1>4, <1>5, <2>2, RightsOfOthers
    <3>3. /\ Cardinality(Rights(k, p)') + 1 <= Cardinality(Rights(k, p))
          /\ Cardinality(Rights(k, p)) \in Nat
          /\ Cardinality(Rights(k, p)') \in Nat
      BY <3>1, <3>2, OneRunLess, RunsAreFinite DEF Rights
    <3>4. posts'[<<k, p>>] = posts[<<k, p>>] + 1
      <4>1. posts' = [posts EXCEPT ![<<kind, q>>] = @ + 1]
        BY <1>2, <2>2
      <4>2. posts \in [Kinds \X Phones -> Nat]
        BY DEF RunsInv, TypeInv, ProvisioningTypeOK
      <4> DEFINE at == <<kind, q>>
      <4>3. at \in Kinds \X Phones /\ at = <<k, p>>
        BY <1>1, <1>5, <2>2
      <4> HIDE DEF at
      <4>4. [posts EXCEPT ![at] = @ + 1][at] = posts[at] + 1
        BY <4>2, <4>3
      <4> QED
        BY <4>1, <4>3, <4>4 DEF at
    <3>5. posts[<<k, p>>] + Cardinality(Rights(k, p)) <= Marks(k)
      BY DEF PostsAreMarked
    <3> QED
      BY <2>1, <3>3, <3>4, <3>5
  <2>3. CASE ~(k = kind /\ p = q)
    <3>1. posts'[<<k, p>>] = posts[<<k, p>>]
      <4>1. \/ posts' = posts
            \/ posts' = [posts EXCEPT ![<<kind, q>>] = @ + 1]
        BY <1>2
      <4>2. posts \in [Kinds \X Phones -> Nat]
        BY DEF RunsInv, TypeInv, ProvisioningTypeOK
      <4> DEFINE at == <<kind, q>>
                 here == <<k, p>>
      <4>3. here \in Kinds \X Phones /\ at # here
        BY <2>3
      <4> HIDE DEF at, here
      <4>4. [posts EXCEPT ![at] = @ + 1][here] = posts[here]
        BY <4>2, <4>3
      <4> QED
        BY <4>1, <4>4 DEF at, here
    <3>2. Rights(k, p)' \subseteq Rights(k, p)
      <4>1. CASE y.pc = "post" /\ y.kind = k /\ p \in y.left
        <5>1. run'[r] = y /\ \A s \in Runs \ {r} : run'[s] = run[s]
          BY <1>3 DEF RunsInv, TypeInv, ProvisioningTypeOK
        <5>2. y.claim = run[r].claim
          BY <1>1, PostedGood
        <5> QED
          BY <1>1, <1>4, <1>5, <4>1, <5>1, <5>2 DEF Rights
      <4>2. CASE ~(y.pc = "post" /\ y.kind = k /\ p \in y.left)
        BY <1>3, <1>5, <4>2, RightsOfOthers
      <4> QED
        BY <4>1, <4>2
    <3> QED
      BY <2>1, <3>1, <3>2, NothingSent
  <2>4. CASE k = kind /\ p = q /\ run[r].claim.handoff # handoffs
    <3>1. posts' = posts
      BY <1>2, <2>4
    <3>2. Rights(k, p)' \subseteq Rights(k, p)
      BY <1>3, <1>4, <1>5, <2>4, RightsOfOthers
    <3> QED
      BY <2>1, <3>1, <3>2, NothingSent
  <2> QED
    BY <2>2, <2>3, <2>4
<1> QED
  BY <1>6 DEF PostsAreMarked

(* "Meta allows each sync exactly once per phone number": however runs       *)
(* overlap, die or are retried, and whoever hands the WABA over again, the   *)
(* mark that beginCoexistenceSync leaves before a request goes out keeps     *)
(* every other run from sending it; an operator's reset is the only          *)
(* exception.                                                                *)
THEOREM SyncIssuedOnceHolds == ProvisioningSpec => []SyncIssuedOnce
<1>1. ProvisioningInit => PostsAreMarked
  <2> SUFFICES ASSUME ProvisioningInit, NEW k \in Kinds, NEW p \in Phones
               PROVE  posts[<<k, p>>] + Cardinality(Rights(k, p)) <= Marks(k)
    BY DEF PostsAreMarked
  <2>1. Rights(k, p) = {}
    BY DEF ProvisioningInit, Rights, IdleRun
  <2>2. posts[<<k, p>>] = 0 /\ Marks(k) = 0
    BY DEF ProvisioningInit, Marks
  <2> QED
    BY <2>1, <2>2, FS_EmptySet
<1>2. RunsInv /\ PostsAreMarked /\ RunsInv' /\ [ProvisioningNext]_provisioningVars
        => PostsAreMarked'
  <2> SUFFICES ASSUME RunsInv, PostsAreMarked, RunsInv',
                      [ProvisioningNext]_provisioningVars
               PROVE  PostsAreMarked'
    OBVIOUS
  <2>1. CASE UNCHANGED provisioningVars
    BY <2>1 DEF provisioningVars, rowVars, ghostVars, boundVars, PostsAreMarked,
       Rights, Marks
  <2>2. CASE ProvisioningNext
    <3>1. CASE RowStep
      BY <3>1, RowStepMarks
    <3>2. CASE \E r \in Runs : Claim(r)
      BY <3>2, OtherStepMarks
    <3>3. CASE \E r \in Runs : RunStep(r) \/ CompleteFails(r) \/ RunDies(r)
      BY <3>3, OtherStepMarks, BeginMarks, PostMarks
    <3> QED
      BY <2>2, <3>1, <3>2, <3>3, StepCases
  <2> QED
    BY <2>1, <2>2
<1>3. RunsInv /\ PostsAreMarked => SyncIssuedOnce
  <2> SUFFICES ASSUME RunsInv, PostsAreMarked, NEW k \in Kinds, NEW p \in Phones
               PROVE  posts[<<k, p>>] <= 1 + resets[k]
    BY DEF SyncIssuedOnce
  <2>1. posts[<<k, p>>] \in Nat /\ resets[k] \in Nat
    BY DEF RunsInv, TypeInv, ProvisioningTypeOK
  <2>2. Cardinality(Rights(k, p)) \in Nat
    BY RunsAreFinite DEF Rights
  <2>3. posts[<<k, p>>] + Cardinality(Rights(k, p)) <= Marks(k)
    BY DEF PostsAreMarked
  <2> QED
    BY <2>1, <2>2, <2>3 DEF Marks
<1> QED
  BY <1>1, <1>2, <1>3, RunsInvariant, PTL DEF ProvisioningSpec
=============================================================================
