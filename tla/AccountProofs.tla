---------------------------- MODULE AccountProofs ----------------------------
(***************************************************************************)
(* Theorems about what stands between Meta and an account: the connect     *)
(* flow, which decides whose a WABA is, and the webhooks held until it is  *)
(* decided, first on any life of the WABA and then with the saga that      *)
(* decides it. For every number of accounts, WABAs, states, flows, runs,   *)
(* batches and faults.                                                     *)
(***************************************************************************)
EXTENDS WabaSystem, ProvisioningProofs, Connect, TLAPS

-----------------------------------------------------------------------------
(* Sequences.                                                                *)

Rows(s) == {s[i] : i \in DOMAIN s}

LEMMA RowsOfAppend ==
  ASSUME NEW s \in Seq(Batches), NEW b \in Batches
  PROVE  /\ Append(s, b) \in Seq(Batches) /\ Len(Append(s, b)) = Len(s) + 1
         /\ Append(s, b) # <<>>
         /\ Rows(Append(s, b)) = Rows(s) \cup {b}
<1> DEFINE t == Append(s, b)
<1>1. /\ t \in Seq(Batches) /\ Len(t) = Len(s) + 1 /\ Len(s) \in Nat
      /\ DOMAIN s = 1..Len(s) /\ DOMAIN t = 1..(Len(s) + 1)
  OBVIOUS
<1>2. t[Len(s) + 1] = b /\ \A i \in 1..Len(s) : t[i] = s[i]
  OBVIOUS
<1> HIDE DEF t
<1>3. t # <<>>
  BY <1>1
<1>4. Rows(t) = Rows(s) \cup {b}
  BY <1>1, <1>2 DEF Rows
<1> QED
  BY <1>1, <1>3, <1>4 DEF t

(* What is left of a sequence without its first n elements.                  *)
LEMMA RowsOfRest ==
  ASSUME NEW s \in Seq(Batches), NEW n \in 0..Len(s)
  PROVE  LET t == SubSeq(s, n + 1, Len(s)) IN
         /\ t \in Seq(Batches) /\ Len(t) = Len(s) - n
         /\ n = Len(s) => t = <<>>
         /\ Rows(s) = Rows(t) \cup {s[i] : i \in 1..n}
<1> DEFINE t == SubSeq(s, n + 1, Len(s))
<1>1. /\ t \in Seq(Batches) /\ Len(t) = Len(s) - n /\ Len(s) \in Nat
      /\ DOMAIN s = 1..Len(s) /\ DOMAIN t = 1..(Len(s) - n)
  OBVIOUS
<1>2. \A i \in 1..(Len(s) - n) : t[i] = s[n + i]
  OBVIOUS
<1> HIDE DEF t
<1>3. n = Len(s) => t = <<>>
  BY <1>1
<1>4. ASSUME NEW i \in 1..Len(s) PROVE s[i] \in Rows(t) \cup {s[j] : j \in 1..n}
  <2>1. CASE i <= n
    BY <2>1
  <2>2. CASE i > n
    <3>1. i - n \in DOMAIN t /\ t[i - n] = s[i]
      BY <1>1, <1>2, <2>2
    <3> QED
      BY <3>1 DEF Rows
  <2> QED
    BY <2>1, <2>2
<1>5. Rows(t) \subseteq Rows(s)
  <2>1. \A i \in DOMAIN t : n + i \in DOMAIN s /\ t[i] = s[n + i]
    BY <1>1, <1>2
  <2> QED
    BY <2>1 DEF Rows
<1>6. \A i \in 1..n : i \in DOMAIN s
  BY <1>1
<1>7. {s[i] : i \in 1..n} \subseteq Rows(s)
  BY <1>6 DEF Rows
<1>8. Rows(s) \subseteq Rows(t) \cup {s[i] : i \in 1..n}
  BY <1>1, <1>4 DEF Rows
<1>9. Rows(s) = Rows(t) \cup {s[i] : i \in 1..n}
  BY <1>5, <1>7, <1>8
<1> QED
  BY <1>1, <1>3, <1>9 DEF t

LEMMA RowsOfTail ==
  ASSUME NEW s \in Seq(Batches), s # <<>>
  PROVE  /\ Tail(s) \in Seq(Batches) /\ Len(Tail(s)) = Len(s) - 1
         /\ Head(s) \in Batches
         /\ Rows(s) = Rows(Tail(s)) \cup {Head(s)}
<1>1. /\ Len(s) \in Nat \ {0} /\ Head(s) = s[1] /\ Head(s) \in Batches
      /\ Tail(s) = SubSeq(s, 1 + 1, Len(s))
  OBVIOUS
<1>2. {s[i] : i \in 1..1} = {Head(s)}
  BY <1>1
<1>3. 1 \in 0..Len(s)
  BY <1>1
<1> QED
  BY <1>1, <1>2, <1>3, RowsOfRest

-----------------------------------------------------------------------------
(* Types.                                                                    *)

LEMMA HoldTypes ==
  ASSUME HeldTypeOK, NEW b \in Batches, HasRoom
  PROVE  Append(held, b) \in Seq(Batches) /\ Len(Append(held, b)) <= MaxHeld
<1>1. held \in Seq(Batches) /\ Len(held) \in Nat /\ Len(held) < MaxHeld
  BY DEF HeldTypeOK, HasRoom
<1> QED
  BY <1>1, RowsOfAppend, HeldAssumption

LEMMA GiveUpTypes ==
  ASSUME HeldTypeOK, NEW S, GiveUp(S, "ignored") \/ GiveUp(S, "full")
           \/ GiveUp(S, "discarded") \/ GiveUp(S, "expired") \/ GiveUp(S, "none")
  PROVE  verdict' \in [Batches -> {"none", "ignored", "full", "discarded", "expired"}]
BY DEF GiveUp, HeldTypeOK

LEMMA ReleaseTypes ==
  ASSUME HeldTypeOK, NEW ps, NEW n \in 0..Len(held), ReleaseRows(ps, n)
  PROVE  /\ held' \in Seq(Batches) /\ Len(held') <= MaxHeld
         /\ ingested' \subseteq Batches
         /\ verdict' \in
              [Batches -> {"none", "ignored", "full", "discarded", "expired"}]
<1>1. /\ held \in Seq(Batches) /\ Len(held) <= MaxHeld /\ ingested \subseteq Batches
      /\ Len(held) \in Nat
  BY DEF HeldTypeOK
<1>2. held' \in Seq(Batches) /\ Len(held') = Len(held) - n
  BY <1>1, RowsOfRest DEF ReleaseRows
<1>3. {held[i] : i \in 1..n} \subseteq Batches
  BY <1>1, RowsOfRest DEF Rows
<1>4. ingested' \subseteq Batches
  BY <1>1, <1>3 DEF ReleaseRows
<1>5. \E S : GiveUp(S, "discarded")
  BY DEF ReleaseRows
<1> QED
  BY <1>1, <1>2, <1>4, <1>5, GiveUpTypes, HeldAssumption

LEMMA RequestTypes ==
  ASSUME HeldTypeOK, NEW b \in Batches,
         \/ Route(b) \/ RouteFails(b) \/ Hold(b) \/ HoldFails(b) \/ Recheck(b)
         \/ RecheckFails(b) \/ Ingest(b) \/ IngestFails(b) \/ Repeat(b)
  PROVE  HeldTypeOK'
<1>1. UNCHANGED lifeVars /\ LifeTypeOK'
  BY DEF Route, RouteFails, Hold, HoldFails, Recheck, RecheckFails, Ingest,
     IngestFails, Repeat, HeldTypeOK, lifeVars, LifeTypeOK
<1>2. hook' \in [Batches -> Hook]
  BY DEF Route, RouteFails, Hold, HoldFails, Recheck, RecheckFails, Ingest,
     IngestFails, Repeat, Goto, HeldTypeOK, Hook, LifeTypeOK
<1>3. held' \in Seq(Batches) /\ Len(held') <= MaxHeld
  <2>1. held' = held \/ (HasRoom /\ held' = Append(held, b))
    BY DEF Route, RouteFails, Hold, HoldFails, Recheck, RecheckFails, Ingest,
       IngestFails, Repeat
  <2> QED
    BY <2>1, HoldTypes DEF HeldTypeOK
<1>4. verdict' \in [Batches -> {"none", "ignored", "full", "discarded", "expired"}]
  <2>1. \/ UNCHANGED verdict
        \/ GiveUp({b}, "ignored") \/ GiveUp({b}, "full") \/ GiveUp({b}, "none")
    BY DEF Route, RouteFails, Hold, HoldFails, Recheck, RecheckFails, Ingest,
       IngestFails, Repeat
  <2> QED
    BY <2>1, GiveUpTypes DEF HeldTypeOK
<1>5. ingested' \subseteq Batches /\ stranded' \in BOOLEAN
  BY DEF Route, RouteFails, Hold, HoldFails, Recheck, RecheckFails, Ingest,
     IngestFails, Repeat, HeldTypeOK
<1>6. releases' \subseteq SUBSET Phones
  <2>1. releases' \subseteq releases \cup {phones, hook[b].list}
    BY DEF Route, RouteFails, Hold, HoldFails, Recheck, RecheckFails, Ingest,
       IngestFails, Repeat
  <2>2. phones \subseteq Phones /\ hook[b].list \subseteq Phones
    BY DEF HeldTypeOK, LifeTypeOK, Hook
  <2> QED
    BY <2>1, <2>2 DEF HeldTypeOK
<1> QED
  BY <1>1, <1>2, <1>3, <1>4, <1>5, <1>6 DEF HeldTypeOK

LEMMA OtherTypes ==
  ASSUME HeldTypeOK,
         \/ \E ps \in releases : Release(ps) \/ ReleaseFails(ps)
         \/ ExpireHeld \/ Reconnect \/ Provision \/ RunCompletes \/ RunDiesActive
  PROVE  HeldTypeOK'
<1>1. ASSUME NEW ps \in releases, Release(ps) \/ ReleaseFails(ps)
      PROVE  HeldTypeOK'
  <2>1. PICK n \in 0..Len(held) : ReleaseRows(ps, n)
    <3>1. Len(held) \in 0..Len(held)
      BY DEF HeldTypeOK
    <3> QED
      BY <1>1, <3>1 DEF Release, ReleaseFails
  <2>2. /\ UNCHANGED <<status, phones, hook>> /\ releases' \subseteq releases
        /\ stranded' \in BOOLEAN
    BY <1>1 DEF Release, ReleaseFails, lifeVars
  <2> QED
    BY <2>1, <2>2, ReleaseTypes DEF HeldTypeOK, LifeTypeOK
<1>2. CASE ExpireHeld
  <2>1. held \in Seq(Batches) /\ Len(held) \in Nat /\ held # <<>>
    BY <1>2 DEF ExpireHeld, HeldTypeOK
  <2>2. held' \in Seq(Batches) /\ Len(held') = Len(held) - 1
    BY <1>2, <2>1, RowsOfTail DEF ExpireHeld
  <2>3. Len(held') <= MaxHeld
    BY <2>1, <2>2, HeldAssumption DEF HeldTypeOK
  <2>4. verdict' \in [Batches -> {"none", "ignored", "full", "discarded", "expired"}]
    BY <1>2, GiveUpTypes DEF ExpireHeld
  <2> QED
    BY <1>2, <2>2, <2>3, <2>4 DEF ExpireHeld, HeldTypeOK, LifeTypeOK, lifeVars
<1>3. CASE Reconnect \/ Provision \/ RunCompletes \/ RunDiesActive
  <2>1. LifeTypeOK'
    BY <1>3 DEF Reconnect, Provision, RunCompletes, RunDiesActive, Handoff,
       HandoffPhones, Requeue, Fail, Adopt, Activate, lifeVars, HeldTypeOK, LifeTypeOK
  <2>2. UNCHANGED <<hook, held, ingested, verdict>> /\ stranded' \in BOOLEAN
    BY <1>3 DEF Reconnect, Provision, RunCompletes, RunDiesActive, hookVars,
       HeldTypeOK
  <2>3. releases' \subseteq SUBSET Phones
    BY <1>3 DEF Reconnect, Provision, RunCompletes, RunDiesActive, hookVars,
       HeldTypeOK, LifeTypeOK
  <2> QED
    BY <2>1, <2>2, <2>3 DEF HeldTypeOK
<1> QED
  BY <1>1, <1>2, <1>3

LEMMA HeldTypeStep == HeldTypeOK /\ [HeldNext]_heldVars => HeldTypeOK'
<1> SUFFICES ASSUME HeldTypeOK, [HeldNext]_heldVars PROVE HeldTypeOK'
  OBVIOUS
<1>1. CASE HeldNext
  BY <1>1, RequestTypes, OtherTypes DEF HeldNext, WebhookStep
<1>2. CASE UNCHANGED heldVars
  BY <1>2 DEF heldVars, hookVars, lifeVars, HeldTypeOK, LifeTypeOK
<1> QED
  BY <1>1, <1>2

(* Every variable of the webhook path keeps its type, and the hold never     *)
(* exceeds HELD_MAX_EVENTS.                                                  *)
THEOREM HeldTypeCorrect == HeldSpec => []HeldTypeOK
<1>1. HeldInit => HeldTypeOK
  <2> SUFFICES ASSUME HeldInit PROVE HeldTypeOK
    OBVIOUS
  <2>1. held \in Seq(Batches) /\ Len(held) <= MaxHeld
    BY HeldAssumption DEF HeldInit
  <2>2. hook \in [Batches -> Hook]
    BY DEF HeldInit, Hook
  <2> QED
    BY <2>1, <2>2 DEF HeldInit, HeldTypeOK, LifeInit, LifeTypeOK
<1> QED
  BY <1>1, HeldTypeStep, PTL DEF HeldSpec

-----------------------------------------------------------------------------
(* What is answered.  A request that held its batch is answered after one    *)
(* more read of the WABA, during which the hold may be released or expire.   *)

Kept(b) == b \in ingested \cup HeldSet \/ verdict[b] # "none"

LookedAfter ==
  \A b \in Batches : hook[b].pc \in {"recheck", "done"} => Kept(b)

LEMMA KeptByRequest ==
  ASSUME HeldTypeOK, NEW b \in Batches, NEW c \in Batches, Kept(b),
         \/ Route(c) \/ RouteFails(c) \/ Hold(c) \/ HoldFails(c) \/ Recheck(c)
         \/ RecheckFails(c) \/ Ingest(c) \/ IngestFails(c) \/ (Repeat(c) /\ b # c)
  PROVE  Kept(b)'
<1>1. ingested \subseteq ingested'
  BY DEF Route, RouteFails, Hold, HoldFails, Recheck, RecheckFails, Ingest,
     IngestFails, Repeat
<1>2. HeldSet \subseteq HeldSet'
  <2>1. held' = held \/ held' = Append(held, c)
    BY DEF Route, RouteFails, Hold, HoldFails, Recheck, RecheckFails, Ingest,
       IngestFails, Repeat
  <2>2. HeldSet = Rows(held) /\ HeldSet' = Rows(held')
    BY DEF HeldSet, Rows
  <2> QED
    BY <2>1, <2>2, RowsOfAppend DEF HeldTypeOK
<1>3. verdict[b] # "none" => verdict'[b] # "none"
  BY DEF Route, RouteFails, Hold, HoldFails, Recheck, RecheckFails, Ingest,
     IngestFails, Repeat, GiveUp
<1> QED
  BY <1>1, <1>2, <1>3 DEF Kept

LEMMA KeptByRelease ==
  ASSUME HeldTypeOK, NEW b \in Batches, Kept(b), NEW ps, NEW n \in 0..Len(held),
         ReleaseRows(ps, n)
  PROVE  Kept(b)'
<1>1. ingested \subseteq ingested' /\ (verdict[b] # "none" => verdict'[b] # "none")
  BY DEF ReleaseRows, GiveUp
<1>2. Rows(held) = Rows(held') \cup {held[i] : i \in 1..n}
  BY RowsOfRest DEF ReleaseRows, HeldTypeOK
<1>3. ASSUME b \in {held[i] : i \in 1..n}
      PROVE  b \in ingested' \/ verdict'[b] # "none"
  BY <1>3 DEF ReleaseRows, GiveUp
<1> QED
  BY <1>1, <1>2, <1>3 DEF Kept, HeldSet, Rows

LEMMA KeptByExpiry ==
  ASSUME HeldTypeOK, NEW b \in Batches, Kept(b), ExpireHeld
  PROVE  Kept(b)'
<1>1. Rows(held) = Rows(held') \cup {Head(held)}
  BY RowsOfTail DEF ExpireHeld, HeldTypeOK
<1>2. /\ ingested' = ingested
      /\ verdict'[b] = IF b \in {Head(held)} THEN "expired" ELSE verdict[b]
  BY DEF ExpireHeld, GiveUp
<1> QED
  BY <1>1, <1>2 DEF Kept, HeldSet, Rows

(* The request of a batch reaches the re-check or its end only when the      *)
(* batch is stored, held or given up.                                        *)
LEMMA RequestLooksAfter ==
  ASSUME HeldTypeOK, LookedAfter, NEW c \in Batches,
         \/ Route(c) \/ RouteFails(c) \/ Hold(c) \/ HoldFails(c) \/ Recheck(c)
         \/ RecheckFails(c) \/ Ingest(c) \/ IngestFails(c) \/ Repeat(c)
  PROVE  LookedAfter'
<1>1. ASSUME NEW b \in Batches, b # c PROVE hook'[b] = hook[b]
  BY <1>1 DEF Route, RouteFails, Hold, HoldFails, Recheck, RecheckFails, Ingest,
     IngestFails, Repeat, Goto, HeldTypeOK
<1>2. ASSUME NEW b \in Batches, b # c, hook'[b].pc \in {"recheck", "done"}
      PROVE  Kept(b)'
  BY <1>1, <1>2, KeptByRequest DEF LookedAfter
<1>3. ASSUME hook'[c].pc \in {"recheck", "done"} PROVE Kept(c)'
  <2>1. CASE Route(c) \/ RouteFails(c)
    <3>1. hook'[c].pc \in {"hold", "ingest"} \/ GiveUp({c}, "ignored")
      BY <2>1 DEF Route, RouteFails, Goto, HeldTypeOK
    <3> QED
      BY <1>3, <3>1 DEF GiveUp, Kept
  <2>2. CASE Hold(c)
    <3>1. held' = Append(held, c) \/ GiveUp({c}, "full")
      BY <2>2 DEF Hold
    <3>2. CASE held' = Append(held, c)
      BY <3>2, RowsOfAppend DEF HeldTypeOK, Kept, HeldSet, Rows
    <3>3. CASE GiveUp({c}, "full")
      BY <3>3 DEF GiveUp, Kept
    <3> QED
      BY <3>1, <3>2, <3>3
  <2>3. CASE HoldFails(c) \/ IngestFails(c) \/ Repeat(c)
    BY <1>3, <2>3 DEF HoldFails, IngestFails, Repeat, Goto, HeldTypeOK
  <2>4. CASE Recheck(c) \/ RecheckFails(c)
    <3>1. Kept(c)
      BY <2>4 DEF Recheck, RecheckFails, LookedAfter
    <3> QED
      BY <2>4, <3>1 DEF Recheck, RecheckFails, Kept, HeldSet
  <2>5. CASE Ingest(c)
    BY <2>5 DEF Ingest, Kept
  <2> QED
    BY <2>1, <2>2, <2>3, <2>4, <2>5
<1> QED
  BY <1>2, <1>3 DEF LookedAfter

(* "Meta does not resend a webhook answered 200": wherever a call of the     *)
(* worker fails, the hold is released with an older list of numbers, expires *)
(* or is full, a batch that was answered is stored, held, or was given up    *)
(* for a reason the log tells (routeBatch, holdBatch, releaseHeld).          *)
THEOREM AnsweredIsKeptHolds == HeldSpec => []AnsweredIsKept
<1>1. HeldInit => LookedAfter
  BY DEF HeldInit, LookedAfter
<1>2. HeldTypeOK /\ LookedAfter /\ [HeldNext]_heldVars => LookedAfter'
  <2> SUFFICES ASSUME HeldTypeOK, LookedAfter, [HeldNext]_heldVars
               PROVE  LookedAfter'
    OBVIOUS
  <2>1. ASSUME NEW c \in Batches,
               \/ Route(c) \/ RouteFails(c) \/ Hold(c) \/ HoldFails(c)
               \/ Recheck(c) \/ RecheckFails(c) \/ Ingest(c) \/ IngestFails(c)
               \/ Repeat(c)
        PROVE  LookedAfter'
    BY <2>1, RequestLooksAfter
  <2>2. ASSUME NEW ps \in releases, Release(ps) \/ ReleaseFails(ps)
        PROVE  LookedAfter'
    <3>1. Len(held) \in 0..Len(held)
      BY DEF HeldTypeOK
    <3>2. PICK n \in 0..Len(held) : ReleaseRows(ps, n)
      BY <2>2, <3>1 DEF Release, ReleaseFails
    <3>3. UNCHANGED hook
      BY <2>2 DEF Release, ReleaseFails
    <3> QED
      BY <3>2, <3>3, KeptByRelease DEF LookedAfter
  <2>3. CASE ExpireHeld
    BY <2>3, KeptByExpiry DEF ExpireHeld, LookedAfter
  <2>4. CASE UNCHANGED <<hook, held, ingested, verdict>>
    BY <2>4 DEF LookedAfter, Kept, HeldSet
  <2>5. CASE \/ Reconnect \/ Provision \/ RunCompletes \/ RunDiesActive
             \/ UNCHANGED heldVars
    BY <2>4, <2>5 DEF Reconnect, Provision, RunCompletes, RunDiesActive, heldVars,
       hookVars
  <2> QED
    BY <2>1, <2>2, <2>3, <2>5 DEF HeldNext, WebhookStep
<1>3. LookedAfter => AnsweredIsKept
  BY DEF LookedAfter, AnsweredIsKept, Kept
<1> QED
  BY <1>1, <1>2, <1>3, HeldTypeCorrect, PTL DEF HeldSpec

-----------------------------------------------------------------------------
(* What is held.                                                             *)

Awaited ==
  \/ releases # {}
  \/ \E b \in Batches : hook[b].pc = "recheck"
  \/ stranded

(* A hold that lands just after the activation released is not left behind:  *)
(* while the WABA is active, whatever is held has a release on its way or a  *)
(* worker that is still to look at the WABA again, unless one of these calls *)
(* failed (routeBatch's second lookup, ingest's heldPending, the release at  *)
(* the end of a run).                                                        *)
THEOREM HeldIsAwaitedHolds == HeldSpec => []HeldIsAwaited
<1>1. HeldInit => HeldIsAwaited
  BY DEF HeldInit, LifeInit, HeldIsAwaited
<1>2. HeldTypeOK /\ HeldIsAwaited /\ [HeldNext]_heldVars => HeldIsAwaited'
  <2> SUFFICES ASSUME HeldTypeOK, HeldIsAwaited, [HeldNext]_heldVars,
                      status' = "active", held' # <<>>
               PROVE  Awaited'
    BY DEF HeldIsAwaited, Awaited
  <2>1. ASSUME status = "active", held # <<>>, releases \subseteq releases',
               stranded' = stranded,
               \A b \in Batches : hook[b].pc = "recheck" => hook'[b] = hook[b]
        PROVE  Awaited'
    BY <2>1 DEF HeldIsAwaited, Awaited
  <2>2. ASSUME NEW c \in Batches, hook[c].pc # "recheck", NEW x,
               hook' = [hook EXCEPT ![c] = x]
        PROVE  \A b \in Batches : hook[b].pc = "recheck" => hook'[b] = hook[b]
    BY <2>2 DEF HeldTypeOK
  <2>3. ASSUME NEW c \in Batches, Route(c) \/ RouteFails(c) \/ IngestFails(c) \/ Repeat(c)
        PROVE  Awaited'
    <3>1. /\ hook[c].pc # "recheck" /\ \E x : hook' = [hook EXCEPT ![c] = x]
          /\ UNCHANGED <<status, held, releases, stranded>>
      BY <2>3 DEF Route, RouteFails, IngestFails, Repeat, Goto, lifeVars
    <3> QED
      BY <2>1, <2>2, <3>1
  <2>4. ASSUME NEW c \in Batches, Hold(c) PROVE Awaited'
    <3>1. CASE HasRoom
      BY <2>4, <3>1 DEF Hold, Goto, HeldTypeOK, Awaited
    <3>2. CASE ~HasRoom
      <4>1. /\ hook[c].pc # "recheck" /\ \E x : hook' = [hook EXCEPT ![c] = x]
            /\ UNCHANGED <<status, held, releases, stranded>>
        BY <2>4, <3>2 DEF Hold, Goto, lifeVars
      <4> QED
        BY <2>1, <2>2, <4>1
    <3> QED
      BY <3>1, <3>2
  <2>5. ASSUME NEW c \in Batches, HoldFails(c) PROVE Awaited'
    <3>1. CASE stranded'
      BY <3>1 DEF Awaited
    <3>2. CASE UNCHANGED <<held, stranded>>
      <4>1. /\ hook[c].pc # "recheck" /\ \E x : hook' = [hook EXCEPT ![c] = x]
            /\ UNCHANGED <<status, releases>>
        BY <2>5 DEF HoldFails, Goto, lifeVars
      <4> QED
        BY <2>1, <2>2, <3>2, <4>1
    <3> QED
      BY <2>5, <3>1, <3>2 DEF HoldFails
  <2>6. ASSUME NEW c \in Batches, Recheck(c) \/ RecheckFails(c) PROVE Awaited'
    BY <2>6 DEF Recheck, RecheckFails, lifeVars, Awaited
  <2>7. ASSUME NEW c \in Batches, Ingest(c) PROVE Awaited'
    BY <2>7 DEF Ingest, Awaited
  <2>8. ASSUME NEW ps \in releases, Release(ps) PROVE Awaited'
    <3>1. held' = <<>>
      BY <2>8, RowsOfRest DEF Release, ReleaseRows, HeldTypeOK
    <3> QED
      BY <3>1
  <2>9. ASSUME NEW ps \in releases, ReleaseFails(ps) PROVE Awaited'
    BY <2>9 DEF ReleaseFails, Awaited
  <2>10. CASE ExpireHeld
    BY <2>1, <2>10 DEF ExpireHeld, lifeVars
  <2>11. CASE Reconnect \/ Provision
    BY <2>11 DEF Reconnect, Provision, Handoff, Requeue, Fail, Adopt
  <2>12. CASE RunCompletes \/ RunDiesActive
    BY <2>12 DEF RunCompletes, RunDiesActive, Awaited
  <2>13. CASE UNCHANGED heldVars
    BY <2>1, <2>13 DEF heldVars, hookVars, lifeVars
  <2> QED
    BY <2>3, <2>4, <2>5, <2>6, <2>7, <2>8, <2>9, <2>10, <2>11, <2>12, <2>13
       DEF HeldNext, WebhookStep
<1> QED
  BY <1>1, <1>2, HeldTypeCorrect, PTL DEF HeldSpec

-----------------------------------------------------------------------------
(* The saga and the webhook path together.  Each was modelled against any    *)
(* behaviour of the other; here both of them step.                           *)

LEMMA WebhookKeepsRow == WebhookStep => UNCHANGED lifeVars
BY DEF WebhookStep, Route, RouteFails, Hold, HoldFails, Recheck, RecheckFails,
   Ingest, IngestFails, Repeat, Release, ReleaseFails, ExpireHeld

LEMMA SystemStepsSaga ==
  ASSUME [SystemNext]_systemVars
  PROVE  [ProvisioningNext]_provisioningVars
<1>1. CASE WebhookMoves
  BY <1>1, WebhookKeepsRow DEF WebhookMoves, provisioningVars, rowVars, sagaVars, lifeVars
<1>2. CASE HandedOver
  BY <1>2 DEF HandedOver, ProvisioningNext
<1>3. ASSUME NEW r \in Runs, CompletesAndReleases(r) \/ CompletesOnly(r)
      PROVE  ProvisioningNext
  <2>1. Complete(r) \/ CompleteFails(r)
    BY <1>3 DEF CompletesAndReleases, CompletesOnly, FindsActive
  <2> QED BY <2>1 DEF ProvisioningNext, RunStep
<1>4. CASE SagaMoves
  BY <1>4 DEF SagaMoves, ProvisioningNext
<1>5. CASE UNCHANGED systemVars
  BY <1>5 DEF systemVars, provisioningVars, rowVars, sagaVars, lifeVars
<1> QED
  BY <1>1, <1>2, <1>3, <1>4, <1>5 DEF SystemNext

(* Only a run that knows of it makes a row active, and it has a number then. *)
LEMMA ActivationIsSeen ==
  ASSUME RunsInv, NEW r \in Runs, Complete(r) \/ CompleteFails(r),
         status' = "active", status # "active"
  PROVE  Activate
<1>1. /\ run[r].pc = "complete" /\ Owns(r) /\ Finish(r, run[r].outcome)
      /\ UNCHANGED phones
  BY DEF Complete, CompleteFails
<1>2. phones # {}
  BY <1>1, SuccessOwesNothing
<1> QED
  BY <1>1, <1>2 DEF Activate, Owns

(* What SagaMoves leaves: the row is requeued, failed, or given its numbers. *)
LEMMA SagaMovesRow ==
  ASSUME RunsInv, SagaMoves
  PROVE  \/ UNCHANGED lifeVars
         \/ Requeue \/ Fail \/ \E ps \in SUBSET Phones : Adopt(ps)
<1>1. CASE UNCHANGED <<status, phones>>
  BY <1>1 DEF lifeVars
<1>2. CASE \/ ReadFailed \/ Retry \/ HistorySharingOff \/ WindowCloses \/ Elapse
           \/ \E k \in Kinds : Reset(k) \/ Settle(k)
  BY <1>1, <1>2 DEF ReadFailed, Retry, HistorySharingOff, WindowCloses, Elapse,
     Reset, Settle, Requeue, rowVars
<1>3. CASE \E r \in Runs : Claim(r)
  BY <1>1, <1>3 DEF Claim
<1>4. ASSUME NEW r \in Runs,
             \/ RunDies(r)
             \/ RunStep(r) /\ ~FindsActive(r)
             \/ CompleteFails(r) /\ status' = status
      PROVE  \/ UNCHANGED <<status, phones>>
             \/ Fail \/ \E ps \in SUBSET Phones : Adopt(ps)
  <2>1. CASE AdoptNumbers(r)
    BY <2>1 DEF AdoptNumbers, Owns, Adopt
  <2>2. CASE Complete(r) /\ ~FindsActive(r)
    <3>1. CASE ~Owns(r)
      BY <2>2, <3>1 DEF Complete
    <3>2. CASE Owns(r)
      <4>1. status = "pending" /\ UNCHANGED phones
        BY <2>2, <3>2 DEF Complete, Owns
      <4>2. status' = StatusAfter(run[r].outcome)
        BY <2>2, <3>2 DEF Complete, Finish
      <4>3. status' \in {"pending", "failed"}
        BY <2>2, <4>2 DEF StatusAfter, FindsActive
      <4> QED BY <4>1, <4>3 DEF Fail
    <3> QED BY <3>1, <3>2
  <2>3. CASE CompleteFails(r) /\ status' = status
    BY <2>3 DEF CompleteFails
  <2>4. CASE Subscribe(r) \/ Save(r) \/ Verify(r) \/ Begin(r) \/ Post(r) \/ RunDies(r)
    BY <2>4 DEF Subscribe, Save, Verify, Begin, Post, RunDies, RunOnly, rowVars
  <2> QED
    BY <1>4, <2>1, <2>2, <2>3, <2>4 DEF RunStep
<1> QED
  BY <1>1, <1>2, <1>3, <1>4 DEF SagaMoves

LEMMA SystemStepsHeld ==
  ASSUME RunsInv, [SystemNext]_systemVars
  PROVE  [HeldNext]_heldVars
<1>1. CASE WebhookMoves
  BY <1>1 DEF WebhookMoves, HeldNext
<1>2. CASE HandedOver
  <2>1. PICK ps \in SUBSET Phones, type \in {"standard", "coexistence"} :
          Register(ps, type)
    BY <1>2 DEF HandedOver
  <2>2. Handoff(ps)
    BY <2>1 DEF Register, Handoff, HandoffPhones
  <2>3. Reconnect
    BY <1>2, <2>2 DEF HandedOver, Reconnect
  <2> QED BY <2>3 DEF HeldNext
<1>3. ASSUME NEW r \in Runs, CompletesAndReleases(r)
      PROVE  RunCompletes
  <2>1. CASE status # "active"
    BY <1>3, <2>1, ActivationIsSeen DEF CompletesAndReleases, FindsActive, RunCompletes
  <2>2. CASE status = "active"
    <3>1. UNCHANGED lifeVars
      BY <1>3, <2>2 DEF CompletesAndReleases, FindsActive, Complete, Owns, lifeVars
    <3> QED BY <1>3, <2>2, <3>1 DEF CompletesAndReleases, RunCompletes
  <2> QED BY <2>1, <2>2
<1>4. ASSUME NEW r \in Runs, CompletesOnly(r)
      PROVE  RunDiesActive
  <2>1. Activate
    BY <1>4, ActivationIsSeen DEF CompletesOnly, FindsActive
  <2> QED BY <1>4, <2>1 DEF CompletesOnly, RunDiesActive
<1>5. CASE SagaMoves
  BY <1>5, SagaMovesRow DEF SagaMoves, Provision, HeldNext, heldVars
<1>6. CASE UNCHANGED systemVars
  BY <1>6 DEF systemVars, heldVars
<1> QED
  BY <1>1, <1>2, <1>3, <1>4, <1>5, <1>6 DEF SystemNext, HeldNext

(* The WABA is the environment of the webhook path and the webhook path      *)
(* leaves the WABA alone: the saga and the webhook path together (runClaim,  *)
(* routeBatch, releaseHeld) are a behaviour of each of the two modules, so   *)
(* that what was proved of one of them alone holds of both together.         *)
THEOREM SystemIsBoth == SystemSpec => ProvisioningSpec /\ HeldSpec
<1>1. SystemInit => ProvisioningInit /\ HeldInit
  BY DEF SystemInit
<1>2. [SystemNext]_systemVars => [ProvisioningNext]_provisioningVars
  BY SystemStepsSaga
<1>3. SystemSpec => ProvisioningSpec
  BY <1>1, <1>2, PTL DEF SystemSpec, ProvisioningSpec
<1>4. RunsInv /\ [SystemNext]_systemVars => [HeldNext]_heldVars
  BY SystemStepsHeld
<1>5. SystemSpec => HeldSpec
  BY <1>1, <1>3, <1>4, RunsInvariant, PTL DEF SystemSpec, HeldSpec
<1> QED
  BY <1>3, <1>5

(* With the saga that exists, not just with any life a WABA may lead: what   *)
(* is held while it runs is looked after, what Meta was told is kept, and    *)
(* the saga keeps what it promised of the syncs.                             *)
THEOREM SystemIsSafe ==
  SystemSpec => [](HeldIsAwaited /\ AnsweredIsKept /\ SyncIssuedOnce /\ ActiveOwesNothing)
BY SystemIsBoth, HeldIsAwaitedHolds, AnsweredIsKeptHolds, SyncIssuedOnceHolds,
   ActiveOwesNothingHolds, PTL

-----------------------------------------------------------------------------
(* The connect flow.                                                         *)

(* A state that can be redeemed is its account's.                            *)
StatesStand ==
  \A s \in ConnectStates : connectState[s] \in {NoAccount, startedFor[s]}

(* A flow has an account once it has begun, the one of its state.            *)
FlowStands(f) ==
  /\ flow[f].pc = "idle" => flow[f].state = NoState
  /\ flow[f].pc = "consume" => flow[f].state # NoState
  /\ flow[f].pc # "idle" => flow[f].account \in Accounts
  /\ flow[f].state # NoState => startedFor[flow[f].state] = flow[f].account

(* A number in the table is in a registered WABA, so the join of             *)
(* assertWabaOwnership misses none.                                          *)
NumbersHaveOwners ==
  \A n \in Numbers : numberOf[n] # NoWaba => owner[numberOf[n]] # NoAccount

ConnectInv ==
  /\ ConnectTypeOK
  /\ StatesStand
  /\ \A f \in Flows : FlowStands(f)
  /\ RedeemedOnce
  /\ ToldIsOwned
  /\ NumbersHaveOwners

LEMMA NothingIsTyped == Nothing \in [Wabas -> SUBSET Numbers]
BY DEF Nothing

LEMMA InitConnectInv ==
  ASSUME ConnectInit
  PROVE  ConnectInv
<1>1. ConnectTypeOK
  BY NothingIsTyped DEF ConnectInit, ConnectTypeOK, FlowType
<1> QED
  BY <1>1 DEF ConnectInit, ConnectInv, StatesStand, FlowStands, RedeemedOnce,
              ToldIsOwned, NumbersHaveOwners

-----------------------------------------------------------------------------
(* One flow changes and the tables of WABAs do not.                          *)

(* What a step that sets flow f to r has to respect.                         *)
Respects(f, r) ==
  /\ r.pc \notin {"idle", "connected"} /\ r.account \in Accounts
  /\ r.pc = "consume" => r.state # NoState
  /\ r.state # NoState => startedFor[r.state] = r.account
  /\ \/ r.state = NoState \/ r.pc = "consume"
     \/ /\ connectState'[r.state] = NoAccount
        /\ \A g \in Flows \ {f} :
             flow[g].state = r.state => flow[g].pc = "consume"

LEMMA FlowStep ==
  ASSUME ConnectInv, NEW f \in Flows, NEW r \in FlowType,
         flow' = [flow EXCEPT ![f] = r], Respects(f, r),
         UNCHANGED <<startedFor, owner, numberOf>>,
         \/ UNCHANGED connectState
         \/ \E s \in ConnectStates :
              connectState' = [connectState EXCEPT ![s] = NoAccount]
  PROVE  ConnectInv'
<1> USE DEF ConnectInv
<1>1. /\ flow' \in [Flows -> FlowType] /\ flow'[f] = r
      /\ \A g \in Flows \ {f} : flow'[g] = flow[g]
  BY DEF ConnectTypeOK
<1>2. /\ connectState' \in [ConnectStates -> Accounts \cup {NoAccount}]
      /\ \A s \in ConnectStates : connectState'[s] \in {connectState[s], NoAccount}
  BY DEF ConnectTypeOK
<1>3. ConnectTypeOK'
  BY <1>1, <1>2 DEF ConnectTypeOK
<1>4. StatesStand'
  BY <1>2 DEF StatesStand
<1>5. ASSUME NEW g \in Flows PROVE FlowStands(g)'
  <2>1. CASE g = f
    BY <1>1, <2>1 DEF FlowStands, Respects
  <2>2. CASE g # f
    BY <1>1, <2>2 DEF FlowStands
  <2> QED
    BY <2>1, <2>2
<1>6. RedeemedOnce'
  <2> SUFFICES ASSUME NEW g \in Flows, flow'[g].state # NoState,
                      flow'[g].pc # "consume"
               PROVE  /\ connectState'[flow'[g].state] = NoAccount
                      /\ startedFor'[flow'[g].state] = flow'[g].account
                      /\ \A h \in Flows \ {g} :
                           flow'[h].state = flow'[g].state => flow'[h].pc = "consume"
    BY DEF RedeemedOnce
  <2>1. CASE g = f
    BY <1>1, <2>1 DEF Respects
  <2>2. CASE g # f
    <3>1. /\ flow'[g] = flow[g] /\ connectState[flow[g].state] = NoAccount
          /\ flow[g].state \in ConnectStates
          /\ startedFor[flow[g].state] = flow[g].account
          /\ \A h \in Flows \ {g} :
               flow[h].state = flow[g].state => flow[h].pc = "consume"
      BY <1>1, <2>2 DEF RedeemedOnce, ConnectTypeOK, FlowType
    <3>2. connectState'[flow[g].state] = NoAccount
      BY <1>2, <3>1
    <3>3. flow'[f].state = flow[g].state => flow'[f].pc = "consume"
      BY <1>1, <2>2, <3>1 DEF Respects
    <3> QED
      BY <1>1, <3>1, <3>2, <3>3
  <2> QED
    BY <2>1, <2>2
<1>7. ToldIsOwned'
  <2> SUFFICES ASSUME NEW g \in Flows, flow'[g].pc = "connected",
                      NEW w \in Wabas, flow'[g].found[w] # {}
               PROVE  owner[w] = flow'[g].account
    BY DEF ToldIsOwned
  <2>1. g # f
    BY <1>1 DEF Respects
  <2> QED
    BY <1>1, <2>1 DEF ToldIsOwned
<1>8. NumbersHaveOwners'
  BY DEF NumbersHaveOwners
<1> QED
  BY <1>3, <1>4, <1>5, <1>6, <1>7, <1>8

(* What can be redeemed was redeemed by no flow, and is its account's.       *)
LEMMA RedeemableIsFresh ==
  ASSUME ConnectInv, NEW s \in ConnectStates, NEW a, Redeems(s, a)
  PROVE  /\ a \in Accounts /\ startedFor[s] = a
         /\ connectState'[s] = NoAccount
         /\ connectState' = [connectState EXCEPT ![s] = NoAccount]
         /\ \A g \in Flows : flow[g].state = s => flow[g].pc = "consume"
<1>1. connectState[s] = a /\ a # NoAccount
  BY DEF Redeems
<1>2. s # NoState
  BY ConnectAssumption
<1> QED
  BY <1>1, <1>2 DEF ConnectInv, ConnectTypeOK, StatesStand, RedeemedOnce, Redeems

LEMMA RedeemStep ==
  ASSUME ConnectInv, NEW f \in Flows, NEW s \in ConnectStates, NEW a,
         NEW w \in Wabas \cup {NoWaba}, Redeems(s, a),
         Begins(f, "discover", a, s, w, FALSE), Unchanging
  PROVE  ConnectInv'
<1>1. /\ a \in Accounts /\ startedFor[s] = a /\ connectState'[s] = NoAccount
      /\ connectState' = [connectState EXCEPT ![s] = NoAccount]
      /\ \A g \in Flows : flow[g].state = s => flow[g].pc = "consume"
  BY RedeemableIsFresh
<1> DEFINE r == [flow[f] EXCEPT !.pc = "discover", !.account = a, !.state = s,
                               !.selector = w, !.pasted = FALSE]
<1>2. /\ r \in FlowType /\ flow' = [flow EXCEPT ![f] = r]
      /\ r.pc = "discover" /\ r.account = a /\ r.state = s
  <2>1. flow[f] \in FlowType /\ flow \in [Flows -> FlowType]
    BY DEF ConnectInv, ConnectTypeOK
  <2>2. r \in FlowType /\ r.pc = "discover" /\ r.account = a /\ r.state = s
    BY <1>1, <2>1 DEF FlowType
  <2>3. flow' = [flow EXCEPT ![f] = r]
    BY <2>1 DEF Begins, FlowType
  <2> QED
    BY <2>2, <2>3
<1> HIDE DEF r
<1>3. Respects(f, r)
  BY <1>1, <1>2 DEF Respects
<1> QED
  BY <1>1, <1>2, <1>3, FlowStep DEF Unchanging

LEMMA ExchangeStep ==
  ASSUME ConnectInv, NEW f \in Flows, NEW a \in Accounts,
         NEW s \in ConnectStates, NEW w \in Wabas \cup {NoWaba},
         ConnectExchange(f, a, s, w)
  PROVE  ConnectInv'
<1>1. startedFor[s] = a /\ s # NoState
  BY ConnectAssumption DEF ConnectExchange, ConnectInv, StatesStand
<1> DEFINE r == [flow[f] EXCEPT !.pc = "consume", !.account = a, !.state = s,
                               !.selector = w, !.pasted = FALSE]
<1>2. /\ r \in FlowType /\ flow' = [flow EXCEPT ![f] = r]
      /\ r.pc = "consume" /\ r.account = a /\ r.state = s
  <2>1. flow[f] \in FlowType /\ flow \in [Flows -> FlowType]
    BY DEF ConnectInv, ConnectTypeOK
  <2>2. r \in FlowType /\ r.pc = "consume" /\ r.account = a /\ r.state = s
    BY <2>1 DEF FlowType
  <2>3. flow' = [flow EXCEPT ![f] = r]
    BY <2>1 DEF Begins, FlowType, ConnectExchange
  <2> QED
    BY <2>2, <2>3
<1> HIDE DEF r
<1>3. Respects(f, r)
  BY <1>1, <1>2 DEF Respects
<1> QED
  BY <1>2, <1>3, FlowStep DEF ConnectExchange, Unchanging

LEMMA PasteStep ==
  ASSUME ConnectInv, NEW f \in Flows, NEW a \in Accounts,
         NEW w \in Wabas \cup {NoWaba}, PasteToken(f, a, w)
  PROVE  ConnectInv'
<1> DEFINE r == [flow[f] EXCEPT !.pc = "discover", !.account = a, !.state = NoState,
                               !.selector = w, !.pasted = TRUE]
<1>1. /\ r \in FlowType /\ flow' = [flow EXCEPT ![f] = r]
      /\ r.pc = "discover" /\ r.account = a /\ r.state = NoState
  <2>1. flow[f] \in FlowType /\ flow \in [Flows -> FlowType]
    BY DEF ConnectInv, ConnectTypeOK
  <2>2. r \in FlowType /\ r.pc = "discover" /\ r.account = a /\ r.state = NoState
    BY <2>1 DEF FlowType
  <2>3. flow' = [flow EXCEPT ![f] = r]
    BY <2>1 DEF Begins, FlowType, PasteToken
  <2> QED
    BY <2>2, <2>3
<1> HIDE DEF r
<1>2. Respects(f, r)
  BY <1>1 DEF Respects
<1> QED
  BY <1>1, <1>2, FlowStep DEF PasteToken, Unchanging

LEMMA ConsumeStep ==
  ASSUME ConnectInv, NEW f \in Flows, ConsumeState(f)
  PROVE  ConnectInv'
<1>1. /\ flow \in [Flows -> FlowType] /\ flow[f] \in FlowType
      /\ flow[f].pc = "consume" /\ flow[f].state \in ConnectStates
      /\ flow[f].account \in Accounts
      /\ startedFor[flow[f].state] = flow[f].account
  BY DEF ConsumeState, ConnectInv, ConnectTypeOK, FlowType, FlowStands
<1> DEFINE s == flow[f].state
<1>2. CASE connectState[s] = flow[f].account
  <2> DEFINE r == [flow[f] EXCEPT !.pc = "discover"]
  <2>1. Redeems(s, flow[f].account) /\ Unchanging
    BY <1>2 DEF ConsumeState
  <2>2. /\ connectState'[s] = NoAccount
        /\ connectState' = [connectState EXCEPT ![s] = NoAccount]
        /\ \A g \in Flows : flow[g].state = s => flow[g].pc = "consume"
    BY <1>1, <2>1, RedeemableIsFresh
  <2>3. flow' = [flow EXCEPT ![f] = r]
    BY <1>1, <1>2 DEF ConsumeState, FlowType
  <2>4. r \in FlowType /\ r.pc = "discover" /\ r.state = s /\ r.account = flow[f].account
    BY <1>1 DEF FlowType
  <2> HIDE DEF r
  <2>5. Respects(f, r)
    BY <1>1, <2>2, <2>4 DEF Respects
  <2> QED
    BY <1>1, <2>1, <2>2, <2>3, <2>4, <2>5, FlowStep DEF Unchanging
<1>3. CASE connectState[s] # flow[f].account
  <2> DEFINE r == [flow[f] EXCEPT !.pc = "refused", !.state = NoState]
  <2>1. flow' = [flow EXCEPT ![f] = r]
    BY <1>1, <1>3 DEF ConsumeState, FlowType
  <2>2. r \in FlowType /\ r.pc = "refused" /\ r.state = NoState
        /\ r.account = flow[f].account
    BY <1>1 DEF FlowType
  <2>3. UNCHANGED connectState /\ Unchanging
    BY <1>3 DEF ConsumeState
  <2> HIDE DEF r
  <2>4. Respects(f, r)
    BY <1>1, <2>2 DEF Respects
  <2> QED
    BY <2>1, <2>2, <2>3, <2>4, FlowStep DEF Unchanging
<1> QED
  BY <1>2, <1>3

(* A flow past its state that goes on, or ends without a registration.       *)
LEMMA GoesOn ==
  ASSUME ConnectInv, NEW f \in Flows, NEW r \in FlowType,
         flow[f].pc \in {"discover", "check"}, r.pc \in {"check", "refused"},
         r.account = flow[f].account, r.state = flow[f].state,
         flow' = [flow EXCEPT ![f] = r], UNCHANGED connectState, Unchanging
  PROVE  ConnectInv'
<1>1. /\ flow[f].account \in Accounts
      /\ flow[f].state # NoState =>
           /\ startedFor[flow[f].state] = flow[f].account
           /\ connectState[flow[f].state] = NoAccount
           /\ \A g \in Flows \ {f} :
                flow[g].state = flow[f].state => flow[g].pc = "consume"
  BY DEF ConnectInv, FlowStands, RedeemedOnce
<1>2. Respects(f, r)
  BY <1>1 DEF Respects
<1> QED
  BY <1>2, FlowStep DEF Unchanging

LEMMA DiscoverStep ==
  ASSUME ConnectInv, NEW f \in Flows, Discover(f)
  PROVE  ConnectInv'
<1>1. flow \in [Flows -> FlowType] /\ flow[f] \in FlowType
  BY DEF ConnectInv, ConnectTypeOK
<1>2. PICK listing \in Listings \cup {Nothing} :
        LET found == Matches(f, listing) IN
        flow' = [flow EXCEPT
          ![f].pc = IF found = {} THEN "refused" ELSE "check",
          ![f].unchecked = found,
          ![f].found = [w \in Wabas |-> IF w \in found THEN listing[w] ELSE {}]]
  BY DEF Discover
<1> DEFINE found == Matches(f, listing)
           r == [flow[f] EXCEPT
                  !.pc = IF found = {} THEN "refused" ELSE "check",
                  !.unchecked = found,
                  !.found = [w \in Wabas |-> IF w \in found THEN listing[w] ELSE {}]]
<1>3. found \subseteq Wabas
  BY DEF Matches
<1>4. listing \in [Wabas -> SUBSET Numbers]
  BY ConnectAssumption, NothingIsTyped
<1> HIDE DEF found
<1>5. [w \in Wabas |-> IF w \in found THEN listing[w] ELSE {}] \in [Wabas -> SUBSET Numbers]
  BY <1>4
<1>6. r \in FlowType /\ r.pc \in {"check", "refused"}
      /\ r.account = flow[f].account /\ r.state = flow[f].state
  BY <1>1, <1>3, <1>5 DEF FlowType
<1>7. flow' = [flow EXCEPT ![f] = r]
  BY <1>1, <1>2 DEF FlowType, found
<1>8. flow[f].pc = "discover" /\ UNCHANGED connectState /\ Unchanging
  BY DEF Discover
<1> HIDE DEF r
<1> QED
  BY <1>6, <1>7, <1>8, GoesOn

LEMMA CheckStep ==
  ASSUME ConnectInv, NEW f \in Flows, NEW w \in Wabas, CheckOwner(f, w)
  PROVE  ConnectInv'
<1>1. flow \in [Flows -> FlowType] /\ flow[f] \in FlowType
  BY DEF ConnectInv, ConnectTypeOK
<1> DEFINE free == [flow[f] EXCEPT !.unchecked = @ \ {w}]
           ends == [flow[f] EXCEPT !.pc = "refused"]
           skips == [flow[f] EXCEPT !.unchecked = @ \ {w}, !.found[w] = {}]
<1>2. \E r \in {free, ends, skips} : flow' = [flow EXCEPT ![f] = r]
  BY <1>1 DEF CheckOwner, FlowType
<1>3. \A r \in {free, ends, skips} :
        /\ r \in FlowType /\ r.pc \in {flow[f].pc, "refused"}
        /\ r.account = flow[f].account /\ r.state = flow[f].state
  <2>1. [flow[f].found EXCEPT ![w] = {}] \in [Wabas -> SUBSET Numbers]
    BY <1>1 DEF FlowType
  <2>2. free \in FlowType /\ free.pc = flow[f].pc
        /\ free.account = flow[f].account /\ free.state = flow[f].state
    BY <1>1 DEF FlowType
  <2>3. ends \in FlowType /\ ends.pc = "refused"
        /\ ends.account = flow[f].account /\ ends.state = flow[f].state
    BY <1>1 DEF FlowType
  <2>4. skips \in FlowType /\ skips.pc = flow[f].pc
        /\ skips.account = flow[f].account /\ skips.state = flow[f].state
    BY <1>1, <2>1 DEF FlowType
  <2> QED
    BY <2>2, <2>3, <2>4
<1>4. flow[f].pc = "check" /\ UNCHANGED connectState /\ Unchanging
  BY DEF CheckOwner
<1> HIDE DEF free, ends, skips
<1> QED
  BY <1>2, <1>3, <1>4, GoesOn
-----------------------------------------------------------------------------
(* The tables of WABAs change.                                               *)

(* Whatever is registered was free or the account's: what somebody has stays *)
(* his, because a number whose WABA has no row is in no batch's way.         *)
LEMMA RegistersFree ==
  ASSUME ConnectInv, NEW a \in Accounts, NEW batch \in [Wabas -> SUBSET Numbers],
         Free(a, batch), Registers(a, batch)
  PROVE  /\ owner' \in [Wabas -> Accounts \cup {NoAccount}]
         /\ numberOf' \in [Numbers -> Wabas \cup {NoWaba}]
         /\ \A w \in Wabas : batch[w] # {} => owner'[w] = a
         /\ NothingIsTaken
         /\ NumbersHaveOwners'
<1>1. /\ owner \in [Wabas -> Accounts \cup {NoAccount}]
      /\ numberOf \in [Numbers -> Wabas \cup {NoWaba}]
      /\ a # NoAccount /\ NoWaba \notin Wabas
  BY ConnectAssumption DEF ConnectInv, ConnectTypeOK
<1>2. /\ owner' \in [Wabas -> Accounts \cup {NoAccount}]
      /\ \A w \in Wabas : owner'[w] = IF batch[w] # {} THEN a ELSE owner[w]
  BY <1>1 DEF Registers
<1>3. ASSUME NEW n \in Numbers
      PROVE  \/ \E w \in Wabas : n \in batch[w] /\ numberOf'[n] = w
             \/ numberOf'[n] = NoWaba
             \/ numberOf'[n] = numberOf[n] /\ \A w \in Wabas : n \notin batch[w]
  <2>1. CASE \E w \in Wabas : n \in batch[w]
    <3> DEFINE v == CHOOSE w \in Wabas : n \in batch[w]
    <3>1. v \in Wabas /\ n \in batch[v]
      BY <2>1
    <3>2. numberOf'[n] = v
      BY <2>1 DEF Registers
    <3> QED
      BY <3>1, <3>2
  <2>2. CASE ~\E w \in Wabas : n \in batch[w]
    BY <2>2 DEF Registers
  <2> QED
    BY <2>1, <2>2
<1>4. numberOf' \in [Numbers -> Wabas \cup {NoWaba}]
  <2>1. numberOf' = [n \in Numbers |-> numberOf'[n]]
    BY DEF Registers
  <2>2. \A n \in Numbers : numberOf'[n] \in Wabas \cup {NoWaba}
    BY <1>1, <1>3
  <2> QED
    BY <2>1, <2>2
<1>5. \A w \in Wabas : owner[w] # NoAccount => owner'[w] = owner[w]
  BY <1>2 DEF Free
<1>6. ASSUME NEW n \in Numbers, numberOf[n] # NoWaba
      PROVE  numberOf'[n] \in {numberOf[n], NoWaba}
  <2>1. owner[numberOf[n]] # NoAccount
    BY <1>6 DEF ConnectInv, NumbersHaveOwners
  <2>2. \A w \in Wabas : n \in batch[w] => numberOf[n] = w
    BY <1>6, <2>1 DEF Free, NumbersFree
  <2> QED
    BY <1>3, <2>2
<1>7. ASSUME NEW n \in Numbers, numberOf'[n] # NoWaba
      PROVE  owner'[numberOf'[n]] # NoAccount
  <2>1. CASE \E w \in Wabas : n \in batch[w] /\ numberOf'[n] = w
    BY <1>1, <1>2, <2>1
  <2>2. CASE numberOf'[n] = numberOf[n]
    <3>1. numberOf[n] \in Wabas /\ owner[numberOf[n]] # NoAccount
      BY <1>1, <1>7, <2>2 DEF ConnectInv, NumbersHaveOwners
    <3> QED
      BY <1>5, <2>2, <3>1
  <2> QED
    BY <1>3, <1>7, <2>1, <2>2
<1> QED
  BY <1>2, <1>4, <1>5, <1>6, <1>7 DEF NothingIsTaken, NumbersHaveOwners

LEMMA BatchStep ==
  ASSUME ConnectInv, NEW f \in Flows, BeginBatch(f)
  PROVE  ConnectInv' /\ NothingIsTaken
<1>1. /\ flow \in [Flows -> FlowType] /\ flow[f] \in FlowType
      /\ flow[f].pc = "check" /\ flow[f].account \in Accounts
      /\ flow[f].found \in [Wabas -> SUBSET Numbers]
  BY DEF BeginBatch, ConnectInv, ConnectTypeOK, FlowType, FlowStands
<1> DEFINE a == flow[f].account
           batch == flow[f].found
<1>2. CASE batch # Nothing /\ Free(a, batch)
  <2> DEFINE r == [flow[f] EXCEPT !.pc = "connected"]
  <2>1. /\ Registers(a, batch) /\ flow' = [flow EXCEPT ![f] = r]
        /\ UNCHANGED <<connectState, startedFor>>
    BY <1>1, <1>2 DEF BeginBatch, FlowType
  <2>2. /\ r \in FlowType /\ r.pc = "connected" /\ r.account = a
        /\ r.state = flow[f].state /\ r.found = batch
    BY <1>1 DEF FlowType
  <2> HIDE DEF r
  <2>3. /\ flow' \in [Flows -> FlowType] /\ flow'[f] = r
        /\ \A g \in Flows \ {f} : flow'[g] = flow[g]
    BY <1>1, <2>1, <2>2
  <2>4. /\ owner' \in [Wabas -> Accounts \cup {NoAccount}]
        /\ numberOf' \in [Numbers -> Wabas \cup {NoWaba}]
        /\ \A w \in Wabas : batch[w] # {} => owner'[w] = a
        /\ NothingIsTaken
        /\ NumbersHaveOwners'
    BY <1>1, <1>2, <2>1, RegistersFree
  <2>5. ConnectTypeOK' /\ StatesStand'
    BY <2>1, <2>3, <2>4 DEF ConnectInv, ConnectTypeOK, StatesStand
  <2>6. \A g \in Flows : /\ flow'[g].state = flow[g].state
                         /\ flow'[g].account = flow[g].account
                         /\ (flow'[g].pc = "consume") <=> (flow[g].pc = "consume")
    BY <1>1, <2>2, <2>3
  <2>7. \A g \in Flows : FlowStands(g)'
    BY <1>1, <2>1, <2>2, <2>3 DEF ConnectInv, FlowStands
  <2>8. RedeemedOnce'
    BY <2>1, <2>6 DEF ConnectInv, RedeemedOnce
  <2>9. ToldIsOwned'
    <3> SUFFICES ASSUME NEW g \in Flows, flow'[g].pc = "connected",
                        NEW w \in Wabas, flow'[g].found[w] # {}
                 PROVE  owner'[w] = flow'[g].account
      BY DEF ToldIsOwned
    <3>1. CASE g = f
      BY <2>2, <2>3, <2>4, <3>1
    <3>2. CASE g # f
      <4>1. /\ flow'[g] = flow[g] /\ owner[w] = flow[g].account
            /\ flow[g].account \in Accounts
        BY <2>3, <3>2 DEF ConnectInv, ToldIsOwned, FlowStands
      <4>2. owner[w] # NoAccount
        BY <4>1, ConnectAssumption
      <4> QED
        BY <2>4, <4>1, <4>2 DEF NothingIsTaken
    <3> QED
      BY <3>1, <3>2
  <2> QED
    BY <2>4, <2>5, <2>7, <2>8, <2>9 DEF ConnectInv
<1>3. CASE ~(batch # Nothing /\ Free(a, batch))
  <2> DEFINE r == [flow[f] EXCEPT !.pc = "refused"]
  <2>1. /\ flow' = [flow EXCEPT ![f] = r]
        /\ UNCHANGED connectState /\ Unchanging
    BY <1>1, <1>3 DEF BeginBatch, FlowType, Unchanging
  <2>2. r \in FlowType /\ r.pc = "refused" /\ r.account = a
        /\ r.state = flow[f].state
    BY <1>1 DEF FlowType
  <2> HIDE DEF r
  <2>3. ConnectInv'
    BY <1>1, <2>1, <2>2, GoesOn
  <2> QED
    BY <2>1, <2>3 DEF Unchanging, NothingIsTaken
<1> QED
  BY <1>2, <1>3

LEMMA AdminStep ==
  ASSUME ConnectInv, NEW a \in Accounts, NEW w \in Wabas,
         NEW ns \in SUBSET Numbers, RegisterByAdmin(a, w, ns)
  PROVE  ConnectInv' /\ NothingIsTaken
<1> DEFINE batch == [Nothing EXCEPT ![w] = ns]
<1>1. batch \in [Wabas -> SUBSET Numbers]
  BY NothingIsTyped
<1>2. /\ Free(a, batch) /\ Registers(a, batch)
      /\ UNCHANGED <<connectState, startedFor, flow>>
  BY DEF RegisterByAdmin
<1> HIDE DEF batch
<1>3. /\ owner' \in [Wabas -> Accounts \cup {NoAccount}]
      /\ numberOf' \in [Numbers -> Wabas \cup {NoWaba}]
      /\ NothingIsTaken /\ NumbersHaveOwners'
  BY <1>1, <1>2, RegistersFree
<1>4. /\ ConnectTypeOK' /\ StatesStand' /\ (\A g \in Flows : FlowStands(g)')
      /\ RedeemedOnce'
  BY <1>2, <1>3 DEF ConnectInv, ConnectTypeOK, StatesStand, FlowStands, RedeemedOnce
<1>5. ToldIsOwned'
  <2> SUFFICES ASSUME NEW g \in Flows, flow[g].pc = "connected",
                      NEW v \in Wabas, flow[g].found[v] # {}
               PROVE  owner'[v] = flow[g].account
    BY <1>2 DEF ToldIsOwned
  <2>1. owner[v] = flow[g].account /\ owner[v] # NoAccount
    BY ConnectAssumption DEF ConnectInv, ToldIsOwned, FlowStands
  <2> QED
    BY <1>3, <2>1 DEF NothingIsTaken
<1> QED
  BY <1>3, <1>4, <1>5 DEF ConnectInv

-----------------------------------------------------------------------------
(* The theorems.                                                             *)

(* A state that is started is new, so no flow has it.                        *)
LEMMA StartStep ==
  ASSUME ConnectInv, NEW a \in Accounts, NEW s \in ConnectStates,
         StartConnect(a, s)
  PROVE  ConnectInv'
<1>1. \A f \in Flows : flow[f].state # s
  <2> SUFFICES ASSUME NEW f \in Flows, flow[f].state = s PROVE FALSE
    OBVIOUS
  <2>1. startedFor[s] = flow[f].account /\ flow[f].account \in Accounts
    BY ConnectAssumption DEF ConnectInv, FlowStands
  <2> QED
    BY <2>1, ConnectAssumption DEF StartConnect
<1>2. /\ connectState' = [connectState EXCEPT ![s] = a]
      /\ startedFor' = [startedFor EXCEPT ![s] = a]
      /\ UNCHANGED <<owner, numberOf, flow>>
  BY DEF StartConnect
<1>3. ConnectTypeOK' /\ StatesStand'
  BY <1>2 DEF ConnectInv, ConnectTypeOK, StatesStand
<1>4. \A f \in Flows :
        flow[f].state # NoState =>
          /\ startedFor'[flow[f].state] = startedFor[flow[f].state]
          /\ connectState'[flow[f].state] = connectState[flow[f].state]
  BY <1>1, <1>2 DEF ConnectInv, ConnectTypeOK, FlowType
<1>5. (\A f \in Flows : FlowStands(f)') /\ RedeemedOnce'
  BY <1>2, <1>4 DEF ConnectInv, FlowStands, RedeemedOnce
<1> QED
  BY <1>2, <1>3, <1>5 DEF ConnectInv, ToldIsOwned, NumbersHaveOwners

LEMMA ExpireStep ==
  ASSUME ConnectInv, NEW s \in ConnectStates, StateExpires(s)
  PROVE  ConnectInv'
<1>1. /\ connectState' = [connectState EXCEPT ![s] = NoAccount]
      /\ UNCHANGED <<startedFor, owner, numberOf, flow>>
  BY DEF StateExpires
<1>2. \A t \in ConnectStates : connectState'[t] \in {connectState[t], NoAccount}
  BY <1>1 DEF ConnectInv, ConnectTypeOK
<1>3. ConnectTypeOK' /\ StatesStand'
  BY <1>1, <1>2 DEF ConnectInv, ConnectTypeOK, StatesStand
<1>4. \A f \in Flows : flow[f].state # NoState => flow[f].state \in ConnectStates
  BY DEF ConnectInv, ConnectTypeOK, FlowType
<1>5. RedeemedOnce'
  BY <1>1, <1>2, <1>4 DEF ConnectInv, RedeemedOnce
<1> QED
  BY <1>1, <1>3, <1>5 DEF ConnectInv, FlowStands, ToldIsOwned, NumbersHaveOwners

(* The flows and the registrations of one step.                              *)
LEMMA NextConnectInv ==
  ASSUME ConnectInv, [ConnectNext]_connectVars
  PROVE  ConnectInv' /\ [NothingIsTaken]_connectVars
<1>1. ASSUME UNCHANGED <<owner, numberOf>> PROVE NothingIsTaken
  BY <1>1 DEF NothingIsTaken
<1>2. ASSUME NEW a \in Accounts, NEW s \in ConnectStates, StartConnect(a, s)
      PROVE  ConnectInv' /\ NothingIsTaken
  BY <1>1, <1>2, StartStep DEF StartConnect
<1>3. ASSUME NEW s \in ConnectStates, StateExpires(s)
      PROVE  ConnectInv' /\ NothingIsTaken
  BY <1>1, <1>3, ExpireStep DEF StateExpires
<1>4. ASSUME NEW f \in Flows, NEW s \in ConnectStates, ConnectCallback(f, s)
      PROVE  ConnectInv' /\ NothingIsTaken
  BY <1>1, <1>4, RedeemStep DEF ConnectCallback, Unchanging
<1>5. ASSUME NEW f \in Flows, NEW a \in Accounts, NEW s \in ConnectStates,
             NEW w \in Wabas \cup {NoWaba}, RpcExchange(f, a, s, w)
      PROVE  ConnectInv' /\ NothingIsTaken
  BY <1>1, <1>5, RedeemStep DEF RpcExchange, Unchanging
<1>6. ASSUME NEW f \in Flows, NEW a \in Accounts, NEW s \in ConnectStates,
             NEW w \in Wabas \cup {NoWaba}, ConnectExchange(f, a, s, w)
      PROVE  ConnectInv' /\ NothingIsTaken
  BY <1>1, <1>6, ExchangeStep DEF ConnectExchange, Unchanging
<1>7. ASSUME NEW f \in Flows, NEW a \in Accounts, NEW w \in Wabas \cup {NoWaba},
             PasteToken(f, a, w)
      PROVE  ConnectInv' /\ NothingIsTaken
  BY <1>1, <1>7, PasteStep DEF PasteToken, Unchanging
<1>8. ASSUME NEW f \in Flows, ConsumeState(f)
      PROVE  ConnectInv' /\ NothingIsTaken
  BY <1>1, <1>8, ConsumeStep DEF ConsumeState, Unchanging
<1>9. ASSUME NEW f \in Flows, Discover(f)
      PROVE  ConnectInv' /\ NothingIsTaken
  BY <1>1, <1>9, DiscoverStep DEF Discover, Unchanging
<1>10. ASSUME NEW f \in Flows, NEW w \in Wabas, CheckOwner(f, w)
       PROVE  ConnectInv' /\ NothingIsTaken
  BY <1>1, <1>10, CheckStep DEF CheckOwner, Unchanging
<1>11. CASE UNCHANGED connectVars
  BY <1>11 DEF connectVars, ConnectInv, ConnectTypeOK, StatesStand, FlowStands,
               RedeemedOnce, ToldIsOwned, NumbersHaveOwners
<1> QED
  BY <1>2, <1>3, <1>4, <1>5, <1>6, <1>7, <1>8, <1>9, <1>10, <1>11,
     BatchStep, AdminStep DEF ConnectNext

LEMMA ConnectInvariant == ConnectSpec => [](ConnectInv /\ RedeemedOnce /\ ToldIsOwned)
<1>1. ConnectInv => RedeemedOnce /\ ToldIsOwned
  BY DEF ConnectInv
<1> QED
  BY <1>1, InitConnectInv, NextConnectInv, PTL DEF ConnectSpec

(* Every variable of the connect flow keeps its type.                        *)
THEOREM ConnectTypeCorrect == ConnectSpec => []ConnectTypeOK
<1>1. ConnectInv => ConnectTypeOK
  BY DEF ConnectInv
<1> QED
  BY <1>1, ConnectInvariant, PTL

(* A state is redeemed at most once and for the account it was started for,  *)
(* what an answer tells as connected is its account's, and no registration   *)
(* takes a WABA or a number from another, however flows interleave.          *)
THEOREM HandoffsAreOwnedHolds == ConnectSpec => HandoffsAreOwned
<1>1. ConnectInv /\ [ConnectNext]_connectVars => [NothingIsTaken]_connectVars
  BY NextConnectInv
<1> QED
  BY <1>1, ConnectInvariant, PTL DEF ConnectSpec, HandoffsAreOwned
=============================================================================
