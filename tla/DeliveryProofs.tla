--------------------------- MODULE DeliveryProofs ---------------------------
(***************************************************************************)
(* Proofs about the delivery queue, for every value of the constants.      *)
(***************************************************************************)
EXTENDS DeliveryHistory, WellFoundedInduction, TLAPS

-----------------------------------------------------------------------------
(* What the helpers return.                                                *)

(* The earliest of some wakes is one of them, and no later than any. *)
LEMMA EarliestIsOne ==
  ASSUME NEW S \in SUBSET Nat, S # {}
  PROVE  Earliest(S) \in S /\ \A n \in S : Earliest(S) <= n
<1> DEFINE R == {ss \in Nat \X Nat : ss[1] < ss[2]}
<1>1. IsWellFoundedOn(R, Nat)
  BY NatLessThanWellFounded, Zenon DEF OpToRel
<1>2. PICK m \in S : \A n \in S : ~ (<<n, m>> \in R)
  <2> HIDE DEF R
  <2> QED BY <1>1, WFMin
<1>3. \A n \in S : m <= n
  <2> SUFFICES ASSUME NEW n \in S, n < m
               PROVE  FALSE
    OBVIOUS
  <2>1. <<n, m>> \in Nat \X Nat /\ <<n, m>>[1] = n /\ <<n, m>>[2] = m
    OBVIOUS
  <2>2. <<n, m>> \in R
    BY <2>1
  <2> QED
    BY <1>2, <2>2
<1> QED
  BY <1>3 DEF Earliest

LEMMA DecType ==
  ASSUME NEW n \in Nat
  PROVE  Dec(n) \in Nat
BY DEF Dec

LEMMA RedactedType == Redacted \in Body
BY DEF Redacted, Body

LEMMA RowConstants == NoRow \in Row /\ Gone \in Row
BY RedactedType, LimitsAssumption DEF NoRow, Gone, Row, Status

LEMMA RequeuedType ==
  ASSUME NEW row \in Row
  PROVE  /\ Requeued(row) \in Row
         /\ Requeued(row).status = "pending"
         /\ Requeued(row).attempts = 0
         /\ Requeued(row).body = row.body
<1>1. 0 \in 0..MaxAttempts
  BY LimitsAssumption
<1> QED
  BY <1>1 DEF Requeued, Row, Status

(* An erasure keeps a row's status or deletes a pending row, and leaves of   *)
(* its body the events that it does not target.                              *)
LEMMA RewrittenType ==
  ASSUME NEW row \in Row, NEW gone \in SUBSET Events
  PROVE  /\ Rewritten(row, gone) \in Row
         /\ Rewritten(row, gone).body.events = row.body.events \ gone
         /\ \/ Rewritten(row, gone).status = row.status
            \/ Rewritten(row, gone) = Gone /\ row.status = "pending"
                                           /\ row.body.events \ gone = {}
         /\ Rewritten(row, gone).attempts <= row.attempts
         /\ Rewritten(row, gone).status = "pending" /\ row.body.events # {}
              => Rewritten(row, gone).body.events # {}
<1> DEFINE kept == row.body.events \ gone
<1>1. CASE kept = row.body.events
  BY <1>1 DEF Rewritten, Row
<1>2. CASE kept # row.body.events /\ kept # {}
  BY <1>2 DEF Rewritten, Row, Body
<1>3. CASE kept # row.body.events /\ kept = {}
  BY <1>3, RowConstants, RedactedType DEF Rewritten, Row, Body, Gone, NoRow, Redacted, Status
<1> QED
  BY <1>1, <1>2, <1>3

LEMMA SettledType ==
  ASSUME NEW row \in Row, NEW j \in Job, j.attempts < MaxAttempts
  PROVE  /\ Settled(row, j) \in Row
         /\ Settled(row, j).body = row.body
         /\ Settled(row, j).attempts = j.attempts + 1
         /\ Settled(row, j).status =
              IF j.phase = "accepted" THEN "delivered"
              ELSE IF j.phase = "refused" /\ j.attempts + 1 >= MaxAttempts
                   THEN "failed" ELSE row.status
<1> DEFINE attempts == j.attempts + 1
<1>1. /\ attempts \in Nat /\ attempts \in 0..MaxAttempts
      /\ attempts \in 1..MaxAttempts /\ Backoff[attempts] \in Nat
  BY LimitsAssumption, DelaysAssumption DEF Job
<1>2. CASE j.phase = "accepted"
  BY <1>1, <1>2 DEF Settled, Row, Job, Status
<1>3. CASE j.phase = "refused" /\ attempts >= MaxAttempts
  BY <1>1, <1>3 DEF Settled, Row, Job, Status
<1>4. CASE j.phase # "accepted" /\ ~ (j.phase = "refused" /\ attempts >= MaxAttempts)
  BY <1>1, <1>4 DEF Settled, Row, Job, Status
<1> QED
  BY <1>2, <1>3, <1>4

LEMMA PrunedType ==
  ASSUME NEW row \in Row
  PROVE  /\ Pruned(row) \in Row
         /\ row.age = 0 \/ row.status \notin {"pending", "delivered", "failed"}
              => Pruned(row) = row
         /\ Pruned(row).status = "pending" => Pruned(row) = row
         /\ Pruned(row).body.events \subseteq row.body.events
BY RowConstants, RedactedType DEF Pruned, Row, Body, Gone, NoRow, Redacted, Status

-----------------------------------------------------------------------------
(* Types and attempts.  TypeOK is not inductive alone: the backoff of a      *)
(* captured row is defined only while the row has attempts left.             *)

InPool(id) == job[id].phase \in {"queued", "fetching", "accepted", "refused"}

JobHasAttemptsLeft ==
  \A id \in Ids : InPool(id) => job[id].attempts < MaxAttempts

TypeInv == TypeOK /\ PendingHasAttemptsLeft /\ JobHasAttemptsLeft

LEMMA TypeInit == Init => TypeInv
<1> SUFFICES ASSUME Init PROVE TypeInv
  OBVIOUS
<1>1. NoJob \in Job /\ NoJob.phase = "none"
  BY RedactedType, LimitsAssumption DEF NoJob, Job, Phase
<1>2. TypeOK
  BY <1>1, RowConstants, LimitsAssumption DEF Init, TypeOK
<1>3. PendingHasAttemptsLeft /\ JobHasAttemptsLeft
  BY <1>1 DEF Init, PendingHasAttemptsLeft, JobHasAttemptsLeft, InPool, Pending, NoRow
<1> QED
  BY <1>2, <1>3 DEF TypeInv

LEMMA TypeIngest ==
  ASSUME TypeInv, NEW S \in SUBSET Events, NEW id \in Ids, Ingest(S, id)
  PROVE  TypeInv'
<1> USE DEF TypeInv, handler
<1> DEFINE body == [events |-> S,
                    tagged |-> {e \in S : About[e] \in Wamids
                                          /\ sends[About[e]] = "logged"}]
           row == [NoRow EXCEPT !.status = "pending", !.body = body]
<1>1. body \in Body
  BY DEF Body
<1>2. row \in Row /\ row.status = "pending" /\ row.attempts = 0
  <2> HIDE DEF body
  <2> QED BY <1>1, RowConstants DEF Row, NoRow, Status
<1>3. rows' = [rows EXCEPT ![id] = row]
  BY DEF Ingest
<1> HIDE DEF row
<1>4. rows' \in [Ids -> Row]
  BY <1>2, <1>3 DEF TypeOK
<1>5. TypeOK'
  BY <1>4 DEF TypeOK, Ingest, WakeNow
<1>6. PendingHasAttemptsLeft'
  BY <1>2, <1>3, LimitsAssumption DEF TypeOK, PendingHasAttemptsLeft, Pending
<1>7. JobHasAttemptsLeft'
  BY DEF Ingest, JobHasAttemptsLeft, InPool
<1> QED
  BY <1>5, <1>6, <1>7

LEMMA TypeLogOutbound ==
  ASSUME TypeInv, NEW w \in Wamids, LogOutbound(w)
  PROVE  TypeInv'
<1> USE DEF TypeInv, handler, history
<1>1. \A id \in Ids : /\ rows'[id] \in Row
                      /\ rows'[id].status = rows[id].status
                      /\ rows'[id].attempts = rows[id].attempts
  <2> SUFFICES ASSUME NEW id \in Ids
               PROVE  /\ rows'[id] \in Row
                      /\ rows'[id].status = rows[id].status
                      /\ rows'[id].attempts = rows[id].attempts
    OBVIOUS
  <2> DEFINE late == {e \in rows[id].body.events : About[e] = w}
             row == [rows[id] EXCEPT !.body.tagged = @ \cup late]
  <2>1. rows[id] \in Row
    BY DEF TypeOK
  <2>2. row \in Row /\ row.status = rows[id].status
                    /\ row.attempts = rows[id].attempts
    BY <2>1 DEF Row, Body
  <2>3. rows'[id] = row \/ rows'[id] = rows[id]
    BY DEF LogOutbound
  <2> QED
    BY <2>1, <2>2, <2>3
<1>2. rows' \in [Ids -> Row]
  BY <1>1 DEF LogOutbound
<1>3. TypeOK'
  BY <1>2 DEF TypeOK, LogOutbound
<1> QED
  BY <1>1, <1>3 DEF LogOutbound, PendingHasAttemptsLeft, Pending, JobHasAttemptsLeft, InPool

LEMMA TypeRetries ==
  ASSUME TypeInv,
         \/ \E id \in Ids : RetryDelivery(id)
         \/ \E from, to \in Ids : RetryFailedDeliveries(from, to)
  PROVE  TypeInv'
<1> USE DEF TypeInv, handler, history
<1>1. \A id \in Ids : rows'[id] = rows[id] \/ rows'[id] = Requeued(rows[id])
  BY DEF RetryDelivery, RetryFailedDeliveries, TypeOK
<1>2. \A id \in Ids : /\ rows'[id] \in Row
                      /\ rows'[id] = rows[id] \/ rows'[id].attempts = 0
  BY <1>1, RequeuedType DEF TypeOK
<1>3. rows' \in [Ids -> Row]
  BY <1>2 DEF RetryDelivery, RetryFailedDeliveries, TypeOK
<1>4. TypeOK'
  BY <1>3 DEF TypeOK, RetryDelivery, RetryFailedDeliveries, Operator
<1>5. PendingHasAttemptsLeft'
  BY <1>2, LimitsAssumption DEF PendingHasAttemptsLeft, Pending
<1>6. JobHasAttemptsLeft'
  BY DEF RetryDelivery, RetryFailedDeliveries, JobHasAttemptsLeft, InPool
<1> QED
  BY <1>4, <1>5, <1>6

LEMMA TypeErase ==
  ASSUME TypeInv, NEW c \in Customers, EraseByPhone(c)
  PROVE  TypeInv'
<1> USE DEF TypeInv, handler
<1>1. Targets(c) \in SUBSET Events
  BY DEF Targets
<1>2. \A id \in Ids : rows'[id] = Rewritten(rows[id], Targets(c))
  BY DEF EraseByPhone
<1>3. \A id \in Ids : /\ rows'[id] \in Row
                      /\ rows'[id].attempts <= rows[id].attempts
                      /\ Pending(id)' => Pending(id)
  BY <1>1, <1>2, RewrittenType DEF TypeOK, Pending, Gone, NoRow
<1>4. rows' \in [Ids -> Row]
  BY <1>3 DEF EraseByPhone
<1>5. TypeOK'
  BY <1>1, <1>4 DEF TypeOK, EraseByPhone, Operator
<1>6. PendingHasAttemptsLeft'
  BY <1>3, <1>4, LimitsAssumption DEF TypeOK, Row, PendingHasAttemptsLeft
<1>7. JobHasAttemptsLeft'
  BY DEF EraseByPhone, JobHasAttemptsLeft, InPool
<1> QED
  BY <1>5, <1>6, <1>7

(* The requests that leave the table alone. *)
LEMMA TypeOtherRequests ==
  ASSUME TypeInv,
         \/ \E url \in BOOLEAN : SetSubscriberConfig(url)
         \/ \E ok \in BOOLEAN : PurgeReturns(ok)
         \/ OtherWork
  PROVE  TypeInv'
<1> USE DEF TypeInv, table, handler, history
<1>1. TypeOK'
  <2>1. CASE \E url \in BOOLEAN : SetSubscriberConfig(url)
    BY <2>1 DEF TypeOK, SetSubscriberConfig, Operator
  <2>2. CASE \E ok \in BOOLEAN : PurgeReturns(ok)
    <3>1. /\ purging' = FALSE
          /\ alarm' = alarm \/ alarm' = MediaRetry
          /\ UNCHANGED <<table, hasUrl, sweepIn, handler, wakeArrived, history,
                         calls, crashes>>
      BY <2>2 DEF PurgeReturns
    <3>2. alarm' \in Nat \cup {NoAlarm}
      BY <3>1, DelaysAssumption DEF TypeOK
    <3> QED
      BY <3>1, <3>2 DEF TypeOK
  <2>3. CASE OtherWork
    <3>1. wakeArrived' \in BOOLEAN
      BY <2>3, Zenon DEF TypeOK, OtherWork
    <3>2. alarm' = 0 /\ calls' \in Nat
      BY <2>3 DEF TypeOK, OtherWork, Operator
    <3> QED
      BY <2>3, <3>1, <3>2 DEF TypeOK, OtherWork
  <2> QED
    BY <2>1, <2>2, <2>3
<1>2. PendingHasAttemptsLeft' /\ JobHasAttemptsLeft'
  BY DEF PendingHasAttemptsLeft, Pending, JobHasAttemptsLeft, InPool,
     SetSubscriberConfig, PurgeReturns, OtherWork
<1> QED
  BY <1>1, <1>2

LEMMA TypeAlarmFires ==
  ASSUME TypeInv, AlarmFires
  PROVE  TypeInv'
<1> USE DEF TypeInv, table, history
<1>1. NoJob \in Job /\ NoJob.phase = "none"
  BY RedactedType, LimitsAssumption DEF NoJob, Job, Phase
<1>2. \A id \in Ids : /\ job'[id] \in Job
                      /\ InPool(id)' => /\ Pending(id)
                                        /\ job'[id].attempts = rows[id].attempts
  <2> SUFFICES ASSUME NEW id \in Ids
               PROVE  /\ job'[id] \in Job
                      /\ InPool(id)' => /\ Pending(id)
                                        /\ job'[id].attempts = rows[id].attempts
    OBVIOUS
  <2> DEFINE j == [phase |-> "queued", attempts |-> rows[id].attempts,
                   body |-> rows[id].body]
  <2>1. j \in Job /\ j.attempts = rows[id].attempts
    BY DEF TypeOK, Row, Job, Phase
  <2>2. \/ id \in Captured /\ job'[id] = j
        \/ job'[id] = NoJob
    BY DEF AlarmFires
  <2>3. id \in Captured => Pending(id)
    BY DEF Captured, Batch, Due
  <2> QED
    BY <1>1, <2>1, <2>2, <2>3 DEF InPool
<1>3. job' \in [Ids -> Job]
  BY <1>2 DEF AlarmFires
<1>4. TypeOK'
  BY <1>3 DEF TypeOK, AlarmFires
<1>5. JobHasAttemptsLeft'
  BY <1>2 DEF JobHasAttemptsLeft, PendingHasAttemptsLeft
<1>6. PendingHasAttemptsLeft'
  BY DEF AlarmFires, PendingHasAttemptsLeft, Pending
<1> QED
  BY <1>4, <1>5, <1>6

(* A captured row moves through the pool with its body and its count. *)
LEMMA TypeForward ==
  ASSUME TypeInv, NEW id \in Ids,
         \/ ForwardOne(id)
         \/ \E processed, ok \in BOOLEAN : SubscriberAnswers(id, processed, ok)
  PROVE  TypeInv'
<1> USE DEF TypeInv, table, history
<1>1. PICK phase \in Phase : job' = [job EXCEPT ![id].phase = phase]
  BY DEF ForwardOne, SubscriberAnswers, Phase
<1>2. InPool(id)
  BY DEF ForwardOne, SubscriberAnswers, InPool
<1>3. job' \in [Ids -> Job] /\ \A i \in Ids : job'[i].attempts = job[i].attempts
  BY <1>1 DEF TypeOK, Job
<1>4. got' \in [Ids -> SUBSET Body]
  BY DEF ForwardOne, SubscriberAnswers, TypeOK, Job
<1>5. TypeOK'
  BY <1>3, <1>4 DEF TypeOK, ForwardOne, SubscriberAnswers
<1>6. JobHasAttemptsLeft'
  BY <1>1, <1>2, <1>3 DEF JobHasAttemptsLeft, InPool, TypeOK, Job
<1>7. PendingHasAttemptsLeft'
  BY DEF ForwardOne, SubscriberAnswers, PendingHasAttemptsLeft, Pending
<1> QED
  BY <1>5, <1>6, <1>7

LEMMA TypeProcessDelivery ==
  ASSUME TypeInv, NEW id \in Ids, ProcessDelivery(id)
  PROVE  TypeInv'
<1> USE DEF TypeInv, history
<1> DEFINE j == job[id]
           new == Settled(rows[id], j)
<1>1. j \in Job /\ rows[id] \in Row /\ j.attempts < MaxAttempts
  BY DEF TypeOK, JobHasAttemptsLeft, InPool, ProcessDelivery
<1>2. /\ new \in Row
      /\ new.attempts = j.attempts + 1
      /\ new.status = "pending" => new.attempts < MaxAttempts
  <2>1. j.phase \in {"accepted", "refused"}
    BY DEF ProcessDelivery
  <2>2. j.attempts \in Nat
    BY <1>1, LimitsAssumption DEF Job
  <2> HIDE DEF j
  <2> QED
    BY <1>1, <2>1, <2>2, SettledType, LimitsAssumption
<1>3. rows' = rows \/ rows' = [rows EXCEPT ![id] = new]
  BY DEF ProcessDelivery
<1> HIDE DEF new
<1>4. rows' \in [Ids -> Row] /\ PendingHasAttemptsLeft'
  BY <1>2, <1>3 DEF TypeOK, PendingHasAttemptsLeft, Pending
<1>5. job' \in [Ids -> Job] /\ JobHasAttemptsLeft'
  <2>1. NoJob \in Job /\ NoJob.phase = "none"
    BY RedactedType, LimitsAssumption DEF NoJob, Job, Phase
  <2>2. [j EXCEPT !.phase = "alerting"] \in Job
    BY <1>1 DEF Job, Phase
  <2>3. \/ job' = [job EXCEPT ![id] = NoJob]
        \/ job' = [job EXCEPT ![id] = [j EXCEPT !.phase = "alerting"]]
    BY DEF ProcessDelivery
  <2>4. CASE job' = [job EXCEPT ![id] = NoJob]
    BY <2>1, <2>4 DEF TypeOK, JobHasAttemptsLeft, InPool
  <2>5. CASE job' = [job EXCEPT ![id] = [j EXCEPT !.phase = "alerting"]]
    <3>1. job'[id].phase = "alerting"
      BY <1>1, <2>5 DEF TypeOK, Job
    <3> QED
      BY <2>2, <2>5, <3>1 DEF TypeOK, JobHasAttemptsLeft, InPool
  <2> QED
    BY <2>3, <2>4, <2>5
<1>6. TypeOK'
  BY <1>4, <1>5 DEF TypeOK, ProcessDelivery
<1> QED
  BY <1>4, <1>5, <1>6

LEMMA TypePruneExpired ==
  ASSUME TypeInv, NEW old \in SUBSET Wamids, PruneExpired(old)
  PROVE  TypeInv'
<1> USE DEF TypeInv, table, history
<1>1. \A id \in Ids : /\ rows'[id] \in Row
                      /\ Pending(id)' => rows'[id] = rows[id]
  BY PrunedType DEF PruneExpired, TypeOK, Pending
<1>2. rows' \in [Ids -> Row]
  BY <1>1 DEF PruneExpired, TypeOK
<1>3. /\ link' \in [Events -> Ids \cup {NoBatch}]
      /\ sends' \in [Wamids -> {"open", "logged", "forgotten"}]
  BY DEF PruneExpired, TypeOK
<1>4. TypeOK'
  BY <1>2, <1>3 DEF PruneExpired, TypeOK
<1> QED
  BY <1>1, <1>4 DEF PruneExpired, PendingHasAttemptsLeft, Pending, JobHasAttemptsLeft, InPool

(* What alarm() arms is one of the wakes it collected. *)
LEMMA TypeAlarmEnds ==
  ASSUME TypeInv,
         \/ \E id \in Ids : AlertReturns(id)
         \/ ComputeWakes
         \/ \E others \in SUBSET OtherWakes : AlarmReturns(others)
  PROVE  TypeInv'
<1> USE DEF TypeInv, table, history
<1>1. CASE \E id \in Ids : AlertReturns(id)
  <2>1. NoJob \in Job /\ NoJob.phase = "none"
    BY RedactedType, LimitsAssumption DEF NoJob, Job, Phase
  <2> QED
    BY <1>1, <2>1 DEF AlertReturns, TypeOK, PendingHasAttemptsLeft, Pending,
       JobHasAttemptsLeft, InPool
<1>2. CASE ComputeWakes
  <2> DEFINE pending == {id \in Ids : Pending(id)}
             wakes == IF hasTarget THEN {rows[id].wait : id \in pending}
                      ELSE IF pending # {} THEN {sweepIn'} ELSE {}
  <2>1. sweepIn' \in Nat
    BY <1>2, DelaysAssumption DEF ComputeWakes, TypeOK
  <2>2. wakes \in SUBSET Nat
    BY <2>1 DEF TypeOK, Row
  <2>3. wake' = IF wakes = {} THEN NoAlarm ELSE Earliest(wakes)
    BY <1>2 DEF ComputeWakes
  <2>4. wake' \in Nat \cup {NoAlarm}
    <3> HIDE DEF wakes
    <3> QED BY <2>2, <2>3, EarliestIsOne
  <2> QED
    BY <1>2, <2>1, <2>4 DEF ComputeWakes, TypeOK, PendingHasAttemptsLeft, Pending,
       JobHasAttemptsLeft, InPool
<1>3. CASE \E others \in SUBSET OtherWakes : AlarmReturns(others)
  <2>1. PICK others \in SUBSET OtherWakes : AlarmReturns(others)
    BY <1>3
  <2> DEFINE wakes == ({wake} \ {NoAlarm}) \cup others
                      \cup (IF wakeArrived THEN {0} ELSE {})
  <2>2. wakes \in SUBSET Nat
    <3>1. {wake} \ {NoAlarm} \subseteq Nat
      BY DEF TypeOK
    <3>2. others \subseteq Nat
      BY DelaysAssumption
    <3>3. (IF wakeArrived THEN {0} ELSE {}) \subseteq Nat
      OBVIOUS
    <3> QED
      BY <3>1, <3>2, <3>3
  <2>3. alarm' = IF wakes = {} THEN alarm ELSE Earliest(wakes)
    BY <2>1 DEF AlarmReturns
  <2>4. alarm' \in Nat \cup {NoAlarm}
    <3> HIDE DEF wakes
    <3> QED BY <2>2, <2>3, EarliestIsOne DEF TypeOK
  <2> QED
    BY <2>1, <2>4 DEF AlarmReturns, TypeOK, PendingHasAttemptsLeft, Pending,
       JobHasAttemptsLeft, InPool
<1> QED
  BY <1>1, <1>2, <1>3

LEMMA TypeEnvironment ==
  ASSUME TypeInv, Environment
  PROVE  TypeInv'
<1> USE DEF TypeInv, table, history, handler
<1>1. CASE Crash
  <2>1. NoJob \in Job /\ NoJob.phase = "none"
    BY RedactedType, LimitsAssumption DEF NoJob, Job, Phase
  <2>2. job' = [id \in Ids |-> NoJob] /\ rows' = rows
    BY <1>1 DEF Crash
  <2>3. alarm' \in Nat \cup {NoAlarm} /\ crashes' \in Nat
    BY <1>1 DEF Crash, TypeOK
  <2>4. TypeOK'
    BY <1>1, <2>1, <2>2, <2>3 DEF Crash, TypeOK
  <2> QED
    BY <2>1, <2>2, <2>4 DEF PendingHasAttemptsLeft, Pending, JobHasAttemptsLeft, InPool
<1>2. CASE Tick
  <2>1. \A id \in Ids : /\ rows'[id] \in Row
                        /\ rows'[id].status = rows[id].status
                        /\ rows'[id].attempts = rows[id].attempts
    BY <1>2, DecType DEF Tick, TypeOK, Row
  <2>2. rows' \in [Ids -> Row]
    BY <1>2, <2>1 DEF Tick
  <2>3. alarm' \in Nat \cup {NoAlarm} /\ wake' \in Nat \cup {NoAlarm} /\ sweepIn' \in Nat
    BY <1>2, DecType DEF Tick, DecDelay, TypeOK
  <2>4. TypeOK'
    BY <1>2, <2>2, <2>3 DEF Tick, TypeOK
  <2> QED
    BY <1>2, <2>1, <2>4 DEF Tick, PendingHasAttemptsLeft, Pending, JobHasAttemptsLeft, InPool
<1>3. CASE \E id \in Ids : Age(id)
  <2>1. PICK id \in Ids : Age(id)
    BY <1>3
  <2>2. rows[id] \in Row /\ rows[id].age + 1 \in 0..2
    BY <2>1 DEF TypeOK, Row, Age
  <2>3. \A i \in Ids : /\ rows'[i] \in Row
                       /\ rows'[i].status = rows[i].status
                       /\ rows'[i].attempts = rows[i].attempts
    BY <2>1, <2>2 DEF Age, TypeOK, Row
  <2>4. rows' \in [Ids -> Row]
    BY <2>1, <2>3 DEF Age, TypeOK
  <2>5. TypeOK'
    BY <2>1, <2>4 DEF Age, TypeOK
  <2> QED
    BY <2>1, <2>3, <2>5 DEF Age, PendingHasAttemptsLeft, Pending, JobHasAttemptsLeft, InPool
<1> QED
  BY <1>1, <1>2, <1>3 DEF Environment

LEMMA TypeNext ==
  ASSUME TypeInv, [Next]_vars
  PROVE  TypeInv'
<1>1. CASE Requests
  BY <1>1, TypeIngest, TypeLogOutbound, TypeRetries, TypeErase, TypeOtherRequests DEF Requests
<1>2. CASE Handler
  BY <1>2, TypeAlarmFires, TypeForward, TypeProcessDelivery, TypePruneExpired, TypeAlarmEnds
     DEF Handler
<1>3. CASE Environment
  BY <1>3, TypeEnvironment
<1>4. CASE UNCHANGED vars
  BY <1>4 DEF vars, TypeInv, TypeOK, PendingHasAttemptsLeft, Pending, JobHasAttemptsLeft, InPool
<1> QED
  BY <1>1, <1>2, <1>3, <1>4 DEF Next

(* Every variable keeps its type, whatever the subscriber, the operator and  *)
(* the clock do.                                                             *)
THEOREM TypeCorrect == Spec => []TypeOK
<1>1. TypeInv /\ [Next]_vars => TypeInv'
  BY TypeNext
<1>2. TypeInv => TypeOK
  BY DEF TypeInv
<1> QED
  BY TypeInit, <1>1, <1>2, PTL DEF Spec

(* A pending row always has attempts left: no interleaving of retries,       *)
(* erasures and restarts with the pool leaves a row pending that the drain   *)
(* would fail without a further attempt (processDelivery).                   *)
THEOREM AttemptsCorrect == Spec => []PendingHasAttemptsLeft
<1>1. TypeInv /\ [Next]_vars => TypeInv'
  BY TypeNext
<1>2. TypeInv => PendingHasAttemptsLeft
  BY DEF TypeInv
<1> QED
  BY TypeInit, <1>1, <1>2, PTL DEF Spec

-----------------------------------------------------------------------------
(* The strengthening.  A captured row is known to alarm() only by its id,    *)
(* so what happens to the row while it waits for the subscriber must be      *)
(* bounded: it is still pending or it is gone, and it has lost events at     *)
(* most.                                                                     *)

JobsOnlyInDrain ==
  \A id \in Ids : job[id].phase # "none" => pc = "drain" /\ hasTarget

PoolAgreesWithTable ==
  \A id \in Ids : InPool(id) =>
    /\ rows[id].status \in {"pending", "gone"}
    /\ rows[id].body.events \subseteq job[id].body.events

AcceptedWasGot ==
  \A id \in Ids : job[id].phase = "accepted" => job[id].body \in got[id]

PoolInv == JobsOnlyInDrain /\ PoolAgreesWithTable /\ AcceptedWasGot

(* StoredEventIsAccountedFor, row by row. *)
Accounted(e, id) ==
  /\ Stored(id)
  /\ e \in rows[id].body.events
  /\ rows[id].status = "delivered" => \E b \in got[id] : e \in b.events
LinkedAreAccounted ==
  \A e \in Events, id \in Ids : link[e] = id => Accounted(e, id)

ContentInv ==
  NeverForwardsRedacted /\ LinkedAreAccounted /\ ErasedStaysErased

AccountInv == TypeInv /\ PoolInv /\ ContentInv

(* The alarm while the steps that follow the drain are still running. *)
StepsKeepAWake ==
  pc = "steps" /\ (\E id \in Ids : Pending(id))
    => wake # NoAlarm \/ alarm # NoAlarm

AlarmInv == TypeInv /\ NeverStranded /\ StepsKeepAWake

LEMMA AccountInit == Init => AccountInv
<1> SUFFICES ASSUME Init PROVE AccountInv
  OBVIOUS
<1>1. \A id \in Ids : /\ rows[id].status = "none"
                      /\ rows[id].body.events = {}
                      /\ job[id].phase = "none"
  BY DEF Init, NoRow, NoJob, Redacted
<1>2. PoolInv
  BY <1>1 DEF PoolInv, JobsOnlyInDrain, PoolAgreesWithTable, AcceptedWasGot, InPool
<1>3. ContentInv
  BY <1>1, NoneAssumption DEF ContentInv, NeverForwardsRedacted,
     LinkedAreAccounted, ErasedStaysErased, Pending, Init
<1> QED
  BY <1>2, <1>3, TypeInit DEF AccountInv

(* A new row has an id that no event and no captured row refers to. *)
LEMMA AccountIngest ==
  ASSUME AccountInv, NEW S \in SUBSET Events, NEW id \in Ids, Ingest(S, id)
  PROVE  PoolInv' /\ ContentInv'
<1> USE DEF AccountInv, PoolInv, ContentInv, handler
<1>1. /\ rows[id].status = "none"
      /\ \A i \in Ids \ {id} : rows'[i] = rows[i]
      /\ rows'[id].status = "pending"
      /\ rows'[id].body.events = S
      /\ S # {}
  <2>1. rows \in [Ids -> Row] /\ rows[id].status = "none"
    BY DEF TypeInv, TypeOK, Ingest, NextId
  <2>2. S # {}
    BY DEF Ingest
  <2> DEFINE body == [events |-> S,
                      tagged |-> {e \in S : About[e] \in Wamids
                                            /\ sends[About[e]] = "logged"}]
             row == [NoRow EXCEPT !.status = "pending", !.body = body]
  <2>3. rows' = [rows EXCEPT ![id] = row]
    BY DEF Ingest
  <2>4. row.status = "pending" /\ row.body = body /\ body.events = S
    BY DEF NoRow
  <2> HIDE DEF row, body
  <2> QED BY <2>1, <2>2, <2>3, <2>4
<1>2. job' = job /\ pc' = pc /\ hasTarget' = hasTarget /\ got' = got
  BY DEF Ingest
<1>3. ~ InPool(id)
  BY <1>1 DEF PoolAgreesWithTable
<1>4. PoolInv'
  BY <1>1, <1>2, <1>3 DEF JobsOnlyInDrain, PoolAgreesWithTable, AcceptedWasGot, InPool
<1>5. NeverForwardsRedacted'
  BY <1>1, <1>2 DEF NeverForwardsRedacted, Pending
<1>6. \A e \in Events : \/ link'[e] = link[e] /\ link[e] # id
                        \/ link'[e] = id /\ e \in S
  <2>1. \A e \in Events : link[e] # id
    BY <1>1 DEF LinkedAreAccounted, Accounted, Stored, Pending, Terminal
  <2> QED BY <2>1 DEF Ingest
<1>7. LinkedAreAccounted'
  <2> SUFFICES ASSUME NEW e \in Events, NEW i \in Ids, link'[e] = i
               PROVE  Accounted(e, i)'
    BY DEF LinkedAreAccounted
  <2>1. CASE link'[e] = link[e] /\ i # id
    BY <1>1, <1>2, <2>1 DEF LinkedAreAccounted, Accounted, Stored, Pending, Terminal
  <2>2. CASE i = id /\ e \in S
    BY <1>1, <2>2 DEF Accounted, Stored, Pending
  <2> QED BY <1>6, <2>1, <2>2
<1>8. ErasedStaysErased'
  <2>1. erased' = erased \ S /\ erased \subseteq Events
    BY DEF Ingest, TypeInv, TypeOK
  <2> QED BY <1>1, <1>6, <2>1 DEF ErasedStaysErased
<1> QED
  BY <1>4, <1>5, <1>7, <1>8

(* Most steps keep every row's events, and change a status only to requeue a *)
(* row that has some.                                                        *)
LEMMA ContentKept ==
  ASSUME AccountInv,
         \A id \in Ids : /\ rows'[id].body.events = rows[id].body.events
                         /\ \/ rows'[id].status = rows[id].status
                            \/ rows'[id].status = "pending" /\ Stored(id)
                                 /\ rows[id].body.events # {},
         \A id \in Ids : InPool(id)' => InPool(id) /\ job'[id].body = job[id].body,
         \A id \in Ids : job'[id].phase # "none"
                           => job[id].phase # "none" /\ job'[id].body = job[id].body,
         \A id \in Ids : got[id] \subseteq got'[id],
         link' = link, erased' = erased
  PROVE  PoolAgreesWithTable' /\ ContentInv'
<1> USE DEF AccountInv, PoolInv, ContentInv
<1>1. PoolAgreesWithTable'
  BY DEF PoolAgreesWithTable, Stored, Pending, Terminal
<1>2. NeverForwardsRedacted'
  BY DEF NeverForwardsRedacted, Pending
<1>3. LinkedAreAccounted'
  BY DEF LinkedAreAccounted, Accounted, Stored, Pending, Terminal
<1>4. ErasedStaysErased'
  BY DEF ErasedStaysErased
<1> QED
  BY <1>1, <1>2, <1>3, <1>4

LEMMA AccountRequests ==
  ASSUME AccountInv,
         \/ \E w \in Wamids : LogOutbound(w)
         \/ \E url \in BOOLEAN : SetSubscriberConfig(url)
         \/ \E id \in Ids : RetryDelivery(id)
         \/ \E from, to \in Ids : RetryFailedDeliveries(from, to)
         \/ \E ok \in BOOLEAN : PurgeReturns(ok)
         \/ OtherWork
  PROVE  PoolInv' /\ ContentInv'
<1> USE DEF AccountInv, table, handler, history
<1>1. UNCHANGED <<link, handler, history>>
  BY DEF LogOutbound, SetSubscriberConfig, RetryDelivery, RetryFailedDeliveries,
     PurgeReturns, OtherWork
<1>2. \A id \in Ids : /\ rows'[id].body.events = rows[id].body.events
                      /\ \/ rows'[id].status = rows[id].status
                         \/ rows'[id].status = "pending" /\ Stored(id)
                              /\ rows[id].body.events # {}
  <2> SUFFICES ASSUME NEW id \in Ids
               PROVE  /\ rows'[id].body.events = rows[id].body.events
                      /\ \/ rows'[id].status = rows[id].status
                         \/ rows'[id].status = "pending" /\ Stored(id)
                              /\ rows[id].body.events # {}
    OBVIOUS
  <2>1. rows[id] \in Row
    BY DEF TypeInv, TypeOK
  <2>2. CASE \E w \in Wamids : LogOutbound(w)
    <3>1. PICK T : rows'[id] = rows[id] \/ rows'[id] = [rows[id] EXCEPT !.body.tagged = T]
      BY <2>2 DEF LogOutbound
    <3> QED BY <2>1, <3>1 DEF Row, Body
  <2>3. CASE \/ \E i \in Ids : RetryDelivery(i)
             \/ \E from, to \in Ids : RetryFailedDeliveries(from, to)
    <3>1. \/ rows'[id] = rows[id]
          \/ rows'[id] = Requeued(rows[id]) /\ Stored(id) /\ rows[id].body # Redacted
      BY <2>3 DEF RetryDelivery, RetryFailedDeliveries, TypeInv, TypeOK, Stored, Terminal
    <3>2. rows[id].body # Redacted => rows[id].body.events # {}
      BY <2>1 DEF Row, Body, Redacted
    <3> QED BY <2>1, <3>1, <3>2, RequeuedType
  <2>4. CASE \/ \E url \in BOOLEAN : SetSubscriberConfig(url)
             \/ \E ok \in BOOLEAN : PurgeReturns(ok)
             \/ OtherWork
    BY <2>4 DEF SetSubscriberConfig, PurgeReturns, OtherWork
  <2> QED BY <2>2, <2>3, <2>4
<1>3. PoolAgreesWithTable' /\ ContentInv'
  BY <1>1, <1>2, ContentKept DEF InPool
<1> QED
  BY <1>1, <1>3 DEF PoolInv, JobsOnlyInDrain, AcceptedWasGot

(* An erasure takes its events from the rows and from inbound_events alike. *)
LEMMA AccountErase ==
  ASSUME AccountInv, NEW c \in Customers, EraseByPhone(c)
  PROVE  PoolInv' /\ ContentInv'
<1> USE DEF AccountInv, PoolInv, ContentInv, handler
<1> DEFINE gone == Targets(c)
<1>1. /\ gone \in SUBSET Events
      /\ pc' = pc /\ hasTarget' = hasTarget /\ job' = job /\ got' = got
      /\ erased' = erased \cup gone
      /\ \A e \in Events : link'[e] = IF e \in gone THEN NoBatch ELSE link[e]
  BY DEF EraseByPhone, Targets
<1>2. \A id \in Ids :
        /\ rows'[id].body.events = rows[id].body.events \ gone
        /\ \/ rows'[id].status = rows[id].status
           \/ /\ rows'[id].status = "gone" /\ rows[id].status = "pending"
              /\ rows[id].body.events \ gone = {}
        /\ rows'[id].status = "pending" /\ rows[id].body.events # {}
             => rows'[id].body.events # {}
  <2> SUFFICES ASSUME NEW id \in Ids
               PROVE  /\ rows'[id].body.events = rows[id].body.events \ gone
                      /\ \/ rows'[id].status = rows[id].status
                         \/ /\ rows'[id].status = "gone" /\ rows[id].status = "pending"
                            /\ rows[id].body.events \ gone = {}
                      /\ rows'[id].status = "pending" /\ rows[id].body.events # {}
                           => rows'[id].body.events # {}
    OBVIOUS
  <2>1. rows[id] \in Row /\ rows'[id] = Rewritten(rows[id], gone)
    BY DEF TypeInv, TypeOK, EraseByPhone
  <2>2. Gone.status = "gone"
    BY DEF Gone, NoRow
  <2> HIDE DEF gone
  <2> QED BY <1>1, <2>1, <2>2, RewrittenType
<1> HIDE DEF gone
<1>3. PoolInv'
  BY <1>1, <1>2 DEF JobsOnlyInDrain, PoolAgreesWithTable, AcceptedWasGot, InPool
<1>4. NeverForwardsRedacted'
  BY <1>1, <1>2 DEF NeverForwardsRedacted, Pending
<1>5. LinkedAreAccounted'
  <2> SUFFICES ASSUME NEW e \in Events, NEW id \in Ids, link'[e] = id
               PROVE  Accounted(e, id)'
    BY DEF LinkedAreAccounted
  <2>1. e \notin gone /\ link[e] = id
    BY <1>1, NoneAssumption
  <2>2. Accounted(e, id)
    BY <2>1 DEF LinkedAreAccounted
  <2>3. e \in rows'[id].body.events /\ rows'[id].status = rows[id].status
    BY <1>2, <2>1, <2>2 DEF Accounted
  <2> QED BY <1>1, <2>2, <2>3 DEF Accounted, Stored, Pending, Terminal
<1>6. ErasedStaysErased'
  <2>1. erased \subseteq Events
    BY DEF TypeInv, TypeOK
  <2> QED BY <1>1, <1>2, <2>1 DEF ErasedStaysErased
<1> QED
  BY <1>3, <1>4, <1>5, <1>6

(* The rows alarm() captures are pending. *)
LEMMA AccountAlarmFires ==
  ASSUME AccountInv, AlarmFires
  PROVE  PoolInv' /\ ContentInv'
<1> USE DEF AccountInv, PoolInv, ContentInv, table, history
<1>1. rows' = rows /\ link' = link /\ got' = got /\ erased' = erased
  BY DEF AlarmFires
<1>2. \A id \in Ids :
        \/ job'[id].phase = "none"
        \/ /\ job'[id].phase = "queued"
           /\ job'[id].body = rows[id].body
           /\ Pending(id) /\ hasUrl
  <2> SUFFICES ASSUME NEW id \in Ids, job'[id].phase # "none"
               PROVE  /\ job'[id].phase = "queued"
                      /\ job'[id].body = rows[id].body
                      /\ Pending(id) /\ hasUrl
    OBVIOUS
  <2>1. id \in Captured
    BY DEF AlarmFires, NoJob
  <2>2. job'[id] = [phase |-> "queued", attempts |-> rows[id].attempts,
                    body |-> rows[id].body]
    BY <2>1 DEF AlarmFires
  <2>3. Pending(id) /\ hasUrl
    BY <2>1 DEF Captured, Batch, Due
  <2> QED BY <2>2, <2>3
<1>3. pc' = "drain" /\ hasTarget' = hasUrl
  BY DEF AlarmFires
<1>4. PoolInv'
  BY <1>1, <1>2, <1>3 DEF JobsOnlyInDrain, PoolAgreesWithTable, AcceptedWasGot,
     InPool, Pending
<1>5. NeverForwardsRedacted'
  BY <1>1, <1>2 DEF NeverForwardsRedacted, Pending
<1>6. LinkedAreAccounted' /\ ErasedStaysErased'
  BY <1>1 DEF LinkedAreAccounted, Accounted, Stored, Pending, Terminal, ErasedStaysErased
<1> QED
  BY <1>4, <1>5, <1>6

(* A forward carries the captured body; a 2xx means that it was processed. *)
LEMMA AccountForward ==
  ASSUME AccountInv, NEW id \in Ids,
         \/ ForwardOne(id)
         \/ \E processed, ok \in BOOLEAN : SubscriberAnswers(id, processed, ok)
  PROVE  PoolInv' /\ ContentInv'
<1> USE DEF AccountInv, PoolInv, table, history
<1>1. PICK phase \in {"fetching", "accepted", "refused"} :
        job' = [job EXCEPT ![id].phase = phase]
  BY DEF ForwardOne, SubscriberAnswers
<1>2. /\ InPool(id)
      /\ pc' = pc /\ hasTarget' = hasTarget
      /\ rows' = rows /\ link' = link /\ erased' = erased
  BY DEF ForwardOne, SubscriberAnswers, InPool
<1>3. /\ \A i \in Ids : job'[i].body = job[i].body
      /\ \A i \in Ids \ {id} : job'[i] = job[i]
      /\ job'[id].phase = phase
  BY <1>1 DEF TypeInv, TypeOK, Job
<1>4. \A i \in Ids : InPool(i)' => InPool(i)
  BY <1>2, <1>3 DEF InPool
<1>5. /\ \A i \in Ids : got[i] \subseteq got'[i]
      /\ job'[id].phase = "accepted" => job[id].body \in got'[id]
  <2>1. CASE ForwardOne(id)
    <3>1. got' = got /\ job'[id].phase # "accepted"
      BY <2>1 DEF ForwardOne, TypeInv, TypeOK, Job
    <3> QED BY <3>1
  <2>2. CASE \E processed, ok \in BOOLEAN : SubscriberAnswers(id, processed, ok)
    <3>1. PICK processed, ok \in BOOLEAN : SubscriberAnswers(id, processed, ok)
      BY <2>2
    <3>2. job'[id].phase = "accepted" => processed
      BY <3>1 DEF SubscriberAnswers, TypeInv, TypeOK, Job
    <3>3. got' = IF processed THEN [got EXCEPT ![id] = @ \cup {job[id].body}] ELSE got
      BY <3>1 DEF SubscriberAnswers
    <3> QED BY <3>2, <3>3 DEF TypeInv, TypeOK
  <2> QED BY <2>1, <2>2
<1>6. \A i \in Ids : job'[i].phase # "none" => job[i].phase # "none"
  BY <1>2, <1>3 DEF InPool
<1>7. PoolAgreesWithTable' /\ ContentInv'
  <2>1. \A i \in Ids : /\ rows'[i].body.events = rows[i].body.events
                       /\ rows'[i].status = rows[i].status
    BY <1>2
  <2> QED BY <1>2, <1>3, <1>4, <1>5, <1>6, <2>1, ContentKept
<1>8. JobsOnlyInDrain'
  BY <1>2, <1>6 DEF JobsOnlyInDrain
<1>9. AcceptedWasGot'
  BY <1>3, <1>5 DEF AcceptedWasGot
<1> QED
  BY <1>7, <1>8, <1>9

(* The UPDATE that follows a forward finds its row pending or gone, with at  *)
(* most the events that were forwarded.                                      *)
LEMMA AccountProcessDelivery ==
  ASSUME AccountInv, NEW id \in Ids, ProcessDelivery(id)
  PROVE  /\ PoolInv' /\ ContentInv'
         /\ \A i \in Ids : rows'[i].status = rows[i].status \/ rows[i].status = "pending"
<1> USE DEF AccountInv, PoolInv, ContentInv, history
<1> DEFINE new == Settled(rows[id], job[id])
<1>1. /\ job[id] \in Job /\ rows[id] \in Row
      /\ job[id].phase \in {"accepted", "refused"}
      /\ InPool(id)
      /\ rows[id].status \in {"pending", "gone"}
      /\ rows[id].body.events \subseteq job[id].body.events
  BY DEF ProcessDelivery, InPool, TypeInv, TypeOK, PoolAgreesWithTable
<1>2. /\ new.body = rows[id].body
      /\ new.status \in {rows[id].status, "failed", "delivered"}
      /\ new.status = "delivered" => job[id].phase = "accepted" \/ rows[id].status = "delivered"
  <2>1. job[id].attempts < MaxAttempts
    BY <1>1 DEF TypeInv, JobHasAttemptsLeft
  <2> QED BY <1>1, <2>1, SettledType
<1>3. /\ link' = link /\ got' = got /\ erased' = erased
      /\ pc' = pc /\ hasTarget' = hasTarget
  BY DEF ProcessDelivery
<1>4. /\ \A i \in Ids \ {id} : rows'[i] = rows[i]
      /\ rows'[id] = rows[id] \/ (rows'[id] = new /\ rows[id].status = "pending")
  BY <1>1 DEF ProcessDelivery, TypeInv, TypeOK, Stored, Pending, Terminal
<1> HIDE DEF new
<1>5. /\ \A i \in Ids \ {id} : job'[i] = job[i]
      /\ job'[id].phase \in {"none", "alerting"}
      /\ job'[id].phase = "alerting" => job'[id].body = job[id].body
  <2>1. /\ NoJob.phase = "none"
        /\ [job[id] EXCEPT !.phase = "alerting"].phase = "alerting"
        /\ [job[id] EXCEPT !.phase = "alerting"].body = job[id].body
    BY <1>1 DEF NoJob, Job
  <2>2. /\ job \in [Ids -> Job]
        /\ \/ job' = [job EXCEPT ![id] = NoJob]
           \/ job' = [job EXCEPT ![id] = [job[id] EXCEPT !.phase = "alerting"]]
    BY DEF ProcessDelivery, TypeInv, TypeOK
  <2> QED BY <2>1, <2>2
<1>6. JobsOnlyInDrain'
  BY <1>1, <1>3, <1>5 DEF JobsOnlyInDrain
<1>7. PoolAgreesWithTable' /\ AcceptedWasGot'
  BY <1>3, <1>4, <1>5 DEF PoolAgreesWithTable, AcceptedWasGot, InPool
<1>8. NeverForwardsRedacted'
  BY <1>1, <1>2, <1>4, <1>5 DEF NeverForwardsRedacted, Pending, InPool
<1>9. LinkedAreAccounted'
  <2> SUFFICES ASSUME NEW e \in Events, NEW i \in Ids, link[e] = i
               PROVE  Accounted(e, i)'
    BY <1>3 DEF LinkedAreAccounted
  <2>1. Accounted(e, i)
    BY DEF LinkedAreAccounted
  <2>2. CASE rows'[i] = rows[i]
    BY <1>3, <2>1, <2>2 DEF Accounted, Stored, Pending, Terminal
  <2>3. CASE i = id /\ rows'[id] = new /\ rows[id].status = "pending"
    <3>1. new.status \in {"pending", "failed", "delivered"} /\ e \in new.body.events
      BY <1>2, <2>1, <2>3 DEF Accounted
    <3>2. new.status = "delivered" => job[id].body \in got[id] /\ e \in job[id].body.events
      BY <1>1, <1>2, <2>1, <2>3 DEF AcceptedWasGot, Accounted
    <3> QED BY <1>3, <2>3, <3>1, <3>2 DEF Accounted, Stored, Pending, Terminal
  <2> QED BY <1>4, <2>2, <2>3
<1>10. ErasedStaysErased'
  BY <1>2, <1>3, <1>4 DEF ErasedStaysErased
<1>11. \A i \in Ids : rows'[i].status = rows[i].status \/ rows[i].status = "pending"
  BY <1>4
<1> QED
  BY <1>6, <1>7, <1>8, <1>9, <1>10, <1>11

(* Retention deletes an event with its row's content. *)
LEMMA AccountPruneExpired ==
  ASSUME AccountInv, NEW old \in SUBSET Wamids, PruneExpired(old)
  PROVE  PoolInv' /\ ContentInv'
<1> USE DEF AccountInv, PoolInv, ContentInv, history
<1>1. /\ \A id \in Ids : job'[id] = job[id] /\ job[id].phase = "none"
      /\ got' = got /\ erased' = erased
  BY DEF PruneExpired
<1>2. PoolInv'
  BY <1>1 DEF JobsOnlyInDrain, PoolAgreesWithTable, AcceptedWasGot, InPool
<1>3. \A id \in Ids : /\ rows'[id].status = "pending" => rows'[id] = rows[id]
                      /\ rows'[id].body.events \subseteq rows[id].body.events
                      /\ rows[id].age = 0 => rows'[id] = rows[id]
  BY PrunedType DEF PruneExpired, TypeInv, TypeOK, table
<1>4. NeverForwardsRedacted'
  BY <1>1, <1>3 DEF NeverForwardsRedacted, Pending
<1>5. \A e \in Events, id \in Ids :
        link'[e] = id => link[e] = id /\ rows'[id] = rows[id]
  <2> SUFFICES ASSUME NEW e \in Events, NEW id \in Ids, link'[e] = id
               PROVE  link[e] = id /\ rows'[id] = rows[id]
    OBVIOUS
  <2>1. CASE sweepDue
    <3>1. link'[e] = IF link[e] # NoBatch /\ rows[link[e]].age >= 1 THEN NoBatch
                     ELSE link[e]
      BY <2>1 DEF PruneExpired
    <3>2. link[e] = id /\ ~ (rows[id].age >= 1)
      BY <3>1, NoneAssumption
    <3>3. rows[id].age = 0
      BY <3>2 DEF TypeInv, TypeOK, Row
    <3> QED BY <1>3, <3>2, <3>3
  <2>2. CASE ~ sweepDue
    BY <2>2 DEF PruneExpired, table
  <2> QED BY <2>1, <2>2
<1>6. LinkedAreAccounted'
  BY <1>1, <1>5 DEF LinkedAreAccounted, Accounted, Stored, Pending, Terminal
<1>7. ErasedStaysErased'
  <2>1. \A e \in Events : link'[e] = link[e] \/ link'[e] = NoBatch
    BY DEF PruneExpired, table
  <2>2. erased \subseteq Events
    BY DEF TypeInv, TypeOK
  <2> QED BY <1>1, <1>3, <2>1, <2>2 DEF ErasedStaysErased
<1> QED
  BY <1>2, <1>4, <1>6, <1>7

(* The rest of alarm() and the environment leave content alone. *)
LEMMA AccountOthers ==
  ASSUME AccountInv,
         \/ \E id \in Ids : AlertReturns(id)
         \/ ComputeWakes
         \/ \E others \in SUBSET OtherWakes : AlarmReturns(others)
         \/ Environment
  PROVE  PoolInv' /\ ContentInv'
<1> USE DEF AccountInv, PoolInv, table, handler, history, Environment
<1>1. link' = link /\ got' = got /\ erased' = erased
  BY DEF AlertReturns, ComputeWakes, AlarmReturns, Crash, Tick, Age
<1>2. \A id \in Ids : job'[id] = job[id] \/ job'[id].phase = "none"
  <2>1. NoJob.phase = "none" /\ job \in [Ids -> Job]
    BY DEF NoJob, TypeInv, TypeOK
  <2>2. \/ job' = job
        \/ job' = [id \in Ids |-> NoJob]
        \/ \E id \in Ids : job' = [job EXCEPT ![id] = NoJob]
    BY DEF AlertReturns, ComputeWakes, AlarmReturns, Crash, Tick, Age
  <2> QED BY <2>1, <2>2
<1>3. \A id \in Ids : /\ rows'[id].body.events = rows[id].body.events
                      /\ rows'[id].status = rows[id].status
  <2> SUFFICES ASSUME NEW id \in Ids
               PROVE  rows'[id].body = rows[id].body /\ rows'[id].status = rows[id].status
    OBVIOUS
  <2>1. rows \in [Ids -> Row] /\ rows[id] \in Row
    BY DEF TypeInv, TypeOK
  <2>2. CASE Tick
    BY <2>1, <2>2 DEF Tick, Row
  <2>3. CASE \E i \in Ids : Age(i)
    BY <2>1, <2>3 DEF Age, Row
  <2>4. CASE rows' = rows
    BY <2>4
  <2> QED
    BY <2>2, <2>3, <2>4 DEF AlertReturns, ComputeWakes, AlarmReturns, Crash
<1>4. PoolAgreesWithTable' /\ ContentInv'
  BY <1>1, <1>2, <1>3, ContentKept DEF InPool
<1>5. AcceptedWasGot'
  BY <1>1, <1>2 DEF AcceptedWasGot
<1>6. JobsOnlyInDrain'
  <2>1. CASE pc' = pc /\ hasTarget' = hasTarget
    BY <1>2, <2>1 DEF JobsOnlyInDrain
  <2>2. CASE Crash
    BY <2>2 DEF Crash, NoJob, JobsOnlyInDrain
  <2>3. CASE ComputeWakes \/ \E others \in SUBSET OtherWakes : AlarmReturns(others)
    BY <1>2, <2>3 DEF ComputeWakes, AlarmReturns, JobsOnlyInDrain
  <2> QED
    BY <2>1, <2>2, <2>3 DEF AlertReturns, Tick, Age
<1> QED
  BY <1>4, <1>5, <1>6

LEMMA AccountNext ==
  ASSUME AccountInv, [Next]_vars
  PROVE  AccountInv'
<1>1. TypeInv'
  BY TypeNext DEF AccountInv
<1>2. CASE Requests
  BY <1>1, <1>2, AccountIngest, AccountRequests, AccountErase DEF Requests, AccountInv
<1>3. CASE Handler
  BY <1>1, <1>3, AccountAlarmFires, AccountForward, AccountProcessDelivery,
     AccountPruneExpired, AccountOthers DEF Handler, AccountInv
<1>4. CASE Environment
  BY <1>1, <1>4, AccountOthers DEF AccountInv
<1>5. CASE UNCHANGED vars
  BY <1>1, <1>5 DEF vars, AccountInv, PoolInv, JobsOnlyInDrain, PoolAgreesWithTable,
     AcceptedWasGot, InPool, ContentInv, NeverForwardsRedacted, LinkedAreAccounted,
     Accounted, ErasedStaysErased, Stored, Pending, Terminal
<1> QED
  BY <1>2, <1>3, <1>4, <1>5 DEF Next

(* Retention, erasure and retries in any order never leave an emptied row    *)
(* waiting to be forwarded (pruneExpired, eraseByPhone, retryDelivery).      *)
THEOREM ContentToForward == Spec => []NeverForwardsRedacted
<1>1. AccountInv /\ [Next]_vars => AccountInv'
  BY AccountNext
<1>2. AccountInv => NeverForwardsRedacted
  BY DEF AccountInv, ContentInv
<1> QED
  BY AccountInit, <1>1, <1>2, PTL DEF Spec

(* No stored event is lost between inbound_events and the subscriber: not by *)
(* a restart, a late answer, a retry, an erasure of others or retention.     *)
THEOREM StoredEventsAccounted == Spec => []StoredEventIsAccountedFor
<1>1. AccountInv /\ [Next]_vars => AccountInv'
  BY AccountNext
<1>2. AccountInv => StoredEventIsAccountedFor
  BY NoneAssumption DEF AccountInv, ContentInv, TypeInv, TypeOK, LinkedAreAccounted,
     Accounted, StoredEventIsAccountedFor
<1> QED
  BY AccountInit, <1>1, <1>2, PTL DEF Spec

(* What an erasure removed never comes back, whatever is in flight. *)
THEOREM ErasureIsFinal == Spec => []ErasedStaysErased
<1>1. AccountInv /\ [Next]_vars => AccountInv'
  BY AccountNext
<1>2. AccountInv => ErasedStaysErased
  BY DEF AccountInv, ContentInv
<1> QED
  BY AccountInit, <1>1, <1>2, PTL DEF Spec

-----------------------------------------------------------------------------
(* The alarm.                                                              *)

LEMMA AlarmInit == Init => AlarmInv
BY TypeInit DEF AlarmInv, Init, NeverStranded, StepsKeepAWake, Pending, NoRow

(* An armed alarm is a time, and outside the drain a wake is one too. *)
LEMMA AlarmArmed ==
  ASSUME alarm' \in Nat \/ pc' \in {"drain", "sweep"}
  PROVE  NeverStranded' /\ StepsKeepAWake'
BY NoneAssumption DEF NeverStranded, StepsKeepAWake

LEMMA AlarmKept ==
  ASSUME NeverStranded, StepsKeepAWake,
         pc' = pc,
         alarm # NoAlarm => alarm' # NoAlarm,
         wake # NoAlarm => wake' # NoAlarm,
         \A id \in Ids : Pending(id)' => Pending(id)
  PROVE  NeverStranded' /\ StepsKeepAWake'
BY DEF NeverStranded, StepsKeepAWake

LEMMA AlarmRequests ==
  ASSUME AlarmInv, Requests
  PROVE  NeverStranded' /\ StepsKeepAWake'
<1> USE DEF AlarmInv, table, handler, history
<1>1. CASE \/ \E S \in SUBSET Events, id \in Ids : Ingest(S, id)
           \/ \E id \in Ids : RetryDelivery(id)
           \/ \E from, to \in Ids : RetryFailedDeliveries(from, to)
           \/ OtherWork
  <2>1. alarm' = 0
    BY <1>1 DEF Ingest, WakeNow, RetryDelivery, RetryFailedDeliveries, OtherWork
  <2> QED BY <2>1, AlarmArmed
<1>2. CASE \E w \in Wamids : LogOutbound(w)
  <2>1. \A id \in Ids : rows'[id].status = rows[id].status
    <3>1. \A id \in Ids : \E T : \/ rows'[id] = rows[id]
                                 \/ rows'[id] = [rows[id] EXCEPT !.body.tagged = T]
      BY <1>2 DEF LogOutbound
    <3>2. \A id \in Ids : rows[id] \in Row
      BY DEF TypeInv, TypeOK
    <3> QED BY <3>1, <3>2 DEF Row, Body
  <2>2. UNCHANGED <<pc, alarm, wake>>
    BY <1>2 DEF LogOutbound
  <2> QED BY <2>1, <2>2, AlarmKept DEF Pending
<1>3. CASE \E c \in Customers : EraseByPhone(c)
  <2>1. PICK c \in Customers : EraseByPhone(c)
    BY <1>3
  <2>2. UNCHANGED <<pc, alarm, wake>>
    BY <2>1 DEF EraseByPhone
  <2>3. \A id \in Ids : Pending(id)' => Pending(id)
    <3>1. Targets(c) \in SUBSET Events /\ Gone.status = "gone"
      BY DEF Targets, Gone, NoRow
    <3>2. \A id \in Ids : rows[id] \in Row /\ rows'[id] = Rewritten(rows[id], Targets(c))
      BY <2>1 DEF TypeInv, TypeOK, EraseByPhone
    <3> QED BY <3>1, <3>2, RewrittenType DEF Pending
  <2> QED BY <2>2, <2>3, AlarmKept
<1>4. CASE \/ \E url \in BOOLEAN : SetSubscriberConfig(url)
           \/ \E ok \in BOOLEAN : PurgeReturns(ok)
  <2>1. rows' = rows /\ pc' = pc /\ wake' = wake
    BY <1>4 DEF SetSubscriberConfig, PurgeReturns
  <2>2. alarm' = alarm \/ alarm' \in Nat
    BY <1>4, DelaysAssumption DEF SetSubscriberConfig, PurgeReturns
  <2> QED BY <2>1, <2>2, AlarmArmed, AlarmKept DEF Pending
<1> QED
  BY <1>1, <1>2, <1>3, <1>4 DEF Requests

(* alarm() computes the delivery wake before its last awaits and arms it     *)
(* after them; what becomes pending in between arms the alarm itself.        *)
LEMMA AlarmHandler ==
  ASSUME AlarmInv, AccountInv, Handler
  PROVE  NeverStranded' /\ StepsKeepAWake'
<1> USE DEF AlarmInv, table, history
<1>1. CASE AlarmFires \/ \E old \in SUBSET Wamids : PruneExpired(old)
  BY <1>1, AlarmArmed DEF AlarmFires, PruneExpired
<1>2. CASE \E id \in Ids : \/ ForwardOne(id)
                           \/ \E processed, ok \in BOOLEAN : SubscriberAnswers(id, processed, ok)
                           \/ AlertReturns(id)
  BY <1>2, AlarmKept DEF ForwardOne, SubscriberAnswers, AlertReturns, Pending
<1>3. CASE \E id \in Ids : ProcessDelivery(id)
  <2>1. \A id \in Ids : Pending(id)' => Pending(id)
    BY <1>3, AccountProcessDelivery DEF Pending
  <2> QED BY <1>3, <2>1, AlarmKept DEF ProcessDelivery
<1>4. CASE ComputeWakes
  <2> DEFINE pending == {id \in Ids : Pending(id)}
             wakes == IF hasTarget THEN {rows[id].wait : id \in pending}
                      ELSE IF pending # {} THEN {sweepIn'} ELSE {}
  <2>1. wakes \in SUBSET Nat /\ (wakes = {} => pending = {})
    <3>1. sweepIn' \in Nat
      BY <1>4, DelaysAssumption DEF ComputeWakes, TypeInv, TypeOK
    <3>2. {rows[id].wait : id \in pending} \in SUBSET Nat
      BY DEF TypeInv, TypeOK, Row
    <3>3. {rows[id].wait : id \in pending} = {} => pending = {}
      OBVIOUS
    <3> HIDE DEF pending
    <3> QED BY <3>1, <3>2, <3>3
  <2>2. wake' = IF wakes = {} THEN NoAlarm ELSE Earliest(wakes)
    BY <1>4 DEF ComputeWakes
  <2>3. pc' = "steps" /\ rows' = rows
    BY <1>4 DEF ComputeWakes
  <2>4. wake' = NoAlarm => pending = {}
    <3> HIDE DEF wakes, pending
    <3> QED BY <2>1, <2>2, EarliestIsOne, NoneAssumption
  <2> QED BY <2>3, <2>4 DEF NeverStranded, StepsKeepAWake, Pending
<1>5. CASE \E others \in SUBSET OtherWakes : AlarmReturns(others)
  <2>1. PICK others \in SUBSET OtherWakes : AlarmReturns(others)
    BY <1>5
  <2> DEFINE wakes == ({wake} \ {NoAlarm}) \cup others
                      \cup (IF wakeArrived THEN {0} ELSE {})
  <2>2. wakes \in SUBSET Nat
    <3>1. {wake} \ {NoAlarm} \subseteq Nat
      BY DEF TypeInv, TypeOK
    <3>2. others \subseteq Nat
      BY DelaysAssumption
    <3>3. (IF wakeArrived THEN {0} ELSE {}) \subseteq Nat
      OBVIOUS
    <3> QED BY <3>1, <3>2, <3>3
  <2>3. wakes = {} => wake = NoAlarm
    OBVIOUS
  <2>4. /\ alarm' = IF wakes = {} THEN alarm ELSE Earliest(wakes)
        /\ pc = "steps" /\ pc' = "idle" /\ rows' = rows
    BY <2>1 DEF AlarmReturns
  <2>5. CASE wakes = {}
    BY <2>3, <2>4, <2>5 DEF NeverStranded, StepsKeepAWake, Pending
  <2>6. CASE wakes # {}
    <3>1. alarm' \in Nat
      <4> HIDE DEF wakes
      <4> QED BY <2>2, <2>4, <2>6, EarliestIsOne
    <3> QED BY <3>1, AlarmArmed
  <2> QED BY <2>5, <2>6
<1> QED
  BY <1>1, <1>2, <1>3, <1>4, <1>5 DEF Handler

LEMMA AlarmEnvironment ==
  ASSUME AlarmInv, Environment
  PROVE  NeverStranded' /\ StepsKeepAWake'
<1> USE DEF AlarmInv, table, handler, history
<1>1. CASE Crash
  BY <1>1, NoneAssumption DEF Crash, NeverStranded, StepsKeepAWake, Pending
<1>2. CASE Tick
  <2>1. \A id \in Ids : rows'[id].status = rows[id].status
    BY <1>2 DEF Tick, TypeInv, TypeOK, Row
  <2>2. /\ pc' = pc
        /\ alarm # NoAlarm => alarm' # NoAlarm
        /\ wake # NoAlarm => wake' # NoAlarm
    BY <1>2, DecType, NoneAssumption DEF Tick, DecDelay, TypeInv, TypeOK
  <2> QED BY <2>1, <2>2, AlarmKept DEF Pending
<1>3. CASE \E id \in Ids : Age(id)
  <2>1. \A id \in Ids : rows'[id].status = rows[id].status
    BY <1>3 DEF Age, TypeInv, TypeOK, Row
  <2>2. UNCHANGED <<pc, alarm, wake>>
    BY <1>3 DEF Age
  <2> QED BY <2>1, <2>2, AlarmKept DEF Pending
<1> QED
  BY <1>1, <1>2, <1>3 DEF Environment

LEMMA AlarmNext ==
  ASSUME AlarmInv, AccountInv, [Next]_vars
  PROVE  AlarmInv'
<1>1. TypeInv'
  BY TypeNext DEF AlarmInv
<1>2. NeverStranded' /\ StepsKeepAWake'
  <2>1. CASE UNCHANGED vars
    BY <2>1, AlarmKept DEF vars, AlarmInv, Pending
  <2> QED
    BY <2>1, AlarmRequests, AlarmHandler, AlarmEnvironment DEF Next
<1> QED
  BY <1>1, <1>2 DEF AlarmInv

(* No pending row is ever left without an alarm: neither by the setAlarm     *)
(* that ends alarm(), nor by a restart, nor while there is no target.        *)
THEOREM NoRowStranded == Spec => []NeverStranded
<1>1. AlarmInv /\ AccountInv /\ [Next]_vars => AlarmInv' /\ AccountInv'
  BY AlarmNext, AccountNext
<1>2. AlarmInv => NeverStranded
  BY DEF AlarmInv
<1> QED
  BY AlarmInit, AccountInit, <1>1, <1>2, PTL DEF Spec

-----------------------------------------------------------------------------
(* What a step may do to a row.                                            *)

(* A step counts no attempt and leaves a row's status, deletes the row, is   *)
(* an operator's call or a webhook that fills a free row; or it settles a    *)
(* pending row that alarm() captured.                                        *)
Uncounted(id) ==
  /\ rows'[id].attempts <= rows[id].attempts
  /\ \/ rows'[id].status \in {rows[id].status, "gone"}
     \/ rows[id].status = "none"
     \/ calls' # calls
SettledFromPool(id) == hasTarget /\ rows[id].status = "pending"
RowStep == \A id \in Ids : Uncounted(id) \/ SettledFromPool(id)

LEMMA RowStepRequests ==
  ASSUME AccountInv, Requests
  PROVE  RowStep
<1> SUFFICES ASSUME NEW id \in Ids PROVE Uncounted(id)
  BY DEF RowStep
<1> USE DEF AccountInv, table, handler, history
<1>1. rows \in [Ids -> Row] /\ rows[id] \in Row /\ calls \in Nat
  BY DEF TypeInv, TypeOK
<1>2. rows[id].attempts \in Nat
  BY <1>1 DEF Row
<1>3. CASE rows'[id] = rows[id]
  BY <1>2, <1>3 DEF Uncounted
<1>4. CASE \E S \in SUBSET Events, i \in Ids : Ingest(S, i)
  <2>1. PICK S \in SUBSET Events, i \in Ids : Ingest(S, i)
    BY <1>4
  <2>2. CASE i # id
    <3>1. rows'[id] = rows[id]
      BY <1>1, <2>1, <2>2 DEF Ingest
    <3> QED BY <1>3, <3>1
  <2>3. CASE i = id
    <3>1. rows[id].status = "none"
      BY <2>1, <2>3 DEF Ingest, NextId
    <3> DEFINE body == [events |-> S,
                        tagged |-> {e \in S : About[e] \in Wamids
                                              /\ sends[About[e]] = "logged"}]
               row == [NoRow EXCEPT !.status = "pending", !.body = body]
    <3>2. rows'[id] = row
      BY <1>1, <2>1, <2>3 DEF Ingest
    <3>3. row.attempts = 0
      BY DEF NoRow
    <3> HIDE DEF row
    <3> QED BY <1>2, <3>1, <3>2, <3>3 DEF Uncounted
  <2> QED BY <2>2, <2>3
<1>5. CASE \E w \in Wamids : LogOutbound(w)
  <2>1. PICK T : rows'[id] = rows[id] \/ rows'[id] = [rows[id] EXCEPT !.body.tagged = T]
    BY <1>5 DEF LogOutbound
  <2> QED BY <1>1, <1>2, <2>1 DEF Uncounted, Row
<1>6. CASE \/ \E i \in Ids : RetryDelivery(i)
           \/ \E from, to \in Ids : RetryFailedDeliveries(from, to)
  <2>1. rows'[id] = rows[id] \/ rows'[id] = Requeued(rows[id])
    BY <1>1, <1>6 DEF RetryDelivery, RetryFailedDeliveries
  <2>2. calls' # calls
    BY <1>1, <1>6 DEF RetryDelivery, RetryFailedDeliveries, Operator
  <2> QED BY <1>1, <1>2, <1>3, <2>1, <2>2, RequeuedType DEF Uncounted
<1>7. CASE \E c \in Customers : EraseByPhone(c)
  <2>1. PICK c \in Customers : EraseByPhone(c)
    BY <1>7
  <2>2. rows'[id] = Rewritten(rows[id], Targets(c)) /\ Targets(c) \in SUBSET Events
    BY <2>1 DEF EraseByPhone, Targets
  <2>3. Gone.status = "gone"
    BY DEF Gone, NoRow
  <2> QED BY <1>1, <2>2, <2>3, RewrittenType DEF Uncounted
<1>8. CASE \/ \E url \in BOOLEAN : SetSubscriberConfig(url)
           \/ \E ok \in BOOLEAN : PurgeReturns(ok)
           \/ OtherWork
  <2>1. rows' = rows
    BY <1>8 DEF SetSubscriberConfig, PurgeReturns, OtherWork
  <2> QED BY <1>3, <2>1
<1> QED
  BY <1>4, <1>5, <1>6, <1>7, <1>8 DEF Requests

LEMMA RowStepNext ==
  ASSUME AccountInv, [Next]_vars
  PROVE  RowStep
<1> USE DEF AccountInv, table, handler, history
<1>1. rows \in [Ids -> Row] /\ \A id \in Ids : rows[id].attempts \in Nat
  BY DEF TypeInv, TypeOK, Row
<1>2. CASE rows' = rows
  BY <1>1, <1>2 DEF RowStep, Uncounted
<1>3. CASE \E id \in Ids : ProcessDelivery(id)
  <2>1. PICK id \in Ids : ProcessDelivery(id)
    BY <1>3
  <2>2. \A i \in Ids \ {id} : rows'[i] = rows[i]
    BY <1>1, <2>1 DEF ProcessDelivery
  <2>3. hasTarget /\ rows[id].status \in {"pending", "gone"}
    BY <2>1 DEF ProcessDelivery, PoolInv, JobsOnlyInDrain, PoolAgreesWithTable, InPool
  <2>4. rows[id].status = "gone" => rows' = rows
    BY <2>1 DEF ProcessDelivery, Stored, Pending, Terminal
  <2> QED BY <1>1, <2>2, <2>3, <2>4 DEF RowStep, Uncounted, SettledFromPool
<1>4. CASE \E old \in SUBSET Wamids : PruneExpired(old)
  <2>1. \A id \in Ids : rows'[id] = rows[id] \/ rows'[id] = Pruned(rows[id])
    BY <1>4 DEF PruneExpired, TypeInv, TypeOK
  <2>2. \A row \in Row : /\ Pruned(row).status \in {row.status, "gone"}
                         /\ Pruned(row).attempts <= row.attempts
    BY DEF Pruned, Row, Gone, NoRow
  <2>3. \A id \in Ids : rows[id] \in Row
    BY <1>1
  <2> QED BY <1>1, <2>1, <2>2, <2>3 DEF RowStep, Uncounted
<1>5. CASE Tick \/ \E id \in Ids : Age(id)
  <2>1. \A id \in Ids : /\ rows'[id].status = rows[id].status
                        /\ rows'[id].attempts = rows[id].attempts
    BY <1>5 DEF Tick, Age, TypeInv, TypeOK, Row
  <2> QED BY <1>1, <2>1 DEF RowStep, Uncounted
<1>6. CASE Requests
  BY <1>6, RowStepRequests
<1>7. \/ Requests \/ rows' = rows
      \/ \E id \in Ids : ProcessDelivery(id)
      \/ \E old \in SUBSET Wamids : PruneExpired(old)
      \/ Tick \/ \E id \in Ids : Age(id)
  BY DEF Next, Handler, Environment, vars, AlarmFires, ForwardOne, SubscriberAnswers,
     AlertReturns, ComputeWakes, AlarmReturns, Crash
<1> QED
  BY <1>2, <1>3, <1>4, <1>5, <1>6, <1>7

(* A delivered row stays delivered until it is deleted or an operator        *)
(* replays it: the UPDATE by id never lands on a row it did not capture      *)
(* pending (processDelivery).                                                *)
THEOREM DeliveredIsFinal == Spec => DeliveredSticks
<1>1. AccountInv /\ [Next]_vars => AccountInv'
  BY AccountNext
<1>2. AccountInv /\ [Next]_vars =>
        [\A id \in Ids :
           rows[id].status = "delivered" /\ calls' = calls
             => rows'[id].status \in {"delivered", "gone"}]_vars
  BY RowStepNext DEF RowStep, Uncounted, SettledFromPool
<1> QED
  BY AccountInit, <1>1, <1>2, PTL DEF Spec, DeliveredSticks

(* An attempt is spent only by a drain that started with a target. *)
THEOREM QueueIsHeld == Spec => HeldMeansHeld
<1>1. AccountInv /\ [Next]_vars => AccountInv'
  BY AccountNext
<1>2. AccountInv /\ [Next]_vars =>
        [\A id \in Ids : rows'[id].attempts > rows[id].attempts => hasTarget]_vars
  <2> SUFFICES ASSUME AccountInv, [Next]_vars, NEW id \in Ids,
                      rows'[id].attempts > rows[id].attempts
               PROVE  hasTarget
    OBVIOUS
  <2>1. rows[id].attempts \in Nat /\ rows'[id].attempts \in Nat
    BY AccountNext DEF AccountInv, TypeInv, TypeOK, Row
  <2> QED BY <2>1, RowStepNext DEF RowStep, Uncounted, SettledFromPool
<1> QED
  BY AccountInit, <1>1, <1>2, PTL DEF Spec, HeldMeansHeld
-----------------------------------------------------------------------------
(* Due rows. Between the operator's calls that replace an armed alarm by a   *)
(* later one or make a row due behind its back, the alarm is never later     *)
(* than a pending row, in the idle object or in what alarm() will arm.       *)

NotLater(time, id) == time \in Nat /\ time <= rows[id].wait

DueInv ==
  hasUrl =>
    /\ pc # "idle" => hasTarget
    /\ \A id \in Ids : Pending(id) =>
         /\ pc = "idle" => NotLater(alarm, id)
         /\ pc = "steps" => wakeArrived \/ NotLater(wake, id)

LEMMA DueKept ==
  ASSUME TypeInv, DueInv,
         UNCHANGED <<hasUrl, pc, hasTarget, wake>>,
         alarm' = alarm \/ alarm' = 0, wakeArrived => wakeArrived',
         \A id \in Ids : Pending(id)' => Pending(id) /\ rows'[id].wait = rows[id].wait
  PROVE  DueInv'
<1>1. \A id \in Ids : rows[id].wait \in Nat
  BY DEF TypeInv, TypeOK, Row
<1> QED
  BY <1>1 DEF DueInv, NotLater

LEMMA DueInDrain ==
  ASSUME hasUrl' => hasTarget', pc' \in {"drain", "sweep"}
  PROVE  DueInv'
BY DEF DueInv

LEMMA DueRequests ==
  ASSUME Calls \cap {"config", "retry"} = {}, ~PurgeCanFail, TypeInv, TypeInv', DueInv,
         Requests
  PROVE  DueInv'
<1> USE DEF table, handler, history
<1>1. ASSUME NEW S \in SUBSET Events, NEW id \in Ids, Ingest(S, id)
      PROVE  DueInv'
  <2>1. /\ alarm' = 0 /\ wakeArrived' = TRUE
        /\ UNCHANGED <<hasUrl, pc, hasTarget, wake>>
    BY <1>1 DEF Ingest, WakeNow
  <2>2. \A i \in Ids : rows'[i].wait \in Nat
    BY DEF TypeInv, TypeOK, Row
  <2> QED
    BY <2>1, <2>2 DEF DueInv, NotLater
<1>2. ASSUME NEW w \in Wamids, LogOutbound(w)
      PROVE  DueInv'
  <2>1. \A id \in Ids : rows'[id].status = rows[id].status /\ rows'[id].wait = rows[id].wait
    <3>1. \A id \in Ids : \E T : \/ rows'[id] = rows[id]
                                 \/ rows'[id] = [rows[id] EXCEPT !.body.tagged = T]
      BY <1>2 DEF LogOutbound
    <3>2. \A id \in Ids : rows[id] \in Row
      BY DEF TypeInv, TypeOK
    <3> QED
      BY <3>1, <3>2 DEF Row, Body
  <2>2. UNCHANGED <<hasUrl, pc, hasTarget, wake, alarm, wakeArrived>>
    BY <1>2 DEF LogOutbound
  <2> QED
    BY <2>1, <2>2, DueKept DEF Pending
<1>3. ASSUME NEW c \in Customers, EraseByPhone(c)
      PROVE  DueInv'
  <2>1. UNCHANGED <<hasUrl, pc, hasTarget, wake, alarm, wakeArrived>>
    BY <1>3 DEF EraseByPhone
  <2>2. ASSUME NEW id \in Ids, Pending(id)'
        PROVE  Pending(id) /\ rows'[id].wait = rows[id].wait
    <3>1. rows[id] \in Row /\ rows'[id] = Rewritten(rows[id], Targets(c))
      BY <1>3 DEF TypeInv, TypeOK, EraseByPhone
    <3>2. rows'[id].status = "pending"
      BY <2>2 DEF Pending
    <3> HIDE DEF table, handler, history
    <3> QED
      BY <3>1, <3>2 DEF Rewritten, Pending, Row, Gone, NoRow
  <2> QED
    BY <2>1, <2>2, DueKept
<1>4. ASSUME NEW ok \in BOOLEAN, PurgeReturns(ok)
      PROVE  DueInv'
  <2>1. UNCHANGED <<hasUrl, pc, hasTarget, wake, alarm, wakeArrived, rows>>
    BY <1>4 DEF PurgeReturns
  <2> QED
    BY <2>1, DueKept DEF Pending
<1>5. CASE OtherWork
  <2>1. /\ UNCHANGED <<hasUrl, pc, hasTarget, wake, rows>> /\ alarm' = 0
        /\ wakeArrived' \in {wakeArrived, TRUE}
    BY <1>5 DEF OtherWork
  <2>2. wakeArrived => wakeArrived'
    BY <2>1
  <2>3. \A id \in Ids : Pending(id)' => Pending(id) /\ rows'[id].wait = rows[id].wait
    BY <2>1 DEF Pending
  <2> HIDE DEF table, handler, history
  <2> QED
    BY <2>1, <2>2, <2>3, DueKept
<1>6. /\ \A url \in BOOLEAN : ~SetSubscriberConfig(url)
      /\ \A id \in Ids : ~RetryDelivery(id)
      /\ \A from, to \in Ids : ~RetryFailedDeliveries(from, to)
  BY DEF SetSubscriberConfig, RetryDelivery, RetryFailedDeliveries, Operator
<1> QED
  BY <1>1, <1>2, <1>3, <1>4, <1>5, <1>6 DEF Requests

(* The wake computed for the pending rows is no later than any of them, and  *)
(* neither is the earliest of it and of what the other steps ask for.        *)
LEMMA DueHandler ==
  ASSUME TypeInv, TypeInv', PoolInv, DueInv, Handler
  PROVE  DueInv'
<1> USE DEF table, history
<1>1. CASE AlarmFires
  BY <1>1, DueInDrain DEF AlarmFires
<1>2. ASSUME NEW id \in Ids,
             \/ ForwardOne(id)
             \/ \E processed, ok \in BOOLEAN : SubscriberAnswers(id, processed, ok)
             \/ AlertReturns(id)
             \/ ProcessDelivery(id)
      PROVE  DueInv'
  <2>1. UNCHANGED <<hasUrl, pc, hasTarget>> /\ job[id].phase # "none"
    BY <1>2 DEF ForwardOne, SubscriberAnswers, AlertReturns, ProcessDelivery
  <2>2. pc = "drain" /\ hasTarget
    BY <2>1 DEF PoolInv, JobsOnlyInDrain
  <2> QED
    BY <2>1, <2>2, DueInDrain
<1>3. ASSUME NEW old \in SUBSET Wamids, PruneExpired(old)
      PROVE  DueInv'
  <2>1. UNCHANGED <<hasUrl, hasTarget>> /\ pc = "drain" /\ pc' = "sweep"
    BY <1>3 DEF PruneExpired
  <2> QED
    BY <2>1, DueInDrain DEF DueInv
<1>4. CASE ComputeWakes
  <2> DEFINE pending == {id \in Ids : Pending(id)}
             wakes == {rows[id].wait : id \in pending}
  <2>1. UNCHANGED <<hasUrl, hasTarget, rows>> /\ pc = "sweep" /\ pc' = "steps"
    BY <1>4 DEF ComputeWakes
  <2>2. hasTarget => wake' = IF wakes = {} THEN NoAlarm ELSE Earliest(wakes)
    BY <1>4 DEF ComputeWakes
  <2>3. wakes \in SUBSET Nat
    BY DEF TypeInv, TypeOK, Row
  <2>4. ASSUME hasTarget, NEW id \in Ids, Pending(id) PROVE NotLater(wake', id)
    <3>1. rows[id].wait \in wakes
      BY <2>4
    <3> HIDE DEF wakes, pending
    <3>2. Earliest(wakes) \in wakes /\ Earliest(wakes) <= rows[id].wait
      BY <2>3, <3>1, EarliestIsOne
    <3>3. wake' = Earliest(wakes)
      BY <2>2, <2>4, <3>1
    <3>4. wake' \in Nat /\ wake' <= rows[id].wait
      BY <2>3, <3>2, <3>3
    <3> QED
      BY <3>4 DEF NotLater
  <2>5. hasUrl => hasTarget
    BY <2>1 DEF DueInv
  <2> HIDE DEF wakes, pending
  <2> QED
    BY <2>1, <2>4, <2>5 DEF DueInv, NotLater, Pending
<1>5. ASSUME NEW others \in SUBSET OtherWakes, AlarmReturns(others)
      PROVE  DueInv'
  <2> DEFINE wakes == ({wake} \ {NoAlarm}) \cup others
                      \cup (IF wakeArrived THEN {0} ELSE {})
  <2>1. /\ alarm' = IF wakes = {} THEN alarm ELSE Earliest(wakes)
        /\ pc = "steps" /\ pc' = "idle" /\ UNCHANGED <<rows, hasUrl>>
    BY <1>5 DEF AlarmReturns
  <2>2. wakes \in SUBSET Nat
    <3>1. {wake} \ {NoAlarm} \subseteq Nat
      BY DEF TypeInv, TypeOK
    <3>2. others \subseteq Nat
      BY DelaysAssumption
    <3>3. (IF wakeArrived THEN {0} ELSE {}) \subseteq Nat
      BY DEF TypeInv, TypeOK
    <3> QED
      BY <3>1, <3>2, <3>3
  <2>3. ASSUME hasUrl, NEW id \in Ids, Pending(id) PROVE NotLater(alarm', id)
    <3>1. wakeArrived \/ NotLater(wake, id)
      BY <2>1, <2>3 DEF DueInv
    <3>2. PICK n \in wakes : n <= rows[id].wait
      <4>1. rows[id].wait \in Nat
        BY DEF TypeInv, TypeOK, Row
      <4>2. CASE wakeArrived
        BY <4>1, <4>2
      <4>3. CASE NotLater(wake, id)
        BY <4>3, NoneAssumption DEF NotLater
      <4> QED
        BY <3>1, <4>2, <4>3
    <3> HIDE DEF wakes
    <3>3. alarm' = Earliest(wakes) /\ alarm' \in wakes /\ alarm' <= n
      BY <2>1, <2>2, <3>2, EarliestIsOne
    <3>4. alarm' \in Nat /\ n \in Nat /\ rows[id].wait \in Nat
      BY <2>2, <3>2, <3>3 DEF TypeInv, TypeOK, Row
    <3> QED
      BY <3>2, <3>3, <3>4 DEF NotLater
  <2> HIDE DEF wakes
  <2> QED
    BY <2>1, <2>3 DEF DueInv, NotLater, Pending
<1> QED
  BY <1>1, <1>2, <1>3, <1>4, <1>5 DEF Handler

LEMMA DueEnvironment ==
  ASSUME TypeInv, TypeInv', DueInv, Environment
  PROVE  DueInv'
<1> USE DEF table, handler, history
<1>1. \A id \in Ids : rows[id].wait \in Nat /\ rows'[id].wait \in Nat
  BY DEF TypeInv, TypeOK, Row
<1>2. CASE Crash
  BY <1>1, <1>2 DEF Crash, DueInv, NotLater, Pending
<1>3. CASE Tick
  <2>1. /\ UNCHANGED <<hasUrl, pc, hasTarget, wakeArrived>>
        /\ alarm' = DecDelay(alarm) /\ wake' = DecDelay(wake)
    BY <1>3 DEF Tick
  <2>2. \A id \in Ids : rows'[id].status = rows[id].status /\ rows'[id].wait = Dec(rows[id].wait)
    BY <1>3 DEF Tick, TypeInv, TypeOK, Row
  <2>3. \A time, n \in Nat : time <= n => DecDelay(time) \in Nat /\ DecDelay(time) <= Dec(n)
    BY NoneAssumption DEF DecDelay, Dec
  <2>4. \A id \in Ids : /\ NotLater(alarm, id) => NotLater(alarm, id)'
                        /\ NotLater(wake, id) => NotLater(wake, id)'
    BY <1>1, <2>1, <2>2, <2>3 DEF NotLater
  <2> QED
    BY <2>1, <2>2, <2>4 DEF DueInv, Pending
<1>4. ASSUME NEW id \in Ids, Age(id)
      PROVE  DueInv'
  <2>1. \A i \in Ids : rows'[i].status = rows[i].status /\ rows'[i].wait = rows[i].wait
    BY <1>4 DEF Age, TypeInv, TypeOK, Row
  <2>2. UNCHANGED <<hasUrl, pc, hasTarget, wake, alarm, wakeArrived>>
    BY <1>4 DEF Age
  <2> QED
    BY <2>1, <2>2, DueKept DEF Pending
<1> QED
  BY <1>2, <1>3, <1>4 DEF Environment

(* With a target, the idle object is armed for now whenever a row is due,    *)
(* whatever webhooks, erasures, sends and other steps did while alarm() ran, *)
(* unless R2 refuses an erasure's deletion or an operator sets the target or *)
(* retries rows: only those can leave a due row to a later wake.             *)
THEOREM DueGoesOutNow ==
  ASSUME Calls \cap {"config", "retry"} = {}, ~PurgeCanFail
  PROVE  Spec => []DueRowsAreAwaited
<1>1. Init => DueInv
  BY DEF Init, DueInv, Pending, NoRow
<1>2. AccountInv /\ DueInv /\ [Next]_vars => DueInv'
  <2> SUFFICES ASSUME AccountInv, DueInv, [Next]_vars PROVE DueInv'
    OBVIOUS
  <2>1. TypeInv /\ TypeInv' /\ PoolInv
    BY TypeNext DEF AccountInv
  <2>2. CASE UNCHANGED vars
    BY <2>1, <2>2, DueKept DEF vars, Pending
  <2> QED
    BY <2>1, <2>2, DueRequests, DueHandler, DueEnvironment DEF Next
<1>3. AccountInv /\ DueInv => DueRowsAreAwaited
  <2> SUFFICES ASSUME AccountInv, DueInv, pc = "idle", hasUrl, NEW id \in Due
               PROVE  alarm = 0
    BY DEF DueRowsAreAwaited
  <2>1. id \in Ids /\ Pending(id) /\ rows[id].wait = 0
    BY DEF Due
  <2> QED
    BY <2>1 DEF DueInv, NotLater
<1>4. AccountInv /\ [Next]_vars => AccountInv'
  BY AccountNext
<1> QED
  BY AccountInit, <1>1, <1>2, <1>3, <1>4, PTL DEF Spec

-----------------------------------------------------------------------------
(* Origins. What an action leaves of them: a row that is still to be         *)
(* attempted was so before and has lost the tags of erased events at most.   *)

LEMMA RewrittenTags ==
  ASSUME NEW row \in Row, NEW gone \in SUBSET Events,
         Rewritten(row, gone).status = "pending"
  PROVE  /\ row.status = "pending" /\ Rewritten(row, gone).attempts = row.attempts
         /\ row.body.tagged \ gone \subseteq Rewritten(row, gone).body.tagged
<1> DEFINE kept == row.body.events \ gone
<1>1. CASE kept = row.body.events
  BY <1>1 DEF Rewritten
<1>2. CASE kept # row.body.events /\ kept # {}
  <2>1. Rewritten(row, gone) = [row EXCEPT !.body = [events |-> kept,
                                                     tagged |-> row.body.tagged \ gone]]
    BY <1>2 DEF Rewritten
  <2> HIDE DEF kept
  <2> QED
    BY <2>1 DEF Row
<1>3. CASE kept # row.body.events /\ kept = {}
  BY <1>3 DEF Rewritten, Row, Gone, NoRow
<1> QED
  BY <1>1, <1>2, <1>3

LEMMA OriginKept ==
  ASSUME NEW gone, UnattemptedCarriesOrigin, TypeInv, TypeInv',
         \A e \in Events : link'[e] # NoBatch => link'[e] = link[e] /\ e \notin gone,
         \A w \in Wamids : sends'[w] = "logged" => sends[w] = "logged",
         \A id \in Ids : rows'[id].status = "pending" /\ rows'[id].attempts = 0 =>
           /\ rows[id].status = "pending" /\ rows[id].attempts = 0
           /\ rows[id].body.tagged \ gone \subseteq rows'[id].body.tagged
  PROVE  UnattemptedCarriesOrigin'
<1> SUFFICES ASSUME NEW e \in Events, link'[e] # NoBatch, About[e] \in Wamids,
                    rows'[link'[e]].status = "pending", rows'[link'[e]].attempts = 0,
                    sends'[About[e]] = "logged"
             PROVE  e \in rows'[link'[e]].body.tagged
  BY DEF UnattemptedCarriesOrigin
<1>1. link'[e] = link[e] /\ e \notin gone /\ link[e] \in Ids
  BY DEF TypeInv, TypeOK
<1>2. e \in rows[link[e]].body.tagged
  BY <1>1 DEF UnattemptedCarriesOrigin
<1> QED
  BY <1>1, <1>2

LEMMA OriginUntouched ==
  ASSUME UnattemptedCarriesOrigin, TypeInv, TypeInv',
         \A e \in Events : link'[e] # NoBatch => link'[e] = link[e],
         \A w \in Wamids : sends'[w] = "logged" => sends[w] = "logged",
         \A id \in Ids : rows'[id].status = "pending" /\ rows'[id].attempts = 0 =>
           /\ rows[id].status = "pending" /\ rows[id].attempts = 0
           /\ rows[id].body = rows'[id].body
  PROVE  UnattemptedCarriesOrigin'
<1> DEFINE gone == {}
<1>1. \A e \in Events : link'[e] # NoBatch => link'[e] = link[e] /\ e \notin gone
  OBVIOUS
<1>2. \A id \in Ids : rows'[id].status = "pending" /\ rows'[id].attempts = 0 =>
        /\ rows[id].status = "pending" /\ rows[id].attempts = 0
        /\ rows[id].body.tagged \ gone \subseteq rows'[id].body.tagged
  OBVIOUS
<1> HIDE DEF gone
<1> QED
  BY <1>1, <1>2, OriginKept

(* A send that is logged tags the batches of the statuses that overtook it,  *)
(* and a webhook that comes after it is tagged when it is stored.            *)
LEMMA OriginArrives ==
  ASSUME AccountInv, TypeInv', UnattemptedCarriesOrigin,
         \/ \E S \in SUBSET Events, id \in Ids : Ingest(S, id)
         \/ \E w \in Wamids : LogOutbound(w)
  PROVE  UnattemptedCarriesOrigin'
<1>1. rows \in [Ids -> Row] /\ link \in [Events -> Ids \cup {NoBatch}]
      /\ sends \in [Wamids -> {"open", "logged", "forgotten"}]
      /\ link' \in [Events -> Ids \cup {NoBatch}]
  BY DEF AccountInv, TypeInv, TypeOK
<1>2. ASSUME NEW e \in Events, link[e] # NoBatch
      PROVE  link[e] \in Ids /\ Stored(link[e]) /\ e \in rows[link[e]].body.events
  BY <1>1, <1>2 DEF AccountInv, ContentInv, LinkedAreAccounted, Accounted
<1> SUFFICES ASSUME NEW e \in Events, link'[e] # NoBatch, About[e] \in Wamids,
                    rows'[link'[e]].status = "pending", rows'[link'[e]].attempts = 0,
                    sends'[About[e]] = "logged"
             PROVE  e \in rows'[link'[e]].body.tagged
  BY DEF UnattemptedCarriesOrigin
<1>3. ASSUME NEW S \in SUBSET Events, NEW id \in Ids, Ingest(S, id)
      PROVE  e \in rows'[link'[e]].body.tagged
  <2> DEFINE body == [events |-> S,
                      tagged |-> {x \in S : About[x] \in Wamids
                                            /\ sends[About[x]] = "logged"}]
             row == [NoRow EXCEPT !.status = "pending", !.body = body]
  <2>1. /\ rows' = [rows EXCEPT ![id] = row] /\ sends' = sends
        /\ \/ link'[e] = id /\ e \in S
           \/ link'[e] = link[e] /\ link[e] # NoBatch
        /\ rows[id].status = "none"
    BY <1>3 DEF Ingest, NextId
  <2>2. row.body = body
    BY DEF NoRow
  <2>3. e \in S => e \in body.tagged
    BY <2>1
  <2> HIDE DEF row, body
  <2>4. CASE link'[e] = id /\ e \in S
    BY <1>1, <2>1, <2>2, <2>3, <2>4
  <2>5. CASE link'[e] = link[e] /\ link[e] # NoBatch
    <3>1. link[e] \in Ids /\ link[e] # id
      BY <1>2, <2>1, <2>5 DEF Stored, Pending, Terminal
    <3>2. rows'[link'[e]] = rows[link[e]]
      BY <1>1, <2>1, <2>5, <3>1
    <3> QED
      BY <2>1, <2>5, <3>2 DEF UnattemptedCarriesOrigin
  <2> QED
    BY <2>1, <2>4, <2>5
<1>4. ASSUME NEW w \in Wamids, LogOutbound(w)
      PROVE  e \in rows'[link'[e]].body.tagged
  <2> DEFINE id == link[e]
             unattempted == /\ \E x \in {x \in Events : About[x] = w /\ link[x] # NoBatch} :
                                 link[x] = id
                            /\ Pending(id)
                            /\ rows[id].attempts = 0
  <2>1. /\ link' = link /\ sends' = [sends EXCEPT ![w] = "logged"]
        /\ \A i \in Ids : rows'[i] =
             IF /\ \E x \in {x \in Events : About[x] = w /\ link[x] # NoBatch} : link[x] = i
                /\ Pending(i)
                /\ rows[i].attempts = 0
             THEN [rows[i] EXCEPT !.body.tagged =
                     @ \cup {x \in rows[i].body.events : About[x] = w}]
             ELSE rows[i]
    BY <1>4 DEF LogOutbound
  <2>2. link'[e] = id /\ id \in Ids /\ e \in rows[id].body.events /\ rows[id] \in Row
    BY <1>1, <1>2, <2>1
  <2>3. rows'[id] = IF unattempted
                    THEN [rows[id] EXCEPT !.body.tagged =
                            @ \cup {x \in rows[id].body.events : About[x] = w}]
                    ELSE rows[id]
    BY <2>1, <2>2
  <2>4. CASE unattempted
    <3>1. rows'[id].body.tagged =
            rows[id].body.tagged \cup {x \in rows[id].body.events : About[x] = w}
      BY <2>2, <2>3, <2>4 DEF Row, Body
    <3>2. CASE About[e] = w
      BY <2>2, <3>1, <3>2
    <3>3. CASE About[e] # w
      <4>1. sends[About[e]] = "logged"
        BY <1>1, <2>1, <3>3
      <4>2. e \in rows[id].body.tagged
        BY <2>1, <2>4, <4>1 DEF UnattemptedCarriesOrigin, Pending
      <4> QED
        BY <2>2, <3>1, <4>2
    <3> QED
      BY <3>2, <3>3
  <2>5. CASE ~unattempted
    <3>1. rows'[id] = rows[id]
      BY <2>3, <2>5
    <3>2. About[e] # w
      BY <2>1, <2>2, <2>5, <3>1 DEF Pending
    <3>3. sends[About[e]] = "logged"
      BY <1>1, <2>1, <3>2
    <3> QED
      BY <2>1, <2>2, <3>1, <3>3 DEF UnattemptedCarriesOrigin
  <2> QED
    BY <2>4, <2>5
<1> QED
  BY <1>3, <1>4

LEMMA OriginStep ==
  ASSUME "retry" \notin Calls, AccountInv, TypeInv', UnattemptedCarriesOrigin, [Next]_vars
  PROVE  UnattemptedCarriesOrigin'
<1> USE DEF table, handler, history
<1>1. TypeInv /\ rows \in [Ids -> Row] /\ link \in [Events -> Ids \cup {NoBatch}]
  BY DEF AccountInv, TypeInv, TypeOK
<1>2. ASSUME UNCHANGED <<link, sends>>,
             \A id \in Ids : rows'[id].status = "pending" /\ rows'[id].attempts = 0 =>
               /\ rows[id].status = "pending" /\ rows[id].attempts = 0
               /\ rows[id].body = rows'[id].body
      PROVE  UnattemptedCarriesOrigin'
  BY <1>1, <1>2, OriginUntouched
<1>3. CASE UNCHANGED vars
  BY <1>2, <1>3 DEF vars
<1>4. ASSUME NEW c \in Customers, EraseByPhone(c)
      PROVE  UnattemptedCarriesOrigin'
  <2> DEFINE gone == Targets(c)
  <2>1. /\ \A id \in Ids : rows'[id] = Rewritten(rows[id], gone)
        /\ \A e \in Events : link'[e] = IF e \in gone THEN NoBatch ELSE link[e]
        /\ \A w \in Wamids : sends'[w] \in {sends[w], "forgotten"}
        /\ gone \in SUBSET Events
    BY <1>4 DEF EraseByPhone, Targets
  <2> HIDE DEF gone, table, handler, history
  <2>2. \A id \in Ids : rows'[id].status = "pending" /\ rows'[id].attempts = 0 =>
          /\ rows[id].status = "pending" /\ rows[id].attempts = 0
          /\ rows[id].body.tagged \ gone \subseteq rows'[id].body.tagged
    BY <1>1, <2>1, RewrittenTags
  <2> QED
    BY <1>1, <2>1, <2>2, OriginKept
<1>5. CASE \/ \E ok \in BOOLEAN : PurgeReturns(ok)
           \/ \E url \in BOOLEAN : SetSubscriberConfig(url)
           \/ OtherWork
  BY <1>2, <1>5 DEF PurgeReturns, SetSubscriberConfig, OtherWork
<1>6. /\ \A id \in Ids : ~RetryDelivery(id)
      /\ \A from, to \in Ids : ~RetryFailedDeliveries(from, to)
  BY DEF RetryDelivery, RetryFailedDeliveries, Operator
<1>7. CASE Requests
  BY <1>4, <1>5, <1>6, <1>7, OriginArrives DEF Requests
<1>8. ASSUME NEW id \in Ids, ProcessDelivery(id)
      PROVE  UnattemptedCarriesOrigin'
  <2>1. job[id] \in Job /\ job[id].attempts < MaxAttempts
    BY <1>8 DEF AccountInv, TypeInv, TypeOK, ProcessDelivery, JobHasAttemptsLeft, InPool
  <2>2. /\ UNCHANGED <<link, sends>>
        /\ rows' = rows \/ rows' = [rows EXCEPT ![id] = Settled(rows[id], job[id])]
    BY <1>8 DEF ProcessDelivery
  <2>3. Settled(rows[id], job[id]).attempts # 0
    <3>1. Settled(rows[id], job[id]).attempts = job[id].attempts + 1
      BY <1>1, <2>1, SettledType
    <3> QED
      BY <2>1, <3>1 DEF Job
  <2>4. \A i \in Ids : rows'[i] = rows[i] \/ rows'[i].attempts # 0
    BY <1>1, <2>2, <2>3
  <2> QED
    BY <1>2, <2>2, <2>4
<1>9. ASSUME NEW old \in SUBSET Wamids, PruneExpired(old)
      PROVE  UnattemptedCarriesOrigin'
  <2>1. /\ \A e \in Events : link'[e] # NoBatch => link'[e] = link[e]
        /\ \A w \in Wamids : sends'[w] = "logged" => sends[w] = "logged"
        /\ \A id \in Ids : rows'[id] = rows[id] \/ rows'[id] = Pruned(rows[id])
    BY <1>1, <1>9 DEF PruneExpired
  <2>2. \A id \in Ids : rows'[id].status = "pending" => rows'[id] = rows[id]
    BY <1>1, <2>1, PrunedType
  <2> QED
    BY <1>1, <2>1, <2>2, OriginUntouched
<1>10. CASE \/ AlarmFires \/ ComputeWakes
            \/ \E id \in Ids : \/ ForwardOne(id)
                               \/ \E processed, ok \in BOOLEAN : SubscriberAnswers(id, processed, ok)
                               \/ AlertReturns(id)
            \/ \E others \in SUBSET OtherWakes : AlarmReturns(others)
  BY <1>2, <1>10 DEF AlarmFires, ComputeWakes, ForwardOne, SubscriberAnswers, AlertReturns,
     AlarmReturns
<1>11. CASE Environment
  <2>1. CASE Crash
    BY <1>2, <2>1 DEF Crash
  <2>2. CASE Tick \/ \E id \in Ids : Age(id)
    <3>1. UNCHANGED <<link, sends>>
      BY <2>2 DEF Tick, Age
    <3>2. \A id \in Ids : /\ rows'[id].status = rows[id].status
                          /\ rows'[id].attempts = rows[id].attempts
                          /\ rows'[id].body = rows[id].body
      BY <1>1, <2>2 DEF Tick, Age, Row
    <3> QED
      BY <1>2, <3>1, <3>2
  <2> QED
    BY <1>11, <2>1, <2>2 DEF Environment
<1> QED
  BY <1>3, <1>7, <1>8, <1>9, <1>10, <1>11 DEF Next, Handler

(* Without an operator's retry a batch that was never attempted carries the  *)
(* origin of each send that its status events name, whichever of a status    *)
(* and the log of its send came first and whatever retention and erasure     *)
(* take of them.                                                             *)
THEOREM OriginIsCarried ==
  ASSUME "retry" \notin Calls
  PROVE  Spec => []UnattemptedCarriesOrigin
<1>1. Init => UnattemptedCarriesOrigin
  BY DEF Init, UnattemptedCarriesOrigin
<1>2. AccountInv /\ UnattemptedCarriesOrigin /\ [Next]_vars => UnattemptedCarriesOrigin'
  BY OriginStep, TypeNext DEF AccountInv
<1>3. AccountInv /\ [Next]_vars => AccountInv'
  BY AccountNext
<1> QED
  BY AccountInit, <1>1, <1>2, <1>3, PTL DEF Spec

-----------------------------------------------------------------------------
(* The promise of the queue.  The stored count may have forgotten attempts,  *)
(* in a restart or in an operator's retry, but it counts none that was not   *)
(* made; neither does the copy that the pool works with, whose count the     *)
(* UPDATE after a forward writes back over whatever the row has by then.     *)

TriedCounts ==
  /\ tried \in [Ids -> 0..MaxAttempts]
  /\ \A id \in Ids :
       /\ rows[id].attempts <= tried[id]
       /\ InPool(id) => job[id].attempts <= tried[id]
       /\ InPool(id) /\ job[id].phase # "queued" => job[id].attempts < tried[id]

OldAreWithdrawn ==
  \A id \in Ids : Stored(id) /\ rows[id].age >= 1 => id \in withdrawn

HistoryInv == AccountInv /\ TriedCounts /\ OldAreWithdrawn

(* What a step may do to a row and to the pool's copy of it. *)
Answered(id) ==
  /\ job[id].phase \in {"accepted", "refused"}
  /\ rows'[id].attempts = job[id].attempts + 1
StatusMoves(id) ==
  \/ rows'[id].status = rows[id].status
  \/ rows[id].status = "none" /\ rows'[id].status = "pending"
  \/ Terminal(id) /\ rows'[id].status = "pending" /\ calls' < calls
  \/ /\ Pending(id) /\ Answered(id)
     /\ \/ rows'[id].status = "delivered" /\ job[id].phase = "accepted"
        \/ rows'[id].status = "failed" /\ job[id].attempts + 1 >= MaxAttempts
  \/ /\ Stored(id) /\ rows'[id].status = "gone"
     /\ rows[id].age >= 1 \/ rows[id].body.events \subseteq erased'
RowMoves(id) ==
  /\ rows'[id].attempts <= rows[id].attempts \/ Answered(id)
  /\ Stored(id)' => Stored(id) \/ rows'[id].age = 0
  /\ StatusMoves(id)
JobMoves(id) ==
  InPool(id)' =>
    \/ job'[id].phase = "queued" /\ job'[id].attempts = rows[id].attempts
    \/ /\ InPool(id) /\ job'[id].attempts = job[id].attempts
       /\ \/ job'[id].phase = "queued" \/ job[id].phase # "queued"
          \/ job'[id].phase \in {"fetching", "refused"}

LEMMA RowKept ==
  ASSUME AccountInv, NEW id \in Ids,
         rows'[id].status = rows[id].status,
         rows'[id].attempts = rows[id].attempts \/ rows'[id].attempts = 0
  PROVE  RowMoves(id)
<1>1. rows[id] \in Row /\ rows[id].attempts \in Nat
  BY DEF AccountInv, TypeInv, TypeOK, Row
<1> QED
  BY <1>1 DEF RowMoves, StatusMoves, Stored, Pending, Terminal

LEMMA RowMovesRequests ==
  ASSUME AccountInv, Requests, NEW id \in Ids
  PROVE  RowMoves(id)
<1> USE DEF AccountInv, table, handler, history
<1>1. rows \in [Ids -> Row] /\ rows[id] \in Row /\ calls \in Nat
  BY DEF TypeInv, TypeOK
<1>2. rows[id].attempts \in Nat
  BY <1>1 DEF Row
<1>3. CASE rows'[id] = rows[id]
  BY <1>3, RowKept
<1>4. CASE \E S \in SUBSET Events, i \in Ids : Ingest(S, i)
  <2>1. PICK S \in SUBSET Events, i \in Ids : Ingest(S, i)
    BY <1>4
  <2>2. CASE i # id
    <3>1. rows'[id] = rows[id]
      BY <1>1, <2>1, <2>2 DEF Ingest
    <3> QED BY <1>3, <3>1
  <2>3. CASE i = id
    <3>1. rows[id].status = "none"
      BY <2>1, <2>3 DEF Ingest, NextId
    <3> DEFINE body == [events |-> S,
                        tagged |-> {e \in S : About[e] \in Wamids
                                              /\ sends[About[e]] = "logged"}]
               row == [NoRow EXCEPT !.status = "pending", !.body = body]
    <3>2. rows'[id] = row
      BY <1>1, <2>1, <2>3 DEF Ingest
    <3>3. row.attempts = 0 /\ row.age = 0 /\ row.status = "pending"
      BY DEF NoRow
    <3> HIDE DEF row
    <3> QED BY <1>2, <3>1, <3>2, <3>3 DEF RowMoves, StatusMoves
  <2> QED BY <2>2, <2>3
<1>5. CASE \E w \in Wamids : LogOutbound(w)
  <2>1. PICK T : rows'[id] = rows[id] \/ rows'[id] = [rows[id] EXCEPT !.body.tagged = T]
    BY <1>5 DEF LogOutbound
  <2>2. rows'[id].status = rows[id].status /\ rows'[id].attempts = rows[id].attempts
    BY <1>1, <2>1 DEF Row
  <2> QED BY <2>2, RowKept
<1>6. CASE \/ \E i \in Ids : RetryDelivery(i)
           \/ \E from, to \in Ids : RetryFailedDeliveries(from, to)
  <2>1. rows'[id] = rows[id] \/ (rows'[id] = Requeued(rows[id]) /\ Stored(id))
    BY <1>1, <1>6 DEF RetryDelivery, RetryFailedDeliveries, Stored, Terminal
  <2>2. calls' < calls
    BY <1>1, <1>6 DEF RetryDelivery, RetryFailedDeliveries, Operator
  <2>3. CASE rows'[id] = Requeued(rows[id]) /\ Stored(id)
    <3>1. rows'[id].status = "pending" /\ rows'[id].attempts = 0
      BY <1>1, <2>3, RequeuedType
    <3> QED
      BY <1>2, <2>2, <2>3, <3>1 DEF RowMoves, StatusMoves, Stored, Pending
  <2> QED BY <1>3, <2>1, <2>3
<1>7. CASE \E c \in Customers : EraseByPhone(c)
  <2>1. PICK c \in Customers : EraseByPhone(c)
    BY <1>7
  <2> DEFINE gone == Targets(c)
  <2>2. rows'[id] = Rewritten(rows[id], gone) /\ gone \in SUBSET Events
    BY <2>1 DEF EraseByPhone, Targets
  <2>3. erased' = erased \cup gone
    BY <2>1 DEF EraseByPhone
  <2> HIDE DEF gone
  <2>4. rows'[id].attempts <= rows[id].attempts
    BY <1>1, <2>2, RewrittenType
  <2>5. CASE rows'[id].status = rows[id].status
    BY <1>2, <2>4, <2>5 DEF RowMoves, StatusMoves, Stored, Pending, Terminal
  <2>6. CASE rows'[id] = Gone /\ rows[id].status = "pending" /\ rows[id].body.events \ gone = {}
    <3>1. rows'[id].status = "gone" /\ rows[id].body.events \subseteq erased'
      BY <2>3, <2>6 DEF Gone, NoRow
    <3> QED
      BY <2>4, <2>6, <3>1 DEF RowMoves, StatusMoves, Stored, Pending, Terminal
  <2> QED BY <1>1, <2>2, <2>5, <2>6, RewrittenType
<1>8. CASE \/ \E url \in BOOLEAN : SetSubscriberConfig(url)
           \/ \E ok \in BOOLEAN : PurgeReturns(ok)
           \/ OtherWork
  <2>1. rows' = rows
    BY <1>8 DEF SetSubscriberConfig, PurgeReturns, OtherWork
  <2> QED BY <1>3, <2>1
<1> QED
  BY <1>4, <1>5, <1>6, <1>7, <1>8 DEF Requests

LEMMA RowMovesSettled ==
  ASSUME AccountInv, NEW i \in Ids, ProcessDelivery(i), NEW id \in Ids
  PROVE  RowMoves(id)
<1> USE DEF AccountInv
<1>1. rows \in [Ids -> Row] /\ rows[id] \in Row
  BY DEF TypeInv, TypeOK
<1>2. CASE rows'[id] = rows[id]
  BY <1>2, RowKept
<1>3. CASE i = id /\ rows'[id] # rows[id]
  <2> DEFINE j == job[id]
             new == Settled(rows[id], j)
  <2>1. /\ j \in Job /\ j.phase \in {"accepted", "refused"} /\ InPool(id)
        /\ rows'[id] = new /\ Stored(id)
    BY <1>1, <1>3 DEF ProcessDelivery, TypeInv, TypeOK, InPool
  <2>2. j.attempts < MaxAttempts
    BY <2>1 DEF TypeInv, JobHasAttemptsLeft
  <2>3. rows[id].status = "pending"
    BY <2>1 DEF PoolInv, PoolAgreesWithTable, Stored, Pending, Terminal
  <2> HIDE DEF j
  <2>4. /\ new.attempts = j.attempts + 1
        /\ new.status = IF j.phase = "accepted" THEN "delivered"
                        ELSE IF j.phase = "refused" /\ j.attempts + 1 >= MaxAttempts
                             THEN "failed" ELSE rows[id].status
    BY <1>1, <2>1, <2>2, SettledType
  <2>5. Answered(id)
    BY <2>1, <2>4 DEF Answered, j
  <2>6. StatusMoves(id)
    BY <2>1, <2>3, <2>4, <2>5 DEF StatusMoves, Pending, j
  <2> QED
    BY <2>1, <2>5, <2>6 DEF RowMoves
<1>4. i # id => rows'[id] = rows[id]
  BY <1>1 DEF ProcessDelivery
<1> QED
  BY <1>2, <1>3, <1>4

LEMMA RowMovesPruned ==
  ASSUME AccountInv, NEW old \in SUBSET Wamids, PruneExpired(old), NEW id \in Ids
  PROVE  RowMoves(id)
<1>1. rows \in [Ids -> Row] /\ rows[id] \in Row
  BY DEF AccountInv, TypeInv, TypeOK
<1>2. rows'[id] = rows[id] \/ rows'[id] = Pruned(rows[id])
  BY <1>1 DEF PruneExpired, table
<1>3. CASE rows'[id].status = rows[id].status
  <2>1. rows'[id].attempts = rows[id].attempts \/ rows'[id].attempts = 0
    BY <1>1, <1>2 DEF Pruned, Row, Gone, NoRow
  <2> QED
    BY <1>3, <2>1, RowKept
<1>4. CASE rows'[id].status # rows[id].status
  <2>1. /\ rows'[id] = Gone /\ rows[id].age >= 1
        /\ rows[id].status \in {"pending", "delivered", "failed"}
    BY <1>1, <1>2, <1>4 DEF Pruned, Row
  <2>2. rows'[id].status = "gone" /\ rows'[id].attempts = 0 /\ rows[id].attempts \in Nat
    BY <1>1, <2>1 DEF Gone, NoRow, Row
  <2> QED
    BY <2>1, <2>2 DEF RowMoves, StatusMoves, Stored, Pending, Terminal
<1> QED
  BY <1>3, <1>4

LEMMA RowMovesNext ==
  ASSUME AccountInv, [Next]_vars, NEW id \in Ids
  PROVE  RowMoves(id)
<1> USE DEF table, handler, history
<1>1. CASE rows' = rows
  BY <1>1, RowKept
<1>2. CASE Requests
  BY <1>2, RowMovesRequests
<1>3. CASE \E i \in Ids : ProcessDelivery(i)
  BY <1>3, RowMovesSettled
<1>4. CASE \E old \in SUBSET Wamids : PruneExpired(old)
  BY <1>4, RowMovesPruned
<1>5. CASE Tick \/ \E i \in Ids : Age(i)
  <2>1. /\ rows'[id].status = rows[id].status
        /\ rows'[id].attempts = rows[id].attempts
    BY <1>5 DEF Tick, Age, AccountInv, TypeInv, TypeOK, Row
  <2> QED BY <2>1, RowKept
<1>6. \/ Requests \/ rows' = rows
      \/ \E i \in Ids : ProcessDelivery(i)
      \/ \E old \in SUBSET Wamids : PruneExpired(old)
      \/ Tick \/ \E i \in Ids : Age(i)
  BY DEF Next, Handler, Environment, vars, AlarmFires, ForwardOne, SubscriberAnswers,
     AlertReturns, ComputeWakes, AlarmReturns, Crash
<1> QED
  BY <1>1, <1>2, <1>3, <1>4, <1>5, <1>6
LEMMA JobMovesNext ==
  ASSUME AccountInv, [Next]_vars, NEW id \in Ids
  PROVE  JobMoves(id)
<1> USE DEF table, handler, history
<1>1. job \in [Ids -> Job] /\ job[id] \in Job
  BY DEF AccountInv, TypeInv, TypeOK
<1>2. NoJob.phase = "none"
  BY DEF NoJob
<1>3. CASE job'[id] = job[id] \/ job'[id] = NoJob
  BY <1>2, <1>3 DEF JobMoves, InPool
<1>4. CASE AlarmFires
  <2>1. \/ job'[id] = NoJob
        \/ job'[id].phase = "queued" /\ job'[id].attempts = rows[id].attempts
    BY <1>4 DEF AlarmFires
  <2> QED BY <1>3, <2>1 DEF JobMoves
<1>5. CASE \E i \in Ids : ForwardOne(i)
  <2>1. PICK i \in Ids : ForwardOne(i)
    BY <1>5
  <2>2. CASE i = id
    <3>1. /\ job[id].phase = "queued"
          /\ job'[id].phase \in {"fetching", "refused"}
          /\ job'[id].attempts = job[id].attempts
      BY <1>1, <2>1, <2>2 DEF ForwardOne, Job
    <3> QED BY <3>1 DEF JobMoves, InPool
  <2>3. CASE i # id
    <3>1. job'[id] = job[id]
      BY <1>1, <2>1, <2>3 DEF ForwardOne
    <3> QED BY <1>3, <3>1
  <2> QED BY <2>2, <2>3
<1>6. CASE \E i \in Ids, processed, ok \in BOOLEAN : SubscriberAnswers(i, processed, ok)
  <2>1. PICK i \in Ids, processed, ok \in BOOLEAN : SubscriberAnswers(i, processed, ok)
    BY <1>6
  <2>2. CASE i = id
    <3>1. /\ job[id].phase = "fetching"
          /\ job'[id].attempts = job[id].attempts
      BY <1>1, <2>1, <2>2 DEF SubscriberAnswers, Job
    <3> QED BY <3>1 DEF JobMoves, InPool
  <2>3. CASE i # id
    <3>1. job'[id] = job[id]
      BY <1>1, <2>1, <2>3 DEF SubscriberAnswers
    <3> QED BY <1>3, <3>1
  <2> QED BY <2>2, <2>3
<1>7. CASE \E i \in Ids : ProcessDelivery(i)
  <2>1. PICK i \in Ids : ProcessDelivery(i)
    BY <1>7
  <2>2. CASE i = id
    <3>1. job'[id] = NoJob \/ job'[id].phase = "alerting"
      BY <1>1, <2>1, <2>2 DEF ProcessDelivery, Job
    <3> QED BY <1>3, <3>1 DEF JobMoves, InPool
  <2>3. CASE i # id
    <3>1. job'[id] = job[id]
      BY <1>1, <2>1, <2>3 DEF ProcessDelivery
    <3> QED BY <1>3, <3>1
  <2> QED BY <2>2, <2>3
<1>8. CASE Crash \/ \E i \in Ids : AlertReturns(i)
  <2>1. job'[id] = job[id] \/ job'[id] = NoJob
    BY <1>1, <1>8 DEF Crash, AlertReturns
  <2> QED BY <1>3, <2>1
<1>9. \/ job' = job
      \/ AlarmFires
      \/ \E i \in Ids : ForwardOne(i)
      \/ \E i \in Ids, processed, ok \in BOOLEAN : SubscriberAnswers(i, processed, ok)
      \/ \E i \in Ids : ProcessDelivery(i)
      \/ Crash \/ \E i \in Ids : AlertReturns(i)
  <2>1. Requests => job' = job
    BY DEF Requests, Ingest, LogOutbound, SetSubscriberConfig, RetryDelivery,
       RetryFailedDeliveries, EraseByPhone, PurgeReturns, OtherWork
  <2>2. /\ \A old \in SUBSET Wamids : PruneExpired(old) => job' = job
        /\ ComputeWakes => job' = job
        /\ \A others \in SUBSET OtherWakes : AlarmReturns(others) => job' = job
        /\ Tick \/ (\E i \in Ids : Age(i)) => job' = job
        /\ UNCHANGED vars => job' = job
    BY DEF PruneExpired, ComputeWakes, AlarmReturns, Tick, Age, vars
  <2> HIDE DEF table, handler, history
  <2> QED
    BY <2>1, <2>2 DEF Next, Handler, Environment
<1> QED
  BY <1>3, <1>4, <1>5, <1>6, <1>7, <1>8, <1>9

(* The subscriber never loses what it has, and operators' calls run out.     *)
LEMMA GotGrowsCallsFall ==
  ASSUME AccountInv, [Next]_vars
  PROVE  calls' <= calls /\ \A id \in Ids : got[id] \subseteq got'[id]
<1> USE DEF table, handler, history
<1>1. got \in [Ids -> SUBSET Body] /\ calls \in Nat
  BY DEF AccountInv, TypeInv, TypeOK
<1>2. CASE Requests
  <2>1. got' = got
    BY <1>2 DEF Requests, Ingest, LogOutbound, SetSubscriberConfig, RetryDelivery,
       RetryFailedDeliveries, EraseByPhone, PurgeReturns, OtherWork
  <2>2. calls' = calls \/ calls' = calls - 1
    BY <1>2 DEF Requests, Ingest, LogOutbound, SetSubscriberConfig, RetryDelivery,
       RetryFailedDeliveries, EraseByPhone, PurgeReturns, OtherWork, Operator
  <2> QED BY <1>1, <2>1, <2>2
<1>3. CASE \E i \in Ids, processed, ok \in BOOLEAN : SubscriberAnswers(i, processed, ok)
  BY <1>1, <1>3 DEF SubscriberAnswers
<1>4. CASE got' = got /\ calls' = calls
  BY <1>1, <1>4
<1>5. \/ Requests
      \/ got' = got /\ calls' = calls
      \/ \E i \in Ids, processed, ok \in BOOLEAN : SubscriberAnswers(i, processed, ok)
  <2> DEFINE kept == got' = got /\ calls' = calls
  <2>1. /\ AlarmFires => kept
        /\ \A i \in Ids : ForwardOne(i) \/ ProcessDelivery(i) \/ AlertReturns(i) => kept
    BY DEF AlarmFires, ForwardOne, ProcessDelivery, AlertReturns
  <2>2. /\ \A old \in SUBSET Wamids : PruneExpired(old) => kept
        /\ ComputeWakes => kept
        /\ \A others \in SUBSET OtherWakes : AlarmReturns(others) => kept
    BY DEF PruneExpired, ComputeWakes, AlarmReturns
  <2>3. Environment \/ UNCHANGED vars => kept
    BY DEF Environment, vars, Crash, Tick, Age
  <2> HIDE DEF kept
  <2>4. \/ Requests \/ kept
        \/ \E i \in Ids, processed, ok \in BOOLEAN : SubscriberAnswers(i, processed, ok)
    BY <2>1, <2>2, <2>3 DEF Next, Handler
  <2> QED BY <2>4 DEF kept
<1> QED
  BY <1>2, <1>3, <1>4, <1>5

LEMMA HistoryStarts == HistoryInit => HistoryInv
<1> SUFFICES ASSUME HistoryInit PROVE HistoryInv
  OBVIOUS
<1>1. AccountInv
  BY AccountInit DEF HistoryInit
<1>2. \A id \in Ids : rows[id].status = "none" /\ rows[id].attempts = 0 /\ ~InPool(id)
  BY DEF HistoryInit, Init, NoRow, NoJob, InPool
<1>3. TriedCounts
  BY <1>2, LimitsAssumption DEF HistoryInit, TriedCounts
<1>4. OldAreWithdrawn
  BY <1>2 DEF OldAreWithdrawn, Stored, Pending, Terminal
<1> QED
  BY <1>1, <1>3, <1>4 DEF HistoryInv

(* An attempt that is not counted for want of room was not needed: the row   *)
(* had been tried MaxAttempts times, and the copy of it fewer.               *)
LEMMA TriedStep ==
  ASSUME HistoryInv, [HistoryNext]_historyVars, NEW id \in Ids
  PROVE  /\ tried[id] \in 0..MaxAttempts /\ tried'[id] \in 0..MaxAttempts
         /\ tried[id] <= tried'[id]
         /\ (/\ job[id].phase = "queued" /\ job'[id].phase \in {"fetching", "refused"}
             /\ job[id].attempts < MaxAttempts /\ job[id].attempts <= tried[id])
              => job[id].attempts < tried'[id]
<1>1. tried[id] \in 0..MaxAttempts /\ MaxAttempts \in Nat
  BY LimitsAssumption DEF HistoryInv, TriedCounts
<1>2. job[id].attempts \in Nat
  BY DEF HistoryInv, AccountInv, TypeInv, TypeOK, Job
<1>3. CASE HistoryNext
  <2>1. tried'[id] = IF Attempted(id) THEN tried[id] + 1 ELSE tried[id]
    BY <1>3 DEF HistoryNext
  <2>2. CASE Attempted(id)
    <3>1. tried'[id] = tried[id] + 1 /\ tried[id] < MaxAttempts
      BY <2>1, <2>2 DEF Attempted
    <3>2. \A a \in Nat, t \in 0..MaxAttempts : t < MaxAttempts =>
            t + 1 \in 0..MaxAttempts /\ t <= t + 1 /\ (a <= t => a < t + 1)
      BY <1>1
    <3> QED BY <1>1, <1>2, <3>1, <3>2
  <2>3. CASE ~Attempted(id)
    <3>1. tried'[id] = tried[id]
      BY <2>1, <2>3
    <3>2. tried[id] <= tried[id] /\ (tried[id] < MaxAttempts \/ tried[id] = MaxAttempts)
      BY <1>1
    <3> QED BY <1>1, <2>3, <3>1, <3>2 DEF Attempted
  <2> QED BY <2>2, <2>3
<1>4. CASE UNCHANGED historyVars
  <2>1. tried' = tried /\ job' = job
    BY <1>4 DEF historyVars, vars
  <2> QED BY <1>1, <1>2, <2>1
<1> QED
  BY <1>3, <1>4

LEMMA HistoryStep ==
  ASSUME HistoryInv, [HistoryNext]_historyVars
  PROVE  HistoryInv'
<1>1. AccountInv /\ [Next]_vars
  BY DEF HistoryInv, HistoryNext, historyVars
<1>2. AccountInv'
  BY <1>1, AccountNext
<1>3. TriedCounts'
  <2>1. tried' \in [Ids -> 0..MaxAttempts]
    <3>1. \A id \in Ids : tried'[id] \in 0..MaxAttempts
      BY TriedStep
    <3>2. tried' = [id \in Ids |-> tried'[id]]
      BY DEF HistoryNext, historyVars, HistoryInv, TriedCounts
    <3> QED BY <3>1, <3>2
  <2>2. ASSUME NEW id \in Ids
        PROVE  /\ rows'[id].attempts <= tried'[id]
               /\ InPool(id)' => job'[id].attempts <= tried'[id]
               /\ InPool(id)' /\ job'[id].phase # "queued"
                    => job'[id].attempts < tried'[id]
    <3>1. /\ tried[id] \in Nat /\ tried'[id] \in Nat /\ tried[id] <= tried'[id]
          /\ rows[id].attempts \in Nat /\ rows'[id].attempts \in Nat
          /\ job[id].attempts \in Nat /\ job'[id].attempts \in Nat
      BY <1>1, <1>2, TriedStep DEF AccountInv, TypeInv, TypeOK, Row, Job
    <3>2. /\ rows[id].attempts <= tried[id]
          /\ InPool(id) => job[id].attempts <= tried[id]
          /\ InPool(id) /\ job[id].phase # "queued" => job[id].attempts < tried[id]
          /\ InPool(id) => job[id].attempts < MaxAttempts
      BY <1>1 DEF HistoryInv, TriedCounts, AccountInv, TypeInv, JobHasAttemptsLeft
    <3>3. RowMoves(id) /\ JobMoves(id)
      BY <1>1, RowMovesNext, JobMovesNext
    <3>4. rows'[id].attempts <= tried'[id]
      BY <3>1, <3>2, <3>3 DEF RowMoves, Answered, InPool
    <3>5. InPool(id)' => job'[id].attempts <= tried'[id]
      BY <3>1, <3>2, <3>3 DEF JobMoves
    <3>6. InPool(id)' /\ job'[id].phase # "queued" => job'[id].attempts < tried'[id]
      BY <3>1, <3>2, <3>3, TriedStep DEF JobMoves
    <3> QED BY <3>4, <3>5, <3>6
  <2> QED BY <2>1, <2>2 DEF TriedCounts
<1>4. OldAreWithdrawn'
  <2> SUFFICES ASSUME NEW id \in Ids, Stored(id)', rows'[id].age >= 1
               PROVE  id \in withdrawn'
    BY DEF OldAreWithdrawn
  <2>1. Stored(id)
    BY <1>1, RowMovesNext DEF RowMoves
  <2>2. CASE HistoryNext
    BY <2>1, <2>2 DEF HistoryNext, Withdrawn
  <2>3. CASE UNCHANGED historyVars
    BY <2>1, <2>3 DEF historyVars, vars, HistoryInv, OldAreWithdrawn
  <2> QED BY <2>2, <2>3
<1> QED
  BY <1>2, <1>3, <1>4 DEF HistoryInv

(* Each step of the queue keeps the promise: a status moves only as          *)
(* StatusMoves says, and the history holds the reason.                       *)
LEMMA PromiseStep ==
  ASSUME HistoryInv, HistoryInv', [HistoryNext]_historyVars
  PROVE  DeliveryPromise!Next
<1> DEFINE said == [id \in Ids |-> Says(id)]
           has == {id \in Ids : \E b \in got[id] : b.events # {}}
<1>1. AccountInv /\ [Next]_vars
  BY DEF HistoryInv, HistoryNext, historyVars
<1>2. has \subseteq has'
  BY <1>1, GotGrowsCallsFall
<1>3. withdrawn \subseteq withdrawn'
  BY DEF HistoryNext, historyVars
<1>4. /\ MaxCalls - calls <= MaxCalls - calls'
      /\ calls' < calls => MaxCalls - calls < MaxCalls - calls'
  <2>1. calls \in Nat /\ calls' \in Nat /\ MaxCalls \in Nat
    BY LimitsAssumption DEF AccountInv, HistoryInv, TypeInv, TypeOK
  <2>2. calls' <= calls
    BY <1>1, GotGrowsCallsFall
  <2>3. \A m, c, d \in Nat : /\ d <= c => m - c <= m - d
                             /\ d < c => m - c < m - d
    OBVIOUS
  <2> QED BY <2>1, <2>2, <2>3, Zenon
<1>5. ASSUME NEW d \in Ids
      PROVE  /\ tried[d] <= tried'[d]
             /\ said'[d] # said[d] => DeliveryPromise!MayBe(d, said'[d])
  <2>1. said[d] = Says(d) /\ said'[d] = Says(d)'
    OBVIOUS
  <2>2. tried[d] <= tried'[d]
    BY TriedStep
  <2>3. ASSUME said'[d] # said[d]
        PROVE  DeliveryPromise!MayBe(d, said'[d])
    <3>1. rows[d].status \in Status /\ rows'[d].status \in Status
      BY DEF HistoryInv, AccountInv, TypeInv, TypeOK, Row
    <3>2. StatusMoves(d) /\ rows'[d].status # rows[d].status
      BY <1>1, <2>1, <2>3, RowMovesNext DEF RowMoves, Says
    <3> HIDE DEF said, has
    <3>3. CASE rows[d].status = "none" /\ rows'[d].status = "pending"
      <4>1. said[d] = "none" /\ said'[d] = "open"
        BY <2>1, <3>3 DEF Says
      <4> QED BY <4>1 DEF DeliveryPromise!MayBe, DeliveryPromise!Ended, said
    <3>4. CASE Terminal(d) /\ rows'[d].status = "pending" /\ calls' < calls
      <4>1. said[d] \in {"delivered", "failed"} /\ said'[d] = "open"
        BY <2>1, <3>4 DEF Says, Terminal
      <4> QED BY <1>4, <3>4, <4>1 DEF DeliveryPromise!MayBe, DeliveryPromise!Ended, said
    <3>5. CASE Pending(d) /\ rows'[d].status = "delivered" /\ job[d].phase = "accepted"
      <4>1. said[d] = "open" /\ said'[d] = "delivered"
        BY <2>1, <3>5 DEF Says, Pending
      <4>2. job[d].body \in got[d] /\ job[d].body.events # {}
        BY <1>1, <3>5 DEF AccountInv, PoolInv, AcceptedWasGot, ContentInv, NeverForwardsRedacted
      <4>3. d \in has
        BY <4>2 DEF has
      <4> QED BY <4>1, <4>3 DEF DeliveryPromise!MayBe, said, has
    <3>6. CASE /\ Pending(d) /\ Answered(d) /\ rows'[d].status = "failed"
               /\ job[d].attempts + 1 >= MaxAttempts
      <4>1. said[d] = "open" /\ said'[d] = "failed"
        BY <2>1, <3>6 DEF Says, Pending
      <4>2. /\ rows'[d].attempts <= tried'[d] /\ rows'[d].attempts >= MaxAttempts
            /\ rows'[d].attempts \in Nat /\ tried'[d] \in Nat /\ MaxAttempts \in Nat
        BY <3>6, LimitsAssumption DEF HistoryInv, TriedCounts, Answered, AccountInv,
           TypeInv, TypeOK, Row
      <4>3. tried'[d] >= MaxAttempts
        BY <4>2
      <4> QED BY <4>1, <4>3 DEF DeliveryPromise!MayBe, said
    <3>7. CASE /\ Stored(d) /\ rows'[d].status = "gone"
               /\ rows[d].age >= 1 \/ rows[d].body.events \subseteq erased'
      <4>1. said'[d] = "deleted"
        BY <2>1, <3>7 DEF Says
      <4>2. CASE rows[d].age >= 1
        BY <1>3, <3>7, <4>1, <4>2 DEF DeliveryPromise!MayBe, HistoryInv, OldAreWithdrawn, said
      <4>3. CASE rows[d].body.events \subseteq erased'
        <5>1. HistoryNext
          BY <3>2 DEF historyVars, vars
        <5>2. d \in withdrawn'
          BY <3>7, <4>3, <5>1 DEF HistoryNext, Withdrawn
        <5> QED BY <4>1, <5>2 DEF DeliveryPromise!MayBe, said
      <4> QED BY <3>7, <4>2, <4>3
    <3> QED
      BY <3>1, <3>2, <3>3, <3>4, <3>5, <3>6, <3>7 DEF StatusMoves
  <2> QED BY <2>2, <2>3
<1> QED
  BY <1>2, <1>3, <1>4, <1>5 DEF DeliveryPromise!Next

(* The Durable Object's queue keeps the same promise as the self-hosted one, *)
(* for any number of rows, calls and restarts: what alarm() writes of a row  *)
(* it captured earlier is true of it whatever a retry, an erasure, retention *)
(* or a restart has done since (processDelivery, pruneExpired, eraseByPhone).*)
THEOREM DeliveryPromiseIsKept == HistorySpec => DeliveryKeepsPromise
<1>1. HistoryInit => DeliveryPromise!Init
  <2> SUFFICES ASSUME HistoryInit PROVE DeliveryPromise!Init
    OBVIOUS
  <2>1. /\ [id \in Ids |-> Says(id)] = [id \in Ids |-> "none"]
        /\ {id \in Ids : \E b \in got[id] : b.events # {}} = {}
        /\ MaxCalls - calls = 0
    BY LimitsAssumption DEF HistoryInit, Init, NoRow, Says
  <2> QED
    BY <2>1 DEF HistoryInit, DeliveryPromise!Init
<1>2. HistoryInv /\ [HistoryNext]_historyVars => HistoryInv'
  BY HistoryStep
<1>3. HistoryInv /\ HistoryInv' /\ [HistoryNext]_historyVars => DeliveryPromise!Next
  BY PromiseStep
<1> QED
  BY HistoryStarts, <1>1, <1>2, <1>3, PTL
     DEF HistorySpec, DeliveryKeepsPromise, DeliveryPromise!Safe

(* The history is only kept: what is proved of Delivery holds with it.       *)
LEMMA HistoryIsDelivery == HistorySpec => Spec
<1>1. HistoryInit => Init
  BY DEF HistoryInit
<1>2. [HistoryNext]_historyVars => [Next]_vars
  BY DEF HistoryNext, historyVars
<1> QED
  BY <1>1, <1>2, PTL DEF HistorySpec, Spec
=============================================================================
