---------------------------- MODULE ScheduledProofs ----------------------------
(***************************************************************************)
(* Theorems about Scheduled, for every value of the constants: types, the  *)
(* promise of a send (SendPromise) for every row ever created, what is     *)
(* posted and told, and the alarm.                                         *)
(***************************************************************************)
EXTENDS Scheduled, NaturalsInduction, WellFoundedInduction, TLAPS

-----------------------------------------------------------------------------
(* Types.  An open row has an attempt left; a pending one is due no later    *)
(* than it expires, or the expiry would not find it.                         *)

GoodRow ==
  {row \in Row :
     /\ row.status \in {"pending", "sending"} => row.attempts < MaxThrottled
     /\ row.status = "pending" => row.due <= row.exp
     /\ row.status # "gone" => row.version > 0}
RowsAreGood == rows \in [Keys -> GoodRow]

TypeInv == TypeOK /\ RowsAreGood

LEMMA GoodIsTyped ==
  ASSUME RowsAreGood'
  PROVE  rows' \in [Keys -> Row]
BY DEF RowsAreGood, GoodRow

(* A row that is not put back to pending stays good. *)
LEMMA EndedGood ==
  ASSUME NEW row \in GoodRow, row.status # "gone",
         NEW status \in {"unknown", "failed", "sent", "cancelled", "gone"}
  PROVE  LET new == [row EXCEPT !.status = status]
         IN new \in GoodRow /\ new.status = status /\ new.version = row.version
BY DEF GoodRow, Row, RowStatus

LEMMA ClaimedGood ==
  ASSUME NEW row \in GoodRow, row.status = "pending", NEW t \in Nat
  PROVE  LET new == [row EXCEPT !.status = "sending", !.since = t]
         IN new \in GoodRow /\ new.status = "sending"
            /\ new.version = row.version /\ new.exp = row.exp
BY DEF GoodRow, Row, RowStatus

LEMMA PostponedGood ==
  ASSUME NEW row \in GoodRow, row.status = "pending", now \in Nat
  PROVE  Postponed(row) \in GoodRow /\ Postponed(row).status = "pending"
         /\ Postponed(row).version = row.version
BY DelaysAssumption DEF Postponed, Earlier, GoodRow, Row, RowStatus

LEMMA WaitingGood ==
  ASSUME NEW k \in Keys, rows[k] \in GoodRow, rows[k].status = "sending",
         job[k].exp \in Nat, rows[k].exp = job[k].exp, clock \in Nat,
         NEW n \in 0..MaxThrottled, n < MaxThrottled, NEW delay \in Nat
  PROVE  Waiting(k, n, delay) \in GoodRow /\ Waiting(k, n, delay).status = "pending"
         /\ Waiting(k, n, delay).version = rows[k].version
<1> DEFINE row == rows[k]
           due == Earlier(clock + delay, job[k].exp)
           new == [row EXCEPT !.status = "pending", !.attempts = n, !.due = due]
<1>1. due \in Nat /\ due <= row.exp
  BY DEF Earlier
<1>2. row \in GoodRow /\ row.status = "sending"
  OBVIOUS
<1> HIDE DEF row, due
<1>3. new \in GoodRow /\ new.status = "pending" /\ new.version = row.version
  BY <1>1, <1>2 DEF GoodRow, Row, RowStatus
<1> QED
  BY <1>3 DEF Waiting, row, due

LEMMA UpsertedGood ==
  ASSUME NEW row \in GoodRow, NEW at \in Times, NEW exp \in Times, at < exp,
         row.status # "pending" => row.version < MaxVersions
  PROVE  LET new == Upserted(row, at, exp)
         IN new \in GoodRow /\ new.status = "pending"
            /\ new.version = IF row.status = "pending" THEN row.version ELSE row.version + 1
<1> DEFINE v == IF row.status = "pending" THEN row.version ELSE row.version + 1
           new == [status |-> "pending", attempts |-> 0, due |-> at, exp |-> exp,
                   since |-> 0, version |-> v]
<1>1. v \in 0..MaxVersions /\ v > 0
  <2>1. row.version \in 0..MaxVersions /\ (row.status # "gone" => row.version > 0)
    BY DEF GoodRow, Row
  <2>2. CASE row.status = "pending"
    BY <2>1, <2>2
  <2>3. CASE row.status # "pending"
    BY <2>1, <2>3, LimitsAssumption
  <2> QED
    BY <2>2, <2>3
<1>2. Upserted(row, at, exp) = new
  BY DEF Upserted
<1>3. at \in Nat /\ exp \in Nat /\ 0 \in 0..MaxThrottled /\ 0 < MaxThrottled
  BY LimitsAssumption DEF Times
<1> HIDE DEF v
<1>4. new \in GoodRow
  BY <1>1, <1>3 DEF GoodRow, Row, RowStatus
<1> QED
  BY <1>2, <1>4 DEF v

LEMMA TypeInit == Init => TypeInv
<1> SUFFICES ASSUME Init PROVE TypeInv
  OBVIOUS
<1>1. NoRow \in GoodRow /\ NoRow \in Row /\ NoJob \in Job
  BY LimitsAssumption DEF NoRow, NoJob, GoodRow, Row, Job, RowStatus
<1>2. RowsAreGood /\ rows \in [Keys -> Row] /\ job \in [Keys -> Job]
  BY <1>1 DEF Init, RowsAreGood
<1>3. reached \in [Keys -> [Versions -> Nat]] /\ events \in [Keys -> [Versions -> Nat]]
  BY DEF Init
<1> QED
  BY <1>2, <1>3, LimitsAssumption DEF Init, TypeInv, TypeOK

-----------------------------------------------------------------------------
(* The strengthening.  A send in flight belongs to one version of its key.   *)
(* If that version is still there it is sending or erased, with the expiry   *)
(* the send has captured; a later one is not claimed before the step ends.   *)

JobsAreClaimed ==
  \A k \in Keys : job[k].at # "none" =>
    /\ pc = "sending"
    /\ job[k].version \in Versions
    /\ job[k].version <= rows[k].version
    /\ job[k].attempts < MaxThrottled
    /\ rows[k].version = job[k].version => rows[k].status \in {"sending", "gone"}
    /\ rows[k].status = "sending" =>
         rows[k].version = job[k].version /\ rows[k].exp = job[k].exp
    /\ reached[k][job[k].version] = IF job[k].at = "taken" THEN 1 ELSE 0

ReachedIsTold ==
  \A k \in Keys, v \in Versions :
    /\ reached[k][v] \in {0, 1}
    /\ v > rows[k].version => reached[k][v] = 0
    /\ v = rows[k].version =>
         /\ rows[k].status \in {"pending", "failed", "cancelled"} => reached[k][v] = 0
         /\ rows[k].status = "sent" => reached[k][v] = 1

SendInv == TypeInv /\ JobsAreClaimed /\ ReachedIsTold

(* What any step may do to a key and to what Meta took under it. *)
Taken(k) ==
  \A v \in Versions :
    \/ reached'[k][v] = reached[k][v]
    \/ /\ reached[k][v] = 0 /\ reached'[k][v] = 1
       /\ v <= rows[k].version
       /\ v = rows[k].version => rows[k].status \in {"sending", "gone"}

StatusMove(old, new, n) ==
  \/ old = "pending" /\ new = "sending"
  \/ old = "sending" /\ new = "pending" /\ n = 0
  \/ /\ old \in {"pending", "sending"}
     /\ \/ new = "sent" /\ n = 1
        \/ new \in {"failed", "cancelled"} /\ n = 0
        \/ new = "unknown"
  \/ old # "gone" /\ new = "gone"

KeyMoves(k) ==
  \/ rows'[k].status = rows[k].status /\ rows'[k].version = rows[k].version /\ Taken(k)
  \/ /\ rows[k].status \in {"gone", "failed", "cancelled"}
     /\ rows'[k].status = "pending" /\ rows'[k].version = rows[k].version + 1
     /\ reached'[k] = reached[k]
  \/ /\ rows'[k].version = rows[k].version
     /\ StatusMove(rows[k].status, rows'[k].status, reached[k][rows[k].version])
     /\ reached'[k] = reached[k]

(* An event is stored for each row that ends failed or unknown, and no other. *)
EndsUnsent(k) == k \in Open /\ rows'[k].status \in {"failed", "unknown"}
EventsMove ==
  \A k \in Keys, v \in Versions :
    events'[k][v] = events[k][v] + IF EndsUnsent(k) /\ v = rows[k].version THEN 1 ELSE 0

(* What the proof shows of every action. *)
StepKeeps ==
  TypeInv' /\ JobsAreClaimed' /\ (\A k \in Keys : KeyMoves(k)) /\ EventsMove

LEMMA CountTyped ==
  ASSUME NEW f \in [Versions -> Nat], NEW v
  PROVE  [f EXCEPT ![v] = @ + 1] \in [Versions -> Nat]
<1>1. CASE v \in Versions
  <2>1. f[v] + 1 \in Nat
    BY <1>1
  <2> QED
    BY <2>1
<1>2. CASE v \notin Versions
  BY <1>2
<1> QED
  BY <1>1, <1>2

LEMMA ToldTyped ==
  ASSUME TypeInv, NEW ended \in SUBSET Keys
  PROVE  Told(ended) \in [Keys -> [Versions -> Nat]]
<1>1. SUFFICES ASSUME NEW k \in Keys
               PROVE  [events[k] EXCEPT ![rows[k].version] = @ + 1] \in [Versions -> Nat]
  BY DEF Told, TypeInv, TypeOK
<1>2. events[k] \in [Versions -> Nat]
  BY DEF TypeInv, TypeOK
<1> QED
  BY <1>2, CountTyped

(* The events of a step that tells of the keys that ended unsent, which are  *)
(* of rows that exist.                                                       *)
LEMMA ToldMoves ==
  ASSUME TypeInv, NEW ended \in SUBSET Keys, events' = Told(ended),
         \A k \in Keys : EndsUnsent(k) <=> k \in ended
  PROVE  EventsMove
<1>1. \A k \in ended : rows[k].version \in Versions
  BY DEF TypeInv, RowsAreGood, GoodRow, Row, EndsUnsent, Open, In, Versions
<1>2. SUFFICES ASSUME NEW k \in Keys, NEW v \in Versions
               PROVE  events'[k][v] = events[k][v]
                        + IF EndsUnsent(k) /\ v = rows[k].version THEN 1 ELSE 0
  BY DEF EventsMove
<1>3. events \in [Keys -> [Versions -> Nat]]
  BY DEF TypeInv, TypeOK
<1>4. events'[k] = IF k \in ended THEN [events[k] EXCEPT ![rows[k].version] = @ + 1]
                   ELSE events[k]
  BY DEF Told
<1>5. CASE k \in ended
  <2>1. events[k] \in [Versions -> Nat]
    BY <1>3
  <2> QED
    BY <1>4, <1>5, <2>1
<1>6. CASE k \notin ended
  BY <1>3, <1>4, <1>6
<1> QED
  BY <1>5, <1>6

LEMMA QuietMoves ==
  ASSUME TypeInv, UNCHANGED events, \A k \in Keys : ~EndsUnsent(k)
  PROVE  EventsMove
BY DEF EventsMove, TypeInv, TypeOK

LEMMA SameReached ==
  ASSUME UNCHANGED reached
  PROVE  \A k \in Keys : Taken(k) /\ reached'[k] = reached[k]
BY DEF Taken

-----------------------------------------------------------------------------
(* Requests.                                                               *)

LEMMA PutScheduledKeeps ==
  ASSUME SendInv, NEW k \in Keys, NEW at \in Times, NEW exp \in Times,
         PutScheduled(k, at, exp)
  PROVE  StepKeeps
<1> USE DEF SendInv
<1> DEFINE new == Upserted(rows[k], at, exp)
<1>1. rows \in [Keys -> GoodRow] /\ rows[k] \in GoodRow
  BY DEF TypeInv, RowsAreGood
<1>2. /\ rows' = [rows EXCEPT ![k] = new]
      /\ UNCHANGED <<clock, tickAt, step, erasure, reached, events, calls, faults>>
      /\ rows[k].status \in {"pending", "gone", "failed", "cancelled"}
      /\ rows[k].status # "pending" => rows[k].version < MaxVersions
      /\ at < exp
  BY DEF PutScheduled, history
<1>3. /\ new \in GoodRow /\ new.status = "pending"
      /\ new.version = IF rows[k].status = "pending" THEN rows[k].version
                       ELSE rows[k].version + 1
  BY <1>1, <1>2, UpsertedGood
<1> HIDE DEF new
<1>4. \A l \in Keys : rows'[l] = IF l = k THEN new ELSE rows[l]
  BY <1>1, <1>2
<1>5. TypeInv'
  <2>1. RowsAreGood'
    BY <1>1, <1>2, <1>3 DEF RowsAreGood
  <2>2. alarm' \in Nat /\ arrived' \in BOOLEAN
    <3>1. at \in Nat /\ clock \in Nat /\ alarm \in Nat \cup {NoAlarm} /\ arrived \in BOOLEAN
      BY DEF Times, TypeInv, TypeOK
    <3>2. Armed(at) \in Nat
      BY <3>1 DEF Armed, Earlier
    <3> QED
      BY <3>1, <3>2 DEF PutScheduled
  <2> QED
    BY <1>2, <2>1, <2>2, GoodIsTyped DEF TypeInv, TypeOK, step, erasure
<1>6. rows[k].version \in Nat
  BY <1>1 DEF GoodRow, Row
<1>7. JobsAreClaimed'
  <2>1. SUFFICES ASSUME NEW l \in Keys, job[l].at # "none"
                 PROVE  /\ job[l].version <= rows'[l].version
                        /\ rows'[l].version = job[l].version
                             => rows'[l].status \in {"sending", "gone"}
                        /\ rows'[l].status = "sending" =>
                             rows'[l].version = job[l].version /\ rows'[l].exp = job[l].exp
    BY <1>2 DEF JobsAreClaimed, step
  <2>2. CASE l # k
    BY <1>4, <2>1, <2>2 DEF JobsAreClaimed
  <2>3. CASE l = k
    <3>1. job[k].version \in Nat /\ job[k].version <= rows[k].version
          /\ (rows[k].version = job[k].version => rows[k].status \in {"sending", "gone"})
      BY <2>1, <2>3 DEF JobsAreClaimed, Versions
    <3> QED
      BY <1>2, <1>3, <1>4, <1>6, <2>3, <3>1
  <2> QED
    BY <2>2, <2>3
<1>8. \A l \in Keys : KeyMoves(l)
  BY <1>2, <1>3, <1>4, SameReached DEF KeyMoves
<1>9. EventsMove
  BY <1>2, <1>3, <1>4, QuietMoves DEF EndsUnsent, Open, In
<1> QED
  BY <1>5, <1>7, <1>8, <1>9 DEF StepKeeps

(* A request or a retention that ends rows, without a word to the client. *)
Ends(k, status) == [rows[k] EXCEPT !.status = status]

LEMMA EndsQuietly ==
  ASSUME SendInv, NEW mine \in SUBSET Keys, NEW status \in {"cancelled", "gone"},
         \A k \in mine : /\ rows[k].status # "gone"
                         /\ status = "cancelled" => rows[k].status = "pending",
         rows' = [k \in Keys |-> IF k \in mine THEN Ends(k, status) ELSE rows[k]],
         UNCHANGED <<clock, tickAt, alarm, arrived, step, putOff, history, faults>>,
         purging' \in BOOLEAN, calls > 0, calls' = calls - 1
  PROVE  StepKeeps
<1> USE DEF SendInv
<1>1. rows \in [Keys -> GoodRow]
  BY DEF TypeInv, RowsAreGood
<1>2. ASSUME NEW k \in mine
      PROVE  /\ Ends(k, status) \in GoodRow
             /\ Ends(k, status).status = status
             /\ Ends(k, status).version = rows[k].version
  <2>1. rows[k] \in GoodRow /\ rows[k].status # "gone"
    BY <1>1
  <2>2. status \in {"unknown", "failed", "sent", "cancelled", "gone"}
    OBVIOUS
  <2> HIDE DEF SendInv
  <2> QED
    BY <2>1, <2>2, EndedGood DEF Ends
<1>3. \A l \in Keys : rows'[l] = IF l \in mine THEN Ends(l, status) ELSE rows[l]
  OBVIOUS
<1>4. TypeInv'
  <2>1. RowsAreGood'
    BY <1>1, <1>2, <1>3 DEF RowsAreGood
  <2> QED
    BY <2>1, GoodIsTyped DEF TypeInv, TypeOK, step, history
<1>5. JobsAreClaimed'
  BY <1>2, <1>3 DEF JobsAreClaimed, step, history
<1>6. \A l \in Keys : KeyMoves(l)
  <2>1. SUFFICES ASSUME NEW l \in Keys PROVE KeyMoves(l)
    OBVIOUS
  <2>2. Taken(l) /\ reached'[l] = reached[l]
    BY SameReached DEF history
  <2>3. CASE l \notin mine
    BY <1>3, <2>2, <2>3 DEF KeyMoves
  <2>4. CASE l \in mine
    <3>1. rows[l].status = "pending" => reached[l][rows[l].version] = 0
      BY <1>1 DEF ReachedIsTold, GoodRow, Row, Versions
    <3> QED
      BY <1>2, <1>3, <2>2, <2>4, <3>1 DEF KeyMoves, StatusMove
  <2> QED
    BY <2>3, <2>4
<1>7. EventsMove
  <2>1. \A l \in Keys : ~EndsUnsent(l)
    BY <1>2, <1>3 DEF EndsUnsent, Open, In
  <2> QED
    BY <2>1, QuietMoves DEF history
<1> QED
  BY <1>4, <1>5, <1>6, <1>7 DEF StepKeeps

LEMMA OneEnds ==
  ASSUME SendInv, NEW k \in Keys, NEW status,
         rows' = [rows EXCEPT ![k].status = status]
  PROVE  rows' = [l \in Keys |-> IF l \in {k} THEN Ends(l, status) ELSE rows[l]]
BY DEF Ends, SendInv, TypeInv, TypeOK

LEMMA OperatorKeeps ==
  ASSUME SendInv, NEW k \in Keys, CancelScheduled(k) \/ PruneExpired(k)
  PROVE  StepKeeps
<1>1. purging \in BOOLEAN
  BY DEF SendInv, TypeInv, TypeOK
<1>2. CASE CancelScheduled(k)
  <2>1. /\ rows[k].status = "pending"
        /\ rows' = [rows EXCEPT ![k].status = "cancelled"]
        /\ UNCHANGED <<clock, tickAt, alarm, arrived, step, purging, putOff, history, faults>>
        /\ calls > 0 /\ calls' = calls - 1
    BY <1>2 DEF CancelScheduled, Operator, erasure
  <2>2. rows' = [l \in Keys |-> IF l \in {k} THEN Ends(l, "cancelled") ELSE rows[l]]
    BY <2>1, OneEnds
  <2> QED
    BY <1>1, <2>1, <2>2, EndsQuietly
<1>3. CASE PruneExpired(k)
  <2>1. /\ rows[k].status # "gone"
        /\ rows' = [rows EXCEPT ![k].status = "gone"]
        /\ UNCHANGED <<clock, tickAt, alarm, arrived, step, purging, putOff, history, faults>>
        /\ calls > 0 /\ calls' = calls - 1
    BY <1>3 DEF PruneExpired, Operator, erasure
  <2>2. rows' = [l \in Keys |-> IF l \in {k} THEN Ends(l, "gone") ELSE rows[l]]
    BY <2>1, OneEnds
  <2> QED
    BY <1>1, <2>1, <2>2, EndsQuietly
<1> QED
  BY <1>2, <1>3

LEMMA EraseByPhoneKeeps ==
  ASSUME SendInv, NEW mine \in SUBSET Keys, EraseByPhone(mine)
  PROVE  StepKeeps
<1>1. /\ \A k \in mine : rows[k].status # "gone"
      /\ rows' = [k \in Keys |-> IF k \in mine THEN Ends(k, "gone") ELSE rows[k]]
      /\ UNCHANGED <<clock, tickAt, alarm, arrived, step, putOff, history, faults>>
      /\ purging' \in BOOLEAN /\ calls > 0 /\ calls' = calls - 1
  BY DEF EraseByPhone, Operator, Ends
<1> QED
  BY <1>1, EndsQuietly

-----------------------------------------------------------------------------
(* The step and the environment.                                           *)

LEMMA NoneInFlight ==
  ASSUME SendInv, pc # "sending"
  PROVE  \A k \in Keys : job[k].at = "none"
BY DEF SendInv, JobsAreClaimed

LEMMA RowsStay ==
  ASSUME SendInv, UNCHANGED <<rows, reached, events>>, TypeOK', JobsAreClaimed'
  PROVE  StepKeeps
<1>1. TypeInv'
  BY DEF SendInv, TypeInv, RowsAreGood
<1>2. \A k \in Keys : KeyMoves(k)
  BY SameReached DEF KeyMoves
<1>3. \A k \in Keys : ~EndsUnsent(k)
  BY DEF EndsUnsent, Open, In
<1> QED
  BY <1>1, <1>2, <1>3, QuietMoves DEF StepKeeps, SendInv

LEMMA AlarmFiresKeeps ==
  ASSUME SendInv, AlarmFires
  PROVE  StepKeeps
<1>1. TypeOK'
  BY DEF AlarmFires, history, SendInv, TypeInv, TypeOK
<1>2. JobsAreClaimed'
  BY NoneInFlight DEF AlarmFires, JobsAreClaimed
<1> QED
  BY <1>1, <1>2, RowsStay DEF AlarmFires, history

LEMMA PurgeReturnsKeeps ==
  ASSUME SendInv, NEW ok \in BOOLEAN, PurgeReturns(ok)
  PROVE  StepKeeps
<1>1. alarm' \in Nat \cup {NoAlarm} /\ putOff' \in Nat
  BY DelaysAssumption DEF PurgeReturns, SendInv, TypeInv, TypeOK
<1>2. TypeOK'
  BY <1>1 DEF PurgeReturns, step, history, SendInv, TypeInv, TypeOK
<1>3. JobsAreClaimed'
  BY DEF PurgeReturns, step, history, SendInv, JobsAreClaimed
<1> QED
  BY <1>2, <1>3, RowsStay DEF PurgeReturns, history

(* Rows that are stale or expired end, each with its event. *)
LEMMA EndedKeeps ==
  ASSUME SendInv, pc = "before", NEW swept \in SUBSET (Stale \cup Expired),
         rows' = [k \in Keys |-> IF k \in swept THEN Ended(k) ELSE rows[k]],
         events' = Told(swept),
         UNCHANGED <<clock, tickAt, alarm, arrived, job, erasure, reached, calls>>,
         pc' \in {"token", "after"}, now' = clock, retryAt' \in Nat, faults' \in Nat
  PROVE  StepKeeps
<1> USE DEF SendInv
<1>1. rows \in [Keys -> GoodRow]
  BY DEF TypeInv, RowsAreGood
<1>2. ASSUME NEW k \in swept
      PROVE  /\ k \in Keys
             /\ Ended(k) \in GoodRow
             /\ Ended(k).version = rows[k].version
             /\ rows[k].status \in {"pending", "sending"}
             /\ Ended(k).status = IF rows[k].status = "sending" THEN "unknown" ELSE "failed"
  <2>1. k \in Keys /\ rows[k] \in GoodRow
    BY <1>1 DEF Stale, Expired
  <2>2. CASE k \in Stale
    <3>1. rows[k].status = "sending" /\ k \notin Expired
      BY <2>2 DEF Stale, Expired
    <3> DEFINE new == [rows[k] EXCEPT !.status = "unknown"]
    <3>2. Ended(k) = new
      BY <2>2, <3>1 DEF Ended
    <3> HIDE DEF SendInv
    <3>3. new \in GoodRow /\ new.status = "unknown" /\ new.version = rows[k].version
      BY <2>1, <3>1, EndedGood
    <3> QED
      BY <2>1, <3>1, <3>2, <3>3
  <2>3. CASE k \in Expired /\ k \notin Stale
    <3>1. rows[k].status = "pending"
      BY <2>3 DEF Expired
    <3> DEFINE new == [rows[k] EXCEPT !.status = "failed"]
    <3>2. Ended(k) = new
      BY <2>3 DEF Ended
    <3> HIDE DEF SendInv
    <3>3. new \in GoodRow /\ new.status = "failed" /\ new.version = rows[k].version
      BY <2>1, <3>1, EndedGood
    <3> QED
      BY <2>1, <3>1, <3>2, <3>3
  <2> QED
    BY <2>2, <2>3
<1>3. TypeInv'
  <2>1. RowsAreGood'
    BY <1>1, <1>2 DEF RowsAreGood
  <2>2. events' \in [Keys -> [Versions -> Nat]]
    BY <1>2, ToldTyped
  <2> QED
    BY <2>1, <2>2, GoodIsTyped DEF TypeInv, TypeOK, erasure
<1>4. JobsAreClaimed'
  BY NoneInFlight DEF JobsAreClaimed
<1>5. \A k \in Keys : KeyMoves(k)
  <2>1. SUFFICES ASSUME NEW k \in Keys PROVE KeyMoves(k)
    OBVIOUS
  <2>2. Taken(k) /\ reached'[k] = reached[k]
    BY SameReached
  <2>3. CASE k \notin swept
    BY <2>2, <2>3 DEF KeyMoves
  <2>4. CASE k \in swept
    <3>1. rows'[k] = Ended(k)
      BY <2>4
    <3>2. rows[k].status = "pending" => reached[k][rows[k].version] = 0
      BY <1>1 DEF ReachedIsTold, GoodRow, Row, Versions
    <3> QED
      BY <1>2, <2>2, <2>4, <3>1, <3>2 DEF KeyMoves, StatusMove
  <2> QED
    BY <2>3, <2>4
<1>6. EventsMove
  <2>1. \A k \in Keys : EndsUnsent(k) <=> k \in swept
    BY <1>2 DEF EndsUnsent, Open, In
  <2> QED
    BY <1>2, <2>1, ToldMoves
<1> QED
  BY <1>3, <1>4, <1>5, <1>6 DEF StepKeeps

LEMMA StepStartsKeeps ==
  ASSUME SendInv, StepStarts
  PROVE  StepKeeps
<1> DEFINE swept == Stale \cup Expired
<1>1. rows' = [k \in Keys |-> IF k \in swept THEN Ended(k) ELSE rows[k]]
  BY DEF StepStarts, Ended
<1> QED
  BY <1>1, EndedKeeps DEF StepStarts, SendInv, TypeInv, TypeOK

LEMMA StepFailsKeeps ==
  ASSUME SendInv, NEW swept \in SUBSET Keys, StepFails(swept)
  PROVE  StepKeeps
<1>1. swept \in SUBSET (Stale \cup Expired)
  BY DEF StepFails
<1>2. retryAt' \in Nat /\ faults' \in Nat
  BY DelaysAssumption DEF StepFails, SendInv, TypeInv, TypeOK
<1> QED
  BY <1>1, <1>2, EndedKeeps DEF StepFails

LEMMA TokenFailsKeeps ==
  ASSUME SendInv, TokenFails
  PROVE  StepKeeps
<1> USE DEF SendInv
<1>1. rows \in [Keys -> GoodRow] /\ now \in Nat
  BY DEF TypeInv, TypeOK, RowsAreGood
<1>2. \A k \in Keys : rows'[k] = IF k \in Due(now) THEN Postponed(rows[k]) ELSE rows[k]
  BY DEF TokenFails
<1>3. \A k \in Due(now) : k \in Keys /\ rows[k].status = "pending"
  BY DEF Due
<1>4. \A k \in Due(now) : /\ Postponed(rows[k]) \in GoodRow
                          /\ Postponed(rows[k]).status = "pending"
                          /\ Postponed(rows[k]).version = rows[k].version
  BY <1>1, <1>3, PostponedGood
<1>5. TypeInv'
  <2>1. RowsAreGood'
    BY <1>1, <1>4 DEF RowsAreGood, TokenFails
  <2> QED
    BY <2>1, GoodIsTyped DEF TypeInv, TypeOK, TokenFails, history, erasure
<1>6. JobsAreClaimed'
  BY NoneInFlight DEF JobsAreClaimed, TokenFails
<1>7. \A k \in Keys : rows'[k].status = rows[k].status /\ rows'[k].version = rows[k].version
  BY <1>2, <1>3, <1>4
<1>8. \A k \in Keys : KeyMoves(k)
  BY <1>7, SameReached DEF KeyMoves, TokenFails, history
<1>9. EventsMove
  <2>1. \A k \in Keys : ~EndsUnsent(k)
    BY <1>7 DEF EndsUnsent, Open, In
  <2> QED
    BY <2>1, QuietMoves DEF TokenFails, history
<1> QED
  BY <1>5, <1>6, <1>8, <1>9 DEF StepKeeps

LEMMA ClaimKeeps ==
  ASSUME SendInv, NEW S \in SUBSET Keys, Claim(S)
  PROVE  StepKeeps
<1> USE DEF SendInv
<1> DEFINE claimed(k) == [rows[k] EXCEPT !.status = "sending", !.since = now]
           taken(k) == [at |-> "limiter", version |-> rows[k].version,
                        attempts |-> rows[k].attempts, exp |-> rows[k].exp]
<1>1. rows \in [Keys -> GoodRow] /\ now \in Nat
  BY DEF TypeInv, TypeOK, RowsAreGood
<1>2. \A k \in S : k \in Keys /\ rows[k].status = "pending"
  BY DEF Claim, Claimable, Due
<1>3. \A k \in S : /\ claimed(k) \in GoodRow
                   /\ claimed(k).status = "sending"
                   /\ claimed(k).version = rows[k].version
                   /\ claimed(k).exp = rows[k].exp
  <2> HIDE DEF SendInv
  <2> QED
    BY <1>1, <1>2, ClaimedGood
<1>4. \A k \in S : /\ taken(k) \in Job
                   /\ rows[k].version \in Versions
                   /\ rows[k].attempts < MaxThrottled
  BY <1>1, <1>2 DEF GoodRow, Row, Job, Versions
<1>5. NoJob \in Job
  BY LimitsAssumption DEF NoJob, Job
<1>6. /\ rows' = [k \in Keys |-> IF k \in S THEN claimed(k) ELSE rows[k]]
      /\ job' = [k \in Keys |-> IF k \in S THEN taken(k) ELSE NoJob]
      /\ tickAt' = now + TickMs /\ pc' = "sending"
      /\ UNCHANGED <<clock, alarm, arrived, now, retryAt, erasure, reached, events, calls,
                     faults>>
  BY DEF Claim, history
<1>7. TypeInv'
  <2>1. RowsAreGood'
    BY <1>1, <1>3, <1>6 DEF RowsAreGood
  <2>2. job' \in [Keys -> Job]
    BY <1>4, <1>5, <1>6
  <2>3. tickAt' \in Nat
    <3>1. tickAt' = now + TickMs
      BY <1>6
    <3>2. now \in Nat
      BY <1>1
    <3> QED
      BY <3>1, <3>2, DelaysAssumption
  <2> QED
    BY <1>6, <2>1, <2>2, <2>3, GoodIsTyped DEF TypeInv, TypeOK, erasure
<1>8. \A k \in S : reached[k][rows[k].version] = 0
  BY <1>2, <1>4 DEF ReachedIsTold
<1>9. JobsAreClaimed'
  <2>1. SUFFICES ASSUME NEW k \in Keys, job'[k].at # "none"
                 PROVE  /\ job'[k].version \in Versions
                        /\ job'[k].version <= rows'[k].version
                        /\ job'[k].attempts < MaxThrottled
                        /\ rows'[k].version = job'[k].version /\ rows'[k].exp = job'[k].exp
                        /\ rows'[k].status = "sending"
                        /\ job'[k].at = "limiter"
                        /\ reached'[k][job'[k].version] = 0
    BY <1>6 DEF JobsAreClaimed
  <2>2. k \in S
    BY <1>6, <2>1 DEF NoJob
  <2>3. rows'[k] = claimed(k) /\ job'[k] = taken(k)
    BY <1>6, <2>2
  <2>4. rows[k].version \in Nat
    BY <1>1 DEF GoodRow, Row
  <2> HIDE DEF claimed
  <2> QED
    BY <1>3, <1>4, <1>6, <1>8, <2>2, <2>3, <2>4
<1>10. \A k \in Keys : rows'[k] = IF k \in S THEN claimed(k) ELSE rows[k]
  BY <1>6
<1> HIDE DEF claimed
<1>11. \A k \in Keys : KeyMoves(k)
  <2>1. SUFFICES ASSUME NEW k \in Keys PROVE KeyMoves(k)
    OBVIOUS
  <2>2. Taken(k) /\ reached'[k] = reached[k]
    BY <1>6, SameReached
  <2> QED
    BY <1>2, <1>3, <1>10, <2>2 DEF KeyMoves, StatusMove
<1>12. EventsMove
  <2>1. \A k \in Keys : ~EndsUnsent(k)
    BY <1>3, <1>10 DEF EndsUnsent, Open, In
  <2> QED
    BY <1>6, <2>1, QuietMoves
<1> QED
  BY <1>7, <1>9, <1>11, <1>12 DEF StepKeeps

LEMMA StepJoinsKeeps ==
  ASSUME SendInv, StepJoins
  PROVE  StepKeeps
<1>1. TypeOK'
  BY DEF StepJoins, history, SendInv, TypeInv, TypeOK, erasure
<1>2. JobsAreClaimed'
  BY DEF StepJoins, InFlight, JobsAreClaimed
<1> QED
  BY <1>1, <1>2, RowsStay DEF StepJoins, history

LEMMA CrashKeeps ==
  ASSUME SendInv, Crash
  PROVE  StepKeeps
<1>1. NoJob \in Job
  BY LimitsAssumption DEF NoJob, Job
<1>2. TypeOK'
  <2>1. job' \in [Keys -> Job]
    BY <1>1 DEF Crash
  <2>2. faults' \in Nat /\ alarm' \in Nat /\ retryAt' \in Nat
    BY DEF Crash, SendInv, TypeInv, TypeOK
  <2> QED
    BY <2>1, <2>2 DEF Crash, history, SendInv, TypeInv, TypeOK
<1>3. JobsAreClaimed'
  BY DEF Crash, NoJob, JobsAreClaimed
<1> QED
  BY <1>2, <1>3, RowsStay DEF Crash, history

LEMMA TickKeeps ==
  ASSUME SendInv, Tick
  PROVE  StepKeeps
<1>1. TypeOK'
  BY DEF Tick, step, history, SendInv, TypeInv, TypeOK, erasure
<1>2. JobsAreClaimed'
  BY DEF Tick, step, history, SendInv, JobsAreClaimed
<1> QED
  BY <1>1, <1>2, RowsStay DEF Tick, history

(* The least of a set of times, for the alarm. *)
LEMMA LessIsRelated == \A t, u \in Nat : u < t => <<u, t>> \in OpToRel(<, Nat)
BY DEF OpToRel

LEMMA LeastIs ==
  ASSUME NEW S \in SUBSET Nat, S # {}
  PROVE  Least(S) \in S /\ \A u \in S : Least(S) <= u
<1>1. PICK t \in S : \A u \in S : ~ (<<u, t>> \in OpToRel(<, Nat))
  BY WFMin, NatLessThanWellFounded
<1>2. \A u \in S : ~ (u < t)
  BY <1>1, LessIsRelated, Zenon
<1>3. \A u \in S : t <= u
  BY <1>2
<1> QED
  BY <1>3 DEF Least

LEMMA WakesAreTimes ==
  ASSUME TypeInv
  PROVE  /\ NextWakes \subseteq Nat
         /\ NextWakes # {} => \E t \in Nat : ScheduledWakes = {t}
         /\ Wakes \subseteq Nat
<1>1. rows \in [Keys -> Row] /\ tickAt \in Nat /\ clock \in Nat /\ retryAt \in Nat
  BY DEF TypeInv, TypeOK
<1>2. NextWakes \subseteq Nat
  <2>1. \A k \in Keys : rows[k].due \in Nat /\ rows[k].since + StaleMs \in Nat
    BY <1>1, DelaysAssumption DEF Row
  <2> QED
    BY <2>1 DEF NextWakes, In
<1>3. NextWakes # {} => \E t \in Nat : ScheduledWakes = {t}
  <2> SUFFICES ASSUME NextWakes # {} PROVE \E t \in Nat : ScheduledWakes = {t}
    OBVIOUS
  <2>1. Least(NextWakes) \in Nat
    BY <1>2, LeastIs
  <2>2. Later(Least(NextWakes), tickAt) \in Nat
    BY <1>1, <2>1 DEF Later
  <2> QED
    BY <2>2 DEF ScheduledWakes
<1>4. Wakes \subseteq Nat
  <2>1. ScheduledWakes \subseteq Nat
    BY <1>3 DEF ScheduledWakes
  <2> QED
    BY <1>1, <2>1 DEF Wakes
<1> QED
  BY <1>2, <1>3, <1>4

LEMMA AlarmReturnsKeeps ==
  ASSUME SendInv, AlarmReturns
  PROVE  StepKeeps
<1>1. alarm' \in Nat \cup {NoAlarm}
  <2>1. Wakes # {} => Least(Wakes) \in Nat
    BY WakesAreTimes, LeastIs DEF SendInv
  <2> QED
    BY <2>1 DEF AlarmReturns, SendInv, TypeInv, TypeOK
<1>2. TypeOK'
  BY <1>1 DEF AlarmReturns, history, SendInv, TypeInv, TypeOK
<1>3. JobsAreClaimed'
  BY NoneInFlight DEF AlarmReturns, JobsAreClaimed
<1> QED
  BY <1>2, <1>3, RowsStay DEF AlarmReturns, history

-----------------------------------------------------------------------------
(* A send that comes back: its row moves if it is still there to be moved,   *)
(* and it is told of if it ends unsent.                                      *)

Counted(k) == reached[k][rows[k].version]

LEMMA SendEnds ==
  ASSUME SendInv, NEW k \in Keys, job[k].at # "none", job' = [job EXCEPT ![k] = NoJob],
         NEW new,
         Sending(k) => /\ new \in GoodRow
                       /\ new.version = rows[k].version
                       /\ StatusMove("sending", new.status, Counted(k)),
         rows' = IF Sending(k) THEN [rows EXCEPT ![k] = new] ELSE rows,
         events' = Told(IF Sending(k) /\ new.status \in {"failed", "unknown"} THEN {k} ELSE {}),
         UNCHANGED <<clock, tickAt, alarm, arrived, pc, now, retryAt, erasure, reached, calls,
                     faults>>
  PROVE  StepKeeps
<1> USE DEF SendInv
<1>1. rows \in [Keys -> GoodRow] /\ job \in [Keys -> Job] /\ NoJob \in Job
  BY LimitsAssumption DEF TypeInv, TypeOK, RowsAreGood, NoJob, Job
<1>2. \A l \in Keys : rows'[l] = IF l = k /\ Sending(k) THEN new ELSE rows[l]
  BY <1>1
<1>3. \A l \in Keys : job'[l] = IF l = k THEN NoJob ELSE job[l]
  BY <1>1
<1> DEFINE ended == IF Sending(k) /\ new.status \in {"failed", "unknown"} THEN {k} ELSE {}
<1>4. ended \in SUBSET Keys /\ events' = Told(ended)
  OBVIOUS
<1>5. TypeInv'
  <2>1. RowsAreGood'
    BY <1>1 DEF RowsAreGood
  <2>2. job' \in [Keys -> Job]
    BY <1>1
  <2>3. events' \in [Keys -> [Versions -> Nat]]
    BY <1>4, ToldTyped
  <2> QED
    BY <2>1, <2>2, <2>3, GoodIsTyped DEF TypeInv, TypeOK, erasure
<1>6. JobsAreClaimed'
  BY <1>2, <1>3 DEF JobsAreClaimed, NoJob
<1>7. \A l \in Keys : KeyMoves(l)
  <2>1. SUFFICES ASSUME NEW l \in Keys PROVE KeyMoves(l)
    OBVIOUS
  <2>2. Taken(l) /\ reached'[l] = reached[l]
    BY SameReached
  <2>3. CASE l = k /\ Sending(k)
    BY <1>2, <2>2, <2>3 DEF KeyMoves, Sending, Counted
  <2>4. CASE ~(l = k /\ Sending(k))
    BY <1>2, <2>2, <2>4 DEF KeyMoves
  <2> QED
    BY <2>3, <2>4
<1>8. EventsMove
  <2>1. \A l \in Keys : EndsUnsent(l) <=> l \in ended
    BY <1>2 DEF EndsUnsent, Open, In, Sending
  <2> QED
    BY <1>4, <2>1, ToldMoves
<1> QED
  BY <1>5, <1>6, <1>7, <1>8 DEF StepKeeps

(* What is known of a send in flight whose row is still there. *)
LEMMA SendingFacts ==
  ASSUME SendInv, NEW k \in Keys, job[k].at # "none", Sending(k)
  PROVE  /\ rows[k] \in GoodRow
         /\ rows[k].attempts < MaxThrottled /\ rows[k].attempts \in 0..MaxThrottled
         /\ job[k].attempts < MaxThrottled /\ job[k].attempts \in 0..MaxThrottled
         /\ job[k].exp \in Nat /\ rows[k].exp = job[k].exp
         /\ rows[k].version = job[k].version
         /\ Counted(k) = IF job[k].at = "taken" THEN 1 ELSE 0
         /\ clock \in Nat
<1>1. rows[k] \in GoodRow /\ job[k] \in Job /\ clock \in Nat
  BY DEF SendInv, TypeInv, TypeOK, RowsAreGood
<1>2. rows[k].status = "sending"
  BY DEF Sending
<1>3. rows[k].attempts < MaxThrottled /\ rows[k].attempts \in 0..MaxThrottled
  BY <1>1, <1>2 DEF GoodRow, Row
<1>4. job[k].attempts \in 0..MaxThrottled /\ job[k].exp \in Nat
  BY <1>1 DEF Job
<1> QED
  BY <1>1, <1>2, <1>3, <1>4 DEF SendInv, JobsAreClaimed, Counted

LEMMA ToldNone ==
  ASSUME SendInv
  PROVE  Told({}) = events
BY DEF Told, SendInv, TypeInv, TypeOK

LEMMA LimiterRefusesSendKeeps ==
  ASSUME SendInv, NEW k \in Keys, LimiterRefusesSend(k)
  PROVE  StepKeeps
<1> DEFINE new == Waiting(k, rows[k].attempts, ThrottleDelay[1])
<1>1. ThrottleDelay[1] \in Nat
  BY LimitsAssumption, DelaysAssumption
<1>2. job[k].at = "limiter"
  BY DEF LimiterRefusesSend
<1>3. ASSUME Sending(k)
      PROVE  /\ new \in GoodRow /\ new.version = rows[k].version /\ new.status = "pending"
             /\ Counted(k) = 0
  <2>1. rows[k].status = "sending"
    BY <1>3 DEF Sending
  <2> QED
    BY <1>1, <1>2, <1>3, <2>1, SendingFacts, WaitingGood
<1>4. rows' = IF Sending(k) THEN [rows EXCEPT ![k] = new] ELSE rows
  BY DEF LimiterRefusesSend
<1> HIDE DEF new
<1>5. events' = Told(IF Sending(k) /\ new.status \in {"failed", "unknown"} THEN {k} ELSE {})
  BY <1>3, ToldNone DEF LimiterRefusesSend, history
<1> QED
  BY <1>2, <1>3, <1>4, <1>5, SendEnds DEF LimiterRefusesSend, Drop, StatusMove, history

LEMMA LimiterAllowsKeeps ==
  ASSUME SendInv, NEW k \in Keys, LimiterAllows(k)
  PROVE  StepKeeps
<1>1. job[k].at = "limiter"
  BY DEF LimiterAllows
<1>2. CASE Sending(k) /\ clock < rows[k].exp
  <2>1. /\ job' = [job EXCEPT ![k].at = "posting"]
        /\ UNCHANGED <<clock, rows, tickAt, alarm, arrived, pc, now, retryAt, erasure,
                       reached, events, calls, faults>>
    BY <1>2 DEF LimiterAllows
  <2>2. job \in [Keys -> Job] /\ job[k] \in Job
    BY DEF SendInv, TypeInv, TypeOK
  <2>3. job' \in [Keys -> Job]
    BY <2>1, <2>2 DEF Job
  <2>4. TypeOK'
    BY <2>1, <2>3 DEF SendInv, TypeInv, TypeOK, erasure
  <2>5. \A l \in Keys : /\ job'[l].version = job[l].version
                        /\ job'[l].attempts = job[l].attempts
                        /\ job'[l].exp = job[l].exp
                        /\ job'[l].at = IF l = k THEN "posting" ELSE job[l].at
    BY <2>1, <2>2 DEF Job
  <2>6. JobsAreClaimed'
    BY <1>1, <2>1, <2>5 DEF SendInv, JobsAreClaimed
  <2> QED
    BY <2>1, <2>4, <2>6, RowsStay
<1>3. CASE ~(Sending(k) /\ clock < rows[k].exp)
  <2> DEFINE new == [rows[k] EXCEPT !.status = "failed"]
  <2>1. ASSUME Sending(k)
        PROVE  /\ new \in GoodRow /\ new.version = rows[k].version /\ new.status = "failed"
               /\ Counted(k) = 0
    <3>1. rows[k] \in GoodRow /\ rows[k].status # "gone" /\ Counted(k) = 0
      BY <1>1, <2>1, SendingFacts DEF Sending
    <3> QED
      BY <3>1, EndedGood
  <2>2. rows' = IF Sending(k) THEN [rows EXCEPT ![k] = new] ELSE rows
    BY <1>3 DEF LimiterAllows
  <2> HIDE DEF new
  <2>3. events' = Told(IF Sending(k) /\ new.status \in {"failed", "unknown"} THEN {k} ELSE {})
    BY <1>3, <2>1 DEF LimiterAllows
  <2> QED
    BY <1>1, <1>3, <2>1, <2>2, <2>3, SendEnds DEF LimiterAllows, Drop, StatusMove
<1> QED
  BY <1>2, <1>3

LEMMA MetaTakesKeeps ==
  ASSUME SendInv, NEW k \in Keys, MetaTakes(k)
  PROVE  StepKeeps
<1> USE DEF SendInv
<1> DEFINE v == job[k].version
<1>1. /\ job[k].at = "posting"
      /\ job' = [job EXCEPT ![k].at = "taken"]
      /\ reached' = [reached EXCEPT ![k][v] = @ + 1]
      /\ UNCHANGED <<clock, rows, tickAt, alarm, arrived, pc, now, retryAt, erasure, events,
                     calls, faults>>
  BY DEF MetaTakes
<1>2. job \in [Keys -> Job] /\ job[k] \in Job /\ reached \in [Keys -> [Versions -> Nat]]
  BY DEF TypeInv, TypeOK
<1>3. /\ v \in Versions /\ v <= rows[k].version /\ reached[k][v] = 0
      /\ v = rows[k].version => rows[k].status \in {"sending", "gone"}
  BY <1>1 DEF JobsAreClaimed
<1>4. \A l \in Keys : /\ job'[l].version = job[l].version
                      /\ job'[l].attempts = job[l].attempts
                      /\ job'[l].exp = job[l].exp
                      /\ job'[l].at = IF l = k THEN "taken" ELSE job[l].at
  BY <1>1, <1>2 DEF Job
<1> HIDE DEF v
<1>5. \A l \in Keys, u \in Versions :
        reached'[l][u] = IF l = k /\ u = v THEN 1 ELSE reached[l][u]
  BY <1>1, <1>2, <1>3
<1>6. TypeInv'
  <2>1. job' \in [Keys -> Job]
    BY <1>1, <1>2 DEF Job
  <2>2. reached' \in [Keys -> [Versions -> Nat]]
    BY <1>1, <1>2, <1>3
  <2> QED
    BY <1>1, <2>1, <2>2 DEF TypeInv, TypeOK, RowsAreGood, erasure
<1>7. JobsAreClaimed'
  BY <1>1, <1>4, <1>5 DEF JobsAreClaimed, v
<1>8. \A l \in Keys : KeyMoves(l)
  <2>1. \A l \in Keys : Taken(l)
    BY <1>3, <1>5 DEF Taken
  <2> QED
    BY <1>1, <2>1 DEF KeyMoves
<1>9. EventsMove
  <2>1. \A l \in Keys : ~EndsUnsent(l)
    BY <1>1 DEF EndsUnsent, Open, In
  <2> QED
    BY <1>1, <2>1, QuietMoves
<1> QED
  BY <1>6, <1>7, <1>8, <1>9 DEF StepKeeps

LEMMA AnsweredGood ==
  ASSUME SendInv, NEW k \in Keys, NEW answer \in Answers, MayAnswer(k, answer), Sending(k)
  PROVE  /\ Answered(k, answer) \in GoodRow
         /\ Answered(k, answer).version = rows[k].version
         /\ StatusMove("sending", Answered(k, answer).status, Counted(k))
<1> DEFINE n == job[k].attempts + 1
           ends(status) == [rows[k] EXCEPT !.status = status, !.attempts = n]
<1>1. job[k].at \in {"posting", "taken"}
  BY DEF MayAnswer
<1>2. rows[k] \in GoodRow /\ rows[k].status = "sending" /\ n \in 0..MaxThrottled
  BY <1>1, SendingFacts, LimitsAssumption DEF Sending
<1>3. Counted(k) = IF job[k].at = "taken" THEN 1 ELSE 0
  BY <1>1, SendingFacts
<1>4. \A status \in {"sent", "unknown", "failed"} :
        /\ ends(status) \in GoodRow
        /\ ends(status).status = status
        /\ ends(status).version = rows[k].version
  <2> DEFINE row == rows[k]
  <2>1. row \in GoodRow /\ row.status = "sending"
    BY <1>2
  <2> HIDE DEF n, row
  <2>2. ASSUME NEW status \in {"sent", "unknown", "failed"}
        PROVE  LET new == [row EXCEPT !.status = status, !.attempts = n]
               IN new \in GoodRow /\ new.status = status /\ new.version = row.version
    BY <1>2, <2>1 DEF GoodRow, Row, RowStatus
  <2> QED
    BY <2>2 DEF row
<1>5. CASE answer = "throttled" /\ n < MaxThrottled
  <2>1. ThrottleDelay[n] \in Nat /\ n \in 1..MaxThrottled
    <3>1. job[k].attempts \in Nat /\ n \in 1..MaxThrottled
      BY <1>1, <1>5, SendingFacts, LimitsAssumption DEF SendInv, TypeInv, TypeOK, Job
    <3> HIDE DEF n
    <3> QED
      BY <3>1, DelaysAssumption
  <2>2. Answered(k, answer) = Waiting(k, n, ThrottleDelay[n])
    BY <1>5 DEF Answered
  <2>3. Counted(k) = 0
    BY <1>3, <1>5 DEF MayAnswer
  <2> HIDE DEF n
  <2>4. /\ Waiting(k, n, ThrottleDelay[n]) \in GoodRow
        /\ Waiting(k, n, ThrottleDelay[n]).status = "pending"
        /\ Waiting(k, n, ThrottleDelay[n]).version = rows[k].version
    BY <1>1, <1>2, <1>5, <2>1, SendingFacts, WaitingGood
  <2> QED
    BY <2>2, <2>3, <2>4 DEF StatusMove
<1>6. CASE answer = "ok"
  <2>1. Answered(k, answer) = ends("sent")
    BY <1>6 DEF Answered
  <2>2. Counted(k) = 1
    BY <1>3, <1>6 DEF MayAnswer
  <2> HIDE DEF ends
  <2> QED
    BY <1>4, <2>1, <2>2 DEF StatusMove
<1>7. CASE answer = "lost"
  <2>1. Answered(k, answer) = ends("unknown")
    BY <1>7 DEF Answered
  <2> HIDE DEF ends
  <2> QED
    BY <1>4, <2>1 DEF StatusMove
<1>8. CASE answer \notin {"ok", "lost"} /\ ~(answer = "throttled" /\ n < MaxThrottled)
  <2>1. Answered(k, answer) = ends("failed")
    BY <1>8 DEF Answered
  <2>2. Counted(k) = 0
    BY <1>3, <1>8 DEF MayAnswer
  <2> HIDE DEF ends
  <2> QED
    BY <1>4, <2>1, <2>2 DEF StatusMove
<1> QED
  BY <1>5, <1>6, <1>7, <1>8

LEMMA MetaAnswersSendKeeps ==
  ASSUME SendInv, NEW k \in Keys, NEW answer \in Answers, MetaAnswersSend(k, answer)
  PROVE  StepKeeps
<1>1. job[k].at # "none" /\ MayAnswer(k, answer)
  BY DEF MetaAnswersSend, MayAnswer
<1> QED
  BY <1>1, AnsweredGood, SendEnds DEF MetaAnswersSend, Drop

-----------------------------------------------------------------------------
(* The strengthening is inductive.                                         *)

LEMMA NextKeeps ==
  ASSUME SendInv, Next
  PROVE  StepKeeps
<1>1. CASE Requests
  BY <1>1, PutScheduledKeeps, OperatorKeeps, EraseByPhoneKeeps, PurgeReturnsKeeps
     DEF Requests
<1>2. CASE Sends
  BY <1>2, LimiterRefusesSendKeeps, LimiterAllowsKeeps, MetaTakesKeeps,
     MetaAnswersSendKeeps DEF Sends
<1>3. CASE Step
  BY <1>3, AlarmFiresKeeps, StepStartsKeeps, StepFailsKeeps, TokenFailsKeeps, ClaimKeeps,
     StepJoinsKeeps, AlarmReturnsKeeps DEF Step
<1>4. CASE Crash \/ Tick
  BY <1>4, CrashKeeps, TickKeeps
<1> QED
  BY <1>1, <1>2, <1>3, <1>4 DEF Next

LEMMA SendInit == Init => SendInv
<1> SUFFICES ASSUME Init PROVE SendInv
  OBVIOUS
<1>1. \A k \in Keys : /\ rows[k].status = "gone" /\ rows[k].version = 0
                      /\ job[k].at = "none"
                      /\ \A v \in Versions : reached[k][v] = 0
  BY DEF Init, NoRow, NoJob
<1>2. JobsAreClaimed /\ ReachedIsTold
  BY <1>1 DEF JobsAreClaimed, ReachedIsTold
<1> QED
  BY <1>2, TypeInit DEF SendInv

LEMMA KeysStayTold ==
  ASSUME SendInv, \A k \in Keys : KeyMoves(k)
  PROVE  ReachedIsTold'
<1> SUFFICES ASSUME NEW k \in Keys, NEW v \in Versions
             PROVE  /\ reached'[k][v] \in {0, 1}
                    /\ v > rows'[k].version => reached'[k][v] = 0
                    /\ v = rows'[k].version =>
                         /\ rows'[k].status \in {"pending", "failed", "cancelled"}
                              => reached'[k][v] = 0
                         /\ rows'[k].status = "sent" => reached'[k][v] = 1
  BY DEF ReachedIsTold
<1>1. /\ reached[k][v] \in {0, 1}
      /\ v > rows[k].version => reached[k][v] = 0
      /\ v = rows[k].version =>
           /\ rows[k].status \in {"pending", "failed", "cancelled"} => reached[k][v] = 0
           /\ rows[k].status = "sent" => reached[k][v] = 1
  BY DEF SendInv, ReachedIsTold
<1>2. rows[k].version \in Nat /\ v \in Nat
  BY DEF SendInv, TypeInv, TypeOK, Row, Versions
<1>3. CASE rows'[k].status = rows[k].status /\ rows'[k].version = rows[k].version /\ Taken(k)
  BY <1>1, <1>2, <1>3 DEF Taken
<1>4. CASE /\ rows[k].status \in {"gone", "failed", "cancelled"}
           /\ rows'[k].status = "pending" /\ rows'[k].version = rows[k].version + 1
           /\ reached'[k] = reached[k]
  BY <1>1, <1>2, <1>4
<1>5. CASE /\ rows'[k].version = rows[k].version
           /\ StatusMove(rows[k].status, rows'[k].status, reached[k][rows[k].version])
           /\ reached'[k] = reached[k]
  BY <1>1, <1>2, <1>5 DEF StatusMove
<1> QED
  BY <1>3, <1>4, <1>5 DEF KeyMoves

LEMMA SendStep ==
  ASSUME SendInv, [Next]_vars
  PROVE  SendInv' /\ (\A k \in Keys : KeyMoves(k)) /\ EventsMove
<1>1. CASE Next
  <2>1. StepKeeps
    BY <1>1, NextKeeps
  <2> QED
    BY <2>1, KeysStayTold DEF StepKeeps, SendInv
<1>2. CASE UNCHANGED vars
  <2>1. TypeOK' /\ JobsAreClaimed'
    BY <1>2 DEF vars, step, history, SendInv, TypeInv, TypeOK, JobsAreClaimed, erasure
  <2>2. StepKeeps
    BY <1>2, <2>1, RowsStay DEF vars, history
  <2> QED
    BY <2>2, KeysStayTold DEF StepKeeps, SendInv
<1> QED
  BY <1>1, <1>2

LEMMA SendInvariant == Spec => []SendInv
<1>1. SendInv /\ [Next]_vars => SendInv'
  BY SendStep
<1> QED
  BY <1>1, SendInit, PTL DEF Spec

-----------------------------------------------------------------------------
(* Theorems.                                                               *)

(* Every variable of the scheduled sends keeps its type.                     *)
THEOREM TypeCorrect == Spec => []TypeOK
<1>1. SendInv => TypeOK
  BY DEF SendInv, TypeInv
<1> QED
  BY <1>1, SendInvariant, PTL

(* No pending send is due after it expires, whichever of the step, the       *)
(* limiter and Meta put it off.                                              *)
THEOREM PendingDueBeforeExpiry == Spec => []DueBeforeExpiry
<1>1. SendInv => DueBeforeExpiry
  BY DEF SendInv, TypeInv, RowsAreGood, GoodRow, DueBeforeExpiry, In
<1> QED
  BY <1>1, SendInvariant, PTL

(* The scheduled sends implement SendPromise, each row that a key ever names  *)
(* being a message: Meta takes it at most once, and the outcome of a send in *)
(* flight never goes to the row that has taken its place.                    *)
THEOREM PromiseIsKept == Spec => KeepsPromise
<1> DEFINE M == Keys \X Versions
           told == [m \in M |-> Promised(m[1], m[2])]
           took == [m \in M |-> reached[m[1]][m[2]]]
<1>1. Init => Promise!Init
  <2> SUFFICES ASSUME Init PROVE Promise!Init
    OBVIOUS
  <2>1. \A m \in M : told[m] = "none" /\ took[m] = 0
    BY DEF Init, NoRow, Promised, Versions
  <2> QED
    BY <2>1 DEF Promise!Init
<1>2. ASSUME SendInv, [Next]_vars
      PROVE  [Promise!Next]_(Promise!vars)
  <2>1. (\A k \in Keys : KeyMoves(k)) /\ SendInv'
    BY <1>2, SendStep
  <2>2. told' \in [M -> Promise!Status]
    <3>1. ASSUME NEW k \in Keys, NEW v \in Versions
          PROVE  Promised(k, v)' \in Promise!Status
      <4>1. /\ rows'[k].status \in RowStatus /\ rows'[k].version \in Nat
            /\ v \in Nat
        <5>1. rows'[k] \in Row
          BY <2>1 DEF SendInv, TypeInv, TypeOK
        <5> QED
          BY <5>1 DEF Row, Versions
      <4> QED
        BY <4>1 DEF Promised, Open, In, RowStatus, Promise!Status
    <3> QED
      BY <3>1
  <2>3. took' \in [M -> Nat]
    BY <2>1 DEF SendInv, TypeInv, TypeOK
  <2>4. ASSUME NEW m \in M
        PROVE  \/ told'[m] = told[m] /\ took'[m] = took[m]
               \/ told[m] = "none" /\ told'[m] = "open" /\ took'[m] = took[m]
               \/ /\ told[m] \in {"open", "erased"} /\ took[m] = 0
                  /\ told'[m] = told[m] /\ took'[m] = 1
               \/ /\ told[m] = "open"
                  /\ \/ told'[m] = "sent" /\ took[m] = 1
                     \/ told'[m] \in {"failed", "cancelled"} /\ took[m] = 0
                     \/ told'[m] = "unknown"
                  /\ took'[m] = took[m]
               \/ told[m] # "none" /\ told'[m] = "erased" /\ took'[m] = took[m]
    <3>1. PICK k \in Keys, v \in Versions : m = <<k, v>>
      OBVIOUS
    <3>2. /\ took[m] = reached[k][v] /\ took'[m] = reached'[k][v]
          /\ told[m] = Promised(k, v) /\ told'[m] = Promised(k, v)'
      BY <3>1
    <3>3. /\ rows[k].version \in Nat /\ rows'[k].version \in Nat /\ v \in Nat
          /\ rows[k].status \in RowStatus /\ rows'[k].status \in RowStatus
      <4>1. rows[k] \in Row /\ rows'[k] \in Row
        BY <1>2, <2>1 DEF SendInv, TypeInv, TypeOK
      <4> QED
        BY <4>1 DEF Row, Versions
    <3> HIDE DEF told, took, M
    <3>4. CASE rows'[k].status = rows[k].status /\ rows'[k].version = rows[k].version /\ Taken(k)
      <4>1. Promised(k, v)' = Promised(k, v)
        BY <3>4 DEF Promised, Open, In
      <4>2. CASE reached'[k][v] = reached[k][v]
        BY <3>2, <4>1, <4>2
      <4>3. CASE reached'[k][v] # reached[k][v]
        <5>1. /\ reached[k][v] = 0 /\ reached'[k][v] = 1 /\ v <= rows[k].version
              /\ v = rows[k].version => rows[k].status \in {"sending", "gone"}
          BY <3>4, <4>3 DEF Taken
        <5>2. Promised(k, v) \in {"open", "erased"}
          BY <3>3, <5>1 DEF Promised, Open, In
        <5> QED
          BY <3>2, <4>1, <5>1, <5>2
      <4> QED
        BY <4>2, <4>3
    <3>5. CASE /\ rows[k].status \in {"gone", "failed", "cancelled"}
               /\ rows'[k].status = "pending" /\ rows'[k].version = rows[k].version + 1
               /\ reached'[k] = reached[k]
      <4>1. CASE v < rows[k].version
        BY <3>2, <3>3, <3>5, <4>1 DEF Promised, Open, In
      <4>2. CASE v = rows[k].version
        BY <3>2, <3>3, <3>5, <4>2 DEF Promised, Open, In
      <4>3. CASE v = rows'[k].version
        BY <3>2, <3>3, <3>5, <4>3 DEF Promised, Open, In
      <4>4. CASE v > rows'[k].version
        BY <3>2, <3>3, <3>5, <4>4 DEF Promised, Open, In
      <4> QED
        BY <3>3, <3>5, <4>1, <4>2, <4>3, <4>4
    <3>6. CASE /\ rows'[k].version = rows[k].version
               /\ StatusMove(rows[k].status, rows'[k].status, reached[k][rows[k].version])
               /\ reached'[k] = reached[k]
      <4>1. CASE v = rows[k].version
        BY <3>2, <3>3, <3>6, <4>1 DEF Promised, Open, In, StatusMove
      <4>2. CASE v # rows[k].version
        BY <3>2, <3>3, <3>6, <4>2 DEF Promised, Open, In
      <4> QED
        BY <4>1, <4>2
    <3> QED
      BY <2>1, <3>4, <3>5, <3>6 DEF KeyMoves
  <2>5. Promise!Next
    BY <2>2, <2>3, <2>4 DEF Promise!Next, Promise!Stays, Promise!Accept,
       Promise!Take, Promise!Settle, Promise!Erase
  <2> QED
    BY <2>5
<1> QED
  BY <1>1, <1>2, SendInvariant, PTL DEF Spec, KeepsPromise, Promise!Spec

(* What a caller of the tools may conclude from what it is told of one send, *)
(* the row of a key in one of the versions it ever had.                      *)
ToldIsTrue(k, v) ==
  /\ reached[k][v] \in {0, 1}
  /\ Promised(k, v) = "sent" => reached[k][v] = 1
  /\ Promised(k, v) \in {"none", "failed", "cancelled"} => reached[k][v] = 0

AllToldIsTrue == \A k \in Keys, v \in Versions : ToldIsTrue(k, v)

(* No scheduled send reaches Meta twice, whatever restarts, retries and      *)
(* replacements of its row come between; one that is said to be sent did,    *)
(* and one that is said to have failed or to be cancelled never does, also   *)
(* not later (sendDueScheduled, settleScheduled, cancelScheduledMessage).    *)
THEOREM ScheduledIsTrue == Spec => []AllToldIsTrue
<1> DEFINE M == Keys \X Versions
           told == [m \in M |-> Promised(m[1], m[2])]
           took == [m \in M |-> reached[m[1]][m[2]]]
           Truth == \A m \in M :
                      /\ took[m] \in {0, 1}
                      /\ told[m] = "sent" => took[m] = 1
                      /\ told[m] \in {"none", "failed", "cancelled"} => took[m] = 0
<1>1. Promise!Init => Truth
  BY DEF Promise!Init
<1>2. ASSUME Truth, [Promise!Next]_(Promise!vars)
      PROVE  Truth'
  <2>1. CASE Promise!Next
    <3>1. ASSUME NEW m \in M
          PROVE  \/ Promise!Stays(m) \/ Promise!Accept(m) \/ Promise!Take(m)
                 \/ Promise!Settle(m) \/ Promise!Erase(m)
      BY <2>1, <3>1 DEF Promise!Next
    <3>2. ASSUME NEW m \in M
          PROVE  /\ took'[m] \in {0, 1}
                 /\ told'[m] = "sent" => took'[m] = 1
                 /\ told'[m] \in {"none", "failed", "cancelled"} => took'[m] = 0
      <4> HIDE DEF told, took
      <4> QED
        BY <1>2, <3>1, <3>2 DEF Promise!Stays, Promise!Accept, Promise!Take,
           Promise!Settle, Promise!Erase, told, took
    <3> QED
      BY <3>2
  <2>2. CASE UNCHANGED Promise!vars
    BY <1>2, <2>2 DEF Promise!vars
  <2> QED
    BY <1>2, <2>1, <2>2
<1>3. Truth => AllToldIsTrue
  <2> SUFFICES ASSUME Truth, NEW k \in Keys, NEW v \in Versions
               PROVE  ToldIsTrue(k, v)
    BY DEF AllToldIsTrue
  <2>1. /\ <<k, v>> \in M
        /\ told[<<k, v>>] = Promised(k, v) /\ took[<<k, v>>] = reached[k][v]
    OBVIOUS
  <2> QED
    BY <2>1 DEF ToldIsTrue
<1> HIDE DEF Truth
<1> QED
  BY <1>1, <1>2, <1>3, PromiseIsKept, PTL DEF KeepsPromise, Promise!Spec

(* A send that ends failed or unknown is told of once, in the step that ends *)
(* it, and nothing else is.                                                  *)
THEOREM FailuresAreTold == Spec => FailureIsTold
<1>1. SendInv /\ [Next]_vars =>
        \A k \in Keys, v \in Versions :
          events'[k][v] = events[k][v] +
            IF /\ k \in Open
               /\ v = rows[k].version
               /\ rows'[k].status \in {"failed", "unknown"}
            THEN 1 ELSE 0
  BY SendStep DEF EventsMove, EndsUnsent
<1> QED
  BY <1>1, SendInvariant, PTL DEF Spec, FailureIsTold

LEMMA PostIsLive ==
  ASSUME SendInv, Next, NEW k \in Keys, job[k].at = "limiter", job'[k].at = "posting"
  PROVE  /\ rows[k].status = "sending"
         /\ rows[k].version = job[k].version
         /\ clock < rows[k].exp
<1>1. job \in [Keys -> Job]
  BY DEF SendInv, TypeInv, TypeOK
<1>2. LimiterAllows(k)
  <2>1. CASE Requests \/ Tick \/ AlarmFires \/ StepStarts \/ TokenFails \/ StepJoins
             \/ AlarmReturns \/ \E swept \in SUBSET Keys : StepFails(swept)
    <3>1. job' = job
      BY <2>1 DEF Requests, PutScheduled, CancelScheduled, EraseByPhone, PurgeReturns,
         PruneExpired, Tick, AlarmFires, StepStarts, TokenFails, StepJoins, AlarmReturns,
         StepFails, step
    <3> QED
      BY <3>1
  <2>2. CASE Crash
    BY <2>2 DEF Crash, NoJob
  <2>4. ASSUME NEW S \in SUBSET Keys, Claim(S)
        PROVE  FALSE
    BY <2>4, NoneInFlight DEF Claim
  <2>3. CASE Sends
    <3>1. PICK l \in Keys : \/ LimiterRefusesSend(l) \/ LimiterAllows(l) \/ MetaTakes(l)
                            \/ \E answer \in Answers : MetaAnswersSend(l, answer)
      BY <2>3 DEF Sends
    <3>2. l = k
      BY <1>1, <3>1 DEF LimiterRefusesSend, LimiterAllows, MetaTakes, MetaAnswersSend, Drop
    <3>3. ~MetaTakes(l) /\ ~LimiterRefusesSend(l)
      BY <1>1, <3>2 DEF MetaTakes, LimiterRefusesSend, Drop, NoJob
    <3>4. \A answer \in Answers : ~MetaAnswersSend(l, answer)
      BY <1>1, <3>2 DEF MetaAnswersSend, MayAnswer
    <3> QED
      BY <3>1, <3>2, <3>3, <3>4
  <2> QED
    BY <2>1, <2>2, <2>3, <2>4 DEF Next, Step
<1>3. Sending(k) /\ clock < rows[k].exp
  BY <1>1, <1>2 DEF LimiterAllows, Drop, NoJob
<1> QED
  BY <1>3 DEF Sending, SendInv, JobsAreClaimed

(* A POST starts only for the row that was claimed, as long as it is neither *)
(* erased nor expired.                                                       *)
THEOREM SentIsLive == Spec => OnlyLiveIsSent
<1>1. SendInv /\ [Next]_vars =>
        \/ \A k \in Keys : job[k].at = "limiter" /\ job'[k].at = "posting" =>
             /\ rows[k].status = "sending"
             /\ rows[k].version = job[k].version
             /\ clock < rows[k].exp
        \/ UNCHANGED vars
  BY PostIsLive
<1> QED
  BY <1>1, SendInvariant, PTL DEF Spec, OnlyLiveIsSent

-----------------------------------------------------------------------------
(* The alarm.  While no step runs, the earliest time that the open rows ask  *)
(* for moves later, or to that of a send which has just been put.            *)

NextWake == Later(Least(NextWakes), tickAt)
(* What may put the alarm off: a step that failed, a purge that R2 refused. *)
Retries == {retryAt, putOff} \ {0}
InTime(t) == t <= Later(NextWake, clock) \/ \E retry \in Retries : t <= retry
Awaited == NextWakes # {} => alarm # NoAlarm /\ InTime(alarm)
IdleAwaits == pc = "idle" => Awaited

LEMMA AwaitedIs ==
  ASSUME TypeOK
  PROVE  OpenIsAwaited <=> IdleAwaits
<1>1. Open = {} <=> NextWakes = {}
  BY DEF Open, NextWakes, In
<1>2. CASE NextWakes # {}
  <2>1. ScheduledWakes = {NextWake}
    BY <1>2 DEF ScheduledWakes, NextWake
  <2>2. (\E retry \in Retries : alarm <= retry) <=>
          (retryAt > 0 /\ alarm <= retryAt) \/ (putOff > 0 /\ alarm <= putOff)
    <3>1. (retryAt # 0 <=> retryAt > 0) /\ (putOff # 0 <=> putOff > 0)
      BY DEF TypeOK
    <3>2. Retries = {t \in {retryAt, putOff} : t # 0}
      BY DEF Retries
    <3> QED
      BY <3>1, <3>2
  <2>3. (\E t \in ScheduledWakes : alarm <= Later(t, clock))
          <=> alarm <= Later(NextWake, clock)
    BY <2>1
  <2>4. Awaited <=>
          /\ alarm # NoAlarm
          /\ \/ alarm <= Later(NextWake, clock)
             \/ retryAt > 0 /\ alarm <= retryAt
             \/ putOff > 0 /\ alarm <= putOff
    BY <1>2, <2>2 DEF Awaited, InTime
  <2> QED
    BY <1>1, <1>2, <2>3, <2>4 DEF OpenIsAwaited, IdleAwaits
<1> QED
  BY <1>1, <1>2 DEF OpenIsAwaited, Awaited, IdleAwaits

LEMMA LeastOfFewer ==
  ASSUME NEW S \in SUBSET Nat, NEW T \in SUBSET Nat, T # {}, T \subseteq S
  PROVE  S # {} /\ Least(S) \in Nat /\ Least(T) \in Nat /\ Least(S) <= Least(T)
BY LeastIs

LEMMA NextWakesAreTimes ==
  ASSUME SendInv'
  PROVE  NextWakes' \in SUBSET Nat
<1>1. \A k \in Keys : rows'[k].due \in Nat /\ rows'[k].since + StaleMs \in Nat
  BY DelaysAssumption DEF SendInv, TypeInv, TypeOK, Row
<1> QED
  BY <1>1 DEF NextWakes, In

LEMMA FewerWakes ==
  ASSUME SendInv, SendInv', Awaited, NextWakes' \subseteq NextWakes,
         UNCHANGED <<tickAt, retryAt, putOff, alarm>>, clock <= clock'
  PROVE  Awaited'
<1> DEFINE S == NextWakes
           T == NextWakes'
<1>1. S \in SUBSET Nat /\ T \in SUBSET Nat /\ T \subseteq S
  BY WakesAreTimes, NextWakesAreTimes DEF SendInv
<1>2. tickAt \in Nat /\ clock \in Nat /\ clock' \in Nat /\ alarm \in Nat \cup {NoAlarm}
  BY DEF SendInv, TypeInv, TypeOK
<1>3. /\ NextWake = Later(Least(S), tickAt)
      /\ NextWake' = Later(Least(T), tickAt)
      /\ S # {} => alarm # NoAlarm /\ InTime(alarm)
  BY DEF Awaited, NextWake
<1> SUFFICES ASSUME T # {}
             PROVE  /\ alarm # NoAlarm
                    /\ \/ alarm <= Later(NextWake', clock')
                       \/ \E retry \in Retries : alarm <= retry
  BY DEF Awaited, InTime, NextWake, Retries
<1> HIDE DEF S, T
<1>4. S # {} /\ Least(S) \in Nat /\ Least(T) \in Nat /\ Least(S) <= Least(T)
  BY <1>1, LeastOfFewer
<1>5. Later(NextWake, clock) <= Later(NextWake', clock')
  BY <1>2, <1>3, <1>4 DEF Later
<1>6. Later(NextWake, clock) \in Nat /\ Later(NextWake', clock') \in Nat
  BY <1>2, <1>3, <1>4 DEF Later
<1>7. alarm # NoAlarm => alarm \in Nat
  BY <1>2
<1> QED
  BY <1>2, <1>3, <1>4, <1>5, <1>6, <1>7 DEF InTime

(* A send that is put: the alarm is no later than its time, and no later than *)
(* it was.                                                                   *)
LEMMA PutIsAwaited ==
  ASSUME SendInv, SendInv', Awaited,
         NEW k \in Keys, NEW at \in Times, NEW exp \in Times, PutScheduled(k, at, exp)
  PROVE  Awaited'
<1> DEFINE S == NextWakes
           T == NextWakes'
<1>1. /\ tickAt \in Nat /\ clock \in Nat /\ retryAt \in Nat /\ putOff \in Nat /\ at \in Nat
      /\ alarm \in Nat \cup {NoAlarm}
      /\ UNCHANGED <<tickAt, clock, retryAt, putOff>>
  BY DEF SendInv, TypeInv, TypeOK, PutScheduled, step, erasure, Times
<1>2. S \in SUBSET Nat /\ T \in SUBSET Nat
  BY WakesAreTimes, NextWakesAreTimes DEF SendInv
<1>3. T \subseteq S \cup {at}
  <2>1. rows \in [Keys -> Row]
    BY DEF SendInv, TypeInv, TypeOK
  <2>2. \A l \in Keys : rows'[l] = IF l = k THEN Upserted(rows[k], at, exp) ELSE rows[l]
    BY <2>1 DEF PutScheduled
  <2>3. rows'[k].status = "pending" /\ rows'[k].due = at
    BY <2>2 DEF Upserted
  <2> QED
    BY <2>2, <2>3 DEF NextWakes, In
<1>4. /\ NextWake = Later(Least(S), tickAt)
      /\ NextWake' = Later(Least(T), tickAt)
      /\ S # {} => alarm # NoAlarm /\ InTime(alarm)
      /\ Retries \subseteq Nat
      /\ InTime(alarm)' <=> \/ alarm' <= Later(NextWake', clock)
                            \/ \E retry \in Retries : alarm' <= retry
  BY <1>1 DEF Awaited, NextWake, InTime, Retries
<1>5. CASE at <= clock
  <2>1. alarm' = clock
    BY <1>5 DEF PutScheduled
  <2>2. T # {} => Least(T) \in Nat
    BY <1>2, LeastIs
  <2>3. T # {} => clock <= Later(NextWake', clock)
    BY <1>1, <1>4, <2>2 DEF Later
  <2> QED
    BY <1>1, <1>4, <2>1, <2>3 DEF Awaited, NoAlarm
<1>6. CASE at > clock
  <2>1. alarm' = Armed(at)
    BY <1>1, <1>6 DEF PutScheduled
  <2>2. /\ alarm' \in Nat /\ alarm' <= at
        /\ alarm # NoAlarm => alarm' <= alarm
    BY <1>1, <2>1 DEF Armed, Earlier, NoAlarm
  <2> SUFFICES ASSUME T # {}
               PROVE  \/ alarm' <= Later(NextWake', clock)
                      \/ \E retry \in Retries : alarm' <= retry
    BY <1>1, <1>4, <2>2 DEF Awaited, NoAlarm
  <2> HIDE DEF S, T
  <2>3. Least(T) \in T /\ Least(T) \in Nat
    BY <1>2, LeastIs
  <2>4. CASE Least(T) = at
    BY <1>1, <1>4, <2>2, <2>4 DEF Later
  <2>5. CASE Least(T) \in S
    <3>1. S # {} /\ Least(S) \in Nat /\ Least(S) <= Least(T)
      BY <1>2, <2>5, LeastIs
    <3>2. alarm \in Nat
      BY <1>1, <1>4, <3>1
    <3>3. Later(NextWake, clock) <= Later(NextWake', clock)
          /\ Later(NextWake, clock) \in Nat /\ Later(NextWake', clock) \in Nat
      BY <1>1, <1>4, <2>3, <3>1 DEF Later
    <3>4. alarm' \in Nat /\ alarm' <= alarm
      BY <1>4, <2>2, <3>1
    <3> QED
      BY <1>4, <3>1, <3>2, <3>3, <3>4 DEF InTime
  <2> QED
    BY <1>3, <2>3, <2>4, <2>5
<1> QED
  BY <1>1, <1>5, <1>6

(* A purge that R2 refuses arms its own retry and nothing earlier. *)
LEMMA RefusalIsAwaited ==
  ASSUME SendInv, SendInv', PurgeReturns(FALSE)
  PROVE  Awaited'
<1>1. clock + MediaRetry \in Nat /\ clock + MediaRetry > 0
  BY DelaysAssumption DEF SendInv, TypeInv, TypeOK
<1>2. alarm' = clock + MediaRetry /\ putOff' = clock + MediaRetry
  BY DEF PurgeReturns
<1> QED
  BY <1>1, <1>2 DEF Awaited, InTime, Retries, NoAlarm

LEMMA ReturnIsAwaited ==
  ASSUME SendInv, SendInv', AlarmReturns
  PROVE  Awaited'
<1>1. /\ tickAt \in Nat /\ clock \in Nat /\ retryAt \in Nat
      /\ UNCHANGED <<rows, tickAt, clock, retryAt>>
  BY DEF SendInv, TypeInv, TypeOK, AlarmReturns
<1>2. NextWakes' = NextWakes /\ NextWake' = NextWake
  BY <1>1 DEF NextWakes, NextWake, In
<1> SUFFICES ASSUME NextWakes # {}
             PROVE  /\ alarm' # NoAlarm
                    /\ \/ alarm' <= Later(NextWake, clock)
                       \/ retryAt > 0 /\ alarm' <= retryAt
  BY <1>1, <1>2 DEF Awaited, InTime, Retries
<1>3. Wakes \subseteq Nat /\ NextWakes \subseteq Nat
  BY WakesAreTimes DEF SendInv
<1>4. IF retryAt > 0 THEN retryAt \in Wakes ELSE NextWake \in Wakes
  BY DEF Wakes, ScheduledWakes, NextWake
<1>5. alarm' = Least(Wakes) /\ Least(Wakes) \in Nat /\ \A t \in Wakes : Least(Wakes) <= t
  BY <1>3, <1>4, LeastIs DEF AlarmReturns
<1>6. NextWake \in Nat
  <2>1. Least(NextWakes) \in Nat
    BY <1>3, LeastIs
  <2> QED
    BY <1>1, <2>1 DEF NextWake, Later
<1>7. NextWake <= Later(NextWake, clock) /\ Later(NextWake, clock) \in Nat
  BY <1>1, <1>6 DEF Later
<1> QED
  BY <1>1, <1>4, <1>5, <1>6, <1>7 DEF NoAlarm

(* While no step runs, what is open is awaited by an alarm that is no later  *)
(* than its next attempt, the next tick, or the retry of a step that failed; *)
(* or, when an erasure was refused by R2 since, than the retry of its purge  *)
(* (putScheduled, eraseByPhone and the last setAlarm of alarm()).            *)
THEOREM OpenHasAlarm == Spec => []OpenIsAwaited
<1>1. Init => IdleAwaits
  BY DEF Init, IdleAwaits, Awaited, NextWakes, In, NoRow
<1>2. SendInv /\ IdleAwaits => OpenIsAwaited
  BY AwaitedIs DEF SendInv, TypeInv
<1>3. ASSUME SendInv, IdleAwaits, [Next]_vars
      PROVE  IdleAwaits'
  <2>1. SendInv'
    BY <1>3, SendStep
  <2>2. clock \in Nat /\ alarm \in Nat \cup {NoAlarm} /\ tickAt \in Nat
    BY <1>3 DEF SendInv, TypeInv, TypeOK
  <2>3. SUFFICES ASSUME pc' = "idle" PROVE Awaited'
    BY DEF IdleAwaits
  <2>4. pc = "idle" => Awaited
    BY <1>3 DEF IdleAwaits
  <2>5. CASE AlarmReturns
    BY <1>3, <2>1, <2>5, ReturnIsAwaited
  <2>6. CASE Crash
    <3>1. alarm' = clock /\ UNCHANGED <<clock, tickAt, rows>>
      BY <2>6 DEF Crash
    <3>2. NextWakes' # {} => Least(NextWakes') \in Nat
      BY <2>1, NextWakesAreTimes, LeastIs
    <3>3. NextWakes' # {} => clock <= Later(NextWake', clock')
      BY <2>2, <3>1, <3>2 DEF NextWake, Later
    <3> QED
      BY <2>2, <3>1, <3>3 DEF Awaited, InTime, NoAlarm
  <2>7. ASSUME NEW k \in Keys, NEW at \in Times, NEW exp \in Times, PutScheduled(k, at, exp)
        PROVE  Awaited'
    <3>1. pc = "idle"
      BY <2>3, <2>7 DEF PutScheduled, step
    <3> QED
      BY <1>3, <2>1, <2>4, <2>7, <3>1, PutIsAwaited
  <2>8. ASSUME pc' = pc, clock <= clock', UNCHANGED <<tickAt, retryAt, putOff, alarm>>,
               NextWakes' \subseteq NextWakes
        PROVE  Awaited'
    BY <1>3, <2>1, <2>3, <2>4, <2>8, FewerWakes
  <2>9. ASSUME NEW k \in Keys, CancelScheduled(k) \/ PruneExpired(k)
        PROVE  Awaited'
    <3>1. rows \in [Keys -> Row]
      BY <1>3 DEF SendInv, TypeInv, TypeOK
    <3>2. PICK status \in {"cancelled", "gone"} : rows' = [rows EXCEPT ![k].status = status]
      BY <2>9 DEF CancelScheduled, PruneExpired
    <3>3. NextWakes' \subseteq NextWakes
      <4>1. rows'[k].status = status /\ \A l \in Keys \ {k} : rows'[l] = rows[l]
        BY <3>1, <3>2 DEF Row
      <4> QED
        BY <4>1 DEF NextWakes, In
    <3>4. UNCHANGED <<clock, pc, tickAt, retryAt, putOff, alarm>>
      BY <2>9 DEF CancelScheduled, PruneExpired, step, erasure
    <3> QED
      BY <2>2, <2>8, <3>3, <3>4
  <2>10. ASSUME NEW mine \in SUBSET Keys, EraseByPhone(mine)
         PROVE  Awaited'
    <3>1. rows \in [Keys -> Row]
      BY <1>3 DEF SendInv, TypeInv, TypeOK
    <3>2. \A l \in Keys : rows'[l] = IF l \in mine THEN [rows[l] EXCEPT !.status = "gone"]
                                     ELSE rows[l]
      BY <2>10 DEF EraseByPhone
    <3>3. NextWakes' \subseteq NextWakes
      <4>1. \A l \in Keys : rows'[l].status = "gone" \/ rows'[l] = rows[l]
        BY <3>1, <3>2 DEF Row
      <4> QED
        BY <4>1 DEF NextWakes, In
    <3>4. UNCHANGED <<clock, pc, tickAt, retryAt, putOff, alarm>>
      BY <2>10 DEF EraseByPhone, step
    <3> QED
      BY <2>2, <2>8, <3>3, <3>4
  <2>11. ASSUME NEW ok \in BOOLEAN, PurgeReturns(ok)
         PROVE  Awaited'
    <3>1. CASE ok
      BY <2>2, <2>8, <2>11, <3>1 DEF PurgeReturns, step, NextWakes, In
    <3>2. CASE ~ok
      BY <1>3, <2>1, <2>11, <3>2, RefusalIsAwaited
    <3> QED
      BY <3>1, <3>2
  <2>12. CASE Tick
    BY <2>2, <2>8, <2>12 DEF Tick, step, erasure, NextWakes, In
  <2>13. CASE UNCHANGED vars
    BY <2>2, <2>8, <2>13 DEF vars, step, NextWakes, In
  <2>14. CASE Sends
    <3>1. \E k \in Keys : job[k].at # "none" /\ pc' = pc
      BY <2>14 DEF Sends, LimiterRefusesSend, LimiterAllows, MetaTakes, MetaAnswersSend,
         MayAnswer
    <3> QED
      BY <1>3, <2>3, <3>1, NoneInFlight
  <2>15. Step => AlarmReturns
    BY <2>3 DEF Step, AlarmFires, StepStarts, StepFails, TokenFails, Claim, StepJoins
  <2> QED
    BY <1>3, <2>5, <2>6, <2>7, <2>9, <2>10, <2>11, <2>12, <2>13, <2>14, <2>15
       DEF Next, Requests
<1> QED
  BY <1>1, <1>2, <1>3, SendInvariant, PTL DEF Spec
=============================================================================
