---------------------------- MODULE BroadcastProofs ----------------------------
(***************************************************************************)
(* Theorems about Broadcast, for every value of the constants: types, and  *)
(* the promise of a send (SendPromise), which every recipient keeps.       *)
(***************************************************************************)
EXTENDS Broadcast, TLAPS

-----------------------------------------------------------------------------
(* Types.  What is queued or being sent has an attempt left, or the attempt  *)
(* that is counted after its POST would run past the limit.                  *)

GoodRow == {row \in Rec : row.status \in {"queued", "sending"}
                            => row.attempts < MaxThrottled}
RowsAreGood == rec \in [Broadcasts -> [Seqs -> GoodRow]]
StepHasBroadcast == pc \in {"token", "sending"} => cur \in Broadcasts

TypeInv == TypeOK /\ RowsAreGood /\ StepHasBroadcast

LEMMA SettledGood ==
  ASSUME NEW status \in RowStatus, NEW n \in 0..MaxThrottled,
         status \in {"queued", "sending"} => n < MaxThrottled
  PROVE  Settled(status, n) \in GoodRow
BY DEF Settled, GoodRow, Rec

LEMMA RequeuedGood ==
  ASSUME NEW row \in GoodRow
  PROVE  Requeued(row) \in GoodRow
<1>1. CASE row.status = "sending"
  <2>1. row.attempts \in 0..MaxThrottled /\ row.attempts < MaxThrottled
    BY <1>1 DEF GoodRow, Rec
  <2>2. Settled("queued", row.attempts) \in GoodRow
    BY <2>1, SettledGood DEF RowStatus
  <2> QED
    BY <1>1, <2>2 DEF Requeued
<1>2. CASE row.status # "sending"
  BY <1>2 DEF Requeued
<1> QED
  BY <1>1, <1>2

LEMMA SweptGood ==
  ASSUME NEW row \in GoodRow
  PROVE  Swept(row) \in GoodRow
<1>1. row.attempts \in 0..MaxThrottled
  BY DEF GoodRow, Rec
<1>2. Settled("unknown", row.attempts) \in GoodRow
  BY <1>1, SettledGood DEF RowStatus
<1> QED
  BY <1>2 DEF Swept

LEMMA CancelledGood ==
  ASSUME NEW rows \in [Seqs -> GoodRow], NEW status
  PROVE  Cancelled(rows, status) \in [Seqs -> GoodRow]
<1>1. ASSUME NEW s \in Seqs
      PROVE  Settled("cancelled", rows[s].attempts) \in GoodRow
  <2>1. rows[s].attempts \in 0..MaxThrottled
    BY DEF GoodRow, Rec
  <2> QED
    BY <2>1, SettledGood DEF RowStatus
<1> QED
  BY <1>1 DEF Cancelled

LEMMA AnsweredGood ==
  ASSUME NEW row \in GoodRow, row.status \in {"sending", "erased"}, NEW answer
  PROVE  Answered(row, answer) \in GoodRow
<1>1. CASE row.status = "erased"
  BY <1>1 DEF Answered
<1>2. CASE row.status = "sending"
  <2> DEFINE n == row.attempts + 1
  <2>1. n \in 0..MaxThrottled
    BY <1>2, LimitsAssumption DEF GoodRow, Rec
  <2>2. \A status \in {"sent", "unknown", "failed"} : Settled(status, n) \in GoodRow
    BY <2>1, SettledGood DEF RowStatus
  <2>3. n < MaxThrottled => Settled("queued", n) \in GoodRow
    BY <2>1, SettledGood DEF RowStatus
  <2>4. Outcome(n, answer) \in GoodRow
    BY <2>2, <2>3 DEF Outcome
  <2> QED
    BY <1>2, <2>4 DEF Answered
<1> QED
  BY <1>1, <1>2

LEMMA TypeInit == Init => TypeInv
<1> SUFFICES ASSUME Init PROVE TypeInv
  OBVIOUS
<1>1. NoRec \in GoodRow /\ NoRec \in Rec
  BY LimitsAssumption DEF NoRec, GoodRow, Rec, RowStatus
<1>2. RowsAreGood /\ rec \in [Broadcasts -> [Seqs -> Rec]]
  BY <1>1 DEF Init, RowsAreGood
<1>3. 0 \in 0..MaxThrottled
  BY LimitsAssumption
<1>4. TypeOK
  BY <1>2, <1>3, LimitsAssumption DEF Init, TypeOK, TokenAnswers
<1> QED
  BY <1>2, <1>4 DEF TypeInv, StepHasBroadcast, Init

-----------------------------------------------------------------------------
(* The strengthening.  While a send is in flight its row is still `sending`  *)
(* or erased, and its place in the step tells whether Meta took the message; *)
(* without a send in flight a row of an open status may have been taken only *)
(* if it is `sending`.                                                       *)

JobsAreClaimed ==
  \A s \in Seqs : job[s] # "none" =>
    /\ pc \in {"token", "sending"}
    /\ rec[cur][s].status \in {"sending", "erased"}
    /\ reached[cur][s] = IF job[s] = "taken" THEN 1 ELSE 0

OnlyNewHasNoRows ==
  \A b \in Broadcasts, s \in Seqs : bc[b] = "none" <=> rec[b][s].status = "none"

ReachedIsTold ==
  \A b \in Broadcasts, s \in Seqs :
    /\ reached[b][s] \in {0, 1}
    /\ rec[b][s].status \in {"none", "queued", "failed", "cancelled"} => reached[b][s] = 0
    /\ rec[b][s].status = "sent" => reached[b][s] = 1

SendInv == TypeInv /\ JobsAreClaimed /\ OnlyNewHasNoRows /\ ReachedIsTold

(* What any step may do to a row and to what Meta took.                      *)
Move(old, new, n, m) ==
  \/ new = old /\ m = n
  \/ old = "none" /\ new = "queued" /\ m = n
  \/ old = "queued" /\ new = "sending" /\ m = n
  \/ old = "sending" /\ new = "queued" /\ n = 0 /\ m = 0
  \/ old \in {"sending", "erased"} /\ new = old /\ n = 0 /\ m = 1
  \/ /\ old \in {"queued", "sending"}
     /\ \/ new = "sent" /\ n = 1
        \/ new \in {"failed", "cancelled"} /\ n = 0
        \/ new = "unknown"
     /\ m = n
  \/ old # "none" /\ new = "erased" /\ m = n

RowsMove ==
  \A b \in Broadcasts, s \in Seqs :
    Move(rec[b][s].status, rec'[b][s].status, reached[b][s], reached'[b][s])

(* What the proof shows of every action. *)
StepKeeps == TypeInv' /\ JobsAreClaimed' /\ OnlyNewHasNoRows' /\ RowsMove

LEMMA StatusOf ==
  ASSUME NEW status, NEW n
  PROVE  Settled(status, n).status = status
BY DEF Settled

LEMMA GoodIsTyped ==
  ASSUME RowsAreGood'
  PROVE  rec' \in [Broadcasts -> [Seqs -> Rec]]
BY DEF RowsAreGood, GoodRow

-----------------------------------------------------------------------------
(* Requests.                                                               *)

LEMMA CreateBroadcastKeeps ==
  ASSUME SendInv, NEW b \in Broadcasts, CreateBroadcast(b)
  PROVE  StepKeeps
<1> USE DEF SendInv
<1>1. Settled("queued", 0) \in GoodRow
  BY SettledGood, LimitsAssumption DEF RowStatus
<1>2. RowsAreGood'
  BY <1>1 DEF TypeInv, RowsAreGood, CreateBroadcast
<1>3. TypeInv'
  BY <1>2, GoodIsTyped DEF TypeInv, TypeOK, StepHasBroadcast, CreateBroadcast, step
<1>4. rec \in [Broadcasts -> [Seqs -> GoodRow]]
  BY DEF TypeInv, RowsAreGood
<1>5. \A c \in Broadcasts, s \in Seqs :
        rec'[c][s] = IF c = b THEN Settled("queued", 0) ELSE rec[c][s]
  BY <1>4 DEF CreateBroadcast
<1>6. bc[b] = "none" /\ \A c \in Broadcasts : bc'[c] = IF c = b THEN "running" ELSE bc[c]
  BY DEF CreateBroadcast, TypeInv, TypeOK
<1>7. \A s \in Seqs : rec[b][s].status = "none"
  BY <1>6 DEF OnlyNewHasNoRows
<1>8. JobsAreClaimed'
  BY <1>5, <1>7 DEF JobsAreClaimed, TypeInv, StepHasBroadcast, CreateBroadcast, step
<1>9. OnlyNewHasNoRows'
  BY <1>5, <1>6, StatusOf DEF OnlyNewHasNoRows
<1>10. RowsMove
  BY <1>5, <1>7, StatusOf DEF RowsMove, Move, CreateBroadcast
<1> QED
  BY <1>3, <1>8, <1>9, <1>10 DEF StepKeeps

LEMMA CancelBroadcastKeeps ==
  ASSUME SendInv, NEW b \in Broadcasts, CancelBroadcast(b)
  PROVE  StepKeeps
<1> USE DEF SendInv
<1>1. rec \in [Broadcasts -> [Seqs -> GoodRow]]
  BY DEF TypeInv, RowsAreGood
<1>2. /\ rec' = [rec EXCEPT ![b] = Cancelled(rec[b], "cancelled")]
      /\ bc' = [bc EXCEPT ![b] = "cancelled"]
      /\ UNCHANGED <<wait, armed, arrived, step, reached, crashes>>
      /\ calls' = calls - 1 /\ calls > 0
      /\ bc[b] = "running"
  BY DEF CancelBroadcast, Operator
<1>3. RowsAreGood'
  BY <1>1, <1>2, CancelledGood DEF RowsAreGood
<1>4. TypeInv'
  BY <1>2, <1>3, GoodIsTyped DEF TypeInv, TypeOK, StepHasBroadcast, step
<1>5. \A c \in Broadcasts, s \in Seqs :
        rec'[c][s] = IF c = b /\ rec[c][s].status = "queued"
                     THEN Settled("cancelled", rec[c][s].attempts) ELSE rec[c][s]
  BY <1>1, <1>2 DEF Cancelled
<1>6. \A c \in Broadcasts, s \in Seqs :
        rec'[c][s].status = IF c = b /\ rec[c][s].status = "queued"
                            THEN "cancelled" ELSE rec[c][s].status
  BY <1>5, StatusOf
<1>7. JobsAreClaimed'
  BY <1>2, <1>6 DEF JobsAreClaimed, TypeInv, StepHasBroadcast, step
<1>8. OnlyNewHasNoRows'
  BY <1>2, <1>6 DEF OnlyNewHasNoRows, TypeInv, TypeOK
<1>9. RowsMove
  BY <1>2, <1>6 DEF RowsMove, Move, ReachedIsTold
<1> QED
  BY <1>4, <1>7, <1>8, <1>9 DEF StepKeeps

LEMMA EraseByPhoneKeeps ==
  ASSUME SendInv, NEW b \in Broadcasts, NEW s \in Seqs, EraseByPhone(b, s)
  PROVE  StepKeeps
<1> USE DEF SendInv
<1>1. rec \in [Broadcasts -> [Seqs -> GoodRow]]
  BY DEF TypeInv, RowsAreGood
<1>2. /\ rec' = [rec EXCEPT ![b][s] = Settled("erased", rec[b][s].attempts)]
      /\ UNCHANGED <<bc, wait, armed, arrived, step, reached, crashes>>
      /\ calls' = calls - 1 /\ calls > 0
      /\ rec[b][s].status # "none"
  BY DEF EraseByPhone, Operator
<1>3. rec[b][s].attempts \in 0..MaxThrottled
  BY <1>1 DEF GoodRow, Rec
<1>4. Settled("erased", rec[b][s].attempts) \in GoodRow
  BY <1>3, SettledGood DEF RowStatus
<1>5. RowsAreGood'
  BY <1>1, <1>2, <1>4 DEF RowsAreGood
<1>6. TypeInv'
  BY <1>2, <1>5, GoodIsTyped DEF TypeInv, TypeOK, StepHasBroadcast, step
<1>7. \A c \in Broadcasts, r \in Seqs :
        rec'[c][r].status = IF c = b /\ r = s THEN "erased" ELSE rec[c][r].status
  BY <1>1, <1>2, StatusOf
<1>8. JobsAreClaimed'
  BY <1>2, <1>7 DEF JobsAreClaimed, TypeInv, StepHasBroadcast, step
<1>9. OnlyNewHasNoRows'
  BY <1>2, <1>7 DEF OnlyNewHasNoRows
<1>10. RowsMove
  BY <1>2, <1>7 DEF RowsMove, Move
<1> QED
  BY <1>6, <1>8, <1>9, <1>10 DEF StepKeeps

LEMMA PruneExpiredKeeps ==
  ASSUME SendInv, NEW b \in Broadcasts, PruneExpired(b)
  PROVE  StepKeeps
<1> USE DEF SendInv
<1>1. rec \in [Broadcasts -> [Seqs -> GoodRow]]
  BY DEF TypeInv, RowsAreGood
<1>2. /\ rec' = [rec EXCEPT ![b] = [s \in Seqs |-> Settled("erased", 0)]]
      /\ bc' = [bc EXCEPT ![b] = "deleted"]
      /\ UNCHANGED <<wait, armed, arrived, step, reached, crashes>>
      /\ calls' = calls - 1 /\ calls > 0
      /\ pc = "idle"
  BY DEF PruneExpired, Operator
<1>3. Settled("erased", 0) \in GoodRow
  BY SettledGood, LimitsAssumption DEF RowStatus
<1>4. RowsAreGood'
  BY <1>1, <1>2, <1>3 DEF RowsAreGood
<1>5. TypeInv'
  BY <1>2, <1>4, GoodIsTyped DEF TypeInv, TypeOK, StepHasBroadcast, step
<1>6. \A c \in Broadcasts, s \in Seqs :
        rec'[c][s].status = IF c = b THEN "erased" ELSE rec[c][s].status
  BY <1>1, <1>2, StatusOf
<1>7. JobsAreClaimed'
  BY <1>2 DEF JobsAreClaimed, step
<1>8. OnlyNewHasNoRows'
  BY <1>2, <1>6 DEF OnlyNewHasNoRows, TypeInv, TypeOK
<1>9. \A s \in Seqs : rec[b][s].status # "none"
  BY DEF OnlyNewHasNoRows, PruneExpired, Ended
<1>10. RowsMove
  BY <1>2, <1>6, <1>9 DEF RowsMove, Move
<1> QED
  BY <1>5, <1>7, <1>8, <1>10 DEF StepKeeps

-----------------------------------------------------------------------------
(* The step and its sends.                                                 *)

LEMMA StepStartsKeeps ==
  ASSUME SendInv, NEW reserved \in Reserved, StepStarts(reserved)
  PROVE  StepKeeps
<1> USE DEF SendInv
<1>1. rec \in [Broadcasts -> [Seqs -> GoodRow]]
  BY DEF TypeInv, RowsAreGood
<1>2. \A b \in Broadcasts, s \in Seqs :
        rec'[b][s] = IF b \in Running THEN Swept(rec[b][s]) ELSE rec[b][s]
  BY <1>1 DEF StepStarts
<1>3. RowsAreGood'
  <2>1. \A b \in Broadcasts :
          (IF b \in Running THEN [s \in Seqs |-> Swept(rec[b][s])] ELSE rec[b])
            \in [Seqs -> GoodRow]
    BY <1>1, SweptGood
  <2> QED
    BY <2>1 DEF RowsAreGood, StepStarts
<1>4. PerTick - reserved \in Nat
  BY AnswersAssumption, LimitsAssumption
<1>5. TypeInv'
  BY <1>3, <1>4, GoodIsTyped DEF TypeInv, TypeOK, StepHasBroadcast, StepStarts, Running
<1>6. \A b \in Broadcasts, s \in Seqs :
        \/ rec'[b][s].status = rec[b][s].status
        \/ rec[b][s].status = "sending" /\ rec'[b][s].status = "unknown"
  BY <1>2, StatusOf DEF Swept
<1>7. \A s \in Seqs : job[s] = "none"
  BY DEF JobsAreClaimed, StepStarts
<1>8. JobsAreClaimed'
  BY <1>7 DEF JobsAreClaimed, StepStarts
<1>9. OnlyNewHasNoRows'
  BY <1>6 DEF OnlyNewHasNoRows, StepStarts
<1>10. RowsMove
  BY <1>6 DEF RowsMove, Move, StepStarts
<1> QED
  BY <1>5, <1>8, <1>9, <1>10 DEF StepKeeps

LEMMA GiveWayKeeps ==
  ASSUME SendInv, NEW b \in Broadcasts, GiveWay(b)
  PROVE  StepKeeps
<1> USE DEF SendInv
<1>1. TypeInv'
  BY DelaysAssumption DEF TypeInv, TypeOK, RowsAreGood, StepHasBroadcast, GiveWay, Serves
<1>2. JobsAreClaimed'
  BY DEF JobsAreClaimed, GiveWay
<1>3. OnlyNewHasNoRows' /\ RowsMove
  BY DEF OnlyNewHasNoRows, RowsMove, Move, GiveWay
<1> QED
  BY <1>1, <1>2, <1>3 DEF StepKeeps

LEMMA ClaimKeeps ==
  ASSUME SendInv, NEW b \in Broadcasts, Claim(b)
  PROVE  StepKeeps
<1> USE DEF SendInv
<1>1. rec \in [Broadcasts -> [Seqs -> GoodRow]]
  BY DEF TypeInv, RowsAreGood
<1>2. \A s \in Claimed(b) : s \in Seqs /\ rec[b][s].status = "queued"
  BY DEF Claimed, In
<1>3. \A s \in Claimed(b) : Settled("sending", rec[b][s].attempts) \in GoodRow
  <2> SUFFICES ASSUME NEW s \in Claimed(b)
               PROVE  Settled("sending", rec[b][s].attempts) \in GoodRow
    OBVIOUS
  <2>1. rec[b][s].attempts \in 0..MaxThrottled /\ rec[b][s].attempts < MaxThrottled
    BY <1>1, <1>2 DEF GoodRow, Rec
  <2> QED
    BY <2>1, SettledGood DEF RowStatus
<1>4. RowsAreGood'
  BY <1>1, <1>3 DEF RowsAreGood, Claim
<1>5. TypeInv'
  BY <1>4, GoodIsTyped DEF TypeInv, TypeOK, StepHasBroadcast, Claim
<1>6. \A c \in Broadcasts, s \in Seqs :
        rec'[c][s].status = IF c = b /\ s \in Claimed(b) THEN "sending" ELSE rec[c][s].status
  BY <1>1, StatusOf DEF Claim
<1>7. JobsAreClaimed'
  <2>1. \A s \in Claimed(b) : reached[b][s] = 0
    BY <1>2 DEF ReachedIsTold
  <2> QED
    BY <1>6, <2>1 DEF JobsAreClaimed, Claim
<1>8. OnlyNewHasNoRows'
  BY <1>2, <1>6 DEF OnlyNewHasNoRows, Claim
<1>9. RowsMove
  BY <1>2, <1>6 DEF RowsMove, Move, Claim
<1> QED
  BY <1>5, <1>7, <1>8, <1>9 DEF StepKeeps

LEMMA NothingQueuedKeeps ==
  ASSUME SendInv, NEW b \in Broadcasts, NothingQueued(b)
  PROVE  StepKeeps
<1> USE DEF SendInv
<1>1. /\ bc' = [bc EXCEPT ![b] = Finished(bc[b], rec[b])]
      /\ Finished(bc[b], rec[b]) \in {"completed", bc[b]}
      /\ bc[b] = "none" => Finished(bc[b], rec[b]) = "none"
      /\ bc[b] # "none" => Finished(bc[b], rec[b]) # "none"
  BY DEF NothingQueued, Finished
<1>2. TypeInv'
  BY <1>1 DEF TypeInv, TypeOK, RowsAreGood, StepHasBroadcast, NothingQueued, Serves
<1>3. JobsAreClaimed'
  BY DEF JobsAreClaimed, NothingQueued
<1>4. OnlyNewHasNoRows'
  BY <1>1 DEF OnlyNewHasNoRows, NothingQueued, TypeInv, TypeOK
<1>5. RowsMove
  BY DEF RowsMove, Move, NothingQueued
<1> QED
  BY <1>2, <1>3, <1>4, <1>5 DEF StepKeeps

LEMMA TokenReturnsKeeps ==
  ASSUME SendInv, TokenReturns
  PROVE  StepKeeps
<1> USE DEF SendInv
<1>1. 0 \in 0..MaxThrottled
  BY LimitsAssumption
<1>2. TypeInv'
  BY <1>1, DelaysAssumption
     DEF TypeInv, TypeOK, RowsAreGood, StepHasBroadcast, TokenReturns, TokenAnswered, TokenAnswers
<1>3. JobsAreClaimed'
  BY DEF JobsAreClaimed, TokenReturns
<1>4. OnlyNewHasNoRows' /\ RowsMove
  BY DEF OnlyNewHasNoRows, RowsMove, Move, TokenReturns
<1> QED
  BY <1>2, <1>3, <1>4 DEF StepKeeps

(* What a tick that has no token gives back had not been sent.               *)
LEMMA ReleasedRows ==
  ASSUME SendInv, pc = "token"
  PROVE  /\ cur \in Broadcasts
         /\ Released \in [Seqs -> GoodRow]
         /\ \A s \in Seqs :
              \/ Released[s].status = rec[cur][s].status
              \/ /\ rec[cur][s].status = "sending"
                 /\ Released[s].status = "queued"
                 /\ reached[cur][s] = 0
<1> USE DEF SendInv
<1>1. cur \in Broadcasts
  BY DEF TypeInv, StepHasBroadcast
<1>2. rec \in [Broadcasts -> [Seqs -> GoodRow]]
  BY DEF TypeInv, RowsAreGood
<1>3. Released \in [Seqs -> GoodRow]
  BY <1>1, <1>2, RequeuedGood DEF Released
<1>4. ASSUME NEW s \in Seqs, job[s] = "claimed"
      PROVE  reached[cur][s] = 0
  BY <1>4 DEF JobsAreClaimed
<1>5. \A s \in Seqs :
        Released[s] = IF job[s] = "claimed" THEN Requeued(rec[cur][s]) ELSE rec[cur][s]
  BY DEF Released
<1> QED
  BY <1>1, <1>3, <1>4, <1>5, StatusOf DEF Requeued

LEMMA TokenMissingKeeps ==
  ASSUME SendInv, TokenMissing
  PROVE  StepKeeps
<1> USE DEF SendInv
<1> DEFINE status == IF bc[cur] = "running" THEN "halted" ELSE bc[cur]
<1>1. /\ pc = "token"
      /\ bc' = [bc EXCEPT ![cur] = status]
      /\ rec' = [rec EXCEPT ![cur] = Cancelled(Released, status)]
      /\ job' = [s \in Seqs |-> "none"]
      /\ pc' = "loop"
      /\ token' = "missing"
      /\ todo' = todo \ {cur}
      /\ UNCHANGED <<wait, armed, arrived, share, cur, halt, slow, again, reached,
                     calls, crashes>>
  BY DEF TokenMissing, TokenAnswered
<1>2. rec \in [Broadcasts -> [Seqs -> GoodRow]] /\ cur \in Broadcasts
  BY <1>1 DEF TypeInv, RowsAreGood, StepHasBroadcast
<1>3. Cancelled(Released, status) \in [Seqs -> GoodRow]
  BY <1>1, ReleasedRows, CancelledGood
<1>4. RowsAreGood'
  BY <1>1, <1>2, <1>3 DEF RowsAreGood
<1>5. TypeInv'
  BY <1>1, <1>2, <1>4, GoodIsTyped DEF TypeInv, TypeOK, StepHasBroadcast, TokenAnswers
<1>6. \A s \in Seqs :
        \/ Cancelled(Released, status)[s].status = Released[s].status
        \/ Released[s].status = "queued" /\ Cancelled(Released, status)[s].status = "cancelled"
  BY StatusOf DEF Cancelled
<1>7. \A b \in Broadcasts, s \in Seqs :
        rec'[b][s].status = IF b = cur THEN Cancelled(Released, status)[s].status
                                       ELSE rec[b][s].status
  BY <1>1, <1>2
<1>8. JobsAreClaimed'
  BY <1>1 DEF JobsAreClaimed
<1>9. OnlyNewHasNoRows'
  <2>1. \A b \in Broadcasts : bc'[b] = "none" <=> bc[b] = "none"
    BY <1>1, <1>2 DEF TypeInv, TypeOK
  <2>2. \A b \in Broadcasts, s \in Seqs :
          rec'[b][s].status = "none" <=> rec[b][s].status = "none"
    BY <1>1, <1>6, <1>7, ReleasedRows
  <2> QED
    BY <2>1, <2>2 DEF OnlyNewHasNoRows
<1>10. RowsMove
  BY <1>1, <1>6, <1>7, ReleasedRows DEF RowsMove, Move, ReachedIsTold
<1> QED
  BY <1>5, <1>8, <1>9, <1>10 DEF StepKeeps

LEMMA TokenUnavailableKeeps ==
  ASSUME SendInv, TokenUnavailable
  PROVE  StepKeeps
<1> USE DEF SendInv
<1>1. pc = "token"
  BY DEF TokenUnavailable, TokenAnswered
<1>2. rec \in [Broadcasts -> [Seqs -> GoodRow]] /\ cur \in Broadcasts
  BY <1>1 DEF TypeInv, RowsAreGood, StepHasBroadcast
<1>3. RowsAreGood'
  BY <1>1, <1>2, ReleasedRows DEF RowsAreGood, TokenUnavailable
<1>4. TypeInv'
  BY <1>2, <1>3, GoodIsTyped, DelaysAssumption
     DEF TypeInv, TypeOK, StepHasBroadcast, TokenUnavailable, TokenAnswers
<1>5. \A b \in Broadcasts, s \in Seqs :
        rec'[b][s] = IF b = cur THEN Released[s] ELSE rec[b][s]
  BY <1>2 DEF TokenUnavailable
<1>6. JobsAreClaimed'
  BY DEF JobsAreClaimed, TokenUnavailable
<1>7. OnlyNewHasNoRows'
  BY <1>1, <1>5, ReleasedRows DEF OnlyNewHasNoRows, TokenUnavailable
<1>8. RowsMove
  BY <1>1, <1>5, ReleasedRows DEF RowsMove, Move, TokenUnavailable
<1> QED
  BY <1>4, <1>6, <1>7, <1>8 DEF StepKeeps

LEMMA CheckSendRateKeeps ==
  ASSUME SendInv, NEW s \in Seqs, NEW allowed \in BOOLEAN, CheckSendRate(s, allowed)
  PROVE  StepKeeps
<1> USE DEF SendInv
<1>1. rec \in [Broadcasts -> [Seqs -> GoodRow]] /\ cur \in Broadcasts
  BY DEF TypeInv, RowsAreGood, StepHasBroadcast, CheckSendRate
<1>2. job[s] = "claimed" /\ rec[cur][s].status \in {"sending", "erased"} /\ reached[cur][s] = 0
  BY DEF JobsAreClaimed, CheckSendRate
<1>3. CASE allowed
  <2>1. /\ job' = [job EXCEPT ![s] = "posting"]
        /\ UNCHANGED <<bc, rec, wait, armed, arrived, pc, share, todo, cur, token, halt,
                       slow, again, reached, calls, crashes>>
    BY <1>3 DEF CheckSendRate
  <2>2. TypeInv'
    BY <2>1 DEF TypeInv, TypeOK, RowsAreGood, StepHasBroadcast
  <2>3. JobsAreClaimed'
    BY <1>2, <2>1 DEF JobsAreClaimed, TypeInv, TypeOK
  <2>4. OnlyNewHasNoRows' /\ RowsMove
    BY <2>1 DEF OnlyNewHasNoRows, RowsMove, Move
  <2> QED
    BY <2>2, <2>3, <2>4 DEF StepKeeps
<1>4. CASE ~allowed
  <2>1. /\ job' = [job EXCEPT ![s] = "none"]
        /\ rec' = [rec EXCEPT ![cur][s] = Requeued(rec[cur][s])]
        /\ slow' = Bigger(slow, 1)
        /\ UNCHANGED <<bc, wait, armed, arrived, pc, share, todo, cur, token, halt,
                       again, reached, calls, crashes>>
    BY <1>4 DEF CheckSendRate
  <2>2. RowsAreGood'
    BY <1>1, <2>1, RequeuedGood DEF RowsAreGood
  <2>3. slow' \in 0..MaxThrottled
    BY <2>1, LimitsAssumption DEF Bigger, TypeInv, TypeOK
  <2>4. TypeInv'
    BY <2>1, <2>2, <2>3, GoodIsTyped DEF TypeInv, TypeOK, StepHasBroadcast
  <2>5. \A b \in Broadcasts, r \in Seqs :
          rec'[b][r].status = IF b = cur /\ r = s /\ rec[b][r].status = "sending"
                              THEN "queued" ELSE rec[b][r].status
    BY <1>1, <2>1, StatusOf DEF Requeued
  <2>6. JobsAreClaimed'
    BY <2>1, <2>5 DEF JobsAreClaimed, TypeInv, TypeOK
  <2>7. OnlyNewHasNoRows'
    BY <2>1, <2>5 DEF OnlyNewHasNoRows
  <2>8. RowsMove
    BY <1>2, <2>1, <2>5 DEF RowsMove, Move
  <2> QED
    BY <2>4, <2>6, <2>7, <2>8 DEF StepKeeps
<1> QED
  BY <1>3, <1>4

LEMMA MetaTakesKeeps ==
  ASSUME SendInv, NEW s \in Seqs, MetaTakes(s)
  PROVE  StepKeeps
<1> USE DEF SendInv
<1>1. /\ job[s] = "posting"
      /\ job' = [job EXCEPT ![s] = "taken"]
      /\ reached' = [reached EXCEPT ![cur][s] = reached[cur][s] + 1]
      /\ UNCHANGED <<bc, rec, wait, armed, arrived, pc, share, todo, cur, token, halt,
                     slow, again, calls, crashes>>
  BY DEF MetaTakes, tables
<1>2. /\ cur \in Broadcasts
      /\ rec[cur][s].status \in {"sending", "erased"}
      /\ reached[cur][s] = 0
  BY <1>1 DEF JobsAreClaimed, TypeInv, StepHasBroadcast
<1>3. TypeInv'
  BY <1>1, <1>2 DEF TypeInv, TypeOK, RowsAreGood, StepHasBroadcast
<1>4. \A b \in Broadcasts, r \in Seqs :
        reached'[b][r] = IF b = cur /\ r = s THEN 1 ELSE reached[b][r]
  BY <1>1, <1>2 DEF TypeInv, TypeOK
<1>5. JobsAreClaimed'
  BY <1>1, <1>2, <1>4 DEF JobsAreClaimed, TypeInv, TypeOK
<1>6. OnlyNewHasNoRows'
  BY <1>1 DEF OnlyNewHasNoRows
<1>7. RowsMove
  BY <1>1, <1>2, <1>4 DEF RowsMove, Move
<1> QED
  BY <1>3, <1>5, <1>6, <1>7 DEF StepKeeps

(* The outcome that is written is true of what Meta took.                    *)
LEMMA AnswerMove ==
  ASSUME SendInv, NEW s \in Seqs, NEW answer \in Answers, MayAnswer(s, answer)
  PROVE  Move(rec[cur][s].status, Answered(rec[cur][s], answer).status,
              reached[cur][s], reached[cur][s])
<1> USE DEF SendInv
<1>1. /\ job[s] # "none"
      /\ rec[cur][s].status \in {"sending", "erased"}
      /\ reached[cur][s] = IF job[s] = "taken" THEN 1 ELSE 0
  BY DEF MayAnswer, JobsAreClaimed
<1>2. CASE rec[cur][s].status = "erased"
  BY <1>2 DEF Answered, Move
<1>3. CASE rec[cur][s].status = "sending"
  <2> DEFINE new == Outcome(rec[cur][s].attempts + 1, answer).status
  <2>1. /\ answer = "ok" => new = "sent"
        /\ answer = "lost" => new = "unknown"
        /\ answer \notin {"ok", "lost"} => new \in {"queued", "failed"}
    BY StatusOf DEF Outcome
  <2>2. /\ answer = "ok" => reached[cur][s] = 1
        /\ answer \notin {"ok", "lost"} => reached[cur][s] = 0
    BY <1>1 DEF MayAnswer
  <2>3. Answered(rec[cur][s], answer).status = new
    BY <1>3 DEF Answered
  <2> HIDE DEF new
  <2> QED
    BY <1>3, <2>1, <2>2, <2>3 DEF Move
<1> QED
  BY <1>1, <1>2, <1>3

LEMMA MetaAnswersSendKeeps ==
  ASSUME SendInv, NEW s \in Seqs, NEW answer \in Answers, MetaAnswersSend(s, answer)
  PROVE  StepKeeps
<1> USE DEF SendInv
<1>1. MayAnswer(s, answer) /\ job[s] # "none"
  BY DEF MetaAnswersSend, MayAnswer
<1>2. /\ rec' = [rec EXCEPT ![cur][s] = Answered(rec[cur][s], answer)]
      /\ job' = [job EXCEPT ![s] = "none"]
      /\ halt' = (halt \/ answer = "halt")
      /\ UNCHANGED <<bc, wait, armed, arrived, pc, share, todo, cur, token, again,
                     reached, calls, crashes>>
  BY DEF MetaAnswersSend
<1>3. /\ cur \in Broadcasts
      /\ rec[cur][s].status \in {"sending", "erased"}
      /\ rec \in [Broadcasts -> [Seqs -> GoodRow]]
  BY <1>1 DEF JobsAreClaimed, TypeInv, StepHasBroadcast, RowsAreGood
<1>4. RowsAreGood'
  BY <1>2, <1>3, AnsweredGood DEF RowsAreGood
<1>5. slow' \in 0..MaxThrottled
  <2>1. rec[cur][s].attempts \in 0..MaxThrottled
    BY <1>3 DEF GoodRow, Rec
  <2> QED
    BY <2>1, LimitsAssumption DEF MetaAnswersSend, Bigger, TypeInv, TypeOK
<1>6. TypeInv'
  BY <1>2, <1>4, <1>5, GoodIsTyped DEF TypeInv, TypeOK, StepHasBroadcast
<1>7. \A b \in Broadcasts, r \in Seqs :
        rec'[b][r] = IF b = cur /\ r = s THEN Answered(rec[b][r], answer) ELSE rec[b][r]
  BY <1>2, <1>3
<1>8. RowsMove
  BY <1>1, <1>2, <1>7, AnswerMove DEF RowsMove, Move
<1>9. JobsAreClaimed'
  BY <1>2, <1>7 DEF JobsAreClaimed, TypeInv, TypeOK
<1>10. OnlyNewHasNoRows'
  <2>1. Answered(rec[cur][s], answer).status # "none"
    BY <1>3, StatusOf DEF Answered, Outcome
  <2> QED
    BY <1>2, <1>3, <1>7, <2>1 DEF OnlyNewHasNoRows
<1> QED
  BY <1>6, <1>8, <1>9, <1>10 DEF StepKeeps

LEMMA StepJoinsKeeps ==
  ASSUME SendInv, StepJoins
  PROVE  StepKeeps
<1> USE DEF SendInv
<1> DEFINE stopped == halt \/ Tripped(rec[cur])
           status == IF stopped /\ bc[cur] = "running" THEN "halted" ELSE bc[cur]
           rows == Cancelled(rec[cur], status)
<1>1. /\ pc = "sending"
      /\ \A s \in Seqs : job[s] = "none"
      /\ rec' = [rec EXCEPT ![cur] = rows]
      /\ bc' = [bc EXCEPT ![cur] = Finished(status, rows)]
      /\ wait' = IF ~stopped /\ slow > 0
                 THEN [wait EXCEPT ![cur] = ThrottleDelay[slow]] ELSE wait
      /\ pc' = "loop"
      /\ todo' = todo \ {cur}
      /\ UNCHANGED <<armed, arrived, share, cur, token, job, halt, slow, again, reached,
                     calls, crashes>>
  BY DEF StepJoins
<1>2. rec \in [Broadcasts -> [Seqs -> GoodRow]] /\ cur \in Broadcasts
  BY <1>1 DEF TypeInv, RowsAreGood, StepHasBroadcast
<1>3. rows \in [Seqs -> GoodRow]
  BY <1>2, CancelledGood
<1>4. RowsAreGood'
  BY <1>1, <1>2, <1>3 DEF RowsAreGood
<1>5. Finished(status, rows) \in {"completed", "halted", bc[cur]}
  BY DEF Finished
<1>6. bc' \in [Broadcasts -> {"none", "running", "completed", "cancelled",
                              "halted", "deleted"}]
  BY <1>1, <1>2, <1>5 DEF TypeInv, TypeOK
<1>7. wait' \in [Broadcasts -> Nat]
  <2>1. slow > 0 => ThrottleDelay[slow] \in Nat
    BY DelaysAssumption, LimitsAssumption DEF TypeInv, TypeOK
  <2>2. wait \in [Broadcasts -> Nat]
    BY DEF TypeInv, TypeOK
  <2> HIDE DEF stopped
  <2> QED
    BY <1>1, <2>1, <2>2
<1>8. TypeInv'
  <2> HIDE DEF stopped, status, rows
  <2> QED
    BY <1>1, <1>4, <1>6, <1>7, GoodIsTyped DEF TypeInv, TypeOK, StepHasBroadcast
<1>9. \A b \in Broadcasts, s \in Seqs :
        \/ rec'[b][s].status = rec[b][s].status
        \/ rec[b][s].status = "queued" /\ rec'[b][s].status = "cancelled"
  <2>1. \A s \in Seqs :
          \/ rows[s].status = rec[cur][s].status
          \/ rec[cur][s].status = "queued" /\ rows[s].status = "cancelled"
    <3> HIDE DEF status
    <3> QED
      BY <1>2, StatusOf DEF Cancelled
  <2> HIDE DEF rows
  <2> QED
    BY <1>1, <1>2, <2>1
<1>10. JobsAreClaimed'
  BY <1>1 DEF JobsAreClaimed
<1>11. OnlyNewHasNoRows'
  <2>1. Finished(status, rows) = "none" <=> bc[cur] = "none"
    BY DEF Finished
  <2> HIDE DEF status, rows
  <2>2. \A b \in Broadcasts : bc'[b] = "none" <=> bc[b] = "none"
    BY <1>1, <1>2, <2>1 DEF TypeInv, TypeOK
  <2> QED
    BY <1>9, <2>2 DEF OnlyNewHasNoRows
<1>12. RowsMove
  BY <1>1, <1>9 DEF RowsMove, Move, ReachedIsTold
<1> QED
  BY <1>8, <1>10, <1>11, <1>12 DEF StepKeeps

LEMMA StepEndsKeeps ==
  ASSUME SendInv, StepEnds
  PROVE  StepKeeps
<1> USE DEF SendInv
<1>1. 0 \in 0..MaxThrottled
  BY LimitsAssumption
<1>2. TypeInv'
  BY <1>1 DEF TypeInv, TypeOK, RowsAreGood, StepHasBroadcast, StepEnds, tables
<1>3. JobsAreClaimed'
  BY DEF JobsAreClaimed, StepEnds
<1>4. OnlyNewHasNoRows' /\ RowsMove
  BY DEF OnlyNewHasNoRows, RowsMove, Move, StepEnds, tables
<1> QED
  BY <1>2, <1>3, <1>4 DEF StepKeeps

LEMMA AlarmReturnsKeeps ==
  ASSUME SendInv, NEW others \in BOOLEAN, AlarmReturns(others)
  PROVE  StepKeeps
<1> USE DEF SendInv
<1>1. TypeInv'
  BY DEF TypeInv, TypeOK, RowsAreGood, StepHasBroadcast, AlarmReturns, tables
<1>2. JobsAreClaimed'
  BY DEF JobsAreClaimed, AlarmReturns
<1>3. OnlyNewHasNoRows' /\ RowsMove
  BY DEF OnlyNewHasNoRows, RowsMove, Move, AlarmReturns, tables
<1> QED
  BY <1>1, <1>2, <1>3 DEF StepKeeps

-----------------------------------------------------------------------------
(* The environment.                                                        *)

LEMMA CrashKeeps ==
  ASSUME SendInv, Crash
  PROVE  StepKeeps
<1> USE DEF SendInv
<1>1. 0 \in 0..MaxThrottled
  BY LimitsAssumption
<1>2. TypeInv'
  <2>1. crashes' \in Nat
    BY DEF Crash, TypeInv, TypeOK
  <2>2. job' \in [Seqs -> {"none", "claimed", "posting", "taken"}]
    BY DEF Crash
  <2>3. /\ UNCHANGED <<bc, rec, wait, reached, calls>>
        /\ pc' = "idle" /\ armed' = TRUE /\ arrived' = FALSE /\ share' = 0
        /\ todo' = {} /\ cur' = 0 /\ token' = "none" /\ halt' = FALSE
        /\ slow' = 0 /\ again' = FALSE
    BY DEF Crash, tables
  <2> QED
    BY <1>1, <2>1, <2>2, <2>3 DEF TypeInv, TypeOK, RowsAreGood, StepHasBroadcast
<1>3. JobsAreClaimed'
  BY DEF JobsAreClaimed, Crash
<1>4. OnlyNewHasNoRows' /\ RowsMove
  BY DEF OnlyNewHasNoRows, RowsMove, Move, Crash, tables
<1> QED
  BY <1>2, <1>3, <1>4 DEF StepKeeps

LEMMA TickKeeps ==
  ASSUME SendInv, Tick
  PROVE  StepKeeps
<1> USE DEF SendInv
<1>1. TypeInv'
  BY DEF TypeInv, TypeOK, RowsAreGood, StepHasBroadcast, Tick, Dec, step
<1>2. JobsAreClaimed'
  BY DEF JobsAreClaimed, Tick, step
<1>3. OnlyNewHasNoRows' /\ RowsMove
  BY DEF OnlyNewHasNoRows, RowsMove, Move, Tick
<1> QED
  BY <1>1, <1>2, <1>3 DEF StepKeeps

LEMMA GoStaleKeeps ==
  ASSUME SendInv, NEW b \in Broadcasts, NEW s \in Seqs, GoStale(b, s)
  PROVE  StepKeeps
<1> USE DEF SendInv
<1>1. rec \in [Broadcasts -> [Seqs -> GoodRow]]
  BY DEF TypeInv, RowsAreGood
<1> DEFINE row == [rec[b][s] EXCEPT !.stale = TRUE]
<1>2. row \in GoodRow /\ row.status = rec[b][s].status
  <2>1. rec[b][s] \in Rec /\ rec[b][s] \in GoodRow
    BY <1>1 DEF GoodRow
  <2>2. row \in Rec /\ row.status = rec[b][s].status /\ row.attempts = rec[b][s].attempts
    BY <2>1 DEF Rec
  <2> HIDE DEF row
  <2> QED
    BY <2>1, <2>2 DEF GoodRow
<1>3. rec' = [rec EXCEPT ![b][s] = row]
  BY DEF GoStale
<1>4. \A c \in Broadcasts, r \in Seqs : rec'[c][r].status = rec[c][r].status
  BY <1>1, <1>2, <1>3
<1>5. RowsAreGood'
  BY <1>1, <1>2, <1>3 DEF RowsAreGood
<1>6. TypeInv'
  BY <1>5, GoodIsTyped DEF TypeInv, TypeOK, StepHasBroadcast, GoStale, step
<1>7. JobsAreClaimed'
  BY <1>4 DEF JobsAreClaimed, TypeInv, StepHasBroadcast, GoStale, step
<1>8. OnlyNewHasNoRows' /\ RowsMove
  BY <1>4 DEF OnlyNewHasNoRows, RowsMove, Move, GoStale
<1> QED
  BY <1>6, <1>7, <1>8 DEF StepKeeps

-----------------------------------------------------------------------------
(* The invariant, and what follows from it.                                *)

LEMMA NextKeeps ==
  ASSUME SendInv, Next
  PROVE  StepKeeps
<1>1. CASE Requests
  BY <1>1, CreateBroadcastKeeps, CancelBroadcastKeeps, EraseByPhoneKeeps,
     PruneExpiredKeeps DEF Requests
<1>2. CASE Step
  <2>1. CASE \E b \in Broadcasts : GiveWay(b) \/ Claim(b) \/ NothingQueued(b)
    BY <2>1, GiveWayKeeps, ClaimKeeps, NothingQueuedKeeps
  <2>2. CASE TokenReturns \/ TokenMissing \/ TokenUnavailable
    BY <2>2, TokenReturnsKeeps, TokenMissingKeeps, TokenUnavailableKeeps
  <2>3. CASE \/ \E s \in Seqs, allowed \in BOOLEAN : CheckSendRate(s, allowed)
             \/ \E s \in Seqs : MetaTakes(s)
             \/ \E s \in Seqs, answer \in Answers : MetaAnswersSend(s, answer)
    BY <2>3, CheckSendRateKeeps, MetaTakesKeeps, MetaAnswersSendKeeps
  <2>4. CASE \/ \E reserved \in Reserved : StepStarts(reserved)
             \/ StepJoins
             \/ StepEnds
             \/ \E others \in BOOLEAN : AlarmReturns(others)
    BY <2>4, StepStartsKeeps, StepJoinsKeeps, StepEndsKeeps, AlarmReturnsKeeps
  <2> QED
    BY <1>2, <2>1, <2>2, <2>3, <2>4 DEF Step
<1>3. CASE Environment
  BY <1>3, CrashKeeps, TickKeeps, GoStaleKeeps DEF Environment
<1> QED
  BY <1>1, <1>2, <1>3 DEF Next

LEMMA SendInit == Init => SendInv
<1> SUFFICES ASSUME Init PROVE SendInv
  OBVIOUS
<1>1. \A b \in Broadcasts, s \in Seqs :
        bc[b] = "none" /\ rec[b][s].status = "none" /\ reached[b][s] = 0
  BY DEF Init, NoRec
<1>2. \A s \in Seqs : job[s] = "none"
  BY DEF Init
<1> QED
  BY <1>1, <1>2, TypeInit DEF SendInv, JobsAreClaimed, OnlyNewHasNoRows, ReachedIsTold

LEMMA SendStep ==
  ASSUME SendInv, [Next]_vars
  PROVE  SendInv' /\ RowsMove
<1>1. CASE Next
  <2>1. StepKeeps
    BY <1>1, NextKeeps
  <2>2. ReachedIsTold'
    BY <2>1 DEF StepKeeps, RowsMove, Move, ReachedIsTold, SendInv
  <2> QED
    BY <2>1, <2>2 DEF StepKeeps, SendInv
<1>2. CASE UNCHANGED vars
  BY <1>2 DEF vars, SendInv, TypeInv, TypeOK, RowsAreGood, StepHasBroadcast,
     JobsAreClaimed, OnlyNewHasNoRows, ReachedIsTold, RowsMove, Move
<1> QED
  BY <1>1, <1>2

LEMMA SendInvariant == Spec => []SendInv
<1>1. SendInv /\ [Next]_vars => SendInv'
  BY SendStep
<1> QED
  BY <1>1, SendInit, PTL DEF Spec

(* Every variable of the broadcasts keeps its type, and no recipient is      *)
(* attempted more often than MAX_THROTTLED_ATTEMPTS allows.                  *)
THEOREM TypeCorrect == Spec => []TypeOK
<1>1. SendInv => TypeOK
  BY DEF SendInv, TypeInv
<1> QED
  BY <1>1, SendInvariant, PTL

(* A broadcast never messages anyone twice, for any number of broadcasts,    *)
(* recipients, cancels, erasures and restarts.                               *)
THEOREM NoneMessagedTwice == Spec => []MessagedAtMostOnce
<1>1. SendInv => MessagedAtMostOnce
  BY DEF SendInv, ReachedIsTold, MessagedAtMostOnce
<1> QED
  BY <1>1, SendInvariant, PTL

(* What the status of a recipient says of its message is true.               *)
THEOREM OutcomesAreTrue == Spec => []OutcomeIsTrue
<1>1. SendInv => OutcomeIsTrue
  BY DEF SendInv, ReachedIsTold, OutcomeIsTrue
<1> QED
  BY <1>1, SendInvariant, PTL

(* The broadcasts implement SendPromise: every step is a step of the promise *)
(* for each recipient, or none.                                              *)
THEOREM PromiseIsKept == Spec => KeepsPromise
<1> DEFINE M == Broadcasts \X Seqs
           told == [m \in M |-> IF rec[m[1]][m[2]].status \in {"queued", "sending"}
                                THEN "open" ELSE rec[m[1]][m[2]].status]
           took == [m \in M |-> reached[m[1]][m[2]]]
<1>1. Init => Promise!Init
  <2> SUFFICES ASSUME Init PROVE Promise!Init
    OBVIOUS
  <2>1. \A m \in M : told[m] = "none" /\ took[m] = 0
    BY DEF Init, NoRec
  <2> QED
    BY <2>1 DEF Promise!Init
<1>2. ASSUME SendInv, [Next]_vars
      PROVE  [Promise!Next]_(Promise!vars)
  <2>1. RowsMove /\ SendInv'
    BY <1>2, SendStep
  <2>2. told' \in [M -> Promise!Status]
    <3>1. \A m \in M : rec'[m[1]][m[2]].status \in RowStatus
      BY <2>1 DEF SendInv, TypeInv, TypeOK, Rec
    <3> QED
      BY <3>1 DEF Promise!Status, RowStatus
  <2>3. took' \in [M -> Nat]
    BY <2>1 DEF SendInv, TypeInv, TypeOK
  <2>4. ASSUME NEW m \in M
        PROVE  \/ told'[m] = told[m] /\ took'[m] = took[m]
               \/ told[m] = "none" /\ told'[m] = "open" /\ took'[m] = took[m]
               \/ /\ told[m] \in {"open", "erased"} /\ took[m] = 0
                  /\ told'[m] = told[m] /\ took'[m] = 1
               \/ /\ told[m] = "open"
                  /\ \/ told'[m] = "sent" /\ took[m] = 1
                     \/ told'[m] \in {"failed", "cancelled"} /\ took[m] = 0
                     \/ told'[m] = "unknown"
                  /\ took'[m] = took[m]
               \/ told[m] # "none" /\ told'[m] = "erased" /\ took'[m] = took[m]
    <3>1. PICK b \in Broadcasts, s \in Seqs : m = <<b, s>>
      OBVIOUS
    <3>2. Move(rec[b][s].status, rec'[b][s].status, reached[b][s], reached'[b][s])
      BY <2>1 DEF RowsMove
    <3>3. /\ took[m] = reached[b][s] /\ took'[m] = reached'[b][s]
          /\ told[m] = IF rec[b][s].status \in {"queued", "sending"}
                       THEN "open" ELSE rec[b][s].status
          /\ told'[m] = IF rec'[b][s].status \in {"queued", "sending"}
                        THEN "open" ELSE rec'[b][s].status
      BY <3>1
    <3> HIDE DEF told, took
    <3> QED
      BY <3>2, <3>3 DEF Move
  <2>5. Promise!Next
    BY <2>2, <2>3, <2>4 DEF Promise!Next, Promise!Stays, Promise!Accept,
       Promise!Take, Promise!Settle, Promise!Erase
  <2> QED
    BY <2>5
<1> QED
  BY <1>1, <1>2, SendInvariant, PTL DEF Spec, KeepsPromise, Promise!Spec

-----------------------------------------------------------------------------
(* A completed broadcast.  Only Finished completes one, and no row of it is  *)
(* moved back to an open status afterwards.                                  *)

LEMMA FinishedIsSettled ==
  ASSUME NEW status, NEW rows, status # "completed", Finished(status, rows) = "completed"
  PROVE  \A s \in Seqs : rows[s].status \notin {"queued", "sending"}
BY DEF Finished

LEMMA CompletedNow ==
  ASSUME SendInv, Next, NEW b \in Broadcasts, bc'[b] = "completed", bc[b] # "completed"
  PROVE  \A s \in Seqs : rec'[b][s].status \notin {"queued", "sending"}
<1>1. bc \in [Broadcasts -> {"none", "running", "completed", "cancelled",
                             "halted", "deleted"}]
      /\ rec \in [Broadcasts -> [Seqs -> Rec]]
  BY DEF SendInv, TypeInv, TypeOK
<1>2. CASE NothingQueued(b)
  <2>1. bc'[b] = Finished(bc[b], rec[b]) /\ rec' = rec
    BY <1>1, <1>2 DEF NothingQueued
  <2> QED
    BY <2>1, FinishedIsSettled
<1>3. CASE StepJoins
  <2> DEFINE stopped == halt \/ Tripped(rec[cur])
             status == IF stopped /\ bc[cur] = "running" THEN "halted" ELSE bc[cur]
             rows == Cancelled(rec[cur], status)
  <2>1. cur \in Broadcasts
    BY <1>3 DEF SendInv, TypeInv, StepHasBroadcast, StepJoins
  <2>2. bc' = [bc EXCEPT ![cur] = Finished(status, rows)]
        /\ rec' = [rec EXCEPT ![cur] = rows]
    BY <1>3 DEF StepJoins
  <2>3. b = cur
    BY <1>1, <2>2
  <2>4. bc'[b] = Finished(status, rows) /\ rec'[b] = rows /\ status # "completed"
    BY <1>1, <2>1, <2>2, <2>3
  <2> HIDE DEF status, rows
  <2> QED
    BY <2>4, FinishedIsSettled
<1>4. CASE Requests
  BY <1>1, <1>4 DEF Requests, CreateBroadcast, CancelBroadcast, EraseByPhone, PruneExpired
<1>5. CASE TokenMissing
  <2>1. bc' = [bc EXCEPT ![cur] = IF bc[cur] = "running" THEN "halted" ELSE bc[cur]]
    BY <1>5 DEF TokenMissing
  <2> QED
    BY <1>1, <2>1
<1>6. ASSUME NEW c \in Broadcasts, NothingQueued(c), c # b
      PROVE  FALSE
  BY <1>1, <1>6 DEF NothingQueued
<1>7. CASE UNCHANGED bc
  BY <1>7
<1>8. Step => \/ StepJoins \/ TokenMissing \/ UNCHANGED bc
              \/ \E c \in Broadcasts : NothingQueued(c)
  BY DEF Step, StepStarts, GiveWay, Claim, TokenReturns, TokenUnavailable, CheckSendRate,
     MetaTakes, MetaAnswersSend, StepEnds, AlarmReturns, tables
<1>9. Environment => UNCHANGED bc
  BY DEF Environment, Crash, Tick, GoStale, tables
<1> QED
  BY <1>2, <1>3, <1>4, <1>5, <1>6, <1>7, <1>8, <1>9 DEF Next

(* A completed broadcast has no recipient that is queued or being sent to,   *)
(* whatever is in flight when it ends.                                       *)
THEOREM CompletedIsOver == Spec => []CompletedIsSettled
<1>1. Init => CompletedIsSettled
  BY DEF Init, CompletedIsSettled
<1>2. ASSUME SendInv, CompletedIsSettled, [Next]_vars
      PROVE  CompletedIsSettled'
  <2>1. CASE UNCHANGED vars
    BY <1>2, <2>1 DEF vars, CompletedIsSettled, In
  <2>2. CASE Next
    <3>1. RowsMove
      BY <1>2, SendStep
    <3>2. SUFFICES ASSUME NEW b \in Broadcasts, bc'[b] = "completed", NEW s \in Seqs
                   PROVE  rec'[b][s].status \notin {"queued", "sending"}
      BY DEF CompletedIsSettled, In
    <3>3. CASE bc[b] = "completed"
      <4>1. rec[b][s].status \notin {"none", "queued", "sending"}
        BY <1>2, <3>3 DEF CompletedIsSettled, In, SendInv, OnlyNewHasNoRows
      <4> QED
        BY <3>1, <4>1 DEF RowsMove, Move
    <3>4. CASE bc[b] # "completed"
      BY <1>2, <2>2, <3>2, <3>4, CompletedNow
    <3> QED
      BY <3>3, <3>4
  <2> QED
    BY <1>2, <2>1, <2>2
<1> QED
  BY <1>1, <1>2, SendInvariant, PTL DEF Spec

-----------------------------------------------------------------------------
(* The alarm.  While the media step runs, what will arm it is known.         *)

WakeInv ==
  /\ RunningIsAwaited
  /\ pc = "media" /\ Running # {} => again \/ arrived

(* A running broadcast is never left without an alarm, at whichever await it *)
(* was created.                                                              *)
THEOREM RunningHasAlarm == Spec => []RunningIsAwaited
<1>1. Init => WakeInv
  <2> SUFFICES ASSUME Init PROVE WakeInv
    OBVIOUS
  <2>1. Running = {} /\ pc = "idle"
    BY DEF Init, Running
  <2> QED
    BY <2>1 DEF WakeInv, RunningIsAwaited
<1>2. ASSUME WakeInv, SendInv, Next
      PROVE  WakeInv'
  <2> USE DEF WakeInv, RunningIsAwaited
  <2>1. ASSUME NEW b \in Broadcasts, CreateBroadcast(b)
        PROVE  WakeInv'
    BY <2>1 DEF CreateBroadcast
  <2>2. ASSUME Running' \subseteq Running, UNCHANGED <<pc, armed, arrived, again>>
        PROVE  WakeInv'
    BY <1>2, <2>2
  <2>3. bc \in [Broadcasts -> {"none", "running", "completed", "cancelled",
                               "halted", "deleted"}]
    BY <1>2 DEF SendInv, TypeInv, TypeOK
  <2>4. ASSUME NEW b \in Broadcasts,
               CancelBroadcast(b) \/ PruneExpired(b) \/ \E s \in Seqs : EraseByPhone(b, s)
        PROVE  WakeInv'
    <3>1. Running' \subseteq Running
      BY <2>3, <2>4 DEF Running, CancelBroadcast, PruneExpired, EraseByPhone
    <3>2. UNCHANGED <<pc, armed, arrived, again>>
      BY <2>4 DEF CancelBroadcast, PruneExpired, EraseByPhone, step
    <3> QED
      BY <2>2, <3>1, <3>2
  <2>5. ASSUME Tick \/ \E b \in Broadcasts, s \in Seqs : GoStale(b, s)
        PROVE  WakeInv'
    <3>1. UNCHANGED <<bc, pc, armed, arrived, again>>
      BY <2>5 DEF Tick, GoStale, step
    <3> QED
      BY <2>2, <3>1 DEF Running
  <2>6. CASE Crash
    BY <2>6 DEF Crash
  <2>7. CASE StepEnds
    <3>1. pc' = "media" /\ again' = (Running # {}) /\ Running' = Running
      BY <2>7 DEF StepEnds, tables, Running
    <3> QED
      BY <3>1
  <2>8. ASSUME NEW others \in BOOLEAN, AlarmReturns(others)
        PROVE  WakeInv'
    <3>1. pc = "media" /\ pc' = "idle" /\ Running' = Running
      BY <2>8 DEF AlarmReturns, tables, Running
    <3>2. again \/ arrived => armed'
      BY <2>8 DEF AlarmReturns
    <3> QED
      BY <1>2, <3>1, <3>2
  <2>9. CASE pc' \in {"loop", "token", "sending"}
    BY <2>9
  <2>10. Step => \/ StepEnds
                 \/ \E others \in BOOLEAN : AlarmReturns(others)
                 \/ pc' \in {"loop", "token", "sending"}
    <3>1. ASSUME NEW s \in Seqs, MetaTakes(s) \/ \E answer \in Answers : MetaAnswersSend(s, answer)
          PROVE  pc' \in {"loop", "token", "sending"}
      <4>1. job[s] # "none" /\ pc' = pc
        BY <3>1 DEF MetaTakes, MetaAnswersSend, MayAnswer
      <4> QED
        BY <1>2, <4>1 DEF SendInv, JobsAreClaimed
    <3> QED
      BY <3>1 DEF Step, StepStarts, GiveWay, Claim, NothingQueued, Serves, TokenReturns,
         TokenMissing, TokenUnavailable, CheckSendRate, StepJoins
  <2> QED
    BY <1>2, <2>1, <2>4, <2>5, <2>6, <2>7, <2>8, <2>9, <2>10
       DEF Next, Requests, Environment
<1>3. WakeInv /\ UNCHANGED vars => WakeInv'
  BY DEF WakeInv, RunningIsAwaited, Running, vars
<1>4. WakeInv /\ SendInv /\ [Next]_vars => WakeInv'
  BY <1>2, <1>3
<1>5. WakeInv => RunningIsAwaited
  BY DEF WakeInv
<1> QED
  BY <1>1, <1>4, <1>5, SendInvariant, PTL DEF Spec
-----------------------------------------------------------------------------
(* What a stopped broadcast leaves. Between two restarts only the sends of   *)
(* the tick in flight put a recipient back into the queue of a broadcast     *)
(* that was stopped, and the end of the tick cancels it.                     *)

StoppedInv ==
  /\ crashes \in 0..MaxCrashes
  /\ crashes = MaxCrashes =>
       \A b \in Broadcasts : bc[b] \in {"cancelled", "halted"} =>
         In(b, {"queued"}) = {} \/ (pc = "sending" /\ b = cur)

(* A send is out only while the tick's sends are awaited.                    *)
JobsAreOut == \A s \in Seqs : job[s] \in {"posting", "taken"} => pc = "sending"

LEMMA CancelledHasNoneQueued ==
  ASSUME NEW rows, NEW status, status # "running"
  PROVE  \A s \in Seqs : Cancelled(rows, status)[s].status # "queued"
BY DEF Cancelled, Settled

(* A token the step holds is one that a lookup gave.                         *)
TokenWasAnswered == token \in Tokens \cup {"none"}

(* A broadcast that is stopped after the step was so before and got nothing  *)
(* back into its queue, or its queue is empty, or its tick is in flight.     *)
LEMMA StoppedKept ==
  ASSUME SendInv, StoppedInv, crashes' = crashes,
         \A b \in Broadcasts : bc'[b] \in {"cancelled", "halted"} =>
           \/ /\ bc[b] = bc'[b]
              /\ In(b, {"queued"})' \subseteq In(b, {"queued"})
              /\ pc = "sending" /\ b = cur => pc' = "sending" /\ cur' = cur
           \/ In(b, {"queued"})' = {}
           \/ pc' = "sending" /\ b = cur'
  PROVE  StoppedInv'
BY DEF StoppedInv

LEMMA StoppedStep ==
  ASSUME "unavailable" \notin Tokens, SendInv, StoppedInv, JobsAreOut, TokenWasAnswered, Next
  PROVE  StoppedInv'
<1>1. /\ bc \in [Broadcasts -> {"none", "running", "completed", "cancelled",
                                "halted", "deleted"}]
      /\ rec \in [Broadcasts -> [Seqs -> Rec]]
      /\ pc \in {"token", "sending"} => cur \in Broadcasts
  BY DEF SendInv, TypeInv, TypeOK, StepHasBroadcast
<1> DEFINE Same(b) ==
             /\ bc[b] = bc'[b]
             /\ In(b, {"queued"})' \subseteq In(b, {"queued"})
             /\ pc = "sending" /\ b = cur => pc' = "sending" /\ cur' = cur
<1>2. ASSUME rec' = rec, bc' = bc, pc # "sending" \/ (pc' = pc /\ cur' = cur),
             crashes' = crashes
      PROVE  StoppedInv'
  <2>1. \A b \in Broadcasts : Same(b)
    BY <1>2 DEF In
  <2> QED
    BY <1>2, <2>1, StoppedKept
<1>3. ASSUME NEW b \in Broadcasts, CreateBroadcast(b)
      PROVE  StoppedInv'
  <2>1. \A c \in Broadcasts : bc'[c] \in {"cancelled", "halted"} => Same(c)
    <3> SUFFICES ASSUME NEW c \in Broadcasts, bc'[c] \in {"cancelled", "halted"}
                 PROVE  Same(c)
      OBVIOUS
    <3>1. c # b
      BY <1>1, <1>3 DEF CreateBroadcast
    <3> QED
      BY <1>1, <1>3, <3>1 DEF CreateBroadcast, In, step
  <2>2. crashes' = crashes
    BY <1>3 DEF CreateBroadcast
  <2> QED
    BY <2>1, <2>2, StoppedKept
<1>4. ASSUME NEW b \in Broadcasts, CancelBroadcast(b)
      PROVE  StoppedInv'
  <2>1. bc' = [bc EXCEPT ![b] = "cancelled"] /\ crashes' = crashes
        /\ rec' = [rec EXCEPT ![b] = Cancelled(@, "cancelled")]
        /\ pc' = pc /\ cur' = cur
    BY <1>4 DEF CancelBroadcast, step
  <2>2. In(b, {"queued"})' = {}
    <3>1. rec'[b] = Cancelled(rec[b], "cancelled")
      BY <1>1, <2>1
    <3> QED
      BY <3>1, CancelledHasNoneQueued DEF In
  <2>3. \A c \in Broadcasts : c # b => Same(c)
    BY <1>1, <2>1 DEF In
  <2> QED
    BY <2>1, <2>2, <2>3, StoppedKept
<1>5. ASSUME NEW b \in Broadcasts, NEW s \in Seqs, EraseByPhone(b, s)
      PROVE  StoppedInv'
  <2>1. bc' = bc /\ crashes' = crashes /\ pc' = pc /\ cur' = cur
        /\ rec' = [rec EXCEPT ![b][s] = Settled("erased", @.attempts)]
    BY <1>5 DEF EraseByPhone, step
  <2>2. \A c \in Broadcasts, r \in Seqs :
          rec'[c][r].status = "queued" => rec[c][r].status = "queued"
    BY <1>1, <2>1 DEF Settled
  <2>3. \A c \in Broadcasts : Same(c)
    BY <2>1, <2>2 DEF In
  <2> QED
    BY <2>1, <2>3, StoppedKept
<1>6. ASSUME NEW b \in Broadcasts, PruneExpired(b)
      PROVE  StoppedInv'
  <2>1. bc' = [bc EXCEPT ![b] = "deleted"] /\ crashes' = crashes
        /\ rec' = [rec EXCEPT ![b] = [s \in Seqs |-> Settled("erased", 0)]]
        /\ pc' = pc /\ cur' = cur
    BY <1>6 DEF PruneExpired, step
  <2>2. \A c \in Broadcasts : bc'[c] \in {"cancelled", "halted"} => Same(c)
    BY <1>1, <2>1 DEF In
  <2> QED
    BY <2>1, <2>2, StoppedKept
<1>7. ASSUME NEW reserved \in Reserved, StepStarts(reserved)
      PROVE  StoppedInv'
  <2>1. bc' = bc /\ crashes' = crashes /\ pc = "idle"
        /\ rec' = [b \in Broadcasts |->
             IF b \in Running THEN [s \in Seqs |-> Swept(rec[b][s])] ELSE rec[b]]
    BY <1>7 DEF StepStarts
  <2>2. \A c \in Broadcasts : bc'[c] \in {"cancelled", "halted"} => Same(c)
    BY <1>1, <2>1 DEF In, Running
  <2> QED
    BY <2>1, <2>2, StoppedKept
<1>8. ASSUME NEW b \in Broadcasts, Claim(b)
      PROVE  StoppedInv'
  <2>1. bc' = bc /\ crashes' = crashes /\ pc = "loop"
        /\ rec' = [rec EXCEPT ![b] = [s \in Seqs |->
             IF s \in Claimed(b) THEN Settled("sending", @[s].attempts) ELSE @[s]]]
    BY <1>8 DEF Claim, Serves
  <2>2. \A c \in Broadcasts, r \in Seqs :
          rec'[c][r].status = "queued" => rec[c][r].status = "queued"
    BY <1>1, <2>1 DEF Settled
  <2>3. \A c \in Broadcasts : Same(c)
    BY <2>1, <2>2 DEF In
  <2> QED
    BY <2>1, <2>3, StoppedKept
<1>9. ASSUME NEW b \in Broadcasts, NothingQueued(b)
      PROVE  StoppedInv'
  <2>1. bc' = [bc EXCEPT ![b] = Finished(@, rec[b])] /\ rec' = rec
        /\ crashes' = crashes /\ pc = "loop"
    BY <1>9 DEF NothingQueued, Serves
  <2>2. Finished(bc[b], rec[b]) \in {"cancelled", "halted"} => Finished(bc[b], rec[b]) = bc[b]
    BY DEF Finished
  <2>3. \A c \in Broadcasts : bc'[c] \in {"cancelled", "halted"} => Same(c)
    BY <1>1, <2>1, <2>2 DEF In
  <2> QED
    BY <2>1, <2>3, StoppedKept
<1>10. CASE TokenMissing
  <2> DEFINE status == IF bc[cur] = "running" THEN "halted" ELSE bc[cur]
  <2>1. bc' = [bc EXCEPT ![cur] = status] /\ crashes' = crashes /\ pc = "token"
        /\ rec' = [rec EXCEPT ![cur] = Cancelled(Released, status)]
    BY <1>10 DEF TokenMissing, TokenAnswered
  <2>2. cur \in Broadcasts /\ status # "running"
    BY <1>1, <2>1
  <2> HIDE DEF status
  <2>3. \A c \in Broadcasts : c = cur => In(c, {"queued"})' = {}
    <3>1. rec'[cur] = Cancelled(Released, status)
      BY <1>1, <2>1, <2>2
    <3> QED
      BY <2>2, <3>1, CancelledHasNoneQueued DEF In
  <2>4. \A c \in Broadcasts : c # cur => Same(c)
    BY <1>1, <2>1, <2>2 DEF In
  <2> QED
    BY <2>1, <2>3, <2>4, StoppedKept
<1>11. ~TokenUnavailable
  BY DEF TokenUnavailable, TokenAnswered, TokenWasAnswered
<1>12. ASSUME NEW s \in Seqs, NEW allowed \in BOOLEAN, CheckSendRate(s, allowed)
       PROVE  StoppedInv'
  <2>1. bc' = bc /\ crashes' = crashes /\ pc = "sending" /\ pc' = pc /\ cur' = cur
        /\ rec' = IF allowed THEN rec ELSE [rec EXCEPT ![cur][s] = Requeued(@)]
    BY <1>12 DEF CheckSendRate
  <2>2. \A c \in Broadcasts : c # cur => Same(c)
    BY <1>1, <2>1 DEF In
  <2> QED
    BY <2>1, <2>2, StoppedKept
<1>13. ASSUME NEW s \in Seqs, NEW answer \in Answers, MetaAnswersSend(s, answer)
       PROVE  StoppedInv'
  <2>1. bc' = bc /\ crashes' = crashes /\ pc' = pc /\ cur' = cur
        /\ rec' = [rec EXCEPT ![cur][s] = Answered(@, answer)]
        /\ job[s] \in {"posting", "taken"}
    BY <1>13 DEF MetaAnswersSend, MayAnswer
  <2>2. pc = "sending"
    BY <2>1 DEF JobsAreOut
  <2>3. \A c \in Broadcasts : c # cur => Same(c)
    BY <1>1, <2>1, <2>2 DEF In
  <2> QED
    BY <2>1, <2>2, <2>3, StoppedKept
<1>14. CASE StepJoins
  <2> DEFINE stopped == halt \/ Tripped(rec[cur])
             status == IF stopped /\ bc[cur] = "running" THEN "halted" ELSE bc[cur]
             rows == Cancelled(rec[cur], status)
  <2>1. /\ bc' = [bc EXCEPT ![cur] = Finished(status, rows)]
        /\ rec' = [rec EXCEPT ![cur] = rows]
        /\ crashes' = crashes /\ pc = "sending" /\ cur' = cur
    BY <1>14 DEF StepJoins
  <2>2. cur \in Broadcasts
    BY <1>1, <2>1
  <2>3. status # "running" => \A s \in Seqs : rows[s].status # "queued"
    BY CancelledHasNoneQueued
  <2> HIDE DEF status, rows
  <2>4. Finished(status, rows) \in {"cancelled", "halted"} => status # "running"
    BY DEF Finished
  <2>5. bc'[cur] \in {"cancelled", "halted"} => In(cur, {"queued"})' = {}
    <3>1. bc'[cur] = Finished(status, rows) /\ rec'[cur] = rows
      BY <1>1, <2>1, <2>2
    <3> QED
      BY <2>1, <2>3, <2>4, <3>1 DEF In
  <2>6. \A c \in Broadcasts : c # cur => Same(c)
    BY <1>1, <2>1, <2>2 DEF In
  <2> QED
    BY <2>1, <2>5, <2>6, StoppedKept DEF In
<1>15. CASE Crash
  BY <1>15, LimitsAssumption DEF Crash, StoppedInv
<1>16. ASSUME NEW b \in Broadcasts, NEW s \in Seqs, GoStale(b, s)
       PROVE  StoppedInv'
  <2>1. bc' = bc /\ crashes' = crashes /\ pc' = pc /\ cur' = cur
        /\ rec' = [rec EXCEPT ![b][s].stale = TRUE]
    BY <1>16 DEF GoStale, step
  <2>2. \A c \in Broadcasts, r \in Seqs : rec'[c][r].status = rec[c][r].status
    BY <1>1, <2>1 DEF Rec
  <2>3. \A c \in Broadcasts : Same(c)
    BY <2>1, <2>2 DEF In
  <2> QED
    BY <2>1, <2>3, StoppedKept
<1>17. CASE \/ \E b \in Broadcasts : GiveWay(b)
            \/ TokenReturns \/ StepEnds \/ Tick
            \/ \E s \in Seqs : MetaTakes(s)
            \/ \E others \in BOOLEAN : AlarmReturns(others)
  BY <1>2, <1>17 DEF GiveWay, Serves, TokenReturns, TokenAnswered, StepEnds, Tick, MetaTakes,
     AlarmReturns, tables, step
<1> QED
  BY <1>3, <1>4, <1>5, <1>6, <1>7, <1>8, <1>9, <1>10, <1>11, <1>12, <1>13, <1>14, <1>15,
     <1>16, <1>17 DEF Next, Requests, Step, Environment

LEMMA JobsAreOutStep ==
  ASSUME JobsAreOut, TypeOK, [Next]_vars
  PROVE  JobsAreOut'
<1> USE DEF JobsAreOut
<1>1. CASE job' = job /\ (pc = "sending" => pc' = "sending")
  BY <1>1
<1>2. CASE \A s \in Seqs : job'[s] \notin {"posting", "taken"}
  BY <1>2
<1>3. CASE Requests \/ UNCHANGED vars
  BY <1>1, <1>3 DEF Requests, CreateBroadcast, CancelBroadcast, EraseByPhone, PruneExpired,
     step, vars
<1>4. CASE Environment
  <2>1. CASE Crash
    BY <1>2, <2>1 DEF Crash
  <2>2. CASE Tick \/ \E b \in Broadcasts, s \in Seqs : GoStale(b, s)
    BY <1>1, <2>2 DEF Tick, GoStale, step
  <2> QED
    BY <1>4, <2>1, <2>2 DEF Environment
<1>5. ASSUME NEW s \in Seqs,
             \/ \E allowed \in BOOLEAN : CheckSendRate(s, allowed)
             \/ MetaTakes(s)
             \/ \E answer \in Answers : MetaAnswersSend(s, answer)
      PROVE  JobsAreOut'
  <2>1. job \in [Seqs -> {"none", "claimed", "posting", "taken"}]
    BY DEF TypeOK
  <2>2. pc' = pc /\ \A r \in Seqs : r # s => job'[r] = job[r]
    BY <1>5, <2>1 DEF CheckSendRate, MetaTakes, MetaAnswersSend
  <2>3. pc = "sending"
    BY <1>5 DEF CheckSendRate, MetaTakes, MetaAnswersSend, MayAnswer
  <2> QED
    BY <2>2, <2>3
<1>6. CASE \E b \in Broadcasts : GiveWay(b) \/ Claim(b) \/ NothingQueued(b)
  <2>1. ASSUME NEW b \in Broadcasts, GiveWay(b) \/ NothingQueued(b)
        PROVE  JobsAreOut'
    BY <1>1, <2>1 DEF GiveWay, NothingQueued
  <2>2. ASSUME NEW b \in Broadcasts, Claim(b)
        PROVE  JobsAreOut'
    BY <1>2, <2>2 DEF Claim
  <2> QED
    BY <1>6, <2>1, <2>2
<1>7. CASE TokenMissing \/ TokenUnavailable
  BY <1>2, <1>7 DEF TokenMissing, TokenUnavailable
<1>8. CASE StepJoins
  BY <1>2, <1>8 DEF StepJoins
<1>9. CASE \/ \E reserved \in Reserved : StepStarts(reserved)
           \/ TokenReturns \/ StepEnds
           \/ \E others \in BOOLEAN : AlarmReturns(others)
  BY <1>1, <1>9 DEF StepStarts, TokenReturns, StepEnds, AlarmReturns, tables
<1> QED
  BY <1>3, <1>4, <1>5, <1>6, <1>7, <1>8, <1>9 DEF Next, Step

LEMMA TokenStep ==
  ASSUME TokenWasAnswered, [Next]_vars
  PROVE  TokenWasAnswered'
<1>1. CASE Requests \/ Environment \/ UNCHANGED vars
  BY <1>1 DEF TokenWasAnswered, Requests, CreateBroadcast, CancelBroadcast, EraseByPhone,
     PruneExpired, Environment, Crash, Tick, GoStale, step, vars
<1>2. CASE TokenReturns \/ TokenMissing \/ TokenUnavailable
  <2>1. ASSUME NEW t, TokenAnswered(t) PROVE t \in Tokens \cup {"none"}
    BY <2>1 DEF TokenAnswered, TokenWasAnswered
  <2> QED
    BY <1>2, <2>1 DEF TokenWasAnswered, TokenReturns, TokenMissing, TokenUnavailable
<1>3. CASE Step /\ token' \in {token, "none"}
  BY <1>3 DEF TokenWasAnswered
<1>4. Step => token' \in {token, "none"} \/ TokenReturns \/ TokenMissing \/ TokenUnavailable
  BY DEF Step, StepStarts, GiveWay, Claim, NothingQueued, CheckSendRate, MetaTakes,
     MetaAnswersSend, StepJoins, StepEnds, AlarmReturns, tables
<1> QED
  BY <1>1, <1>2, <1>3, <1>4 DEF Next

(* Wherever a cancel or a halt lands, the broadcast keeps no recipient in    *)
(* its queue once the step is over, as long as the token lookup answers and  *)
(* no restart cut a tick short: either of the two can put recipients back in *)
(* the queue of a broadcast that no later tick steps.                        *)
THEOREM EndedIsEmptied ==
  ASSUME "unavailable" \notin Tokens
  PROVE  Spec => [](crashes = MaxCrashes => EndedHasNoneQueued)
<1>1. Init => StoppedInv /\ JobsAreOut /\ TokenWasAnswered
  <2> SUFFICES ASSUME Init PROVE StoppedInv /\ JobsAreOut /\ TokenWasAnswered
    OBVIOUS
  <2> QED
    BY LimitsAssumption DEF Init, StoppedInv, JobsAreOut, TokenWasAnswered
<1>2. SendInv /\ StoppedInv /\ JobsAreOut /\ TokenWasAnswered /\ [Next]_vars
        => StoppedInv' /\ JobsAreOut' /\ TokenWasAnswered'
  <2> SUFFICES ASSUME SendInv, StoppedInv, JobsAreOut, TokenWasAnswered, [Next]_vars
               PROVE  StoppedInv' /\ JobsAreOut' /\ TokenWasAnswered'
    OBVIOUS
  <2>1. JobsAreOut' /\ TokenWasAnswered'
    BY JobsAreOutStep, TokenStep DEF SendInv, TypeInv
  <2>2. CASE Next
    BY <2>1, <2>2, StoppedStep
  <2>3. CASE UNCHANGED vars
    BY <2>1, <2>3 DEF vars, StoppedInv, In
  <2> QED
    BY <2>2, <2>3
<1>3. StoppedInv => (crashes = MaxCrashes => EndedHasNoneQueued)
  BY DEF StoppedInv, EndedHasNoneQueued
<1> QED
  BY <1>1, <1>2, <1>3, SendInvariant, PTL DEF Spec
=============================================================================
