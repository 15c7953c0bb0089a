--------------------------- MODULE PromiseProofs ---------------------------
(* Theorems about the two small components that keep an abstract promise:    *)
(* the send keys (SendPromise), for every number of requests, keys, lives of *)
(* a key and faults, and the queue of the self-hosted process                *)
(* (QueuePromise), for every set of rows, number of passes and attempts.     *)
(* Then the types of everything that MCStore runs side by side.              *)
EXTENDS MCStore, StoreProofs, SequenceTheorems

-----------------------------------------------------------------------------
(* The inductive invariant.  A key has at most one request that sends, which *)
(* found the row new and is the only one to settle it; so the row, what Meta *)
(* took and what clients were told agree, for the life the key is in.        *)

At(k) == <<k, life[k]>>

Sending == [pc : {"post", "answer", "log", "settle"}, key : SendKeyIds,
            outcome : {"none", "sent", "failed", "unknown"}]

IsSending(r) == request[r] # NoRequest

RequestIsTrue(r) ==
  LET k == request[r].key
      outcome == request[r].outcome
  IN
  /\ life[k] \in 1..MaxLives
  /\ keyRow[k] # NoKeyRow /\ keyRow[k].result = "pending"
  /\ answers[At(k)] \subseteq {"pending"}
  /\ request[r].pc = "post" => posted[At(k)] = 0
  /\ request[r].pc = "answer" => posted[At(k)] = 1
  /\ request[r].pc \in {"log", "settle"} =>
       /\ outcome = "sent" => posted[At(k)] = 1
       /\ outcome = "failed" => posted[At(k)] = 0
  /\ request[r].pc = "log" => outcome \in {"sent", "failed", "unknown"}
  /\ request[r].pc = "settle" => outcome \in {"sent", "failed"}

RequestsAreTrue == \A r \in Requests : IsSending(r) => RequestIsTrue(r)

RequestsDiffer ==
  \A r, s \in Requests :
    r # s /\ IsSending(r) /\ IsSending(s) => request[r].key # request[s].key

TrueAnswers(n, seen) ==
  /\ n \in {0, 1}
  /\ "sent" \in seen => n = 1
  /\ "failed" \in seen => n = 0
  /\ "unknown" \in seen => seen \cap {"sent", "failed"} = {}

LifeIsTrue(k, n) ==
  LET row == keyRow[k]
      seen == answers[<<k, n>>]
  IN
  /\ TrueAnswers(posted[<<k, n>>], seen)
  /\ n > life[k] => posted[<<k, n>>] = 0 /\ seen = {}
  /\ n = life[k] /\ row # NoKeyRow =>
       /\ row.result = "pending" => seen \cap {"sent", "failed"} = {}
       /\ row.result = "sent" =>
            posted[<<k, n>>] = 1 /\ seen \cap {"failed", "unknown"} = {}
       /\ row.result = "failed" =>
            posted[<<k, n>>] = 0 /\ seen \cap {"sent", "unknown"} = {}

LivesAreTrue == \A k \in SendKeyIds, n \in 1..MaxLives : LifeIsTrue(k, n)

RowsHaveLives == \A k \in SendKeyIds : keyRow[k] # NoKeyRow => life[k] >= 1

KeysInv ==
  /\ SendKeysTypeOK
  /\ RequestsAreTrue
  /\ RequestsDiffer
  /\ LivesAreTrue
  /\ RowsHaveLives

LEMMA KeysInit == SendKeysInit => KeysInv
<1> SUFFICES ASSUME SendKeysInit PROVE KeysInv
  OBVIOUS
<1>1. SendKeysTypeOK
  BY SendKeysAssumption DEF SendKeysInit, SendKeysTypeOK
<1>2. \A r \in Requests : ~IsSending(r)
  BY DEF SendKeysInit, IsSending
<1>3. LivesAreTrue /\ RowsHaveLives
  BY DEF SendKeysInit, LivesAreTrue, RowsHaveLives, LifeIsTrue, TrueAnswers,
     Lives
<1> QED
  BY <1>1, <1>2, <1>3 DEF KeysInv, RequestsAreTrue, RequestsDiffer

-----------------------------------------------------------------------------
(* A step concerns one key, the life it is in afterwards, and at most one    *)
(* request; the rest stays as it is.                                         *)

Concerns(R, k) ==
  /\ \A s \in Requests \ R : request'[s] = request[s]
  /\ \A j \in SendKeyIds \ {k} : keyRow'[j] = keyRow[j] /\ life'[j] = life[j]
  /\ \A j \in SendKeyIds, n \in 1..MaxLives :
       <<j, n>> # At(k)' => /\ posted'[<<j, n>>] = posted[<<j, n>>]
                            /\ answers'[<<j, n>>] = answers[<<j, n>>]
  /\ life'[k] = life[k] \/ (life'[k] = life[k] + 1 /\ keyRow[k] = NoKeyRow)

LEMMA SendKeyTypes ==
  ASSUME SendKeysTypeOK, NEW k \in SendKeyIds
  PROVE  /\ life[k] \in 0..MaxLives /\ life[k] \in Nat /\ MaxLives \in Nat
         /\ keyRow[k] # NoKeyRow =>
              keyRow[k].result \in {"pending", "sent", "failed"}
BY SendKeysAssumption DEF SendKeysTypeOK

LEMMA LifeTypes ==
  ASSUME SendKeysTypeOK, NEW k \in SendKeyIds, NEW n \in 1..MaxLives
  PROVE  /\ <<k, n>> \in Lives /\ posted[<<k, n>>] \in Nat
         /\ answers[<<k, n>>] \subseteq {"sent", "failed", "unknown", "pending"}
<1> DEFINE kl == <<k, n>>
<1>1. kl \in Lives
  BY DEF Lives
<1> HIDE DEF kl
<1>2. posted[kl] \in Nat /\ answers[kl] \subseteq {"sent", "failed", "unknown", "pending"}
  BY <1>1 DEF SendKeysTypeOK
<1> QED
  BY <1>1, <1>2 DEF kl

LEMMA RequestTypes ==
  ASSUME SendKeysTypeOK, NEW r \in Requests, IsSending(r)
  PROVE  /\ request[r].key \in SendKeyIds
         /\ request[r].pc \in {"post", "answer", "log", "settle"}
         /\ request[r].outcome \in {"none", "sent", "failed", "unknown"}
         /\ request[r] \in Sending
BY DEF SendKeysTypeOK, IsSending, Sending

(* A life that the step does not concern stays true.                         *)
LEMMA OtherLives ==
  ASSUME KeysInv, SendKeysTypeOK', NEW R, NEW k \in SendKeyIds, Concerns(R, k),
         life'[k] >= 1 => LifeIsTrue(k, life[k])'
  PROVE  LivesAreTrue'
<1> SUFFICES ASSUME NEW j \in SendKeyIds, NEW n \in 1..MaxLives
             PROVE  LifeIsTrue(j, n)'
  BY DEF LivesAreTrue
<1>1. LifeIsTrue(j, n)
  BY DEF KeysInv, LivesAreTrue
<1>2. CASE j # k
  <2>1. <<j, n>> # At(k)'
    BY <1>2 DEF At
  <2> QED
    BY <1>1, <1>2, <2>1 DEF Concerns, LifeIsTrue
<1>3. CASE j = k /\ n # life'[k]
  <2>1. <<j, n>> # At(k)'
    BY <1>3 DEF At
  <2>2. /\ posted'[<<j, n>>] = posted[<<j, n>>]
        /\ answers'[<<j, n>>] = answers[<<j, n>>]
    BY <2>1 DEF Concerns
  <2>3. n > life'[k] => n > life[k]
    BY SendKeyTypes DEF Concerns, KeysInv
  <2> QED
    BY <1>1, <1>3, <2>2, <2>3 DEF LifeIsTrue
<1>4. CASE j = k /\ n = life'[k]
  BY <1>4
<1> QED
  BY <1>2, <1>3, <1>4

(* A request that the step does not concern stays true, if it sends for      *)
(* another key.                                                              *)
LEMMA OtherRequests ==
  ASSUME KeysInv, NEW R, NEW k \in SendKeyIds, Concerns(R, k),
         NEW s \in Requests \ R, IsSending(s)', request[s].key # k
  PROVE  RequestIsTrue(s)' /\ IsSending(s)
<1> DEFINE j == request[s].key
<1>1. request'[s] = request[s] /\ IsSending(s)
  BY DEF Concerns, IsSending
<1>2. j \in SendKeyIds /\ RequestIsTrue(s)
  BY <1>1, RequestTypes DEF KeysInv, RequestsAreTrue
<1>3. keyRow'[j] = keyRow[j] /\ life'[j] = life[j]
  BY <1>2 DEF Concerns
<1>4. At(j) # At(k)' /\ At(j)' = At(j)
  BY <1>1, <1>3 DEF At
<1>5. posted'[At(j)] = posted[At(j)] /\ answers'[At(j)] = answers[At(j)]
  BY <1>2, <1>4 DEF Concerns, At, RequestIsTrue
<1> QED
  BY <1>1, <1>2, <1>3, <1>4, <1>5 DEF RequestIsTrue

(* The step of the request that sends for its key.                           *)
LEMMA SenderStep ==
  ASSUME KeysInv, SendKeysTypeOK', NEW r \in Requests, NEW k \in SendKeyIds,
         Concerns({r}, k),
         (IsSending(r) /\ request[r].key = k) \/ keyRow[k] = NoKeyRow,
         life'[k] >= 1, LifeIsTrue(k, life[k])',
         IsSending(r)' => request'[r].key = k /\ RequestIsTrue(r)'
  PROVE  KeysInv'
<1>1. ASSUME NEW s \in Requests \ {r}, IsSending(s)'
      PROVE  request[s].key # k
  <2>1. IsSending(s) /\ RequestIsTrue(s)
    BY <1>1 DEF Concerns, IsSending, KeysInv, RequestsAreTrue
  <2> QED
    BY <2>1 DEF RequestIsTrue, KeysInv, RequestsDiffer
<1>2. ASSUME NEW s \in Requests \ {r}, IsSending(s)'
      PROVE  RequestIsTrue(s)' /\ IsSending(s) /\ request'[s] = request[s]
  BY <1>1, <1>2, OtherRequests DEF Concerns
<1>3. RequestsAreTrue'
  BY <1>2 DEF RequestsAreTrue
<1>4. RequestsDiffer'
  BY <1>1, <1>2 DEF RequestsDiffer, KeysInv
<1>5. LivesAreTrue'
  BY OtherLives
<1>6. RowsHaveLives'
  BY DEF Concerns, RowsHaveLives, KeysInv
<1> QED
  BY <1>3, <1>4, <1>5, <1>6 DEF KeysInv

-----------------------------------------------------------------------------
(* The steps.                                                                *)

(* What the claim of a key that is new does.                                 *)
ClaimsNew(r, k, body) ==
  /\ keyRow[k] = NoKeyRow /\ life[k] < MaxLives
  /\ keyRow' = [keyRow EXCEPT ![k] = [body |-> body, result |-> "pending"]]
  /\ life' = [life EXCEPT ![k] = @ + 1]
  /\ request' = [request EXCEPT ![r] =
       [pc |-> "post", key |-> k, outcome |-> "none"]]
  /\ UNCHANGED <<posted, answers>>

LEMMA ClaimsNewKeeps ==
  ASSUME KeysInv, NEW r \in Requests, NEW k \in SendKeyIds, NEW body \in Bodies,
         ~IsSending(r), ClaimsNew(r, k, body)
  PROVE  KeysInv'
<1> DEFINE row == [body |-> body, result |-> "pending"]
           sends == [pc |-> "post", key |-> k, outcome |-> "none"]
           n == life[k] + 1
<1>1. SendKeysTypeOK /\ life[k] \in Nat /\ n \in 1..MaxLives
  BY SendKeyTypes DEF KeysInv, ClaimsNew
<1>2. /\ row # NoKeyRow /\ row.result = "pending"
      /\ sends # NoRequest /\ sends.pc = "post" /\ sends.key = k
  BY DEF NoKeyRow, NoRequest
<1>3. keyRow'[k] = row /\ life'[k] = n /\ request'[r] = sends
  BY <1>1 DEF ClaimsNew, SendKeysTypeOK
<1>4. SendKeysTypeOK'
  BY <1>1 DEF ClaimsNew, SendKeysTypeOK
<1>5. Concerns({r}, k)
  BY <1>1, <1>3 DEF ClaimsNew, Concerns, SendKeysTypeOK
<1>6. posted'[<<k, n>>] = 0 /\ answers'[<<k, n>>] = {}
  <2>1. LifeIsTrue(k, n)
    BY <1>1 DEF KeysInv, LivesAreTrue
  <2> QED
    BY <1>1, <2>1 DEF LifeIsTrue, ClaimsNew
<1> HIDE DEF row, sends
<1>7. LifeIsTrue(k, life[k])'
  BY <1>1, <1>2, <1>3, <1>6 DEF LifeIsTrue, TrueAnswers
<1>8. RequestIsTrue(r)'
  BY <1>1, <1>2, <1>3, <1>6 DEF RequestIsTrue, At
<1> QED
  BY <1>1, <1>2, <1>3, <1>4, <1>5, <1>7, <1>8, SenderStep DEF ClaimsNew

(* A client is told what the row has.                                        *)
LEMMA ReplayKeeps ==
  ASSUME KeysInv, NEW k \in SendKeyIds, keyRow[k] # NoKeyRow,
         Told(k, keyRow[k].result), UNCHANGED <<keyRow, life, request, posted>>
  PROVE  KeysInv'
<1> DEFINE seen == answers[At(k)] \cup {keyRow[k].result}
<1>1. /\ SendKeysTypeOK /\ life[k] \in 1..MaxLives
      /\ keyRow[k].result \in {"pending", "sent", "failed"}
  BY SendKeyTypes DEF KeysInv, RowsHaveLives
<1>2. At(k) \in Lives /\ At(k)' = At(k)
  BY <1>1, LifeTypes DEF At
<1>3. answers' = [answers EXCEPT ![At(k)] = @ \cup {keyRow[k].result}]
  BY DEF Told, At
<1>4. answers'[At(k)] = seen /\ \A kl \in Lives : kl # At(k) => answers'[kl] = answers[kl]
  BY <1>1, <1>2, <1>3 DEF SendKeysTypeOK
<1>5. SendKeysTypeOK'
  <2>1. seen \in SUBSET {"sent", "failed", "unknown", "pending"}
    BY <1>1, <1>2 DEF SendKeysTypeOK
  <2>2. answers' \in [Lives -> SUBSET {"sent", "failed", "unknown", "pending"}]
    BY <1>1, <1>2, <1>3, <2>1 DEF SendKeysTypeOK
  <2> QED
    BY <1>1, <2>2 DEF SendKeysTypeOK
<1>6. Concerns({}, k)
  <2>1. \A j \in SendKeyIds, n \in 1..MaxLives : <<j, n>> \in Lives
    BY DEF Lives
  <2> QED
    BY <1>2, <1>4, <2>1 DEF Concerns
<1>7. LifeIsTrue(k, life[k])'
  <2>1. LifeIsTrue(k, life[k])
    BY <1>1 DEF KeysInv, LivesAreTrue
  <2>2. answers'[<<k, life[k]>>] = seen /\ answers[<<k, life[k]>>] \subseteq seen
    BY <1>4 DEF At
  <2>3. seen = answers[<<k, life[k]>>] \cup {keyRow[k].result}
    BY DEF At
  <2> HIDE DEF seen
  <2> QED
    BY <1>1, <2>1, <2>2, <2>3 DEF LifeIsTrue, TrueAnswers
<1>8. LivesAreTrue'
  BY <1>5, <1>6, <1>7, OtherLives
<1>9. ASSUME NEW s \in Requests, IsSending(s)'
      PROVE  RequestIsTrue(s)'
  <2>1. IsSending(s) /\ RequestIsTrue(s)
    BY <1>9 DEF IsSending, KeysInv, RequestsAreTrue
  <2>2. CASE request[s].key # k
    BY <1>6, <1>9, <2>2, OtherRequests
  <2>3. CASE request[s].key = k
    <3>1. answers'[At(k)] \subseteq {"pending"}
      BY <1>4, <2>1, <2>3 DEF RequestIsTrue
    <3>2. UNCHANGED <<posted, keyRow, life>> /\ request'[s] = request[s]
      OBVIOUS
    <3> QED
      BY <1>2, <2>1, <2>3, <3>1, <3>2 DEF RequestIsTrue
  <2> QED
    BY <2>2, <2>3
<1> QED
  BY <1>5, <1>8, <1>9 DEF KeysInv, RequestsAreTrue, RequestsDiffer, RowsHaveLives,
     IsSending

(* What is known of the key of a request that sends.                         *)
LEMMA SenderKnows ==
  ASSUME KeysInv, NEW r \in Requests, IsSending(r)
  PROVE  LET k == request[r].key IN
         /\ k \in SendKeyIds /\ RequestIsTrue(r)
         /\ LifeIsTrue(k, life[k])
         /\ life[k] \in 1..MaxLives /\ At(k) \in Lives
         /\ posted[At(k)] \in Nat
<1> DEFINE k == request[r].key
<1>1. k \in SendKeyIds /\ RequestIsTrue(r)
  BY RequestTypes DEF KeysInv, RequestsAreTrue
<1>2. life[k] \in 1..MaxLives
  BY <1>1 DEF RequestIsTrue
<1>3. LifeIsTrue(k, life[k])
  BY <1>1, <1>2 DEF KeysInv, LivesAreTrue
<1>4. At(k) \in Lives /\ posted[At(k)] \in Nat
  BY <1>1, <1>2, LifeTypes DEF At, KeysInv
<1> QED
  BY <1>1, <1>2, <1>3, <1>4

LEMMA MetaPostsKeeps ==
  ASSUME KeysInv, NEW r \in Requests, MetaPosts(r)
  PROVE  KeysInv'
<1>0. PICK k : k = request[r].key
  OBVIOUS
<1> DEFINE x == [request[r] EXCEPT !.pc = "answer"]
<1>1. IsSending(r) /\ SendKeysTypeOK /\ request[r].pc = "post"
  BY DEF MetaPosts, IsSending, NoRequest, KeysInv
<1>2. /\ k \in SendKeyIds /\ RequestIsTrue(r) /\ LifeIsTrue(k, life[k])
      /\ life[k] \in 1..MaxLives /\ At(k) \in Lives
  BY <1>0, <1>1, SenderKnows
<1>3. /\ x \in Sending /\ x.pc = "answer" /\ x.key = k
      /\ x # NoRequest
  <2>1. request[r] \in Sending
    BY <1>1, RequestTypes
  <2> QED
    BY <1>0, <2>1 DEF Sending, NoRequest
<1>4. request' = [request EXCEPT ![r] = x] /\ request'[r] = x
  BY <1>1 DEF MetaPosts, SendKeysTypeOK
<1>5. /\ posted' = [posted EXCEPT ![At(k)] = @ + 1]
      /\ UNCHANGED <<keyRow, life, answers>>
  BY <1>0 DEF MetaPosts, At
<1>6. posted[At(k)] = 0
  BY <1>0, <1>1, <1>2 DEF RequestIsTrue
<1>7. /\ posted'[At(k)] = 1 /\ At(k)' = At(k)
      /\ \A kl \in Lives : kl # At(k) => posted'[kl] = posted[kl]
  <2>1. At(k)' = At(k)
    BY <1>5 DEF At
  <2> QED
    BY <1>1, <1>2, <1>5, <1>6, <2>1 DEF SendKeysTypeOK
<1> HIDE DEF x
<1>8. SendKeysTypeOK'
  <2>1. request' \in [Requests -> Sending \cup {NoRequest}]
    BY <1>1, <1>3, <1>4 DEF SendKeysTypeOK, Sending
  <2>2. posted' \in [Lives -> Nat]
    BY <1>1, <1>2, <1>5, <1>6 DEF SendKeysTypeOK
  <2> QED
    BY <1>1, <1>5, <2>1, <2>2 DEF SendKeysTypeOK, Sending
<1>9. Concerns({r}, k)
  <2>1. \A j \in SendKeyIds, n \in 1..MaxLives : <<j, n>> \in Lives
    BY DEF Lives
  <2> QED
    BY <1>1, <1>4, <1>5, <1>7, <2>1 DEF Concerns, SendKeysTypeOK
<1>10. answers[At(k)] \subseteq {"pending"} /\ keyRow[k] # NoKeyRow
       /\ keyRow[k].result = "pending"
  BY <1>0, <1>2 DEF RequestIsTrue
<1>11. LifeIsTrue(k, life[k])'
  BY <1>2, <1>3, <1>4, <1>5, <1>7, <1>10 DEF LifeIsTrue, TrueAnswers, At
<1>12. RequestIsTrue(r)'
  BY <1>2, <1>3, <1>4, <1>5, <1>7, <1>10 DEF RequestIsTrue
<1> QED
  BY <1>0, <1>1, <1>2, <1>3, <1>4, <1>5, <1>8, <1>9, <1>11, <1>12, SenderStep

(* The answer of Meta, the log and the settlement: what becomes of the       *)
(* request, the row and what clients were told fits what Meta took.          *)
Fits(k, x, row, seen) ==
  LET n == posted[At(k)] IN
  /\ row.result = "pending" => seen \cap {"sent", "failed"} = {}
  /\ row.result = "sent" => n = 1 /\ seen \cap {"failed", "unknown"} = {}
  /\ row.result = "failed" => n = 0 /\ seen \cap {"sent", "unknown"} = {}
  /\ TrueAnswers(n, seen)
  /\ x # NoRequest =>
       /\ x.key = k /\ row.result = "pending" /\ seen \subseteq {"pending"}
       /\ x.pc \in {"log", "settle"}
       /\ x.outcome = "sent" => n = 1
       /\ x.outcome = "failed" => n = 0
       /\ x.pc = "log" => x.outcome \in {"sent", "failed", "unknown"}
       /\ x.pc = "settle" => x.outcome \in {"sent", "failed"}

SettledRow == [body : Bodies, result : {"pending", "sent", "failed"}]

LEMMA SenderMoves ==
  ASSUME KeysInv, NEW r \in Requests, IsSending(r),
         NEW k, k = request[r].key,
         NEW x \in Sending \cup {NoRequest}, NEW row \in SettledRow,
         NEW seen \in SUBSET {"sent", "failed", "unknown", "pending"},
         request' = [request EXCEPT ![r] = x],
         keyRow' = [keyRow EXCEPT ![k] = row],
         answers' = [answers EXCEPT ![At(k)] = seen],
         UNCHANGED <<life, posted>>, Fits(k, x, row, seen)
  PROVE  KeysInv'
<1>1. /\ SendKeysTypeOK /\ k \in SendKeyIds /\ life[k] \in 1..MaxLives
      /\ LifeIsTrue(k, life[k]) /\ At(k) \in Lives
  BY SenderKnows DEF KeysInv
<1>2. /\ request'[r] = x /\ keyRow'[k] = row /\ answers'[At(k)] = seen
      /\ At(k)' = At(k)
  BY <1>1 DEF SendKeysTypeOK, At
<1>3. row # NoKeyRow
  BY DEF SettledRow, NoKeyRow
<1>4. SendKeysTypeOK'
  <2>1. request' \in [Requests -> Sending \cup {NoRequest}]
    BY <1>1 DEF SendKeysTypeOK, Sending
  <2>2. keyRow' \in [SendKeyIds -> SettledRow \cup {NoKeyRow}]
    BY <1>1 DEF SendKeysTypeOK, SettledRow
  <2>3. answers' \in [Lives -> SUBSET {"sent", "failed", "unknown", "pending"}]
    BY <1>1 DEF SendKeysTypeOK
  <2> QED
    BY <1>1, <2>1, <2>2, <2>3 DEF SendKeysTypeOK, Sending, SettledRow
<1>5. Concerns({r}, k)
  <2>1. \A j \in SendKeyIds, n \in 1..MaxLives : <<j, n>> \in Lives
    BY DEF Lives
  <2>2. \A kl \in Lives : kl # At(k) => answers'[kl] = answers[kl]
    BY <1>1 DEF SendKeysTypeOK
  <2> QED
    BY <1>1, <1>2, <2>1, <2>2 DEF Concerns, SendKeysTypeOK
<1>6. LifeIsTrue(k, life[k])'
  BY <1>1, <1>2, <1>3 DEF LifeIsTrue, TrueAnswers, At, Fits
<1>7. IsSending(r)' => request'[r].key = k /\ RequestIsTrue(r)'
  BY <1>1, <1>2, <1>3 DEF RequestIsTrue, IsSending, Fits
<1> QED
  BY <1>1, <1>5, <1>4, <1>6, <1>7, SenderStep

(* Writing back what is there.                                               *)
LEMMA Unwritten ==
  ASSUME KeysInv, NEW k \in SendKeyIds, At(k) \in Lives
  PROVE  /\ keyRow = [keyRow EXCEPT ![k] = keyRow[k]]
         /\ answers = [answers EXCEPT ![At(k)] = answers[At(k)]]
         /\ answers[At(k)] \in SUBSET {"sent", "failed", "unknown", "pending"}
         /\ keyRow[k] # NoKeyRow => keyRow[k] \in SettledRow
BY DEF KeysInv, SendKeysTypeOK, SettledRow

LEMMA MetaAnswersKeeps ==
  ASSUME KeysInv, NEW r \in Requests, MetaAnswers(r)
  PROVE  KeysInv'
<1>0. PICK k : k = request[r].key
  OBVIOUS
<1>1. IsSending(r) /\ SendKeysTypeOK /\ request[r].pc \in {"post", "answer"}
  BY DEF MetaAnswers, IsSending, NoRequest, KeysInv
<1>2. k \in SendKeyIds /\ RequestIsTrue(r) /\ At(k) \in Lives
  BY <1>0, <1>1, SenderKnows
<1>3. PICK outcome \in Outcomes(request[r].pc) :
        request' = [request EXCEPT ![r].pc = "log", ![r].outcome = outcome]
  BY DEF MetaAnswers
<1> DEFINE x == [request[r] EXCEPT !.pc = "log", !.outcome = outcome]
<1>4. request' = [request EXCEPT ![r] = x]
  BY <1>1, <1>3 DEF SendKeysTypeOK
<1>5. /\ outcome \in {"sent", "failed", "unknown"}
      /\ outcome = "sent" => request[r].pc = "answer"
      /\ outcome = "failed" => request[r].pc = "post"
  BY <1>1 DEF Outcomes
<1>6. /\ x \in Sending /\ x.pc = "log" /\ x.outcome = outcome /\ x.key = k
  BY <1>0, <1>1, <1>5, RequestTypes DEF Sending
<1> HIDE DEF x
<1>7. /\ keyRow[k] # NoKeyRow /\ keyRow[k].result = "pending"
      /\ answers[At(k)] \subseteq {"pending"}
      /\ outcome = "sent" => posted[At(k)] = 1
      /\ outcome = "failed" => posted[At(k)] = 0
      /\ posted[At(k)] \in {0, 1}
  BY <1>0, <1>1, <1>2, <1>5 DEF RequestIsTrue
<1>8. PICK seen : seen = answers[At(k)]
  OBVIOUS
<1>9. Fits(k, x, keyRow[k], seen)
  <2>1. TrueAnswers(posted[At(k)], seen) /\ seen \cap {"sent", "failed"} = {}
    BY <1>7, <1>8 DEF TrueAnswers
  <2>2. seen \subseteq {"pending"}
    BY <1>7, <1>8
  <2> QED
    BY <1>5, <1>6, <1>7, <2>1, <2>2 DEF Fits
<1>10. UNCHANGED <<keyRow, life, posted, answers>>
  BY DEF MetaAnswers
<1>11. keyRow' = [keyRow EXCEPT ![k] = keyRow[k]]
       /\ answers' = [answers EXCEPT ![At(k)] = seen]
  BY <1>2, <1>8, <1>10, Unwritten
<1>12. keyRow[k] \in SettledRow
       /\ seen \in SUBSET {"sent", "failed", "unknown", "pending"}
  BY <1>2, <1>7, <1>8, Unwritten
<1> QED
  BY <1>0, <1>1, <1>4, <1>6, <1>9, <1>10, <1>11, <1>12, SenderMoves

(* At the log what the request found is true.                                *)
LEMMA LoggedIsTrue ==
  ASSUME KeysInv, NEW r \in Requests, IsSending(r), request[r].pc \in {"log", "settle"},
         NEW k, k = request[r].key
  PROVE  /\ k \in SendKeyIds /\ At(k) \in Lives /\ request[r] \in Sending
         /\ keyRow[k] \in SettledRow /\ keyRow[k].result = "pending"
         /\ answers[At(k)] \subseteq {"pending"} /\ posted[At(k)] \in {0, 1}
         /\ request[r].outcome = "sent" => posted[At(k)] = 1
         /\ request[r].outcome = "failed" => posted[At(k)] = 0
         /\ request[r].outcome \in {"sent", "failed", "unknown"}
         /\ request[r].pc = "settle" => request[r].outcome # "unknown"
<1>1. /\ k \in SendKeyIds /\ At(k) \in Lives /\ RequestIsTrue(r)
      /\ LifeIsTrue(k, life[k])
  BY SenderKnows
<1>2. posted[At(k)] \in {0, 1}
  BY <1>1 DEF LifeIsTrue, TrueAnswers, At
<1>3. keyRow[k] # NoKeyRow
  BY <1>1 DEF RequestIsTrue
<1>4. keyRow[k] \in SettledRow
  BY <1>1, <1>3, Unwritten
<1>5. request[r] \in Sending
  BY RequestTypes DEF KeysInv
<1> QED
  BY <1>1, <1>2, <1>4, <1>5 DEF RequestIsTrue

LEMMA LogsSendKeeps ==
  ASSUME KeysInv, NEW r \in Requests, LogsSend(r)
  PROVE  KeysInv'
<1>0. PICK k : k = request[r].key
  OBVIOUS
<1>1. IsSending(r) /\ request[r].pc = "log"
  BY DEF LogsSend, IsSending, NoRequest
<1>2. /\ k \in SendKeyIds /\ At(k) \in Lives /\ request[r] \in Sending
      /\ keyRow[k] \in SettledRow /\ keyRow[k].result = "pending"
      /\ answers[At(k)] \subseteq {"pending"} /\ posted[At(k)] \in {0, 1}
      /\ request[r].outcome = "sent" => posted[At(k)] = 1
      /\ request[r].outcome = "failed" => posted[At(k)] = 0
      /\ request[r].outcome \in {"sent", "failed", "unknown"}
  BY <1>0, <1>1, LoggedIsTrue
<1>3. UNCHANGED <<keyRow, life, posted>>
  BY DEF LogsSend
<1>4. keyRow' = [keyRow EXCEPT ![k] = keyRow[k]]
  BY <1>2, <1>3, Unwritten
<1>5. CASE request[r].outcome = "unknown"
  <2> DEFINE seen == answers[At(k)] \cup {"unknown"}
  <2>1. /\ answers' = [answers EXCEPT ![At(k)] = seen]
        /\ request' = [request EXCEPT ![r] = NoRequest]
    BY <1>0, <1>5 DEF LogsSend, Told, At
  <2>2. seen \in SUBSET {"sent", "failed", "unknown", "pending"}
    BY <1>2
  <2>3. Fits(k, NoRequest, keyRow[k], seen)
    BY <1>2 DEF Fits, TrueAnswers
  <2> HIDE DEF seen
  <2> QED
    BY <1>0, <1>1, <1>2, <1>3, <1>4, <2>1, <2>2, <2>3, SenderMoves
<1>6. CASE request[r].outcome # "unknown"
  <2> DEFINE x == [request[r] EXCEPT !.pc = "settle"]
  <2>1. request' = [request EXCEPT ![r] = x] /\ answers' = answers
    BY <1>6 DEF LogsSend, KeysInv, SendKeysTypeOK
  <2>2. /\ x \in Sending /\ x.pc = "settle" /\ x.key = k
        /\ x.outcome = request[r].outcome
    BY <1>0, <1>2 DEF Sending
  <2> HIDE DEF x
  <2>3. PICK seen : seen = answers[At(k)]
    OBVIOUS
  <2>4. Fits(k, x, keyRow[k], seen)
    BY <1>2, <1>6, <2>2, <2>3 DEF Fits, TrueAnswers
  <2>5. answers' = [answers EXCEPT ![At(k)] = seen]
        /\ seen \in SUBSET {"sent", "failed", "unknown", "pending"}
    BY <1>2, <2>1, <2>3, Unwritten
  <2> QED
    BY <1>0, <1>1, <1>2, <1>3, <1>4, <2>1, <2>2, <2>4, <2>5, SenderMoves
<1> QED
  BY <1>5, <1>6

(* settleSendKey writes what the request found, and the client, if it still  *)
(* listens, is told.                                                         *)
LEMMA SettlingKeeps ==
  ASSUME KeysInv, NEW r \in Requests, IsSending(r), request[r].pc = "settle",
         keyRow' = Settled(r), request' = [request EXCEPT ![r] = NoRequest],
         UNCHANGED <<life, posted>>,
         Told(request[r].key, request[r].outcome) \/ UNCHANGED answers
  PROVE  KeysInv'
<1>0. PICK k : k = request[r].key
  OBVIOUS
<1>1. /\ k \in SendKeyIds /\ At(k) \in Lives
      /\ keyRow[k] \in SettledRow /\ keyRow[k].result = "pending"
      /\ answers[At(k)] \subseteq {"pending"} /\ posted[At(k)] \in {0, 1}
      /\ request[r].outcome = "sent" => posted[At(k)] = 1
      /\ request[r].outcome = "failed" => posted[At(k)] = 0
      /\ request[r].outcome \in {"sent", "failed"}
  BY <1>0, LoggedIsTrue
<1> DEFINE row == [keyRow[k] EXCEPT !.result = request[r].outcome]
<1>2. keyRow[k] # NoKeyRow
  BY <1>1 DEF NoKeyRow
<1>3. keyRow' = [keyRow EXCEPT ![k] = row]
  BY <1>0, <1>1, <1>2 DEF Settled, KeysInv, SendKeysTypeOK
<1>4. row \in SettledRow /\ row.result = request[r].outcome
  BY <1>1 DEF SettledRow
<1>5. PICK seen \in {answers[At(k)], answers[At(k)] \cup {request[r].outcome}} :
        answers' = [answers EXCEPT ![At(k)] = seen]
  BY <1>0, <1>1, Unwritten DEF Told, At
<1> HIDE DEF row
<1>6. seen \in SUBSET {"sent", "failed", "unknown", "pending"}
  BY <1>1, <1>5
<1>7. Fits(k, NoRequest, row, seen)
  BY <1>1, <1>4, <1>5 DEF Fits, TrueAnswers
<1> QED
  BY <1>0, <1>3, <1>4, <1>5, <1>6, <1>7, SenderMoves

LEMMA DyingKeeps ==
  ASSUME KeysInv, NEW r \in Requests, IsSending(r),
         request' = [request EXCEPT ![r] = NoRequest],
         UNCHANGED <<keyRow, life, posted, answers>>
  PROVE  KeysInv'
<1>1. /\ \A s \in Requests \ {r} : request'[s] = request[s]
      /\ ~IsSending(r)'
  BY DEF IsSending, KeysInv, SendKeysTypeOK
<1>2. SendKeysTypeOK'
  BY DEF KeysInv, SendKeysTypeOK
<1>3. \A s \in Requests : IsSending(s)' => IsSending(s) /\ request'[s] = request[s]
  BY <1>1 DEF IsSending
<1>4. RequestsAreTrue'
  BY <1>3 DEF KeysInv, RequestsAreTrue, RequestIsTrue, At
<1>5. RequestsDiffer'
  BY <1>3 DEF KeysInv, RequestsDiffer
<1>6. LivesAreTrue' /\ RowsHaveLives'
  BY DEF KeysInv, LivesAreTrue, LifeIsTrue, RowsHaveLives
<1> QED
  BY <1>2, <1>4, <1>5, <1>6 DEF KeysInv

LEMMA KeyExpiresKeeps ==
  ASSUME KeysInv, NEW k \in SendKeyIds, KeyExpires(k)
  PROVE  KeysInv'
<1>1. /\ keyRow' = [keyRow EXCEPT ![k] = NoKeyRow]
      /\ UNCHANGED <<life, request, posted, answers>>
      /\ \A r \in Requests : request[r].key # k
  BY DEF KeyExpires
<1>2. /\ keyRow'[k] = NoKeyRow
      /\ \A j \in SendKeyIds \ {k} : keyRow'[j] = keyRow[j]
  BY <1>1 DEF KeysInv, SendKeysTypeOK
<1>3. SendKeysTypeOK'
  BY <1>1 DEF KeysInv, SendKeysTypeOK
<1>4. Concerns({}, k)
  BY <1>1, <1>2 DEF Concerns
<1>5. \A s \in Requests : IsSending(s)' => RequestIsTrue(s)'
  BY <1>1, <1>4, OtherRequests
<1>6. LivesAreTrue'
  <2> SUFFICES ASSUME NEW j \in SendKeyIds, NEW n \in 1..MaxLives
               PROVE  LifeIsTrue(j, n)'
    BY DEF LivesAreTrue
  <2>1. LifeIsTrue(j, n)
    BY DEF KeysInv, LivesAreTrue
  <2>2. keyRow'[j] = keyRow[j] \/ keyRow'[j] = NoKeyRow
    BY <1>2
  <2> QED
    BY <1>1, <2>1, <2>2 DEF LifeIsTrue
<1>7. RowsHaveLives' /\ RequestsDiffer'
  BY <1>1, <1>2 DEF KeysInv, RowsHaveLives, RequestsDiffer, IsSending
<1> QED
  BY <1>3, <1>5, <1>6, <1>7 DEF KeysInv, RequestsAreTrue

LEMMA ClaimKeeps ==
  ASSUME KeysInv, NEW r \in Requests, NEW k \in SendKeyIds, NEW body \in Bodies,
         ClaimSendKey(r, k, body)
  PROVE  KeysInv'
<1>1. CASE ClaimsNew(r, k, body)
  BY <1>1, ClaimsNewKeeps DEF ClaimSendKey, IsSending
<1>2. CASE /\ keyRow[k] # NoKeyRow /\ Told(k, keyRow[k].result)
           /\ UNCHANGED <<keyRow, life, request, posted>>
  BY <1>2, ReplayKeeps
<1>3. CASE UNCHANGED <<keyRow, life, request, posted, answers>>
  <2>1. SendKeysTypeOK' /\ RequestsDiffer' /\ RowsHaveLives'
    BY <1>3 DEF KeysInv, SendKeysTypeOK, RequestsDiffer, RowsHaveLives, IsSending
  <2>2. \A s \in Requests : IsSending(s)' => IsSending(s)
    BY <1>3 DEF IsSending
  <2>3. \A s \in Requests : RequestIsTrue(s) => RequestIsTrue(s)'
    BY <1>3 DEF RequestIsTrue, At
  <2>4. \A j \in SendKeyIds, n \in 1..MaxLives : LifeIsTrue(j, n) => LifeIsTrue(j, n)'
    BY <1>3 DEF LifeIsTrue
  <2> QED
    BY <2>1, <2>2, <2>3, <2>4 DEF KeysInv, RequestsAreTrue, LivesAreTrue
<1> QED
  BY <1>1, <1>2, <1>3 DEF ClaimSendKey, ClaimsNew

LEMMA KeysStep == KeysInv /\ [SendKeysNext]_sendKeyVars => KeysInv'
<1> SUFFICES ASSUME KeysInv, [SendKeysNext]_sendKeyVars PROVE KeysInv'
  OBVIOUS
<1>1. ASSUME NEW r \in Requests, SettleSendKey(r) PROVE KeysInv'
  <2>1. IsSending(r) /\ request[r].pc = "settle"
    BY <1>1 DEF SettleSendKey, IsSending, NoRequest
  <2> QED
    BY <1>1, <2>1, SettlingKeeps DEF SettleSendKey
<1>2. ASSUME NEW r \in Requests, RequestDies(r) PROVE KeysInv'
  <2>1. CASE keyRow' = keyRow
    BY <1>2, <2>1, DyingKeeps DEF RequestDies, IsSending
  <2>2. CASE request[r].pc = "settle" /\ keyRow' = Settled(r)
    BY <1>2, <2>2, SettlingKeeps DEF RequestDies, IsSending
  <2> QED
    BY <1>2, <2>1, <2>2 DEF RequestDies
<1>3. CASE UNCHANGED sendKeyVars
  BY <1>3 DEF sendKeyVars, KeysInv, SendKeysTypeOK, RequestsAreTrue, RequestIsTrue,
     IsSending, At, RequestsDiffer, LivesAreTrue, LifeIsTrue, RowsHaveLives
<1> QED
  BY <1>1, <1>2, <1>3, ClaimKeeps, MetaPostsKeeps, MetaAnswersKeeps, LogsSendKeeps,
     KeyExpiresKeeps DEF SendKeysNext

LEMMA KeysInvariant == SendKeysSpec => []KeysInv
BY KeysInit, KeysStep, PTL DEF SendKeysSpec

(* Every variable of the idempotency keys keeps its type.                    *)
THEOREM SendKeysTypeCorrect == SendKeysSpec => []SendKeysTypeOK
<1>1. KeysInv => SendKeysTypeOK
  BY DEF KeysInv
<1> QED
  BY <1>1, KeysInvariant, PTL

(* "A retry with the same key gets this answer back": however requests with  *)
(* one key overlap, repeat, lose an answer or die before the settlement      *)
(* (claimSendKey, settleSendKey), no two clients are told different          *)
(* outcomes, and what they are told is true.                                 *)
THEOREM AnswersAreTrueHolds == SendKeysSpec => []AnswersAreTrue
<1>1. KeysInv => AnswersAreTrue
  <2> SUFFICES ASSUME KeysInv, NEW kl \in Lives
               PROVE  TrueAnswers(posted[kl], answers[kl])
    BY DEF AnswersAreTrue, TrueAnswers
  <2>1. PICK k \in SendKeyIds, n \in 1..MaxLives : kl = <<k, n>>
    BY DEF Lives
  <2> QED
    BY <2>1 DEF KeysInv, LivesAreTrue, LifeIsTrue
<1> QED
  BY <1>1, KeysInvariant, PTL

-----------------------------------------------------------------------------
(* The promise of a send.                                                    *)

(* What a step may do to a life of a key, one disjunct for each move of the  *)
(* promise.                                                                  *)
KeyMoves(k, n) ==
  LET old == KeyStatus(k, n)
      new == KeyStatus(k, n)'
      took == posted[<<k, n>>]
  IN
  \/ new = old /\ posted'[<<k, n>>] = took
  \/ old = "none" /\ new = "open" /\ posted'[<<k, n>>] = took
  \/ old = "open" /\ took = 0 /\ new = old /\ posted'[<<k, n>>] = 1
  \/ /\ old = "open" /\ posted'[<<k, n>>] = took
     /\ (new = "sent" /\ took = 1) \/ (new = "failed" /\ took = 0)
  \/ old # "none" /\ new = "erased" /\ posted'[<<k, n>>] = took

LEMMA ClaimsNewMoves ==
  ASSUME KeysInv, NEW r \in Requests, NEW j \in SendKeyIds, NEW body \in Bodies,
         ClaimsNew(r, j, body), NEW k \in SendKeyIds, NEW n \in 1..MaxLives
  PROVE  KeyMoves(k, n)
<1> DEFINE row == [body |-> body, result |-> "pending"]
<1>1. row # NoKeyRow /\ row.result = "pending" /\ life[k] \in Nat
  BY SendKeyTypes DEF NoKeyRow, KeysInv
<1>2. UNCHANGED posted
  BY DEF ClaimsNew
<1>3. CASE k # j
  <2>1. keyRow'[k] = keyRow[k] /\ life'[k] = life[k]
    BY <1>3 DEF ClaimsNew, KeysInv, SendKeysTypeOK
  <2> QED
    BY <1>2, <2>1 DEF KeyMoves, KeyStatus
<1>4. CASE k = j
  <2>1. keyRow[k] = NoKeyRow /\ keyRow'[k] = row /\ life'[k] = life[k] + 1
    BY <1>4 DEF ClaimsNew, KeysInv, SendKeysTypeOK
  <2> HIDE DEF row
  <2> QED
    BY <1>1, <1>2, <2>1 DEF KeyMoves, KeyStatus
<1> QED
  BY <1>3, <1>4

LEMMA MetaPostsMoves ==
  ASSUME KeysInv, NEW r \in Requests, MetaPosts(r),
         NEW k \in SendKeyIds, NEW n \in 1..MaxLives
  PROVE  KeyMoves(k, n)
<1>0. PICK j : j = request[r].key
  OBVIOUS
<1>1. /\ IsSending(r) /\ request[r].pc = "post" /\ UNCHANGED <<keyRow, life>>
      /\ posted' = [posted EXCEPT ![At(j)] = @ + 1]
  BY <1>0 DEF MetaPosts, IsSending, NoRequest, At
<1>2. j \in SendKeyIds /\ RequestIsTrue(r) /\ At(j) \in Lives
  BY <1>0, <1>1, SenderKnows
<1>3. PICK kl : kl = <<k, n>>
  OBVIOUS
<1>4. kl \in Lives
  BY <1>3, LifeTypes DEF KeysInv
<1>5. CASE kl = At(j)
  <2>1. posted[kl] = 0 /\ posted'[kl] = 1
    BY <1>0, <1>1, <1>2, <1>4, <1>5 DEF RequestIsTrue, KeysInv, SendKeysTypeOK
  <2>2. k = j /\ n = life[k]
    BY <1>3, <1>5 DEF At
  <2>3. KeyStatus(k, n) = "open"
    BY <1>0, <1>2, <2>2, SendKeyTypes DEF RequestIsTrue, KeyStatus, KeysInv
  <2> QED
    BY <1>1, <1>3, <2>1, <2>3 DEF KeyMoves, KeyStatus
<1>6. CASE kl # At(j)
  <2>1. posted'[kl] = posted[kl]
    BY <1>1, <1>2, <1>4, <1>6 DEF KeysInv, SendKeysTypeOK
  <2> QED
    BY <1>1, <1>3, <2>1 DEF KeyMoves, KeyStatus
<1> QED
  BY <1>5, <1>6

LEMMA SettlingMoves ==
  ASSUME KeysInv, NEW r \in Requests, IsSending(r), request[r].pc = "settle",
         keyRow' = Settled(r), UNCHANGED <<life, posted>>,
         NEW k \in SendKeyIds, NEW n \in 1..MaxLives
  PROVE  KeyMoves(k, n)
<1>0. PICK j : j = request[r].key
  OBVIOUS
<1>1. /\ j \in SendKeyIds /\ keyRow[j] \in SettledRow /\ keyRow[j].result = "pending"
      /\ request[r].outcome = "sent" => posted[At(j)] = 1
      /\ request[r].outcome = "failed" => posted[At(j)] = 0
      /\ request[r].outcome \in {"sent", "failed"}
  BY <1>0, LoggedIsTrue
<1> DEFINE row == [keyRow[j] EXCEPT !.result = request[r].outcome]
<1>2. /\ keyRow[j] # NoKeyRow /\ row # NoKeyRow
      /\ row.result = request[r].outcome
  BY <1>1 DEF NoKeyRow, SettledRow
<1>3. /\ keyRow'[j] = row
      /\ \A i \in SendKeyIds \ {j} : keyRow'[i] = keyRow[i]
  BY <1>0, <1>1, <1>2 DEF Settled, KeysInv, SendKeysTypeOK
<1> HIDE DEF row
<1>4. CASE k = j /\ n = life[k]
  <2>1. KeyStatus(k, n) = "open" /\ KeyStatus(k, n)' = request[r].outcome
    BY <1>1, <1>2, <1>3, <1>4, SendKeyTypes DEF KeyStatus, KeysInv
  <2>2. /\ posted'[<<k, n>>] = posted[<<k, n>>]
        /\ request[r].outcome = "sent" => posted[<<k, n>>] = 1
        /\ request[r].outcome = "failed" => posted[<<k, n>>] = 0
    BY <1>1, <1>4 DEF At
  <2> QED
    BY <1>1, <2>1, <2>2 DEF KeyMoves
<1>5. CASE ~(k = j /\ n = life[k])
  <2>1. KeyStatus(k, n)' = KeyStatus(k, n)
    BY <1>2, <1>3, <1>5, SendKeyTypes DEF KeyStatus, KeysInv
  <2> QED
    BY <2>1 DEF KeyMoves
<1> QED
  BY <1>4, <1>5

LEMMA ExpiryMoves ==
  ASSUME KeysInv, NEW j \in SendKeyIds, KeyExpires(j),
         NEW k \in SendKeyIds, NEW n \in 1..MaxLives
  PROVE  KeyMoves(k, n)
<1>1. /\ UNCHANGED <<life, posted>> /\ keyRow[j] # NoKeyRow
      /\ keyRow'[j] = NoKeyRow
      /\ \A i \in SendKeyIds \ {j} : keyRow'[i] = keyRow[i]
  BY DEF KeyExpires, KeysInv, SendKeysTypeOK
<1>2. CASE k # j
  BY <1>1, <1>2 DEF KeyMoves, KeyStatus
<1>3. CASE k = j
  <2>1. life[k] \in Nat
    BY SendKeyTypes DEF KeysInv
  <2>2. \/ KeyStatus(k, n)' = KeyStatus(k, n)
        \/ KeyStatus(k, n) # "none" /\ KeyStatus(k, n)' = "erased"
    BY <1>1, <1>3, <2>1, SendKeyTypes DEF KeyStatus, KeysInv
  <2> QED
    BY <1>1, <2>2 DEF KeyMoves
<1> QED
  BY <1>2, <1>3

LEMMA StepMoves ==
  ASSUME KeysInv, [SendKeysNext]_sendKeyVars,
         NEW k \in SendKeyIds, NEW n \in 1..MaxLives
  PROVE  KeyMoves(k, n)
<1>1. CASE UNCHANGED <<keyRow, life, posted>>
  BY <1>1 DEF KeyMoves, KeyStatus
<1>2. ASSUME NEW r \in Requests, NEW j \in SendKeyIds, NEW body \in Bodies,
             ClaimSendKey(r, j, body)
      PROVE  KeyMoves(k, n)
  BY <1>1, <1>2, ClaimsNewMoves DEF ClaimSendKey, ClaimsNew
<1>3. ASSUME NEW r \in Requests, SettleSendKey(r)
      PROVE  KeyMoves(k, n)
  <2>1. IsSending(r) /\ request[r].pc = "settle"
    BY <1>3 DEF SettleSendKey, IsSending, NoRequest
  <2> QED
    BY <1>3, <2>1, SettlingMoves DEF SettleSendKey
<1>4. ASSUME NEW r \in Requests, RequestDies(r)
      PROVE  KeyMoves(k, n)
  <2>1. CASE keyRow' = keyRow
    BY <1>1, <1>4, <2>1 DEF RequestDies
  <2>2. CASE request[r].pc = "settle" /\ keyRow' = Settled(r)
    BY <1>4, <2>2, SettlingMoves DEF RequestDies, IsSending
  <2> QED
    BY <1>4, <2>1, <2>2 DEF RequestDies
<1>5. ASSUME NEW r \in Requests, MetaAnswers(r) \/ LogsSend(r)
      PROVE  KeyMoves(k, n)
  BY <1>1, <1>5 DEF MetaAnswers, LogsSend
<1>6. CASE UNCHANGED sendKeyVars
  BY <1>1, <1>6 DEF sendKeyVars
<1> QED
  BY <1>2, <1>3, <1>4, <1>5, <1>6, MetaPostsMoves, ExpiryMoves DEF SendKeysNext

(* "Runs send at most once per (account, key)": each life of a key keeps the *)
(* promise that broadcasts and scheduled sends keep for a message.           *)
THEOREM KeyPromiseIsKept == SendKeysSpec => KeyKeepsPromise
<1> DEFINE seen == [kl \in Lives |-> KeyStatus(kl[1], kl[2])]
<1>1. SendKeysInit => KeyPromise!Init
  <2> SUFFICES ASSUME SendKeysInit PROVE KeyPromise!Init
    OBVIOUS
  <2>1. ASSUME NEW kl \in Lives PROVE seen[kl] = "none" /\ posted[kl] = 0
    BY <2>1 DEF SendKeysInit, KeyStatus, Lives
  <2>2. posted = [kl \in Lives |-> 0]
    BY DEF SendKeysInit
  <2> QED
    BY <2>1, <2>2 DEF KeyPromise!Init
<1>2. ASSUME KeysInv, KeysInv', [SendKeysNext]_sendKeyVars
      PROVE  [KeyPromise!Next]_(KeyPromise!vars)
  <2>1. posted' \in [Lives -> Nat]
    BY <1>2 DEF KeysInv, SendKeysTypeOK
  <2>2. ASSUME NEW kl \in Lives
        PROVE  /\ seen'[kl] \in KeyPromise!Status
               /\ \/ seen'[kl] = seen[kl] /\ posted'[kl] = posted[kl]
                  \/ /\ seen[kl] = "none" /\ seen'[kl] = "open"
                     /\ posted'[kl] = posted[kl]
                  \/ /\ seen[kl] \in {"open", "erased"} /\ posted[kl] = 0
                     /\ seen'[kl] = seen[kl] /\ posted'[kl] = 1
                  \/ /\ seen[kl] = "open"
                     /\ \/ seen'[kl] = "sent" /\ posted[kl] = 1
                        \/ seen'[kl] \in {"failed", "cancelled"} /\ posted[kl] = 0
                        \/ seen'[kl] = "unknown"
                     /\ posted'[kl] = posted[kl]
                  \/ /\ seen[kl] # "none" /\ seen'[kl] = "erased"
                     /\ posted'[kl] = posted[kl]
    <3>1. PICK k \in SendKeyIds, n \in 1..MaxLives : kl = <<k, n>>
      BY <2>2 DEF Lives
    <3>2. seen[kl] = KeyStatus(k, n) /\ seen'[kl] = KeyStatus(k, n)'
      BY <2>2, <3>1
    <3>3. KeyMoves(k, n)
      BY <1>2, StepMoves
    <3>4. KeyStatus(k, n)' \in {"none", "erased", "open", "sent", "failed"}
      BY <1>2, SendKeyTypes DEF KeyStatus, KeysInv, SendKeysTypeOK, NoKeyRow
    <3> HIDE DEF seen
    <3> QED
      BY <3>1, <3>2, <3>3, <3>4 DEF KeyMoves, KeyPromise!Status
  <2>3. seen' \in [Lives -> KeyPromise!Status]
    BY <2>2
  <2>4. KeyPromise!Next
    BY <2>1, <2>2, <2>3 DEF KeyPromise!Next, KeyPromise!Stays, KeyPromise!Accept,
       KeyPromise!Take, KeyPromise!Settle, KeyPromise!Erase
  <2> QED
    BY <2>4
<1>3. KeysInv /\ [SendKeysNext]_sendKeyVars => KeysInv'
  BY KeysStep
<1> QED
  BY <1>1, <1>2, <1>3, KeysInvariant, PTL
     DEF SendKeysSpec, KeyKeepsPromise, KeyPromise!Spec

-----------------------------------------------------------------------------
(* The numbers of a finite set are in one order: the one of each rank exists. *)
Rank(S, d) == Cardinality({e \in S : e <= d})

LEMMA RankInjects ==
  ASSUME NEW S \in SUBSET Nat, IsFiniteSet(S)
  PROVE  /\ \A d \in S : Rank(S, d) \in 1..Cardinality(S)
         /\ \A d, e \in S : d < e => Rank(S, d) < Rank(S, e)
<1>1. Cardinality(S) \in Nat
  BY FS_CardinalityType
<1>2. ASSUME NEW d \in S
      PROVE  /\ IsFiniteSet({x \in S : x <= d})
             /\ Rank(S, d) \in 1..Cardinality(S)
  <2>1. {x \in S : x <= d} \in SUBSET S
    OBVIOUS
  <2>2. /\ IsFiniteSet({x \in S : x <= d})
        /\ Cardinality({x \in S : x <= d}) <= Cardinality(S)
    BY <2>1, FS_Subset
  <2>3. Cardinality({x \in S : x <= d}) \in Nat
    BY <2>2, FS_CardinalityType
  <2>4. Cardinality({x \in S : x <= d}) # 0
    <3>1. d \in {x \in S : x <= d}
      OBVIOUS
    <3> QED  BY <2>2, <3>1, FS_EmptySet
  <2> QED  BY <1>1, <2>2, <2>3, <2>4 DEF Rank
<1>3. ASSUME NEW d \in S, NEW e \in S, d < e
      PROVE  Rank(S, d) < Rank(S, e)
  <2> DEFINE A == {x \in S : x <= d}
             B == {x \in S : x <= e}
  <2>1. A \in SUBSET B /\ A # B
    <3>1. e \in B /\ e \notin A
      BY <1>3
    <3>2. ASSUME NEW x \in A  PROVE x \in B
      <4>1. x \in Nat /\ d \in Nat /\ e \in Nat /\ x \in S /\ x <= d
        OBVIOUS
      <4> QED  BY <4>1, <1>3
    <3> QED  BY <3>1, <3>2
  <2>2. IsFiniteSet(B) /\ IsFiniteSet(A)
    BY <1>2
  <2>3. Cardinality(A) \in Nat /\ Cardinality(B) \in Nat
    BY <2>2, FS_CardinalityType
  <2> HIDE DEF A, B
  <2>4. Cardinality(A) <= Cardinality(B) /\ Cardinality(A) # Cardinality(B)
    BY <2>1, <2>2, FS_Subset
  <2>5. Cardinality(A) < Cardinality(B)
    BY <2>3, <2>4
  <2> QED  BY <2>5 DEF A, B, Rank
<1> QED  BY <1>2, <1>3

(* A pass reads due rows of the table, as many as its limit allows, and each *)
(* with the attempts the row has then.                                       *)
Reads(rows, todo) ==
  /\ todo \in Seq([id : Entries, attempts : Nat])
  /\ todo = <<>> <=> DueEntries(rows) = {}
  /\ \A i \in 1..Len(todo) :
       todo[i].id \in DueEntries(rows) /\ todo[i].attempts = rows[todo[i].id].attempts

LEMMA NthExists ==
  ASSUME NEW S \in SUBSET Nat, IsFiniteSet(S), NEW i \in 1..Cardinality(S)
  PROVE  Nth(i, S) \in S
<1> DEFINE n == Cardinality(S)
           rank == [d \in S |-> Rank(S, d)]
<1>1. n \in Nat /\ IsFiniteSet(1..n) /\ Cardinality(1..n) = n
  BY FS_CardinalityType, FS_Interval
<1>2. rank \in Injection(S, 1..n)
  <2>1. rank \in [S -> 1..n]
    BY RankInjects
  <2>2. \A d, e \in S : rank[d] \in Nat /\ (d < e => rank[d] < rank[e])
    BY <1>1, RankInjects
  <2>3. \A d, e \in S : d < e \/ e < d \/ d = e
    OBVIOUS
  <2> HIDE DEF rank, n
  <2>4. \A d, e \in S : rank[d] = rank[e] => d = e
    BY <2>2, <2>3
  <2> QED  BY <2>1, <2>4 DEF Injection, IsInjective
<1> HIDE DEF rank, n
<1>3. rank \in Surjection(S, 1..n)
  BY <1>1, <1>2, FS_Injection DEF n
<1>4. PICK d \in S : rank[d] = i
  BY <1>3 DEF Surjection, n
<1>5. Cardinality({e \in S : e <= d}) = i
  BY <1>4 DEF rank, Rank
<1> QED  BY <1>5 DEF Nth

LEMMA ReadingIsTrue ==
  ASSUME NEW rows, \A d \in Entries : rows[d].attempts \in Nat
  PROVE  Reads(rows, Read(rows))
<1> DEFINE due == DueEntries(rows)
           c == Cardinality(due)
           n == IF c < PassSize THEN c ELSE PassSize
           todo == [i \in 1..n |->
                      [id |-> Nth(i, due), attempts |-> rows[Nth(i, due)].attempts]]
<1>1. due \in SUBSET Entries /\ due \in SUBSET Nat /\ IsFiniteSet(due)
  BY BunAssumption, FS_Subset DEF DueEntries
<1>2. c \in Nat /\ (c = 0 <=> due = {}) /\ PassSize \in Nat \ {0}
  BY <1>1, BunAssumption, FS_CardinalityType, FS_EmptySet
<1>3. n \in Nat /\ n <= c /\ (n = 0 <=> due = {})
  BY <1>2
<1>4. \A i \in 1..n : Nth(i, due) \in due
  BY <1>1, <1>2, <1>3, NthExists
<1>5. Read(rows) = todo
  BY DEF Read
<1> HIDE DEF due, c, n
<1>6. \A i \in 1..n : todo[i].id \in due /\ todo[i].attempts = rows[todo[i].id].attempts
  BY <1>4
<1>7. todo \in [1..n -> [id : Entries, attempts : Nat]]
  BY <1>1, <1>4
<1> HIDE DEF todo
<1>8. todo \in Seq([id : Entries, attempts : Nat]) /\ Len(todo) = n
  <2>1. todo \in Seq([id : Entries, attempts : Nat])
    BY <1>3, <1>7, SeqDef
  <2>2. Len(todo) \in Nat /\ 1..Len(todo) = 1..n
    BY <1>7, <2>1, LenProperties
  <2> QED  BY <1>3, <2>1, <2>2
<1>9. todo = <<>> <=> n = 0
  <2>1. Len(<<>>) = 0 /\ (todo # <<>> => Len(todo) \in Nat \ {0})
    BY <1>8, EmptySeq
  <2> QED  BY <1>8, <2>1
<1> QED
  BY <1>3, <1>5, <1>6, <1>8, <1>9 DEF Reads, due

-----------------------------------------------------------------------------
(* The inductive invariant. A row, and what a pass has read of it, may have  *)
(* forgotten attempts but never counts one that was not made; a row is       *)
(* settled by an attempt that gives it the right to be; an attempt whose     *)
(* batch arrived is of the first row of its pass.                            *)

Row == [status : {"none", "pending", "delivered", "failed", "deleted"},
        attempts : 0..ForwardMaxAttempts, due : BOOLEAN]

RowIsTrue(d, row, got, count) ==
  /\ row \in Row
  /\ row.attempts <= count[d]
  /\ row.status = "pending" => row.attempts < ForwardMaxAttempts
  /\ row.status = "delivered" => d \in got
  /\ row.status = "failed" => count[d] = ForwardMaxAttempts
  /\ row.status = "deleted" => d \in got \/ count[d] = ForwardMaxAttempts

TableIsTrue(rows, got, count) == \A d \in Entries : RowIsTrue(d, rows[d], got, count)

JobIsTrue(hop, count) ==
  /\ hop \in [id : Entries, attempts : Nat]
  /\ hop.attempts <= count[hop.id] /\ hop.attempts < ForwardMaxAttempts

PassIsTrue(run, got, count) ==
  /\ run \in [todo : Seq([id : Entries, attempts : Nat]), hit : BOOLEAN]
  /\ \A i \in 1..Len(run.todo) : JobIsTrue(run.todo[i], count)
  /\ run.hit => run.todo # <<>> /\ run.todo[1].id \in got

BunInv ==
  /\ entry = [d \in Entries |-> entry[d]] /\ pass = [p \in Passes |-> pass[p]]
  /\ reached \subseteq Entries
  /\ tries \in [Entries -> 0..ForwardMaxAttempts]
  /\ TableIsTrue(entry, reached, tries)
  /\ \A p \in Passes : PassIsTrue(pass[p], reached, tries)

LEMMA BunInvTypes == BunInv => BunTypeOK
<1> SUFFICES ASSUME BunInv PROVE BunTypeOK
  OBVIOUS
<1>1. \A d \in Entries : entry[d] \in Row
  BY DEF BunInv, TableIsTrue, RowIsTrue
<1>2. \A p \in Passes :
        pass[p] \in [todo : Seq([id : Entries, attempts : Nat]), hit : BOOLEAN]
  BY DEF BunInv, PassIsTrue
<1>3. entry \in [Entries -> Row]
  BY <1>1 DEF BunInv
<1>4. pass \in [Passes -> [todo : Seq([id : Entries, attempts : Nat]), hit : BOOLEAN]]
  BY <1>2 DEF BunInv
<1> QED
  BY <1>3, <1>4 DEF BunTypeOK, BunInv, Row

LEMMA IdleIsTrue ==
  ASSUME NEW got, NEW count
  PROVE  PassIsTrue(Idle, got, count)
<1>1. <<>> \in Seq([id : Entries, attempts : Nat]) /\ Len(<<>>) = 0
  BY EmptySeq
<1> QED
  BY <1>1 DEF PassIsTrue, Idle

LEMMA BunStarts == BunInit => BunInv
<1> SUFFICES ASSUME BunInit PROVE BunInv
  OBVIOUS
<1>1. /\ entry = [d \in Entries |-> entry[d]] /\ pass = [p \in Passes |-> pass[p]]
      /\ reached \subseteq Entries
  BY DEF BunInit
<1>2. tries \in [Entries -> 0..ForwardMaxAttempts]
      /\ \A d \in Entries : tries[d] = 0
  BY BunAssumption DEF BunInit
<1>3. TableIsTrue(entry, reached, tries)
  <2> SUFFICES ASSUME NEW d \in Entries PROVE RowIsTrue(d, entry[d], reached, tries)
    BY DEF TableIsTrue
  <2>1. entry[d] = [status |-> "none", attempts |-> 0, due |-> FALSE]
    BY DEF BunInit
  <2> QED
    BY <1>2, <2>1, BunAssumption DEF RowIsTrue, Row
<1>4. ASSUME NEW p \in Passes PROVE PassIsTrue(pass[p], reached, tries)
  <2>1. pass[p] = Idle
    BY DEF BunInit
  <2> QED
    BY <2>1, IdleIsTrue
<1> QED
  BY <1>1, <1>2, <1>3, <1>4 DEF BunInv

(* The retention of rows that are true deletes only settled ones.            *)
LEMMA PruningIsTrue ==
  ASSUME NEW rows, NEW got, NEW count, TableIsTrue(rows, got, count),
         NEW old \in SUBSET Prunable(rows)
  PROVE  /\ TableIsTrue(Pruned(rows, old), got, count)
         /\ Pruned(rows, old) = [d \in Entries |-> Pruned(rows, old)[d]]
         /\ \A d \in Entries :
              \/ Pruned(rows, old)[d] = rows[d]
              \/ /\ rows[d].status \in {"delivered", "failed"}
                 /\ Pruned(rows, old)[d].status = "deleted"
<1>1. ASSUME NEW d \in Entries
      PROVE  /\ RowIsTrue(d, Pruned(rows, old)[d], got, count)
             /\ \/ Pruned(rows, old)[d] = rows[d]
                \/ /\ rows[d].status \in {"delivered", "failed"}
                   /\ Pruned(rows, old)[d].status = "deleted"
  <2>1. RowIsTrue(d, rows[d], got, count)
    BY DEF TableIsTrue
  <2>2. CASE d \in old
    <3>1. rows[d].status \in {"delivered", "failed"}
      BY <2>2 DEF Prunable
    <3>2. Pruned(rows, old)[d] = [rows[d] EXCEPT !.status = "deleted"]
      BY <2>2 DEF Pruned
    <3> QED
      BY <2>1, <3>1, <3>2 DEF RowIsTrue, Row
  <2>3. CASE d \notin old
    BY <2>1, <2>3 DEF Pruned
  <2> QED
    BY <2>2, <2>3
<1>2. Pruned(rows, old) = [d \in Entries |-> Pruned(rows, old)[d]]
  BY DEF Pruned
<1> QED
  BY <1>1, <1>2 DEF TableIsTrue

(* A pass that starts from true rows has read true jobs.                     *)
LEMMA StartIsTrue ==
  ASSUME NEW p \in Passes, NEW rows, StartsPass(p, rows), BunInv,
         TableIsTrue(rows, reached, tries), rows = [d \in Entries |-> rows[d]],
         UNCHANGED <<reached, tries>>
  PROVE  /\ BunInv'
         /\ \A d \in Entries :
              \/ entry'[d] = rows[d]
              \/ /\ rows[d].status \in {"delivered", "failed"}
                 /\ entry'[d].status = "deleted"
<1> DEFINE todo == Read(rows)
<1>1. \A d \in Entries : RowIsTrue(d, rows[d], reached, tries)
  BY DEF TableIsTrue
<1>2. Reads(rows, todo)
  BY <1>1, BunAssumption, ReadingIsTrue DEF RowIsTrue, Row
<1>3. PassIsTrue([todo |-> todo, hit |-> FALSE], reached, tries)
  <2>1. todo \in Seq([id : Entries, attempts : Nat])
    BY <1>2 DEF Reads
  <2>2. ASSUME NEW i \in 1..Len(todo) PROVE JobIsTrue(todo[i], tries)
    <3>1. todo[i].id \in DueEntries(rows) /\ todo[i].attempts = rows[todo[i].id].attempts
      BY <1>2 DEF Reads
    <3>2. todo[i] \in [id : Entries, attempts : Nat]
      BY <2>1, LenProperties
    <3>3. RowIsTrue(todo[i].id, rows[todo[i].id], reached, tries)
          /\ rows[todo[i].id].status = "pending"
      BY <1>1, <3>1 DEF DueEntries
    <3> HIDE DEF todo
    <3> QED
      BY <3>1, <3>2, <3>3 DEF RowIsTrue, JobIsTrue
  <2> HIDE DEF todo
  <2> QED
    BY <2>1, <2>2 DEF PassIsTrue
<1> HIDE DEF todo
<1>4. /\ pass'[p] = [todo |-> todo, hit |-> FALSE]
      /\ \A q \in Passes : q # p => pass'[q] = pass[q]
      /\ pass' = [q \in Passes |-> pass'[q]]
  <2>1. pass' = [pass EXCEPT ![p].todo = todo] /\ pass[p] = [todo |-> <<>>, hit |-> FALSE]
        /\ pass = [q \in Passes |-> pass[q]]
    BY DEF StartsPass, Idle, BunInv, todo
  <2>2. pass'[p] = [pass[p] EXCEPT !.todo = todo]
    BY <2>1
  <2>3. \A q \in Passes : q # p => pass'[q] = pass[q]
    BY <2>1
  <2>4. pass' = [q \in Passes |-> pass'[q]]
    <3>1. pass' = [q \in Passes |-> IF q = p THEN [pass[p] EXCEPT !.todo = todo]
                                             ELSE pass[q]]
      BY <2>1
    <3> QED
      BY <3>1
  <2>5. pass'[p] = [todo |-> todo, hit |-> FALSE]
    <3>1. ASSUME NEW T, NEW run \in [todo : T, hit : BOOLEAN], NEW new \in T
          PROVE  [run EXCEPT !.todo = new] = [todo |-> new, hit |-> run.hit]
      OBVIOUS
    <3>2. /\ pass[p] \in [todo : Seq([id : Entries, attempts : Nat]), hit : BOOLEAN]
          /\ todo \in Seq([id : Entries, attempts : Nat])
      BY <1>3 DEF BunInv, PassIsTrue
    <3>3. pass[p].hit = FALSE
      BY <2>1
    <3> QED
      BY <2>2, <3>1, <3>2, <3>3
  <2> QED
    BY <2>3, <2>4, <2>5
<1>5. /\ TableIsTrue(entry', reached, tries)
      /\ entry' = [d \in Entries |-> entry'[d]]
      /\ \A d \in Entries :
           \/ entry'[d] = rows[d]
           \/ /\ rows[d].status \in {"delivered", "failed"}
              /\ entry'[d].status = "deleted"
  <2>1. CASE entry' = rows
    BY <2>1
  <2>2. CASE \E old \in SUBSET Prunable(rows) : entry' = Pruned(rows, old)
    BY <2>2, PruningIsTrue
  <2> QED
    BY <2>1, <2>2 DEF StartsPass
<1> QED
  <2>1. reached' = reached /\ tries' = tries
    OBVIOUS
  <2>2. /\ TableIsTrue(entry', reached', tries')
        /\ \A q \in Passes : PassIsTrue(pass'[q], reached', tries')
    <3>1. \A q \in Passes : PassIsTrue(pass'[q], reached, tries)
      BY <1>3, <1>4 DEF BunInv
    <3> QED
      BY <1>5, <2>1, <3>1
  <2>3. BunInv'
    BY <1>4, <1>5, <2>1, <2>2 DEF BunInv
  <2> QED
    BY <1>5, <2>3

(* The outcome of an attempt leaves a true row, and settles only what lives. *)
LEMMA AfterIsTrue ==
  ASSUME NEW d \in Entries, NEW row, NEW got, NEW count, NEW hop,
         NEW ok \in BOOLEAN, NEW due \in BOOLEAN,
         RowIsTrue(d, row, got, count), JobIsTrue(hop, count), hop.id = d,
         count[d] \in 0..ForwardMaxAttempts, ok => d \in got,
         NEW count2, count2[d] = IF count[d] < ForwardMaxAttempts THEN count[d] + 1
                                                               ELSE count[d]
  PROVE  /\ RowIsTrue(d, After(row, hop.attempts + 1, ok, due), got, count2)
         /\ \/ After(row, hop.attempts + 1, ok, due).status = row.status
            \/ /\ row.status # "deleted"
               /\ After(row, hop.attempts + 1, ok, due).status \in {"delivered", "failed"}
<1> DEFINE n == hop.attempts + 1
           new == After(row, n, ok, due)
<1>1. /\ n \in 0..ForwardMaxAttempts /\ n <= count2[d] /\ count[d] <= count2[d]
      /\ count2[d] \in 0..ForwardMaxAttempts /\ ForwardMaxAttempts \in Nat
      /\ count[d] = ForwardMaxAttempts => count2[d] = ForwardMaxAttempts
      /\ n >= ForwardMaxAttempts => count2[d] = ForwardMaxAttempts /\ n = ForwardMaxAttempts
      /\ count[d] \in Nat
  BY BunAssumption DEF JobIsTrue
<1>2. /\ row \in Row /\ row.attempts <= count2[d]
      /\ row.status = "pending" => row.attempts < ForwardMaxAttempts
      /\ row.status = "delivered" => d \in got
      /\ row.status = "failed" => count2[d] = ForwardMaxAttempts
      /\ row.status = "deleted" => d \in got \/ count2[d] = ForwardMaxAttempts
  BY <1>1 DEF RowIsTrue, Row
<1> HIDE DEF n
<1>3. CASE row.status = "deleted"
  <2>1. new = row
    BY <1>3 DEF After
  <2> QED
    BY <1>2, <1>3, <2>1 DEF RowIsTrue, n
<1>4. CASE row.status # "deleted" /\ ok
  <2>1. new = [row EXCEPT !.status = "delivered", !.attempts = n]
    BY <1>4 DEF After
  <2>2. new \in Row /\ new.status = "delivered" /\ new.attempts = n
    BY <1>1, <1>2, <2>1 DEF Row
  <2> QED
    BY <1>1, <1>2, <1>4, <2>2 DEF RowIsTrue, n
<1>5. CASE row.status # "deleted" /\ ~ok /\ n >= ForwardMaxAttempts
  <2>1. new = [row EXCEPT !.status = "failed", !.attempts = n]
    BY <1>5 DEF After
  <2>2. new \in Row /\ new.status = "failed" /\ new.attempts = n
    BY <1>1, <1>2, <2>1 DEF Row
  <2> QED
    BY <1>1, <1>2, <1>5, <2>2 DEF RowIsTrue, n
<1>6. CASE row.status # "deleted" /\ ~ok /\ ~(n >= ForwardMaxAttempts)
  <2>1. new = [row EXCEPT !.attempts = n, !.due = due]
    BY <1>6 DEF After
  <2>2. new \in Row /\ new.status = row.status /\ new.attempts = n
    BY <1>1, <1>2, <2>1 DEF Row
  <2> QED
    BY <1>1, <1>2, <1>6, <2>2 DEF RowIsTrue, n
<1> QED
  BY <1>3, <1>4, <1>5, <1>6

(* More attempts made, and more batches with the subscriber, harm no truth.  *)
LEMMA JobStaysTrue ==
  ASSUME NEW hop, NEW count \in [Entries -> Nat], NEW count2 \in [Entries -> Nat],
         JobIsTrue(hop, count), \A d \in Entries : count[d] <= count2[d]
  PROVE  JobIsTrue(hop, count2)
BY DEF JobIsTrue

LEMMA PassStaysTrue ==
  ASSUME NEW run, NEW count \in [Entries -> Nat], NEW count2 \in [Entries -> Nat],
         NEW got, NEW got2, got \subseteq got2,
         PassIsTrue(run, got, count), \A d \in Entries : count[d] <= count2[d]
  PROVE  PassIsTrue(run, got2, count2)
<1>1. \A i \in 1..Len(run.todo) : JobIsTrue(run.todo[i], count2)
  BY JobStaysTrue DEF PassIsTrue
<1> QED
  BY <1>1 DEF PassIsTrue

LEMMA AttemptKeeps ==
  ASSUME NEW p \in Passes, AttemptEnds(p), BunInv
  PROVE  /\ BunInv' /\ reached' = reached
         /\ \A d \in Entries : tries[d] <= tries'[d]
         /\ \A d \in Entries : entry'[d].status # entry[d].status =>
              /\ entry[d].status # "deleted"
              /\ entry'[d].status \in {"delivered", "failed", "deleted"}
<1> DEFINE run == pass[p]
           hop == Head(run.todo)
           count2 == [tries EXCEPT ![hop.id] =
                       IF @ < ForwardMaxAttempts THEN @ + 1 ELSE @]
<1>1. /\ run.todo \in Seq([id : Entries, attempts : Nat]) /\ run.todo # <<>>
      /\ run.hit \in BOOLEAN
      /\ \A i \in 1..Len(run.todo) : JobIsTrue(run.todo[i], tries)
      /\ run.hit => run.todo[1].id \in reached
  BY DEF AttemptEnds, BunInv, PassIsTrue
<1>2. Len(run.todo) \in Nat \ {0} /\ hop = run.todo[1]
  BY <1>1, EmptySeq
<1>3. /\ JobIsTrue(hop, tries) /\ hop.id \in Entries
      /\ run.hit => hop.id \in reached
  BY <1>1, <1>2 DEF JobIsTrue
<1>4. PICK ok \in (IF run.hit THEN BOOLEAN ELSE {FALSE}), due \in BOOLEAN :
        LET rows == [entry EXCEPT ![hop.id] = After(@, hop.attempts + 1, ok, due)]
        IN
        /\ pass' = [pass EXCEPT ![p] = [todo |-> Tail(@.todo), hit |-> FALSE]]
        /\ tries' = count2
        /\ IF Len(pass[p].todo) > 1 THEN entry' = rows
           ELSE \E old \in SUBSET Prunable(rows) : entry' = Pruned(rows, old)
  BY DEF AttemptEnds
<1> DEFINE rows == [entry EXCEPT ![hop.id] = After(@, hop.attempts + 1, ok, due)]
<1>5. ok \in BOOLEAN /\ (ok => hop.id \in reached)
  BY <1>1, <1>3, <1>4
<1> HIDE DEF run, hop
<1>6. /\ tries \in [Entries -> 0..ForwardMaxAttempts] /\ tries \in [Entries -> Nat]
      /\ entry = [d \in Entries |-> entry[d]] /\ pass = [q \in Passes |-> pass[q]]
      /\ reached' = reached /\ ForwardMaxAttempts \in Nat
  <2>1. tries \in [Entries -> 0..ForwardMaxAttempts]
    BY DEF BunInv
  <2> QED
    BY <2>1, BunAssumption DEF BunInv, AttemptEnds
<1>7. /\ count2 \in [Entries -> 0..ForwardMaxAttempts] /\ count2 \in [Entries -> Nat]
      /\ \A d \in Entries : tries[d] <= count2[d]
      /\ count2[hop.id] = IF tries[hop.id] < ForwardMaxAttempts THEN tries[hop.id] + 1
                                                               ELSE tries[hop.id]
      /\ \A d \in Entries : d # hop.id => count2[d] = tries[d]
  BY <1>3, <1>6
<1> HIDE DEF count2
<1>8. ASSUME NEW d \in Entries
      PROVE  /\ RowIsTrue(d, rows[d], reached, count2)
             /\ \/ rows[d].status = entry[d].status
                \/ /\ entry[d].status # "deleted"
                   /\ rows[d].status \in {"delivered", "failed"}
  <2>1. RowIsTrue(d, entry[d], reached, tries)
    BY DEF BunInv, TableIsTrue
  <2>2. CASE d = hop.id
    <3>1. rows[d] = After(entry[d], hop.attempts + 1, ok, due)
      BY <1>6, <2>2
    <3>2. tries[d] \in 0..ForwardMaxAttempts
      BY <1>6
    <3> HIDE DEF rows
    <3> QED
      BY <1>3, <1>4, <1>5, <1>7, <2>1, <2>2, <3>1, <3>2, AfterIsTrue
  <2>3. CASE d # hop.id
    <3>1. rows[d] = entry[d] /\ count2[d] = tries[d]
      BY <1>6, <1>7, <2>3
    <3> QED
      BY <2>1, <3>1 DEF RowIsTrue
  <2> QED
    BY <2>2, <2>3
<1>9. TableIsTrue(rows, reached, count2) /\ rows = [d \in Entries |-> rows[d]]
  <2>1. TableIsTrue(rows, reached, count2)
    BY <1>8 DEF TableIsTrue
  <2>2. rows = [d \in Entries |-> rows[d]]
    BY <1>6
  <2> QED
    BY <2>1, <2>2
<1> HIDE DEF rows
<1>10. /\ TableIsTrue(entry', reached, count2)
       /\ entry' = [d \in Entries |-> entry'[d]]
       /\ \A d \in Entries :
            \/ entry'[d] = rows[d]
            \/ /\ rows[d].status \in {"delivered", "failed"}
               /\ entry'[d].status = "deleted"
  <2>1. CASE entry' = rows
    BY <1>9, <2>1
  <2>2. CASE \E old \in SUBSET Prunable(rows) : entry' = Pruned(rows, old)
    BY <1>9, <2>2, PruningIsTrue
  <2> QED
    BY <1>4, <2>1, <2>2 DEF rows
<1>11. tries' = count2
  BY <1>4
<1>12. /\ pass'[p] = [todo |-> Tail(run.todo), hit |-> FALSE]
       /\ \A q \in Passes : q # p => pass'[q] = pass[q]
       /\ pass' = [q \in Passes |-> pass'[q]]
  <2>1. pass' = [q \in Passes |-> IF q = p THEN [todo |-> Tail(run.todo), hit |-> FALSE]
                                           ELSE pass[q]]
    BY <1>4, <1>6 DEF run
  <2> QED
    BY <2>1
<1>13. PassIsTrue(pass'[p], reached, count2)
  <2>1. /\ Tail(run.todo) \in Seq([id : Entries, attempts : Nat])
        /\ Len(Tail(run.todo)) = Len(run.todo) - 1
        /\ \A i \in 1..Len(Tail(run.todo)) : Tail(run.todo)[i] = run.todo[i + 1]
    BY <1>1, HeadTailProperties
  <2>2. \A i \in 1..Len(Tail(run.todo)) : JobIsTrue(Tail(run.todo)[i], tries)
    BY <1>1, <1>2, <2>1
  <2>3. PassIsTrue([todo |-> Tail(run.todo), hit |-> FALSE], reached, tries)
    BY <2>1, <2>2 DEF PassIsTrue
  <2> QED
    BY <1>6, <1>7, <1>12, <2>3, PassStaysTrue
<1>14. ASSUME NEW q \in Passes PROVE PassIsTrue(pass'[q], reached, count2)
  <2>1. PassIsTrue(pass[q], reached, tries)
    BY DEF BunInv
  <2>2. CASE q # p
    BY <1>6, <1>7, <1>12, <2>1, <2>2, PassStaysTrue
  <2> QED
    BY <1>13, <2>2
<1>15. BunInv'
  <2>1. reached' \subseteq Entries
    BY <1>6 DEF BunInv
  <2> QED
    BY <1>6, <1>7, <1>10, <1>11, <1>12, <1>14, <2>1 DEF BunInv
<1>16. ASSUME NEW d \in Entries, entry'[d].status # entry[d].status
       PROVE  /\ entry[d].status # "deleted"
              /\ entry'[d].status \in {"delivered", "failed", "deleted"}
  BY <1>8, <1>10, <1>16
<1> QED
  BY <1>6, <1>7, <1>11, <1>15, <1>16

(* A pass that starts changes no status but of the rows it may prune.        *)
LEMMA StartKeeps ==
  ASSUME NEW p \in Passes, NEW rows, StartsPass(p, rows), BunInv,
         TableIsTrue(rows, reached, tries), rows = [d \in Entries |-> rows[d]],
         UNCHANGED <<reached, tries>>,
         \A d \in Entries : rows[d].status # entry[d].status =>
                              entry[d].status = "none" /\ rows[d].status = "pending"
  PROVE  /\ BunInv'
         /\ \A d \in Entries : entry'[d].status # entry[d].status =>
              \/ entry[d].status = "none" /\ entry'[d].status = "pending"
              \/ entry[d].status # "deleted" /\ entry'[d].status = "deleted"
<1>1. /\ BunInv'
      /\ \A d \in Entries :
           \/ entry'[d] = rows[d]
           \/ /\ rows[d].status \in {"delivered", "failed"}
              /\ entry'[d].status = "deleted"
  BY StartIsTrue
<1> QED
  BY <1>1

(* What a step may do to the rows and to what was made of them.              *)
RowsMove ==
  /\ reached \subseteq reached'
  /\ entry' # entry => reached' = reached
  /\ \A d \in Entries : tries[d] <= tries'[d]
  /\ \A d \in Entries : entry'[d].status # entry[d].status =>
       \/ entry[d].status = "none" /\ entry'[d].status = "pending"
       \/ /\ entry[d].status # "deleted"
          /\ entry'[d].status \in {"delivered", "failed", "deleted"}

LEMMA BunStep ==
  ASSUME BunInv, [BunNext]_bunVars
  PROVE  BunInv' /\ RowsMove
<1>1. /\ tries \in [Entries -> 0..ForwardMaxAttempts] /\ tries \in [Entries -> Nat]
      /\ entry = [d \in Entries |-> entry[d]] /\ pass = [q \in Passes |-> pass[q]]
      /\ reached \subseteq Entries /\ ForwardMaxAttempts \in Nat \ {0}
      /\ TableIsTrue(entry, reached, tries)
      /\ \A q \in Passes : PassIsTrue(pass[q], reached, tries)
  <2>1. tries \in [Entries -> 0..ForwardMaxAttempts]
    BY DEF BunInv
  <2> QED
    BY <2>1, BunAssumption DEF BunInv
<1>2. \A d \in Entries : RowIsTrue(d, entry[d], reached, tries)
  BY <1>1 DEF TableIsTrue
<1>3. \A d \in Entries : tries[d] <= tries[d]
  BY <1>1
<1>4. ASSUME NEW d \in Entries, NEW p \in Passes, WebhookStored(d, p)
      PROVE  BunInv' /\ RowsMove
  <2> DEFINE new == [status |-> "pending", attempts |-> 0, due |-> TRUE]
             rows == [entry EXCEPT ![d] = new]
  <2>1. StartsPass(p, rows) /\ entry[d].status = "none"
        /\ reached' = reached /\ tries' = tries
    BY <1>4 DEF WebhookStored
  <2>2. RowIsTrue(d, new, reached, tries)
    BY <1>1 DEF RowIsTrue, Row
  <2>3. \A e \in Entries : rows[e] = IF e = d THEN new ELSE entry[e]
    BY <1>1
  <2>4. rows = [e \in Entries |-> rows[e]]
    BY <1>1
  <2>5. new.status = "pending"
    OBVIOUS
  <2> HIDE DEF rows, new
  <2>6. TableIsTrue(rows, reached, tries)
    BY <1>2, <2>2, <2>3 DEF TableIsTrue
  <2>7. \A e \in Entries : rows[e].status # entry[e].status =>
                             entry[e].status = "none" /\ rows[e].status = "pending"
    BY <2>1, <2>3, <2>5
  <2>8. /\ BunInv'
        /\ \A e \in Entries : entry'[e].status # entry[e].status =>
             \/ entry[e].status = "none" /\ entry'[e].status = "pending"
             \/ entry[e].status # "deleted" /\ entry'[e].status = "deleted"
    BY <2>1, <2>4, <2>6, <2>7, StartKeeps
  <2> QED
    BY <1>3, <2>1, <2>8 DEF RowsMove
<1>5. ASSUME NEW p \in Passes, LoopFires(p)
      PROVE  BunInv' /\ RowsMove
  <2>1. StartsPass(p, entry) /\ reached' = reached /\ tries' = tries
    BY <1>5 DEF LoopFires
  <2>2. /\ BunInv'
        /\ \A e \in Entries : entry'[e].status # entry[e].status =>
             \/ entry[e].status = "none" /\ entry'[e].status = "pending"
             \/ entry[e].status # "deleted" /\ entry'[e].status = "deleted"
    BY <1>1, <2>1, StartKeeps
  <2> QED
    BY <1>3, <2>1, <2>2 DEF RowsMove
<1>6. ASSUME NEW p \in Passes, SubscriberGets(p)
      PROVE  BunInv' /\ RowsMove
  <2> DEFINE id == Head(pass[p].todo).id
  <2>1. /\ pass[p].todo # <<>> /\ pass' = [pass EXCEPT ![p].hit = TRUE]
        /\ reached' = reached \cup {id} /\ entry' = entry /\ tries' = tries
    BY <1>6 DEF SubscriberGets
  <2>2. PassIsTrue(pass[p], reached, tries)
    BY <1>1
  <2>3. /\ pass[p].todo \in Seq([id : Entries, attempts : Nat])
        /\ \A i \in 1..Len(pass[p].todo) : JobIsTrue(pass[p].todo[i], tries)
    BY <2>2 DEF PassIsTrue
  <2>4. Len(pass[p].todo) \in Nat \ {0} /\ Head(pass[p].todo) = pass[p].todo[1]
    BY <2>1, <2>3, EmptySeq
  <2>5. id \in Entries /\ id = pass[p].todo[1].id
    BY <2>3, <2>4 DEF JobIsTrue
  <2> HIDE DEF id
  <2>6. pass' = [q \in Passes |-> IF q = p THEN [pass[p] EXCEPT !.hit = TRUE]
                                           ELSE pass[q]]
    BY <1>1, <2>1
  <2>7. PassIsTrue(pass'[p], reached', tries)
    <3>1. pass'[p] = [pass[p] EXCEPT !.hit = TRUE]
      BY <2>6
    <3>2. pass[p] \in [todo : Seq([id : Entries, attempts : Nat]), hit : BOOLEAN]
      BY <2>2 DEF PassIsTrue
    <3>3. pass'[p].todo = pass[p].todo /\ pass'[p].hit = TRUE
          /\ pass'[p] \in [todo : Seq([id : Entries, attempts : Nat]), hit : BOOLEAN]
      BY <3>1, <3>2
    <3>4. id \in reached'
      BY <2>1
    <3> QED
      BY <2>1, <2>3, <2>5, <3>3, <3>4 DEF PassIsTrue
  <2>8. \A q \in Passes : PassIsTrue(pass'[q], reached', tries)
    <3> SUFFICES ASSUME NEW q \in Passes PROVE PassIsTrue(pass'[q], reached', tries)
      OBVIOUS
    <3>1. CASE q # p
      <4>1. pass'[q] = pass[q] /\ reached \subseteq reached'
        BY <2>1, <2>6, <3>1
      <4> QED
        BY <1>1, <1>3, <4>1, PassStaysTrue
    <3> QED
      BY <2>7, <3>1
  <2>9. TableIsTrue(entry, reached', tries)
    <3>1. reached \subseteq reached'
      BY <2>1
    <3>2. ASSUME NEW e \in Entries PROVE RowIsTrue(e, entry[e], reached', tries)
      BY <1>2, <3>1 DEF RowIsTrue
    <3> QED
      BY <3>2 DEF TableIsTrue
  <2>10. pass' = [q \in Passes |-> pass'[q]] /\ reached' \subseteq Entries
    BY <1>1, <2>1, <2>5, <2>6
  <2>11. BunInv'
    BY <1>1, <2>1, <2>8, <2>9, <2>10 DEF BunInv
  <2> QED
    BY <1>3, <2>1, <2>11 DEF RowsMove
<1>7. ASSUME NEW p \in Passes, AttemptEnds(p)
      PROVE  BunInv' /\ RowsMove
  <2>1. /\ BunInv' /\ reached' = reached
        /\ \A d \in Entries : tries[d] <= tries'[d]
        /\ \A d \in Entries : entry'[d].status # entry[d].status =>
             /\ entry[d].status # "deleted"
             /\ entry'[d].status \in {"delivered", "failed", "deleted"}
    BY <1>7, AttemptKeeps
  <2> QED
    BY <2>1 DEF RowsMove
<1>8. ASSUME NEW d \in Entries, BackoffOver(d)
      PROVE  BunInv' /\ RowsMove
  <2>1. /\ entry' = [entry EXCEPT ![d].due = TRUE] /\ pass' = pass
        /\ reached' = reached /\ tries' = tries
    BY <1>8 DEF BackoffOver
  <2>2. entry' = [e \in Entries |-> IF e = d THEN [entry[d] EXCEPT !.due = TRUE]
                                             ELSE entry[e]]
    BY <1>1, <2>1
  <2>3. ASSUME NEW e \in Entries
        PROVE  RowIsTrue(e, entry'[e], reached, tries) /\ entry'[e].status = entry[e].status
    <3>1. RowIsTrue(e, entry[e], reached, tries) /\ entry[e] \in Row
      BY <1>2 DEF RowIsTrue
    <3>2. CASE e = d
      <4>1. entry'[e] = [entry[e] EXCEPT !.due = TRUE]
        BY <2>2, <3>2
      <4>2. entry'[e] \in Row /\ entry'[e].status = entry[e].status
            /\ entry'[e].attempts = entry[e].attempts
        BY <3>1, <4>1 DEF Row
      <4> QED
        BY <3>1, <4>2 DEF RowIsTrue
    <3>3. CASE e # d
      BY <2>2, <3>1, <3>3
    <3> QED
      BY <3>2, <3>3
  <2>4. TableIsTrue(entry', reached, tries) /\ entry' = [e \in Entries |-> entry'[e]]
    BY <2>2, <2>3 DEF TableIsTrue
  <2>5. BunInv'
    BY <1>1, <2>1, <2>4 DEF BunInv
  <2> QED
    BY <1>3, <2>1, <2>3, <2>5 DEF RowsMove
<1>9. CASE BunRestarts
  <2>1. /\ pass' = [q \in Passes |-> Idle]
        /\ entry' = entry /\ reached' = reached /\ tries' = tries
    BY <1>9 DEF BunRestarts
  <2>2. \A q \in Passes : PassIsTrue(pass'[q], reached, tries)
    BY <2>1, IdleIsTrue
  <2>3. pass' = [q \in Passes |-> pass'[q]]
    BY <2>1
  <2>4. BunInv'
    BY <1>1, <2>1, <2>2, <2>3 DEF BunInv
  <2> QED
    BY <1>3, <2>1, <2>4 DEF RowsMove
<1>10. CASE UNCHANGED bunVars
  <2>1. entry' = entry /\ reached' = reached /\ tries' = tries /\ pass' = pass
    BY <1>10 DEF bunVars
  <2>2. BunInv'
    BY <1>1, <2>1 DEF BunInv
  <2> QED
    BY <1>3, <2>1, <2>2 DEF RowsMove
<1> QED
  BY <1>4, <1>5, <1>6, <1>7, <1>8, <1>9, <1>10 DEF BunNext

LEMMA BunInvariant == BunSpec => []BunInv
BY BunStarts, BunStep, PTL DEF BunSpec

(* The types of the queue are kept.                                          *)
THEOREM BunTypeCorrect == BunSpec => []BunTypeOK
BY BunInvariant, BunInvTypes, PTL

(* What the table says of a batch keeps the promise of a forwarding queue:   *)
(* delivered only with the subscriber, given up or deleted only after every  *)
(* attempt. The self-hosted queue implements the safety part of the promise. *)
THEOREM QueuePromiseIsKept == BunSpec => QueueIsHonest
<1> DEFINE said == [d \in Entries |-> IF entry[d].status = "pending" THEN "open"
                                                                   ELSE entry[d].status]
<1>1. BunInit => BunPromise!Init
  <2> SUFFICES ASSUME BunInit PROVE BunPromise!Init
    OBVIOUS
  <2>1. said = [d \in Entries |-> "none"]
    BY DEF BunInit
  <2> QED
    BY <2>1 DEF BunInit, BunPromise!Init
<1>2. ASSUME BunInv, BunInv', RowsMove
      PROVE  BunPromise!Next
  <2>1. ASSUME NEW d \in Entries
        PROVE  /\ tries[d] <= tries'[d]
               /\ said'[d] # said[d] => BunPromise!MayBe(d, said'[d])
    <3>1. RowIsTrue(d, entry'[d], reached', tries') /\ entry'[d] \in Row
      BY <1>2 DEF BunInv, TableIsTrue, RowIsTrue
    <3>2. RowIsTrue(d, entry[d], reached, tries) /\ entry[d] \in Row
      BY <1>2 DEF BunInv, TableIsTrue, RowIsTrue
    <3>3. /\ said[d] = IF entry[d].status = "pending" THEN "open" ELSE entry[d].status
          /\ said'[d] = IF entry'[d].status = "pending" THEN "open" ELSE entry'[d].status
      OBVIOUS
    <3>4. tries[d] <= tries'[d]
      BY <1>2 DEF RowsMove
    <3> HIDE DEF said
    <3>5. ASSUME said'[d] # said[d] PROVE BunPromise!MayBe(d, said'[d])
      <4>1. /\ reached' = reached
            /\ \/ entry[d].status = "none" /\ entry'[d].status = "pending"
               \/ /\ entry[d].status # "deleted"
                  /\ entry'[d].status \in {"delivered", "failed", "deleted"}
        BY <1>2, <3>3, <3>5 DEF RowsMove
      <4>2. tries'[d] = ForwardMaxAttempts => tries'[d] >= ForwardMaxAttempts
        BY BunAssumption
      <4>3. CASE entry[d].status = "none" /\ entry'[d].status = "pending"
        <5>1. said[d] = "none" /\ said'[d] = "open"
          BY <3>3, <4>3
        <5> QED
          BY <5>1 DEF BunPromise!MayBe, BunPromise!Ended, said
      <4>4. CASE /\ entry[d].status # "deleted"
                 /\ entry'[d].status \in {"delivered", "failed", "deleted"}
        <5>1. said[d] # "deleted" /\ said'[d] = entry'[d].status
          BY <3>3, <4>4
        <5>2. /\ said'[d] = "delivered" => d \in reached
              /\ said'[d] = "failed" => tries'[d] >= ForwardMaxAttempts
              /\ said'[d] = "deleted" => d \in reached \/ tries'[d] >= ForwardMaxAttempts
          BY <3>1, <4>1, <4>2, <5>1 DEF RowIsTrue
        <5> QED
          BY <4>4, <5>1, <5>2 DEF BunPromise!MayBe, BunPromise!Ended, said
      <4> QED
        BY <4>1, <4>3, <4>4
    <3> QED
      BY <3>4, <3>5
  <2>2. reached \subseteq reached' /\ {} \subseteq {}' /\ 0 <= 0'
    BY <1>2 DEF RowsMove
  <2> QED
    BY <2>1, <2>2 DEF BunPromise!Next
<1>3. BunInv /\ [BunNext]_bunVars => BunInv' /\ RowsMove
  BY BunStep
<1> QED
  BY <1>1, <1>2, <1>3, BunInvariant, PTL
     DEF BunSpec, QueueIsHonest, BunPromise!Safe

-----------------------------------------------------------------------------
(* The four components of MCStore side by side.  They share no state, so its *)
(* behaviours, in which one of them steps and the others stutter, are        *)
(* behaviours of each: a run of MCStore checks what the theorems prove.      *)

LEMMA OnePartSteps ==
  ASSUME [StoreNext]_storeRunVars
  PROVE  /\ [ConversationsNext]_conversationVars
         /\ [MediaNext]_mediaVars
         /\ [SendKeysNext]_sendKeyVars
         /\ [BunNext]_bunVars
<1>1. CASE StoreNext
  BY <1>1 DEF StoreNext
<1>2. CASE UNCHANGED storeRunVars
  BY <1>2 DEF storeRunVars
<1> QED
  BY <1>1, <1>2

(* The store of a WABA, its media, the send keys and the self-hosted queue   *)
(* in one run are what each of them is by itself.                            *)
LEMMA StoreIsItsParts ==
  StoreSpec => ConversationsSpec /\ MediaSpec /\ SendKeysSpec /\ BunSpec
<1>1. StoreInit => ConversationsInit /\ MediaInit /\ SendKeysInit /\ BunInit
  BY DEF StoreInit
<1> QED
  BY <1>1, OnePartSteps, PTL
     DEF StoreSpec, ConversationsSpec, MediaSpec, SendKeysSpec, BunSpec

(* All that the store keeps in its tables has its type: rows, pairs, sync    *)
(* states, payloads, media, keys and queued batches.                         *)
THEOREM StoreTypeCorrect == StoreSpec => []StoreTypeOK
BY StoreIsItsParts, ConversationsTypeCorrect, MediaTypeCorrect,
   SendKeysTypeCorrect, BunTypeCorrect, PTL DEF StoreTypeOK
=============================================================================
