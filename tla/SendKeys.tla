------------------------------ MODULE SendKeys ------------------------------
(* Sends with an idempotency key: requests of the REST route and of the      *)
(* console, each a claim of the key in the gateway object, a call of Meta,   *)
(* a log and a settlement. A key lives for a day from its first use, far     *)
(* longer than a request, so a request never outlives the key it claimed.    *)
EXTENDS Naturals

CONSTANTS
  Requests,     \* requests at a time
  SendKeyIds,   \* a key of an account
  Bodies,       \* the hashes of phone and body
  MaxLives,     \* bound: times a key is used anew
  MaxRequests,  \* bound: requests
  MaxKeyFaults  \* bound: requests that die or lose a call

ASSUME SendKeysAssumption ==
  MaxLives \in Nat /\ MaxRequests \in Nat /\ MaxKeyFaults \in Nat

VARIABLES
  keyRow,    \* send_keys
  life,      \* how often a key was used anew
  request,   \* the requests
  posted,    \* how often Meta took the message of a life of a key
  answers,   \* what clients were told of it
  made, keyFaults  \* what is used of the bounds

sendKeyVars == <<keyRow, life, request, posted, answers, made, keyFaults>>

NoKeyRow == [body |-> "none", result |-> "none"]
NoRequest == [pc |-> "idle", key |-> "none", outcome |-> "none"]
Lives == SendKeyIds \X (1..MaxLives)

SendKeysTypeOK ==
  /\ keyRow \in [SendKeyIds ->
       [body : Bodies, result : {"pending", "sent", "failed"}] \cup {NoKeyRow}]
  /\ life \in [SendKeyIds -> 0..MaxLives]
  /\ request \in [Requests ->
       [pc : {"post", "answer", "log", "settle"}, key : SendKeyIds,
        outcome : {"none", "sent", "failed", "unknown"}] \cup {NoRequest}]
  /\ posted \in [Lives -> Nat]
  /\ answers \in [Lives -> SUBSET {"sent", "failed", "unknown", "pending"}]

SendKeysInit ==
  /\ keyRow = [k \in SendKeyIds |-> NoKeyRow]
  /\ life = [k \in SendKeyIds |-> 0]
  /\ request = [r \in Requests |-> NoRequest]
  /\ posted = [kl \in Lives |-> 0] /\ answers = [kl \in Lives |-> {}]
  /\ made = 0 /\ keyFaults = 0

-----------------------------------------------------------------------------
Told(k, answer) == answers' = [answers EXCEPT ![<<k, life[k]>>] = @ \cup {answer}]
KeyFault == keyFaults < MaxKeyFaults /\ keyFaults' = keyFaults + 1

(* Slip: a key that is not settled is sent again. *)
ClaimUnsettledKey(r, k, body) ==
  /\ request[r] = NoRequest /\ made < MaxRequests
  /\ made' = made + 1
  /\ keyRow[k].result \in {"none", "pending"}
  /\ keyRow' = [keyRow EXCEPT ![k] = [body |-> body, result |-> "pending"]]
  /\ life' = [life EXCEPT ![k] = IF @ = 0 THEN 1 ELSE @]
  /\ request' = [request EXCEPT ![r] =
       [pc |-> "post", key |-> k, outcome |-> "none"]]
  /\ UNCHANGED <<posted, answers, keyFaults>>

(* claimSendKey. A key that is new goes on to the send; any other is         *)
(* answered from its row, unless it came with another body.                  *)
ClaimSendKey(r, k, body) ==
  /\ request[r] = NoRequest /\ made < MaxRequests
  /\ made' = made + 1
  /\ \/ /\ keyRow[k] = NoKeyRow /\ life[k] < MaxLives
        /\ keyRow' = [keyRow EXCEPT ![k] = [body |-> body, result |-> "pending"]]
        /\ life' = [life EXCEPT ![k] = @ + 1]
        /\ request' = [request EXCEPT ![r] =
             [pc |-> "post", key |-> k, outcome |-> "none"]]
        /\ UNCHANGED answers
     \/ /\ keyRow[k] # NoKeyRow
        /\ IF keyRow[k].body = body THEN Told(k, keyRow[k].result)
                                    ELSE UNCHANGED answers
        /\ UNCHANGED <<keyRow, life, request>>
  /\ UNCHANGED <<posted, keyFaults>>

(* Meta takes the message, or refuses it, or the call does not get there.    *)
MetaPosts(r) ==
  /\ request[r].pc = "post"
  /\ request' = [request EXCEPT ![r].pc = "answer"]
  /\ posted' = [posted EXCEPT ![<<request[r].key, life[request[r].key]>>] = @ + 1]
  /\ UNCHANGED <<keyRow, life, answers, made, keyFaults>>

(* Slip: a lost answer is told as a failure. *)
OutcomesOfLostAnswer(pc) == IF pc = "answer" THEN {"sent", "failed"}
                                             ELSE {"failed"}

(* sendOutcomeUnknown tells a refusal from an answer that says nothing.      *)
Outcomes(pc) == IF pc = "answer" THEN {"sent", "unknown"}
                                 ELSE {"failed", "unknown"}

MetaAnswers(r) ==
  /\ request[r].pc \in {"post", "answer"}
  /\ \E outcome \in Outcomes(request[r].pc) :
       request' = [request EXCEPT ![r].pc = "log", ![r].outcome = outcome]
  /\ UNCHANGED <<keyRow, life, posted, answers, made, keyFaults>>

(* logOutbound comes first. An unknown outcome is told and never stored: the *)
(* key stays pending.                                                        *)
LogsSend(r) ==
  /\ request[r].pc = "log"
  /\ IF request[r].outcome = "unknown"
     THEN /\ Told(request[r].key, "unknown")
          /\ request' = [request EXCEPT ![r] = NoRequest]
     ELSE /\ request' = [request EXCEPT ![r].pc = "settle"]
          /\ UNCHANGED answers
  /\ UNCHANGED <<keyRow, life, posted, made, keyFaults>>

(* settleSendKey, "stored before it is returned".                            *)
Settled(r) ==
  [keyRow EXCEPT ![request[r].key] =
     IF @ = NoKeyRow THEN @ ELSE [@ EXCEPT !.result = request[r].outcome]]

SettleSendKey(r) ==
  /\ request[r].pc = "settle"
  /\ keyRow' = Settled(r)
  /\ Told(request[r].key, request[r].outcome)
  /\ request' = [request EXCEPT ![r] = NoRequest]
  /\ UNCHANGED <<life, posted, made, keyFaults>>

(* The worker dies or a call of the object fails: the client learns nothing. *)
(* A settlement may have been stored.                                        *)
RequestDies(r) ==
  /\ request[r] # NoRequest /\ KeyFault
  /\ keyRow' \in {keyRow} \cup (IF request[r].pc = "settle" THEN {Settled(r)}
                                                            ELSE {})
  /\ request' = [request EXCEPT ![r] = NoRequest]
  /\ UNCHANGED <<life, posted, answers, made>>

(* A day after its first use the key is gone: pruneExpired, or the next      *)
(* claim of it.                                                              *)
KeyExpires(k) ==
  /\ keyRow[k] # NoKeyRow
  /\ \A r \in Requests : request[r].key # k
  /\ keyRow' = [keyRow EXCEPT ![k] = NoKeyRow]
  /\ UNCHANGED <<life, request, posted, answers, made, keyFaults>>

SendKeysNext ==
  \/ \E r \in Requests :
       \/ \E k \in SendKeyIds, body \in Bodies : ClaimSendKey(r, k, body)
       \/ MetaPosts(r) \/ MetaAnswers(r) \/ LogsSend(r) \/ SettleSendKey(r)
       \/ RequestDies(r)
  \/ \E k \in SendKeyIds : KeyExpires(k)

SendKeysSpec == SendKeysInit /\ [][SendKeysNext]_sendKeyVars

-----------------------------------------------------------------------------
(* Properties.                                                               *)

(* What the row of a key tells of the message of one of its lives.           *)
KeyStatus(k, n) ==
  IF n > life[k] THEN "none"
  ELSE IF n < life[k] \/ keyRow[k] = NoKeyRow THEN "erased"
  ELSE IF keyRow[k].result = "pending" THEN "open" ELSE keyRow[k].result

KeyPromise == INSTANCE SendPromise WITH
  Messages <- Lives,
  status <- [kl \in Lives |-> KeyStatus(kl[1], kl[2])],
  taken <- posted

(* "Runs send at most once per (account, key)": however requests with one    *)
(* key overlap, repeat, die or answer late, each life of the key keeps the   *)
(* promise that broadcasts and scheduled sends keep for a message.           *)
KeyKeepsPromise == KeyPromise!Spec

(* "A retry with the same key gets this answer back": no two clients of a    *)
(* key are told different outcomes, and what they are told is true.          *)
AnswersAreTrue ==
  \A kl \in Lives :
    /\ "sent" \in answers[kl] => posted[kl] = 1
    /\ "failed" \in answers[kl] => posted[kl] = 0
    /\ "unknown" \in answers[kl] => answers[kl] \cap {"sent", "failed"} = {}
=============================================================================
