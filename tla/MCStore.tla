------------------------------- MODULE MCStore -------------------------------
(* Small instances of the conversation store, the media store, the send keys *)
(* and the self-hosted forwarder. They share no state here, so a behaviour   *)
(* runs one part and the others stay in their initial state: a run of this   *)
(* module checks them all without their product. Conversations comes in two  *)
(* parts: with the raw history, and with sends, statuses and a customer of   *)
(* two phones.                                                               *)
EXTENDS Conversations, MediaStore, SendKeys, BunForwarder

CONSTANTS
  p1, p2, u1,      \* two phones and a BSUID
  i1, i2, h1, o1,  \* two received messages, one of the app, a send
  f1, m1, m2       \* a file and the two messages that carry it

VARIABLE part

storeRunVars == <<conversationVars, mediaVars, sendKeyVars, bunVars, part>>

(* The messages of the app and of the history know the customer by BSUID.    *)
MCPhoneIn == [m \in Msgs |-> IF m = h1 THEN NoKey ELSE IF m = i2 THEN p2 ELSE p1]
MCBsuidIn == [m \in Msgs |-> IF m = o1 THEN NoKey ELSE u1]
MCFileOf == [m \in Messages |-> f1]

MCHistory == [kind |-> "message", msg |-> h1]
MCContact == [kind |-> "contact", phone |-> p1, bsuid |-> u1]
MCOff == [kind |-> "off"]
MCPayloads == << <<MCHistory>>, <<MCContact, MCOff>> >>

StoreInit ==
  /\ ConversationsInit /\ MediaInit /\ SendKeysInit /\ BunInit
  /\ part \in {"history", "sends", "media", "keys", "forward"}

(* What the parts of Conversations leave out.                                *)
WithHistoryOnly == send' = send /\ heard' = heard /\ i2 \notin log'
WithSendsOnly == payload' = payload /\ reprocesses' = 0 /\ h1 \notin log'

StoreNext ==
  /\ part' = part
  /\ \/ /\ part = "history" /\ ConversationsNext /\ WithHistoryOnly
        /\ UNCHANGED <<mediaVars, sendKeyVars, bunVars>>
     \/ /\ part = "sends" /\ ConversationsNext /\ WithSendsOnly
        /\ UNCHANGED <<mediaVars, sendKeyVars, bunVars>>
     \/ /\ part = "media" /\ MediaNext
        /\ UNCHANGED <<conversationVars, sendKeyVars, bunVars>>
     \/ /\ part = "keys" /\ SendKeysNext
        /\ UNCHANGED <<conversationVars, mediaVars, bunVars>>
     \/ /\ part = "forward" /\ BunNext
        /\ UNCHANGED <<conversationVars, mediaVars, sendKeyVars>>

StoreSpec == StoreInit /\ [][StoreNext]_storeRunVars

(* The types of all parts.                                                   *)
StoreTypeOK ==
  ConversationsTypeOK /\ MediaTypeOK /\ SendKeysTypeOK /\ BunTypeOK

(* In the initial state of a part that does not run nothing waits.           *)
StoreFair == StoreSpec /\ ConversationsFairness /\ MediaFairness /\ BunFairness
=============================================================================
