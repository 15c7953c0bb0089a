--------------------------- MODULE Conversations ----------------------------
(* The conversation store of a WABA: messages and contacts under the key of  *)
(* a customer, who may be known by phone number, by BSUID or by both, and    *)
(* what writes to it: webhooks, statuses, logged sends, the raw history that *)
(* the alarm applies slice by slice, erasures, retention and a replay of the *)
(* history. Each action is what runs between two awaits of the object, but   *)
(* for the payloads of one wake, which are applied one action at a time.     *)
EXTENDS Naturals, Sequences, FiniteSets, SequencesExt

CONSTANTS
  Phones, Bsuids,  \* the two kinds of key
  NoKey,
  Ins, Echoes, Outs,  \* messages received, sent by the app, sent by Eccos
  PhoneIn, BsuidIn,   \* the keys an event of the message names, or NoKey
  Payloads,        \* the raw sync payloads, in order: sequences of items
  Unreadable,      \* the payloads that are too large or do not parse
  SliceSize,       \* SYNC_BATCH_UNITS
  MaxSyncTries,    \* SYNC_MAX_ATTEMPTS
  OldMsgs,         \* the messages that may leave the window of the workspace
  MaxErasures, MaxReprocesses, MaxSyncFaults  \* bounds

Msgs == Ins \cup Echoes \cup Outs
Keys == Phones \cup Bsuids
PayloadIds == DOMAIN Payloads

(* An item is a message of the history, an entry added to or removed from    *)
(* the address book, or the refusal of history sharing.                      *)
Items == [kind : {"message"}, msg : Msgs] \cup
         [kind : {"contact", "remove"}, phone : Phones \cup {NoKey},
          bsuid : Bsuids \cup {NoKey}] \cup
         [kind : {"off"}]

ASSUME ConversationsAssumption ==
  /\ NoKey \notin Keys /\ Phones \cap Bsuids = {} /\ IsFiniteSet(Keys)
  /\ Ins \cap Outs = {}
  /\ PhoneIn \in [Msgs -> Phones \cup {NoKey}]
  /\ BsuidIn \in [Msgs -> Bsuids \cup {NoKey}]
  /\ \A m \in Msgs : PhoneIn[m] # NoKey \/ BsuidIn[m] # NoKey
  /\ \A m \in Outs : PhoneIn[m] = NoKey \/ BsuidIn[m] = NoKey
  /\ Payloads \in Seq(Seq(Items))
  /\ \A p \in DOMAIN Payloads : Payloads[p] # <<>>
  /\ Unreadable \subseteq DOMAIN Payloads
  /\ SliceSize \in Nat \ {0} /\ MaxSyncTries \in Nat

VARIABLES
  messages,  \* messages: the row of each message
  contacts,  \* contacts: who is in it, and where the name is from
  pairs,     \* customer_ids: the phone of each known BSUID
  met,       \* every phone a BSUID was ever paired with
  log,       \* inbound_events: the messages
  told,      \* inbound_events: the statuses of each message, in order
  send,      \* each send: taken by Meta, logged in outbound_messages, dropped
  payload,   \* sync_payloads
  sharingOff,  \* the config flag SHARING_OFF_KEY
  sync,      \* where the alarm waits: the control plane answers
  budget,    \* the items a wake may still apply
  erased,    \* erased_numbers
  aged,      \* messages older than the window
  heard,     \* every status Meta ever sent of a message
  applied,   \* the items that were applied, by payload and place
  erasures, reprocesses, syncFaults  \* what is used of the bounds

storeVars == <<messages, contacts, pairs, met>>
relayVars == <<log, told, send>>
syncVars == <<payload, sharingOff, sync, budget, applied>>
convBounds == <<erasures, reprocesses, syncFaults>>
conversationVars ==
  <<storeVars, relayVars, syncVars, erased, aged, heard, convBounds>>

Statuses == {"delivered", "read", "failed"}
NoMessage == [key |-> NoKey, origin |-> "live", status |-> "none"]
MessageRow == [key : Keys, origin : {"live", "history"},
               status : {"none", "sent"} \cup Statuses]
ContactRow == {"none", "noname", "profile", "book", "blank"}

ConversationsTypeOK ==
  /\ messages \in [Msgs -> MessageRow \cup {NoMessage}]
  /\ contacts \in [Keys -> ContactRow]
  /\ pairs \in [Bsuids -> Phones \cup {NoKey}]
  /\ met \in [Bsuids -> SUBSET Phones]
  /\ log \subseteq Msgs \ Outs
  /\ told \in [Msgs -> Seq(Statuses)]
  /\ send \in [Outs -> {"none", "accepted", "logged", "dropped"}]
  /\ payload \in [PayloadIds -> [state : {"none", "pending", "done", "parked"},
                                 cursor : Nat, tries : 0..MaxSyncTries]]
  /\ sharingOff \in BOOLEAN
  /\ sync \in {"idle", "report", "window", "after"}
  /\ budget \in 0..SliceSize
  /\ erased \subseteq Keys /\ aged \subseteq OldMsgs
  /\ heard \in [Msgs -> SUBSET Statuses]
  /\ applied \subseteq PayloadIds \X Nat

ConversationsInit ==
  /\ messages = [m \in Msgs |-> NoMessage]
  /\ contacts = [k \in Keys |-> "none"]
  /\ pairs = [u \in Bsuids |-> NoKey] /\ met = [u \in Bsuids |-> {}]
  /\ log = {} /\ told = [m \in Msgs |-> <<>>] 
  /\ send = [m \in Outs |-> "none"]
  /\ payload = [p \in PayloadIds |->
                  [state |-> "none", cursor |-> 0, tries |-> 0]]
  /\ sharingOff = FALSE /\ sync = "idle" /\ budget = 0 /\ applied = {}
  /\ erased = {} /\ aged = {} /\ heard = [m \in Msgs |-> {}]
  /\ erasures = 0 /\ reprocesses = 0 /\ syncFaults = 0

-----------------------------------------------------------------------------
(* Writes to the store, as functions of its state: the three tables, and the *)
(* pairs there ever were.                                                    *)

Store ==
  [messages |-> messages, contacts |-> contacts, pairs |-> pairs, met |-> met]
Becomes(st) ==
  /\ messages' = st.messages /\ contacts' = st.contacts
  /\ pairs' = st.pairs /\ met' = st.met

(* customerKey.                                                              *)
KeyOf(st, key) ==
  IF key \in Bsuids /\ st.pairs[key] # NoKey THEN st.pairs[key] ELSE key
NamedBy(phone, bsuid) == IF phone # NoKey THEN phone ELSE bsuid

(* The contact of the phone keeps its name; the one of the BSUID fills it.   *)
MergedContact(ofPhone, ofBsuid) ==
  IF \/ ofPhone = "none"
     \/ ofPhone \in {"noname", "blank"} /\ ofBsuid \in {"profile", "book"}
  THEN ofBsuid ELSE ofPhone

(* learnCustomerPair: what was stored under the BSUID moves to the phone.    *)
Learned(st, phone, bsuid) ==
  IF phone = NoKey \/ bsuid = NoKey THEN st
  ELSE IF st.pairs[bsuid] = phone THEN st
  ELSE [pairs |-> [st.pairs EXCEPT ![bsuid] = phone],
        met |-> [st.met EXCEPT ![bsuid] = @ \cup {phone}],
        messages |-> [m \in Msgs |->
          IF st.messages[m].key = bsuid THEN [st.messages[m] EXCEPT !.key = phone]
                                        ELSE st.messages[m]],
        contacts |-> [st.contacts EXCEPT
          ![phone] = MergedContact(@, st.contacts[bsuid]), ![bsuid] = "none"]]

(* A live message gives its contact the profile name it carries.             *)
LiveContact(contact, named) ==
  IF named /\ contact # "book" THEN "profile"
  ELSE IF contact = "none" THEN "noname" ELSE contact

(* What remains of a contact without its name.                               *)
Unnamed(contact) ==
  CASE contact = "profile" -> "noname"
    [] contact = "book" -> "blank"
    [] OTHER -> contact

(* Slip: the key is used as the event names it. *)
WithLiveAsNamed(st, m, key) ==
  LET row == [key |-> key, origin |-> "live",
              status |-> IF m \in Ins THEN "none" ELSE "sent"]
  IN [st EXCEPT
        !.messages[m] = IF @ = NoMessage \/ @.origin = "history" THEN row ELSE @,
        !.contacts[key] = LiveContact(@, m \in Ins)]

(* storeMessage: live replaces history, and nothing replaces live.           *)
WithLive(st, m, key) ==
  LET k == KeyOf(st, key)
      row == [key |-> k, origin |-> "live",
              status |-> IF m \in Ins THEN "none" ELSE "sent"]
  IN [st EXCEPT
        !.messages[m] = IF @ = NoMessage \/ @.origin = "history" THEN row ELSE @,
        !.contacts[k] = LiveContact(@, m \in Ins)]

(* storeHistoryMessage, of a message inside the window.                      *)
WithHistory(st, m, key) ==
  LET k == KeyOf(st, key)
      row == [key |-> k, origin |-> "history",
              status |-> IF m \in Ins THEN "none" ELSE "sent"]
  IN [st EXCEPT !.messages[m] = IF @ = NoMessage THEN row ELSE @,
                !.contacts[k] = IF @ = "none" THEN "noname" ELSE @]

(* The UPDATE of writeConversation: a status only moves a message forward.   *)
Moved(status, s) ==
  IF status = "sent" \/ (status = "delivered" /\ s = "read") THEN s ELSE status
WithStatus(st, m, s) ==
  IF m \in Ins \/ st.messages[m] = NoMessage THEN st
  ELSE [st EXCEPT !.messages[m].status = Moved(@, s)]

(* The statuses of a message, one after the other.                           *)
WithStatuses(st, m, statuses) ==
  LET after[n \in 0..Len(statuses)] ==
        IF n = 0 THEN st ELSE WithStatus(after[n - 1], m, statuses[n])
  IN after[Len(statuses)]

-----------------------------------------------------------------------------
(* Live traffic.                                                             *)

(* ingest of an inbound or echoed message, perhaps one Meta sent before.     *)
MessageArrives(m) ==
  /\ m \notin Outs
  /\ log' = log \cup {m}
  /\ Becomes(WithLive(Learned(Store, PhoneIn[m], BsuidIn[m]), m,
                      NamedBy(PhoneIn[m], BsuidIn[m])))
  /\ UNCHANGED <<told, send, syncVars, erased, aged, heard, convBounds>>

(* ingest of a status. Meta reports a message as failed, or as delivered and *)
(* read, in any order and more than once.                                    *)
StatusArrives(m, s) ==
  /\ m \notin Ins
  /\ m \in Outs => send[m] # "none"
  /\ heard[m] \subseteq (IF s = "failed" THEN {s} ELSE {"delivered", "read"})
  /\ heard' = [heard EXCEPT ![m] = @ \cup {s}]
  /\ told' = [told EXCEPT ![m] = IF s \in ToSet(@) THEN @ ELSE Append(@, s)]
  /\ Becomes(WithStatus(Store, m, s))
  /\ UNCHANGED <<log, send, syncVars, erased, aged, convBounds>>

(* Meta takes a send of Eccos; logOutbound runs when its answer is here.     *)
MetaAccepts(m) ==
  /\ m \in Outs /\ send[m] = "none"
  /\ send' = [send EXCEPT ![m] = "accepted"]
  /\ UNCHANGED <<storeVars, log, told, syncVars, erased, aged, heard, convBounds>>

(* Slip: the statuses that came first are not replayed. *)
LogOutboundAsSent(m) ==
  /\ m \in Outs /\ send[m] = "accepted"
  /\ send' = [send EXCEPT ![m] = "logged"]
  /\ Becomes(WithLive(Store, m, NamedBy(PhoneIn[m], BsuidIn[m])))
  /\ UNCHANGED <<log, told, syncVars, erased, aged, heard, convBounds>>

(* logOutbound replays the statuses that overtook the answer of the send.    *)
LogOutbound(m) ==
  /\ m \in Outs /\ send[m] = "accepted"
  /\ send' = [send EXCEPT ![m] = "logged"]
  /\ Becomes(WithStatuses(WithLive(Store, m, NamedBy(PhoneIn[m], BsuidIn[m])),
                          m, told[m]))
  /\ UNCHANGED <<log, told, syncVars, erased, aged, heard, convBounds>>

-----------------------------------------------------------------------------
(* The raw history.                                                          *)

(* Slip: a payload that failed once is not taken again. *)
PendingUntried ==
  {p \in PayloadIds : payload[p].state = "pending" /\ payload[p].tries = 0}

Pending == {p \in PayloadIds : payload[p].state = "pending"}

(* captureSyncPayload; payloads come in the order of their ids.              *)
Capture(p) ==
  /\ payload[p].state = "none"
  /\ \A q \in PayloadIds : q < p => payload[q].state # "none"
  /\ payload' = [payload EXCEPT ![p].state = "pending"]
  /\ UNCHANGED <<storeVars, relayVars, sharingOff, sync, budget, applied, erased, aged,
                 heard, convBounds>>

(* processSyncBatch begins with the control plane: a refusal that is not     *)
(* recorded yet, then the window of the workspace.                           *)
SyncWakes ==
  /\ sync = "idle" /\ (sharingOff \/ Pending # {})
  /\ sync' = IF sharingOff THEN "report" ELSE "window"
  /\ budget' = SliceSize
  /\ UNCHANGED <<storeVars, relayVars, payload, sharingOff, applied, erased,
                 aged, heard, convBounds>>

(* recordHistorySharingOff, before the batch or after the slice.             *)
SharingOffRecorded ==
  /\ sync \in {"report", "after"}
  /\ sync' = IF sync = "report" THEN "window" ELSE "idle"
  /\ sharingOff' = FALSE
  /\ budget' = IF sync = "report" THEN budget ELSE 0
  /\ UNCHANGED <<storeVars, relayVars, payload, applied, erased, aged, heard,
                 convBounds>>

(* The control plane does not answer: the wake ends, another will come.      *)
LookupFails ==
  /\ sync # "idle" /\ syncFaults < MaxSyncFaults
  /\ syncFaults' = syncFaults + 1
  /\ sync' = "idle" /\ budget' = 0
  /\ UNCHANGED <<storeVars, relayVars, payload, sharingOff, applied, erased,
                 aged, heard, erasures, reprocesses>>

(* Slip: history is written back after an erasure. *)
SkippedWhenOld(m) == m \in aged

(* storeHistoryMessage skips what the window no longer reaches, and a        *)
(* customer whose key was erased.                                            *)
Skipped(m) == m \in aged \/ NamedBy(PhoneIn[m], BsuidIn[m]) \in erased

(* applySyncItem, on the store. An erased customer is skipped.               *)
IsErased(phone, bsuid) == phone \in erased \/ bsuid \in erased
Applied(st, item) ==
  CASE item.kind = "off" -> st
    [] item.kind \in {"contact", "remove"} ->
         LET known == Learned(st, item.phone, item.bsuid)
             key == KeyOf(known, NamedBy(item.phone, item.bsuid))
         IN
         IF IsErased(item.phone, item.bsuid) THEN st
         ELSE [known EXCEPT !.contacts[key] =
                 IF item.kind = "contact" THEN "book" ELSE Unnamed(@)]
    [] item.kind = "message" ->
         LET m == item.msg
             known == Learned(st, PhoneIn[m], BsuidIn[m])
         IN
         IF PhoneIn[m] # NoKey /\ BsuidIn[m] # NoKey
            /\ IsErased(PhoneIn[m], BsuidIn[m]) THEN st
         ELSE IF Skipped(m) THEN known
         ELSE WithHistory(known, m, NamedBy(PhoneIn[m], BsuidIn[m]))

(* The items of a slice, one after the other.                                *)
AllApplied(st, items) ==
  LET after[n \in 0..Len(items)] ==
        IF n = 0 THEN st ELSE Applied(after[n - 1], items[n])
  IN after[Len(items)]

(* The items of a slice up to its first refusal: once one is seen, `||=`     *)
(* leaves the rest of the slice alone.                                       *)
Before(items) ==
  LET off == {i \in DOMAIN items : items[i].kind = "off"} IN
  IF off = {} THEN items
  ELSE SubSeq(items, 1, CHOOSE i \in off : \A j \in off : i <= j)

CanApply(p) == p \notin Unreadable /\ payload[p].tries < MaxSyncTries

First == CHOOSE p \in Pending : \A q \in Pending : p <= q

(* A slice of the oldest payload, in one transaction with its progress. What *)
(* is left of the budget goes to the next payload.                           *)
SliceApplied ==
  LET p == First
      from == payload[p].cursor
      upto == IF from + budget < Len(Payloads[p])
              THEN from + budget ELSE Len(Payloads[p])
      ends == upto = Len(Payloads[p]) /\ from + budget > upto
      done == Before(SubSeq(Payloads[p], from + 1, upto))
      off == \E i \in DOMAIN done : done[i].kind = "off"
  IN
  /\ sync = "window"
  /\ Pending # {} /\ CanApply(p)
  /\ Becomes(AllApplied(Store, done))
  /\ payload' = [payload EXCEPT ![p] =
       [state |-> IF upto = Len(Payloads[p]) THEN "done" ELSE "pending",
        cursor |-> upto, tries |-> 0]]
  /\ applied' = applied \cup {<<p, from + i>> : i \in DOMAIN done}
  /\ sharingOff' = (sharingOff \/ off)
  /\ sync' = IF off THEN "after" ELSE IF ends THEN "window" ELSE "idle"
  /\ budget' = IF ~off /\ ends THEN budget - (upto - from) ELSE 0
  /\ UNCHANGED <<relayVars, erased, aged, heard, convBounds>>

(* The attempt is counted before the transaction, which throws.              *)
SliceFails ==
  /\ sync = "window" /\ Pending # {} /\ CanApply(First)
  /\ syncFaults < MaxSyncFaults
  /\ syncFaults' = syncFaults + 1
  /\ payload' = [payload EXCEPT ![First].tries = @ + 1]
  /\ sync' = "idle" /\ budget' = 0
  /\ UNCHANGED <<storeVars, relayVars, sharingOff, applied, erased, aged, heard,
                 erasures, reprocesses>>

(* parkSyncPayload: what cannot be applied ends, and the later payloads go   *)
(* on in the same run.                                                       *)
Parks ==
  /\ sync = "window" /\ Pending # {} /\ ~CanApply(First)
  /\ payload' = [payload EXCEPT ![First].state = "parked"]
  /\ UNCHANGED <<storeVars, relayVars, sharingOff, sync, budget, applied, erased, aged,
                 heard, convBounds>>

NothingPending ==
  /\ sync = "window" /\ Pending = {}
  /\ sync' = "idle" /\ budget' = 0
  /\ UNCHANGED <<storeVars, relayVars, payload, sharingOff, applied, erased,
                 aged, heard, convBounds>>

(* reprocessSyncPayloads.                                                    *)
ReprocessPayloads ==
  /\ reprocesses < MaxReprocesses
  /\ reprocesses' = reprocesses + 1
  /\ LET kept == [m \in Msgs |-> IF messages[m].origin = "history"
                                 THEN NoMessage ELSE messages[m]]
         known == {kept[m].key : m \in Msgs}
     IN
     /\ messages' = kept
     /\ contacts' = [k \in Keys |->
          IF contacts[k] = "noname" /\ k \notin known THEN "none"
          ELSE IF contacts[k] = "book" THEN Unnamed(contacts[k])
          ELSE contacts[k]]
  /\ payload' = [p \in PayloadIds |->
       IF payload[p].state = "none" THEN payload[p]
       ELSE [state |-> "pending", cursor |-> 0, tries |-> 0]]
  /\ applied' = {}
  /\ UNCHANGED <<pairs, met, relayVars, sharingOff, sync, budget, erased, aged, heard,
                 erasures, syncFaults>>

-----------------------------------------------------------------------------
(* Erasure and retention.                                                    *)

(* The keys that customer_ids links to the one given.                        *)
Linked(key) ==
  LET phone == KeyOf(Store, key) IN
  {key, phone} \cup {u \in Bsuids : pairs[u] = phone}

(* One pass over the retained messages: the pair of each that names a key.   *)
Widened(keys) ==
  keys \cup UNION {{PhoneIn[m], BsuidIn[m]} : m \in
    {e \in log : /\ {PhoneIn[e], BsuidIn[e]} \cap keys # {}
                 /\ PhoneIn[e] # NoKey /\ BsuidIn[e] # NoKey}}

(* Slip: one pass over the messages, whatever it adds. *)
WidenedOnce(keys) == Widened(keys)

(* The passes end when one adds no key.                                      *)
AllWidened(keys) ==
  LET pass[n \in 0..Cardinality(Keys)] ==
        IF n = 0 THEN keys ELSE Widened(pass[n - 1])
  IN pass[Cardinality(Keys)]

Logged == {m \in Outs : send[m] = "logged"}
Dropped(ms) == [m \in Outs |-> IF m \in ms THEN "dropped" ELSE send[m]]

(* eraseByPhone. A send names its customer by its recipient; statuses go     *)
(* with the message they name.                                               *)
EraseByPhone(key) ==
  LET keys == AllWidened(Linked(key))
      names(m) == {PhoneIn[m], BsuidIn[m]} \cap keys # {}
      wamids == {m \in log \cup Logged : names(m)}
      waIds == keys \cup ({messages[m].key : m \in wamids} \ {NoKey})
  IN
  /\ erasures < MaxErasures /\ erasures' = erasures + 1
  /\ erased' = erased \cup keys
  /\ pairs' = [u \in Bsuids |->
                 IF u \in keys \/ pairs[u] \in keys THEN NoKey ELSE pairs[u]]
  /\ log' = log \ wamids /\ send' = Dropped(wamids)
  /\ told' = [m \in Msgs |-> IF m \in wamids THEN <<>> ELSE told[m]]
  /\ messages' = [m \in Msgs |-> IF messages[m].key \in waIds THEN NoMessage
                                                              ELSE messages[m]]
  /\ contacts' = [k \in Keys |-> IF k \in waIds THEN "none" ELSE contacts[k]]
  /\ UNCHANGED <<met, syncVars, aged, heard, reprocesses, syncFaults>>

MessageAges(m) ==
  /\ m \in OldMsgs \ aged
  /\ aged' = aged \cup {m}
  /\ UNCHANGED <<storeVars, relayVars, syncVars, erased, heard, convBounds>>

(* pruneConversations; a pair goes with its contact.                         *)
PruneConversations ==
  LET kept == [m \in Msgs |-> IF m \in aged THEN NoMessage ELSE messages[m]]
      known == {kept[m].key : m \in Msgs}
      left == [k \in Keys |-> IF k \in known \/ contacts[k] \in {"book", "blank"}
                              THEN contacts[k] ELSE "none"]
  IN
  /\ aged # {}
  /\ messages' = kept /\ contacts' = left
  /\ pairs' = [u \in Bsuids |->
       IF pairs[u] # NoKey /\ left[pairs[u]] = "none" THEN NoKey ELSE pairs[u]]
  /\ UNCHANGED <<met, relayVars, syncVars, erased, aged, heard, convBounds>>

(* pruneExpired: what the relay keeps of a message, and of a logged send.    *)
PruneRelay(m) ==
  /\ m \in log \cup Logged
  /\ log' = log \ {m} /\ send' = Dropped({m})
  /\ told' = [told EXCEPT ![m] = <<>>]
  /\ UNCHANGED <<storeVars, syncVars, erased, aged, heard, convBounds>>

-----------------------------------------------------------------------------
ConversationsNext ==
  \/ \E m \in Msgs :
       \/ MessageArrives(m) \/ MetaAccepts(m) \/ LogOutbound(m)
       \/ \E s \in Statuses : StatusArrives(m, s)
       \/ MessageAges(m) \/ PruneRelay(m)
  \/ \E p \in PayloadIds : Capture(p)
  \/ SyncWakes \/ SharingOffRecorded \/ LookupFails
  \/ SliceApplied \/ SliceFails \/ Parks \/ NothingPending
  \/ ReprocessPayloads
  \/ \E key \in Keys : EraseByPhone(key)
  \/ PruneConversations

ConversationsSpec == ConversationsInit /\ [][ConversationsNext]_conversationVars

(* A backlog keeps its alarm, and the control plane answers or times out.    *)
ConversationsFairness ==
  /\ WF_conversationVars(SyncWakes)
  /\ WF_conversationVars(SharingOffRecorded)
  /\ WF_conversationVars(SliceApplied \/ Parks \/ NothingPending)

FairConversations == ConversationsSpec /\ ConversationsFairness

-----------------------------------------------------------------------------
(* Properties.                                                               *)

(* "One customer is one conversation": once a BSUID is known to belong to a  *)
(* phone, nothing is stored under it, whichever path writes.                 *)
OneConversation ==
  \A u \in Bsuids : pairs[u] # NoKey =>
    contacts[u] = "none" /\ \A m \in Msgs : messages[m].key # u

(* A send of Eccos shows the furthest status Meta reported of it, in any     *)
(* order, before or after the send was logged. A row that the history wrote  *)
(* has the status the history gives it.                                      *)
StatusIsLatest ==
  \A m \in Outs : messages[m] # NoMessage /\ messages[m].origin = "live" =>
    messages[m].status =
      IF "failed" \in heard[m] THEN "failed"
      ELSE IF "read" \in heard[m] THEN "read"
      ELSE IF "delivered" \in heard[m] THEN "delivered" ELSE "sent"

(* History "that is still held raw is not written back" (docs/privacy.md):   *)
(* no row of the history is of an item that names an erased number or BSUID. *)
(* Left out are the BSUIDs that were paired with two phones: their rows stay *)
(* under the first when the second is erased.                                *)
HistoryStaysErased ==
  \A m \in Msgs :
    LET key == NamedBy(PhoneIn[m], BsuidIn[m]) IN
    /\ messages[m] # NoMessage /\ messages[m].origin = "history"
    /\ key \in Bsuids => \A p, q \in met[key] : p = q
    => key \notin erased

(* An erasure takes the customer whole: what is left, in the relay or in the *)
(* store, shares no phone and no BSUID with a message that went.             *)
EraseTakesAllLinked ==
  [][erasures' # erasures =>
       LET gone == (log \cup Logged) \ (log' \cup Logged')
           keys == (UNION {{PhoneIn[m], BsuidIn[m]} : m \in gone}) \ {NoKey}
       IN \A m \in Msgs :
            /\ m \in log' \cup Logged' => {PhoneIn[m], BsuidIn[m]} \cap keys = {}
            /\ messages'[m].key \notin keys]_conversationVars

(* Each raw payload is applied to its end or parked, although others fail.   *)
PayloadEnds ==
  \A p \in PayloadIds :
    payload[p].state = "pending" ~> payload[p].state \in {"done", "parked"}

(* "Applies the raw sync payloads": what the cursor has passed was applied.  *)
PassedIsApplied ==
  \A p \in PayloadIds : \A i \in 1..payload[p].cursor : <<p, i>> \in applied
=============================================================================
