---------------------------- MODULE StoreProofs ----------------------------
(* Proofs about the conversation store and the media store, for every value  *)
(* of the constants. The passes of an erasure and the items of a slice are   *)
(* folds: functions on 0..N that a step takes from n - 1 to n. That such a   *)
(* function exists, and that what its steps keep holds at N, is proved here  *)
(* from the least element of a set of numbers.                               *)
EXTENDS Conversations, MediaStore, FiniteSetTheorems, WellFoundedInduction, TLAPS

-----------------------------------------------------------------------------
(* What an inductive invariant of the store says of its state.               *)

Stores == [messages : [Msgs -> MessageRow \cup {NoMessage}],
           contacts : [Keys -> ContactRow],
           pairs : [Bsuids -> Phones \cup {NoKey}],
           met : [Bsuids -> SUBSET Phones]]

(* The key a message names, a BSUID that was met with one phone, and the     *)
(* rows by their origin.                                                     *)
OfMsg(m) == NamedBy(PhoneIn[m], BsuidIn[m])
OnePhone(met_, u) == \A p, q \in met_[u] : p = q
FromHistory(st, m) ==
  st.messages[m] # NoMessage /\ st.messages[m].origin = "history"
IsLive(st, m) == st.messages[m] # NoMessage /\ st.messages[m].origin = "live"

(* The phones a BSUID was met with are kept.                                 *)
MetGrows(st, nst) == \A u \in Bsuids : st.met[u] \subseteq nst.met[u]

(* Nothing is stored under a BSUID whose phone is known.                     *)
UnderPhone(st) ==
  \A u \in Bsuids : st.pairs[u] # NoKey =>
    st.contacts[u] = "none" /\ \A m \in Msgs : st.messages[m].key # u

(* A conversation has its contact, and a pair was met.                       *)
HasContact(st) ==
  \A m \in Msgs : st.messages[m] # NoMessage =>
    st.contacts[st.messages[m].key] # "none"
PairWasMet(st) ==
  \A u \in Bsuids : st.pairs[u] # NoKey => st.pairs[u] \in st.met[u]

(* A row of the history is under the key of its customer.                    *)
InItsPlace(st) ==
  \A m \in Msgs : FromHistory(st, m) =>
    /\ OfMsg(m) \in Phones => st.messages[m].key = OfMsg(m)
    /\ OfMsg(m) \in Bsuids /\ OnePhone(st.met, OfMsg(m)) =>
         st.messages[m].key = KeyOf(st, OfMsg(m))

(* No row of the history is of a customer that was erased.                   *)
NotErased(st) ==
  \A m \in Msgs :
    /\ FromHistory(st, m)
    /\ OfMsg(m) \in Bsuids => OnePhone(st.met, OfMsg(m))
    => OfMsg(m) \notin erased

StoreSound(st) ==
  /\ st \in Stores
  /\ UnderPhone(st) /\ HasContact(st) /\ PairWasMet(st) /\ InItsPlace(st)
  /\ NotErased(st)

(* The live rows of two states of the store are the same messages with the   *)
(* same statuses.                                                            *)
SameLive(st, nst) ==
  \A m \in Msgs :
    /\ IsLive(nst, m) <=> IsLive(st, m)
    /\ IsLive(st, m) => nst.messages[m].status = st.messages[m].status

(* The furthest of some statuses, and the statuses Meta reports together.    *)
Latest(of) ==
  IF "failed" \in of THEN "failed"
  ELSE IF "read" \in of THEN "read"
  ELSE IF "delivered" \in of THEN "delivered" ELSE "sent"
OneOutcome(of) == of \subseteq {"failed"} \/ of \subseteq {"delivered", "read"}

(* Before a send is logged its statuses wait in the relay, all of them.      *)
Sends ==
  /\ \A m \in Outs : OneOutcome(heard[m])
  /\ \A m \in Outs : send[m] \in {"none", "accepted"} =>
       ToSet(told[m]) = heard[m] /\ ~ IsLive(Store, m)

(* The pairs of the retained messages were met.                              *)
RelayWasMet ==
  \A m \in log : PhoneIn[m] # NoKey /\ BsuidIn[m] # NoKey =>
    PhoneIn[m] \in met[BsuidIn[m]]

(* No cursor is past the end of its payload.                                 *)
CursorsInside == \A p \in PayloadIds : payload[p].cursor <= Len(Payloads[p])

(* The types of the rest; those of the store are in StoreSound.              *)
RelayTypes ==
  /\ log \subseteq Msgs \ Outs
  /\ told \in [Msgs -> Seq(Statuses)]
  /\ send \in [Outs -> {"none", "accepted", "logged", "dropped"}]
  /\ heard \in [Msgs -> SUBSET Statuses]
SyncTypes ==
  /\ payload \in [PayloadIds -> [state : {"none", "pending", "done", "parked"},
                                 cursor : Nat, tries : 0..MaxSyncTries]]
  /\ sharingOff \in BOOLEAN
  /\ sync \in {"idle", "report", "window", "after"}
  /\ budget \in 0..SliceSize
  /\ applied \subseteq PayloadIds \X Nat
KeyTypes == erased \subseteq Keys /\ aged \subseteq OldMsgs

(* The inductive invariant of the conversation store.                        *)
RelayInv == RelayTypes /\ RelayWasMet /\ Sends
SyncInv == SyncTypes /\ CursorsInside
ConvInv ==
  StoreSound(Store) /\ RelayInv /\ SyncInv /\ KeyTypes /\ StatusIsLatest

-----------------------------------------------------------------------------
(* Natural numbers: least elements, induction, iteration.                    *)

LEMMA IsSmaller == \A t, u \in Nat : u < t => <<u, t>> \in OpToRel(<, Nat)
BY DEF OpToRel

LEMMA LeastOf ==
  ASSUME NEW S \in SUBSET Nat, S # {}
  PROVE  \E t \in S : \A u \in S : t <= u
<1>1. PICK t \in S : \A u \in S : ~ (<<u, t>> \in OpToRel(<, Nat))
  BY WFMin, NatLessThanWellFounded
<1>2. \A u \in S : ~ (u < t)
  BY <1>1, IsSmaller, Zenon
<1>3. \A u \in S : t <= u
  BY <1>2
<1> QED
  BY <1>3

(* Induction up to N, with the numbers for which a claim holds as a set.     *)
LEMMA UpTo ==
  ASSUME NEW N \in Nat, NEW S, 0 \in S,
         \A n \in 1..N : n - 1 \in S => n \in S
  PROVE  \A n \in 0..N : n \in S
<1> DEFINE Left == {n \in 0..N : n \notin S}
<1> SUFFICES ASSUME Left # {} PROVE FALSE
  BY DEF Left
<1>1. Left \in SUBSET Nat
  BY DEF Left
<1> HIDE DEF Left
<1>2. PICK n \in Left : \A k \in Left : n <= k
  BY <1>1, LeastOf, Zenon
<1>3. n \in 0..N /\ n # 0 /\ n \notin S
  BY <1>2 DEF Left
<1>4. n \in 1..N /\ n - 1 \in 0..N /\ ~ (n <= n - 1)
  BY <1>3
<1>5. n - 1 \in S
  BY <1>2, <1>4 DEF Left
<1> QED
  BY <1>3, <1>4, <1>5

(* f iterates the steps from the base; such a function exists.               *)
Iterated(f, N, base, move) ==
  f[0] = base /\ \A n \in 1..N : f[n] = move[n][f[n - 1]]

LEMMA Iterates ==
  ASSUME NEW N \in Nat, NEW S, NEW base \in S, NEW move \in [1..N -> [S -> S]]
  PROVE  \E f \in [0..N -> S] : Iterated(f, N, base, move)
<1> DEFINE Is(f, k) == \A n \in 0..k :
                         f[n] = IF n = 0 THEN base ELSE move[n][f[n - 1]]
           Can == {k \in 0..N : \E f \in [0..k -> S] : Is(f, k)}
<1>1. 0 \in Can
  <2> DEFINE g == [n \in 0..0 |-> base]
  <2>1. g \in [0..0 -> S] /\ Is(g, 0)
    OBVIOUS
  <2>2. \E f \in [0..0 -> S] : Is(f, 0)
    <3> HIDE DEF g, Is
    <3> QED
      BY <2>1
  <2> HIDE DEF Is
  <2> QED
    BY <2>2
<1>2. \A k \in 1..N : k - 1 \in Can => k \in Can
  <2> SUFFICES ASSUME NEW k \in 1..N, k - 1 \in Can PROVE k \in Can
    OBVIOUS
  <2>1. PICK f \in [0..k - 1 -> S] : Is(f, k - 1)
    OBVIOUS
  <2>2. f[k - 1] \in S /\ move[k] \in [S -> S]
    OBVIOUS
  <2> DEFINE g == [n \in 0..k |-> IF n = k THEN move[k][f[k - 1]] ELSE f[n]]
  <2>3. g \in [0..k -> S]
    BY <2>2
  <2>4. \A n \in 0..k : g[n] = IF n = 0 THEN base ELSE move[n][g[n - 1]]
    <3>1. \A n \in 0..k - 1 : f[n] = IF n = 0 THEN base ELSE move[n][f[n - 1]]
      BY <2>1
    <3>2. \A n \in 0..k - 1 : g[n] = f[n] /\ (n # 0 => g[n - 1] = f[n - 1])
      OBVIOUS
    <3>3. g[k] = move[k][g[k - 1]]
      OBVIOUS
    <3> HIDE DEF g
    <3> QED
      BY <3>1, <3>2, <3>3
  <2>5. \E h \in [0..k -> S] : Is(h, k)
    <3> HIDE DEF g
    <3> QED
      BY <2>3, <2>4
  <2> HIDE DEF Is
  <2> QED
    BY <2>5
<1> HIDE DEF Can
<1>3. N \in Can
  <2> HIDE DEF Is
  <2>1. \A n \in 0..N : n \in Can
    BY <1>1, <1>2, UpTo
  <2> QED
    BY <2>1
<1>4. PICK f \in [0..N -> S] : Is(f, N)
  BY <1>3 DEF Can
<1> QED
  BY <1>4 DEF Iterated

-----------------------------------------------------------------------------
(* The writes to the store keep it sound.                                    *)

LEMMA RowFacts ==
  ASSUME NEW r \in MessageRow \cup {NoMessage}
  PROVE  /\ r # NoMessage => r.key \in Keys /\ r.key # NoKey
         /\ r.origin \in {"live", "history"}
         /\ r.key \in Keys \cup {NoKey}
         /\ r.key = NoKey <=> r = NoMessage
         /\ NoMessage.origin = "live" /\ NoMessage.key = NoKey
         /\ r # NoMessage => \A key \in Keys : [r EXCEPT !.key = key] \in MessageRow
         /\ \A key : [r EXCEPT !.key = key].key = key
         /\ \A key : [r EXCEPT !.key = key].origin = r.origin
         /\ \A key : [r EXCEPT !.key = key].status = r.status
BY ConversationsAssumption DEF MessageRow, NoMessage

LEMMA KeyFacts ==
  ASSUME NEW m \in Msgs
  PROVE  /\ OfMsg(m) \in Keys
         /\ PhoneIn[m] \in Phones \cup {NoKey} /\ BsuidIn[m] \in Bsuids \cup {NoKey}
         /\ OfMsg(m) \in Phones => PhoneIn[m] = OfMsg(m)
         /\ OfMsg(m) \in Bsuids => PhoneIn[m] = NoKey /\ BsuidIn[m] = OfMsg(m)
BY ConversationsAssumption DEF OfMsg, NamedBy, Keys

LEMMA KeyOfFacts ==
  ASSUME NEW st, st \in Stores, NEW key \in Keys
  PROVE  /\ KeyOf(st, key) \in Keys
         /\ KeyOf(st, key) \in Bsuids => st.pairs[KeyOf(st, key)] = NoKey
         /\ key \in Phones => KeyOf(st, key) = key
BY ConversationsAssumption DEF KeyOf, Keys, Stores

LEMMA MergedFacts ==
  ASSUME NEW a \in ContactRow, NEW b \in ContactRow
  PROVE  /\ MergedContact(a, b) \in ContactRow
         /\ a # "none" \/ b # "none" => MergedContact(a, b) # "none"
BY DEF MergedContact, ContactRow

LEMMA LearnedSound ==
  ASSUME NEW st, StoreSound(st),
         NEW phone \in Phones \cup {NoKey}, NEW bsuid \in Bsuids \cup {NoKey}
  PROVE  /\ StoreSound(Learned(st, phone, bsuid))
         /\ SameLive(st, Learned(st, phone, bsuid))
         /\ \A u \in Bsuids : st.met[u] \subseteq Learned(st, phone, bsuid).met[u]
         /\ phone # NoKey /\ bsuid # NoKey =>
              phone \in Learned(st, phone, bsuid).met[bsuid]
<1> DEFINE nst == Learned(st, phone, bsuid)
<1>0. /\ st \in Stores /\ st.messages \in [Msgs -> MessageRow \cup {NoMessage}]
      /\ st.contacts \in [Keys -> ContactRow]
      /\ st.pairs \in [Bsuids -> Phones \cup {NoKey}]
      /\ st.met \in [Bsuids -> SUBSET Phones]
      /\ UnderPhone(st) /\ HasContact(st) /\ PairWasMet(st) /\ InItsPlace(st)
      /\ NotErased(st)
  BY DEF StoreSound, Stores
<1>1. CASE phone = NoKey \/ bsuid = NoKey \/ st.pairs[bsuid] = phone
  <2>1. nst = st
    BY <1>1 DEF Learned
  <2>2. phone # NoKey /\ bsuid # NoKey => phone \in st.met[bsuid]
    BY <1>0, <1>1 DEF PairWasMet
  <2> QED
    BY <2>1, <2>2 DEF SameLive
<1>2. CASE phone # NoKey /\ bsuid # NoKey /\ st.pairs[bsuid] # phone
  <2>0. phone \in Phones /\ bsuid \in Bsuids /\ phone # bsuid
        /\ phone \in Keys /\ bsuid \in Keys /\ NoKey \notin Keys
        /\ phone \notin Bsuids /\ bsuid \notin Phones
    BY <1>2, ConversationsAssumption DEF Keys
  <2> DEFINE row(m) == IF st.messages[m].key = bsuid
                       THEN [st.messages[m] EXCEPT !.key = phone]
                       ELSE st.messages[m]
  <2>1. nst = [pairs |-> [st.pairs EXCEPT ![bsuid] = phone],
               met |-> [st.met EXCEPT ![bsuid] = @ \cup {phone}],
               messages |-> [m \in Msgs |-> row(m)],
               contacts |-> [st.contacts EXCEPT
                 ![phone] = MergedContact(@, st.contacts[bsuid]), ![bsuid] = "none"]]
    BY <1>2 DEF Learned
  <2> HIDE DEF nst
  <2>2. /\ nst.pairs = [st.pairs EXCEPT ![bsuid] = phone]
        /\ nst.met = [st.met EXCEPT ![bsuid] = @ \cup {phone}]
        /\ nst.messages = [m \in Msgs |-> row(m)]
        /\ nst.contacts = [st.contacts EXCEPT
             ![phone] = MergedContact(@, st.contacts[bsuid]), ![bsuid] = "none"]
    BY <2>1
  <2>3. \A m \in Msgs :
          /\ nst.messages[m] = row(m)
          /\ row(m) \in MessageRow \cup {NoMessage}
          /\ row(m) = NoMessage <=> st.messages[m] = NoMessage
          /\ row(m).origin = st.messages[m].origin
          /\ row(m).status = st.messages[m].status
          /\ row(m).key = IF st.messages[m].key = bsuid THEN phone
                                                       ELSE st.messages[m].key
    <3> SUFFICES ASSUME NEW m \in Msgs
                 PROVE  /\ nst.messages[m] = row(m)
                        /\ row(m) \in MessageRow \cup {NoMessage}
                        /\ row(m) = NoMessage <=> st.messages[m] = NoMessage
                        /\ row(m).origin = st.messages[m].origin
                        /\ row(m).status = st.messages[m].status
                        /\ row(m).key = IF st.messages[m].key = bsuid THEN phone
                                                       ELSE st.messages[m].key
      OBVIOUS
    <3>1. st.messages[m] \in MessageRow \cup {NoMessage}
      BY <1>0
    <3>2. CASE st.messages[m].key = bsuid
      <4>1. nst.messages[m] = row(m)
        BY <2>2
      <4>2. row(m) = [st.messages[m] EXCEPT !.key = phone]
        BY <3>2 DEF row
      <4>3. st.messages[m] # NoMessage
        BY <2>0, <3>1, <3>2, RowFacts
      <4>4. /\ row(m) \in MessageRow /\ row(m).key = phone
            /\ row(m).origin = st.messages[m].origin
            /\ row(m).status = st.messages[m].status
        BY <2>0, <3>1, <4>2, <4>3 DEF MessageRow
      <4>5. row(m) # NoMessage
        BY <2>0, <4>4, RowFacts
      <4> QED
        BY <3>2, <4>1, <4>3, <4>4, <4>5
    <3>3. CASE st.messages[m].key # bsuid
      BY <2>2, <3>1, <3>3
    <3> QED
      BY <3>2, <3>3
  <2> HIDE DEF row
  <2>4. \A u \in Bsuids : /\ nst.pairs[u] = IF u = bsuid THEN phone ELSE st.pairs[u]
                          /\ nst.met[u] = IF u = bsuid THEN st.met[u] \cup {phone}
                                                       ELSE st.met[u]
    BY <1>0, <2>2
  <2>5. \A k \in Keys :
          nst.contacts[k] = IF k = bsuid THEN "none"
                            ELSE IF k = phone
                            THEN MergedContact(st.contacts[phone], st.contacts[bsuid])
                            ELSE st.contacts[k]
    BY <1>0, <2>0, <2>2
  <2>6. nst \in Stores
    <3>1. nst.messages \in [Msgs -> MessageRow \cup {NoMessage}]
      BY <2>2, <2>3
    <3>2. nst.contacts \in [Keys -> ContactRow]
      <4>1. \A k \in Keys : nst.contacts[k] \in ContactRow
        <5>1. MergedContact(st.contacts[phone], st.contacts[bsuid]) \in ContactRow
          BY <1>0, <2>0, MergedFacts
        <5>2. "none" \in ContactRow
          BY DEF ContactRow
        <5> QED
          BY <1>0, <2>5, <5>1, <5>2
      <4>2. DOMAIN nst.contacts = Keys /\ nst.contacts = [k \in Keys |-> nst.contacts[k]]
        BY <1>0, <2>2
      <4> QED
        BY <4>1, <4>2
    <3>3. nst.pairs \in [Bsuids -> Phones \cup {NoKey}]
      BY <1>0, <2>0, <2>2
    <3>4. nst.met \in [Bsuids -> SUBSET Phones]
      BY <1>0, <2>0, <2>2
    <3> QED
      BY <2>1, <3>1, <3>2, <3>3, <3>4 DEF Stores
  <2>7. UnderPhone(nst)
    <3> SUFFICES ASSUME NEW u \in Bsuids, nst.pairs[u] # NoKey
                 PROVE  /\ nst.contacts[u] = "none"
                        /\ \A m \in Msgs : nst.messages[m].key # u
      BY DEF UnderPhone
    <3>1. u \in Keys /\ u # phone
      BY <2>0 DEF Keys
    <3>2. CASE u = bsuid
      BY <2>0, <2>3, <2>5, <3>1, <3>2
    <3>3. CASE u # bsuid
      <4>1. st.contacts[u] = "none" /\ \A m \in Msgs : st.messages[m].key # u
        BY <1>0, <2>4, <3>3 DEF UnderPhone
      <4> QED
        BY <2>3, <2>5, <3>1, <3>3, <4>1
    <3> QED
      BY <3>2, <3>3
  <2>8. HasContact(nst)
    <3> SUFFICES ASSUME NEW m \in Msgs, nst.messages[m] # NoMessage
                 PROVE  nst.contacts[nst.messages[m].key] # "none"
      BY DEF HasContact
    <3>1. /\ st.messages[m] # NoMessage /\ st.messages[m].key \in Keys
          /\ st.contacts[st.messages[m].key] # "none"
      BY <1>0, <2>3, RowFacts DEF HasContact
    <3>2. CASE st.messages[m].key \in {bsuid, phone}
      <4>1. MergedContact(st.contacts[phone], st.contacts[bsuid]) # "none"
        BY <1>0, <2>0, <3>1, <3>2, MergedFacts
      <4> QED
        BY <2>0, <2>3, <2>5, <3>2, <4>1
    <3>3. CASE st.messages[m].key \notin {bsuid, phone}
      BY <2>3, <2>5, <3>1, <3>3
    <3> QED
      BY <3>2, <3>3
  <2>9. PairWasMet(nst)
    BY <1>0, <2>4 DEF PairWasMet
  <2>10. \A m \in Msgs : FromHistory(nst, m) <=> FromHistory(st, m)
    BY <2>3 DEF FromHistory
  <2>11. \A u \in Bsuids : OnePhone(nst.met, u) => OnePhone(st.met, u)
    BY <2>4 DEF OnePhone
  <2>12. InItsPlace(nst)
    <3> SUFFICES ASSUME NEW m \in Msgs, FromHistory(nst, m)
                 PROVE  /\ OfMsg(m) \in Phones => nst.messages[m].key = OfMsg(m)
                        /\ OfMsg(m) \in Bsuids /\ OnePhone(nst.met, OfMsg(m)) =>
                             nst.messages[m].key = KeyOf(nst, OfMsg(m))
      BY DEF InItsPlace
    <3>1. CASE OfMsg(m) \in Phones
      <4>1. st.messages[m].key = OfMsg(m)
        BY <1>0, <2>10, <3>1 DEF InItsPlace
      <4> QED
        BY <2>0, <2>3, <3>1, <4>1, ConversationsAssumption
    <3>2. CASE OfMsg(m) \in Bsuids /\ OnePhone(nst.met, OfMsg(m))
      <4>1. st.messages[m].key = KeyOf(st, OfMsg(m))
        BY <1>0, <2>10, <2>11, <3>2 DEF InItsPlace
      <4>2. CASE OfMsg(m) = bsuid
        <5>1. st.pairs[bsuid] = NoKey
          <6>1. phone \in nst.met[bsuid] /\ st.met[bsuid] \subseteq nst.met[bsuid]
            BY <2>0, <2>4
          <6> QED
            BY <1>0, <1>2, <2>0, <3>2, <4>2, <6>1 DEF OnePhone, PairWasMet
        <5>2. st.messages[m].key = bsuid
          BY <4>1, <4>2, <5>1 DEF KeyOf
        <5>3. nst.messages[m].key = phone
          BY <2>3, <5>2
        <5>4. KeyOf(nst, bsuid) = phone
          BY <2>0, <2>4 DEF KeyOf
        <5>5. OfMsg(m) \notin Phones
          BY <3>2, ConversationsAssumption
        <5> QED
          BY <4>2, <5>3, <5>4, <5>5
      <4>3. CASE OfMsg(m) # bsuid
        <5>1. st.messages[m].key # bsuid
          BY <1>0, <2>0, <3>2, <4>1, <4>3 DEF KeyOf
        <5>2. nst.messages[m].key = st.messages[m].key
          BY <2>3, <5>1
        <5>3. KeyOf(nst, OfMsg(m)) = KeyOf(st, OfMsg(m))
          BY <2>4, <3>2, <4>3 DEF KeyOf
        <5> QED
          BY <3>2, <4>1, <5>2, <5>3, ConversationsAssumption
      <4> QED
        BY <4>2, <4>3
    <3> QED
      BY <3>1, <3>2
  <2>13. NotErased(nst)
    BY <1>0, <2>10, <2>11 DEF NotErased
  <2>14. SameLive(st, nst)
    BY <2>3 DEF SameLive, IsLive
  <2>15. StoreSound(nst)
    BY <2>6, <2>7, <2>8, <2>9, <2>12, <2>13 DEF StoreSound
  <2> QED
    BY <2>4, <2>14, <2>15, <2>0 DEF nst
<1> QED
  BY <1>1, <1>2
(* A row under the customer's key, and a contact for it, keep it sound.      *)
LEMMA WrittenSound ==
  ASSUME NEW st, StoreSound(st), NEW m \in Msgs, NEW r \in MessageRow,
         NEW c \in ContactRow, c # "none",
         NEW nst \in Stores,
         \A x \in Msgs : nst.messages[x] = IF x = m THEN r ELSE st.messages[x],
         \A x \in Keys : nst.contacts[x] =
           IF x = KeyOf(st, OfMsg(m)) THEN c ELSE st.contacts[x],
         nst.pairs = st.pairs, nst.met = st.met,
         \/ r = st.messages[m]
         \/ /\ r.key = KeyOf(st, OfMsg(m))
            /\ r.origin = "history" => OfMsg(m) \notin erased
  PROVE  StoreSound(nst)
<1> DEFINE k == KeyOf(st, OfMsg(m))
<1>0. /\ st \in Stores /\ st.messages \in [Msgs -> MessageRow \cup {NoMessage}]
      /\ st.contacts \in [Keys -> ContactRow]
      /\ st.pairs \in [Bsuids -> Phones \cup {NoKey}]
      /\ st.met \in [Bsuids -> SUBSET Phones]
      /\ UnderPhone(st) /\ HasContact(st) /\ PairWasMet(st) /\ InItsPlace(st)
      /\ NotErased(st)
  BY DEF StoreSound, Stores
<1>1. nst.pairs = st.pairs /\ nst.met = st.met
  OBVIOUS
<1>2. k \in Keys /\ (k \in Bsuids => st.pairs[k] = NoKey)
  BY <1>0, KeyFacts, KeyOfFacts
<1>4. \A x \in Msgs : nst.messages[x] = IF x = m THEN r ELSE st.messages[x]
  OBVIOUS
<1>5. \A x \in Keys : nst.contacts[x] = IF x = k THEN c ELSE st.contacts[x]
  OBVIOUS
<1> HIDE DEF k
<1>6. \A x : KeyOf(nst, x) = KeyOf(st, x)
  BY <1>1 DEF KeyOf
<1>7. r # NoMessage /\ r.key \in Keys
  BY ConversationsAssumption DEF MessageRow, NoMessage
<1>8. UnderPhone(nst)
  <2> SUFFICES ASSUME NEW u \in Bsuids, nst.pairs[u] # NoKey
               PROVE  /\ nst.contacts[u] = "none"
                      /\ \A x \in Msgs : nst.messages[x].key # u
    BY DEF UnderPhone
  <2>1. /\ u \in Keys /\ u # k
        /\ st.contacts[u] = "none" /\ \A x \in Msgs : st.messages[x].key # u
    BY <1>0, <1>1, <1>2 DEF UnderPhone, Keys
  <2>2. r.key # u
    BY <2>1 DEF k
  <2> QED
    BY <1>4, <1>5, <2>1, <2>2
<1>9. HasContact(nst)
  <2> SUFFICES ASSUME NEW x \in Msgs, nst.messages[x] # NoMessage
               PROVE  nst.contacts[nst.messages[x].key] # "none"
    BY DEF HasContact
  <2>1. CASE nst.messages[x] = st.messages[x]
    <3>1. st.messages[x].key \in Keys /\ st.contacts[st.messages[x].key] # "none"
      BY <1>0, <2>1, RowFacts DEF HasContact
    <3> QED
      BY <1>5, <2>1, <3>1
  <2>2. CASE nst.messages[x] # st.messages[x]
    <3>1. nst.messages[x].key = k
      BY <1>4, <2>2 DEF k
    <3> QED
      BY <1>2, <1>5, <3>1
  <2> QED
    BY <2>1, <2>2
<1>10. PairWasMet(nst)
  BY <1>0, <1>1 DEF PairWasMet
<1>11. \A x \in Msgs : FromHistory(nst, x) /\ ~ FromHistory(st, x) =>
         /\ x = m /\ nst.messages[x].key = k /\ OfMsg(m) \notin erased
  BY <1>4 DEF FromHistory, k
<1>12. \A x \in Msgs : \/ nst.messages[x].key = st.messages[x].key
                       \/ x = m /\ nst.messages[x].key = k
  <2> SUFFICES ASSUME NEW x \in Msgs
               PROVE  \/ nst.messages[x].key = st.messages[x].key
                      \/ x = m /\ nst.messages[x].key = k
    OBVIOUS
  <2>1. r = st.messages[m] \/ r.key = k
    BY DEF k
  <2> QED
    BY <1>4, <2>1
<1>13. InItsPlace(nst)
  <2> SUFFICES ASSUME NEW x \in Msgs, FromHistory(nst, x)
               PROVE  /\ OfMsg(x) \in Phones => nst.messages[x].key = OfMsg(x)
                      /\ OfMsg(x) \in Bsuids /\ OnePhone(nst.met, OfMsg(x)) =>
                           nst.messages[x].key = KeyOf(nst, OfMsg(x))
    BY DEF InItsPlace
  <2>1. CASE FromHistory(st, x) /\ nst.messages[x].key = st.messages[x].key
    BY <1>0, <1>1, <1>6, <2>1 DEF InItsPlace
  <2>2. CASE x = m /\ nst.messages[x].key = k
    <3>1. OfMsg(m) \in Keys /\ (OfMsg(m) \in Phones => KeyOf(st, OfMsg(m)) = OfMsg(m))
      BY <1>0, KeyFacts, KeyOfFacts
    <3> QED
      BY <1>6, <2>2, <3>1 DEF k
  <2> QED
    BY <1>11, <1>12, <2>1, <2>2
<1>14. NotErased(nst)
  BY <1>0, <1>1, <1>11 DEF NotErased
<1>15. StoreSound(nst)
  BY <1>8, <1>9, <1>10, <1>13, <1>14 DEF StoreSound
<1> QED
  BY <1>1, <1>15

LEMMA WithLiveSound ==
  ASSUME NEW st, StoreSound(st), NEW m \in Msgs
  PROVE  LET nst == WithLive(st, m, OfMsg(m)) IN
         /\ StoreSound(nst) /\ nst.met = st.met
         /\ \A x \in Msgs \ {m} : nst.messages[x] = st.messages[x]
         /\ IsLive(nst, m)
         /\ m \in Outs /\ ~ IsLive(st, m) => nst.messages[m].status = "sent"
<1> DEFINE nst == WithLive(st, m, OfMsg(m))
           k == KeyOf(st, OfMsg(m))
           row == [key |-> k, origin |-> "live",
                   status |-> IF m \in Ins THEN "none" ELSE "sent"]
           r == IF st.messages[m] = NoMessage \/ st.messages[m].origin = "history"
                THEN row ELSE st.messages[m]
           c == LiveContact(st.contacts[k], m \in Ins)
<1>1. /\ st \in Stores /\ st.messages[m] \in MessageRow \cup {NoMessage}
      /\ st.messages \in [Msgs -> MessageRow \cup {NoMessage}]
      /\ st.contacts \in [Keys -> ContactRow] /\ k \in Keys
  BY KeyFacts, KeyOfFacts DEF StoreSound, Stores
<1>2. row \in MessageRow
  BY <1>1 DEF MessageRow
<1>3. r \in MessageRow /\ r.origin = "live" /\ r # NoMessage
      /\ (r = st.messages[m] \/ r.key = k)
  BY <1>1, <1>2, ConversationsAssumption DEF MessageRow, NoMessage
<1>4. c \in ContactRow /\ c # "none"
  BY <1>1 DEF LiveContact, ContactRow
<1>5. nst = [st EXCEPT !.messages[m] = r, !.contacts[k] = c]
  BY <1>1 DEF WithLive
<1>6. m \in Outs /\ ~ IsLive(st, m) => r.status = "sent"
  BY <1>1, ConversationsAssumption DEF IsLive, MessageRow
<1> HIDE DEF r, c, nst
<1>7. /\ nst \in Stores /\ nst.pairs = st.pairs /\ nst.met = st.met
      /\ \A x \in Msgs : nst.messages[x] = IF x = m THEN r ELSE st.messages[x]
      /\ \A x \in Keys : nst.contacts[x] = IF x = k THEN c ELSE st.contacts[x]
  BY <1>1, <1>3, <1>4, <1>5 DEF Stores
<1> HIDE DEF k
<1>8. StoreSound(nst)
  BY <1>3, <1>4, <1>7, WrittenSound DEF k
<1> QED
  BY <1>3, <1>6, <1>7, <1>8 DEF nst, IsLive

LEMMA WithHistorySound ==
  ASSUME NEW st, StoreSound(st), NEW m \in Msgs, OfMsg(m) \notin erased
  PROVE  LET nst == WithHistory(st, m, OfMsg(m)) IN
         /\ StoreSound(nst) /\ nst.met = st.met
         /\ \A x \in Msgs : st.messages[x] # NoMessage => nst.messages[x] = st.messages[x]
         /\ \A x \in Msgs : IsLive(nst, x) => nst.messages[x] = st.messages[x]
<1> DEFINE nst == WithHistory(st, m, OfMsg(m))
           k == KeyOf(st, OfMsg(m))
           row == [key |-> k, origin |-> "history",
                   status |-> IF m \in Ins THEN "none" ELSE "sent"]
           r == IF st.messages[m] = NoMessage THEN row ELSE st.messages[m]
           c == IF st.contacts[k] = "none" THEN "noname" ELSE st.contacts[k]
<1>1. /\ st \in Stores /\ st.messages[m] \in MessageRow \cup {NoMessage}
      /\ st.messages \in [Msgs -> MessageRow \cup {NoMessage}]
      /\ st.contacts \in [Keys -> ContactRow] /\ k \in Keys
  BY KeyFacts, KeyOfFacts DEF StoreSound, Stores
<1>2. row \in MessageRow /\ row.origin = "history"
  BY <1>1 DEF MessageRow
<1>3. r \in MessageRow /\ (r = st.messages[m] \/ r.key = k)
      /\ (st.messages[m] # NoMessage => r = st.messages[m])
      /\ (r.origin = "live" => r = st.messages[m])
  BY <1>1, <1>2
<1>4. c \in ContactRow /\ c # "none"
  BY <1>1 DEF ContactRow
<1>5. nst = [st EXCEPT !.messages[m] = r, !.contacts[k] = c]
  BY <1>1 DEF WithHistory
<1> HIDE DEF r, c, nst
<1>7. /\ nst \in Stores /\ nst.pairs = st.pairs /\ nst.met = st.met
      /\ \A x \in Msgs : nst.messages[x] = IF x = m THEN r ELSE st.messages[x]
      /\ \A x \in Keys : nst.contacts[x] = IF x = k THEN c ELSE st.contacts[x]
  BY <1>1, <1>3, <1>4, <1>5 DEF Stores
<1> HIDE DEF k
<1>8. StoreSound(nst)
  BY <1>3, <1>4, <1>7, WrittenSound DEF k
<1> QED
  BY <1>3, <1>7, <1>8 DEF nst, IsLive
(* A status leaves a row where it is.                                        *)
LEMMA WithStatusSound ==
  ASSUME NEW st, StoreSound(st), NEW m \in Msgs, NEW s \in Statuses
  PROVE  LET nst == WithStatus(st, m, s) IN
         /\ StoreSound(nst) /\ nst.met = st.met
         /\ \A x \in Msgs : /\ IsLive(nst, x) <=> IsLive(st, x)
                            /\ x # m => nst.messages[x] = st.messages[x]
         /\ m \in Outs /\ IsLive(st, m) =>
              nst.messages[m].status = Moved(st.messages[m].status, s)
<1> DEFINE nst == WithStatus(st, m, s)
<1>0. /\ st \in Stores /\ st.messages \in [Msgs -> MessageRow \cup {NoMessage}]
      /\ st.messages[m] \in MessageRow \cup {NoMessage}
      /\ UnderPhone(st) /\ HasContact(st) /\ PairWasMet(st) /\ InItsPlace(st)
      /\ NotErased(st)
  BY DEF StoreSound, Stores
<1>1. CASE m \in Ins \/ st.messages[m] = NoMessage
  <2>1. nst = st
    BY <1>1 DEF WithStatus
  <2>2. ~ (m \in Outs /\ IsLive(st, m))
    BY <1>1, ConversationsAssumption DEF IsLive
  <2> QED
    BY <2>1, <2>2
<1>2. CASE m \notin Ins /\ st.messages[m] # NoMessage
  <2> DEFINE r == [st.messages[m] EXCEPT !.status = Moved(@, s)]
  <2>1. nst = [st EXCEPT !.messages[m] = r]
    BY <1>0, <1>2 DEF WithStatus, Stores
  <2>2. /\ r \in MessageRow /\ r.key = st.messages[m].key
        /\ r.origin = st.messages[m].origin
        /\ r.status = Moved(st.messages[m].status, s)
    <3>1. \A status \in {"none", "sent"} \cup Statuses :
            Moved(status, s) \in {"none", "sent"} \cup Statuses
      BY DEF Moved
    <3> QED
      BY <1>0, <1>2, <3>1 DEF MessageRow
  <2>3. r # NoMessage
    BY <2>2, ConversationsAssumption DEF MessageRow, NoMessage
  <2> HIDE DEF r
  <2>4. /\ nst \in Stores /\ nst.pairs = st.pairs /\ nst.met = st.met
        /\ nst.contacts = st.contacts
        /\ \A x \in Msgs : nst.messages[x] = IF x = m THEN r ELSE st.messages[x]
    BY <1>0, <2>1, <2>2 DEF Stores
  <2> HIDE DEF nst
  <2>5. \A x \in Msgs : /\ nst.messages[x].key = st.messages[x].key
                        /\ nst.messages[x].origin = st.messages[x].origin
                        /\ nst.messages[x] = NoMessage <=> st.messages[x] = NoMessage
    BY <1>2, <2>2, <2>3, <2>4
  <2>6. \A x \in Msgs : FromHistory(nst, x) <=> FromHistory(st, x)
    BY <2>5 DEF FromHistory
  <2>7. \A x : KeyOf(nst, x) = KeyOf(st, x)
    BY <2>4 DEF KeyOf
  <2>8. UnderPhone(nst) /\ HasContact(nst) /\ PairWasMet(nst)
    BY <1>0, <2>4, <2>5 DEF UnderPhone, HasContact, PairWasMet
  <2>9. InItsPlace(nst) /\ NotErased(nst)
    BY <1>0, <2>4, <2>5, <2>6, <2>7 DEF InItsPlace, NotErased
  <2>10. \A x \in Msgs : IsLive(nst, x) <=> IsLive(st, x)
    BY <2>5 DEF IsLive
  <2> QED
    BY <2>2, <2>4, <2>8, <2>9, <2>10 DEF nst, StoreSound
<1> QED
  BY <1>1, <1>2

(* The furthest of some statuses, and one more.                              *)
LEMMA LatestMoves ==
  ASSUME NEW of, NEW s \in Statuses, OneOutcome(of \cup {s})
  PROVE  Moved(Latest(of), s) = Latest(of \cup {s})
<1>1. CASE of \cup {s} \subseteq {"failed"}
  BY <1>1 DEF Moved, Latest
<1>2. CASE of \cup {s} \subseteq {"delivered", "read"}
  BY <1>2 DEF Moved, Latest
<1> QED
  BY <1>1, <1>2 DEF OneOutcome

(* All the statuses of a send, in any order, leave it with the furthest.     *)
LEMMA WithStatusesSound ==
  ASSUME NEW st, StoreSound(st), NEW m \in Outs, NEW ss \in Seq(Statuses),
         IsLive(st, m), st.messages[m].status = "sent", OneOutcome(ToSet(ss))
  PROVE  LET nst == WithStatuses(st, m, ss) IN
         /\ StoreSound(nst) /\ nst.met = st.met
         /\ \A x \in Msgs : /\ IsLive(nst, x) <=> IsLive(st, x)
                            /\ x # m => nst.messages[x] = st.messages[x]
         /\ nst.messages[m].status = Latest(ToSet(ss))
<1> DEFINE N == Len(ss)
           Good == {t \in Stores : StoreSound(t)}
           move == [n \in 1..N |-> [t \in Good |-> WithStatus(t, m, ss[n])]]
           seen(n) == {ss[i] : i \in 1..n}
<1>0. m \in Msgs /\ N \in Nat /\ \A n \in 1..N : ss[n] \in Statuses
  BY DEF Msgs
<1>1. move \in [1..N -> [Good -> Good]] /\ st \in Good
  <2>1. \A n \in 1..N, t \in Good : WithStatus(t, m, ss[n]) \in Good
    BY <1>0, WithStatusSound DEF StoreSound
  <2> HIDE DEF Good
  <2>2. move \in [1..N -> [Good -> Good]]
    BY <2>1
  <2> QED
    BY <2>2 DEF Good, StoreSound
<1> HIDE DEF move, Good
<1>2. PICK f \in [0..N -> Good] :
        f[0] = st /\ \A n \in 1..N : f[n] = move[n][f[n - 1]]
  <2> HIDE DEF N
  <2>1. N \in Nat /\ st \in Good /\ move \in [1..N -> [Good -> Good]]
    BY <1>0, <1>1
  <2>2. \E f \in [0..N -> Good] : Iterated(f, N, st, move)
    BY <2>1, Iterates, Zenon
  <2> QED
    BY <2>2 DEF Iterated
<1>3. \A n \in 1..N : move[n][f[n - 1]] = WithStatus(f[n - 1], m, ss[n])
  <2> SUFFICES ASSUME NEW n \in 1..N
               PROVE  move[n][f[n - 1]] = WithStatus(f[n - 1], m, ss[n])
    OBVIOUS
  <2>1. f[n - 1] \in Good
    BY <1>0
  <2> QED
    BY <2>1 DEF move
<1>4. f = [n \in 0..N |-> IF n = 0 THEN st ELSE WithStatus(f[n - 1], m, ss[n])]
  <2> DEFINE g == [n \in 0..N |-> IF n = 0 THEN st ELSE WithStatus(f[n - 1], m, ss[n])]
  <2>1. \A n \in 0..N : g[n] = f[n]
    BY <1>0, <1>2, <1>3
  <2>2. g = [n \in 0..N |-> g[n]] /\ f = [n \in 0..N |-> f[n]]
    OBVIOUS
  <2> HIDE DEF g
  <2>3. f = g
    BY <2>1, <2>2
  <2> QED
    BY <2>3 DEF g
<1> DEFINE after == CHOOSE g :
      g = [n \in 0..N |-> IF n = 0 THEN st ELSE WithStatus(g[n - 1], m, ss[n])]
<1>5. after = [n \in 0..N |-> IF n = 0 THEN st ELSE WithStatus(after[n - 1], m, ss[n])]
  BY <1>4
<1>6. WithStatuses(st, m, ss) = after[N]
  BY DEF WithStatuses
<1> HIDE DEF after, N
<1>7. after[0] = st /\ \A n \in 1..N : after[n] = WithStatus(after[n - 1], m, ss[n])
  BY <1>0, <1>5
<1> DEFINE Holds == {n \in 0..N :
      LET nst == after[n] IN
      /\ StoreSound(nst) /\ nst.met = st.met
      /\ \A x \in Msgs : /\ IsLive(nst, x) <=> IsLive(st, x)
                         /\ x # m => nst.messages[x] = st.messages[x]
      /\ nst.messages[m].status = Latest(seen(n))}
<1>8. 0 \in Holds
  <2>1. seen(0) = {} /\ Latest({}) = "sent"
    BY DEF Latest
  <2> HIDE DEF seen
  <2> QED
    BY <1>0, <1>7, <2>1
<1>9. \A n \in 1..N : n - 1 \in Holds => n \in Holds
  <2> SUFFICES ASSUME NEW n \in 1..N, n - 1 \in Holds
               PROVE  n \in Holds
    OBVIOUS
  <2> DEFINE t == after[n - 1]
  <2>1. /\ StoreSound(t) /\ t.met = st.met
        /\ \A x \in Msgs : /\ IsLive(t, x) <=> IsLive(st, x)
                           /\ x # m => t.messages[x] = st.messages[x]
        /\ t.messages[m].status = Latest(seen(n - 1))
    OBVIOUS
  <2>2. after[n] = WithStatus(t, m, ss[n])
    BY <1>7
  <2>3. seen(n) = seen(n - 1) \cup {ss[n]} /\ seen(n) \subseteq ToSet(ss)
    <3>1. N = Len(ss) /\ DOMAIN ss = 1..N
      BY DEF N
    <3>2. 1..n = (1..n - 1) \cup {n} /\ 1..n \subseteq 1..N
      BY <1>0
    <3> QED
      BY <3>1, <3>2 DEF ToSet
  <2>4. Latest(seen(n)) = Moved(Latest(seen(n - 1)), ss[n])
    <3>1. OneOutcome(seen(n))
      <4> HIDE DEF seen
      <4> QED
        BY <2>3 DEF OneOutcome
    <3> HIDE DEF seen
    <3> QED
      BY <1>0, <2>3, <3>1, LatestMoves
  <2> HIDE DEF t, seen
  <2>5. /\ StoreSound(after[n]) /\ after[n].met = t.met
        /\ \A x \in Msgs : /\ IsLive(after[n], x) <=> IsLive(t, x)
                           /\ x # m => after[n].messages[x] = t.messages[x]
        /\ after[n].messages[m].status = Moved(t.messages[m].status, ss[n])
    BY <1>0, <2>1, <2>2, WithStatusSound
  <2> QED
    BY <2>1, <2>4, <2>5
<1> HIDE DEF Holds
<1>10. N \in Holds
  <2>1. N \in Nat /\ N \in 0..N
    BY <1>0
  <2>2. \A n \in 0..N : n \in Holds
    BY <1>8, <1>9, <2>1, UpTo
  <2> QED
    BY <2>1, <2>2
<1>11. seen(N) = ToSet(ss)
  <2>1. DOMAIN ss = 1..N
    BY DEF N
  <2> QED
    BY <2>1 DEF ToSet
<1> HIDE DEF seen
<1> QED
  BY <1>6, <1>10, <1>11 DEF Holds

-----------------------------------------------------------------------------
(* A slice of the history.                                                   *)

(* What a write of the history never does: it leaves the live rows alone.    *)
LEMMA AppliedSound ==
  ASSUME NEW st, StoreSound(st), NEW item \in Items
  PROVE  LET nst == Applied(st, item) IN
         StoreSound(nst) /\ SameLive(st, nst) /\ MetGrows(st, nst)
<1>1. CASE item.kind = "off"
  BY <1>1 DEF Applied, SameLive, MetGrows
<1>2. CASE item.kind \in {"contact", "remove"}
  <2> DEFINE phone == item.phone
             bsuid == item.bsuid
             known == Learned(st, phone, bsuid)
             key == KeyOf(known, NamedBy(phone, bsuid))
             c == IF item.kind = "contact" THEN "book" ELSE Unnamed(known.contacts[key])
             nst == [known EXCEPT !.contacts[key] = c]
  <2>1. phone \in Phones \cup {NoKey} /\ bsuid \in Bsuids \cup {NoKey}
    BY <1>2 DEF Items
  <2>2. StoreSound(known) /\ SameLive(st, known) /\ MetGrows(st, known)
    BY <2>1, LearnedSound DEF MetGrows
  <2> HIDE DEF known
  <2>3. Applied(st, item) = IF IsErased(phone, bsuid) THEN st ELSE nst
    BY <1>2 DEF Applied, known
  <2>4. CASE IsErased(phone, bsuid)
    BY <2>3, <2>4 DEF SameLive, MetGrows
  <2>5. CASE ~ IsErased(phone, bsuid)
    <3>1. nst.messages = known.messages /\ nst.met = known.met
      BY <2>2 DEF StoreSound, Stores
    <3>2. SameLive(st, nst) /\ MetGrows(st, nst)
      BY <2>2, <3>1 DEF SameLive, IsLive, MetGrows
    <3>3. StoreSound(nst)
      <4>0. /\ known \in Stores /\ known.contacts \in [Keys -> ContactRow]
            /\ UnderPhone(known) /\ HasContact(known) /\ PairWasMet(known)
            /\ InItsPlace(known) /\ NotErased(known)
            /\ known.messages \in [Msgs -> MessageRow \cup {NoMessage}]
        BY <2>2 DEF StoreSound, Stores
      <4>1. /\ nst.pairs = known.pairs /\ nst.met = known.met
            /\ nst.contacts = [known.contacts EXCEPT ![key] = c]
        BY <4>0 DEF Stores
      <4>2. key \in Keys =>
              /\ c \in ContactRow
              /\ known.contacts[key] # "none" => c # "none"
        BY <4>0 DEF Unnamed, ContactRow
      <4>3. key \in Bsuids => known.pairs[key] = NoKey
        <5>1. NamedBy(phone, bsuid) \in Keys \cup {NoKey}
          BY <2>1 DEF NamedBy, Keys
        <5>2. CASE NamedBy(phone, bsuid) \in Keys
          BY <4>0, <5>2, KeyOfFacts
        <5>3. CASE NamedBy(phone, bsuid) = NoKey
          BY <5>3, ConversationsAssumption DEF KeyOf, Keys
        <5> QED
          BY <5>1, <5>2, <5>3
      <4>4. nst \in Stores
        <5>1. nst.contacts \in [Keys -> ContactRow]
          <6> HIDE DEF nst, c, key
          <6> QED
            BY <4>0, <4>1, <4>2
        <5> QED
          BY <4>0, <5>1 DEF Stores
      <4> HIDE DEF nst, c, key
      <4>5. \A k \in Keys :
              nst.contacts[k] = IF k = key THEN c ELSE known.contacts[k]
        BY <4>0, <4>1
      <4>6. UnderPhone(nst)
        BY <3>1, <4>0, <4>1, <4>3, <4>5 DEF UnderPhone, Keys
      <4>7. HasContact(nst)
        <5>1. \A m \in Msgs : known.messages[m] # NoMessage =>
                known.messages[m].key \in Keys
          BY <4>0, RowFacts
        <5> QED
          BY <3>1, <4>0, <4>2, <4>5, <5>1 DEF HasContact
      <4>8. PairWasMet(nst) /\ InItsPlace(nst) /\ NotErased(nst)
        BY <3>1, <4>0, <4>1
           DEF PairWasMet, InItsPlace, NotErased, FromHistory, KeyOf
      <4> QED
        BY <4>4, <4>6, <4>7, <4>8 DEF StoreSound
    <3> QED
      BY <2>3, <2>5, <3>2, <3>3
  <2> QED
    BY <2>4, <2>5
<1>3. CASE item.kind = "message"
  <2> DEFINE m == item.msg
             known == Learned(st, PhoneIn[m], BsuidIn[m])
  <2>1. m \in Msgs
    BY <1>3 DEF Items
  <2>2. StoreSound(known) /\ SameLive(st, known) /\ MetGrows(st, known)
    BY <2>1, LearnedSound, KeyFacts DEF MetGrows
  <2>3. \/ Applied(st, item) = st
        \/ Applied(st, item) = known
        \/ /\ Applied(st, item) = WithHistory(known, m, OfMsg(m))
           /\ OfMsg(m) \notin erased
    BY <1>3 DEF Applied, Skipped, OfMsg
  <2> HIDE DEF known, m
  <2>4. OfMsg(m) \notin erased =>
          /\ StoreSound(WithHistory(known, m, OfMsg(m)))
          /\ SameLive(st, WithHistory(known, m, OfMsg(m)))
          /\ MetGrows(st, WithHistory(known, m, OfMsg(m)))
    <3> SUFFICES ASSUME OfMsg(m) \notin erased
                 PROVE  /\ StoreSound(WithHistory(known, m, OfMsg(m)))
                        /\ SameLive(st, WithHistory(known, m, OfMsg(m)))
                        /\ MetGrows(st, WithHistory(known, m, OfMsg(m)))
          /\ MetGrows(st, WithHistory(known, m, OfMsg(m)))
      OBVIOUS
    <3> DEFINE nst == WithHistory(known, m, OfMsg(m))
    <3>1. /\ StoreSound(nst) /\ nst.met = known.met
          /\ \A x \in Msgs : known.messages[x] # NoMessage =>
               nst.messages[x] = known.messages[x]
          /\ \A x \in Msgs : IsLive(nst, x) => nst.messages[x] = known.messages[x]
      BY <2>1, <2>2, WithHistorySound
    <3> HIDE DEF nst
    <3>2. SameLive(st, nst) /\ MetGrows(st, nst)
      BY <2>2, <3>1 DEF SameLive, IsLive, MetGrows
    <3> QED
      BY <3>1, <3>2 DEF nst
  <2> QED
    BY <2>2, <2>3, <2>4 DEF SameLive, MetGrows
<1> QED
  BY <1>1, <1>2, <1>3 DEF Items

LEMMA AllAppliedSound ==
  ASSUME NEW st, StoreSound(st), NEW items \in Seq(Items)
  PROVE  LET nst == AllApplied(st, items) IN
         StoreSound(nst) /\ SameLive(st, nst) /\ MetGrows(st, nst)
<1> DEFINE N == Len(items)
           Good == {t \in Stores : StoreSound(t) /\ SameLive(st, t) /\ MetGrows(st, t)}
           move == [n \in 1..N |-> [t \in Good |-> Applied(t, items[n])]]
<1>0. N \in Nat /\ \A n \in 1..N : items[n] \in Items
  OBVIOUS
<1>1. \A n \in 1..N, t \in Good : Applied(t, items[n]) \in Good
  <2> SUFFICES ASSUME NEW n \in 1..N, NEW t \in Good
               PROVE  Applied(t, items[n]) \in Good
    OBVIOUS
  <2>1. /\ StoreSound(Applied(t, items[n])) /\ SameLive(t, Applied(t, items[n]))
        /\ MetGrows(t, Applied(t, items[n]))
    BY <1>0, AppliedSound
  <2>2. SameLive(st, Applied(t, items[n])) /\ MetGrows(st, Applied(t, items[n]))
    BY <2>1 DEF SameLive, MetGrows
  <2> QED
    BY <2>1, <2>2 DEF StoreSound
<1>2. st \in Good
  BY DEF StoreSound, SameLive, MetGrows
<1>3. \A t \in Good : StoreSound(t) /\ SameLive(st, t) /\ MetGrows(st, t)
  OBVIOUS
<1> HIDE DEF Good
<1>4. move \in [1..N -> [Good -> Good]]
  BY <1>1
<1>5. \A n \in 1..N, t \in Good : move[n][t] = Applied(t, items[n])
  OBVIOUS
<1> HIDE DEF move, N
<1>6. PICK f \in [0..N -> Good] : Iterated(f, N, st, move)
  BY <1>0, <1>2, <1>4, Iterates, Zenon
<1>7. f = [n \in 0..N |-> IF n = 0 THEN st ELSE Applied(f[n - 1], items[n])]
  <2> DEFINE g == [n \in 0..N |-> IF n = 0 THEN st ELSE Applied(f[n - 1], items[n])]
  <2>1. \A n \in 1..N : f[n - 1] \in Good
    BY <1>0
  <2>2. \A n \in 0..N : g[n] = f[n]
    BY <1>0, <1>5, <1>6, <2>1 DEF Iterated
  <2>3. g = [n \in 0..N |-> g[n]] /\ f = [n \in 0..N |-> f[n]]
    OBVIOUS
  <2> HIDE DEF g
  <2>4. f = g
    BY <2>2, <2>3
  <2> QED
    BY <2>4 DEF g
<1> DEFINE after == CHOOSE g :
      g = [n \in 0..N |-> IF n = 0 THEN st ELSE Applied(g[n - 1], items[n])]
<1>8. after = [n \in 0..N |-> IF n = 0 THEN st ELSE Applied(after[n - 1], items[n])]
  BY <1>7
<1>9. AllApplied(st, items) = after[N]
  BY DEF AllApplied, N
<1> HIDE DEF after
<1>10. after[0] = st /\ \A n \in 1..N : after[n] = Applied(after[n - 1], items[n])
  BY <1>0, <1>8
<1> DEFINE Holds == {n \in 0..N : after[n] \in Good}
<1>11. 0 \in Holds /\ \A n \in 1..N : n - 1 \in Holds => n \in Holds
  BY <1>0, <1>1, <1>2, <1>10
<1> HIDE DEF Holds
<1>12. \A n \in 0..N : n \in Holds
  BY <1>0, <1>11, UpTo
<1>13. after[N] \in Good
  BY <1>0, <1>12 DEF Holds
<1> QED
  BY <1>3, <1>9, <1>13

-----------------------------------------------------------------------------
(* The keys of an erasure.                                                   *)

(* A set of keys holds the phone of each of its BSUIDs that has one phone.   *)
Whole(keys) ==
  /\ keys \in SUBSET Keys /\ keys # {}
  /\ \A u \in Bsuids \cap keys :
       pairs[u] # NoKey /\ OnePhone(met, u) => pairs[u] \in keys

(* What is known of the store and of the retained messages.                  *)
StoreFacts == log \subseteq Msgs /\ StoreSound(Store) /\ RelayWasMet

LEMMA StoreIs ==
  ASSUME StoreSound(Store)
  PROVE  /\ messages \in [Msgs -> MessageRow \cup {NoMessage}]
         /\ contacts \in [Keys -> ContactRow]
         /\ pairs \in [Bsuids -> Phones \cup {NoKey}]
         /\ met \in [Bsuids -> SUBSET Phones]
         /\ Store.messages = messages /\ Store.contacts = contacts
         /\ Store.pairs = pairs /\ Store.met = met
BY DEF Store, StoreSound, Stores

LEMMA LinkedWhole ==
  ASSUME StoreSound(Store), NEW key \in Keys
  PROVE  Whole(Linked(key)) /\ key \in Linked(key)
<1> DEFINE phone == KeyOf(Store, key)
<1>1. Linked(key) = {key, phone} \cup {u \in Bsuids : pairs[u] = phone}
  BY DEF Linked
<1>2. phone \in Keys
  BY KeyOfFacts DEF StoreSound
<1>3. Linked(key) \subseteq Keys
  BY <1>1, <1>2 DEF Keys
<1>4. ASSUME NEW u \in Bsuids \cap Linked(key), pairs[u] # NoKey
      PROVE  pairs[u] \in Linked(key)
  <2>1. CASE u = key
    <3>1. phone = pairs[u]
      BY <1>4, <2>1, StoreIs DEF KeyOf
    <3> QED
      BY <1>1, <3>1
  <2>2. CASE u = phone
    <3>1. Store.pairs[u] = NoKey
      BY <2>2, KeyOfFacts DEF StoreSound
    <3> QED
      BY <1>4, <3>1, StoreIs
  <2>3. CASE pairs[u] = phone
    BY <1>1, <2>3
  <2> QED
    BY <1>1, <1>4, <2>1, <2>2, <2>3
<1> QED
  BY <1>1, <1>3, <1>4 DEF Whole

(* A message that names two keys, with the BSUID and the phone it names.     *)
NamesTwo(m) == PhoneIn[m] # NoKey /\ BsuidIn[m] # NoKey

LEMMA WidenedFacts ==
  ASSUME NEW keys
  PROVE  /\ keys \subseteq Widened(keys)
         /\ \A k \in Widened(keys) : k \in keys \/ \E m \in log :
              /\ NamesTwo(m) /\ k \in {PhoneIn[m], BsuidIn[m]}
              /\ PhoneIn[m] \in Widened(keys)
         /\ \A m \in log :
              NamesTwo(m) /\ {PhoneIn[m], BsuidIn[m]} \cap keys # {} =>
                PhoneIn[m] \in Widened(keys) /\ BsuidIn[m] \in Widened(keys)
BY DEF Widened, NamesTwo

LEMMA WidenedWhole ==
  ASSUME StoreFacts, NEW keys, Whole(keys)
  PROVE  Whole(Widened(keys))
<1>1. Widened(keys) \subseteq Keys
  <2>1. \A m \in log : NamesTwo(m) => PhoneIn[m] \in Keys /\ BsuidIn[m] \in Keys
    BY KeyFacts DEF NamesTwo, Keys, StoreFacts
  <2> QED
    BY <2>1, WidenedFacts DEF Whole
<1>2. Widened(keys) # {}
  BY WidenedFacts DEF Whole
<1>3. ASSUME NEW u \in Bsuids \cap Widened(keys), pairs[u] # NoKey, OnePhone(met, u)
      PROVE  pairs[u] \in Widened(keys)
  <2>1. CASE u \in keys
    BY <1>3, <2>1, WidenedFacts DEF Whole
  <2>2. CASE u \notin keys
    <3>1. PICK m \in log : /\ NamesTwo(m) /\ u \in {PhoneIn[m], BsuidIn[m]}
                           /\ PhoneIn[m] \in Widened(keys)
      BY <2>2, WidenedFacts
    <3>2. u = BsuidIn[m]
      BY <3>1, KeyFacts, ConversationsAssumption DEF NamesTwo, StoreFacts
    <3>3. PhoneIn[m] \in met[u]
      BY <3>1, <3>2 DEF NamesTwo, StoreFacts, RelayWasMet
    <3>4. pairs[u] \in met[u]
      BY <1>3, StoreIs DEF StoreFacts, StoreSound, PairWasMet
    <3> QED
      BY <1>3, <3>1, <3>3, <3>4 DEF OnePhone
  <2> QED
    BY <2>1, <2>2
<1> QED
  BY <1>1, <1>2, <1>3 DEF Whole

(* The passes over the messages end with one that adds no key: each before   *)
(* it added one, and there are no more than there are keys.                  *)
LEMMA AllWidenedFacts ==
  ASSUME StoreFacts, NEW keys, Whole(keys)
  PROVE  /\ Whole(AllWidened(keys)) /\ keys \subseteq AllWidened(keys)
         /\ Widened(AllWidened(keys)) = AllWidened(keys)
<1> DEFINE N == Cardinality(Keys)
           Good == {ks \in SUBSET Keys : Whole(ks) /\ keys \subseteq ks}
           move == [n \in 1..N |-> [ks \in Good |-> Widened(ks)]]
<1>0. N \in Nat /\ IsFiniteSet(Keys)
  BY FS_CardinalityType, ConversationsAssumption
<1>1. \A ks \in Good : Widened(ks) \in Good
  BY WidenedWhole, WidenedFacts DEF Whole
<1>2. keys \in Good
  BY DEF Whole
<1>3. \A ks \in Good : ks \in SUBSET Keys /\ ks # {} /\ Whole(ks) /\ keys \subseteq ks
  BY DEF Whole
<1> HIDE DEF Good
<1>4. move \in [1..N -> [Good -> Good]]
  BY <1>1
<1>5. \A n \in 1..N, ks \in Good : move[n][ks] = Widened(ks)
  OBVIOUS
<1> HIDE DEF move, N
<1>6. PICK f \in [0..N -> Good] : Iterated(f, N, keys, move)
  BY <1>0, <1>2, <1>4, Iterates, Zenon
<1>7. f = [n \in 0..N |-> IF n = 0 THEN keys ELSE Widened(f[n - 1])]
  <2> DEFINE g == [n \in 0..N |-> IF n = 0 THEN keys ELSE Widened(f[n - 1])]
  <2>1. \A n \in 1..N : f[n - 1] \in Good
    BY <1>0
  <2>2. \A n \in 0..N : g[n] = f[n]
    BY <1>0, <1>5, <1>6, <2>1 DEF Iterated
  <2>3. g = [n \in 0..N |-> g[n]] /\ f = [n \in 0..N |-> f[n]]
    OBVIOUS
  <2> HIDE DEF g
  <2>4. f = g
    BY <2>2, <2>3
  <2> QED
    BY <2>4 DEF g
<1> DEFINE pass == CHOOSE g :
      g = [n \in 0..N |-> IF n = 0 THEN keys ELSE Widened(g[n - 1])]
<1>8. pass = [n \in 0..N |-> IF n = 0 THEN keys ELSE Widened(pass[n - 1])]
  BY <1>7
<1>9. AllWidened(keys) = pass[N]
  BY DEF AllWidened, N
<1> HIDE DEF pass
<1>10. pass[0] = keys /\ \A n \in 1..N : pass[n] = Widened(pass[n - 1])
  BY <1>0, <1>8
<1> DEFINE Holds == {n \in 0..N : /\ pass[n] \in Good
                                  /\ \/ Widened(pass[n]) = pass[n]
                                     \/ Cardinality(pass[n]) >= n + 1}
<1>11. 0 \in Holds
  <2>1. IsFiniteSet(keys) /\ Cardinality(keys) \in Nat /\ Cardinality(keys) # 0
    BY <1>0, <1>2, <1>3, FS_Subset, FS_EmptySet, FS_CardinalityType
  <2> QED
    BY <1>0, <1>2, <1>10, <2>1
<1>12. ASSUME NEW n \in 1..N, n - 1 \in Holds PROVE n \in Holds
  <2> DEFINE ks == pass[n - 1]
  <2>1. ks \in Good /\ pass[n] = Widened(ks)
    BY <1>10, <1>12
  <2>2. pass[n] \in Good
    BY <1>1, <2>1
  <2>3. CASE Widened(ks) = ks
    BY <2>1, <2>2, <2>3
  <2>4. CASE Widened(ks) # ks
    <3>1. Cardinality(ks) >= n
      BY <1>0, <1>12, <2>4
    <3>2. PICK k \in Widened(ks) : k \notin ks
      BY <2>4, WidenedFacts
    <3>3. /\ IsFiniteSet(ks) /\ IsFiniteSet(Widened(ks))
          /\ Cardinality(ks) \in Nat /\ Cardinality(Widened(ks)) \in Nat
      BY <1>0, <1>1, <1>3, <2>1, FS_Subset, FS_CardinalityType
    <3>4. IsFiniteSet(ks \cup {k}) /\ Cardinality(ks \cup {k}) = Cardinality(ks) + 1
      BY <3>2, <3>3, FS_AddElement
    <3>5. ks \cup {k} \in SUBSET Widened(ks)
      BY <3>2, WidenedFacts
    <3>6. Cardinality(ks \cup {k}) <= Cardinality(Widened(ks))
      BY <3>3, <3>5, FS_Subset
    <3>7. Cardinality(Widened(ks)) >= n + 1
      <4> HIDE DEF ks
      <4> QED
        BY <3>1, <3>3, <3>4, <3>6
    <3> QED
      BY <2>1, <2>2, <3>7
  <2> QED
    BY <2>3, <2>4
<1> HIDE DEF Holds
<1>13. N \in Holds
  <2>1. \A n \in 0..N : n \in Holds
    BY <1>0, <1>11, <1>12, UpTo
  <2> QED
    BY <1>0, <2>1
<1>14. pass[N] \in Good /\ Widened(pass[N]) = pass[N]
  <2>1. pass[N] \in Good /\ pass[N] \in SUBSET Keys
    BY <1>3, <1>13 DEF Holds
  <2>2. Cardinality(pass[N]) <= N /\ Cardinality(pass[N]) \in Nat
    BY <1>0, <2>1, FS_Subset, FS_CardinalityType DEF N
  <2> QED
    BY <1>0, <1>13, <2>1, <2>2 DEF Holds
<1> QED
  BY <1>3, <1>9, <1>14

-----------------------------------------------------------------------------
(* Every step keeps the invariant.                                           *)

LEMMA BecomesSound ==
  ASSUME NEW st, StoreSound(st), Becomes(st), erased' = erased
  PROVE  Store' = st /\ StoreSound(Store)'
<1>1. Store' = st
  BY DEF Store, Becomes, StoreSound, Stores
<1>2. (st \in Stores)' /\ UnderPhone(st)' /\ HasContact(st)'
      /\ PairWasMet(st)' /\ InItsPlace(st)' /\ NotErased(st)'
  BY DEF StoreSound, Stores, UnderPhone, HasContact, PairWasMet, InItsPlace,
         NotErased, FromHistory, KeyOf
<1> QED
  BY <1>1, <1>2 DEF StoreSound

LEMMA StoreUntouched ==
  ASSUME StoreSound(Store), UNCHANGED <<storeVars, erased>>
  PROVE  Store' = Store /\ StoreSound(Store)'
BY BecomesSound DEF Becomes, storeVars, Store

LEMMA RelayUntouched ==
  ASSUME ConvInv, UNCHANGED <<storeVars, relayVars, erased, heard>>
  PROVE  StoreSound(Store)' /\ RelayInv' /\ StatusIsLatest'
<1>1. Store' = Store /\ StoreSound(Store)'
  BY StoreUntouched DEF ConvInv
<1>2. RelayTypes' /\ RelayWasMet'
  BY DEF ConvInv, RelayInv, RelayTypes, RelayWasMet, relayVars, storeVars
<1>3. Sends'
  BY <1>1 DEF ConvInv, RelayInv, Sends, relayVars, IsLive
<1>4. StatusIsLatest'
  BY DEF ConvInv, StatusIsLatest, storeVars
<1> QED
  BY <1>1, <1>2, <1>3, <1>4 DEF RelayInv

(* What an invariant of the sends needs of a step that keeps the live rows.  *)
LEMMA SendsUntouched ==
  ASSUME ConvInv, UNCHANGED <<told, send, heard>>, SameLive(Store, Store'), StoreSound(Store)'
  PROVE  Sends' /\ StatusIsLatest'
<1>0. \A m \in Outs : m \in Msgs
  BY DEF Msgs
<1>1. Sends'
  BY <1>0 DEF ConvInv, RelayInv, Sends, SameLive, IsLive
<1>2. StatusIsLatest'
  <2>1. \A m \in Outs : messages'[m] # NoMessage /\ messages'[m].origin = "live" =>
          /\ messages[m] # NoMessage /\ messages[m].origin = "live"
          /\ messages'[m].status = messages[m].status
    BY <1>0 DEF SameLive, IsLive, Store
  <2> QED
    BY <2>1 DEF ConvInv, StatusIsLatest
<1> QED
  BY <1>1, <1>2

LEMMA MessageArrivesKeeps ==
  ASSUME ConvInv, NEW m \in Msgs, MessageArrives(m)
  PROVE  ConvInv'
<1> DEFINE known == Learned(Store, PhoneIn[m], BsuidIn[m])
           nst == WithLive(known, m, OfMsg(m))
<1>0. m \notin Outs /\ Becomes(nst) /\ log' = log \cup {m}
      /\ UNCHANGED <<told, send, syncVars, erased, aged, heard, convBounds>>
  BY DEF MessageArrives, OfMsg
<1>1. /\ StoreSound(known) /\ SameLive(Store, known)
      /\ \A u \in Bsuids : met[u] \subseteq known.met[u]
      /\ NamesTwo(m) => PhoneIn[m] \in known.met[BsuidIn[m]]
  BY LearnedSound, KeyFacts DEF ConvInv, NamesTwo, Store
<1> HIDE DEF known
<1>2. /\ StoreSound(nst) /\ nst.met = known.met
      /\ \A x \in Msgs \ {m} : nst.messages[x] = known.messages[x]
  BY <1>1, WithLiveSound
<1> HIDE DEF nst
<1>3. Store' = nst /\ StoreSound(Store)'
  BY <1>0, <1>2, BecomesSound
<1>4. RelayTypes' /\ SyncInv' /\ KeyTypes'
  BY <1>0 DEF ConvInv, RelayInv, RelayTypes, SyncInv, SyncTypes, CursorsInside,
              KeyTypes, syncVars
<1>5. RelayWasMet'
  <2>1. met' = nst.met
    BY <1>0 DEF Becomes
  <2>2. ASSUME NEW x \in log', NamesTwo(x)
        PROVE  PhoneIn[x] \in met'[BsuidIn[x]]
    <3>1. CASE x = m
      BY <1>1, <1>2, <2>1, <2>2, <3>1
    <3>2. CASE x \in log
      <4>1. BsuidIn[x] \in Bsuids /\ PhoneIn[x] \in met[BsuidIn[x]]
        BY <2>2, <3>2, KeyFacts DEF ConvInv, RelayInv, RelayTypes, RelayWasMet, NamesTwo
      <4> QED
        BY <1>1, <1>2, <2>1, <4>1
    <3> QED
      BY <1>0, <2>2, <3>1, <3>2
  <2> QED
    BY <2>2 DEF RelayWasMet, NamesTwo
<1>6. \A x \in Outs : /\ IsLive(nst, x) <=> IsLive(Store, x)
                      /\ IsLive(nst, x) => nst.messages[x].status = messages[x].status
  <2>1. \A x \in Outs : x \in Msgs \ {m}
    BY <1>0 DEF Msgs
  <2> QED
    BY <1>1, <1>2, <2>1 DEF SameLive, IsLive, Store
<1>7. Sends'
  BY <1>0, <1>3, <1>6 DEF ConvInv, RelayInv, Sends
<1>8. StatusIsLatest'
  <2>1. messages' = nst.messages
    BY <1>0 DEF Becomes
  <2> QED
    BY <1>0, <1>6, <2>1 DEF ConvInv, StatusIsLatest, IsLive, Store
<1> QED
  BY <1>3, <1>4, <1>5, <1>7, <1>8 DEF ConvInv, RelayInv

LEMMA StatusArrivesKeeps ==
  ASSUME ConvInv, NEW m \in Msgs, NEW s \in Statuses, StatusArrives(m, s)
  PROVE  ConvInv'
<1> DEFINE nst == WithStatus(Store, m, s)
<1>0. /\ Becomes(nst) /\ (m \in Outs => send[m] # "none")
      /\ heard[m] \subseteq (IF s = "failed" THEN {s} ELSE {"delivered", "read"})
      /\ heard' = [heard EXCEPT ![m] = @ \cup {s}]
      /\ told' = [told EXCEPT ![m] = IF s \in ToSet(@) THEN @ ELSE Append(@, s)]
      /\ UNCHANGED <<log, send, syncVars, erased, aged, convBounds>>
  BY DEF StatusArrives
<1>1. /\ StoreSound(nst) /\ nst.met = met
      /\ \A x \in Msgs : /\ IsLive(nst, x) <=> IsLive(Store, x)
                         /\ x # m => nst.messages[x] = messages[x]
      /\ m \in Outs /\ IsLive(Store, m) =>
           nst.messages[m].status = Moved(messages[m].status, s)
  BY WithStatusSound DEF ConvInv, Store
<1> HIDE DEF nst
<1>2. Store' = nst /\ StoreSound(Store)' /\ met' = nst.met /\ messages' = nst.messages
  BY <1>0, <1>1, BecomesSound DEF Becomes
<1>3. /\ told \in [Msgs -> Seq(Statuses)] /\ heard \in [Msgs -> SUBSET Statuses]
      /\ told[m] \in Seq(Statuses)
  BY DEF ConvInv, RelayInv, RelayTypes
<1>4. /\ told'[m] \in Seq(Statuses) /\ ToSet(told'[m]) = ToSet(told[m]) \cup {s}
      /\ \A x \in Msgs \ {m} : told'[x] = told[x]
      /\ told' \in [Msgs -> Seq(Statuses)]
  <2> DEFINE ss == told[m]
  <2>1. ToSet(Append(ss, s)) = ToSet(ss) \cup {s}
    <3>1. /\ DOMAIN ss = 1..Len(ss) /\ Len(ss) \in Nat
          /\ DOMAIN Append(ss, s) = 1..(Len(ss) + 1)
          /\ \A i \in 1..Len(ss) : Append(ss, s)[i] = ss[i]
          /\ Append(ss, s)[Len(ss) + 1] = s
      BY <1>3
    <3>2. 1..(Len(ss) + 1) = (1..Len(ss)) \cup {Len(ss) + 1}
      BY <3>1
    <3> HIDE DEF ss
    <3> QED
      BY <3>1, <3>2 DEF ToSet
  <2>2. Append(ss, s) \in Seq(Statuses)
    BY <1>3
  <2> QED
    BY <1>0, <1>3, <2>1, <2>2
<1>5. /\ heard'[m] = heard[m] \cup {s} /\ \A x \in Msgs \ {m} : heard'[x] = heard[x]
      /\ heard' \in [Msgs -> SUBSET Statuses]
  BY <1>0, <1>3
<1>6. RelayTypes' /\ RelayWasMet' /\ SyncInv' /\ KeyTypes'
  BY <1>0, <1>1, <1>2, <1>4, <1>5 DEF ConvInv, RelayInv, RelayTypes, RelayWasMet,
     SyncInv, SyncTypes, CursorsInside, KeyTypes, syncVars
<1>7. OneOutcome(heard'[m])
  BY <1>0, <1>5 DEF OneOutcome, Statuses
<1>8. Sends'
  <2> SUFFICES ASSUME NEW x \in Outs
               PROVE  /\ OneOutcome(heard'[x])
                      /\ send'[x] \in {"none", "accepted"} =>
                           ToSet(told'[x]) = heard'[x] /\ ~ IsLive(nst, x)
    BY <1>2 DEF Sends
  <2>1. x \in Msgs
    BY DEF Msgs
  <2>2. /\ OneOutcome(heard[x])
        /\ send[x] \in {"none", "accepted"} =>
             ToSet(told[x]) = heard[x] /\ ~ IsLive(Store, x)
    BY DEF ConvInv, RelayInv, Sends
  <2> QED
    BY <1>0, <1>1, <1>4, <1>5, <1>7, <2>1, <2>2
<1>9. StatusIsLatest'
  <2> SUFFICES ASSUME NEW x \in Outs, IsLive(nst, x)
               PROVE  nst.messages[x].status = Latest(heard'[x])
    BY <1>2 DEF StatusIsLatest, Latest, IsLive
  <2>1. x \in Msgs /\ IsLive(Store, x) /\ messages[x].status = Latest(heard[x])
    <3>1. x \in Msgs
      BY DEF Msgs
    <3>2. IsLive(Store, x)
      BY <1>1, <3>1
    <3> QED
      BY <3>1, <3>2 DEF ConvInv, StatusIsLatest, Latest, IsLive, Store
  <2>2. CASE x = m
    <3>1. Moved(Latest(heard[m]), s) = Latest(heard[m] \cup {s})
      BY <1>5, <1>7, LatestMoves
    <3> QED
      BY <1>1, <1>5, <2>1, <2>2, <3>1
  <2>3. CASE x # m
    BY <1>1, <1>5, <2>1, <2>3
  <2> QED
    BY <2>2, <2>3
<1> QED
  BY <1>2, <1>6, <1>8, <1>9 DEF ConvInv, RelayInv

LEMMA MetaAcceptsKeeps ==
  ASSUME ConvInv, NEW m \in Msgs, MetaAccepts(m)
  PROVE  ConvInv'
<1>0. /\ m \in Outs /\ send[m] = "none" /\ send' = [send EXCEPT ![m] = "accepted"]
      /\ UNCHANGED <<storeVars, log, told, syncVars, erased, aged, heard>>
  BY DEF MetaAccepts
<1>1. Store' = Store /\ StoreSound(Store)'
  BY <1>0, StoreUntouched DEF ConvInv
<1>2. RelayTypes' /\ RelayWasMet' /\ SyncInv' /\ KeyTypes' /\ StatusIsLatest'
  BY <1>0 DEF ConvInv, RelayInv, RelayTypes, RelayWasMet, SyncInv, SyncTypes,
     CursorsInside, KeyTypes, syncVars, storeVars, StatusIsLatest
<1>3. Sends'
  BY <1>0, <1>1 DEF ConvInv, RelayInv, RelayTypes, Sends
<1> QED
  BY <1>1, <1>2, <1>3 DEF ConvInv, RelayInv

LEMMA LogOutboundKeeps ==
  ASSUME ConvInv, NEW m \in Msgs, LogOutbound(m)
  PROVE  ConvInv'
<1> DEFINE logged == WithLive(Store, m, OfMsg(m))
           nst == WithStatuses(logged, m, told[m])
<1>0. /\ m \in Outs /\ send[m] = "accepted" /\ send' = [send EXCEPT ![m] = "logged"]
      /\ Becomes(nst)
      /\ UNCHANGED <<log, told, syncVars, erased, aged, heard, convBounds>>
  BY DEF LogOutbound, OfMsg
<1>1. /\ told[m] \in Seq(Statuses) /\ ToSet(told[m]) = heard[m]
      /\ OneOutcome(heard[m]) /\ ~ IsLive(Store, m)
  BY <1>0 DEF ConvInv, RelayInv, RelayTypes, Sends
<1>2. /\ StoreSound(logged) /\ logged.met = met /\ IsLive(logged, m)
      /\ \A x \in Msgs \ {m} : logged.messages[x] = messages[x]
      /\ logged.messages[m].status = "sent"
  BY <1>0, <1>1, WithLiveSound DEF ConvInv, Store
<1> HIDE DEF logged
<1>3. /\ StoreSound(nst) /\ nst.met = logged.met
      /\ \A x \in Msgs : /\ IsLive(nst, x) <=> IsLive(logged, x)
                         /\ x # m => nst.messages[x] = logged.messages[x]
      /\ nst.messages[m].status = Latest(heard[m])
  BY <1>0, <1>1, <1>2, WithStatusesSound
<1> HIDE DEF nst
<1>4. Store' = nst /\ StoreSound(Store)' /\ met' = nst.met /\ messages' = nst.messages
  BY <1>0, <1>3, BecomesSound DEF Becomes
<1>5. RelayTypes' /\ RelayWasMet' /\ SyncInv' /\ KeyTypes'
  BY <1>0, <1>2, <1>3, <1>4 DEF ConvInv, RelayInv, RelayTypes, RelayWasMet,
     SyncInv, SyncTypes, CursorsInside, KeyTypes, syncVars
<1>6. \A x \in Outs \ {m} : /\ x \in Msgs /\ nst.messages[x] = messages[x]
                            /\ IsLive(nst, x) <=> IsLive(Store, x)
                            /\ send'[x] = send[x]
  <2>1. \A x \in Outs : x \in Msgs
    BY DEF Msgs
  <2> QED
    BY <1>0, <1>2, <1>3, <2>1 DEF IsLive, Store
<1>7. Sends'
  <2>1. send'[m] = "logged"
    BY <1>0 DEF ConvInv, RelayInv, RelayTypes
  <2> QED
    BY <1>0, <1>4, <1>6, <2>1 DEF ConvInv, RelayInv, Sends
<1>8. StatusIsLatest'
  <2> SUFFICES ASSUME NEW x \in Outs, IsLive(nst, x)
               PROVE  nst.messages[x].status = Latest(heard[x])
    BY <1>0, <1>4 DEF StatusIsLatest, Latest, IsLive
  <2>1. CASE x = m
    BY <1>3, <2>1
  <2>2. CASE x # m
    BY <1>6, <2>2 DEF ConvInv, StatusIsLatest, Latest, IsLive, Store
  <2> QED
    BY <2>1, <2>2
<1> QED
  BY <1>4, <1>5, <1>7, <1>8 DEF ConvInv, RelayInv

-----------------------------------------------------------------------------
(* The steps of the sync.                                                    *)

LEMMA SyncKeeps ==
  ASSUME ConvInv, UNCHANGED <<storeVars, relayVars, erased, heard, aged>>, SyncInv'
  PROVE  ConvInv'
BY RelayUntouched DEF ConvInv, KeyTypes

LEMMA FirstIsPending ==
  ASSUME Pending # {}
  PROVE  First \in Pending /\ First \in PayloadIds
<1>1. PayloadIds \subseteq Nat
  BY ConversationsAssumption DEF PayloadIds
<1>2. Pending \in SUBSET Nat
  BY <1>1 DEF Pending
<1>3. \E p \in Pending : \A q \in Pending : p <= q
  BY <1>2, LeastOf
<1> QED
  BY <1>3 DEF First, Pending

LEMMA SyncStepsKeep ==
  ASSUME ConvInv,
         \/ \E p \in PayloadIds : Capture(p)
         \/ SyncWakes \/ SharingOffRecorded \/ LookupFails
         \/ SliceFails \/ Parks \/ NothingPending
  PROVE  ConvInv'
<1>0. SyncTypes /\ CursorsInside /\ SliceSize \in Nat \ {0} /\ MaxSyncTries \in Nat
  BY ConversationsAssumption DEF ConvInv, SyncInv
<1>1. ASSUME NEW p \in PayloadIds, Capture(p) PROVE ConvInv'
  <2>1. SyncInv'
    BY <1>0, <1>1 DEF Capture, SyncInv, SyncTypes, CursorsInside
  <2> QED
    BY <1>1, <2>1, SyncKeeps DEF Capture
<1>2. CASE SyncWakes
  <2>1. SyncInv'
    BY <1>0, <1>2 DEF SyncWakes, SyncInv, SyncTypes, CursorsInside
  <2> QED
    BY <1>2, <2>1, SyncKeeps DEF SyncWakes
<1>3. CASE SharingOffRecorded
  <2>0. /\ sharingOff' = FALSE /\ payload' = payload /\ applied' = applied
        /\ sync' = "window" \/ sync' = "idle"
        /\ budget' = budget \/ budget' = 0
    BY <1>3 DEF SharingOffRecorded
  <2>1. budget' \in 0..SliceSize /\ sync' \in {"idle", "window"}
    BY <1>0, <2>0 DEF SyncTypes
  <2>2. CursorsInside' /\ sharingOff' \in BOOLEAN
    BY <1>0, <2>0 DEF CursorsInside
  <2>3. SyncInv'
    BY <1>0, <2>0, <2>1, <2>2 DEF SyncInv, SyncTypes
  <2> QED
    BY <1>3, <2>3, SyncKeeps DEF SharingOffRecorded
<1>4. CASE LookupFails
  <2>1. SyncInv'
    BY <1>0, <1>4 DEF LookupFails, SyncInv, SyncTypes, CursorsInside
  <2> QED
    BY <1>4, <2>1, SyncKeeps DEF LookupFails
<1>5. CASE SliceFails
  <2>1. First \in PayloadIds /\ payload[First].tries < MaxSyncTries
    BY <1>5, FirstIsPending DEF SliceFails, CanApply
  <2>2. payload' = [payload EXCEPT ![First].tries = @ + 1]
        /\ sync' = "idle" /\ budget' = 0 /\ sharingOff' = sharingOff
        /\ applied' = applied
    BY <1>5 DEF SliceFails
  <2> DEFINE row == [payload[First] EXCEPT !.tries = @ + 1]
  <2>3. /\ row \in [state : {"none", "pending", "done", "parked"},
                    cursor : Nat, tries : 0..MaxSyncTries]
        /\ row.cursor = payload[First].cursor
    BY <1>0, <2>1 DEF SyncTypes
  <2>4. payload' = [payload EXCEPT ![First] = row]
    BY <1>0, <2>1, <2>2 DEF SyncTypes
  <2> HIDE DEF row
  <2>5. \A p \in PayloadIds : payload'[p].cursor = payload[p].cursor
    BY <1>0, <2>1, <2>3, <2>4 DEF SyncTypes
  <2>6. CursorsInside'
    BY <1>0, <2>5 DEF CursorsInside
  <2>7. SyncTypes'
    BY <1>0, <2>1, <2>2, <2>3, <2>4 DEF SyncTypes
  <2> QED
    BY <1>5, <2>6, <2>7, SyncKeeps DEF SliceFails, SyncInv
<1>6. CASE Parks
  <2>1. First \in PayloadIds
    BY <1>6, FirstIsPending DEF Parks
  <2>2. SyncInv'
    BY <1>0, <1>6, <2>1 DEF Parks, SyncInv, SyncTypes, CursorsInside
  <2> QED
    BY <1>6, <2>2, SyncKeeps DEF Parks
<1>7. CASE NothingPending
  <2>1. SyncInv'
    BY <1>0, <1>7 DEF NothingPending, SyncInv, SyncTypes, CursorsInside
  <2> QED
    BY <1>7, <2>1, SyncKeeps DEF NothingPending
<1> QED
  BY <1>1, <1>2, <1>3, <1>4, <1>5, <1>6, <1>7

(* The items of a slice up to a refusal are items.                           *)
LEMMA BeforeIsItems ==
  ASSUME NEW items \in Seq(Items)
  PROVE  Before(items) \in Seq(Items) /\ Len(Before(items)) <= Len(items)
<1> DEFINE off == {i \in DOMAIN items : items[i].kind = "off"}
<1>1. CASE off = {}
  BY <1>1 DEF Before
<1>2. CASE off # {}
  <2> DEFINE first == CHOOSE i \in off : \A j \in off : i <= j
  <2>1. off \in SUBSET Nat
    OBVIOUS
  <2>2. \E i \in off : \A j \in off : i <= j
    <3> HIDE DEF off
    <3> QED
      BY <1>2, <2>1, LeastOf
  <2>3. first \in off
    BY <2>2
  <2>4. first \in 1..Len(items)
    BY <2>3
  <2>5. Before(items) = SubSeq(items, 1, first)
    BY <1>2 DEF Before
  <2> HIDE DEF first
  <2> QED
    BY <2>4, <2>5
<1> QED
  BY <1>1, <1>2

LEMMA SliceAppliedKeeps ==
  ASSUME ConvInv, SliceApplied
  PROVE  ConvInv'
<1> DEFINE p == First
           from == payload[p].cursor
           upto == IF from + budget < Len(Payloads[p]) THEN from + budget
                                                       ELSE Len(Payloads[p])
           ends == upto = Len(Payloads[p]) /\ from + budget > upto
           done == Before(SubSeq(Payloads[p], from + 1, upto))
           off == \E i \in DOMAIN done : done[i].kind = "off"
           nst == AllApplied(Store, done)
<1>0. /\ Pending # {} /\ Becomes(nst)
      /\ payload' = [payload EXCEPT ![p] =
           [state |-> IF upto = Len(Payloads[p]) THEN "done" ELSE "pending",
            cursor |-> upto, tries |-> 0]]
      /\ applied' = applied \cup {<<p, from + i>> : i \in DOMAIN done}
      /\ sharingOff' = (sharingOff \/ off)
      /\ sync' = (IF off THEN "after" ELSE IF ends THEN "window" ELSE "idle")
      /\ budget' = (IF ~off /\ ends THEN budget - (upto - from) ELSE 0)
      /\ UNCHANGED <<relayVars, erased, aged, heard>>
  BY DEF SliceApplied
<1>1. /\ p \in PayloadIds /\ Payloads[p] \in Seq(Items) /\ from \in Nat
      /\ from <= Len(Payloads[p]) /\ budget \in 0..SliceSize /\ SliceSize \in Nat
      /\ Len(Payloads[p]) \in Nat
  <2>1. p \in PayloadIds
    BY <1>0, FirstIsPending
  <2> HIDE DEF p
  <2>2. Payloads[p] \in Seq(Items)
    BY <2>1, ConversationsAssumption DEF PayloadIds
  <2>3. payload[p].cursor \in Nat /\ payload[p].cursor <= Len(Payloads[p])
    BY <2>1 DEF ConvInv, SyncInv, SyncTypes, CursorsInside
  <2> QED
    BY <2>1, <2>2, <2>3, ConversationsAssumption DEF ConvInv, SyncInv, SyncTypes
<1>2. upto \in Nat /\ from <= upto /\ upto <= Len(Payloads[p]) /\ upto <= from + budget
  BY <1>1
<1>3. SubSeq(Payloads[p], from + 1, upto) \in Seq(Items)
  <2> HIDE DEF from, upto, p
  <2> QED
    BY <1>1, <1>2
<1>4. done \in Seq(Items)
  BY <1>3, BeforeIsItems
<1> HIDE DEF done, nst, upto
<1>5. StoreSound(nst) /\ SameLive(Store, nst) /\ MetGrows(Store, nst)
  BY <1>4, AllAppliedSound DEF ConvInv, nst
<1>6. Store' = nst /\ StoreSound(Store)'
  BY <1>0, <1>5, BecomesSound
<1>7. Sends' /\ StatusIsLatest'
  BY <1>0, <1>5, <1>6, SendsUntouched DEF relayVars
<1>8. RelayTypes' /\ KeyTypes'
  BY <1>0 DEF ConvInv, RelayInv, RelayTypes, KeyTypes, relayVars
<1>9. SyncInv'
  <2>1. payload' \in [PayloadIds -> [state : {"none", "pending", "done", "parked"},
                                     cursor : Nat, tries : 0..MaxSyncTries]]
    BY <1>0, <1>1, <1>2, ConversationsAssumption DEF ConvInv, SyncInv, SyncTypes
  <2>2. CursorsInside'
    BY <1>0, <1>1, <1>2 DEF ConvInv, SyncInv, SyncTypes, CursorsInside
  <2>3. sync' \in {"idle", "report", "window", "after"} /\ sharingOff' \in BOOLEAN
    BY <1>0 DEF ConvInv, SyncInv, SyncTypes
  <2>4. budget' \in 0..SliceSize
    BY <1>0, <1>1, <1>2
  <2>5. applied' \subseteq PayloadIds \X Nat
    <3>1. \A i \in DOMAIN done : <<p, from + i>> \in PayloadIds \X Nat
      <4>1. \A i \in DOMAIN done : i \in Nat
        BY <1>4
      <4> QED
        BY <1>1, <4>1
    <3> QED
      BY <1>0, <3>1 DEF ConvInv, SyncInv, SyncTypes
  <2> QED
    BY <2>1, <2>2, <2>3, <2>4, <2>5 DEF SyncInv, SyncTypes
<1>10. RelayWasMet'
  <2>1. \A u \in Bsuids : met[u] \subseteq met'[u]
    BY <1>0, <1>5 DEF MetGrows, Becomes, Store
  <2> QED
    BY <1>0, <2>1, KeyFacts DEF ConvInv, RelayInv, RelayTypes, RelayWasMet, relayVars
<1> QED
  BY <1>6, <1>7, <1>8, <1>9, <1>10 DEF ConvInv, RelayInv

-----------------------------------------------------------------------------
(* The steps that take from the store: a replay, erasures and retention.     *)

(* Rows, contacts and pairs go, and none goes that another relies on.        *)
StoreShrinks ==
  /\ messages' \in [Msgs -> MessageRow \cup {NoMessage}]
  /\ contacts' \in [Keys -> ContactRow] /\ met' = met
  /\ pairs' \in [Bsuids -> Phones \cup {NoKey}]
  /\ \A m \in Msgs : messages'[m] = messages[m] \/ messages'[m] = NoMessage
  /\ \A m \in Msgs : messages'[m] # NoMessage =>
       contacts'[messages[m].key] # "none"
  /\ \A k \in Keys : contacts[k] = "none" => contacts'[k] = "none"
  /\ \A u \in Bsuids : pairs'[u] = pairs[u] \/ pairs'[u] = NoKey
  /\ \A m \in Msgs, u \in Bsuids :
       /\ messages'[m] # NoMessage /\ messages[m].origin = "history"
       /\ OfMsg(m) = u /\ OnePhone(met, u) /\ messages[m].key = pairs[u]
       => pairs'[u] = pairs[u]
  /\ \A m \in Msgs :
       /\ messages'[m] # NoMessage /\ messages[m].origin = "history"
       /\ OfMsg(m) \in Bsuids => OnePhone(met, OfMsg(m))
       => OfMsg(m) \notin erased'

LEMMA ShrunkSound ==
  ASSUME StoreSound(Store), StoreShrinks
  PROVE  StoreSound(Store)'
<1>1. /\ Store'.messages = messages' /\ Store'.contacts = contacts'
      /\ Store'.pairs = pairs' /\ Store'.met = met
      /\ Store' \in Stores
  BY StoreIs DEF Store, Stores, StoreShrinks
<1>2. /\ UnderPhone(Store) /\ HasContact(Store) /\ PairWasMet(Store)
      /\ InItsPlace(Store)
  BY DEF StoreSound
<1>3. \A u \in Bsuids : u \in Keys
  BY DEF Keys
<1>4. \A m \in Msgs : FromHistory(Store', m) =>
        /\ FromHistory(Store, m) /\ messages'[m] = messages[m]
        /\ messages'[m] # NoMessage /\ messages[m].origin = "history"
  BY <1>1, StoreIs DEF FromHistory, StoreShrinks
<1>5. UnderPhone(Store')
  <2> SUFFICES ASSUME NEW u \in Bsuids, pairs'[u] # NoKey
               PROVE  contacts'[u] = "none" /\ \A m \in Msgs : messages'[m].key # u
    BY <1>1 DEF UnderPhone
  <2>1. contacts[u] = "none" /\ \A m \in Msgs : messages[m].key # u
    BY <1>2, StoreIs DEF UnderPhone, StoreShrinks
  <2>2. NoMessage.key # u
    BY <1>3, ConversationsAssumption DEF NoMessage
  <2> QED
    BY <1>3, <2>1, <2>2 DEF StoreShrinks
<1>6. HasContact(Store') /\ PairWasMet(Store')
  BY <1>1, <1>2, StoreIs DEF HasContact, PairWasMet, StoreShrinks
<1>7. InItsPlace(Store')
  <2> SUFFICES ASSUME NEW m \in Msgs, FromHistory(Store', m)
               PROVE  /\ OfMsg(m) \in Phones => messages'[m].key = OfMsg(m)
                      /\ OfMsg(m) \in Bsuids /\ OnePhone(met, OfMsg(m)) =>
                           messages'[m].key = KeyOf(Store', OfMsg(m))
    BY <1>1 DEF InItsPlace
  <2>1. /\ OfMsg(m) \in Phones => messages[m].key = OfMsg(m)
        /\ OfMsg(m) \in Bsuids /\ OnePhone(met, OfMsg(m)) =>
             messages[m].key = KeyOf(Store, OfMsg(m))
    BY <1>2, <1>4, StoreIs DEF InItsPlace
  <2>2. ASSUME OfMsg(m) \in Bsuids, OnePhone(met, OfMsg(m))
        PROVE  messages[m].key = KeyOf(Store', OfMsg(m))
    <3> DEFINE u == OfMsg(m)
    <3>1. pairs'[u] = pairs[u] \/ pairs'[u] = NoKey
      BY <2>2 DEF StoreShrinks
    <3>2. CASE pairs[u] = NoKey
      BY <1>1, <2>1, <2>2, <3>1, <3>2, StoreIs DEF KeyOf
    <3>3. CASE pairs[u] # NoKey
      <4>1. messages[m].key = pairs[u]
        BY <2>1, <2>2, <3>3, StoreIs DEF KeyOf
      <4>2. pairs'[u] = pairs[u]
        BY <1>4, <2>2, <4>1 DEF StoreShrinks
      <4> QED
        BY <1>1, <2>2, <3>3, <4>1, <4>2 DEF KeyOf
    <3> QED
      BY <3>2, <3>3
  <2> QED
    BY <1>4, <2>1, <2>2
<1>8. NotErased(Store)'
  BY <1>1, <1>4 DEF NotErased, StoreShrinks, FromHistory
<1> QED
  BY <1>1, <1>5, <1>6, <1>7, <1>8
     DEF StoreSound, UnderPhone, HasContact, PairWasMet, InItsPlace, FromHistory, KeyOf

(* A send keeps its status or loses its row.                                 *)
LEMMA ShrunkSends ==
  ASSUME StatusIsLatest, heard' = heard,
         \A m \in Msgs : messages'[m] = messages[m] \/ messages'[m] = NoMessage
  PROVE  StatusIsLatest'
<1>1. \A m \in Outs : m \in Msgs
  BY DEF Msgs
<1> QED
  BY <1>1 DEF StatusIsLatest

LEMMA ReprocessKeeps ==
  ASSUME ConvInv, ReprocessPayloads
  PROVE  ConvInv'
<1> DEFINE kept == [m \in Msgs |-> IF messages[m].origin = "history"
                                   THEN NoMessage ELSE messages[m]]
           known == {kept[m].key : m \in Msgs}
<1>0. /\ messages' = kept
      /\ contacts' = [k \in Keys |->
           IF contacts[k] = "noname" /\ k \notin known THEN "none"
           ELSE IF contacts[k] = "book" THEN Unnamed(contacts[k])
           ELSE contacts[k]]
      /\ payload' = [p \in PayloadIds |->
           IF payload[p].state = "none" THEN payload[p]
           ELSE [state |-> "pending", cursor |-> 0, tries |-> 0]]
      /\ applied' = {}
      /\ UNCHANGED <<pairs, met, relayVars, sharingOff, sync, budget, erased, aged, heard>>
  BY DEF ReprocessPayloads
<1>1. StoreSound(Store) /\ RelayTypes /\ RelayWasMet /\ Sends /\ SyncTypes
      /\ CursorsInside /\ KeyTypes /\ StatusIsLatest
  BY DEF ConvInv, RelayInv, SyncInv
<1>2. \A m \in Msgs : /\ messages'[m] = IF messages[m].origin = "history"
                                        THEN NoMessage ELSE messages[m]
                      /\ messages'[m].key \in known
  BY <1>0
<1> HIDE DEF known, kept
<1>3. \A m \in Msgs : messages'[m] # NoMessage =>
        /\ messages'[m] = messages[m] /\ messages[m].origin # "history"
        /\ messages[m].key \in known
        /\ messages[m].key \in Keys /\ contacts[messages[m].key] # "none"
  BY <1>1, <1>2, StoreIs, RowFacts DEF StoreSound, HasContact
<1>4. \A k \in Keys : /\ contacts'[k] \in ContactRow
                      /\ contacts[k] = "none" => contacts'[k] = "none"
                      /\ contacts[k] # "none" /\ k \in known => contacts'[k] # "none"
  BY <1>0, <1>1, StoreIs DEF Unnamed, ContactRow
<1>5. StoreShrinks
  <2>1. contacts' \in [Keys -> ContactRow]
    BY <1>0, <1>4
  <2>2. messages' \in [Msgs -> MessageRow \cup {NoMessage}]
    BY <1>0, <1>1, <1>2, StoreIs DEF kept
  <2> QED
    BY <1>0, <1>1, <1>2, <1>3, <1>4, <2>1, <2>2, StoreIs DEF StoreShrinks
<1>6. StoreSound(Store)' /\ StatusIsLatest'
  BY <1>0, <1>1, <1>2, <1>5, ShrunkSound, ShrunkSends
<1>7. RelayTypes' /\ RelayWasMet' /\ KeyTypes'
  BY <1>0, <1>1 DEF RelayTypes, RelayWasMet, KeyTypes, relayVars
<1>8. Sends'
  <2>1. \A m \in Outs : m \in Msgs
    BY DEF Msgs
  <2> QED
    BY <1>0, <1>1, <1>3, <2>1 DEF Sends, IsLive, Store, relayVars
<1>9. SyncInv'
  <2>1. \A p \in PayloadIds : payload'[p].cursor <= Len(Payloads[p])
    <3>1. \A p \in PayloadIds : Len(Payloads[p]) \in Nat
      BY ConversationsAssumption DEF PayloadIds
    <3> QED
      BY <1>0, <1>1, <3>1 DEF CursorsInside
  <2>2. SyncTypes'
    BY <1>0, <1>1, ConversationsAssumption DEF SyncTypes
  <2> QED
    BY <2>1, <2>2 DEF SyncInv, CursorsInside
<1> QED
  BY <1>6, <1>7, <1>8, <1>9 DEF ConvInv, RelayInv

(* What an erasure does, with the keys it ends with.                         *)
Erasing(keys, wamids, waIds) ==
  /\ erased' = erased \cup keys
  /\ pairs' = [u \in Bsuids |->
                 IF u \in keys \/ pairs[u] \in keys THEN NoKey ELSE pairs[u]]
  /\ log' = log \ wamids /\ send' = Dropped(wamids)
  /\ told' = [m \in Msgs |-> IF m \in wamids THEN <<>> ELSE told[m]]
  /\ messages' = [m \in Msgs |-> IF messages[m].key \in waIds THEN NoMessage
                                                              ELSE messages[m]]
  /\ contacts' = [k \in Keys |-> IF k \in waIds THEN "none" ELSE contacts[k]]
  /\ UNCHANGED <<met, syncVars, aged, heard>>
  /\ Whole(keys) /\ Widened(keys) = keys
  /\ wamids = {m \in log \cup Logged : {PhoneIn[m], BsuidIn[m]} \cap keys # {}}
  /\ keys \subseteq waIds /\ NoKey \notin waIds

LEMMA EraseIs ==
  ASSUME ConvInv, NEW key \in Keys, EraseByPhone(key)
  PROVE  \E keys, wamids, waIds : Erasing(keys, wamids, waIds)
<1> DEFINE keys == AllWidened(Linked(key))
           wamids == {m \in log \cup Logged : {PhoneIn[m], BsuidIn[m]} \cap keys # {}}
           waIds == keys \cup ({messages[m].key : m \in wamids} \ {NoKey})
<1>1. StoreFacts
  BY DEF StoreFacts, ConvInv, RelayInv, RelayTypes
<1>2. Whole(keys) /\ Widened(keys) = keys
  BY <1>1, LinkedWhole, AllWidenedFacts DEF StoreFacts
<1>3. keys \subseteq waIds /\ NoKey \notin waIds
  BY <1>2, ConversationsAssumption DEF Whole
<1>4. Erasing(keys, wamids, waIds)
  BY <1>2, <1>3 DEF Erasing, EraseByPhone
<1> QED
  BY <1>4

LEMMA EraseKeeps ==
  ASSUME ConvInv, NEW keys, NEW wamids, NEW waIds, Erasing(keys, wamids, waIds)
  PROVE  ConvInv'
<1>1. StoreSound(Store) /\ RelayTypes /\ RelayWasMet /\ Sends /\ SyncTypes
      /\ CursorsInside /\ KeyTypes /\ StatusIsLatest
  BY DEF ConvInv, RelayInv, SyncInv
<1>2. keys \subseteq Keys /\ keys \subseteq waIds /\ NoKey \notin waIds
  BY DEF Erasing, Whole
<1>3. \A m \in Msgs : messages'[m] = IF messages[m].key \in waIds THEN NoMessage
                                                                  ELSE messages[m]
  BY DEF Erasing
<1>4. \A m \in Msgs : messages'[m] # NoMessage =>
        /\ messages'[m] = messages[m] /\ messages[m].key \notin waIds
        /\ messages[m].key \in Keys /\ contacts[messages[m].key] # "none"
  BY <1>1, <1>3, StoreIs, RowFacts DEF StoreSound, HasContact
<1>5. \A k \in Keys : contacts'[k] = IF k \in waIds THEN "none" ELSE contacts[k]
  BY DEF Erasing
(* A row of a BSUID with one phone goes with the BSUID.                      *)
<1>6. ASSUME NEW m \in Msgs, messages'[m] # NoMessage,
             messages[m].origin = "history",
             OfMsg(m) \in Bsuids => OnePhone(met, OfMsg(m))
      PROVE  /\ OfMsg(m) \notin keys
             /\ OfMsg(m) \in Bsuids /\ messages[m].key = pairs[OfMsg(m)] =>
                  pairs[OfMsg(m)] \notin keys
  <2>1. FromHistory(Store, m)
    BY <1>1, <1>4, <1>6, StoreIs DEF FromHistory
  <2>2. /\ OfMsg(m) \in Phones => messages[m].key = OfMsg(m)
        /\ OfMsg(m) \in Bsuids => messages[m].key = KeyOf(Store, OfMsg(m))
    BY <1>1, <1>6, <2>1, StoreIs DEF StoreSound, InItsPlace
  <2>3. messages[m].key \notin keys
    BY <1>2, <1>4, <1>6
  <2>4. CASE OfMsg(m) \in Phones
    BY <2>2, <2>3, <2>4, ConversationsAssumption
  <2>5. CASE OfMsg(m) \in Bsuids
    <3>1. CASE pairs[OfMsg(m)] = NoKey
      BY <1>1, <2>2, <2>3, <2>5, <3>1, StoreIs DEF KeyOf
    <3>2. CASE pairs[OfMsg(m)] # NoKey
      <4>1. messages[m].key = pairs[OfMsg(m)]
        BY <1>1, <2>2, <2>5, <3>2, StoreIs DEF KeyOf
      <4> QED
        BY <1>6, <2>3, <2>5, <3>2, <4>1 DEF Erasing, Whole
    <3> QED
      BY <3>1, <3>2
  <2> QED
    BY <2>4, <2>5, KeyFacts DEF Keys
<1>7. \A m \in Msgs :
        /\ messages'[m] # NoMessage /\ messages[m].origin = "history"
        /\ OfMsg(m) \in Bsuids => OnePhone(met, OfMsg(m))
        => OfMsg(m) \notin erased'
  <2> SUFFICES ASSUME NEW m \in Msgs, messages'[m] # NoMessage,
                      messages[m].origin = "history",
                      OfMsg(m) \in Bsuids => OnePhone(met, OfMsg(m))
               PROVE  OfMsg(m) \notin erased'
    OBVIOUS
  <2>1. FromHistory(Store, m)
    BY <1>1, <1>4, StoreIs DEF FromHistory
  <2>2. OfMsg(m) \notin erased
    BY <1>1, <2>1, StoreIs DEF StoreSound, NotErased
  <2> QED
    BY <1>6, <2>2 DEF Erasing
<1>8. \A m \in Msgs, u \in Bsuids :
        /\ messages'[m] # NoMessage /\ messages[m].origin = "history"
        /\ OfMsg(m) = u /\ OnePhone(met, u) /\ messages[m].key = pairs[u]
        => pairs'[u] = pairs[u]
  BY <1>6 DEF Erasing
<1>9. StoreShrinks
  <2>1. /\ messages' \in [Msgs -> MessageRow \cup {NoMessage}]
        /\ contacts' \in [Keys -> ContactRow] /\ met' = met
        /\ pairs' \in [Bsuids -> Phones \cup {NoKey}]
    BY <1>1, StoreIs DEF Erasing, ContactRow
  <2>2. /\ \A m \in Msgs : messages'[m] = messages[m] \/ messages'[m] = NoMessage
        /\ \A m \in Msgs : messages'[m] # NoMessage =>
             contacts'[messages[m].key] # "none"
        /\ \A k \in Keys : contacts[k] = "none" => contacts'[k] = "none"
    BY <1>3, <1>4, <1>5
  <2>3. \A u \in Bsuids : pairs'[u] = pairs[u] \/ pairs'[u] = NoKey
    BY DEF Erasing
  <2> QED
    BY <1>7, <1>8, <2>1, <2>2, <2>3 DEF StoreShrinks
<1>10. StoreSound(Store)' /\ StatusIsLatest'
  <2>1. heard' = heard
    BY DEF Erasing
  <2> QED
    BY <1>1, <1>3, <1>9, <2>1, ShrunkSound, ShrunkSends
<1>11. RelayTypes' /\ RelayWasMet'
  BY <1>1 DEF Erasing, RelayTypes, RelayWasMet, Dropped
<1>12. Sends'
  <2> SUFFICES ASSUME NEW m \in Outs
               PROVE  /\ OneOutcome(heard'[m])
                      /\ send'[m] \in {"none", "accepted"} =>
                           ToSet(told'[m]) = heard'[m] /\ ~ IsLive(Store', m)
    BY DEF Sends
  <2>1. m \in Msgs
    BY DEF Msgs
  <2>2. send'[m] = (IF m \in wamids THEN "dropped" ELSE send[m]) /\ heard' = heard
        /\ told'[m] = IF m \in wamids THEN <<>> ELSE told[m]
    BY <2>1 DEF Erasing, Dropped
  <2>3. ~ IsLive(Store, m) => ~ IsLive(Store', m)
    BY <1>3, <2>1 DEF IsLive, Store, NoMessage
  <2> QED
    BY <1>1, <2>2, <2>3 DEF Sends
<1>13. SyncInv' /\ KeyTypes'
  BY <1>1, <1>2 DEF Erasing, SyncInv, SyncTypes, CursorsInside, KeyTypes, syncVars
<1> QED
  BY <1>10, <1>11, <1>12, <1>13 DEF ConvInv, RelayInv

LEMMA AgesKeeps ==
  ASSUME ConvInv, NEW m \in Msgs, MessageAges(m)
  PROVE  ConvInv'
<1>1. StoreSound(Store)' /\ RelayInv' /\ StatusIsLatest'
  BY RelayUntouched DEF MessageAges
<1>2. SyncInv' /\ KeyTypes'
  BY DEF MessageAges, ConvInv, SyncInv, SyncTypes, CursorsInside, KeyTypes, syncVars
<1> QED
  BY <1>1, <1>2 DEF ConvInv

LEMMA PruneConversationsKeeps ==
  ASSUME ConvInv, PruneConversations
  PROVE  ConvInv'
<1> DEFINE kept == [m \in Msgs |-> IF m \in aged THEN NoMessage ELSE messages[m]]
           known == {kept[m].key : m \in Msgs}
           left == [k \in Keys |-> IF k \in known \/ contacts[k] \in {"book", "blank"}
                                   THEN contacts[k] ELSE "none"]
<1>0. /\ messages' = kept /\ contacts' = left
      /\ pairs' = [u \in Bsuids |->
           IF pairs[u] # NoKey /\ left[pairs[u]] = "none" THEN NoKey ELSE pairs[u]]
      /\ UNCHANGED <<met, relayVars, syncVars, erased, aged, heard>>
  BY DEF PruneConversations
<1>1. StoreSound(Store) /\ RelayTypes /\ RelayWasMet /\ Sends /\ SyncTypes
      /\ CursorsInside /\ KeyTypes /\ StatusIsLatest
  BY DEF ConvInv, RelayInv, SyncInv
<1>2. \A m \in Msgs : /\ messages'[m] = IF m \in aged THEN NoMessage ELSE messages[m]
                      /\ messages'[m].key \in known
  BY <1>0
<1>3. \A k \in Keys : contacts'[k] = left[k] /\
        left[k] = IF k \in known \/ contacts[k] \in {"book", "blank"}
                  THEN contacts[k] ELSE "none"
  BY <1>0
<1> HIDE DEF known, kept
<1>4. \A m \in Msgs : messages'[m] # NoMessage =>
        /\ messages'[m] = messages[m]
        /\ messages[m].key \in known /\ messages[m].key \in Keys
        /\ contacts[messages[m].key] # "none"
  BY <1>1, <1>2, StoreIs, RowFacts DEF StoreSound, HasContact
<1>5. \A m \in Msgs : messages'[m] # NoMessage =>
        /\ contacts'[messages[m].key] # "none" /\ left[messages[m].key] # "none"
  BY <1>3, <1>4
<1>6. StoreShrinks
  <2>1. /\ messages' \in [Msgs -> MessageRow \cup {NoMessage}]
        /\ contacts' \in [Keys -> ContactRow] /\ met' = met
    BY <1>0, <1>1, StoreIs DEF kept, ContactRow
  <2> HIDE DEF left
  <2>2. /\ pairs' \in [Bsuids -> Phones \cup {NoKey}]
        /\ \A u \in Bsuids : pairs'[u] = pairs[u] \/ pairs'[u] = NoKey
    BY <1>0, <1>1, StoreIs
  <2>3. \A m \in Msgs, u \in Bsuids :
          messages'[m] # NoMessage /\ messages[m].key = pairs[u] => pairs'[u] = pairs[u]
    BY <1>0, <1>5
  <2>4. \A m \in Msgs : messages'[m] = messages[m] \/ messages'[m] = NoMessage
    BY <1>2
  <2>5. \A k \in Keys : contacts[k] = "none" => contacts'[k] = "none"
    BY <1>3
  <2>6. \A m \in Msgs :
          /\ messages'[m] # NoMessage /\ messages[m].origin = "history"
          /\ OfMsg(m) \in Bsuids => OnePhone(met, OfMsg(m))
          => OfMsg(m) \notin erased'
    BY <1>0, <1>1, <1>4, StoreIs DEF StoreSound, NotErased, FromHistory
  <2> QED
    BY <1>5, <2>1, <2>2, <2>3, <2>4, <2>5, <2>6 DEF StoreShrinks
<1>7. StoreSound(Store)' /\ StatusIsLatest'
  BY <1>0, <1>1, <1>2, <1>6, ShrunkSound, ShrunkSends
<1>8. RelayTypes' /\ RelayWasMet' /\ KeyTypes' /\ SyncInv'
  BY <1>0, <1>1 DEF RelayTypes, RelayWasMet, KeyTypes, SyncInv, SyncTypes,
     CursorsInside, relayVars, syncVars
<1>9. Sends'
  <2>1. \A m \in Outs : m \in Msgs
    BY DEF Msgs
  <2> QED
    BY <1>0, <1>1, <1>4, <2>1 DEF Sends, IsLive, Store, relayVars
<1> QED
  BY <1>7, <1>8, <1>9 DEF ConvInv, RelayInv

LEMMA PruneRelayKeeps ==
  ASSUME ConvInv, NEW m \in Msgs, PruneRelay(m)
  PROVE  ConvInv'
<1>0. /\ m \in log \cup Logged /\ log' = log \ {m} /\ send' = Dropped({m})
      /\ told' = [told EXCEPT ![m] = <<>>]
      /\ UNCHANGED <<storeVars, syncVars, erased, aged, heard>>
  BY DEF PruneRelay
<1>1. Store' = Store /\ StoreSound(Store)'
  BY <1>0, StoreUntouched DEF ConvInv
<1>2. RelayTypes' /\ RelayWasMet' /\ SyncInv' /\ KeyTypes' /\ StatusIsLatest'
  BY <1>0 DEF ConvInv, RelayInv, RelayTypes, RelayWasMet, SyncInv, SyncTypes, Dropped,
     CursorsInside, KeyTypes, syncVars, storeVars, StatusIsLatest
<1>3. Sends'
  <2> SUFFICES ASSUME NEW x \in Outs
               PROVE  /\ OneOutcome(heard'[x])
                      /\ send'[x] \in {"none", "accepted"} =>
                           ToSet(told'[x]) = heard'[x] /\ ~ IsLive(Store', x)
    BY DEF Sends
  <2>1. x \in Msgs /\ heard' = heard
    BY <1>0 DEF Msgs
  <2>2. send'[x] = IF x = m THEN "dropped" ELSE send[x]
    BY <1>0 DEF Dropped
  <2>3. x # m => told'[x] = told[x]
    BY <1>0, <2>1 DEF ConvInv, RelayInv, RelayTypes
  <2> QED
    BY <1>1, <2>1, <2>2, <2>3 DEF ConvInv, RelayInv, Sends
<1> QED
  BY <1>1, <1>2, <1>3 DEF ConvInv, RelayInv

-----------------------------------------------------------------------------
(* The invariant of the conversation store, and what follows from it.        *)

LEMMA ConvInvInit == ConversationsInit => ConvInv
<1> SUFFICES ASSUME ConversationsInit PROVE ConvInv
  OBVIOUS
<1>1. \A m \in Msgs : messages[m] = NoMessage
  BY DEF ConversationsInit
<1>2. Store \in Stores
  BY DEF Store, Stores, ConversationsInit, ContactRow
<1>3. \A m \in Msgs : ~ FromHistory(Store, m) /\ ~ IsLive(Store, m)
  BY <1>1 DEF FromHistory, IsLive, Store
<1>4. StoreSound(Store)
  <2>1. UnderPhone(Store) /\ PairWasMet(Store)
    BY DEF UnderPhone, PairWasMet, Store, ConversationsInit
  <2>2. HasContact(Store)
    BY <1>1 DEF HasContact, Store
  <2> QED
    BY <1>2, <1>3, <2>1, <2>2 DEF StoreSound, InItsPlace, NotErased
<1>5. RelayTypes /\ RelayWasMet
  BY DEF ConversationsInit, RelayTypes, RelayWasMet
<1>6. Sends
  <2>1. ToSet(<<>>) = {}
    BY DEF ToSet
  <2>2. \A m \in Outs : heard[m] = {} /\ told[m] = <<>> /\ m \in Msgs
    BY DEF ConversationsInit, Msgs
  <2> QED
    BY <1>3, <2>1, <2>2 DEF Sends, OneOutcome
<1>7. SyncInv /\ KeyTypes
  <2>1. \A p \in PayloadIds : Len(Payloads[p]) \in Nat
    BY ConversationsAssumption DEF PayloadIds
  <2>2. payload \in [PayloadIds -> [state : {"none", "pending", "done", "parked"},
                                   cursor : Nat, tries : 0..MaxSyncTries]]
    BY ConversationsAssumption DEF ConversationsInit
  <2>3. CursorsInside
    BY <2>1 DEF ConversationsInit, CursorsInside
  <2>4. budget \in 0..SliceSize
    BY ConversationsAssumption DEF ConversationsInit
  <2>5. KeyTypes /\ applied \subseteq PayloadIds \X Nat
    BY DEF ConversationsInit, KeyTypes
  <2>6. sharingOff \in BOOLEAN /\ sync \in {"idle", "report", "window", "after"}
    BY DEF ConversationsInit
  <2> QED
    BY <2>2, <2>3, <2>4, <2>5, <2>6 DEF SyncInv, SyncTypes
<1>8. StatusIsLatest
  BY <1>1 DEF StatusIsLatest, Msgs
<1> QED
  BY <1>4, <1>5, <1>6, <1>7, <1>8 DEF ConvInv, RelayInv

LEMMA ConvInvNext == ConvInv /\ [ConversationsNext]_conversationVars => ConvInv'
<1> SUFFICES ASSUME ConvInv, [ConversationsNext]_conversationVars PROVE ConvInv'
  OBVIOUS
<1>1. ASSUME NEW m \in Msgs, MessageArrives(m) PROVE ConvInv'
  BY <1>1, MessageArrivesKeeps
<1>2. ASSUME NEW m \in Msgs, NEW s \in Statuses, StatusArrives(m, s) PROVE ConvInv'
  BY <1>2, StatusArrivesKeeps
<1>3. ASSUME NEW m \in Msgs, MetaAccepts(m) PROVE ConvInv'
  BY <1>3, MetaAcceptsKeeps
<1>4. ASSUME NEW m \in Msgs, LogOutbound(m) PROVE ConvInv'
  BY <1>4, LogOutboundKeeps
<1>5. ASSUME NEW m \in Msgs, MessageAges(m) PROVE ConvInv'
  BY <1>5, AgesKeeps
<1>6. ASSUME NEW m \in Msgs, PruneRelay(m) PROVE ConvInv'
  BY <1>6, PruneRelayKeeps
<1>7. CASE \/ \E p \in PayloadIds : Capture(p)
           \/ SyncWakes \/ SharingOffRecorded \/ LookupFails
           \/ SliceFails \/ Parks \/ NothingPending
  BY <1>7, SyncStepsKeep
<1>8. CASE SliceApplied
  BY <1>8, SliceAppliedKeeps
<1>9. CASE ReprocessPayloads
  BY <1>9, ReprocessKeeps
<1>10. ASSUME NEW key \in Keys, EraseByPhone(key) PROVE ConvInv'
  BY <1>10, EraseIs, EraseKeeps
<1>11. CASE PruneConversations
  BY <1>11, PruneConversationsKeeps
<1>12. CASE UNCHANGED conversationVars
  <2>1. UNCHANGED <<storeVars, relayVars, syncVars, erased, aged, heard>>
    BY <1>12 DEF conversationVars
  <2>2. SyncInv'
    BY <2>1 DEF ConvInv, SyncInv, SyncTypes, CursorsInside, syncVars
  <2> QED
    BY <2>1, <2>2, SyncKeeps
<1> QED
  BY <1>1, <1>2, <1>3, <1>4, <1>5, <1>6, <1>7, <1>8, <1>9, <1>10, <1>11, <1>12
     DEF ConversationsNext

LEMMA ConvInvHolds == ConversationsSpec => []ConvInv
BY ConvInvInit, ConvInvNext, PTL DEF ConversationsSpec

(* The messages a step of an erasure takes, and those it leaves, name no     *)
(* common key.                                                               *)
LEMMA ErasureIsWhole ==
  ASSUME ConvInv, NEW keys, NEW wamids, NEW waIds, Erasing(keys, wamids, waIds)
  PROVE  LET gone == (log \cup Logged) \ (log' \cup Logged')
             named == (UNION {{PhoneIn[m], BsuidIn[m]} : m \in gone}) \ {NoKey}
         IN \A m \in Msgs :
              /\ m \in log' \cup Logged' => {PhoneIn[m], BsuidIn[m]} \cap named = {}
              /\ messages'[m].key \notin named
<1> DEFINE gone == (log \cup Logged) \ (log' \cup Logged')
           named == (UNION {{PhoneIn[m], BsuidIn[m]} : m \in gone}) \ {NoKey}
<1>1. /\ log \subseteq Msgs \ Outs /\ Logged \subseteq Outs /\ Outs \subseteq Msgs
      /\ StoreSound(Store)
  BY DEF ConvInv, RelayInv, RelayTypes, Logged, Msgs
<1>2. /\ log' = log \ wamids /\ send' = Dropped(wamids)
      /\ wamids = {m \in log \cup Logged : {PhoneIn[m], BsuidIn[m]} \cap keys # {}}
      /\ keys \subseteq Keys /\ keys \subseteq waIds /\ Widened(keys) = keys
      /\ NoKey \notin keys
  BY ConversationsAssumption DEF Erasing, Whole
<1>3. Logged' = Logged \ wamids
  BY <1>2 DEF Logged, Dropped
<1>4. gone \subseteq wamids
  BY <1>2, <1>3
<1>5. ASSUME NEW m \in wamids, NEW k \in {PhoneIn[m], BsuidIn[m]} \ {NoKey}
      PROVE  k \in keys
  <2>1. CASE NamesTwo(m)
    <3>1. m \in log
      BY <1>1, <1>2, <2>1, ConversationsAssumption DEF NamesTwo
    <3> QED
      BY <1>2, <2>1, <3>1, WidenedFacts
  <2>2. CASE ~ NamesTwo(m)
    BY <1>2, <1>5, <2>2 DEF NamesTwo
  <2> QED
    BY <2>1, <2>2
<1>6. named \subseteq keys
  <2> SUFFICES ASSUME NEW k \in named PROVE k \in keys
    OBVIOUS
  <2> HIDE DEF gone
  <2>1. PICK m \in gone : k \in {PhoneIn[m], BsuidIn[m]} \ {NoKey}
    OBVIOUS
  <2> HIDE DEF named
  <2> QED
    BY <1>4, <1>5, <2>1
<1>7. \A m \in Msgs : m \in log' \cup Logged' =>
        {PhoneIn[m], BsuidIn[m]} \cap keys = {}
  BY <1>2, <1>3
<1>8. \A m \in Msgs : messages'[m].key \notin keys
  <2>1. \A m \in Msgs : messages'[m] = IF messages[m].key \in waIds THEN NoMessage
                                                                    ELSE messages[m]
    BY DEF Erasing
  <2>2. NoMessage.key = NoKey
    BY DEF NoMessage
  <2> QED
    BY <1>2, <2>1, <2>2
<1> HIDE DEF named
<1>9. \A m \in Msgs :
        /\ m \in log' \cup Logged' => {PhoneIn[m], BsuidIn[m]} \cap named = {}
        /\ messages'[m].key \notin named
  BY <1>6, <1>7, <1>8
<1> QED
  BY <1>9 DEF named

-----------------------------------------------------------------------------
(* What the cursor of a payload has passed was applied, but for what stands  *)
(* behind a refusal of history sharing in the same payload (applySyncSlice). *)

BehindARefusal(p, i) == \E j \in 1..(i - 1) : Payloads[p][j].kind = "off"

PassedOrRefused ==
  \A p \in PayloadIds : \A i \in 1..payload[p].cursor :
    <<p, i>> \in applied \/ BehindARefusal(p, i)

(* A payload that was not captured has no place yet: a replay, which takes   *)
(* back what was applied, leaves those alone.                                *)
PassedInv ==
  /\ PassedOrRefused
  /\ \A p \in PayloadIds : payload[p].state = "none" => payload[p].cursor = 0

LEMMA BeforeEndsAtRefusal ==
  ASSUME NEW items \in Seq(Items), NEW i \in 1..Len(items),
         i \notin DOMAIN Before(items)
  PROVE  \E j \in 1..(i - 1) : items[j].kind = "off"
<1> DEFINE off == {j \in DOMAIN items : items[j].kind = "off"}
           first == CHOOSE j \in off : \A k \in off : j <= k
<1>1. off # {}
  BY DEF Before
<1>2. off \in SUBSET Nat
  OBVIOUS
<1>3. \E j \in off : \A k \in off : j <= k
  <2> HIDE DEF off
  <2> QED
    BY <1>1, <1>2, LeastOf
<1>4. first \in off
  BY <1>3
<1>5. Before(items) = SubSeq(items, 1, first)
  BY <1>1 DEF Before
<1>6. first \in 1..Len(items) /\ items[first].kind = "off"
  BY <1>4
<1> HIDE DEF first, off
<1>7. DOMAIN Before(items) = 1..first
  BY <1>5, <1>6
<1> QED
  BY <1>6, <1>7

(* A step that leaves the places alone, and what was applied, keeps it.      *)
LEMMA PassedStays ==
  ASSUME ConvInv, PassedInv, applied' = applied,
         \A p \in PayloadIds :
           /\ payload'[p].cursor = payload[p].cursor
           /\ payload'[p].state = "none" => payload[p].state = "none"
  PROVE  PassedInv'
BY DEF PassedInv, PassedOrRefused, BehindARefusal

LEMMA PassedSlice ==
  ASSUME ConvInv, PassedInv, SliceApplied
  PROVE  PassedInv'
<1> DEFINE p == First
           from == payload[p].cursor
           upto == IF from + budget < Len(Payloads[p]) THEN from + budget
                                                       ELSE Len(Payloads[p])
           items == SubSeq(Payloads[p], from + 1, upto)
           done == Before(items)
<1>0. /\ Pending # {}
      /\ payload' = [payload EXCEPT ![p] =
           [state |-> IF upto = Len(Payloads[p]) THEN "done" ELSE "pending",
            cursor |-> upto, tries |-> 0]]
      /\ applied' = applied \cup {<<p, from + i>> : i \in DOMAIN done}
  BY DEF SliceApplied
<1>1. p \in PayloadIds
  BY <1>0, FirstIsPending
<1>2. /\ from \in Nat /\ from <= Len(Payloads[p]) /\ budget \in Nat
      /\ Payloads[p] \in Seq(Items)
      /\ payload \in [PayloadIds -> [state : {"none", "pending", "done", "parked"},
                                     cursor : Nat, tries : 0..MaxSyncTries]]
  <2> HIDE DEF p
  <2>1. Payloads[p] \in Seq(Items) /\ SliceSize \in Nat
    BY <1>1, ConversationsAssumption DEF PayloadIds
  <2> QED
    BY <1>1, <2>1 DEF ConvInv, SyncInv, SyncTypes, CursorsInside
<1> HIDE DEF p
<1>3. upto \in Nat /\ from <= upto /\ upto <= Len(Payloads[p])
  BY <1>2
<1> HIDE DEF from, upto
<1>4. /\ items \in Seq(Items) /\ Len(items) = upto - from
      /\ \A i \in 1..Len(items) : items[i] = Payloads[p][from + i]
  BY <1>2, <1>3
<1> HIDE DEF items
<1>5. ASSUME NEW q \in PayloadIds, NEW i \in 1..payload'[q].cursor
      PROVE  <<q, i>> \in applied' \/ BehindARefusal(q, i)
  <2>1. CASE q # p
    BY <1>0, <1>2, <1>5, <2>1 DEF PassedInv, PassedOrRefused
  <2>2. CASE q = p /\ i <= from
    <3>1. i \in 1..payload[p].cursor
      BY <1>2, <1>5, <2>2 DEF from
    <3> QED
      BY <1>0, <1>1, <2>2, <3>1 DEF PassedInv, PassedOrRefused
  <2>3. CASE q = p /\ i > from
    <3>1. payload'[q].cursor = upto
      BY <1>0, <1>1, <1>2, <2>3
    <3>2. i - from \in 1..Len(items)
      BY <1>2, <1>3, <1>4, <1>5, <2>3, <3>1
    <3>3. CASE i - from \in DOMAIN done
      <4>1. <<p, from + (i - from)>> \in applied'
        BY <1>0, <3>3
      <4>2. from + (i - from) = i
        BY <1>2, <1>3, <1>5, <3>1
      <4> QED
        BY <2>3, <4>1, <4>2
    <3>4. CASE i - from \notin DOMAIN done
      <4>1. PICK j \in 1..(i - from - 1) : items[j].kind = "off"
        BY <1>4, <3>2, <3>4, BeforeEndsAtRefusal
      <4>2. /\ j \in 1..Len(items) /\ from + j \in 1..(i - 1)
        BY <1>2, <1>3, <1>4, <1>5, <3>1, <3>2, <4>1
      <4>3. Payloads[p][from + j].kind = "off"
        BY <1>4, <4>1, <4>2
      <4> QED
        BY <2>3, <4>2, <4>3 DEF BehindARefusal
    <3> QED
      BY <3>3, <3>4
  <2> QED
    BY <1>2, <1>3, <1>5, <2>1, <2>2, <2>3, <1>0, <1>1
<1>6. \A q \in PayloadIds : payload'[q].state = "none" => payload'[q].cursor = 0
  BY <1>0, <1>1, <1>2 DEF PassedInv
<1> QED
  BY <1>5, <1>6 DEF PassedInv, PassedOrRefused, BehindARefusal

LEMMA PassedNext ==
  ConvInv /\ PassedInv /\ [ConversationsNext]_conversationVars => PassedInv'
<1> SUFFICES ASSUME ConvInv, PassedInv, [ConversationsNext]_conversationVars
             PROVE  PassedInv'
  OBVIOUS
<1>0. payload \in [PayloadIds -> [state : {"none", "pending", "done", "parked"},
                                  cursor : Nat, tries : 0..MaxSyncTries]]
  BY DEF ConvInv, SyncInv, SyncTypes
<1>1. ASSUME NEW m \in Msgs,
             \/ MessageArrives(m) \/ \E s \in Statuses : StatusArrives(m, s)
             \/ MetaAccepts(m) \/ LogOutbound(m) \/ MessageAges(m) \/ PruneRelay(m)
      PROVE  UNCHANGED syncVars
  BY <1>1 DEF MessageArrives, StatusArrives, MetaAccepts, LogOutbound, MessageAges,
     PruneRelay
<1>2. CASE (\E key \in Keys : EraseByPhone(key)) \/ PruneConversations
  <2>1. UNCHANGED syncVars
    BY <1>2 DEF EraseByPhone, PruneConversations
  <2> QED
    BY <2>1, PassedStays DEF syncVars
<1>3. ASSUME NEW p \in PayloadIds, Capture(p) PROVE PassedInv'
  <2>1. payload' = [payload EXCEPT ![p].state = "pending"] /\ applied' = applied
    BY <1>3 DEF Capture
  <2> QED
    BY <1>0, <2>1, PassedStays
<1>4. CASE SyncWakes \/ SharingOffRecorded \/ LookupFails \/ NothingPending
  <2>1. UNCHANGED <<payload, applied>>
    BY <1>4 DEF SyncWakes, SharingOffRecorded, LookupFails, NothingPending
  <2> QED
    BY <2>1, PassedStays
<1>5. CASE SliceFails \/ Parks
  <2>1. First \in PayloadIds /\ applied' = applied
    BY <1>5, FirstIsPending DEF SliceFails, Parks
  <2>2. \/ payload' = [payload EXCEPT ![First].tries = @ + 1]
        \/ payload' = [payload EXCEPT ![First].state = "parked"]
    BY <1>5 DEF SliceFails, Parks
  <2> QED
    BY <1>0, <2>1, <2>2, PassedStays
<1>6. CASE SliceApplied
  BY <1>6, PassedSlice
<1>7. CASE ReprocessPayloads
  <2>1. \A p \in PayloadIds :
          payload'[p] = IF payload[p].state = "none" THEN payload[p]
                        ELSE [state |-> "pending", cursor |-> 0, tries |-> 0]
    BY <1>7 DEF ReprocessPayloads
  <2>2. \A p \in PayloadIds : payload'[p].cursor = 0
    BY <2>1 DEF PassedInv
  <2> QED
    BY <2>2 DEF PassedInv, PassedOrRefused
<1>8. CASE UNCHANGED conversationVars
  BY <1>8, PassedStays DEF conversationVars, syncVars
<1>9. UNCHANGED syncVars => PassedInv'
  BY PassedStays DEF syncVars
<1> QED
  BY <1>1, <1>2, <1>3, <1>4, <1>5, <1>6, <1>7, <1>8, <1>9 DEF ConversationsNext

(* Nothing of a raw payload is passed over in silence but what follows a     *)
(* refusal in it: failed slices, parked payloads, replays and erasures lose  *)
(* none of its items (processSyncBatch).                                     *)
THEOREM OnlyRefusalsSkip == ConversationsSpec => []PassedOrRefused
<1>1. ConversationsInit => PassedInv
  BY DEF ConversationsInit, PassedInv, PassedOrRefused
<1>2. PassedInv => PassedOrRefused
  BY DEF PassedInv
<1> QED
  BY <1>1, <1>2, ConvInvHolds, PassedNext, PTL DEF ConversationsSpec

-----------------------------------------------------------------------------
(* The conversation store has its types.                                     *)
THEOREM ConversationsTypeCorrect == ConversationsSpec => []ConversationsTypeOK
<1>1. ConvInv => ConversationsTypeOK
  BY StoreIs DEF ConvInv, RelayInv, RelayTypes, SyncInv, SyncTypes, KeyTypes,
     ConversationsTypeOK
<1> QED
  BY <1>1, ConvInvHolds, PTL

(* "One customer is one conversation" (learnCustomerPair, customerKey): once  *)
(* a BSUID has a phone, nothing is stored under it.                          *)
THEOREM OneConversationHolds == ConversationsSpec => []OneConversation
<1>1. ConvInv => OneConversation
  BY StoreIs DEF ConvInv, StoreSound, UnderPhone, OneConversation
<1> QED
  BY <1>1, ConvInvHolds, PTL

(* A send shows the furthest status of it, in whatever order the statuses    *)
(* and the answer of the send came (applyStatus, logOutbound).               *)
THEOREM StatusIsLatestHolds == ConversationsSpec => []StatusIsLatest
<1>1. ConvInv => StatusIsLatest
  BY DEF ConvInv
<1> QED
  BY <1>1, ConvInvHolds, PTL

(* The history of an erased customer is neither left nor written back, by a  *)
(* slice, by a replay, or under a key learned later (eraseByPhone,           *)
(* storeHistoryMessage).                                                     *)
THEOREM HistoryStaysErasedHolds == ConversationsSpec => []HistoryStaysErased
<1>1. ConvInv => HistoryStaysErased
  BY StoreIs DEF ConvInv, StoreSound, NotErased, FromHistory, OnePhone, OfMsg,
     HistoryStaysErased
<1> QED
  BY <1>1, ConvInvHolds, PTL

(* An erasure takes every message it can link to the customer (eraseByPhone: *)
(* "join the key set until it stops growing").                               *)
THEOREM EraseTakesAllLinkedHolds == ConversationsSpec => EraseTakesAllLinked
<1>1. ConvInv /\ [ConversationsNext]_conversationVars =>
        [erasures' # erasures =>
          LET gone == (log \cup Logged) \ (log' \cup Logged')
              keys == (UNION {{PhoneIn[m], BsuidIn[m]} : m \in gone}) \ {NoKey}
          IN \A m \in Msgs :
               /\ m \in log' \cup Logged' => {PhoneIn[m], BsuidIn[m]} \cap keys = {}
               /\ messages'[m].key \notin keys]_conversationVars
  <2> SUFFICES ASSUME ConvInv, ConversationsNext, erasures' # erasures
               PROVE  LET gone == (log \cup Logged) \ (log' \cup Logged')
                          keys == (UNION {{PhoneIn[m], BsuidIn[m]} : m \in gone}) \ {NoKey}
                      IN \A m \in Msgs :
                           /\ m \in log' \cup Logged' =>
                                {PhoneIn[m], BsuidIn[m]} \cap keys = {}
                           /\ messages'[m].key \notin keys
    OBVIOUS
  <2>1. PICK key \in Keys : EraseByPhone(key)
    BY DEF ConversationsNext, convBounds, MessageArrives, MetaAccepts, LogOutbound,
       StatusArrives, MessageAges, PruneRelay, Capture, SyncWakes, SharingOffRecorded,
       LookupFails, SliceApplied, SliceFails, Parks, NothingPending,
       ReprocessPayloads, PruneConversations
  <2> QED
    BY <2>1, EraseIs, ErasureIsWhole
<1> QED
  BY <1>1, ConvInvHolds, PTL DEF ConversationsSpec, EraseTakesAllLinked

-----------------------------------------------------------------------------
(* The types, with what a row says of its attempts: one without a row has    *)
(* none, one that failed has one left.                                       *)
AttemptsLeft ==
  \A d \in MediaIds :
    /\ file[d].state = "none" => file[d].tries = 0
    /\ file[d].state = "failed" => file[d].tries < MaxTries

MediaTypeInv ==
  MediaTypeOK /\ AttemptsLeft

Rows == [state : {"none", "stored", "failed", "gone", "erased"},
         tries : 0..MaxTries, due : BOOLEAN]
LeftIn(rows) ==
  \A d \in MediaIds :
    /\ rows[d].state = "none" => rows[d].tries = 0
    /\ rows[d].state = "failed" => rows[d].tries < MaxTries

(* A tombstone is a row, and leaves the attempts of the others.              *)
LEMMA TombstoneIsARow ==
  ASSUME NEW rows \in [MediaIds -> Rows], LeftIn(rows), NEW ids
  PROVE  /\ Tombstone(rows, ids) \in [MediaIds -> Rows]
         /\ LeftIn(Tombstone(rows, ids))
         /\ \A d \in MediaIds : d \notin ids => Tombstone(rows, ids)[d] = rows[d]
         /\ \A d \in MediaIds : d \in ids => Tombstone(rows, ids)[d].state = "erased"
<1>1. \A d \in MediaIds : d \in ids =>
        [rows[d] EXCEPT !.state = "erased", !.due = FALSE] \in Rows
  BY DEF Rows
<1>2. \A d \in MediaIds : d \notin ids => Tombstone(rows, ids)[d] = rows[d]
  BY DEF Tombstone
<1>3. \A d \in MediaIds : d \in ids =>
        Tombstone(rows, ids)[d] = [rows[d] EXCEPT !.state = "erased", !.due = FALSE]
  BY DEF Tombstone
<1>4. \A d \in MediaIds : d \in ids => Tombstone(rows, ids)[d].state = "erased"
  BY <1>3 DEF Rows
<1>5. Tombstone(rows, ids) \in [MediaIds -> Rows]
  BY <1>1 DEF Tombstone, Rows
<1> QED BY <1>2, <1>4, <1>5 DEF LeftIn

(* A round of a purge leaves no tombstone, and every other row as it was.    *)
LEMMA PurgesTakesTombstones ==
  ASSUME NEW rows \in [MediaIds -> Rows], LeftIn(rows), MediaAssumption,
         NEW p \in Purgers, purge \in [Purgers -> [ids : SUBSET MediaIds, landed : BOOLEAN]],
         Purges(p, rows)
  PROVE  /\ file' \in [MediaIds -> Rows] /\ LeftIn(file)'
         /\ purge' \in [Purgers -> [ids : SUBSET MediaIds, landed : BOOLEAN]]
         /\ Tombstoned(file') = {}
         /\ \A d \in MediaIds : rows[d].state # "erased" => file'[d] = rows[d]
         /\ \A d \in MediaIds : rows[d].state = "erased" => file'[d] = NoRow
         /\ purge'[p] = [ids |-> Tombstoned(rows), landed |-> FALSE]
         /\ \A q \in Purgers : q # p => purge'[q] = purge[q]
<1>1. NoRow \in Rows /\ NoRow.state = "none" /\ NoRow.tries = 0
  BY DEF NoRow, Rows, MediaAssumption
<1>2. \A d \in MediaIds : rows[d].state # "erased" => file'[d] = rows[d]
  BY DEF Purges, Tombstoned
<1>3. \A d \in MediaIds : rows[d].state = "erased" => file'[d] = NoRow
  BY DEF Purges, Tombstoned
<1>4. file' \in [MediaIds -> Rows]
  BY <1>1 DEF Purges, Tombstoned
<1>5. LeftIn(file)'
  BY <1>1, <1>2, <1>3 DEF LeftIn
<1>6. Tombstoned(file') = {}
  BY <1>1, <1>2, <1>3 DEF Tombstoned
<1>7. Tombstoned(rows) \in SUBSET MediaIds
  BY DEF Tombstoned
<1>8. /\ purge' \in [Purgers -> [ids : SUBSET MediaIds, landed : BOOLEAN]]
      /\ purge'[p] = [ids |-> Tombstoned(rows), landed |-> FALSE]
      /\ \A q \in Purgers : q # p => purge'[q] = purge[q]
  BY <1>7 DEF Purges
<1> QED BY <1>2, <1>3, <1>4, <1>5, <1>6, <1>8

Jobs == [at : {"none", "fetch", "put"}, try : 0..MaxTries]
Deletions == [ids : SUBSET MediaIds, landed : BOOLEAN]
Steps == [pc : {"idle", "early", "token", "pool", "purge"},
          ids : SUBSET MediaIds, wake : BOOLEAN]

(* The invariant over the types by their names. *)
LEMMA MediaTypes ==
  MediaTypeInv <=>
    /\ stored \subseteq Messages /\ replaying \subseteq Messages \ stored
    /\ file \in [MediaIds -> Rows] /\ LeftIn(file)
    /\ bucket \subseteq MediaIds /\ stranded \subseteq MediaIds
    /\ crossed \subseteq MediaIds
    /\ armed \in BOOLEAN /\ unknown \in BOOLEAN
    /\ step \in Steps
    /\ job \in [MediaIds -> Jobs]
    /\ purge \in [Purgers -> Deletions]
  BY DEF MediaTypeInv, MediaTypeOK, AttemptsLeft, Rows, LeftIn, Jobs, Deletions, Steps

LEMMA MediaTypesNext ==
  MediaTypeInv' <=>
    /\ stored' \subseteq Messages /\ replaying' \subseteq Messages \ stored'
    /\ file' \in [MediaIds -> Rows] /\ LeftIn(file')
    /\ bucket' \subseteq MediaIds /\ stranded' \subseteq MediaIds
    /\ crossed' \subseteq MediaIds
    /\ armed' \in BOOLEAN /\ unknown' \in BOOLEAN
    /\ step' \in Steps
    /\ job' \in [MediaIds -> Jobs]
    /\ purge' \in [Purgers -> Deletions]
  BY DEF MediaTypeInv, MediaTypeOK, AttemptsLeft, Rows, LeftIn, Jobs, Deletions, Steps

(* A step that sleeps or purges stays a step.                                *)
LEMMA SleepsIsAStep ==
  ASSUME NEW wake \in BOOLEAN, NEW rows, armed \in BOOLEAN, Sleeps(wake, rows)
  PROVE  step' \in Steps /\ armed' \in BOOLEAN
BY DEF Sleeps, Steps, Asleep

LEMMA StepPurgesTypes ==
  ASSUME MediaAssumption, MediaTypeInv, NEW wake \in BOOLEAN, StepPurges(wake)
  PROVE  /\ step' \in Steps /\ armed' \in BOOLEAN
         /\ file' \in [MediaIds -> Rows] /\ LeftIn(file')
         /\ purge' \in [Purgers -> Deletions]
<1>1. file \in [MediaIds -> Rows] /\ LeftIn(file) /\ armed \in BOOLEAN
      /\ purge \in [Purgers -> Deletions]
  BY MediaTypes
<1>2. "alarm" \in Purgers /\ Purges("alarm", file)
  BY DEF Purgers, StepPurges
<1>3. /\ file' \in [MediaIds -> Rows] /\ LeftIn(file')
      /\ purge' \in [Purgers -> Deletions]
  BY <1>1, <1>2, PurgesTakesTombstones DEF Deletions, LeftIn
<1>4. step' \in Steps /\ armed' \in BOOLEAN
  <2>1. CASE Tombstoned(file) = {}
    BY <1>1, <2>1, SleepsIsAStep DEF StepPurges
  <2>2. CASE Tombstoned(file) # {}
    BY <1>1, <2>2 DEF StepPurges, Steps
  <2> QED BY <2>1, <2>2
<1> QED BY <1>3, <1>4

LEMMA TypesInit ==
  ASSUME MediaAssumption, MediaInit
  PROVE  MediaTypeInv
<1>1. NoRow \in Rows /\ NoRow.tries = 0 /\ NoRow.state = "none"
  BY DEF MediaAssumption, NoRow, Rows
<1>2. NoJob \in Jobs /\ NoDelete \in Deletions /\ Asleep \in Steps
  BY DEF MediaAssumption, NoJob, Jobs, NoDelete, Deletions, Asleep, Steps
<1>3. LeftIn(file)
  BY <1>1 DEF LeftIn, MediaInit
<1> QED BY <1>1, <1>2, <1>3, MediaTypes DEF MediaInit

LEMMA TypesNext ==
  ASSUME MediaAssumption, MediaTypeInv, [MediaNext]_mediaVars
  PROVE  MediaTypeInv'
<1>1. /\ stored \subseteq Messages /\ replaying \subseteq Messages \ stored
      /\ file \in [MediaIds -> Rows] /\ LeftIn(file)
      /\ bucket \subseteq MediaIds /\ stranded \subseteq MediaIds
      /\ crossed \subseteq MediaIds
      /\ armed \in BOOLEAN /\ unknown \in BOOLEAN
      /\ step \in Steps
      /\ job \in [MediaIds -> Jobs]
      /\ purge \in [Purgers -> Deletions]
  BY MediaTypes
<1>2. \A m \in Messages : FileOf[m] \in MediaIds
  BY DEF MediaAssumption
<1>3. "alarm" \in Purgers /\ \A e \in Erasers : e \in Purgers
  BY DEF Purgers
<1> SUFFICES
      /\ stored' \subseteq Messages /\ replaying' \subseteq Messages \ stored'
      /\ file' \in [MediaIds -> Rows] /\ LeftIn(file')
      /\ bucket' \subseteq MediaIds /\ stranded' \subseteq MediaIds
      /\ crossed' \subseteq MediaIds
      /\ armed' \in BOOLEAN /\ unknown' \in BOOLEAN
      /\ step' \in Steps
      /\ job' \in [MediaIds -> Jobs]
      /\ purge' \in [Purgers -> Deletions]
  BY MediaTypesNext
<1>4. ASSUME NEW m \in Messages PROVE Crossed(m) \subseteq MediaIds
  BY <1>1, <1>2 DEF Crossed
<1>5. ASSUME NEW ms PROVE Deleting(ms) \in [MediaIds -> Rows] /\ LeftIn(Deleting(ms))
  BY <1>1, TombstoneIsARow DEF Deleting
<1>6. NoJob \in Jobs /\ NoDelete \in Deletions /\ Asleep \in Steps
  BY DEF MediaAssumption, NoJob, Jobs, NoDelete, Deletions, Asleep, Steps
<1>11. CASE \E m \in Messages : MessageStored(m)
  <2> PICK m \in Messages : MessageStored(m) BY <1>11
  <2> QED BY <1>1, <1>4 DEF MessageStored
<1>12. CASE \E m \in Messages : Replayed(m)
  <2> PICK m \in Messages : Replayed(m) BY <1>12
  <2> QED BY <1>1, <1>2, <1>4 DEF Replayed
<1>13. CASE \E ms \in SUBSET Messages, e \in Erasers : EraseMessages(e, ms)
  <2> PICK ms \in SUBSET Messages, e \in Erasers : EraseMessages(e, ms) BY <1>13
  <2>1. /\ file' \in [MediaIds -> Rows] /\ LeftIn(file')
        /\ purge' \in [Purgers -> Deletions]
    BY <1>1, <1>3, <1>5, PurgesTakesTombstones DEF EraseMessages, Deletions, LeftIn
  <2> QED BY <1>1, <1>2, <2>1 DEF EraseMessages
<1>14. CASE \E ms \in SUBSET Messages : Reprocess(ms)
  <2> PICK ms \in SUBSET Messages : Reprocess(ms) BY <1>14
  <2> QED BY <1>1 DEF Reprocess, gaps
<1>15. CASE \E ms \in SUBSET Messages : PruneMessages(ms)
  <2> PICK ms \in SUBSET Messages : PruneMessages(ms) BY <1>15
  <2> QED BY <1>1, <1>5 DEF PruneMessages, gaps
<1>16. CASE Wakes
  BY <1>1, <1>6, <1>16 DEF Wakes, gaps, Steps, Asleep
<1>17. CASE MediaStep
  <2>1. CASE DueIds(stored, file) = {}
    BY <1>1, <1>17, <2>1, StepPurgesTypes DEF MediaStep, gaps
  <2>2. CASE DueIds(stored, file) # {}
    <3>1. DueIds(stored, file) \subseteq MediaIds BY DEF DueIds
    <3> QED BY <1>1, <1>17, <2>2, <3>1 DEF MediaStep, gaps, Steps
  <2> QED BY <2>1, <2>2
<1>18. CASE TokenKnown
  BY <1>1, <1>18 DEF TokenKnown, gaps, Steps
<1>19. CASE TokenMissing
  <2> PICK missing \in BOOLEAN : unknown' = missing /\ StepPurges(~missing)
    BY <1>19 DEF TokenMissing
  <2> QED BY <1>1, <1>19, StepPurgesTypes DEF TokenMissing, gaps
<1>20. CASE PoolEnds
  <2>1. (step.wake \/ DueIds(stored, file) # {}) \in BOOLEAN
    BY <1>1 DEF Steps
  <2> QED BY <1>1, <1>20, <2>1, StepPurgesTypes DEF PoolEnds, gaps
<1>21. CASE \E d \in MediaIds : JobStarts(d)
  <2> PICK d \in MediaIds : JobStarts(d) BY <1>21
  <2>1. step' \in Steps
    BY <1>1 DEF JobStarts, Steps
  <2>2. Waits(file[d]) => file[d].tries + 1 \in 0..MaxTries
    BY <1>1 DEF Waits, LeftIn, Rows, MediaAssumption
  <2>3. job' \in [MediaIds -> Jobs]
    BY <1>1, <2>2 DEF JobStarts, Jobs
  <2> QED BY <1>1, <2>1, <2>3 DEF JobStarts, gaps
<1>22. CASE \E d \in MediaIds : PutLands(d)
  <2> PICK d \in MediaIds : PutLands(d) BY <1>22
  <2>1. job' \in [MediaIds -> Jobs]
    BY <1>1 DEF PutLands, Jobs
  <2> QED BY <1>1, <2>1 DEF PutLands, gaps
<1>23. CASE \E d \in MediaIds : DownloadEnds(d)
  <2> PICK d \in MediaIds : DownloadEnds(d) BY <1>23
  <2>1. job' \in [MediaIds -> Jobs]
    BY <1>1, <1>6 DEF DownloadEnds
  <2>2. file' \in [MediaIds -> Rows] /\ LeftIn(file')
    <3>1. CASE ~Referenced(stored, d)
      BY <1>1, <3>1, TombstoneIsARow DEF DownloadEnds
    <3>2. CASE Referenced(stored, d)
      <4> PICK result \in Results(job[d]) :
            file' = [file EXCEPT ![d] = [state |-> result, due |-> FALSE,
                                         tries |-> job[d].try]]
        BY <3>2 DEF DownloadEnds
      <4>1. job[d].try \in 0..MaxTries
        BY <1>1 DEF Jobs
      <4>2. /\ result \in {"failed", "gone", "stored"}
            /\ result = "failed" => job[d].try < MaxTries
        BY DEF Results
      <4>3. file' \in [MediaIds -> Rows]
        BY <1>1, <4>1, <4>2 DEF Rows
      <4>4. /\ file'[d].state = result /\ file'[d].tries = job[d].try
            /\ \A x \in MediaIds : x # d => file'[x] = file[x]
        BY <1>1
      <4>5. LeftIn(file')
        BY <1>1, <4>2, <4>4 DEF LeftIn
      <4> QED BY <4>3, <4>5
    <3> QED BY <3>1, <3>2
  <2> QED BY <1>1, <2>1, <2>2 DEF DownloadEnds, gaps
<1>24. CASE \E d \in MediaIds : TokenRejected(d)
  <2> PICK d \in MediaIds : TokenRejected(d) BY <1>24
  <2>1. job' \in [MediaIds -> Jobs] /\ step' \in Steps
    BY <1>1, <1>6 DEF TokenRejected, Steps
  <2> QED BY <1>1, <2>1 DEF TokenRejected, gaps
<1>25. CASE \E d \in MediaIds : BackoffEnds(d)
  <2> PICK d \in MediaIds : BackoffEnds(d) BY <1>25
  <2>1. file' \in [MediaIds -> Rows]
    BY <1>1 DEF BackoffEnds, Rows
  <2>2. \A x \in MediaIds : file'[x].state = file[x].state /\ file'[x].tries = file[x].tries
    BY <1>1 DEF BackoffEnds, Rows
  <2>3. LeftIn(file')
    BY <1>1, <2>2 DEF LeftIn
  <2> QED BY <1>1, <2>1, <2>3 DEF BackoffEnds, gaps
<1>26. CASE \E p \in Purgers : DeleteLands(p)
  <2> PICK p \in Purgers : DeleteLands(p) BY <1>26
  <2>1. purge' \in [Purgers -> Deletions]
    BY <1>1 DEF DeleteLands, Deletions
  <2> QED BY <1>1, <2>1 DEF DeleteLands, gaps
<1>27. CASE \E p \in Purgers : DeleteAnswered(p)
  <2> PICK p \in Purgers : DeleteAnswered(p) BY <1>27
  <2>1. /\ file' \in [MediaIds -> Rows] /\ LeftIn(file')
        /\ purge' \in [Purgers -> Deletions]
    BY <1>1, PurgesTakesTombstones DEF DeleteAnswered, Deletions, LeftIn
  <2>2. step' \in Steps /\ armed' \in BOOLEAN
    <3>1. CASE p = "alarm" /\ Tombstoned(file) = {}
      <4>1. step.wake \in BOOLEAN /\ Sleeps(step.wake, file)
        BY <1>1, <3>1 DEF DeleteAnswered, Steps
      <4> QED BY <1>1, <4>1, SleepsIsAStep
    <3>2. CASE ~(p = "alarm" /\ Tombstoned(file) = {})
      BY <1>1, <3>2 DEF DeleteAnswered
    <3> QED BY <3>1, <3>2
  <2> QED BY <1>1, <2>1, <2>2 DEF DeleteAnswered, gaps
<1>28. CASE \E p \in Purgers : DeleteRefused(p)
  <2> PICK p \in Purgers : DeleteRefused(p) BY <1>28
  <2>1. file' \in [MediaIds -> Rows] /\ LeftIn(file')
    BY <1>1, TombstoneIsARow DEF DeleteRefused
  <2>2. purge' \in [Purgers -> Deletions]
    BY <1>1, <1>6 DEF DeleteRefused
  <2>3. step' \in Steps /\ armed' \in BOOLEAN
    <3>1. CASE p = "alarm"
      BY <1>1, <1>6, <3>1 DEF DeleteRefused, Sleeps
    <3>2. CASE p # "alarm"
      BY <1>1, <3>2 DEF DeleteRefused
    <3> QED BY <3>1, <3>2
  <2> QED BY <1>1, <2>1, <2>2, <2>3 DEF DeleteRefused, gaps
<1>29. CASE Restart
  <2>1. UNION {purge[p].ids : p \in Purgers} \subseteq MediaIds
    BY <1>1 DEF Deletions
  <2>2. armed' \in BOOLEAN
    BY <1>1, <1>29 DEF Restart
  <2>3. stranded' \subseteq MediaIds
    BY <1>1, <1>29, <2>1 DEF Restart
  <2> QED BY <1>1, <1>6, <1>29, <2>2, <2>3 DEF Restart
<1>30. CASE UNCHANGED mediaVars
  BY <1>1, <1>30 DEF mediaVars
<1> QED
  BY <1>11, <1>12, <1>13, <1>14, <1>15, <1>16, <1>17, <1>18, <1>19, <1>20, <1>21,
     <1>22, <1>23, <1>24, <1>25, <1>26, <1>27, <1>28, <1>29, <1>30
     DEF MediaNext, Downloads, Deletes

-----------------------------------------------------------------------------
(* Objects. For an id that no message brought back during its deletion: what *)
(* is deleted is not referenced, what a delete in flight may take is not     *)
(* recorded as stored, and a download that R2 has taken is there to be       *)
(* recorded.                                                                 *)
Sound(d) ==
  /\ Deleted(d) => ~Referenced(stored, d)
  /\ (\E p \in Purgers : d \in purge[p].ids) => file[d].state # "stored"
  /\ job[d].at = "put" /\ Referenced(stored, d) => d \in bucket
  /\ file[d].state = "stored" => d \in bucket

ObjectsInv ==
  /\ MediaTypeInv
  /\ \A d \in MediaIds \ crossed : Sound(d)

LEMMA ReferencedShrinks ==
  ASSUME NEW d, NEW ms, Referenced(stored \ ms, d)
  PROVE  Referenced(stored, d)
BY DEF Referenced

(* A transaction that deletes messages marks ids that are then unreferenced. *)
LEMMA DeletingMarks ==
  ASSUME MediaTypeInv, MediaAssumption, NEW ms
  PROVE  /\ Deleting(ms) \in [MediaIds -> Rows] /\ LeftIn(Deleting(ms))
         /\ \A d \in MediaIds :
              \/ Deleting(ms)[d] = file[d]
              \/ Deleting(ms)[d].state = "erased" /\ ~Referenced(stored \ ms, d)
<1> DEFINE lost == {FileOf[m] : m \in ms \cap stored}
           ids == {d \in lost : ~Referenced(stored \ ms, d)}
<1>1. Deleting(ms) = Tombstone(file, ids)
  BY DEF Deleting
<1>2. file \in [MediaIds -> Rows] /\ LeftIn(file)
  BY MediaTypes
<1> HIDE DEF ids
<1>3. /\ Tombstone(file, ids) \in [MediaIds -> Rows] /\ LeftIn(Tombstone(file, ids))
      /\ \A d \in MediaIds : d \notin ids => Tombstone(file, ids)[d] = file[d]
      /\ \A d \in MediaIds : d \in ids => Tombstone(file, ids)[d].state = "erased"
  BY <1>2, TombstoneIsARow
<1>4. \A d \in ids : ~Referenced(stored \ ms, d)
  BY DEF ids
<1> QED BY <1>1, <1>3, <1>4

(* A message is stored: what was deleted or in flight unreferenced is        *)
(* crossed.                                                                  *)
LEMMA SoundWhenStored ==
  ASSUME ObjectsInv, NEW m \in Messages,
         stored' = stored \cup {m}, crossed' = Crossed(m),
         UNCHANGED <<file, bucket, job, purge>>,
         NEW d \in MediaIds, d \notin crossed'
  PROVE  Sound(d)'
<1>1. d \notin crossed /\ Sound(d)
  BY DEF Crossed, ObjectsInv
<1>2. Referenced(stored', d) => Referenced(stored, d) \/ d = FileOf[m]
  BY DEF Referenced
<1>3. CASE d # FileOf[m]
  BY <1>1, <1>2, <1>3 DEF Sound, Deleted
<1>4. CASE d = FileOf[m]
  <2>1. ~Deleted(d) /\ (job[d] = NoJob \/ Referenced(stored, d))
    BY <1>4 DEF Crossed
  <2>2. job[d].at = "put" => Referenced(stored, d)
    BY <2>1 DEF NoJob
  <2> QED BY <1>1, <2>1, <2>2 DEF Sound, Deleted
<1> QED BY <1>3, <1>4

(* A round of a purge over rows whose tombstones are not referenced.         *)
LEMMA SoundWhenPurged ==
  ASSUME ObjectsInv, MediaAssumption, NEW rows \in [MediaIds -> Rows], LeftIn(rows),
         NEW p \in Purgers, Purges(p, rows),
         NEW ms, stored' = stored \ ms,
         \A d \in MediaIds : \/ rows[d] = file[d]
                             \/ rows[d].state = "erased" /\ ~Referenced(stored \ ms, d),
         UNCHANGED <<bucket, job, crossed>>,
         NEW d \in MediaIds, d \notin crossed
  PROVE  Sound(d)'
<1>1. Sound(d)
  BY DEF ObjectsInv
<1>2. purge \in [Purgers -> Deletions]
  BY MediaTypes DEF ObjectsInv
<1>3. /\ \A x \in MediaIds : rows[x].state # "erased" => file'[x] = rows[x]
      /\ \A x \in MediaIds : rows[x].state = "erased" => file'[x] = NoRow
      /\ purge'[p] = [ids |-> Tombstoned(rows), landed |-> FALSE]
      /\ \A q \in Purgers : q # p => purge'[q] = purge[q]
  BY <1>2, PurgesTakesTombstones DEF Deletions
<1>4. purge'[p].ids = Tombstoned(rows) /\ (d \in Tombstoned(rows) <=> rows[d].state = "erased")
  BY <1>3 DEF Tombstoned
<1>5. Referenced(stored', d) => Referenced(stored, d)
  BY ReferencedShrinks
<1>6. rows[d].state = "erased" => ~Referenced(stored', d)
  BY <1>1, <1>5 DEF Sound, Deleted
<1>7. (\E q \in Purgers : d \in purge'[q].ids) =>
        rows[d].state = "erased" \/ (\E q \in Purgers : d \in purge[q].ids)
  BY <1>3, <1>4
<1>8. file'[d].state = "stored" => file[d].state = "stored" /\ rows[d] = file[d]
  <2>1. NoRow.state # "stored" BY DEF NoRow
  <2> QED BY <1>3, <2>1
<1>9. file'[d].state # "erased"
  <2>1. NoRow.state # "erased" BY DEF NoRow
  <2> QED BY <1>3, <2>1
<1>10. Deleted(d)' => ~Referenced(stored', d)
  <2>1. Deleted(d)' => \E q \in Purgers : d \in purge'[q].ids
    BY <1>9 DEF Deleted
  <2>2. (\E q \in Purgers : d \in purge[q].ids) => ~Referenced(stored, d)
    BY <1>1 DEF Sound, Deleted
  <2> QED BY <1>5, <1>6, <1>7, <2>1, <2>2
<1>11. (\E q \in Purgers : d \in purge'[q].ids) => file'[d].state # "stored"
  <2>1. rows[d].state = "erased" => file'[d].state # "stored"
    BY <1>3 DEF NoRow
  <2> QED BY <1>1, <1>7, <1>8, <2>1 DEF Sound
<1> QED BY <1>1, <1>5, <1>8, <1>10, <1>11 DEF Sound

LEMMA ObjectsInit ==
  ASSUME MediaAssumption, MediaInit
  PROVE  ObjectsInv
<1>1. \A d \in MediaIds : Sound(d)
  BY DEF MediaInit, Sound, Deleted, Referenced, NoRow, NoJob, NoDelete
<1> QED BY <1>1, TypesInit DEF ObjectsInv

LEMMA ObjectsNext ==
  ASSUME MediaAssumption, ObjectsInv, [MediaNext]_mediaVars
  PROVE  ObjectsInv'
<1>1. MediaTypeInv'
  BY TypesNext DEF ObjectsInv
<1>2. /\ file \in [MediaIds -> Rows] /\ LeftIn(file)
      /\ job \in [MediaIds -> Jobs] /\ purge \in [Purgers -> Deletions]
  BY MediaTypes DEF ObjectsInv
<1>3. "alarm" \in Purgers /\ \A e \in Erasers : e \in Purgers
  BY DEF Purgers
<1>4. stored = stored \ {}
  OBVIOUS
<1> SUFFICES ASSUME NEW d \in MediaIds, d \notin crossed'
             PROVE  Sound(d)'
  BY <1>1 DEF ObjectsInv
<1>11. CASE \E m \in Messages : MessageStored(m)
  BY <1>11, SoundWhenStored DEF MessageStored
<1>12. CASE \E m \in Messages : Replayed(m)
  <2> PICK m \in Messages : Replayed(m) BY <1>12
  <2>1. CASE stored' = stored \cup {m} /\ crossed' = Crossed(m)
    BY <2>1, SoundWhenStored DEF Replayed
  <2>2. CASE UNCHANGED <<stored, crossed>>
    BY <2>2 DEF Replayed, ObjectsInv, Sound, Deleted
  <2> QED BY <2>1, <2>2 DEF Replayed
<1>13. CASE \E ms \in SUBSET Messages, e \in Erasers : EraseMessages(e, ms)
  <2> PICK ms \in SUBSET Messages, e \in Erasers : EraseMessages(e, ms) BY <1>13
  <2>1. /\ Purges(e, Deleting(ms)) /\ stored' = stored \ ms
        /\ UNCHANGED <<bucket, job, crossed>>
    BY DEF EraseMessages
  <2>2. /\ Deleting(ms) \in [MediaIds -> Rows] /\ LeftIn(Deleting(ms))
        /\ \A x \in MediaIds :
             \/ Deleting(ms)[x] = file[x]
             \/ Deleting(ms)[x].state = "erased" /\ ~Referenced(stored \ ms, x)
    BY DeletingMarks DEF ObjectsInv
  <2> QED BY <1>3, <2>1, <2>2, SoundWhenPurged
<1>14. CASE \E ms \in SUBSET Messages : Reprocess(ms)
  <2> PICK ms \in SUBSET Messages : Reprocess(ms) BY <1>14
  <2>1. Referenced(stored', d) => Referenced(stored, d)
    BY ReferencedShrinks DEF Reprocess
  <2> QED BY <2>1 DEF Reprocess, gaps, ObjectsInv, Sound, Deleted
<1>15. CASE \E ms \in SUBSET Messages : PruneMessages(ms)
  <2> PICK ms \in SUBSET Messages : PruneMessages(ms) BY <1>15
  <2>1. Referenced(stored', d) => Referenced(stored, d)
    BY ReferencedShrinks DEF PruneMessages
  <2>2. \/ file'[d] = file[d]
        \/ file'[d].state = "erased" /\ ~Referenced(stored', d)
    BY DeletingMarks DEF PruneMessages, ObjectsInv
  <2>3. UNCHANGED <<bucket, job, purge, crossed>>
    BY DEF PruneMessages, gaps
  <2>4. Sound(d)
    BY <2>3 DEF ObjectsInv
  <2> QED BY <2>1, <2>2, <2>3, <2>4 DEF Sound, Deleted
<1>16. ASSUME NEW wake, StepPurges(wake), UNCHANGED <<stored, bucket, job, crossed>>
       PROVE  Sound(d)'
  <2>1. Purges("alarm", file) /\ stored' = stored \ {}
    BY <1>4, <1>16 DEF StepPurges
  <2> QED BY <1>2, <1>3, <1>16, <2>1, SoundWhenPurged
<1>17. CASE MediaStep
  <2>1. CASE DueIds(stored, file) = {}
    BY <1>16, <1>17, <2>1 DEF MediaStep, gaps
  <2>2. CASE DueIds(stored, file) # {}
    BY <1>17, <2>2 DEF MediaStep, gaps, ObjectsInv, Sound, Deleted
  <2> QED BY <2>1, <2>2
<1>18. CASE Wakes \/ TokenKnown
  BY <1>18 DEF Wakes, TokenKnown, gaps, ObjectsInv, Sound, Deleted
<1>19. CASE TokenMissing
  BY <1>16, <1>19 DEF TokenMissing, gaps
<1>20. CASE PoolEnds
  BY <1>16, <1>20 DEF PoolEnds, gaps
<1>21. CASE \E x \in MediaIds : JobStarts(x) \/ TokenRejected(x)
  <2> PICK x \in MediaIds : JobStarts(x) \/ TokenRejected(x) BY <1>21
  <2>1. job'[d] = job[d] \/ job'[d].at # "put"
    BY <1>2 DEF JobStarts, TokenRejected, NoJob
  <2> QED BY <2>1 DEF JobStarts, TokenRejected, gaps, ObjectsInv, Sound, Deleted
<1>22. CASE \E x \in MediaIds : PutLands(x)
  <2> PICK x \in MediaIds : PutLands(x) BY <1>22
  <2>1. job'[d] = job[d] \/ d = x
    BY <1>2 DEF PutLands
  <2> QED BY <2>1 DEF PutLands, gaps, ObjectsInv, Sound, Deleted
<1>23. CASE \E x \in MediaIds : DownloadEnds(x)
  <2> PICK x \in MediaIds : DownloadEnds(x) BY <1>23
  <2>1. UNCHANGED <<stored, bucket, purge, crossed>> /\ Sound(d)
    BY DEF DownloadEnds, gaps, ObjectsInv
  <2>2. CASE d # x
    <3>1. file'[d] = file[d] /\ job'[d] = job[d]
      BY <1>2, <2>2 DEF DownloadEnds, Tombstone
    <3> QED BY <2>1, <3>1 DEF Sound, Deleted
  <2>3. CASE d = x /\ ~Referenced(stored, d)
    <3>1. file' = Tombstone(file, {d}) /\ job'[d] = NoJob
      BY <1>2, <2>3 DEF DownloadEnds
    <3>2. file'[d].state = "erased"
      BY <1>2, <3>1, TombstoneIsARow
    <3> QED BY <2>1, <2>3, <3>1, <3>2 DEF Sound, Deleted, NoJob
  <2>4. CASE d = x /\ Referenced(stored, d)
    <3> PICK result \in Results(job[d]) :
          file' = [file EXCEPT ![d] = [state |-> result, due |-> FALSE,
                                       tries |-> job[d].try]]
      BY <2>4 DEF DownloadEnds
    <3>1. file'[d].state = result /\ job'[d] = NoJob
      BY <1>2, <2>4 DEF DownloadEnds
    <3>2. result # "erased" /\ (result = "stored" => job[d].at = "put")
      BY DEF Results
    <3>3. ~\E p \in Purgers : d \in purge[p].ids
      BY <2>1, <2>4 DEF Sound, Deleted
    <3> QED BY <2>1, <2>4, <3>1, <3>2, <3>3 DEF Sound, Deleted, NoJob
  <2> QED BY <2>2, <2>3, <2>4
<1>24. CASE \E x \in MediaIds : BackoffEnds(x)
  <2> PICK x \in MediaIds : BackoffEnds(x) BY <1>24
  <2>1. file'[d].state = file[d].state
    BY <1>2 DEF BackoffEnds, Rows
  <2> QED BY <2>1 DEF BackoffEnds, gaps, ObjectsInv, Sound, Deleted
<1>25. CASE \E p \in Purgers : DeleteLands(p)
  <2> PICK p \in Purgers : DeleteLands(p) BY <1>25
  <2>1. \A q \in Purgers : purge'[q].ids = purge[q].ids
    BY <1>2 DEF DeleteLands, Deletions
  <2>2. UNCHANGED <<stored, file, job, crossed>> /\ bucket' = bucket \ purge[p].ids
    BY DEF DeleteLands, gaps
  <2>3. Sound(d)
    BY <2>2 DEF ObjectsInv
  <2>4. d \in purge[p].ids => ~Referenced(stored, d) /\ file[d].state # "stored"
    BY <2>3 DEF Sound, Deleted
  <2> QED BY <2>1, <2>2, <2>3, <2>4 DEF Sound, Deleted
<1>26. CASE \E p \in Purgers : DeleteAnswered(p)
  <2> PICK p \in Purgers : DeleteAnswered(p) BY <1>26
  <2>1. Purges(p, file) /\ stored' = stored \ {} /\ UNCHANGED <<bucket, job, crossed>>
    BY <1>4 DEF DeleteAnswered, gaps
  <2> QED BY <1>2, <2>1, SoundWhenPurged
<1>27. CASE \E p \in Purgers : DeleteRefused(p)
  <2> PICK p \in Purgers : DeleteRefused(p) BY <1>27
  <2>1. /\ UNCHANGED <<stored, bucket, job, crossed>>
        /\ file' = Tombstone(file, purge[p].ids) /\ purge' = [purge EXCEPT ![p] = NoDelete]
    BY DEF DeleteRefused, gaps
  <2>2. Sound(d)
    BY <2>1 DEF ObjectsInv
  <2>3. \A q \in Purgers : d \in purge'[q].ids => d \in purge[q].ids
    BY <1>2, <2>1 DEF NoDelete
  <2>4. /\ d \notin purge[p].ids => file'[d] = file[d]
        /\ d \in purge[p].ids => file'[d].state = "erased"
    BY <1>2, <2>1, TombstoneIsARow
  <2>5. d \in purge[p].ids => ~Referenced(stored, d)
    BY <2>2 DEF Sound, Deleted
  <2> QED BY <2>1, <2>2, <2>3, <2>4, <2>5 DEF Sound, Deleted
<1>28. CASE Restart
  <2>1. /\ UNCHANGED <<stored, file, bucket, crossed>> /\ job'[d] = NoJob
        /\ \A q \in Purgers : purge'[q] = NoDelete
    BY <1>28 DEF Restart
  <2>2. Sound(d)
    BY <2>1 DEF ObjectsInv
  <2> QED BY <2>1, <2>2 DEF Sound, Deleted, NoJob, NoDelete
<1>29. CASE UNCHANGED mediaVars
  BY <1>29 DEF mediaVars, ObjectsInv, Sound, Deleted
<1> QED
  BY <1>11, <1>12, <1>13, <1>14, <1>15, <1>17, <1>18, <1>19, <1>20, <1>21,
     <1>22, <1>23, <1>24, <1>25, <1>26, <1>27, <1>28, <1>29
     DEF MediaNext, Downloads, Deletes

-----------------------------------------------------------------------------
(* Wakes. Downloads run in the pool only, the purge of the alarm in its step *)
(* only. A step that will sleep without a wake has left no id to download:   *)
(* it found none, or had them all settled, before its purge began.           *)
JobsInPool == step.pc # "pool" => \A d \in MediaIds : job[d] = NoJob
AlarmPurges == step.pc # "purge" => purge["alarm"] = NoDelete
SettledFile(d) == Referenced(stored, d) => file[d].state # "none"
PurgeRemembers ==
  step.pc = "purge" /\ ~step.wake /\ ~armed =>
    unknown \/ \A d \in MediaIds \ crossed : SettledFile(d)

AwaitInv ==
  ObjectsInv /\ JobsInPool /\ AlarmPurges /\ PurgeRemembers /\ MediaIsAwaited

LEMMA AwaitInit ==
  ASSUME MediaAssumption, MediaInit
  PROVE  AwaitInv
<1>1. JobsInPool /\ AlarmPurges /\ PurgeRemembers
  BY DEF MediaInit, JobsInPool, AlarmPurges, PurgeRemembers, Purgers, Asleep
<1>2. MediaIsAwaited
  BY DEF MediaInit, MediaIsAwaited, Tombstoned, NoRow, Referenced
<1> QED BY <1>1, <1>2, ObjectsInit DEF AwaitInv

(* A step that sleeps is awaited, if nothing is to be told but what the      *)
(* rows say.                                                                 *)
LEMMA SleepsAwaited ==
  ASSUME NEW wake \in BOOLEAN, Sleeps(wake, file), armed \in BOOLEAN,
         file \in [MediaIds -> Rows], UNCHANGED <<stored, file, crossed>>,
         Tombstoned(file) = {},
         ~wake /\ ~armed => unknown' \/ \A d \in MediaIds \ crossed : SettledFile(d)
  PROVE  MediaIsAwaited' /\ step' = Asleep
<1>1. step' = Asleep /\ (armed' <=> armed \/ wake \/ \E d \in MediaIds : file[d].state = "failed")
  BY DEF Sleeps
<1>2. \A d \in MediaIds : file[d].state \notin {"erased"}
  BY DEF Tombstoned
<1>3. CASE armed'
  BY <1>1, <1>3 DEF MediaIsAwaited
<1>4. CASE ~armed'
  <2>1. ~wake /\ ~armed /\ \A d \in MediaIds : file[d].state # "failed"
    BY <1>1, <1>4
  <2>2. \A d \in MediaIds : file[d].state \in {"none", "stored", "gone"}
    BY <1>2, <2>1 DEF Rows
  <2>3. Tombstoned(file') = {} /\ stored' = stored /\ file' = file /\ crossed' = crossed
    OBVIOUS
  <2>4. unknown' \/ \A d \in MediaIds \ crossed :
                      Referenced(stored, d) => file[d].state \in {"stored", "gone"}
    BY <2>1, <2>2 DEF SettledFile
  <2> QED BY <1>1, <2>3, <2>4 DEF MediaIsAwaited
<1> QED BY <1>3, <1>4

LEMMA StepPurgesAwaited ==
  ASSUME AwaitInv, MediaAssumption, NEW wake \in BOOLEAN, StepPurges(wake),
         step.pc # "purge", UNCHANGED <<stored, crossed, job>>,
         \A d \in MediaIds : job[d] = NoJob,
         ~wake /\ ~armed => unknown' \/ \A d \in MediaIds \ crossed : SettledFile(d)
  PROVE  JobsInPool' /\ AlarmPurges' /\ PurgeRemembers' /\ MediaIsAwaited'
<1>1. /\ file \in [MediaIds -> Rows] /\ LeftIn(file) /\ armed \in BOOLEAN
      /\ purge \in [Purgers -> Deletions] /\ step \in Steps
  BY MediaTypes DEF AwaitInv, ObjectsInv
<1>2. "alarm" \in Purgers /\ Purges("alarm", file)
  BY DEF Purgers, StepPurges
<1>3. JobsInPool'
  BY DEF JobsInPool
<1>4. /\ \A d \in MediaIds : file[d].state # "erased" => file'[d] = file[d]
      /\ purge'["alarm"] = [ids |-> Tombstoned(file), landed |-> FALSE]
  BY <1>1, <1>2, PurgesTakesTombstones DEF Deletions
<1>5. CASE Tombstoned(file) = {}
  <2>1. file' = file
    BY <1>1, <1>2, <1>5 DEF Purges
  <2>2. purge'["alarm"] = NoDelete
    BY <1>4, <1>5 DEF NoDelete
  <2>3. Sleeps(wake, file)
    BY <1>5 DEF StepPurges
  <2>4. MediaIsAwaited' /\ step' = Asleep
    BY <1>1, <1>5, <2>1, <2>3, SleepsAwaited
  <2> QED BY <1>3, <2>2, <2>4 DEF AlarmPurges, PurgeRemembers, Asleep
<1>6. CASE Tombstoned(file) # {}
  <2>1. step' = [pc |-> "purge", ids |-> {}, wake |-> wake] /\ armed' = armed
    BY <1>6 DEF StepPurges
  <2>2. ASSUME NEW d \in MediaIds \ crossed, SettledFile(d)
        PROVE  SettledFile(d)'
    <3>1. file[d].state = "erased" => ~Referenced(stored, d)
      BY DEF AwaitInv, ObjectsInv, Sound, Deleted
    <3> QED BY <1>4, <2>2, <3>1 DEF SettledFile
  <2>3. PurgeRemembers'
    BY <2>1, <2>2 DEF PurgeRemembers
  <2> QED BY <1>3, <2>1, <2>3 DEF AlarmPurges, MediaIsAwaited
<1> QED BY <1>5, <1>6

(* Messages and purges of erasures, which leave the step alone, while        *)
(* nothing runs in the pool: what they mark or purge is not referenced.      *)
LEMMA RoundKeepsAwaited ==
  ASSUME AwaitInv, MediaAssumption, NEW p \in Purgers, NEW ms,
         NEW rows \in [MediaIds -> Rows], LeftIn(rows), Purges(p, rows),
         stored' = stored \ ms,
         \A d \in MediaIds : \/ rows[d] = file[d]
                             \/ rows[d].state = "erased" /\ ~Referenced(stored \ ms, d),
         UNCHANGED <<armed, step, unknown, crossed>>
  PROVE  PurgeRemembers' /\ MediaIsAwaited'
<1>1. purge \in [Purgers -> Deletions]
  BY MediaTypes DEF AwaitInv, ObjectsInv
<1>2. /\ Tombstoned(file') = {}
      /\ \A d \in MediaIds : rows[d].state # "erased" => file'[d] = rows[d]
  BY <1>1, PurgesTakesTombstones DEF Deletions
<1>3. ASSUME NEW d \in MediaIds \ crossed, Referenced(stored', d)
      PROVE  file'[d] = file[d] /\ Referenced(stored, d)
  <2>1. Referenced(stored, d)
    BY <1>3, ReferencedShrinks
  <2>2. file[d].state # "erased"
    BY <2>1 DEF AwaitInv, ObjectsInv, Sound, Deleted
  <2> QED BY <1>2, <1>3, <2>1, <2>2
<1>4. PurgeRemembers'
  BY <1>3 DEF AwaitInv, PurgeRemembers, SettledFile
<1>5. MediaIsAwaited'
  BY <1>2, <1>3 DEF AwaitInv, MediaIsAwaited
<1> QED BY <1>4, <1>5

LEMMA AwaitNext ==
  ASSUME MediaAssumption, AwaitInv, [MediaNext]_mediaVars
  PROVE  AwaitInv'
<1>1. ObjectsInv'
  BY ObjectsNext DEF AwaitInv
<1>2. /\ file \in [MediaIds -> Rows] /\ LeftIn(file) /\ armed \in BOOLEAN
      /\ job \in [MediaIds -> Jobs] /\ purge \in [Purgers -> Deletions]
      /\ step \in Steps /\ step.wake \in BOOLEAN
  BY MediaTypes DEF AwaitInv, ObjectsInv, Steps
<1>3. "alarm" \in Purgers /\ \A e \in Erasers : e \in Purgers /\ e # "alarm"
  BY DEF Purgers, MediaAssumption
<1>4. stored = stored \ {}
  OBVIOUS
<1> SUFFICES JobsInPool' /\ AlarmPurges' /\ PurgeRemembers' /\ MediaIsAwaited'
  BY <1>1 DEF AwaitInv
<1>10. ASSUME armed', UNCHANGED <<step, job, purge>>
       PROVE  JobsInPool' /\ AlarmPurges' /\ PurgeRemembers' /\ MediaIsAwaited'
  BY <1>10 DEF AwaitInv, JobsInPool, AlarmPurges, PurgeRemembers, MediaIsAwaited
<1>11. CASE \E m \in Messages : MessageStored(m) \/ Replayed(m)
  BY <1>10, <1>11 DEF MessageStored, Replayed
<1>13. CASE \E ms \in SUBSET Messages, e \in Erasers : EraseMessages(e, ms)
  <2> PICK ms \in SUBSET Messages, e \in Erasers : EraseMessages(e, ms) BY <1>13
  <2>1. /\ Purges(e, Deleting(ms)) /\ stored' = stored \ ms
        /\ UNCHANGED <<armed, step, job, unknown, crossed>>
    BY DEF EraseMessages
  <2>2. /\ Deleting(ms) \in [MediaIds -> Rows] /\ LeftIn(Deleting(ms))
        /\ \A x \in MediaIds :
             \/ Deleting(ms)[x] = file[x]
             \/ Deleting(ms)[x].state = "erased" /\ ~Referenced(stored \ ms, x)
    BY DeletingMarks DEF AwaitInv, ObjectsInv
  <2>3. purge'["alarm"] = purge["alarm"]
    BY <1>2, <1>3, <2>1 DEF Purges
  <2>4. PurgeRemembers' /\ MediaIsAwaited'
    BY <1>3, <2>1, <2>2, RoundKeepsAwaited
  <2> QED BY <2>1, <2>3, <2>4 DEF AwaitInv, JobsInPool, AlarmPurges
<1>14. CASE \E ms \in SUBSET Messages : Reprocess(ms)
  BY <1>10, <1>14 DEF Reprocess
<1>15. CASE \E ms \in SUBSET Messages : PruneMessages(ms)
  <2>1. step.pc = "early" /\ UNCHANGED <<step, job, purge>>
    BY <1>15 DEF PruneMessages
  <2> QED BY <2>1 DEF AwaitInv, JobsInPool, AlarmPurges, PurgeRemembers, MediaIsAwaited
<1>16. CASE Wakes
  BY <1>16 DEF Wakes, AwaitInv, JobsInPool, AlarmPurges, PurgeRemembers,
               MediaIsAwaited, Asleep
<1>17. CASE MediaStep
  <2>0. step.pc = "early" /\ UNCHANGED <<stored, crossed, job, unknown>>
    BY <1>17 DEF MediaStep, gaps
  <2>1. CASE DueIds(stored, file) = {}
    <3>1. \A d \in MediaIds \ crossed : SettledFile(d)
      BY <2>1 DEF DueIds, Waits, SettledFile
    <3>2. StepPurges(FALSE) /\ \A d \in MediaIds : job[d] = NoJob
      BY <1>17, <2>0, <2>1 DEF MediaStep, AwaitInv, JobsInPool
    <3> QED BY <2>0, <3>1, <3>2, StepPurgesAwaited
  <2>2. CASE DueIds(stored, file) # {}
    <3>1. step'.pc = "token" /\ purge' = purge
      BY <1>2, <1>17, <2>2 DEF MediaStep, Steps
    <3> QED BY <2>0, <3>1 DEF AwaitInv, JobsInPool, AlarmPurges, PurgeRemembers,
                              MediaIsAwaited
  <2> QED BY <2>1, <2>2
<1>18. CASE TokenKnown
  <2>1. step.pc = "token" /\ step'.pc = "pool" /\ purge' = purge
    BY <1>2, <1>18 DEF TokenKnown, Steps
  <2> QED BY <2>1 DEF AwaitInv, JobsInPool, AlarmPurges, PurgeRemembers, MediaIsAwaited
<1>19. CASE TokenMissing
  <2> PICK missing \in BOOLEAN : unknown' = missing /\ StepPurges(~missing)
    BY <1>19 DEF TokenMissing
  <2>1. step.pc = "token" /\ UNCHANGED <<stored, crossed, job>>
    BY <1>19 DEF TokenMissing, gaps
  <2>2. \A d \in MediaIds : job[d] = NoJob
    BY <2>1 DEF AwaitInv, JobsInPool
  <2>3. (~missing) \in BOOLEAN /\ (~(~missing) => unknown')
    OBVIOUS
  <2> QED BY <2>1, <2>2, <2>3, StepPurgesAwaited
<1>20. CASE PoolEnds
  <2> DEFINE wake == step.wake \/ DueIds(stored, file) # {}
  <2>1. /\ wake \in BOOLEAN /\ StepPurges(wake) /\ step.pc = "pool"
        /\ UNCHANGED <<stored, crossed, job>> /\ \A d \in MediaIds : job[d] = NoJob
    BY <1>2, <1>20 DEF PoolEnds, gaps
  <2>2. ~wake => \A d \in MediaIds \ crossed : SettledFile(d)
    BY DEF DueIds, Waits, SettledFile
  <2> HIDE DEF wake
  <2> QED BY <2>1, <2>2, StepPurgesAwaited
<1>21. CASE \E x \in MediaIds : JobStarts(x)
  <2> PICK x \in MediaIds : JobStarts(x) BY <1>21
  <2>1. step.pc = "pool" /\ step'.pc = "pool" /\ purge' = purge
    BY <1>2 DEF JobStarts, Steps
  <2> QED BY <2>1 DEF AwaitInv, JobsInPool, AlarmPurges, PurgeRemembers, MediaIsAwaited
<1>22. CASE \E x \in MediaIds : PutLands(x) \/ DownloadEnds(x) \/ TokenRejected(x)
  <2> PICK x \in MediaIds : PutLands(x) \/ DownloadEnds(x) \/ TokenRejected(x)
    BY <1>22
  <2>1. job[x] # NoJob
    BY DEF PutLands, DownloadEnds, TokenRejected, NoJob
  <2>2. step.pc = "pool"
    BY <2>1 DEF AwaitInv, JobsInPool
  <2>3. step'.pc = "pool" /\ purge' = purge
    BY <1>2, <2>2 DEF PutLands, DownloadEnds, TokenRejected, Steps
  <2> QED BY <2>2, <2>3 DEF AwaitInv, JobsInPool, AlarmPurges, PurgeRemembers,
                            MediaIsAwaited
<1>24. CASE \E x \in MediaIds : BackoffEnds(x)
  <2> PICK x \in MediaIds : BackoffEnds(x) BY <1>24
  <2>1. \A d \in MediaIds : file'[d].state = file[d].state
    BY <1>2 DEF BackoffEnds, Rows
  <2>2. Tombstoned(file') = Tombstoned(file)
    BY <2>1 DEF Tombstoned
  <2>3. UNCHANGED <<stored, armed, step, job, purge, unknown, crossed>>
    BY DEF BackoffEnds, gaps
  <2> QED BY <2>1, <2>2, <2>3 DEF AwaitInv, JobsInPool, AlarmPurges, PurgeRemembers,
                                  MediaIsAwaited, SettledFile
<1>25. CASE \E p \in Purgers : DeleteLands(p)
  <2> PICK p \in Purgers : DeleteLands(p) BY <1>25
  <2>1. p # "alarm" \/ step.pc = "purge"
    BY DEF DeleteLands, AwaitInv, AlarmPurges, NoDelete
  <2>2. p # "alarm" => purge'["alarm"] = purge["alarm"]
    BY <1>2, <1>3 DEF DeleteLands
  <2>3. UNCHANGED <<stored, file, armed, step, job, unknown, crossed>>
    BY DEF DeleteLands, gaps
  <2> QED BY <2>1, <2>2, <2>3 DEF AwaitInv, JobsInPool, AlarmPurges, PurgeRemembers,
                                  MediaIsAwaited, SettledFile
<1>26. CASE \E p \in Purgers : DeleteAnswered(p)
  <2> PICK p \in Purgers : DeleteAnswered(p) BY <1>26
  <2>1. /\ Purges(p, file) /\ stored' = stored \ {} /\ UNCHANGED <<job, unknown, crossed>>
        /\ purge[p].landed
    BY <1>4 DEF DeleteAnswered, gaps
  <2>2. p = "alarm" => step.pc = "purge"
    BY <2>1 DEF AwaitInv, AlarmPurges, NoDelete
  <2>3. p # "alarm" => purge'["alarm"] = purge["alarm"]
    BY <1>2, <1>3, <2>1 DEF Purges
  <2>4. CASE ~(p = "alarm" /\ Tombstoned(file) = {})
    <3>1. UNCHANGED <<step, armed>>
      BY <2>4 DEF DeleteAnswered
    <3>2. PurgeRemembers' /\ MediaIsAwaited'
      BY <1>2, <2>1, <3>1, RoundKeepsAwaited
    <3> QED BY <2>1, <2>2, <2>3, <3>1, <3>2 DEF AwaitInv, JobsInPool, AlarmPurges
  <2>5. CASE p = "alarm" /\ Tombstoned(file) = {}
    <3>1. file' = file /\ purge'["alarm"] = NoDelete
      BY <1>2, <1>3, <2>1, <2>5 DEF Purges, NoDelete
    <3>2. Sleeps(step.wake, file)
      BY <2>5 DEF DeleteAnswered
    <3>3. ~step.wake /\ ~armed => unknown' \/ \A d \in MediaIds \ crossed : SettledFile(d)
      BY <2>1, <2>2, <2>5 DEF AwaitInv, PurgeRemembers
    <3>4. MediaIsAwaited' /\ step' = Asleep
      BY <1>2, <2>1, <2>5, <3>1, <3>2, <3>3, SleepsAwaited
    <3> QED BY <2>1, <2>2, <2>5, <3>1, <3>4
            DEF AwaitInv, JobsInPool, AlarmPurges, PurgeRemembers, Asleep
  <2> QED BY <2>4, <2>5
<1>27. CASE \E p \in Purgers : DeleteRefused(p)
  <2> PICK p \in Purgers : DeleteRefused(p) BY <1>27
  <2>1. CASE p = "alarm"
    <3>1. step.pc = "purge"
      BY <2>1 DEF DeleteRefused, AwaitInv, AlarmPurges, NoDelete
    <3>2. step' = Asleep /\ armed' /\ job' = job /\ purge'["alarm"] = NoDelete
      BY <1>2, <1>3, <2>1 DEF DeleteRefused, Sleeps
    <3> QED BY <3>1, <3>2 DEF AwaitInv, JobsInPool, AlarmPurges, PurgeRemembers,
                              MediaIsAwaited, Asleep
  <2>2. CASE p # "alarm"
    <3>1. armed' /\ UNCHANGED <<step, job>> /\ purge'["alarm"] = purge["alarm"]
      BY <1>2, <1>3, <2>2 DEF DeleteRefused
    <3> QED BY <3>1 DEF AwaitInv, JobsInPool, AlarmPurges, PurgeRemembers,
                        MediaIsAwaited
  <2> QED BY <2>1, <2>2
<1>28. CASE Restart
  <2>1. /\ step' = Asleep /\ (armed' <=> armed \/ step.pc # "idle")
        /\ UNCHANGED <<stored, file, unknown, crossed>>
        /\ \A d \in MediaIds : job'[d] = NoJob
        /\ \A q \in Purgers : purge'[q] = NoDelete
    BY <1>28 DEF Restart
  <2> QED BY <1>3, <2>1 DEF AwaitInv, JobsInPool, AlarmPurges, PurgeRemembers,
                            MediaIsAwaited, Asleep
<1>29. CASE UNCHANGED mediaVars
  BY <1>29 DEF mediaVars, AwaitInv, JobsInPool, AlarmPurges, PurgeRemembers,
               MediaIsAwaited, SettledFile
<1> QED
  BY <1>11, <1>13, <1>14, <1>15, <1>16, <1>17, <1>18, <1>19, <1>20, <1>21,
     <1>22, <1>24, <1>25, <1>26, <1>27, <1>28, <1>29
     DEF MediaNext, Downloads, Deletes

-----------------------------------------------------------------------------
LEMMA AwaitInvHolds == MediaSpec => []AwaitInv
<1>1. MediaInit => AwaitInv
  BY AwaitInit, MediaAssumption
<1>2. AwaitInv /\ [MediaNext]_mediaVars => AwaitInv'
  BY AwaitNext, MediaAssumption
<1> QED BY <1>1, <1>2, PTL DEF MediaSpec

(* Every row, download and delete has its type; no download is tried more    *)
(* often than MEDIA_MAX_ATTEMPTS.                                            *)
THEOREM MediaTypeCorrect == MediaSpec => []MediaTypeOK
<1>1. AwaitInv => MediaTypeOK
  BY DEF AwaitInv, ObjectsInv, MediaTypeInv
<1> QED BY <1>1, AwaitInvHolds, PTL

(* A row that says stored has its object in R2, whatever downloads, erasures,*)
(* purges, replays and restarts overlap, but for an id that a message        *)
(* brought back while its deletion ran.                                      *)
THEOREM StoredIsThereHolds == MediaSpec => []StoredIsThere
<1>1. AwaitInv => StoredIsThere
  BY DEF AwaitInv, ObjectsInv, Sound, StoredIsThere
<1> QED BY <1>1, AwaitInvHolds, PTL

(* Work of the media step always has an alarm or a run that will see it.     *)
THEOREM MediaIsAwaitedHolds == MediaSpec => []MediaIsAwaited
<1>1. AwaitInv => MediaIsAwaited
  BY DEF AwaitInv
<1> QED BY <1>1, AwaitInvHolds, PTL
=============================================================================
