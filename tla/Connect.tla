------------------------------- MODULE Connect -------------------------------
(* How a WABA comes to an account: a state is started for an account, handed *)
(* to Meta and redeemed once by the callback, by POST /connect/exchange or   *)
(* by the RPC of the dashboard; or an operator pastes a token. Each of these *)
(* asks Meta what the token reaches, asks the control plane who owns it and  *)
(* registers what is free, every time in a call of its own, while others do  *)
(* the same. A call that fails before the registration ends the flow.        *)
EXTENDS Naturals, FiniteSets

CONSTANTS
  Accounts, NoAccount,
  Wabas, NoWaba,
  Numbers,
  ConnectStates, NoState,
  Flows,      \* requests that connect something, each made once
  Listings    \* what Meta may list for a token: WABAs with their numbers

ASSUME ConnectAssumption ==
  /\ NoAccount \notin Accounts /\ NoWaba \notin Wabas
  /\ NoState \notin ConnectStates
  /\ Listings \subseteq [Wabas -> SUBSET Numbers]

VARIABLES
  connectState,  \* connect_states: the account of a state that can be redeemed
  startedFor,    \* history: the account each state was started for
  owner,         \* wabas: the account of a registered WABA
  numberOf,      \* phones: the WABA a number is registered to
  flow

connectVars == <<connectState, startedFor, owner, numberOf, flow>>

(* `state`: redeemed, or about to be at "consume". `found`: the WABAs to     *)
(* register with their numbers, none for the others; at "connected", what    *)
(* the answer tells.                                                         *)
FlowType ==
  [pc : {"idle", "consume", "discover", "check", "connected", "refused"},
   account : Accounts \cup {NoAccount}, state : ConnectStates \cup {NoState},
   selector : Wabas \cup {NoWaba}, pasted : BOOLEAN,
   found : [Wabas -> SUBSET Numbers], unchecked : SUBSET Wabas]

ConnectTypeOK ==
  /\ connectState \in [ConnectStates -> Accounts \cup {NoAccount}]
  /\ startedFor \in [ConnectStates -> Accounts \cup {NoAccount}]
  /\ owner \in [Wabas -> Accounts \cup {NoAccount}]
  /\ numberOf \in [Numbers -> Wabas \cup {NoWaba}]
  /\ flow \in [Flows -> FlowType]

Nothing == [w \in Wabas |-> {}]

ConnectInit ==
  /\ connectState = [s \in ConnectStates |-> NoAccount]
  /\ startedFor = [s \in ConnectStates |-> NoAccount]
  /\ owner = [w \in Wabas |-> NoAccount]
  /\ numberOf = [n \in Numbers |-> NoWaba]
  /\ flow = [f \in Flows |->
       [pc |-> "idle", account |-> NoAccount, state |-> NoState,
        selector |-> NoWaba, pasted |-> FALSE, found |-> Nothing,
        unchecked |-> {}]]

-----------------------------------------------------------------------------
(* States. Each is random and so new; what refreshConnectState adds to its   *)
(* time is in when it expires.                                               *)

StartConnect(a, s) ==
  /\ startedFor[s] = NoAccount
  /\ connectState' = [connectState EXCEPT ![s] = a]
  /\ startedFor' = [startedFor EXCEPT ![s] = a]
  /\ UNCHANGED <<owner, numberOf, flow>>

StateExpires(s) ==
  /\ connectState[s] # NoAccount
  /\ connectState' = [connectState EXCEPT ![s] = NoAccount]
  /\ UNCHANGED <<startedFor, owner, numberOf, flow>>

Unchanging == UNCHANGED <<startedFor, owner, numberOf>>

Begins(f, pc, a, s, w, pasted) ==
  /\ flow[f].pc = "idle"
  /\ flow' = [flow EXCEPT ![f].pc = pc, ![f].account = a, ![f].state = s,
                          ![f].selector = w, ![f].pasted = pasted]

(* Reading a state and deleting it is one transaction.                       *)
Redeems(s, a) ==
  /\ a # NoAccount /\ connectState[s] = a
  /\ connectState' = [connectState EXCEPT ![s] = NoAccount]

(* GET /connect with a code: the account is the one of the state.            *)
ConnectCallback(f, s) ==
  /\ Redeems(s, connectState[s])
  /\ Begins(f, "discover", connectState[s], s, NoWaba, FALSE)
  /\ Unchanging

(* exchangeConnectCodeForAccountId, the dashboard.                           *)
RpcExchange(f, a, s, w) ==
  /\ Redeems(s, a)
  /\ Begins(f, "discover", a, s, w, FALSE)
  /\ Unchanging

(* POST /connect/exchange looks at the state in one call ...                 *)
ConnectExchange(f, a, s, w) ==
  /\ connectState[s] = a
  /\ Begins(f, "consume", a, s, w, FALSE)
  /\ UNCHANGED connectState /\ Unchanging

(* ... and redeems it in the next.                                           *)
ConsumeState(f) ==
  /\ flow[f].pc = "consume"
  /\ IF connectState[flow[f].state] = flow[f].account
     THEN /\ Redeems(flow[f].state, flow[f].account)
          /\ flow' = [flow EXCEPT ![f].pc = "discover"]
     ELSE /\ flow' = [flow EXCEPT ![f].pc = "refused", ![f].state = NoState]
          /\ UNCHANGED connectState
  /\ Unchanging

(* connectWabaWithToken: a token without a state.                            *)
PasteToken(f, a, w) ==
  /\ Begins(f, "discover", a, NoState, w, TRUE)
  /\ UNCHANGED connectState /\ Unchanging

-----------------------------------------------------------------------------
(* From the token to the registration.                                       *)

(* Of what Meta lists, the WABAs with numbers. One that was named is all     *)
(* that counts; of several that a pasted token reaches the operator has to   *)
(* name one. An exchange or a listing that fails is an empty one.            *)
Matches(f, listing) ==
  LET with == {w \in Wabas : listing[w] # {}} IN
  CASE flow[f].selector # NoWaba -> with \cap {flow[f].selector}
    [] flow[f].selector = NoWaba /\ flow[f].pasted /\ Cardinality(with) > 1 -> {}
    [] OTHER -> with

Discover(f) ==
  /\ flow[f].pc = "discover"
  /\ \E listing \in Listings \cup {Nothing} :
       LET found == Matches(f, listing) IN
       flow' = [flow EXCEPT
         ![f].pc = IF found = {} THEN "refused" ELSE "check",
         ![f].unchecked = found,
         ![f].found = [w \in Wabas |-> IF w \in found THEN listing[w] ELSE {}]]
  /\ UNCHANGED connectState /\ Unchanging

(* getWabaById for one match: another account's is skipped, unless it is the *)
(* one that was asked for.                                                   *)
CheckOwner(f, w) ==
  /\ flow[f].pc = "check" /\ w \in flow[f].unchecked
  /\ IF owner[w] \in {NoAccount, flow[f].account}
     THEN flow' = [flow EXCEPT ![f].unchecked = @ \ {w}]
     ELSE IF flow[f].selector # NoWaba
     THEN flow' = [flow EXCEPT ![f].pc = "refused"]
     ELSE flow' = [flow EXCEPT ![f].unchecked = @ \ {w}, ![f].found[w] = {}]
  /\ UNCHANGED connectState /\ Unchanging

(* A batch is its WABAs with their numbers. prepareWabas refuses one that    *)
(* names a number twice, and assertWabaOwnership one that takes anything     *)
(* from another account or WABA; a number is somebody's only if its WABA is  *)
(* registered.                                                               *)
NumbersFree(batch) ==
  \A w \in Wabas : \A n \in batch[w] :
    /\ \A v \in Wabas \ {w} : n \notin batch[v]
    /\ numberOf[n] \notin {NoWaba, w} => owner[numberOf[n]] = NoAccount

(* Slip: the owners were checked before. *)
FreeByNumbers(a, batch) == NumbersFree(batch)

Free(a, batch) ==
  /\ \A w \in Wabas : batch[w] # {} => owner[w] \in {NoAccount, a}
  /\ NumbersFree(batch)

(* The transaction of beginWabaProvisioningBatch: all of the batch, with the *)
(* numbers it names and no others. A WABA whose fingerprint is unchanged is  *)
(* left alone, and has these numbers already.                                *)
Registers(a, batch) ==
  /\ owner' = [w \in Wabas |-> IF batch[w] # {} THEN a ELSE owner[w]]
  /\ numberOf' = [n \in Numbers |->
       IF \E w \in Wabas : n \in batch[w]
       THEN CHOOSE w \in Wabas : n \in batch[w]
       ELSE IF numberOf[n] # NoWaba /\ batch[numberOf[n]] # {} THEN NoWaba
       ELSE numberOf[n]]

BeginBatch(f) ==
  LET batch == flow[f].found IN
  /\ flow[f].pc = "check" /\ flow[f].unchecked = {}
  /\ IF batch # Nothing /\ Free(flow[f].account, batch)
     THEN /\ Registers(flow[f].account, batch)
          /\ flow' = [flow EXCEPT ![f].pc = "connected"]
     ELSE /\ flow' = [flow EXCEPT ![f].pc = "refused"]
          /\ UNCHANGED <<owner, numberOf>>
  /\ UNCHANGED <<connectState, startedFor>>

(* POST /v1/accounts/:accountId/wabas names the numbers itself.              *)
RegisterByAdmin(a, w, ns) ==
  LET batch == [Nothing EXCEPT ![w] = ns] IN
  /\ ns # {} /\ Free(a, batch) /\ Registers(a, batch)
  /\ UNCHANGED <<connectState, startedFor, flow>>

ConnectNext ==
  \/ \E s \in ConnectStates :
       StateExpires(s) \/ \E a \in Accounts : StartConnect(a, s)
  \/ \E f \in Flows :
       \/ \E s \in ConnectStates : ConnectCallback(f, s)
       \/ \E a \in Accounts, w \in Wabas \cup {NoWaba} :
            \/ PasteToken(f, a, w)
            \/ \E s \in ConnectStates :
                 RpcExchange(f, a, s, w) \/ ConnectExchange(f, a, s, w)
       \/ ConsumeState(f) \/ Discover(f) \/ BeginBatch(f)
       \/ \E w \in Wabas : CheckOwner(f, w)
  \/ \E a \in Accounts, w \in Wabas, ns \in SUBSET Numbers :
       RegisterByAdmin(a, w, ns)

ConnectSpec == ConnectInit /\ [][ConnectNext]_connectVars

-----------------------------------------------------------------------------
(* Properties.                                                               *)

(* A state connects at most one flow, and that for the account it was        *)
(* started for, whichever of the three ways redeems it.                      *)
RedeemedOnce ==
  \A f \in Flows :
    flow[f].state # NoState /\ flow[f].pc # "consume" =>
      /\ connectState[flow[f].state] = NoAccount
      /\ startedFor[flow[f].state] = flow[f].account
      /\ \A g \in Flows \ {f} :
           flow[g].state = flow[f].state => flow[g].pc = "consume"

(* What an answer tells as connected belongs to the account it was told to.  *)
ToldIsOwned ==
  \A f \in Flows : flow[f].pc = "connected" =>
    \A w \in Wabas : flow[f].found[w] # {} => owner[w] = flow[f].account

(* No registration takes a WABA from its account or a number from its WABA.  *)
NothingIsTaken ==
  /\ \A w \in Wabas : owner[w] # NoAccount => owner'[w] = owner[w]
  /\ \A n \in Numbers :
       numberOf[n] # NoWaba => numberOf'[n] \in {numberOf[n], NoWaba}

(* "Cannot be assigned to another account" (docs/multi-tenancy.md): although *)
(* flows look at states and owners in earlier calls than those that redeem   *)
(* and register, a state is redeemed once and for its account, and nothing   *)
(* is taken from one account by another.                                     *)
HandoffsAreOwned ==
  [](RedeemedOnce /\ ToldIsOwned) /\ [][NothingIsTaken]_connectVars
=============================================================================
