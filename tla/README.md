# Formal models of the Eccos gateway

Eccos receives WhatsApp webhooks from Meta, keeps them, forwards them to the
subscriber of each number and sends messages: one at a time for its clients, and
on its own for broadcasts and scheduled sends. Its control plane connects the
accounts' WhatsApp Business Accounts and provisions them. This directory holds
TLA+ modules of its core, the TLC runs that check them on small instances, and theorems that
TLAPS proves for every value of the constants. Paths below are in the repository;
`gateway.ts` stands for `apps/gateway/src/gateway.ts`. `PROJECT.json` maps every
definition to the lines it models.

- [The system](#the-system): an inventory of components and what is hard in each
- [The modules](#the-modules): how state and actions correspond to the code
- [The runs](#the-runs): what is checked, with which bounds and why they are enough
- [Fairness](#fairness)
- [Disagreements between code and comments](#disagreements-between-code-and-comments)
- [The proofs](#the-proofs): what is proved, from which assumptions, by which argument
- [What is not modelled](#what-is-not-modelled)
- [The plan](#the-plan)

## The system

The hosted target is a Cloudflare Worker (`apps/gateway`). A stateless edge
(`worker.ts`, `rpc.ts`, `routes/`) authenticates requests and calls two kinds of
Durable Object: one `EccosControlPlane` for all tenants and one `EccosGateway`
per WhatsApp Business Account (WABA). A Durable Object is one thread with a
SQLite database and **one alarm**. Requests interleave with a running handler
wherever that handler awaits something other than its storage (a `fetch`, an RPC,
R2): storage awaits keep other events out (input gates), `alarm()` never overlaps
itself, and an `alarm()` that a restart cut short is called again. The self-host
target (`src/`) is one Bun process with its own delivery loop and no gates at all.

Everything hard in the hosted target follows from this: a handler reads a row,
awaits, and uses what it has read; and nine features share one alarm.

| Component | State | Operations | Calls / is called by | What is hard | What makes it correct |
|---|---|---|---|---|---|
| Delivery queue (`gateway.ts`) | `deliveries`, `inbound_events`, `sends`, the alarm, `wakeArrived` | `ingest`, `logOutbound`, `setSubscriberConfig`, `retryDelivery`, `retryFailedDeliveries`, `alarm` with a pool of six forwards, retention, erasure | edge → DO; DO → subscriber over HTTP | rows captured in memory over many awaits; wakes that overwrite each other; a status that overtakes its send; an answer that times out | nothing stored is lost, nothing erased returns, attempts are bounded, due rows are awaited |
| Broadcasts (`gateway.ts`, `broadcasts.ts`) | `broadcasts`, `broadcast_recipients`, pacing in `ops_state` | create, cancel, a step of the alarm | step → control plane (token), limiter, Meta | cancel, erasure or restart with sends in flight; throttled against lost | nobody is messaged twice, outcomes are true, a broadcast ends |
| Scheduled sends (`gateway.ts`, `scheduled.ts`) | `scheduled_sends`, next tick in `ops_state` | PUT, DELETE, a step of the alarm | the same, and `ingest` for `scheduled_failed` | a key that names another row when a send comes back; expiry against retries; steps that throw | at most once, never late or after an erasure, each failure told once, each send ends |
| Send keys (`gateway.ts`, `worker.ts`, `rpc.ts`) | `send_keys` | `claimSendKey`, `settleSendKey` | edge before and after a send | a retry while the first send is in flight, its answer lost, or its key expired | one key, one send, one true answer |
| Conversation store (`conversations.ts`, `gateway.ts`) | `messages`, `contacts`, BSUID pairs, erased keys | `writeConversation`, `storeMessage`, statuses, `eraseByPhone`, retention | `ingest`, `logOutbound`, history sync | statuses out of order and repeated; live against history; two keys of one customer merged in any order | one customer is one conversation; a status is the furthest reported; an erasure finds every key |
| History and contacts sync (`history.ts`, `gateway.ts`) | `sync_payloads` with attempts and a cursor | capture, `processSyncBatch`, reprocess | `ingest`, the alarm | a poisonous payload; an erasure or a replay while a batch awaits the control plane | progress is kept, what keeps failing is parked, what was erased stays so |
| Media store (`media-*.ts`, `gateway.ts`) | `media`, tombstones, R2 objects | `mediaStep`, `downloadOneMedia`, `purgeErasedMedia` | Meta, R2 | a download during an erasure; a restart between the row and R2 | a stored row has its object, no object outlives its messages |
| Held webhooks (`held-webhooks.ts`, `worker.ts`) | held batches, in a gateway DO of their own | `routeBatch`, `holdBatch`, `releaseHeld` | edge, provisioning | a WABA that becomes active during the hold; a release that fails half-way or knows an old list of numbers | what was answered 200 is stored, held with a release on its way, or given up for a logged reason |
| Provisioning saga (`provisioning.ts`, `coexistence.ts`) | none of its own: a claim it carries through its calls | `reconcileWaba`, `runClaim`: subscribe, adopt the numbers, save the configuration, verify, coexistence syncs | cron, connect, operators; Graph, control plane | runs that overlap, outlive their lease, die, or lose an answer; Meta allows each coexistence sync once | no second request; progress is kept; a pending WABA ends |
| Control plane (`control-plane.ts`, `tenant-*.ts`, `token-crypto.ts`) | WABAs with revision, attempt and lease, numbers, connect states; accounts, API keys, sealed tokens | registration, claim, guarded writes, completion, retry, reset, settlement; states | edge, connect, provisioning | claims that outlive their lease; two operators; a WABA or a number claimed for two accounts | a late completion is not stored; nothing is taken from its owner |
| Connect flow (`routes/connect.ts`, `rpc.ts`, `meta/connect-api.ts`) | the token a flow has exchanged; states are in the control plane | Embedded Signup by redirect, by exchange and by RPC, a pasted token, the registration of what Meta lists | browser, dashboard; Graph, control plane | ownership is looked up, Meta awaited, and the registration made in separate calls | a state is redeemed once and for its account; a flow told of success owns what it connected |
| Bun forwarder (`src/delivery/forward.ts`, `src/db/client.ts`) | `deliveries` in SQLite | `processPending` every 5 s and after every webhook | subscriber | passes overlap and update unconditionally by id | a batch is told delivered only if it was, given up only after its attempts, and ends |
| Thread view (`apps/dashboard`: `use-thread.ts`, `read-cache.ts`, `use-last-good.ts`, `use-older-pages.ts`, `lib/history.ts`) | in the browser: the read cache, the last result, the last good answer, the pages loaded and their cursor, a bridge and a "load older" in flight | open, refresh, prefetch, load older, leave | browser → `getConversation` of the DO | a refresh, a superseded read, a bridge and a load in flight together; messages that arrive late; erasure; a denial | no message in between is lost from sight; the screen never goes back |
| Operator alerts (`ops-alert.ts`, `gateway.ts`) | count and time of the last alert | `recordOpsAlert` | delivery, sync | failures that come between two alerts | a count is never dropped |
| HTTP edge, RPC, diagnostics, limiter | logs, read models | routing, authentication | all of the above | I/O | not a protocol of their own |
| Packages, the rest of the dashboard, docs | – | pure functions, contracts, UI | – | – | – |

`PROJECT.json` lists the same components with their status, and under `hazards`
each hard spot at the line where it bites, with the properties that watch it.

## The modules

| Module | What it is |
|---|---|
| `Delivery` | the delivery queue of one gateway DO |
| `DeliveryHistory` | `Delivery` with the history its promise is about; implements `QueuePromise` |
| `SendPromise` | abstract: what the gateway promises of a message it sends on its own or under a key |
| `Broadcast` | the broadcasts of one gateway DO; implements `SendPromise` |
| `Scheduled` | its scheduled sends; implements `SendPromise` |
| `SendKeys` | a send under an Idempotency-Key, edge and DO; implements `SendPromise` |
| `Conversations` | the conversation store of one gateway DO, with the history sync that feeds it |
| `MediaStore` | its media rows, their downloads, tombstones and R2 objects |
| `QueuePromise` | abstract: what a forwarding queue promises of a batch it has accepted |
| `BunForwarder` | the queue of the self-hosted process; implements `QueuePromise` |
| `WabaLife` | abstract: the life of a WABA's row (status, numbers), as the rest of the system sees it |
| `Provisioning` | the saga with the control plane's row; implements `WabaLife` |
| `HeldWebhooks` | the webhook path of the edge and the hold, composed with any `WabaLife` |
| `WabaSystem` | the saga and the webhook path on one row; implements both `Provisioning` and `HeldWebhooks` |
| `Connect` | connect states, flows, and the owners of WABAs and numbers |
| `ThreadView` | one thread of the dashboard: its reads, its pages and the rows of the gateway |
| `MCDelivery`, `MCDeliveryHistory`, `MCBroadcast`, `MCScheduled` | the values of function constants for TLC, and a symmetry |
| `MCStore` | an instance of `Conversations`, `MediaStore`, `SendKeys` and `BunForwarder` |
| `MCOperator` | an instance of `Broadcast` (through `MCBroadcast`) and `ThreadView` |
| `MCSyncRefused` | the smallest payload with a refusal of history sharing |
| `MCControlPlane` | an instance of `Provisioning`, `HeldWebhooks`, both together (`WabaSystem`) and `Connect` |
| `DeliveryProofs`, `BroadcastProofs`, `ScheduledProofs`, `StoreProofs` (of `Conversations` and `MediaStore`), `PromiseProofs` (of `SendKeys`, `BunForwarder` and all of `MCStore`), `ProvisioningProofs`, `AccountProofs` (of `HeldWebhooks`, `WabaSystem` and `Connect`), `ThreadProofs` | theorems |

`Delivery`, `Broadcast` and `Scheduled` share one convention. A run of `alarm()` is a program
counter `pc` with one action for each stretch of code between two awaits, and `AtAwait` says
where a request may land: when no run is active, or at an await. A restart (`Crash`) may happen
anywhere in a run: it loses what the run has in memory and keeps the tables. In the other
modules each request, run or flow has a record of its own that says how far it has come and what
it remembers. Operators named after a `Slip:` comment are plausible bugs; they are used by no
action, only substituted for the definition that follows them to see that a property notices.

### Delivery

A row of `deliveries` is its status, its attempts, the time until it is due, its
age, and a body: which events it carries, which of them carry the origin of
their send (`withOrigin`), redacted or not. `link` is `inbound_events`: event → row.
`sends` tells whether the send that a status names is logged. `job` is what the
pool holds of a captured row: the body and attempt count of the moment of capture,
and the phase of its forward. History variables: `got` (what the subscriber has
processed) and `erased`.

| Code | Action |
|---|---|
| `ingest` (deduplicates, tags origins, stores, `wakeNow`) | `Ingest` |
| `logOutbound` with `attachLateOrigin` | `LogOutbound` |
| `setSubscriberConfig`, `retryDelivery`, `retryFailedDeliveries` | of the same names |
| `eraseByPhone`: the transaction; then the R2 call and its retry alarm | `EraseByPhone`, `PurgeReturns` |
| `alarm`: up to the capture of due rows | `AlarmFires` |
| `forwardOne`, the subscriber, `processDelivery`, the ops alert after it | `ForwardOne`, `SubscriberAnswers`, `ProcessDelivery`, `AlertReturns` |
| the retention sweep, the wakes, the other steps and the last `setAlarm` | `PruneExpired`, `ComputeWakes`, `AlarmReturns` |

Times are relative (time left), so that they stay bounded without a clock bound;
`Tick` takes one unit from each. `age` has three values: young, past the window of
content, past the window of the row. `SubscriberAnswers` separates
"processed" from "answered 2xx", which is what a time-out does. The other
features of the alarm are what they do to it: `OtherWork` arms it, `OtherWakes` are
the wakes they ask for at the end of a run. Requests other than webhooks and sends
are capped by `MaxCalls`, restarts by `MaxCrashes`.

`DeliveryHistory` adds two history variables in a module of their own, since no action depends
on them: `tried`, the attempts begun of each row (the stored count is reset by a retry and
forgets an attempt that a restart cuts short), and `withdrawn`, the rows whose content had to
go, being past its window or all erased. With them the queue is a `QueuePromise`: `asked` is
the number of requests made, and a subscriber that got an emptied body has not `processed`
the batch.

### SendPromise, Broadcast, Scheduled

`SendPromise` has two variables for each message: its status as the gateway tells
it and how often Meta took it. A message is accepted, may be taken once while open
(or while erased in flight), settles as `sent` only if taken, as `failed` or
`cancelled` only if not, or as `unknown`, and is erased. Settled is final. Both
detailed modules carry a ghost `reached` that counts what Meta took, and map their
rows to it: `queued`/`sending` (or `pending`/`sending`) are one open status.

**Broadcast.** `bc` is the status of a broadcast, `rec` its recipients, `wait` the
time to its next tick. The step loops over the running broadcasts:

| Code (`broadcastStep` and what it calls) | Action |
|---|---|
| sweep of stale rows, then the list of broadcasts | `StepStarts` |
| the share that scheduled sends have taken leaves nothing | `GiveWay` |
| claim of a tick; nothing queued, so perhaps done | `Claim`, `NothingQueued` |
| token lookup: found, missing (halts), unavailable (requeues) | `TokenReturns`, `TokenMissing`, `TokenUnavailable` |
| limiter, POST, answer with its classification | `CheckSendRate`, `MetaTakes`, `MetaAnswersSend` |
| after the tick: slow-down, breaker, cancels, completion | `StepJoins` |
| end of the step and of `alarm()` | `StepEnds`, `AlarmReturns` |
| create, cancel, erasure, retention | `CreateBroadcast`, `CancelBroadcast`, `EraseByPhone`, `PruneExpired` |

`GoStale` is the passing of `STALE_SENDING_MS`. `Reserved` is how many sends of the
tick scheduled sends may have taken. Abstracted: one pacing rate for all broadcasts;
not modelled: the replay of a creation by its Idempotency-Key, `logOutbound` after a
send, a step that throws (`runBroadcastStep` retries it 30 s later).

**Scheduled.** A row has a `version`: it counts the rows created under its key, so
that a send in flight and the row a client has put meanwhile are told apart
(each version is a message of `SendPromise`). The step compares against the `now`
it has read before its awaits, so this module has an absolute clock, up to
`EndOfTime`; `LastExpiry` bounds the times a client may give. An erasure takes the rows of one
customer, any of those there are or none; its purge is a second action, and the next erasure
comes after its answer. `putOff` is a history variable: the alarm that a refused purge has set.

| Code (`scheduledStep` and what it calls) | Action |
|---|---|
| `putScheduled`/`upsertScheduled`, `cancelScheduled`, retention | `PutScheduled`, `CancelScheduled`, `PruneExpired` |
| `eraseByPhone`: the transaction; then the R2 call and its retry alarm | `EraseByPhone`, `PurgeReturns` |
| `sweepStaleSending`, `expireDue`, their events | `StepStarts`; `StepFails` when the ingest throws |
| token missing or unavailable: what is due is put off | `TokenFails` |
| `claimDue` | `Claim` |
| `sendScheduled`: limiter, the row read again, POST, answer | `LimiterRefusesSend`, `LimiterAllows`, `MetaTakes`, `MetaAnswersSend` |
| `Promise.all`, then `scheduledWakeAt` and the last `setAlarm` | `StepJoins`, `AlarmReturns` |

Abstracted: the age retention looks at (any row that has ended may go); one pacing
rate. Not modelled: a send that throws while others of its tick are in flight
(`Promise.all` rejects and the rest settle outside the step), and that settling a
row and telling of it are two writes there. Both are listed as hazards.

### SendKeys

`keyRow` is `send_keys`, `life` counts how often a key was used anew, a request has a
`pc`. Each life of a key is a message of `SendPromise`: its row maps to the status of the
message, `posted` to what Meta took. `answers` is what clients were told.

| Code | Action |
|---|---|
| `claimSendKey` (new; known with the same body; with another) | `ClaimSendKey` |
| `sendMessage`: Meta takes it, the answer comes or is lost | `MetaPosts`, `MetaAnswers` |
| `logOutbound`, then `settleSendKey`, then the answer | `LogsSend`, `SettleSendKey` |
| a worker that dies, a call of the object that fails | `RequestDies` |
| the prune of keys after a day | `KeyExpires` |

A day is longer than any request, so a key does not expire under one that holds it.

### Conversations

`messages` and `contacts` are the tables, `pairs` is `customer_ids`, `log` and `told`
are `inbound_events`, `erased` is `erased_numbers`, `payload` is `sync_payloads` with its
cursor. A message has a phone, a BSUID or both (`PhoneIn`, `BsuidIn`); a row is stored
under `KeyOf` of them and moved by `Learned` when a pair becomes known. History variables:
`heard` (the statuses Meta reported), `met` (the phones a BSUID was ever paired with).

| Code | Action |
|---|---|
| `ingest` of a message or a status, with `writeConversation` and `storeMessage` | `MessageArrives`, `StatusArrives` |
| a send: Meta's answer, `logOutbound` | `MetaAccepts`, `LogOutbound` |
| `captureSyncPayload` | `Capture` |
| `processSyncBatch`: wake, the two awaits, a slice in its transaction, its failure, parking | `SyncWakes`, `SharingOffRecorded`, `LookupFails`, `SliceApplied`, `SliceFails`, `Parks`, `NothingPending` |
| `reprocessSyncPayloads` | `ReprocessPayloads` |
| `eraseByPhone`: the linked keys to a fixpoint, the rows, the raw payloads | `EraseByPhone` with `Linked`, `AllWidened`, `Dropped`, `Logged` |
| retention of messages and of the relay | `MessageAges`, `PruneConversations`, `PruneRelay` |

`Applied` is `applySyncItem` with its checks of the erased keys and of the window, which
is the one read before the await (`sync` holds it).

### MediaStore

`file` is a row of `media` (the tombstones are rows `erased`), `bucket` is R2, `job` a
download in flight, `purge` a delete in flight and whether R2 has done it.

| Code | Action |
|---|---|
| `storeMessage` with a file, `eraseByPhone`, `pruneConversations` | `MessageStored`, `EraseMessages`, `PruneMessages` |
| `reprocessSyncPayloads`, and the sync that comes to the item again | `Reprocess`, `Replayed` |
| `mediaStep`: due ids, token, pool, purge, the next wake | `Wakes`, `MediaStep`, `TokenKnown`, `TokenMissing`, `PoolEnds` |
| `downloadOneMedia`: start, the object in R2, the row | `JobStarts`, `PutLands`, `DownloadEnds`, `TokenRejected`, `BackoffEnds` |
| `purgeErasedMedia`: the delete in R2, its answer or refusal | `DeleteLands`, `DeleteAnswered`, `DeleteRefused` |
| a restart | `Restart` |

`stranded` and `crossed` mark the cases the properties have to except, because the code
does leave something behind there: an object that R2 had when a restart cut its download
short or whose item a replay drops and the sync skips, and an id that a message brings
back while its deletion is under way.

### WabaLife, Provisioning, HeldWebhooks

`WabaLife` has the status of a WABA and its numbers, and what may happen to them:
`Handoff`, `Requeue`, `Adopt`, `Activate`, `Fail`. `Provisioning` adds the rest of the row
(`revision`, `attempts`, `wait` for the lease and the backoff, the columns of the
coexistence syncs) and the runs, each with the revision and attempt it claimed and what
it has learned since. It shares the variables of `WabaLife`, so the mapping is the
identity.

| Code | Action |
|---|---|
| `beginWabaProvisioningBatch` | `Register` |
| `reconcileWaba` by an operator: the read, `retryWabaProvisioning` | `ReadFailed`, `Retry` |
| `resetUnconfirmedCoexistenceSync`, `settleCoexistenceSyncNotPermitted`, `markHistorySharingOff` | `Reset`, `Settle`, `HistorySharingOff` |
| `claimProvisioning` | `Claim` |
| `runClaim` call by call: subscribe, `adoptPhonesFromMeta`, the gateway's configuration, `verifyOnboardingType` | `Subscribe`, `AdoptNumbers`, `Save`, `Verify` |
| `runCoexistenceSync`: `beginCoexistenceSync`, the POST | `Begin`, `Post` |
| `completeWabaProvisioning`, stored or lost | `Complete`, `CompleteFails` |
| the end of the 24 hours, a run that dies, lease and backoff | `WindowCloses`, `RunDies`, `Elapse` |

`HeldWebhooks` extends `WabaLife`, not the saga: what holds of the webhook path holds for
any life of a WABA. `WabaSystem` puts the two together. They meet in the row, which the saga
writes and the worker reads, and in two calls: a handoff starts the saga anew (`HandedOver`),
and a run whose completion finds the row active, whichever run made it so, releases what was
held with the numbers it found (`CompletesAndReleases`); it may also die or lose the answer
after it has activated the row (`CompletesOnly`). `hook` is the request that delivers a batch, with the phone list its
lookup returned.

| Code | Action |
|---|---|
| `POST /webhooks/meta`: `routeBatch`, `holdBatch`, the second look, `ingest`; each may fail | `Route`, `Hold`, `Recheck`, `Ingest`, `RouteFails`, `HoldFails`, `RecheckFails`, `IngestFails` |
| Meta delivers again | `Repeat` |
| `releaseHeldBatches` with the phone list of its caller, `expireHeld` | `Release`, `ReleaseFails`, `ExpireHeld` |
| a handoff; a run that ends; one that dies after it has activated | `Reconnect`, `Provision`, `RunCompletes`, `RunDiesActive` |

### Connect

`connectState` is `connect_states`, `owner` and `numberOf` are `wabas` and `phones`. A
`flow` is one request that wants to connect something.

| Code | Action |
|---|---|
| `startConnectForAccount`; a state that expires | `StartConnect`, `StateExpires` |
| `GET /connect` with a code, `exchangeConnectCode` of the RPC: read and delete the state in one transaction | `ConnectCallback`, `RpcExchange` |
| `POST /connect/exchange`: look at the state, then redeem it | `ConnectExchange`, `ConsumeState` |
| `connectWabaWithToken` | `PasteToken` |
| what Meta lists for the token | `Discover` |
| `registerWabasForToken`: `getWabaById` per match, `beginWabaProvisioningBatch` | `CheckOwner`, `BeginBatch` |
| `POST /v1/accounts/:accountId/wabas` | `RegisterByAdmin` |

### QueuePromise, BunForwarder

`entry` is the table, `pass` what each pass has read and not yet forwarded.

| Code | Action |
|---|---|
| `POST /webhooks/meta`: the row, then `processPending` | `WebhookStored` |
| the timer of `startDeliveryLoop` | `LoopFires` |
| `attemptDelivery`, the UPDATE, `pruneOldRows` at the end of a pass | `SubscriberGets`, `AttemptEnds` |
| the backoff; a restart | `BackoffOver`, `BunRestarts` |

Which rows are old enough to be pruned is left open, so a pass may hold a row that is
gone. `Nth` is the ORDER BY of the rows a pass reads.

`QueuePromise` is what both queues promise of a batch they have accepted: it is called
delivered only if the subscriber has it, given up only after so many attempts, deleted only
when it ended or its content had to go, and waits again only when somebody asked for that. A
late outcome may replace an earlier one: an overlapping pass of the self-hosted queue does
that, and so does the UPDATE by id of the Durable Object. The self-hosted queue never
withdraws content and is never asked.

### ThreadView

A message is its rowid, which is the order of arrival; `stamps` has its timestamp, and
the two make its place, as in the cursor of `getConversation`. `reads` are the reads of
the newest page, in the order they began; `flying` and `done` are the slots of the read
cache, `result` and `good` what the thread and `keepLastGood` remember, `walk` the pages
on screen with the cursor after them. `latest` is a history variable.

| Code | Action |
|---|---|
| `storeMessage`, `eraseByPhone` | `StoreMessage`, `EraseThread` |
| `createReadCache.read`: a hit, a read that is joined, a new one | `Hit` and the cases of `OpenThread`, `LandCached` |
| `prefetchThread`; opening; Refresh, Live or a sent reply; leaving | `PrefetchThread`, `OpenThread`, `RefreshThread`, `CloseThread` |
| the gateway answers or refuses; the answer arrives: cache, `setRead`, `resetClientState` | `AnswerRead`, `LandRead` |
| the TTL of a read | `AgeRead` |
| the effect of `useOlderPages`, `absorbNewest`, `startWalk` | `PaneMoves`, `TakeNewest`, `Mounts` |
| `loadOlder`: asked, answered, appended | `LoadOlder`, `AnswerOlder`, `LandOlder` |
| `bridgeTo`: a page asked, the next one or the end | `AnswerBridge`, `LandBridge` |

Abstracted: pages are kept in walk order; opening another thread is what it does to this
one's state. Not modelled: a rowid that SQLite gives out again after the newest rows are
deleted, cache entries that are evicted, retention, the notice of a failed load, the list
of conversations, which uses the same pages over items that move.

## The runs

`tlc -config X.cfg MCModule`. Each run asks one question; the numbers are distinct
states.

| Run | Question | Bounds | States |
|---|---|---|---|
| `delivery_safety` | is what the table says of a batch true, is what is erased gone and every stored event accounted for, with two erasures or retries and duplicated webhooks at any await? | 2 rows, a message of each of 2 customers that may change places, batch and pool of 2, 2 attempts, 2 requests, no restart | 1,707,437 |
| `delivery_wakes` | is a due row always awaited now, does it carry its origin, does a restart lose nothing? | 2 rows, a message and a status, batch of 1, other features' wakes, 1 restart | 1,090,973 |
| `delivery_liveness` | is the queue held and never stranded when targets come and go, does a due row end and a held one age out? | 2 rows, a message, 1 request (target, retry, an erasure that R2 may refuse, or another feature), 1 restart | 288,862 |
| `broadcast_safety` | is each recipient messaged once and its row true? | 3 recipients, ticks of 2, 2 attempts, breaker of 2, 1 request, 1 restart | 1,054,403 |
| `operator` | does a running broadcast always have an alarm, is nothing left queued after a cancel? does a thread lose a message from sight, or go back? | see below; 3 parts | 1,826,804 |
| `broadcast_liveness` | do broadcasts and their sends end? | 2 recipients, scheduled sends that may take a whole tick, an erasure or retention, 2 restarts | 39,106 |
| `scheduled_safety` | does each row of a key keep its promise, on time, awaited, told once? | 1 key with 2 rows, 5 instants, 2 requests (of them an erasure that R2 may refuse), 1 fault | 1,000,046 |
| `scheduled_liveness` | does what is open end, when keys compete for a tick? | 2 keys, no request but PUT, ticks of 1, 6 instants, 1 fault | 346,962 |
| `store` | is one customer one conversation, a status the furthest, an erasure whole, a file there as long as its messages and no longer, a key one send, a self-hosted batch forwarded or given up? | see below; 5 parts | 153,430 |
| `control_plane` | is each coexistence sync requested once, progress kept, the row a `WabaLife`, an answered webhook kept, a hold awaited, nothing taken from its owner? | see below; 6 parts | 663,848 |
| `sync_sharing_off` | violation: is what the cursor passed applied? | 1 payload of a refusal and a message | – |
| `provisioning_recheck_race` | violation: does a failed row with a spent, unsettled sync mean that nothing came back? | 2 operators, 1 number, no fault | – |

`store`, `control_plane` and `operator` check several components in one run. Where two share no
state here, their product shows nothing that either does not, so the variable `part` picks one
for a behaviour, and the others stay in their initial state:

- `history`: a received message, one of the app and two raw payloads (a message; a contact
  and a refusal of sharing), slices of 2, a failure, an erasure and a replay;
- `sends`: two received messages that name the customer by either of two phones, a send
  with all its statuses in any order, an erasure;
- `media`: a file that two messages carry, 3 arrivals, 2 tries, an erasure by request and
  one by the alarm, a fault, a replay and a restart;
- `keys`: a key with 2 lives, 2 requests at a time and 4 in all, 2 bodies, a request that
  dies;
- `forward`: 2 rows, 2 overlapping passes of 2, 2 attempts, a restart;
- `numbers`, `handoffs`, `operators`: the saga with a WABA of two numbers; handed over
  twice; re-checked twice. 2 overlapping runs of 2 attempts (they are alike, so the second
  starts only beside the first) and a fault (not in `operators`, where two calls act on a
  failed row);
- `hooks`: 2 batches of 2 numbers, a hold of 2, a repeated webhook, a fault, 2 handoffs;
- `system`: a standard WABA with one number that is handed over twice, a batch, 2 runs of which
  the second is for the second handoff, a fault of each kind, no operator;
- `connect`: 2 accounts, 2 WABAs, 2 numbers, 2 flows, a state that is used again, what
  Meta lists with each number in its WABA, both in one, or one listed twice;
- `broadcasts`: 2 broadcasts of 2, a cancel, no restart, a token lookup that answers;
- `visits`: a thread that is opened, left and prefetched, 3 reads at a time, a call that
  fails; one message and no older pages, since reads are told apart by when they began;
- `pages`: one visit, pages of one message, 4 messages with 2 timestamps, 3 reads, an
  erasure and a failed call: a bridge of two pages with a load and a refresh in flight.

Why the bounds are enough to be of interest. Two rows with a batch of one are the
smallest queue with a remainder that must be drained at once; two
customers in one batch the smallest that an erasure must split; two attempts the
smallest with both a retry and an exhaustion. Three recipients in ticks of two give
a second tick, and a breaker of two can trip within one tick or across both. Two
versions of a key are what a send in flight and its successor need. Two flows, two
overlapping runs and two passes are the fewest of which one can invalidate what another
has read; a second handoff is what makes a claim stale; two phones and a BSUID the fewest
keys with a merge in either direction and a link that only a second round of the erasure
finds. One request
at any await of any run is one more than a unit test usually places. `delivery_safety` has
two, of its most entangled kinds: an erasure and a retry of one row, in either order, around
one forward; it has no restart, with which it takes too long, and `StoredEventsAccounted`
and `DeliveryPromiseIsKept` are proved with any number of them. The retry of a refused
purge comes later, in `scheduled_safety`, than any other wake, so that it puts one off
whenever it can. `scheduled_liveness` has no erasure, which ends rows and so could only
disturb `OpenEnds` through the alarm: how far it can put that off is in `OpenHasAlarm`.
Where a property is also proved, the bounds do not limit it.

Every property of these runs has a mutant in `PROJECT.json`: the `Slip:` variant of
a definition under which the run reports it violated.

Each `violation` run is the smallest instance that shows its disagreement. Some
properties hold only without what breaks them, and their runs leave it out:
`EndedHasNoneQueued` is checked with a token lookup that is never unavailable,
`SendingEnds` without a broadcast stopped early, `UnattemptedCarriesOrigin` without
operator retries, since a retry resets `attempts` and a row can then be unattempted only
by count; `StoredIsThere`, `MediaIsAwaited` and `UnreferencedGoes` except the ids in
`crossed` and `stranded`; `NoGap` except once `strayed`, `NeverOlder` except reads that a
denial forgot. The section on disagreements says what the code does there.
`UnconfirmedWasNotAnswered` is checked by its violation run alone. An idle object with
nothing pending arms nothing and keeps old content until it next wakes;
`docs/privacy.md` documents this, so `HeldContentExpires` is
about rows that are pending.

## Fairness

Liveness is checked under weak fairness of:

- the clock (`Tick`, `GoStale`) and an armed alarm: the runtime fires an alarm
  whose time has come, and calls one that failed again;
- each step of a run: JavaScript goes on after an await that is answered;
- each answer: every `fetch` has a time-out, so the subscriber, Meta, the limiter
  and the token lookup answer or fail. `MetaTakes` is not fair: Meta need not take.

No request is fair: nobody need configure a target, retry or cancel. Which answer
comes is never fair either, so `PendingIsSettled`, `RunningEnds` and `OpenEnds` hold
whatever the other side answers; they rest on the bounded attempts and the
expiry. `broadcast_liveness` assumes a token lookup that answers and a limiter that
lets sends through in the end, because a broadcast has no expiry of its own. It has the one
strong fairness of the project: among the ticks a running broadcast is due in, some leave it a
send. Scheduled sends go first and can take a tick whole (`GiveWay`), but each ends
(`OpenEnds`), so only clients that schedule as fast as the number may send could take them all;
without this assumption `RunningEnds` is violated.
In `Scheduled` an alarm fires when its time has come or the bounded clock has ended.

The other modules state theirs in the same way. `ConversationsFairness`: a wake with
payloads pending, the control plane's answers, and one of apply, park or finish;
`SliceFails` is not fair and is bounded by the attempts of a payload. `MediaFairness`: the
alarm, its steps, a download and a delete that are answered, a backoff that ends; which
answer is open, refusals are bounded by `MaxMediaFaults`. `ProvisioningFairness`: the cron
claims what may be claimed, a run goes on (or dies, within `MaxFaults`), leases and
backoffs run out; no handoff and no operator is fair, and `PendingEnds` rests on the
bounded attempts. `BunFairness`: while something is due some pass starts, some attempt
ends, some backoff is over; no pass or row is favoured.

## Disagreements between code and comments

Met while modelling. Two have a `violation` run with a property of its own:

| Run | What happens |
|---|---|
| `sync_sharing_off` | `sharingOff \|\|= this.applySyncItem(...)` stops applying once an item was a refusal, while the cursor goes to the end of the slice: the items after it are lost |
| `provisioning_recheck_race` | two operators re-check a failed WABA; the second requeues the row under the run of the first, whose answered sync is dropped, and the row ends as one whose sync "was sent and no success came back" |

The others can be read off the models, at the action named:

- `setSubscriberConfig` uses a plain `setAlarm`. Landing at an await of `alarm()`, it is
  replaced by the wake of a held queue, and the backlog waits for the slow tick
  (`SetSubscriberConfig`, `AlarmReturns`).
- A send logged during the first forward of its status rewrites the body the subscriber has
  (`LogOutbound` with a `job`).
- A cancel during a token lookup that then fails leaves rows `queued` in a `cancelled` broadcast
  (`TokenUnavailable`); rows that a dead run left in `sending` are swept only while their
  broadcast runs (`StepStarts`).
- An erasure whose R2 call is refused re-arms the alarm a media retry later even when it was
  armed for now, or for a scheduled send (`PurgeReturns` of `Delivery` and `Scheduled`), while
  `putScheduled` takes care to keep the earlier alarm. `OpenIsAwaited` allows this, and no more,
  through `putOff`; an erasure that is repeated and refused again puts it off again.
  `Broadcast` does not measure time: a refused purge leaves its alarm armed.
- A row erased while it waits in the pool is still forwarded from memory (`ForwardOne` uses
  `job`, `EraseByPhone` changes `rows`), and the recipients a tick has claimed are messaged
  although a cancel lands before their turn (`CheckSendRate`).
- `docs/privacy.md` says that the object of a file goes with the last message that references
  it, in a sweep and in an erasure. `reprocessSyncPayloads` deletes history without a tombstone
  for its files; when the sync then skips an item, because its customer was erased or the window
  shrank, the object stays (`Reprocess`, `Replayed`, the ids in `stranded`).
- A release works with the phone list its caller read. A batch of a number registered after that
  is given up with the reason "unknown number" although the number is there by then (`Release`),
  while `held-webhooks.ts` and `docs/observability.md` speak of numbers that are not registered.
- A live echo of a message the history has brought replaces the row and sets its status back
  (`WithLive`); `StatusIsLatest` is therefore about sends of Eccos.
- An item of the history is checked against the erased keys by the phone and BSUID it names
  itself. One that names a key nobody had linked to the customer when the erasure ran is stored;
  `HistoryStaysErased` is about the keys an item names.
- `docs/privacy.md` says that history still held raw is not written back after an erasure, and
  that a phone and its BSUIDs are one customer. A BSUID that was paired with two phones, one
  after the other, leaves rows under the first: `learnCustomerPair` moves only rows keyed by
  the BSUID, and an erasure of the second phone deletes by the keys linked now. A row of the
  history that names the erased BSUID can then stay (`Learned`, `EraseByPhone`;
  `HistoryStaysErased` leaves out the BSUIDs with two phones in `met`).
- In the self-hosted queue a delivered row may be overwritten as failed by an overlapping pass,
  and the other way round (`After`); `QueuePromise` allows exactly this.
- `useOlderPages` says that the gap is fetched before a refresh is shown, and decides by whether
  the fresh page has the old top. In the list of conversations the old top moves up by itself,
  and a conversation that moved past the cursor behind it is on no page that is read. In a
  thread a message keeps its place, and `NoGap` holds.
- A "load older" in flight while the thread is erased, and shows its first message again, sets
  the cursor of the new walk to its old place; what is above that place and not on the first
  page is out of reach until the thread is opened again (`LandOlder`, `strayed`).
- `client-state.ts` says that nothing of an old generation may be shown. A thread read that
  began before a reset is still shown when it lands after it: `useThread` asks only whether its
  effect is current (`LandRead`, `forgotten`).
- `adoptWabaPhones` uses INSERT OR REPLACE and could take a number from another WABA. It runs
  only for a WABA registered without numbers, and no route registers one (`NumbersHaveOwners`
  and `NothingIsTaken` are about the others).

## The proofs

`tlapm M.tla`. All theorems are about the specification of the component, without its
fairness, for every value of the
constants that satisfies the assumptions declared with them: sizes and bounds are
naturals (attempt limits, ticks and delays positive), functions have the right
domains, answers are among those the code distinguishes. `BatchSize`, `PerTick`,
the number of rows, keys, recipients, customers and events are arbitrary.

**Delivery** (`DeliveryProofs`). `TypeCorrect` and
`AttemptsCorrect` rest on `TypeInv`: the types, and that a row captured by the pool
had an attempt left, which is what the unconditional UPDATE of `processDelivery` needs.
The safety theorems use three strengthenings:

- `AccountInv` adds `PoolInv` (a job exists only in the drain; it agrees with its row
  except for what erasure, retry and late origin may have changed since; a body that
  was accepted is in `got`) and `ContentInv`. From it follow `ContentToForward`
  (`NeverForwardsRedacted`), `StoredEventsAccounted`, `ErasureIsFinal`. None of these is
  inductive alone: whether an UPDATE after a forward may mark a row delivered depends
  on what the pool's copy and the row have in common.
- `AlarmInv` adds that between the drain and the return of the handler a wake is known
  or will be asked for whenever a row is pending: `NoRowStranded` (`NeverStranded`).
- `HistoryInv` adds `TriedCounts` (the stored count of a row and the count in the pool's copy
  of it are no more than the attempts made, and the copy's is fewer once its attempt has
  begun) and that a row past its window is in `withdrawn`. The promise of
  `QueuePromise` is then shown for each way a status moves (`StatusMoves`), with `AccountInv`
  for what the subscriber has: `DeliveryPromiseIsKept` (`DeliveryKeepsPromise`). A history only
  watches (`HistoryIsDelivery`), so the other theorems hold of `HistorySpec` too.

`NeverForwardsRedacted` has no run of its own: an emptied row that is forwarded and accepted
would be called delivered without the subscriber, which `DeliveryKeepsPromise` excludes.

Two theorems have a hypothesis, since the code breaks them without it:

- `DueGoesOutNow` (`DueRowsAreAwaited`): `DueInv` says that a pending row is due no earlier than
  the alarm of the idle object, or than the wake the handler holds, unless work came while it
  ran. Excluded are operator calls that arm a plain `setAlarm` and may land at an await
  (`config`, `retry`) and R2 refusing an erasure its deletion, which arms a later retry
  over an alarm for now.
- `OriginIsCarried` (`UnattemptedCarriesOrigin`) excludes the operator's retry, which resets
  `attempts`: a row can then be unattempted by count although its origin came too late for it.

`DeliveredIsFinal` and `QueueIsHeld` are action properties, from a lemma `RowStep` that
says what any step may do to a row.

**Broadcast** (`BroadcastProofs`). `SendInv` = types ∧ `JobsAreClaimed` (a send in
flight belongs to a row of the current broadcast that is still `sending`, or erased;
`reached` is 1 exactly once Meta took it) ∧ `OnlyNewHasNoRows` ∧ `ReachedIsTold` (what the
status says of `reached`). Every action preserves it and moves each row by one of the
moves of `RowsMove`; hence `TypeCorrect`, `NoneMessagedTwice`, `OutcomesAreTrue`,
`CompletedIsOver`, and `PromiseIsKept`: every step is a step of `SendPromise` under
the refinement mapping, or a stutter. `RunningHasAlarm` uses `WakeInv`, which says what
is known of the wake while the media step runs. `EndedIsEmptied` is `EndedHasNoneQueued` for
token lookups that are never unavailable and until the first restart: `StoppedInv` says that
a stopped broadcast has nothing queued unless its own tick is being sent, whose end cancels
what it requeued. An unavailable lookup requeues rows of a broadcast cancelled meanwhile, and
after a restart a stopped broadcast is stepped no more (see the disagreements).

**Scheduled** (`ScheduledProofs`). Types are strengthened by `GoodRow`: an open row has an
attempt left, a pending one is due no later than it expires, which is
`PendingDueBeforeExpiry`. `JobsAreClaimed` is about versions: a send in flight has the
version of a row that is there or was; if that version is still current the row is `sending` or
erased, and no later version is `sending` before the step has joined. This is what makes the
`WHERE status = 'sending'` of every UPDATE enough, although it does not name the row
that was claimed. From the invariant and `KeyMoves` (what a step may do to a key)
follow `TypeCorrect`, `PromiseIsKept` (a message for every row a key ever names),
`FailuresAreTold`, `SentIsLive`. `ScheduledIsTrue` follows from the promise alone, without the
invariant: no version of a key is taken twice and what is told of it is true. `OpenHasAlarm`
holds for every set of requests: `IdleAwaits` rewrites `OpenIsAwaited` as a bound on the alarm by
the least of the times that open rows ask for, which moves later, or to a send just put, while
no step runs; or by the retry of a step that failed or of the last purge that R2 refused
(`Retries`).

**SendKeys** (`PromiseProofs`; `SendKeysAssumption`: bounds are naturals). `KeysInv`
says that a key has at most one request that sends, that this request found the row new
and is the only one to settle it, and that in each life the row, `posted` and `answers`
agree. Neither property is inductive without the exclusion (`RequestsDiffer`): it is what
the INSERT that finds the key new buys. Hence `AnswersAreTrueHolds` and
`KeyPromiseIsKept`.

**Provisioning** (`ProvisioningProofs`; `ProvisioningAssumption`, with finitely many runs).
`RunsInv` = types ∧ `RunsAreGood` (what a run's record implies at each place it may be) ∧
`ClaimsAreOld` (a claim is no newer than the row; one of the row's revision is of its handoff;
while a run owns the row, what Meta verified is what the run knows) ∧ `ClaimsDiffer` (no two
runs have one claim, so no two own the row). From it: `ActiveOwesNothingHolds`,
`ProvisioningImplementsLife`, `ProgressSticksHolds`. `SyncIssuedOnceHolds` adds
`PostsAreMarked`: the posts of a kind and number plus the posts that runs still have the right
to make are at most the mark in the row plus the operator's resets. A run has the right from
`beginCoexistenceSync` until it has posted for its last number; the count over runs (`Rights`, a
cardinality) is what two runs of one handoff, one of them stale, require.

**HeldWebhooks** (`AccountProofs`; `HeldAssumption`). `LookedAfter` strengthens `AnsweredIsKept`
to the requests that have held and have still to look again; `HeldIsAwaited` is inductive with
the types; what a request past its hold still owes (`Awaited`) is its heart. Both are proved
over any `WabaLife`, and by `ProvisioningImplementsLife` the saga is one.

**WabaSystem** (`AccountProofs`). `SystemIsBoth`: a behaviour of the saga and the webhook path
together is one of `Provisioning`, as the webhook path writes nothing of the saga, and one of
`HeldWebhooks`, as each step of the saga is a step that `HeldWebhooks` allows its WABA. The
second half needs `RunsInv`: a run that activates a row has a number (`ActivationIsSeen`), and
what else the saga does to the row is `Requeue`, `Fail` or `Adopt` (`SagaMovesRow`). Hence
`SystemIsSafe`: what was proved of each alone holds of both together.

**Connect** (`AccountProofs`; `ConnectAssumption`: a listing gives each WABA a set
of numbers). `ConnectInv` = types ∧ `StatesStand` (a state that can be redeemed is its
account's) ∧ `FlowStands` ∧ `RedeemedOnce` ∧ `ToldIsOwned` ∧ `NumbersHaveOwners` (a number
in the table is in a registered WABA). The last is what makes the join in
`assertWabaOwnership`, which looks for owners of numbers through their WABA, see every
one; without it `NothingIsTaken` is not inductive. Hence `HandoffsAreOwnedHolds`.

**Conversations** (`StoreProofs`; `ConversationsAssumption`: finitely many keys, each message
names one, a message sent names one only). The store is treated as a value, a record of
`messages`, `contacts`, `pairs`, `met` and `erased`, and each operator that changes it
(`Learned`, `WithLive`, `WithHistory`, `WithStatus`, `Applied`, `Dropped`) has a lemma that it
takes sound stores to sound stores. `StoreSound` is: no message or contact under a BSUID whose
phone is known; a message under a key has its contact; a pair was met; a row is under a key that
its message names or was paired with; no history row of an erased customer. `ConvInv` adds to
it what the relay holds (`RelayInv`: a message in the relay has taught its pair, and before a
send is logged its statuses wait in the relay, all of them), the sync (`SyncInv`, with cursors
inside their payloads) and `StatusIsLatest` itself. The last needs `RelayInv`: a send that is
logged after its statuses takes them from the relay. The items of a slice and the statuses
of a send are folded by recursive functions (`AllApplied`, `WithStatuses`), and what a fold
preserves is proved by taking the least index at which it would fail; so is the closure of
an erasure (`AllWidened`), which reaches its fixpoint because there are finitely many keys. Hence
`OneConversationHolds`, `StatusIsLatestHolds`, `HistoryStaysErasedHolds`,
`EraseTakesAllLinkedHolds`. `OnlyRefusalsSkip` draws the limit of the disagreement that
`sync_sharing_off` shows: what the cursor of a payload has passed was applied, or stands
behind a refusal in the same payload; nothing else passes an item over. It needs that a
payload never captured has no place (`PassedInv`), since a replay takes back what was applied.

**BunForwarder** (`PromiseProofs`; `BunAssumption`). `BunInv`: a row, and what a pass has read of
it, may have forgotten attempts but counts none that was not made; a row is delivered, failed
or deleted only by an attempt that gives it the right; an attempt whose batch arrived is of
the first row of its pass. The first part is what overlapping passes need: each writes
the count it has read plus one, whatever the other has written since, and the
promise is about attempts made. `QueuePromiseIsKept` is `QueueIsHonest`, the safety part of
`QueueKeepsPromise`.

**MediaStore** (`StoreProofs`; `MediaAssumption`). `Sound` strengthens `StoredIsThere` with
what is in flight: an object that a delete is removing has no message left, the row of an
id that is asked to be purged does not say stored, and a download that has put its object
and has a message finds it there. `MediaIsAwaited` needs `AwaitInv`: jobs exist only in the
pool, the alarm's delete only in its purge step, and in that step, without a wake or an
alarm, the due ids are in memory or unknown. Ids that a message brought back while their
deletion ran (`crossed`) are left out, as in the properties.

**ThreadView** (`ThreadProofs`; `ThreadViewAssumption`). `NeverOlder` alone says nothing of a
read in flight. `ReadsInv` adds that the read that the cache would keep is newer than all that
was shown or is remembered (`FlyingIsNewest`), that an open thread waits for that one or for a
forgotten one (`AwaitsFlying`), that of the reads that are not forgotten the cached one is no
older than what was shown and the last result and the last good answer are exactly that
(`DoneIsNewest`, `ResultIsLatest`, `GoodIsLatest`), and that a page on screen is the last
good answer (`GoodIsShown`). What the pages hold plays no part.

`NoGap` is about what they hold. A set of messages is `Gapless` down to a position if it has
each row there that it `Sees`: stored before all of the set above it. `GapInv` says so of
each page, in walk order and ending at its cursor, whether in flight, in the cache or
remembered (`IsPage`), of the walk down to its cursor, and of a bridge in flight down to the
place it reads next. Three lemmas carry the steps. `WithThePage`: a set that ends at a place,
with the page after that place (`Follows`: it misses only rows stored since), is gapless down
to the page's end. This is `load older`, and each page of a bridge. `AboveTheTop`: what a
gapless set has above a message that the walk shows joins the walk. This is a refresh that
reaches the old top, and a bridge that found it. `WithAnyPage`: so does any page once the walk
has reached the end, as a bridge may bring it there while a load is in flight. A load in
flight is for the walk's cursor or for a walk that ended, except once `strayed`. A page is the
list of a set in an order, so that its members and their order follow from cardinalities
alone (`ListsInOrder`). A message that arrives was stored after all that is known, so no set
sees it, and an erasure only takes rows away: what was gapless stays so (`GaplessStays`).

`NoneMessagedTwice` has no run property of its own: `KeepsPromise` implies it. The type
invariants of `Delivery`, `Broadcast`, `Scheduled`, `Provisioning`, `HeldWebhooks` and
`Connect` are proved and not run; those of `Conversations`, `MediaStore`, `SendKeys` and
`BunForwarder` are the four parts of `StoreTypeOK`. `StoreTypeCorrect` proves it of `StoreSpec`,
whose behaviours are behaviours of each of the four (`StoreIsItsParts`). So every invariant and
every action property that a passing run checks is proved.

**Only model-checked.** Liveness (`PendingIsSettled`, `HeldContentExpires`,
`RunningEnds`, `SendingEnds`, `OpenEnds`, `PayloadEnds`, `UnreferencedGoes`,
`PendingEnds`, and `Ends` of `QueuePromise`, the other part of `QueueKeepsPromise`): liveness
under fairness and ENABLED are out of the prover's reach.

## What is not modelled

`PROJECT.json` lists every component with its status and what is left out of it.

- Operator alerts: two counters and a throttle; `Delivery` has the await of the alert.
- Accounts, API keys, sealed tokens and the reaper of accounts: single-row lookups and
  writes, and cryptography.
- The edge's routing, authentication, read models, listings, diagnostics; the dashboard
  apart from its threads, docs and site, which are more than half of the repository's
  lines: they keep no protocol state, their calls are the requests of the modules.
- The limiter, the token lookup, Meta, R2 and the subscriber are environments: every
  answer the code tells apart is possible at every call.
- Contents: payloads, templates, phone numbers, signatures, encryption. What a property
  tells apart of them is in the records above. Parsing a webhook or a sync body into its
  items is not modelled, nor the truncation of a body that is too large.
- The backfills of the Durable Object's constructor, which run once per deployment.
- The jitter of the backoff and the arithmetic of pacing: delays are constants.
- Failures of the storage itself. Where a handler may throw for another reason and the
  code reacts, it is an action (`StepFails`, `SliceFails`, `HoldFails`) or named as left out.

## The plan

Done, in the order of importance it was built: the delivery queue; broadcasts and
scheduled sends with `SendPromise`; the saga, the webhook path and `WabaLife`; the
conversation store with the sync; media; keys; the self-hosted queue with `QueuePromise`;
the connect flow; the threads of the dashboard; the saga and the webhook path as one system;
the hosted queue against `QueuePromise`. What is left, most valuable first:

1. `Scheduled` with sends that outlive their step: one send of a tick throws, and the
   others settle during the next run.
2. Operator alerts: the counts between two alerts.
3. Pure functions against reference definitions over bounded inputs: backoff, pacing,
   `classifySendFailure`, the clamp of the retention window.
