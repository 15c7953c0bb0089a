----------------------------- MODULE MediaStore -----------------------------
(* The media files of a WABA: the messages that reference them, the `media`  *)
(* rows of the Durable Object, the R2 bucket, the media step of the alarm,   *)
(* the erasures with their own purge, and the replay of raw history. Between *)
(* two awaits the object runs alone, so an action goes from one await to the *)
(* next. A call to R2 takes effect at some time before its answer. Delays    *)
(* are not modelled: a wake that is armed comes, a backoff ends.             *)
EXTENDS Naturals, FiniteSets

CONSTANTS
  Messages,      \* the messages that carry a file
  MediaIds,
  FileOf,        \* the media id of each message
  Erasers,       \* calls of eraseByPhone at a time
  Concurrency,   \* MEDIA_CONCURRENCY
  MaxTries,      \* MEDIA_MAX_ATTEMPTS
  MaxArrivals,   \* bound: messages stored, again after an erasure included
  MaxMediaFaults,  \* bound: refusals of R2 and failed or missing token lookups
  MaxReplays,    \* bound: calls of reprocessSyncPayloads
  MaxRestarts    \* bound: restarts of the object

ASSUME MediaAssumption ==
  /\ FileOf \in [Messages -> MediaIds]
  /\ "alarm" \notin Erasers
  /\ Concurrency \in Nat \ {0} /\ MaxTries \in Nat \ {0}
  /\ \A bound \in {MaxArrivals, MaxMediaFaults, MaxReplays, MaxRestarts} :
       bound \in Nat

VARIABLES
  stored,     \* the messages that are in the store
  replaying,  \* history that a replay dropped and the sync has not reached
  file,       \* the `media` row of each id
  bucket,     \* the ids with an object in R2
  armed,      \* an alarm is set
  step,       \* the media step of the alarm: where it waits, its due ids
  job,        \* the downloads in flight: "fetch", or "put" once R2 has it,
              \* with the number of the attempt
  purge,      \* the ids of each R2 delete in flight, and if it took effect
  unknown,    \* the last token lookup did not know the WABA
  stranded,   \* ids whose object a restart or a replay may have left behind
  crossed,    \* ids that a message brought back while their deletion ran
  arrivals, mediaFaults, replays, restarts  \* what is used of the bounds

mediaVars == <<stored, replaying, file, bucket, armed, step, job, purge,
               unknown, stranded, crossed, arrivals, mediaFaults, replays,
               restarts>>
gaps == <<stranded, crossed>>
mediaBounds == <<arrivals, mediaFaults, replays, restarts>>

Purgers == Erasers \cup {"alarm"}
NoRow == [state |-> "none", tries |-> 0, due |-> FALSE]
NoJob == [at |-> "none", try |-> 0]
NoDelete == [ids |-> {}, landed |-> FALSE]
Asleep == [pc |-> "idle", ids |-> {}, wake |-> FALSE]

MediaTypeOK ==
  /\ stored \subseteq Messages /\ replaying \subseteq Messages \ stored
  /\ file \in [MediaIds -> [state : {"none", "stored", "failed", "gone",
                                     "erased"},
                            tries : 0..MaxTries, due : BOOLEAN]]
  /\ bucket \subseteq MediaIds /\ stranded \subseteq MediaIds
  /\ crossed \subseteq MediaIds
  /\ armed \in BOOLEAN /\ unknown \in BOOLEAN
  /\ step \in [pc : {"idle", "early", "token", "pool", "purge"},
               ids : SUBSET MediaIds, wake : BOOLEAN]
  /\ job \in [MediaIds -> [at : {"none", "fetch", "put"}, try : 0..MaxTries]]
  /\ purge \in [Purgers -> [ids : SUBSET MediaIds, landed : BOOLEAN]]

MediaInit ==
  /\ stored = {} /\ replaying = {} /\ bucket = {} /\ stranded = {}
  /\ crossed = {}
  /\ file = [d \in MediaIds |-> NoRow]
  /\ armed = FALSE /\ unknown = FALSE /\ step = Asleep
  /\ job = [d \in MediaIds |-> NoJob]
  /\ purge = [p \in Purgers |-> NoDelete]
  /\ arrivals = 0 /\ mediaFaults = 0 /\ replays = 0 /\ restarts = 0

-----------------------------------------------------------------------------
(* Rows.                                                                     *)

(* isReferenced, in the store `msgs`.                                        *)
Referenced(msgs, d) == \E m \in msgs : FileOf[m] = d

(* markErased keeps the attempts of the row it finds.                        *)
Tombstone(rows, ids) ==
  [d \in MediaIds |->
     IF d \in ids THEN [rows[d] EXCEPT !.state = "erased", !.due = FALSE]
                  ELSE rows[d]]
Tombstoned(rows) == {d \in MediaIds : rows[d].state = "erased"}

(* dueMediaIds, and the same test of a row at the start of a download.       *)
Waits(row) == row.state = "none" \/ (row.state = "failed" /\ row.due)
DueIds(msgs, rows) == {d \in MediaIds : Referenced(msgs, d) /\ Waits(rows[d])}

(* A round of purgeErasedMedia by p up to its R2 call: the rows go first.    *)
(* Without a tombstone the purge is over.                                    *)
Purges(p, rows) ==
  /\ file' = [d \in MediaIds |-> IF d \in Tombstoned(rows) THEN NoRow
                                                           ELSE rows[d]]
  /\ purge' = [purge EXCEPT ![p] = [ids |-> Tombstoned(rows),
                                    landed |-> FALSE]]

(* Slip: a file is looked up before its messages are gone. *)
DeletingBefore(ms) ==
  LET lost == {FileOf[m] : m \in ms \cap stored} IN
  Tombstone(file, {d \in lost : ~Referenced(stored, d)})

(* tombstoneUnreferencedMedia for the messages a transaction deletes.        *)
Deleting(ms) ==
  LET kept == stored \ ms
      lost == {FileOf[m] : m \in ms \cap stored} IN
  Tombstone(file, {d \in lost : ~Referenced(kept, d)})

MediaFault == mediaFaults < MaxMediaFaults /\ mediaFaults' = mediaFaults + 1

-----------------------------------------------------------------------------
(* The messages.                                                             *)

Deleted(d) == file[d].state = "erased" \/ \E p \in Purgers : d \in purge[p].ids

Crossed(m) ==
  crossed \cup {d \in {FileOf[m]} :
               Deleted(d) \/ (job[d] # NoJob /\ ~Referenced(stored, d))}

(* A webhook or the sync stores a message with a file and arms the alarm. An *)
(* erased message may come again when Meta repeats its webhook.              *)
MessageStored(m) ==
  /\ m \notin stored /\ arrivals < MaxArrivals
  /\ arrivals' = arrivals + 1
  /\ stored' = stored \cup {m} /\ replaying' = replaying \ {m}
  /\ armed' = TRUE
  /\ crossed' = Crossed(m)
  /\ UNCHANGED <<file, bucket, step, job, purge, unknown, stranded,
                 mediaFaults, replays, restarts>>

(* eraseByPhone for the customer of the messages ms, up to its first call of *)
(* R2. What a replay dropped is recorded as erased: the sync will skip it.   *)
EraseMessages(e, ms) ==
  /\ purge[e] = NoDelete
  /\ ms # {} /\ ms \subseteq stored \cup replaying
  /\ stored' = stored \ ms /\ replaying' = replaying \ ms
  /\ Purges(e, Deleting(ms))
  /\ stranded' = stranded \cup {FileOf[m] : m \in ms \cap replaying}
  /\ UNCHANGED <<bucket, armed, step, job, unknown, crossed, mediaBounds>>

(* reprocessSyncPayloads drops the history, and marks no file of it.         *)
Reprocess(ms) ==
  /\ replays < MaxReplays /\ replays' = replays + 1
  /\ ms # {} /\ ms \subseteq stored
  /\ stored' = stored \ ms /\ replaying' = replaying \cup ms
  /\ armed' = TRUE
  /\ UNCHANGED <<file, bucket, step, job, purge, unknown, gaps, arrivals,
                 mediaFaults, restarts>>

(* storeHistoryMessage: the sync stores the message again, or skips it when  *)
(* the window of the workspace no longer reaches it.                         *)
Replayed(m) ==
  /\ m \in replaying
  /\ replaying' = replaying \ {m}
  /\ armed' = TRUE
  /\ \/ /\ stored' = stored \cup {m} /\ crossed' = Crossed(m)
        /\ UNCHANGED stranded
     \/ /\ stranded' = stranded \cup {FileOf[m]}
        /\ UNCHANGED <<stored, crossed>>
  /\ UNCHANGED <<file, bucket, step, job, purge, unknown, mediaBounds>>

-----------------------------------------------------------------------------
(* The alarm.                                                                *)

Wakes ==
  /\ step.pc = "idle" /\ armed
  /\ armed' = FALSE /\ step' = [Asleep EXCEPT !.pc = "early"]
  /\ UNCHANGED <<stored, replaying, file, bucket, job, purge, unknown,
                 gaps, mediaBounds>>

(* pruneConversations, when the sweep is due.                                *)
PruneMessages(ms) ==
  /\ step.pc = "early"
  /\ ms # {} /\ ms \subseteq stored
  /\ stored' = stored \ ms
  /\ file' = Deleting(ms)
  /\ UNCHANGED <<replaying, bucket, armed, step, job, purge, unknown, gaps,
                 mediaBounds>>

(* Slip: what failed does not bring the step back. *)
SleepsUntilCalled(wake, rows) ==
  /\ step' = Asleep
  /\ armed' = (armed \/ wake)

(* The end of the media step: back at once for ids that became due, later    *)
(* for what failed or was refused.                                           *)
Sleeps(wake, rows) ==
  /\ step' = Asleep
  /\ armed' = (armed \/ wake \/ \E d \in MediaIds : rows[d].state = "failed")

(* The purge that ends the step, from its start.                             *)
StepPurges(wake) ==
  /\ Purges("alarm", file)
  /\ IF Tombstoned(file) = {} THEN Sleeps(wake, file)
     ELSE /\ step' = [pc |-> "purge", ids |-> {}, wake |-> wake]
          /\ UNCHANGED armed

(* mediaStep: the due ids are read before the token is asked for.            *)
MediaStep ==
  /\ step.pc = "early"
  /\ LET due == DueIds(stored, file) IN
     IF due = {} THEN StepPurges(FALSE)
     ELSE /\ step' = [step EXCEPT !.pc = "token", !.ids = due]
          /\ UNCHANGED <<file, purge, armed>>
  /\ UNCHANGED <<stored, replaying, bucket, job, unknown, gaps, mediaBounds>>

TokenKnown ==
  /\ step.pc = "token"
  /\ step' = [step EXCEPT !.pc = "pool"] /\ unknown' = FALSE
  /\ UNCHANGED <<stored, replaying, file, bucket, armed, job, purge, gaps,
                 mediaBounds>>

(* A failed lookup is tried again later; an unknown WABA waits for the next  *)
(* webhook.                                                                  *)
TokenMissing ==
  /\ step.pc = "token" /\ MediaFault
  /\ \E missing \in BOOLEAN : unknown' = missing /\ StepPurges(~missing)
  /\ UNCHANGED <<stored, replaying, bucket, job, gaps, arrivals, replays,
                 restarts>>

(* A download of the pool. An id that an overlapping call settled is left.   *)
JobStarts(d) ==
  /\ step.pc = "pool" /\ d \in step.ids
  /\ Cardinality({x \in MediaIds : job[x] # NoJob}) < Concurrency
  /\ step' = [step EXCEPT !.ids = @ \ {d}]
  /\ job' = IF Waits(file[d])
            THEN [job EXCEPT ![d] = [at |-> "fetch", try |-> file[d].tries + 1]]
            ELSE job
  /\ UNCHANGED <<stored, replaying, file, bucket, armed, purge, unknown,
                 gaps, mediaBounds>>

PutLands(d) ==
  /\ job[d].at = "fetch"
  /\ job' = [job EXCEPT ![d].at = "put"] /\ bucket' = bucket \cup {d}
  /\ UNCHANGED <<stored, replaying, file, armed, step, purge, unknown,
                 gaps, mediaBounds>>

(* Slip: the attempts have no end. *)
ResultsWithoutEnd(j) == {"failed"} \cup (IF j.at = "put" THEN {"stored"} ELSE {})

(* What downloadOneMedia records. A message erased meanwhile leaves a        *)
(* tombstone, whatever the result. What Meta refuses for good fails before   *)
(* anything is written; any other failure may come after R2 has the object.  *)
Results(j) ==
  {IF j.try < MaxTries THEN "failed" ELSE "gone"}
  \cup (IF j.at = "put" THEN {"stored"} ELSE {"gone"})

(* Slip: the message is not looked up again. *)
DownloadEndsBlind(d) ==
  /\ job[d] # NoJob
  /\ job' = [job EXCEPT ![d] = NoJob]
  /\ \E result \in Results(job[d]) :
       file' = [file EXCEPT ![d] = [state |-> result, due |-> FALSE,
                                    tries |-> job[d].try]]
  /\ UNCHANGED <<stored, replaying, bucket, armed, step, purge, unknown,
                 gaps, mediaBounds>>

DownloadEnds(d) ==
  /\ job[d] # NoJob
  /\ job' = [job EXCEPT ![d] = NoJob]
  /\ \E result \in Results(job[d]) :
       file' = IF Referenced(stored, d)
               THEN [file EXCEPT ![d] = [state |-> result, due |-> FALSE,
                                         tries |-> job[d].try]]
               ELSE Tombstone(file, {d})
  /\ UNCHANGED <<stored, replaying, bucket, armed, step, purge, unknown,
                 gaps, mediaBounds>>

(* Meta rejects the token: nothing is recorded, the step comes back later.   *)
TokenRejected(d) ==
  /\ job[d].at = "fetch" /\ MediaFault
  /\ job' = [job EXCEPT ![d] = NoJob]
  /\ step' = [step EXCEPT !.wake = TRUE]
  /\ UNCHANGED <<stored, replaying, file, bucket, armed, purge, unknown,
                 gaps, arrivals, replays, restarts>>

PoolEnds ==
  /\ step.pc = "pool" /\ step.ids = {}
  /\ \A d \in MediaIds : job[d] = NoJob
  /\ StepPurges(step.wake \/ DueIds(stored, file) # {})
  /\ UNCHANGED <<stored, replaying, bucket, job, unknown, gaps, mediaBounds>>

BackoffEnds(d) ==
  /\ file[d].state = "failed" /\ ~file[d].due
  /\ file' = [file EXCEPT ![d].due = TRUE]
  /\ UNCHANGED <<stored, replaying, bucket, armed, step, job, purge, unknown,
                 gaps, mediaBounds>>

-----------------------------------------------------------------------------
(* The calls of R2 that delete, of the alarm and of the erasures.            *)

DeleteLands(p) ==
  /\ purge[p].ids # {} /\ ~purge[p].landed
  /\ purge' = [purge EXCEPT ![p].landed = TRUE]
  /\ bucket' = bucket \ purge[p].ids
  /\ UNCHANGED <<stored, replaying, file, armed, step, job, unknown, gaps,
                 mediaBounds>>

(* The next round, for what was marked during the call.                      *)
DeleteAnswered(p) ==
  /\ purge[p].landed
  /\ Purges(p, file)
  /\ IF p = "alarm" /\ Tombstoned(file) = {} THEN Sleeps(step.wake, file)
     ELSE UNCHANGED <<step, armed>>
  /\ UNCHANGED <<stored, replaying, bucket, job, unknown, gaps, mediaBounds>>

(* R2 refuses, or its answer is lost: the tombstones are restored.           *)
DeleteRefused(p) ==
  /\ purge[p].ids # {} /\ MediaFault
  /\ file' = Tombstone(file, purge[p].ids)
  /\ purge' = [purge EXCEPT ![p] = NoDelete]
  /\ IF p = "alarm" THEN Sleeps(TRUE, file')
     ELSE armed' = TRUE /\ UNCHANGED step
  /\ UNCHANGED <<stored, replaying, bucket, job, unknown, gaps, arrivals,
                 replays, restarts>>

(* The object restarts. A run of the alarm is started again by the runtime;  *)
(* the calls in flight are lost, and so is a delete that had not landed.     *)
Restart ==
  /\ restarts < MaxRestarts /\ restarts' = restarts + 1
  /\ armed' = (armed \/ step.pc # "idle")
  /\ step' = Asleep
  /\ job' = [d \in MediaIds |-> NoJob]
  /\ purge' = [p \in Purgers |-> NoDelete]
  /\ stranded' = stranded \cup {d \in MediaIds : job[d].at = "put"}
                          \cup UNION {purge[p].ids : p \in Purgers}
  /\ UNCHANGED <<stored, replaying, file, bucket, unknown, crossed, arrivals,
                 mediaFaults, replays>>

-----------------------------------------------------------------------------
Downloads(d) ==
  JobStarts(d) \/ PutLands(d) \/ DownloadEnds(d) \/ TokenRejected(d)
Deletes(p) == DeleteLands(p) \/ DeleteAnswered(p) \/ DeleteRefused(p)

MediaNext ==
  \/ \E m \in Messages : MessageStored(m) \/ Replayed(m)
  \/ \E ms \in SUBSET Messages :
       \/ \E e \in Erasers : EraseMessages(e, ms)
       \/ Reprocess(ms) \/ PruneMessages(ms)
  \/ Wakes \/ MediaStep \/ TokenKnown \/ TokenMissing \/ PoolEnds
  \/ \E d \in MediaIds : Downloads(d) \/ BackoffEnds(d)
  \/ \E p \in Purgers : Deletes(p)
  \/ Restart

MediaSpec == MediaInit /\ [][MediaNext]_mediaVars

(* An alarm that is set fires, every call of it is answered or times out,    *)
(* and a backoff ends.                                                       *)
MediaFairness ==
  /\ WF_mediaVars(Wakes) /\ WF_mediaVars(MediaStep)
  /\ WF_mediaVars(TokenKnown \/ TokenMissing) /\ WF_mediaVars(PoolEnds)
  /\ \A d \in MediaIds :
       WF_mediaVars(Downloads(d)) /\ WF_mediaVars(BackoffEnds(d))
  /\ \A p \in Purgers : WF_mediaVars(Deletes(p))
  /\ \A m \in Messages : WF_mediaVars(Replayed(m))

FairMedia == MediaSpec /\ MediaFairness

-----------------------------------------------------------------------------
(* Properties.                                                               *)

(* A row that says stored has its object, as isMediaStored promises its      *)
(* reader, but for an id that came back while its deletion ran.              *)
StoredIsThere ==
  \A d \in MediaIds \ crossed : file[d].state = "stored" => d \in bucket

(* Work of the media step always has an alarm or a run that will see it: a   *)
(* tombstone, and an id to download or retry unless the WABA is unknown or   *)
(* the id came back while its deletion ran.                                  *)
MediaIsAwaited ==
  \/ armed \/ step.pc # "idle"
  \/ /\ Tombstoned(file) = {}
     /\ \/ unknown
        \/ \A d \in MediaIds \ crossed :
             Referenced(stored, d) => file[d].state \in {"stored", "gone"}

(* The object of a file that nothing references any more goes away.          *)
UnreferencedGoes ==
  \A d \in MediaIds :
    (d \in bucket /\ ~Referenced(stored \cup replaying, d) /\ d \notin stranded)
      ~> (d \notin bucket \/ Referenced(stored, d) \/ d \in stranded)
=============================================================================
