----------------------------- MODULE ThreadView -----------------------------
(* What an operator of the dashboard sees of one thread while messages       *)
(* arrive. The gateway pages a conversation by the position of a row,        *)
(* `(at, rowid)`. The browser reads the newest page through a cache          *)
(* (hooks/read-cache.ts, hooks/use-thread.ts), keeps the last good answer    *)
(* (hooks/use-last-good.ts), and folds each new page into the pages it has   *)
(* already loaded (hooks/use-older-pages.ts, lib/history.ts).                *)
(* A message is its rowid. Pages are in walk order, the newest first.        *)
EXTENDS Naturals, Sequences, FiniteSets, SequencesExt

CONSTANTS
  PageLimit,     \* PAGE_SIZE, the messages of a page
  MaxMessages,   \* bound: messages that arrive
  LastAt,        \* bound: the timestamps of messages are 1..LastAt
  MaxReads,      \* bound: reads of the newest page
  MaxPurges,     \* bound: erasures of the customer
  MaxViewFaults  \* bound: calls to the gateway that fail

ASSUME ThreadViewAssumption ==
  /\ PageLimit \in Nat \ {0} /\ LastAt \in Nat \ {0}
  /\ {MaxMessages, MaxReads, MaxPurges, MaxViewFaults} \subseteq Nat

VARIABLES
  stamps,  \* messages: the timestamp of each row, by rowid
  erasedTo, \* the rows up to this one are deleted
  reads,    \* reads of the newest page, in the order they began
  flying,   \* read-cache: the read that later ones join
  done,     \* read-cache: the last completed read, and if it is within the TTL
  open,     \* the thread is open
  awaits,   \* use-thread: the read the open thread waits for
  result,   \* use-thread: its last result, while no other thread replaced it
  good,     \* use-last-good: the last read that succeeded
  walk,     \* use-older-pages: what is on screen, and the cursor after it
  older,    \* the read of "load older", in flight
  bridge,   \* the reads that close a gap, in flight
  strayed,  \* the walk started over while a "load older" of before was in
            \* flight: that load sets the new walk's cursor to an old place
  latest,   \* the highest read that was ever on screen
  forgotten,  \* the reads that had begun when a denial reset the browser
  purges, viewFaults  \* what is used of the bounds

threadVars == <<stamps, erasedTo, reads, flying, done, open, awaits, result,
                good, walk, older, bridge, strayed, latest, forgotten, purges,
                viewFaults>>
storeVars == <<stamps, erasedTo, purges>>
cacheVars == <<reads, flying, done>>
viewVars == <<open, awaits, result, good>>
seenVars == <<latest, forgotten>>
paneVars == <<walk, older, bridge, strayed>>

Rows == (erasedTo + 1) .. Len(stamps)
Place(m) == [at |-> stamps[m], seq |-> m]
Below(p, q) == p.at < q.at \/ (p.at = q.at /\ p.seq < q.seq)

(* Positions outside of the order: where a first page starts, and `null`.    *)
FirstPosition == [at |-> LastAt + 1, seq |-> MaxMessages + 1]
AtEnd == [at |-> 0, seq |-> 0]

(* The members of a set in the order that a relation says.                   *)
InOrder(S, before) ==
  [k \in 1..Cardinality(S) |->
     CHOOSE x \in S : Cardinality({y \in S : <<y, x>> \in before}) = k - 1]

RowsAfter(after) ==
  LET rows == {m \in Rows : Below(Place(m), after)}
  IN InOrder(rows, {p \in rows \X rows : Below(Place(p[2]), Place(p[1]))})

(* Slip: the cursor is the first row that was not returned.                  *)
CursorAtNext(rows) ==
  IF Len(rows) > PageLimit THEN Place(rows[PageLimit + 1]) ELSE AtEnd

Cursor(rows) ==
  IF Len(rows) > PageLimit THEN Place(rows[PageLimit]) ELSE AtEnd

(* getConversation: the rows after a position. One more than it returns is   *)
(* read, to know if there is a next page.                                    *)
PageAfter(after) ==
  LET rows == RowsAfter(after)
  IN [items |-> IF Len(rows) > PageLimit THEN SubSeq(rows, 1, PageLimit) ELSE rows,
      cursor |-> Cursor(rows)]

NoPage == [items |-> <<>>, cursor |-> AtEnd]
NoRead == [kind |-> "none", read |-> 0, page |-> NoPage, young |-> FALSE]
Refusals == {"unreachable", "denied"}

Shown(w) == ToSet(w.items)

PlaceIn(items, m) == CHOOSE i \in DOMAIN items : items[i] = m

(* uniqueBy: repeats keep the first copy.                                    *)
Without(more, seen) ==
  LET kept == {i \in DOMAIN more : more[i] \notin seen}
      order == InOrder(kept, {p \in kept \X kept : p[1] < p[2]})
  IN [k \in DOMAIN order |-> more[order[k]]]
Then(items, more) == items \o Without(more, ToSet(items))

AppendOlder(w, page) == [items |-> Then(w.items, page.items), cursor |-> page.cursor]
AbsorbNewest(w, fresh) ==
  IF w.items = <<>> THEN fresh
  ELSE [items |-> Then(fresh.items, w.items), cursor |-> w.cursor]
AbsorbBridged(w, fresh, between, reachedTop) ==
  CASE w.items = <<>> -> fresh
    [] w.items # <<>> /\ reachedTop ->
         [items |-> Then(Then(fresh.items, between), w.items), cursor |-> w.cursor]
    [] OTHER -> [items |-> Then(fresh.items, between), cursor |-> AtEnd]

NoOlder == [pc |-> "idle", cursor |-> AtEnd, page |-> NoPage]
NoBridge == [pc |-> "idle", fresh |-> NoPage, top |-> 0, items |-> <<>>,
             cursor |-> AtEnd, page |-> NoPage]

ThreadInit ==
  /\ stamps = <<>> /\ erasedTo = 0
  /\ reads = <<>> /\ flying = 0 /\ done = NoRead
  /\ open = FALSE /\ awaits = 0 /\ result = NoRead /\ good = NoRead
  /\ walk = NoPage /\ older = NoOlder /\ bridge = NoBridge
  /\ strayed = FALSE /\ latest = 0 /\ forgotten = 0 /\ purges = 0 /\ viewFaults = 0

-----------------------------------------------------------------------------
(* The gateway.                                                              *)

(* A message of the thread is stored: live, late, or of the history.         *)
StoreMessage ==
  /\ Len(stamps) < MaxMessages
  /\ \E at \in 1..LastAt : stamps' = Append(stamps, at)
  /\ UNCHANGED <<erasedTo, purges, cacheVars, viewVars, paneVars, seenVars, viewFaults>>

EraseThread ==
  /\ purges < MaxPurges /\ Rows # {}
  /\ erasedTo' = Len(stamps) /\ purges' = purges + 1
  /\ UNCHANGED <<stamps, cacheVars, viewVars, paneVars, seenVars, viewFaults>>

-----------------------------------------------------------------------------
(* What is on screen, given the last result, the cache and the last good     *)
(* answer: `read` of useThread, or else what the cache has at any age, then  *)
(* keepLastGood.                                                             *)
Answer(res, kept) == IF res.kind = "none" THEN kept ELSE res
OnScreen(res, kept, lastGood) ==
  CASE Answer(res, kept).kind = "unreachable" -> lastGood
    [] Answer(res, kept).kind = "denied" -> NoRead
    [] OTHER -> Answer(res, kept)
NextGood(res, kept, lastGood) ==
  CASE Answer(res, kept).kind = "ok" -> Answer(res, kept)
    [] Answer(res, kept).kind = "denied" -> NoRead
    [] OTHER -> lastGood

Screen == IF open THEN OnScreen(result, done, good) ELSE NoRead

(* A pane that shows this walk, with nothing in flight.                      *)
Mounts(w) ==
  walk' = w /\ older' = NoOlder /\ bridge' = NoBridge /\ strayed' = FALSE

(* The effect of useOlderPages when a new page comes: it folds into the      *)
(* walk, or the pages up to the old top are read first. A bridge that an     *)
(* earlier page began is dropped.                                            *)
TakeNewest(fresh) ==
  LET missed == walk.items # <<>> /\ Head(walk.items) \notin ToSet(fresh.items)
      toRead == missed /\ fresh.cursor # AtEnd
  IN /\ walk' = CASE toRead -> walk
                  [] missed /\ ~toRead -> AbsorbBridged(walk, fresh, <<>>, FALSE)
                  [] OTHER -> AbsorbNewest(walk, fresh)
     /\ bridge' = IF toRead
                  THEN [NoBridge EXCEPT !.pc = "asked", !.fresh = fresh,
                          !.top = Head(walk.items), !.cursor = fresh.cursor]
                  ELSE NoBridge
     /\ older' = older
     /\ strayed' = (strayed \/ (walk.items = <<>> /\ older.pc # "idle"))

(* The pane from one screen to the next: unmounted, mounted anew, as it was, *)
(* or given another page.                                                    *)
PaneMoves(before, after) ==
  CASE after.kind = "none" -> Mounts(NoPage)
    [] after.kind = "ok" /\ before.kind = "none" -> Mounts(after.page)
    [] after.kind = "ok" /\ before.kind = "ok" /\ before.read = after.read ->
         UNCHANGED paneVars
    [] OTHER -> TakeNewest(after.page)

Displays(screen) ==
  latest' = IF screen.read > latest THEN screen.read ELSE latest

-----------------------------------------------------------------------------
(* The reads of the newest page.                                             *)

(* `viewed`: an open thread waits, or waited, for it.                        *)
NewRead(viewed) == [pc |-> "asked", viewed |-> viewed, kind |-> "none", page |-> NoPage]
OverRead == [pc |-> "over", viewed |-> FALSE, kind |-> "none", page |-> NoPage]

BeginRead(viewed) ==
  /\ Len(reads) < MaxReads
  /\ reads' = Append(reads, NewRead(viewed))
  /\ flying' = Len(reads) + 1

Hit == done.kind = "ok" /\ done.young

(* `awaits` when the cache itself answers, as soon as it is asked: nothing   *)
(* happens in between.                                                       *)
Cached == MaxReads + 1

(* A hover: it joins what there is, or begins a read that nobody waits for.  *)
PrefetchThread ==
  /\ ~Hit /\ flying = 0
  /\ BeginRead(FALSE)
  /\ UNCHANGED <<done, storeVars, viewVars, paneVars, seenVars, viewFaults>>

(* The operator opens the thread. What was read before shows at once, behind *)
(* it the thread is read; a read is forced when the page was refreshed since *)
(* the last one.                                                             *)
OpenThread(force) ==
  LET first == OnScreen(result, done, good)
  IN /\ ~open /\ open' = TRUE
     /\ good' = NextGood(result, done, good)
     /\ PaneMoves(NoRead, first) /\ Displays(first)
     /\ \/ /\ ~force /\ Hit
           /\ awaits' = Cached
           /\ UNCHANGED <<reads, flying>>
        \/ /\ ~force /\ ~Hit /\ flying # 0
           /\ awaits' = flying
           /\ reads' = [reads EXCEPT ![flying].viewed = TRUE]
           /\ UNCHANGED flying
        \/ /\ force \/ (~Hit /\ flying = 0)
           /\ BeginRead(TRUE) /\ awaits' = Len(reads) + 1
     /\ UNCHANGED <<result, done, storeVars, forgotten, viewFaults>>

(* The cached read, which the cache answers with.                            *)
LandCached ==
  /\ open /\ awaits = Cached
  /\ awaits' = 0 /\ result' = done /\ good' = done
  /\ PaneMoves(Screen, done) /\ Displays(done)
  /\ UNCHANGED <<open, storeVars, cacheVars, forgotten, viewFaults>>

(* Refresh, Live, or a reply that was sent: the open thread is read again.   *)
RefreshThread ==
  /\ open /\ BeginRead(TRUE) /\ awaits' = Len(reads) + 1
  /\ UNCHANGED <<done, storeVars, open, result, good, paneVars, seenVars, viewFaults>>

(* The operator leaves. Another thread that is opened replaces the last      *)
(* result, and the last good answer unless it fails too.                     *)
CloseThread ==
  /\ open /\ open' = FALSE /\ awaits' = 0
  /\ \/ UNCHANGED <<result, good>>
     \/ result' = NoRead /\ good' \in {good, NoRead}
  /\ PaneMoves(Screen, NoRead)
  /\ UNCHANGED <<storeVars, cacheVars, seenVars, viewFaults>>

(* The gateway reads the newest page, or the call fails.                     *)
Replied(r, kind, page) ==
  [pc |-> "answered", viewed |-> reads[r].viewed, kind |-> kind, page |-> page]
AnswerRead(r) ==
  /\ reads[r].pc = "asked"
  /\ \/ /\ reads' = [reads EXCEPT ![r] = Replied(r, "ok", PageAfter(FirstPosition))]
        /\ UNCHANGED viewFaults
     \/ /\ viewFaults < MaxViewFaults /\ viewFaults' = viewFaults + 1
        /\ \E kind \in Refusals : reads' = [reads EXCEPT ![r] = Replied(r, kind, NoPage)]
  /\ UNCHANGED <<storeVars, flying, done, viewVars, paneVars, seenVars>>

(* Slip: a read that was superseded is kept too.                             *)
KeptAlways(r) ==
  IF reads[r].kind = "ok"
  THEN [kind |-> "ok", read |-> r, page |-> reads[r].page, young |-> TRUE]
  ELSE done

(* What the cache keeps of a read that ends: nothing of one that another     *)
(* read superseded.                                                          *)
Kept(r) ==
  IF flying = r /\ reads[r].kind = "ok"
  THEN [kind |-> "ok", read |-> r, page |-> reads[r].page, young |-> TRUE]
  ELSE done

(* The answer arrives. The cache keeps it, an open thread that waits for it  *)
(* shows it, a denial to a thread resets what the browser holds.             *)
LandRead(r) ==
  LET reset == reads[r].kind = "denied" /\ reads[r].viewed
      kept == IF reset THEN NoRead ELSE Kept(r)
      lastGood == IF reset THEN NoRead ELSE good
      heard == open /\ awaits = r
      now == IF heard THEN [kind |-> reads[r].kind, read |-> r, page |-> reads[r].page,
                            young |-> FALSE]
             ELSE result
      screen == IF open THEN OnScreen(now, kept, lastGood) ELSE NoRead
  IN /\ reads[r].pc = "answered"
     /\ reads' = [reads EXCEPT ![r] = OverRead]
     /\ flying' = (IF reset \/ flying = r THEN 0 ELSE flying)
     /\ done' = kept
     /\ result' = now
     /\ awaits' = (IF heard THEN 0 ELSE awaits)
     /\ good' = (IF open THEN NextGood(now, kept, lastGood) ELSE lastGood)
     /\ PaneMoves(Screen, screen) /\ Displays(screen)
     /\ forgotten' = (IF reset THEN Len(reads) ELSE forgotten)
     /\ UNCHANGED <<open, storeVars, viewFaults>>

(* The TTL of the cached read passes.                                        *)
AgeRead ==
  /\ Hit /\ done' = [done EXCEPT !.young = FALSE]
  /\ UNCHANGED <<reads, flying, storeVars, viewVars, paneVars, seenVars, viewFaults>>

-----------------------------------------------------------------------------
(* The pane.                                                                 *)

LoadOlder ==
  /\ Screen.kind = "ok" /\ walk.cursor # AtEnd /\ older.pc = "idle"
  /\ older' = [NoOlder EXCEPT !.pc = "asked", !.cursor = walk.cursor]
  /\ UNCHANGED <<walk, bridge, strayed, storeVars, cacheVars, viewVars, seenVars, viewFaults>>

(* A failed call ends the load.                                              *)
AnswerOlder ==
  /\ older.pc = "asked"
  /\ \/ /\ older' = [older EXCEPT !.pc = "answered", !.page = PageAfter(older.cursor)]
        /\ UNCHANGED viewFaults
     \/ /\ viewFaults < MaxViewFaults /\ viewFaults' = viewFaults + 1
        /\ older' = NoOlder
  /\ UNCHANGED <<walk, bridge, strayed, storeVars, cacheVars, viewVars, seenVars>>

LandOlder ==
  /\ older.pc = "answered"
  /\ walk' = AppendOlder(walk, older.page)
  /\ older' = NoOlder
  /\ UNCHANGED <<bridge, strayed, storeVars, cacheVars, viewVars, seenVars, viewFaults>>

(* A failed call ends the bridge, and its fresh page is not shown.           *)
AnswerBridge ==
  /\ bridge.pc = "asked"
  /\ \/ /\ bridge' = [bridge EXCEPT !.pc = "answered", !.page = PageAfter(bridge.cursor)]
        /\ UNCHANGED viewFaults
     \/ /\ viewFaults < MaxViewFaults /\ viewFaults' = viewFaults + 1
        /\ bridge' = NoBridge
  /\ UNCHANGED <<walk, older, strayed, storeVars, cacheVars, viewVars, seenVars>>

(* The page has the old top and closes the gap, there is no further page, or *)
(* the next one is read.                                                     *)
LandBridge ==
  LET page == bridge.page
      found == bridge.top \in ToSet(page.items)
      above == IF found THEN SubSeq(page.items, 1, PlaceIn(page.items, bridge.top) - 1)
               ELSE page.items
      between == bridge.items \o above
  IN /\ bridge.pc = "answered"
     /\ IF found \/ page.cursor = AtEnd
        THEN /\ walk' = AbsorbBridged(walk, bridge.fresh, between, found)
             /\ bridge' = NoBridge
        ELSE /\ bridge' = [bridge EXCEPT !.pc = "asked", !.items = between,
                             !.cursor = page.cursor, !.page = NoPage]
             /\ UNCHANGED walk
     /\ UNCHANGED <<older, strayed, storeVars, cacheVars, viewVars, seenVars, viewFaults>>

ThreadStep ==
  \/ StoreMessage \/ EraseThread
  \/ PrefetchThread \/ RefreshThread \/ CloseThread \/ AgeRead
  \/ \E force \in BOOLEAN : OpenThread(force)
  \/ \E r \in DOMAIN reads : AnswerRead(r) \/ LandRead(r)
  \/ LoadOlder \/ AnswerOlder \/ LandOlder
  \/ AnswerBridge \/ LandBridge

ThreadNext == LandCached \/ (awaits # Cached /\ ThreadStep)

ThreadSpec == ThreadInit /\ [][ThreadNext]_threadVars

-----------------------------------------------------------------------------
(* "Nothing already loaded is dropped" and "the gap is fetched before the    *)
(* refresh is shown": a message that was stored before all that is shown     *)
(* above it, and that "load older" would not reach, is shown. Late messages  *)
(* and those of the history, stored below what is shown, wait for the pane   *)
(* to be opened again. However refreshes, bridges, loads and erasures        *)
(* overlap, no message in between is lost from sight.                        *)
NoGap ==
  ~strayed => \A m \in Rows :
    LET above == {c \in Shown(walk) : Below(Place(m), Place(c))}
    IN /\ above # {} /\ Below(walk.cursor, Place(m))
       /\ \A c \in above : m < c
       => m \in Shown(walk)

(* The screen never goes back to a read that began before one it has shown,  *)
(* whatever order the answers come in and whichever of the cache, the last   *)
(* result and the last good answer it shows. Reads that a denial forgot are  *)
(* left out.                                                                 *)
NeverOlder ==
  Screen.kind = "ok" /\ Screen.read > forgotten => Screen.read = latest
=============================================================================
