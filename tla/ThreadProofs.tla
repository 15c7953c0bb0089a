---------------------------- MODULE ThreadProofs ----------------------------
(* Proofs about the view of a thread, for every value of the constants.      *)
(* First what is on screen never gets older: what the pages hold does not    *)
(* matter there, a read is known by its number. Then what the pane puts      *)
(* together of the pages has no gap: there a page is the set of its messages *)
(* and their order.                                                          *)
EXTENDS ThreadView, FiniteSetTheorems, SequenceTheorems, TLAPS

-----------------------------------------------------------------------------
(* What is remembered of a read, and the list of reads.                      *)
Kinds == {"none", "ok"} \cup Refusals
IsRead(x) ==
  x = [kind |-> x.kind, read |-> x.read, page |-> x.page, young |-> x.young]
IsEntry(e) ==
  /\ e = [pc |-> e.pc, viewed |-> e.viewed, kind |-> e.kind, page |-> e.page]
  /\ e.kind \in Kinds
IsList(s) ==
  /\ \E S : s \in Seq(S)
  /\ \A i \in DOMAIN s : IsEntry(s[i])

LEMMA ListHasLength ==
  ASSUME NEW s, IsList(s)
  PROVE  Len(s) \in Nat /\ DOMAIN s = 1..Len(s)
BY DEF IsList

LEMMA ListGrows ==
  ASSUME NEW s, IsList(s), NEW e, IsEntry(e)
  PROVE  IsList(Append(s, e)) /\ Len(Append(s, e)) = Len(s) + 1
<1> PICK S : s \in Seq(S) BY DEF IsList
<1>1. s \in Seq(S \cup {e}) /\ e \in S \cup {e}
  OBVIOUS
<1>2. /\ Append(s, e) \in Seq(S \cup {e}) /\ Len(Append(s, e)) = Len(s) + 1
      /\ \A i \in 1..Len(s) : Append(s, e)[i] = s[i]
      /\ Append(s, e)[Len(s) + 1] = e
  BY <1>1, AppendProperties
<1>3. \A i \in DOMAIN Append(s, e) : IsEntry(Append(s, e)[i])
  <2> SUFFICES ASSUME NEW i \in 1..(Len(s) + 1) PROVE IsEntry(Append(s, e)[i])
    BY <1>2
  <2>1. CASE i = Len(s) + 1
    BY <1>2, <2>1
  <2>2. CASE i # Len(s) + 1
    <3>1. i \in 1..Len(s) /\ DOMAIN s = 1..Len(s)
      BY <2>2, ListHasLength
    <3> QED BY <1>2, <3>1 DEF IsList
  <2> QED BY <2>1, <2>2
<1> QED BY <1>2, <1>3 DEF IsList

LEMMA ListIsUpdated ==
  ASSUME NEW s, IsList(s), NEW i \in DOMAIN s, NEW e, IsEntry(e)
  PROVE  IsList([s EXCEPT ![i] = e]) /\ Len([s EXCEPT ![i] = e]) = Len(s)
<1> PICK S : s \in Seq(S) BY DEF IsList
<1>1. s \in Seq(S \cup {e}) /\ e \in S \cup {e} /\ i \in 1..Len(s)
  OBVIOUS
<1>2. [s EXCEPT ![i] = e] \in Seq(S \cup {e}) /\ Len([s EXCEPT ![i] = e]) = Len(s)
  BY <1>1, ExceptSeq
<1>3. \A j \in DOMAIN [s EXCEPT ![i] = e] : IsEntry([s EXCEPT ![i] = e][j])
  BY DEF IsList
<1> QED BY <1>2, <1>3 DEF IsList

(* What is on screen is the last good answer.                                *)
LEMMA ScreenIsGood ==
  ASSUME NEW res, NEW kept, NEW lastGood,
         OnScreen(res, kept, lastGood).kind = "ok"
  PROVE  /\ NextGood(res, kept, lastGood) = OnScreen(res, kept, lastGood)
         /\ OnScreen(res, kept, lastGood) \in {res, kept, lastGood}
<1>0. NoRead.kind = "none"
  BY DEF NoRead
<1>1. CASE Answer(res, kept).kind = "unreachable"
  BY <1>1 DEF OnScreen, NextGood
<1>2. CASE Answer(res, kept).kind = "denied"
  BY <1>0, <1>2 DEF OnScreen
<1>3. CASE Answer(res, kept).kind \notin {"unreachable", "denied"}
  <2>1. OnScreen(res, kept, lastGood) = Answer(res, kept)
    BY <1>3 DEF OnScreen
  <2>2. Answer(res, kept) \in {res, kept}
    BY DEF Answer
  <2> QED BY <2>1, <2>2 DEF NextGood
<1> QED BY <1>1, <1>2, <1>3

(* And it stays so when the last good answer has taken its place.            *)
LEMMA ScreenStays ==
  ASSUME NEW res, NEW kept, NEW lastGood
  PROVE  OnScreen(res, kept, NextGood(res, kept, lastGood)) =
           OnScreen(res, kept, lastGood)
<1>1. CASE Answer(res, kept).kind = "unreachable"
  BY <1>1 DEF OnScreen, NextGood
<1>2. CASE Answer(res, kept).kind # "unreachable"
  BY <1>2 DEF OnScreen
<1> QED BY <1>1, <1>2

LEMMA NextGoodIsKnown ==
  ASSUME NEW res, NEW kept, NEW lastGood
  PROVE  NextGood(res, kept, lastGood) \in {res, kept, lastGood, NoRead}
<1>1. Answer(res, kept) \in {res, kept}
  BY DEF Answer
<1> QED BY <1>1 DEF NextGood

-----------------------------------------------------------------------------
(* The invariant. A read in flight that the cache would keep is newer than   *)
(* all that was shown or is remembered, and an open thread waits for that    *)
(* one or for a forgotten one.  So what lands is never older than what is on *)
(* screen, and what the cache, the last result and the last good answer have *)
(* to show is the newest that was, or newer.                                 *)
Numbers ==
  /\ IsList(reads) /\ Len(reads) <= MaxReads
  /\ IsRead(done) /\ IsRead(result) /\ IsRead(good)
  /\ done.kind \in {"none", "ok"} /\ good.kind \in {"none", "ok"}
  /\ result.kind \in Kinds
  /\ done.kind = "none" => done.read = 0
  /\ good.kind = "none" => good.read = 0
  /\ done.read \in 0..Len(reads) /\ result.read \in 0..Len(reads)
  /\ good.read \in 0..Len(reads)
  /\ latest \in 0..Len(reads) /\ forgotten \in 0..Len(reads)
  /\ flying \in 0..Len(reads) /\ awaits \in 0..Len(reads) \cup {Cached}

FlyingIsNewest ==
  flying # 0 =>
    /\ forgotten < flying /\ latest < flying
    /\ done.read < flying /\ result.read < flying /\ good.read < flying
AwaitsFlying ==
  open /\ awaits \in 1..Len(reads) => awaits = flying \/ awaits <= forgotten

Fresh(x) == x.kind = "ok" /\ x.read > forgotten
DoneIsNewest == Fresh(done) => latest <= done.read
ResultIsLatest == Fresh(result) => result.read = latest
GoodIsLatest == Fresh(good) => good.read = latest
GoodIsShown == open /\ Screen.kind = "ok" => good.kind = "ok" /\ good.read = Screen.read

ReadsInv ==
  /\ Numbers /\ FlyingIsNewest /\ AwaitsFlying
  /\ DoneIsNewest /\ ResultIsLatest /\ GoodIsLatest /\ GoodIsShown

LEMMA ScreenIsNoneOrOk ==
  ASSUME NEW res, NEW kept, NEW lastGood, res.kind \in Kinds,
         kept.kind \in {"none", "ok"}, lastGood.kind \in {"none", "ok"}
  PROVE  /\ OnScreen(res, kept, lastGood).kind \in {"none", "ok"}
         /\ OnScreen(res, kept, lastGood) \in {kept, lastGood, NoRead} \/
            (OnScreen(res, kept, lastGood) = res /\ res.kind = "ok")
<1>0. NoRead.kind = "none"
  BY DEF NoRead
<1>1. Answer(res, kept).kind \in Kinds
  BY DEF Answer, Kinds
<1>2. Answer(res, kept) = kept \/ (Answer(res, kept) = res /\ res.kind # "none")
  BY DEF Answer
<1>3. CASE Answer(res, kept).kind = "unreachable"
  BY <1>3 DEF OnScreen
<1>4. CASE Answer(res, kept).kind = "denied"
  BY <1>0, <1>4 DEF OnScreen
<1>5. CASE Answer(res, kept).kind \notin {"unreachable", "denied"}
  <2>1. OnScreen(res, kept, lastGood) = Answer(res, kept)
    BY <1>5 DEF OnScreen
  <2> QED BY <1>1, <1>2, <1>5, <2>1 DEF Kinds, Refusals
<1> QED BY <1>3, <1>4, <1>5

LEMMA ReadsInit ==
  ASSUME ThreadViewAssumption, ThreadInit
  PROVE  ReadsInv
<1>1. IsRead(NoRead) /\ NoRead.kind = "none" /\ NoRead.read = 0
  BY DEF IsRead, NoRead
<1>2. IsList(<<>>) /\ Len(<<>>) = 0
  BY DEF IsList
<1>3. Numbers
  <2>1. MaxReads \in Nat
    BY DEF ThreadViewAssumption
  <2>2. /\ reads = <<>> /\ done = NoRead /\ result = NoRead /\ good = NoRead
        /\ open = FALSE /\ latest = 0 /\ forgotten = 0 /\ flying = 0 /\ awaits = 0
    BY DEF ThreadInit
  <2>3. IsList(reads) /\ Len(reads) = 0
    BY <1>2, <2>2
  <2>4. /\ IsRead(done) /\ IsRead(result) /\ IsRead(good)
        /\ done.kind = "none" /\ result.kind = "none" /\ good.kind = "none"
        /\ done.read = 0 /\ result.read = 0 /\ good.read = 0
    BY <1>1, <2>2
  <2>5. /\ done.kind \in {"none", "ok"} /\ good.kind \in {"none", "ok"}
        /\ result.kind \in Kinds
    BY <2>4 DEF Kinds
  <2>6. /\ Len(reads) <= MaxReads /\ 0 \in 0..Len(reads)
    BY <2>1, <2>3
  <2> QED BY <2>2, <2>3, <2>4, <2>5, <2>6 DEF Numbers
<1>4. Screen.kind # "ok"
  BY <1>1 DEF ThreadInit, Screen
<1> QED BY <1>1, <1>2, <1>3, <1>4
        DEF ThreadInit, ReadsInv, FlyingIsNewest, AwaitsFlying, DoneIsNewest,
            ResultIsLatest, GoodIsLatest, GoodIsShown, Fresh

(* What a screen shows of a result, a cached read and a last good answer     *)
(* that are none older than what was shown.                                  *)
LEMMA ShowsNewest ==
  ASSUME NEW res, NEW kept, NEW lastGood, res.kind \in Kinds,
         kept.kind \in {"none", "ok"}, lastGood.kind \in {"none", "ok"},
         res.read \in Nat, kept.read \in Nat, lastGood.read \in Nat,
         kept.kind = "none" => kept.read = 0,
         lastGood.kind = "none" => lastGood.read = 0,
         latest \in Nat, forgotten \in Nat,
         Fresh(res) => latest <= res.read,
         Fresh(kept) => latest <= kept.read,
         Fresh(lastGood) => lastGood.read = latest,
         Fresh(res) /\ Fresh(kept) => res.read <= kept.read,
         NEW screen, screen = OnScreen(res, kept, lastGood),
         NEW shown, shown = IF screen.read > latest THEN screen.read ELSE latest
  PROVE  /\ Fresh(res) => res.read = shown
         /\ Fresh(kept) => shown <= kept.read
         /\ Fresh(NextGood(res, kept, lastGood)) =>
              NextGood(res, kept, lastGood).read = shown
<1>0. NoRead.kind = "none" /\ NoRead.read = 0
  BY DEF NoRead
<1>1. screen.kind \in {"none", "ok"}
  BY ScreenIsNoneOrOk
<1>2. screen \in {kept, lastGood, NoRead} \/ (screen = res /\ res.kind = "ok")
  BY ScreenIsNoneOrOk
<1>3. screen.read \in Nat /\ (screen.kind = "none" => screen.read = 0)
  BY <1>0, <1>2
<1>4. Fresh(screen) => latest <= screen.read
  BY <1>0, <1>2 DEF Fresh
<1>5. Fresh(res) => res.read = shown
  <2> SUFFICES ASSUME Fresh(res) PROVE res.read = shown
    OBVIOUS
  <2>1. Answer(res, kept) = res
    BY DEF Answer, Fresh
  <2>2. screen = res
    BY <2>1 DEF OnScreen, Fresh
  <2> QED BY <1>4, <2>2
<1>6. Fresh(kept) => shown <= kept.read
  <2> SUFFICES ASSUME Fresh(kept) PROVE shown <= kept.read
    OBVIOUS
  <2>1. screen.read <= kept.read
    BY <1>0, <1>2 DEF Fresh
  <2> QED BY <2>1, <1>3
<1>7. Fresh(NextGood(res, kept, lastGood)) =>
        NextGood(res, kept, lastGood).read = shown
  <2> SUFFICES ASSUME Fresh(NextGood(res, kept, lastGood))
               PROVE  NextGood(res, kept, lastGood).read = shown
    OBVIOUS
  <2>1. CASE screen.kind = "ok"
    <3>1. NextGood(res, kept, lastGood) = screen
      BY <2>1, ScreenIsGood
    <3> QED BY <1>3, <1>4, <3>1
  <2>2. CASE screen.kind = "none"
    <3>1. Answer(res, kept).kind # "ok"
      BY <2>2 DEF OnScreen
    <3>2. NextGood(res, kept, lastGood) \in {lastGood, NoRead}
      BY <3>1 DEF NextGood
    <3> QED BY <1>0, <1>3, <2>2, <3>2 DEF Fresh
  <2> QED BY <1>1, <2>1, <2>2
<1> QED BY <1>5, <1>6, <1>7

LEMMA NextGoodIsGood ==
  ASSUME NEW res, NEW kept, NEW lastGood,
         kept.kind \in {"none", "ok"}, lastGood.kind \in {"none", "ok"},
         kept.kind = "none" => kept.read = 0,
         lastGood.kind = "none" => lastGood.read = 0,
         IsRead(res), IsRead(kept), IsRead(lastGood),
         NEW n \in Nat,
         res.read \in 0..n, kept.read \in 0..n, lastGood.read \in 0..n,
         NEW next, next = NextGood(res, kept, lastGood)
  PROVE  /\ IsRead(next) /\ next.kind \in {"none", "ok"} /\ next.read \in 0..n
         /\ next.kind = "none" => next.read = 0
<1>0. NoRead.kind = "none" /\ NoRead.read = 0 /\ IsRead(NoRead)
  BY DEF NoRead, IsRead
<1>1. Answer(res, kept) \in {res, kept}
  BY DEF Answer
<1>2. next \in {lastGood, NoRead} \/ (next \in {res, kept} /\ next.kind = "ok")
  BY <1>1 DEF NextGood
<1> QED BY <1>0, <1>2

LEMMA ScreenIsRead ==
  ASSUME NEW res, NEW kept, NEW lastGood, NEW n \in Nat,
         res.read \in 0..n, kept.read \in 0..n, lastGood.read \in 0..n
  PROVE  OnScreen(res, kept, lastGood).read \in 0..n
<1>0. NoRead.read = 0
  BY DEF NoRead
<1>1. Answer(res, kept) \in {res, kept}
  BY DEF Answer
<1>2. OnScreen(res, kept, lastGood) \in {res, kept, lastGood, NoRead}
  BY <1>1 DEF OnScreen
<1> QED BY <1>0, <1>2

-----------------------------------------------------------------------------
(* Steps. A read that begins is newer than everything.                       *)
LEMMA ReadBegins ==
  ASSUME ReadsInv, NEW viewed, BeginRead(viewed)
  PROVE  /\ IsList(reads') /\ Len(reads') = Len(reads) + 1 /\ Len(reads') <= MaxReads
         /\ Len(reads) \in Nat /\ flying' = Len(reads')
         /\ latest < flying' /\ forgotten < flying'
         /\ done.read < flying' /\ result.read < flying' /\ good.read < flying'
<1>1. IsEntry(NewRead(viewed))
  BY DEF IsEntry, NewRead, Kinds
<1>2. IsList(reads) /\ Len(reads) \in Nat
  BY ListHasLength DEF ReadsInv, Numbers
<1>3. /\ IsList(Append(reads, NewRead(viewed)))
      /\ Len(Append(reads, NewRead(viewed))) = Len(reads) + 1
  BY <1>1, <1>2, ListGrows
<1>4. reads' = Append(reads, NewRead(viewed)) /\ flying' = Len(reads) + 1
      /\ Len(reads) < MaxReads
  BY DEF BeginRead
<1>5. MaxReads \in Nat
  BY ThreadViewAssumption DEF ThreadViewAssumption
<1> QED BY <1>2, <1>3, <1>4, <1>5 DEF ReadsInv, Numbers

LEMMA PaneSteps ==
  ASSUME ReadsInv, UNCHANGED <<cacheVars, viewVars, seenVars>>
  PROVE  ReadsInv'
<1>1. UNCHANGED <<reads, flying, done, open, awaits, result, good, latest, forgotten>>
  BY DEF cacheVars, viewVars, seenVars
<1>2. Screen' = Screen
  BY <1>1 DEF Screen
<1>3. Numbers'
  BY <1>1 DEF ReadsInv, Numbers
<1>4. FlyingIsNewest' /\ AwaitsFlying'
  BY <1>1 DEF ReadsInv, FlyingIsNewest, AwaitsFlying
<1>5. DoneIsNewest' /\ ResultIsLatest' /\ GoodIsLatest'
  BY <1>1 DEF ReadsInv, DoneIsNewest, ResultIsLatest, GoodIsLatest, Fresh
<1>6. GoodIsShown'
  BY <1>1, <1>2 DEF ReadsInv, GoodIsShown
<1> QED BY <1>3, <1>4, <1>5, <1>6 DEF ReadsInv

(* A hover or a refresh: a read begins, and nothing else changes but what an *)
(* open thread waits for.                                                    *)
LEMMA ReadStarts ==
  ASSUME ReadsInv, NEW viewed, BeginRead(viewed),
         UNCHANGED <<done, open, result, good, seenVars>>,
         awaits' = flying' \/ (awaits' = awaits /\ flying = 0)
  PROVE  ReadsInv'
<1>0. UNCHANGED <<done, open, result, good, latest, forgotten>>
  BY DEF seenVars
<1>1. /\ IsList(reads') /\ Len(reads') = Len(reads) + 1 /\ Len(reads') <= MaxReads
      /\ Len(reads) \in Nat /\ flying' = Len(reads')
      /\ latest < flying' /\ forgotten < flying'
      /\ done.read < flying' /\ result.read < flying' /\ good.read < flying'
  BY ReadBegins
<1>2. Numbers
  BY DEF ReadsInv
<1>3. 0..Len(reads) \subseteq 0..Len(reads') /\ flying' \in 0..Len(reads')
  BY <1>1
<1>4. awaits' \in 0..Len(reads') \cup {Cached}'
  BY <1>1, <1>2, <1>3 DEF Numbers, Cached
<1>5. Numbers'
  BY <1>0, <1>1, <1>2, <1>3, <1>4 DEF Numbers
<1>6. FlyingIsNewest'
  BY <1>0, <1>1 DEF FlyingIsNewest
<1>7. AwaitsFlying'
  <2>1. CASE awaits' = flying'
    BY <2>1 DEF AwaitsFlying
  <2>2. CASE awaits' = awaits /\ flying = 0
    <3>1. awaits \in 1..Len(reads') => awaits \in 1..Len(reads)
      BY <1>1, <1>2, ThreadViewAssumption
         DEF Numbers, Cached, ThreadViewAssumption
    <3>2. AwaitsFlying
      BY DEF ReadsInv
    <3> QED BY <1>0, <1>1, <2>2, <3>1, <3>2 DEF AwaitsFlying
  <2> QED BY <2>1, <2>2
<1>8. DoneIsNewest' /\ ResultIsLatest' /\ GoodIsLatest' /\ GoodIsShown'
  BY <1>0 DEF ReadsInv, DoneIsNewest, ResultIsLatest, GoodIsLatest, GoodIsShown,
              Fresh, Screen
<1> QED BY <1>5, <1>6, <1>7, <1>8 DEF ReadsInv

LEMMA CloseStep ==
  ASSUME ReadsInv, CloseThread
  PROVE  ReadsInv'
<1>0. /\ UNCHANGED <<reads, flying, done, latest, forgotten>>
      /\ open' = FALSE /\ awaits' = 0
      /\ result' \in {result, NoRead} /\ good' \in {good, NoRead}
  BY DEF CloseThread, cacheVars, seenVars
<1>1. IsRead(NoRead) /\ NoRead.kind = "none" /\ NoRead.read = 0
  BY DEF IsRead, NoRead
<1>2. Numbers /\ Len(reads) \in Nat
  BY ListHasLength DEF ReadsInv, Numbers
<1>3. Numbers'
  <2>1. IsRead(result') /\ result'.kind \in Kinds /\ result'.read \in 0..Len(reads)
    BY <1>0, <1>1, <1>2 DEF Numbers, Kinds
  <2>2. /\ IsRead(good') /\ good'.kind \in {"none", "ok"} /\ good'.read \in 0..Len(reads)
        /\ good'.kind = "none" => good'.read = 0
    BY <1>0, <1>1, <1>2 DEF Numbers
  <2>3. awaits' \in 0..Len(reads)
    BY <1>0, <1>2
  <2> QED BY <1>0, <1>2, <2>1, <2>2, <2>3 DEF Numbers
<1>4. FlyingIsNewest'
  <2>1. flying # 0 => 0 < flying
    BY <1>2 DEF Numbers
  <2> QED BY <1>0, <1>1, <2>1 DEF ReadsInv, FlyingIsNewest
<1>5. AwaitsFlying' /\ GoodIsShown'
  BY <1>0 DEF AwaitsFlying, GoodIsShown
<1>6. DoneIsNewest' /\ ResultIsLatest' /\ GoodIsLatest'
  BY <1>0, <1>1 DEF ReadsInv, DoneIsNewest, ResultIsLatest, GoodIsLatest, Fresh
<1> QED BY <1>3, <1>4, <1>5, <1>6 DEF ReadsInv

LEMMA AnswerStep ==
  ASSUME ReadsInv, NEW r \in DOMAIN reads, AnswerRead(r)
  PROVE  ReadsInv'
<1>0. UNCHANGED <<flying, done, open, awaits, result, good, latest, forgotten>>
  BY DEF AnswerRead, viewVars, seenVars
<1>1. IsList(reads') /\ Len(reads') = Len(reads)
  <2>1. PICK kind, page :
          kind \in Kinds /\ reads' = [reads EXCEPT ![r] = Replied(r, kind, page)]
    BY DEF AnswerRead, Kinds
  <2>2. IsEntry(Replied(r, kind, page))
    BY <2>1 DEF IsEntry, Replied
  <2> QED BY <2>1, <2>2, ListIsUpdated DEF ReadsInv, Numbers
<1>2. Numbers'
  BY <1>0, <1>1 DEF ReadsInv, Numbers, Cached
<1>3. FlyingIsNewest' /\ AwaitsFlying'
  BY <1>0, <1>1 DEF ReadsInv, FlyingIsNewest, AwaitsFlying
<1>4. DoneIsNewest' /\ ResultIsLatest' /\ GoodIsLatest' /\ GoodIsShown'
  BY <1>0 DEF ReadsInv, DoneIsNewest, ResultIsLatest, GoodIsLatest, GoodIsShown,
              Fresh, Screen
<1> QED BY <1>2, <1>3, <1>4 DEF ReadsInv

LEMMA AgeStep ==
  ASSUME ReadsInv, AgeRead
  PROVE  ReadsInv'
<1>0. /\ UNCHANGED <<reads, flying, open, awaits, result, good, latest, forgotten>>
      /\ done' = [done EXCEPT !.young = FALSE]
  BY DEF AgeRead, viewVars, seenVars
<1>1. IsRead(done') /\ done'.kind = done.kind /\ done'.read = done.read
  <2>1. IsRead(done)
    BY DEF ReadsInv, Numbers
  <2> QED BY <1>0, <2>1 DEF IsRead
<1>2. Numbers'
  BY <1>0, <1>1 DEF ReadsInv, Numbers, Cached
<1>3. FlyingIsNewest' /\ AwaitsFlying'
  BY <1>0, <1>1 DEF ReadsInv, FlyingIsNewest, AwaitsFlying
<1>4. DoneIsNewest' /\ ResultIsLatest' /\ GoodIsLatest'
  BY <1>0, <1>1 DEF ReadsInv, DoneIsNewest, ResultIsLatest, GoodIsLatest, Fresh
<1>5. /\ OnScreen(result, done', good).kind = OnScreen(result, done, good).kind
      /\ OnScreen(result, done', good).read = OnScreen(result, done, good).read
  <2>1. CASE result.kind = "none"
    <3>1. Answer(result, done') = done' /\ Answer(result, done) = done
      BY <2>1 DEF Answer
    <3> QED BY <1>1, <3>1 DEF OnScreen
  <2>2. CASE result.kind # "none"
    <3>1. Answer(result, done') = result /\ Answer(result, done) = result
      BY <2>2 DEF Answer
    <3> QED BY <3>1 DEF OnScreen
  <2> QED BY <2>1, <2>2
<1>6. GoodIsShown'
  BY <1>0, <1>5 DEF ReadsInv, GoodIsShown, Screen
<1> QED BY <1>2, <1>3, <1>4, <1>6 DEF ReadsInv

(* A screen that shows old reads only leaves a read in flight the newest.    *)
LEMMA ShownIsOlder ==
  ASSUME NEW res, NEW kept, NEW lastGood, NEW f \in Nat, NEW top \in Nat,
         res.read \in Nat, kept.read \in Nat, lastGood.read \in Nat,
         f # 0, top < f, res.read < f, kept.read < f, lastGood.read < f,
         NEW screen, screen = OnScreen(res, kept, lastGood)
  PROVE  (IF screen.read > top THEN screen.read ELSE top) < f
<1>1. /\ res.read \in 0..(f - 1) /\ kept.read \in 0..(f - 1)
      /\ lastGood.read \in 0..(f - 1) /\ f - 1 \in Nat
  OBVIOUS
<1>2. screen.read \in 0..(f - 1)
  BY <1>1, ScreenIsRead
<1> QED BY <1>2

LEMMA ViewedIsEntry ==
  ASSUME NEW e, IsEntry(e), NEW seen, seen = [e EXCEPT !.viewed = TRUE]
  PROVE  IsEntry(seen)
<1>1. e = [pc |-> e.pc, viewed |-> e.viewed, kind |-> e.kind, page |-> e.page]
  BY DEF IsEntry
<1>2. seen = [pc |-> seen.pc, viewed |-> seen.viewed, kind |-> seen.kind, page |-> seen.page]
  BY <1>1
<1>3. seen.kind = e.kind
  BY <1>1
<1> QED BY <1>2, <1>3 DEF IsEntry

LEMMA OpenStep ==
  ASSUME ReadsInv, NEW force, OpenThread(force)
  PROVE  ReadsInv'
<1> DEFINE first == OnScreen(result, done, good)
<1>0. /\ open' /\ good' = NextGood(result, done, good)
      /\ latest' = (IF first.read > latest THEN first.read ELSE latest)
      /\ UNCHANGED <<result, done, forgotten>>
  BY DEF OpenThread, Displays
<1> HIDE DEF first
<1>1. Numbers /\ Len(reads) \in Nat /\ DOMAIN reads = 1..Len(reads)
  BY ListHasLength DEF ReadsInv, Numbers
<1>2. /\ IsRead(good') /\ good'.kind \in {"none", "ok"} /\ good'.read \in 0..Len(reads)
      /\ good'.kind = "none" => good'.read = 0
  BY <1>0, <1>1, NextGoodIsGood DEF Numbers
<1>3. first.read \in 0..Len(reads) /\ latest' \in 0..Len(reads)
  <2>1. first.read \in 0..Len(reads)
    BY <1>1, ScreenIsRead DEF Numbers, first
  <2> QED BY <1>0, <1>1, <2>1 DEF Numbers
<1>4. \/ /\ UNCHANGED <<reads, flying>> /\ awaits' = Cached
      \/ /\ flying # 0 /\ awaits' = flying /\ UNCHANGED flying
         /\ reads' = [reads EXCEPT ![flying].viewed = TRUE]
      \/ BeginRead(TRUE) /\ awaits' = flying'
  BY DEF OpenThread, BeginRead
<1>5. /\ IsList(reads') /\ Len(reads') \in Len(reads)..MaxReads
      /\ flying' \in 0..Len(reads')
      /\ awaits' = Cached \/ (awaits' \in 0..Len(reads') /\ awaits' = flying')
  <2>1. CASE UNCHANGED <<reads, flying>> /\ awaits' = Cached
    BY <1>1, <2>1, ThreadViewAssumption DEF Numbers, ThreadViewAssumption
  <2>2. CASE /\ flying # 0 /\ awaits' = flying /\ UNCHANGED flying
             /\ reads' = [reads EXCEPT ![flying].viewed = TRUE]
    <3>1. flying \in DOMAIN reads
      BY <1>1, <2>2 DEF Numbers
    <3>2. IsEntry(reads[flying])
      BY <1>1, <3>1 DEF Numbers, IsList
    <3>3. IsEntry([reads[flying] EXCEPT !.viewed = TRUE])
      BY <3>2, ViewedIsEntry
    <3>4. reads' = [reads EXCEPT ![flying] = [reads[flying] EXCEPT !.viewed = TRUE]]
      BY <2>2
    <3>5. IsList(reads') /\ Len(reads') = Len(reads)
      BY <1>1, <3>1, <3>3, <3>4, ListIsUpdated DEF Numbers
    <3> QED BY <1>1, <2>2, <3>5, ThreadViewAssumption
            DEF Numbers, ThreadViewAssumption
  <2>3. CASE BeginRead(TRUE) /\ awaits' = flying'
    <3>1. /\ IsList(reads') /\ Len(reads') = Len(reads) + 1 /\ Len(reads') <= MaxReads
          /\ flying' = Len(reads')
      BY <2>3, ReadBegins
    <3> QED BY <1>1, <2>3, <3>1, ThreadViewAssumption DEF ThreadViewAssumption
  <2> QED BY <1>4, <2>1, <2>2, <2>3
<1>6. Numbers'
  <2>1. 0..Len(reads) \subseteq 0..Len(reads')
    BY <1>1, <1>5
  <2>2. awaits' \in 0..Len(reads') \cup {Cached}'
    BY <1>5 DEF Cached
  <2>3. Len(reads') <= MaxReads
    BY <1>1, <1>5, ThreadViewAssumption DEF ThreadViewAssumption
  <2> QED BY <1>0, <1>1, <1>2, <1>3, <1>5, <2>1, <2>2, <2>3 DEF Numbers
<1>7. FlyingIsNewest'
  <2>1. flying' # 0 =>
          /\ flying' \in Nat /\ forgotten < flying' /\ latest < flying'
          /\ done.read < flying' /\ result.read < flying' /\ good.read < flying'
    <3>1. CASE BeginRead(TRUE)
      <4>1. flying' \in Nat
        BY <1>5
      <4>2. /\ latest < flying' /\ forgotten < flying' /\ done.read < flying'
            /\ result.read < flying' /\ good.read < flying'
        BY <3>1, ReadBegins
      <4> QED BY <4>1, <4>2
    <3>2. CASE UNCHANGED flying
      BY <1>1, <3>2 DEF ReadsInv, FlyingIsNewest, Numbers
    <3> QED BY <1>4, <3>1, <3>2
  <2>2. flying' # 0 => latest' < flying'
    <3> SUFFICES ASSUME flying' # 0 PROVE latest' < flying'
      OBVIOUS
    <3>1. /\ result.read \in Nat /\ done.read \in Nat /\ good.read \in Nat
          /\ latest \in Nat
      BY <1>1 DEF Numbers
    <3>2. (IF first.read > latest THEN first.read ELSE latest) < flying'
      BY <2>1, <3>1, ShownIsOlder DEF first
    <3> QED BY <1>0, <3>2
  <2>3. flying' # 0 => good'.read < flying'
    <3> SUFFICES ASSUME flying' # 0 PROVE good'.read < flying'
      OBVIOUS
    <3>0. NoRead.read = 0
      BY DEF NoRead
    <3>1. good' \in {result, done, good, NoRead}
      BY <1>0, NextGoodIsKnown
    <3> QED BY <2>1, <3>0, <3>1
  <2> QED BY <1>0, <2>1, <2>2, <2>3 DEF FlyingIsNewest
<1>8. AwaitsFlying'
  <2>1. Cached \notin 1..Len(reads')
    BY <1>1, <1>5, ThreadViewAssumption DEF Cached, ThreadViewAssumption
  <2> QED BY <1>5, <2>1 DEF AwaitsFlying
<1>9. DoneIsNewest' /\ ResultIsLatest' /\ GoodIsLatest'
  <2>1. /\ result.read \in Nat /\ done.read \in Nat /\ good.read \in Nat
        /\ latest \in Nat /\ forgotten \in Nat
    BY <1>1 DEF Numbers
  <2>2. /\ Fresh(result) => latest <= result.read
        /\ Fresh(done) => latest <= done.read
        /\ Fresh(good) => good.read = latest
        /\ Fresh(result) /\ Fresh(done) => result.read <= done.read
    BY <2>1 DEF ReadsInv, ResultIsLatest, DoneIsNewest, GoodIsLatest
  <2>3. /\ result.kind \in Kinds
        /\ done.kind \in {"none", "ok"} /\ good.kind \in {"none", "ok"}
        /\ done.kind = "none" => done.read = 0
        /\ good.kind = "none" => good.read = 0
    BY <1>1 DEF Numbers
  <2>4. first = OnScreen(result, done, good)
    BY DEF first
  <2>5. /\ Fresh(result) => result.read = latest'
        /\ Fresh(done) => latest' <= done.read
        /\ Fresh(good') => good'.read = latest'
    <3> HIDE DEF Fresh, Kinds
    <3>1. /\ Fresh(result) => result.read = latest'
          /\ Fresh(done) => latest' <= done.read
          /\ Fresh(NextGood(result, done, good)) =>
               NextGood(result, done, good).read = latest'
      BY <1>0, <2>1, <2>2, <2>3, <2>4, ShowsNewest
    <3> QED BY <1>0, <3>1
  <2> QED BY <1>0, <2>5 DEF DoneIsNewest, ResultIsLatest, GoodIsLatest, Fresh
<1>10. GoodIsShown'
  <2>1. Screen' = OnScreen(result, done, good)
    BY <1>0, ScreenStays DEF Screen
  <2> QED BY <1>0, <2>1, ScreenIsGood DEF GoodIsShown
<1> QED BY <1>6, <1>7, <1>8, <1>9, <1>10 DEF ReadsInv

LEMMA CachedStep ==
  ASSUME ReadsInv, LandCached
  PROVE  ReadsInv'
<1>0. /\ open /\ awaits' = 0 /\ result' = done /\ good' = done
      /\ latest' = (IF done.read > latest THEN done.read ELSE latest)
      /\ UNCHANGED <<open, reads, flying, done, forgotten>>
  BY DEF LandCached, Displays, cacheVars
<1>1. Numbers /\ Len(reads) \in Nat
  BY ListHasLength DEF ReadsInv, Numbers
<1>2. Numbers'
  <2>1. latest' \in 0..Len(reads) /\ awaits' \in 0..Len(reads)
    BY <1>0, <1>1 DEF Numbers
  <2>2. done.kind \in Kinds
    BY <1>1 DEF Numbers, Kinds
  <2> QED BY <1>0, <1>1, <2>1, <2>2 DEF Numbers
<1>3. FlyingIsNewest' /\ AwaitsFlying'
  BY <1>0 DEF ReadsInv, FlyingIsNewest, AwaitsFlying
<1>4. DoneIsNewest' /\ ResultIsLatest' /\ GoodIsLatest'
  <2>1. Fresh(done) => done.read = latest'
    BY <1>0, <1>1 DEF ReadsInv, DoneIsNewest, Numbers
  <2>2. Fresh(done) => latest' <= done.read
    BY <1>1, <2>1 DEF Numbers
  <2> QED BY <1>0, <2>1, <2>2 DEF DoneIsNewest, ResultIsLatest, GoodIsLatest, Fresh
<1>5. GoodIsShown'
  <2>1. OnScreen(done, done, done) = done
    BY <1>1 DEF OnScreen, Answer, Numbers
  <2>2. Screen' = OnScreen(done, done, done)
    BY <1>0 DEF Screen
  <2> QED BY <1>0, <2>1, <2>2 DEF GoodIsShown
<1> QED BY <1>2, <1>3, <1>4, <1>5 DEF ReadsInv

(* A read that lands. `now`, `kept` and `lastGood` are the last result, the  *)
(* cached read and the last good answer as the screen finds them.            *)
Heard(r) == open /\ awaits = r
Reset(r) == reads[r].kind = "denied" /\ reads[r].viewed
Now(r) ==
  IF Heard(r) THEN [kind |-> reads[r].kind, read |-> r, page |-> reads[r].page,
                    young |-> FALSE]
  ELSE result
KeptNow(r) == IF Reset(r) THEN NoRead ELSE Kept(r)
GoodNow(r) == IF Reset(r) THEN NoRead ELSE good

LEMMA LandKnown ==
  ASSUME ReadsInv, NEW r \in DOMAIN reads
  PROVE  /\ r \in 1..Len(reads) /\ Len(reads) \in Nat
         /\ IsRead(Now(r)) /\ Now(r).kind \in Kinds /\ Now(r).read \in 0..Len(reads)
         /\ IsRead(KeptNow(r)) /\ KeptNow(r).kind \in {"none", "ok"}
         /\ KeptNow(r).read \in 0..Len(reads)
         /\ KeptNow(r).kind = "none" => KeptNow(r).read = 0
         /\ IsRead(GoodNow(r)) /\ GoodNow(r).kind \in {"none", "ok"}
         /\ GoodNow(r).read \in 0..Len(reads)
         /\ GoodNow(r).kind = "none" => GoodNow(r).read = 0
<1>0. IsRead(NoRead) /\ NoRead.kind = "none" /\ NoRead.read = 0
  BY DEF IsRead, NoRead
<1>1. Numbers /\ Len(reads) \in Nat /\ r \in 1..Len(reads) /\ r \in 0..Len(reads)
  BY ListHasLength DEF ReadsInv, Numbers
<1>2. reads[r].kind \in Kinds
  BY <1>1 DEF Numbers, IsList, IsEntry
<1>3. IsRead(Now(r)) /\ Now(r).kind \in Kinds /\ Now(r).read \in 0..Len(reads)
  <2>1. CASE Heard(r)
    BY <1>1, <1>2, <2>1 DEF Now, IsRead
  <2>2. CASE ~Heard(r)
    BY <1>1, <2>2 DEF Now, Numbers
  <2> QED BY <2>1, <2>2
<1>4. /\ IsRead(Kept(r)) /\ Kept(r).kind \in {"none", "ok"}
      /\ Kept(r).read \in 0..Len(reads)
      /\ Kept(r).kind = "none" => Kept(r).read = 0
  <2>1. CASE flying = r /\ reads[r].kind = "ok"
    BY <1>1, <2>1 DEF Kept, IsRead
  <2>2. CASE ~(flying = r /\ reads[r].kind = "ok")
    BY <1>1, <2>2 DEF Kept, Numbers
  <2> QED BY <2>1, <2>2
<1>5. /\ IsRead(KeptNow(r)) /\ KeptNow(r).kind \in {"none", "ok"}
      /\ KeptNow(r).read \in 0..Len(reads)
      /\ KeptNow(r).kind = "none" => KeptNow(r).read = 0
  <2>1. CASE Reset(r)
    BY <1>0, <1>1, <2>1 DEF KeptNow
  <2>2. CASE ~Reset(r)
    BY <1>4, <2>2 DEF KeptNow
  <2> QED BY <2>1, <2>2
<1>6. /\ IsRead(GoodNow(r)) /\ GoodNow(r).kind \in {"none", "ok"}
      /\ GoodNow(r).read \in 0..Len(reads)
      /\ GoodNow(r).kind = "none" => GoodNow(r).read = 0
  <2>1. CASE Reset(r)
    BY <1>0, <1>1, <2>1 DEF GoodNow
  <2>2. CASE ~Reset(r)
    BY <1>1, <2>2 DEF GoodNow, Numbers
  <2> QED BY <2>1, <2>2
<1> QED BY <1>1, <1>3, <1>5, <1>6

LEMMA LandMoves ==
  ASSUME ReadsInv, NEW r \in DOMAIN reads, LandRead(r)
  PROVE  /\ IsList(reads') /\ Len(reads') = Len(reads) /\ open' = open
         /\ flying' = (IF Reset(r) \/ flying = r THEN 0 ELSE flying)
         /\ awaits' = (IF Heard(r) THEN 0 ELSE awaits)
         /\ forgotten' = (IF Reset(r) THEN Len(reads) ELSE forgotten)
         /\ done' = KeptNow(r) /\ result' = Now(r)
         /\ open =>
              /\ good' = NextGood(Now(r), KeptNow(r), GoodNow(r))
              /\ latest' = LET screen == OnScreen(Now(r), KeptNow(r), GoodNow(r))
                           IN IF screen.read > latest THEN screen.read ELSE latest
              /\ Screen' = OnScreen(Now(r), KeptNow(r), good')
         /\ ~open => good' = GoodNow(r) /\ latest' = latest /\ result' = result
<1>1. IsList(reads') /\ Len(reads') = Len(reads)
  <2>1. IsEntry(OverRead)
    BY DEF IsEntry, OverRead, Kinds
  <2>2. reads' = [reads EXCEPT ![r] = OverRead]
    BY DEF LandRead
  <2> QED BY <2>1, <2>2, ListIsUpdated DEF ReadsInv, Numbers
<1>2. /\ open' = open
      /\ flying' = (IF Reset(r) \/ flying = r THEN 0 ELSE flying)
      /\ awaits' = (IF Heard(r) THEN 0 ELSE awaits)
      /\ forgotten' = (IF Reset(r) THEN Len(reads) ELSE forgotten)
  BY DEF LandRead, Reset, Heard
<1>3. done' = KeptNow(r) /\ result' = Now(r)
  BY DEF LandRead, Reset, Heard, KeptNow, Now
<1>4. good' = IF open THEN NextGood(Now(r), KeptNow(r), GoodNow(r)) ELSE GoodNow(r)
  BY DEF LandRead, Reset, Heard, KeptNow, GoodNow, Now
<1>5. latest' = LET screen == IF open THEN OnScreen(Now(r), KeptNow(r), GoodNow(r))
                              ELSE NoRead
                IN IF screen.read > latest THEN screen.read ELSE latest
  BY DEF LandRead, Displays, Reset, Heard, KeptNow, GoodNow, Now
<1>6. ~open => latest' = latest
  <2>1. NoRead.read = 0 /\ latest \in Nat
    BY ListHasLength DEF NoRead, ReadsInv, Numbers
  <2> QED BY <1>5, <2>1
<1>7. ~open => result' = result
  BY <1>3 DEF Now, Heard
<1>8. open => Screen' = OnScreen(Now(r), KeptNow(r), good')
  BY <1>2, <1>3 DEF Screen
<1> QED BY <1>1, <1>2, <1>3, <1>4, <1>5, <1>6, <1>7, <1>8

LEMMA LandIsTyped ==
  ASSUME ReadsInv, NEW r \in DOMAIN reads, LandRead(r)
  PROVE  Numbers'
<1>1. Numbers /\ Len(reads) \in Nat /\ 0 \in 0..Len(reads)
  BY ListHasLength DEF ReadsInv, Numbers
<1>2. /\ IsRead(good') /\ good'.kind \in {"none", "ok"} /\ good'.read \in 0..Len(reads)
      /\ good'.kind = "none" => good'.read = 0
  <2>1. CASE open
    <3>1. good' = NextGood(Now(r), KeptNow(r), GoodNow(r))
      BY <2>1, LandMoves
    <3>2. /\ IsRead(Now(r)) /\ Now(r).read \in 0..Len(reads)
          /\ IsRead(KeptNow(r)) /\ KeptNow(r).kind \in {"none", "ok"}
          /\ KeptNow(r).read \in 0..Len(reads)
          /\ KeptNow(r).kind = "none" => KeptNow(r).read = 0
          /\ IsRead(GoodNow(r)) /\ GoodNow(r).kind \in {"none", "ok"}
          /\ GoodNow(r).read \in 0..Len(reads)
          /\ GoodNow(r).kind = "none" => GoodNow(r).read = 0
      BY LandKnown
    <3> QED BY <1>1, <3>1, <3>2, NextGoodIsGood
  <2>2. CASE ~open
    BY <2>2, LandKnown, LandMoves
  <2> QED BY <2>1, <2>2
<1>3. latest' \in 0..Len(reads)
  <2>1. CASE open
    <3>1. OnScreen(Now(r), KeptNow(r), GoodNow(r)).read \in 0..Len(reads)
      BY LandKnown, ScreenIsRead
    <3> QED BY <1>1, <2>1, <3>1, LandMoves DEF Numbers
  <2>2. CASE ~open
    BY <1>1, <2>2, LandMoves DEF Numbers
  <2> QED BY <2>1, <2>2
<1>4. flying' \in 0..Len(reads) /\ forgotten' \in 0..Len(reads)
  BY <1>1, LandMoves DEF Numbers
<1>5. awaits' \in 0..Len(reads) \cup {Cached}
  BY <1>1, LandMoves DEF Numbers
<1>6. IsList(reads') /\ Len(reads') = Len(reads) /\ done' = KeptNow(r) /\ result' = Now(r)
  BY LandMoves
<1>7. /\ IsRead(done') /\ done'.kind \in {"none", "ok"} /\ done'.read \in 0..Len(reads)
      /\ done'.kind = "none" => done'.read = 0
      /\ IsRead(result') /\ result'.kind \in Kinds /\ result'.read \in 0..Len(reads)
  BY <1>6, LandKnown
<1> QED BY <1>1, <1>2, <1>3, <1>4, <1>5, <1>6, <1>7 DEF Numbers, Cached

(* After a denial all reads are forgotten, and nothing is fresh.             *)
LEMMA LandResets ==
  ASSUME ReadsInv, NEW r \in DOMAIN reads, LandRead(r), Reset(r)
  PROVE  /\ FlyingIsNewest' /\ AwaitsFlying'
         /\ DoneIsNewest' /\ ResultIsLatest' /\ GoodIsLatest'
<1>1. /\ flying' = 0 /\ forgotten' = Len(reads) /\ Len(reads') = Len(reads)
      /\ Len(reads) \in Nat
  BY LandKnown, LandMoves
<1>2. Numbers'
  BY LandIsTyped
<1>3. FlyingIsNewest' /\ AwaitsFlying'
  BY <1>1 DEF FlyingIsNewest, AwaitsFlying
<1>4. done'.read <= forgotten' /\ result'.read <= forgotten' /\ good'.read <= forgotten'
  BY <1>1, <1>2 DEF Numbers
<1>5. /\ ~(done'.read > forgotten') /\ ~(result'.read > forgotten')
      /\ ~(good'.read > forgotten')
  BY <1>1, <1>2, <1>4 DEF Numbers
<1> QED BY <1>3, <1>5 DEF DoneIsNewest, ResultIsLatest, GoodIsLatest, Fresh

(* Without one, what lands on the screen is the newest read of all.          *)
LEMMA LandIsNew ==
  ASSUME ReadsInv, NEW r \in DOMAIN reads, ~Reset(r)
  PROVE  /\ Fresh(Now(r)) => latest <= Now(r).read
         /\ Fresh(KeptNow(r)) => latest <= KeptNow(r).read
         /\ Fresh(GoodNow(r)) => GoodNow(r).read = latest
         /\ Fresh(Now(r)) /\ Fresh(KeptNow(r)) => Now(r).read <= KeptNow(r).read
<1>1. Numbers /\ r \in 1..Len(reads) /\ Len(reads) \in Nat
  BY LandKnown DEF ReadsInv
<1>2. /\ latest \in Nat /\ forgotten \in Nat /\ done.read \in Nat
      /\ result.read \in Nat /\ flying \in Nat /\ r \in Nat /\ r # 0
  BY <1>1 DEF Numbers
<1>3. KeptNow(r) = Kept(r) /\ GoodNow(r) = good
  BY DEF KeptNow, GoodNow
<1>4. Heard(r) /\ Fresh(Now(r)) => Now(r).read = r /\ flying = r /\ reads[r].kind = "ok"
  <2> SUFFICES ASSUME Heard(r), Fresh(Now(r))
               PROVE  Now(r).read = r /\ flying = r /\ reads[r].kind = "ok"
    OBVIOUS
  <2>1. Now(r).read = r /\ Now(r).kind = reads[r].kind
    BY DEF Now
  <2>2. reads[r].kind = "ok" /\ r > forgotten
    BY <2>1 DEF Fresh
  <2>3. r = flying \/ r <= forgotten
    BY <1>1 DEF Heard, ReadsInv, AwaitsFlying
  <2> QED BY <1>2, <2>1, <2>2, <2>3
<1>5. ~Heard(r) => Now(r) = result
  BY DEF Now
<1>6. flying = r /\ reads[r].kind = "ok" => Kept(r).read = r /\ latest < r
  BY <1>2 DEF Kept, ReadsInv, FlyingIsNewest
<1>7. ~(flying = r /\ reads[r].kind = "ok") => Kept(r) = done
  BY DEF Kept
<1>8. Fresh(Now(r)) => latest <= Now(r).read
  BY <1>2, <1>4, <1>5, <1>6 DEF ReadsInv, ResultIsLatest
<1>9. Fresh(Kept(r)) => latest <= Kept(r).read
  BY <1>2, <1>6, <1>7 DEF ReadsInv, DoneIsNewest
<1>10. Fresh(good) => good.read = latest
  BY DEF ReadsInv, GoodIsLatest
<1>11. Fresh(Now(r)) /\ Fresh(Kept(r)) => Now(r).read <= Kept(r).read
  <2>1. CASE Heard(r)
    BY <1>2, <1>4, <1>6, <2>1
  <2>2. CASE ~Heard(r)
    <3>1. Fresh(Now(r)) => Now(r).read = latest
      BY <1>5, <2>2 DEF ReadsInv, ResultIsLatest
    <3> QED BY <1>9, <3>1
  <2> QED BY <2>1, <2>2
<1> QED BY <1>3, <1>8, <1>9, <1>10, <1>11

LEMMA LandAdvances ==
  ASSUME ReadsInv, NEW r \in DOMAIN reads, LandRead(r), ~Reset(r)
  PROVE  DoneIsNewest' /\ ResultIsLatest' /\ GoodIsLatest'
<1>1. done' = KeptNow(r) /\ result' = Now(r) /\ forgotten' = forgotten
  BY LandMoves
<1>2. CASE open
  <2>1. /\ good' = NextGood(Now(r), KeptNow(r), GoodNow(r))
        /\ latest' = LET screen == OnScreen(Now(r), KeptNow(r), GoodNow(r))
                     IN IF screen.read > latest THEN screen.read ELSE latest
    BY <1>2, LandMoves
  <2>2. /\ Now(r).kind \in Kinds /\ Now(r).read \in Nat
        /\ KeptNow(r).kind \in {"none", "ok"} /\ KeptNow(r).read \in Nat
        /\ KeptNow(r).kind = "none" => KeptNow(r).read = 0
        /\ GoodNow(r).kind \in {"none", "ok"} /\ GoodNow(r).read \in Nat
        /\ GoodNow(r).kind = "none" => GoodNow(r).read = 0
    BY LandKnown
  <2>3. latest \in Nat /\ forgotten \in Nat
    BY LandKnown DEF ReadsInv, Numbers
  <2> HIDE DEF Fresh, Kinds
  <2>4. /\ Fresh(Now(r)) => Now(r).read = latest'
        /\ Fresh(KeptNow(r)) => latest' <= KeptNow(r).read
        /\ Fresh(NextGood(Now(r), KeptNow(r), GoodNow(r))) =>
             NextGood(Now(r), KeptNow(r), GoodNow(r)).read = latest'
    BY <2>1, <2>2, <2>3, LandIsNew, ShowsNewest
  <2> QED BY <1>1, <2>1, <2>4
          DEF DoneIsNewest, ResultIsLatest, GoodIsLatest, Fresh
<1>3. CASE ~open
  <2>1. good' = good /\ latest' = latest /\ result' = result
    BY <1>3, LandMoves DEF GoodNow
  <2>2. Fresh(KeptNow(r)) => latest <= KeptNow(r).read
    BY LandIsNew
  <2> QED BY <1>1, <2>1, <2>2
          DEF ReadsInv, DoneIsNewest, ResultIsLatest, GoodIsLatest, Fresh
<1> QED BY <1>2, <1>3

LEMMA LandLeavesFlying ==
  ASSUME ReadsInv, NEW r \in DOMAIN reads, LandRead(r), ~Reset(r)
  PROVE  FlyingIsNewest' /\ AwaitsFlying'
<1>1. Numbers /\ r \in 1..Len(reads) /\ Len(reads) \in Nat
  BY LandKnown DEF ReadsInv
<1>2. /\ flying' = (IF flying = r THEN 0 ELSE flying) /\ forgotten' = forgotten
      /\ awaits' = (IF Heard(r) THEN 0 ELSE awaits) /\ open' = open
      /\ done' = KeptNow(r) /\ result' = Now(r) /\ Len(reads') = Len(reads)
  BY LandMoves
<1>3. AwaitsFlying'
  BY <1>1, <1>2 DEF ReadsInv, AwaitsFlying, Heard
<1>4. FlyingIsNewest'
  <2> SUFFICES ASSUME flying' # 0
               PROVE  /\ forgotten' < flying' /\ latest' < flying'
                      /\ done'.read < flying' /\ result'.read < flying'
                      /\ good'.read < flying'
    BY DEF FlyingIsNewest
  <2>1. flying # r /\ flying # 0 /\ flying' = flying /\ flying \in Nat
    BY <1>1, <1>2 DEF Numbers
  <2>2. /\ forgotten < flying /\ latest < flying
        /\ done.read < flying /\ result.read < flying /\ good.read < flying
    BY <2>1 DEF ReadsInv, FlyingIsNewest
  <2>3. KeptNow(r) = done /\ GoodNow(r) = good
    BY <2>1 DEF KeptNow, Kept, GoodNow
  <2>4. Now(r).read < flying
    <3>1. CASE Heard(r)
      <4>1. Now(r).read = r /\ awaits = r /\ open
        BY <3>1 DEF Now, Heard
      <4>2. r <= forgotten
        BY <1>1, <2>1, <4>1 DEF ReadsInv, AwaitsFlying
      <4> QED BY <1>1, <2>1, <2>2, <4>1, <4>2 DEF Numbers
    <3>2. CASE ~Heard(r)
      BY <2>2, <3>2 DEF Now
    <3> QED BY <3>1, <3>2
  <2>5. /\ Now(r).read \in Nat /\ done.read \in Nat /\ good.read \in Nat
        /\ latest \in Nat
    BY <1>1, LandKnown DEF Numbers
  <2>6. latest' < flying /\ good'.read < flying
    <3>1. CASE open
      <4>1. /\ good' = NextGood(Now(r), done, good)
            /\ latest' = LET screen == OnScreen(Now(r), done, good)
                         IN IF screen.read > latest THEN screen.read ELSE latest
        BY <2>3, <3>1, LandMoves
      <4>2. good' \in {Now(r), done, good, NoRead} /\ NoRead.read = 0
        BY <4>1, NextGoodIsKnown DEF NoRead
      <4>3. latest' < flying
        BY <2>1, <2>2, <2>4, <2>5, <4>1, ShownIsOlder
      <4> QED BY <2>1, <2>2, <2>4, <4>2, <4>3
    <3>2. CASE ~open
      BY <2>2, <2>3, <3>2, LandMoves
    <3> QED BY <3>1, <3>2
  <2> QED BY <1>2, <2>1, <2>2, <2>3, <2>4, <2>6
<1> QED BY <1>3, <1>4

LEMMA LandStep ==
  ASSUME ReadsInv, NEW r \in DOMAIN reads, LandRead(r)
  PROVE  ReadsInv'
<1>1. Numbers'
  BY LandIsTyped
<1>2. /\ FlyingIsNewest' /\ AwaitsFlying'
      /\ DoneIsNewest' /\ ResultIsLatest' /\ GoodIsLatest'
  BY LandResets, LandAdvances, LandLeavesFlying
<1>3. GoodIsShown'
  <2> SUFFICES ASSUME open', Screen'.kind = "ok"
               PROVE  good'.kind = "ok" /\ good'.read = Screen'.read
    BY DEF GoodIsShown
  <2>1. /\ good' = NextGood(Now(r), KeptNow(r), GoodNow(r))
        /\ Screen' = OnScreen(Now(r), KeptNow(r), good')
    BY LandMoves
  <2>2. Screen' = OnScreen(Now(r), KeptNow(r), GoodNow(r))
    BY <2>1, ScreenStays
  <2> QED BY <2>1, <2>2, ScreenIsGood
<1> QED BY <1>1, <1>2, <1>3 DEF ReadsInv

LEMMA ReadsNext ==
  ASSUME ReadsInv, [ThreadNext]_threadVars
  PROVE  ReadsInv'
<1>1. CASE StoreMessage \/ EraseThread
  BY <1>1, PaneSteps DEF StoreMessage, EraseThread
<1>2. CASE LoadOlder \/ AnswerOlder \/ LandOlder
  BY <1>2, PaneSteps DEF LoadOlder, AnswerOlder, LandOlder
<1>3. CASE AnswerBridge \/ LandBridge
  BY <1>3, PaneSteps DEF AnswerBridge, LandBridge
<1>4. CASE PrefetchThread
  BY <1>4, ReadStarts DEF PrefetchThread, viewVars
<1>5. CASE RefreshThread
  BY <1>5, ReadStarts DEF RefreshThread, BeginRead
<1>6. CASE UNCHANGED threadVars
  BY <1>6, PaneSteps DEF threadVars, cacheVars, viewVars, seenVars
<1> QED BY <1>1, <1>2, <1>3, <1>4, <1>5, <1>6, CloseStep, AgeStep, OpenStep,
           CachedStep, AnswerStep, LandStep
        DEF ThreadNext, ThreadStep

(* The screen of a thread never goes back to a read that began before one it *)
(* has shown, for any number of messages, reads, failures and erasures: the  *)
(* read-cache, useThread and useLastGood agree on what is newest whatever    *)
(* order the answers come in.                                                *)
THEOREM NeverOlderHolds == ThreadSpec => []NeverOlder
<1>1. ThreadInit => ReadsInv
  BY ReadsInit, ThreadViewAssumption
<1>2. ReadsInv /\ [ThreadNext]_threadVars => ReadsInv'
  BY ReadsNext
<1>3. ReadsInv => NeverOlder
  <2> SUFFICES ASSUME ReadsInv, Screen.kind = "ok", Screen.read > forgotten
               PROVE  Screen.read = latest
    BY DEF NeverOlder
  <2>1. open
    BY DEF Screen, NoRead
  <2>2. good.kind = "ok" /\ good.read = Screen.read
    BY <2>1 DEF ReadsInv, GoodIsShown
  <2> QED BY <2>2 DEF ReadsInv, GoodIsLatest, Fresh
<1> QED BY <1>1, <1>2, <1>3, PTL DEF ThreadSpec

-----------------------------------------------------------------------------
(* The pages. A set that a relation orders totally is listed as it says.     *)
Orders(before, S) ==
  /\ \A x \in S : <<x, x>> \notin before
  /\ \A x, y \in S : x = y \/ <<x, y>> \in before \/ <<y, x>> \in before
  /\ \A x, y, z \in S : <<x, y>> \in before /\ <<y, z>> \in before => <<x, z>> \in before

Preceding(x, S, before) == {y \in S : <<y, x>> \in before}
RankIn(x, S, before) == Cardinality(Preceding(x, S, before)) + 1

LEMMA RankGrows ==
  ASSUME NEW S, IsFiniteSet(S), NEW before, Orders(before, S)
  PROVE  /\ Cardinality(S) \in Nat
         /\ \A x \in S : RankIn(x, S, before) \in 1..Cardinality(S)
         /\ \A x, y \in S :
              <<x, y>> \in before => RankIn(x, S, before) < RankIn(y, S, before)
<1>1. Cardinality(S) \in Nat
  BY FS_CardinalityType
<1>2. ASSUME NEW x \in S
      PROVE  /\ IsFiniteSet(Preceding(x, S, before))
             /\ Cardinality(Preceding(x, S, before)) \in Nat
             /\ Cardinality(Preceding(x, S, before)) < Cardinality(S)
  <2>1. Preceding(x, S, before) \in SUBSET S /\ x \notin Preceding(x, S, before)
    BY DEF Preceding, Orders
  <2>2. Preceding(x, S, before) # S
    BY <2>1
  <2>3. /\ IsFiniteSet(Preceding(x, S, before))
        /\ Cardinality(Preceding(x, S, before)) <= Cardinality(S)
        /\ Cardinality(Preceding(x, S, before)) # Cardinality(S)
    BY <2>1, <2>2, FS_Subset
  <2>4. Cardinality(Preceding(x, S, before)) \in Nat
    BY <2>3, FS_CardinalityType
  <2> QED  BY <1>1, <2>3, <2>4
<1>3. ASSUME NEW x \in S, NEW y \in S, <<x, y>> \in before
      PROVE  RankIn(x, S, before) < RankIn(y, S, before)
  <2>1. Preceding(x, S, before) \in SUBSET Preceding(y, S, before)
    BY <1>3 DEF Preceding, Orders
  <2>2. x \in Preceding(y, S, before) /\ x \notin Preceding(x, S, before)
    BY <1>3 DEF Preceding, Orders
  <2>3. /\ Cardinality(Preceding(x, S, before)) <= Cardinality(Preceding(y, S, before))
        /\ Cardinality(Preceding(x, S, before)) # Cardinality(Preceding(y, S, before))
    BY <1>2, <2>1, <2>2, FS_Subset
  <2> QED  BY <1>2, <2>3 DEF RankIn
<1> QED  BY <1>1, <1>2, <1>3 DEF RankIn

LEMMA RankIsTaken ==
  ASSUME NEW S, IsFiniteSet(S), NEW before, Orders(before, S),
         NEW k \in 1..Cardinality(S)
  PROVE  \E x \in S : RankIn(x, S, before) = k
<1> DEFINE n == Cardinality(S)
           rank == [x \in S |-> RankIn(x, S, before)]
<1>1. n \in Nat /\ IsFiniteSet(1..n) /\ Cardinality(1..n) = n
  BY FS_CardinalityType, FS_Interval
<1>2. rank \in Injection(S, 1..n)
  <2>1. rank \in [S -> 1..n]
    BY RankGrows
  <2>2. ASSUME NEW x \in S, NEW y \in S, rank[x] = rank[y] PROVE x = y
    <3>1. ~(<<x, y>> \in before) /\ ~(<<y, x>> \in before)
      <4>1. rank[x] \in 1..n /\ rank[y] \in 1..n
        BY <2>1
      <4>2. /\ <<x, y>> \in before => rank[x] < rank[y]
            /\ <<y, x>> \in before => rank[y] < rank[x]
        BY RankGrows
      <4> HIDE DEF rank, n
      <4> QED  BY <1>1, <2>2, <4>1, <4>2
    <3> QED  BY <3>1 DEF Orders
  <2> HIDE DEF rank, n
  <2> QED  BY <2>1, <2>2 DEF Injection, IsInjective
<1> HIDE DEF rank, n
<1>3. rank \in Surjection(S, 1..n)
  BY <1>1, <1>2, FS_Injection DEF n
<1>4. PICK x \in S : rank[x] = k
  BY <1>3 DEF Surjection, n
<1> QED  BY <1>4 DEF rank

LEMMA ListsInOrder ==
  ASSUME NEW S, IsFiniteSet(S), NEW before, Orders(before, S),
         NEW list, list = InOrder(S, before)
  PROVE  /\ Cardinality(S) \in Nat
         /\ list \in [1..Cardinality(S) -> S]
         /\ \A x \in S : \E k \in 1..Cardinality(S) : list[k] = x
         /\ \A i, j \in 1..Cardinality(S) : i < j => <<list[i], list[j]>> \in before
<1> DEFINE n == Cardinality(S)
<1>1. n \in Nat
  BY FS_CardinalityType
<1>2. ASSUME NEW k \in 1..n
      PROVE  list[k] \in S /\ RankIn(list[k], S, before) = k
  <2>1. PICK x \in S : RankIn(x, S, before) = k
    BY RankIsTaken
  <2>2. \A y \in S : Cardinality({z \in S : <<z, y>> \in before}) =
                     Cardinality(Preceding(y, S, before))
    BY DEF Preceding
  <2>3. \A y \in S : Cardinality(Preceding(y, S, before)) \in Nat
    <3> TAKE y \in S
    <3>1. Preceding(y, S, before) \in SUBSET S
      BY DEF Preceding
    <3> QED  BY <3>1, FS_Subset, FS_CardinalityType
  <2>4. \A y \in S : RankIn(y, S, before) = k <=>
                     Cardinality({z \in S : <<z, y>> \in before}) = k - 1
    <3> TAKE y \in S
    <3> DEFINE c == Cardinality(Preceding(y, S, before))
               d == Cardinality({z \in S : <<z, y>> \in before})
    <3>1. c \in Nat /\ d = c /\ RankIn(y, S, before) = c + 1
      BY <2>2, <2>3 DEF RankIn
    <3>2. k \in Nat
      BY <1>1
    <3> HIDE DEF c, d
    <3>3. RankIn(y, S, before) = k <=> d = k - 1
      BY <3>1, <3>2
    <3> QED  BY <3>3 DEF d
  <2>5. list[k] = CHOOSE y \in S : Cardinality({z \in S : <<z, y>> \in before}) = k - 1
    BY DEF InOrder
  <2> QED  BY <2>1, <2>4, <2>5
<1>3. list = [k \in 1..n |-> list[k]]
  <2> DEFINE at(k) ==
        CHOOSE x \in S : Cardinality({y \in S : <<y, x>> \in before}) = k - 1
  <2>1. list = [k \in 1..n |-> at(k)]
    BY DEF InOrder
  <2> HIDE DEF at, n
  <2> QED  BY <2>1
<1>4. list \in [1..n -> S]
  BY <1>2, <1>3
<1>5. ASSUME NEW x \in S PROVE \E k \in 1..n : list[k] = x
  <2>1. RankIn(x, S, before) \in 1..n
    BY RankGrows
  <2>2. PICK k \in 1..n : k = RankIn(x, S, before)
    BY <2>1
  <2>3. list[k] \in S /\ RankIn(list[k], S, before) = k
    BY <1>2
  <2>4. ~(<<list[k], x>> \in before) /\ ~(<<x, list[k]>> \in before)
    <3>1. /\ <<list[k], x>> \in before => RankIn(list[k], S, before) < RankIn(x, S, before)
          /\ <<x, list[k]>> \in before => RankIn(x, S, before) < RankIn(list[k], S, before)
      BY <2>3, RankGrows
    <3> QED  BY <2>2, <2>3, <3>1
  <2>5. list[k] = x
    BY <2>3, <2>4 DEF Orders
  <2> QED  BY <2>5
<1>6. ASSUME NEW i \in 1..n, NEW j \in 1..n, i < j
      PROVE  <<list[i], list[j]>> \in before
  <2>1. /\ list[i] \in S /\ RankIn(list[i], S, before) = i
        /\ list[j] \in S /\ RankIn(list[j], S, before) = j
    BY <1>2
  <2>2. list[i] # list[j]
    BY <1>6, <2>1
  <2>3. ~(<<list[j], list[i]>> \in before)
    <3>1. <<list[j], list[i]>> \in before => j < i
      BY <2>1, RankGrows
    <3> QED  BY <1>6, <3>1
  <2> QED  BY <2>1, <2>2, <2>3 DEF Orders
<1> QED  BY <1>1, <1>4, <1>5, <1>6

LEMMA FunctionIsSeq ==
  ASSUME NEW K, NEW n \in Nat, NEW f \in [1..n -> K]
  PROVE  f \in Seq(K) /\ Len(f) = n
<1>1. f \in Seq(K)
  BY SeqDef
<1>2. Len(f) \in Nat /\ 1..Len(f) = 1..n
  BY <1>1, LenProperties
<1> QED  BY <1>1, <1>2

LEMMA MembersOfSeq ==
  ASSUME NEW K, NEW s \in Seq(K)
  PROVE  /\ Len(s) \in Nat /\ DOMAIN s = 1..Len(s)
         /\ ToSet(s) = {s[i] : i \in 1..Len(s)} /\ ToSet(s) \subseteq K
BY DEF ToSet

LEMMA WithoutDrops ==
  ASSUME NEW K, NEW more \in Seq(K), NEW seen
  PROVE  /\ Without(more, seen) \in Seq(K)
         /\ ToSet(Without(more, seen)) = ToSet(more) \ seen
<1> DEFINE kept == {i \in DOMAIN more : more[i] \notin seen}
           before == {p \in kept \X kept : p[1] < p[2]}
           order == InOrder(kept, before)
           n == Cardinality(kept)
           rest == [k \in DOMAIN order |-> more[order[k]]]
<1>1. Len(more) \in Nat /\ DOMAIN more = 1..Len(more) /\ ToSet(more) = {more[i] : i \in 1..Len(more)}
  BY MembersOfSeq
<1>2. kept \in SUBSET (1..Len(more)) /\ IsFiniteSet(kept)
  <2>1. kept \in SUBSET (1..Len(more))
    BY <1>1
  <2>2. IsFiniteSet(1..Len(more))
    BY <1>1, FS_Interval
  <2> HIDE DEF kept
  <2> QED  BY <2>1, <2>2, FS_Subset
<1>3. Orders(before, kept)
  <2>1. \A i, j \in kept : <<i, j>> \in before <=> i < j
    OBVIOUS
  <2>2. \A i \in kept : i \in Nat
    BY <1>1, <1>2
  <2> HIDE DEF before, kept
  <2> QED  BY <2>1, <2>2 DEF Orders
<1>4. /\ n \in Nat /\ order \in [1..n -> kept]
      /\ \A i \in kept : \E k \in 1..n : order[k] = i
  <2> HIDE DEF before, kept
  <2> QED  BY <1>2, <1>3, ListsInOrder
<1>5. Without(more, seen) = rest
  BY DEF Without
<1>6. rest \in [1..n -> K] /\ \A k \in 1..n : rest[k] = more[order[k]]
  <2>1. \A i \in kept : more[i] \in K
    BY <1>1
  <2> HIDE DEF kept, order, n
  <2> QED  BY <1>4, <2>1
<1>7. Without(more, seen) \in Seq(K) /\ Len(Without(more, seen)) = n
  <2> HIDE DEF rest, n
  <2> QED  BY <1>4, <1>5, <1>6, FunctionIsSeq
<1>8. ToSet(Without(more, seen)) = {rest[k] : k \in 1..n}
  <2> HIDE DEF rest, n
  <2> QED  BY <1>5, <1>7, MembersOfSeq
<1>9. ASSUME NEW x PROVE x \in {rest[k] : k \in 1..n} <=> x \in ToSet(more) \ seen
  <2>1. \A i \in 1..Len(more) : i \in kept <=> more[i] \notin seen
    BY <1>1
  <2> HIDE DEF rest, n, kept, order
  <2>2. ASSUME NEW k \in 1..n PROVE rest[k] \in ToSet(more) \ seen
    BY <1>1, <1>2, <1>4, <1>6, <2>1
  <2>3. ASSUME NEW i \in 1..Len(more), more[i] \notin seen
        PROVE  \E k \in 1..n : rest[k] = more[i]
    BY <1>4, <1>6, <2>1, <2>3
  <2> QED  BY <1>1, <2>2, <2>3
<1> HIDE DEF rest, n
<1> QED  BY <1>7, <1>8, <1>9

LEMMA JoinedMembers ==
  ASSUME NEW K, NEW s \in Seq(K), NEW t \in Seq(K)
  PROVE  s \o t \in Seq(K) /\ ToSet(s \o t) = ToSet(s) \cup ToSet(t)
<1> DEFINE st == s \o t
<1>1. /\ st \in Seq(K) /\ Len(st) = Len(s) + Len(t)
      /\ Len(s) \in Nat /\ Len(t) \in Nat
      /\ \A i \in 1..Len(st) : st[i] = IF i <= Len(s) THEN s[i] ELSE t[i - Len(s)]
  OBVIOUS
<1>2. /\ ToSet(s) = {s[i] : i \in 1..Len(s)} /\ ToSet(t) = {t[i] : i \in 1..Len(t)}
      /\ ToSet(st) = {st[i] : i \in 1..Len(st)}
  BY <1>1, MembersOfSeq
<1> HIDE DEF st
<1>3. ASSUME NEW i \in 1..Len(st) PROVE st[i] \in ToSet(s) \cup ToSet(t)
  <2>1. CASE i <= Len(s)
    BY <1>1, <1>2, <2>1
  <2>2. CASE ~(i <= Len(s))
    <3>1. i - Len(s) \in 1..Len(t)
      BY <1>1, <2>2
    <3> QED  BY <1>1, <1>2, <2>2, <3>1
  <2> QED  BY <2>1, <2>2
<1>4. ASSUME NEW i \in 1..Len(s) PROVE s[i] \in ToSet(st)
  <2>1. i \in 1..Len(st) /\ i <= Len(s)
    BY <1>1
  <2> QED  BY <1>1, <1>2, <2>1
<1>5. ASSUME NEW i \in 1..Len(t) PROVE t[i] \in ToSet(st)
  <2>1. Len(s) + i \in 1..Len(st) /\ ~(Len(s) + i <= Len(s)) /\ Len(s) + i - Len(s) = i
    BY <1>1
  <2>2. st[Len(s) + i] = t[i]
    BY <1>1, <2>1
  <2> QED  BY <1>2, <2>1, <2>2
<1>6. ToSet(st) = ToSet(s) \cup ToSet(t)
  BY <1>2, <1>3, <1>4, <1>5
<1> QED  BY <1>1, <1>6 DEF st

(* uniqueBy of two lists of messages has the messages of both.               *)
LEMMA ThenJoins ==
  ASSUME NEW K, NEW items \in Seq(K), NEW more \in Seq(K)
  PROVE  /\ Then(items, more) \in Seq(K)
         /\ ToSet(Then(items, more)) = ToSet(items) \cup ToSet(more)
<1> DEFINE rest == Without(more, ToSet(items))
<1>1. rest \in Seq(K) /\ ToSet(rest) = ToSet(more) \ ToSet(items)
  BY WithoutDrops
<1> HIDE DEF rest
<1>2. Then(items, more) = items \o rest
  BY DEF Then, rest
<1>3. /\ items \o rest \in Seq(K)
      /\ ToSet(items \o rest) = ToSet(items) \cup ToSet(rest)
  BY <1>1, JoinedMembers
<1> QED  BY <1>1, <1>2, <1>3

-----------------------------------------------------------------------------
(* The messages and their order in the thread. A message is over another if  *)
(* the walk shows it first.                                                  *)
Known == 1..Len(stamps)
Over(c, m) == Below(Place(m), Place(c))
Stored ==
  /\ stamps \in Seq(1..LastAt) /\ erasedTo \in 0..Len(stamps)

LEMMA KnownHavePlaces ==
  ASSUME Stored
  PROVE  /\ Len(stamps) \in Nat /\ Rows \subseteq Known /\ IsFiniteSet(Rows)
         /\ \A m \in Known :
              /\ m \in Nat /\ stamps[m] \in 1..LastAt /\ stamps[m] \in Nat \ {0}
              /\ Place(m) = [at |-> stamps[m], seq |-> m]
              /\ Place(m) # AtEnd /\ Below(AtEnd, Place(m))
<1>1. Len(stamps) \in Nat /\ erasedTo \in Nat /\ LastAt \in Nat
  BY ThreadViewAssumption DEF Stored, ThreadViewAssumption
<1>2. Rows \subseteq Known
  BY <1>1 DEF Rows, Known, Stored
<1>3. IsFiniteSet(Rows)
  BY <1>1, FS_Interval DEF Rows
<1>4. ASSUME NEW m \in Known
      PROVE  /\ m \in Nat /\ stamps[m] \in 1..LastAt /\ stamps[m] \in Nat \ {0}
             /\ Place(m) = [at |-> stamps[m], seq |-> m]
             /\ Place(m) # AtEnd /\ Below(AtEnd, Place(m))
  <2>1. m \in Nat /\ stamps[m] \in 1..LastAt /\ stamps[m] \in Nat \ {0}
    BY <1>1 DEF Known, Stored
  <2>2. Place(m).at = stamps[m] /\ AtEnd.at = 0
    BY DEF Place, AtEnd
  <2> QED  BY <2>1, <2>2 DEF Place, Below
<1> QED  BY <1>1, <1>2, <1>3, <1>4

LEMMA OverIsOrder ==
  ASSUME Stored
  PROVE  /\ \A a \in Known : ~Over(a, a)
         /\ \A a, b \in Known : a = b \/ Over(a, b) \/ Over(b, a)
         /\ \A a, b, c \in Known : Over(a, b) /\ Over(b, c) => Over(a, c)
<1>1. \A a \in Known : a \in Nat /\ stamps[a] \in Nat
  BY KnownHavePlaces
<1>2. \A a, b : Over(a, b) <=> stamps[b] < stamps[a] \/ (stamps[a] = stamps[b] /\ b < a)
  BY DEF Over, Below, Place
<1> QED  BY <1>1, <1>2

LEMMA BelowIsTransitive ==
  ASSUME Stored, NEW a \in Known, NEW b \in Known, Over(b, a),
         NEW after, after.at \in Nat, after.seq \in Nat, Below(Place(b), after)
  PROVE  Below(Place(a), after)
<1>1. a \in Nat /\ stamps[a] \in Nat /\ b \in Nat /\ stamps[b] \in Nat
  BY KnownHavePlaces
<1>2. stamps[a] < stamps[b] \/ (stamps[a] = stamps[b] /\ a < b)
  BY DEF Over, Below, Place
<1>3. stamps[b] < after.at \/ (stamps[b] = after.at /\ b < after.seq)
  BY DEF Below, Place
<1>4. stamps[a] < after.at \/ (stamps[a] = after.at /\ a < after.seq)
  BY <1>1, <1>2, <1>3
<1> QED  BY <1>4 DEF Below, Place

(* A set of messages sees a message that was stored before all of the set    *)
(* that is over it, if there is one. It is gapless down to a position if it  *)
(* has each row that it sees there.                                          *)
Sees(S, m) ==
  /\ \E c \in S : Over(c, m)
  /\ \A c \in S : Over(c, m) => m < c
Gapless(S, cursor) ==
  \A m \in Rows : Sees(S, m) /\ Below(cursor, Place(m)) => m \in S

(* The position is the lowest of the set, or below everything.               *)
EndsAt(S, cursor) ==
  \E l \in S : cursor = Place(l) /\ \A c \in S : c = l \/ Over(c, l)
Ends(S, cursor) == cursor = AtEnd \/ EndsAt(S, cursor)

(* What a page after a position has of the rows below it.                    *)
Follows(S, after, cursor) ==
  /\ \A c \in S : Below(Place(c), after)
  /\ \A m \in Rows :
       Below(Place(m), after) /\ Below(cursor, Place(m)) /\ m < after.seq => m \in S

LEMMA WithThePage ==
  ASSUME Stored, NEW S \in SUBSET Known, NEW T \in SUBSET Known,
         NEW q, NEW p, Gapless(S, q), NEW l \in S, q = Place(l),
         Gapless(T, p), Follows(T, q, p)
  PROVE  Gapless(S \cup T, p)
<1> SUFFICES ASSUME NEW m \in Rows, Sees(S \cup T, m), Below(p, Place(m)),
                    m \notin S, m \notin T
             PROVE  FALSE
  BY DEF Gapless
<1>1. m \in Known /\ l \in Known
  BY KnownHavePlaces
<1>2. \A c \in S \cup T : Over(c, m) => m < c
  BY DEF Sees
<1>3. \A c \in T : ~Over(c, m)
  BY <1>2 DEF Gapless, Sees
<1>4. PICK c \in S : Over(c, m)
  BY <1>3 DEF Sees
<1>5. Sees(S, m)
  BY <1>2, <1>4 DEF Sees
<1>6. ~Below(q, Place(m))
  BY <1>5 DEF Gapless
<1>7. ~Over(m, l) /\ m # l
  BY <1>6 DEF Over
<1>8. Over(l, m)
  BY <1>1, <1>7, OverIsOrder
<1>9. m < l /\ Below(Place(m), q) /\ q.seq = l
  BY <1>2, <1>8 DEF Over, Place
<1> QED  BY <1>9 DEF Follows

LEMMA WithAnyPage ==
  ASSUME NEW S, NEW T, NEW p, Gapless(S, AtEnd), Gapless(T, p),
         Stored
  PROVE  Gapless(S \cup T, p)
<1> SUFFICES ASSUME NEW m \in Rows, Sees(S \cup T, m), Below(p, Place(m)),
                    m \notin S, m \notin T
             PROVE  FALSE
  BY DEF Gapless
<1>1. Below(AtEnd, Place(m))
  BY KnownHavePlaces
<1>2. Sees(S, m) \/ Sees(T, m)
  BY DEF Sees
<1> QED  BY <1>1, <1>2 DEF Gapless

LEMMA PageEndsLower ==
  ASSUME Stored, NEW S \in SUBSET Known, NEW T \in SUBSET Known,
         NEW q, NEW p, EndsAt(S, q), Ends(T, p), Follows(T, q, p)
  PROVE  Ends(S \cup T, p)
<1>1. CASE p = AtEnd
  BY <1>1 DEF Ends
<1>2. CASE EndsAt(T, p)
  <2>1. PICK l \in T : p = Place(l) /\ \A c \in T : c = l \/ Over(c, l)
    BY <1>2 DEF EndsAt
  <2>2. PICK k \in S : q = Place(k) /\ \A c \in S : c = k \/ Over(c, k)
    BY DEF EndsAt
  <2>3. Over(k, l)
    BY <2>2 DEF Follows, Over
  <2>4. \A c \in S : Over(c, l)
    BY <2>2, <2>3, OverIsOrder
  <2> QED  BY <2>1, <2>4 DEF Ends, EndsAt
<1> QED  BY <1>1, <1>2 DEF Ends

(* The pages above a message that is shown join what is shown.               *)
LEMMA AboveTheTop ==
  ASSUME Stored, NEW C \in SUBSET Known, NEW W \in SUBSET Known,
         NEW p, NEW q, Gapless(C, p), Ends(C, p), Gapless(W, q),
         NEW top \in C, top \in W,
         NEW X \in SUBSET C, \A c \in C : c \in X \/ c = top \/ Over(top, c)
  PROVE  Gapless(X \cup W, q)
<1> SUFFICES ASSUME NEW m \in Rows, Sees(X \cup W, m), Below(q, Place(m)),
                    m \notin X, m \notin W
             PROVE  FALSE
  BY DEF Gapless
<1>1. m \in Known
  BY KnownHavePlaces
<1>2. \A c \in X \cup W : Over(c, m) => m < c
  BY DEF Sees
<1>3. \A c \in W : ~Over(c, m)
  BY <1>2 DEF Gapless, Sees
<1>4. Over(m, top)
  BY <1>1, <1>3, OverIsOrder
<1>5. \A c \in C : Over(c, m) => c \in X
  BY <1>1, <1>4, OverIsOrder
<1>6. Sees(C, m)
  BY <1>2, <1>3, <1>5 DEF Sees
<1>7. Below(p, Place(m))
  <2>1. CASE p = AtEnd
    BY <1>1, <2>1, KnownHavePlaces
  <2>2. CASE EndsAt(C, p)
    <3>1. PICK l \in C : p = Place(l) /\ \A c \in C : c = l \/ Over(c, l)
      BY <2>2 DEF EndsAt
    <3>2. Over(m, l)
      BY <1>1, <1>4, <3>1, OverIsOrder
    <3> QED  BY <3>1, <3>2 DEF Over
  <2> QED  BY <2>1, <2>2 DEF Ends
<1>8. m \in C
  BY <1>6, <1>7 DEF Gapless
<1>9. Over(top, m) \/ m = top
  BY <1>8
<1> QED  BY <1>1, <1>4, <1>9, OverIsOrder

(* A page has its messages in walk order, ends at its cursor and has no gap. *)
IsPage(page) ==
  /\ page.items \in Seq(Known)
  /\ \A i, j \in 1..Len(page.items) : i < j => Over(page.items[i], page.items[j])
  /\ Ends(ToSet(page.items), page.cursor)
  /\ Gapless(ToSet(page.items), page.cursor)

LEMMA EmptyIsPage == ASSUME Stored PROVE IsPage(NoPage)
<1>1. NoPage.items = <<>> /\ NoPage.cursor = AtEnd
  BY DEF NoPage
<1>2. <<>> \in Seq(Known) /\ Len(<<>>) = 0 /\ ToSet(<<>>) = {}
  BY DEF ToSet
<1> QED  BY <1>1, <1>2 DEF IsPage, Ends, Gapless, Sees

(* The gateway's answer, for the rows it has at that moment.                 *)
LEMMA PageIsRead ==
  ASSUME Stored, NEW after, after.at \in Nat, after.seq \in Nat,
         NEW page, page = PageAfter(after)
  PROVE  IsPage(page) /\ Follows(ToSet(page.items), after, page.cursor)
<1> DEFINE S == {m \in Rows : Below(Place(m), after)}
           before == {p \in S \X S : Below(Place(p[2]), Place(p[1]))}
           n == Cardinality(S)
           list == RowsAfter(after)
<1>1. S \subseteq Known /\ IsFiniteSet(S)
  <2>1. S \in SUBSET Rows
    OBVIOUS
  <2> QED  BY <2>1, KnownHavePlaces, FS_Subset
<1>2. \A x, y \in S : <<x, y>> \in before <=> Over(x, y)
  BY DEF Over
<1>3. Orders(before, S)
  <2> HIDE DEF before, S
  <2> QED  BY <1>1, <1>2, OverIsOrder DEF Orders
<1>4. /\ n \in Nat /\ list \in [1..n -> S]
      /\ \A x \in S : \E k \in 1..n : list[k] = x
      /\ \A i, j \in 1..n : i < j => Over(list[i], list[j])
  <2>1. list = InOrder(S, before)
    BY DEF RowsAfter
  <2> HIDE DEF before, S, list
  <2>2. /\ n \in Nat /\ list \in [1..n -> S]
        /\ \A x \in S : \E k \in 1..n : list[k] = x
        /\ \A i, j \in 1..n : i < j => <<list[i], list[j]>> \in before
    BY <1>1, <1>3, <2>1, ListsInOrder
  <2> QED  BY <1>2, <2>2
<1>5. \A m : m \in S <=> m \in Rows /\ Below(Place(m), after)
  OBVIOUS
<1> HIDE DEF S, before, n
<1>6. list \in Seq(S) /\ Len(list) = n /\ list \in Seq(Known)
  <2>1. list \in [1..n -> Known]
    BY <1>1, <1>4
  <2> QED  BY <1>4, <2>1, FunctionIsSeq
<1>7. PageLimit \in Nat \ {0}
  BY ThreadViewAssumption DEF ThreadViewAssumption
<1>8. /\ page.items = IF n > PageLimit THEN SubSeq(list, 1, PageLimit) ELSE list
      /\ page.cursor = IF n > PageLimit THEN Place(list[PageLimit]) ELSE AtEnd
  BY <1>6 DEF PageAfter, Cursor
<1> HIDE DEF list
<1>9. PICK size \in 0..n :
        /\ page.items \in Seq(Known) /\ Len(page.items) = size
        /\ \A i \in 1..size : page.items[i] = list[i]
        /\ n > PageLimit => size = PageLimit
        /\ ~(n > PageLimit) => size = n
  <2>1. CASE n > PageLimit
    <3>1. SubSeq(list, 1, PageLimit) \in Seq(Known)
          /\ Len(SubSeq(list, 1, PageLimit)) = PageLimit
          /\ \A i \in 1..PageLimit : SubSeq(list, 1, PageLimit)[i] = list[i]
      BY <1>4, <1>6, <1>7, <2>1, SubSeqProperties
    <3> QED  BY <1>4, <1>7, <1>8, <2>1, <3>1
  <2>2. CASE ~(n > PageLimit)
    BY <1>4, <1>6, <1>8, <2>2
  <2> QED  BY <2>1, <2>2
<1>10. /\ ToSet(page.items) = {page.items[i] : i \in 1..size}
       /\ \A i \in 1..size : i \in 1..n /\ page.items[i] = list[i]
       /\ \A i \in 1..size : page.items[i] \in ToSet(page.items)
  BY <1>4, <1>9, MembersOfSeq
<1>11. \A i, j \in 1..Len(page.items) : i < j => Over(page.items[i], page.items[j])
  BY <1>4, <1>9, <1>10
<1>12. Ends(ToSet(page.items), page.cursor)
  <2>1. CASE n > PageLimit
    <3>1. PageLimit \in 1..size /\ size = PageLimit /\ page.cursor = Place(list[PageLimit])
      BY <1>7, <1>8, <1>9, <2>1
    <3>2. ASSUME NEW c \in ToSet(page.items)
          PROVE  c = list[PageLimit] \/ Over(c, list[PageLimit])
      <4>1. PICK i \in 1..size : c = list[i]
        BY <1>10
      <4>2. i = PageLimit \/ i < PageLimit
        BY <1>7, <3>1
      <4> QED  BY <1>4, <1>10, <3>1, <4>1, <4>2
    <3> QED  BY <1>10, <3>1, <3>2 DEF Ends, EndsAt
  <2>2. CASE ~(n > PageLimit)
    BY <1>8, <2>2 DEF Ends
  <2> QED  BY <2>1, <2>2
<1>13. ASSUME NEW m \in Rows, Below(Place(m), after), Below(page.cursor, Place(m))
       PROVE  m \in ToSet(page.items)
  <2>1. PICK k \in 1..n : list[k] = m
    BY <1>4, <1>5, <1>13
  <2>2. CASE n > PageLimit
    <3>1. PageLimit \in 1..n /\ size = PageLimit /\ Over(m, list[PageLimit])
      BY <1>4, <1>7, <1>8, <1>9, <1>13, <2>2 DEF Over
    <3>2. m \in Known /\ list[PageLimit] \in Known
      BY <1>1, <1>4, <2>1, <3>1
    <3>3. ~(PageLimit < k) /\ k # PageLimit
      BY <1>4, <2>1, <3>1, <3>2, OverIsOrder
    <3>4. k \in 1..size
      BY <1>4, <1>7, <3>1, <3>3
    <3> QED  BY <1>10, <2>1, <3>4
  <2>3. CASE ~(n > PageLimit)
    BY <1>9, <1>10, <2>1, <2>3
  <2> QED  BY <2>2, <2>3
<1>14. \A c \in ToSet(page.items) : c \in S
  BY <1>4, <1>10
<1>15. Follows(ToSet(page.items), after, page.cursor)
  BY <1>5, <1>13, <1>14 DEF Follows
<1>16. Gapless(ToSet(page.items), page.cursor)
  <2> SUFFICES ASSUME NEW m \in Rows, Sees(ToSet(page.items), m),
                      Below(page.cursor, Place(m))
               PROVE  m \in ToSet(page.items)
    BY DEF Gapless
  <2>1. PICK c \in ToSet(page.items) : Over(c, m)
    BY DEF Sees
  <2>2. m \in Known /\ c \in Known /\ Below(Place(c), after)
    BY <1>1, <1>5, <1>14, KnownHavePlaces
  <2>3. Below(Place(m), after)
    BY <2>1, <2>2, BelowIsTransitive
  <2> QED  BY <1>13, <2>3
<1> QED  BY <1>9, <1>11, <1>12, <1>15, <1>16 DEF IsPage

(* What a message that arrives, or an erasure, does to what was read before. *)
RowsMove ==
  /\ Stored /\ Stored' /\ Len(stamps) <= Len(stamps')
  /\ \A m \in Known : stamps'[m] = stamps[m]
  /\ \A m \in Rows' : m \in Rows \/ m > Len(stamps)

LEMMA RowsMoveKeeps ==
  ASSUME RowsMove
  PROVE  /\ Known \subseteq Known'
         /\ \A m \in Known : Place(m)' = Place(m)
         /\ \A a, b \in Known : Over(a, b)' <=> Over(a, b)
         /\ \A m \in Rows' : m \in Nat
<1>1. Len(stamps) \in Nat /\ Len(stamps') \in Nat /\ erasedTo' \in Nat
  BY DEF RowsMove, Stored
<1>2. Known \subseteq Known'
  BY <1>1 DEF RowsMove, Known
<1>3. \A m \in Known : Place(m)' = Place(m)
  BY DEF RowsMove, Place
<1>4. \A a, b \in Known : Over(a, b)' <=> Over(a, b)
  BY <1>3 DEF Over, Below
<1>5. \A m \in Rows' : m \in Nat
  <2>1. Rows' = (erasedTo' + 1)..Len(stamps')
    BY DEF Rows
  <2>2. \A a, b : a \in Nat => \A m \in (a + 1)..b : m \in Nat
    OBVIOUS
  <2> QED  BY <1>1, <2>1, <2>2
<1> QED  BY <1>2, <1>3, <1>4, <1>5

LEMMA GaplessStays ==
  ASSUME RowsMove, NEW S \in SUBSET Known, NEW q, Gapless(S, q)
  PROVE  Gapless(S, q)'
<1> SUFFICES ASSUME NEW m \in Rows', Sees(S, m)', Below(q, Place(m))'
             PROVE  m \in S
  BY DEF Gapless
<1>1. PICK c \in S : Over(c, m)' /\ m < c
  BY DEF Sees
<1>2. m \in Rows
  <2>1. c \in 1..Len(stamps) /\ Len(stamps) \in Nat
    BY KnownHavePlaces DEF Known, RowsMove
  <2>2. m \in Rows \/ m > Len(stamps)
    BY DEF RowsMove
  <2>3. m \in Nat
    BY RowsMoveKeeps
  <2> QED  BY <1>1, <2>1, <2>2, <2>3
<1>3. m \in Known
  BY <1>2, KnownHavePlaces DEF RowsMove
<1>4. Sees(S, m) /\ Place(m)' = Place(m)
  BY <1>3, RowsMoveKeeps DEF Sees
<1>5. Below(q, Place(m))
  BY <1>4 DEF Below
<1> QED  BY <1>2, <1>4, <1>5 DEF Gapless

LEMMA EndsStays ==
  ASSUME RowsMove, NEW S \in SUBSET Known, NEW q
  PROVE  /\ EndsAt(S, q) => EndsAt(S, q)'
         /\ Ends(S, q) => Ends(S, q)'
<1>1. EndsAt(S, q) => EndsAt(S, q)'
  <2> SUFFICES ASSUME EndsAt(S, q) PROVE EndsAt(S, q)'
    OBVIOUS
  <2>1. PICK l \in S : q = Place(l) /\ \A c \in S : c = l \/ Over(c, l)
    BY DEF EndsAt
  <2>2. Place(l)' = Place(l) /\ \A c \in S : Over(c, l)' <=> Over(c, l)
    BY RowsMoveKeeps
  <2> QED  BY <2>1, <2>2 DEF EndsAt
<1> QED  BY <1>1 DEF Ends, AtEnd

LEMMA FollowsStays ==
  ASSUME RowsMove, NEW S \in SUBSET Known, NEW q, NEW p,
         q.seq \in Known, Follows(S, q, p)
  PROVE  Follows(S, q, p)'
<1>1. ASSUME NEW c \in S PROVE Below(Place(c), q)'
  <2>1. Place(c)' = Place(c) /\ Below(Place(c), q)
    BY <1>1, RowsMoveKeeps DEF Follows
  <2> QED  BY <2>1 DEF Below
<1>2. ASSUME NEW m \in Rows', Below(Place(m), q)', Below(p, Place(m))', m < q.seq
      PROVE  m \in S
  <2>1. m \in Rows
    <3>1. q.seq \in 1..Len(stamps) /\ Len(stamps) \in Nat
      BY KnownHavePlaces DEF Known, RowsMove
    <3>2. m \in Rows \/ m > Len(stamps)
      BY <1>2 DEF RowsMove
    <3>3. m \in Nat
      BY <1>2, RowsMoveKeeps
    <3> QED  BY <1>2, <3>1, <3>2, <3>3
  <2>2. m \in Known
    BY <2>1, KnownHavePlaces DEF RowsMove
  <2>3. Place(m)' = Place(m)
    BY <2>2, RowsMoveKeeps
  <2>4. Below(Place(m), q) /\ Below(p, Place(m))
    BY <1>2, <2>3 DEF Below
  <2> QED  BY <1>2, <2>1, <2>4 DEF Follows
<1> QED  BY <1>1, <1>2 DEF Follows

LEMMA PageStays ==
  ASSUME RowsMove, NEW page, IsPage(page)
  PROVE  IsPage(page)'
<1>1. page.items \in Seq(Known) /\ ToSet(page.items) \in SUBSET Known
  BY MembersOfSeq DEF IsPage
<1>2. page.items \in Seq(Known)'
  BY <1>1, RowsMoveKeeps
<1>3. \A i \in 1..Len(page.items) : page.items[i] \in Known
  BY <1>1
<1>4. \A i, j \in 1..Len(page.items) :
        i < j => Over(page.items[i], page.items[j])'
  BY <1>3, RowsMoveKeeps DEF IsPage
<1>5. Ends(ToSet(page.items), page.cursor)' /\ Gapless(ToSet(page.items), page.cursor)'
  BY <1>1, EndsStays, GaplessStays DEF IsPage
<1> QED  BY <1>2, <1>4, <1>5 DEF IsPage

-----------------------------------------------------------------------------
(* The invariant. Every page that is held is a page the gateway could have   *)
(* answered. What is shown has no gap down to its cursor. A load in flight   *)
(* is for the place the walk ends at, unless the walk was replaced, or goes  *)
(* on from the end. The pages of a bridge chain down from the fresh page.    *)
WalkHas(w, astray) ==
  /\ w.items \in Seq(Known)
  /\ w.cursor = AtEnd \/ \E l \in Shown(w) : w.cursor = Place(l)
  /\ ~astray => Gapless(Shown(w), w.cursor)
OlderHas(load, w, astray) ==
  /\ DOMAIN load = {"pc", "cursor", "page"}
  /\ load.pc # "idle" =>
       /\ \E l \in Known : load.cursor = Place(l)
       /\ ~astray => w.cursor \in {load.cursor, AtEnd}
  /\ load.pc = "answered" =>
       /\ IsPage(load.page)
       /\ Follows(ToSet(load.page.items), load.cursor, load.page.cursor)
Bridged(gap) == ToSet(gap.fresh.items) \cup ToSet(gap.items)
BridgeHas(gap, w) ==
  /\ DOMAIN gap = {"pc", "fresh", "top", "items", "cursor", "page"}
  /\ gap.pc # "idle" =>
       /\ gap.top \in Shown(w) /\ IsPage(gap.fresh) /\ gap.items \in Seq(Known)
       /\ Gapless(Bridged(gap), gap.cursor) /\ EndsAt(Bridged(gap), gap.cursor)
  /\ gap.pc = "answered" =>
       /\ IsPage(gap.page)
       /\ Follows(ToSet(gap.page.items), gap.cursor, gap.page.cursor)
PaneHas(w, load, gap, astray) ==
  WalkHas(w, astray) /\ OlderHas(load, w, astray) /\ BridgeHas(gap, w)
PagesHeld ==
  /\ \A r \in DOMAIN reads : IsPage(reads[r].page)
  /\ IsPage(done.page) /\ IsPage(result.page) /\ IsPage(good.page)
GapInv ==
  /\ Stored /\ ReadsInv /\ PagesHeld
  /\ PaneHas(walk, older, bridge, strayed)

LEMMA IdleHas ==
  ASSUME NEW w, NEW astray
  PROVE  OlderHas(NoOlder, w, astray) /\ BridgeHas(NoBridge, w)
BY DEF OlderHas, BridgeHas, NoOlder, NoBridge

LEMMA PageIsShown ==
  ASSUME NEW page, IsPage(page)
  PROVE  /\ WalkHas(page, FALSE) /\ WalkHas(page, TRUE)
         /\ ToSet(page.items) \in SUBSET Known
<1>1. ToSet(page.items) \in SUBSET Known
  BY MembersOfSeq DEF IsPage
<1>2. page.cursor = AtEnd \/ \E l \in ToSet(page.items) : page.cursor = Place(l)
  BY DEF IsPage, Ends, EndsAt
<1> QED  BY <1>1, <1>2 DEF IsPage, WalkHas, Shown

LEMMA ShownIsKnown ==
  ASSUME NEW w, NEW astray, WalkHas(w, astray)
  PROVE  /\ Shown(w) \in SUBSET Known
         /\ w.items # <<>> => Head(w.items) \in Shown(w)
         /\ w.items = <<>> => Shown(w) = {}
<1>1. /\ Len(w.items) \in Nat /\ Shown(w) = {w.items[i] : i \in 1..Len(w.items)}
      /\ Shown(w) \in SUBSET Known
  BY MembersOfSeq DEF WalkHas, Shown
<1>2. ASSUME w.items # <<>> PROVE Head(w.items) \in Shown(w)
  <2>1. w.items \in Seq(Known) /\ 1 \in 1..Len(w.items) /\ Head(w.items) = w.items[1]
    BY <1>1, <1>2 DEF WalkHas
  <2> QED  BY <1>1, <2>1
<1>3. w.items = <<>> => Shown(w) = {}
  BY <1>1
<1> QED  BY <1>1, <1>2, <1>3

(* With the same rows, all of this means the same.                           *)
LEMMA StoreStays ==
  ASSUME UNCHANGED storeVars
  PROVE  /\ Stored' <=> Stored
         /\ \A m : Place(m)' = Place(m)
         /\ Rows' = Rows /\ Known' = Known
         /\ \A page : IsPage(page)' <=> IsPage(page)
         /\ \A w, load, gap, astray :
              PaneHas(w, load, gap, astray)' <=> PaneHas(w, load, gap, astray)
<1>1. stamps' = stamps /\ erasedTo' = erasedTo
  BY DEF storeVars
<1>2. /\ Stored' <=> Stored
      /\ Rows' = Rows /\ Known' = Known
      /\ \A m : Place(m)' = Place(m)
  BY <1>1 DEF Stored, Rows, Known, Place
<1>3. \A a, b : Over(a, b)' <=> Over(a, b)
  BY <1>2 DEF Over, Below
<1>4. \A S, q : /\ Gapless(S, q)' <=> Gapless(S, q)
                /\ EndsAt(S, q)' <=> EndsAt(S, q)
                /\ Ends(S, q)' <=> Ends(S, q)
  BY <1>2, <1>3 DEF Gapless, Sees, EndsAt, Ends, Below, AtEnd
<1>5. \A S, q, p : Follows(S, q, p)' <=> Follows(S, q, p)
  BY <1>2 DEF Follows, Below
<1>6. \A page : IsPage(page)' <=> IsPage(page)
  BY <1>2, <1>3, <1>4 DEF IsPage
<1>7. \A w, astray : WalkHas(w, astray)' <=> WalkHas(w, astray)
  BY <1>2, <1>4 DEF WalkHas, AtEnd, Shown
<1>8. \A load, w, astray : OlderHas(load, w, astray)' <=> OlderHas(load, w, astray)
  BY <1>2, <1>5, <1>6 DEF OlderHas, AtEnd
<1>9. \A gap, w : BridgeHas(gap, w)' <=> BridgeHas(gap, w)
  BY <1>2, <1>4, <1>5, <1>6 DEF BridgeHas, Bridged, Shown
<1> QED  BY <1>2, <1>6, <1>7, <1>8, <1>9 DEF PaneHas

(* A row is stored, or all are erased.                                       *)
LEMMA PaneStays ==
  ASSUME RowsMove, NEW w, NEW load, NEW gap, NEW astray,
         PaneHas(w, load, gap, astray)
  PROVE  PaneHas(w, load, gap, astray)'
<1>1. \A m \in Known : m \in Known' /\ Place(m)' = Place(m)
  BY RowsMoveKeeps
<1>2. /\ w.items \in Seq(Known) /\ w.items \in Seq(Known')
      /\ Shown(w) \in SUBSET Known
  <2>1. WalkHas(w, astray)
    BY DEF PaneHas
  <2> QED  BY <2>1, <1>1, ShownIsKnown DEF WalkHas
<1>3. WalkHas(w, astray)'
  <2>1. WalkHas(w, astray)
    BY DEF PaneHas
  <2>2. w.cursor = AtEnd \/ \E l \in Shown(w) : w.cursor = Place(l)'
    BY <1>1, <1>2, <2>1 DEF WalkHas
  <2>3. ~astray => Gapless(Shown(w), w.cursor)'
    BY <1>2, <2>1, GaplessStays DEF WalkHas
  <2> QED  BY <1>2, <2>2, <2>3 DEF WalkHas, AtEnd, Shown
<1>4. OlderHas(load, w, astray)'
  <2>1. OlderHas(load, w, astray)
    BY DEF PaneHas
  <2>2. load.pc # "idle" => \E l \in Known' : load.cursor = Place(l)'
    BY <1>1, <2>1 DEF OlderHas
  <2>3. ASSUME load.pc = "answered"
        PROVE  /\ IsPage(load.page)'
               /\ Follows(ToSet(load.page.items), load.cursor, load.page.cursor)'
    <3>1. /\ IsPage(load.page) /\ load.cursor.seq \in Known
          /\ Follows(ToSet(load.page.items), load.cursor, load.page.cursor)
      BY <2>1, <2>3 DEF OlderHas, Place
    <3> QED  BY <3>1, PageIsShown, PageStays, FollowsStays
  <2> QED  BY <2>1, <2>2, <2>3 DEF OlderHas, AtEnd
<1>5. BridgeHas(gap, w)'
  <2>1. BridgeHas(gap, w)
    BY DEF PaneHas
  <2>2. ASSUME gap.pc # "idle"
        PROVE  /\ gap.top \in Shown(w) /\ IsPage(gap.fresh)'
               /\ gap.items \in Seq(Known')
               /\ Gapless(Bridged(gap), gap.cursor)'
               /\ EndsAt(Bridged(gap), gap.cursor)'
               /\ gap.cursor.seq \in Known
    <3>1. /\ gap.top \in Shown(w) /\ IsPage(gap.fresh)
          /\ gap.items \in Seq(Known)
          /\ Gapless(Bridged(gap), gap.cursor)
          /\ EndsAt(Bridged(gap), gap.cursor)
      BY <2>1, <2>2 DEF BridgeHas
    <3>2. Bridged(gap) \in SUBSET Known
      BY <3>1, PageIsShown, MembersOfSeq DEF Bridged
    <3>3. gap.cursor.seq \in Known
      BY <3>1, <3>2 DEF EndsAt, Place
    <3>4. gap.items \in Seq(Known')
      BY <1>1, <3>1
    <3> QED  BY <3>1, <3>2, <3>3, <3>4, PageStays, GaplessStays, EndsStays
  <2>3. ASSUME gap.pc = "answered"
        PROVE  /\ IsPage(gap.page)'
               /\ Follows(ToSet(gap.page.items), gap.cursor, gap.page.cursor)'
    <3>1. /\ IsPage(gap.page) /\ gap.cursor.seq \in Known
          /\ Follows(ToSet(gap.page.items), gap.cursor, gap.page.cursor)
      BY <2>1, <2>2, <2>3 DEF BridgeHas
    <3> QED  BY <3>1, PageIsShown, PageStays, FollowsStays
  <2> QED  BY <2>1, <2>2, <2>3 DEF BridgeHas, Bridged, Shown
<1> QED  BY <1>3, <1>4, <1>5 DEF PaneHas

LEMMA RowsMoveGap ==
  ASSUME GapInv, RowsMove, UNCHANGED <<reads, done, result, good, paneVars>>,
         ReadsInv'
  PROVE  GapInv'
<1>1. /\ reads' = reads /\ done' = done /\ result' = result /\ good' = good
      /\ walk' = walk /\ older' = older /\ bridge' = bridge /\ strayed' = strayed
  BY DEF paneVars
<1>2. PagesHeld'
  <2>1. \A page : IsPage(page) => IsPage(page)'
    BY PageStays
  <2> QED  BY <1>1, <2>1 DEF GapInv, PagesHeld
<1>3. \A w, load, gap, astray : PaneHas(w, load, gap, astray) => PaneHas(w, load, gap, astray)'
  BY PaneStays
<1>4. PaneHas(walk, older, bridge, strayed)'
  BY <1>1, <1>3 DEF GapInv
<1> QED  BY <1>2, <1>4 DEF GapInv, RowsMove

LEMMA StoresMoveRows ==
  ASSUME Stored, StoreMessage \/ EraseThread
  PROVE  RowsMove
<1>1. Len(stamps) \in Nat /\ erasedTo \in 0..Len(stamps) /\ stamps \in Seq(1..LastAt)
  BY DEF Stored
<1>2. CASE StoreMessage
  <2>1. PICK at \in 1..LastAt : stamps' = Append(stamps, at) /\ erasedTo' = erasedTo
    BY <1>2 DEF StoreMessage
  <2>2. /\ stamps' \in Seq(1..LastAt) /\ Len(stamps') = Len(stamps) + 1
        /\ \A m \in 1..Len(stamps) : stamps'[m] = stamps[m]
    BY <1>1, <2>1, AppendProperties
  <2>3. \A m \in Rows' : m \in Rows \/ m > Len(stamps)
    <3>1. Rows' = (erasedTo + 1)..(Len(stamps) + 1)
      BY <2>1, <2>2 DEF Rows
    <3>2. Rows = (erasedTo + 1)..Len(stamps) /\ erasedTo \in Nat
      BY <1>1 DEF Rows
    <3> QED  BY <1>1, <3>1, <3>2
  <2>4. Stored'
    BY <1>1, <2>1, <2>2 DEF Stored
  <2> QED  BY <1>1, <2>2, <2>3, <2>4 DEF RowsMove, Known
<1>3. CASE EraseThread
  <2>1. stamps' = stamps /\ erasedTo' = Len(stamps)
    BY <1>3 DEF EraseThread
  <2>2. Stored'
    BY <1>1, <2>1 DEF Stored
  <2>3. Rows' = {}
    <3>1. Rows' = (Len(stamps) + 1)..Len(stamps)
      BY <2>1 DEF Rows
    <3> QED  BY <1>1, <3>1
  <2> QED  BY <1>1, <2>1, <2>2, <2>3 DEF RowsMove, Known
<1> QED  BY <1>2, <1>3

-----------------------------------------------------------------------------
(* What the pane shows next.                                                 *)

(* A fresh page that has the old top joins what is shown.                    *)
LEMMA NewestJoins ==
  ASSUME Stored, NEW w, NEW astray, WalkHas(w, astray), w.items # <<>>,
         NEW fresh, IsPage(fresh), Head(w.items) \in ToSet(fresh.items)
  PROVE  /\ WalkHas(AbsorbNewest(w, fresh), astray)
         /\ AbsorbNewest(w, fresh).cursor = w.cursor
<1> DEFINE items == Then(fresh.items, w.items)
           C == ToSet(fresh.items)
           S == Shown(w)
           top == Head(w.items)
<1>1. /\ AbsorbNewest(w, fresh).items = items
      /\ AbsorbNewest(w, fresh).cursor = w.cursor
  BY DEF AbsorbNewest
<1>2. items \in Seq(Known) /\ ToSet(items) = C \cup S
  BY ThenJoins DEF WalkHas, IsPage, Shown
<1>3. C \in SUBSET Known /\ S \in SUBSET Known /\ top \in S /\ top \in C
  BY PageIsShown, ShownIsKnown
<1>4. Gapless(C, fresh.cursor) /\ Ends(C, fresh.cursor)
  BY DEF IsPage
<1>5. ~astray => Gapless(S, w.cursor)
  BY DEF WalkHas
<1> HIDE DEF items, C, S, top
<1>6. ~astray => Gapless(C \cup S, w.cursor)
  BY <1>3, <1>4, <1>5, AboveTheTop
<1>7. w.cursor = AtEnd \/ \E l \in S : w.cursor = Place(l)
  BY DEF WalkHas, S
<1> QED  BY <1>1, <1>2, <1>6, <1>7 DEF WalkHas, Shown

(* A new page, with a load and a bridge in flight or none.                   *)
LEMMA NewestKeeps ==
  ASSUME Stored, NEW fresh, IsPage(fresh),
         PaneHas(walk, older, bridge, strayed), TakeNewest(fresh)
  PROVE  PaneHas(walk', older', bridge', strayed')
<1> DEFINE missed == walk.items # <<>> /\ Head(walk.items) \notin ToSet(fresh.items)
           toRead == missed /\ fresh.cursor # AtEnd
           starts == [NoBridge EXCEPT !.pc = "asked", !.fresh = fresh,
                        !.top = Head(walk.items), !.cursor = fresh.cursor]
<1>1. /\ WalkHas(walk, strayed) /\ OlderHas(older, walk, strayed)
      /\ older' = older
      /\ strayed' = (strayed \/ (walk.items = <<>> /\ older.pc # "idle"))
  BY DEF PaneHas, TakeNewest
<1>2. CASE toRead
  <2>1. /\ walk' = walk /\ bridge' = starts /\ (strayed' <=> strayed)
    BY <1>1, <1>2 DEF TakeNewest
  <2>2. /\ DOMAIN starts = {"pc", "fresh", "top", "items", "cursor", "page"}
        /\ starts.pc = "asked" /\ starts.fresh = fresh /\ starts.items = <<>>
        /\ starts.top = Head(walk.items) /\ starts.cursor = fresh.cursor
    BY DEF NoBridge
  <2> HIDE DEF starts
  <2>3. Bridged(starts) = ToSet(fresh.items)
    <3>1. starts.fresh = fresh /\ starts.items = <<>> /\ ToSet(<<>>) = {}
      BY <2>2 DEF ToSet
    <3> QED  BY <3>1 DEF Bridged
  <2>4. /\ Gapless(Bridged(starts), starts.cursor)
        /\ EndsAt(Bridged(starts), starts.cursor)
    BY <1>2, <2>2, <2>3 DEF IsPage, Ends
  <2>5. Head(walk.items) \in Shown(walk)
    BY <1>1, <1>2, ShownIsKnown
  <2>6. BridgeHas(starts, walk)
    BY <2>2, <2>4, <2>5 DEF BridgeHas
  <2> QED  BY <1>1, <2>1, <2>6 DEF PaneHas, WalkHas, OlderHas
<1>3. CASE missed /\ ~toRead
  <2>1. /\ walk' = AbsorbBridged(walk, fresh, <<>>, FALSE)
        /\ bridge' = NoBridge /\ (strayed' <=> strayed)
    BY <1>1, <1>3 DEF TakeNewest
  <2>2. /\ walk'.items = Then(Then(fresh.items, <<>>), <<>>) \/
           walk'.items = Then(fresh.items, <<>>)
        /\ walk'.cursor = AtEnd
    BY <1>3, <2>1 DEF AbsorbBridged
  <2>3. walk'.items = Then(fresh.items, <<>>)
    BY <1>3, <2>1 DEF AbsorbBridged
  <2>4. walk'.items \in Seq(Known) /\ Shown(walk') = ToSet(fresh.items)
    <3>1. fresh.items \in Seq(Known) /\ <<>> \in Seq(Known) /\ ToSet(<<>>) = {}
      BY DEF IsPage, ToSet
    <3> DEFINE none == <<>>
    <3> HIDE DEF none
    <3>2. /\ Then(fresh.items, none) \in Seq(Known)
          /\ ToSet(Then(fresh.items, none)) = ToSet(fresh.items) \cup ToSet(none)
      BY <3>1, ThenJoins DEF none
    <3> QED  BY <2>3, <3>1, <3>2 DEF Shown, none
  <2>5. fresh.cursor = AtEnd
    BY <1>3
  <2>6. WalkHas(walk', strayed')
    BY <2>2, <2>4, <2>5 DEF WalkHas, IsPage
  <2>7. OlderHas(older', walk', strayed')
    BY <1>1, <2>1, <2>2 DEF OlderHas
  <2> QED  BY <2>1, <2>6, <2>7, IdleHas DEF PaneHas
<1>4. CASE ~missed /\ walk.items = <<>>
  <2>1. walk' = fresh /\ bridge' = NoBridge
    BY <1>4 DEF TakeNewest, AbsorbNewest
  <2>2. WalkHas(walk', strayed')
    BY <2>1, PageIsShown DEF WalkHas
  <2>3. strayed' \/ older'.pc = "idle"
    BY <1>1, <1>4
  <2>4. OlderHas(older', walk', strayed')
    BY <1>1, <2>3 DEF OlderHas
  <2> QED  BY <2>1, <2>2, <2>4, IdleHas DEF PaneHas
<1>5. CASE ~missed /\ walk.items # <<>>
  <2>1. walk' = AbsorbNewest(walk, fresh) /\ bridge' = NoBridge /\ (strayed' <=> strayed)
    BY <1>1, <1>5 DEF TakeNewest
  <2>2. WalkHas(walk', strayed) /\ walk'.cursor = walk.cursor
    BY <1>1, <1>5, <2>1, NewestJoins
  <2>3. WalkHas(walk', strayed')
    BY <2>1, <2>2 DEF WalkHas
  <2>4. OlderHas(older', walk', strayed')
    BY <1>1, <2>1, <2>2 DEF OlderHas
  <2> QED  BY <2>1, <2>3, <2>4, IdleHas DEF PaneHas
<1> QED  BY <1>2, <1>3, <1>4, <1>5

LEMMA PaneKeeps ==
  ASSUME Stored, NEW before, NEW after, IsPage(after.page),
         PaneHas(walk, older, bridge, strayed), PaneMoves(before, after)
  PROVE  PaneHas(walk', older', bridge', strayed')
<1>1. \/ Mounts(NoPage) \/ Mounts(after.page)
      \/ UNCHANGED paneVars \/ TakeNewest(after.page)
  BY DEF PaneMoves
<1>2. ASSUME NEW page, IsPage(page), Mounts(page)
      PROVE  PaneHas(walk', older', bridge', strayed')
  BY <1>2, PageIsShown, IdleHas DEF Mounts, PaneHas
<1>3. CASE UNCHANGED paneVars
  BY <1>3 DEF paneVars
<1> QED  BY <1>1, <1>2, <1>3, EmptyIsPage, NewestKeeps

(* "Load older" reads the page after the walk, and adds it.                  *)
LEMMA LoadKeeps ==
  ASSUME Stored, PaneHas(walk, older, bridge, strayed), LoadOlder
  PROVE  PaneHas(walk', older', bridge', strayed')
<1>1. /\ walk' = walk /\ bridge' = bridge /\ strayed' = strayed
      /\ older' = [NoOlder EXCEPT !.pc = "asked", !.cursor = walk.cursor]
      /\ walk.cursor # AtEnd
  BY DEF LoadOlder
<1>2. /\ DOMAIN older' = {"pc", "cursor", "page"}
      /\ older'.pc = "asked" /\ older'.cursor = walk.cursor
  BY <1>1 DEF NoOlder
<1>3. WalkHas(walk, strayed) /\ Shown(walk) \in SUBSET Known
  BY ShownIsKnown DEF PaneHas
<1>4. \E l \in Known : walk.cursor = Place(l)
  BY <1>1, <1>3 DEF WalkHas
<1>5. OlderHas(older', walk, strayed)
  BY <1>2, <1>4 DEF OlderHas
<1> QED  BY <1>1, <1>5 DEF PaneHas

LEMMA AfterIsPlace ==
  ASSUME Stored, NEW l \in Known, NEW after, after = Place(l),
         NEW page, page = PageAfter(after)
  PROVE  IsPage(page) /\ Follows(ToSet(page.items), after, page.cursor)
<1>1. after.at \in Nat /\ after.seq \in Nat
  BY KnownHavePlaces DEF Place
<1> QED  BY <1>1, PageIsRead

LEMMA AnswerOlderKeeps ==
  ASSUME Stored, PaneHas(walk, older, bridge, strayed), AnswerOlder
  PROVE  PaneHas(walk', older', bridge', strayed')
<1>1. /\ walk' = walk /\ bridge' = bridge /\ strayed' = strayed
      /\ OlderHas(older, walk, strayed) /\ older.pc = "asked"
  BY DEF AnswerOlder, PaneHas
<1>2. CASE older' = NoOlder
  BY <1>1, <1>2, IdleHas DEF PaneHas
<1>3. CASE older' = [older EXCEPT !.pc = "answered", !.page = PageAfter(older.cursor)]
  <2> DEFINE page == PageAfter(older.cursor)
  <2>1. IsPage(page) /\ Follows(ToSet(page.items), older.cursor, page.cursor)
    BY <1>1, AfterIsPlace DEF OlderHas
  <2> HIDE DEF page
  <2>2. /\ DOMAIN older' = {"pc", "cursor", "page"}
        /\ older'.pc = "answered" /\ older'.cursor = older.cursor /\ older'.page = page
    BY <1>1, <1>3 DEF OlderHas, page
  <2>3. OlderHas(older', walk, strayed)
    BY <1>1, <2>1, <2>2 DEF OlderHas
  <2> QED  BY <1>1, <2>3 DEF PaneHas
<1> QED  BY <1>2, <1>3 DEF AnswerOlder

LEMMA LandOlderKeeps ==
  ASSUME Stored, PaneHas(walk, older, bridge, strayed), LandOlder
  PROVE  PaneHas(walk', older', bridge', strayed')
<1> DEFINE page == older.page
           S == Shown(walk)
           T == ToSet(older.page.items)
<1>1. /\ walk' = AppendOlder(walk, page) /\ older' = NoOlder
      /\ bridge' = bridge /\ strayed' = strayed /\ older.pc = "answered"
  BY DEF LandOlder
<1>2. /\ WalkHas(walk, strayed) /\ OlderHas(older, walk, strayed) /\ BridgeHas(bridge, walk)
      /\ walk.items \in Seq(Known) /\ S \in SUBSET Known
  BY ShownIsKnown DEF PaneHas, WalkHas
<1>3. /\ IsPage(page) /\ Follows(T, older.cursor, page.cursor)
      /\ ~strayed => walk.cursor \in {older.cursor, AtEnd}
      /\ \E l \in Known : older.cursor = Place(l)
  BY <1>1, <1>2 DEF OlderHas
<1>4. /\ page.items \in Seq(Known) /\ T \in SUBSET Known
      /\ Gapless(T, page.cursor)
      /\ page.cursor = AtEnd \/ \E l \in T : page.cursor = Place(l)
  BY <1>3, PageIsShown DEF IsPage, Ends, EndsAt
<1>5. /\ walk'.items = Then(walk.items, page.items) /\ walk'.cursor = page.cursor
  BY <1>1 DEF AppendOlder
<1>6. walk'.items \in Seq(Known) /\ Shown(walk') = S \cup T
  <2>1. /\ Then(walk.items, page.items) \in Seq(Known)
        /\ ToSet(Then(walk.items, page.items)) = ToSet(walk.items) \cup ToSet(page.items)
    BY <1>2, <1>4, ThenJoins
  <2> QED  BY <1>5, <2>1 DEF Shown
<1> HIDE DEF S, T, page
<1>7. ASSUME ~strayed PROVE Gapless(S \cup T, page.cursor)
  <2>1. Gapless(S, walk.cursor)
    BY <1>2, <1>7 DEF WalkHas, S
  <2>2. CASE walk.cursor = AtEnd
    BY <1>4, <2>1, <2>2, WithAnyPage
  <2>3. CASE walk.cursor # AtEnd
    <3>1. walk.cursor = older.cursor
      BY <1>3, <1>7, <2>3
    <3>2. PICK l \in S : walk.cursor = Place(l)
      BY <1>2, <2>3 DEF WalkHas, S
    <3> QED  BY <1>2, <1>3, <1>4, <2>1, <3>1, <3>2, WithThePage
  <2> QED  BY <2>2, <2>3
<1>8. WalkHas(walk', strayed)
  BY <1>4, <1>5, <1>6, <1>7 DEF WalkHas
<1>9. BridgeHas(bridge, walk')
  BY <1>2, <1>6 DEF BridgeHas, S
<1> QED  BY <1>1, <1>8, <1>9, IdleHas DEF PaneHas

(* The bridge reads on, page by page, until it meets what is shown.          *)
LEMMA AnswerBridgeKeeps ==
  ASSUME Stored, PaneHas(walk, older, bridge, strayed), AnswerBridge
  PROVE  PaneHas(walk', older', bridge', strayed')
<1>1. /\ walk' = walk /\ older' = older /\ strayed' = strayed
      /\ BridgeHas(bridge, walk) /\ bridge.pc = "asked"
  BY DEF AnswerBridge, PaneHas
<1>2. CASE bridge' = NoBridge
  BY <1>1, <1>2, IdleHas DEF PaneHas
<1>3. CASE bridge' = [bridge EXCEPT !.pc = "answered", !.page = PageAfter(bridge.cursor)]
  <2> DEFINE page == PageAfter(bridge.cursor)
  <2>1. Bridged(bridge) \in SUBSET Known
    BY <1>1, PageIsShown, MembersOfSeq DEF Bridged, BridgeHas
  <2>2. \E l \in Known : bridge.cursor = Place(l)
    BY <1>1, <2>1 DEF BridgeHas, EndsAt
  <2>3. IsPage(page) /\ Follows(ToSet(page.items), bridge.cursor, page.cursor)
    BY <2>2, AfterIsPlace
  <2> HIDE DEF page
  <2>4. /\ DOMAIN bridge' = {"pc", "fresh", "top", "items", "cursor", "page"}
        /\ bridge'.pc = "answered" /\ bridge'.page = page
        /\ bridge'.fresh = bridge.fresh /\ bridge'.top = bridge.top
        /\ bridge'.items = bridge.items /\ bridge'.cursor = bridge.cursor
    BY <1>1, <1>3 DEF BridgeHas, page
  <2>5. Bridged(bridge') = Bridged(bridge)
    BY <2>4 DEF Bridged
  <2>6. BridgeHas(bridge', walk)
    BY <1>1, <2>3, <2>4, <2>5 DEF BridgeHas
  <2> QED  BY <1>1, <2>6 DEF PaneHas
<1> QED  BY <1>2, <1>3 DEF AnswerBridge

LEMMA AboveInPage ==
  ASSUME Stored, NEW page, IsPage(page), NEW top \in ToSet(page.items),
         NEW above, above = SubSeq(page.items, 1, PlaceIn(page.items, top) - 1)
  PROVE  /\ above \in Seq(Known) /\ ToSet(above) \subseteq ToSet(page.items)
         /\ \A c \in ToSet(page.items) : c \in ToSet(above) \/ c = top \/ Over(top, c)
<1> DEFINE items == page.items
           i == PlaceIn(items, top)
<1>1. /\ items \in Seq(Known) /\ Len(items) \in Nat /\ DOMAIN items = 1..Len(items)
      /\ ToSet(items) = {items[j] : j \in 1..Len(items)}
      /\ \A j, k \in 1..Len(items) : j < k => Over(items[j], items[k])
  BY MembersOfSeq DEF IsPage
<1>2. i \in 1..Len(items) /\ items[i] = top
  <2>1. \E j \in DOMAIN items : items[j] = top
    BY <1>1
  <2> QED  BY <1>1, <2>1 DEF PlaceIn
<1> HIDE DEF items, i
<1>3. /\ above \in Seq(Known) /\ Len(above) = i - 1
      /\ \A j \in 1..(i - 1) : above[j] = items[j]
  <2> DEFINE n == i - 1
             s == SubSeq(items, 1, n)
  <2>1. n \in Nat /\ 1 \in 1..(Len(items) + 1) /\ n \in (1 - 1)..Len(items)
    BY <1>1, <1>2
  <2>2. above = s
    BY DEF items, i
  <2> HIDE DEF n
  <2>3. /\ s \in Seq(Known) /\ Len(s) = n - 1 + 1
        /\ \A j \in 1..(n - 1 + 1) : s[j] = items[1 + j - 1]
    BY <1>1, <2>1, SubSeqProperties
  <2>4. n - 1 + 1 = n /\ \A j \in 1..n : 1 + j - 1 = j
    BY <2>1
  <2> HIDE DEF s
  <2>5. s \in Seq(Known) /\ Len(s) = n /\ \A j \in 1..n : s[j] = items[j]
    BY <2>3, <2>4
  <2> QED  BY <2>2, <2>5 DEF n
<1>4. ToSet(above) = {above[j] : j \in 1..(i - 1)}
  <2>0. above \in Seq(Known)
    BY <1>3
  <2>1. ToSet(above) = {above[j] : j \in 1..Len(above)}
    <3>1. \A s \in Seq(Known) : ToSet(s) = {s[j] : j \in 1..Len(s)}
      BY MembersOfSeq
    <3> QED  BY <2>0, <3>1, Zenon
  <2> QED  BY <1>3, <2>1
<1>5. \A j \in 1..(i - 1) : j \in 1..Len(items)
  BY <1>1, <1>2
<1>6. ToSet(above) \subseteq ToSet(items)
  BY <1>1, <1>3, <1>4, <1>5
<1>7. ASSUME NEW c \in ToSet(items) PROVE c \in ToSet(above) \/ c = top \/ Over(top, c)
  <2>1. PICK j \in 1..Len(items) : items[j] = c
    BY <1>1
  <2>2. CASE j < i
    <3>1. j \in 1..(i - 1)
      BY <1>1, <1>2, <2>2
    <3> QED  BY <1>3, <1>4, <2>1, <3>1
  <2>3. CASE i < j
    BY <1>1, <1>2, <2>1, <2>3
  <2>4. j < i \/ i < j \/ i = j
    BY <1>1, <1>2
  <2> QED  BY <1>2, <2>1, <2>2, <2>3, <2>4
<1> QED  BY <1>3, <1>6, <1>7 DEF items

LEMMA LandBridgeKeeps ==
  ASSUME Stored, PaneHas(walk, older, bridge, strayed), LandBridge
  PROVE  PaneHas(walk', older', bridge', strayed')
<1> DEFINE page == bridge.page
           found == bridge.top \in ToSet(page.items)
           above == IF found THEN SubSeq(page.items, 1, PlaceIn(page.items, bridge.top) - 1)
                    ELSE page.items
           between == bridge.items \o above
           B == Bridged(bridge)
           T == ToSet(page.items)
           C == B \cup T
           X == B \cup ToSet(above)
           S == Shown(walk)
<1>1. /\ bridge.pc = "answered" /\ older' = older /\ strayed' = strayed
      /\ WalkHas(walk, strayed) /\ OlderHas(older, walk, strayed) /\ BridgeHas(bridge, walk)
  BY DEF LandBridge, PaneHas
<1>2. /\ bridge.top \in S /\ S \in SUBSET Known /\ walk.items \in Seq(Known)
      /\ walk.items # <<>>
  BY <1>1, ShownIsKnown DEF BridgeHas, WalkHas
<1>3. /\ IsPage(bridge.fresh) /\ bridge.fresh.items \in Seq(Known)
      /\ bridge.items \in Seq(Known)
      /\ Gapless(B, bridge.cursor) /\ EndsAt(B, bridge.cursor)
  BY <1>1 DEF BridgeHas, IsPage
<1>4. B \in SUBSET Known
  BY <1>3, PageIsShown, MembersOfSeq DEF Bridged
<1>5. /\ IsPage(page) /\ T \in SUBSET Known /\ page.items \in Seq(Known)
      /\ Gapless(T, page.cursor) /\ Ends(T, page.cursor)
      /\ Follows(T, bridge.cursor, page.cursor)
  <2>1. IsPage(page) /\ Follows(T, bridge.cursor, page.cursor)
    BY <1>1 DEF BridgeHas
  <2> QED  BY <2>1, PageIsShown DEF IsPage
<1>6. /\ above \in Seq(Known) /\ ToSet(above) \subseteq T
      /\ found => \A c \in T : c \in ToSet(above) \/ c = bridge.top \/ Over(bridge.top, c)
      /\ ~found => above = page.items
  <2>1. CASE found
    BY <1>5, <2>1, AboveInPage
  <2>2. CASE ~found
    BY <1>5, <2>2
  <2> QED  BY <2>1, <2>2
<1>7. IF found \/ page.cursor = AtEnd
      THEN /\ walk' = AbsorbBridged(walk, bridge.fresh, between, found)
           /\ bridge' = NoBridge
      ELSE /\ bridge' = [bridge EXCEPT !.pc = "asked", !.items = between,
                           !.cursor = page.cursor, !.page = NoPage]
           /\ walk' = walk
  BY DEF LandBridge
<1>8. C \in SUBSET Known /\ X \in SUBSET C
  BY <1>4, <1>5, <1>6
<1>9. Gapless(C, page.cursor)
  <2>1. PICK l \in B : bridge.cursor = Place(l)
    BY <1>3 DEF EndsAt
  <2> HIDE DEF B, T, page
  <2> QED  BY <1>3, <1>4, <1>5, <2>1, WithThePage
<1>10. Ends(C, page.cursor)
  <2> HIDE DEF B, T, page
  <2> QED  BY <1>3, <1>4, <1>5, PageEndsLower
<1>11. /\ between \in Seq(Known) /\ ToSet(between) = ToSet(bridge.items) \cup ToSet(above)
  <2> HIDE DEF above
  <2> QED  BY <1>3, <1>6, JoinedMembers
<1> DEFINE joined == Then(bridge.fresh.items, between)
<1>12. joined \in Seq(Known) /\ ToSet(joined) = X
  <2> HIDE DEF between, above
  <2>1. /\ joined \in Seq(Known)
        /\ ToSet(joined) = ToSet(bridge.fresh.items) \cup ToSet(between)
    BY <1>3, <1>11, ThenJoins
  <2> QED  BY <1>11, <2>1 DEF Bridged
<1> HIDE DEF joined, between, above, found, page
<1>13. CASE found
  <2>1. /\ walk'.items = Then(joined, walk.items) /\ walk'.cursor = walk.cursor
        /\ bridge' = NoBridge
    BY <1>2, <1>7, <1>13 DEF AbsorbBridged, joined
  <2>2. walk'.items \in Seq(Known) /\ Shown(walk') = X \cup S
    <3>1. /\ Then(joined, walk.items) \in Seq(Known)
          /\ ToSet(Then(joined, walk.items)) = ToSet(joined) \cup ToSet(walk.items)
      BY <1>2, <1>12, ThenJoins
    <3> QED  BY <1>12, <2>1, <3>1 DEF Shown
  <2>3. bridge.top \in T
    BY <1>13 DEF found
  <2>4. \A c \in C : c \in X \/ c = bridge.top \/ Over(bridge.top, c)
    BY <1>6, <1>13
  <2> DEFINE top == bridge.top
  <2>5. ~strayed => Gapless(S, walk.cursor)
    BY <1>1 DEF WalkHas
  <2>6. top \in C /\ top \in S
    BY <1>2, <2>3
  <2>7. \A c \in C : c \in X \/ c = top \/ Over(top, c)
    BY <2>4
  <2>8. ~strayed => Gapless(X \cup S, walk.cursor)
    <3> HIDE DEF X, C, S, top
    <3> QED  BY <1>2, <1>8, <1>9, <1>10, <2>5, <2>6, <2>7, AboveTheTop
  <2>9. walk.cursor = AtEnd \/ \E l \in S : walk.cursor = Place(l)
    BY <1>1 DEF WalkHas
  <2>10. WalkHas(walk', strayed)
    BY <2>1, <2>2, <2>8, <2>9 DEF WalkHas
  <2>11. OlderHas(older, walk', strayed)
    BY <1>1, <2>1 DEF OlderHas
  <2> QED  BY <1>1, <2>1, <2>10, <2>11, IdleHas DEF PaneHas
<1>14. CASE ~found /\ page.cursor = AtEnd
  <2>1. /\ walk'.items = joined /\ walk'.cursor = AtEnd /\ bridge' = NoBridge
    BY <1>2, <1>7, <1>14 DEF AbsorbBridged, joined
  <2>2. X = C
    BY <1>6, <1>14
  <2>3. WalkHas(walk', strayed)
    <3>1. Gapless(Shown(walk'), walk'.cursor)
      <4>1. Shown(walk') = C /\ walk'.cursor = page.cursor
        BY <1>12, <1>14, <2>1, <2>2 DEF Shown
      <4> HIDE DEF C
      <4> QED  BY <1>9, <4>1
    <3> QED  BY <1>12, <2>1, <3>1 DEF WalkHas
  <2>4. OlderHas(older, walk', strayed)
    BY <1>1, <2>1 DEF OlderHas
  <2> QED  BY <1>1, <2>1, <2>3, <2>4, IdleHas DEF PaneHas
<1>15. CASE ~found /\ page.cursor # AtEnd
  <2>1. /\ walk' = walk
        /\ bridge' = [bridge EXCEPT !.pc = "asked", !.items = between,
                        !.cursor = page.cursor, !.page = NoPage]
    BY <1>7, <1>15
  <2>2. /\ DOMAIN bridge' = {"pc", "fresh", "top", "items", "cursor", "page"}
        /\ bridge'.pc = "asked" /\ bridge'.fresh = bridge.fresh
        /\ bridge'.top = bridge.top /\ bridge'.items = between
        /\ bridge'.cursor = page.cursor
    BY <1>1, <2>1 DEF BridgeHas
  <2>3. Bridged(bridge') = C
    BY <1>6, <1>11, <1>15, <2>2 DEF Bridged
  <2>4. Gapless(C, page.cursor) /\ EndsAt(C, page.cursor)
    BY <1>9, <1>10, <1>15 DEF Ends
  <2>5. BridgeHas(bridge', walk)
    <3> HIDE DEF C
    <3> QED  BY <1>2, <1>3, <1>11, <2>2, <2>3, <2>4 DEF BridgeHas
  <2> QED  BY <1>1, <2>1, <2>5 DEF PaneHas
<1> QED  BY <1>13, <1>14, <1>15

-----------------------------------------------------------------------------
(* Steps.                                                                    *)
LEMMA NothingIsPage == ASSUME Stored PROVE IsPage(NoRead.page)
<1>1. NoRead.page = NoPage
  BY DEF NoRead
<1> QED  BY <1>1, EmptyIsPage

LEMMA ScreenHasPage ==
  ASSUME Stored, NEW res, NEW kept, NEW lastGood,
         IsPage(res.page), IsPage(kept.page), IsPage(lastGood.page)
  PROVE  /\ IsPage(OnScreen(res, kept, lastGood).page)
         /\ IsPage(NextGood(res, kept, lastGood).page)
<1>1. Answer(res, kept) \in {res, kept}
  BY DEF Answer
<1>2. OnScreen(res, kept, lastGood) \in {res, kept, lastGood, NoRead}
  BY <1>1 DEF OnScreen
<1>3. NextGood(res, kept, lastGood) \in {res, kept, lastGood, NoRead}
  BY NextGoodIsKnown
<1> QED  BY <1>2, <1>3, NothingIsPage

LEMMA BegunHasPage ==
  ASSUME GapInv, NEW viewed, BeginRead(viewed)
  PROVE  \A r \in DOMAIN reads' : IsPage(reads'[r].page)
<1>1. IsList(reads) /\ PagesHeld /\ Stored
  BY DEF GapInv, ReadsInv, Numbers
<1> PICK S : reads \in Seq(S) BY <1>1 DEF IsList
<1> DEFINE e == NewRead(viewed)
<1>2. reads \in Seq(S \cup {e}) /\ e \in S \cup {e} /\ reads' = Append(reads, e)
  BY DEF BeginRead
<1>3. IsPage(e.page)
  BY <1>1, EmptyIsPage DEF NewRead
<1> HIDE DEF e
<1>4. /\ Len(reads) \in Nat /\ DOMAIN reads = 1..Len(reads)
      /\ reads' \in Seq(S \cup {e}) /\ Len(reads') = Len(reads) + 1
      /\ \A i \in 1..Len(reads) : reads'[i] = reads[i]
      /\ reads'[Len(reads) + 1] = e
  BY <1>2, AppendProperties
<1>5. DOMAIN reads' = 1..(Len(reads) + 1)
  BY <1>4
<1>6. ASSUME NEW r \in 1..(Len(reads) + 1) PROVE IsPage(reads'[r].page)
  <2>1. r \in DOMAIN reads \/ r = Len(reads) + 1
    BY <1>4
  <2> QED  BY <1>1, <1>3, <1>4, <2>1 DEF PagesHeld
<1> QED  BY <1>5, <1>6

LEMMA UpdatedHasPage ==
  ASSUME GapInv, NEW r \in DOMAIN reads, NEW e, IsPage(e.page),
         reads' = [reads EXCEPT ![r] = e]
  PROVE  \A s \in DOMAIN reads' : IsPage(reads'[s].page)
<1>1. DOMAIN reads' = DOMAIN reads
  OBVIOUS
<1>2. ASSUME NEW s \in DOMAIN reads PROVE IsPage(reads'[s].page)
  <2>1. CASE s = r
    BY <2>1
  <2>2. CASE s # r
    BY <2>2 DEF GapInv, PagesHeld
  <2> QED  BY <2>1, <2>2
<1> QED  BY <1>1, <1>2

(* A step that leaves the rows as they are.                                  *)
LEMMA SameRowsGap ==
  ASSUME GapInv, UNCHANGED storeVars, ReadsInv',
         \A r \in DOMAIN reads' : IsPage(reads'[r].page),
         IsPage(done'.page), IsPage(result'.page), IsPage(good'.page),
         PaneHas(walk', older', bridge', strayed')
  PROVE  GapInv'
<1>1. Stored' /\ \A page : IsPage(page)' <=> IsPage(page)
  BY StoreStays DEF GapInv
<1>2. PagesHeld'
  BY <1>1 DEF PagesHeld
<1>3. PaneHas(walk, older, bridge, strayed)'
  <2>1. \A w, load, gap, astray :
          PaneHas(w, load, gap, astray)' <=> PaneHas(w, load, gap, astray)
    BY StoreStays
  <2> QED  BY <2>1
<1> QED  BY <1>1, <1>2, <1>3 DEF GapInv

LEMMA CacheStepsGap ==
  ASSUME GapInv, ReadsInv', PrefetchThread \/ RefreshThread \/ AgeRead
  PROVE  GapInv'
<1>1. /\ UNCHANGED storeVars /\ UNCHANGED <<result, good>>
      /\ walk' = walk /\ older' = older /\ bridge' = bridge /\ strayed' = strayed
  BY DEF PrefetchThread, RefreshThread, AgeRead, viewVars, paneVars
<1>2. PaneHas(walk', older', bridge', strayed')
  BY <1>1 DEF GapInv
<1>3. \A r \in DOMAIN reads' : IsPage(reads'[r].page)
  BY BegunHasPage DEF PrefetchThread, RefreshThread, AgeRead, GapInv, PagesHeld
<1>4. IsPage(done'.page)
  <2>1. CASE AgeRead
    <3>1. done'.page = done.page
      BY <2>1 DEF AgeRead, GapInv, ReadsInv, Numbers, IsRead
    <3> QED  BY <3>1 DEF GapInv, PagesHeld
  <2>2. CASE ~AgeRead
    BY <2>2 DEF PrefetchThread, RefreshThread, GapInv, PagesHeld
  <2> QED  BY <2>1, <2>2
<1>5. IsPage(result'.page) /\ IsPage(good'.page)
  BY <1>1 DEF GapInv, PagesHeld
<1> QED  BY <1>1, <1>2, <1>3, <1>4, <1>5, SameRowsGap

LEMMA OpenGap ==
  ASSUME GapInv, ReadsInv', NEW force, OpenThread(force)
  PROVE  GapInv'
<1>1. /\ UNCHANGED storeVars /\ UNCHANGED <<result, done>>
      /\ good' = NextGood(result, done, good)
      /\ PaneMoves(NoRead, OnScreen(result, done, good))
  BY DEF OpenThread
<1>2. /\ Stored /\ PaneHas(walk, older, bridge, strayed)
      /\ IsPage(done.page) /\ IsPage(result.page) /\ IsPage(good.page)
  BY DEF GapInv, PagesHeld
<1>3. IsPage(good'.page) /\ IsPage(OnScreen(result, done, good).page)
  BY <1>1, <1>2, ScreenHasPage
<1>4. PaneHas(walk', older', bridge', strayed')
  BY <1>1, <1>2, <1>3, PaneKeeps
<1>5. \A r \in DOMAIN reads' : IsPage(reads'[r].page)
  <2>1. CASE reads' = reads
    BY <2>1 DEF GapInv, PagesHeld
  <2>2. CASE BeginRead(TRUE)
    BY <2>2, BegunHasPage
  <2>3. CASE flying # 0 /\ reads' = [reads EXCEPT ![flying].viewed = TRUE]
    <3> DEFINE e == [reads[flying] EXCEPT !.viewed = TRUE]
    <3>1. flying \in DOMAIN reads
      BY <2>3, ListHasLength DEF GapInv, ReadsInv, Numbers
    <3>2. IsEntry(reads[flying])
      BY <3>1 DEF GapInv, ReadsInv, Numbers, IsList
    <3>3. e.page = reads[flying].page
      BY <3>2 DEF IsEntry
    <3>4. reads' = [reads EXCEPT ![flying] = e]
      BY <2>3
    <3> HIDE DEF e
    <3>5. IsPage(e.page)
      BY <3>1, <3>3 DEF GapInv, PagesHeld
    <3> QED  BY <3>1, <3>4, <3>5, UpdatedHasPage
  <2> QED  BY <2>1, <2>2, <2>3 DEF OpenThread
<1> QED  BY <1>1, <1>2, <1>3, <1>4, <1>5, SameRowsGap

LEMMA ScreenIsPage ==
  ASSUME GapInv
  PROVE  IsPage(Screen.page)
BY ScreenHasPage, NothingIsPage DEF GapInv, PagesHeld, Screen

LEMMA LandCachedGap ==
  ASSUME GapInv, ReadsInv', LandCached
  PROVE  GapInv'
<1>1. /\ UNCHANGED storeVars /\ UNCHANGED <<reads, done>>
      /\ result' = done /\ good' = done /\ PaneMoves(Screen, done)
  BY DEF LandCached, cacheVars
<1>2. /\ Stored /\ PaneHas(walk, older, bridge, strayed) /\ IsPage(done.page)
      /\ \A r \in DOMAIN reads : IsPage(reads[r].page)
  BY DEF GapInv, PagesHeld
<1>3. PaneHas(walk', older', bridge', strayed')
  BY <1>1, <1>2, PaneKeeps
<1> QED  BY <1>1, <1>2, <1>3, SameRowsGap

LEMMA CloseGap ==
  ASSUME GapInv, ReadsInv', CloseThread
  PROVE  GapInv'
<1>1. /\ UNCHANGED storeVars /\ UNCHANGED <<reads, done>>
      /\ result' \in {result, NoRead} /\ good' \in {good, NoRead}
      /\ PaneMoves(Screen, NoRead)
  BY DEF CloseThread, cacheVars
<1>2. /\ Stored /\ PaneHas(walk, older, bridge, strayed)
      /\ IsPage(done.page) /\ IsPage(result.page) /\ IsPage(good.page)
      /\ IsPage(NoRead.page) /\ \A r \in DOMAIN reads : IsPage(reads[r].page)
  BY NothingIsPage DEF GapInv, PagesHeld
<1>3. PaneHas(walk', older', bridge', strayed')
  BY <1>1, <1>2, PaneKeeps
<1> QED  BY <1>1, <1>2, <1>3, SameRowsGap

LEMMA AnswerGap ==
  ASSUME GapInv, ReadsInv', NEW r \in DOMAIN reads, AnswerRead(r)
  PROVE  GapInv'
<1>1. /\ UNCHANGED storeVars /\ UNCHANGED <<done, result, good>>
      /\ walk' = walk /\ older' = older /\ bridge' = bridge /\ strayed' = strayed
  BY DEF AnswerRead, viewVars, paneVars
<1>2. /\ Stored /\ PaneHas(walk', older', bridge', strayed')
      /\ IsPage(done'.page) /\ IsPage(result'.page) /\ IsPage(good'.page)
  BY <1>1 DEF GapInv, PagesHeld
<1>3. IsPage(PageAfter(FirstPosition)) /\ IsPage(NoPage)
  <2>1. LastAt \in Nat /\ MaxMessages \in Nat
    BY ThreadViewAssumption DEF ThreadViewAssumption
  <2>2. FirstPosition.at \in Nat /\ FirstPosition.seq \in Nat
    BY <2>1 DEF FirstPosition
  <2> QED  BY <1>2, <2>2, PageIsRead, EmptyIsPage
<1>4. PICK kind, page : IsPage(page) /\ reads' = [reads EXCEPT ![r] = Replied(r, kind, page)]
  BY <1>3 DEF AnswerRead
<1>5. Replied(r, kind, page).page = page
  BY DEF Replied
<1>6. \A s \in DOMAIN reads' : IsPage(reads'[s].page)
  BY <1>4, <1>5, UpdatedHasPage
<1> QED  BY <1>1, <1>2, <1>6, SameRowsGap

LEMMA LandGap ==
  ASSUME GapInv, ReadsInv', NEW r \in DOMAIN reads, LandRead(r)
  PROVE  GapInv'
<1>0. /\ Stored /\ PaneHas(walk, older, bridge, strayed) /\ ReadsInv
      /\ IsPage(done.page) /\ IsPage(result.page) /\ IsPage(good.page)
      /\ IsPage(NoRead.page) /\ IsPage(reads[r].page)
  BY NothingIsPage DEF GapInv, PagesHeld
<1>1. IsPage(Now(r).page) /\ IsPage(KeptNow(r).page) /\ IsPage(GoodNow(r).page)
  <2>1. Now(r).page \in {reads[r].page, result.page}
    BY DEF Now
  <2>2. Kept(r).page \in {reads[r].page, done.page}
    BY DEF Kept
  <2>3. KeptNow(r).page \in {NoRead.page, Kept(r).page}
    BY DEF KeptNow
  <2>4. GoodNow(r).page \in {NoRead.page, good.page}
    BY DEF GoodNow
  <2> QED  BY <1>0, <2>1, <2>2, <2>3, <2>4
<1> DEFINE screen == IF open THEN OnScreen(Now(r), KeptNow(r), GoodNow(r)) ELSE NoRead
<1>2. UNCHANGED storeVars /\ reads' = [reads EXCEPT ![r] = OverRead]
  BY DEF LandRead
<1>3. PaneMoves(Screen, screen)
  BY DEF LandRead, Reset, Heard, KeptNow, GoodNow, Now
<1>4. IsPage(screen.page)
  BY <1>0, <1>1, ScreenHasPage
<1> HIDE DEF screen
<1>5. PaneHas(walk', older', bridge', strayed')
  BY <1>0, <1>3, <1>4, PaneKeeps
<1>6. \A s \in DOMAIN reads' : IsPage(reads'[s].page)
  <2>1. IsPage(OverRead.page)
    BY <1>0, EmptyIsPage DEF OverRead
  <2> QED  BY <1>2, <2>1, UpdatedHasPage
<1>7. done' = KeptNow(r) /\ result' = Now(r)
  BY <1>0, LandMoves
<1>8. IsPage(good'.page)
  <2>1. open => good' = NextGood(Now(r), KeptNow(r), GoodNow(r))
    BY <1>0, LandMoves
  <2>2. ~open => good' = GoodNow(r)
    BY <1>0, LandMoves
  <2> QED  BY <1>0, <1>1, <2>1, <2>2, ScreenHasPage
<1> QED  BY <1>1, <1>2, <1>5, <1>6, <1>7, <1>8, SameRowsGap

LEMMA PaneStepsGap ==
  ASSUME GapInv, ReadsInv',
         LoadOlder \/ AnswerOlder \/ LandOlder \/ AnswerBridge \/ LandBridge
  PROVE  GapInv'
<1>1. UNCHANGED storeVars /\ UNCHANGED <<reads, done, result, good>>
  BY DEF LoadOlder, AnswerOlder, LandOlder, AnswerBridge, LandBridge, cacheVars, viewVars
<1>2. PaneHas(walk', older', bridge', strayed')
  BY LoadKeeps, AnswerOlderKeeps, LandOlderKeeps, AnswerBridgeKeeps, LandBridgeKeeps
     DEF GapInv
<1>3. /\ \A r \in DOMAIN reads : IsPage(reads[r].page)
      /\ IsPage(done.page) /\ IsPage(result.page) /\ IsPage(good.page)
  BY DEF GapInv, PagesHeld
<1> QED  BY <1>1, <1>2, <1>3, SameRowsGap

LEMMA GapInit ==
  ASSUME ThreadViewAssumption, ThreadInit
  PROVE  GapInv
<1>1. Stored
  BY DEF ThreadInit, Stored
<1>2. /\ reads = <<>> /\ done = NoRead /\ result = NoRead /\ good = NoRead
      /\ walk = NoPage /\ older = NoOlder /\ bridge = NoBridge
  BY DEF ThreadInit
<1>3. PagesHeld
  BY <1>1, <1>2, NothingIsPage DEF PagesHeld
<1>4. PaneHas(walk, older, bridge, strayed)
  <2>1. WalkHas(walk, strayed)
    BY <1>1, <1>2, EmptyIsPage, PageIsShown DEF WalkHas
  <2> QED  BY <1>2, <2>1, IdleHas DEF PaneHas
<1> QED  BY <1>1, <1>3, <1>4, ReadsInit DEF GapInv

LEMMA GapNext ==
  ASSUME GapInv, [ThreadNext]_threadVars
  PROVE  GapInv'
<1>0. ReadsInv'
  BY ReadsNext DEF GapInv
<1>1. CASE StoreMessage \/ EraseThread
  <2>1. UNCHANGED <<reads, done, result, good, paneVars>>
    BY <1>1 DEF StoreMessage, EraseThread, cacheVars, viewVars
  <2>2. RowsMove
    BY <1>1, StoresMoveRows DEF GapInv
  <2> QED  BY <1>0, <2>1, <2>2, RowsMoveGap
<1>2. CASE UNCHANGED threadVars
  <2>1. /\ UNCHANGED storeVars /\ UNCHANGED <<reads, done, result, good>>
        /\ walk' = walk /\ older' = older /\ bridge' = bridge /\ strayed' = strayed
    BY <1>2 DEF threadVars, storeVars
  <2>2. PagesHeld /\ PaneHas(walk', older', bridge', strayed')
    BY <2>1 DEF GapInv
  <2> QED  BY <1>0, <2>1, <2>2, SameRowsGap DEF PagesHeld
<1> QED  BY <1>0, <1>1, <1>2, CacheStepsGap, OpenGap, LandCachedGap, CloseGap,
            AnswerGap, LandGap, PaneStepsGap
         DEF ThreadNext, ThreadStep

(* The pane of a thread has no gap, for any page size and any number of      *)
(* messages, reads, failures and erasures: what `load older`, the refreshes  *)
(* and the bridges of use-older-pages put together has each message that     *)
(* was stored before all it shows above it.                                  *)
THEOREM NoGapHolds == ThreadSpec => []NoGap
<1>1. ThreadInit => GapInv
  BY GapInit, ThreadViewAssumption
<1>2. GapInv /\ [ThreadNext]_threadVars => GapInv'
  BY GapNext
<1>3. GapInv => NoGap
  <2> SUFFICES ASSUME GapInv, ~strayed, NEW m \in Rows,
                      \E c \in Shown(walk) : Over(c, m),
                      Below(walk.cursor, Place(m)),
                      \A c \in Shown(walk) : Over(c, m) => m < c
               PROVE  m \in Shown(walk)
    BY DEF NoGap, Over
  <2>1. Sees(Shown(walk), m)
    BY DEF Sees
  <2>2. Gapless(Shown(walk), walk.cursor)
    BY DEF GapInv, PaneHas, WalkHas
  <2> QED  BY <2>1, <2>2 DEF Gapless
<1> QED  BY <1>1, <1>2, <1>3, PTL DEF ThreadSpec
=============================================================================
