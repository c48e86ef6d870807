----------------------------- MODULE NewsProofs -----------------------------
(***************************************************************************)
(* Proofs about NewsIngest, for any set of articles and of overlapping     *)
(* runs.  The invariant says what an open transaction may still commit: an *)
(* article nobody has stored, that no other open transaction has inserted, *)
(* with its analysis.                                                      *)
(***************************************************************************)
EXTENDS NewsIngest, TLAPS

Committable ==
    \A t \in Tasks : ~aborted[t] =>
        \A u \in inserted[t] :
            /\ rows[u] = 0
            /\ u \in analysed[t]
            /\ \A q \in Tasks \ {t} : aborted[q] \/ u \notin inserted[q]

NInv == TypeOK /\ Committable /\ OneRow /\ StoredIsScored

\* Initially nothing is stored and no transaction is open.
LEMMA InitNInv == Init => NInv
  BY NewsAssumption DEF Init, NInv, TypeOK, Committable, OneRow, StoredIsScored

\* Ending a run only makes transactions smaller.
LEMMA EndNInv ==
    ASSUME NInv, NEW t \in Tasks, End(t), UNCHANGED <<seen, tables>>,
           dropped' \subseteq Urls
    PROVE  NInv'
  <1>1. TypeOK'
    BY DEF NInv, TypeOK, End, tables
  <1>2. Committable'
    BY DEF NInv, TypeOK, Committable, End, tables
  <1> QED
    BY <1>1, <1>2 DEF NInv, OneRow, StoredIsScored, tables

\* Handling a stub without inserting touches no table and no transaction.
LEMMA QuietNInv ==
    ASSUME NInv, NEW t \in Tasks, NEW u \in Urls,
           should_fetch(t, u) \/ fall_through(t, u) \/ FetchFails(t, u)
    PROVE  NInv'
  <1>1. UNCHANGED <<rows, scored, running, inserted, analysed, aborted, fetched>>
    BY DEF should_fetch, fall_through, FetchFails, tables
  <1>2. seen' \subseteq Urls /\ dropped' \subseteq Urls
    BY DEF should_fetch, fall_through, FetchFails, NInv, TypeOK
  <1>3. left' \in [Tasks -> SUBSET Urls] /\ fetching' \in [Tasks -> BOOLEAN]
    BY DEF should_fetch, fall_through, FetchFails, Skip, NInv, TypeOK
  <1> QED
    BY <1>1, <1>2, <1>3 DEF NInv, TypeOK, Committable, OneRow, StoredIsScored

\* An insert waits until no other live transaction has the article.
LEMMA IngestNInv ==
    ASSUME NInv, NEW t \in Tasks, NEW u \in Urls, ingest_article(t, u)
    PROVE  NInv'
  <1>1. UNCHANGED <<seen, rows, scored, running, dropped>>
    BY DEF ingest_article, tables
  <1>2. TypeOK'
    BY <1>1 DEF NInv, TypeOK, ingest_article, Skip
  <1>3. Committable'
    <2>1. CASE aborted[t] \/ rows[u] > 0
      BY <1>1, <2>1 DEF ingest_article, NInv, Committable
    <2>2. CASE ~(aborted[t] \/ rows[u] > 0)
      <3>1. rows[u] = 0
        BY <2>2 DEF NInv, TypeOK
      <3>2. \A q \in Tasks \ {t} : u \notin inserted[q] \/ aborted[q]
        BY <2>2 DEF ingest_article
      <3>3. /\ inserted' = [inserted EXCEPT ![t] = @ \cup {u}]
            /\ analysed' = [analysed EXCEPT ![t] = IF u \in Bad THEN @ ELSE @ \cup {u}]
            /\ aborted' = [aborted EXCEPT ![t] = u \in Bad]
        BY <2>2 DEF ingest_article
      <3>4. inserted \in [Tasks -> SUBSET Urls] /\ analysed \in [Tasks -> SUBSET Urls]
            /\ aborted \in [Tasks -> BOOLEAN]
        BY DEF NInv, TypeOK
      <3>5. ASSUME NEW p \in Tasks, ~aborted'[p], NEW v \in inserted'[p]
            PROVE  /\ rows'[v] = 0 /\ v \in analysed'[p]
                   /\ \A q \in Tasks \ {p} : aborted'[q] \/ v \notin inserted'[q]
        <4>1. CASE p = t /\ v = u
          BY <1>1, <3>1, <3>2, <3>3, <3>4, <3>5, <4>1
        <4>2. CASE p = t /\ v # u
          BY <1>1, <2>2, <3>3, <3>4, <3>5, <4>2 DEF NInv, Committable
        <4>3. CASE p # t
          <5>1. ~aborted[p] /\ v \in inserted[p]
            BY <3>3, <3>4, <3>5, <4>3
          <5>2. rows'[v] = 0 /\ v \in analysed'[p]
            BY <1>1, <3>3, <3>4, <4>3, <5>1 DEF NInv, Committable
          <5>3. v # u
            BY <3>2, <4>3, <5>1
          <5> QED
            BY <2>2, <3>3, <3>4, <4>3, <5>1, <5>2, <5>3 DEF NInv, Committable
        <4> QED
          BY <4>1, <4>2, <4>3
      <3> QED
        BY <3>5 DEF Committable
    <2> QED
      BY <2>1, <2>2
  <1> QED
    BY <1>1, <1>2, <1>3 DEF NInv, OneRow, StoredIsScored

\* A commit stores each of its articles for the first time, analysed.
LEMMA CommitNInv ==
    ASSUME NInv, NEW t \in Tasks, Commit(t)
    PROVE  NInv'
  <1>1. CASE aborted[t]
    <2>1. dropped' \subseteq Urls
      BY <1>1 DEF Commit, NInv, TypeOK
    <2> QED
      BY <1>1, <2>1, EndNInv DEF Commit
  <1>2. CASE ~aborted[t]
    <2>1. /\ rows' = [u \in Urls |-> IF u \in inserted[t] THEN rows[u] + 1 ELSE rows[u]]
          /\ scored' = scored \cup analysed[t]
          /\ End(t) /\ seen' = seen /\ dropped' = dropped
      BY <1>2 DEF Commit
    <2>2. \A u \in inserted[t] : rows[u] = 0 /\ u \in analysed[t]
      BY <1>2 DEF NInv, Committable
    <2>3. TypeOK'
      BY <2>1 DEF NInv, TypeOK, End
    <2>4. OneRow' /\ StoredIsScored'
      BY <2>1, <2>2 DEF NInv, TypeOK, OneRow, StoredIsScored
    <2>5. Committable'
      <3>1. inserted'[t] = {}
        BY <2>1 DEF NInv, TypeOK, End
      <3>2. ASSUME NEW p \in Tasks, p # t, ~aborted'[p], NEW v \in inserted'[p]
            PROVE  /\ rows'[v] = 0 /\ v \in analysed'[p]
                   /\ \A q \in Tasks \ {p} : aborted'[q] \/ v \notin inserted'[q]
        <4>1. ~aborted[p] /\ v \in inserted[p] /\ v \in Urls /\ analysed'[p] = analysed[p]
          BY <2>1, <3>2 DEF End, NInv, TypeOK
        <4>2. v \notin inserted[t]
          BY <1>2, <3>2, <4>1 DEF NInv, Committable
        <4>3. \A q \in Tasks \ {p, t} : aborted'[q] = aborted[q] /\ inserted'[q] = inserted[q]
          BY <2>1 DEF End, NInv, TypeOK
        <4> QED
          BY <2>1, <3>1, <3>2, <4>1, <4>2, <4>3 DEF NInv, Committable
      <3> QED
        BY <3>1, <3>2 DEF Committable
    <2> QED
      BY <2>3, <2>4, <2>5 DEF NInv
  <1> QED
    BY <1>1, <1>2

\* Every step keeps the invariant.
LEMMA NextNInv == NInv /\ [Next]_vars => NInv'
  <1> SUFFICES ASSUME NInv, [Next]_vars PROVE NInv'
    OBVIOUS
  <1>1. ASSUME NEW t \in Tasks, NEW feed \in SUBSET Urls, Start(t, feed) PROVE NInv'
    BY <1>1 DEF Start, NInv, TypeOK, Committable, OneRow, StoredIsScored, tables
  <1>2. ASSUME NEW t \in Tasks, NEW u \in Urls, FetchFails(t, u) PROVE NInv'
    BY <1>2, QuietNInv
  <1>3. ASSUME NEW t \in Tasks, Step(t) PROVE NInv'
    BY <1>3, QuietNInv, IngestNInv, CommitNInv DEF Step
  <1>4. ASSUME NEW t \in Tasks, Crash(t) PROVE NInv'
    <2>1. dropped' \subseteq Urls
      BY <1>4 DEF Crash, NInv, TypeOK
    <2> QED
      BY <1>4, <2>1, EndNInv DEF Crash
  <1>5. CASE UNCHANGED vars
    BY <1>5 DEF vars, NInv, TypeOK, Committable, OneRow, StoredIsScored
  <1> QED
    BY <1>1, <1>2, <1>3, <1>4, <1>5 DEF Next

\* The invariant holds throughout.
LEMMA NewsInvariance == Spec => []NInv
  BY InitNInv, NextNInv, PTL DEF Spec

-----------------------------------------------------------------------------
(***************************************************************************)
(* Where a URL that Redis remembers is: stored, dropped, downloaded by a   *)
(* run that is still active, or about to be.                               *)
(***************************************************************************)
Held(u) ==
    \/ rows[u] > 0 \/ u \in dropped
    \/ \E t \in Tasks : /\ running[t]
                        /\ u \in fetched[t] \/ (fetching[t] /\ AtStub(t, u))

\* What a run has downloaded it will commit, unless that is done or impossible.
FetchedOK(t) == \A u \in fetched[t] : aborted[t] \/ rows[u] > 0 \/ u \in inserted[t]

SInv == TypeOK /\ (\A u \in seen : Held(u)) /\ (\A t \in Tasks : FetchedOK(t))

\* The loop is at one stub at a time.
LEMMA OneStub ==
    ASSUME TypeOK, NEW t \in Tasks, NEW u \in Urls, NEW v \in Urls, AtStub(t, u), AtStub(t, v)
    PROVE  u = v
  BY NewsAssumption DEF TypeOK, AtStub

\* Initially Redis is empty.
LEMMA InitSInv == Init => SInv
  BY InitNInv DEF Init, NInv, SInv, FetchedOK, Held

\* Handling one stub moves at most that URL, from the feed to the run or out of it.
LEMMA StubSInv ==
    ASSUME SInv, TypeOK', NEW t \in Tasks, NEW u \in Urls,
           \/ should_fetch(t, u) \/ fall_through(t, u)
           \/ FetchFails(t, u) \/ ingest_article(t, u)
    PROVE  SInv'
  <1>1. UNCHANGED <<rows, running>> /\ dropped \subseteq dropped'
    BY DEF should_fetch, fall_through, FetchFails, ingest_article, tables
  <1>2. \A q \in Tasks : q # t =>
          /\ fetched'[q] = fetched[q] /\ fetching'[q] = fetching[q] /\ left'[q] = left[q]
          /\ aborted'[q] = aborted[q] /\ inserted'[q] = inserted[q]
    BY DEF should_fetch, fall_through, FetchFails, ingest_article, Skip, SInv, TypeOK
  <1>3. fetched[t] \subseteq fetched'[t] /\ inserted[t] \subseteq inserted'[t]
    BY DEF should_fetch, fall_through, FetchFails, ingest_article, Skip, SInv, TypeOK
  <1>4. AtStub(t, u) /\ running[t]
    BY DEF should_fetch, fall_through, FetchFails, ingest_article, AtStub
  <1>5. ASSUME NEW v \in Urls, v # u, Held(v) PROVE Held(v)'
    <2>1. ~AtStub(t, v)
      BY <1>4, <1>5, OneStub DEF SInv
    <2> QED
      BY <1>1, <1>2, <1>3, <1>5, <2>1 DEF Held, AtStub
  <1>6. ASSUME u \in seen' PROVE Held(u)'
    <2>1. CASE should_fetch(t, u)
      <3>1. CASE u \in seen
        <4>1. Held(u) /\ ~fetching[t]
          BY <2>1, <3>1 DEF SInv, should_fetch
        <4> QED
          BY <1>1, <1>2, <1>3, <4>1 DEF Held, AtStub
      <3>2. CASE u \notin seen
        BY <1>1, <1>4, <2>1, <3>2 DEF should_fetch, Held, AtStub, SInv, TypeOK
      <3> QED
        BY <3>1, <3>2
    <2>2. CASE fall_through(t, u)
      BY <1>1, <1>4, <2>2 DEF fall_through, Held, AtStub, SInv, TypeOK
    <2>3. CASE FetchFails(t, u)
      BY <2>3 DEF FetchFails, Held
    <2>4. CASE ingest_article(t, u)
      BY <1>1, <1>4, <2>4 DEF ingest_article, Held, SInv, TypeOK
    <2> QED
      BY <2>1, <2>2, <2>3, <2>4
  <1>7. \A v \in seen' : Held(v)'
    <2>1. \A v \in seen' : v \in Urls /\ (v # u => v \in seen)
      BY DEF should_fetch, fall_through, FetchFails, ingest_article, SInv, TypeOK
    <2> QED
      BY <1>5, <1>6, <2>1 DEF SInv
  <1>8. FetchedOK(t)'
    <2>1. CASE UNCHANGED <<fetched, aborted, inserted>>
      BY <1>1, <2>1 DEF SInv, FetchedOK
    <2>2. CASE ingest_article(t, u)
      BY <1>1, <2>2 DEF ingest_article, SInv, TypeOK, FetchedOK
    <2> QED
      BY <2>1, <2>2 DEF should_fetch, fall_through, FetchFails
  <1>9. \A q \in Tasks : FetchedOK(q)'
    BY <1>1, <1>2, <1>8 DEF SInv, FetchedOK
  <1> QED
    BY <1>7, <1>9 DEF SInv

\* A run that ends has stored what it held, or dropped it.
LEMMA EndSInv ==
    ASSUME SInv, TypeOK', NEW t \in Tasks, Commit(t) \/ Crash(t)
    PROVE  SInv'
  <1>1. End(t) /\ seen' = seen /\ dropped \subseteq dropped'
    BY DEF Commit, Crash
  <1>2. \A u \in Urls : rows[u] > 0 => rows'[u] > 0
    BY DEF Commit, Crash, tables, SInv, TypeOK
  <1>3. \A u \in fetched[t] : rows'[u] > 0 \/ u \in dropped'
    <2>1. CASE Commit(t) /\ ~aborted[t]
      BY <2>1 DEF Commit, SInv, TypeOK, FetchedOK
    <2>2. CASE (Commit(t) /\ aborted[t]) \/ Crash(t)
      BY <2>2 DEF Commit, Crash
    <2> QED
      BY <2>1, <2>2
  <1>4. \A u \in Urls : fetching[t] /\ AtStub(t, u) => u \in dropped'
    BY DEF Commit, Crash, AtStub
  <1>5. \A q \in Tasks : q # t =>
          /\ running'[q] = running[q] /\ fetched'[q] = fetched[q] /\ fetching'[q] = fetching[q]
          /\ left'[q] = left[q] /\ aborted'[q] = aborted[q] /\ inserted'[q] = inserted[q]
    BY <1>1 DEF End, SInv, TypeOK
  <1>6. ASSUME NEW u \in seen' PROVE Held(u)'
    <2>1. u \in Urls /\ Held(u)
      BY <1>1, <1>6 DEF SInv, TypeOK
    <2> QED
      BY <1>1, <1>2, <1>3, <1>4, <1>5, <2>1 DEF Held, AtStub
  <1>7. FetchedOK(t)'
    BY <1>1 DEF End, SInv, TypeOK, FetchedOK
  <1>8. \A q \in Tasks : FetchedOK(q)'
    BY <1>2, <1>5, <1>7 DEF SInv, TypeOK, FetchedOK
  <1> QED
    BY <1>6, <1>8 DEF SInv

\* Every step keeps the URLs Redis remembers accounted for.
LEMMA NextSInv == SInv /\ TypeOK' /\ [Next]_vars => SInv'
  <1> SUFFICES ASSUME SInv, TypeOK', [Next]_vars PROVE SInv'
    OBVIOUS
  <1>1. ASSUME NEW t \in Tasks, NEW feed \in SUBSET Urls, Start(t, feed) PROVE SInv'
    <2>1. UNCHANGED <<seen, rows, dropped, fetched, fetching, aborted, inserted>>
      BY <1>1 DEF Start, tables
    <2>2. \A q \in Tasks : running[q] => q # t /\ running'[q] /\ left'[q] = left[q]
      BY <1>1 DEF Start, SInv, TypeOK
    <2>3. \A u \in seen' : Held(u)'
      BY <2>1, <2>2 DEF SInv, Held, AtStub
    <2> QED
      BY <2>1, <2>3 DEF SInv, FetchedOK
  <1>2. ASSUME NEW t \in Tasks, NEW u \in Urls, FetchFails(t, u) PROVE SInv'
    BY <1>2, StubSInv
  <1>3. ASSUME NEW t \in Tasks, Step(t) PROVE SInv'
    BY <1>3, StubSInv, EndSInv DEF Step
  <1>4. ASSUME NEW t \in Tasks, Crash(t) PROVE SInv'
    BY <1>4, EndSInv
  <1>5. CASE UNCHANGED vars
    BY <1>5 DEF vars, SInv, FetchedOK, Held, AtStub
  <1> QED
    BY <1>1, <1>2, <1>3, <1>4, <1>5 DEF Next

(***************************************************************************)
(* A URL that every later run will skip is stored, or the download or the  *)
(* run that claimed it has failed: overlapping runs lose nothing.          *)
(***************************************************************************)
THEOREM SkipsAccounted == Spec => []SkippedHasReason
  <1>1. SInv => SkippedHasReason
    BY DEF SInv, Held, SkippedHasReason
  <1>2. NInv => TypeOK
    BY DEF NInv
  <1> QED
    BY <1>1, <1>2, InitSInv, NextSInv, NewsInvariance, PTL DEF Spec

(***************************************************************************)
(* However many runs overlap, whichever articles the database refuses and  *)
(* whether Redis answers or not, an article is stored at most once.        *)
(***************************************************************************)
THEOREM StoredOnce == Spec => []OneRow
  <1>1. NInv => OneRow
    BY DEF NInv
  <1> QED
    BY <1>1, NewsInvariance, PTL

(***************************************************************************)
(* A stored article always has its mention and sentiment rows, although    *)
(* ingest_article swallows the errors of the statements that insert them.  *)
(***************************************************************************)
THEOREM StoredWithAnalysis == Spec => []StoredIsScored
  <1>1. NInv => StoredIsScored
    BY DEF NInv
  <1> QED
    BY <1>1, NewsInvariance, PTL

\* Every variable of the scraper model keeps its type.
THEOREM NewsTypeCorrect == Spec => []TypeOK
  <1>1. NInv => TypeOK
    BY DEF NInv
  <1> QED
    BY <1>1, NewsInvariance, PTL
=============================================================================
