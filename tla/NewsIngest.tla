----------------------------- MODULE NewsIngest -----------------------------
(***************************************************************************)
(* The news scraper task of one source (psx_ingest/tasks/news.py): read    *)
(* the feed, skip URLs that Redis remembers, fetch each article, insert it *)
(* with its mention and sentiment rows, and commit the batch at the end.   *)
(*                                                                         *)
(* Runs of the task may overlap (beat starts one every 30 minutes, Celery  *)
(* retries and redelivers).  A run is one PostgreSQL transaction, but its  *)
(* Redis writes take effect at once and are never undone.  The model       *)
(* covers the 14 days during which an article is eligible; Redis keys live *)
(* 60 days and do not expire here.                                         *)
(***************************************************************************)
EXTENDS Integers

CONSTANTS
    Urls,      \* articles of the source, numbered in feed order
    Bad,       \* articles whose rows PostgreSQL refuses
    Tasks      \* runs that can overlap

ASSUME NewsAssumption == Urls \subseteq Nat /\ Bad \subseteq Urls

VARIABLES
    seen,     \* URLs with a news:dedupe key in Redis
    rows,     \* committed news_articles rows of each URL
    scored,   \* URLs whose mention and sentiment rows are committed
    running,  \* is the run active
    left,     \* stubs of its feed it has still to handle
    fetching, \* has it passed the dedupe check of the first of them
    inserted, \* rows of its open transaction: articles
    analysed, \* rows of its open transaction: mentions and sentiment
    aborted,  \* has a statement of its transaction failed
    fetched,  \* history: the articles it has downloaded
    dropped   \* history: articles whose download or whose run has failed

tables == <<rows, scored>>
vars == <<seen, rows, scored, running, left, fetching, inserted, analysed, aborted, fetched,
          dropped>>

Init ==
    /\ seen = {} /\ dropped = {} /\ rows = [u \in Urls |-> 0] /\ scored = {}
    /\ running = [t \in Tasks |-> FALSE]
    /\ left = [t \in Tasks |-> {}]
    /\ fetching = [t \in Tasks |-> FALSE]
    /\ inserted = [t \in Tasks |-> {}]
    /\ analysed = [t \in Tasks |-> {}]
    /\ aborted = [t \in Tasks |-> FALSE]
    /\ fetched = [t \in Tasks |-> {}]

\* The run is over, its transaction closed.
End(t) ==
    /\ running' = [running EXCEPT ![t] = FALSE]
    /\ left' = [left EXCEPT ![t] = {}]
    /\ fetching' = [fetching EXCEPT ![t] = FALSE]
    /\ inserted' = [inserted EXCEPT ![t] = {}]
    /\ analysed' = [analysed EXCEPT ![t] = {}]
    /\ aborted' = [aborted EXCEPT ![t] = FALSE]
    /\ fetched' = [fetched EXCEPT ![t] = {}]

\* Fault: the stubs are filtered through the dedupe check before the loop too.
StartMarks(t, feed) ==
    /\ ~running[t]
    /\ running' = [running EXCEPT ![t] = TRUE]
    /\ left' = [left EXCEPT ![t] = feed]
    /\ seen' = seen \cup feed
    /\ UNCHANGED <<tables, fetching, inserted, analysed, aborted, fetched, dropped>>

\* A run lists the feed (no stub at all when the listing fails).
Start(t, feed) ==
    /\ ~running[t]
    /\ running' = [running EXCEPT ![t] = TRUE]
    /\ left' = [left EXCEPT ![t] = feed]
    /\ UNCHANGED <<seen, tables, fetching, inserted, analysed, aborted, fetched, dropped>>

\* u is the stub the loop has come to.
AtStub(t, u) ==
    /\ running[t] /\ u \in left[t]
    /\ \A v \in left[t] : u <= v

\* Fault: the loop runs on past the last stub.
SkipPastEnd(t, u) ==
    /\ left' = [left EXCEPT ![t] = (@ \ {u}) \cup {u + 1}]
    /\ fetching' = [fetching EXCEPT ![t] = FALSE]

Skip(t, u) ==
    /\ left' = [left EXCEPT ![t] = @ \ {u}]
    /\ fetching' = [fetching EXCEPT ![t] = FALSE]

\* _should_fetch: SET NX, before the article is downloaded.
should_fetch(t, u) ==
    /\ AtStub(t, u) /\ ~fetching[t]
    /\ seen' = seen \cup {u}
    /\ IF u \in seen THEN Skip(t, u)
       ELSE fetching' = [fetching EXCEPT ![t] = TRUE] /\ UNCHANGED left
    /\ UNCHANGED <<tables, running, inserted, analysed, aborted, fetched, dropped>>

\* _should_fetch without Redis: "fall through and let the DB handle dedupe".
fall_through(t, u) ==
    /\ AtStub(t, u) /\ ~fetching[t]
    /\ fetching' = [fetching EXCEPT ![t] = TRUE]
    /\ UNCHANGED <<seen, tables, running, left, inserted, analysed, aborted, fetched, dropped>>

\* The download fails, or its body is unreadable or too short.
FetchFails(t, u) ==
    /\ AtStub(t, u) /\ fetching[t]
    /\ Skip(t, u)
    /\ dropped' = dropped \cup {u}
    /\ UNCHANGED <<seen, tables, running, inserted, analysed, aborted, fetched>>

\* Fault: news_articles.url is not UNIQUE.
InsertAlways(t, u) ==
    /\ AtStub(t, u) /\ fetching[t]
    /\ Skip(t, u)
    /\ fetched' = [fetched EXCEPT ![t] = @ \cup {u}]
    /\ inserted' = [inserted EXCEPT ![t] = @ \cup {u}]
    /\ analysed' = [analysed EXCEPT ![t] = @ \cup {u}]
    /\ UNCHANGED <<seen, tables, running, aborted, dropped>>

(***************************************************************************)
(* ingest_article: INSERT ... ON CONFLICT (url) DO NOTHING, which waits    *)
(* for another open transaction that has inserted the same URL, then the   *)
(* rows that go with the article.  Every exception is caught, but          *)
(* PostgreSQL has aborted the transaction by then, and each later          *)
(* statement of the run fails the same way.                                *)
(***************************************************************************)
ingest_article(t, u) ==
    /\ AtStub(t, u) /\ fetching[t]
    /\ aborted[t] \/ \A q \in Tasks \ {t} : u \notin inserted[q] \/ aborted[q]
    /\ Skip(t, u)
    /\ fetched' = [fetched EXCEPT ![t] = @ \cup {u}]
    /\ IF aborted[t] \/ rows[u] > 0
       THEN UNCHANGED <<inserted, analysed, aborted>>
       ELSE /\ inserted' = [inserted EXCEPT ![t] = @ \cup {u}]
            /\ analysed' = [analysed EXCEPT ![t] = IF u \in Bad THEN @ ELSE @ \cup {u}]
            /\ aborted' = [aborted EXCEPT ![t] = u \in Bad]
    /\ UNCHANGED <<seen, tables, running, dropped>>

\* Fault: a caught error leaves the transaction committable.
CommitAnyway(t) ==
    /\ running[t] /\ left[t] = {}
    /\ rows' = [u \in Urls |-> IF u \in inserted[t] THEN rows[u] + 1 ELSE rows[u]]
    /\ scored' = scored \cup analysed[t]
    /\ End(t)
    /\ UNCHANGED <<seen, dropped>>

\* Fault: the session is closed without a commit.
CommitForgotten(t) ==
    /\ running[t] /\ left[t] = {}
    /\ End(t)
    /\ UNCHANGED <<seen, tables, dropped>>

\* The COMMIT of an aborted transaction is a silent ROLLBACK.
Commit(t) ==
    /\ running[t] /\ left[t] = {}
    /\ IF aborted[t] THEN UNCHANGED tables /\ dropped' = dropped \cup fetched[t]
       ELSE /\ rows' = [u \in Urls |-> IF u \in inserted[t] THEN rows[u] + 1 ELSE rows[u]]
            /\ scored' = scored \cup analysed[t]
            /\ UNCHANGED dropped
    /\ End(t)
    /\ UNCHANGED seen

\* The worker dies or loses the database; Celery will run the task again.
Crash(t) ==
    /\ running[t]
    /\ dropped' = dropped \cup fetched[t] \cup {u \in Urls : AtStub(t, u) /\ fetching[t]}
    /\ End(t)
    /\ UNCHANGED <<seen, tables>>

Step(t) ==
    \/ \E u \in Urls : should_fetch(t, u) \/ fall_through(t, u) \/ ingest_article(t, u)
    \/ Commit(t)

Next ==
    \/ \E t \in Tasks, feed \in SUBSET Urls : Start(t, feed)
    \/ \E t \in Tasks, u \in Urls : FetchFails(t, u)
    \/ \E t \in Tasks : Step(t) \/ Crash(t)

Spec == Init /\ [][Next]_vars

(***************************************************************************)
(* Fairness: a run that has started goes on (its network calls have        *)
(* timeouts, PostgreSQL grants its locks), workers do not die for ever (a  *)
(* run with nothing to store looks like one that died and goes on), and    *)
(* beat keeps starting runs that list the whole feed.                      *)
(***************************************************************************)
FairSpec ==
    /\ Spec
    /\ <>[][\A t \in Tasks : Crash(t) => Step(t)]_vars
    /\ \A t \in Tasks : WF_vars(Step(t)) /\ SF_vars(Start(t, Urls))

-----------------------------------------------------------------------------
\* Every variable keeps its type.
TypeOK ==
    /\ seen \subseteq Urls /\ scored \subseteq Urls /\ dropped \subseteq Urls
    /\ rows \in [Urls -> Nat]
    /\ running \in [Tasks -> BOOLEAN] /\ aborted \in [Tasks -> BOOLEAN]
    /\ fetching \in [Tasks -> BOOLEAN]
    /\ left \in [Tasks -> SUBSET Urls] /\ fetched \in [Tasks -> SUBSET Urls]
    /\ inserted \in [Tasks -> SUBSET Urls] /\ analysed \in [Tasks -> SUBSET Urls]

(***************************************************************************)
(* An article is stored once, however runs overlap and whether Redis       *)
(* answers or not: worker.py's "Redis URL dedupe and the news_articles.url *)
(* UNIQUE constraint mean re-runs are no-ops".                             *)
(***************************************************************************)
OneRow == \A u \in Urls : rows[u] <= 1

(***************************************************************************)
(* A stored article has its mention and sentiment rows: no caught error    *)
(* and no crash between the inserts leaves an article that the dedupe      *)
(* would then keep bare for good.                                          *)
(***************************************************************************)
StoredIsScored == \A u \in Urls : rows[u] > 0 => u \in scored

(***************************************************************************)
(* base.py: "We skip URLs we've already ingested via a Redis SETNX dedupe  *)
(* key".  The key is set before the download and never taken back, so the  *)
(* code keeps less than that: when no run is active, a URL that will be    *)
(* skipped is stored, or the run that claimed it has failed.  Overlapping  *)
(* runs alone lose nothing.                                                *)
(***************************************************************************)
SkippedHasReason ==
    (\A t \in Tasks : ~running[t]) => \A u \in seen : rows[u] > 0 \/ u \in dropped

(***************************************************************************)
(* ingest_article: "Catches errors per article so one bad row doesn't kill *)
(* the whole batch".  A run that reaches its COMMIT has every article it   *)
(* downloaded stored, except the bad ones.                                 *)
(***************************************************************************)
BatchSurvives ==
    [][\A t \in Tasks :
          Commit(t) => \A u \in fetched[t] \ Bad : rows'[u] > 0]_vars

(***************************************************************************)
(* Every article is stored in the end unless its own download or the run   *)
(* that had it fails: overlapping runs claim each other's URLs and wait    *)
(* for each other's inserts, but none falls between them.                  *)
(***************************************************************************)
AllStored == \A u \in Urls : <>(rows[u] > 0 \/ u \in dropped)
=============================================================================
