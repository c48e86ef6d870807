----------------------------- MODULE PeerBenchmark -----------------------------
(***************************************************************************)
(* Peer comparison: the nightly aggregation of opted-in users by the size  *)
(* of their portfolios, while users opt in and out and trade, and the      *)
(* panel a user is shown.  (Archetype and age split buckets the same way.) *)
(***************************************************************************)
EXTENDS Integers, FiniteSets

CONSTANTS
    Members,      \* users
    MinSamples,   \* MIN_BUCKET_SAMPLES
    Worths        \* values a portfolio can have, 0 when nothing is held

ASSUME PeerAssumption == MinSamples \in Nat /\ Worths \subseteq Nat /\ 0 \in Worths

VARIABLES
    shares,     \* users.share_anonymously
    worth,      \* value of the portfolio; 0: nothing held
    peers,      \* peer_aggregates: size bucket -> row
    agg         \* the aggregation

peerVars == <<shares, worth, peers, agg>>

AggIdle == [pc |-> "idle"]

PeerInit ==
    /\ shares = {} /\ worth = [u \in Members |-> 0]
    /\ peers = <<>> /\ agg = AggIdle

\* buckets.size_bucket: what the panel looks up.
size_bucket(value) == IF value < 100000 THEN "<100K" ELSE "100K-500K"

\* The aggregation's own copy gets None for a portfolio without value.
_size_bucket(value) == IF value <= 0 THEN "unknown" ELSE size_bucket(value)

share_anonymously(u) ==
    /\ shares' = IF u \in shares THEN shares \ {u} ELSE shares \cup {u}
    /\ UNCHANGED <<worth, peers, agg>>

\* changed is history: the user traded between the three SELECTs about him.
PortfolioChanges(u, value) ==
    /\ worth[u] # value /\ worth' = [worth EXCEPT ![u] = value]
    /\ agg' = IF agg.pc \in {"jan1", "holdings"} /\ agg.user = u THEN [agg EXCEPT !.changed = TRUE] ELSE agg
    /\ UNCHANGED <<shares, peers>>

\* _load_samples: the opted-in users in one SELECT ...
_load_samples ==
    /\ agg.pc = "idle"
    /\ agg' = [pc |-> "summarise", users |-> shares, left |-> shares, samples |-> {}]
    /\ UNCHANGED <<shares, worth, peers>>

\* ... and their portfolios one after the other, each by three SELECTs: the market value,
\* which decides the bucket (without any, the other two are not asked) ...
_summarise_portfolio(u) ==
    /\ agg.pc = "summarise" /\ u \in agg.left
    /\ LET bucket == _size_bucket(worth[u])
       IN  agg' = IF worth[u] > 0
                  THEN [pc |-> "jan1", users |-> agg.users, left |-> agg.left \ {u}, samples |-> agg.samples,
                        user |-> u, bucket |-> bucket, changed |-> FALSE]
                  ELSE [agg EXCEPT !.left = @ \ {u},
                                   !.samples = @ \cup {[user |-> u, bucket |-> bucket, ytd |-> FALSE,
                                                        sectors |-> FALSE, changed |-> FALSE]}]
    /\ UNCHANGED <<shares, worth, peers>>

\* ... the value in January of what is held now: without any there is no return ...
JanuaryValue ==
    /\ agg.pc = "jan1"
    /\ agg' = [pc |-> "holdings", users |-> agg.users, left |-> agg.left, samples |-> agg.samples,
               user |-> agg.user, bucket |-> agg.bucket, changed |-> agg.changed,
               ytd |-> worth[agg.user] > 0]
    /\ UNCHANGED <<shares, worth, peers>>

\* ... and the holdings with their sectors.
Holdings ==
    /\ agg.pc = "holdings"
    /\ agg' = [pc |-> "summarise", users |-> agg.users, left |-> agg.left,
               samples |-> agg.samples \cup
                   {[user |-> agg.user, bucket |-> agg.bucket, ytd |-> agg.ytd,
                     sectors |-> worth[agg.user] > 0, changed |-> agg.changed]}]
    /\ UNCHANGED <<shares, worth, peers>>

Grouped(bucket) == {s \in agg.samples : s.bucket = bucket}

\* Fault: the floor is compared with the number of all samples.
PublishedAll == {s.bucket : s \in {t \in agg.samples : Cardinality(agg.samples) >= MinSamples}}

\* Buckets below the floor are skipped: a row from an earlier night stays.
Published == {s.bucket : s \in {t \in agg.samples : Cardinality(Grouped(t.bucket)) >= MinSamples}}

_aggregate_bucket(bucket) ==
    [sample_count |-> Cardinality(Grouped(bucket)),
     users |-> {s.user : s \in Grouped(bucket)},
     consented |-> {s.user : s \in Grouped(bucket)} \subseteq agg.users,
     changed |-> \A s \in Grouped(bucket) : s.changed,
     median_ytd_return |-> \E s \in Grouped(bucket) : s.ytd,
     sector_allocation |-> \E s \in Grouped(bucket) : s.sectors]

\* _upsert_bucket for every bucket, and COMMIT.
run_aggregation ==
    /\ agg.pc = "summarise" /\ agg.left = {}
    /\ peers' = [b \in Published \cup DOMAIN peers |->
                    IF b \in Published THEN _aggregate_bucket(b) ELSE peers[b]]
    /\ agg' = AggIdle
    /\ UNCHANGED <<shares, worth>>

AggCrash == agg.pc # "idle" /\ agg' = AggIdle /\ UNCHANGED <<shares, worth, peers>>

PeerNext ==
    \/ \E u \in Members :
         \/ share_anonymously(u) \/ _summarise_portfolio(u)
         \/ \E value \in Worths : PortfolioChanges(u, value)
    \/ _load_samples \/ JanuaryValue \/ Holdings \/ run_aggregation \/ AggCrash

PeerSpec == PeerInit /\ [][PeerNext]_peerVars

\* The panel of a user who has a portfolio.  It reads "pct" where the
\* aggregation wrote "median_pct".
panel(u) ==
    LET bucket == size_bucket(worth[u])
    IN  IF bucket \notin DOMAIN peers \/ (bucket \in DOMAIN peers /\ peers[bucket].sample_count < MinSamples)
        THEN "hidden"
        ELSE IF peers[bucket].sector_allocation THEN "KeyError" ELSE "shown"

-----------------------------------------------------------------------------
(***************************************************************************)
(* "k-anonymity floor", opt-in only: whatever users do while the nightly   *)
(* run reads them one by one, a stored row speaks of at least MinSamples   *)
(* different users who had opted in when the run began, and counts each    *)
(* once.  It stays after they opt out.  (The module's docstring also says  *)
(* that smaller buckets are stored for the operators; the code skips       *)
(* them.)  A row has sectors or a return only outside the bucket of users  *)
(* without holdings, "unknown", which no panel looks up, and lacks sectors *)
(* there only if all its users traded between the SELECTs about them; a    *)
(* panel, which fails on a row with sectors, is shown from no other row.   *)
(***************************************************************************)
PeersAnonymous ==
    /\ \A b \in DOMAIN peers :
         /\ peers[b].sample_count = Cardinality(peers[b].users)
         /\ peers[b].sample_count >= MinSamples
         /\ peers[b].consented
         /\ peers[b].sector_allocation \/ peers[b].median_ytd_return => b # "unknown"
         /\ b # "unknown" => peers[b].sector_allocation \/ peers[b].changed
    /\ \A u \in Members : panel(u) = "shown" => peers[size_bucket(worth[u])].changed
=============================================================================
