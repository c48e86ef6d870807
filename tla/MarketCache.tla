------------------------------ MODULE MarketCache ------------------------------
(***************************************************************************)
(* cache.py: one read-through key of the market endpoints, while the row   *)
(* behind it changes and requests overlap.  Nothing invalidates a key      *)
(* (invalidate_securities_cache has no caller), so only its lifetime ends  *)
(* a stale entry.  Time is counted in units of the shortest lifetime.      *)
(***************************************************************************)
EXTENDS Integers

CONSTANTS
    CchRequests,   \* requests for the key
    Ttl,           \* lifetime given to SETEX
    MaxLoad,       \* bound: how long a loader can take
    MaxTime,       \* bound: time
    MaxVersions    \* bound: changes of the row

ASSUME CacheAssumption == {Ttl, MaxLoad, MaxTime, MaxVersions} \subseteq Nat

VARIABLES
    now,
    replaced,   \* history: when each version of the row was replaced
    entry,      \* the key in Redis
    cch,        \* the requests
    served      \* history: the last answer

cchVars == <<now, replaced, entry, cch, served>>

Absent == 0     \* version 0: the row does not exist yet, the loader returns None
NoEntry == [version |-> Absent, expires |-> 0]
CchIdle == [pc |-> "idle"]
Current == CHOOSE v \in DOMAIN replaced : v + 1 \notin DOMAIN replaced
Never == MaxTime + 1

CchInit ==
    /\ now = 0 /\ replaced = [v \in {Absent} |-> Never] /\ entry = NoEntry
    /\ cch = [r \in CchRequests |-> CchIdle]
    /\ served = [version |-> Absent, at |-> 0]

Tick ==
    /\ now < MaxTime /\ now' = now + 1
    /\ \A r \in CchRequests : cch[r].pc # "idle" => now - cch[r].since < MaxLoad
    /\ UNCHANGED <<replaced, entry, cch, served>>

\* The ingest commits a new version of the row.
RowChanges ==
    /\ Current < MaxVersions
    /\ replaced' = [v \in 0 .. Current + 1 |-> IF v = Current THEN now
                                                ELSE IF v > Current THEN Never ELSE replaced[v]]
    /\ UNCHANGED <<now, entry, cch, served>>

\* Fault: a hit renews the lifetime.
CacheGetRenews(r) ==
    /\ cch[r].pc = "idle"
    /\ IF now < entry.expires
       THEN /\ served' = [version |-> entry.version, at |-> now]
            /\ entry' = [entry EXCEPT !.expires = now + Ttl]
            /\ UNCHANGED cch
       ELSE /\ cch' = [cch EXCEPT ![r] = [pc |-> "load", since |-> now]]
            /\ UNCHANGED <<served, entry>>
    /\ UNCHANGED <<now, replaced>>

\* GET: a hit is the answer, a miss runs the loader.
cache_get(r) ==
    /\ cch[r].pc = "idle"
    /\ IF now < entry.expires
       THEN served' = [version |-> entry.version, at |-> now] /\ UNCHANGED cch
       ELSE cch' = [cch EXCEPT ![r] = [pc |-> "load", since |-> now]] /\ UNCHANGED served
    /\ UNCHANGED <<now, replaced, entry>>

\* The loader's SELECT; None is answered and not cached.
cached(r) ==
    /\ cch[r].pc = "load"
    /\ IF Current = Absent
       THEN /\ served' = [version |-> Absent, at |-> now] /\ cch' = [cch EXCEPT ![r] = CchIdle]
       ELSE /\ cch' = [cch EXCEPT ![r] = [pc |-> "set", since |-> cch[r].since, version |-> Current]]
            /\ UNCHANGED served
    /\ UNCHANGED <<now, replaced, entry>>

\* SETEX, whatever is there by now.
cache_set(r) ==
    /\ cch[r].pc = "set"
    /\ entry' = [version |-> cch[r].version, expires |-> now + Ttl]
    /\ served' = [version |-> cch[r].version, at |-> now]
    /\ cch' = [cch EXCEPT ![r] = CchIdle]
    /\ UNCHANGED <<now, replaced>>

\* The worker or its connection to Redis dies: no answer.
CchCrash(r) ==
    /\ cch[r].pc # "idle" /\ cch' = [cch EXCEPT ![r] = CchIdle]
    /\ UNCHANGED <<now, replaced, entry, served>>

CchNext ==
    \/ Tick \/ RowChanges
    \/ \E r \in CchRequests : cache_get(r) \/ cached(r) \/ cache_set(r) \/ CchCrash(r)

CchSpec == CchInit /\ [][CchNext]_cchVars

-----------------------------------------------------------------------------
(***************************************************************************)
(* "TTL policy": an answer was in the database at most a lifetime plus a   *)
(* load ago, although a slow loader may overwrite a newer entry with the   *)
(* older row it has read; and a row that does not exist is never answered  *)
(* from the cache, so one that is added is seen by the next request.       *)
(***************************************************************************)
CacheFresh ==
    /\ replaced[served.version] + Ttl + MaxLoad >= served.at
    /\ served.version = Absent => replaced[Absent] + MaxLoad >= served.at
=============================================================================
