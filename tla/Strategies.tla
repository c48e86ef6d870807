------------------------------ MODULE Strategies ------------------------------
(***************************************************************************)
(* Shared strategies: CustomStrategyService behind its router.  A fork     *)
(* reads its source in one statement and inserts in another; the other     *)
(* requests touch one row of their owner and are one step each.            *)
(***************************************************************************)
EXTENDS Integers, FiniteSets

CONSTANTS
    StrRequests,   \* fork handlers that can run at the same time
    StrUsers,
    StrIds,        \* bound: strategies ever created
    StrTexts,      \* bound: the rules a user can think of
    MaxForks       \* bound: "(forked)" suffixes of a name

ASSUME StrAssumption == MaxForks \in Nat /\ 0 \notin StrIds

VARIABLES
    strategies,    \* user_strategies
    released,      \* history: the rules that public strategies have shown
    strDrawn,      \* ids drawn so far
    str            \* the fork handlers

strVars == <<strategies, released, strDrawn, str>>

StrIdle == [pc |-> "idle"]

StrInit ==
    /\ strategies = {} /\ released = {} /\ strDrawn = {}
    /\ str = [r \in StrRequests |-> StrIdle]

list_for_user(user) == {s \in strategies : s.user = user}
list_public == {s \in strategies : s.is_public}

PublicRules(rows) == {s.rules : s \in {t \in rows : t.is_public}}

\* Rules that validate lets through, with the user who wrote them.
Written(user) == [by : {user}, text : StrTexts]

\* uq_user_strategies_user_name
NameFree(user, forks, id) == \A s \in list_for_user(user) : s.forks = forks => s.id = id

\* A strategy's name is told by its number of "(forked)" suffixes.
create_strategy(id, user, forks, public, rules) ==
    /\ id \notin strDrawn /\ NameFree(user, forks, id)
    /\ strategies' = strategies \cup {[id |-> id, user |-> user, forks |-> forks, is_public |-> public,
                                       forked_from |-> 0, rules |-> rules]}
    /\ strDrawn' = strDrawn \cup {id}
    /\ released' = released \cup PublicRules(strategies')
    /\ UNCHANGED str

\* By its owner, who may give new rules (validated again: refused ones are a
\* 422 and change nothing); a name the owner has already is a 409.
update_strategy(s, forks, public, rules) ==
    /\ NameFree(s.user, forks, s.id)
    /\ strategies' = (strategies \ {s}) \cup
                        {[s EXCEPT !.forks = forks, !.is_public = public, !.rules = rules]}
    /\ released' = released \cup PublicRules(strategies')
    /\ UNCHANGED <<strDrawn, str>>

\* forked_from is ON DELETE SET NULL.
delete_strategy(s) ==
    /\ strategies' = {IF t.forked_from = s.id THEN [t EXCEPT !.forked_from = 0] ELSE t :
                        t \in strategies \ {s}}
    /\ UNCHANGED <<released, strDrawn, str>>

\* Fault: any strategy can be forked by its id.
ForkAny(r, id, user, source) ==
    /\ str[r].pc = "idle" /\ source \in strategies /\ id \notin strDrawn
    /\ strDrawn' = strDrawn \cup {id}
    /\ str' = [str EXCEPT ![r] = [pc |-> "insert", id |-> id, user |-> user, source |-> source]]
    /\ UNCHANGED <<strategies, released>>

\* fork: the source must be public, else 404.
fork(r, id, user, source) ==
    /\ str[r].pc = "idle" /\ source \in list_public /\ id \notin strDrawn
    /\ strDrawn' = strDrawn \cup {id}
    /\ str' = [str EXCEPT ![r] = [pc |-> "insert", id |-> id, user |-> user, source |-> source]]
    /\ UNCHANGED <<strategies, released>>

\* The INSERT, private: 409 on a taken name, an error when the source is gone.
ForkCommit(r) ==
    LET source == str[r].source
        forks == source.forks + 1
    IN  /\ str[r].pc = "insert"
        /\ strategies' =
             IF NameFree(str[r].user, forks, str[r].id) /\ \E s \in strategies : s.id = source.id
             THEN strategies \cup {[id |-> str[r].id, user |-> str[r].user, forks |-> forks,
                                    is_public |-> FALSE, forked_from |-> source.id,
                                    rules |-> source.rules]}
             ELSE strategies
        /\ str' = [str EXCEPT ![r] = StrIdle]
        /\ UNCHANGED <<released, strDrawn>>

StrCrash(r) ==
    /\ str[r].pc # "idle"
    /\ str' = [str EXCEPT ![r] = StrIdle]
    /\ UNCHANGED <<strategies, released, strDrawn>>

\* The endpoints of the router.
StrategyRoutes(r) ==
    \/ \E id \in StrIds, user \in StrUsers :
         \/ \E public \in BOOLEAN, rules \in Written(user) : create_strategy(id, user, 0, public, rules)
         \/ \E source \in {s \in strategies : s.forks < MaxForks} : fork(r, id, user, source)
    \/ \E s \in strategies :
         \/ delete_strategy(s)
         \/ \E public \in BOOLEAN, forks \in 0 .. MaxForks, rules \in {s.rules} \cup Written(s.user) :
              update_strategy(s, forks, public, rules)

StrNext == \E r \in StrRequests : StrategyRoutes(r) \/ ForkCommit(r) \/ StrCrash(r)

StrSpec == StrInit /\ [][StrNext]_strVars

-----------------------------------------------------------------------------
(***************************************************************************)
(* A user holds rules somebody else wrote only if a public strategy has    *)
(* shown those very rules: over any chain of forks, renames, new rules,    *)
(* deletions and switches back to private, at any moment of a fork.        *)
(***************************************************************************)
RulesWerePublic ==
    \A s \in strategies : s.rules.by # s.user => s.rules \in released
=============================================================================
