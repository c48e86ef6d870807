------------------------------ MODULE Portfolios ------------------------------
(***************************************************************************)
(* The portfolios of one user: PortfolioService behind its router.  A      *)
(* handler is a transaction: what it read may be stale when it writes.     *)
(* Its last flush and its COMMIT have nothing between them and are one     *)
(* step; the UPDATE that demotes the old default is a step of its own and  *)
(* keeps row locks until that COMMIT.                                      *)
(***************************************************************************)
EXTENDS Integers, FiniteSets

CONSTANTS
    PflRequests,   \* handlers that can run at the same time
    PflIds,        \* bound: portfolios ever created
    PflNames       \* names users give; "Main" is the automatic one

ASSUME PflAssumption == "Main" \in PflNames

VARIABLES
    portfolios,   \* committed rows
    used,         \* ids drawn so far
    had,          \* history: there has been a default portfolio
    gaveUp,       \* history: the user set is_default = false on the default,
                  \* or a delete had checked a row before it was promoted
    pfl           \* the handlers

pflVars == <<portfolios, used, had, gaveUp, pfl>>

PflIdle == [pc |-> "idle"]
Keep == "keep"    \* a field absent from the body of a PATCH

PflInit ==
    /\ portfolios = {} /\ used = {} /\ had = FALSE /\ gaveUp = FALSE
    /\ pfl = [r \in PflRequests |-> PflIdle]

Defaults(rows) == {p \in rows : p.is_default}
PflIdsOf(rows) == {p.id : p \in rows}
PflEnd(r) == pfl' = [pfl EXCEPT ![r] = PflIdle]

\* Rows another transaction has demoted and not committed yet.
LockedBy(q) == IF pfl[q].pc = "write" THEN pfl[q].locked ELSE {}
LockedForOthers(r) == UNION {LockedBy(q) : q \in PflRequests \ {r}}

-----------------------------------------------------------------------------
\* list_portfolios: the first load creates the default.
get_or_create_default(r, id) ==
    /\ pfl[r].pc = "idle" /\ portfolios = {} /\ id \notin used
    /\ used' = used \cup {id}
    /\ pfl' = [pfl EXCEPT ![r] =
                  [pc |-> "write", op |-> "insert", id |-> id, name |-> "Main", def |-> TRUE,
                   locked |-> {}, loaded |-> [is_default |-> FALSE]]]
    /\ UNCHANGED <<portfolios, had, gaveUp>>

\* A new default demotes the old one first.
create(r, id, name, def) ==
    /\ pfl[r].pc = "idle" /\ id \notin used
    /\ used' = used \cup {id}
    /\ pfl' = [pfl EXCEPT ![r] =
                  [pc |-> IF def THEN "demote" ELSE "write", op |-> "insert", id |-> id,
                   name |-> name, def |-> def, locked |-> {}, loaded |-> [is_default |-> FALSE]]]
    /\ UNCHANGED <<portfolios, had, gaveUp>>

\* update: name and is_default may be absent from the body.
update(r, p, name, def) ==
    /\ pfl[r].pc = "idle" /\ p \in portfolios
    /\ pfl' = [pfl EXCEPT ![r] =
                  [pc |-> IF def = "true" /\ ~p.is_default THEN "demote" ELSE "write",
                   op |-> "update", id |-> p.id, name |-> IF name = Keep THEN p.name ELSE name,
                   def |-> IF def = Keep THEN p.is_default ELSE def = "true",
                   locked |-> {}, loaded |-> p]]
    /\ UNCHANGED <<portfolios, used, had, gaveUp>>

\* delete refuses the default; the row it has loaded may be promoted meanwhile.
delete(r, p) ==
    /\ pfl[r].pc = "idle" /\ p \in portfolios /\ ~p.is_default
    /\ pfl' = [pfl EXCEPT ![r] = [pc |-> "delete", id |-> p.id]]
    /\ UNCHANGED <<portfolios, used, had, gaveUp>>

\* UPDATE ... WHERE is_default: the rows of its snapshot.
Demote(r) ==
    /\ pfl[r].pc = "demote"
    /\ pfl' = [pfl EXCEPT ![r].pc = "lock", ![r].locked = PflIdsOf(Defaults(portfolios))]
    /\ UNCHANGED <<portfolios, used, had, gaveUp>>

\* It waits for their locks and then looks at them again.
DemoteLock(r) ==
    /\ pfl[r].pc = "lock" /\ pfl[r].locked \cap LockedForOthers(r) = {}
    /\ pfl' = [pfl EXCEPT ![r].pc = "write",
                          ![r].locked = @ \cap PflIdsOf(Defaults(portfolios))]
    /\ UNCHANGED <<portfolios, used, had, gaveUp>>

\* uq_portfolios_user_name and the partial index uq_portfolios_user_default.
Conflict(r, rows) ==
    \/ \E p \in rows : p.name = pfl[r].name /\ p.id # pfl[r].id
    \/ pfl[r].def /\ pfl[r].loaded.is_default # pfl[r].def
         /\ \E p \in Defaults(rows) : p.id # pfl[r].id

Demoted(r) ==
    {IF p.id \in pfl[r].locked THEN [p EXCEPT !.is_default = FALSE] ELSE p : p \in portfolios}

\* An UPDATE writes the columns that differ from the loaded row.
Updated(r, p) ==
    [p EXCEPT !.name = IF pfl[r].name # pfl[r].loaded.name THEN pfl[r].name ELSE @,
              !.is_default = IF pfl[r].def # pfl[r].loaded.is_default THEN pfl[r].def ELSE @]

\* Fault: the rollback goes back to a savepoint after the demotion.
ConflictKeepsDemotion(r) ==
    /\ pfl[r].pc = "write" /\ Conflict(r, Demoted(r))
    /\ portfolios' = Demoted(r)
    /\ PflEnd(r)
    /\ UNCHANGED <<used, had, gaveUp>>

\* IntegrityError: rollback and 409 (500 from get_or_create_default).
WriteConflict(r) ==
    /\ pfl[r].pc = "write" /\ Conflict(r, Demoted(r))
    /\ PflEnd(r)
    /\ UNCHANGED <<portfolios, used, had, gaveUp>>

\* The flush waits for rows that others have locked, then writes and commits.
\* An UPDATE of a row that is gone raises StaleDataError.
WriteCommit(r) ==
    LET rows == Demoted(r)
        new == IF pfl[r].op = "insert"
               THEN rows \cup {[id |-> pfl[r].id, name |-> pfl[r].name, is_default |-> pfl[r].def]}
               ELSE {IF p.id = pfl[r].id THEN Updated(r, p) ELSE p : p \in rows}
    IN  /\ pfl[r].pc = "write" /\ ~Conflict(r, rows)
        /\ pfl[r].id \notin LockedForOthers(r)
        /\ pfl[r].def => LockedForOthers(r) = {}
        /\ portfolios' = IF pfl[r].op = "update" /\ pfl[r].id \notin PflIdsOf(rows)
                         THEN portfolios ELSE new
        /\ had' = (had \/ Defaults(portfolios') # {})
        /\ gaveUp' = /\ Defaults(portfolios') = {}
                     /\ gaveUp \/ (~pfl[r].def /\ pfl[r].loaded.is_default)
        /\ PflEnd(r)
        /\ UNCHANGED used

DeleteCommit(r) ==
    /\ pfl[r].pc = "delete" /\ pfl[r].id \notin LockedForOthers(r)
    /\ portfolios' = {p \in portfolios : p.id # pfl[r].id}
    /\ gaveUp' = (gaveUp \/ \E p \in Defaults(portfolios) : p.id = pfl[r].id)
    /\ PflEnd(r)
    /\ UNCHANGED <<used, had>>

PflCrash(r) ==
    /\ pfl[r].pc # "idle"
    /\ PflEnd(r)
    /\ UNCHANGED <<portfolios, used, had, gaveUp>>

\* The endpoints of the router that change portfolios.
PflRoutes(r) ==
    \/ \E id \in PflIds :
         \/ get_or_create_default(r, id)
         \/ \E name \in PflNames, def \in BOOLEAN : create(r, id, name, def)
    \/ \E p \in portfolios :
         \/ delete(r, p)
         \/ \E name \in PflNames \cup {Keep}, def \in {"true", "false", Keep} : update(r, p, name, def)

PflStep(r) ==
    Demote(r) \/ DemoteLock(r) \/ WriteConflict(r) \/ WriteCommit(r) \/ DeleteCommit(r)

PflNext == \E r \in PflRequests : PflRoutes(r) \/ PflStep(r) \/ PflCrash(r)

PflSpec == PflInit /\ [][PflNext]_pflVars

-----------------------------------------------------------------------------
(***************************************************************************)
(* A user has at most one default portfolio, and who had one keeps one,    *)
(* also when the request that replaces it fails half way on a name that is *)
(* taken, on the unique index, or in a crash.  Two ways out remain:        *)
(* update(is_default = false), which nothing refuses, and a delete that    *)
(* checked the row before another request promoted it.                     *)
(***************************************************************************)
DefaultKept ==
    /\ Cardinality(Defaults(portfolios)) <= 1
    /\ had /\ ~gaveUp => Defaults(portfolios) # {}
=============================================================================
