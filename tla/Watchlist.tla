------------------------------ MODULE Watchlist ------------------------------
(***************************************************************************)
(* The watchlist of one user: WatchlistService behind its router.  A       *)
(* handler reads, decides in Python and writes; the write and its COMMIT   *)
(* are one step.  The securities the user names all exist here.            *)
(***************************************************************************)
EXTENDS Integers, FiniteSets, Sequences, SequencesExt

CONSTANTS
    WlRequests,   \* handlers that can run at the same time
    WlSymbols,
    MaxOrder,     \* bound: sort_order
    MaxAdds,      \* bound: adds that begin
    MaxAsked      \* bound: symbols in a request to reorder

ASSUME WlAssumption ==
    MaxOrder \in Nat /\ MaxAdds \in Nat /\ MaxAsked \in Nat /\ IsFiniteSet(WlSymbols)

VARIABLES
    watchlist,    \* committed rows: symbol -> sort_order
    added_at,     \* committed rows: symbol -> when the transaction that added it began
    wlClock,      \* the database's now(): adds begun
    wlAlone,      \* history: no other handler has run during its lifetime
    wl            \* the handlers

wlVars == <<watchlist, added_at, wlClock, wlAlone, wl>>

WlIdle == [pc |-> "idle"]

WlInit ==
    /\ watchlist = << >>
    /\ added_at = << >>
    /\ wlClock = 0
    /\ wlAlone = [r \in WlRequests |-> FALSE]
    /\ wl = [r \in WlRequests |-> WlIdle]

WlStart(r, job) ==
    /\ wl[r].pc = "idle"
    /\ wl' = [wl EXCEPT ![r] = job]
    /\ wlAlone' = [q \in WlRequests |-> q = r /\ \A p \in WlRequests : wl[p].pc = "idle"]
    /\ UNCHANGED <<watchlist, added_at>>

WlEnd(r) ==
    /\ wl' = [wl EXCEPT ![r] = WlIdle]
    /\ wlAlone' = [wlAlone EXCEPT ![r] = FALSE]
    /\ UNCHANGED wlClock

\* get_watchlist, ORDER BY sort_order, added_at
ShownBefore(rows, added, s, t) ==
    rows[s] < rows[t] \/ (rows[s] = rows[t] /\ added[s] < added[t])

is_watching(symbol) == symbol \in DOMAIN watchlist

-----------------------------------------------------------------------------
MaxSort(rows) ==
    IF DOMAIN rows = {} THEN 0
    ELSE CHOOSE n \in {rows[s] : s \in DOMAIN rows} : \A s \in DOMAIN rows : rows[s] <= n

\* SELECT max(sort_order); added_at will be now(), the start of this transaction.
add(r, symbol) ==
    /\ MaxSort(watchlist) < MaxOrder /\ wlClock < MaxAdds
    /\ wlClock' = wlClock + 1
    /\ WlStart(r, [pc |-> "insert", symbol |-> symbol, order |-> MaxSort(watchlist) + 1, at |-> wlClock'])

\* A row more.
With(rows, symbol, value) ==
    [s \in DOMAIN rows \cup {symbol} |-> IF s = symbol THEN value ELSE rows[s]]

\* INSERT, or 409 when the symbol is there by now.
AddCommit(r) ==
    /\ wl[r].pc = "insert"
    /\ IF is_watching(wl[r].symbol) THEN UNCHANGED <<watchlist, added_at>>
       ELSE /\ watchlist' = With(watchlist, wl[r].symbol, wl[r].order)
            /\ added_at' = With(added_at, wl[r].symbol, wl[r].at)
    /\ WlEnd(r)

remove(symbol) ==
    /\ is_watching(symbol)
    /\ watchlist' = [s \in DOMAIN watchlist \ {symbol} |-> watchlist[s]]
    /\ added_at' = [s \in DOMAIN added_at \ {symbol} |-> added_at[s]]
    /\ wlAlone' = [r \in WlRequests |-> FALSE]
    /\ UNCHANGED <<wlClock, wl>>

\* The rest, sorted by sort_order alone: the sort keeps the order in which rows of equal
\* number were read, and the SELECT has no ORDER BY, so it may be any.
RestOrders(rows, wanted) ==
    {q \in SetToSeqs(DOMAIN rows \ ToSet(wanted)) :
        \A i, j \in DOMAIN q : i < j => rows[q[i]] <= rows[q[j]]}

\* The number the loop over the request leaves a symbol: its last place there.
LastPlace(wanted, s) ==
    CHOOSE i \in DOMAIN wanted : wanted[i] = s /\ \A j \in DOMAIN wanted : wanted[j] = s => j <= i

\* Fault: the rest starts at the number of the last symbol asked for.
NumberedFromLast(wanted, rest) ==
    [s \in ToSet(wanted) \cup ToSet(rest) |->
        IF s \in ToSet(wanted) THEN LastPlace(wanted, s)
        ELSE Len(wanted) - 1 + CHOOSE i \in DOMAIN rest : rest[i] = s]

\* The symbols asked for are numbered from 1, the rest is pushed to the end.
Numbered(wanted, rest) ==
    [s \in ToSet(wanted) \cup ToSet(rest) |->
        IF s \in ToSet(wanted) THEN LastPlace(wanted, s)
        ELSE Len(wanted) + CHOOSE i \in DOMAIN rest : rest[i] = s]

\* Every symbol asked for must be in the list, else 400.
reorder(r, wanted) ==
    /\ ToSet(wanted) \subseteq DOMAIN watchlist
    /\ UNCHANGED wlClock
    /\ \E rest \in RestOrders(watchlist, wanted) :
         WlStart(r, [pc |-> "renumber", loaded |-> watchlist, wanted |-> wanted,
                     orders |-> Numbered(wanted, rest)])

\* The rows whose number changed; one that is gone raises StaleDataError.
Renumbered(r) ==
    [s \in DOMAIN watchlist |->
        IF s \in DOMAIN wl[r].loaded /\ wl[r].orders[s] # wl[r].loaded[s]
        THEN wl[r].orders[s] ELSE watchlist[s]]

ReorderCommit(r) ==
    /\ wl[r].pc = "renumber"
    /\ watchlist' =
         IF \E s \in DOMAIN wl[r].loaded : ~is_watching(s) /\ wl[r].orders[s] # wl[r].loaded[s]
         THEN watchlist ELSE Renumbered(r)
    /\ WlEnd(r)
    /\ UNCHANGED added_at

WlCrash(r) ==
    /\ wl[r].pc # "idle"
    /\ WlEnd(r)
    /\ UNCHANGED <<watchlist, added_at>>

\* The endpoints that change the list.
WlRoutes(r) ==
    \/ \E symbol \in WlSymbols : add(r, symbol)
    \/ \E n \in 0 .. MaxAsked : \E wanted \in [1 .. n -> WlSymbols] : reorder(r, wanted)

WlNext ==
    \/ \E r \in WlRequests : WlRoutes(r) \/ AddCommit(r) \/ ReorderCommit(r) \/ WlCrash(r)
    \/ \E symbol \in WlSymbols : remove(symbol)

WlSpec == WlInit /\ [][WlNext]_wlVars

-----------------------------------------------------------------------------
(***************************************************************************)
(* Overlapping adds can give two rows the same number, and the list then   *)
(* shows the one added first in front.  A reorder that no other handler    *)
(* overlaps gives all rows different numbers, shows the symbols asked for  *)
(* first and as asked (a symbol named twice at its last place), and, as    *)
(* its comment says, keeps the relative order of the rest - of rows whose  *)
(* numbers differed: rows that shared a number may swap, since the         *)
(* reorder, unlike the list, does not look at added_at.                    *)
(***************************************************************************)
ReorderRepairs ==
    [][\A r \in WlRequests :
          wlAlone[r] /\ ReorderCommit(r) =>
            LET wanted == wl[r].wanted
                rest == DOMAIN watchlist' \ ToSet(wanted)
                Before(s, t) == ShownBefore(watchlist, added_at, s, t)
                After(s, t) == ShownBefore(watchlist', added_at', s, t)
            IN  /\ \A s, t \in DOMAIN watchlist' : s # t => watchlist'[s] # watchlist'[t]
                /\ \A s, t \in ToSet(wanted) : LastPlace(wanted, s) < LastPlace(wanted, t) => After(s, t)
                /\ \A s \in ToSet(wanted), t \in rest : After(s, t)
                /\ \A s, t \in rest : Before(s, t) /\ watchlist[s] # watchlist[t] => After(s, t)]_wlVars
=============================================================================
