------------------------------ MODULE MCServices ------------------------------
(***************************************************************************)
(* The state machines of the services for TLC.  They share no table, so a  *)
(* behaviour is about one of them (focus); the others stand still.         *)
(***************************************************************************)
EXTENDS AccountSessions, AccountSignup, AccountTotp, Portfolios, Watchlist, Learning, Strategies,
        Notifications, Purification, Prices, Scrapers, Alerts, PeerBenchmark, MarketCache, MacroIngest

CONSTANT Focuses   \* the components of this instance

VARIABLE focus

svcVars ==
    <<focus, sesVars, sgnVars, tfaVars, pflVars, wlVars, lrnVars, strVars, ntfVars, purVars,
      prcVars, scrVars, alrtVars, peerVars, cchVars, macVars>>

\* Requests are interchangeable.
Symmetry == Permutations(SesRequests)

-----------------------------------------------------------------------------
\* Announcements: one that names two kinds, one that names its kind, one without.
MCAnnouncements ==
    {[id |-> 1, exact |-> {}, contains |-> {"stock dividend", "dividend"}, date |-> 2],
     [id |-> 2, exact |-> {"bonus"}, contains |-> {"bonus"}, date |-> 0],
     [id |-> 3, exact |-> {}, contains |-> {}, date |-> 1]}

\* A loud day that falls by 0.004 percent, a pump, a dump, and a bar with a missing price.
MCDayBars ==
    {[open |-> 50000, close |-> 49998, volume |-> 1, score |-> 60, complete |-> TRUE],
     [open |-> 10, close |-> 11, volume |-> 8, score |-> 30, complete |-> TRUE],
     [open |-> 11, close |-> 10, volume |-> 8, score |-> 0, complete |-> TRUE],
     [open |-> 10, close |-> 10, volume |-> 1, score |-> 0, complete |-> FALSE]}

-----------------------------------------------------------------------------
SvcInit ==
    /\ focus \in Focuses
    /\ SesInit /\ SgnInit /\ TfaInit /\ PflInit /\ WlInit /\ LrnInit /\ StrInit /\ NtfInit
    /\ PurInit /\ PrcInit /\ ScrInit /\ AlrtInit /\ PeerInit /\ CchInit /\ MacInit
    /\ focus # "sessions" => password = [is |-> Min(SesPasswords), outdated |-> FALSE]
    /\ \A d \in DOMAIN days : days[d].volume = 1
    /\ focus # "macro" => pages.policy = Min(MacValues)

\* Everything but the component in focus stays as it is.
Rest ==
    /\ UNCHANGED focus
    /\ IF focus = "sessions" THEN TRUE ELSE UNCHANGED sesVars
    /\ IF focus = "signup" THEN TRUE ELSE UNCHANGED sgnVars
    /\ IF focus = "totp" THEN TRUE ELSE UNCHANGED tfaVars
    /\ IF focus = "portfolios" THEN TRUE ELSE UNCHANGED pflVars
    /\ IF focus = "watchlist" THEN TRUE ELSE UNCHANGED wlVars
    /\ IF focus = "learning" THEN TRUE ELSE UNCHANGED lrnVars
    /\ IF focus = "strategies" THEN TRUE ELSE UNCHANGED strVars
    /\ IF focus = "notifications" THEN TRUE ELSE UNCHANGED ntfVars
    /\ IF focus = "purification" THEN TRUE ELSE UNCHANGED purVars
    /\ IF focus = "prices" THEN TRUE ELSE UNCHANGED prcVars
    /\ IF focus = "scrapers" THEN TRUE ELSE UNCHANGED scrVars
    /\ IF focus = "alerts" THEN TRUE ELSE UNCHANGED alrtVars
    /\ IF focus = "peers" THEN TRUE ELSE UNCHANGED peerVars
    /\ IF focus = "cache" THEN TRUE ELSE UNCHANGED cchVars
    /\ IF focus = "macro" THEN TRUE ELSE UNCHANGED macVars

SvcNext ==
    \/ focus = "sessions" /\ SesNext /\ Rest
    \/ focus = "signup" /\ SgnNext /\ Rest
    \/ focus = "totp" /\ TfaNext /\ Rest
    \/ focus = "portfolios" /\ PflNext /\ Rest
    \/ focus = "watchlist" /\ WlNext /\ Rest
    \/ focus = "learning" /\ LrnNext /\ Rest
    \/ focus = "strategies" /\ StrNext /\ Rest
    \/ focus = "notifications" /\ NtfNext /\ Rest
    \/ focus = "purification" /\ PurNext /\ Rest
    \/ focus = "prices" /\ PrcNext /\ Rest
    \/ focus = "scrapers" /\ ScrNext /\ Rest
    \/ focus = "alerts" /\ AlrtNext /\ Rest
    \/ focus = "peers" /\ PeerNext /\ Rest
    \/ focus = "cache" /\ CchNext /\ Rest
    \/ focus = "macro" /\ MacNext /\ Rest

SvcSpec == SvcInit /\ [][SvcNext]_svcVars

-----------------------------------------------------------------------------
\* A step of the component in focus.
Of(component, A) == focus = component /\ A /\ Rest

\* Handlers run on and windows end.
SesFairness ==
    /\ WF_svcVars(Of("sessions", WindowEnds))
    /\ \A r \in SesRequests : WF_svcVars(Of("sessions", SesStep(r)))

\* Handlers run on, lifetimes end, the user keeps asking for a mail and opening
\* what arrives, the mail server works now and then, workers stop crashing.
SgnFairness ==
    /\ \A r \in SgnRequests : WF_svcVars(Of("signup", SgnStep(r)))
    /\ SF_svcVars(Of("signup", \E r \in SgnRequests : send_verification_email(r, TRUE)))
    /\ SF_svcVars(Of("signup", \E r \in SgnRequests : SgnOpen(r)))
    /\ SF_svcVars(Of("signup", \E r \in SgnRequests : resend_verification_email(r)))
    /\ WF_svcVars(Of("signup", CooldownEnds))
    /\ WF_svcVars(Of("signup", \E l \in links : LinkExpires(l)))
    /\ <>[][\A r \in SgnRequests : SgnCrash(r) => SgnStep(r)]_sgnVars

\* Beat starts the recompute every evening, a started task keeps running, and
\* not every run of it dies.
PrcFairness ==
    /\ \A t \in PrcTasks : WF_svcVars(Of("prices", PrcStep(t)))
    /\ WF_svcVars(Of("prices", \E t \in PrcTasks : recompute_adjusted_prices(t)))
    /\ SF_svcVars(Of("prices", \E t \in PrcTasks : FetchEvents(t)))
    /\ SF_svcVars(Of("prices", \E t \in PrcTasks : _write_adjusted_prices(t)))

LiveSpec == SvcSpec /\ SesFairness /\ SgnFairness /\ PrcFairness

-----------------------------------------------------------------------------
(***************************************************************************)
(* What was entered or learned is kept.  Under any overlap: a lesson is    *)
(* completed exactly when a stored quiz passed, its score is that of a     *)
(* stored quiz, a record of purification holds a received amount, rules    *)
(* reach another user only through a public strategy, and no details of    *)
(* corporate actions are lost.  Only until two requests of the service     *)
(* have overlapped: the best score, the last donation mark and the last    *)
(* setting of every switch (each is read, merged and written back).        *)
(***************************************************************************)
RecordsKept ==
    [][DetailsKept /\ (SwitchesKept /\ MarksKept /\ RulesWerePublic /\ QuizRecord)']_svcVars

(***************************************************************************)
(* What is derived from stored or fetched data speaks of that data: alerts *)
(* of their day's bar, aggregates of enough users who agreed, answers from *)
(* the cache of a recent row, macro points of what the bank has shown.     *)
(***************************************************************************)
DerivedDataExact == AlertsSound /\ PeersAnonymous /\ CacheFresh /\ MacroExact
=============================================================================
