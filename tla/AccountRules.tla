----------------------------- MODULE AccountRules -----------------------------
(***************************************************************************)
(* What an account promises of its password and sessions, whole requests   *)
(* at a time.  A reset ends every session there is.  The one exception is  *)
(* stated, not hidden: a login that a reset overtakes still gets its       *)
(* session, and when it renews the hash it may put its own password back.  *)
(***************************************************************************)
EXTENDS Integers

CONSTANTS Ids, Passwords

VARIABLES
    secret,      \* the password that opens the account
    generation,  \* how many times it was reset
    live,        \* sessions of the present password
    overtaken    \* sessions of logins that a reset has overtaken

rulesVars == <<secret, generation, live, overtaken>>

RulesInit ==
    /\ secret \in Passwords /\ generation = 0
    /\ live = {} /\ overtaken = {}

SignIn(id) ==
    /\ id \notin live \cup overtaken
    /\ live' = live \cup {id}
    /\ UNCHANGED <<secret, generation, overtaken>>

OvertakenSignIn(id) ==
    /\ id \notin live \cup overtaken
    /\ overtaken' = overtaken \cup {id}
    /\ secret' \in Passwords
    /\ UNCHANGED <<generation, live>>

SignOut(ids) ==
    /\ live' = live \ ids
    /\ overtaken' = overtaken \ ids
    /\ UNCHANGED <<secret, generation>>

\* No session outlives it, except the overtaken.
Reset(pw, ids) ==
    /\ secret' = pw
    /\ generation' = generation + 1
    /\ live' = {}
    /\ overtaken' = overtaken \ ids

RulesNext ==
    \/ \E id \in Ids : SignIn(id) \/ OvertakenSignIn(id)
    \/ \E ids \in SUBSET Ids : SignOut(ids) \/ \E pw \in Passwords : Reset(pw, ids)

RulesSpec == RulesInit /\ [][RulesNext]_rulesVars
=============================================================================
