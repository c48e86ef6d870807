---------------------------- MODULE AccountSignup ----------------------------
(***************************************************************************)
(* Sign-up and verification of one e-mail address: AuthService.signup,     *)
(* verify_email and resend_verification_email.  The link is stored in      *)
(* Redis and mailed BEFORE the transaction that inserts the user commits;  *)
(* the cooldown of a resend is taken before its mail is sent.              *)
(***************************************************************************)
EXTENDS Integers, FiniteSets

CONSTANTS
    SgnRequests,   \* handlers that can run at the same time
    SgnUsers,      \* bound: user ids drawn by sign-ups
    SgnTokens      \* bound: links alive at one time

ASSUME SgnAssumption == SgnUsers \subseteq Nat \ {0}

VARIABLES
    account,    \* the committed row of the address
    links,      \* email_verify:<token> -> user id, in Redis
    inbox,      \* links that have reached the user (external)
    cooldown,   \* email_verify_cooldown:<user> is set
    drawn,      \* user ids drawn so far
    sgn         \* the handlers

sgnVars == <<account, links, inbox, cooldown, drawn, sgn>>

NoAccount == [user |-> 0, verified |-> FALSE]
SgnIdle == [pc |-> "idle", user |-> 0, token |-> 0]

SgnInit ==
    /\ account = NoAccount /\ links = {} /\ inbox = {} /\ cooldown = FALSE /\ drawn = {}
    /\ sgn = [r \in SgnRequests |-> SgnIdle]

SgnGoto(r, label) == sgn' = [sgn EXCEPT ![r].pc = label]
SgnEnd(r) == sgn' = [sgn EXCEPT ![r] = SgnIdle]

\* A new row of the address that is not committed yet.
HoldsEmail(r) == sgn[r].pc \in {"store", "send", "signup_commit"}

\* The SELECT finds nobody (else 409).
signup(r) ==
    /\ sgn[r].pc = "idle" /\ account.user = 0
    /\ SgnGoto(r, "insert")
    /\ UNCHANGED <<account, links, inbox, cooldown, drawn>>

\* The unique index makes the INSERT wait, and fail if the row is there by now.
SignupInsert(r, u) ==
    /\ sgn[r].pc = "insert" /\ \A q \in SgnRequests : ~HoldsEmail(q)
    /\ IF account.user # 0
       THEN SgnEnd(r) /\ UNCHANGED drawn
       ELSE /\ u \notin drawn /\ drawn' = drawn \cup {u}
            /\ sgn' = [sgn EXCEPT ![r].pc = "store", ![r].user = u]
    /\ UNCHANGED <<account, links, inbox, cooldown>>

\* SETEX of the link; t stands for a token nobody has seen.
StoreLink(r, t) ==
    /\ sgn[r].pc \in {"store", "resend_store"}
    /\ t \notin {l.token : l \in links} \cup {sgn[q].token : q \in SgnRequests}
    /\ links' = links \cup {[token |-> t, user |-> sgn[r].user]}
    /\ inbox' = inbox \ {t}
    /\ sgn' = [sgn EXCEPT ![r].token = t,
                          ![r].pc = IF @ = "store" THEN "send" ELSE "resend_send"]
    /\ UNCHANGED <<account, cooldown, drawn>>

\* send_verification_email: a mail server's error ends the request.
send_verification_email(r, ok) ==
    /\ sgn[r].pc \in {"send", "resend_send"}
    /\ inbox' = IF ok THEN inbox \cup {sgn[r].token} ELSE inbox
    /\ IF ok /\ sgn[r].pc = "send" THEN SgnGoto(r, "signup_commit") ELSE SgnEnd(r)
    /\ UNCHANGED <<account, links, cooldown, drawn>>

SignupCommit(r) ==
    /\ sgn[r].pc = "signup_commit"
    /\ account' = [user |-> sgn[r].user, verified |-> FALSE]
    /\ SgnEnd(r)
    /\ UNCHANGED <<links, inbox, cooldown, drawn>>

-----------------------------------------------------------------------------
\* The user opens a link: Redis knows it (else 400), the user exists (else 404).
verify_email(r, t) ==
    /\ sgn[r].pc = "idle" /\ t \in inbox
    /\ \E l \in links : l.token = t /\ l.user = account.user /\ account.user # 0
    /\ sgn' = [sgn EXCEPT ![r] = [pc |-> "unlink", user |-> account.user, token |-> t]]
    /\ UNCHANGED <<account, links, inbox, cooldown, drawn>>

\* DELETE of the link, while email_verified_at is flushed but not committed.
VerifyUnlink(r) ==
    /\ sgn[r].pc = "unlink"
    /\ links' = {l \in links : l.token # sgn[r].token}
    /\ SgnGoto(r, "verify_commit")
    /\ UNCHANGED <<account, inbox, cooldown, drawn>>

VerifyCommit(r) ==
    /\ sgn[r].pc = "verify_commit"
    /\ account' = [account EXCEPT !.verified = TRUE]
    /\ SgnEnd(r)
    /\ UNCHANGED <<links, inbox, cooldown, drawn>>

\* resend_verification_email: SET NX of the cooldown comes first.
resend_verification_email(r) ==
    /\ sgn[r].pc = "idle" /\ account.user # 0 /\ ~account.verified
    /\ ~cooldown
    /\ cooldown' = TRUE
    /\ sgn' = [sgn EXCEPT ![r] = [SgnIdle EXCEPT !.pc = "resend_store", !.user = account.user]]
    /\ UNCHANGED <<account, links, inbox, drawn>>

-----------------------------------------------------------------------------
\* Fault: the cooldown key is set without a lifetime.
CooldownStays == FALSE /\ UNCHANGED sgnVars

CooldownEnds ==
    /\ cooldown /\ cooldown' = FALSE
    /\ UNCHANGED <<account, links, inbox, drawn, sgn>>

\* 24 hours: longer than any request takes.
LinkExpires(l) ==
    /\ \A r \in SgnRequests : sgn[r].token # l.token
    /\ links' = links \ {l}
    /\ UNCHANGED <<account, inbox, cooldown, drawn, sgn>>

SgnCrash(r) ==
    /\ sgn[r].pc # "idle"
    /\ SgnEnd(r)
    /\ UNCHANGED <<account, links, inbox, cooldown, drawn>>

SgnStep(r) ==
    \/ \E u \in SgnUsers : SignupInsert(r, u)
    \/ \E t \in SgnTokens : StoreLink(r, t)
    \/ \E ok \in BOOLEAN : send_verification_email(r, ok)
    \/ SignupCommit(r) \/ VerifyUnlink(r) \/ VerifyCommit(r)

SgnOpen(r) == \E t \in SgnTokens : verify_email(r, t)

SgnNext ==
    \/ \E r \in SgnRequests : signup(r) \/ SgnOpen(r) \/ resend_verification_email(r)
                              \/ SgnStep(r) \/ SgnCrash(r)
    \/ CooldownEnds
    \/ \E l \in links : LinkExpires(l)

SgnSpec == SgnInit /\ [][SgnNext]_sgnVars

-----------------------------------------------------------------------------
(***************************************************************************)
(* Whatever happened before (the mail failed after the cooldown was taken, *)
(* the link was deleted and the worker died before COMMIT, the link        *)
(* expired), a user who keeps trying gets the address verified.            *)
(***************************************************************************)
CanVerify == (account.user # 0) ~> account.verified
=============================================================================
