--------------------------- MODULE AccountSessions ---------------------------
(***************************************************************************)
(* Passwords, sessions and the login limiter of one account and one        *)
(* address: routers/auth.py, AuthService and LoginRateLimiter.             *)
(*                                                                         *)
(* The user's row and user_sessions are committed tables; a handler is one *)
(* transaction.  Reset links and the failure counter are Redis keys, which *)
(* change at once and which no rollback undoes.  An expired session is     *)
(* refused by every reader, so its row counts as gone.                     *)
(***************************************************************************)
EXTENDS Integers, FiniteSets, TLC

CONSTANTS
    SesRequests,   \* handlers that can run at the same time
    SesPasswords,
    SesIds,        \* bound: sessions, by the hash of their token
    SesTokens,     \* bound: reset links in circulation
    MaxResets,     \* bound: password resets
    MaxAttempts    \* _MAX_ATTEMPTS

ASSUME SesAssumption == IsFiniteSet(SesRequests) /\ MaxResets \in Nat /\ MaxAttempts \in Nat \ {0}

VARIABLES
    password,       \* users.password_hash: whose it is, and by which argon2 parameters
    sessions,       \* user_sessions
    reset_tokens,   \* password_reset:* in Redis
    failures,       \* rate_limit:login:<ip> and whether the key has a lifetime
    epoch,          \* history: resets committed
    orphan,         \* history: a crash kept the counter from getting its lifetime
    ses             \* the handlers

sesTables == <<password, sessions, epoch>>
sesVars == <<password, sessions, reset_tokens, failures, epoch, orphan, ses>>

SesIdle == [pc |-> "idle"]
NoFailures == [count |-> 0, ttl |-> FALSE]

SesInit ==
    /\ password \in [is : SesPasswords, outdated : BOOLEAN]
    /\ sessions = {} /\ reset_tokens = {} /\ failures = NoFailures
    /\ epoch = 0 /\ orphan = FALSE
    /\ ses = [r \in SesRequests |-> SesIdle]

\* An UPDATE of the user's row holds its lock until the transaction ends.
HoldsUser(r) ==
    \/ ses[r].pc \in {"drop_token", "drop_sessions", "reset_commit"}
    \/ ses[r].pc \in {"clear", "login_commit"} /\ ses[r].rehash

UserFree(r) == \A q \in SesRequests \ {r} : ~HoldsUser(q)

SesGoto(r, label) == ses' = [ses EXCEPT ![r].pc = label]
SesEnd(r) == ses' = [ses EXCEPT ![r] = SesIdle]

-----------------------------------------------------------------------------
\* Fault: one attempt more.
BlockedLate == failures.count > MaxAttempts

is_blocked == failures.count >= MaxAttempts

\* POST /login.  second: no second factor is set up, or its code is right.
Login(r, pw, second) ==
    /\ ses[r].pc = "idle"
    /\ ~is_blocked
    /\ ses' = [ses EXCEPT ![r] = [pc |-> "verify", pw |-> pw, second |-> second, rehash |-> FALSE,
                                  id |-> 0, epoch |-> epoch, raced |-> FALSE]]
    /\ UNCHANGED <<sesTables, reset_tokens, failures, orphan>>

\* Fault: the hash is renewed before the password is verified.
RehashFirst(r, id) ==
    /\ ses[r].pc = "verify"
    /\ id \notin {s.id : s \in sessions}
    /\ \A q \in SesRequests : ses[q].pc \in {"flush", "clear", "login_commit"} => ses[q].id # id
    /\ ses' = [ses EXCEPT ![r].pc = "flush", ![r].rehash = password.outdated, ![r].id = id,
                          ![r].epoch = epoch,
                          ![r].raced = \E q \in SesRequests : ses[q].pc = "reset_commit"]
    /\ UNCHANGED <<sesTables, reset_tokens, failures, orphan>>

\* The SELECT of the user and the decision; id is the fresh token's.
LoginVerify(r, id) ==
    /\ ses[r].pc = "verify"
    /\ IF ses[r].pw = password.is /\ ses[r].second
       THEN /\ id \notin {s.id : s \in sessions}
            /\ \A q \in SesRequests : ses[q].pc \in {"flush", "clear", "login_commit"} => ses[q].id # id
            /\ ses' = [ses EXCEPT ![r].pc = "flush", ![r].rehash = password.outdated, ![r].id = id,
                                  ![r].epoch = epoch,
                                  ![r].raced = \E q \in SesRequests : ses[q].pc = "reset_commit"]
       ELSE SesGoto(r, "incr")
    /\ UNCHANGED <<sesTables, reset_tokens, failures, orphan>>

LoginFlush(r) ==
    /\ ses[r].pc = "flush"
    /\ ses[r].rehash => UserFree(r)
    /\ SesGoto(r, "clear")
    /\ UNCHANGED <<sesTables, reset_tokens, failures, orphan>>

\* limiter.clear: before the session is committed.
LoginClear(r) ==
    /\ ses[r].pc = "clear"
    /\ failures' = NoFailures /\ orphan' = FALSE
    /\ SesGoto(r, "login_commit")
    /\ UNCHANGED <<sesTables, reset_tokens>>

LoginCommit(r) ==
    /\ ses[r].pc = "login_commit"
    /\ sessions' = sessions \cup {[id |-> ses[r].id, epoch |-> ses[r].epoch, raced |-> ses[r].raced]}
    /\ password' = IF ses[r].rehash THEN [is |-> ses[r].pw, outdated |-> FALSE] ELSE password
    /\ SesEnd(r)
    /\ UNCHANGED <<reset_tokens, failures, epoch, orphan>>

\* record_failure is INCR and, for the first failure, EXPIRE.
RecordFailure(r) ==
    /\ ses[r].pc = "incr"
    /\ failures' = [failures EXCEPT !.count = @ + 1]
    /\ IF failures.count = 0 THEN SesGoto(r, "expire") ELSE SesEnd(r)
    /\ UNCHANGED <<sesTables, reset_tokens, orphan>>

\* Fault: the lifetime is renewed by the last failure instead of the first.
ExpireAtLimit(r) ==
    /\ ses[r].pc = "expire"
    /\ failures' = [failures EXCEPT !.ttl = @ \/ failures.count = MaxAttempts]
    /\ orphan' = FALSE
    /\ SesEnd(r)
    /\ UNCHANGED <<sesTables, reset_tokens>>

\* EXPIRE does nothing when the key is gone.
ExpireKey(r) ==
    /\ ses[r].pc = "expire"
    /\ failures' = [failures EXCEPT !.ttl = failures.count > 0]
    /\ orphan' = FALSE
    /\ SesEnd(r)
    /\ UNCHANGED <<sesTables, reset_tokens>>

WindowEnds ==
    /\ failures.ttl
    /\ failures' = NoFailures
    /\ UNCHANGED <<sesTables, reset_tokens, orphan, ses>>

-----------------------------------------------------------------------------
\* forgot_password: the key first, then the mail, which may fail.
forgot_password(t) ==
    /\ t \notin reset_tokens
    /\ reset_tokens' = reset_tokens \cup {t}
    /\ UNCHANGED <<sesTables, failures, orphan, ses>>

TokenExpires(t) ==
    /\ t \in reset_tokens
    /\ reset_tokens' = reset_tokens \ {t}
    /\ UNCHANGED <<sesTables, failures, orphan, ses>>

\* reset_password: GET of the link, SELECT of the user.  At most MaxResets.
reset_password(r, t, pw) ==
    /\ ses[r].pc = "idle" /\ t \in reset_tokens
    /\ epoch + Cardinality({q \in SesRequests : ses[q].pc \in
           {"reset_flush", "drop_token", "drop_sessions", "reset_commit"}}) < MaxResets
    /\ ses' = [ses EXCEPT ![r] = [pc |-> "reset_flush", pw |-> pw, token |-> t, drop |-> {}]]
    /\ UNCHANGED <<sesTables, reset_tokens, failures, orphan>>

ResetFlush(r) ==
    /\ ses[r].pc = "reset_flush"
    /\ UserFree(r)
    /\ SesGoto(r, "drop_token")
    /\ UNCHANGED <<sesTables, reset_tokens, failures, orphan>>

ResetDropToken(r) ==
    /\ ses[r].pc = "drop_token"
    /\ reset_tokens' = reset_tokens \ {ses[r].token}
    /\ SesGoto(r, "drop_sessions")
    /\ UNCHANGED <<sesTables, failures, orphan>>

\* Fault: the sessions are left alone.
DropNone(r) ==
    /\ ses[r].pc = "drop_sessions"
    /\ ses' = [q \in SesRequests |->
                  IF q = r THEN [ses[r] EXCEPT !.pc = "reset_commit"]
                  ELSE IF ses[q].pc \in {"flush", "clear", "login_commit"}
                       THEN [ses[q] EXCEPT !.raced = TRUE] ELSE ses[q]]
    /\ UNCHANGED <<sesTables, reset_tokens, failures, orphan>>

\* DELETE sees the sessions committed by now; logins under way are overtaken.
ResetDropSessions(r) ==
    /\ ses[r].pc = "drop_sessions"
    /\ ses' = [q \in SesRequests |->
                  IF q = r THEN [ses[r] EXCEPT !.pc = "reset_commit", !.drop = sessions]
                  ELSE IF ses[q].pc \in {"flush", "clear", "login_commit"}
                       THEN [ses[q] EXCEPT !.raced = TRUE] ELSE ses[q]]
    /\ UNCHANGED <<sesTables, reset_tokens, failures, orphan>>

ResetCommit(r) ==
    /\ ses[r].pc = "reset_commit"
    /\ password' = [is |-> ses[r].pw, outdated |-> FALSE]
    /\ sessions' = sessions \ ses[r].drop
    /\ epoch' = epoch + 1
    /\ SesEnd(r)
    /\ UNCHANGED <<reset_tokens, failures, orphan>>

-----------------------------------------------------------------------------
\* get_session_user: what every authenticated endpoint starts with.
get_session_user(id) == id \in {s.id : s \in sessions}

\* list_sessions: the caller's is flagged.
list_sessions(current) == {[id |-> s.id, is_current |-> s.id = current] : s \in sessions}

\* logout takes the cookie's own session and needs no authentication.
logout(id) ==
    /\ get_session_user(id)
    /\ sessions' = {s \in sessions : s.id # id}
    /\ UNCHANGED <<password, epoch, reset_tokens, failures, orphan, ses>>

\* revoke_session: one of the sessions listed, the caller's own too.
revoke_session(current, id) ==
    /\ get_session_user(current)
    /\ id \in {s.id : s \in list_sessions(current)}
    /\ sessions' = {s \in sessions : s.id # id}
    /\ UNCHANGED <<password, epoch, reset_tokens, failures, orphan, ses>>

\* revoke_other_sessions: the rows it has read and deletes at its flush.
revoke_other_sessions(r, current) ==
    /\ ses[r].pc = "idle" /\ get_session_user(current)
    /\ ses' = [ses EXCEPT ![r] =
                  [pc |-> "revoke_commit", drop |-> {s \in sessions : s.id # current}]]
    /\ UNCHANGED <<sesTables, reset_tokens, failures, orphan>>

RevokeCommit(r) ==
    /\ ses[r].pc = "revoke_commit"
    /\ sessions' = sessions \ ses[r].drop
    /\ SesEnd(r)
    /\ UNCHANGED <<password, epoch, reset_tokens, failures, orphan>>

SessionExpires(s) ==
    /\ sessions' = sessions \ {s}
    /\ UNCHANGED <<password, epoch, reset_tokens, failures, orphan, ses>>

\* The worker dies: PostgreSQL rolls back, Redis does not.
SesCrash(r) ==
    /\ ses[r].pc # "idle"
    /\ orphan' = (orphan \/ (ses[r].pc = "expire" /\ ~failures.ttl /\ failures.count > 0))
    /\ SesEnd(r)
    /\ UNCHANGED <<sesTables, reset_tokens, failures>>

SesStep(r) ==
    \/ \E id \in SesIds : LoginVerify(r, id)
    \/ LoginFlush(r) \/ LoginClear(r) \/ LoginCommit(r) \/ RecordFailure(r) \/ ExpireKey(r)
    \/ ResetFlush(r) \/ ResetDropToken(r) \/ ResetDropSessions(r) \/ ResetCommit(r)
    \/ RevokeCommit(r)

SesNext ==
    \/ \E r \in SesRequests, pw \in SesPasswords, second \in BOOLEAN : Login(r, pw, second)
    \/ \E r \in SesRequests, t \in SesTokens, pw \in SesPasswords : reset_password(r, t, pw)
    \/ \E r \in SesRequests, id \in SesIds : revoke_other_sessions(r, id)
    \/ \E r \in SesRequests : SesStep(r) \/ SesCrash(r)
    \/ \E t \in SesTokens : forgot_password(t) \/ TokenExpires(t)
    \/ \E id \in SesIds : logout(id) \/ \E current \in SesIds : revoke_session(current, id)
    \/ \E s \in sessions : SessionExpires(s)
    \/ WindowEnds

SesSpec == SesInit /\ [][SesNext]_sesVars

-----------------------------------------------------------------------------
(***************************************************************************)
(* "Invalidate all existing sessions": a session from before the last      *)
(* reset belongs to a login that was under way when the reset deleted the  *)
(* sessions.  The DELETE cannot see those, and nothing else looks at the   *)
(* password again, so they live out their 30 days.                         *)
(***************************************************************************)
ResetEndsSessions == \A s \in sessions : s.epoch < epoch => s.raced

(***************************************************************************)
(* The limiter checks first and counts after the verification: with n      *)
(* handlers at most n - 1 passwords are tried beyond the limit.            *)
(***************************************************************************)
FailuresBounded == failures.count < MaxAttempts + Cardinality(SesRequests)

(***************************************************************************)
(* "Try again in 1 hour.": a blocked address is let in again, unless the   *)
(* worker died between INCR and EXPIRE of the first failure.               *)
(***************************************************************************)
LockoutEnds == is_blocked ~> (~is_blocked \/ orphan)

\* What the account promises of its password and sessions.
Rules == INSTANCE AccountRules WITH
    Ids <- SesIds, Passwords <- SesPasswords,
    secret <- password.is,
    generation <- epoch,
    live <- {s.id : s \in {t \in sessions : ~t.raced}},
    overtaken <- {s.id : s \in {t \in sessions : t.raced}}

(***************************************************************************)
(* Handlers that interleave statement by statement, and crash, change      *)
(* password and sessions only in the ways AccountRules allows.             *)
(***************************************************************************)
ImplementsAccountRules == Rules!RulesSpec
=============================================================================
