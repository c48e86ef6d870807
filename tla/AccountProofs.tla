---------------------------- MODULE AccountProofs ----------------------------
(***************************************************************************)
(* Theorems about a user's account: its sessions (AccountSessions), its    *)
(* second factor (AccountTotp) and its portfolios (Portfolios), for any    *)
(* number of requests, sessions, passwords, resets, set-ups, ids and names.*)
(***************************************************************************)
EXTENDS AccountSessions, AccountTotp, Portfolios, FiniteSetTheorems, TLAPS

\* The stages of a login that has accepted its password.
Accepted == {"flush", "clear", "login_commit"}
Accepts(q) == ses[q].pc \in Accepted

Session == [id : SesIds, epoch : Nat, raced : BOOLEAN]
LoginState ==
    [pc : {"verify", "incr", "expire"} \cup Accepted, pw : SesPasswords, second : BOOLEAN,
     rehash : BOOLEAN, id : SesIds \cup {0}, epoch : Nat, raced : BOOLEAN]
ResetState ==
    [pc : {"reset_flush", "drop_token", "drop_sessions", "reset_commit"}, pw : SesPasswords,
     token : SesTokens, drop : SUBSET Session]
RevokeState == [pc : {"revoke_commit"}, drop : SUBSET Session]

SesTypeOK ==
    /\ password \in [is : SesPasswords, outdated : BOOLEAN]
    /\ sessions \in SUBSET Session
    /\ reset_tokens \in SUBSET SesTokens
    /\ failures \in [count : Nat, ttl : BOOLEAN]
    /\ epoch \in Nat
    /\ orphan \in BOOLEAN
    /\ ses \in [SesRequests -> {SesIdle} \cup LoginState \cup ResetState \cup RevokeState]

\* A login has a fresh id, and one from before the last reset knows it was overtaken.
LoginsOK ==
    \A q \in SesRequests : Accepts(q) =>
        /\ ses[q].id \in SesIds
        /\ ses[q].epoch < epoch => ses[q].raced

\* Once a reset has deleted the sessions, whatever is left or still comes is overtaken.
ResetsOK ==
    \A r \in SesRequests : ses[r].pc = "reset_commit" =>
        /\ \A s \in sessions : s \in ses[r].drop \/ s.raced
        /\ \A q \in SesRequests : Accepts(q) => ses[q].raced

\* Ids tell sessions apart, those of logins under way included.
IdsOK ==
    /\ \A s, t \in sessions : s.id = t.id => s = t
    /\ \A q \in SesRequests : Accepts(q) =>
         /\ \A s \in sessions : s.id # ses[q].id
         /\ \A p \in SesRequests : Accepts(p) /\ ses[p].id = ses[q].id => p = q

\* Until the first reset or renewal all logins know the password; later, those
\* that would renew it are either all overtaken or still right.
RenewsOK ==
    /\ password.outdated => \A q \in SesRequests : Accepts(q) => ses[q].pw = password.is
    /\ \A q \in SesRequests : Accepts(q) /\ ses[q].rehash /\ ~ses[q].raced =>
         \A p \in SesRequests : Accepts(p) /\ ses[p].rehash => ses[p].pw = password.is

SesInv == SesTypeOK /\ ResetEndsSessions /\ LoginsOK /\ ResetsOK /\ IdsOK /\ RenewsOK

-----------------------------------------------------------------------------
\* What the limiter's commands make of the counter is a counter.
LEMMA Counters ==
    ASSUME NEW f \in [count : Nat, ttl : BOOLEAN]
    PROVE  /\ NoFailures \in [count : Nat, ttl : BOOLEAN]
           /\ [f EXCEPT !.count = f.count + 1] \in [count : Nat, ttl : BOOLEAN]
           /\ [f EXCEPT !.ttl = f.count > 0] \in [count : Nat, ttl : BOOLEAN]
  <1>1. NoFailures \in [count : Nat, ttl : BOOLEAN]
    BY Zenon DEF NoFailures
  <1>2. [f EXCEPT !.count = f.count + 1] \in [count : Nat, ttl : BOOLEAN]
    BY SMT
  <1>3. (f.count > 0) \in BOOLEAN
    BY SMT
  <1>4. [f EXCEPT !.ttl = f.count > 0] \in [count : Nat, ttl : BOOLEAN]
    BY <1>3, Zenon
  <1> QED BY <1>1, <1>2, <1>4

\* The program counter tells which fields a handler has.
LEMMA Shapes ==
    ASSUME SesTypeOK, NEW q \in SesRequests
    PROVE  /\ ses[q].pc \in {"verify", "incr", "expire"} \cup Accepted => ses[q] \in LoginState
           /\ ses[q].pc \in {"reset_flush", "drop_token", "drop_sessions", "reset_commit"} =>
                ses[q] \in ResetState
           /\ ses[q].pc = "revoke_commit" => ses[q] \in RevokeState
           /\ ses[q].pc = "idle" => ses[q] = SesIdle
  <1>1. ses[q] \in {SesIdle} \cup LoginState \cup ResetState \cup RevokeState
    BY DEF SesTypeOK
  <1>2. CASE ses[q] = SesIdle
    BY <1>2 DEF SesIdle, Accepted
  <1>3. CASE ses[q] \in LoginState
    BY <1>3 DEF LoginState, Accepted
  <1>4. CASE ses[q] \in ResetState
    BY <1>4 DEF ResetState, Accepted
  <1>5. CASE ses[q] \in RevokeState
    BY <1>5 DEF RevokeState, Accepted
  <1> QED BY <1>1, <1>2, <1>3, <1>4, <1>5

\* A request that only leaves or moves on within the stages before acceptance.
LEMMA Leaves ==
    ASSUME SesInv, NEW r \in SesRequests,
           NEW x \in {SesIdle} \cup LoginState \cup ResetState \cup RevokeState,
           x.pc \notin Accepted \cup {"reset_commit"},
           ses' = [ses EXCEPT ![r] = x],
           password' = password, epoch' = epoch,
           sessions' \in SUBSET sessions
    PROVE  /\ ses' \in [SesRequests -> {SesIdle} \cup LoginState \cup ResetState \cup RevokeState]
           /\ (ResetEndsSessions /\ LoginsOK /\ ResetsOK /\ IdsOK /\ RenewsOK)'
  <1>1. ses' \in [SesRequests -> {SesIdle} \cup LoginState \cup ResetState \cup RevokeState]
    BY DEF SesInv, SesTypeOK
  <1>2. \A q \in SesRequests : q # r => ses'[q] = ses[q]
    BY DEF SesInv, SesTypeOK
  <1>3. ses'[r].pc \notin Accepted \cup {"reset_commit"}
    BY DEF SesInv, SesTypeOK
  <1>4. ResetEndsSessions'
    BY DEF SesInv, ResetEndsSessions
  <1>5. LoginsOK'
    BY <1>2, <1>3 DEF SesInv, LoginsOK, Accepts
  <1>6. ResetsOK'
    BY <1>2, <1>3 DEF SesInv, ResetsOK, Accepts
  <1>7. IdsOK'
    BY <1>2, <1>3 DEF SesInv, IdsOK, Accepts
  <1>8. RenewsOK'
    BY <1>2, <1>3 DEF SesInv, RenewsOK, Accepts
  <1> QED BY <1>1, <1>4, <1>5, <1>6, <1>7, <1>8

\* Sessions go away and no handler moves.
LEMMA SessionsGo ==
    ASSUME SesInv, sessions' \in SUBSET sessions, UNCHANGED <<password, epoch, ses>>
    PROVE  (ResetEndsSessions /\ LoginsOK /\ ResetsOK /\ IdsOK /\ RenewsOK)'
  BY DEF SesInv, ResetEndsSessions, LoginsOK, ResetsOK, IdsOK, RenewsOK, Accepts

LEMMA InitSes == SesInit => SesInv
  <1> SUFFICES ASSUME SesInit PROVE SesInv
    OBVIOUS
  <1>1. SesTypeOK
    BY DEF SesInit, SesTypeOK, NoFailures
  <1>2. \A q \in SesRequests : ses[q].pc = "idle"
    BY DEF SesInit, SesIdle
  <1>3. ResetEndsSessions /\ LoginsOK /\ ResetsOK /\ IdsOK /\ RenewsOK
    BY <1>2 DEF SesInit, ResetEndsSessions, LoginsOK, ResetsOK, IdsOK, RenewsOK, Accepts, Accepted
  <1> QED BY <1>1, <1>3 DEF SesInv

-----------------------------------------------------------------------------
LEMMA LoginInv ==
    ASSUME SesInv, NEW r \in SesRequests, NEW pw \in SesPasswords, NEW second \in BOOLEAN,
           Login(r, pw, second)
    PROVE  SesInv'
  <1> DEFINE x == [pc |-> "verify", pw |-> pw, second |-> second, rehash |-> FALSE,
                   id |-> 0, epoch |-> epoch, raced |-> FALSE]
  <1>1. x \in LoginState /\ x.pc \notin Accepted \cup {"reset_commit"}
    BY DEF SesInv, SesTypeOK, LoginState, Accepted
  <1>2. ses' = [ses EXCEPT ![r] = x] /\ UNCHANGED <<sesTables, reset_tokens, failures, orphan>>
    BY DEF Login
  <1> QED BY <1>1, <1>2, Leaves DEF SesInv, SesTypeOK, sesTables

\* The session is decided: everything the invariant says of it starts here.
LEMMA LoginVerifyInv ==
    ASSUME SesInv, NEW r \in SesRequests, NEW id \in SesIds, LoginVerify(r, id)
    PROVE  SesInv'
  <1>1. ses[r] \in LoginState /\ ses[r].pc = "verify"
    BY Shapes DEF LoginVerify, SesInv
  <1>2. UNCHANGED <<password, sessions, epoch, reset_tokens, failures, orphan>>
    BY DEF LoginVerify, sesTables
  <1>3. CASE ses[r].pw = password.is /\ ses[r].second
    <2> DEFINE overtaken == \E q \in SesRequests : ses[q].pc = "reset_commit"
               x == [ses[r] EXCEPT !.pc = "flush", !.rehash = password.outdated, !.id = id,
                                   !.epoch = epoch, !.raced = overtaken]
    <2>1. /\ ses' = [ses EXCEPT ![r].pc = "flush", ![r].rehash = password.outdated, ![r].id = id,
                                ![r].epoch = epoch, ![r].raced = overtaken]
          /\ id \notin {s.id : s \in sessions}
          /\ \A q \in SesRequests : Accepts(q) => ses[q].id # id
      BY <1>3 DEF LoginVerify, Accepts, Accepted
    <2>2. ses' = [ses EXCEPT ![r] = x]
      BY <2>1, <1>1 DEF SesInv, SesTypeOK, LoginState
    <2>3. /\ x \in LoginState
          /\ x.pc = "flush" /\ x.rehash = password.outdated /\ x.id = id /\ x.epoch = epoch
          /\ x.raced = overtaken /\ x.pw = ses[r].pw
      BY <1>1 DEF SesInv, SesTypeOK, LoginState, Accepted
    <2> HIDE DEF x
    <2>4. ses'[r] = x /\ \A q \in SesRequests : q # r => ses'[q] = ses[q]
      BY <2>2 DEF SesInv, SesTypeOK
    <2>5. SesTypeOK'
      BY <1>2, <2>2, <2>3 DEF SesInv, SesTypeOK
    <2>6. ResetEndsSessions'
      BY <1>2 DEF SesInv, ResetEndsSessions
    <2>7. LoginsOK'
      BY <1>2, <2>3, <2>4 DEF SesInv, SesTypeOK, LoginsOK, Accepts
    <2>8. ResetsOK'
      BY <1>2, <2>3, <2>4 DEF SesInv, ResetsOK, Accepts
    <2>9. IdsOK'
      <3>1. \A s \in sessions : s.id # id
        BY <2>1
      <3>2. \A q \in SesRequests : q # r /\ Accepts(q)' => Accepts(q) /\ ses'[q].id = ses[q].id /\ ses[q].id # id
        BY <2>1, <2>4 DEF Accepts
      <3> QED BY <1>2, <2>3, <2>4, <3>1, <3>2 DEF SesInv, IdsOK
    <2>10. RenewsOK'
      BY <1>2, <1>3, <2>3, <2>4 DEF SesInv, RenewsOK, Accepts
    <2> QED BY <2>5, <2>6, <2>7, <2>8, <2>9, <2>10 DEF SesInv
  <1>4. CASE ~(ses[r].pw = password.is /\ ses[r].second)
    <2> DEFINE x == [ses[r] EXCEPT !.pc = "incr"]
    <2>1. ses' = [ses EXCEPT ![r] = x]
      BY <1>1, <1>4 DEF LoginVerify, SesGoto, SesInv, SesTypeOK
    <2>2. x \in LoginState /\ x.pc \notin Accepted \cup {"reset_commit"}
      BY <1>1 DEF LoginState, Accepted
    <2> QED BY <1>2, <2>1, <2>2, Leaves DEF SesInv, SesTypeOK
  <1> QED BY <1>3, <1>4

LEMMA LoginFlushInv ==
    ASSUME SesInv, NEW r \in SesRequests, LoginFlush(r) \/ LoginClear(r)
    PROVE  SesInv'
  <1>1. ses[r] \in LoginState /\ Accepts(r)
    BY Shapes DEF LoginFlush, LoginClear, SesInv, Accepts, Accepted
  <1>2. PICK label \in Accepted : ses' = [ses EXCEPT ![r].pc = label]
    BY DEF LoginFlush, LoginClear, SesGoto, Accepted
  <1>3. /\ UNCHANGED <<password, sessions, epoch, reset_tokens>>
        /\ failures' \in [count : Nat, ttl : BOOLEAN] /\ orphan' \in BOOLEAN
    <2>1. UNCHANGED <<password, sessions, epoch, reset_tokens>>
      BY DEF LoginFlush, LoginClear, sesTables
    <2>2. failures' = failures \/ failures' = NoFailures
      BY DEF LoginFlush, LoginClear
    <2>3. failures' \in [count : Nat, ttl : BOOLEAN]
      BY <2>2, Counters, Zenon DEF SesInv, SesTypeOK
    <2>4. orphan' \in BOOLEAN
      BY Zenon DEF LoginFlush, LoginClear, SesInv, SesTypeOK
    <2> QED BY <2>1, <2>3, <2>4
  <1> DEFINE x == [ses[r] EXCEPT !.pc = label]
  <1>4. ses' = [ses EXCEPT ![r] = x]
    BY <1>1, <1>2 DEF SesInv, SesTypeOK, LoginState
  <1>5. /\ x \in LoginState /\ x.pc \in Accepted
        /\ x.id = ses[r].id /\ x.epoch = ses[r].epoch /\ x.raced = ses[r].raced
        /\ x.rehash = ses[r].rehash /\ x.pw = ses[r].pw
    BY <1>1 DEF LoginState
  <1> HIDE DEF x
  <1>6. ses'[r] = x /\ \A q \in SesRequests : q # r => ses'[q] = ses[q]
    BY <1>4 DEF SesInv, SesTypeOK
  <1>7. SesTypeOK'
    BY <1>3, <1>4, <1>5 DEF SesInv, SesTypeOK
  <1>8. /\ \A q \in SesRequests : Accepts(q)' <=> Accepts(q)
        /\ \A q \in SesRequests : Accepts(q) =>
             /\ ses'[q].id = ses[q].id /\ ses'[q].epoch = ses[q].epoch /\ ses'[q].raced = ses[q].raced
             /\ ses'[q].rehash = ses[q].rehash /\ ses'[q].pw = ses[q].pw
        /\ \A q \in SesRequests : ses'[q].pc = "reset_commit" =>
             ses[q].pc = "reset_commit" /\ ses'[q].drop = ses[q].drop
    BY <1>1, <1>5, <1>6 DEF Accepts, Accepted
  <1>9. (ResetEndsSessions /\ LoginsOK /\ ResetsOK)'
    BY <1>3, <1>8 DEF SesInv, ResetEndsSessions, LoginsOK, ResetsOK
  <1>10. (IdsOK /\ RenewsOK)'
    BY <1>3, <1>8 DEF SesInv, IdsOK, RenewsOK
  <1> QED BY <1>7, <1>9, <1>10 DEF SesInv

\* The session is stored.
LEMMA LoginCommitInv ==
    ASSUME SesInv, NEW r \in SesRequests, LoginCommit(r)
    PROVE  SesInv'
  <1> DEFINE new == [id |-> ses[r].id, epoch |-> ses[r].epoch, raced |-> ses[r].raced]
  <1>1. /\ ses[r] \in LoginState /\ Accepts(r)
        /\ sessions' = sessions \cup {new}
        /\ password' = IF ses[r].rehash THEN [is |-> ses[r].pw, outdated |-> FALSE] ELSE password
        /\ ses' = [ses EXCEPT ![r] = SesIdle]
        /\ UNCHANGED <<reset_tokens, failures, epoch, orphan>>
    BY Shapes DEF LoginCommit, SesEnd, SesInv, Accepts, Accepted
  <1>2. new \in Session /\ new.id = ses[r].id /\ new.epoch = ses[r].epoch /\ new.raced = ses[r].raced
    BY <1>1 DEF SesInv, LoginsOK, LoginState, Session
  <1> HIDE DEF new
  <1>3. /\ ses'[r].pc = "idle" /\ ~Accepts(r)'
        /\ \A q \in SesRequests : q # r => ses'[q] = ses[q] /\ (Accepts(q)' <=> Accepts(q))
    BY <1>1 DEF SesInv, SesTypeOK, SesIdle, Accepts, Accepted
  <1>4. SesTypeOK'
    BY <1>1, <1>2 DEF SesInv, SesTypeOK, LoginState
  <1>5. ResetEndsSessions'
    BY <1>1, <1>2 DEF SesInv, ResetEndsSessions, LoginsOK
  <1>6. LoginsOK'
    BY <1>1, <1>3 DEF SesInv, LoginsOK
  <1>7. ResetsOK'
    BY <1>1, <1>2, <1>3 DEF SesInv, ResetsOK
  <1>8. IdsOK'
    BY <1>1, <1>2, <1>3 DEF SesInv, IdsOK
  <1>9. RenewsOK'
    <2>1. CASE ses[r].rehash
      <3>1. password'.is = ses[r].pw /\ password'.outdated = FALSE
        BY <1>1, <2>1
      <3>2. ASSUME NEW q \in SesRequests, Accepts(q), ses[q].rehash, ~ses[q].raced
            PROVE  ses[r].pw = password.is
        BY <1>1, <2>1, <3>2 DEF SesInv, RenewsOK
      <3> QED BY <1>1, <1>3, <3>1, <3>2 DEF SesInv, RenewsOK
    <2>2. CASE ~ses[r].rehash
      BY <1>1, <1>3, <2>2 DEF SesInv, RenewsOK
    <2> QED BY <2>1, <2>2
  <1> QED BY <1>4, <1>5, <1>6, <1>7, <1>8, <1>9 DEF SesInv

LEMMA FailureInv ==
    ASSUME SesInv, NEW r \in SesRequests, RecordFailure(r) \/ ExpireKey(r)
    PROVE  SesInv'
  <1>1. ses[r] \in LoginState /\ ses[r].pc \notin Accepted
    BY Shapes DEF RecordFailure, ExpireKey, SesInv, Accepted
  <1>2. /\ UNCHANGED <<password, sessions, epoch, reset_tokens>>
        /\ failures' \in [count : Nat, ttl : BOOLEAN] /\ orphan' \in BOOLEAN
    <2>1. UNCHANGED <<password, sessions, epoch, reset_tokens>>
      BY DEF RecordFailure, ExpireKey, sesTables
    <2>2. failures' = [failures EXCEPT !.count = failures.count + 1]
            \/ failures' = [failures EXCEPT !.ttl = failures.count > 0]
      BY DEF RecordFailure, ExpireKey
    <2>3. failures' \in [count : Nat, ttl : BOOLEAN]
      BY <2>2, Counters, Zenon DEF SesInv, SesTypeOK
    <2>4. orphan' \in BOOLEAN
      BY Zenon DEF RecordFailure, ExpireKey, SesInv, SesTypeOK
    <2> QED BY <2>1, <2>3, <2>4
  <1> DEFINE x == [ses[r] EXCEPT !.pc = "expire"]
  <1>3. ses' = [ses EXCEPT ![r] = x] \/ ses' = [ses EXCEPT ![r] = SesIdle]
    BY <1>1 DEF RecordFailure, ExpireKey, SesGoto, SesEnd, SesInv, SesTypeOK, LoginState
  <1>4. /\ x \in LoginState /\ x.pc \notin Accepted \cup {"reset_commit"}
        /\ SesIdle.pc \notin Accepted \cup {"reset_commit"}
    BY <1>1 DEF LoginState, Accepted, SesIdle
  <1> QED BY <1>2, <1>3, <1>4, Leaves DEF SesInv, SesTypeOK

-----------------------------------------------------------------------------
LEMMA ResetStartInv ==
    ASSUME SesInv, NEW r \in SesRequests, NEW t \in SesTokens, NEW pw \in SesPasswords,
           reset_password(r, t, pw)
    PROVE  SesInv'
  <1> DEFINE x == [pc |-> "reset_flush", pw |-> pw, token |-> t, drop |-> {}]
  <1>1. x \in ResetState /\ x.pc \notin Accepted \cup {"reset_commit"}
    BY DEF ResetState, Accepted
  <1>2. ses' = [ses EXCEPT ![r] = x] /\ UNCHANGED <<sesTables, reset_tokens, failures, orphan>>
    BY DEF reset_password
  <1> QED BY <1>1, <1>2, Leaves DEF SesInv, SesTypeOK, sesTables

LEMMA ResetFlushInv ==
    ASSUME SesInv, NEW r \in SesRequests, ResetFlush(r) \/ ResetDropToken(r)
    PROVE  SesInv'
  <1>1. ses[r] \in ResetState
    BY Shapes DEF ResetFlush, ResetDropToken, SesInv
  <1>2. PICK label \in {"drop_token", "drop_sessions"} : ses' = [ses EXCEPT ![r].pc = label]
    BY DEF ResetFlush, ResetDropToken, SesGoto
  <1>3. /\ UNCHANGED <<password, sessions, epoch, failures, orphan>>
        /\ reset_tokens' \in SUBSET SesTokens
    BY DEF ResetFlush, ResetDropToken, sesTables, SesInv, SesTypeOK
  <1> DEFINE x == [ses[r] EXCEPT !.pc = label]
  <1>4. ses' = [ses EXCEPT ![r] = x]
    BY <1>1, <1>2 DEF SesInv, SesTypeOK, ResetState
  <1>5. x \in ResetState /\ x.pc \notin Accepted \cup {"reset_commit"}
    BY <1>1 DEF ResetState, Accepted
  <1> QED BY <1>3, <1>4, <1>5, Leaves DEF SesInv, SesTypeOK

\* The DELETE: the sessions there are, and every login under way is overtaken.
LEMMA ResetDropInv ==
    ASSUME SesInv, NEW r \in SesRequests, ResetDropSessions(r)
    PROVE  SesInv'
  <1> DEFINE x == [ses[r] EXCEPT !.pc = "reset_commit", !.drop = sessions]
             y(q) == [ses[q] EXCEPT !.raced = TRUE]
  <1>1. /\ ses[r] \in ResetState /\ ~Accepts(r)
        /\ ses' = [q \in SesRequests |-> IF q = r THEN x ELSE IF Accepts(q) THEN y(q) ELSE ses[q]]
        /\ UNCHANGED <<password, sessions, epoch, reset_tokens, failures, orphan>>
    BY Shapes DEF ResetDropSessions, SesInv, Accepts, Accepted, sesTables
  <1>2. x \in ResetState /\ x.pc = "reset_commit" /\ x.drop = sessions
    BY <1>1 DEF SesInv, SesTypeOK, ResetState
  <1>3. ASSUME NEW q \in SesRequests, Accepts(q)
        PROVE  /\ y(q) \in LoginState /\ y(q).pc = ses[q].pc /\ y(q).pw = ses[q].pw
               /\ y(q).rehash = ses[q].rehash /\ y(q).id = ses[q].id /\ y(q).raced
    <2>1. ses[q] \in LoginState
      BY <1>3, Shapes DEF SesInv, Accepts
    <2> QED BY <2>1 DEF LoginState
  <1> HIDE DEF x, y
  <1>4. /\ ses'[r] = x
        /\ \A q \in SesRequests : q # r /\ Accepts(q) => ses'[q] = y(q)
        /\ \A q \in SesRequests : q # r /\ ~Accepts(q) => ses'[q] = ses[q]
    BY <1>1
  <1>5. \A q \in SesRequests :
           /\ Accepts(q)' <=> Accepts(q)
           /\ Accepts(q) => /\ ses'[q].pw = ses[q].pw /\ ses'[q].rehash = ses[q].rehash
                            /\ ses'[q].id = ses[q].id /\ ses'[q].raced
           /\ ses'[q].pc = "reset_commit" =>
                \/ q = r
                \/ ses[q].pc = "reset_commit" /\ ses'[q].drop = ses[q].drop
    BY <1>1, <1>2, <1>3, <1>4 DEF Accepts, Accepted
  <1>6. SesTypeOK'
    BY <1>1, <1>2, <1>3 DEF SesInv, SesTypeOK
  <1>7. (ResetEndsSessions /\ LoginsOK)'
    BY <1>1, <1>5 DEF SesInv, ResetEndsSessions, LoginsOK
  <1>8. ResetsOK'
    BY <1>1, <1>2, <1>4, <1>5 DEF SesInv, ResetsOK
  <1>9. (IdsOK /\ RenewsOK)'
    BY <1>1, <1>5 DEF SesInv, IdsOK, RenewsOK
  <1> QED BY <1>6, <1>7, <1>8, <1>9 DEF SesInv

\* The COMMIT: what is left was overtaken.
LEMMA ResetCommitInv ==
    ASSUME SesInv, NEW r \in SesRequests, ResetCommit(r)
    PROVE  SesInv'
  <1>1. /\ ses[r] \in ResetState /\ ses[r].pc = "reset_commit"
        /\ password' = [is |-> ses[r].pw, outdated |-> FALSE]
        /\ sessions' = sessions \ ses[r].drop
        /\ epoch' = epoch + 1
        /\ ses' = [ses EXCEPT ![r] = SesIdle]
        /\ UNCHANGED <<reset_tokens, failures, orphan>>
    BY Shapes DEF ResetCommit, SesEnd, SesInv
  <1>2. /\ \A s \in sessions' : s \in sessions /\ s.raced
        /\ \A q \in SesRequests : Accepts(q) => ses[q].raced
    BY <1>1 DEF SesInv, ResetsOK
  <1>3. /\ ses'[r].pc = "idle" /\ ~Accepts(r)' /\ ~Accepts(r)
        /\ \A q \in SesRequests : q # r => ses'[q] = ses[q] /\ (Accepts(q)' <=> Accepts(q))
    BY <1>1 DEF SesInv, SesTypeOK, SesIdle, Accepts, Accepted
  <1>4. SesTypeOK'
    BY <1>1 DEF SesInv, SesTypeOK, ResetState
  <1>5. (ResetEndsSessions /\ LoginsOK)'
    BY <1>2, <1>3 DEF SesInv, ResetEndsSessions, LoginsOK
  <1>6. ResetsOK'
    BY <1>2, <1>3 DEF SesInv, ResetsOK
  <1>7. IdsOK'
    BY <1>2, <1>3 DEF SesInv, IdsOK
  <1>8. RenewsOK'
    <2>1. password'.outdated = FALSE
      BY <1>1
    <2> QED BY <1>2, <1>3, <2>1 DEF RenewsOK
  <1> QED BY <1>4, <1>5, <1>6, <1>7, <1>8 DEF SesInv

-----------------------------------------------------------------------------
LEMMA RevokeInv ==
    ASSUME SesInv, NEW r \in SesRequests,
           RevokeCommit(r) \/ \E id \in SesIds : revoke_other_sessions(r, id)
    PROVE  SesInv'
  <1>1. CASE RevokeCommit(r)
    <2>1. /\ sessions' \in SUBSET sessions
          /\ ses' = [ses EXCEPT ![r] = SesIdle]
          /\ UNCHANGED <<password, epoch, reset_tokens, failures, orphan>>
      BY <1>1 DEF RevokeCommit, SesEnd
    <2>2. SesIdle.pc \notin Accepted \cup {"reset_commit"}
      BY DEF SesIdle, Accepted
    <2> QED BY <2>1, <2>2, Leaves DEF SesInv, SesTypeOK
  <1>2. ASSUME NEW id \in SesIds, revoke_other_sessions(r, id)
        PROVE  SesInv'
    <2> DEFINE x == [pc |-> "revoke_commit", drop |-> {s \in sessions : s.id # id}]
    <2>1. ses' = [ses EXCEPT ![r] = x] /\ UNCHANGED <<sesTables, reset_tokens, failures, orphan>>
      BY <1>2 DEF revoke_other_sessions
    <2>2. x \in RevokeState /\ x.pc \notin Accepted \cup {"reset_commit"}
      BY DEF RevokeState, Accepted, SesInv, SesTypeOK
    <2> QED BY <2>1, <2>2, Leaves DEF SesInv, SesTypeOK, sesTables
  <1> QED BY <1>1, <1>2

LEMMA CrashInv ==
    ASSUME SesInv, NEW r \in SesRequests, SesCrash(r)
    PROVE  SesInv'
  <1>1. ses' = [ses EXCEPT ![r] = SesIdle] /\ UNCHANGED <<sesTables, reset_tokens, failures>>
    BY DEF SesCrash, SesEnd
  <1>2. orphan' \in BOOLEAN
    BY Zenon DEF SesCrash
  <1>3. SesIdle.pc \notin Accepted \cup {"reset_commit"}
    BY DEF SesIdle, Accepted
  <1> QED BY <1>1, <1>2, <1>3, Leaves DEF SesInv, SesTypeOK, sesTables

\* Steps without a request: sessions end, links come and go, the window ends.
Ends ==
    \/ \E t \in SesTokens : forgot_password(t) \/ TokenExpires(t)
    \/ \E id \in SesIds : logout(id) \/ \E current \in SesIds : revoke_session(current, id)
    \/ \E s \in sessions : SessionExpires(s)
    \/ WindowEnds

LEMMA EndsInv == ASSUME SesInv, Ends PROVE SesInv'
  <1>1. /\ sessions' \in SUBSET sessions
        /\ UNCHANGED <<password, epoch, ses, orphan>>
    BY DEF Ends, forgot_password, TokenExpires, logout, revoke_session, SessionExpires, WindowEnds, sesTables
  <1>2. reset_tokens' \in SUBSET SesTokens
    BY DEF Ends, forgot_password, TokenExpires, logout, revoke_session, SessionExpires, WindowEnds,
           SesInv, SesTypeOK
  <1>3. failures' = failures \/ failures' = NoFailures
    BY DEF Ends, forgot_password, TokenExpires, logout, revoke_session, SessionExpires, WindowEnds
  <1>4. failures' \in [count : Nat, ttl : BOOLEAN]
    BY <1>3, Counters, Zenon DEF SesInv, SesTypeOK
  <1> QED BY <1>1, <1>2, <1>4, SessionsGo DEF SesInv, SesTypeOK

\* One case per action.
LEMMA NextSes == SesInv /\ [SesNext]_sesVars => SesInv'
  <1> SUFFICES ASSUME SesInv, [SesNext]_sesVars PROVE SesInv'
    OBVIOUS
  <1>1. ASSUME NEW r \in SesRequests, NEW pw \in SesPasswords, NEW second \in BOOLEAN, Login(r, pw, second)
        PROVE  SesInv'
    BY <1>1, LoginInv
  <1>2. ASSUME NEW r \in SesRequests, NEW t \in SesTokens, NEW pw \in SesPasswords, reset_password(r, t, pw)
        PROVE  SesInv'
    BY <1>2, ResetStartInv
  <1>3. ASSUME NEW r \in SesRequests, NEW id \in SesIds, revoke_other_sessions(r, id)
        PROVE  SesInv'
    BY <1>3, RevokeInv
  <1>4. ASSUME NEW r \in SesRequests, SesStep(r)
        PROVE  SesInv'
    BY <1>4, LoginVerifyInv, LoginFlushInv, LoginCommitInv, FailureInv, ResetFlushInv, ResetDropInv,
       ResetCommitInv, RevokeInv DEF SesStep
  <1>5. ASSUME NEW r \in SesRequests, SesCrash(r)
        PROVE  SesInv'
    BY <1>5, CrashInv
  <1>6. CASE Ends
    BY <1>6, EndsInv
  <1>7. CASE UNCHANGED sesVars
    <2>1. UNCHANGED <<password, sessions, reset_tokens, failures, epoch, orphan, ses>>
      BY <1>7 DEF sesVars
    <2> QED BY <2>1, SessionsGo DEF SesInv, SesTypeOK
  <1> QED BY <1>1, <1>2, <1>3, <1>4, <1>5, <1>6, <1>7 DEF SesNext, Ends

LEMMA SesInvariant == SesSpec => []SesInv
  BY InitSes, NextSes, PTL DEF SesSpec

(***************************************************************************)
(* Passwords, sessions, Redis keys and handlers keep their types.          *)
(***************************************************************************)
THEOREM SesTypeCorrect == SesSpec => []SesTypeOK
  <1>1. SesInv => SesTypeOK
    BY DEF SesInv
  <1> QED BY <1>1, SesInvariant, PTL

(***************************************************************************)
(* reset_password "invalidates all existing sessions": a session from      *)
(* before the last reset belongs to a login that was under way when the    *)
(* reset's DELETE ran, for any number of overlapping logins and resets.    *)
(***************************************************************************)
THEOREM NoSessionOutlivesReset == SesSpec => []ResetEndsSessions
  <1>1. SesInv => ResetEndsSessions
    BY DEF SesInv
  <1> QED BY <1>1, SesInvariant, PTL

-----------------------------------------------------------------------------
\* Logins that will be counted if they fail.
Attempting == {q \in SesRequests : ses[q].pc \in {"verify", "incr"}}

\* Each attempt passed the check before the counter reached the limit.
LimitInv == failures.count + Cardinality(Attempting) < MaxAttempts + Cardinality(SesRequests)

LEMMA AttemptsFinite ==
    /\ IsFiniteSet(Attempting) /\ Cardinality(Attempting) \in Nat
    /\ Cardinality(SesRequests) \in Nat
    /\ Cardinality(Attempting) <= Cardinality(SesRequests)
  <1>1. Attempting \subseteq SesRequests
    BY DEF Attempting
  <1>2. IsFiniteSet(SesRequests)
    BY SesAssumption
  <1> QED BY <1>1, <1>2, FS_Subset, FS_CardinalityType

\* Nobody starts an attempt and the counter does not grow.
LEMMA LimitShrinks ==
    ASSUME SesTypeOK, SesTypeOK', LimitInv, Attempting' \subseteq Attempting, failures'.count <= failures.count
    PROVE  LimitInv'
  <1>1. IsFiniteSet(Attempting) /\ Cardinality(Attempting) \in Nat /\ Cardinality(SesRequests) \in Nat
    BY AttemptsFinite
  <1>2. Cardinality(Attempting') <= Cardinality(Attempting) /\ Cardinality(Attempting') \in Nat
    BY <1>1, FS_Subset, FS_CardinalityType
  <1>3. failures.count \in Nat /\ failures'.count \in Nat /\ MaxAttempts \in Nat
    BY SesAssumption DEF SesTypeOK
  <1> QED BY <1>1, <1>2, <1>3 DEF LimitInv

\* Where a handler is after its program counter, or all of it, was assigned.
LEMMA Moves ==
    ASSUME SesTypeOK, NEW r \in SesRequests, NEW q \in SesRequests
    PROVE  /\ \A label : ses' = [ses EXCEPT ![r].pc = label] =>
                ses'[q].pc = IF q = r THEN label ELSE ses[q].pc
           /\ \A x : ses' = [ses EXCEPT ![r] = x] => ses'[q].pc = IF q = r THEN x.pc ELSE ses[q].pc
  <1>1. ses \in [SesRequests -> {SesIdle} \cup LoginState \cup ResetState \cup RevokeState]
    BY DEF SesTypeOK
  <1>2. ses[r] \in {SesIdle} \cup LoginState \cup ResetState \cup RevokeState
    BY <1>1
  <1>3. \A label : [ses[r] EXCEPT !.pc = label].pc = label
    BY <1>2 DEF SesIdle, LoginState, ResetState, RevokeState
  <1>4. ASSUME NEW label, ses' = [ses EXCEPT ![r].pc = label]
        PROVE  ses'[q].pc = IF q = r THEN label ELSE ses[q].pc
    <2>1. ses' = [ses EXCEPT ![r] = [ses[r] EXCEPT !.pc = label]]
      BY <1>4
    <2> QED BY <1>1, <1>3, <2>1
  <1>5. ASSUME NEW x, ses' = [ses EXCEPT ![r] = x]
        PROVE  ses'[q].pc = IF q = r THEN x.pc ELSE ses[q].pc
    BY <1>1, <1>5
  <1> QED BY <1>4, <1>5

LEMMA LimitNext == SesInv /\ LimitInv /\ [SesNext]_sesVars => LimitInv'
  <1> SUFFICES ASSUME SesInv, LimitInv, [SesNext]_sesVars PROVE LimitInv'
    OBVIOUS
  <1>1. SesTypeOK /\ SesTypeOK'
    BY NextSes DEF SesInv
  <1>2. ses \in [SesRequests -> {SesIdle} \cup LoginState \cup ResetState \cup RevokeState]
    BY <1>1 DEF SesTypeOK
  <1>3. ASSUME NEW r \in SesRequests,
               \A q \in SesRequests : ses'[q].pc = ses[q].pc \/ (q = r /\ ses'[r].pc \notin {"verify", "incr"})
        PROVE  Attempting' \subseteq Attempting
    BY <1>3 DEF Attempting
  <1>4. ASSUME NEW r \in SesRequests, NEW pw \in SesPasswords, NEW second \in BOOLEAN, Login(r, pw, second)
        PROVE  LimitInv'
    <2>1. failures.count < MaxAttempts /\ failures' = failures
      BY <1>1, <1>4, SesAssumption DEF Login, is_blocked, SesTypeOK
    <2>2. /\ Cardinality(Attempting') \in Nat /\ Cardinality(SesRequests) \in Nat
          /\ Cardinality(Attempting') <= Cardinality(SesRequests)
      BY AttemptsFinite, FS_Subset, FS_CardinalityType, SesAssumption DEF Attempting
    <2>3. failures.count \in Nat /\ MaxAttempts \in Nat
      BY <1>1, SesAssumption DEF SesTypeOK
    <2> QED BY <2>1, <2>2, <2>3 DEF LimitInv
  <1>5. ASSUME NEW r \in SesRequests, RecordFailure(r)
        PROVE  LimitInv'
    <2>1. ses[r].pc = "incr" /\ failures'.count = failures.count + 1
      BY <1>1, <1>5 DEF RecordFailure, SesTypeOK
    <2>2. Attempting' \subseteq Attempting \ {r} /\ r \in Attempting
      <3>1. ses' = [ses EXCEPT ![r].pc = "expire"] \/ ses' = [ses EXCEPT ![r] = SesIdle]
        BY <1>5 DEF RecordFailure, SesGoto, SesEnd
      <3>2. \A q \in SesRequests : IF q = r THEN ses'[q].pc \in {"expire", "idle"} ELSE ses'[q].pc = ses[q].pc
        BY <1>1, <3>1, Moves DEF SesIdle
      <3> QED BY <2>1, <3>2 DEF Attempting
    <2>3. /\ IsFiniteSet(Attempting \ {r})
          /\ Cardinality(Attempting \ {r}) = Cardinality(Attempting) - 1
      BY <2>2, AttemptsFinite, FS_RemoveElement
    <2>4. Cardinality(Attempting') <= Cardinality(Attempting \ {r}) /\ Cardinality(Attempting') \in Nat
      BY <2>2, <2>3, FS_Subset, FS_CardinalityType
    <2>5. /\ failures.count \in Nat /\ MaxAttempts \in Nat
          /\ Cardinality(Attempting) \in Nat /\ Cardinality(SesRequests) \in Nat
      BY <1>1, SesAssumption, AttemptsFinite DEF SesTypeOK
    <2> QED BY <2>1, <2>3, <2>4, <2>5 DEF LimitInv
  <1>6. ASSUME NEW r \in SesRequests, SesStep(r), ~RecordFailure(r)
        PROVE  Attempting' \subseteq Attempting /\ failures'.count <= failures.count
    <2>1. failures' = failures \/ failures' = NoFailures \/ failures' = [failures EXCEPT !.ttl = failures.count > 0]
      BY <1>6 DEF SesStep, LoginVerify, LoginFlush, LoginClear, LoginCommit, ExpireKey, ResetFlush,
                  ResetDropToken, ResetDropSessions, ResetCommit, RevokeCommit
    <2>2. failures'.count <= failures.count
      BY <1>1, <2>1 DEF NoFailures, SesTypeOK
    <2>3. ASSUME NEW id \in SesIds, LoginVerify(r, id)
          PROVE  Attempting' \subseteq Attempting
      <3>1. r \in Attempting
        BY <2>3 DEF LoginVerify, Attempting
      <3>2. \A q \in SesRequests : q # r => ses'[q] = ses[q]
        BY <1>2, <2>3 DEF LoginVerify, SesGoto
      <3> QED BY <3>1, <3>2 DEF Attempting
    <2>4. CASE ResetDropSessions(r)
      <3>1. /\ ses[r] \in ResetState
            /\ \A q \in SesRequests : Accepts(q) => ses[q] \in LoginState
        BY <1>1, <2>4, Shapes DEF ResetDropSessions, Accepts
      <3>2. /\ [ses[r] EXCEPT !.pc = "reset_commit", !.drop = sessions].pc = "reset_commit"
            /\ \A q \in SesRequests : Accepts(q) => [ses[q] EXCEPT !.raced = TRUE].pc = ses[q].pc
        BY <3>1 DEF ResetState, LoginState
      <3>3. \A q \in SesRequests : ses'[q].pc = ses[q].pc \/ (q = r /\ ses'[q].pc = "reset_commit")
        BY <2>4, <3>2 DEF ResetDropSessions, Accepts, Accepted
      <3> QED BY <1>3, <2>2, <3>3
    <2>5. CASE LoginFlush(r) \/ LoginClear(r) \/ LoginCommit(r) \/ ExpireKey(r) \/ ResetFlush(r)
                 \/ ResetDropToken(r) \/ ResetCommit(r) \/ RevokeCommit(r)
      <3>1. \/ ses' = [ses EXCEPT ![r] = SesIdle]
            \/ \E label \in {"clear", "login_commit", "drop_token", "drop_sessions"} : ses' = [ses EXCEPT ![r].pc = label]
        BY <2>5 DEF LoginFlush, LoginClear, LoginCommit, ExpireKey, ResetFlush, ResetDropToken,
                    ResetCommit, RevokeCommit, SesEnd, SesGoto
      <3>2. \A q \in SesRequests : ses'[q].pc = ses[q].pc \/ (q = r /\ ses'[r].pc \notin {"verify", "incr"})
        BY <1>1, <3>1, Moves DEF SesIdle
      <3> QED BY <1>3, <2>2, <3>2
    <2> QED BY <1>6, <2>2, <2>3, <2>4, <2>5 DEF SesStep
  <1>7. ASSUME NEW r \in SesRequests,
               \/ \E t \in SesTokens, pw \in SesPasswords : reset_password(r, t, pw)
               \/ \E id \in SesIds : revoke_other_sessions(r, id)
               \/ SesCrash(r)
        PROVE  Attempting' \subseteq Attempting /\ failures' = failures
    <2>1. \E x : ses' = [ses EXCEPT ![r] = x] /\ x.pc \in {"reset_flush", "revoke_commit", "idle"}
      <3>1. ASSUME NEW t \in SesTokens, NEW pw \in SesPasswords, reset_password(r, t, pw)
            PROVE  \E x : ses' = [ses EXCEPT ![r] = x] /\ x.pc \in {"reset_flush", "revoke_commit", "idle"}
        <4> WITNESS [pc |-> "reset_flush", pw |-> pw, token |-> t, drop |-> {}]
        <4> QED BY <3>1 DEF reset_password
      <3>2. ASSUME NEW id \in SesIds, revoke_other_sessions(r, id)
            PROVE  \E x : ses' = [ses EXCEPT ![r] = x] /\ x.pc \in {"reset_flush", "revoke_commit", "idle"}
        <4> WITNESS [pc |-> "revoke_commit", drop |-> {s \in sessions : s.id # id}]
        <4> QED BY <3>2 DEF revoke_other_sessions
      <3>3. CASE SesCrash(r)
        <4> WITNESS SesIdle
        <4> QED BY <3>3 DEF SesCrash, SesEnd, SesIdle
      <3> QED BY <1>7, <3>1, <3>2, <3>3
    <2>2. \A q \in SesRequests : ses'[q].pc = ses[q].pc \/ (q = r /\ ses'[r].pc \notin {"verify", "incr"})
      BY <1>1, <2>1, Moves
    <2>3. failures' = failures
      BY <1>7 DEF reset_password, revoke_other_sessions, SesCrash
    <2> QED BY <1>3, <2>2, <2>3
  <1>8. CASE Ends \/ UNCHANGED sesVars
    <2>1. ses' = ses /\ (failures' = failures \/ failures' = NoFailures)
      BY <1>8 DEF Ends, forgot_password, TokenExpires, logout, revoke_session, SessionExpires, WindowEnds, sesVars
    <2>2. Attempting' \subseteq Attempting
      BY <2>1 DEF Attempting
    <2>3. failures'.count <= failures.count
      BY <1>1, <2>1 DEF NoFailures, SesTypeOK
    <2> QED BY <1>1, <2>2, <2>3, LimitShrinks
  <1>9. failures.count <= failures.count
    BY <1>1 DEF SesTypeOK
  <1> QED BY <1>1, <1>4, <1>5, <1>6, <1>7, <1>8, <1>9, LimitShrinks DEF SesNext, Ends

(***************************************************************************)
(* The login limiter checks before it counts, yet with n overlapping       *)
(* requests at most n - 1 passwords are tried beyond the limit.            *)
(***************************************************************************)
THEOREM AttemptsBounded == SesSpec => []FailuresBounded
  <1>1. SesInit => LimitInv
    <2> SUFFICES ASSUME SesInit PROVE LimitInv
      OBVIOUS
    <2>1. Attempting = {} /\ failures.count = 0
      BY DEF SesInit, Attempting, SesIdle, NoFailures
    <2>2. Cardinality(Attempting) = 0
      BY <2>1, FS_EmptySet
    <2> QED BY <2>1, <2>2, AttemptsFinite, SesAssumption DEF LimitInv
  <1>2. SesInv /\ LimitInv => FailuresBounded
    <2> SUFFICES ASSUME SesInv, LimitInv PROVE FailuresBounded
      OBVIOUS
    <2>1. failures.count \in Nat
      BY DEF SesInv, SesTypeOK
    <2> QED BY <2>1, AttemptsFinite, SesAssumption DEF LimitInv, FailuresBounded
  <1> QED BY <1>1, <1>2, LimitNext, SesInvariant, PTL DEF SesSpec

-----------------------------------------------------------------------------
\* The sessions as AccountRules sees them.
Live == {s.id : s \in {t \in sessions : ~t.raced}}
Overtaken == {s.id : s \in {t \in sessions : t.raced}}

\* Rows that go take their ids with them, and no other row has them.
LEMMA RowsGo ==
    ASSUME SesInv, sessions' \in SUBSET sessions
    PROVE  \E ids \in SUBSET SesIds : Live' = Live \ ids /\ Overtaken' = Overtaken \ ids
  <1> DEFINE ids == {s.id : s \in sessions \ sessions'}
  <1>1. ids \in SUBSET SesIds
    BY DEF SesInv, SesTypeOK, Session
  <1>2. \A s \in sessions : s.id \in ids <=> s \notin sessions'
    BY DEF SesInv, IdsOK
  <1>3. Live' = Live \ ids /\ Overtaken' = Overtaken \ ids
    BY <1>2 DEF Live, Overtaken
  <1> QED BY <1>1, <1>3

\* A login's session is signed in, or known to be overtaken.
LEMMA LoginCommitRules ==
    ASSUME SesInv, NEW r \in SesRequests, LoginCommit(r)
    PROVE  \E id \in SesIds : Rules!SignIn(id) \/ Rules!OvertakenSignIn(id)
  <1> DEFINE new == [id |-> ses[r].id, epoch |-> ses[r].epoch, raced |-> ses[r].raced]
  <1>1. /\ ses[r] \in LoginState /\ Accepts(r)
        /\ sessions' = sessions \cup {new}
        /\ password' = IF ses[r].rehash THEN [is |-> ses[r].pw, outdated |-> FALSE] ELSE password
        /\ epoch' = epoch
    BY Shapes DEF LoginCommit, SesInv, Accepts, Accepted
  <1>2. new.id = ses[r].id /\ (new.raced <=> ses[r].raced)
    OBVIOUS
  <1> HIDE DEF new
  <1>3. ses[r].id \in SesIds /\ \A s \in sessions : s.id # ses[r].id
    BY <1>1 DEF SesInv, LoginsOK, IdsOK
  <1>4. ses[r].id \notin Live \cup Overtaken
    BY <1>3 DEF Live, Overtaken
  <1>5. password'.is \in SesPasswords
    BY <1>1 DEF SesInv, SesTypeOK, LoginState
  <1>6. CASE ses[r].raced
    <2>1. Live' = Live /\ Overtaken' = Overtaken \cup {ses[r].id}
      <3>1. /\ {t \in sessions' : ~t.raced} = {t \in sessions : ~t.raced}
            /\ {t \in sessions' : t.raced} = {t \in sessions : t.raced} \cup {new}
        BY <1>1, <1>6, <1>2
      <3> QED BY <1>2, <3>1 DEF Live, Overtaken
    <2> QED BY <1>1, <1>3, <1>4, <1>5, <2>1 DEF Rules!OvertakenSignIn, Live, Overtaken
  <1>7. CASE ~ses[r].raced
    <2>1. Live' = Live \cup {ses[r].id} /\ Overtaken' = Overtaken
      <3>1. /\ {t \in sessions' : ~t.raced} = {t \in sessions : ~t.raced} \cup {new}
            /\ {t \in sessions' : t.raced} = {t \in sessions : t.raced}
        BY <1>1, <1>7, <1>2
      <3> QED BY <1>2, <3>1 DEF Live, Overtaken
    <2>2. password'.is = password.is
      BY <1>1, <1>7 DEF SesInv, RenewsOK
    <2> QED BY <1>1, <1>3, <1>4, <2>1, <2>2 DEF Rules!SignIn, Live, Overtaken
  <1> QED BY <1>6, <1>7

\* A reset leaves no live session.
LEMMA ResetCommitRules ==
    ASSUME SesInv, NEW r \in SesRequests, ResetCommit(r)
    PROVE  \E ids \in SUBSET SesIds, pw \in SesPasswords : Rules!Reset(pw, ids)
  <1>1. /\ ses[r] \in ResetState /\ ses[r].pc = "reset_commit"
        /\ password' = [is |-> ses[r].pw, outdated |-> FALSE]
        /\ sessions' = sessions \ ses[r].drop
        /\ epoch' = epoch + 1
    BY Shapes DEF ResetCommit, SesInv
  <1>2. \A s \in sessions' : s.raced
    BY <1>1 DEF SesInv, ResetsOK
  <1>3. Live' = {}
    BY <1>2 DEF Live
  <1>4. PICK ids \in SUBSET SesIds : Overtaken' = Overtaken \ ids
    BY <1>1, RowsGo
  <1>5. ses[r].pw \in SesPasswords /\ password'.is = ses[r].pw
    BY <1>1 DEF ResetState
  <1>6. Rules!Reset(ses[r].pw, ids)
    BY <1>1, <1>3, <1>4, <1>5 DEF Rules!Reset, Live, Overtaken
  <1> QED BY <1>5, <1>6

LEMMA SignOutRules ==
    ASSUME SesInv, sessions' \in SUBSET sessions, UNCHANGED <<password, epoch>>
    PROVE  \E ids \in SUBSET SesIds : Rules!SignOut(ids)
  <1>1. PICK ids \in SUBSET SesIds : Live' = Live \ ids /\ Overtaken' = Overtaken \ ids
    BY RowsGo
  <1>2. Rules!SignOut(ids)
    BY <1>1 DEF Rules!SignOut, Live, Overtaken
  <1> QED BY <1>2

\* Every step is one of the rules', most of them one that changes nothing.
LEMMA StepRules == SesInv /\ [SesNext]_sesVars => [Rules!RulesNext]_(Rules!rulesVars)
  <1> SUFFICES ASSUME SesInv, [SesNext]_sesVars PROVE [Rules!RulesNext]_(Rules!rulesVars)
    OBVIOUS
  <1>1. ASSUME NEW r \in SesRequests, LoginCommit(r)
        PROVE  Rules!RulesNext
    BY <1>1, LoginCommitRules DEF Rules!RulesNext
  <1>2. ASSUME NEW r \in SesRequests, ResetCommit(r)
        PROVE  Rules!RulesNext
    BY <1>2, ResetCommitRules DEF Rules!RulesNext
  <1>3. ASSUME sessions' \in SUBSET sessions, UNCHANGED <<password, epoch>>
        PROVE  Rules!RulesNext
    BY <1>3, SignOutRules DEF Rules!RulesNext
  <1>4. CASE Ends \/ UNCHANGED sesVars
    <2>1. sessions' \in SUBSET sessions /\ UNCHANGED <<password, epoch>>
      BY <1>4 DEF Ends, forgot_password, TokenExpires, logout, revoke_session, SessionExpires,
                  WindowEnds, sesTables, sesVars
    <2> QED BY <1>3, <2>1
  <1>5. ASSUME NEW r \in SesRequests, SesStep(r), ~LoginCommit(r), ~ResetCommit(r)
        PROVE  sessions' \in SUBSET sessions /\ UNCHANGED <<password, epoch>>
    BY <1>5 DEF SesStep, LoginVerify, LoginFlush, LoginClear, RecordFailure, ExpireKey, ResetFlush,
                ResetDropToken, ResetDropSessions, RevokeCommit, sesTables
  <1>6. ASSUME NEW r \in SesRequests,
               \/ \E pw \in SesPasswords, second \in BOOLEAN : Login(r, pw, second)
               \/ \E t \in SesTokens, pw \in SesPasswords : reset_password(r, t, pw)
               \/ \E id \in SesIds : revoke_other_sessions(r, id)
               \/ SesCrash(r)
        PROVE  sessions' \in SUBSET sessions /\ UNCHANGED <<password, epoch>>
    BY <1>6 DEF Login, reset_password, revoke_other_sessions, SesCrash, sesTables
  <1> QED BY <1>1, <1>2, <1>3, <1>4, <1>5, <1>6 DEF SesNext, Ends

(***************************************************************************)
(* Login, reset and revocation, interleaved statement by statement and     *)
(* with crashes, do to password and sessions only what AccountRules says.  *)
(***************************************************************************)
THEOREM AccountRulesImplemented == SesSpec => ImplementsAccountRules
  <1>1. SesInit => Rules!RulesInit
    BY DEF SesInit, Rules!RulesInit
  <1> QED BY <1>1, StepRules, SesInvariant, PTL DEF SesSpec, ImplementsAccountRules, Rules!RulesSpec

-----------------------------------------------------------------------------
(***************************************************************************)
(* AccountTotp: the second factor.                                         *)
(***************************************************************************)
Columns == [secret : Nat, enabled : BOOLEAN]
Labels == {"idle", "get", "disable", "confirm_flush", "unset", "confirm_commit"}

TfaTypeOK ==
    /\ totp \in Columns
    /\ pending \in Nat
    /\ issued \in Nat
    /\ tfa \in [TfaRequests -> [pc : Labels, loaded : Columns, secret : Nat]]

\* No secret is one that was not handed out.
HandedOut ==
    /\ totp.secret <= issued /\ pending <= issued
    /\ \A r \in TfaRequests : tfa[r].secret <= issued /\ tfa[r].loaded.secret <= issued

\* The waiting secret is in use nowhere: not in the row, not in what a handler
\* has loaded, not with one that has deleted the key and goes on to commit.
PendingNew ==
    pending # NoSecret =>
        /\ pending # totp.secret
        /\ \A r \in TfaRequests :
             /\ tfa[r].loaded.secret # pending
             /\ tfa[r].pc = "confirm_commit" => tfa[r].secret # pending

\* A confirmation writes a secret, one that differs from the loaded one.
ConfirmsNew ==
    \A r \in TfaRequests : tfa[r].pc \in {"confirm_flush", "unset", "confirm_commit"} =>
        tfa[r].secret # NoSecret /\ tfa[r].secret # tfa[r].loaded.secret

EnabledHasSecret == totp.enabled => totp.secret # NoSecret

TfaInv == TfaTypeOK /\ HandedOut /\ PendingNew /\ ConfirmsNew /\ EnabledHasSecret

-----------------------------------------------------------------------------
LEMMA InitTfa == TfaInit => TfaInv
  BY DEF TfaInit, TfaInv, TfaTypeOK, HandedOut, PendingNew, ConfirmsNew, EnabledHasSecret, TfaIdle,
         NoSecret, Columns, Labels

\* A request ends and the row is as before.
LEMMA EndTfa ==
    ASSUME TfaInv, NEW r \in TfaRequests, TfaEnd(r), UNCHANGED <<totp, pending, issued>>
    PROVE  TfaInv'
  <1>1. TfaTypeOK'
    BY DEF TfaInv, TfaTypeOK, TfaEnd, TfaIdle, NoSecret, Columns, Labels
  <1>2. (HandedOut /\ PendingNew /\ ConfirmsNew /\ EnabledHasSecret)'
    BY DEF TfaInv, TfaTypeOK, HandedOut, PendingNew, ConfirmsNew, EnabledHasSecret, TfaEnd, TfaIdle, NoSecret
  <1> QED BY <1>1, <1>2 DEF TfaInv

\* Redis alone: a new secret waits, or none.
LEMMA PendingTfa ==
    ASSUME TfaInv, totp_setup \/ PendingExpires
    PROVE  TfaInv'
  <1>1. UNCHANGED <<totp, tfa>> /\ issued \in Nat
    BY DEF totp_setup, PendingExpires, TfaInv, TfaTypeOK
  <1>2. totp.secret \in Nat /\ \A r \in TfaRequests : tfa[r].secret \in Nat /\ tfa[r].loaded.secret \in Nat
    BY DEF TfaInv, TfaTypeOK, Columns
  <1>3. \/ issued' = issued + 1 /\ pending' = issued + 1
        \/ issued' = issued /\ pending' = NoSecret
    BY DEF totp_setup, PendingExpires
  <1>4. TfaTypeOK'
    BY <1>1, <1>3 DEF TfaInv, TfaTypeOK, NoSecret
  <1>5. HandedOut'
    BY <1>1, <1>2, <1>3 DEF TfaInv, HandedOut, NoSecret
  <1>6. PendingNew'
    BY <1>1, <1>2, <1>3 DEF TfaInv, HandedOut, PendingNew
  <1>7. (ConfirmsNew /\ EnabledHasSecret)'
    BY <1>1 DEF TfaInv, ConfirmsNew, EnabledHasSecret
  <1> QED BY <1>4, <1>5, <1>6, <1>7 DEF TfaInv

LEMMA LoadTfa ==
    ASSUME TfaInv, NEW r \in TfaRequests, NEW label \in {"get", "disable"}, TfaLoad(r, label)
    PROVE  TfaInv'
  <1> DEFINE x == [TfaIdle EXCEPT !.pc = label, !.loaded = totp]
  <1>1. /\ x \in [pc : Labels, loaded : Columns, secret : Nat]
        /\ x.pc = label /\ x.loaded = totp /\ x.secret = NoSecret
    BY DEF TfaIdle, Labels, TfaInv, TfaTypeOK, NoSecret
  <1>2. tfa' = [tfa EXCEPT ![r] = x] /\ UNCHANGED <<totp, pending, issued>>
    BY DEF TfaLoad
  <1> HIDE DEF x
  <1>3. TfaTypeOK'
    BY <1>1, <1>2 DEF TfaInv, TfaTypeOK
  <1>4. (HandedOut /\ PendingNew /\ ConfirmsNew /\ EnabledHasSecret)'
    BY <1>1, <1>2 DEF TfaInv, TfaTypeOK, HandedOut, PendingNew, ConfirmsNew, EnabledHasSecret, NoSecret
  <1> QED BY <1>3, <1>4 DEF TfaInv

LEMMA ConfirmTfa ==
    ASSUME TfaInv, NEW r \in TfaRequests, NEW code, totp_confirm(r, code)
    PROVE  TfaInv'
  <1>1. CASE pending # NoSecret /\ code = pending
    <2>1. /\ tfa' = [tfa EXCEPT ![r].pc = "confirm_flush", ![r].secret = pending]
          /\ UNCHANGED <<totp, pending, issued>>
      BY <1>1 DEF totp_confirm
    <2>2. TfaTypeOK'
      BY <2>1 DEF TfaInv, TfaTypeOK, Labels
    <2>3. (HandedOut /\ PendingNew /\ ConfirmsNew /\ EnabledHasSecret)'
      BY <1>1, <2>1 DEF TfaInv, TfaTypeOK, HandedOut, PendingNew, ConfirmsNew, EnabledHasSecret, NoSecret
    <2> QED BY <2>2, <2>3 DEF TfaInv
  <1>2. CASE ~(pending # NoSecret /\ code = pending)
    BY <1>2, EndTfa DEF totp_confirm
  <1> QED BY <1>1, <1>2

LEMMA FlushTfa ==
    ASSUME TfaInv, NEW r \in TfaRequests, ConfirmFlush(r) \/ DropPending(r)
    PROVE  TfaInv'
  <1>1. TfaTypeOK'
    BY DEF TfaInv, TfaTypeOK, ConfirmFlush, DropPending, Labels, NoSecret
  <1>2. (HandedOut /\ PendingNew /\ ConfirmsNew /\ EnabledHasSecret)'
    BY DEF TfaInv, TfaTypeOK, HandedOut, PendingNew, ConfirmsNew, EnabledHasSecret, ConfirmFlush,
           DropPending, NoSecret
  <1> QED BY <1>1, <1>2 DEF TfaInv

\* The secret column is always among those written, so the row that is enabled has one.
LEMMA CommitTfa ==
    ASSUME TfaInv, NEW r \in TfaRequests, ConfirmCommit(r)
    PROVE  TfaInv'
  <1> DEFINE row == TotpWritten(tfa[r].loaded, [secret |-> tfa[r].secret, enabled |-> TRUE])
  <1>1. /\ tfa[r].pc = "confirm_commit" /\ totp' = row
        /\ tfa' = [tfa EXCEPT ![r] = TfaIdle] /\ UNCHANGED <<pending, issued>>
    BY DEF ConfirmCommit, TfaEnd
  <1>2. tfa[r].secret # NoSecret /\ tfa[r].secret # tfa[r].loaded.secret
    BY <1>1 DEF TfaInv, ConfirmsNew
  <1>3. DOMAIN totp = {"secret", "enabled"}
    BY DEF TfaInv, TfaTypeOK, Columns
  <1>4. row \in Columns /\ row.secret = tfa[r].secret
    BY <1>2, <1>3 DEF TotpWritten, TfaInv, TfaTypeOK, Columns
  <1> HIDE DEF row
  <1>5. TfaTypeOK'
    BY <1>1, <1>4 DEF TfaInv, TfaTypeOK, TfaIdle, NoSecret, Columns, Labels
  <1>6. (HandedOut /\ PendingNew /\ ConfirmsNew /\ EnabledHasSecret)'
    BY <1>1, <1>2, <1>4 DEF TfaInv, TfaTypeOK, HandedOut, PendingNew, ConfirmsNew, EnabledHasSecret,
                            TfaIdle, NoSecret
  <1> QED BY <1>5, <1>6 DEF TfaInv

\* Who may disable has loaded an enabled row, so both columns are written.
LEMMA DisableTfa ==
    ASSUME TfaInv, NEW r \in TfaRequests, NEW code, totp_disable(r, code)
    PROVE  TfaInv'
  <1> DEFINE row == TotpWritten(tfa[r].loaded, [secret |-> NoSecret, enabled |-> FALSE])
  <1>1. TfaEnd(r) /\ UNCHANGED <<pending, issued>>
    BY DEF totp_disable
  <1>2. CASE tfa[r].loaded.enabled /\ tfa[r].loaded.secret # NoSecret /\ code = tfa[r].loaded.secret
    <2>1. totp' = row
      BY <1>2 DEF totp_disable
    <2>2. DOMAIN totp = {"secret", "enabled"}
      BY DEF TfaInv, TfaTypeOK, Columns
    <2>3. row \in Columns /\ row.secret = NoSecret /\ row.enabled = FALSE
      BY <1>2, <2>2 DEF TotpWritten, TfaInv, TfaTypeOK, Columns, NoSecret
    <2> HIDE DEF row
    <2>4. TfaTypeOK'
      BY <1>1, <2>1, <2>3 DEF TfaInv, TfaTypeOK, TfaEnd, TfaIdle, NoSecret, Columns, Labels
    <2>5. (HandedOut /\ PendingNew /\ ConfirmsNew /\ EnabledHasSecret)'
      BY <1>1, <2>1, <2>3 DEF TfaInv, TfaTypeOK, HandedOut, PendingNew, ConfirmsNew, EnabledHasSecret,
                              TfaEnd, TfaIdle, NoSecret
    <2> QED BY <2>4, <2>5 DEF TfaInv
  <1>3. CASE ~(tfa[r].loaded.enabled /\ tfa[r].loaded.secret # NoSecret /\ code = tfa[r].loaded.secret)
    BY <1>1, <1>3, EndTfa DEF totp_disable
  <1> QED BY <1>2, <1>3

LEMMA NextTfa == TfaInv /\ [TfaNext]_tfaVars => TfaInv'
  <1> SUFFICES ASSUME TfaInv, [TfaNext]_tfaVars PROVE TfaInv'
    OBVIOUS
  <1>1. ASSUME NEW r \in TfaRequests, TfaCrash(r)
        PROVE  TfaInv'
    BY <1>1, EndTfa DEF TfaCrash
  <1>2. CASE UNCHANGED tfaVars
    BY <1>2 DEF TfaInv, TfaTypeOK, HandedOut, PendingNew, ConfirmsNew, EnabledHasSecret, tfaVars
  <1> QED BY <1>1, <1>2, PendingTfa, LoadTfa, ConfirmTfa, FlushTfa, CommitTfa, DisableTfa DEF TfaNext

(***************************************************************************)
(* login's "TOTP is misconfigured for this account" cannot happen: an      *)
(* enabled second factor always has a secret that was handed out, for any  *)
(* overlap of set-ups, confirmations and disabling.                        *)
(***************************************************************************)
THEOREM NobodyLockedOut == TfaSpec => []TotpUsable
  <1>1. TfaInv => TotpUsable
    <2> SUFFICES ASSUME TfaInv PROVE TotpUsable
      OBVIOUS
    <2>1. totp.secret \in 0 .. issued /\ 0 \in 0 .. issued
      BY DEF TfaInv, TfaTypeOK, HandedOut, Columns
    <2>2. CASE totp.enabled
      BY <2>1, <2>2 DEF TfaInv, EnabledHasSecret, TotpUsable, SecondFactor
    <2>3. CASE ~totp.enabled
      BY <2>1, <2>3 DEF TotpUsable, SecondFactor
    <2> QED BY <2>2, <2>3
  <1> QED BY <1>1, InitTfa, NextTfa, PTL DEF TfaSpec

-----------------------------------------------------------------------------
(***************************************************************************)
(* Portfolios: one default, and never none.                                *)
(***************************************************************************)
Row == [id : PflIds, name : PflNames, is_default : BOOLEAN]
Writer == [pc : {"demote", "lock", "write"}, op : {"insert", "update"}, id : PflIds,
           name : PflNames, def : BOOLEAN, locked : SUBSET PflIds,
           loaded : Row \cup [is_default : {FALSE}]]
Deleter == [pc : {"delete"}, id : PflIds]

PflTypeOK ==
    /\ portfolios \subseteq Row
    /\ used \subseteq PflIds
    /\ had \in BOOLEAN /\ gaveUp \in BOOLEAN
    /\ pfl \in [PflRequests -> Writer \cup Deleter \cup {PflIdle}]

Inserts(r) == pfl[r] \in Writer /\ pfl[r].op = "insert"

IdsUnique == \A p, q \in portfolios : p.id = q.id => p = q
IdsUsed == \A p \in portfolios : p.id \in used

\* The id a handler inserts is drawn, and nobody else's; the row is not loaded.
InsertsNew ==
    \A r \in PflRequests : Inserts(r) =>
        /\ pfl[r].id \in used /\ pfl[r].loaded.is_default = FALSE
        /\ \A p \in portfolios : p.id # pfl[r].id
        /\ \A q \in PflRequests : Inserts(q) /\ pfl[q].id = pfl[r].id => q = r

\* Only who makes another row the default demotes, and will write that column.
DemotesToReplace ==
    \A r \in PflRequests : pfl[r] \in Writer =>
        \/ pfl[r].pc = "write" /\ pfl[r].locked = {}
        \/ pfl[r].def = TRUE /\ pfl[r].loaded.is_default = FALSE

OneDefault == \A p, q \in portfolios : p.is_default /\ q.is_default => p = q
Kept == had /\ ~gaveUp => \E p \in portfolios : p.is_default

PflInv == PflTypeOK /\ IdsUnique /\ IdsUsed /\ InsertsNew /\ DemotesToReplace /\ OneDefault /\ Kept

-----------------------------------------------------------------------------
LEMMA InitPfl == PflInit => PflInv
  <1> SUFFICES ASSUME PflInit PROVE PflInv
    OBVIOUS
  <1>1. \A r \in PflRequests : pfl[r] = PflIdle /\ PflIdle \notin Writer
    BY DEF PflInit, PflIdle, Writer
  <1> QED BY <1>1 DEF PflInit, PflInv, PflTypeOK, IdsUnique, IdsUsed, InsertsNew, Inserts, DemotesToReplace,
             OneDefault, Kept

\* A handler's kind is its program counter.
LEMMA Kinds ==
    ASSUME PflTypeOK, NEW r \in PflRequests
    PROVE  /\ PflIdle \notin Writer
           /\ \A x \in Deleter : x \notin Writer
           /\ pfl[r].pc \in {"demote", "lock", "write"} => pfl[r] \in Writer
           /\ pfl[r].pc = "delete" => pfl[r] \in Deleter
  <1>1. PflIdle.pc = "idle" /\ (\A x \in Writer : x.pc \in {"demote", "lock", "write"})
        /\ (\A x \in Deleter : x.pc = "delete")
    BY DEF PflIdle, Writer, Deleter
  <1> QED BY <1>1 DEF PflTypeOK

\* A request ends without a change of the rows: a rollback.
LEMMA EndPfl ==
    ASSUME PflInv, NEW r \in PflRequests, PflEnd(r), UNCHANGED <<portfolios, used, had, gaveUp>>
    PROVE  PflInv'
  <1>1. pfl' = [pfl EXCEPT ![r] = PflIdle] /\ PflIdle \notin Writer
    BY Kinds DEF PflEnd, PflInv
  <1>2. PflTypeOK'
    BY <1>1 DEF PflInv, PflTypeOK
  <1>3. \A q \in PflRequests : pfl'[q] \in Writer => q # r /\ pfl'[q] = pfl[q]
    BY <1>1 DEF PflInv, PflTypeOK
  <1>4. (InsertsNew /\ DemotesToReplace)'
    BY <1>3 DEF PflInv, InsertsNew, Inserts, DemotesToReplace
  <1> QED BY <1>2, <1>4 DEF PflInv, IdsUnique, IdsUsed, OneDefault, Kept

\* A request starts to insert: the id is new, the row locks are still to come.
LEMMA InsertPfl ==
    ASSUME PflInv, NEW r \in PflRequests, NEW x \in Writer, x.op = "insert", x.id \notin used,
           x.locked = {}, x.loaded.is_default = FALSE, x.pc = "write" \/ x.def = TRUE,
           pfl' = [pfl EXCEPT ![r] = x], used' = used \cup {x.id},
           UNCHANGED <<portfolios, had, gaveUp>>
    PROVE  PflInv'
  <1>1. x.id \in PflIds
    BY DEF Writer
  <1>2. PflTypeOK'
    BY <1>1 DEF PflInv, PflTypeOK
  <1>3. pfl'[r] = x /\ \A q \in PflRequests : q # r => pfl'[q] = pfl[q]
    BY DEF PflInv, PflTypeOK
  <1>4. (IdsUnique /\ IdsUsed /\ OneDefault /\ Kept)'
    BY DEF PflInv, IdsUnique, IdsUsed, OneDefault, Kept
  <1>5. InsertsNew'
    BY <1>3 DEF PflInv, IdsUsed, InsertsNew, Inserts
  <1>6. DemotesToReplace'
    BY <1>3 DEF PflInv, DemotesToReplace
  <1> QED BY <1>2, <1>4, <1>5, <1>6 DEF PflInv

\* A handler goes on, or starts an update or a delete.
LEMMA MovePfl ==
    ASSUME PflInv, NEW r \in PflRequests, NEW x \in Writer \cup Deleter, pfl' = [pfl EXCEPT ![r] = x],
           x \in Writer => /\ (x.pc = "write" /\ x.locked = {}) \/ (x.def = TRUE /\ x.loaded.is_default = FALSE)
                           /\ x.op = "insert" => Inserts(r) /\ x.id = pfl[r].id /\ x.loaded = pfl[r].loaded,
           UNCHANGED <<portfolios, used, had, gaveUp>>
    PROVE  PflInv'
  <1>1. PflTypeOK'
    BY DEF PflInv, PflTypeOK
  <1>2. pfl'[r] = x /\ \A q \in PflRequests : q # r => pfl'[q] = pfl[q]
    BY DEF PflInv, PflTypeOK
  <1>3. InsertsNew'
    BY <1>2 DEF PflInv, InsertsNew, Inserts
  <1>4. DemotesToReplace'
    BY <1>2 DEF PflInv, DemotesToReplace
  <1> QED BY <1>1, <1>3, <1>4 DEF PflInv, IdsUnique, IdsUsed, OneDefault, Kept

-----------------------------------------------------------------------------
LEMMA RoutesPfl ==
    ASSUME PflInv, NEW r \in PflRequests, PflRoutes(r)
    PROVE  PflInv'
  <1>1. ASSUME NEW id \in PflIds, get_or_create_default(r, id)
        PROVE  PflInv'
    <2> DEFINE x == [pc |-> "write", op |-> "insert", id |-> id, name |-> "Main", def |-> TRUE,
                     locked |-> {}, loaded |-> [is_default |-> FALSE]]
    <2>1. /\ x \in Writer /\ x.op = "insert" /\ x.id = id /\ x.locked = {}
          /\ x.loaded.is_default = FALSE /\ x.pc = "write"
      BY PflAssumption DEF Writer
    <2>2. /\ id \notin used /\ used' = used \cup {id} /\ pfl' = [pfl EXCEPT ![r] = x]
          /\ UNCHANGED <<portfolios, had, gaveUp>>
      BY <1>1 DEF get_or_create_default
    <2> HIDE DEF x
    <2> QED BY <2>1, <2>2, InsertPfl
  <1>2. ASSUME NEW id \in PflIds, NEW name \in PflNames, NEW def \in BOOLEAN, create(r, id, name, def)
        PROVE  PflInv'
    <2> DEFINE x == [pc |-> IF def THEN "demote" ELSE "write", op |-> "insert", id |-> id,
                     name |-> name, def |-> def, locked |-> {}, loaded |-> [is_default |-> FALSE]]
    <2>1. /\ x \in Writer /\ x.op = "insert" /\ x.id = id /\ x.locked = {}
          /\ x.loaded.is_default = FALSE /\ (x.pc = "write" \/ x.def = TRUE)
      BY DEF Writer
    <2>2. /\ id \notin used /\ used' = used \cup {id} /\ pfl' = [pfl EXCEPT ![r] = x]
          /\ UNCHANGED <<portfolios, had, gaveUp>>
      BY <1>2 DEF create
    <2> HIDE DEF x
    <2> QED BY <2>1, <2>2, InsertPfl
  <1>3. ASSUME NEW p \in portfolios, delete(r, p)
        PROVE  PflInv'
    <2> DEFINE x == [pc |-> "delete", id |-> p.id]
    <2>1. x \in Deleter
      BY DEF Deleter, PflInv, PflTypeOK, Row
    <2>2. pfl' = [pfl EXCEPT ![r] = x] /\ UNCHANGED <<portfolios, used, had, gaveUp>>
      BY <1>3 DEF delete
    <2>3. x \notin Writer
      BY <2>1, Kinds DEF PflInv
    <2> HIDE DEF x
    <2> QED BY <2>1, <2>2, <2>3, MovePfl
  <1>4. ASSUME NEW p \in portfolios, NEW name \in PflNames \cup {Keep},
               NEW def \in {"true", "false", Keep}, update(r, p, name, def)
        PROVE  PflInv'
    <2> DEFINE x == [pc |-> IF def = "true" /\ ~p.is_default THEN "demote" ELSE "write",
                     op |-> "update", id |-> p.id, name |-> IF name = Keep THEN p.name ELSE name,
                     def |-> IF def = Keep THEN p.is_default ELSE def = "true",
                     locked |-> {}, loaded |-> p]
    <2>1. p \in Row /\ p.id \in PflIds /\ p.name \in PflNames /\ p.is_default \in BOOLEAN
      BY DEF PflInv, PflTypeOK, Row
    <2>2. x \in Writer /\ x.op = "update"
      BY <2>1 DEF Writer
    <2>3. (x.pc = "write" /\ x.locked = {}) \/ (x.def = TRUE /\ x.loaded.is_default = FALSE)
      BY <2>1 DEF Keep
    <2>4. pfl' = [pfl EXCEPT ![r] = x] /\ UNCHANGED <<portfolios, used, had, gaveUp>>
      BY <1>4 DEF update
    <2> HIDE DEF x
    <2> QED BY <2>2, <2>3, <2>4, MovePfl
  <1> QED BY <1>1, <1>2, <1>3, <1>4 DEF PflRoutes

LEMMA DemotePfl ==
    ASSUME PflInv, NEW r \in PflRequests, Demote(r) \/ DemoteLock(r)
    PROVE  PflInv'
  <1>1. pfl[r] \in Writer /\ pfl[r].pc \in {"demote", "lock"}
    BY Kinds DEF PflInv, Demote, DemoteLock
  <1>2. pfl[r].def = TRUE /\ pfl[r].loaded.is_default = FALSE
    BY <1>1 DEF PflInv, DemotesToReplace
  <1>3. PflIdsOf(Defaults(portfolios)) \subseteq PflIds
    BY DEF PflIdsOf, Defaults, PflInv, PflTypeOK, Row
  <1>4. PICK pc \in {"lock", "write"}, locked \in SUBSET PflIds :
            /\ pfl' = [pfl EXCEPT ![r] = [pfl[r] EXCEPT !.pc = pc, !.locked = locked]]
            /\ UNCHANGED <<portfolios, used, had, gaveUp>>
    <2>1. CASE Demote(r)
      BY <1>3, <2>1 DEF Demote, PflInv, PflTypeOK
    <2>2. CASE DemoteLock(r)
      <3> DEFINE locked == pfl[r].locked \cap PflIdsOf(Defaults(portfolios))
      <3>1. locked \in SUBSET PflIds
        BY <1>3
      <3>2. pfl' = [pfl EXCEPT ![r] = [pfl[r] EXCEPT !.pc = "write", !.locked = locked]]
            /\ UNCHANGED <<portfolios, used, had, gaveUp>>
        BY <2>2 DEF DemoteLock, PflInv, PflTypeOK
      <3> QED BY <3>1, <3>2
    <2> QED BY <2>1, <2>2
  <1> DEFINE x == [pfl[r] EXCEPT !.pc = pc, !.locked = locked]
  <1>5. /\ x \in Writer /\ x.def = TRUE /\ x.loaded.is_default = FALSE
        /\ x.op = pfl[r].op /\ x.id = pfl[r].id /\ x.loaded = pfl[r].loaded
    BY <1>1, <1>2 DEF Writer
  <1>6. pfl' = [pfl EXCEPT ![r] = x] /\ UNCHANGED <<portfolios, used, had, gaveUp>>
    BY <1>4
  <1> HIDE DEF x
  <1> QED BY <1>1, <1>5, <1>6, MovePfl DEF Inserts

\* The rows after the demotion: the same ids, and no new default among them.
LEMMA DemotedRows ==
    ASSUME PflInv, NEW r \in PflRequests
    PROVE  /\ Demoted(r) \subseteq Row
           /\ \A p, q \in Demoted(r) : p.id = q.id => p = q
           /\ \A p \in Demoted(r) : \E q \in portfolios :
                p.id = q.id /\ (p.is_default => p = q) /\ (p.id \notin pfl[r].locked => p = q)
           /\ \A q \in portfolios : \E p \in Demoted(r) :
                p.id = q.id /\ (p.id \notin pfl[r].locked => p = q)
  <1> DEFINE d(p) == IF p.id \in pfl[r].locked THEN [p EXCEPT !.is_default = FALSE] ELSE p
  <1>1. Demoted(r) = {d(p) : p \in portfolios}
    BY DEF Demoted
  <1>2. ASSUME NEW p \in portfolios
        PROVE  /\ d(p) \in Row /\ d(p).id = p.id /\ (d(p).is_default => d(p) = p)
               /\ (p.id \notin pfl[r].locked => d(p) = p)
    BY DEF PflInv, PflTypeOK, Row
  <1> HIDE DEF d
  <1>3. \A p, q \in portfolios : p.id = q.id => p = q
    BY DEF PflInv, IdsUnique
  <1>4. Demoted(r) \subseteq Row
    BY <1>1, <1>2
  <1>5. \A p, q \in Demoted(r) : p.id = q.id => p = q
    BY <1>1, <1>2, <1>3
  <1>6. \A p \in Demoted(r) : \E q \in portfolios :
                p.id = q.id /\ (p.is_default => p = q) /\ (p.id \notin pfl[r].locked => p = q)
    BY <1>1, <1>2
  <1>7. \A q \in portfolios : \E p \in Demoted(r) :
                p.id = q.id /\ (p.id \notin pfl[r].locked => p = q)
    BY <1>1, <1>2
  <1> QED BY <1>4, <1>5, <1>6, <1>7

\* New rows and a handler at its end keep what is said of the other handlers.
LEMMA RowsPfl ==
    ASSUME PflInv, NEW r \in PflRequests, PflEnd(r), UNCHANGED used,
           portfolios' \subseteq Row, had' \in BOOLEAN, gaveUp' \in BOOLEAN,
           \A p \in portfolios' : \/ \E q \in portfolios : q.id = p.id
                                  \/ Inserts(r) /\ p.id = pfl[r].id,
           IdsUnique', OneDefault', Kept'
    PROVE  PflInv'
  <1>1. pfl' = [pfl EXCEPT ![r] = PflIdle] /\ PflIdle \notin Writer
    BY Kinds DEF PflEnd, PflInv
  <1>2. PflTypeOK'
    BY <1>1 DEF PflInv, PflTypeOK
  <1>3. \A q \in PflRequests : pfl'[q] \in Writer => q # r /\ pfl'[q] = pfl[q]
    BY <1>1 DEF PflInv, PflTypeOK
  <1>4. IdsUsed'
    BY DEF PflInv, IdsUsed, InsertsNew
  <1>5. InsertsNew'
    BY <1>3 DEF PflInv, InsertsNew, Inserts
  <1>6. DemotesToReplace'
    BY <1>3 DEF PflInv, DemotesToReplace
  <1> QED BY <1>2, <1>4, <1>5, <1>6 DEF PflInv

LEMMA DeletePfl ==
    ASSUME PflInv, NEW r \in PflRequests, DeleteCommit(r)
    PROVE  PflInv'
  <1>1. /\ portfolios' = {p \in portfolios : p.id # pfl[r].id}
        /\ gaveUp' = (gaveUp \/ \E p \in Defaults(portfolios) : p.id = pfl[r].id)
        /\ PflEnd(r) /\ UNCHANGED <<used, had>>
    BY DEF DeleteCommit
  <1>2. portfolios' \subseteq Row /\ had' \in BOOLEAN /\ gaveUp' \in BOOLEAN
    BY <1>1 DEF PflInv, PflTypeOK
  <1>3. (IdsUnique /\ OneDefault)'
    BY <1>1 DEF PflInv, IdsUnique, OneDefault
  <1>4. Kept'
    BY <1>1 DEF PflInv, Kept, Defaults
  <1> QED BY <1>1, <1>2, <1>3, <1>4, RowsPfl

\* What the COMMIT leaves: one default, and none only if the user gave it up.
LEMMA WritePfl ==
    ASSUME PflInv, NEW r \in PflRequests, WriteCommit(r)
    PROVE  PflInv'
  <1> DEFINE rows == Demoted(r)
             x == pfl[r]
             n == [id |-> x.id, name |-> x.name, is_default |-> x.def]
             gave == x.def = FALSE /\ x.loaded.is_default
  <1>1. x \in Writer /\ x.pc = "write"
    BY Kinds DEF WriteCommit, PflInv
  <1>2. /\ x.op \in {"insert", "update"} /\ x.id \in PflIds /\ x.name \in PflNames
        /\ x.def \in BOOLEAN /\ x.loaded.is_default \in BOOLEAN
    BY <1>1 DEF Writer, Row
  <1>3. ~(x.def /\ x.loaded.is_default # x.def /\ \E p \in rows : p.is_default /\ p.id # x.id)
    BY DEF WriteCommit, Conflict, Defaults
  <1>4. x.locked = {} \/ (x.def = TRUE /\ x.loaded.is_default = FALSE)
    BY <1>1 DEF PflInv, DemotesToReplace
  <1>5. /\ PflEnd(r) /\ UNCHANGED used
        /\ had' = (had \/ Defaults(portfolios') # {})
        /\ gaveUp' = (Defaults(portfolios') = {} /\ (gaveUp \/ gave))
    BY <1>2 DEF WriteCommit
  <1>6. \/ portfolios' = portfolios
        \/ x.op = "insert" /\ portfolios' = rows \cup {n}
        \/ /\ x.op = "update" /\ \E p \in rows : p.id = x.id
           /\ portfolios' = {IF p.id = x.id THEN Updated(r, p) ELSE p : p \in rows}
    BY <1>2 DEF WriteCommit, PflIdsOf
  <1>7. ASSUME NEW p \in rows
        PROVE  /\ Updated(r, p) \in Row /\ Updated(r, p).id = p.id
               /\ Updated(r, p).is_default = IF x.def # x.loaded.is_default THEN x.def ELSE p.is_default
    <2>1. p \in Row
      BY DemotedRows
    <2> QED BY <1>2, <2>1 DEF Updated, Row
  <1>8. /\ had \in BOOLEAN /\ gaveUp \in BOOLEAN /\ portfolios \subseteq Row
        /\ \A p, q \in portfolios : (p.id = q.id => p = q) /\ (p.is_default /\ q.is_default => p = q)
        /\ had /\ ~gaveUp => \E p \in portfolios : p.is_default
    BY DEF PflInv, PflTypeOK, IdsUnique, OneDefault, Kept
  <1>9. /\ rows \subseteq Row
        /\ \A p, q \in rows : p.id = q.id => p = q
        /\ \A p \in rows : \E q \in portfolios :
             p.id = q.id /\ (p.is_default => p = q) /\ (p.id \notin x.locked => p = q)
        /\ \A q \in portfolios : \E p \in rows : p.id = q.id /\ (p.id \notin x.locked => p = q)
    BY DemotedRows
  <1>10. \A p, q \in rows : p.is_default /\ q.is_default => p = q
    BY <1>8, <1>9
  <1>11. (\E p \in portfolios : p.is_default) /\ x.locked = {} => \E p \in rows : p.is_default
    BY <1>9
  <1>12. x.op = "insert" => Inserts(r) /\ x.loaded.is_default = FALSE /\ \A p \in portfolios : p.id # x.id
    BY <1>1 DEF PflInv, InsertsNew, Inserts
  <1>13. n \in Row /\ n.id = x.id /\ n.is_default = x.def
    BY <1>2 DEF Row
  <1> HIDE DEF rows, x, n
  <1>14. /\ portfolios' \subseteq Row
         /\ \A p \in portfolios' : \/ \E q \in portfolios : q.id = p.id
                                   \/ Inserts(r) /\ p.id = x.id
         /\ \A p, q \in portfolios' : p.id = q.id => p = q
         /\ \A p, q \in portfolios' : p.is_default /\ q.is_default => p = q
         /\ (\E p \in portfolios : p.is_default) => gave \/ \E p \in portfolios' : p.is_default
    <2>1. CASE portfolios' = portfolios
      BY <1>8, <2>1
    <2>2. CASE x.op = "insert" /\ portfolios' = rows \cup {n}
      <3>1. \A p \in rows : p.id # n.id /\ (x.def => ~p.is_default)
        BY <1>2, <1>3, <1>9, <1>12, <1>13, <2>2
      <3>2. (\E p \in portfolios : p.is_default) => \E p \in portfolios' : p.is_default
        BY <1>4, <1>11, <1>13, <2>2
      <3>3. /\ portfolios' \subseteq Row
            /\ \A p, q \in portfolios' : (p.id = q.id => p = q) /\ (p.is_default /\ q.is_default => p = q)
        BY <1>9, <1>10, <1>13, <2>2, <3>1
      <3>4. \A p \in portfolios' : (\E q \in portfolios : q.id = p.id) \/ (Inserts(r) /\ p.id = x.id)
        BY <1>9, <1>12, <1>13, <2>2
      <3> QED BY <3>2, <3>3, <3>4
    <2>3. CASE /\ x.op = "update" /\ \E p \in rows : p.id = x.id
               /\ portfolios' = {IF p.id = x.id THEN Updated(r, p) ELSE p : p \in rows}
      <3>1. PICK o \in rows : o.id = x.id
        BY <2>3
      <3> DEFINE u == Updated(r, o)
      <3>2. u \in Row /\ u.id = x.id /\ u.is_default = IF x.def # x.loaded.is_default THEN x.def ELSE o.is_default
        BY <1>7, <3>1
      <3>3. \A p \in rows : p.id = x.id => p = o
        BY <1>9, <3>1
      <3>4. portfolios' = {p \in rows : p.id # x.id} \cup {u}
        BY <2>3, <3>1, <3>3
      <3> HIDE DEF u
      <3>5. u.is_default => \A p \in rows : p.id # x.id => ~p.is_default
        BY <1>2, <1>3, <1>10, <3>1, <3>2
      <3>6. /\ portfolios' \subseteq Row
            /\ \A p, q \in portfolios' : (p.id = q.id => p = q) /\ (p.is_default /\ q.is_default => p = q)
        BY <1>9, <1>10, <3>2, <3>4, <3>5
      <3>7. \A p \in portfolios' : \E q \in portfolios : q.id = p.id
        BY <1>9, <3>1, <3>2, <3>4
      <3>8. (\E p \in portfolios : p.is_default) => gave \/ \E p \in portfolios' : p.is_default
        BY <1>2, <1>4, <1>11, <3>1, <3>2, <3>3, <3>4
      <3> QED BY <3>6, <3>7, <3>8
    <2> QED BY <1>6, <2>1, <2>2, <2>3
  <1>15. had' \in BOOLEAN /\ gaveUp' \in BOOLEAN
    BY <1>2, <1>5, <1>8
  <1>16. Kept'
    <2>1. Defaults(portfolios') # {} <=> \E p \in portfolios' : p.is_default
      BY DEF Defaults
    <2> HIDE DEF gave
    <2> QED BY <1>5, <1>8, <1>14, <2>1 DEF Kept
  <1>17. (IdsUnique /\ OneDefault)'
    BY <1>14 DEF IdsUnique, OneDefault
  <1> QED BY <1>5, <1>14, <1>15, <1>16, <1>17, RowsPfl DEF x

LEMMA NextPfl == PflInv /\ [PflNext]_pflVars => PflInv'
  <1> SUFFICES ASSUME PflInv, [PflNext]_pflVars PROVE PflInv'
    OBVIOUS
  <1>1. ASSUME NEW r \in PflRequests, WriteConflict(r) \/ PflCrash(r)
        PROVE  PflInv'
    BY <1>1, EndPfl DEF WriteConflict, PflCrash
  <1>2. CASE UNCHANGED pflVars
    BY <1>2 DEF PflInv, PflTypeOK, IdsUnique, IdsUsed, InsertsNew, Inserts, DemotesToReplace, OneDefault,
                Kept, pflVars
  <1> QED BY <1>1, <1>2, RoutesPfl, DemotePfl, WritePfl, DeletePfl DEF PflNext, PflStep

(***************************************************************************)
(* PortfolioService keeps one default portfolio: never two, and none only  *)
(* after the user's own is_default = false or a delete that overtook a     *)
(* promotion, for any overlap of creations, updates, deletes and crashes.  *)
(***************************************************************************)
THEOREM DefaultIsKept == PflSpec => []DefaultKept
  <1>1. PflInv => DefaultKept
    <2> SUFFICES ASSUME PflInv PROVE DefaultKept
      OBVIOUS
    <2>1. \A p, q \in Defaults(portfolios) : p = q
      BY DEF PflInv, OneDefault, Defaults
    <2>2. had /\ ~gaveUp => Defaults(portfolios) # {}
      BY DEF PflInv, Kept, Defaults
    <2>3. CASE Defaults(portfolios) = {}
      BY <2>2, <2>3, FS_EmptySet DEF DefaultKept
    <2>4. CASE Defaults(portfolios) # {}
      <3>1. PICK p \in Defaults(portfolios) : Defaults(portfolios) = {p}
        BY <2>1, <2>4
      <3>2. Cardinality({p}) = 1
        BY FS_Singleton, Zenon
      <3>3. Cardinality(Defaults(portfolios)) <= 1
        BY <3>1, <3>2
      <3> QED BY <2>2, <3>3 DEF DefaultKept
    <2> QED BY <2>3, <2>4
  <1> QED BY <1>1, InitPfl, NextPfl, PTL DEF PflSpec
=============================================================================
