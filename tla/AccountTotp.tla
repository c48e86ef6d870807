----------------------------- MODULE AccountTotp -----------------------------
(***************************************************************************)
(* The second factor of one account: AuthService.totp_setup, totp_confirm, *)
(* totp_disable and the check in login.  The two columns of the user's row *)
(* are written separately: an UPDATE names the ones that differ from what  *)
(* the handler loaded.                                                     *)
(***************************************************************************)
EXTENDS Integers, FiniteSets

CONSTANTS
    TfaRequests,  \* handlers that can run at the same time
    MaxSetups     \* bound: secrets handed out

ASSUME TfaAssumption == MaxSetups \in Nat

VARIABLES
    totp,      \* users.totp_secret and totp_enabled
    pending,   \* totp_pending:<user> in Redis
    issued,    \* secrets handed out; each one is new
    tfa        \* the handlers

tfaVars == <<totp, pending, issued, tfa>>

NoSecret == 0
TfaIdle == [pc |-> "idle", loaded |-> [secret |-> NoSecret, enabled |-> FALSE], secret |-> NoSecret]

TfaInit ==
    /\ totp = [secret |-> NoSecret, enabled |-> FALSE]
    /\ pending = NoSecret /\ issued = 0
    /\ tfa = [r \in TfaRequests |-> TfaIdle]

TfaEnd(r) == tfa' = [tfa EXCEPT ![r] = TfaIdle]

\* login's second check; code stands for the secret it was computed from.
SecondFactor(code) ==
    totp.enabled => code # NoSecret /\ totp.secret # NoSecret /\ code = totp.secret

\* A new secret replaces one that waits for its confirmation.
totp_setup ==
    /\ issued < MaxSetups
    /\ issued' = issued + 1 /\ pending' = issued + 1
    /\ UNCHANGED <<totp, tfa>>

PendingExpires ==
    /\ pending # NoSecret /\ pending' = NoSecret
    /\ UNCHANGED <<totp, issued, tfa>>

\* Both handlers start with the row the session lookup has loaded.
TfaLoad(r, label) ==
    /\ tfa[r].pc = "idle"
    /\ tfa' = [tfa EXCEPT ![r] = [TfaIdle EXCEPT !.pc = label, !.loaded = totp]]
    /\ UNCHANGED <<totp, pending, issued>>

\* The code fits the waiting secret, else 400.
totp_confirm(r, code) ==
    /\ tfa[r].pc = "get"
    /\ IF pending # NoSecret /\ code = pending
       THEN tfa' = [tfa EXCEPT ![r].pc = "confirm_flush", ![r].secret = pending]
       ELSE TfaEnd(r)
    /\ UNCHANGED <<totp, pending, issued>>

HoldsTotp(r) == tfa[r].pc \in {"unset", "confirm_commit"}
TotpFree(r) == \A q \in TfaRequests \ {r} : ~HoldsTotp(q)

ConfirmFlush(r) ==
    /\ tfa[r].pc = "confirm_flush" /\ TotpFree(r)
    /\ tfa' = [tfa EXCEPT ![r].pc = "unset"]
    /\ UNCHANGED <<totp, pending, issued>>

\* Fault: the waiting secret stays until it expires.
KeepPending(r) ==
    /\ tfa[r].pc = "unset"
    /\ tfa' = [tfa EXCEPT ![r].pc = "confirm_commit"]
    /\ UNCHANGED <<totp, pending, issued>>

DropPending(r) ==
    /\ tfa[r].pc = "unset"
    /\ pending' = NoSecret
    /\ tfa' = [tfa EXCEPT ![r].pc = "confirm_commit"]
    /\ UNCHANGED <<totp, issued>>

\* The columns of new that differ from the loaded ones.
TotpWritten(loaded, new) ==
    [c \in DOMAIN totp |-> IF new[c] # loaded[c] THEN new[c] ELSE totp[c]]

\* Fault: the secret is read again after its key is deleted.
ConfirmRereads(r) ==
    /\ tfa[r].pc = "confirm_commit"
    /\ totp' = TotpWritten(tfa[r].loaded, [secret |-> pending, enabled |-> TRUE])
    /\ TfaEnd(r)
    /\ UNCHANGED <<pending, issued>>

ConfirmCommit(r) ==
    /\ tfa[r].pc = "confirm_commit"
    /\ totp' = TotpWritten(tfa[r].loaded, [secret |-> tfa[r].secret, enabled |-> TRUE])
    /\ TfaEnd(r)
    /\ UNCHANGED <<pending, issued>>

\* Disabling needs a code of the loaded secret; UPDATE and COMMIT at once.
totp_disable(r, code) ==
    /\ tfa[r].pc = "disable" /\ TotpFree(r)
    /\ totp' = IF tfa[r].loaded.enabled /\ tfa[r].loaded.secret # NoSecret /\ code = tfa[r].loaded.secret
               THEN TotpWritten(tfa[r].loaded, [secret |-> NoSecret, enabled |-> FALSE])
               ELSE totp
    /\ TfaEnd(r)
    /\ UNCHANGED <<pending, issued>>

TfaCrash(r) ==
    /\ tfa[r].pc # "idle"
    /\ TfaEnd(r)
    /\ UNCHANGED <<totp, pending, issued>>

TfaNext ==
    \/ totp_setup \/ PendingExpires
    \/ \E r \in TfaRequests :
         \/ TfaLoad(r, "get") \/ TfaLoad(r, "disable")
         \/ \E code \in 1 .. issued : totp_confirm(r, code) \/ totp_disable(r, code)
         \/ ConfirmFlush(r) \/ DropPending(r) \/ ConfirmCommit(r)
         \/ TfaCrash(r)

TfaSpec == TfaInit /\ [][TfaNext]_tfaVars

-----------------------------------------------------------------------------
(***************************************************************************)
(* "TOTP is misconfigured for this account" never locks a user out: when   *)
(* the second factor is required there is a secret it can be computed      *)
(* from, however confirmations and disabling overlap column by column.     *)
(***************************************************************************)
TotpUsable == \E code \in 0 .. issued : SecondFactor(code)
=============================================================================
