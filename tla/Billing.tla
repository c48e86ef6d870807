------------------------------- MODULE Billing -------------------------------
(***************************************************************************)
(* BillingService and its router: checkout, gateway callbacks, sandbox     *)
(* confirmation and the free plan, run by concurrent request handlers over *)
(* one PostgreSQL database at READ COMMITTED (the engine's default).       *)
(*                                                                         *)
(* payment_intents and user_subscriptions are the COMMITTED tables.  Each  *)
(* handler is one transaction (database.py get_db): its SELECTs see what   *)
(* is committed at that moment, its UPDATEs and INSERTs take row locks and *)
(* stay private until Commit, and an exception or a crash rolls them back. *)
(* The session never autoflushes, so every write comes after every read;   *)
(* the unit of work writes user_subscriptions (UPDATE, then INSERT) before *)
(* payment_intents.                                                        *)
(*                                                                         *)
(* The gateway and its network are external: a callback once sent may      *)
(* arrive never, late, several times and in any order.                     *)
(***************************************************************************)
EXTENDS PaymentGateways, FiniteSets

CONSTANTS
    Users,        \* user ids
    Intents,      \* merchant_txn_refs (one per payment_intents row, unique)
    SubIds,       \* ids of user_subscriptions rows
    Requests,     \* handlers that can run at the same time
    Plans,        \* slugs of the paid plans
    Monthly,      \* [Plans -> paisas]: price_pkr_monthly
    Annual,       \* [Plans -> paisas]: price_pkr_annual, 0 when NULL
    UsedProviders,\* providers that users choose in this instance
    UsedCycles,   \* billing cycles they choose
    Codes,        \* response codes the gateways send in this instance
    ShortAmount,  \* an amount that differs from every price by more than 0.01
    Production,   \* settings.environment = "production"
    FreeLimit,    \* bound: free subscriptions after which users stop asking
    Free,         \* the source of a subscription that no payment backs
    Nobody        \* no user, no row

ASSUME ConstantsAssumption ==
    /\ Free \notin Intents
    /\ Nobody \notin Users /\ Nobody \notin SubIds
    /\ UsedProviders \subseteq Providers /\ UsedCycles \subseteq {"monthly", "annual"}
    /\ Monthly \in [Plans -> Nat] /\ Annual \in [Plans -> Nat]
    /\ ShortAmount \in Nat \ {0}
    /\ Production \in BOOLEAN
    /\ FreeLimit \in Nat

VARIABLES
    payment_intents,    \* committed rows, by merchant_txn_ref
    user_subscriptions, \* committed rows, by id
    net,                \* callbacks the gateways have sent (never consumed)
    taken,              \* paisas the gateway has taken for each intent
    pc,                 \* where each handler stands
    owner,              \* the user a handler works for
    target,             \* the intent it confirms, or Free
    existing,           \* the active rows its SELECT returned
    write,              \* the status its UPDATE of the intent sets, or "keep"
    added               \* the row it has inserted, Nobody before that

tables == <<payment_intents, user_subscriptions>>
gateway == <<net, taken>>
handler == <<pc, owner, target, existing, write, added>>
vars == <<payment_intents, user_subscriptions, net, taken,
          pc, owner, target, existing, write, added>>

IntentStatus == {"absent", "pending", "redirected", "paid", "failed", "canceled"}
NoIntent == [status |-> "absent", user |-> Nobody, provider |-> "manual", amount |-> 0]
NoSub == [status |-> "absent", user |-> Nobody, source |-> Free]

\* The price begin_paid_subscription bills.
Amount(plan, cycle) ==
    IF cycle = "monthly" THEN Monthly[plan]
    ELSE IF Annual[plan] # 0 THEN Annual[plan] ELSE 12 * Monthly[plan]

Exists(i) == payment_intents[i].status # "absent"
Active(u) == {s \in SubIds : /\ user_subscriptions[s].status = "active"
                             /\ user_subscriptions[s].user = u}

(***************************************************************************)
(* Locks.  A handler locks the rows it has canceled from that UPDATE until *)
(* it ends, its new row from the INSERT, its intent from the last UPDATE.  *)
(***************************************************************************)
HoldsSub(r, s) ==
    \/ s \in existing[r] /\ pc[r] \in {"insert", "update_intent", "commit"}
    \/ s = added[r]
\* Fault: the intent is locked when it is selected, by a lock that others share.
HoldsIntentShared(r, i) == pc[r] # "idle" /\ target[r] = i

HoldsIntent(r, i) == pc[r] = "commit" /\ target[r] = i

Init ==
    /\ payment_intents = [i \in Intents |-> NoIntent]
    /\ user_subscriptions = [s \in SubIds |-> NoSub]
    /\ net = {}
    /\ taken = [i \in Intents |-> 0]
    /\ pc = [r \in Requests |-> "idle"]
    /\ owner = [r \in Requests |-> Nobody]
    /\ target = [r \in Requests |-> Free]
    /\ existing = [r \in Requests |-> {}]
    /\ write = [r \in Requests |-> "keep"]
    /\ added = [r \in Requests |-> Nobody]

\* The handler ends: its locks and private writes are gone.
End(r) ==
    /\ pc' = [pc EXCEPT ![r] = "idle"]
    /\ owner' = [owner EXCEPT ![r] = Nobody]
    /\ target' = [target EXCEPT ![r] = Free]
    /\ existing' = [existing EXCEPT ![r] = {}]
    /\ write' = [write EXCEPT ![r] = "keep"]
    /\ added' = [added EXCEPT ![r] = Nobody]

(***************************************************************************)
(* begin_paid_subscription: one INSERT of a fresh reference, then COMMIT.  *)
(* Unknown plans and providers, the free plan and a plan without a price   *)
(* are refused before anything is written.                                 *)
(***************************************************************************)
Checkout(u, i, p, plan, cycle) ==
    /\ ~Exists(i)
    /\ Amount(plan, cycle) > 0
    /\ payment_intents' = [payment_intents EXCEPT ![i] =
         [status |-> IF p \in RedirectProviders THEN "redirected" ELSE "pending",
          user |-> u, provider |-> p, amount |-> Amount(plan, cycle)]]
    /\ UNCHANGED <<user_subscriptions, gateway, handler>>

(***************************************************************************)
(* The gateway (external).  It reports attempts that went wrong, then, at  *)
(* most once, takes the money and reports that.  It usually echoes the     *)
(* amount it was sent; when it leaves the amount out it took the price.    *)
(***************************************************************************)
Callback(i, code, a) == [ref |-> i, code |-> code, amount |-> a]

AttemptFails(i, code) ==
    /\ Exists(i) /\ payment_intents[i].provider # "manual" /\ taken[i] = 0
    /\ code \in CanceledCodes(payment_intents[i].provider)
              \cup PendingCodes(payment_intents[i].provider) \cup {"declined"}
    /\ net' = net \cup {Callback(i, code, NoAmount)}
    /\ UNCHANGED <<taken, tables, handler>>

(***************************************************************************)
(* Anybody (external) reports a bank transfer: the callback route asks for *)
(* no login and the manual adapter for no signature, so that the report of *)
(* an operator who saw the money looks like any other.                     *)
(***************************************************************************)
ReportTransfer(i, paisas, a) ==
    /\ Exists(i) /\ payment_intents[i].provider = "manual"
    /\ paisas \in {payment_intents[i].amount, ShortAmount}
    /\ a \in {NoAmount, SentAmount("manual", paisas)}
    /\ net' = net \cup {Callback(i, "received", a)}
    /\ UNCHANGED <<taken, tables, handler>>

TakeMoney(i, code, paisas, a) ==
    /\ Exists(i) /\ taken[i] = 0
    /\ ParseStatus(payment_intents[i].provider, code) = "paid"
    /\ paisas \in {payment_intents[i].amount, ShortAmount}
    /\ \/ a = SentAmount(payment_intents[i].provider, paisas)
       \/ a = NoAmount /\ paisas = payment_intents[i].amount
    /\ taken' = [taken EXCEPT ![i] = paisas]
    /\ net' = net \cup {Callback(i, code, a)}
    /\ UNCHANGED <<tables, handler>>

(***************************************************************************)
(* confirm_payment up to the decision: the callback is verified, the       *)
(* intent selected, and the new status computed from the status just read. *)
(* The UPDATE names the status column only if the value changed.           *)
(***************************************************************************)
\* Fault: the amount the gateway echoes is not compared.
AmountIgnored(i, amount) == TRUE

AmountMatches(i, amount) ==
    \/ amount = Absent
    \/ /\ amount - payment_intents[i].amount \leq 1
       /\ payment_intents[i].amount - amount \leq 1

\* Fault: the gateway's status is stored as it is.
StatusVerbatim(i, result) == result.status

NewStatus(i, result) ==
    LET loaded == payment_intents[i].status
    IN  IF loaded = "paid" THEN "paid"
        ELSE CASE result.status = "paid"     -> IF AmountMatches(i, result.amount)
                                                THEN "paid" ELSE "failed"
               [] result.status = "canceled" -> "canceled"
               [] result.status = "pending"  -> "redirected"
               [] OTHER                      -> "failed"

\* Fault: a repeated success activates again.
ActivatesAgain(i, result) == NewStatus(i, result) = "paid"

Activates(i, result) ==
    payment_intents[i].status # "paid" /\ NewStatus(i, result) = "paid"

confirm_payment(r, i, result) ==
    LET loaded == payment_intents[i].status
        new == NewStatus(i, result)
    IN  /\ pc[r] = "idle"
        /\ Exists(i)
        /\ result.amount # Unreadable
        /\ owner' = [owner EXCEPT ![r] = payment_intents[i].user]
        /\ target' = [target EXCEPT ![r] = i]
        /\ write' = [write EXCEPT ![r] = IF new = loaded THEN "keep" ELSE new]
        /\ pc' = [pc EXCEPT ![r] = IF Activates(i, result)
                                   THEN "select_subs" ELSE "update_intent"]
        /\ UNCHANGED <<tables, gateway, existing, added>>

gateway_callback(r, m) ==
    /\ m \in net
    /\ confirm_payment(r, m.ref,
         verify_callback(payment_intents[m.ref].provider, m.code, m.amount))

(***************************************************************************)
(* sandbox_confirm: the owner's synthetic success, outside production.  It *)
(* loads the intent first; confirm_payment's own SELECT then returns that  *)
(* same object from the identity map, with the status loaded the first     *)
(* time, so the two SELECTs are one read.                                  *)
(***************************************************************************)
sandbox_confirm(r, i) ==
    LET p == payment_intents[i].provider
    IN  /\ ~Production
        /\ confirm_payment(r, i, verify_callback(p, SandboxCode(p),
                                   SentAmount(p, payment_intents[i].amount)))

\* subscribe_free: the SELECT of the rows to cancel.
subscribe_free(r, u) ==
    /\ pc[r] = "idle"
    /\ Cardinality({s \in SubIds : /\ user_subscriptions[s].status # "absent"
                                   /\ user_subscriptions[s].source = Free}) < FreeLimit
    /\ owner' = [owner EXCEPT ![r] = u]
    /\ existing' = [existing EXCEPT ![r] = Active(u)]
    /\ pc' = [pc EXCEPT ![r] = "update_subs"]
    /\ UNCHANGED <<tables, gateway, target, write, added>>

\* _activate_subscription: the same SELECT, one await after the intent's.
SelectSubs(r) ==
    /\ pc[r] = "select_subs"
    /\ existing' = [existing EXCEPT ![r] = Active(owner[r])]
    /\ pc' = [pc EXCEPT ![r] = "update_subs"]
    /\ UNCHANGED <<tables, gateway, owner, target, write, added>>

\* UPDATE user_subscriptions SET status = 'canceled': waits for the row locks.
UpdateSubs(r) ==
    /\ pc[r] = "update_subs"
    /\ \A q \in Requests \ {r}, s \in existing[r] : ~HoldsSub(q, s)
    /\ pc' = [pc EXCEPT ![r] = "insert"]
    /\ UNCHANGED <<tables, gateway, owner, target, existing, write, added>>

(***************************************************************************)
(* INSERT of the active row.  uq_user_subscriptions_user_active makes it   *)
(* wait for every other transaction that has an uncommitted row of this    *)
(* user or is changing an active one, and then fail if an active row that  *)
(* this transaction did not cancel is committed.                           *)
(***************************************************************************)
IndexFree(r) ==
    \A q \in Requests \ {r} :
        /\ owner[q] = owner[r] => added[q] = Nobody
        /\ \A s \in Active(owner[r]) : ~HoldsSub(q, s)

\* Fault: the partial unique index is missing.
InsertSubNoIndex(r, s) ==
    /\ pc[r] = "insert"
    /\ user_subscriptions[s].status = "absent"
    /\ \A q \in Requests : added[q] # s
    /\ added' = [added EXCEPT ![r] = s]
    /\ pc' = [pc EXCEPT ![r] = IF target[r] = Free THEN "commit" ELSE "update_intent"]
    /\ UNCHANGED <<tables, gateway, owner, target, existing, write>>

InsertSub(r, s) ==
    /\ pc[r] = "insert"
    /\ IndexFree(r)
    /\ Active(owner[r]) \subseteq existing[r]
    /\ user_subscriptions[s].status = "absent"
    /\ \A q \in Requests : added[q] # s
    /\ added' = [added EXCEPT ![r] = s]
    /\ pc' = [pc EXCEPT ![r] = IF target[r] = Free THEN "commit" ELSE "update_intent"]
    /\ UNCHANGED <<tables, gateway, owner, target, existing, write>>

\* Fault: the IntegrityError is caught and the handler carries on.
InsertConflictCaught(r) ==
    /\ pc[r] = "insert"
    /\ IndexFree(r)
    /\ ~(Active(owner[r]) \subseteq existing[r])
    /\ pc' = [pc EXCEPT ![r] = IF target[r] = Free THEN "commit" ELSE "update_intent"]
    /\ UNCHANGED <<tables, gateway, owner, target, existing, write, added>>

InsertConflict(r) ==
    /\ pc[r] = "insert"
    /\ IndexFree(r)
    /\ ~(Active(owner[r]) \subseteq existing[r])
    /\ End(r)
    /\ UNCHANGED <<tables, gateway>>

\* UPDATE payment_intents: waits for the row lock.
UpdateIntent(r) ==
    /\ pc[r] = "update_intent"
    /\ \A q \in Requests \ {r} : ~HoldsIntent(q, target[r])
    /\ pc' = [pc EXCEPT ![r] = "commit"]
    /\ UNCHANGED <<tables, gateway, owner, target, existing, write, added>>

\* Fault: the previous subscription is not canceled.
CommittedSubsKeepOld(r) ==
    [s \in SubIds |->
        IF s = added[r]
        THEN [status |-> "active", user |-> owner[r], source |-> target[r]]
        ELSE user_subscriptions[s]]

CommittedSubs(r) ==
    [s \in SubIds |->
        IF s = added[r]
        THEN [status |-> "active", user |-> owner[r], source |-> target[r]]
        ELSE IF s \in existing[r]
        THEN [user_subscriptions[s] EXCEPT !.status = "canceled"]
        ELSE user_subscriptions[s]]

CommittedIntents(r) ==
    [i \in Intents |->
        IF i = target[r] /\ write[r] # "keep"
        THEN [payment_intents[i] EXCEPT !.status = write[r]]
        ELSE payment_intents[i]]

Commit(r) ==
    /\ pc[r] = "commit"
    /\ user_subscriptions' = CommittedSubs(r)
    /\ payment_intents' = CommittedIntents(r)
    /\ End(r)
    /\ UNCHANGED gateway

\* Fault: the cancellation is committed on its own.
CrashAfterCommit(r) ==
    /\ pc[r] = "insert"
    /\ user_subscriptions' = CommittedSubs(r)
    /\ End(r)
    /\ UNCHANGED <<payment_intents, gateway>>

\* The worker dies, or its connection does: the transaction is rolled back.
Crash(r) ==
    /\ pc[r] # "idle"
    /\ End(r)
    /\ UNCHANGED <<tables, gateway>>

Step(r) ==
    \/ SelectSubs(r) \/ UpdateSubs(r) \/ InsertConflict(r)
    \/ \E s \in SubIds : InsertSub(r, s)
    \/ UpdateIntent(r) \/ Commit(r)

Next ==
    \/ \E u \in Users, i \in Intents, p \in UsedProviders, plan \in Plans, c \in UsedCycles :
         Checkout(u, i, p, plan, c)
    \/ \E i \in Intents, code \in Codes : AttemptFails(i, code)
    \/ \E i \in Intents, code \in Codes :
         /\ Exists(i)
         /\ \E paisas \in {payment_intents[i].amount, ShortAmount} :
              \E a \in {NoAmount, SentAmount(payment_intents[i].provider, paisas)} :
                ReportTransfer(i, paisas, a) \/ TakeMoney(i, code, paisas, a)
    \/ \E r \in Requests, m \in net : gateway_callback(r, m)
    \/ \E r \in Requests, i \in Intents : sandbox_confirm(r, i)
    \/ \E r \in Requests, u \in Users : subscribe_free(r, u)
    \/ \E r \in Requests : Step(r)
    \/ \E r \in Requests : Crash(r)

Spec == Init /\ [][Next]_vars

(***************************************************************************)
(* Fairness.  A handler that has started goes on and gets the locks it     *)
(* waits for (PostgreSQL queues the waiters of a row); crashes stop some   *)
(* time (a rollback on the index looks like a crash and goes on).  The     *)
(* gateway redelivers the callback of a payment again and again; it does   *)
(* not do so for anything else.                                            *)
(***************************************************************************)
Redeliver(i) ==
    \E r \in Requests, m \in net :
        /\ m.ref = i
        /\ ParseStatus(payment_intents[i].provider, m.code) = "paid"
        /\ m.amount \in {NoAmount, SentAmount(payment_intents[i].provider, taken[i])}
        /\ gateway_callback(r, m)

FairSpec ==
    /\ Spec
    /\ <>[][\A r \in Requests : Crash(r) => Step(r)]_vars
    /\ \A r \in Requests : SF_vars(Step(r))
    /\ \A i \in Intents : SF_vars(Redeliver(i))

-----------------------------------------------------------------------------
Rows == {s \in SubIds : user_subscriptions[s].status # "absent"}
PaidBy(i) == {s \in Rows : user_subscriptions[s].source = i}

\* Every variable keeps its type (the columns' CHECK constraints among them).
TypeOK ==
    /\ payment_intents \in [Intents -> [status : IntentStatus, user : Users \cup {Nobody},
                                       provider : Providers, amount : Nat]]
    /\ user_subscriptions \in [SubIds -> [status : {"absent", "active", "canceled"},
                                         user : Users \cup {Nobody},
                                         source : Intents \cup {Free}]]
    /\ \A m \in net : m.ref \in Intents
    /\ taken \in [Intents -> Nat]
    /\ pc \in [Requests -> {"idle", "select_subs", "update_subs", "insert",
                            "update_intent", "commit"}]
    /\ owner \in [Requests -> Users \cup {Nobody}]
    /\ target \in [Requests -> Intents \cup {Free}]
    /\ existing \in [Requests -> SUBSET SubIds]
    /\ write \in [Requests -> {"keep", "redirected", "paid", "failed", "canceled"}]
    /\ added \in [Requests -> SubIds \cup {Nobody}]

(***************************************************************************)
(* A user has at most one active subscription, however checkouts,          *)
(* callbacks and free sign-ups of that user overlap (migration 0013: "Only *)
(* one active subscription per user at any time").                         *)
(***************************************************************************)
OneActive ==
    \A s, t \in Rows :
        /\ user_subscriptions[s].status = "active"
        /\ user_subscriptions[t].status = "active"
        /\ user_subscriptions[s].user = user_subscriptions[t].user
        => s = t

(***************************************************************************)
(* An intent recorded as paid has a subscription of the same user behind   *)
(* it: confirm_payment never commits the one without the other, even when  *)
(* it crashes, meets the unique index or races with another callback.      *)
(***************************************************************************)
PaidHasSubscription ==
    \A i \in Intents :
        payment_intents[i].status = "paid" =>
            \E s \in PaidBy(i) : user_subscriptions[s].user = payment_intents[i].user

(***************************************************************************)
(* In production, with the merchants' credentials configured, a            *)
(* subscription that names a payment through a gateway that signs its      *)
(* callbacks is backed by money the gateway really took, of the amount     *)
(* billed give or take one paisa: no failed, pending or short payment ever *)
(* activates, in whatever order and however often callbacks arrive.  Of    *)
(* the manual provider, whose reports anybody can make, this cannot be     *)
(* said.                                                                   *)
(***************************************************************************)
Signed(i) == payment_intents[i].provider \in RedirectProviders
ActivatedOnlyWhenPaid ==
    Production =>
        \A i \in Intents :
            PaidBy(i) # {} /\ Signed(i) =>
                taken[i] > 0 /\ taken[i] - payment_intents[i].amount \in -1 .. 1

(***************************************************************************)
(* An intent is recorded as failed only for a cause: the gateway reported  *)
(* a failed attempt or took another amount than the one billed, or a       *)
(* transfer of another amount was reported.  A full payment is never       *)
(* refused because an adapter reads its own gateway's amount or response   *)
(* code in the wrong unit or vocabulary.                                   *)
(***************************************************************************)
OtherTransfer(i, m) ==
    ~Signed(i) /\ m.amount \notin {NoAmount, SentAmount(payment_intents[i].provider, payment_intents[i].amount)}
FailedHasCause ==
    \A i \in Intents :
        payment_intents[i].status = "failed" =>
            \/ taken[i] > 0 /\ taken[i] - payment_intents[i].amount \notin -1 .. 1
            \/ \E m \in net : /\ m.ref = i
                              /\ \/ ParseStatus(payment_intents[i].provider, m.code) = "failed"
                                 \/ OtherTransfer(i, m)

(***************************************************************************)
(* A user who has a subscription never loses it without getting another in *)
(* the same commit: replacing one cancels the old row and inserts the new  *)
(* one, and a crash or an index conflict between the two undoes the first. *)
(***************************************************************************)
NeverLapses ==
    [][\A u \in Users : Active(u) # {} => Active(u)' # {}]_vars

(***************************************************************************)
(* confirm_payment's docstring: "Idempotent: re-running on an already-paid *)
(* intent is a no-op", and migration 0015's "pending -> redirected -> paid *)
(* | failed | canceled | expired".  Once an intent is paid no step adds a  *)
(* subscription for it or gives it another status.                         *)
(***************************************************************************)
PaidIsIdempotent ==
    [][\A i \in Intents : payment_intents[i].status = "paid" =>
          /\ payment_intents'[i].status = "paid"
          /\ PaidBy(i)' = PaidBy(i)]_vars

\* A paid intent that no running handler is about to give a status.
Settled(i) ==
    /\ payment_intents[i].status = "paid"
    /\ \A r \in Requests : target[r] = i => write[r] = "keep"

(***************************************************************************)
(* What the code keeps of that promise: the handlers that read the intent  *)
(* before it was paid can still change it, but once they have ended        *)
(* nothing ever does, neither repeated and late callbacks nor sandbox      *)
(* confirmations, however they overlap.                                    *)
(***************************************************************************)
PaidSettles ==
    [][\A i \in Intents : Settled(i) => Settled(i)' /\ PaidBy(i)' = PaidBy(i)]_vars

\* The tables change as SubscriptionLedger says, one whole handler at a time.
Ledger == INSTANCE SubscriptionLedger WITH
    payment_intents <- payment_intents, user_subscriptions <- user_subscriptions
ImplementsLedger == Ledger!LSpec

(***************************************************************************)
(* Every handler comes to an end: no cycle of lock waits and no starvation *)
(* behind other handlers of the same user or intent.                       *)
(***************************************************************************)
HandlersEnd == \A r \in Requests : (pc[r] # "idle") ~> (pc[r] = "idle")

(***************************************************************************)
(* Money taken in full leads to a subscription for it as long as the       *)
(* gateway keeps redelivering the callback, whatever fails in between.     *)
(***************************************************************************)
MoneyActivates ==
    \A i \in Intents :
        (taken[i] > 0 /\ taken[i] = payment_intents[i].amount) ~> (PaidBy(i) # {})
=============================================================================
