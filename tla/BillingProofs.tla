---------------------------- MODULE BillingProofs ----------------------------
(***************************************************************************)
(* Safety of Billing for any number of users, intents, rows and handlers.  *)
(***************************************************************************)
EXTENDS Billing, TLAPS

\* A handler in flight works for a user, and for an intent of that user.
HandlerOK(r) ==
    /\ pc[r] # "idle" => owner[r] \in Users
    /\ target[r] # Free =>
         /\ Exists(target[r])
         /\ owner[r] = payment_intents[target[r]].user

(***************************************************************************)
(* What a handler has done and read at each point: rows are inserted only  *)
(* after the INSERT, and the intent is about to become paid exactly when   *)
(* the handler is activating.                                              *)
(***************************************************************************)
StageOK(r) ==
    /\ pc[r] = "idle" => target[r] = Free
    /\ pc[r] \in {"idle", "select_subs"} => existing[r] = {}
    /\ pc[r] \in {"idle", "select_subs", "update_subs", "insert"} => added[r] = Nobody
    /\ pc[r] \in {"select_subs", "update_intent"} => target[r] # Free
    /\ target[r] = Free => write[r] = "keep"
    /\ pc[r] \in {"select_subs", "update_subs", "insert"} /\ target[r] # Free
         => write[r] = "paid"
    /\ pc[r] \in {"update_intent", "commit"} /\ added[r] = Nobody
         => existing[r] = {} /\ write[r] # "paid" /\ target[r] # Free
    /\ added[r] # Nobody /\ target[r] # Free => write[r] = "paid"

\* The rows a handler is about to cancel are its user's.
ExistingOK(r) ==
    \A s \in existing[r] : /\ user_subscriptions[s].status # "absent"
                           /\ user_subscriptions[s].user = owner[r]

(***************************************************************************)
(* The heart of OneActive: once a handler has inserted its row, it has     *)
(* canceled every committed active row of the user, and no other handler   *)
(* has a row of that user pending.                                         *)
(***************************************************************************)
AddedOK(r) ==
    added[r] # Nobody =>
        /\ user_subscriptions[added[r]].status = "absent"
        /\ Active(owner[r]) \subseteq existing[r]
        /\ \A q \in Requests : q # r /\ added[q] # Nobody =>
             added[q] # added[r] /\ owner[q] # owner[r]

IntentsHaveUsers ==
    \A i \in Intents : Exists(i) => payment_intents[i].user \in Users

\* A payment that backs a subscription is on record.
SourcesExist ==
    \A i \in Intents : PaidBy(i) # {} => Exists(i)

Inv ==
    /\ TypeOK
    /\ IntentsHaveUsers
    /\ SourcesExist
    /\ \A r \in Requests : HandlerOK(r) /\ StageOK(r) /\ ExistingOK(r) /\ AddedOK(r)
    /\ OneActive
    /\ PaidHasSubscription

-----------------------------------------------------------------------------
\* What confirm_payment can decide to store.
LEMMA NewStatusType ==
    ASSUME NEW i, NEW result
    PROVE  NewStatus(i, result) \in {"redirected", "paid", "failed", "canceled"}
  BY DEF NewStatus

\* The initial state satisfies the inductive invariant.
LEMMA InitInv == Init => Inv
  <1> SUFFICES ASSUME Init PROVE Inv
    OBVIOUS
  <1> USE ConstantsAssumption
  <1>1. TypeOK
    BY DEF Init, TypeOK, NoIntent, NoSub, IntentStatus, Providers
  <1>2. IntentsHaveUsers /\ SourcesExist
    BY DEF Init, IntentsHaveUsers, SourcesExist, PaidBy, Rows, Exists, NoIntent, NoSub
  <1>3. \A r \in Requests : HandlerOK(r) /\ StageOK(r) /\ ExistingOK(r) /\ AddedOK(r)
    BY DEF Init, HandlerOK, StageOK, ExistingOK, AddedOK
  <1>4. OneActive /\ PaidHasSubscription
    BY DEF Init, OneActive, PaidHasSubscription, Rows, NoSub, NoIntent
  <1> QED
    BY <1>1, <1>2, <1>3, <1>4 DEF Inv

\* A checkout adds a row no handler can be working on yet.
LEMMA CheckoutInv ==
    ASSUME Inv, NEW u \in Users, NEW i \in Intents, NEW p \in UsedProviders,
           NEW plan \in Plans, NEW c \in UsedCycles, Checkout(u, i, p, plan, c)
    PROVE  Inv'
  <1> USE ConstantsAssumption
  <1>1. Amount(plan, c) \in Nat
    BY DEF Amount
  <1>2. TypeOK'
    BY <1>1 DEF Inv, TypeOK, Checkout, gateway, handler, IntentStatus
  <1>3. IntentsHaveUsers' /\ SourcesExist'
    BY DEF Inv, TypeOK, Checkout, IntentsHaveUsers, SourcesExist, PaidBy, Rows, Exists
  <1>4. ASSUME NEW r \in Requests
        PROVE  HandlerOK(r)' /\ StageOK(r)' /\ ExistingOK(r)' /\ AddedOK(r)'
    BY DEF Inv, TypeOK, Checkout, gateway, handler, HandlerOK, StageOK, ExistingOK,
           AddedOK, Exists, Active
  <1>5. OneActive'
    BY DEF Inv, Checkout, OneActive, Rows
  <1>6. PaidHasSubscription'
    BY DEF Inv, TypeOK, Checkout, PaidHasSubscription, PaidBy, Rows
  <1> QED
    BY <1>2, <1>3, <1>4, <1>5, <1>6 DEF Inv

\* The gateway's steps touch neither the tables nor the handlers.
LEMMA GatewayInv ==
    ASSUME Inv, NEW i \in Intents, NEW code, NEW paisas, NEW a,
           AttemptFails(i, code) \/ ReportTransfer(i, paisas, a) \/ TakeMoney(i, code, paisas, a)
    PROVE  Inv'
  <1> USE ConstantsAssumption
  <1>1. UNCHANGED <<tables, handler>>
    BY DEF AttemptFails, ReportTransfer, TakeMoney
  <1>2. TypeOK'
    <2>1. CASE AttemptFails(i, code)
      BY <1>1, <2>1 DEF Inv, TypeOK, AttemptFails, Callback, tables, handler
    <2>2. CASE TakeMoney(i, code, paisas, a)
      BY <1>1, <2>2 DEF Inv, TypeOK, TakeMoney, Callback, tables, handler
    <2>3. CASE ReportTransfer(i, paisas, a)
      <3>1. net' = net \cup {Callback(i, "received", a)} /\ taken' = taken
        BY <2>3, Zenon DEF ReportTransfer
      <3>2. \A m \in net' : m.ref \in Intents
        BY <3>1 DEF Inv, TypeOK, Callback
      <3> QED
        BY <1>1, <3>1, <3>2 DEF Inv, TypeOK, tables, handler
    <2> QED
      BY <2>1, <2>2, <2>3
  <1>3. (IntentsHaveUsers /\ SourcesExist /\ OneActive /\ PaidHasSubscription)'
    BY <1>1 DEF Inv, tables, IntentsHaveUsers, SourcesExist, Exists, OneActive, PaidHasSubscription,
               PaidBy, Rows
  <1>4. ASSUME NEW r \in Requests
        PROVE  HandlerOK(r)' /\ StageOK(r)' /\ ExistingOK(r)' /\ AddedOK(r)'
    BY <1>1 DEF Inv, tables, handler, HandlerOK, StageOK, ExistingOK, AddedOK, Exists, Active
  <1> QED
    BY <1>2, <1>3, <1>4 DEF Inv

\* confirm_payment reads the intent and decides; nothing is written yet.
LEMMA ConfirmInv ==
    ASSUME Inv, NEW r \in Requests, NEW i \in Intents, NEW result,
           confirm_payment(r, i, result)
    PROVE  Inv'
  <1> USE ConstantsAssumption
  <1>1. NewStatus(i, result) \in {"redirected", "paid", "failed", "canceled"}
    BY NewStatusType
  <1>2. UNCHANGED <<tables, gateway, existing, added>>
    BY DEF confirm_payment
  <1>3. TypeOK'
    BY <1>1, <1>2 DEF Inv, TypeOK, confirm_payment, tables, gateway
  <1>4. (IntentsHaveUsers /\ SourcesExist /\ OneActive /\ PaidHasSubscription)'
    BY <1>2 DEF Inv, tables, IntentsHaveUsers, SourcesExist, Exists, OneActive, PaidHasSubscription,
               PaidBy, Rows
  <1>5. ASSUME NEW q \in Requests
        PROVE  HandlerOK(q)' /\ StageOK(q)' /\ ExistingOK(q)' /\ AddedOK(q)'
    <2>1. Exists(i) /\ payment_intents[i].user \in Users
      BY DEF Inv, IntentsHaveUsers, confirm_payment
    <2>2. HandlerOK(q)'
      BY <1>2, <2>1 DEF Inv, TypeOK, tables, confirm_payment, HandlerOK, Exists
    <2>3. StageOK(q)'
      BY <1>1, <1>2 DEF Inv, TypeOK, confirm_payment, StageOK, Activates
    <2>4. ExistingOK(q)'
      BY <1>2 DEF Inv, TypeOK, tables, confirm_payment, StageOK, ExistingOK
    <2>5. AddedOK(q)'
      BY <1>2 DEF Inv, TypeOK, tables, confirm_payment, StageOK, AddedOK, Active
    <2> QED
      BY <2>2, <2>3, <2>4, <2>5
  <1> QED
    BY <1>3, <1>4, <1>5 DEF Inv

\* subscribe_free and SelectSubs read the user's active rows.
LEMMA SelectInv ==
    ASSUME Inv, NEW r \in Requests,
           (\E u \in Users : subscribe_free(r, u)) \/ SelectSubs(r)
    PROVE  Inv'
  <1> USE ConstantsAssumption
  <1>1. UNCHANGED <<tables, gateway, target, write, added>>
    BY DEF subscribe_free, SelectSubs
  <1>2. /\ pc[r] \in {"idle", "select_subs"}
        /\ pc' = [pc EXCEPT ![r] = "update_subs"]
        /\ existing' = [existing EXCEPT ![r] = Active(owner'[r])]
    BY DEF Inv, TypeOK, subscribe_free, SelectSubs
  <1>3. /\ owner' \in [Requests -> Users \cup {Nobody}]
        /\ owner'[r] \in Users
        /\ \A q \in Requests : q # r => owner'[q] = owner[q]
        /\ pc[r] = "select_subs" => owner'[r] = owner[r]
    <2>1. CASE SelectSubs(r)
      BY <2>1 DEF Inv, TypeOK, HandlerOK, SelectSubs
    <2>2. CASE \E u \in Users : subscribe_free(r, u)
      <3>1. PICK u \in Users : subscribe_free(r, u)
        BY <2>2
      <3>2. pc[r] = "idle" /\ owner' = [owner EXCEPT ![r] = u]
        BY <3>1 DEF subscribe_free
      <3> QED
        BY <3>2 DEF Inv, TypeOK
    <2> QED
      BY <2>1, <2>2
  <1>4. TypeOK'
    BY <1>1, <1>2, <1>3 DEF Inv, TypeOK, tables, gateway, Active
  <1>5. (IntentsHaveUsers /\ SourcesExist /\ OneActive /\ PaidHasSubscription)'
    BY <1>1 DEF Inv, tables, IntentsHaveUsers, SourcesExist, Exists, OneActive, PaidHasSubscription,
               PaidBy, Rows
  <1>6. ASSUME NEW q \in Requests
        PROVE  HandlerOK(q)' /\ StageOK(q)' /\ ExistingOK(q)' /\ AddedOK(q)'
    <2>1. HandlerOK(q)'
      BY <1>1, <1>2, <1>3 DEF Inv, TypeOK, tables, HandlerOK, StageOK, Exists
    <2>2. StageOK(q)'
      BY <1>1, <1>2 DEF Inv, TypeOK, StageOK
    <2>3. ExistingOK(q)'
      BY <1>1, <1>2, <1>3 DEF Inv, TypeOK, tables, ExistingOK, Active
    <2>4. AddedOK(q)'
      BY <1>1, <1>2, <1>3 DEF Inv, TypeOK, tables, StageOK, AddedOK, Active
    <2> QED
      BY <2>1, <2>2, <2>3, <2>4
  <1> QED
    BY <1>4, <1>5, <1>6 DEF Inv

\* The UPDATEs only take locks: their effect shows at the commit.
LEMMA UpdateInv ==
    ASSUME Inv, NEW r \in Requests, UpdateSubs(r) \/ UpdateIntent(r)
    PROVE  Inv'
  <1> USE ConstantsAssumption
  <1>1. UNCHANGED <<tables, gateway, owner, target, existing, write, added>>
    BY DEF UpdateSubs, UpdateIntent
  <1>2. \/ pc[r] = "update_subs" /\ pc' = [pc EXCEPT ![r] = "insert"]
        \/ pc[r] = "update_intent" /\ pc' = [pc EXCEPT ![r] = "commit"]
    BY DEF UpdateSubs, UpdateIntent
  <1>3. TypeOK'
    BY <1>1, <1>2 DEF Inv, TypeOK, tables, gateway
  <1>4. (IntentsHaveUsers /\ SourcesExist /\ OneActive /\ PaidHasSubscription)'
    BY <1>1 DEF Inv, tables, IntentsHaveUsers, SourcesExist, Exists, OneActive, PaidHasSubscription,
               PaidBy, Rows
  <1>5. ASSUME NEW q \in Requests
        PROVE  HandlerOK(q)' /\ StageOK(q)' /\ ExistingOK(q)' /\ AddedOK(q)'
    <2>1. HandlerOK(q)' /\ ExistingOK(q)' /\ AddedOK(q)'
      BY <1>1, <1>2 DEF Inv, TypeOK, tables, HandlerOK, ExistingOK, AddedOK, Exists, Active
    <2>2. StageOK(q)'
      BY <1>1, <1>2 DEF Inv, TypeOK, StageOK
    <2> QED
      BY <2>1, <2>2
  <1> QED
    BY <1>3, <1>4, <1>5 DEF Inv

\* The INSERT: the unique index gives AddedOK.
LEMMA InsertInv ==
    ASSUME Inv, NEW r \in Requests, NEW s \in SubIds, InsertSub(r, s)
    PROVE  Inv'
  <1> USE ConstantsAssumption
  <1>1. UNCHANGED <<tables, gateway, owner, target, existing, write>>
    BY DEF InsertSub
  <1>2. TypeOK'
    BY <1>1 DEF Inv, TypeOK, InsertSub, tables, gateway
  <1>3. (IntentsHaveUsers /\ SourcesExist /\ OneActive /\ PaidHasSubscription)'
    BY <1>1 DEF Inv, tables, IntentsHaveUsers, SourcesExist, Exists, OneActive, PaidHasSubscription,
               PaidBy, Rows
  <1>4. ASSUME NEW q \in Requests
        PROVE  HandlerOK(q)' /\ StageOK(q)' /\ ExistingOK(q)' /\ AddedOK(q)'
    <2>1. HandlerOK(q)' /\ ExistingOK(q)'
      BY <1>1 DEF Inv, TypeOK, InsertSub, tables, HandlerOK, ExistingOK, Exists
    <2>2. StageOK(q)'
      BY <1>1 DEF Inv, TypeOK, InsertSub, StageOK
    <2>3. CASE q = r
      <3>1. AddedOK(r)'
        BY <1>1 DEF Inv, TypeOK, InsertSub, IndexFree, tables, AddedOK, Active
      <3> QED
        BY <2>1, <2>2, <2>3, <3>1
    <2>4. CASE q # r
      <3>1. AddedOK(q)'
        BY <1>1, <2>4 DEF Inv, TypeOK, InsertSub, IndexFree, tables, AddedOK, Active
      <3> QED
        BY <2>1, <2>2, <3>1
    <2> QED
      BY <2>3, <2>4
  <1> QED
    BY <1>2, <1>3, <1>4 DEF Inv

\* Rolling back leaves the tables alone and forgets what the handler held.
LEMMA RollbackInv ==
    ASSUME Inv, NEW r \in Requests, InsertConflict(r) \/ Crash(r)
    PROVE  Inv'
  <1> USE ConstantsAssumption
  <1>1. End(r) /\ UNCHANGED <<tables, gateway>>
    BY DEF InsertConflict, Crash
  <1>2. TypeOK'
    BY <1>1 DEF Inv, TypeOK, End, tables, gateway
  <1>3. (IntentsHaveUsers /\ SourcesExist /\ OneActive /\ PaidHasSubscription)'
    BY <1>1 DEF Inv, tables, IntentsHaveUsers, SourcesExist, Exists, OneActive, PaidHasSubscription,
               PaidBy, Rows
  <1>4. ASSUME NEW q \in Requests
        PROVE  HandlerOK(q)' /\ StageOK(q)' /\ ExistingOK(q)' /\ AddedOK(q)'
    <2>1. HandlerOK(q)' /\ StageOK(q)'
      BY <1>1 DEF Inv, TypeOK, End, tables, HandlerOK, StageOK, Exists
    <2>2. ExistingOK(q)'
      BY <1>1 DEF Inv, TypeOK, End, tables, ExistingOK
    <2>3. AddedOK(q)'
      BY <1>1 DEF Inv, TypeOK, End, tables, AddedOK, Active
    <2> QED
      BY <2>1, <2>2, <2>3
  <1> QED
    BY <1>2, <1>3, <1>4 DEF Inv

(***************************************************************************)
(* What a commit does to one row: the inserted row becomes active, the     *)
(* rows read earlier become canceled, the others stay.                     *)
(***************************************************************************)
LEMMA CommitRows ==
    ASSUME Inv, NEW r \in Requests, Commit(r), NEW s \in SubIds
    PROVE  /\ s = added[r] =>
                 /\ user_subscriptions'[s].status = "active"
                 /\ user_subscriptions'[s].user = owner[r]
                 /\ user_subscriptions'[s].source = target[r]
           /\ s # added[r] =>
                 /\ user_subscriptions'[s].user = user_subscriptions[s].user
                 /\ user_subscriptions'[s].source = user_subscriptions[s].source
                 /\ s \in existing[r] => user_subscriptions'[s].status = "canceled"
                 /\ s \notin existing[r] =>
                      user_subscriptions'[s].status = user_subscriptions[s].status
  BY DEF Inv, TypeOK, Commit, CommittedSubs

\* What a commit does to one intent: at most its status changes, if it is the target.
LEMMA CommitIntents ==
    ASSUME Inv, NEW r \in Requests, Commit(r), NEW i \in Intents
    PROVE  /\ payment_intents'[i].user = payment_intents[i].user
           /\ payment_intents'[i].provider = payment_intents[i].provider
           /\ payment_intents'[i].amount = payment_intents[i].amount
           /\ payment_intents'[i].status =
                IF i = target[r] /\ write[r] # "keep" THEN write[r]
                ELSE payment_intents[i].status
  BY DEF Inv, TypeOK, Commit, CommittedIntents

LEMMA CommitInv ==
    ASSUME Inv, NEW r \in Requests, Commit(r)
    PROVE  Inv'
  <1> USE ConstantsAssumption
  <1>1. pc[r] = "commit" /\ End(r) /\ UNCHANGED gateway
    BY DEF Commit
  <1>2. TypeOK'
    <2>1. payment_intents' \in [Intents -> [status : IntentStatus, user : Users \cup {Nobody},
                                           provider : Providers, amount : Nat]]
      BY DEF Inv, TypeOK, Commit, CommittedIntents, IntentStatus
    <2>2. user_subscriptions' \in [SubIds -> [status : {"absent", "active", "canceled"},
                                             user : Users \cup {Nobody},
                                             source : Intents \cup {Free}]]
      BY DEF Inv, TypeOK, Commit, CommittedSubs
    <2> QED
      BY <1>1, <2>1, <2>2 DEF Inv, TypeOK, End, gateway
  <1>3. \A i \in Intents : Exists(i)' <=> Exists(i)
    BY CommitIntents DEF Inv, TypeOK, HandlerOK, Exists
  <1>4. IntentsHaveUsers' /\ SourcesExist'
    <2>1. IntentsHaveUsers'
      BY <1>3, CommitIntents DEF Inv, IntentsHaveUsers
    <2>2. ASSUME NEW i \in Intents, NEW s \in PaidBy(i)' PROVE Exists(i)
      <3>1. /\ s \in SubIds /\ user_subscriptions'[s].status # "absent"
            /\ user_subscriptions'[s].source = i
        BY <2>2 DEF PaidBy, Rows
      <3>2. CASE s = added[r]
        BY <3>1, <3>2, CommitRows DEF Inv, HandlerOK
      <3>3. CASE s # added[r]
        <4>1. user_subscriptions[s].status # "absent" /\ user_subscriptions[s].source = i
          BY <3>1, <3>3, CommitRows DEF Inv, ExistingOK
        <4> QED
          BY <3>1, <4>1 DEF Inv, SourcesExist, PaidBy, Rows
      <3> QED
        BY <3>2, <3>3
    <2> QED
      BY <1>3, <2>1, <2>2 DEF SourcesExist
  <1>5. OneActive'
    <2> SUFFICES ASSUME NEW s \in SubIds, NEW t \in SubIds,
                        user_subscriptions'[s].status = "active",
                        user_subscriptions'[t].status = "active",
                        user_subscriptions'[s].user = user_subscriptions'[t].user
                 PROVE  s = t
      BY DEF OneActive, Rows
    <2>1. ASSUME NEW x \in SubIds, x # added[r], user_subscriptions'[x].status = "active"
          PROVE  x \in Active(user_subscriptions[x].user) /\ x \notin existing[r]
      BY <2>1, CommitRows DEF Active
    <2>2. ASSUME NEW x \in SubIds, x # added[r], added[r] \in SubIds,
                 user_subscriptions'[x].status = "active"
          PROVE  user_subscriptions'[x].user # user_subscriptions'[added[r]].user
      <3>1. /\ user_subscriptions'[x].user = user_subscriptions[x].user
            /\ user_subscriptions'[added[r]].user = owner[r]
        BY <2>2, CommitRows
      <3>2. x \in Active(user_subscriptions[x].user) /\ x \notin existing[r]
        BY <2>1, <2>2
      <3>3. Active(owner[r]) \subseteq existing[r]
        BY <2>2 DEF Inv, AddedOK
      <3> QED
        BY <3>1, <3>2, <3>3
    <2>3. CASE s = added[r] \/ t = added[r]
      BY <2>2, <2>3
    <2>4. CASE s # added[r] /\ t # added[r]
      <3>1. /\ s \in Active(user_subscriptions[s].user)
            /\ t \in Active(user_subscriptions[t].user)
        BY <2>1, <2>4
      <3>2. user_subscriptions[s].user = user_subscriptions[t].user
        BY <2>4, CommitRows
      <3> QED
        BY <3>1, <3>2 DEF Inv, OneActive, Rows, Active
    <2> QED
      BY <2>3, <2>4
  <1>6. PaidHasSubscription'
    <2> SUFFICES ASSUME NEW i \in Intents, payment_intents'[i].status = "paid"
                 PROVE  \E s \in SubIds : /\ user_subscriptions'[s].status # "absent"
                                          /\ user_subscriptions'[s].source = i
                                          /\ user_subscriptions'[s].user = payment_intents'[i].user
      BY DEF PaidHasSubscription, PaidBy, Rows
    <2>1. CASE i = target[r] /\ write[r] = "paid"
      <3>1. added[r] \in SubIds
        BY <1>1, <2>1 DEF Inv, TypeOK, StageOK
      <3>2. owner[r] = payment_intents'[i].user
        BY <2>1, CommitIntents DEF Inv, HandlerOK
      <3>3. /\ user_subscriptions'[added[r]].status = "active"
            /\ user_subscriptions'[added[r]].user = owner[r]
            /\ user_subscriptions'[added[r]].source = target[r]
        BY <3>1, CommitRows
      <3> QED
        BY <2>1, <3>1, <3>2, <3>3
    <2>2. CASE ~(i = target[r] /\ write[r] = "paid")
      <3>1. payment_intents[i].status = "paid" /\ payment_intents'[i].user = payment_intents[i].user
        BY <2>2, CommitIntents
      <3>2. PICK s \in SubIds : /\ user_subscriptions[s].status # "absent"
                               /\ user_subscriptions[s].source = i
                               /\ user_subscriptions[s].user = payment_intents[i].user
        BY <3>1 DEF Inv, PaidHasSubscription, PaidBy, Rows
      <3>3. s # added[r]
        BY <3>2 DEF Inv, AddedOK
      <3>4. /\ user_subscriptions'[s].status # "absent"
            /\ user_subscriptions'[s].user = user_subscriptions[s].user
            /\ user_subscriptions'[s].source = user_subscriptions[s].source
        BY <3>2, <3>3, CommitRows
      <3> QED
        BY <3>1, <3>2, <3>4
    <2> QED
      BY <2>1, <2>2
  <1>7. ASSUME NEW q \in Requests
        PROVE  HandlerOK(q)' /\ StageOK(q)' /\ ExistingOK(q)' /\ AddedOK(q)'
    <2>1. CASE q = r
      BY <1>1, <2>1 DEF Inv, TypeOK, End, HandlerOK, StageOK, ExistingOK, AddedOK
    <2>2. CASE q # r
      <3>1. /\ pc'[q] = pc[q] /\ owner'[q] = owner[q] /\ target'[q] = target[q]
            /\ existing'[q] = existing[q] /\ write'[q] = write[q] /\ added'[q] = added[q]
        BY <1>1, <2>2 DEF Inv, TypeOK, End
      <3>2. HandlerOK(q)' /\ StageOK(q)'
        BY <1>3, <3>1, CommitIntents DEF Inv, TypeOK, HandlerOK, StageOK
      <3>3. ExistingOK(q)'
        <4> SUFFICES ASSUME NEW s \in existing[q]
                     PROVE  /\ user_subscriptions'[s].status # "absent"
                            /\ user_subscriptions'[s].user = owner[q]
          BY <3>1 DEF ExistingOK
        <4>1. /\ s \in SubIds /\ user_subscriptions[s].status # "absent"
              /\ user_subscriptions[s].user = owner[q]
          BY DEF Inv, TypeOK, ExistingOK
        <4>2. s # added[r]
          BY <4>1 DEF Inv, AddedOK
        <4> QED
          BY <4>1, <4>2, CommitRows
      <3>4. AddedOK(q)'
        <4> SUFFICES ASSUME added[q] # Nobody
                     PROVE  /\ user_subscriptions'[added[q]].status = "absent"
                            /\ Active(owner[q])' \subseteq existing[q]
                            /\ \A p \in Requests : p # q /\ added'[p] # Nobody =>
                                 added'[p] # added[q] /\ owner'[p] # owner[q]
          BY <3>1 DEF AddedOK
        <4>1. /\ added[q] \in SubIds /\ added[q] # added[r]
              /\ user_subscriptions[added[q]].status = "absent"
          BY <2>2 DEF Inv, TypeOK, AddedOK
        <4>2. user_subscriptions'[added[q]].status = "absent"
          BY <4>1, CommitRows DEF Inv, ExistingOK
        <4>3. Active(owner[q])' \subseteq existing[q]
          <5> SUFFICES ASSUME NEW s \in SubIds, user_subscriptions'[s].status = "active",
                              user_subscriptions'[s].user = owner[q]
                       PROVE  s \in existing[q]
            BY <3>1 DEF Active
          <5>1. s # added[r]
            <6> SUFFICES ASSUME s = added[r] PROVE FALSE
              OBVIOUS
            <6>1. user_subscriptions'[s].user = owner[r]
              BY CommitRows
            <6>2. owner[q] # owner[r]
              BY <2>2 DEF Inv, AddedOK
            <6> QED
              BY <6>1, <6>2
          <5>2. /\ user_subscriptions[s].status = "active"
                /\ user_subscriptions[s].user = owner[q]
            BY <5>1, CommitRows
          <5> QED
            BY <5>2 DEF Inv, AddedOK, Active
        <4>4. \A p \in Requests : p # q /\ added'[p] # Nobody =>
                added'[p] # added[q] /\ owner'[p] # owner[q]
          BY <1>1, <2>2 DEF Inv, TypeOK, AddedOK, End
        <4> QED
          BY <4>2, <4>3, <4>4
      <3> QED
        BY <3>2, <3>3, <3>4
    <2> QED
      BY <2>1, <2>2
  <1> QED
    BY <1>2, <1>4, <1>5, <1>6, <1>7 DEF Inv

\* A step of nobody.
LEMMA StutterInv == Inv /\ UNCHANGED vars => Inv'
  BY DEF Inv, vars, TypeOK, IntentsHaveUsers, SourcesExist, HandlerOK, StageOK, ExistingOK,
         AddedOK, OneActive, PaidHasSubscription, Exists, Active, Rows, PaidBy

LEMMA NextInv == Inv /\ [Next]_vars => Inv'
  <1> SUFFICES ASSUME Inv, [Next]_vars PROVE Inv'
    OBVIOUS
  <1>1. CASE UNCHANGED vars
    BY <1>1, StutterInv
  <1>2. CASE \E u \in Users, i \in Intents, p \in UsedProviders, plan \in Plans, c \in UsedCycles :
               Checkout(u, i, p, plan, c)
    BY <1>2, CheckoutInv
  <1>3. CASE \E i \in Intents, code \in Codes : AttemptFails(i, code)
    BY <1>3, GatewayInv
  <1>4. CASE \E i \in Intents, code \in Codes :
               /\ Exists(i)
               /\ \E paisas \in {payment_intents[i].amount, ShortAmount} :
                    \E a \in {NoAmount, SentAmount(payment_intents[i].provider, paisas)} :
                      ReportTransfer(i, paisas, a) \/ TakeMoney(i, code, paisas, a)
    BY <1>4, GatewayInv
  <1>5. CASE \E r \in Requests, m \in net : gateway_callback(r, m)
    <2>1. PICK r \in Requests, m \in net : gateway_callback(r, m)
      BY <1>5
    <2>2. m.ref \in Intents
      BY DEF Inv, TypeOK
    <2> QED
      BY <2>1, <2>2, ConfirmInv DEF gateway_callback
  <1>6. CASE \E r \in Requests, i \in Intents : sandbox_confirm(r, i)
    BY <1>6, ConfirmInv DEF sandbox_confirm
  <1>7. CASE \E r \in Requests, u \in Users : subscribe_free(r, u)
    BY <1>7, SelectInv
  <1>8. CASE \E r \in Requests : Step(r)
    <2>1. PICK r \in Requests : Step(r)
      BY <1>8
    <2> QED
      BY <2>1, SelectInv, UpdateInv, RollbackInv, InsertInv, CommitInv DEF Step
  <1>9. CASE \E r \in Requests : Crash(r)
    BY <1>9, RollbackInv
  <1> QED
    BY <1>1, <1>2, <1>3, <1>4, <1>5, <1>6, <1>7, <1>8, <1>9 DEF Next

-----------------------------------------------------------------------------
LEMMA Invariance == Spec => []Inv
  BY InitInv, NextInv, PTL DEF Spec

(***************************************************************************)
(* Every variable of the billing model keeps its type.                     *)
(***************************************************************************)
THEOREM TypeCorrect == Spec => []TypeOK
  <1>1. Inv => TypeOK
    BY DEF Inv
  <1> QED
    BY <1>1, Invariance, PTL

(***************************************************************************)
(* However many handlers run at once, no user ever has two active          *)
(* subscriptions.                                                          *)
(***************************************************************************)
THEOREM AtMostOneActive == Spec => []OneActive
  <1>1. Inv => OneActive
    BY DEF Inv
  <1> QED
    BY <1>1, Invariance, PTL

(***************************************************************************)
(* An intent recorded as paid always has a subscription of its user.       *)
(***************************************************************************)
THEOREM PaidIsBacked == Spec => []PaidHasSubscription
  <1>1. Inv => PaidHasSubscription
    BY DEF Inv
  <1> QED
    BY <1>1, Invariance, PTL

-----------------------------------------------------------------------------
\* Only checkouts and commits change the tables.
LEMMA TableWrites ==
    ASSUME [Next]_vars
    PROVE  \/ \E r \in Requests : Commit(r)
           \/ /\ user_subscriptions' = user_subscriptions
              /\ \/ payment_intents' = payment_intents
                 \/ \E u \in Users, i \in Intents, p \in UsedProviders, plan \in Plans, c \in UsedCycles :
                      Checkout(u, i, p, plan, c)
  BY DEF Next, vars, Step, tables, Checkout, AttemptFails, ReportTransfer, TakeMoney, gateway_callback,
         confirm_payment, sandbox_confirm, subscribe_free, SelectSubs, UpdateSubs, InsertSub,
         InsertConflict, UpdateIntent, Crash

\* A commit without an INSERT leaves the subscriptions as they are.
LEMMA PlainCommit ==
    ASSUME Inv, NEW r \in Requests, Commit(r), added[r] = Nobody
    PROVE  user_subscriptions' = user_subscriptions
  <1>1. existing[r] = {} /\ \A s \in SubIds : s # added[r]
    BY ConstantsAssumption DEF Inv, StageOK, Commit
  <1>2. user_subscriptions' = [s \in SubIds |-> user_subscriptions[s]]
    BY <1>1 DEF Commit, CommittedSubs
  <1> QED
    BY <1>2 DEF Inv, TypeOK

(***************************************************************************)
(* Replacing a subscription never leaves its user without one.             *)
(***************************************************************************)
THEOREM SubscriptionsNeverLapse == Spec => NeverLapses
  <1>1. ASSUME Inv, [Next]_vars, NEW u \in Users, Active(u) # {}
        PROVE  Active(u)' # {}
    <2>1. CASE user_subscriptions' = user_subscriptions
      BY <1>1, <2>1 DEF Active
    <2>2. CASE \E r \in Requests : Commit(r)
      <3>1. PICK r \in Requests : Commit(r)
        BY <2>2
      <3>2. CASE added[r] = Nobody
        BY <1>1, <2>1, <3>1, <3>2, PlainCommit
      <3>3. CASE added[r] # Nobody /\ u = owner[r]
        <4>1. added[r] \in SubIds
          BY <1>1, <3>3 DEF Inv, TypeOK
        <4>2. added[r] \in Active(u)'
          BY <1>1, <3>1, <3>3, <4>1, CommitRows DEF Active
        <4> QED
          BY <4>2
      <3>4. CASE added[r] # Nobody /\ u # owner[r]
        <4>1. PICK s \in SubIds : /\ user_subscriptions[s].status = "active"
                                 /\ user_subscriptions[s].user = u
          BY <1>1 DEF Active
        <4>2. s # added[r] /\ s \notin existing[r]
          BY <1>1, <3>4, <4>1 DEF Inv, AddedOK, ExistingOK
        <4>3. s \in Active(u)'
          BY <1>1, <3>1, <4>1, <4>2, CommitRows DEF Active
        <4> QED
          BY <4>3
      <3> QED
        BY <3>2, <3>3, <3>4
    <2> QED
      BY <1>1, <2>1, <2>2, TableWrites
  <1>2. Inv /\ [Next]_vars => [\A u \in Users : Active(u) # {} => Active(u)' # {}]_vars
    BY <1>1
  <1> QED
    BY <1>2, Invariance, PTL DEF Spec, NeverLapses

-----------------------------------------------------------------------------
\* A handler that starts on a paid intent has no status to write to it.
LEMMA PaidConfirm ==
    ASSUME Inv, NEW r \in Requests, NEW j \in Intents, NEW result, confirm_payment(r, j, result),
           NEW i \in Intents, Settled(i)
    PROVE  \A q \in Requests : target'[q] = i => write'[q] = "keep"
  <1>1. j = i => NewStatus(j, result) = payment_intents[j].status
    BY DEF Settled, NewStatus
  <1> QED
    BY <1>1 DEF confirm_payment, Settled, Inv, TypeOK

\* The handlers around a settled intent go on having nothing to write to it.
LEMMA NoNewWrite ==
    ASSUME Inv, [Next]_vars, NEW i \in Intents, Settled(i)
    PROVE  \A q \in Requests : target'[q] = i => write'[q] = "keep"
  <1>1. ASSUME NEW r \in Requests, NEW m \in net, gateway_callback(r, m)
        PROVE  \A q \in Requests : target'[q] = i => write'[q] = "keep"
    <2>1. m.ref \in Intents
      BY DEF Inv, TypeOK
    <2> QED
      BY <1>1, <2>1, PaidConfirm DEF gateway_callback
  <1>2. ASSUME NEW r \in Requests, NEW j \in Intents, sandbox_confirm(r, j)
        PROVE  \A q \in Requests : target'[q] = i => write'[q] = "keep"
    BY <1>2, PaidConfirm DEF sandbox_confirm
  <1>3. ASSUME NEW r \in Requests, End(r)
        PROVE  \A q \in Requests : target'[q] = i => write'[q] = "keep"
    BY <1>3 DEF End, Settled, Inv, TypeOK
  <1>4. ASSUME UNCHANGED <<target, write>>
        PROVE  \A q \in Requests : target'[q] = i => write'[q] = "keep"
    BY <1>4 DEF Settled
  <1>5. ASSUME NEW r \in Requests, Step(r)
        PROVE  \A q \in Requests : target'[q] = i => write'[q] = "keep"
    BY <1>3, <1>4, <1>5 DEF Step, SelectSubs, UpdateSubs, InsertSub, InsertConflict, UpdateIntent,
           Commit
  <1>6. ASSUME NEW r \in Requests, Crash(r)
        PROVE  \A q \in Requests : target'[q] = i => write'[q] = "keep"
    BY <1>3, <1>6 DEF Crash
  <1> QED
    BY <1>1, <1>2, <1>4, <1>5, <1>6
    DEF Next, vars, handler, Checkout, AttemptFails, ReportTransfer, TakeMoney, subscribe_free

(***************************************************************************)
(* A paid intent that no handler in flight read unpaid stays as it is, for *)
(* any number of repeated, late and overlapping callbacks.                 *)
(***************************************************************************)
THEOREM SettledForGood == Spec => PaidSettles
  <1>1. ASSUME Inv, [Next]_vars, NEW i \in Intents, Settled(i)
        PROVE  Settled(i)' /\ PaidBy(i)' = PaidBy(i)
    <2>1. \A q \in Requests : target'[q] = i => write'[q] = "keep"
      BY <1>1, NoNewWrite
    <2>2. CASE payment_intents' = payment_intents /\ user_subscriptions' = user_subscriptions
      BY <1>1, <2>1, <2>2 DEF Settled, PaidBy, Rows
    <2>3. CASE \E u \in Users, j \in Intents, p \in UsedProviders, plan \in Plans, c \in UsedCycles :
                 Checkout(u, j, p, plan, c)
      <3>1. payment_intents'[i] = payment_intents[i] /\ user_subscriptions' = user_subscriptions
        BY <1>1, <2>3 DEF Checkout, Exists, Settled, Inv, TypeOK
      <3> QED
        BY <1>1, <2>1, <3>1 DEF Settled, PaidBy, Rows
    <2>4. CASE \E r \in Requests : Commit(r)
      <3>1. PICK r \in Requests : Commit(r)
        BY <2>4
      <3>2. payment_intents'[i] = payment_intents[i]
        BY <1>1, <3>1 DEF Commit, CommittedIntents, Settled
      <3>3. PaidBy(i)' = PaidBy(i)
        <4>1. CASE added[r] = Nobody
          BY <1>1, <3>1, <4>1, PlainCommit DEF PaidBy, Rows
        <4>2. CASE added[r] # Nobody
          <5>1. target[r] # i
            BY <1>1, <4>2, ConstantsAssumption DEF Settled, Inv, StageOK
          <5>2. ASSUME NEW s \in SubIds PROVE s \in PaidBy(i)' <=> s \in PaidBy(i)
            <6>1. CASE s = added[r]
              BY <1>1, <3>1, <4>2, <5>1, <6>1 DEF Commit, CommittedSubs, PaidBy, Rows, Inv, AddedOK
            <6>2. CASE s # added[r]
              BY <1>1, <3>1, <6>2 DEF Commit, CommittedSubs, PaidBy, Rows, Inv, TypeOK, ExistingOK
            <6> QED
              BY <6>1, <6>2
          <5> QED
            BY <5>2 DEF PaidBy, Rows
        <4> QED
          BY <4>1, <4>2
      <3> QED
        BY <1>1, <2>1, <3>2, <3>3 DEF Settled
    <2> QED
      BY <1>1, <2>2, <2>3, <2>4, TableWrites
  <1>2. Inv /\ [Next]_vars =>
          [\A i \in Intents : Settled(i) => Settled(i)' /\ PaidBy(i)' = PaidBy(i)]_vars
    BY <1>1
  <1> QED
    BY <1>2, Invariance, PTL DEF Spec, PaidSettles

-----------------------------------------------------------------------------
\* A committing handler that inserted a row replaces its user's subscription.
LEMMA CommitReplaces ==
    ASSUME Inv, NEW r \in Requests, Commit(r), added[r] # Nobody
    PROVE  Ledger!Replace(owner[r], added[r], target[r])
  <1>1. user_subscriptions[added[r]].status = "absent"
    BY DEF Inv, AddedOK
  <1>2. \A s \in SubIds : s \in existing[r] /\ user_subscriptions[s].status # "canceled" <=>
            user_subscriptions[s].user = owner[r] /\ user_subscriptions[s].status = "active"
    BY DEF Inv, TypeOK, AddedOK, ExistingOK, Active
  <1>3. \A s \in SubIds : user_subscriptions[s].status = "canceled" =>
            [user_subscriptions[s] EXCEPT !.status = "canceled"] = user_subscriptions[s]
    BY DEF Inv, TypeOK
  <1>4. \A s \in SubIds : CommittedSubs(r)[s] =
          IF s = added[r] THEN [status |-> "active", user |-> owner[r], source |-> target[r]]
          ELSE IF user_subscriptions[s].user = owner[r] /\ user_subscriptions[s].status = "active"
          THEN [user_subscriptions[s] EXCEPT !.status = "canceled"]
          ELSE user_subscriptions[s]
    BY <1>2, <1>3 DEF CommittedSubs
  <1> QED
    BY <1>1, <1>4 DEF Commit, CommittedSubs, Ledger!Replace

(***************************************************************************)
(* The handlers' interleaved transactions change the two tables only as    *)
(* SubscriptionLedger allows: each appears to run in one step.             *)
(***************************************************************************)
THEOREM ImplementationThm == Spec => ImplementsLedger
  <1>1. Init => Ledger!LInit
    BY DEF Init, Ledger!LInit, NoIntent, NoSub
  <1>2. ASSUME Inv, [Next]_vars
        PROVE  [Ledger!LNext]_(Ledger!lvars)
    <2>1. CASE payment_intents' = payment_intents /\ user_subscriptions' = user_subscriptions
      BY <2>1 DEF Ledger!lvars
    <2>2. CASE \E u \in Users, i \in Intents, p \in UsedProviders, plan \in Plans, c \in UsedCycles :
                 Checkout(u, i, p, plan, c)
      <3>1. PICK u \in Users, i \in Intents, p \in UsedProviders, plan \in Plans, c \in UsedCycles :
                 Checkout(u, i, p, plan, c)
        BY <2>2
      <3>2. Ledger!Open(i)
        BY <1>2, <3>1 DEF Inv, TypeOK, Checkout, Exists, Ledger!Open
      <3> QED
        BY <3>2 DEF Ledger!LNext
    <2>3. ASSUME NEW r \in Requests, Commit(r)
          PROVE  [Ledger!LNext]_(Ledger!lvars)
      <3>1. CASE added[r] = Nobody
        <4>1. user_subscriptions' = user_subscriptions
          BY <1>2, <2>3, <3>1, PlainCommit
        <4>2. /\ target[r] \in Intents /\ payment_intents[target[r]].status # "absent"
              /\ write[r] \in {"keep", "redirected", "failed", "canceled"}
          BY <1>2, <2>3, <3>1 DEF Inv, TypeOK, StageOK, HandlerOK, Exists, Commit
        <4>3. CASE write[r] = "keep"
          <5>1. payment_intents' = payment_intents
            BY <1>2, <2>3, <4>3 DEF Inv, TypeOK, Commit, CommittedIntents
          <5> QED
            BY <4>1, <5>1, <2>1
        <4>4. CASE write[r] # "keep"
          <5>1. payment_intents' = [payment_intents EXCEPT ![target[r]].status = write[r]]
            BY <1>2, <2>3, <4>2, <4>4 DEF Inv, TypeOK, Commit, CommittedIntents
          <5>2. Ledger!Record(target[r], write[r])
            BY <4>1, <4>2, <5>1 DEF Ledger!Record
          <5> QED
            BY <4>2, <4>4, <5>2 DEF Ledger!LNext
        <4> QED
          BY <4>3, <4>4
      <3>2. CASE added[r] # Nobody
        <4>1. added[r] \in SubIds /\ owner[r] \in Users
          BY <1>2, <2>3, <3>2 DEF Inv, TypeOK, HandlerOK, Commit
        <4>2. Ledger!Replace(owner[r], added[r], target[r])
          BY <1>2, <2>3, <3>2, CommitReplaces
        <4>3. CASE target[r] = Free
          <5>1. payment_intents' = payment_intents
            BY <1>2, <2>3, <4>3, ConstantsAssumption DEF Inv, TypeOK, Commit, CommittedIntents
          <5>2. Ledger!SubscribeFree(owner[r], added[r])
            BY <4>2, <4>3, <5>1 DEF Ledger!SubscribeFree
          <5> QED
            BY <4>1, <5>2 DEF Ledger!LNext
        <4>4. CASE target[r] # Free
          <5>1. /\ target[r] \in Intents /\ write[r] = "paid"
                /\ payment_intents[target[r]].status # "absent"
                /\ owner[r] = payment_intents[target[r]].user
            BY <1>2, <3>2, <4>4 DEF Inv, TypeOK, StageOK, HandlerOK, Exists
          <5>2. payment_intents' = [payment_intents EXCEPT ![target[r]].status = "paid"]
            BY <1>2, <2>3, <5>1 DEF Inv, TypeOK, Commit, CommittedIntents
          <5>3. Ledger!SubscribePaid(target[r], added[r])
            BY <4>2, <5>1, <5>2 DEF Ledger!SubscribePaid
          <5> QED
            BY <4>1, <5>1, <5>3 DEF Ledger!LNext
        <4> QED
          BY <4>3, <4>4
      <3> QED
        BY <3>1, <3>2
    <2> QED
      BY <1>2, <2>1, <2>2, <2>3, TableWrites
  <1> QED
    BY <1>1, <1>2, Invariance, PTL DEF Spec, ImplementsLedger, Ledger!LSpec

-----------------------------------------------------------------------------
(***************************************************************************)
(* What the callbacks on the network say.  One of a gateway that signs and *)
(* that reads as paid was sent when the money was taken and, if it carries *)
(* an amount, carries the amount taken.                                    *)
(***************************************************************************)
CallbackOK(m) ==
    /\ Exists(m.ref)
    /\ Signed(m.ref) /\ ParseStatus(payment_intents[m.ref].provider, m.code) = "paid" =>
         LET a == ParseAmount(payment_intents[m.ref].provider, m.amount)
         IN  /\ taken[m.ref] > 0
             /\ a = taken[m.ref] \/ (a = Absent /\ taken[m.ref] = payment_intents[m.ref].amount)

GatewayOK ==
    /\ \A i \in Intents : Exists(i) => payment_intents[i].amount > 0
    /\ \A m \in net : CallbackOK(m)

\* Every adapter reads the amount it sent as the amount it was given.
LEMMA AmountRoundTrip ==
    ASSUME NEW p \in Providers, NEW n \in Nat
    PROVE  ParseAmount(p, SentAmount(p, n)) = n
  <1>1. get_gateway(p).unit # "paisas" => ~get_gateway(p).wholeOnly
    BY Zenon DEF get_gateway, Providers, RedirectProviders, Adapter, JazzCash, Easypaisa, Meezan,
                 AlliedPayFast, Safepay, NayaPay, Manual
  <1> QED
    BY <1>1 DEF ParseAmount, SentAmount, Digits, Decimal2

\* No code that means failure, cancelation or waiting means success as well.
LEMMA CodesDiffer ==
    ASSUME NEW p \in Providers, NEW code \in CanceledCodes(p) \cup PendingCodes(p) \cup {"declined"}
    PROVE  code \notin PaidCodes(p)
  BY Zenon DEF CanceledCodes, PendingCodes, PaidCodes, get_gateway, Providers, RedirectProviders,
               Adapter, JazzCash, Easypaisa, Meezan, AlliedPayFast, Safepay, NayaPay, Manual

\* What is billed stays billed, what is taken or sent stays so.
LEMMA PaymentsStay ==
    ASSUME Inv, [Next]_vars, NEW i \in Intents, Exists(i)
    PROVE  /\ Exists(i)' /\ net \subseteq net'
           /\ payment_intents'[i].amount = payment_intents[i].amount
           /\ payment_intents'[i].provider = payment_intents[i].provider
           /\ taken[i] > 0 => taken'[i] = taken[i]
  <1>1. /\ Exists(i)'
        /\ payment_intents'[i].amount = payment_intents[i].amount
        /\ payment_intents'[i].provider = payment_intents[i].provider
    <2>1. CASE \E r \in Requests : Commit(r)
      BY <2>1, CommitIntents DEF Exists, Inv, TypeOK
    <2>2. CASE payment_intents' = payment_intents
      BY <2>2 DEF Exists
    <2>3. CASE \E u \in Users, j \in Intents, p \in UsedProviders, plan \in Plans, c \in UsedCycles :
                 Checkout(u, j, p, plan, c)
      BY <2>3 DEF Checkout, Exists, Inv, TypeOK
    <2> QED
      BY <2>1, <2>2, <2>3, TableWrites
  <1>2. net \subseteq net' /\ (taken[i] > 0 => taken'[i] = taken[i])
    <2>1. CASE UNCHANGED <<net, taken>>
      BY <2>1
    <2>2. CASE \E j \in Intents, code \in Codes : AttemptFails(j, code)
      BY <2>2 DEF AttemptFails
    <2>4. ASSUME NEW j \in Intents, NEW paisas, NEW a, ReportTransfer(j, paisas, a)
          PROVE  net \subseteq net' /\ (taken[i] > 0 => taken'[i] = taken[i])
      BY <2>4 DEF ReportTransfer
    <2>3. ASSUME NEW j \in Intents, NEW code, NEW paisas, NEW a, TakeMoney(j, code, paisas, a)
          PROVE  net \subseteq net' /\ (taken[i] > 0 => taken'[i] = taken[i])
      <3>1. taken \in [Intents -> Nat] /\ taken[j] = 0
        BY <2>3 DEF TakeMoney, Inv, TypeOK
      <3> QED
        BY <2>3, <3>1 DEF TakeMoney
    <2> QED
      BY <2>1, <2>2, <2>3, <2>4 DEF Next, vars, Step, gateway, Checkout, gateway_callback, confirm_payment,
         sandbox_confirm, subscribe_free, SelectSubs, UpdateSubs, InsertSub, InsertConflict,
         UpdateIntent, Commit, Crash
  <1> QED
    BY <1>1, <1>2

\* A callback that is new tells what the gateway has just done.
LEMMA NewCallback ==
    ASSUME Inv, GatewayOK, NEW i \in Intents, NEW code, NEW paisas, NEW a,
           AttemptFails(i, code) \/ ReportTransfer(i, paisas, a) \/ TakeMoney(i, code, paisas, a),
           NEW m \in net', m \notin net
    PROVE  CallbackOK(m)'
  <1> USE ConstantsAssumption
  <1>1. UNCHANGED payment_intents
    BY DEF AttemptFails, ReportTransfer, TakeMoney, tables
  <1>2. Exists(i) /\ payment_intents[i].provider \in Providers
    BY DEF AttemptFails, ReportTransfer, TakeMoney, Inv, TypeOK
  <1>5. CASE ReportTransfer(i, paisas, a)
    <2>1. m.ref = i /\ ~Signed(i)
      <3>1. net' = net \cup {Callback(i, "received", a)} /\ payment_intents[i].provider = "manual"
        BY <1>5, Zenon DEF ReportTransfer
      <3>2. m = Callback(i, "received", a)
        BY <3>1
      <3> QED
        BY <3>1, <3>2 DEF Callback, Signed, RedirectProviders
    <2> QED
      BY <1>1, <1>2, <2>1, Zenon DEF CallbackOK, Exists, Signed
  <1>3. CASE AttemptFails(i, code)
    <2>1. m.ref = i /\ m.code = code
      BY <1>3 DEF AttemptFails, Callback
    <2>2. ParseStatus(payment_intents[i].provider, code) # "paid"
      BY <1>2, <1>3, CodesDiffer, Zenon DEF AttemptFails, ParseStatus
    <2> QED
      BY <1>1, <1>2, <2>1, <2>2 DEF CallbackOK, Exists
  <1>4. CASE TakeMoney(i, code, paisas, a)
    <2>1. m.ref = i /\ m.code = code /\ m.amount = a
      BY <1>4 DEF TakeMoney, Callback
    <2>2. taken'[i] = paisas /\ paisas \in Nat /\ paisas > 0
      BY <1>2, <1>4 DEF TakeMoney, Inv, TypeOK, GatewayOK
    <2>3. \/ ParseAmount(payment_intents[i].provider, a) = paisas
          \/ ParseAmount(payment_intents[i].provider, a) = Absent /\ paisas = payment_intents[i].amount
      BY <1>2, <1>4, <2>2, AmountRoundTrip DEF TakeMoney, ParseAmount, NoAmount
    <2> QED
      BY <1>1, <1>2, <2>1, <2>2, <2>3 DEF CallbackOK, Exists
  <1> QED
    BY <1>3, <1>4, <1>5

LEMMA NextGateway == Inv /\ GatewayOK /\ [Next]_vars => GatewayOK'
  <1> SUFFICES ASSUME Inv, GatewayOK, [Next]_vars PROVE GatewayOK'
    OBVIOUS
  <1>1. ASSUME NEW i \in Intents, Exists(i)' PROVE payment_intents'[i].amount > 0
    <2>1. CASE Exists(i)
      BY <2>1, PaymentsStay DEF GatewayOK
    <2>2. CASE ~Exists(i)
      <3>1. CASE \E r \in Requests : Commit(r)
        BY <1>1, <2>2, <3>1, CommitIntents, ConstantsAssumption DEF Exists, Inv, HandlerOK
      <3>2. CASE payment_intents' = payment_intents
        BY <1>1, <2>2, <3>2 DEF Exists
      <3>3. CASE \E u \in Users, j \in Intents, p \in UsedProviders, plan \in Plans, c \in UsedCycles :
                   Checkout(u, j, p, plan, c)
        BY <1>1, <2>2, <3>3 DEF Checkout, Exists, Inv, TypeOK
      <3> QED
        BY <3>1, <3>2, <3>3, TableWrites
    <2> QED
      BY <2>1, <2>2
  <1>2. ASSUME NEW m \in net PROVE CallbackOK(m)'
    <2>1. m.ref \in Intents /\ CallbackOK(m) /\ taken[m.ref] \in Nat
      BY DEF Inv, TypeOK, GatewayOK
    <2> QED
      BY <2>1, PaymentsStay DEF CallbackOK, Signed
  <1>3. ASSUME NEW m \in net', m \notin net PROVE CallbackOK(m)'
    <2>1. ~UNCHANGED net
      BY <1>3
    <2>2. CASE \E i \in Intents, code \in Codes : AttemptFails(i, code)
      BY <1>3, <2>2, NewCallback
    <2>3. CASE \E i \in Intents, code \in Codes :
                 /\ Exists(i)
                 /\ \E paisas \in {payment_intents[i].amount, ShortAmount} :
                      \E a \in {NoAmount, SentAmount(payment_intents[i].provider, paisas)} :
                        ReportTransfer(i, paisas, a) \/ TakeMoney(i, code, paisas, a)
      BY <1>3, <2>3, NewCallback
    <2> QED
      BY <2>1, <2>2, <2>3 DEF Next, vars, Step, gateway, Checkout, gateway_callback, confirm_payment,
         sandbox_confirm, subscribe_free, SelectSubs, UpdateSubs, InsertSub, InsertConflict,
         UpdateIntent, Commit, Crash
  <1> QED
    BY <1>1, <1>2, <1>3 DEF GatewayOK

LEMMA GatewayInvariance == Spec => []GatewayOK
  <1>1. Init => GatewayOK
    BY DEF Init, GatewayOK, Exists, NoIntent
  <1> QED
    BY <1>1, NextGateway, Invariance, PTL DEF Spec

\* A status to write comes from the handler's own decision on a callback.
LEMMA WriteDecided ==
    ASSUME Inv, [Next]_vars, NEW q \in Requests, write'[q] # "keep"
    PROVE  \/ write'[q] = write[q] /\ target'[q] = target[q]
           \/ \E m \in net : gateway_callback(q, m)
           \/ \E i \in Intents : sandbox_confirm(q, i)
  <1>1. ASSUME NEW r \in Requests, End(r) PROVE write'[q] = write[q] /\ target'[q] = target[q]
    <2>1. q # r
      BY <1>1 DEF End, Inv, TypeOK
    <2> QED
      BY <1>1, <2>1 DEF End, Inv, TypeOK
  <1>2. ASSUME NEW r \in Requests, NEW i, NEW result, confirm_payment(r, i, result), r # q
        PROVE  write'[q] = write[q] /\ target'[q] = target[q]
    BY <1>2 DEF confirm_payment, Inv, TypeOK
  <1>3. ASSUME NEW r \in Requests, Step(r) \/ Crash(r)
        PROVE  write'[q] = write[q] /\ target'[q] = target[q]
    BY <1>1, <1>3 DEF Step, SelectSubs, UpdateSubs, InsertSub, InsertConflict, UpdateIntent, Commit, Crash
  <1>4. ASSUME NEW r \in Requests, NEW m \in net, gateway_callback(r, m), r # q
        PROVE  write'[q] = write[q] /\ target'[q] = target[q]
    BY <1>2, <1>4 DEF gateway_callback
  <1>5. ASSUME NEW r \in Requests, NEW i \in Intents, sandbox_confirm(r, i), r # q
        PROVE  write'[q] = write[q] /\ target'[q] = target[q]
    BY <1>2, <1>5 DEF sandbox_confirm
  <1> QED
    BY <1>3, <1>4, <1>5 DEF Next, vars, handler, Checkout, AttemptFails, ReportTransfer, TakeMoney,
       subscribe_free

-----------------------------------------------------------------------------
(***************************************************************************)
(* The money argument.  A handler about to store "paid" for a gateway that *)
(* signs has compared the amount taken with the price.                     *)
(***************************************************************************)
FullyTaken(i) == Signed(i) => taken[i] > 0 /\ taken[i] - payment_intents[i].amount \in -1 .. 1

MoneyInv ==
    /\ \A r \in Requests : write[r] = "paid" => FullyTaken(target[r])
    /\ \A i \in Intents : PaidBy(i) # {} => FullyTaken(i)

\* A handler decides to store "paid" only when the price has been taken.
LEMMA CallbackMoney ==
    ASSUME Inv, GatewayOK, NEW r \in Requests, NEW m \in net, gateway_callback(r, m), write'[r] = "paid"
    PROVE  FullyTaken(target[r])'
  <1> DEFINE p == payment_intents[m.ref].provider
             result == verify_callback(p, m.code, m.amount)
  <1>1. confirm_payment(r, m.ref, result) /\ m.ref \in Intents
    BY DEF gateway_callback, Inv, TypeOK
  <1>2. UNCHANGED <<payment_intents, taken>> /\ target'[r] = m.ref
    BY <1>1 DEF confirm_payment, tables, gateway, Inv, TypeOK
  <1>3. NewStatus(m.ref, result) = "paid" /\ payment_intents[m.ref].status # "paid"
    BY <1>1 DEF confirm_payment, Inv, TypeOK
  <1>4. result.status = "paid" /\ AmountMatches(m.ref, result.amount)
    BY <1>3, Zenon DEF NewStatus
  <1>5. /\ ParseStatus(p, m.code) = "paid"
        /\ AmountMatches(m.ref, ParseAmount(p, m.amount))
    BY <1>4 DEF verify_callback
  <1> SUFFICES ASSUME Signed(m.ref)
               PROVE  taken[m.ref] > 0 /\ taken[m.ref] - payment_intents[m.ref].amount \in -1 .. 1
    BY <1>2 DEF FullyTaken, Signed
  <1>6. /\ taken[m.ref] > 0
        /\ \/ ParseAmount(p, m.amount) = taken[m.ref]
           \/ taken[m.ref] = payment_intents[m.ref].amount
    BY <1>5 DEF GatewayOK, CallbackOK
  <1>7. taken[m.ref] \in Nat /\ payment_intents[m.ref].amount \in Nat
    BY <1>1 DEF Inv, TypeOK
  <1>8. taken[m.ref] - payment_intents[m.ref].amount \in -1 .. 1
    BY <1>5, <1>6, <1>7 DEF AmountMatches, Absent
  <1> QED
    BY <1>6, <1>8

\* A commit activates only what its handler was about to store as paid.
LEMMA CommitMoney ==
    ASSUME Inv, MoneyInv, NEW r \in Requests, Commit(r), NEW i \in Intents, NEW s \in PaidBy(i)'
    PROVE  FullyTaken(i)
  <1>1. CASE s = added[r]
    <2>1. s \in SubIds /\ i = target[r]
      BY <1>1, CommitRows DEF PaidBy, Rows
    <2>2. write[r] = "paid"
      BY <1>1, <2>1, ConstantsAssumption DEF Inv, StageOK
    <2> QED
      BY <2>1, <2>2 DEF MoneyInv
  <1>2. CASE s # added[r]
    <2>1. /\ s \in SubIds /\ user_subscriptions'[s].status # "absent"
          /\ user_subscriptions'[s].source = i
      BY DEF PaidBy, Rows
    <2>2. user_subscriptions[s].status # "absent" /\ user_subscriptions[s].source = i
      BY <1>2, <2>1, CommitRows DEF Inv, ExistingOK
    <2>3. s \in PaidBy(i)
      BY <2>1, <2>2 DEF PaidBy, Rows
    <2> QED
      BY <2>3 DEF MoneyInv
  <1> QED
    BY <1>1, <1>2

(***************************************************************************)
(* In production no payment through a gateway that signs its callbacks is  *)
(* ever activated unless the gateway took the amount billed, to within a   *)
(* paisa.                                                                  *)
(***************************************************************************)
THEOREM NoActivationWithoutMoney == Spec => []ActivatedOnlyWhenPaid
  <1> DEFINE MInv == Production => MoneyInv
  <1>1. Init => MInv
    BY DEF Init, MoneyInv, NoSub, PaidBy, Rows
  <1>2. ASSUME Inv, GatewayOK, MInv, [Next]_vars PROVE MInv'
    <2> SUFFICES ASSUME Production, MoneyInv PROVE MoneyInv'
      BY <1>2
    <2>1. ASSUME NEW i \in Intents, Exists(i), FullyTaken(i) PROVE FullyTaken(i)'
      BY <1>2, <2>1, PaymentsStay DEF FullyTaken, Signed
    <2>2. ASSUME NEW r \in Requests, write'[r] = "paid" PROVE FullyTaken(target[r])'
      <3>1. CASE write'[r] = write[r] /\ target'[r] = target[r]
        <4>1. target[r] \in Intents /\ Exists(target[r]) /\ FullyTaken(target[r])
          BY <1>2, <2>2, <3>1 DEF Inv, TypeOK, StageOK, HandlerOK, MoneyInv
        <4> QED
          BY <2>1, <3>1, <4>1 DEF FullyTaken, Signed
      <3>2. CASE \E m \in net : gateway_callback(r, m)
        BY <1>2, <2>2, <3>2, CallbackMoney
      <3>3. ~ \E i \in Intents : sandbox_confirm(r, i)
        BY DEF sandbox_confirm
      <3> QED
        BY <1>2, <2>2, <3>1, <3>2, <3>3, WriteDecided
    <2>3. ASSUME NEW i \in Intents, PaidBy(i)' # {} PROVE FullyTaken(i)'
      <3>1. Exists(i) /\ FullyTaken(i)
        <4>1. CASE \E r \in Requests : Commit(r)
          <5>1. PICK r \in Requests : Commit(r)
            BY <4>1
          <5>2. FullyTaken(i)
            BY <1>2, <2>3, <5>1, CommitMoney
          <5>3. Exists(i)'
            BY <1>2, <2>3, NextInv DEF Inv, SourcesExist
          <5>4. Exists(i)
            BY <1>2, <5>1, <5>3, CommitIntents, ConstantsAssumption DEF Exists, Inv, HandlerOK
          <5> QED
            BY <5>2, <5>4
        <4>2. CASE user_subscriptions' = user_subscriptions
          <5>1. PaidBy(i) # {}
            BY <2>3, <4>2 DEF PaidBy, Rows
          <5> QED
            BY <1>2, <5>1 DEF MoneyInv, Inv, SourcesExist
        <4> QED
          BY <1>2, <4>1, <4>2, TableWrites
      <3> QED
        BY <2>1, <3>1
    <2> QED
      BY <2>2, <2>3 DEF MoneyInv
  <1>3. MInv => ActivatedOnlyWhenPaid
    BY DEF MoneyInv, FullyTaken, ActivatedOnlyWhenPaid
  <1> QED
    BY <1>1, <1>2, <1>3, Invariance, GatewayInvariance, PTL DEF Spec

-----------------------------------------------------------------------------
(***************************************************************************)
(* The cause argument.  Why a handler is about to store "failed" stays     *)
(* true until it commits, and after.                                       *)
(***************************************************************************)
Cause(i) ==
    \/ taken[i] > 0 /\ taken[i] - payment_intents[i].amount \notin -1 .. 1
    \/ \E m \in net : /\ m.ref = i
                      /\ ParseStatus(payment_intents[i].provider, m.code) = "failed" \/ OtherTransfer(i, m)

CauseInv ==
    /\ \A r \in Requests : write[r] = "failed" => Cause(target[r])
    /\ \A i \in Intents : payment_intents[i].status = "failed" => Cause(i)

\* A handler decides to store "failed" on a failure, or on another amount.
LEMMA CallbackCause ==
    ASSUME Inv, GatewayOK, NEW r \in Requests, NEW m \in net, gateway_callback(r, m), write'[r] = "failed"
    PROVE  Cause(target[r])'
  <1> DEFINE p == payment_intents[m.ref].provider
             a == ParseAmount(p, m.amount)
             result == verify_callback(p, m.code, m.amount)
  <1>1. confirm_payment(r, m.ref, result) /\ m.ref \in Intents
    BY DEF gateway_callback, Inv, TypeOK
  <1>2. UNCHANGED <<payment_intents, net, taken>> /\ target'[r] = m.ref
    BY <1>1 DEF confirm_payment, tables, gateway, Inv, TypeOK
  <1>3. NewStatus(m.ref, result) = "failed"
    BY <1>1 DEF confirm_payment, Inv, TypeOK
  <1>4. result.status = ParseStatus(p, m.code) /\ result.amount = a
    BY DEF verify_callback
  <1>5. ParseStatus(p, m.code) \in {"paid", "canceled", "pending", "failed"}
    BY DEF ParseStatus
  <1>6. \/ ParseStatus(p, m.code) = "failed"
        \/ ParseStatus(p, m.code) = "paid" /\ ~AmountMatches(m.ref, a)
    <2> HIDE DEF p, a, result
    <2> QED
      BY <1>3, <1>4, <1>5, Zenon DEF NewStatus
  <1>7. CASE ParseStatus(p, m.code) = "failed"
    BY <1>2, <1>7 DEF Cause
  <1>8. CASE ParseStatus(p, m.code) = "paid" /\ ~AmountMatches(m.ref, a) /\ Signed(m.ref)
    <2>1. taken[m.ref] \in Nat /\ payment_intents[m.ref].amount \in Nat
      BY <1>1 DEF Inv, TypeOK
    <2>2. taken[m.ref] > 0 /\ (a = taken[m.ref] \/ a = Absent)
      BY <1>8 DEF GatewayOK, CallbackOK
    <2>3. a = taken[m.ref]
      BY <1>8, <2>2 DEF AmountMatches
    <2> HIDE DEF a
    <2>4. taken[m.ref] - payment_intents[m.ref].amount \notin -1 .. 1
      BY <1>8, <2>1, <2>3 DEF AmountMatches
    <2> QED
      BY <1>2, <2>2, <2>4 DEF Cause
  <1>9. CASE ~AmountMatches(m.ref, a) /\ ~Signed(m.ref)
    <2> DEFINE n == payment_intents[m.ref].amount
    <2>1. n \in Nat /\ p \in Providers
      BY <1>1 DEF Inv, TypeOK
    <2>2. ParseAmount(p, SentAmount(p, n)) = n /\ ParseAmount(p, NoAmount) = Absent
      BY <2>1, AmountRoundTrip DEF ParseAmount, NoAmount
    <2>3. AmountMatches(m.ref, n) /\ AmountMatches(m.ref, Absent)
      BY <2>1 DEF AmountMatches
    <2>4. OtherTransfer(m.ref, m)
      BY <1>9, <2>2, <2>3 DEF OtherTransfer
    <2>5. OtherTransfer(m.ref, m)'
      BY <1>2, <2>4 DEF OtherTransfer, Signed
    <2> QED
      BY <1>2, <2>5 DEF Cause
  <1> QED
    BY <1>6, <1>7, <1>8, <1>9

\* The payload of sandbox_confirm is read as a full payment by every adapter.
LEMMA SandboxPays ==
    ASSUME Inv, NEW r \in Requests, NEW i \in Intents, sandbox_confirm(r, i)
    PROVE  write'[r] # "failed"
  <1> DEFINE p == payment_intents[i].provider
             n == payment_intents[i].amount
             result == verify_callback(p, SandboxCode(p), SentAmount(p, n))
  <1>1. confirm_payment(r, i, result) /\ p \in Providers /\ n \in Nat
    BY DEF sandbox_confirm, Inv, TypeOK
  <1>2. ParseStatus(p, SandboxCode(p)) = "paid"
    <2> HIDE DEF p
    <2> QED
      BY <1>1 DEF ParseStatus, SandboxCode, PaidCodes, get_gateway, Providers, RedirectProviders,
                  Adapter, JazzCash, Easypaisa, Meezan, AlliedPayFast, Safepay, NayaPay, Manual
  <1>3. result.status = "paid" /\ result.amount = n
    BY <1>1, <1>2, AmountRoundTrip DEF verify_callback
  <1>4. AmountMatches(i, result.amount)
    BY <1>1, <1>3 DEF AmountMatches
  <1>5. NewStatus(i, result) = "paid"
    BY <1>3, <1>4, Zenon DEF NewStatus
  <1> QED
    BY <1>1, <1>5 DEF confirm_payment, Inv, TypeOK

(***************************************************************************)
(* No intent is ever recorded as failed without a failed attempt reported  *)
(* for it, or another amount taken or reported than the one billed.        *)
(***************************************************************************)
THEOREM FailuresHaveCauses == Spec => []FailedHasCause
  <1>1. Init => CauseInv
    BY DEF Init, CauseInv, NoIntent
  <1>2. ASSUME Inv, GatewayOK, CauseInv, [Next]_vars PROVE CauseInv'
    <2>1. ASSUME NEW i \in Intents, Exists(i), Cause(i) PROVE Cause(i)'
      BY <1>2, <2>1, PaymentsStay DEF Cause, OtherTransfer, Signed
    <2>2. ASSUME NEW r \in Requests, write'[r] = "failed" PROVE Cause(target[r])'
      <3>1. CASE write'[r] = write[r] /\ target'[r] = target[r]
        <4>1. target[r] \in Intents /\ Exists(target[r]) /\ Cause(target[r])
          BY <1>2, <2>2, <3>1 DEF Inv, TypeOK, StageOK, HandlerOK, CauseInv
        <4> QED
          BY <2>1, <3>1, <4>1 DEF Cause, OtherTransfer, Signed
      <3> QED
        BY <1>2, <2>2, <3>1, WriteDecided, CallbackCause, SandboxPays
    <2>3. ASSUME NEW i \in Intents, payment_intents'[i].status = "failed" PROVE Cause(i)'
      <3>1. Exists(i) /\ Cause(i)
        <4>1. CASE \E r \in Requests : Commit(r)
          <5>1. PICK r \in Requests : Commit(r)
            BY <4>1
          <5>2. \/ payment_intents[i].status = "failed"
                \/ i = target[r] /\ write[r] = "failed"
            BY <1>2, <2>3, <5>1, CommitIntents
          <5> QED
            BY <1>2, <5>2 DEF CauseInv, Exists, Inv, HandlerOK, StageOK
        <4>2. CASE payment_intents' = payment_intents
          BY <1>2, <2>3, <4>2 DEF CauseInv, Exists
        <4>3. CASE \E u \in Users, j \in Intents, p \in UsedProviders, plan \in Plans, c \in UsedCycles :
                     Checkout(u, j, p, plan, c)
          BY <1>2, <2>3, <4>3 DEF Checkout, CauseInv, Exists, Inv, TypeOK
        <4> QED
          BY <1>2, <4>1, <4>2, <4>3, TableWrites
      <3> QED
        BY <2>1, <3>1
    <2> QED
      BY <2>2, <2>3 DEF CauseInv
  <1>3. CauseInv => FailedHasCause
    BY DEF CauseInv, Cause, FailedHasCause
  <1> QED
    BY <1>1, <1>2, <1>3, Invariance, GatewayInvariance, PTL DEF Spec
====
