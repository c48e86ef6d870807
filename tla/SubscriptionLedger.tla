------------------------- MODULE SubscriptionLedger -------------------------
(***************************************************************************)
(* What BillingService promises of its two tables, whatever the handlers'  *)
(* interleaving: they change as if every handler ran in one step.  A       *)
(* subscription starts in the same step that ends the user's previous one  *)
(* and, when a payment backs it, that marks the payment paid.              *)
(*                                                                         *)
(* The promise is weaker than confirm_payment's docstring: a paid intent   *)
(* may be subscribed again, and its status may be overwritten.  Billing    *)
(* has runs that show the code doing both.                                 *)
(***************************************************************************)
CONSTANTS Users, Intents, SubIds, Free, Nobody

VARIABLES payment_intents, user_subscriptions

lvars == <<payment_intents, user_subscriptions>>

LInit ==
    /\ \A i \in Intents : payment_intents[i].status = "absent"
    /\ \A s \in SubIds : user_subscriptions[s].status = "absent"

\* A checkout adds an intent.
Open(i) ==
    /\ payment_intents[i].status = "absent"
    /\ payment_intents'[i].status \in {"pending", "redirected"}
    /\ payment_intents'[i].user \in Users
    /\ payment_intents' = [payment_intents EXCEPT ![i] = payment_intents'[i]]
    /\ UNCHANGED user_subscriptions

\* A callback that is no payment is recorded on its intent.
Record(i, st) ==
    /\ payment_intents[i].status # "absent"
    /\ payment_intents' = [payment_intents EXCEPT ![i].status = st]
    /\ UNCHANGED user_subscriptions

\* Row s becomes the user's one active subscription.
Replace(u, s, source) ==
    /\ user_subscriptions[s].status = "absent"
    /\ user_subscriptions' = [t \in SubIds |->
         IF t = s THEN [status |-> "active", user |-> u, source |-> source]
         ELSE IF user_subscriptions[t].user = u /\ user_subscriptions[t].status = "active"
         THEN [user_subscriptions[t] EXCEPT !.status = "canceled"]
         ELSE user_subscriptions[t]]

SubscribePaid(i, s) ==
    /\ payment_intents[i].status # "absent"
    /\ payment_intents' = [payment_intents EXCEPT ![i].status = "paid"]
    /\ Replace(payment_intents[i].user, s, i)

SubscribeFree(u, s) ==
    /\ Replace(u, s, Free)
    /\ UNCHANGED payment_intents

LNext ==
    \/ \E i \in Intents : Open(i)
    \/ \E i \in Intents, st \in {"redirected", "failed", "canceled"} : Record(i, st)
    \/ \E i \in Intents, s \in SubIds : SubscribePaid(i, s)
    \/ \E u \in Users, s \in SubIds : SubscribeFree(u, s)

LSpec == LInit /\ [][LNext]_lvars
=============================================================================
