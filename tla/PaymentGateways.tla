--------------------------- MODULE PaymentGateways ---------------------------
(***************************************************************************)
(* The adapters of psx_api/services/payments: what each gateway is sent at *)
(* checkout and how its callback is normalised into a CallbackResult.      *)
(*                                                                         *)
(* Money is counted in paisas.  An amount on the wire is a literal: a      *)
(* string of digits, or a decimal with two places.  Whether digits mean    *)
(* paisas or rupees depends on the adapter, and that is what the           *)
(* conversions below keep.  Signatures are left out: a payload of a        *)
(* redirecting gateway is one whose signature verifies (the others raise   *)
(* GatewayError before the database is touched); the manual adapter checks *)
(* none.                                                                   *)
(***************************************************************************)
EXTENDS Integers

\* Slugs of _REGISTRY; the ones of _PROVIDERS_REQUIRING_CHECKOUT redirect.
RedirectProviders ==
    {"jazzcash", "easypaisa", "meezan", "allied_payfast", "safepay", "nayapay"}
Providers == RedirectProviders \cup {"manual"}

CallbackStatus == {"paid", "failed", "canceled", "pending"}

(***************************************************************************)
(* One adapter each: the unit of the amounts it sends and reads ("rupees"  *)
(* with two places, or "paisas"), whether it reads whole numbers only, and *)
(* the response codes it knows, after lower-casing.  Every other code is a *)
(* failure.                                                                *)
(***************************************************************************)
Adapter(unit, wholeOnly, paid, canceled, pending) ==
    [unit |-> unit, wholeOnly |-> wholeOnly,
     paid |-> paid, canceled |-> canceled, pending |-> pending]

JazzCash == Adapter("paisas", TRUE, {"000"}, {}, {})
Easypaisa == Adapter("rupees", FALSE, {"0000"}, {}, {})
Meezan == Adapter("rupees", FALSE, {"00"}, {}, {})
AlliedPayFast == Adapter("rupees", FALSE, {"00"}, {}, {})
Safepay == Adapter("paisas", FALSE, {"paid", "succeeded", "tracker_paid"},
                   {"canceled", "cancelled", "tracker_canceled"}, {"pending", "tracker_pending"})
NayaPay == Adapter("paisas", TRUE, {"completed"}, {"cancelled"}, {"pending"})
\* The manual adapter looks at no code: ParseStatus.
Manual == Adapter("rupees", FALSE, {}, {}, {})

get_gateway(p) ==
    CASE p = "jazzcash"       -> JazzCash
      [] p = "easypaisa"      -> Easypaisa
      [] p = "meezan"         -> Meezan
      [] p = "allied_payfast" -> AlliedPayFast
      [] p = "safepay"        -> Safepay
      [] p = "nayapay"        -> NayaPay
      [] OTHER                -> Manual

NoAmount == [form |-> "absent", n |-> 0]
Digits(n)  == [form |-> "digits", n |-> n]    \* "90000"
Decimal2(n) == [form |-> "decimal", n |-> n]  \* "900.00" is Decimal2(90000)

(***************************************************************************)
(* create_intent: the amount each adapter puts into its request.           *)
(***************************************************************************)
SentAmount(p, paisas) ==
    IF get_gateway(p).unit = "paisas" THEN Digits(paisas) ELSE Decimal2(paisas)

(***************************************************************************)
(* The amount a callback carries, in paisas.  Absent: the field is         *)
(* missing, and the amount check is skipped.  Unreadable: int() raises a   *)
(* ValueError that no handler catches, so the request ends in a 500.       *)
(***************************************************************************)
Absent == -1
Unreadable == -2

\* Fault: digits are always taken for rupees.
ParseAmountRupees(p, a) ==
    IF a.form = "absent" THEN Absent
    ELSE IF a.form = "digits" THEN 100 * a.n ELSE a.n

ParseAmount(p, a) ==
    IF a.form = "absent" THEN Absent
    ELSE IF a.form = "digits"
    THEN (IF get_gateway(p).unit = "paisas" THEN a.n ELSE 100 * a.n)
    ELSE IF get_gateway(p).wholeOnly THEN Unreadable ELSE a.n

PaidCodes(p) == get_gateway(p).paid
CanceledCodes(p) == get_gateway(p).canceled
PendingCodes(p) == get_gateway(p).pending

\* The manual adapter reports every callback as paid.
ParseStatus(p, code) ==
    IF p = "manual" \/ code \in PaidCodes(p) THEN "paid"
    ELSE IF code \in CanceledCodes(p) THEN "canceled"
    ELSE IF code \in PendingCodes(p) THEN "pending"
    ELSE "failed"

\* The code in the payload that sandbox_confirm makes up for provider p.
SandboxCode(p) ==
    CASE p = "jazzcash"       -> "000"
      [] p = "easypaisa"      -> "0000"
      [] p = "meezan"         -> "00"
      [] p = "allied_payfast" -> "00"
      [] p = "safepay"        -> "paid"
      [] p = "nayapay"        -> "completed"
      [] OTHER                -> ""

\* CallbackResult of provider p for a payload with this code and amount.
verify_callback(p, code, a) ==
    [status |-> ParseStatus(p, code), amount |-> ParseAmount(p, a)]
=============================================================================
