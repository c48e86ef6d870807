\* Every gateway and every kind of response code, both billing cycles; outside production,
\* so that sandbox confirmations meet the real callbacks.
CONSTANTS
    Users = {u1}
    Intents = {i1}
    SubIds = {s1, s2, s3}
    Requests = {r1, r2}
    Plans = {pro}
    UsedProviders = {"jazzcash", "easypaisa", "meezan", "allied_payfast", "safepay", "nayapay", "manual"}
    UsedCycles = {"monthly", "annual"}
    Codes = {"000", "0000", "00", "paid", "completed", "declined", "cancelled", "pending"}
    ShortAmount = 50000
    Production = FALSE
    FreeLimit = 1
    Monthly <- MCMonthly
    Annual <- MCAnnual
    Free = Free
    Nobody = Nobody
SYMMETRY Symmetry
SPECIFICATION Spec
INVARIANTS TypeOK FailedHasCause
