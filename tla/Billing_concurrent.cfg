\* Two handlers and two intents of one user.
CONSTANTS
    Users = {u1}
    Intents = {i1, i2}
    SubIds = {s1, s2, s3}
    Requests = {r1, r2}
    Plans = {pro}
    UsedProviders = {"safepay"}
    UsedCycles = {"monthly"}
    Codes = {"paid", "declined"}
    ShortAmount = 50000
    Production = TRUE
    FreeLimit = 1
    Monthly <- MCMonthly
    Annual <- MCAnnual
    Free = Free
    Nobody = Nobody
SYMMETRY Symmetry
SPECIFICATION Spec
INVARIANTS OneActive PaidHasSubscription ActivatedOnlyWhenPaid
PROPERTIES NeverLapses PaidSettles ImplementsLedger
