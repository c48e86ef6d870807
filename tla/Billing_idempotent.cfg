\* A callback of a failed attempt overlaps the successful one.
CONSTANTS
    Users = {u1}
    Intents = {i1}
    SubIds = {s1, s2, s3}
    Requests = {r1, r2}
    Plans = {pro}
    UsedProviders = {"safepay"}
    UsedCycles = {"monthly"}
    Codes = {"paid", "declined"}
    ShortAmount = 50000
    Production = TRUE
    FreeLimit = 0
    Monthly <- MCMonthly
    Annual <- MCAnnual
    Free = Free
    Nobody = Nobody
SYMMETRY Symmetry
SPECIFICATION Spec
PROPERTIES PaidIsIdempotent
