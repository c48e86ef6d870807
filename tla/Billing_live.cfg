\* No symmetry: liveness. Each of two payments can be activated twice at most, so four rows suffice.
CONSTANTS
    Users = {u1}
    Intents = {i1, i2}
    SubIds = {s1, s2, s3, s4}
    Requests = {r1, r2}
    Plans = {pro}
    UsedProviders = {"safepay"}
    UsedCycles = {"monthly"}
    Codes = {"paid"}
    ShortAmount = 50000
    Production = TRUE
    FreeLimit = 0
    Monthly <- MCMonthly
    Annual <- MCAnnual
    Free = Free
    Nobody = Nobody
SPECIFICATION FairSpec
PROPERTIES HandlersEnd MoneyActivates
