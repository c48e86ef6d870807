\* One trade at a time, of every type (rights are recorded like a bonus), dated in any order, on both sides of the 2024 change of law.
CONSTANTS
    Requests = {r1}
    MaxTrades = 3
    Kinds = {"buy", "bonus", "sell", "dividend"}
    Quantities = {1, 2}
    Prices = {0, 202}
    Days = {730, 731}
    Filer = TRUE
    Paisa = 4
SPECIFICATION Spec
INVARIANTS NoOversell SnapshotFresh OpenQuantity Reconciles TaxReportsAgree
CHECK_DEADLOCK FALSE
