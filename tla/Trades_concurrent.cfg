\* Two handlers.
CONSTANTS
    Requests = {r1, r2}
    MaxTrades = 3
    Kinds = {"buy", "sell", "dividend"}
    Quantities = {1}
    Prices = {100, 203}
    Days = {731}
    Filer = TRUE
    Paisa = 4
SYMMETRY Symmetry
SPECIFICATION Spec
INVARIANTS SnapshotBacked
PROPERTIES SelfHeals
CHECK_DEADLOCK FALSE
