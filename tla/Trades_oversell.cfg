\* Two sells of the same lot overlap.
CONSTANTS
    Requests = {r1, r2}
    MaxTrades = 3
    Kinds = {"buy", "sell"}
    Quantities = {1}
    Prices = {100}
    Days = {731}
    Filer = TRUE
    Paisa = 4
SYMMETRY Symmetry
SPECIFICATION Spec
INVARIANTS NoOversell
CHECK_DEADLOCK FALSE
