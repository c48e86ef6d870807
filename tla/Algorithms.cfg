\* Three lots with days on both sides of each bracket's edge and of the 2024
\* change; five bars; every other algorithm over its inputs.
CONSTANTS
    MaxLots = 3
    Quantities = {1, 3}
    Prices = {1052, 2114}
    Paisa = 4
    BuyDays <- MCBuyDays
    SellDays = {365, 366, 730, 731}
    BarChoices <- MCBars
    NumBars = 5
    WarmupCap = 1
    MinBars = 3
    Capital = 10
    Commission <- MCCommission
    Builtin = {"sma_crossover", "rsi_oversold", "macd_signal", "bollinger_revert", "buy_and_hold"}
    Rules <- MCRules
    Iterations = 5
    MaxMonths = 4
    VolumeDays = 20
SPECIFICATION AlgSpec
INVARIANTS FifoExact SplitSell RulesDecide AdjustExact BacktestSound AnswersExact
CHECK_DEADLOCK FALSE
