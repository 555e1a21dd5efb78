SPECIFICATION Spec
CONSTANTS
    Symbols <- MCSymbols
    CountryOf <- MCCountryOf
    Share = 2
    Whole = 10
    Band = 1
    Limit <- MCLimit
    Gross = 8
    Sleeves = 2
    Budget <- MCBudget
    Tolerance = 1
    Answers <- MCAnswers
    Prices <- MCPrices
    Fees <- MCFees
    Dollars <- MCDollars
    StartCash = 6
    StartHeld <- MCStartHeld
    MaxCycles = 2
INVARIANTS TypeOK LimitsHold BuysFunded NoChurn
CHECK_DEADLOCK FALSE
