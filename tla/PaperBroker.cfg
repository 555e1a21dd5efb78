SPECIFICATION Spec
CONSTANTS
    p1 = p1
    p2 = p2
    Processes <- MCProcesses
    Symbols <- MCSymbols
    CountryOf <- MCCountryOf
    Etfs = {}
    Share = 2
    Prices = {1, 2}
    Rates = {2}
    MaxQuantity = 3
    Amounts = {8}
    Den = 10
    Commission <- MCRates
    Slippage <- MCRates
    StockTax = 1
    EtfTax = 0
    SecFee = 1
    TafPerShare = 1
    TafCap = 2
    FxSpread = 1
    ChargeFx = TRUE
    MaxOrders = 3
    MaxStarts = 3
SYMMETRY Symmetric
INVARIANTS TypeOK NoDebt WholeShares FillsExplainAccount
PROPERTIES AccountUntilClash
CHECK_DEADLOCK FALSE
