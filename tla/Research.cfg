SPECIFICATION MCSpec
CONSTANTS
    Symbols <- MCSymbols
    Days = 4
    Histories <- MCHistories
    FirstDay = 2
    PageSize = 1
    MaxBars = 4
    SyncsPerDay = 1
    MaxFailures = 1
    Den = 10
    Commission <- MCCommission
    Slippage <- MCSlippage
    StockTax = 1
    EtfTax = 0
    SecFee = 1
    TafPerShare = 1
    TafCap = 3
    FxSpread = 2
    ChargeFx = TRUE
    Risk <- MCRisk
    Safe <- MCSafe
    Whole = 2
    PriceScale = 6
    SafeLookback = 1
    Lookback = 1
    Floor = 0
    TopN = 2
    SmaDays = 2
    Terms <- MCTerms
    InitialCash = 1200
    Share = 2
    Dust = 1
    Band = 1
    Etfs <- MCEtfs
    Warmup <- MCWarmup
    MonthOf <- MCMonthOf
    YearOf <- MCYearOf
    Studies <- MCStudies
    MaxRuns = 1
INVARIANTS TypeOK NoHoles OnlyNewestIsPartial NoLeverage TradesOnlyCost WholeAccountAtMost NothingUntargeted ResultsAreStable
PROPERTIES SyncCatchesUp
CHECK_DEADLOCK FALSE
