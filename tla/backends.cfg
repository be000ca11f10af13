SPECIFICATION Spec
CONSTANTS
    Strk = Strk
    Other = Other
    Fees <- SmallFees
    FeeTimes = 2
    Amounts <- SmallAmounts
    Genesis = 2
    L1Data = 2
    MinL2 = 3
    MaxL2 = 5
    Balances <- SmallBalances
    Prices <- SmallPrices
    MaxCalls = 2
INVARIANTS
    LandsOnce
    FeeCovered
    CeilingBacked
PROPERTIES
    Promise
    Settles
CHECK_DEADLOCK FALSE
