CONSTANTS
    a1 = a1
    a2 = a2
    p1 = p1
    h1 = h1
    Served <- MCLastWallet
    NoRow = NoRow
    Partial = Partial
    NumWallets = 2
    Assets <- MCAssets
    Shares <- MCShares
    Portfolios <- MCPortfolios
    Threshold = 2
    Limit = 1
    Prices <- MCOnePrice
    Handlers <- MCOneHandler
    MaxRetries = 1
    MaxTrades = 1
    MaxOutages = 1
SPECIFICATION FairSpec
INVARIANTS
    RowsOfLastSync
    ExposureOfLastSync
PROPERTIES
    TablesConverge
