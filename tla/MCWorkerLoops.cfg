CONSTANTS
    b1 = b1
    b2 = b2
    r1 = r1
    x1 = x1
    NumWallets = 2
    NumTrades = 2
    Undated <- MCUndated
    Activities <- MCActivities
    Rewards <- MCRewards
    Balances <- MCBalances
    Window = 1
    Limit = 1
    MaxDay = 1
    MaxEvents = 2
    MaxOutages = 1
    Followed <- MCFollowed
    Served <- MCServed
    Never = Never
    Zero = Zero
SPECIFICATION FairSpec
INVARIANTS
    RealizedOfLastSum
PROPERTIES
    HistoryIsKept
    ColumnsConverge
