CONSTANTS
    t1 = t1
    t2 = t2
    t3 = t3
    t4 = t4
    Trades <- MCTrades
    Undated <- MCUndated
    Profits <- MCProfits
    Limit = 3
    PerPages <- MCPerPages
    Window = 1
    MaxTime = 3
    MaxWrites = 2
    NoRow = NoRow
SPECIFICATION Spec
SYMMETRY MCSymmetry
INVARIANTS
    TypeOK
    NothingSteadyMissed
    QuietPagesAreTheAnswer
CHECK_DEADLOCK FALSE
