CONSTANTS
    MaxDay = 4
    Values <- MCValues
    WindowOf <- MCWindowOf
    All = All
    Null = Null
    NoRow = NoRow
SPECIFICATION Spec
INVARIANTS
    TypeOK
    AnswerIsTheHistory
PROPERTIES
    LaterDaysKeepThePast
