CONSTANTS
    r1 = r1
    r2 = r2
    r3 = r3
    u1 = u1
    u2 = u2
    lower = lower
    upper = upper
    other = other
    reserved = reserved
    NoName = NoName
    NoOne = NoOne
    Requests <- MCRequests
    Users <- MCUsers
    Known <- MCUsers
    Names <- MCNames
    Canonical <- MCCanonical
    Claimable <- MCClaimable
    MaxStreams = 5
    Calls <- MCRenames
SPECIFICATION Spec
SYMMETRY MCSymmetry
INVARIANTS
    TakenAtWriteIsConflict
CHECK_DEADLOCK FALSE
