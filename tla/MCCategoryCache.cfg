CONSTANTS
    e1 = e1
    e2 = e2
    Events <- MCEvents
    Calls <- MCCalls
    Categories <- MCCategories
    CategoryOf <- MCCategoryOf
    Concurrency = 2
SPECIFICATION FairSpec
INVARIANTS
    SingleFlight
    InFlightIsOwned
    FailuresNotCached
    EveryEventAnswered
PROPERTIES
    CallsReturn
