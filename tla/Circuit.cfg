SPECIFICATION FairSpec
CONSTANTS
    Callers = {c1, c2, c3}
    Attempts = 3
    FailureThreshold = 3
    SuccessThreshold = 2
    MaxProbes = 2
INVARIANTS ProbesConserved CountersFresh
PROPERTIES OpenUntilTimeout ClosesAfterOutage
