CONSTANTS
    Threads = {t1, t2}
    Sasl = FALSE
    MayClose = FALSE
    MaxConnects = 1
    MaxCalls = 2
    MaxFaults = 1
SPECIFICATION FairSpec
PROPERTY CallReturns
