CONSTANTS
    Threads = {t1, t2}
    Sasl = TRUE
    MayClose = TRUE
    MaxConnects = 2
    MaxCalls = 2
    MaxFaults = 2
SPECIFICATION Spec
SYMMETRY CallerSymmetry
INVARIANTS
    PendingIsCurrent
    SentOnce
    SuccessIsExecuted
