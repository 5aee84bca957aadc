SPECIFICATION Spec
CONSTANTS
    Servers = {0, 1}
    Threads = {"t1", "t2"}
    MaxHARetry = 0
    MaxChanges = 1
    Names = {1, 2, 3}
    PageSize = 2
    Scenarios <- MCScenarios
CHECK_DEADLOCK FALSE
INVARIANTS
    NothingGoesUnderCall
    DocumentedErrorsArrive
    SuccessIsExactlyOnce
    FailoverFindsActive
    ListingIsExact
PROPERTIES
    CallsAndDestructorEnd
