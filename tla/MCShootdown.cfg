SPECIFICATION FairSpec
CONSTANTS
    N = 3
    Page = {p}
    BootActive = {0, 1, 2}
    Caller = {0, 1}
    Masked = {0}
    Ops = {"shootdown", "empty_all"}
    MaxCalls = 2
INVARIANTS
    AckAccounting
    StateOutlivesNodes
PROPERTIES
    CallReturns
