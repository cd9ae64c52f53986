SPECIFICATION Spec
CONSTANTS
    N = 2
    Page = {p}
    BootActive = {0}
    Caller = {0}
    Masked = {}
    Ops = {"shootdown"}
    MaxCalls = 1
INVARIANTS
    StateOutlivesNodes
