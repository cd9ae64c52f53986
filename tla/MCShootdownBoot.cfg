SPECIFICATION Spec
CONSTANTS
    N = 3
    Page = {p}
    BootActive = {0}
    Caller = {0, 1}
    Masked = {}
    Ops = {"shootdown", "enqueue", "empty_others", "empty_all"}
    MaxCalls = 1
INVARIANTS
    NoLostWakeup
    LostShootdownsCovered
