SPECIFICATION Spec
CONSTANTS
    o1 = o1
    o2 = o2
    r1 = r1
    r2 = r2
    q1 = q1
    q2 = q2
    Opencode = {o1, o2}
    Router = {r1, r2}
    Request = {q1, q2}
    Ops = {"apply", "reload", "upgrade", "close"}
    None = None
    MaxAttempts = 1
    MaxFaults = 2
INVARIANTS TypeOK OneChildHeld NobodyWaitsInVain StopLeavesNoChild
PROPERTY StopIsNoCrash
SYMMETRY Symmetry
CHECK_DEADLOCK FALSE
