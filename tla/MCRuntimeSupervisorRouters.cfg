SPECIFICATION Spec
CONSTANTS
    o1 = o1
    o2 = o2
    r1 = r1
    r2 = r2
    q1 = q1
    q2 = q2
    Opencode = {o1, o2}
    Router = {r1, r2}
    Request = {q1}
    Ops = {"apply"}
    None = None
    MaxAttempts = 1
    MaxFaults = 0
INVARIANT OneRouter
CHECK_DEADLOCK FALSE
