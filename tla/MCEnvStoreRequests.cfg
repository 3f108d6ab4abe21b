\* Three requests, two variables, two failures.
SPECIFICATION Spec
CONSTANTS
    r1 = r1
    r2 = r2
    r3 = r3
    k1 = k1
    k2 = k2
    v1 = v1
    v2 = v2
    Request = {r1, r2, r3}
    Key = {k1, k2}
    Value = {v1, v2}
    None = None
    Invalid = Invalid
    Broken = Broken
    MaxFaults = 2
INVARIANT AcknowledgedIsStored
SYMMETRY Symmetry
CHECK_DEADLOCK FALSE
