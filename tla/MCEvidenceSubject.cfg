SPECIFICATION Spec
CONSTANTS
    r1 = r1
    r2 = r2
    k1 = k1
    k2 = k2
    b1 = b1
    Requests = {r1, r2}
    Keys = {k1, k2}
    Bodies = {b1}
    MaxFaults = 0
INVARIANT
    OneSubjectPerCustomer
