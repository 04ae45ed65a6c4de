\* An owner, a member and a third user; two requests at once.
CONSTANTS
    User = {u1, u2, u3}
    Request = {r1, r2}
    MaxRequests = 3
    MaxFaults = 1
SPECIFICATION Spec
SYMMETRY Symmetry
INVARIANTS JoinedOnce AdmitsOne OwnerStays
CHECK_DEADLOCK FALSE
