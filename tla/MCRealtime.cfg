SPECIFICATION Spec
CONSTANTS
    OfGuild = {"memberCount"}
    OfSettings = {"botConnected"}
    Writer = {w1, w2}
    Client = {c1}
    Snapshot = {s1}
    MaxWrites = 2
    MaxBreaks = 2
SYMMETRY Symmetry
INVARIANTS ViewSettles
PROPERTIES NeverBack EntersByRight
CHECK_DEADLOCK FALSE
