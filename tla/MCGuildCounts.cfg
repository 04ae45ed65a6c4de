\* One user, whose events overlap in two handlers; a command or a query fails once.
\* Nothing has to happen.
CONSTANTS
    User = {u1}
    Visible = {"online"}
    Handler = {h1, h2}
    MaxEvents = 3
    MaxFaults = 1
SPECIFICATION CountsSpec
SYMMETRY Symmetry
INVARIANTS Kept Told
CHECK_DEADLOCK FALSE
