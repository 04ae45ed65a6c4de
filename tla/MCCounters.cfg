\* A counter that may move between two channels, two jobs at once, a limit of one renaming
\* in two seconds; three things happen.  The symmetric sets are interchangeable and no
\* property is a liveness property.  The queue may run dry.
CONSTANTS
    Counter = {c1}
    Channel = {ch1, ch2}
    Worker = {w1, w2}
    Nobody = Nobody
    Limit = 1
    Window = 2
    MaxTime = 2
    MaxHappens = 3
SPECIFICATION Spec
SYMMETRY Symmetry
INVARIANTS TypeOK ShownWhenSettled
PROPERTIES ImplementsRateLimit
CHECK_DEADLOCK FALSE
