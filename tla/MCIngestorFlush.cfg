\* Two messages: overlapping flushes, failing inserts, retries, give-up, a shutdown that is
\* cut off at any point, a restart, and rows that leave the table.
CONSTANTS
    m1 = m1  m2 = m2  m3 = m3  j1 = j1  l1 = l1  l2 = l2  x1 = x1  x2 = x2
    u1 = u1
    Events = {m1, m2}
    Kind <- KindOf
    User <- UserOf
    NoEvent = NoEvent
    Flushes = {f1, f2}
    BatchSize = 2
    MaxAttempts = 2
    MaxStarts = 1
    MaxEpochs = 2
    MaxKills = 0
    MaxCounted = 1
SPECIFICATION Spec
INVARIANTS TypeOK SingleOwner NoDuplicateRows NothingLostWhileRunning CountNeverAhead
PROPERTY ImplementsSink
SYMMETRY Symmetric
CHECK_DEADLOCK FALSE
