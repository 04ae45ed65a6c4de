\* A voice join, a leave and an invalid event, each started up to twice, and a kill; the
\* timer empties the buffer.
CONSTANTS
    m1 = m1  m2 = m2  m3 = m3  j1 = j1  l1 = l1  l2 = l2  x1 = x1  x2 = x2
    u1 = u1
    Events = {j1, l1, x2}
    Kind <- KindOf
    User <- UserOf
    NoEvent = NoEvent
    Flushes = {f1}
    BatchSize = 2
    MaxAttempts = 1
    MaxStarts = 2
    MaxEpochs = 1
    MaxKills = 1
    MaxCounted = 0
SPECIFICATION FairSpec
INVARIANT VoiceSessionCreditedOnce
PROPERTY Drains
CHECK_DEADLOCK FALSE
