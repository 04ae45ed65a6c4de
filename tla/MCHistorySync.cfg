\* One channel with messages and an empty one, a scan depth that is no multiple of the
\* page size, a second job, a crash and a redelivery, new messages under way;
\* rows leave of an old message and of a new one.
CONSTANTS
    c1 = c1  c2 = c2
    Channels = {c1, c2}
    Channel <- ChannelOf
    MaxMsg = 4
    Old = 3
    PageSize = 2
    ScanDepth = 3
    MaxJobs = 2
    MaxStarts = 2
    Leaving = {2, 4}
SPECIFICATION ImportSpec
INVARIANTS ImportTypeOK ImportedWhenCompleted StatusTold
PROPERTY ImportsOnlyMissing
CHECK_DEADLOCK FALSE
