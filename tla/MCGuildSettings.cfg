\* Two PATCHes at once, two workers, two rows.
CONSTANTS
    Slot = {"s1", "s2"}
    Voice = "s2"
    Asked <- MCAsked
    Request = {"p1", "p2"}
    Worker = {"w1", "w2"}
    MaxPatches = 2
    MaxFaults = 2
SPECIFICATION FairSpec
INVARIANTS CacheAgrees PatchKeeps
PROPERTIES Heals
CHECK_DEADLOCK FALSE
