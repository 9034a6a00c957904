\* A pipe shared by two tasks and any number of hooks.
SPECIFICATION FairSpec
CONSTANTS
    Tasks = {t1, t2}
    Values = {x, y}
    None = None
    Used = Used
    MaxLengths = {1, 2}
    Wastes <- MCWastes
    BigContent = 4
    MaxIndex = 4
    Resets = "fresh"
INVARIANTS StateMatches Bounded NoSleeper
PROPERTIES Served FifoSpec
