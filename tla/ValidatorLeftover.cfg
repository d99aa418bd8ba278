\* One process ends while it writes, and the next has a shorter --files.
SPECIFICATION Spec
CONSTANTS
    f1 = f1
    f2 = f2
    f3 = f3
    f4 = f4
    x = x
    y = y
    Files = {f1, f2, f3, f4}
    Rel <- MCRel
    Allowed = {f1, f2, f4}
    Units = {x, y}
    Absent = Absent
    Contents <- MCContents
    ArgLists <- ShorterList
    FaultSets <- RelistedOnly
    MaxEnds = 1
CHECK_DEADLOCK FALSE
INVARIANT SignedIsServed
