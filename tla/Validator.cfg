\* What goes wrong besides two ended processes: at most two faults at once.
SPECIFICATION FairSpec
CONSTANTS
    f1 = f1
    f2 = f2
    f3 = f3
    f4 = f4
    x = x
    y = y
    Files = {f1, f2, f3, f4}
    Rel <- MCRel
    Allowed = {f1, f2, f4}
    Units = {x, y}
    Absent = Absent
    Contents <- MCContents
    ArgLists <- MCArgLists
    FaultSets <- MCFaultSets
    MaxEnds = 2
CHECK_DEADLOCK FALSE
INVARIANTS TypeOK ImportIsCanonical SteadySigning RecordIsTheOrigin PublishedIsHeld
PROPERTIES Idempotent AnchorAdvances AnchorServes
