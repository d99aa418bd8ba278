\* Two runs of deploy.sh, two services that end, every set of faults.
SPECIFICATION FairSpec
CONSTANTS
    Ids = {mirror}
    ValidatorId = mirror
    Keys = {k1, k2, k3}
    Malformed = Malformed
    FaultSets <- MCFaultSets
    MaxRuns = 2
    MaxEnds = 2
    Absent = Absent
    Torn = Torn
    Bare = Bare
    Down = Down
CHECK_DEADLOCK FALSE
INVARIANTS TypeOK ClientsAccept OneIdentity AnchorIsLetIn
PROPERTIES TrustStands SeederStaysIfSteady
