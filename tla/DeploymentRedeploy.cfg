\* deploy.sh twice, and one service that ends.
SPECIFICATION FairSpec
CONSTANTS
    Ids = {mirror}
    ValidatorId = mirror
    Keys = {k1, k2, k3}
    Malformed = Malformed
    FaultSets <- Redeploy
    MaxRuns = 2
    MaxEnds = 1
    Absent = Absent
    Torn = Torn
    Bare = Bare
    Down = Down
CHECK_DEADLOCK FALSE
PROPERTY SeederStays
