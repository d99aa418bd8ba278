\* The doc's reading of the quorum: N signatures take N keys.
SPECIFICATION Spec
CONSTANTS
    v1 = v1
    v2 = v2
    outsider = outsider
    k1 = k1
    k2 = k2
    Malformed = Malformed
    MaxEntries = 2
    MaxSignatures = 2
    Ids = {v1, v2, outsider}
    Keys = {k1, k2}
    Keyrings <- MCKeyrings
    Manifests <- MCManifests
INVARIANTS QuorumCountsKeys
CHECK_DEADLOCK FALSE
