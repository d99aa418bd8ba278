\* Every keyring of up to two entries and quorum 0..3 against every
\* sequence of up to three signatures.
SPECIFICATION Spec
CONSTANTS
    v1 = v1
    v2 = v2
    outsider = outsider
    k1 = k1
    k2 = k2
    Malformed = Malformed
    MaxEntries = 2
    MaxSignatures = 3
    Ids = {v1, v2, outsider}
    Keys = {k1, k2}
    Keyrings <- MCKeyrings
    Manifests <- MCManifests
INVARIANTS TypeOK SignersAreVouchers QuorumTakesKeys
PROPERTIES ImplementsQuorumRule
CHECK_DEADLOCK FALSE
