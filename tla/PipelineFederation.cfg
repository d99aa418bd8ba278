\* Two validators publish the same record for a quorum of two.
SPECIFICATION Spec
CONSTANTS
    v1 = v1
    v2 = v2
    id1 = id1
    id2 = id2
    k1 = k1
    k2 = k2
    p = p
    q = q
    h1 = h1
    h2 = h2
    ma = ma
    MinSigners = 2
    Ids = {id1, id2}
    Keys = {k1, k2}
    Malformed = Malformed
    Validators = {v1, v2}
    Clients = {c}
    Seeders = {}
    Unparsable = Unparsable
    IdOf <- MCIdOf
    KeyOf <- MCKeyOf
    Pinned <- MCPinned
    Models = {ma}
    Versions = {1}
    Paths = {p, q}
    Hashes = {h1, h2}
    Folders <- MCLarge
    HandSigned = {}
    Untrusted = FALSE
    MaxSignatures = 0
    Stuck = {}
    None = None
    Partial = Partial
INVARIANTS FederationIsHeard
