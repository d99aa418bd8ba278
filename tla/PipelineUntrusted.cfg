\* Two validators, a quorum of two, hand-signed records, a registry that answers
\* anything, and an output directory in which one path may be a directory.
SPECIFICATION Spec
CONSTANTS
    v1 = v1
    v2 = v2
    id1 = id1
    id2 = id2
    k1 = k1
    k2 = k2
    p = p
    q = q
    h1 = h1
    h2 = h2
    ma = ma
    MinSigners = 2
    Ids = {id1, id2}
    Keys = {k1, k2}
    Malformed = Malformed
    Validators = {v1, v2}
    Clients = {c}
    Seeders = {v2}
    Unparsable = Unparsable
    IdOf <- MCIdOf
    KeyOf <- MCKeyOf
    Pinned <- MCPinned
    Models = {ma}
    Versions = {1}
    Paths = {p, q}
    Hashes = {h1, h2}
    Folders <- MCSmall
    HandSigned <- Mismatched
    Untrusted = TRUE
    MaxSignatures = 2
    Stuck = {p}
    None = None
    Partial = Partial
INVARIANTS TypeOK SavedIsComplete
PROPERTIES ImplementsTrustModel OnlyVouchedTouchesDisk
