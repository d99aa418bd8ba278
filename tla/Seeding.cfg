\* One node that may come back for another model, lost announces, and a
\* registry whose wall clock is wrong by one unit either way.  The time-to-live
\* is exactly the longest silence and the clock's error: (1 + 1) * 3 + 1 + 2.
SPECIFICATION Spec
CONSTANTS
    Models = {m1, m2}
    Nodes = {n1}
    Documents = {d1}
    Garbage = Garbage
    Nothing = Nothing
    Tokens = {}
    NoToken = NoToken
    Token = NoToken
    TTL = 9
    Heartbeat = 2
    MaxLatency = 1
    MaxLost = 1
    Skew = 1
    Nobody = Nobody
    MaxTime = 14
CONSTRAINT Bounded
INVARIANTS TypeOK KeepListed GoneIsForgotten
PROPERTIES ImplementsSeederList
