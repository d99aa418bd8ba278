\* Two models, two nodes, a registry with a token; the clock runs past
\* two time-to-live windows.
SPECIFICATION Spec
CONSTANTS
    Models = {m1, m2}
    Nodes = {n1, n2}
    Documents = {d1, d2}
    Garbage = Garbage
    Nothing = Nothing
    Tokens = {right, wrong}
    NoToken = NoToken
    Token = right
    TTL = 2
    MaxWall = 5
INVARIANTS TypeOK ListsExactlyTheHeard
