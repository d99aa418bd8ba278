--------------------------- MODULE RegistryMC ---------------------------
(***************************************************************************)
(* The registry alone, driven by arbitrary requests and a wall clock that  *)
(* only moves forward.  `heard' remembers when each node last announced.   *)
(***************************************************************************)
EXTENDS Registry

CONSTANT MaxWall        \* bound on the wall clock

ASSUME WallAssumption == MaxWall \in Nat

VARIABLES wall, heard

vars == <<seeders, manifests, wall, heard>>

Never == -1

TypeOK ==
    /\ TablesOK
    /\ wall \in 0 .. MaxWall
    /\ heard \in [Models \X Nodes -> -1 .. MaxWall]

Init ==
    /\ TablesInit
    /\ wall = 0
    /\ heard = [p \in Models \X Nodes |-> Never]

Tick ==
    /\ wall < MaxWall
    /\ wall' = wall + 1
    /\ UNCHANGED <<tables, heard>>

RequestAnnounce ==
    \E m \in Models, n \in Nodes :
        /\ Announce(m, n, wall)
        /\ heard' = [heard EXCEPT ![<<m, n>>] = wall]
        /\ UNCHANGED wall

RequestSeeders ==
    \E m \in Models :
        /\ QuerySeeders(m, wall)
        /\ UNCHANGED <<wall, heard>>

RequestPut ==
    \E m \in Models, bearer \in Tokens \cup {NoToken}, body \in Documents \cup {Garbage} :
        /\ PutManifest(m, bearer, body)
        /\ UNCHANGED <<wall, heard>>

Next == Tick \/ RequestAnnounce \/ RequestSeeders \/ RequestPut

Spec == Init /\ [][Next]_vars

(***************************************************************************)
(* Pruning is invisible: although any query deletes rows of every model,   *)
(* GET /seeders always answers with exactly the nodes whose last announce  *)
(* for that model is at most SEEDER_TTL_SECS old, the second included.     *)
(***************************************************************************)
ListsExactlyTheHeard ==
    \A m \in Models :
        Listed(m, wall) = {n \in Nodes : heard[<<m, n>>] # Never /\ heard[<<m, n>>] >= wall - TTL}
=========================================================================
