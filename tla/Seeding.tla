---------------------------- MODULE Seeding -----------------------------
(***************************************************************************)
(* Seeding nodes and the registry together: announce_and_serve of the CLI  *)
(* (cli/src/main.rs) and the keep-seeding loop of the validator            *)
(* (validator/src/main.rs) keep the rows of Registry.tla fresh over a      *)
(* network that delays and loses requests, while nodes come and go and the *)
(* registry is restarted.                                                  *)
(*                                                                         *)
(* Time is real time in `now'; the registry reads a wall clock that is off *)
(* by at most Skew, differently at every reading.                          *)
(***************************************************************************)
EXTENDS Registry

CONSTANTS
    Heartbeat,      \* HEARTBEAT: sleep between two announces
    MaxLatency,     \* an announce is handled or lost, and its caller told, within this
    MaxLost,        \* announces of one process lost in a row, at most
    Skew,           \* error of the registry's wall clock
    Nobody          \* the model of a node the registry does not know

ASSUME TimingAssumption ==
    /\ Heartbeat \in Nat \ {0}
    /\ MaxLatency \in Nat
    /\ MaxLost \in Nat
    /\ Skew \in Nat

ASSUME NobodyAssumption == Nobody \notin Models

VARIABLES
    now,            \* real time
    running,        \* the registry process is up
    phase,          \* node |-> "off", "starting" (first announce), "sleeping", "calling"
    serves,         \* node |-> the model it announces
    timer,          \* node |-> when it went off, sent its announce, or will wake
    wire,           \* announces under way
    lost,           \* node |-> announces lost since the last one that was handled
    heard           \* node |-> this process has been heard by the registry

vars == <<seeders, manifests, now, running, phase, serves, timer, wire, lost, heard>>

Request == [model : Models, node_id : Nodes, sent : Int]

TypeOK ==
    /\ TablesOK
    /\ now \in Nat
    /\ running \in BOOLEAN
    /\ phase \in [Nodes -> {"off", "starting", "sleeping", "calling"}]
    /\ serves \in [Nodes -> Models]
    /\ timer \in [Nodes -> Int]
    /\ wire \subseteq Request
    /\ lost \in [Nodes -> Nat]
    /\ heard \in [Nodes -> BOOLEAN]

Init ==
    /\ TablesInit
    /\ now = 0
    /\ running = TRUE
    /\ phase = [n \in Nodes |-> "off"]
    /\ serves \in [Nodes -> Models]
    /\ timer = [n \in Nodes |-> 0]
    /\ wire = {}
    /\ lost = [n \in Nodes |-> 0]
    /\ heard = [n \in Nodes |-> FALSE]

Clock == now - Skew .. now + Skew
-----------------------------------------------------------------------------
(***************************************************************************)
(* The node's process.  RegistryClient::announce is the request put on the *)
(* wire; the caller waits for it to be handled or lost and goes on either  *)
(* way, an error is only a warning.                                        *)
(***************************************************************************)
Call(n, m) == wire' = wire \cup {[model |-> m, node_id |-> n, sent |-> now]}

Calling(n) == phase[n] \in {"starting", "calling"}

Own(n) == [model |-> serves[n], node_id |-> n, sent |-> timer[n]]

Start(n, m) ==
    /\ phase[n] = "off"
    /\ phase' = [phase EXCEPT ![n] = "starting"]
    /\ serves' = [serves EXCEPT ![n] = m]
    /\ timer' = [timer EXCEPT ![n] = now]
    /\ lost' = [lost EXCEPT ![n] = 0]
    /\ heard' = [heard EXCEPT ![n] = FALSE]
    /\ Call(n, m)
    /\ UNCHANGED <<tables, now, running>>

Return(n) ==
    /\ Calling(n)
    /\ Own(n) \notin wire
    /\ phase' = [phase EXCEPT ![n] = "sleeping"]
    /\ timer' = [timer EXCEPT ![n] = now + Heartbeat]
    /\ UNCHANGED <<tables, now, running, serves, wire, lost, heard>>

Beat(n) ==
    /\ phase[n] = "sleeping"
    /\ timer[n] <= now
    /\ phase' = [phase EXCEPT ![n] = "calling"]
    /\ timer' = [timer EXCEPT ![n] = now]
    /\ Call(n, serves[n])
    /\ UNCHANGED <<tables, now, running, serves, lost, heard>>

(***************************************************************************)
(* Ctrl-C followed by the shutdown and hb.abort(), or a crash: nothing is  *)
(* sent to the registry, and a request on the wire stays there.            *)
(***************************************************************************)
Exit(n) ==
    /\ phase[n] # "off"
    /\ phase' = [phase EXCEPT ![n] = "off"]
    /\ timer' = [timer EXCEPT ![n] = now]
    /\ UNCHANGED <<tables, now, running, serves, wire, lost, heard>>
-----------------------------------------------------------------------------
(***************************************************************************)
(* The network and the registry.                                           *)
(***************************************************************************)
Current(r) == Calling(r.node_id) /\ r = Own(r.node_id)

Handle(r) ==
    /\ running
    /\ r \in wire
    /\ \E t \in Clock : Announce(r.model, r.node_id, t)
    /\ wire' = wire \ {r}
    /\ IF Current(r)
       THEN /\ heard' = [heard EXCEPT ![r.node_id] = TRUE]
            /\ lost' = [lost EXCEPT ![r.node_id] = 0]
       ELSE UNCHANGED <<heard, lost>>
    /\ UNCHANGED <<now, running, phase, serves, timer>>

(***************************************************************************)
(* Lost on the network, or refused because the registry is down.           *)
(***************************************************************************)
Lose(r) ==
    /\ r \in wire
    /\ wire' = wire \ {r}
    /\ IF Current(r)
       THEN /\ lost[r.node_id] < MaxLost
            /\ lost' = [lost EXCEPT ![r.node_id] = @ + 1]
       ELSE UNCHANGED lost
    /\ UNCHANGED <<tables, now, running, phase, serves, timer, heard>>

Query(m) ==
    /\ running
    /\ \E t \in Clock : QuerySeeders(m, t)
    /\ UNCHANGED <<now, running, phase, serves, timer, wire, lost, heard>>

Stop ==
    /\ running
    /\ running' = FALSE
    /\ UNCHANGED <<tables, now, phase, serves, timer, wire, lost, heard>>

(***************************************************************************)
(* Mutant: a registry that starts with empty tables.                       *)
(***************************************************************************)
RestartEmpty ==
    /\ ~running
    /\ running' = TRUE
    /\ seeders' = {}
    /\ UNCHANGED <<manifests, now, phase, serves, timer, wire, lost, heard>>

(***************************************************************************)
(* main() again: CREATE TABLE IF NOT EXISTS on the same database file.     *)
(***************************************************************************)
Restart ==
    /\ ~running
    /\ running' = TRUE
    /\ UNCHANGED <<tables, now, phase, serves, timer, wire, lost, heard>>

(***************************************************************************)
(* Time passes, but not past a deadline: a request leaves the wire and its *)
(* caller learns of it within MaxLatency, and a sleeper wakes on time.     *)
(***************************************************************************)
MayPass ==
    /\ \A r \in wire : now < r.sent + MaxLatency
    /\ \A n \in Nodes :
          /\ Calling(n) => now < timer[n] + MaxLatency
          /\ phase[n] = "sleeping" => now < timer[n]

Tick ==
    /\ MayPass
    /\ now' = now + 1
    /\ UNCHANGED <<tables, running, phase, serves, timer, wire, lost, heard>>

Next ==
    \/ \E n \in Nodes :
          \/ \E m \in Models : Start(n, m)
          \/ Return(n)
          \/ Beat(n)
          \/ Exit(n)
    \/ \E r \in wire : Handle(r) \/ Lose(r)
    \/ \E m \in Models : Query(m)
    \/ Stop
    \/ Restart
    \/ Tick

Spec == Init /\ [][Next]_vars
-----------------------------------------------------------------------------
(***************************************************************************)
(* The longest time between two handled announces of one process.          *)
(***************************************************************************)
LongestSilence == (MaxLost + 1) * (Heartbeat + MaxLatency) + MaxLatency

(***************************************************************************)
(* A node that seeds is found: once a process has been heard it is in      *)
(* every answer for its model until it exits, however the registry is      *)
(* restarted, whoever else queries and prunes, and although MaxLost        *)
(* heartbeats in a row are lost -- provided SEEDER_TTL_SECS covers the     *)
(* longest silence and the wall clock's error.                             *)
(***************************************************************************)
KeepListed ==
    LongestSilence + 2 * Skew <= TTL =>
        \A n \in Nodes :
            phase[n] # "off" /\ heard[n] =>
                \A t \in Clock : n \in Listed(serves[n], t)

(***************************************************************************)
(* A node that is gone is forgotten: no answer lists, for any model, a     *)
(* node that has been off for longer than the time-to-live, one request's  *)
(* latency and the wall clock's error, although nodes never say goodbye    *)
(* and their last announce may be handled after they died.                 *)
(***************************************************************************)
GoneIsForgotten ==
    \A n \in Nodes :
        phase[n] = "off" /\ now > timer[n] + TTL + MaxLatency + 2 * Skew =>
            \A m \in Models, t \in Clock : n \notin Listed(m, t)

(***************************************************************************)
(* Clocks, rows, prunings and restarts do not show: seen from outside the  *)
(* registry only adds nodes it heard and only forgets nodes that left or   *)
(* moved on, so the list is the one of SeederList -- again provided the    *)
(* time-to-live covers the longest silence.                                *)
(***************************************************************************)
Calls == {<<r.model, r.node_id>> : r \in wire}

Known == [n \in Nodes |-> IF phase[n] # "off" /\ heard[n] THEN serves[n] ELSE Nobody]

Lists == {p \in Models \X Nodes : p[2] \in Listed(p[1], now + Skew)}

Listing == INSTANCE SeederList WITH
    called <- Calls,
    up     <- Known,
    listed <- Lists

ImplementsSeederList == Listing!Spec
=========================================================================
