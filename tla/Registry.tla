---------------------------- MODULE Registry ----------------------------
(***************************************************************************)
(* The registry (registry/src/main.rs): two SQLite tables behind one       *)
(* mutex, so every handler is one atomic step.  Handlers take the wall     *)
(* clock reading of the moment as an argument: the clock belongs to the    *)
(* module that composes them.                                              *)
(***************************************************************************)
EXTENDS Integers, FiniteSets

CONSTANTS
    Models,         \* model names
    Nodes,          \* node ids
    Documents,      \* the JSON documents publishers send
    Garbage,        \* a body that is not JSON
    Nothing,        \* no row: GET answers 404
    Tokens,         \* bearer tokens
    NoToken,        \* an empty --token, or a request without a bearer
    Token,          \* the token the registry was started with
    TTL             \* SEEDER_TTL_SECS

ASSUME TTLAssumption == TTL \in Nat
ASSUME TokenAssumption == Token \in Tokens \cup {NoToken}
ASSUME BodyAssumption == Garbage \notin Documents /\ Nothing \notin Documents

VARIABLES
    seeders,        \* rows (model, node_id, last_seen)
    manifests       \* model |-> document

tables == <<seeders, manifests>>

Row == [model : Models, node_id : Nodes, last_seen : Int]

(***************************************************************************)
(* PRIMARY KEY (model, node_id).                                           *)
(***************************************************************************)
PrimaryKey ==
    \A r, s \in seeders : r.model = s.model /\ r.node_id = s.node_id => r = s

TablesOK ==
    /\ seeders \subseteq Row
    /\ PrimaryKey
    /\ manifests \in [Models -> Documents \cup {Nothing}]

TablesInit ==
    /\ seeders = {}
    /\ manifests = [m \in Models |-> Nothing]
-----------------------------------------------------------------------------
(***************************************************************************)
(* POST /announce: insert the row or refresh the one that is there.        *)
(***************************************************************************)
(***************************************************************************)
(* Mutants: a table without the conflict clause, one that ignores a row it *)
(* has.                                                                    *)
(***************************************************************************)
UpsertDuplicate(rows, m, n, t) ==
    rows \cup {[model |-> m, node_id |-> n, last_seen |-> t]}

UpsertIgnore(rows, m, n, t) ==
    IF \E r \in rows : r.model = m /\ r.node_id = n
    THEN rows
    ELSE rows \cup {[model |-> m, node_id |-> n, last_seen |-> t]}

Upsert(rows, m, n, t) ==
    {r \in rows : r.model # m \/ r.node_id # n}
        \cup {[model |-> m, node_id |-> n, last_seen |-> t]}

Announce(m, n, t) ==
    /\ seeders' = Upsert(seeders, m, n, t)
    /\ UNCHANGED manifests

(***************************************************************************)
(* GET /seeders/:model: drop the stale rows of every model, answer with    *)
(* the fresh ones of this model.                                           *)
(***************************************************************************)
(***************************************************************************)
(* Mutants: a cutoff one second late, a comparison that excludes the cutoff, *)
(* a query without one.                                                    *)
(***************************************************************************)
CutoffLate(t) == t - TTL - 1

FreshStrict(rows, t) == {r \in rows : r.last_seen > t - TTL}

FreshAll(rows, t) == rows

Cutoff(t) == t - TTL

Fresh(rows, t) == {r \in rows : r.last_seen >= Cutoff(t)}

Listed(m, t) == {r.node_id : r \in {s \in Fresh(seeders, t) : s.model = m}}

QuerySeeders(m, t) ==
    /\ m \in Models
    /\ seeders' = Fresh(seeders, t)
    /\ UNCHANGED manifests

(***************************************************************************)
(* PUT /manifest/:model: the bearer token when one is configured, then     *)
(* any JSON document, stored under the model of the path.  A refused       *)
(* request changes nothing.                                                *)
(***************************************************************************)
Authorized(bearer) == Token = NoToken \/ bearer = Token

(***************************************************************************)
(* Mutant: a body that is not looked at.                                   *)
(***************************************************************************)
PutAnyBody(m, bearer, body) ==
    /\ manifests' = IF Authorized(bearer) THEN [manifests EXCEPT ![m] = body] ELSE manifests
    /\ UNCHANGED seeders

PutManifest(m, bearer, body) ==
    /\ manifests' = IF Authorized(bearer) /\ body # Garbage
                    THEN [manifests EXCEPT ![m] = body]
                    ELSE manifests
    /\ UNCHANGED seeders
=========================================================================
