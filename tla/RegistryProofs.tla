------------------------- MODULE RegistryProofs -------------------------
(***************************************************************************)
(* The registry alone answers GET /seeders exactly, for any number of      *)
(* models, nodes and tokens, any time-to-live and any clock: proofs about  *)
(* RegistryMC.                                                             *)
(***************************************************************************)
EXTENDS RegistryMC, TLAPS

(***************************************************************************)
(* The inductive invariant: a row says when its node was last heard, and   *)
(* no row is missing that a query of now would find fresh.  A query may    *)
(* delete rows, but only such as no later query would find fresh either.   *)
(***************************************************************************)
RowsAreHeard ==
    \A r \in seeders : heard[<<r.model, r.node_id>>] = r.last_seen /\ r.last_seen >= 0

RowOf(m, n) == [model |-> m, node_id |-> n, last_seen |-> heard[<<m, n>>]]

FreshHaveRows ==
    \A m \in Models, n \in Nodes :
        heard[<<m, n>>] # Never /\ heard[<<m, n>>] >= wall - TTL => RowOf(m, n) \in seeders

IInv == TypeOK /\ RowsAreHeard /\ FreshHaveRows
-----------------------------------------------------------------------------
LEMMA InitIInv == Init => IInv
<1> SUFFICES ASSUME Init PROVE IInv
  OBVIOUS
<1> USE WallAssumption DEF Init, TablesInit
<1>1. TablesOK
  BY DEF TablesOK, PrimaryKey
<1>2. heard \in [Models \X Nodes -> -1 .. MaxWall]
  BY DEF Never
<1>3. FreshHaveRows
  BY DEF FreshHaveRows, Never
<1> QED
  BY <1>1, <1>2, <1>3 DEF IInv, TypeOK, RowsAreHeard

(***************************************************************************)
(* The steps, one by one.                                                  *)
(***************************************************************************)
LEMMA TickStep == IInv /\ Tick => IInv'
<1> SUFFICES ASSUME IInv, Tick PROVE IInv'
  OBVIOUS
<1> USE WallAssumption, TTLAssumption DEF IInv, Tick, tables
<1>1. TypeOK'
  BY DEF TypeOK, TablesOK, PrimaryKey
<1>2. RowsAreHeard'
  BY DEF RowsAreHeard
<1>3. FreshHaveRows'
  <2> SUFFICES ASSUME NEW m \in Models, NEW n \in Nodes,
                      heard[<<m, n>>] # Never, heard[<<m, n>>] >= (wall + 1) - TTL
               PROVE  RowOf(m, n) \in seeders
    BY DEF FreshHaveRows, RowOf
  <2>1. heard[<<m, n>>] \in Int /\ wall \in Int
    BY DEF TypeOK
  <2>2. heard[<<m, n>>] >= wall - TTL
    BY <2>1
  <2> QED
    BY <2>2 DEF FreshHaveRows
<1> QED
  BY <1>1, <1>2, <1>3

LEMMA AnnounceStep ==
    ASSUME IInv, NEW m \in Models, NEW n \in Nodes, Announce(m, n, wall),
           heard' = [heard EXCEPT ![<<m, n>>] = wall], UNCHANGED wall
    PROVE  IInv'
<1> DEFINE row == [model |-> m, node_id |-> n, last_seen |-> wall]
<1> USE WallAssumption, TTLAssumption
<1>0. wall \in 0 .. MaxWall /\ heard \in [Models \X Nodes -> -1 .. MaxWall]
  BY DEF IInv, TypeOK
<1>1. seeders' = {r \in seeders : r.model # m \/ r.node_id # n} \cup {row}
  BY DEF Announce, Upsert
<1>2. TypeOK'
  <2>1. seeders' \subseteq Row
    BY <1>0, <1>1 DEF IInv, TypeOK, TablesOK, Row
  <2>2. PrimaryKey'
    BY <1>1 DEF IInv, TypeOK, TablesOK, PrimaryKey
  <2>3. heard' \in [Models \X Nodes -> -1 .. MaxWall]
    BY <1>0
  <2> QED
    BY <1>0, <2>1, <2>2, <2>3 DEF IInv, TypeOK, TablesOK, Announce
<1>3. \A a \in Models, b \in Nodes :
        heard'[<<a, b>>] = IF a = m /\ b = n THEN wall ELSE heard[<<a, b>>]
  BY <1>0
<1>4. RowsAreHeard'
  <2> SUFFICES ASSUME NEW r \in seeders'
               PROVE  heard'[<<r.model, r.node_id>>] = r.last_seen /\ r.last_seen >= 0
    BY DEF RowsAreHeard
  <2>1. CASE r = row
    BY <1>0, <1>3, <2>1
  <2>2. CASE r \in seeders /\ (r.model # m \/ r.node_id # n)
    <3>1. r.model \in Models /\ r.node_id \in Nodes
      BY <2>2 DEF IInv, TypeOK, TablesOK, Row
    <3> QED
      BY <1>3, <2>2, <3>1 DEF IInv, RowsAreHeard
  <2> QED
    BY <1>1, <2>1, <2>2
<1>5. FreshHaveRows'
  <2> SUFFICES ASSUME NEW a \in Models, NEW b \in Nodes,
                      heard'[<<a, b>>] # Never, heard'[<<a, b>>] >= wall - TTL
               PROVE  RowOf(a, b)' \in seeders'
    BY DEF FreshHaveRows
  <2>1. CASE a = m /\ b = n
    BY <1>1, <1>3, <2>1 DEF RowOf
  <2>2. CASE ~(a = m /\ b = n)
    <3>1. heard'[<<a, b>>] = heard[<<a, b>>]
      BY <1>3, <2>2
    <3>2. RowOf(a, b) \in seeders
      BY <3>1 DEF IInv, FreshHaveRows
    <3> QED
      BY <1>1, <2>2, <3>1, <3>2 DEF RowOf
  <2> QED
    BY <2>1, <2>2
<1> QED
  BY <1>2, <1>4, <1>5 DEF IInv

LEMMA QueryStep ==
    ASSUME IInv, NEW m \in Models, QuerySeeders(m, wall), UNCHANGED <<wall, heard>>
    PROVE  IInv'
<1> USE WallAssumption, TTLAssumption
<1>1. seeders' = {r \in seeders : r.last_seen >= wall - TTL}
  BY DEF QuerySeeders, Fresh, Cutoff
<1>2. TypeOK'
  BY <1>1 DEF IInv, TypeOK, TablesOK, PrimaryKey, QuerySeeders
<1>3. RowsAreHeard'
  BY <1>1 DEF IInv, RowsAreHeard
<1>4. FreshHaveRows'
  BY <1>1 DEF IInv, FreshHaveRows, RowOf
<1> QED
  BY <1>2, <1>3, <1>4 DEF IInv

LEMMA PutStep ==
    ASSUME IInv, NEW m \in Models, NEW bearer, NEW body \in Documents \cup {Garbage},
           PutManifest(m, bearer, body), UNCHANGED <<wall, heard>>
    PROVE  IInv'
<1>1. UNCHANGED seeders /\ manifests' \in [Models -> Documents \cup {Nothing}]
  BY DEF PutManifest, IInv, TypeOK, TablesOK
<1> QED
  BY <1>1 DEF IInv, TypeOK, TablesOK, PrimaryKey, RowsAreHeard, FreshHaveRows, RowOf

THEOREM Inductive == Spec => []IInv
<1>1. IInv /\ [Next]_vars => IInv'
  <2> SUFFICES ASSUME IInv, [Next]_vars PROVE IInv'
    OBVIOUS
  <2>1. CASE Tick
    BY <2>1, TickStep
  <2>2. CASE RequestAnnounce
    BY <2>2, AnnounceStep DEF RequestAnnounce
  <2>3. CASE RequestSeeders
    BY <2>3, QueryStep DEF RequestSeeders
  <2>4. CASE RequestPut
    BY <2>4, PutStep DEF RequestPut
  <2>5. CASE UNCHANGED vars
    BY <2>5 DEF vars, IInv, TypeOK, TablesOK, PrimaryKey, RowsAreHeard, FreshHaveRows, RowOf
  <2> QED
    BY <2>1, <2>2, <2>3, <2>4, <2>5 DEF Next
<1> QED
  BY InitIInv, <1>1, PTL DEF Spec

(***************************************************************************)
(* (model, node) stays a key of the seeders table, and only JSON documents *)
(* are stored.                                                             *)
(***************************************************************************)
THEOREM TypeCorrect == Spec => []TypeOK
<1>1. IInv => TypeOK
  BY DEF IInv
<1> QED
  BY <1>1, Inductive, PTL

(***************************************************************************)
(* Pruning is invisible: GET /seeders answers with exactly the nodes whose *)
(* last announce for the model is at most SEEDER_TTL_SECS old, whatever    *)
(* queries for whatever models deleted rows before.                        *)
(***************************************************************************)
THEOREM AnswersAreExact == Spec => []ListsExactlyTheHeard
<1>1. IInv => ListsExactlyTheHeard
  <2> USE TTLAssumption
  <2> SUFFICES ASSUME IInv, NEW m \in Models
               PROVE  Listed(m, wall) =
                        {n \in Nodes : heard[<<m, n>>] # Never /\ heard[<<m, n>>] >= wall - TTL}
    BY DEF ListsExactlyTheHeard
  <2>1. ASSUME NEW n \in Listed(m, wall)
        PROVE  n \in Nodes /\ heard[<<m, n>>] # Never /\ heard[<<m, n>>] >= wall - TTL
    <3>1. PICK r \in seeders : r.model = m /\ r.node_id = n /\ r.last_seen >= wall - TTL
      BY DEF Listed, Fresh, Cutoff
    <3>2. n \in Nodes /\ heard[<<m, n>>] = r.last_seen /\ r.last_seen >= 0
      BY <3>1 DEF IInv, TypeOK, TablesOK, Row, RowsAreHeard
    <3> QED
      BY <3>1, <3>2 DEF Never
  <2>2. ASSUME NEW n \in Nodes, heard[<<m, n>>] # Never, heard[<<m, n>>] >= wall - TTL
        PROVE  n \in Listed(m, wall)
    <3>1. RowOf(m, n) \in seeders
      BY <2>2 DEF IInv, FreshHaveRows
    <3>2. RowOf(m, n).model = m /\ RowOf(m, n).node_id = n /\ RowOf(m, n).last_seen = heard[<<m, n>>]
      BY DEF RowOf
    <3> HIDE DEF RowOf
    <3> QED
      BY <2>2, <3>1, <3>2 DEF Listed, Fresh, Cutoff
  <2> QED
    BY <2>1, <2>2
<1> QED
  BY <1>1, Inductive, PTL
=========================================================================
