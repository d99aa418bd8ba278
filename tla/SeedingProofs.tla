-------------------------- MODULE SeedingProofs -------------------------
(***************************************************************************)
(* Seeders stay listed while they serve and are forgotten once they are    *)
(* gone, for any number of models and nodes and any timing: proofs about   *)
(* Seeding.                                                                *)
(***************************************************************************)
EXTENDS Seeding, TLAPS

Period == Heartbeat + MaxLatency

Rounds(k) == k * Period

Covered == LongestSilence + 2 * Skew <= TTL

(***************************************************************************)
(* The inductive invariant: nothing is overdue; a row is never newer than  *)
(* the clock, and a dead node's rows are no newer than its last request;   *)
(* a process that was heard has a row no older than the rounds of lost     *)
(* announces since.                                                        *)
(***************************************************************************)
WireInv ==
    \A r \in wire :
        /\ r.sent <= now
        /\ now <= r.sent + MaxLatency
        /\ phase[r.node_id] = "off" => r.sent <= timer[r.node_id]

TimerInv ==
    \A n \in Nodes :
        /\ Calling(n) => timer[n] <= now /\ now <= timer[n] + MaxLatency
        /\ phase[n] = "sleeping" => now <= timer[n] /\ timer[n] <= now + Heartbeat
        /\ phase[n] = "off" => timer[n] <= now
        /\ lost[n] <= MaxLost

RowInv ==
    \A r \in seeders :
        /\ r.last_seen <= now + Skew
        /\ phase[r.node_id] = "off" => r.last_seen <= timer[r.node_id] + MaxLatency + Skew

Since(n) == IF Calling(n) /\ Own(n) \notin wire THEN lost[n] ELSE lost[n] + 1

HasRow(n) ==
    \E r \in seeders :
        /\ r.model = serves[n]
        /\ r.node_id = n
        /\ timer[n] <= r.last_seen + Skew + Rounds(Since(n))

HeardInv ==
    Covered => \A n \in Nodes : phase[n] # "off" /\ heard[n] => HasRow(n)

IInv == TypeOK /\ WireInv /\ TimerInv /\ RowInv /\ HeardInv
-----------------------------------------------------------------------------
LEMMA PeriodType == Period \in Nat /\ Heartbeat <= Period /\ Heartbeat \in Nat
BY TimingAssumption DEF Period

LEMMA RoundsStep ==
    ASSUME NEW k \in Nat
    PROVE  /\ Rounds(k) \in Nat
           /\ Rounds(k + 1) = Rounds(k) + Period
<1>1. (k + 1) * Period = k * Period + Period
  BY PeriodType
<1>2. k * Period \in Nat
  BY PeriodType
<1> QED
  BY <1>1, <1>2 DEF Rounds

LEMMA RoundsMonotone ==
    ASSUME NEW k \in Nat, NEW l \in Nat, k <= l
    PROVE  Rounds(k) <= Rounds(l)
<1>1. PICK d \in Nat : l = k + d
  <2>1. l - k \in Nat /\ l = k + (l - k)
    OBVIOUS
  <2> QED
    BY <2>1
<1>2. (k + d) * Period = k * Period + d * Period
  BY PeriodType
<1>3. d * Period \in Nat /\ k * Period \in Nat
  BY PeriodType
<1> QED
  BY <1>1, <1>2, <1>3 DEF Rounds

(***************************************************************************)
(* What Upsert, Fresh and Listed do.                                       *)
(***************************************************************************)
LEMMA UpsertRows ==
    ASSUME NEW rows, NEW m, NEW n, NEW t, NEW r
    PROVE  r \in Upsert(rows, m, n, t) <=>
             \/ r \in rows /\ (r.model # m \/ r.node_id # n)
             \/ r = [model |-> m, node_id |-> n, last_seen |-> t]
BY DEF Upsert

LEMMA ListedRows ==
    ASSUME NEW m, NEW t, NEW n
    PROVE  n \in Listed(m, t) <=>
             \E r \in seeders : r.model = m /\ r.node_id = n /\ r.last_seen >= t - TTL
BY DEF Listed, Fresh, Cutoff

LEMMA AnnounceTypes ==
    ASSUME TablesOK, NEW m \in Models, NEW n \in Nodes, NEW t \in Int, Announce(m, n, t)
    PROVE  TablesOK'
<1>1. seeders' \subseteq Row
  BY UpsertRows DEF Announce, TablesOK, Row
<1>2. PrimaryKey'
  <2> SUFFICES ASSUME NEW r \in seeders', NEW s \in seeders',
                      r.model = s.model, r.node_id = s.node_id
               PROVE  r = s
    BY DEF PrimaryKey
  <2> QED
    BY UpsertRows DEF Announce, TablesOK, PrimaryKey
<1> QED
  BY <1>1, <1>2 DEF Announce, TablesOK

LEMMA QueryTypes ==
    ASSUME TablesOK, NEW m \in Models, NEW t \in Int, QuerySeeders(m, t)
    PROVE  TablesOK'
BY DEF QuerySeeders, Fresh, TablesOK, PrimaryKey
-----------------------------------------------------------------------------
LEMMA InitIInv == Init => IInv
<1> SUFFICES ASSUME Init PROVE IInv
  OBVIOUS
<1>1. TypeOK
  BY DEF Init, TypeOK, TablesInit, TablesOK, PrimaryKey
<1> QED
  BY <1>1, TimingAssumption
     DEF Init, TablesInit, IInv, WireInv, TimerInv, RowInv, HeardInv, HasRow, Calling

LEMMA StepType == TypeOK /\ [Next]_vars => TypeOK'
<1> SUFFICES ASSUME TypeOK, [Next]_vars PROVE TypeOK'
  OBVIOUS
<1> USE TimingAssumption
<1>0. ASSUME UNCHANGED tables PROVE TablesOK'
  BY <1>0 DEF TypeOK, TablesOK, PrimaryKey, tables
<1>1. ASSUME NEW n \in Nodes, NEW m \in Models, Start(n, m) PROVE TypeOK'
  BY <1>0, <1>1 DEF Start, Call, TypeOK, Request
<1>2. ASSUME NEW n \in Nodes, Return(n) PROVE TypeOK'
  BY <1>0, <1>2 DEF Return, TypeOK
<1>3. ASSUME NEW n \in Nodes, Beat(n) PROVE TypeOK'
  BY <1>0, <1>3 DEF Beat, Call, TypeOK, Request
<1>4. ASSUME NEW n \in Nodes, Exit(n) PROVE TypeOK'
  BY <1>0, <1>4 DEF Exit, TypeOK
<1>5. ASSUME NEW r \in wire, Handle(r) PROVE TypeOK'
  <2>1. r.model \in Models /\ r.node_id \in Nodes
    BY DEF TypeOK, Request
  <2>2. PICK t \in Clock : Announce(r.model, r.node_id, t)
    BY <1>5 DEF Handle
  <2>3. t \in Int
    BY <2>2 DEF Clock, TypeOK
  <2>4. TablesOK'
    BY <2>1, <2>2, <2>3, AnnounceTypes DEF TypeOK
  <2>5. lost' \in [Nodes -> Nat] /\ heard' \in [Nodes -> BOOLEAN]
    <3>1. CASE Current(r)
      <4>1. /\ lost' = [lost EXCEPT ![r.node_id] = 0]
            /\ heard' = [heard EXCEPT ![r.node_id] = TRUE]
        BY <1>5, <3>1 DEF Handle
      <4>2. lost' \in [Nodes -> Nat]
        BY <2>1, <4>1, SMT DEF TypeOK
      <4>3. heard' \in [Nodes -> BOOLEAN]
        BY <2>1, <4>1, Zenon DEF TypeOK
      <4> QED
        BY <4>2, <4>3
    <3>2. CASE ~Current(r)
      BY <1>5, <3>2 DEF Handle, TypeOK
    <3> QED
      BY <3>1, <3>2
  <2> QED
    BY <1>5, <2>4, <2>5 DEF Handle, TypeOK
<1>6. ASSUME NEW r \in wire, Lose(r) PROVE TypeOK'
  <2>1. r.node_id \in Nodes
    BY DEF TypeOK, Request
  <2>2. lost' \in [Nodes -> Nat]
    BY <1>6, <2>1 DEF Lose, TypeOK
  <2> QED
    BY <1>0, <1>6, <2>2 DEF Lose, TypeOK
<1>7. ASSUME NEW m \in Models, Query(m) PROVE TypeOK'
  <2>1. PICK t \in Clock : QuerySeeders(m, t)
    BY <1>7 DEF Query
  <2>2. t \in Int
    BY <2>1 DEF Clock, TypeOK
  <2>3. TablesOK'
    BY <2>1, <2>2, QueryTypes DEF TypeOK
  <2> QED
    BY <1>7, <2>3 DEF Query, TypeOK
<1>8. CASE Stop \/ Restart \/ Tick
  <2>1. TablesOK'
    BY <1>0, <1>8 DEF Stop, Restart, Tick
  <2>2. running' \in BOOLEAN
    BY <1>8, Zenon DEF Stop, Restart, Tick, TypeOK
  <2>3. now' \in Nat
    BY <1>8, SMT DEF Stop, Restart, Tick, TypeOK
  <2> QED
    BY <1>8, <2>1, <2>2, <2>3 DEF Stop, Restart, Tick, TypeOK
<1>9. CASE UNCHANGED vars
  BY <1>0, <1>9 DEF vars, tables, TypeOK
<1> QED
  BY <1>1, <1>2, <1>3, <1>4, <1>5, <1>6, <1>7, <1>8, <1>9 DEF Next
-----------------------------------------------------------------------------
(***************************************************************************)
(* Nothing becomes overdue.                                                *)
(***************************************************************************)
LEMMA StepTimes ==
    TypeOK /\ WireInv /\ TimerInv /\ [Next]_vars => WireInv' /\ TimerInv'
<1> SUFFICES ASSUME TypeOK, WireInv, TimerInv, [Next]_vars PROVE WireInv' /\ TimerInv'
  OBVIOUS
<1> USE TimingAssumption
<1>0. /\ now \in Nat
      /\ \A n \in Nodes : timer[n] \in Int /\ lost[n] \in Nat
      /\ \A r \in wire : r.sent \in Int /\ r.node_id \in Nodes /\ r \in Request
      /\ phase \in [Nodes -> {"off", "starting", "sleeping", "calling"}]
      /\ timer \in [Nodes -> Int] /\ lost \in [Nodes -> Nat]
  BY DEF TypeOK, Request
<1>1. ASSUME NEW n \in Nodes, NEW m \in Models, Start(n, m) PROVE WireInv' /\ TimerInv'
  BY <1>0, <1>1 DEF Start, Call, WireInv, TimerInv, Calling
<1>2. ASSUME NEW n \in Nodes, Return(n) PROVE WireInv' /\ TimerInv'
  BY <1>0, <1>2 DEF Return, WireInv, TimerInv, Calling
<1>3. ASSUME NEW n \in Nodes, Beat(n) PROVE WireInv' /\ TimerInv'
  BY <1>0, <1>3 DEF Beat, Call, WireInv, TimerInv, Calling
<1>4. ASSUME NEW n \in Nodes, Exit(n) PROVE WireInv' /\ TimerInv'
  BY <1>0, <1>4 DEF Exit, WireInv, TimerInv, Calling
<1>5. ASSUME NEW r \in wire, Handle(r) PROVE WireInv' /\ TimerInv'
  <2>1. \A n \in Nodes : lost'[n] <= MaxLost
    BY <1>0, <1>5 DEF Handle, TimerInv
  <2> QED
    BY <1>0, <1>5, <2>1 DEF Handle, WireInv, TimerInv, Calling
<1>6. ASSUME NEW r \in wire, Lose(r) PROVE WireInv' /\ TimerInv'
  <2>1. \A n \in Nodes : lost'[n] <= MaxLost
    BY <1>0, <1>6 DEF Lose, TimerInv
  <2> QED
    BY <1>0, <1>6, <2>1 DEF Lose, WireInv, TimerInv, Calling
<1>7. ASSUME NEW m \in Models, Query(m) PROVE WireInv' /\ TimerInv'
  BY <1>0, <1>7 DEF Query, WireInv, TimerInv, Calling
<1>8. CASE Stop \/ Restart
  BY <1>0, <1>8 DEF Stop, Restart, WireInv, TimerInv, Calling
<1>9. CASE Tick
  BY <1>0, <1>9 DEF Tick, MayPass, WireInv, TimerInv, Calling
<1>10. CASE UNCHANGED vars
  BY <1>0, <1>10 DEF vars, WireInv, TimerInv, Calling
<1> QED
  BY <1>1, <1>2, <1>3, <1>4, <1>5, <1>6, <1>7, <1>8, <1>9, <1>10 DEF Next

(***************************************************************************)
(* Rows are never from the future, and a dead node's rows are no newer     *)
(* than what it sent while it lived.                                       *)
(***************************************************************************)
LEMMA StepRows ==
    TypeOK /\ WireInv /\ RowInv /\ [Next]_vars => RowInv'
<1> SUFFICES ASSUME TypeOK, WireInv, RowInv, [Next]_vars PROVE RowInv'
  OBVIOUS
<1> USE TimingAssumption
<1>0. /\ now \in Nat
      /\ \A n \in Nodes : timer[n] \in Int
      /\ \A r \in wire : r.sent \in Int /\ r.node_id \in Nodes
      /\ \A r \in seeders : r.last_seen \in Int /\ r.node_id \in Nodes
      /\ phase \in [Nodes -> {"off", "starting", "sleeping", "calling"}]
      /\ timer \in [Nodes -> Int]
  BY DEF TypeOK, Request, TablesOK, Row
<1>1. ASSUME NEW n \in Nodes, NEW m \in Models, Start(n, m) PROVE RowInv'
  BY <1>0, <1>1 DEF Start, RowInv, tables
<1>2. ASSUME NEW n \in Nodes, Return(n) PROVE RowInv'
  BY <1>0, <1>2 DEF Return, RowInv, tables
<1>3. ASSUME NEW n \in Nodes, Beat(n) PROVE RowInv'
  BY <1>0, <1>3 DEF Beat, RowInv, tables
<1>4. ASSUME NEW n \in Nodes, Exit(n) PROVE RowInv'
  BY <1>0, <1>4 DEF Exit, RowInv, tables
<1>5. ASSUME NEW r \in wire, Handle(r) PROVE RowInv'
  <2>1. PICK t \in Clock : Announce(r.model, r.node_id, t)
    BY <1>5 DEF Handle
  <2>2. t \in Int /\ t <= now + Skew
    BY <1>0, <2>1 DEF Clock
  <2>3. phase[r.node_id] = "off" => now <= timer[r.node_id] + MaxLatency
    BY <1>0 DEF WireInv
  <2>4. UNCHANGED <<now, phase, timer>>
    BY <1>5 DEF Handle
  <2>5. ASSUME NEW q \in seeders'
        PROVE  q \in seeders \/ (q.last_seen = t /\ q.node_id = r.node_id)
    BY <2>1, UpsertRows DEF Announce
  <2> QED
    BY <1>0, <2>2, <2>3, <2>4, <2>5 DEF RowInv
<1>6. ASSUME NEW r \in wire, Lose(r) PROVE RowInv'
  BY <1>0, <1>6 DEF Lose, RowInv, tables
<1>7. ASSUME NEW m \in Models, Query(m) PROVE RowInv'
  BY <1>0, <1>7 DEF Query, QuerySeeders, Fresh, RowInv
<1>8. CASE Stop \/ Restart
  BY <1>0, <1>8 DEF Stop, Restart, RowInv, tables
<1>9. CASE Tick
  BY <1>0, <1>9 DEF Tick, RowInv, tables
<1>10. CASE UNCHANGED vars
  BY <1>0, <1>10 DEF vars, RowInv
<1> QED
  BY <1>1, <1>2, <1>3, <1>4, <1>5, <1>6, <1>7, <1>8, <1>9, <1>10 DEF Next

(***************************************************************************)
(* A process that was heard and lost no more than MaxLost announces since  *)
(* has a row that no clock reading finds stale.                            *)
(***************************************************************************)
LEMMA RowIsFresh ==
    ASSUME TypeOK, TimerInv, Covered, NEW n \in Nodes, phase[n] # "off",
           NEW r \in seeders,
           timer[n] <= r.last_seen + Skew + Rounds(Since(n)),
           NEW t \in Clock
    PROVE  r.last_seen >= t - TTL
<1> USE TimingAssumption, TTLAssumption
<1>1. /\ now \in Nat /\ timer[n] \in Int /\ lost[n] \in Nat /\ r.last_seen \in Int
      /\ t \in Int /\ t <= now + Skew
  BY DEF TypeOK, TablesOK, Row, Clock
<1>2. now <= timer[n] + MaxLatency
  <2>1. phase[n] \in {"starting", "sleeping", "calling"}
    BY DEF TypeOK
  <2> QED
    BY <1>1, <2>1 DEF TimerInv, Calling
<1>3. Since(n) \in Nat /\ Since(n) <= MaxLost + 1
  BY <1>1 DEF Since, TimerInv
<1>4. Rounds(Since(n)) <= Rounds(MaxLost + 1) /\ Rounds(Since(n)) \in Nat
  BY <1>3, RoundsMonotone, RoundsStep
<1>5. Rounds(MaxLost + 1) \in Nat /\ LongestSilence = Rounds(MaxLost + 1) + MaxLatency
  BY RoundsStep DEF LongestSilence, Rounds, Period
<1> QED
  BY <1>1, <1>2, <1>4, <1>5 DEF Covered

(***************************************************************************)
(* A step that leaves a process, its request and its row alone.            *)
(***************************************************************************)
LEMMA Undisturbed ==
    ASSUME NEW n \in Nodes, HasRow(n),
           phase'[n] = phase[n], serves'[n] = serves[n], timer'[n] = timer[n],
           lost'[n] = lost[n],
           Own(n) \in wire' <=> Own(n) \in wire,
           \A r \in seeders : r.model = serves[n] /\ r.node_id = n => r \in seeders'
    PROVE  HasRow(n)'
<1>1. Since(n)' = Since(n)
  BY DEF Since, Calling, Own
<1> QED
  BY <1>1 DEF HasRow

LEMMA StepHeard ==
    TypeOK /\ WireInv /\ TimerInv /\ HeardInv /\ [Next]_vars => HeardInv'
<1> SUFFICES ASSUME TypeOK, WireInv, TimerInv, HeardInv, [Next]_vars, Covered,
                    NEW n \in Nodes, phase'[n] # "off", heard'[n]
             PROVE  HasRow(n)'
  BY DEF HeardInv, Covered, LongestSilence
<1> USE TimingAssumption
<1>0. /\ now \in Nat /\ timer[n] \in Int /\ lost[n] \in Nat
      /\ \A r \in wire : r \in Request
      /\ \A r \in seeders : r.last_seen \in Int
      /\ phase \in [Nodes -> {"off", "starting", "sleeping", "calling"}]
      /\ timer \in [Nodes -> Int] /\ lost \in [Nodes -> Nat]
      /\ serves \in [Nodes -> Models]
      /\ heard \in [Nodes -> BOOLEAN]
  BY DEF TypeOK, TablesOK, Row
<1>h. phase[n] # "off" /\ heard[n] => HasRow(n)
  BY DEF HeardInv
<1>1. ASSUME NEW k \in Nodes, NEW m \in Models, Start(k, m) PROVE HasRow(n)'
  <2>1. n # k
    BY <1>0, <1>1 DEF Start
  <2>2. Own(n) \in wire' <=> Own(n) \in wire
    BY <1>1, <2>1 DEF Start, Call, Own
  <2> QED
    BY <1>0, <1>h, <1>1, <2>1, <2>2, Undisturbed DEF Start, tables
<1>2. ASSUME NEW k \in Nodes, Return(k) PROVE HasRow(n)'
  <2>1. CASE n # k
    BY <1>0, <1>h, <1>2, <2>1, Undisturbed DEF Return, tables
  <2>2. CASE n = k
    <3>1. HasRow(n) /\ Calling(n) /\ Own(n) \notin wire
      BY <1>h, <1>2, <2>2 DEF Return, Calling
    <3>2. PICK r \in seeders : /\ r.model = serves[n] /\ r.node_id = n
                               /\ timer[n] <= r.last_seen + Skew + Rounds(lost[n])
      BY <3>1 DEF HasRow, Since
    <3>3. /\ phase'[n] = "sleeping" /\ timer'[n] = now + Heartbeat
          /\ seeders' = seeders /\ serves' = serves /\ lost' = lost
      BY <1>0, <1>2, <2>2 DEF Return, tables
    <3>4. now <= timer[n] + MaxLatency
      BY <3>1 DEF TimerInv
    <3>5. Since(n)' = lost[n] + 1
      BY <3>3 DEF Since, Calling
    <3>6. Rounds(lost[n] + 1) = Rounds(lost[n]) + Heartbeat + MaxLatency
          /\ Rounds(lost[n]) \in Nat
      BY <1>0, RoundsStep, PeriodType DEF Period
    <3>7. timer'[n] <= r.last_seen + Skew + Rounds(lost[n] + 1)
      BY <1>0, <3>2, <3>3, <3>4, <3>6
    <3> QED
      BY <3>2, <3>3, <3>5, <3>7 DEF HasRow
  <2> QED
    BY <2>1, <2>2
<1>3. ASSUME NEW k \in Nodes, Beat(k) PROVE HasRow(n)'
  <2>1. CASE n # k
    <3>1. Own(n) \in wire' <=> Own(n) \in wire
      BY <1>3, <2>1 DEF Beat, Call, Own
    <3> QED
      BY <1>0, <1>h, <1>3, <2>1, <3>1, Undisturbed DEF Beat, tables
  <2>2. CASE n = k
    <3>1. HasRow(n) /\ phase[n] = "sleeping"
      BY <1>h, <1>3, <2>2 DEF Beat
    <3>2. PICK r \in seeders : /\ r.model = serves[n] /\ r.node_id = n
                               /\ timer[n] <= r.last_seen + Skew + Rounds(lost[n] + 1)
      BY <3>1 DEF HasRow, Since, Calling
    <3>3. /\ phase'[n] = "calling" /\ timer'[n] = now
          /\ seeders' = seeders /\ serves' = serves /\ lost' = lost
      BY <1>0, <1>3, <2>2 DEF Beat, tables
    <3>4. Own(n)' \in wire'
      BY <1>3, <2>2, <3>3 DEF Beat, Call, Own
    <3>5. Since(n)' = lost[n] + 1
      BY <3>3, <3>4 DEF Since
    <3>6. now = timer[n]
      BY <1>0, <1>3, <2>2, <3>1 DEF Beat, TimerInv
    <3> QED
      BY <3>2, <3>3, <3>5, <3>6 DEF HasRow
  <2> QED
    BY <2>1, <2>2
<1>4. ASSUME NEW k \in Nodes, Exit(k) PROVE HasRow(n)'
  <2>1. n # k
    BY <1>0, <1>4 DEF Exit
  <2> QED
    BY <1>0, <1>h, <1>4, <2>1, Undisturbed DEF Exit, tables
<1>5. ASSUME NEW r \in wire, Handle(r) PROVE HasRow(n)'
  <2>1. PICK t \in Clock : Announce(r.model, r.node_id, t)
    BY <1>5 DEF Handle
  <2>2. t \in Int /\ now <= t + Skew
    BY <1>0, <2>1 DEF Clock
  <2>3. UNCHANGED <<now, phase, serves, timer>> /\ wire' = wire \ {r}
    BY <1>5 DEF Handle
  <2>4. CASE r.model = serves[n] /\ r.node_id = n
    <3> DEFINE q == [model |-> serves[n], node_id |-> n, last_seen |-> t]
    <3>1. q \in seeders'
      BY <2>1, <2>4, UpsertRows DEF Announce
    <3>2. lost'[n] \in Nat
      BY <1>0, <1>5 DEF Handle
    <3>3. CASE Calling(n)
      <4>1. timer[n] <= now
        BY <3>3 DEF TimerInv
      <4>2. Since(n)' \in Nat
        BY <3>2 DEF Since
      <4>3. Rounds(Since(n)') \in Nat
        BY <4>2, RoundsStep
      <4>4. timer[n] <= t + Skew + Rounds(Since(n)')
        BY <1>0, <2>2, <4>1, <4>3
      <4> QED
        BY <2>3, <3>1, <4>4 DEF HasRow, Rounds
    <3>4. CASE ~Calling(n)
      <4>1. phase[n] = "sleeping"
        BY <1>0, <2>3, <3>4 DEF Calling
      <4>2. timer[n] <= now + Heartbeat
        BY <4>1 DEF TimerInv
      <4>3. Since(n)' = lost'[n] + 1
        BY <2>3, <3>4 DEF Since, Calling
      <4>4. Rounds(lost'[n] + 1) = Rounds(lost'[n]) + Period /\ Rounds(lost'[n]) \in Nat
        BY <3>2, RoundsStep
      <4>5. timer[n] <= t + Skew + Rounds(Since(n)')
        BY <1>0, <2>2, <4>2, <4>3, <4>4, PeriodType
      <4> QED
        BY <2>3, <3>1, <4>5 DEF HasRow, Rounds
    <3> QED
      BY <3>3, <3>4
  <2>5. CASE r.model # serves[n] \/ r.node_id # n
    <3>1. r # Own(n)
      BY <2>5 DEF Own
    <3>2. Own(n) \in wire' <=> Own(n) \in wire
      BY <2>3, <3>1
    <3>3. lost'[n] = lost[n] /\ heard'[n] = heard[n]
      <4>1. CASE Current(r)
        <5>1. r.node_id # n
          BY <3>1, <4>1 DEF Current
        <5> QED
          BY <1>0, <1>5, <4>1, <5>1 DEF Handle
      <4>2. CASE ~Current(r)
        BY <1>5, <4>2 DEF Handle
      <4> QED
        BY <4>1, <4>2
    <3>4. \A q \in seeders : q.model = serves[n] /\ q.node_id = n => q \in seeders'
      BY <2>1, <2>5, UpsertRows DEF Announce
    <3> QED
      BY <1>h, <2>3, <3>2, <3>3, <3>4, Undisturbed
  <2> QED
    BY <2>4, <2>5
<1>6. ASSUME NEW r \in wire, Lose(r) PROVE HasRow(n)'
  <2>1. /\ UNCHANGED <<seeders, phase, serves, timer, heard>>
        /\ wire' = wire \ {r}
        /\ HasRow(n)
    BY <1>h, <1>6 DEF Lose, tables
  <2>2. CASE r = Own(n)
    <3>1. Since(n)' = Since(n)
      <4>1. CASE Calling(n)
        <5>1. r.node_id = n
          BY <2>2 DEF Own
        <5>2. Current(r)
          BY <2>2, <4>1, <5>1 DEF Current
        <5>3. lost'[n] = lost[n] + 1
          BY <1>0, <1>6, <5>1, <5>2 DEF Lose
        <5>4. Own(n)' \notin wire' /\ Own(n) \in wire /\ Calling(n)'
          BY <2>1, <2>2, <4>1 DEF Own, Calling
        <5> QED
          BY <4>1, <5>3, <5>4 DEF Since
      <4>2. CASE ~Calling(n)
        <5>1. r.node_id = n
          BY <2>2 DEF Own
        <5>2. ~Current(r)
          BY <4>2, <5>1 DEF Current
        <5> QED
          BY <1>6, <2>1, <4>2, <5>2 DEF Lose, Since, Calling
      <4> QED
        BY <4>1, <4>2
    <3> QED
      BY <2>1, <3>1 DEF HasRow
  <2>3. CASE r # Own(n)
    <3>1. lost'[n] = lost[n]
      <4>1. CASE Current(r)
        <5>1. r.node_id # n
          BY <2>3, <4>1 DEF Current
        <5> QED
          BY <1>0, <1>6, <4>1, <5>1 DEF Lose
      <4>2. CASE ~Current(r)
        BY <1>6, <4>2 DEF Lose
      <4> QED
        BY <4>1, <4>2
    <3> QED
      BY <2>1, <2>3, <3>1, Undisturbed
  <2> QED
    BY <2>2, <2>3
<1>7. ASSUME NEW m \in Models, Query(m) PROVE HasRow(n)'
  <2>1. PICK t \in Clock : QuerySeeders(m, t)
    BY <1>7 DEF Query
  <2>2. /\ UNCHANGED <<phase, serves, timer, wire, lost, heard>>
        /\ HasRow(n)
    BY <1>h, <1>7 DEF Query
  <2>3. PICK r \in seeders : /\ r.model = serves[n] /\ r.node_id = n
                             /\ timer[n] <= r.last_seen + Skew + Rounds(Since(n))
    BY <2>2 DEF HasRow
  <2>4. r \in seeders'
    BY <2>1, <2>2, <2>3, RowIsFresh DEF QuerySeeders, Fresh, Cutoff
  <2>5. Since(n)' = Since(n)
    BY <2>2 DEF Since, Calling, Own
  <2> QED
    BY <2>2, <2>3, <2>4, <2>5 DEF HasRow
<1>8. CASE Stop \/ Restart \/ Tick
  BY <1>h, <1>8, Undisturbed DEF Stop, Restart, Tick, tables, Own
<1>9. CASE UNCHANGED vars
  BY <1>h, <1>9, Undisturbed DEF vars, Own
<1> QED
  BY <1>1, <1>2, <1>3, <1>4, <1>5, <1>6, <1>7, <1>8, <1>9 DEF Next

THEOREM Inductive == Spec => []IInv
<1>1. IInv /\ [Next]_vars => IInv'
  BY StepType, StepTimes, StepRows, StepHeard DEF IInv
<1> QED
  BY InitIInv, <1>1, PTL DEF Spec

(***************************************************************************)
(* Rows, requests and process states keep their types, and (model, node)   *)
(* stays a key of the seeders table.                                       *)
(***************************************************************************)
THEOREM TypeCorrect == Spec => []TypeOK
<1>1. IInv => TypeOK
  BY DEF IInv
<1> QED
  BY <1>1, Inductive, PTL

(***************************************************************************)
(* A serving node is found: from the first announce the registry handles   *)
(* until the process exits, every answer for its model names it, whenever  *)
(* (MaxLost + 1) * (Heartbeat + MaxLatency) + MaxLatency + 2 * Skew <= TTL.*)
(***************************************************************************)
THEOREM ServingIsListed == Spec => []KeepListed
<1>1. IInv => KeepListed
  <2> SUFFICES ASSUME IInv, Covered, NEW n \in Nodes, phase[n] # "off", heard[n],
                      NEW t \in Clock
               PROVE  n \in Listed(serves[n], t)
    BY DEF KeepListed, Covered
  <2>1. PICK r \in seeders : /\ r.model = serves[n] /\ r.node_id = n
                             /\ timer[n] <= r.last_seen + Skew + Rounds(Since(n))
    BY DEF IInv, HeardInv, HasRow
  <2>2. r.last_seen >= t - TTL
    BY <2>1, RowIsFresh DEF IInv
  <2> QED
    BY <2>1, <2>2, ListedRows
<1> QED
  BY <1>1, Inductive, PTL

(***************************************************************************)
(* In seconds, with the constants of the code -- HEARTBEAT of cli and      *)
(* validator, SEEDER_TTL_SECS of the registry: a serving node stays in     *)
(* every answer although three heartbeats in a row are lost, each request  *)
(* takes up to 20 seconds and the clock is off by up to 10.  A fourth lost *)
(* heartbeat is covered only when requests take no time and the clock is   *)
(* right.                                                                  *)
(***************************************************************************)
THEOREM ThreeLostHeartbeats ==
    ASSUME Heartbeat = 120, TTL = 600, MaxLost <= 3, MaxLatency <= 20, Skew <= 10
    PROVE  Spec => [](\A n \in Nodes : phase[n] # "off" /\ heard[n] =>
                         \A t \in Clock : n \in Listed(serves[n], t))
<1>1. LongestSilence + 2 * Skew <= TTL
  <2>1. /\ MaxLost \in {0, 1, 2, 3} /\ MaxLatency \in Nat /\ Skew \in Nat
    BY TimingAssumption
  <2>2. (MaxLost + 1) * (120 + MaxLatency) <= 480 + 4 * MaxLatency
    BY <2>1
  <2>3. (MaxLost + 1) * (120 + MaxLatency) \in Nat
    BY <2>1
  <2> QED
    BY <2>1, <2>2, <2>3 DEF LongestSilence
<1>2. KeepListed => \A n \in Nodes : phase[n] # "off" /\ heard[n] =>
                        \A t \in Clock : n \in Listed(serves[n], t)
  BY <1>1 DEF KeepListed
<1> QED
  BY <1>2, ServingIsListed, PTL

(***************************************************************************)
(* A dead node is forgotten after TTL + MaxLatency + 2 * Skew, although    *)
(* no one ever removes it.                                                 *)
(***************************************************************************)
THEOREM DeadIsForgotten == Spec => []GoneIsForgotten
<1>1. IInv => GoneIsForgotten
  <2> USE TimingAssumption, TTLAssumption
  <2> SUFFICES ASSUME IInv, NEW n \in Nodes, phase[n] = "off",
                      now > timer[n] + TTL + MaxLatency + 2 * Skew,
                      NEW m \in Models, NEW t \in Clock, n \in Listed(m, t)
               PROVE  FALSE
    BY DEF GoneIsForgotten
  <2>1. PICK r \in seeders : r.node_id = n /\ r.last_seen >= t - TTL
    BY ListedRows
  <2>2. /\ now \in Nat /\ timer[n] \in Int /\ r.last_seen \in Int
        /\ t \in Int /\ t >= now - Skew
    BY DEF IInv, TypeOK, TablesOK, Row, Clock
  <2>3. r.last_seen <= timer[n] + MaxLatency + Skew
    BY <2>1 DEF IInv, RowInv
  <2> QED
    BY <2>1, <2>2, <2>3
<1> QED
  BY <1>1, Inductive, PTL
-----------------------------------------------------------------------------
(***************************************************************************)
(* The refinement.  `Lists' in terms of rows, before and after a step.     *)
(***************************************************************************)
Answers(r, p, t) == r.model = p[1] /\ r.node_id = p[2] /\ r.last_seen >= t - TTL

OnList(rows, p, t) == \E r \in rows : Answers(r, p, t)

LEMMA ListsRows ==
    /\ Lists = {p \in Models \X Nodes : OnList(seeders, p, now + Skew)}
    /\ Lists' = {p \in Models \X Nodes : OnList(seeders', p, now' + Skew)}
<1>1. \A m, n : n \in Listed(m, now + Skew) <=> OnList(seeders, <<m, n>>, now + Skew)
  BY DEF Listed, Fresh, Cutoff, OnList, Answers
<1>2. \A m, n : n \in Listed(m, now + Skew)' <=> OnList(seeders', <<m, n>>, now' + Skew)
  BY DEF Listed, Fresh, Cutoff, OnList, Answers
<1> QED
  BY <1>1, <1>2 DEF Lists, OnList, Answers

LEMMA SameLists ==
    ASSUME UNCHANGED <<seeders, now>>
    PROVE  Lists' = Lists
BY ListsRows

(***************************************************************************)
(* Whoever is known to serve is on its list.                               *)
(***************************************************************************)
LEMMA KnownIsListed ==
    ASSUME IInv, Covered, NEW n \in Nodes, phase[n] # "off", heard[n]
    PROVE  /\ OnList(seeders, <<serves[n], n>>, now + Skew)
           /\ <<serves[n], n>> \in Lists
<1>1. PICK r \in seeders : /\ r.model = serves[n] /\ r.node_id = n
                           /\ timer[n] <= r.last_seen + Skew + Rounds(Since(n))
  BY DEF IInv, HeardInv, HasRow
<1>2. now + Skew \in Clock
  BY TimingAssumption DEF Clock, IInv, TypeOK
<1>3. r.last_seen >= (now + Skew) - TTL
  BY <1>1, <1>2, RowIsFresh DEF IInv
<1>4. OnList(seeders, <<serves[n], n>>, now + Skew)
  BY <1>1, <1>3 DEF OnList, Answers
<1>5. <<serves[n], n>> \in Models \X Nodes
  BY DEF IInv, TypeOK
<1> QED
  BY <1>4, <1>5, ListsRows

UpIsListed == Listing!Up \subseteq Lists

LEMMA UpListed == Covered => (IInv => UpIsListed)
<1> SUFFICES ASSUME IInv, Covered, NEW n \in Nodes, Known[n] # Nobody
             PROVE  <<Known[n], n>> \in Lists
  BY DEF UpIsListed, Listing!Up
<1>1. phase[n] # "off" /\ heard[n] /\ Known[n] = serves[n]
  BY DEF Known
<1> QED
  BY <1>1, KnownIsListed

LEMMA UpListedNext == Covered => (IInv' => UpIsListed')
<1> SUFFICES ASSUME Covered PROVE IInv' => UpIsListed'
  OBVIOUS
<1>1. IInv => UpIsListed
  BY UpListed
<1> QED
  BY <1>1, PTL

LEMMA ListingInit == Init => Listing!Init
<1> SUFFICES ASSUME Init PROVE Listing!Init
  OBVIOUS
<1>1. Calls = {}
  BY DEF Init, Calls
<1>2. Known = [n \in Nodes |-> Nobody]
  BY DEF Init, Known
<1>3. Lists = {}
  BY ListsRows DEF Init, TablesInit, OnList
<1> QED
  BY <1>1, <1>2, <1>3 DEF Listing!Init

(***************************************************************************)
(* What removing a request does to the pairs under way.                    *)
(***************************************************************************)
LEMMA AnsweredCalls ==
    ASSUME TypeOK, NEW r \in wire, wire' = wire \ {r}
    PROVE  Listing!Answered(r.model, r.node_id)
<1>1. <<r.model, r.node_id>> \in Calls
  BY DEF Calls
<1>2. Calls' = {<<q.model, q.node_id>> : q \in wire \ {r}}
  BY DEF Calls
<1>3. \A x : x \in Calls' => x \in Calls
  BY <1>2 DEF Calls
<1>4. \A x : x \in Calls /\ x # <<r.model, r.node_id>> => x \in Calls'
  BY <1>2 DEF Calls
<1>5. CASE <<r.model, r.node_id>> \in Calls'
  <2>1. Calls' = Calls
    BY <1>1, <1>3, <1>4, <1>5
  <2> QED
    BY <1>1, <2>1 DEF Listing!Answered
<1>6. CASE <<r.model, r.node_id>> \notin Calls'
  <2>1. Calls' = Calls \ {<<r.model, r.node_id>>}
    BY <1>1, <1>3, <1>4, <1>6
  <2> QED
    BY <1>1, <2>1 DEF Listing!Answered
<1> QED
  BY <1>5, <1>6

LEMMA CallAdds ==
    ASSUME NEW n, NEW m, Call(n, m)
    PROVE  Calls' = Calls \cup {<<m, n>>}
<1> DEFINE q == [model |-> m, node_id |-> n, sent |-> now]
<1>1. wire' = wire \cup {q}
  BY DEF Call
<1>2. <<q.model, q.node_id>> = <<m, n>>
  OBVIOUS
<1>3. Calls' = {<<r.model, r.node_id>> : r \in wire \cup {q}}
  BY <1>1 DEF Calls
<1> QED
  BY <1>2, <1>3, Zenon DEF Calls
(***************************************************************************)
(* Every step is a step of SeederList or changes nothing that shows.       *)
(***************************************************************************)
LEMMA ListingStep ==
    ASSUME Covered, IInv, IInv', [Next]_vars
    PROVE  [Listing!Next]_(Listing!vars)
<1> USE TimingAssumption, TTLAssumption
<1>0. /\ now \in Nat
      /\ phase \in [Nodes -> {"off", "starting", "sleeping", "calling"}]
      /\ serves \in [Nodes -> Models]
      /\ heard \in [Nodes -> BOOLEAN]
      /\ \A r \in wire : r.model \in Models /\ r.node_id \in Nodes
      /\ \A r \in seeders : r.last_seen \in Int
  BY DEF IInv, TypeOK, TablesOK, Row, Request
<1>1. ASSUME NEW n \in Nodes, NEW m \in Models, Start(n, m)
      PROVE  Listing!Call(m, n)
  <2>1. Calls' = Calls \cup {<<m, n>>}
    BY <1>1, CallAdds DEF Start
  <2>2. Known' = Known
    BY <1>0, <1>1 DEF Start, Known
  <2>3. Lists' = Lists
    BY <1>1, SameLists DEF Start, tables
  <2> QED
    BY <2>1, <2>2, <2>3 DEF Listing!Call
<1>2. ASSUME NEW n \in Nodes, Return(n)
      PROVE  UNCHANGED Listing!vars
  <2>1. Known' = Known
    BY <1>0, <1>2 DEF Return, Known, Calling
  <2>2. Lists' = Lists
    BY <1>2, SameLists DEF Return, tables
  <2> QED
    BY <1>2, <2>1, <2>2 DEF Return, Calls, Listing!vars
<1>3. ASSUME NEW n \in Nodes, Beat(n)
      PROVE  Listing!Call(serves[n], n)
  <2>1. Calls' = Calls \cup {<<serves[n], n>>}
    BY <1>3, CallAdds DEF Beat
  <2>2. Known' = Known
    BY <1>0, <1>3 DEF Beat, Known
  <2>3. Lists' = Lists
    BY <1>3, SameLists DEF Beat, tables
  <2> QED
    BY <2>1, <2>2, <2>3 DEF Listing!Call
<1>4. ASSUME NEW n \in Nodes, Exit(n)
      PROVE  Listing!Leave(n)
  <2>1. Known' = [Known EXCEPT ![n] = Nobody]
    BY <1>0, <1>4 DEF Exit, Known
  <2>2. Lists' = Lists
    BY <1>4, SameLists DEF Exit, tables
  <2> QED
    BY <1>4, <2>1, <2>2 DEF Exit, Calls, Listing!Leave
<1>5. ASSUME NEW r \in wire, Handle(r)
      PROVE  Listing!Hear(r.model, r.node_id)
  <2> DEFINE m == r.model
             n == r.node_id
  <2>0. m \in Models /\ n \in Nodes
    BY <1>0
  <2>1. PICK t \in Clock : Announce(m, n, t)
    BY <1>5 DEF Handle
  <2>2. t \in Int /\ t >= now + Skew - TTL
    <3>1. t \in Int /\ t >= now - Skew
      BY <1>0, <2>1 DEF Clock
    <3>2. LongestSilence \in Nat
      BY RoundsStep DEF LongestSilence, Rounds, Period
    <3> QED
      BY <1>0, <3>1, <3>2 DEF Covered
  <2>3. Lists' = Lists \cup {<<m, n>>}
    <3>1. now' = now
      BY <1>5 DEF Handle
    <3>2. ASSUME NEW p \in Models \X Nodes
          PROVE  OnList(seeders', p, now + Skew) <=>
                   OnList(seeders, p, now + Skew) \/ p = <<m, n>>
      <4>1. CASE p = <<m, n>>
        <5> DEFINE row == [model |-> m, node_id |-> n, last_seen |-> t]
        <5>1. row \in seeders'
          BY <2>1, UpsertRows DEF Announce
        <5>2. row.model = p[1] /\ row.node_id = p[2] /\ row.last_seen = t
          BY <4>1
        <5> HIDE DEF row
        <5>3. Answers(row, p, now + Skew)
          <6>1. row.last_seen >= (now + Skew) - TTL
            BY <1>0, <2>2, <5>2
          <6> QED
            BY <5>2, <6>1, Zenon DEF Answers
        <5>4. OnList(seeders', p, now + Skew)
          BY <5>1, <5>3, Zenon DEF OnList
        <5> QED
          BY <4>1, <5>4
      <4>2. CASE p # <<m, n>>
        <5>1. ASSUME NEW q, q.model = p[1], q.node_id = p[2]
              PROVE  q \in seeders' <=> q \in seeders
          <6>1. q.model # m \/ q.node_id # n
            BY <4>2, <5>1
          <6> QED
            BY <2>1, <6>1, UpsertRows DEF Announce
        <5> QED
          BY <4>2, <5>1 DEF OnList, Answers
      <4> QED
        BY <4>1, <4>2
    <3> QED
      BY <2>0, <3>1, <3>2, ListsRows
  <2>4. Listing!Answered(m, n)
    BY <1>5, AnsweredCalls DEF Handle, IInv
  <2>5. \/ Known[n] \in {Nobody, m} /\ Known' = [Known EXCEPT ![n] = m]
        \/ UNCHANGED Known
    <3>1. UNCHANGED <<phase, serves>>
      BY <1>5 DEF Handle
    <3>2. CASE Current(r)
      <4>1. phase[n] # "off" /\ serves[n] = m
        BY <3>2 DEF Current, Calling, Own
      <4>2. heard' = [heard EXCEPT ![n] = TRUE]
        BY <1>5, <3>2 DEF Handle
      <4>3. Known[n] \in {Nobody, m}
        BY <2>0, <4>1 DEF Known
      <4>4. Known' = [Known EXCEPT ![n] = m]
        BY <1>0, <2>0, <3>1, <4>1, <4>2 DEF Known
      <4> QED
        BY <4>3, <4>4
    <3>3. CASE ~Current(r)
      BY <1>5, <3>1, <3>3 DEF Handle, Known
    <3> QED
      BY <3>2, <3>3
  <2> QED
    BY <2>3, <2>4, <2>5 DEF Listing!Hear
<1>6. ASSUME NEW r \in wire, Lose(r)
      PROVE  Listing!Lose(r.model, r.node_id)
  <2>1. Listing!Answered(r.model, r.node_id)
    BY <1>6, AnsweredCalls DEF Lose, IInv
  <2>2. Known' = Known
    BY <1>6 DEF Lose, Known
  <2>3. Lists' = Lists
    BY <1>6, SameLists DEF Lose, tables
  <2> QED
    BY <2>1, <2>2, <2>3 DEF Listing!Lose
<1>7. ASSUME NEW m \in Models, Query(m)
      PROVE  UNCHANGED Listing!vars
  <2>1. PICK t \in Clock : QuerySeeders(m, t)
    BY <1>7 DEF Query
  <2>2. t \in Int /\ t <= now + Skew /\ now' = now
    BY <1>0, <1>7, <2>1 DEF Clock, Query
  <2>3. \A p : OnList(seeders', p, now + Skew) <=> OnList(seeders, p, now + Skew)
    <3>1. ASSUME NEW q \in seeders, NEW p, Answers(q, p, now + Skew)
          PROVE  q \in seeders'
      <4>1. q.last_seen \in Int
        BY <1>0
      <4>2. q.last_seen >= t - TTL
        BY <1>0, <2>2, <3>1, <4>1 DEF Answers
      <4> QED
        BY <2>1, <4>2 DEF QuerySeeders, Fresh, Cutoff
    <3>2. seeders' \subseteq seeders
      BY <2>1 DEF QuerySeeders, Fresh
    <3>3. ASSUME NEW p, OnList(seeders', p, now + Skew)
          PROVE  OnList(seeders, p, now + Skew)
      BY <3>2, <3>3, Zenon DEF OnList
    <3>4. ASSUME NEW p, OnList(seeders, p, now + Skew)
          PROVE  OnList(seeders', p, now + Skew)
      BY <3>1, <3>4, Zenon DEF OnList
    <3> QED
      BY <3>3, <3>4
  <2>4. Lists' = Lists
    BY <2>2, <2>3, ListsRows
  <2> QED
    BY <1>7, <2>4 DEF Query, Calls, Known, Listing!vars
<1>8. CASE Stop \/ Restart
  <2>1. Lists' = Lists
    BY <1>8, SameLists DEF Stop, Restart, tables
  <2>2. Known' = Known
    BY <1>8 DEF Stop, Restart, Known
  <2>3. Calls' = Calls
    BY <1>8 DEF Stop, Restart, Calls
  <2> QED
    BY <2>1, <2>2, <2>3 DEF Listing!vars
<1>9. ASSUME Tick
      PROVE  Listing!Forget
  <2>1. now' = now + 1 /\ seeders' = seeders
    BY <1>9 DEF Tick, tables
  <2>2. \A p : OnList(seeders, p, now' + Skew) => OnList(seeders, p, now + Skew)
    BY <1>0, <2>1 DEF OnList, Answers
  <2>3. Lists' \in SUBSET Lists
    BY <2>1, <2>2, ListsRows
  <2>4. Known' = Known /\ Calls' = Calls
    BY <1>9 DEF Tick, Known, Calls
  <2>5. Listing!Up \subseteq Lists'
    BY <2>4, UpListedNext DEF UpIsListed, Listing!Up
  <2> QED
    BY <2>3, <2>4, <2>5 DEF Listing!Forget
<1>10. CASE UNCHANGED vars
  <2>1. Lists' = Lists
    BY <1>10, SameLists DEF vars
  <2>2. Known' = Known /\ Calls' = Calls
    BY <1>10 DEF vars, Known, Calls
  <2> QED
    BY <2>1, <2>2 DEF Listing!vars
<1> QED
  BY <1>0, <1>1, <1>2, <1>3, <1>4, <1>5, <1>6, <1>7, <1>8, <1>9, <1>10
     DEF Next, Listing!Next

(***************************************************************************)
(* The registry with its seeding nodes implements the clockless list of    *)
(* SeederList: a node that was heard never drops off its model's list      *)
(* while it serves, whenever the time-to-live covers the longest silence   *)
(* and the clock's error.                                                  *)
(***************************************************************************)
THEOREM SeedingIsAList == Covered => (Spec => ImplementsSeederList)
<1> SUFFICES ASSUME Covered PROVE Spec => ImplementsSeederList
  OBVIOUS
<1>1. IInv /\ IInv' /\ [Next]_vars => [Listing!Next]_(Listing!vars)
  BY ListingStep
<1> QED
  BY <1>1, ListingInit, Inductive, PTL DEF Spec, ImplementsSeederList, Listing!Spec
=========================================================================
