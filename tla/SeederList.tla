--------------------------- MODULE SeederList ---------------------------
(***************************************************************************)
(* What the registry promises about seeders (docs/roles/registry.md),      *)
(* without clocks, rows or restarts: nodes call, some calls are heard, and *)
(* a node that was heard stays on its model's list until it leaves.  Only  *)
(* a heard call puts a node on a list, and only nodes that left, or that   *)
(* moved to another model, may drop out.                                   *)
(***************************************************************************)
CONSTANTS
    Models,
    Nodes,
    Nobody          \* a node that was not heard since it came, or that left

VARIABLES
    called,         \* <<model, node>> of the calls under way
    up,             \* node |-> the model it is known to serve, or Nobody
    listed          \* <<model, node>>: the lists of all models

vars == <<called, up, listed>>

Up == {<<up[n], n>> : n \in {k \in Nodes : up[k] # Nobody}}

Init ==
    /\ called = {}
    /\ up = [n \in Nodes |-> Nobody]
    /\ listed = {}

Call(m, n) ==
    /\ called' = called \cup {<<m, n>>}
    /\ UNCHANGED <<up, listed>>

(***************************************************************************)
(* The same node may have more than one call under way for a model, so the *)
(* pair may stay; and the call of a process that is gone changes only the  *)
(* list.                                                                   *)
(***************************************************************************)
Answered(m, n) ==
    /\ <<m, n>> \in called
    /\ called' \in {called, called \ {<<m, n>>}}

Hear(m, n) ==
    /\ Answered(m, n)
    /\ listed' = listed \cup {<<m, n>>}
    /\ \/ up[n] \in {Nobody, m} /\ up' = [up EXCEPT ![n] = m]
       \/ UNCHANGED up

Lose(m, n) ==
    /\ Answered(m, n)
    /\ UNCHANGED <<up, listed>>

Leave(n) ==
    /\ up' = [up EXCEPT ![n] = Nobody]
    /\ UNCHANGED <<called, listed>>

Forget ==
    /\ listed' \in SUBSET listed
    /\ Up \subseteq listed'
    /\ UNCHANGED <<called, up>>

Next ==
    \/ \E m \in Models, n \in Nodes : Call(m, n) \/ Hear(m, n) \/ Lose(m, n)
    \/ \E n \in Nodes : Leave(n)
    \/ Forget

Spec == Init /\ [][Next]_vars
=========================================================================
