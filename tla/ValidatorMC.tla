--------------------------- MODULE ValidatorMC --------------------------
(***************************************************************************)
(* A small instance of Validator: four files, one of them not allowed, two *)
(* of the same name, in lists whose order is not that of the names.        *)
(***************************************************************************)
EXTENDS Validator, TLC

CONSTANTS f1, f2, f3, f4, x, y

MCRel == f1 :> 2 @@ f2 :> 1 @@ f3 :> 0 @@ f4 :> 1

MCContents == f1 :> {<<x, y>>, <<y>>} @@ f2 :> {<<x>>} @@ f3 :> {<<x>>} @@ f4 :> {<<y>>}

AllFaults == {"moves", "gone", "headless", "bodiless", "unframed", "relisted"}

MCFaultSets == {F \in SUBSET AllFaults : Cardinality(F) <= 2}

RelistedOnly == {{"relisted"}}

ShorterList == {<<f1, f2>>, <<f2>>}

MCArgLists == {<<f1, f2>>, <<f4, f3, f2>>, <<f3>>}
=========================================================================
