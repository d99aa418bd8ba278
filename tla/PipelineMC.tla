--------------------------- MODULE PipelineMC ---------------------------
(***************************************************************************)
(* Small instances of Pipeline: at most two validators, two folders that   *)
(* share a path but not its contents, so that one is a later version that  *)
(* drops a file of the other.                                              *)
(***************************************************************************)
EXTENDS Pipeline, TLC

CONSTANTS v1, v2, id1, id2, k1, k2, p, q, h1, h2, ma, MinSigners

MCIdOf == [v \in Validators |-> IF v = v1 THEN id1 ELSE id2]
MCKeyOf == [v \in Validators |-> IF v = v1 THEN k1 ELSE k2]

MCPinned ==
    [quorum |-> MinSigners,
     validators |-> <<[id |-> id1, key |-> k1], [id |-> id2, key |-> k2]>>]

Small == <<[path |-> p, blake3 |-> h1]>>
Large == <<[path |-> p, blake3 |-> h2], [path |-> q, blake3 |-> h1]>>

(***************************************************************************)
(* Two files of a folder that import_dir gives the same name.              *)
(***************************************************************************)
Twice == <<[path |-> p, blake3 |-> h1], [path |-> p, blake3 |-> h1]>>

MCFolders == {Large, Twice}

MCLarge == {Large}

MCSmall == {Small}

(***************************************************************************)
(* Bounds: each validator signs one record, all of one model; the other    *)
(* model is only asked for.                                                *)
(***************************************************************************)
FewRecords ==
    \A v \in Validators :
        /\ want[v] \in {None, ma}
        /\ pc[v] = "imported" => \A s \in signed : s.validator # IdOf[v]

(***************************************************************************)
(* A record whose file list is not its collection.                         *)
(***************************************************************************)
Mismatched ==
    {[name |-> ma, version |-> 1, files |-> Range(Large), collection |-> Small,
      signatures |-> <<>>]}
=========================================================================
