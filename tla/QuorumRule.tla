--------------------------- MODULE QuorumRule ---------------------------
(***************************************************************************)
(* What the keyring promises, without loops, tables or early returns: one  *)
(* question (a keyring and a manifest), one answer, and the answer is the  *)
(* one rule of docs/trust-model.md -- a manifest is truth exactly when at  *)
(* least `quorum' different members of the keyring signed it.              *)
(***************************************************************************)
EXTENDS Manifest

CONSTANTS
    Keyrings,   \* the keyrings a client may have pinned
    Manifests   \* the manifests a registry may answer with

VARIABLES
    keyring,    \* the pinned trust configuration
    manifest,   \* the manifest under verification
    verdict     \* "pending", then "accepted", "rejected" or "error"

vars == <<keyring, manifest, verdict>>

-----------------------------------------------------------------------------
Init ==
    /\ keyring \in Keyrings
    /\ manifest \in Manifests
    /\ verdict = "pending"

Decide ==
    /\ verdict = "pending"
    /\ verdict' = Verdict(keyring, manifest)
    /\ UNCHANGED <<keyring, manifest>>

Next == Decide

Spec == Init /\ [][Next]_vars
=========================================================================
