--------------------------- MODULE TrustModel ---------------------------
(***************************************************************************)
(* What Bitmodel promises its users (docs/trust-model.md), without         *)
(* registry, network, nodes or disks: validators sign records, and a       *)
(* client ends up holding a record only if a quorum of the validators it   *)
(* pinned has signed that very record.                                     *)
(***************************************************************************)
EXTENDS Manifest

CONSTANTS
    Clients,
    Pinned,         \* the keyring every client pins
    Bodies,         \* the unsigned records there can be
    None            \* a client that holds nothing

VARIABLES
    signed,         \* the signatures made so far
    holds           \* client |-> the record it was given, or None

vars == <<signed, holds>>

Signers(b) ==
    {id \in Ids : \E key \in Keys :
        /\ IsKeyOf(Pinned.validators, id, key)
        /\ SignManifest(id, key, b) \in signed}

Truth(b) == Usable(Pinned) /\ Cardinality(Signers(b)) >= Pinned.quorum

Init ==
    /\ signed = {}
    /\ holds = [c \in Clients |-> None]

Sign(id, key, b) ==
    /\ signed' = signed \cup {SignManifest(id, key, b)}
    /\ UNCHANGED holds

Obtain(c, b) ==
    /\ Truth(b)
    /\ holds' = [holds EXCEPT ![c] = b]
    /\ UNCHANGED signed

Release(c) ==
    /\ holds' = [holds EXCEPT ![c] = None]
    /\ UNCHANGED signed

Next ==
    \/ \E id \in Ids, key \in Keys, b \in Bodies : Sign(id, key, b)
    \/ \E c \in Clients :
          \/ \E b \in Bodies : Obtain(c, b)
          \/ Release(c)

Spec == Init /\ [][Next]_vars
=========================================================================
