--------------------------- MODULE KeyringMC ----------------------------
(***************************************************************************)
(* A small instance of KeyringCheck: two ids that keyrings use, one that   *)
(* none does, two keys, one manifest under verification and the bytes of   *)
(* another one for signatures that belong elsewhere.                       *)
(***************************************************************************)
EXTENDS KeyringCheck

CONSTANTS v1, v2, outsider, k1, k2, MaxEntries, MaxSignatures

UpTo(n, S) == UNION {[1 .. k -> S] : k \in 0 .. n}

MCKeyrings ==
    [quorum : 0 .. 3,
     validators : UpTo(MaxEntries, [id : {v1, v2}, key : {k1, k2, Malformed}])]

Unsigned(v) == [name |-> "llm", version |-> v, signatures |-> <<>>]

MCSignatures ==
    {SignManifest(id, k, Unsigned(1)) : id \in {v1, v2}, k \in {k1, k2}}
    \cup {[validator |-> v1, sig |-> Malformed],
          SignManifest(v1, k1, Unsigned(2)),
          SignManifest(outsider, k1, Unsigned(1))}

MCManifests ==
    {[Unsigned(1) EXCEPT !.signatures = ss] : ss \in UpTo(MaxSignatures, MCSignatures)}
=========================================================================
