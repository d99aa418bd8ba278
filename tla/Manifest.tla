---------------------------- MODULE Manifest ----------------------------
(***************************************************************************)
(* Signed manifests and the keys that sign them: the data of bitmodel-core *)
(* (core/src/manifest.rs, core/src/sign.rs and the types of                *)
(* core/src/keyring.rs), shared by the keyring check, the registry and the *)
(* download pipeline.                                                      *)
(*                                                                         *)
(* Strings are members of the constant sets below.  Ed25519 is external:   *)
(* a signature is the pair of the key that made it and the bytes it was    *)
(* made over, so a signature verifies exactly when both match.             *)
(***************************************************************************)
EXTENDS Naturals, Sequences, FiniteSets

CONSTANTS
    Ids,        \* validator key-ids, in keyrings and in signatures
    Keys,       \* Ed25519 public keys
    Malformed   \* a key or signature text that does not decode

(***************************************************************************)
(* ValidatorEntry and Keyring.  An entry's key is text: it may fail to     *)
(* decode (no "ed25519:" prefix, not hex, wrong length, not a point).      *)
(***************************************************************************)
ValidatorEntry == [id : Ids, key : Keys \cup {Malformed}]

Keyring == [quorum : Nat, validators : Seq(ValidatorEntry)]

(***************************************************************************)
(* Manifest::signing_bytes: the manifest with its signatures cleared.  The *)
(* JSON encoding is injective on these records, so the record stands for   *)
(* its bytes.                                                              *)
(***************************************************************************)
SigningBytes(m) == [m EXCEPT !.signatures = <<>>]

(***************************************************************************)
(* ValidatorKey::sign_manifest: sign the canonical bytes with the key and  *)
(* label the signature with the validator's id.                            *)
(***************************************************************************)
SignManifest(id, key, m) ==
    [validator |-> id, sig |-> [key |-> key, msg |-> SigningBytes(m)]]

(***************************************************************************)
(* hex::decode and the 64-byte conversion of a signature's text.           *)
(***************************************************************************)
Decodes(sig) == sig # Malformed

(***************************************************************************)
(* VerifyingKey::verify_strict of ed25519-dalek.                           *)
(***************************************************************************)
VerifyStrict(vk, msg, sig) == sig.key = vk /\ sig.msg = msg
-----------------------------------------------------------------------------
(***************************************************************************)
(* A keyring can be used when it asks for at least one signature and every *)
(* key in it decodes.                                                      *)
(***************************************************************************)
Usable(kr) ==
    /\ kr.quorum >= 1
    /\ \A i \in 1 .. Len(kr.validators) : kr.validators[i].key # Malformed

(***************************************************************************)
(* The index of the entry that speaks for id: of several entries with one  *)
(* id only the last one counts.                                            *)
(***************************************************************************)
IsKeyOf(vs, id, key) ==
    \E i \in 1 .. Len(vs) :
        /\ vs[i].id = id
        /\ vs[i].key = key
        /\ \A j \in i + 1 .. Len(vs) : vs[j].id # id

(***************************************************************************)
(* The members of the keyring that signed m, by the key the keyring pins.  *)
(***************************************************************************)
Vouched(kr, m, id) ==
    \E i \in 1 .. Len(m.signatures) :
        LET s == m.signatures[i] IN
        /\ s.validator = id
        /\ Decodes(s.sig)
        /\ \E key \in Keys : /\ IsKeyOf(kr.validators, id, key)
                             /\ VerifyStrict(key, SigningBytes(m), s.sig)

Vouchers(kr, m) == {id \in Ids : Vouched(kr, m, id)}

Verdict(kr, m) ==
    IF ~Usable(kr) THEN "error"
    ELSE IF Cardinality(Vouchers(kr, m)) >= kr.quorum THEN "accepted"
    ELSE "rejected"
=========================================================================
