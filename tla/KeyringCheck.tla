-------------------------- MODULE KeyringCheck --------------------------
(***************************************************************************)
(* The keyring check as the code runs it (core/src/keyring.rs): parse the  *)
(* trust file, build the table of decoded keys entry by entry, walk over   *)
(* the manifest's signatures, and report.  Every `continue', every early   *)
(* return and every push is an action of its own.                          *)
(***************************************************************************)
EXTENDS Manifest, Functions

CONSTANTS
    Keyrings,   \* the trust files a client may have pinned
    Manifests   \* the manifests a registry may answer with

ASSUME KeyringsAssumption == Keyrings \subseteq Keyring
ASSUME ManifestsAssumption ==
    \A m \in Manifests : DOMAIN m.signatures = 1 .. Len(m.signatures)
                         /\ Len(m.signatures) \in Nat
ASSUME MalformedAssumption == Malformed \notin Keys

VARIABLES
    keyring,    \* self
    manifest,   \* the argument of verify
    pc,         \* "load", "decode", "verify", "done" or "failed" (an Err)
    keys,       \* decode_keys' HashMap: a function on the ids inserted so far
    next,       \* index of the next entry (decode) or signature (verify)
    signers,    \* the ids counted so far, in order
    report      \* the VerifyReport once pc = "done"

vars == <<keyring, manifest, pc, keys, next, signers, report>>

NoReport == [valid_sigs |-> 0, quorum |-> 0, accepted |-> FALSE, signers |-> <<>>]

TypeOK ==
    /\ keyring \in Keyrings
    /\ manifest \in Manifests
    /\ pc \in {"load", "decode", "verify", "done", "failed"}
    /\ DOMAIN keys \subseteq Ids
    /\ \A id \in DOMAIN keys : keys[id] \in Keys
    /\ next \in Nat \ {0}
    /\ signers \in Seq(Ids)
    /\ report \in [valid_sigs : Nat, quorum : Nat, accepted : BOOLEAN, signers : Seq(Ids)]
-----------------------------------------------------------------------------
Init ==
    /\ keyring \in Keyrings
    /\ manifest \in Manifests
    /\ pc = "load"
    /\ keys = [id \in {} |-> Malformed]
    /\ next = 1
    /\ signers = <<>>
    /\ report = NoReport

(***************************************************************************)
(* Keyring::from_toml.                                                     *)
(***************************************************************************)
Load ==
    /\ pc = "load"
    /\ pc' = IF keyring.quorum = 0 THEN "failed" ELSE "decode"
    /\ UNCHANGED <<keyring, manifest, keys, next, signers, report>>

(***************************************************************************)
(* Keyring::decode_keys, one entry per step: a key that does not decode    *)
(* fails the whole call, one that does is inserted under its id and        *)
(* replaces what an earlier entry put there.                               *)
(***************************************************************************)
Entry == keyring.validators[next]

(***************************************************************************)
(* Mutants: an entry that keeps the first key of a repeated id, a decoder  *)
(* that lets a bad key through, a loop that forgets whom it has counted.   *)
(***************************************************************************)
InsertFirst(table, id, key) ==
    [x \in DOMAIN table \cup {id} |-> IF x \in DOMAIN table THEN table[x] ELSE key]

DecodeEntryUnchecked ==
    /\ pc = "decode"
    /\ next <= Len(keyring.validators)
    /\ keys' = [x \in DOMAIN keys \cup {Entry.id} |->
                  IF x = Entry.id THEN Entry.key ELSE keys[x]]
    /\ next' = next + 1
    /\ UNCHANGED <<keyring, manifest, pc, signers, report>>

CountedNever == FALSE

Insert(table, id, key) ==
    [x \in DOMAIN table \cup {id} |-> IF x = id THEN key ELSE table[x]]

DecodeEntry ==
    /\ pc = "decode"
    /\ next <= Len(keyring.validators)
    /\ Entry.key # Malformed
    /\ keys' = Insert(keys, Entry.id, Entry.key)
    /\ next' = next + 1
    /\ UNCHANGED <<keyring, manifest, pc, signers, report>>

DecodeError ==
    /\ pc = "decode"
    /\ next <= Len(keyring.validators)
    /\ Entry.key = Malformed
    /\ pc' = "failed"
    /\ UNCHANGED <<keyring, manifest, keys, next, signers, report>>

DecodeReturn ==
    /\ pc = "decode"
    /\ next > Len(keyring.validators)
    /\ pc' = "verify"
    /\ next' = 1
    /\ UNCHANGED <<keyring, manifest, keys, signers, report>>

(***************************************************************************)
(* The loop of Keyring::verify.  Member, Counted and Verified are the      *)
(* tests of its body in the order it makes them.                           *)
(***************************************************************************)
Signature == manifest.signatures[next]
Member == Signature.validator \in DOMAIN keys
Counted == Signature.validator \in Range(signers)
Verified == VerifyStrict(keys[Signature.validator], SigningBytes(manifest), Signature.sig)

AtSignature == pc = "verify" /\ next <= Len(manifest.signatures)

Continue ==
    /\ next' = next + 1
    /\ UNCHANGED <<keyring, manifest, pc, keys, signers, report>>

SkipNotMember == AtSignature /\ ~Member /\ Continue

SkipCounted == AtSignature /\ Member /\ Counted /\ Continue

SkipUndecodable ==
    AtSignature /\ Member /\ ~Counted /\ ~Decodes(Signature.sig) /\ Continue

SkipUnverified ==
    AtSignature /\ Member /\ ~Counted /\ Decodes(Signature.sig) /\ ~Verified /\ Continue

Count ==
    /\ AtSignature
    /\ Member
    /\ ~Counted
    /\ Decodes(Signature.sig)
    /\ Verified
    /\ signers' = Append(signers, Signature.validator)
    /\ next' = next + 1
    /\ UNCHANGED <<keyring, manifest, pc, keys, report>>

Report ==
    /\ pc = "verify"
    /\ next > Len(manifest.signatures)
    /\ report' = [valid_sigs |-> Len(signers),
                  quorum     |-> keyring.quorum,
                  accepted   |-> Len(signers) >= keyring.quorum,
                  signers    |-> signers]
    /\ pc' = "done"
    /\ UNCHANGED <<keyring, manifest, keys, next, signers>>

Next ==
    \/ Load
    \/ DecodeEntry \/ DecodeError \/ DecodeReturn
    \/ SkipNotMember \/ SkipCounted \/ SkipUndecodable \/ SkipUnverified
    \/ Count
    \/ Report

Spec == Init /\ [][Next]_vars
-----------------------------------------------------------------------------
(***************************************************************************)
(* The refinement: outside, only the verdict shows.                        *)
(***************************************************************************)
verdict ==
    CASE pc = "done"   -> IF report.accepted THEN "accepted" ELSE "rejected"
      [] pc = "failed" -> "error"
      [] OTHER         -> "pending"

Rule == INSTANCE QuorumRule WITH
    keyring <- keyring, manifest <- manifest, verdict <- verdict

(***************************************************************************)
(* Keyring::verify computes the quorum rule: the verdict is given once,    *)
(* it is the verdict of the one-line rule for this keyring and manifest,   *)
(* and a keyring with a zero quorum or an undecodable key gives none.      *)
(***************************************************************************)
ImplementsQuorumRule == Rule!Spec

(***************************************************************************)
(* At every step of the loop, whatever the order and repetition of the     *)
(* signatures, the signers counted so far are exactly the members that     *)
(* signed among the signatures seen so far, each counted once.             *)
(***************************************************************************)
SignersAreVouchers ==
    pc \in {"verify", "done"} =>
        /\ Range(signers) = {id \in Ids : \E i \in 1 .. next - 1 :
                          LET s == manifest.signatures[i] IN
                          /\ s.validator = id
                          /\ Decodes(s.sig)
                          /\ \E key \in Keys :
                               /\ Rule!IsKeyOf(keyring.validators, id, key)
                               /\ VerifyStrict(key, SigningBytes(manifest), s.sig)}
        /\ \A i, j \in DOMAIN signers : signers[i] = signers[j] => i = j

(***************************************************************************)
(* docs/trust-model.md reads a quorum of N as N keys that would have to be *)
(* stolen.  The code counts ids: two entries of a keyring may pin one key. *)
(***************************************************************************)
SigningKeys ==
    {key \in Keys : \E i \in 1 .. Len(manifest.signatures) :
        /\ Decodes(manifest.signatures[i].sig)
        /\ VerifyStrict(key, SigningBytes(manifest), manifest.signatures[i].sig)}

QuorumCountsKeys ==
    pc = "done" /\ report.accepted => Cardinality(SigningKeys) >= keyring.quorum

(***************************************************************************)
(* The doc is right about keyrings that pin no key under two ids: then an  *)
(* accepted manifest carries the signatures of as many different keys as   *)
(* the quorum asks for, whatever else it carries and in whatever order.    *)
(***************************************************************************)
OneIdPerKey(kr) ==
    \A id, other \in Ids, key \in Keys :
        IsKeyOf(kr.validators, id, key) /\ IsKeyOf(kr.validators, other, key)
        => id = other

QuorumTakesKeys == OneIdPerKey(keyring) => QuorumCountsKeys
=========================================================================
