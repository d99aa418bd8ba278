-------------------------- MODULE KeyringProofs -------------------------
(***************************************************************************)
(* Keyring::verify computes the quorum rule for every keyring and every    *)
(* manifest: proofs about KeyringCheck.                                    *)
(***************************************************************************)
EXTENDS KeyringCheck, FiniteSetTheorems, TLAPS

(***************************************************************************)
(* The inductive invariant.  The table holds, for the entries decoded so   *)
(* far, the last key of each id; the signers are the members that signed   *)
(* among the signatures seen so far.                                       *)
(***************************************************************************)
LastKeyAmong(vs, n, id, key) ==
    \E i \in 1 .. n :
        /\ vs[i].id = id
        /\ vs[i].key = key
        /\ \A j \in i + 1 .. n : vs[j].id # id

TableUpTo(vs, table, n) ==
    /\ \A i \in 1 .. n : vs[i].key # Malformed
    /\ \A id \in Ids, key \in Keys :
          (id \in DOMAIN table /\ table[id] = key) <=> LastKeyAmong(vs, n, id, key)

SignedAmong(m, table, n, id) ==
    \E i \in 1 .. n :
        LET s == m.signatures[i] IN
        /\ s.validator = id
        /\ Decodes(s.sig)
        /\ id \in DOMAIN table
        /\ VerifyStrict(table[id], SigningBytes(m), s.sig)

Distinct(ss) ==
    /\ IsFiniteSet(Range(ss))
    /\ Cardinality(Range(ss)) = Len(ss)
    /\ \A i, j \in DOMAIN ss : ss[i] = ss[j] => i = j

SignersUpTo(m, table, ss, n) ==
    /\ \A id \in Ids : id \in Range(ss) <=> SignedAmong(m, table, n, id)
    /\ Distinct(ss)

InputInv ==
    /\ pc \in {"load", "decode"} => signers = <<>>
    /\ pc = "load" => next = 1 /\ keys = [id \in {} |-> Malformed]
    /\ pc \in {"decode", "verify", "done"} => keyring.quorum >= 1
    /\ pc = "failed" => ~Rule!Usable(keyring)

DecodeInv ==
    /\ pc = "decode" =>
          /\ next <= Len(keyring.validators) + 1
          /\ TableUpTo(keyring.validators, keys, next - 1)
    /\ pc \in {"verify", "done"} =>
          TableUpTo(keyring.validators, keys, Len(keyring.validators))

VerifyInv ==
    /\ pc \in {"verify", "done"} =>
          /\ next <= Len(manifest.signatures) + 1
          /\ SignersUpTo(manifest, keys, signers, next - 1)
    /\ pc = "done" =>
          /\ next = Len(manifest.signatures) + 1
          /\ report.accepted = (Len(signers) >= keyring.quorum)

IInv == TypeOK /\ InputInv /\ DecodeInv /\ VerifyInv
-----------------------------------------------------------------------------
(***************************************************************************)
(* What a keyring and a manifest are made of.                              *)
(***************************************************************************)
LEMMA InputTypes ==
    ASSUME TypeOK
    PROVE  /\ keyring.quorum \in Nat
           /\ keyring.validators \in Seq(ValidatorEntry)
           /\ Len(keyring.validators) \in Nat
           /\ \A i \in 1 .. Len(keyring.validators) :
                 /\ keyring.validators[i].id \in Ids
                 /\ keyring.validators[i].key \in Keys \cup {Malformed}
           /\ Len(manifest.signatures) \in Nat
<1>1. keyring \in Keyring
  BY KeyringsAssumption DEF TypeOK
<1>2. keyring.quorum \in Nat /\ keyring.validators \in Seq(ValidatorEntry)
  BY <1>1 DEF Keyring
<1>3. \A i \in 1 .. Len(keyring.validators) : keyring.validators[i] \in ValidatorEntry
  BY <1>2
<1>4. Len(manifest.signatures) \in Nat
  BY ManifestsAssumption DEF TypeOK
<1> QED
  BY <1>2, <1>3, <1>4 DEF ValidatorEntry

(***************************************************************************)
(* Appending an id that is not counted yet keeps the signers distinct.     *)
(***************************************************************************)
LEMMA AppendSigner ==
    ASSUME NEW ss \in Seq(Ids), NEW id \in Ids, id \notin Range(ss), Distinct(ss)
    PROVE  /\ Range(Append(ss, id)) = Range(ss) \cup {id}
           /\ Distinct(Append(ss, id))
<1> DEFINE tt == Append(ss, id)
<1>1. /\ Len(ss) \in Nat /\ DOMAIN ss = 1 .. Len(ss)
      /\ Len(tt) = Len(ss) + 1 /\ DOMAIN tt = 1 .. Len(ss) + 1
      /\ \A i \in 1 .. Len(ss) : tt[i] = ss[i]
      /\ tt[Len(ss) + 1] = id
  OBVIOUS
<1> HIDE DEF tt
<1>2. Range(tt) = Range(ss) \cup {id}
  <2>1. \A x \in Range(tt) : x \in Range(ss) \cup {id}
    <3>1. SUFFICES ASSUME NEW i \in 1 .. Len(ss) + 1
                   PROVE  tt[i] \in Range(ss) \cup {id}
      BY <1>1 DEF Range
    <3> QED
      BY <1>1 DEF Range
  <2>2. \A x \in Range(ss) : x \in Range(tt)
    <3>1. SUFFICES ASSUME NEW i \in 1 .. Len(ss)
                   PROVE  ss[i] \in Range(tt)
      BY <1>1 DEF Range
    <3>2. i \in DOMAIN tt /\ tt[i] = ss[i]
      BY <1>1
    <3> QED
      BY <3>2 DEF Range
  <2>3. id \in Range(tt)
    BY <1>1 DEF Range
  <2> QED
    BY <2>1, <2>2, <2>3
<1>3. /\ IsFiniteSet(Range(ss) \cup {id})
      /\ Cardinality(Range(ss) \cup {id}) = Cardinality(Range(ss)) + 1
  BY FS_AddElement DEF Distinct
<1>4. \A i, j \in DOMAIN tt : tt[i] = tt[j] => i = j
  <2>1. \A i \in 1 .. Len(ss) : ss[i] # id
    BY <1>1 DEF Range
  <2> QED
    BY <1>1, <2>1 DEF Distinct
<1>5. Distinct(tt)
  BY <1>1, <1>2, <1>3, <1>4 DEF Distinct
<1> QED
  BY <1>2, <1>5 DEF tt

(***************************************************************************)
(* Looking at one more entry, or at one more signature.                    *)
(***************************************************************************)
LEMMA LastKeyStep ==
    ASSUME NEW vs, NEW n \in Nat, NEW id, NEW key
    PROVE  LastKeyAmong(vs, n + 1, id, key) <=>
             \/ vs[n + 1].id = id /\ vs[n + 1].key = key
             \/ vs[n + 1].id # id /\ LastKeyAmong(vs, n, id, key)
<1>1. ASSUME vs[n + 1].id = id
      PROVE  LastKeyAmong(vs, n + 1, id, key) <=> vs[n + 1].key = key
  BY <1>1 DEF LastKeyAmong
<1>2. ASSUME vs[n + 1].id # id
      PROVE  LastKeyAmong(vs, n + 1, id, key) <=> LastKeyAmong(vs, n, id, key)
  BY <1>2 DEF LastKeyAmong
<1> QED
  BY <1>1, <1>2

LEMMA SignedStep ==
    ASSUME NEW m, NEW table, NEW n \in Nat, NEW id
    PROVE  SignedAmong(m, table, n + 1, id) <=>
             \/ SignedAmong(m, table, n, id)
             \/ /\ m.signatures[n + 1].validator = id
                /\ Decodes(m.signatures[n + 1].sig)
                /\ id \in DOMAIN table
                /\ VerifyStrict(table[id], SigningBytes(m), m.signatures[n + 1].sig)
<1>1. 1 .. n + 1 = (1 .. n) \cup {n + 1}
  OBVIOUS
<1> QED
  BY <1>1 DEF SignedAmong
-----------------------------------------------------------------------------
LEMMA InitIInv == Init => IInv
<1> SUFFICES ASSUME Init PROVE IInv
  OBVIOUS
<1>1. TypeOK
  BY DEF Init, TypeOK, NoReport
<1> QED
  BY <1>1 DEF Init, IInv, InputInv, DecodeInv, VerifyInv

LEMMA StepType == TypeOK /\ [Next]_vars => TypeOK'
<1> SUFFICES ASSUME TypeOK, [Next]_vars PROVE TypeOK'
  OBVIOUS
<1>2. CASE Load
  BY <1>2 DEF TypeOK, Load
<1>3. CASE DecodeEntry
  <2>1. Entry.id \in Ids /\ Entry.key \in Keys
    BY <1>3, InputTypes DEF DecodeEntry, Entry, TypeOK
  <2>2. /\ DOMAIN keys' = DOMAIN keys \cup {Entry.id}
        /\ \A id \in DOMAIN keys' : keys'[id] \in Keys
    BY <1>3, <2>1 DEF DecodeEntry, Insert, TypeOK
  <2> QED
    BY <1>3, <2>1, <2>2 DEF DecodeEntry, TypeOK
<1>4. CASE DecodeError
  BY <1>4 DEF TypeOK, DecodeError
<1>5. CASE DecodeReturn
  BY <1>5 DEF TypeOK, DecodeReturn
<1>6. ASSUME Continue PROVE TypeOK'
  BY <1>6 DEF TypeOK, Continue
<1>7. CASE Count
  <2>1. Signature.validator \in Ids
    BY <1>7 DEF Count, Member, TypeOK
  <2> QED
    BY <1>7, <2>1 DEF Count, TypeOK
<1>8. CASE Report
  BY <1>8, InputTypes DEF Report, TypeOK
<1>9. CASE UNCHANGED vars
  BY <1>9 DEF TypeOK, vars
<1> QED
  BY <1>2, <1>3, <1>4, <1>5, <1>6, <1>7, <1>8, <1>9
     DEF Next, SkipNotMember, SkipCounted, SkipUndecodable, SkipUnverified

(***************************************************************************)
(* Decoding one more entry extends the table by that entry.                *)
(***************************************************************************)
LEMMA StepDecodeEntry == IInv /\ DecodeEntry => DecodeInv'
<1> SUFFICES ASSUME IInv, DecodeEntry PROVE DecodeInv'
  OBVIOUS
<1> DEFINE vs == keyring.validators
<1>1. PICK n \in Nat : next = n + 1
  BY DEF IInv, TypeOK
<1>2. /\ TableUpTo(vs, keys, n)
      /\ n + 1 <= Len(vs) /\ Len(vs) \in Nat
      /\ next' = n + 2
      /\ UNCHANGED <<keyring, pc>>
      /\ pc = "decode"
  BY <1>1, InputTypes DEF DecodeEntry, IInv, DecodeInv
<1>3. /\ Entry = vs[n + 1]
      /\ Entry.key # Malformed
      /\ keys' = Insert(keys, Entry.id, Entry.key)
  BY <1>1 DEF DecodeEntry, Entry
<1>4. ASSUME NEW id \in Ids, NEW key \in Keys
      PROVE  (id \in DOMAIN keys' /\ keys'[id] = key)
             <=> LastKeyAmong(vs, n + 1, id, key)
  <2>1. (id \in DOMAIN keys /\ keys[id] = key) <=> LastKeyAmong(vs, n, id, key)
    BY <1>2 DEF TableUpTo
  <2>n. LastKeyAmong(vs, n + 1, id, key) <=>
          \/ Entry.id = id /\ Entry.key = key
          \/ Entry.id # id /\ LastKeyAmong(vs, n, id, key)
    BY <1>3, LastKeyStep
  <2> HIDE DEF vs
  <2>2. CASE id = Entry.id
    <3>1. id \in DOMAIN keys' /\ keys'[id] = Entry.key
      BY <1>3, <2>2 DEF Insert
    <3> QED
      BY <2>2, <2>n, <3>1
  <2>3. CASE id # Entry.id
    <3>1. /\ id \in DOMAIN keys' <=> id \in DOMAIN keys
          /\ id \in DOMAIN keys => keys'[id] = keys[id]
      BY <1>3, <2>3 DEF Insert
    <3> QED
      BY <2>1, <2>3, <2>n, <3>1
  <2> QED
    BY <2>2, <2>3
<1>5. \A i \in 1 .. n + 1 : vs[i].key # Malformed
  BY <1>2, <1>3 DEF TableUpTo
<1>6. TableUpTo(vs, keys', n + 1)
  BY <1>4, <1>5 DEF TableUpTo
<1> QED
  BY <1>2, <1>6 DEF DecodeInv

(***************************************************************************)
(* One more signature: skipped, or counted when it is the first valid one  *)
(* of a member.                                                            *)
(***************************************************************************)
LEMMA StepSignature ==
    IInv /\ AtSignature
    /\ (SkipNotMember \/ SkipCounted \/ SkipUndecodable \/ SkipUnverified \/ Count)
    => VerifyInv'
<1> SUFFICES ASSUME IInv, AtSignature,
                    SkipNotMember \/ SkipCounted \/ SkipUndecodable \/ SkipUnverified \/ Count
             PROVE  VerifyInv'
  OBVIOUS
<1>1. PICK n \in Nat : next = n + 1
  BY DEF IInv, TypeOK
<1>2. /\ SignersUpTo(manifest, keys, signers, n)
      /\ n + 1 <= Len(manifest.signatures) /\ Len(manifest.signatures) \in Nat
      /\ pc = "verify"
      /\ signers \in Seq(Ids) /\ DOMAIN keys \subseteq Ids
  BY <1>1, InputTypes DEF AtSignature, IInv, VerifyInv, TypeOK
<1>3. /\ UNCHANGED <<manifest, keys, pc>>
      /\ next' = n + 2
  BY <1>1 DEF SkipNotMember, SkipCounted, SkipUndecodable, SkipUnverified, Continue, Count
<1>4. Signature = manifest.signatures[n + 1]
  BY <1>1 DEF Signature
<1>n. ASSUME NEW id
      PROVE  SignedAmong(manifest, keys, n + 1, id) <=>
               \/ SignedAmong(manifest, keys, n, id)
               \/ Signature.validator = id /\ Decodes(Signature.sig) /\ Member /\ Verified
  BY <1>4, SignedStep DEF Member, Verified
<1>m. \A id \in Ids : id \in Range(signers) <=> SignedAmong(manifest, keys, n, id)
  BY <1>2 DEF SignersUpTo
<1>5. SignersUpTo(manifest, keys, signers', n + 1)
  <2>1. CASE Count
    <3>1. /\ Signature.validator \in Ids
          /\ Signature.validator \notin Range(signers)
          /\ signers' = Append(signers, Signature.validator)
      BY <1>2, <2>1 DEF Count, Member, Counted
    <3>2. /\ Range(signers') = Range(signers) \cup {Signature.validator}
          /\ Distinct(signers')
      BY <1>2, <3>1, AppendSigner DEF SignersUpTo
    <3>3. ASSUME NEW id \in Ids
          PROVE  id \in Range(signers') <=> SignedAmong(manifest, keys, n + 1, id)
      BY <1>m, <1>n, <2>1, <3>2 DEF Count
    <3> QED
      BY <3>2, <3>3 DEF SignersUpTo
  <2>2. CASE SkipNotMember \/ SkipCounted \/ SkipUndecodable \/ SkipUnverified
    <3>1. signers' = signers
      BY <2>2 DEF SkipNotMember, SkipCounted, SkipUndecodable, SkipUnverified, Continue
    <3>2. ASSUME NEW id \in Ids
          PROVE  id \in Range(signers) <=> SignedAmong(manifest, keys, n + 1, id)
      <4>1. id \in Range(signers) => SignedAmong(manifest, keys, n + 1, id)
        BY <1>m, <1>n
      <4>2. ~(Decodes(Signature.sig) /\ Member /\ Verified /\ ~Counted)
        BY <2>2 DEF SkipNotMember, SkipCounted, SkipUndecodable, SkipUnverified
      <4>3. SignedAmong(manifest, keys, n + 1, id) => id \in Range(signers)
        BY <1>m, <1>n, <4>2 DEF Counted
      <4> QED
        BY <4>1, <4>3
    <3> QED
      BY <1>2, <3>1, <3>2 DEF SignersUpTo
  <2> QED
    BY <2>1, <2>2
<1> QED
  BY <1>2, <1>3, <1>5 DEF VerifyInv

LEMMA StepIInv == IInv /\ [Next]_vars => IInv'
<1> SUFFICES ASSUME IInv, [Next]_vars PROVE IInv'
  OBVIOUS
<1>1. TypeOK /\ TypeOK'
  BY StepType DEF IInv
<1>2. CASE Load
  BY <1>1, <1>2, InputTypes
     DEF Load, IInv, InputInv, DecodeInv, VerifyInv, TableUpTo, LastKeyAmong, Rule!Usable
<1>3. CASE DecodeEntry
  <2>1. InputInv' /\ VerifyInv'
    BY <1>3 DEF DecodeEntry, IInv, InputInv, VerifyInv
  <2> QED
    BY <1>1, <1>3, <2>1, StepDecodeEntry DEF IInv
<1>4. CASE DecodeError
  <2>1. ~Rule!Usable(keyring')
    BY <1>1, <1>4, InputTypes DEF DecodeError, Entry, Rule!Usable, TypeOK
  <2> QED
    BY <1>1, <1>4, <2>1 DEF DecodeError, IInv, InputInv, DecodeInv, VerifyInv
<1>5. CASE DecodeReturn
  <2>1. next - 1 = Len(keyring.validators)
    BY <1>1, <1>5, InputTypes DEF DecodeReturn, IInv, DecodeInv, TypeOK
  <2>2. SignersUpTo(manifest, keys, <<>>, 0)
    <3>1. Range(<<>>) = {}
      BY DEF Range
    <3> QED
      BY <3>1, FS_EmptySet DEF SignersUpTo, SignedAmong, Distinct
  <2> QED
    BY <1>1, <1>5, <2>1, <2>2, InputTypes
       DEF DecodeReturn, IInv, InputInv, DecodeInv, VerifyInv
<1>6. CASE SkipNotMember \/ SkipCounted \/ SkipUndecodable \/ SkipUnverified \/ Count
  <2>1. AtSignature /\ UNCHANGED <<pc, keyring, manifest, keys>>
    BY <1>6 DEF SkipNotMember, SkipCounted, SkipUndecodable, SkipUnverified, Continue, Count
  <2>2. InputInv' /\ DecodeInv'
    BY <2>1 DEF AtSignature, IInv, InputInv, DecodeInv
  <2> QED
    BY <1>1, <1>6, <2>1, <2>2, StepSignature DEF IInv
<1>7. CASE Report
  <2>1. next = Len(manifest.signatures) + 1
    <3>1. pc = "verify" /\ next > Len(manifest.signatures)
      BY <1>7 DEF Report
    <3>2. next <= Len(manifest.signatures) + 1 /\ next \in Nat
      BY <1>1, <3>1 DEF IInv, VerifyInv, TypeOK
    <3> QED
      BY <1>1, <3>1, <3>2, InputTypes
  <2> QED
    BY <1>1, <1>7, <2>1 DEF Report, IInv, InputInv, DecodeInv, VerifyInv
<1>8. CASE UNCHANGED vars
  BY <1>1, <1>8 DEF vars, IInv, InputInv, DecodeInv, VerifyInv
<1> QED
  BY <1>2, <1>3, <1>4, <1>5, <1>6, <1>7, <1>8 DEF Next

THEOREM Inductive == Spec => []IInv
<1> QED
  BY InitIInv, StepIInv, PTL DEF Spec

(***************************************************************************)
(* The state of the check always has its types, whatever the keyrings and  *)
(* the manifests.                                                          *)
(***************************************************************************)
THEOREM TypeCorrect == Spec => []TypeOK
<1>1. IInv => TypeOK
  BY DEF IInv
<1> QED
  BY <1>1, Inductive, PTL
-----------------------------------------------------------------------------
(***************************************************************************)
(* The table and the keyring agree on every id.                            *)
(***************************************************************************)
LEMMA TableIsKeyring ==
    ASSUME IInv, pc \in {"verify", "done"}, NEW id \in Ids, NEW n \in Nat
    PROVE  SignedAmong(manifest, keys, n, id)
           <=> \E i \in 1 .. n :
                 LET s == manifest.signatures[i] IN
                 /\ s.validator = id
                 /\ Decodes(s.sig)
                 /\ \E key \in Keys :
                       /\ Rule!IsKeyOf(keyring.validators, id, key)
                       /\ VerifyStrict(key, SigningBytes(manifest), s.sig)
<1>1. \A key \in Keys :
        (id \in DOMAIN keys /\ keys[id] = key)
        <=> Rule!IsKeyOf(keyring.validators, id, key)
  BY DEF IInv, DecodeInv, TableUpTo, LastKeyAmong, Rule!IsKeyOf
<1>2. id \in DOMAIN keys => keys[id] \in Keys
  BY DEF IInv, TypeOK
<1> QED
  BY <1>1, <1>2 DEF SignedAmong

(***************************************************************************)
(* In every state of the loop the counted ids are the members that signed  *)
(* among the signatures seen, each once.                                   *)
(***************************************************************************)
THEOREM LoopCountsVouchers == Spec => []SignersAreVouchers
<1>1. IInv => SignersAreVouchers
  <2> SUFFICES ASSUME IInv, pc \in {"verify", "done"} PROVE SignersAreVouchers
    BY DEF SignersAreVouchers
  <2>1. next - 1 \in Nat
    BY DEF IInv, TypeOK
  <2>2. /\ \A id \in Ids : id \in Range(signers) <=> SignedAmong(manifest, keys, next - 1, id)
        /\ Distinct(signers)
    BY DEF IInv, VerifyInv, SignersUpTo
  <2>3. Range(signers) \subseteq Ids
    BY DEF IInv, TypeOK, Range
  <2> QED
    BY <2>1, <2>2, <2>3, TableIsKeyring DEF SignersAreVouchers, Distinct
<1> QED
  BY <1>1, Inductive, PTL

(***************************************************************************)
(* The verdict that shows is the rule's as soon as there is one.           *)
(***************************************************************************)
VerdictInv ==
    /\ pc \in {"load", "decode", "verify", "done", "failed"}
    /\ pc \in {"load", "decode", "verify"} => verdict = "pending"
    /\ pc \in {"done", "failed"} => verdict = Rule!Verdict(keyring, manifest)

LEMMA ReportedVerdict == IInv => VerdictInv
<1> SUFFICES ASSUME IInv PROVE VerdictInv
  OBVIOUS
<1>0. pc \in {"load", "decode", "verify", "done", "failed"}
  BY DEF IInv, TypeOK
<1>1. CASE pc = "failed"
  BY <1>1 DEF IInv, InputInv, VerdictInv, verdict, Rule!Verdict
<1>2. CASE pc = "done"
  <2>1. /\ next - 1 = Len(manifest.signatures) /\ Len(manifest.signatures) \in Nat
        /\ Distinct(signers)
        /\ \A id \in Ids : id \in Range(signers)
                           <=> SignedAmong(manifest, keys, Len(manifest.signatures), id)
    BY <1>2, InputTypes DEF IInv, VerifyInv, SignersUpTo
  <2>2. Range(signers) \subseteq Ids
    BY DEF IInv, TypeOK, Range
  <2>3. Range(signers) = Rule!Vouchers(keyring, manifest)
    <3>1. ASSUME NEW id \in Ids
          PROVE  id \in Range(signers) <=> Rule!Vouched(keyring, manifest, id)
      <4>1. Rule!Vouched(keyring, manifest, id)
            <=> \E i \in 1 .. Len(manifest.signatures) :
                  LET s == manifest.signatures[i] IN
                  /\ s.validator = id
                  /\ Decodes(s.sig)
                  /\ \E key \in Keys :
                        /\ Rule!IsKeyOf(keyring.validators, id, key)
                        /\ VerifyStrict(key, SigningBytes(manifest), s.sig)
        BY DEF Rule!Vouched, Rule!Decodes, Decodes, Rule!VerifyStrict, VerifyStrict,
               Rule!SigningBytes, SigningBytes
      <4>2. SignedAmong(manifest, keys, Len(manifest.signatures), id)
            <=> Rule!Vouched(keyring, manifest, id)
        BY <1>2, <2>1, <4>1, TableIsKeyring
      <4> QED
        BY <2>1, <4>2
    <3> QED
      BY <2>2, <3>1 DEF Rule!Vouchers
  <2>4. Rule!Usable(keyring)
    BY <1>2 DEF IInv, InputInv, DecodeInv, TableUpTo, Rule!Usable
  <2>5. report.accepted = (Cardinality(Rule!Vouchers(keyring, manifest)) >= keyring.quorum)
    BY <1>2, <2>1, <2>3 DEF IInv, VerifyInv, Distinct
  <2> QED
    <3>1. \A S : Rule!Cardinality(S) = Cardinality(S)
      BY DEF Rule!Cardinality, Cardinality
    <3> QED
      BY <1>2, <2>4, <2>5, <3>1 DEF VerdictInv, verdict, Rule!Verdict
<1>3. CASE pc \in {"load", "decode", "verify"}
  BY <1>3 DEF VerdictInv, verdict
<1> QED
  BY <1>0, <1>1, <1>2, <1>3 DEF VerdictInv

(***************************************************************************)
(* Keyring::verify implements the quorum rule: for every keyring and every *)
(* manifest its one answer is the rule's.                                  *)
(***************************************************************************)
THEOREM VerifyImplementsQuorumRule == Spec => ImplementsQuorumRule
<1>1. Init => Rule!Init
  BY DEF Init, Rule!Init, verdict
<1>2. VerdictInv /\ VerdictInv' /\ [Next]_vars => [Rule!Next]_(Rule!vars)
  <2> SUFFICES ASSUME VerdictInv, VerdictInv', [Next]_vars PROVE [Rule!Next]_(Rule!vars)
    OBVIOUS
  <2>1. UNCHANGED <<keyring, manifest>>
    BY DEF Next, vars, Load, DecodeEntry, DecodeError, DecodeReturn, SkipNotMember,
           SkipCounted, SkipUndecodable, SkipUnverified, Continue, Count, Report
  <2>2. CASE UNCHANGED vars
    BY <2>2 DEF vars, verdict, Rule!vars
  <2>3. CASE Next /\ pc' \in {"done", "failed"}
    <3>1. verdict = "pending"
      BY <2>3
         DEF VerdictInv, Next, Load, DecodeEntry, DecodeError, DecodeReturn, SkipNotMember, AtSignature,
             SkipCounted, SkipUndecodable, SkipUnverified, Continue, Count, Report
    <3>2. verdict' = Rule!Verdict(keyring, manifest)
      <4>1. verdict' = Rule!Verdict(keyring', manifest')
        BY <2>3 DEF VerdictInv
      <4> QED
        BY <2>1, <4>1
    <3> QED
      BY <2>1, <3>1, <3>2 DEF Rule!Next, Rule!Decide
  <2>4. CASE Next /\ pc' \notin {"done", "failed"}
    <3>1. verdict = "pending" /\ verdict' = "pending"
      BY <2>4
         DEF Next, Load, DecodeEntry, DecodeError, DecodeReturn, SkipNotMember, AtSignature,
             SkipCounted, SkipUndecodable, SkipUnverified, Continue, Count, Report, verdict
    <3> QED
      BY <2>1, <3>1 DEF Rule!vars
  <2> QED
    BY <2>2, <2>3, <2>4
<1> QED
  BY <1>1, <1>2, Inductive, ReportedVerdict, PTL DEF Spec, ImplementsQuorumRule, Rule!Spec
-----------------------------------------------------------------------------
(***************************************************************************)
(* A manifest is signed by finitely many keys.                             *)
(***************************************************************************)
LEMMA SigningKeysAreFinite ==
    ASSUME IInv
    PROVE  IsFiniteSet(SigningKeys)
<1> DEFINE N == 1 .. Len(manifest.signatures)
           h == [i \in N |-> manifest.signatures[i].sig.key]
           T == {h[i] : i \in N}
<1>1. IsFiniteSet(N)
  BY InputTypes, FS_Interval
<1>2. h \in Surjection(N, T)
  BY DEF Surjection
<1>3. IsFiniteSet(T)
  <2> HIDE DEF N, h, T
  <2> QED
    BY <1>1, <1>2, FS_Surjection
<1>4. SigningKeys \subseteq T
  BY DEF SigningKeys, VerifyStrict
<1> QED
  <2> HIDE DEF T
  <2> QED
    BY <1>3, <1>4, FS_Subset

(***************************************************************************)
(* Where every key has one id, each counted signer stands for a key of its *)
(* own.                                                                    *)
(***************************************************************************)
LEMMA SignersHaveKeys ==
    ASSUME IInv, pc = "done", OneIdPerKey(keyring)
    PROVE  [id \in Range(signers) |-> keys[id]] \in Injection(Range(signers), SigningKeys)
<1> DEFINE f == [id \in Range(signers) |-> keys[id]]
<1>1. /\ Range(signers) \subseteq Ids
      /\ Len(manifest.signatures) \in Nat
      /\ \A id \in DOMAIN keys : keys[id] \in Keys
      /\ \A id \in Range(signers) :
            SignedAmong(manifest, keys, Len(manifest.signatures), id)
  <2>1. Len(manifest.signatures) \in Nat /\ next - 1 = Len(manifest.signatures)
    BY InputTypes DEF IInv, VerifyInv
  <2>2. Range(signers) \subseteq Ids
    BY DEF IInv, TypeOK, Range
  <2> QED
    BY <2>1, <2>2 DEF IInv, TypeOK, VerifyInv, SignersUpTo
<1>2. ASSUME NEW id \in Range(signers)
      PROVE  /\ id \in DOMAIN keys
             /\ keys[id] \in SigningKeys
             /\ IsKeyOf(keyring.validators, id, keys[id])
  <2>1. SignedAmong(manifest, keys, Len(manifest.signatures), id) /\ id \in Ids
    BY <1>1
  <2>2. id \in DOMAIN keys /\ keys[id] \in Keys
    BY <1>1, <2>1 DEF SignedAmong
  <2>3. keys[id] \in SigningKeys
    BY <2>1, <2>2 DEF SignedAmong, SigningKeys
  <2>4. LastKeyAmong(keyring.validators, Len(keyring.validators), id, keys[id])
    BY <2>1, <2>2 DEF IInv, DecodeInv, TableUpTo
  <2>5. IsKeyOf(keyring.validators, id, keys[id])
    BY <2>4 DEF LastKeyAmong, IsKeyOf
  <2> QED
    BY <2>2, <2>3, <2>5
<1>3. \A id, other \in Range(signers) : f[id] = f[other] => id = other
  <2> SUFFICES ASSUME NEW id \in Range(signers), NEW other \in Range(signers),
                      keys[id] = keys[other]
               PROVE  id = other
    OBVIOUS
  <2>1. keys[id] \in Keys /\ id \in Ids /\ other \in Ids
    BY <1>1, <1>2
  <2> QED
    BY <1>2, <2>1 DEF OneIdPerKey
<1>4. f \in [Range(signers) -> SigningKeys]
  BY <1>2
<1> HIDE DEF f
<1>5. f \in Injection(Range(signers), SigningKeys)
  BY <1>3, <1>4 DEF Injection, IsInjective
<1> QED
  BY <1>5 DEF f

(***************************************************************************)
(* docs/trust-model.md, for keyrings that pin no key twice: whoever wants  *)
(* a manifest accepted needs `quorum' different pinned keys.               *)
(***************************************************************************)
THEOREM QuorumIsOfKeys == Spec => []QuorumTakesKeys
<1>1. IInv => QuorumTakesKeys
  <2> SUFFICES ASSUME IInv, OneIdPerKey(keyring), pc = "done", report.accepted
               PROVE  Cardinality(SigningKeys) >= keyring.quorum
    BY DEF QuorumTakesKeys, QuorumCountsKeys
  <2>1. /\ Len(signers) >= keyring.quorum
        /\ Cardinality(Range(signers)) = Len(signers)
        /\ IsFiniteSet(Range(signers))
    BY DEF IInv, VerifyInv, SignersUpTo, Distinct
  <2>2. Cardinality(Range(signers)) <= Cardinality(SigningKeys)
    BY SignersHaveKeys, SigningKeysAreFinite, FS_Injection
  <2>3. Cardinality(SigningKeys) \in Nat /\ keyring.quorum \in Nat /\ Len(signers) \in Nat
    BY SigningKeysAreFinite, FS_CardinalityType, InputTypes DEF IInv, TypeOK
  <2> QED
    BY <2>1, <2>2, <2>3
<1> QED
  BY <1>1, Inductive, PTL
-----------------------------------------------------------------------------
(***************************************************************************)
(* What the verdict depends on.  m's signatures are among n's.             *)
(***************************************************************************)
HasSignaturesOf(n, m) ==
    /\ SigningBytes(n) = SigningBytes(m)
    /\ \A i \in 1 .. Len(m.signatures) :
          \E j \in 1 .. Len(n.signatures) : n.signatures[j] = m.signatures[i]

LEMMA VouchersAreFinite ==
    ASSUME NEW kr, NEW m, Len(m.signatures) \in Nat
    PROVE  IsFiniteSet(Vouchers(kr, m))
<1> DEFINE N == 1 .. Len(m.signatures)
           claim == [i \in N |-> m.signatures[i].validator]
           claimed == {m.signatures[i].validator : i \in N}
<1>1. IsFiniteSet(N)
  BY FS_Interval
<1>2. IsFiniteSet(claimed)
  <2>1. claim \in [N -> claimed] /\ \A y \in claimed : \E i \in N : claim[i] = y
    OBVIOUS
  <2>2. claim \in Surjection(N, claimed)
    BY <2>1, Zenon DEF Surjection
  <2> QED
    BY <1>1, <2>2, FS_Surjection
<1>3. Vouchers(kr, m) \subseteq claimed
  BY DEF Vouchers, Vouched
<1> QED
  BY <1>2, <1>3, FS_Subset

(***************************************************************************)
(* More signatures never hurt: whatever else stands beside them -- bad,    *)
(* repeated or by strangers --, signatures that suffice suffice.           *)
(***************************************************************************)
THEOREM MoreSignaturesNeverHurt ==
    ASSUME NEW kr \in Keyring, NEW m, NEW n,
           Len(m.signatures) \in Nat, Len(n.signatures) \in Nat,
           HasSignaturesOf(n, m), Verdict(kr, m) = "accepted"
    PROVE  Verdict(kr, n) = "accepted"
<1>1. Usable(kr) /\ Cardinality(Vouchers(kr, m)) >= kr.quorum
  BY DEF Verdict
<1>2. Vouchers(kr, m) \subseteq Vouchers(kr, n)
  BY DEF HasSignaturesOf, Vouchers, Vouched
<1>3. IsFiniteSet(Vouchers(kr, n))
  BY VouchersAreFinite
<1>4. /\ Cardinality(Vouchers(kr, m)) \in Nat
      /\ Cardinality(Vouchers(kr, n)) \in Nat
      /\ Cardinality(Vouchers(kr, m)) <= Cardinality(Vouchers(kr, n))
  BY <1>2, <1>3, FS_Subset, FS_CardinalityType, VouchersAreFinite
<1>5. kr.quorum \in Nat
  BY DEF Keyring
<1>6. Cardinality(Vouchers(kr, n)) >= kr.quorum
  BY <1>1, <1>4, <1>5
<1> QED
  BY <1>1, <1>6 DEF Verdict

(***************************************************************************)
(* Neither the order of a manifest's signatures nor how often each of them *)
(* comes can change what Keyring::verify reports.                          *)
(***************************************************************************)
THEOREM SameSignaturesSameVerdict ==
    ASSUME NEW kr \in Keyring, NEW m, NEW n,
           Len(m.signatures) \in Nat, Len(n.signatures) \in Nat,
           HasSignaturesOf(n, m), HasSignaturesOf(m, n)
    PROVE  Verdict(kr, n) = Verdict(kr, m)
<1>1. Verdict(kr, m) = "accepted" <=> Verdict(kr, n) = "accepted"
  BY MoreSignaturesNeverHurt
<1>2. \A x : Verdict(kr, x) = "error" <=> ~Usable(kr)
  BY DEF Verdict
<1>3. \A x : Verdict(kr, x) \in {"accepted", "rejected", "error"}
  BY DEF Verdict
<1> QED
  BY <1>1, <1>2, <1>3
=========================================================================
