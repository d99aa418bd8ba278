------------------------ MODULE DeploymentProofs ------------------------
(***************************************************************************)
(* Proofs about Deployment: clients of the box accept its record, and keep *)
(* doing so with the trust.toml they have; its anchor has one identity,    *)
(* and is let in whenever it starts on a steady box.                       *)
(***************************************************************************)
EXTENDS Deployment, FiniteSetTheorems, TLAPS

(***************************************************************************)
(* A key that is anywhere but in deploy/keys is the key in deploy/keys,    *)
(* and the script only writes one where there was none.  While it writes   *)
(* trust.toml nothing has been shipped, and only a run that is broken off  *)
(* leaves the key without it.                                              *)
(***************************************************************************)
Pinning == {"written", "truncated", "quorum"}

KeyInv ==
    /\ shipped \in Keys => shipped = key
    /\ published \in Keys => published = key
    /\ trust # Absent => key \in Keys
    /\ trust \in Keys => trust = key
    /\ script = "creating" => key = Torn
    /\ script \in Pinning =>
          key \in Keys /\ trust \notin Keys /\ shipped \notin Keys /\ published \notin Keys
    /\ "interrupted" \notin faults /\ key # Absent
          /\ script \notin Pinning \cup {"creating"} => trust \in Keys

(***************************************************************************)
(* The anchor is reachable under what node.key holds, and node.key is only *)
(* written while nobody has seen the anchor.                               *)
(***************************************************************************)
IdentityInv ==
    /\ \A k \in known : nodekey = k
    /\ nodeid # Absent => nodeid = nodekey
    /\ anchor = "generating" => nodekey = Absent
    /\ anchor = "creating" => nodekey = Torn
    /\ anchor \notin {"publishing", "serving"} => nodeid = Absent

IInv == TypeOK /\ KeyInv /\ IdentityInv

(***************************************************************************)
(* No key file is torn, no run starts under an enabled registry.           *)
(***************************************************************************)
Steady == faults \cap {"redeploy", "torn"} = {}

(***************************************************************************)
(* What then holds of the run that enables the registry, the last one:     *)
(* the units start on the key and the environment it has installed.        *)
(***************************************************************************)
BoxInv ==
    Steady =>
        /\ "registry" \in enabled => script \in {"registry", "idle"}
        /\ "anchor" \in enabled => "registry" \in enabled
        /\ registry # Down => "registry" \in enabled /\ registry = env
        /\ anchor # Down => "anchor" \in enabled /\ bearer = env
        /\ key = Torn => script = "creating"
        /\ nodekey = Torn => anchor = "creating"
        /\ script \in {"keyed", "shipped", "installed", "registry"} => key \in Keys
        /\ script \in {"shipped", "installed", "registry"} \/ "registry" \in enabled
              => shipped \in Keys

LEMMA InitInv == Init => IInv
<1> SUFFICES ASSUME Init PROVE IInv
  OBVIOUS
<1>1. TypeOK
  <2>1. 0 \in 0 .. MaxRuns /\ 0 \in 0 .. MaxEnds
    BY DeploymentAssumption
  <2>2. {token, env, bearer} \subseteq 0 .. MaxRuns
    BY <2>1 DEF Init
  <2>3. /\ {key, shipped, nodekey} \subseteq used \cup {Absent, Torn}
        /\ trust \in used \cup {Absent, Torn, Bare}
        /\ {nodeid, published} \subseteq used \cup {Absent}
    BY DEF Init
  <2> QED
    BY <2>1, <2>2, <2>3 DEF Init, TypeOK
<1>2. KeyInv
  BY DeploymentAssumption DEF Init, KeyInv, Pinning
<1>3. IdentityInv
  BY DeploymentAssumption DEF Init, IdentityInv, Working
<1> QED
  BY <1>1, <1>2, <1>3 DEF IInv

(***************************************************************************)
(* The script never replaces a key, and node.key is written once.          *)
(***************************************************************************)
LEMMA StepInv == IInv /\ [Next]_vars => IInv'
<1> SUFFICES ASSUME IInv, [Next]_vars PROVE IInv'
  OBVIOUS
<1> USE DeploymentAssumption
        DEF IInv, TypeOK, KeyInv, Pinning, IdentityInv, Working,
            desk, box, node
<1>1. CASE StartRun
  BY <1>1 DEF StartRun, At
<1>2. CASE KeepKey
  BY <1>2 DEF KeepKey, At
<1>3. CASE CreateKey
  BY <1>3 DEF CreateKey, At, KeyFileFound, KeyFileExists
<1>4. CASE WriteKey
  BY <1>4 DEF WriteKey, At, Generate
<1>5. CASE CreateTrust
  BY <1>5 DEF CreateTrust, WriteTrust, At
<1>23. CASE WriteQuorum
  BY <1>23 DEF WriteQuorum, WriteTrust, At
<1>24. CASE Pin
  BY <1>24 DEF Pin, WriteTrust, At
<1>6. CASE Ship
  BY <1>6 DEF Ship, At
<1>7. CASE InstallEnv
  BY <1>7 DEF InstallEnv, At
<1>8. CASE EnableRegistry
  BY <1>8 DEF EnableRegistry, At
<1>9. CASE EnableAnchor
  BY <1>9 DEF EnableAnchor, At
<1>10. CASE Interrupt
  BY <1>10 DEF Interrupt
<1>11. CASE RegistryStarts
  BY <1>11 DEF RegistryStarts
<1>12. CASE RegistryEnds
  BY <1>12 DEF RegistryEnds
<1>13. CASE AnchorStarts
  BY <1>13 DEF AnchorStarts
<1>14. CASE AnchorEnds
  BY <1>14 DEF AnchorEnds
<1>15. CASE LoadSecret
  BY <1>15 DEF LoadSecret, Reachable
<1>16. CASE LoadFails
  BY <1>16 DEF LoadFails
<1>17. CASE NoSecret
  BY <1>17 DEF NoSecret
<1>18. CASE CreateSecret
  BY <1>18 DEF CreateSecret
<1>19. CASE WriteSecret
  BY <1>19 DEF WriteSecret, Generate, Reachable
<1>20. CASE Publish
  BY <1>20 DEF Publish, Publishable
<1>21. CASE PublishFails
  BY <1>21 DEF PublishFails
<1>22. CASE UNCHANGED vars
  BY <1>22 DEF vars
<1> QED
  BY <1>1, <1>2, <1>3, <1>4, <1>5, <1>6, <1>7, <1>8, <1>9, <1>10, <1>11, <1>12,
     <1>13, <1>14, <1>15, <1>16, <1>17, <1>18, <1>19, <1>20, <1>21, <1>22, <1>23,
     <1>24 DEF Next, Script, Anchor

LEMMA Invariance == Spec => []IInv
<1>1. Init => IInv
  BY InitInv
<1>2. IInv /\ [Next]_vars => IInv'
  BY StepInv
<1> QED
  BY <1>1, <1>2, PTL DEF Spec

(***************************************************************************)
(* Whatever is interrupted or run again, keys are only ever generated      *)
(* ones, and the services run on tokens and keys that were installed.      *)
(***************************************************************************)
THEOREM TypeCorrect == Spec => []TypeOK
<1>1. IInv => TypeOK
  BY DEF IInv
<1> QED
  BY <1>1, Invariance, PTL
-----------------------------------------------------------------------------
(***************************************************************************)
(* A keyring of one accepts what its one member has signed.                *)
(***************************************************************************)
LEMMA OnePinnedKey ==
    ASSUME trust \in Keys, published = trust
    PROVE  Verdict(TrustToml, SignedRecord) = "accepted"
<1> DEFINE s == SignManifest(ValidatorId, published, Unsigned)
<1>1. /\ Len(TrustToml.validators) = 1
      /\ TrustToml.validators[1] = [id |-> ValidatorId, key |-> trust]
      /\ TrustToml.quorum = 1
  BY DeploymentAssumption DEF TrustToml
<1>2. /\ Len(SignedRecord.signatures) = 1
      /\ SignedRecord.signatures[1] = s
      /\ SigningBytes(SignedRecord) = Unsigned
      /\ SigningBytes(Unsigned) = Unsigned
  BY DEF SignedRecord, SigningBytes, Unsigned
<1>3. s.validator = ValidatorId /\ s.sig = [key |-> trust, msg |-> Unsigned]
  BY <1>2 DEF SignManifest
<1>4. Usable(TrustToml)
  BY <1>1, DeploymentAssumption DEF Usable
<1>5. IsKeyOf(TrustToml.validators, ValidatorId, trust)
  BY <1>1 DEF IsKeyOf
<1>6. Vouched(TrustToml, SignedRecord, ValidatorId)
  <2>1. Decodes(s.sig) /\ VerifyStrict(trust, Unsigned, s.sig)
    BY <1>3, DeploymentAssumption DEF VerifyStrict
  <2> QED
    BY <1>2, <1>3, <1>5, <2>1 DEF Vouched
<1>7. \A id : Vouched(TrustToml, SignedRecord, id) => id = ValidatorId
  BY <1>2, <1>3 DEF Vouched
<1>8. Vouchers(TrustToml, SignedRecord) = {ValidatorId}
  BY <1>6, <1>7, DeploymentAssumption DEF Vouchers
<1>9. Cardinality({ValidatorId}) = 1
  BY FS_Singleton
<1> QED
  BY <1>1, <1>4, <1>8, <1>9 DEF Verdict

(***************************************************************************)
(* A keyring of none accepts nothing.                                      *)
(***************************************************************************)
LEMMA NoPinnedKey ==
    ASSUME trust = Bare
    PROVE  Verdict(TrustToml, SignedRecord) = "rejected"
<1>1. TrustToml.quorum = 1 /\ TrustToml.validators = <<>>
  BY DEF TrustToml
<1>2. Usable(TrustToml)
  BY <1>1 DEF Usable
<1>3. Vouchers(TrustToml, SignedRecord) = {}
  BY <1>1 DEF Vouchers, Vouched, IsKeyOf
<1>4. Cardinality({}) = 0
  BY FS_EmptySet
<1> QED
  BY <1>1, <1>2, <1>3, <1>4 DEF Verdict

(***************************************************************************)
(* When a record is published and no run was broken off, trust.toml pins a *)
(* key; if it does, clients accept the record, and if a broken run has     *)
(* left it without one they refuse it -- for any number of runs,           *)
(* interruptions and restarts.                                             *)
(***************************************************************************)
THEOREM TheBoxIsAccepted == Spec => []ClientsAccept
<1>1. IInv => ClientsAccept
  <2> SUFFICES ASSUME IInv, published # Absent PROVE ClientsAccept
    BY DEF ClientsAccept
  <2>1. published \in Keys /\ published = key
    BY DEF IInv, TypeOK, KeyInv
  <2>2. ASSUME "interrupted" \notin faults PROVE trust \in Keys
    <3>1. key # Absent /\ key # Torn
      BY <2>1, DeploymentAssumption
    <3>2. script \notin Pinning \cup {"creating"}
      BY <2>1, <3>1 DEF IInv, KeyInv
    <3> QED
      BY <2>2, <3>1, <3>2 DEF IInv, KeyInv
  <2>3. ASSUME trust \in Keys PROVE Verdict(TrustToml, SignedRecord) = "accepted"
    BY <2>1, <2>3, OnePinnedKey DEF IInv, KeyInv
  <2> QED
    BY <2>2, <2>3, NoPinnedKey DEF ClientsAccept
<1> QED
  BY <1>1, Invariance, PTL

(***************************************************************************)
(* The anchor keeps the node id it was first reached under, for any number *)
(* of ended processes and torn files.                                      *)
(***************************************************************************)
THEOREM IdentityIsStable == Spec => []OneIdentity
<1>1. IInv => OneIdentity
  BY DEF IInv, IdentityInv, OneIdentity
<1> QED
  BY <1>1, Invariance, PTL
-----------------------------------------------------------------------------
(***************************************************************************)
(* A steady box: only the run that enables the registry touches the key,   *)
(* the environment and the units, and it has written them before.          *)
(***************************************************************************)
LEMMA InitBox == Init => BoxInv
  BY DeploymentAssumption DEF Init, BoxInv, Working

LEMMA StepBox == IInv /\ BoxInv /\ [Next]_vars => BoxInv'
<1> SUFFICES ASSUME IInv, BoxInv, [Next]_vars PROVE BoxInv'
  OBVIOUS
<1>0. faults' = faults
  BY DEF Next, Script, Anchor, vars, StartRun, KeepKey, CreateKey, WriteKey,
         CreateTrust, WriteQuorum, Pin, WriteTrust, Ship, InstallEnv, EnableRegistry, EnableAnchor, Interrupt,
         RegistryStarts, RegistryEnds, AnchorStarts, AnchorEnds, LoadSecret,
         LoadFails, NoSecret, CreateSecret, WriteSecret, Publish, PublishFails
<1> SUFFICES ASSUME Steady PROVE BoxInv'
  BY <1>0 DEF BoxInv, Steady
<1> USE DeploymentAssumption
        DEF IInv, TypeOK, KeyInv, Pinning, IdentityInv, BoxInv, Steady,
            Working, desk, box, node
<1>1. CASE StartRun
  BY <1>1 DEF StartRun, At
<1>2. CASE KeepKey
  BY <1>2 DEF KeepKey, At, KeyFileFound, KeyFileExists
<1>3. CASE CreateKey
  BY <1>3 DEF CreateKey, At, KeyFileFound, KeyFileExists
<1>4. CASE WriteKey
  BY <1>4 DEF WriteKey, At, Generate
<1>5. CASE CreateTrust
  BY <1>5 DEF CreateTrust, WriteTrust, At
<1>23. CASE WriteQuorum
  BY <1>23 DEF WriteQuorum, WriteTrust, At
<1>24. CASE Pin
  BY <1>24 DEF Pin, WriteTrust, At
<1>6. CASE Ship
  BY <1>6 DEF Ship, At
<1>7. CASE InstallEnv
  BY <1>7 DEF InstallEnv, At
<1>8. CASE EnableRegistry
  BY <1>8 DEF EnableRegistry, At
<1>9. CASE EnableAnchor
  BY <1>9 DEF EnableAnchor, At
<1>10. CASE Interrupt
  BY <1>10 DEF Interrupt
<1>11. CASE RegistryStarts
  BY <1>11 DEF RegistryStarts
<1>12. CASE RegistryEnds
  BY <1>12 DEF RegistryEnds
<1>13. CASE AnchorStarts
  BY <1>13 DEF AnchorStarts
<1>14. CASE AnchorEnds
  BY <1>14 DEF AnchorEnds
<1>15. CASE LoadSecret
  BY <1>15 DEF LoadSecret, Reachable
<1>16. CASE LoadFails
  BY <1>16 DEF LoadFails
<1>17. CASE NoSecret
  BY <1>17 DEF NoSecret
<1>18. CASE CreateSecret
  BY <1>18 DEF CreateSecret
<1>19. CASE WriteSecret
  BY <1>19 DEF WriteSecret, Generate, Reachable
<1>20. CASE Publish
  BY <1>20 DEF Publish, Publishable
<1>21. CASE PublishFails
  BY <1>21 DEF PublishFails
<1>22. CASE UNCHANGED vars
  BY <1>22 DEF vars
<1> QED
  BY <1>1, <1>2, <1>3, <1>4, <1>5, <1>6, <1>7, <1>8, <1>9, <1>10, <1>11, <1>12,
     <1>13, <1>14, <1>15, <1>16, <1>17, <1>18, <1>19, <1>20, <1>21, <1>22, <1>23,
     <1>24 DEF Next, Script, Anchor

(***************************************************************************)
(* For any number of runs broken off and services that end: the anchor of  *)
(* a steady box never finds a node.key that does not decode, and never a   *)
(* registry that turns its token or its record away.  This is the safety   *)
(* half of SeederStaysIfSteady: only a registry that is down can refuse a  *)
(* start, and systemd restarts it.                                         *)
(***************************************************************************)
THEOREM SteadyAnchorIsLetIn == Spec => []AnchorIsLetIn
<1>1. Init => BoxInv
  BY InitBox
<1>2. IInv /\ BoxInv /\ [Next]_vars => BoxInv'
  BY StepBox
<1>3. IInv /\ BoxInv => AnchorIsLetIn
  <2> SUFFICES ASSUME IInv, BoxInv, Steady PROVE AnchorIsLetIn
    BY DEF AnchorIsLetIn, Steady
  <2>1. anchor = "starting" => nodekey # Torn
    BY DEF BoxInv
  <2>2. anchor = "publishing" /\ registry # Down => Publishable
    <3> SUFFICES ASSUME anchor = "publishing", registry # Down PROVE Publishable
      OBVIOUS
    <3>1. anchor # Down
      BY DeploymentAssumption DEF Working
    <3> QED
      BY <3>1 DEF BoxInv, Publishable
  <2> QED
    BY <2>1, <2>2 DEF AnchorIsLetIn
<1> QED
  BY <1>1, <1>2, <1>3, Invariance, PTL DEF Spec
-----------------------------------------------------------------------------
(***************************************************************************)
(* A copy of a trust.toml that pins a key is good for good: no later run   *)
(* writes the file again, and nothing publishes under another key.         *)
(***************************************************************************)
THEOREM TrustIsForGood == Spec => TrustStands
<1> DEFINE Stands ==
      /\ trust \in Keys => trust' = trust
      /\ published # Absent => published' = published
<1>1. IInv /\ [Next]_vars => [Stands]_vars
  <2> SUFFICES ASSUME IInv, [Next]_vars PROVE [Stands]_vars
    OBVIOUS
  <2>1. CASE CreateTrust \/ WriteQuorum \/ Pin
    <3>1. trust \notin Keys /\ published' = published
      BY <2>1 DEF CreateTrust, WriteQuorum, Pin, WriteTrust, At, IInv, KeyInv, Pinning
    <3> QED
      BY <3>1
  <2>2. CASE Publish
    <3>1. published' = shipped /\ shipped \in Keys /\ trust' = trust
      BY <2>2 DEF Publish, Publishable, desk
    <3>2. published # Absent => published = key
      BY DEF IInv, TypeOK, KeyInv
    <3> QED
      BY <3>1, <3>2 DEF IInv, KeyInv
  <2>3. ~CreateTrust /\ ~WriteQuorum /\ ~Pin /\ ~Publish =>
            UNCHANGED <<trust, published>>
    BY DEF Next, Script, Anchor, vars, desk, box, node, StartRun, KeepKey,
           CreateKey, WriteKey, Ship, InstallEnv, EnableRegistry, EnableAnchor,
           Interrupt, RegistryStarts, RegistryEnds, AnchorStarts, AnchorEnds,
           LoadSecret, LoadFails, NoSecret, CreateSecret, WriteSecret,
           PublishFails
  <2> QED
    BY <2>1, <2>2, <2>3
<1> QED
  BY <1>1, Invariance, PTL DEF Spec, TrustStands
=====
