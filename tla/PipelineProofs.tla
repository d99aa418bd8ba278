------------------------- MODULE PipelineProofs -------------------------
(***************************************************************************)
(* Publishing and downloading implement the trust model, for any nodes,    *)
(* records, keyring and any answers of the registry: proofs about          *)
(* Pipeline.                                                               *)
(***************************************************************************)
EXTENDS Pipeline, FiniteSetTheorems, TLAPS

(***************************************************************************)
(* The inductive invariant behind the trust model.  A manifest that is     *)
(* anywhere in the system is a known record with signatures that were      *)
(* really made; a client past the quorum check holds an accepted one.      *)
(***************************************************************************)
Genuine(m, sigs) ==
    /\ SigningBytes(m) \in Bodies
    /\ \A i \in 1 .. Len(m.signatures) : m.signatures[i] \in sigs

PastQuorum == {"locating", "fetching", "clearing", "exporting", "checking", "saved"}

Accepted(n) == man[n] # None /\ Verdict(Pinned, man[n]) = "accepted"

PhaseInv ==
    \A n \in Nodes :
        /\ pc[n] \in {"off", "ready", "resolving"} => man[n] = None
        /\ pc[n] \in {"imported", "signed", "verifying"} => man[n] # None
        /\ pc[n] # "off" => want[n] \in Models
        /\ n \in Clients /\ pc[n] \in {"clearing", "exporting"} =>
              todo[n] \subseteq DOMAIN man[n].collection

GenuineInv ==
    /\ \A m \in Models : record[m] # None => Genuine(record[m], signed)
    /\ \A n \in Nodes : man[n] # None => Genuine(man[n], signed)

AcceptedInv ==
    \A n \in Nodes :
        /\ pc[n] \in PastQuorum => Accepted(n)
        /\ pc[n] = "serving" /\ man[n] # None => Accepted(n)

IInv == TypeOK /\ PhaseInv /\ GenuineInv /\ AcceptedInv
-----------------------------------------------------------------------------
(***************************************************************************)
(* Records and their signing bytes.                                        *)
(***************************************************************************)
LEMMA BodiesAreManifests ==
    ASSUME NEW b \in Bodies
    PROVE  b \in Manifests /\ b.signatures = <<>>
<1>1. CASE b \in HandSigned
  BY <1>1, RecordsAssumption
<1>2. CASE b \notin HandSigned
  <2>1. PICK m \in Models, v \in Versions, folder \in Folders : b = Record(m, v, folder)
    BY <1>2 DEF Bodies
  <2>2. folder \in Seq(Entry) /\ Range(folder) \subseteq Entry
    BY RecordsAssumption DEF Range
  <2>3. <<>> \in Seq(Signatures)
    OBVIOUS
  <2> QED
    BY <2>1, <2>2, <2>3 DEF Record, Manifests
<1> QED
  BY <1>1, <1>2

LEMMA SigningBytesFacts ==
    ASSUME NEW m \in Manifests, NEW ss \in Seq(Signatures)
    PROVE  /\ SigningBytes(m) \in Manifests
           /\ SigningBytes(m).signatures = <<>>
           /\ SigningBytes(m).name = m.name
           /\ SigningBytes(m).files = m.files
           /\ SigningBytes(m).collection = m.collection
           /\ [m EXCEPT !.signatures = ss] \in Manifests
           /\ [m EXCEPT !.signatures = ss].signatures = ss
           /\ [m EXCEPT !.signatures = ss].name = m.name
           /\ SigningBytes([m EXCEPT !.signatures = ss]) = SigningBytes(m)
           /\ m.signatures = <<>> => SigningBytes(m) = m
<1>1. PICK n \in Models, v \in Versions, fs \in SUBSET Entry, k \in Seq(Entry),
           sigs \in Seq(Signatures) :
         m = [name |-> n, version |-> v, files |-> fs, collection |-> k,
              signatures |-> sigs]
  BY DEF Manifests
<1>2. \A x : [m EXCEPT !.signatures = x] =
              [name |-> n, version |-> v, files |-> fs, collection |-> k, signatures |-> x]
  BY <1>1
<1>3. SigningBytes(m) =
        [name |-> n, version |-> v, files |-> fs, collection |-> k, signatures |-> <<>>]
  BY <1>2 DEF SigningBytes
<1>4. \A x : [[m EXCEPT !.signatures = x] EXCEPT !.signatures = <<>>] =
              [name |-> n, version |-> v, files |-> fs, collection |-> k, signatures |-> <<>>]
  BY <1>2
<1>5. SigningBytes([m EXCEPT !.signatures = ss]) = SigningBytes(m)
  BY <1>3, <1>4 DEF SigningBytes
<1>6. <<>> \in Seq(Signatures)
  OBVIOUS
<1>7. \A x \in Seq(Signatures) :
         [name |-> n, version |-> v, files |-> fs, collection |-> k, signatures |-> x]
             \in Manifests
  BY DEF Manifests
<1>8. SigningBytes(m) \in Manifests /\ [m EXCEPT !.signatures = ss] \in Manifests
  BY <1>2, <1>3, <1>6, <1>7
<1>9. m.signatures = <<>> => SigningBytes(m) = m
  BY <1>1, <1>3
<1>10. /\ SigningBytes(m).signatures = <<>>
       /\ SigningBytes(m).name = m.name
       /\ SigningBytes(m).files = m.files
       /\ SigningBytes(m).collection = m.collection
  BY <1>1, <1>3
<1>11. /\ [m EXCEPT !.signatures = ss].signatures = ss
       /\ [m EXCEPT !.signatures = ss].name = m.name
  BY <1>1, <1>2
<1> QED
  BY <1>5, <1>8, <1>9, <1>10, <1>11

LEMMA OwnSignatureIsKnown ==
    ASSUME NEW v \in Validators, NEW m \in Manifests, SigningBytes(m) \in Bodies
    PROVE  OwnSignature(v, m) \in Signatures
<1>1. IdOf[v] \in Ids /\ KeyOf[v] \in Keys
  BY RolesAssumption
<1>2. SigningBytes(SigningBytes(m)) = SigningBytes(m)
  <2>1. <<>> \in Seq(Signatures)
    OBVIOUS
  <2> QED
    BY <2>1, SigningBytesFacts, BodiesAreManifests
<1>3. OwnSignature(v, m) = SignManifest(IdOf[v], KeyOf[v], SigningBytes(m))
  BY <1>2 DEF OwnSignature, SignManifest
<1> QED
  BY <1>1, <1>3 DEF Signatures

LEMMA EntriesOfManifest ==
    ASSUME NEW m \in Manifests
    PROVE  /\ DOMAIN m.collection \subseteq Nat
           /\ \A i \in DOMAIN m.collection :
                 /\ m.collection[i] \in Entry
                 /\ m.collection[i].path \in Paths
                 /\ m.collection[i].blake3 \in Hashes
<1>1. m.collection \in Seq(Entry)
  BY DEF Manifests
<1>2. DOMAIN m.collection = 1 .. Len(m.collection) /\ Len(m.collection) \in Nat
  BY <1>1
<1>3. \A i \in DOMAIN m.collection : m.collection[i] \in Entry
  BY <1>1, <1>2
<1>4. \A e \in Entry : e.path \in Paths /\ e.blake3 \in Hashes
  BY DEF Entry
<1> QED
  BY <1>2, <1>3, <1>4

LEMMA RecordOfFolder ==
    ASSUME NEW m \in Models, NEW ver \in Versions, NEW folder \in Folders
    PROVE  /\ Record(m, ver, folder) \in Manifests
           /\ Record(m, ver, folder) # None
           /\ \A sigs : Genuine(Record(m, ver, folder), sigs)
<1>1. Record(m, ver, folder) \in Bodies
  BY DEF Bodies
<1>2. Record(m, ver, folder) \in Manifests /\ Record(m, ver, folder).signatures = <<>>
  BY <1>1, BodiesAreManifests
<1>3. SigningBytes(Record(m, ver, folder)) = Record(m, ver, folder)
  <2>1. <<>> \in Seq(Signatures)
    OBVIOUS
  <2> QED
    BY <1>2, <2>1, SigningBytesFacts
<1> QED
  BY <1>1, <1>2, <1>3, RecordsAssumption DEF Genuine

(***************************************************************************)
(* Whatever the registry answers is a known record with real signatures.   *)
(***************************************************************************)
LEMMA AnswersAreGenuine ==
    ASSUME TypeOK, GenuineInv, NEW m \in Models, NEW answer \in Answers(m)
    PROVE  answer \in Manifests /\ answer # None /\ Genuine(answer, signed)
<1>1. CASE Untrusted
  <2>1. PICK b \in Bodies, ss \in SignatureLists : answer = [b EXCEPT !.signatures = ss]
    BY <1>1 DEF Answers
  <2>2. PICK k \in 0 .. MaxSignatures : ss \in [1 .. k -> signed]
    BY <2>1 DEF SignatureLists
  <2>3. k \in Nat
    BY <2>2, RolesAssumption
  <2>4. ss \in Seq(signed) /\ Len(ss) = k
    BY <2>2, <2>3
  <2>5. ss \in Seq(Signatures)
    BY <2>4 DEF TypeOK
  <2>6. b \in Manifests /\ b.signatures = <<>>
    BY BodiesAreManifests
  <2>7. /\ answer \in Manifests
        /\ answer.signatures = ss
        /\ SigningBytes(answer) = b
    BY <2>1, <2>5, <2>6, SigningBytesFacts
  <2> QED
    BY <2>2, <2>4, <2>7, RecordsAssumption DEF Genuine
<1>2. CASE ~Untrusted
  BY <1>2 DEF Answers, TypeOK, GenuineInv
<1> QED
  BY <1>1, <1>2

LEMMA Step ==
    ASSUME IInv, Next
    PROVE  IInv'
<1> USE DEF IInv
<1>1. ASSUME NEW v \in Validators, NEW m \in Models, NEW ver \in Versions, NEW folder \in Folders,
           Import(v, m, ver, folder)
     PROVE  IInv'
  <2>1. /\ Record(m, ver, folder) \in Manifests
        /\ Record(m, ver, folder) # None
        /\ Genuine(Record(m, ver, folder), signed)
    BY RecordOfFolder
  <2>2. TypeOK'
    BY <1>1, <2>1
       DEF Import, TypeOK, Goto, download, registry, States, Failures, Nodes,
           PhaseInv
  <2>3. PhaseInv'
    BY <1>1, <2>1 DEF Import, TypeOK, Goto, PhaseInv, Failures, Nodes, registry, download
  <2>4. GenuineInv'
    BY <1>1, <2>1 DEF Import, TypeOK, Goto, GenuineInv, Genuine, registry, Nodes
  <2>5. AcceptedInv'
    BY <1>1, <2>1
       DEF Import, TypeOK, Goto, AcceptedInv, Accepted, PastQuorum, Failures,
           Nodes
  <2> QED
    BY <2>2, <2>3, <2>4, <2>5
<1>2. ASSUME NEW v \in Validators,
           Sign(v)
     PROVE  IInv'
  <2> DEFINE own == OwnSignature(v, man[v])
             done == [man[v] EXCEPT !.signatures = <<own>>]
  <2>a. man[v] \in Manifests /\ SigningBytes(man[v]) \in Bodies
    BY <1>2 DEF Sign, Goto, TypeOK, PhaseInv, GenuineInv, Genuine, Nodes
  <2>b. own \in Signatures
    BY <2>a, OwnSignatureIsKnown
  <2>c. <<own>> \in Seq(Signatures) /\ Len(<<own>>) = 1 /\ <<own>>[1] = own
    BY <2>b
  <2>d. /\ done \in Manifests
        /\ SigningBytes(done) \in Bodies
        /\ done.signatures = <<own>>
    BY <2>a, <2>c, SigningBytesFacts
  <2>1. /\ own \in Signatures
        /\ done \in Manifests
        /\ done # None
        /\ Genuine(done, signed \cup {own})
    BY <2>b, <2>c, <2>d, RecordsAssumption DEF Genuine
  <2>e. signed' = signed \cup {own} /\ man' = [man EXCEPT ![v] = done]
    BY <1>2 DEF Sign
  <2> HIDE DEF own, done
  <2>f. /\ signed' \subseteq Signatures
        /\ man' \in [Nodes -> Manifests \cup {None}]
    BY <2>1, <2>e DEF TypeOK
  <2>g. pc' \in [Nodes -> States]
    BY <1>2 DEF Sign, Goto, TypeOK, States
  <2>2. TypeOK'
    BY <1>2, <2>f, <2>g DEF Sign, TypeOK, download, registry
  <2>3. PhaseInv'
    BY <1>2, <2>1, <2>e
       DEF Sign, TypeOK, Goto, PhaseInv, Failures, Nodes, registry, download
  <2>4. GenuineInv'
    BY <1>2, <2>1, <2>e
       DEF Sign, TypeOK, Goto, GenuineInv, Genuine, registry, Nodes
  <2>5. AcceptedInv'
    BY <1>2, <2>1, <2>e
       DEF Sign, TypeOK, Goto, AcceptedInv, Accepted, PastQuorum, Failures,
           Nodes
  <2> QED
    BY <2>2, <2>3, <2>4, <2>5
<1>3. ASSUME NEW v \in Validators,
           Put(v)
     PROVE  IInv'
  <2>1. TypeOK'
    BY <1>3
       DEF Put, TypeOK, Goto, download, registry, States, Failures, Nodes,
           PhaseInv
  <2>2. PhaseInv'
    BY <1>3 DEF Put, TypeOK, Goto, PhaseInv, Failures, Nodes, registry, download
  <2>3. GenuineInv'
    BY <1>3 DEF Put, TypeOK, Goto, GenuineInv, Genuine, registry, Nodes
  <2>4. AcceptedInv'
    BY <1>3
       DEF Put, TypeOK, Goto, AcceptedInv, Accepted, PastQuorum, Failures, Nodes
  <2> QED
    BY <2>1, <2>2, <2>3, <2>4
<1>4. ASSUME NEW v \in Validators, NEW b \in HandSigned,
           SignByHand(v, b)
     PROVE  IInv'
  <2>a. b \in Manifests /\ SigningBytes(b) \in Bodies
    <3>1. b \in Bodies /\ <<>> \in Seq(Signatures)
      BY DEF Bodies
    <3> QED
      BY <3>1, BodiesAreManifests, SigningBytesFacts
  <2>1. OwnSignature(v, b) \in Signatures
    BY <2>a, OwnSignatureIsKnown
  <2>2. TypeOK'
    BY <1>4, <2>1
       DEF SignByHand, TypeOK, Goto, download, registry, States, Failures,
           Nodes, PhaseInv
  <2>3. PhaseInv'
    BY <1>4, <2>1
       DEF SignByHand, TypeOK, Goto, PhaseInv, Failures, Nodes, registry, download
  <2>4. GenuineInv'
    BY <1>4, <2>1
       DEF SignByHand, TypeOK, Goto, GenuineInv, Genuine, registry, Nodes
  <2>5. AcceptedInv'
    BY <1>4, <2>1
       DEF SignByHand, TypeOK, Goto, AcceptedInv, Accepted, PastQuorum,
           Failures, Nodes
  <2> QED
    BY <2>2, <2>3, <2>4, <2>5
<1>5. ASSUME NEW s \in Seeders, NEW m \in Models, NEW folder \in Folders,
           SeedDir(s, m, folder)
     PROVE  IInv'
  <2>1. TypeOK'
    BY <1>5
       DEF SeedDir, TypeOK, Goto, download, registry, States, Failures, Nodes,
           PhaseInv
  <2>2. PhaseInv'
    BY <1>5 DEF SeedDir, TypeOK, Goto, PhaseInv, Failures, Nodes, registry, download
  <2>3. GenuineInv'
    BY <1>5 DEF SeedDir, TypeOK, Goto, GenuineInv, Genuine, registry, Nodes
  <2>4. AcceptedInv'
    BY <1>5
       DEF SeedDir, TypeOK, Goto, AcceptedInv, Accepted, PastQuorum, Failures,
           Nodes
  <2> QED
    BY <2>1, <2>2, <2>3, <2>4
<1>6. ASSUME NEW c \in Clients, NEW m \in Models,
           Get(c, m)
     PROVE  IInv'
  <2>1. TypeOK'
    BY <1>6
       DEF Get, TypeOK, Goto, download, registry, States, Failures, Nodes,
           PhaseInv
  <2>2. PhaseInv'
    BY <1>6 DEF Get, TypeOK, Goto, PhaseInv, Failures, Nodes, registry, download
  <2>3. GenuineInv'
    BY <1>6 DEF Get, TypeOK, Goto, GenuineInv, Genuine, registry, Nodes
  <2>4. AcceptedInv'
    BY <1>6
       DEF Get, TypeOK, Goto, AcceptedInv, Accepted, PastQuorum, Failures, Nodes
  <2> QED
    BY <2>1, <2>2, <2>3, <2>4
<1>7. ASSUME NEW c \in Clients,
           Resolve(c)
     PROVE  IInv'
  <2>a. PICK answer \in Answers(want[c]) : man' = [man EXCEPT ![c] = answer]
    BY <1>7 DEF Resolve
  <2>b. want[c] \in Models
    BY <1>7 DEF Resolve, Goto, PhaseInv, Nodes
  <2>c. answer \in Manifests /\ answer # None /\ Genuine(answer, signed)
    BY <2>b, AnswersAreGenuine
  <2>1. /\ man' = [man EXCEPT ![c] = answer]
        /\ answer \in Manifests
        /\ answer # None
        /\ Genuine(answer, signed)
    BY <2>a, <2>c
  <2>2. TypeOK'
    BY <1>7, <2>1
       DEF Resolve, TypeOK, Goto, download, registry, States, Failures, Nodes,
           PhaseInv
  <2>3. PhaseInv'
    BY <1>7, <2>1 DEF Resolve, TypeOK, Goto, PhaseInv, Failures, Nodes, registry, download
  <2>4. GenuineInv'
    BY <1>7, <2>1
       DEF Resolve, TypeOK, Goto, GenuineInv, Genuine, registry, Nodes
  <2>5. AcceptedInv'
    BY <1>7, <2>1
       DEF Resolve, TypeOK, Goto, AcceptedInv, Accepted, PastQuorum, Failures,
           Nodes
  <2> QED
    BY <2>2, <2>3, <2>4, <2>5
<1>8. ASSUME NEW c \in Clients,
           RequestFails(c)
     PROVE  IInv'
  <2>1. TypeOK'
    BY <1>8
       DEF RequestFails, TypeOK, Goto, download, registry, States, Failures,
           Nodes, PhaseInv
  <2>2. PhaseInv'
    BY <1>8 DEF RequestFails, TypeOK, Goto, PhaseInv, Failures, Nodes, registry, download
  <2>3. GenuineInv'
    BY <1>8 DEF RequestFails, TypeOK, Goto, GenuineInv, Genuine, registry, Nodes
  <2>4. AcceptedInv'
    BY <1>8
       DEF RequestFails, TypeOK, Goto, AcceptedInv, Accepted, PastQuorum,
           Failures, Nodes
  <2> QED
    BY <2>1, <2>2, <2>3, <2>4
<1>9. ASSUME NEW c \in Clients,
           Verify(c)
     PROVE  IInv'
  <2>1. TypeOK'
    BY <1>9
       DEF Verify, TypeOK, Goto, download, registry, States, Failures, Nodes,
           PhaseInv
  <2>2. PhaseInv'
    BY <1>9 DEF Verify, TypeOK, Goto, PhaseInv, Failures, Nodes, registry, download
  <2>3. GenuineInv'
    BY <1>9 DEF Verify, TypeOK, Goto, GenuineInv, Genuine, registry, Nodes
  <2>4. AcceptedInv'
    BY <1>9
       DEF Verify, TypeOK, Goto, AcceptedInv, Accepted, PastQuorum, Failures,
           Nodes, PhaseInv
  <2> QED
    BY <2>1, <2>2, <2>3, <2>4
<1>10. ASSUME NEW c \in Clients,
            Locate(c)
     PROVE  IInv'
  <2>a. PICK ps \in PeerLists(want[c]) :
           IF ps # {} /\ Unparsable \notin ps
           THEN /\ Goto(c, "locating", "fetching")
                /\ peers' = [peers EXCEPT ![c] = ps]
           ELSE /\ Goto(c, "locating", "unlisted")
                /\ UNCHANGED peers
    BY <1>10 DEF Locate
  <2>b. ps \subseteq Nodes \cup {Unparsable}
    BY DEF PeerLists
  <2>1. peers' \in [Clients -> SUBSET (Nodes \cup {Unparsable})]
    BY <2>a, <2>b DEF TypeOK
  <2>2. TypeOK'
    BY <1>10, <2>1
       DEF Locate, TypeOK, Goto, download, registry, States, Failures, Nodes,
           PhaseInv
  <2>3. PhaseInv'
    BY <1>10, <2>1 DEF Locate, TypeOK, Goto, PhaseInv, Failures, Nodes, registry, download
  <2>4. GenuineInv'
    BY <1>10, <2>1
       DEF Locate, TypeOK, Goto, GenuineInv, Genuine, registry, Nodes
  <2>5. AcceptedInv'
    BY <1>10, <2>1
       DEF Locate, TypeOK, Goto, AcceptedInv, Accepted, PastQuorum, Failures,
           Nodes
  <2> QED
    BY <2>2, <2>3, <2>4, <2>5
<1>11. ASSUME NEW c \in Clients,
            Fetch(c)
     PROVE  IInv'
  <2>1. TypeOK'
    BY <1>11
       DEF Fetch, TypeOK, Goto, download, registry, States, Failures, Nodes,
           PhaseInv
  <2>2. PhaseInv'
    BY <1>11 DEF Fetch, TypeOK, Goto, PhaseInv, Failures, Nodes, registry, download
  <2>3. GenuineInv'
    BY <1>11 DEF Fetch, TypeOK, Goto, GenuineInv, Genuine, registry, Nodes
  <2>4. AcceptedInv'
    BY <1>11
       DEF Fetch, TypeOK, Goto, AcceptedInv, Accepted, PastQuorum, Failures,
           Nodes
  <2> QED
    BY <2>1, <2>2, <2>3, <2>4
<1>12. ASSUME NEW c \in Clients,
            FetchFails(c)
     PROVE  IInv'
  <2>1. TypeOK'
    BY <1>12
       DEF FetchFails, TypeOK, Goto, download, registry, States, Failures,
           Nodes, PhaseInv
  <2>2. PhaseInv'
    BY <1>12 DEF FetchFails, TypeOK, Goto, PhaseInv, Failures, Nodes, registry, download
  <2>3. GenuineInv'
    BY <1>12 DEF FetchFails, TypeOK, Goto, GenuineInv, Genuine, registry, Nodes
  <2>4. AcceptedInv'
    BY <1>12
       DEF FetchFails, TypeOK, Goto, AcceptedInv, Accepted, PastQuorum,
           Failures, Nodes
  <2> QED
    BY <2>1, <2>2, <2>3, <2>4
<1>13. ASSUME NEW c \in Clients,
            Fetched(c)
     PROVE  IInv'
  <2>1. DOMAIN man[c].collection \subseteq Nat
    BY <1>13, EntriesOfManifest
       DEF Fetched, Goto, TypeOK, AcceptedInv, Accepted, PastQuorum, Nodes
  <2>2. TypeOK'
    BY <1>13, <2>1
       DEF Fetched, TypeOK, Goto, download, registry, States, Failures, Nodes,
           PhaseInv
  <2>3. PhaseInv'
    BY <1>13, <2>1
       DEF Fetched, TypeOK, Goto, PhaseInv, Failures, Nodes, registry, download
  <2>4. GenuineInv'
    BY <1>13, <2>1
       DEF Fetched, TypeOK, Goto, GenuineInv, Genuine, registry, Nodes
  <2>5. AcceptedInv'
    BY <1>13, <2>1
       DEF Fetched, TypeOK, Goto, AcceptedInv, Accepted, PastQuorum, Failures,
           Nodes
  <2> QED
    BY <2>2, <2>3, <2>4, <2>5
<1>14. ASSUME NEW c \in Clients, NEW i \in todo[c],
            Clear(c, i)
     PROVE  IInv'
  <2>1. TypeOK'
    BY <1>14
       DEF Clear, TypeOK, Goto, download, registry, States, Failures, Nodes,
           PhaseInv
  <2>2. PhaseInv'
    BY <1>14 DEF Clear, TypeOK, Goto, PhaseInv, Failures, Nodes, registry, download
  <2>3. GenuineInv'
    BY <1>14 DEF Clear, TypeOK, Goto, GenuineInv, Genuine, registry, Nodes
  <2>4. AcceptedInv'
    BY <1>14
       DEF Clear, TypeOK, Goto, AcceptedInv, Accepted, PastQuorum, Failures,
           Nodes
  <2> QED
    BY <2>1, <2>2, <2>3, <2>4
<1>15. ASSUME NEW c \in Clients, NEW i \in todo[c],
            ClearFails(c, i)
     PROVE  IInv'
  <2>1. TypeOK'
    BY <1>15
       DEF ClearFails, TypeOK, Goto, download, registry, States, Failures,
           Nodes, PhaseInv
  <2>2. PhaseInv'
    BY <1>15 DEF ClearFails, TypeOK, Goto, PhaseInv, Failures, Nodes, registry, download
  <2>3. GenuineInv'
    BY <1>15 DEF ClearFails, TypeOK, Goto, GenuineInv, Genuine, registry, Nodes
  <2>4. AcceptedInv'
    BY <1>15
       DEF ClearFails, TypeOK, Goto, AcceptedInv, Accepted, PastQuorum,
           Failures, Nodes
  <2> QED
    BY <2>1, <2>2, <2>3, <2>4
<1>16. ASSUME NEW c \in Clients,
            Cleared(c)
     PROVE  IInv'
  <2>1. DOMAIN man[c].collection \subseteq Nat
    BY <1>16, EntriesOfManifest
       DEF Cleared, Goto, TypeOK, AcceptedInv, Accepted, PastQuorum, Nodes
  <2>2. TypeOK'
    BY <1>16, <2>1
       DEF Cleared, TypeOK, Goto, download, registry, States, Failures, Nodes,
           PhaseInv
  <2>3. PhaseInv'
    BY <1>16, <2>1
       DEF Cleared, TypeOK, Goto, PhaseInv, Failures, Nodes, registry, download
  <2>4. GenuineInv'
    BY <1>16, <2>1
       DEF Cleared, TypeOK, Goto, GenuineInv, Genuine, registry, Nodes
  <2>5. AcceptedInv'
    BY <1>16, <2>1
       DEF Cleared, TypeOK, Goto, AcceptedInv, Accepted, PastQuorum, Failures,
           Nodes
  <2> QED
    BY <2>2, <2>3, <2>4, <2>5
<1>17. ASSUME NEW c \in Clients, NEW i \in todo[c],
            Export(c, i)
     PROVE  IInv'
  <2>a. i \in DOMAIN man[c].collection /\ man[c] \in Manifests
    BY <1>17 DEF Export, Exports, TypeOK, PhaseInv, AcceptedInv, Accepted, PastQuorum, Nodes
  <2>1. man[c].collection[i].blake3 \in Hashes
    BY <2>a, EntriesOfManifest
  <2>2. TypeOK'
    BY <1>17, <2>1
       DEF Export, TypeOK, Goto, download, registry, States, Failures, Nodes,
           PhaseInv
  <2>3. PhaseInv'
    BY <1>17, <2>1 DEF Export, TypeOK, Goto, PhaseInv, Failures, Nodes, registry, download
  <2>4. GenuineInv'
    BY <1>17, <2>1
       DEF Export, TypeOK, Goto, GenuineInv, Genuine, registry, Nodes
  <2>5. AcceptedInv'
    BY <1>17, <2>1
       DEF Export, TypeOK, Goto, AcceptedInv, Accepted, PastQuorum, Failures,
           Nodes
  <2> QED
    BY <2>2, <2>3, <2>4, <2>5
<1>18. ASSUME NEW c \in Clients, NEW i \in todo[c],
            ExportBlocked(c, i)
     PROVE  IInv'
  <2>1. TypeOK'
    BY <1>18
       DEF ExportBlocked, TypeOK, Goto, download, registry, States, Failures,
           Nodes, PhaseInv
  <2>2. PhaseInv'
    BY <1>18
       DEF ExportBlocked, TypeOK, Goto, PhaseInv, Failures, Nodes, registry, download
  <2>3. GenuineInv'
    BY <1>18
       DEF ExportBlocked, TypeOK, Goto, GenuineInv, Genuine, registry, Nodes
  <2>4. AcceptedInv'
    BY <1>18
       DEF ExportBlocked, TypeOK, Goto, AcceptedInv, Accepted, PastQuorum,
           Failures, Nodes
  <2> QED
    BY <2>1, <2>2, <2>3, <2>4
<1>19. ASSUME NEW c \in Clients,
            Exported(c)
     PROVE  IInv'
  <2>1. TypeOK'
    BY <1>19
       DEF Exported, TypeOK, Goto, download, registry, States, Failures, Nodes,
           PhaseInv
  <2>2. PhaseInv'
    BY <1>19 DEF Exported, TypeOK, Goto, PhaseInv, Failures, Nodes, registry, download
  <2>3. GenuineInv'
    BY <1>19 DEF Exported, TypeOK, Goto, GenuineInv, Genuine, registry, Nodes
  <2>4. AcceptedInv'
    BY <1>19
       DEF Exported, TypeOK, Goto, AcceptedInv, Accepted, PastQuorum, Failures,
           Nodes
  <2> QED
    BY <2>1, <2>2, <2>3, <2>4
<1>20. ASSUME NEW c \in Clients,
            CrossCheck(c)
     PROVE  IInv'
  <2>1. TypeOK'
    BY <1>20
       DEF CrossCheck, TypeOK, Goto, download, registry, States, Failures,
           Nodes, PhaseInv
  <2>2. PhaseInv'
    BY <1>20 DEF CrossCheck, TypeOK, Goto, PhaseInv, Failures, Nodes, registry, download
  <2>3. GenuineInv'
    BY <1>20 DEF CrossCheck, TypeOK, Goto, GenuineInv, Genuine, registry, Nodes
  <2>4. AcceptedInv'
    BY <1>20
       DEF CrossCheck, TypeOK, Goto, AcceptedInv, Accepted, PastQuorum,
           Failures, Nodes
  <2> QED
    BY <2>1, <2>2, <2>3, <2>4
<1>21. ASSUME NEW c \in Clients, NEW i \in todo[c],
            ExportTorn(c, i)
     PROVE  IInv'
  <2>1. TypeOK'
    BY <1>21
       DEF ExportTorn, TypeOK, Goto, download, registry, States, Failures,
           Nodes, PhaseInv, End, Up
  <2>2. PhaseInv'
    BY <1>21
       DEF ExportTorn, TypeOK, Goto, PhaseInv, Failures, Nodes, registry, download, End,
           Up
  <2>3. GenuineInv'
    BY <1>21
       DEF ExportTorn, TypeOK, Goto, GenuineInv, Genuine, registry, Nodes, End,
           Up
  <2>4. AcceptedInv'
    BY <1>21
       DEF ExportTorn, TypeOK, Goto, AcceptedInv, Accepted, PastQuorum,
           Failures, Nodes, End, Up
  <2> QED
    BY <2>1, <2>2, <2>3, <2>4
<1>22. ASSUME NEW n \in Nodes,
            AnnounceAndServe(n)
     PROVE  IInv'
  <2>1. TypeOK'
    BY <1>22
       DEF AnnounceAndServe, TypeOK, Goto, download, registry, States,
           Failures, Nodes, PhaseInv
  <2>2. PhaseInv'
    BY <1>22
       DEF AnnounceAndServe, TypeOK, Goto, PhaseInv, Failures, Nodes, registry, download
  <2>3. GenuineInv'
    BY <1>22
       DEF AnnounceAndServe, TypeOK, Goto, GenuineInv, Genuine, registry, Nodes
  <2>4. AcceptedInv'
    BY <1>22
       DEF AnnounceAndServe, TypeOK, Goto, AcceptedInv, Accepted, PastQuorum,
           Failures, Nodes, PhaseInv
  <2> QED
    BY <2>1, <2>2, <2>3, <2>4
<1>23. ASSUME NEW n \in Nodes,
            Exit(n)
     PROVE  IInv'
  <2>1. TypeOK'
    BY <1>23
       DEF Exit, TypeOK, Goto, download, registry, States, Failures, Nodes,
           PhaseInv, End, Up
  <2>2. PhaseInv'
    BY <1>23
       DEF Exit, TypeOK, Goto, PhaseInv, Failures, Nodes, registry, download, End, Up
  <2>3. GenuineInv'
    BY <1>23
       DEF Exit, TypeOK, Goto, GenuineInv, Genuine, registry, Nodes, End, Up
  <2>4. AcceptedInv'
    BY <1>23
       DEF Exit, TypeOK, Goto, AcceptedInv, Accepted, PastQuorum, Failures,
           Nodes, End, Up
  <2> QED
    BY <2>1, <2>2, <2>3, <2>4
<1>24. ASSUME NEW n \in Nodes, NEW m \in Models,
            Expire(m, n)
     PROVE  IInv'
  <2>1. TypeOK'
    BY <1>24
       DEF Expire, TypeOK, Goto, download, registry, States, Failures, Nodes,
           PhaseInv
  <2>2. PhaseInv'
    BY <1>24 DEF Expire, TypeOK, Goto, PhaseInv, Failures, Nodes, registry, download
  <2>3. GenuineInv'
    BY <1>24 DEF Expire, TypeOK, Goto, GenuineInv, Genuine, registry, Nodes
  <2>4. AcceptedInv'
    BY <1>24
       DEF Expire, TypeOK, Goto, AcceptedInv, Accepted, PastQuorum, Failures,
           Nodes
  <2> QED
    BY <2>1, <2>2, <2>3, <2>4
<1>25. ASSUME NEW c \in Clients,
            DirFails(c)
     PROVE  IInv'
  <2>1. TypeOK'
    BY <1>25
       DEF DirFails, TypeOK, Goto, download, registry, States, Failures,
           Nodes, PhaseInv
  <2>2. PhaseInv'
    BY <1>25 DEF DirFails, TypeOK, Goto, PhaseInv, Failures, Nodes, registry, download
  <2>3. GenuineInv'
    BY <1>25 DEF DirFails, TypeOK, Goto, GenuineInv, Genuine, registry, Nodes
  <2>4. AcceptedInv'
    BY <1>25
       DEF DirFails, TypeOK, Goto, AcceptedInv, Accepted, PastQuorum,
           Failures, Nodes
  <2> QED
    BY <2>1, <2>2, <2>3, <2>4
<1>26. ASSUME NEW c \in Clients, NEW i \in todo[c],
            ExportFails(c, i)
     PROVE  IInv'
  <2>1. TypeOK'
    BY <1>26
       DEF ExportFails, Goto, TypeOK, download, registry, States, Failures,
           Nodes, PhaseInv
  <2>2. PhaseInv'
    BY <1>26
       DEF ExportFails, Goto, TypeOK, PhaseInv, Failures, Nodes, registry, download
  <2>3. GenuineInv'
    BY <1>26
       DEF ExportFails, Goto, TypeOK, GenuineInv, Genuine, registry, Nodes, End,
           Up
  <2>4. AcceptedInv'
    BY <1>26
       DEF ExportFails, Goto, TypeOK, AcceptedInv, Accepted, PastQuorum,
           Failures, Nodes
  <2> QED
    BY <2>1, <2>2, <2>3, <2>4
<1> QED
  BY <1>1, <1>2, <1>3, <1>4, <1>5, <1>6, <1>7, <1>8, <1>9, <1>10, <1>11, <1>12, <1>13, <1>14, <1>15, <1>16, <1>17, <1>18, <1>19, <1>20, <1>21, <1>22, <1>23, <1>24, <1>25, <1>26 DEF Next, Proceed, Await

LEMMA InitInv ==
    ASSUME Init
    PROVE  IInv
<1> USE DEF Init
<1>1. TypeOK
  BY DEF TypeOK, States
<1>2. PhaseInv /\ AcceptedInv
  BY DEF PhaseInv, AcceptedInv, PastQuorum
<1>3. GenuineInv
  BY DEF GenuineInv
<1> QED
  BY <1>1, <1>2, <1>3 DEF IInv

LEMMA Stutter ==
    ASSUME IInv, UNCHANGED vars
    PROVE  IInv'
<1> USE DEF vars
<1>1. TypeOK'
  BY DEF IInv, TypeOK
<1>2. PhaseInv'
  BY DEF IInv, PhaseInv
<1>3. GenuineInv'
  BY DEF IInv, GenuineInv, Genuine
<1>4. AcceptedInv'
  BY DEF IInv, AcceptedInv, Accepted
<1> QED
  BY <1>1, <1>2, <1>3, <1>4 DEF IInv

LEMMA Inductive == Spec => []IInv
BY InitInv, Step, Stutter, PTL DEF Spec

(***************************************************************************)
(* Every reachable state of the pipeline has its types: every manifest in  *)
(* the registry or in a client is a record with known signatures, and a    *)
(* running command has a model.                                            *)
(***************************************************************************)
THEOREM TypeCorrect == Spec => []TypeOK
BY Inductive, PTL DEF IInv
-----------------------------------------------------------------------------
(***************************************************************************)
(* The trust model.  What a client accepts was signed by a quorum.         *)
(***************************************************************************)
LEMMA VouchersAreSigners ==
    ASSUME TypeOK, NEW m \in Manifests, Genuine(m, signed)
    PROVE  Vouchers(Pinned, m) \subseteq Trust!Signers(SigningBytes(m))
<1>1. SUFFICES ASSUME NEW id \in Ids, Vouched(Pinned, m, id)
               PROVE  id \in Trust!Signers(SigningBytes(m))
  BY DEF Vouchers
<1>2. PICK i \in 1 .. Len(m.signatures), key \in Keys :
         /\ m.signatures[i].validator = id
         /\ IsKeyOf(Pinned.validators, id, key)
         /\ m.signatures[i].sig.key = key
         /\ m.signatures[i].sig.msg = SigningBytes(m)
  BY <1>1 DEF Vouched, VerifyStrict
<1>3. m.signatures[i] \in signed
  BY DEF Genuine
<1>4. PICK id2 \in Ids, key2 \in Keys, b \in Bodies :
         m.signatures[i] = SignManifest(id2, key2, b)
  BY <1>3 DEF TypeOK, Signatures
<1>5. m.signatures[i] =
        [validator |-> id, sig |-> [key |-> key, msg |-> SigningBytes(m)]]
  BY <1>2, <1>4 DEF SignManifest
<1>6. SigningBytes(SigningBytes(m)) = SigningBytes(m)
  <2>1. <<>> \in Seq(Signatures)
    OBVIOUS
  <2> QED
    BY <2>1, SigningBytesFacts
<1>7. m.signatures[i] = Trust!SignManifest(id, key, SigningBytes(m))
  BY <1>5, <1>6
     DEF Trust!SignManifest, Trust!SigningBytes, SigningBytes
<1>8. Trust!IsKeyOf(Pinned.validators, id, key)
  BY <1>2 DEF Trust!IsKeyOf, IsKeyOf
<1> QED
  BY <1>3, <1>7, <1>8 DEF Trust!Signers

LEMMA SignersAreFinite ==
    ASSUME NEW b
    PROVE  IsFiniteSet(Trust!Signers(b))
<1> DEFINE vs == Pinned.validators
           f == [i \in 1 .. Len(vs) |-> vs[i].id]
           ids == {vs[i].id : i \in 1 .. Len(vs)}
<1>1. Len(vs) \in Nat
  BY RolesAssumption DEF Keyring
<1>2. IsFiniteSet(1 .. Len(vs))
  BY <1>1, FS_Interval
<1>3. IsFiniteSet(ids)
  <2>1. f \in [1 .. Len(vs) -> ids] /\ \A x \in ids : \E i \in 1 .. Len(vs) : f[i] = x
    OBVIOUS
  <2>2. f \in Surjection(1 .. Len(vs), ids)
    BY <2>1, Zenon DEF Surjection
  <2> QED
    BY <1>2, <2>2, FS_Surjection
<1>4. Trust!Signers(b) \subseteq ids
  BY DEF Trust!Signers, Trust!IsKeyOf
<1> QED
  BY <1>3, <1>4, FS_Subset

LEMMA AcceptedIsTruth ==
    ASSUME TypeOK, NEW m \in Manifests, Genuine(m, signed),
           Verdict(Pinned, m) = "accepted"
    PROVE  Trust!Truth(SigningBytes(m))
<1> DEFINE S == Trust!Signers(SigningBytes(m))
           V == Vouchers(Pinned, m)
<1>1. Usable(Pinned) /\ Cardinality(V) >= Pinned.quorum
  BY DEF Verdict
<1>2. V \subseteq S /\ IsFiniteSet(S)
  BY VouchersAreSigners, SignersAreFinite
<1>3. /\ Cardinality(V) <= Cardinality(S)
      /\ Cardinality(V) \in Nat
      /\ Cardinality(S) \in Nat
  BY <1>2, FS_Subset, FS_CardinalityType
<1>4. Cardinality(S) >= Pinned.quorum
  BY <1>1, <1>3, RolesAssumption DEF Keyring
<1>5. Trust!Usable(Pinned)
  BY <1>1 DEF Trust!Usable, Usable
<1>6. \A X : Trust!Cardinality(X) = Cardinality(X)
  BY DEF Trust!Cardinality, Cardinality
<1> QED
  BY <1>4, <1>5, <1>6 DEF Trust!Truth

(***************************************************************************)
(* Only saving and exiting change what a client holds.                     *)
(***************************************************************************)
LEMMA HoldsKept ==
    ASSUME \A c \in Clients :
               /\ Saved(c)' <=> Saved(c)
               /\ Saved(c) => man'[c] = man[c]
    PROVE  holds' = holds
<1>1. \A c \in Clients :
         (IF Saved(c)' THEN SigningBytes(man'[c]) ELSE None) =
         (IF Saved(c) THEN SigningBytes(man[c]) ELSE None)
  OBVIOUS
<1> QED
  BY <1>1 DEF holds

LEMMA SameHolds ==
    ASSUME signed' = signed,
           \A c \in Clients :
               /\ Saved(c)' <=> Saved(c)
               /\ Saved(c) => man'[c] = man[c]
    PROVE  [Trust!Next]_Trust!vars
BY HoldsKept DEF Trust!vars

LEMMA SignStep ==
    ASSUME NEW v \in Validators, NEW m \in Manifests, SigningBytes(m) \in Bodies,
           signed' = signed \cup {OwnSignature(v, m)}, holds' = holds
    PROVE  [Trust!Next]_Trust!vars
<1>1. IdOf[v] \in Ids /\ KeyOf[v] \in Keys
  BY RolesAssumption
<1>2. SigningBytes(SigningBytes(m)) = SigningBytes(m)
  <2>1. <<>> \in Seq(Signatures)
    OBVIOUS
  <2> QED
    BY <2>1, SigningBytesFacts
<1>3. OwnSignature(v, m) = Trust!SignManifest(IdOf[v], KeyOf[v], SigningBytes(m))
  BY <1>2 DEF OwnSignature, SignManifest, SigningBytes,
              Trust!SignManifest, Trust!SigningBytes
<1>4. Trust!Sign(IdOf[v], KeyOf[v], SigningBytes(m))
  BY <1>3 DEF Trust!Sign
<1> QED
  BY <1>1, <1>4 DEF Trust!Next

LEMMA RefinementStep ==
    ASSUME IInv, Next
    PROVE  [Trust!Next]_Trust!vars
<1> USE DEF IInv
<1>1. ASSUME NEW v \in Validators, NEW m \in Models, NEW ver \in Versions, NEW folder \in Folders, Import(v, m, ver, folder)
     PROVE  [Trust!Next]_Trust!vars
  <2>1. /\ signed' = signed
        /\ \A x \in Clients :
              /\ Saved(x)' <=> Saved(x)
              /\ Saved(x) => man'[x] = man[x]
    BY <1>1 DEF Import, Saved, TypeOK, PhaseInv, Nodes, Goto, registry, download, Failures
  <2> QED
    BY <2>1, SameHolds
<1>2. ASSUME NEW v \in Validators, Sign(v)
     PROVE  [Trust!Next]_Trust!vars
  <2>1. man[v] \in Manifests /\ SigningBytes(man[v]) \in Bodies
    BY <1>2 DEF Sign, Goto, TypeOK, PhaseInv, GenuineInv, Genuine, Nodes
  <2>2. \A x \in Clients :
           /\ Saved(x)' <=> Saved(x)
           /\ Saved(x) => man'[x] = man[x]
    BY <1>2 DEF Sign, Saved, TypeOK, Goto, Nodes
  <2>3. holds' = holds
    BY <2>2, HoldsKept
  <2> QED
    BY <1>2, <2>1, <2>3, SignStep DEF Sign
<1>3. ASSUME NEW v \in Validators, Put(v)
     PROVE  [Trust!Next]_Trust!vars
  <2>1. /\ signed' = signed
        /\ \A x \in Clients :
              /\ Saved(x)' <=> Saved(x)
              /\ Saved(x) => man'[x] = man[x]
    BY <1>3 DEF Put, Saved, TypeOK, PhaseInv, Nodes, Goto, registry, download, Failures
  <2> QED
    BY <2>1, SameHolds
<1>4. ASSUME NEW v \in Validators, NEW b \in HandSigned, SignByHand(v, b)
     PROVE  [Trust!Next]_Trust!vars
  <2>1. b \in Bodies /\ <<>> \in Seq(Signatures)
    BY DEF Bodies
  <2>2. b \in Manifests /\ SigningBytes(b) \in Bodies
    BY <2>1, BodiesAreManifests, SigningBytesFacts
  <2>3. holds' = holds
    BY <1>4 DEF SignByHand, holds, Saved
  <2> QED
    BY <1>4, <2>2, <2>3, SignStep DEF SignByHand
<1>5. ASSUME NEW s \in Seeders, NEW m \in Models, NEW folder \in Folders, SeedDir(s, m, folder)
     PROVE  [Trust!Next]_Trust!vars
  <2>1. /\ signed' = signed
        /\ \A x \in Clients :
              /\ Saved(x)' <=> Saved(x)
              /\ Saved(x) => man'[x] = man[x]
    BY <1>5 DEF SeedDir, Saved, TypeOK, PhaseInv, Nodes, Goto, registry, download, Failures
  <2> QED
    BY <2>1, SameHolds
<1>6. ASSUME NEW c \in Clients, NEW m \in Models, Get(c, m)
     PROVE  [Trust!Next]_Trust!vars
  <2>1. /\ signed' = signed
        /\ \A x \in Clients :
              /\ Saved(x)' <=> Saved(x)
              /\ Saved(x) => man'[x] = man[x]
    BY <1>6 DEF Get, Saved, TypeOK, PhaseInv, Nodes, Goto, registry, download, Failures
  <2> QED
    BY <2>1, SameHolds
<1>7. ASSUME NEW c \in Clients, Resolve(c)
     PROVE  [Trust!Next]_Trust!vars
  <2>1. /\ signed' = signed
        /\ \A x \in Clients :
              /\ Saved(x)' <=> Saved(x)
              /\ Saved(x) => man'[x] = man[x]
    BY <1>7 DEF Resolve, Saved, TypeOK, PhaseInv, Nodes, Goto, registry, download, Failures
  <2> QED
    BY <2>1, SameHolds
<1>8. ASSUME NEW c \in Clients, RequestFails(c)
     PROVE  [Trust!Next]_Trust!vars
  <2>1. /\ signed' = signed
        /\ \A x \in Clients :
              /\ Saved(x)' <=> Saved(x)
              /\ Saved(x) => man'[x] = man[x]
    BY <1>8 DEF RequestFails, Saved, TypeOK, PhaseInv, Nodes, Goto, registry, download, Failures
  <2> QED
    BY <2>1, SameHolds
<1>9. ASSUME NEW c \in Clients, Verify(c)
     PROVE  [Trust!Next]_Trust!vars
  <2>1. /\ signed' = signed
        /\ \A x \in Clients :
              /\ Saved(x)' <=> Saved(x)
              /\ Saved(x) => man'[x] = man[x]
    BY <1>9 DEF Verify, Saved, TypeOK, PhaseInv, Nodes, Goto, registry, download, Failures
  <2> QED
    BY <2>1, SameHolds
<1>10. ASSUME NEW c \in Clients, Locate(c)
     PROVE  [Trust!Next]_Trust!vars
  <2>1. /\ signed' = signed
        /\ \A x \in Clients :
              /\ Saved(x)' <=> Saved(x)
              /\ Saved(x) => man'[x] = man[x]
    BY <1>10 DEF Locate, Saved, TypeOK, PhaseInv, Nodes, Goto, registry, download, Failures
  <2> QED
    BY <2>1, SameHolds
<1>11. ASSUME NEW c \in Clients, Fetch(c)
     PROVE  [Trust!Next]_Trust!vars
  <2>1. /\ signed' = signed
        /\ \A x \in Clients :
              /\ Saved(x)' <=> Saved(x)
              /\ Saved(x) => man'[x] = man[x]
    BY <1>11 DEF Fetch, Saved, TypeOK, PhaseInv, Nodes, Goto, registry, download, Failures
  <2> QED
    BY <2>1, SameHolds
<1>12. ASSUME NEW c \in Clients, FetchFails(c)
     PROVE  [Trust!Next]_Trust!vars
  <2>1. /\ signed' = signed
        /\ \A x \in Clients :
              /\ Saved(x)' <=> Saved(x)
              /\ Saved(x) => man'[x] = man[x]
    BY <1>12 DEF FetchFails, Saved, TypeOK, PhaseInv, Nodes, Goto, registry, download, Failures
  <2> QED
    BY <2>1, SameHolds
<1>13. ASSUME NEW c \in Clients, Fetched(c)
     PROVE  [Trust!Next]_Trust!vars
  <2>1. /\ signed' = signed
        /\ \A x \in Clients :
              /\ Saved(x)' <=> Saved(x)
              /\ Saved(x) => man'[x] = man[x]
    BY <1>13 DEF Fetched, Saved, TypeOK, PhaseInv, Nodes, Goto, registry, download, Failures
  <2> QED
    BY <2>1, SameHolds
<1>14. ASSUME NEW c \in Clients, NEW i \in todo[c], Clear(c, i)
     PROVE  [Trust!Next]_Trust!vars
  <2>1. /\ signed' = signed
        /\ \A x \in Clients :
              /\ Saved(x)' <=> Saved(x)
              /\ Saved(x) => man'[x] = man[x]
    BY <1>14 DEF Clear, Saved, TypeOK, PhaseInv, Nodes, Goto, registry, download, Failures
  <2> QED
    BY <2>1, SameHolds
<1>15. ASSUME NEW c \in Clients, NEW i \in todo[c], ClearFails(c, i)
     PROVE  [Trust!Next]_Trust!vars
  <2>1. /\ signed' = signed
        /\ \A x \in Clients :
              /\ Saved(x)' <=> Saved(x)
              /\ Saved(x) => man'[x] = man[x]
    BY <1>15 DEF ClearFails, Saved, TypeOK, PhaseInv, Nodes, Goto, registry, download, Failures
  <2> QED
    BY <2>1, SameHolds
<1>16. ASSUME NEW c \in Clients, Cleared(c)
     PROVE  [Trust!Next]_Trust!vars
  <2>1. /\ signed' = signed
        /\ \A x \in Clients :
              /\ Saved(x)' <=> Saved(x)
              /\ Saved(x) => man'[x] = man[x]
    BY <1>16 DEF Cleared, Saved, TypeOK, PhaseInv, Nodes, Goto, registry, download, Failures
  <2> QED
    BY <2>1, SameHolds
<1>17. ASSUME NEW c \in Clients, NEW i \in todo[c], Export(c, i)
     PROVE  [Trust!Next]_Trust!vars
  <2>1. /\ signed' = signed
        /\ \A x \in Clients :
              /\ Saved(x)' <=> Saved(x)
              /\ Saved(x) => man'[x] = man[x]
    BY <1>17 DEF Export, Exports, Saved, TypeOK, PhaseInv, Nodes, Goto, registry, download, Failures
  <2> QED
    BY <2>1, SameHolds
<1>18. ASSUME NEW c \in Clients, NEW i \in todo[c], ExportBlocked(c, i)
     PROVE  [Trust!Next]_Trust!vars
  <2>1. /\ signed' = signed
        /\ \A x \in Clients :
              /\ Saved(x)' <=> Saved(x)
              /\ Saved(x) => man'[x] = man[x]
    BY <1>18 DEF ExportBlocked, Exports, Saved, TypeOK, PhaseInv, Nodes, Goto, registry, download, Failures
  <2> QED
    BY <2>1, SameHolds
<1>19. ASSUME NEW c \in Clients, Exported(c)
     PROVE  [Trust!Next]_Trust!vars
  <2>1. /\ signed' = signed
        /\ \A x \in Clients :
              /\ Saved(x)' <=> Saved(x)
              /\ Saved(x) => man'[x] = man[x]
    BY <1>19 DEF Exported, Saved, TypeOK, PhaseInv, Nodes, Goto, registry, download, Failures
  <2> QED
    BY <2>1, SameHolds
<1>20. ASSUME NEW c \in Clients, CrossCheck(c)
     PROVE  [Trust!Next]_Trust!vars
  <2>1. /\ signed' = signed /\ man' = man
        /\ c \in Nodes
        /\ ~Saved(c)
        /\ \A x \in Clients \ {c} : Saved(x)' <=> Saved(x)
    BY <1>20 DEF CrossCheck, Saved, TypeOK, Nodes
  <2>2. CASE ~Saved(c)'
    BY <2>1, <2>2, SameHolds
  <2>3. CASE Saved(c)'
    <3>1. man[c] \in Manifests /\ Genuine(man[c], signed) /\ Accepted(c)
      BY <1>20, <2>1 DEF CrossCheck, AcceptedInv, Accepted, PastQuorum, TypeOK, GenuineInv
    <3>2. Trust!Truth(SigningBytes(man[c]))
      BY <3>1, AcceptedIsTruth DEF Accepted
    <3>3. \A x \in Clients :
             (IF Saved(x)' THEN SigningBytes(man'[x]) ELSE None) =
             (IF x = c THEN SigningBytes(man[c]) ELSE holds[x])
      BY <2>1, <2>3 DEF holds
    <3>4. holds' = [x \in Clients |->
                      IF x = c THEN SigningBytes(man[c]) ELSE holds[x]]
      BY <3>3 DEF holds
    <3>5. holds' = [holds EXCEPT ![c] = SigningBytes(man[c])]
      BY <3>4 DEF holds
    <3>6. Trust!Obtain(c, SigningBytes(man[c]))
      BY <2>1, <3>2, <3>5 DEF Trust!Obtain
    <3> QED
      BY <3>1, <3>6 DEF Trust!Next, Genuine
  <2> QED
    BY <2>2, <2>3
<1>21. ASSUME NEW c \in Clients, NEW i \in todo[c], ExportTorn(c, i)
     PROVE  [Trust!Next]_Trust!vars
  <2>1. /\ signed' = signed
        /\ \A x \in Clients :
              /\ Saved(x)' <=> Saved(x)
              /\ Saved(x) => man'[x] = man[x]
    BY <1>21 DEF ExportTorn, End, Up, Exports, Saved, TypeOK, PhaseInv, Nodes, Goto, registry, download, Failures
  <2> QED
    BY <2>1, SameHolds
<1>22. ASSUME NEW n \in Nodes, AnnounceAndServe(n)
     PROVE  [Trust!Next]_Trust!vars
  <2>1. /\ signed' = signed
        /\ \A x \in Clients :
              /\ Saved(x)' <=> Saved(x)
              /\ Saved(x) => man'[x] = man[x]
    BY <1>22 DEF AnnounceAndServe, Saved, TypeOK, PhaseInv, Nodes, Goto, registry, download, Failures
  <2> QED
    BY <2>1, SameHolds
<1>23. ASSUME NEW n \in Nodes, Exit(n)
     PROVE  [Trust!Next]_Trust!vars
  <2>1. /\ signed' = signed
        /\ ~Saved(n)'
        /\ \A x \in Clients \ {n} :
              /\ Saved(x)' <=> Saved(x)
              /\ man'[x] = man[x]
    BY <1>23 DEF Exit, End, Saved, TypeOK, Nodes
  <2>2. CASE n \notin Clients
    BY <2>1, <2>2, SameHolds
  <2>3. CASE n \in Clients
    <3>1. \A x \in Clients :
             (IF Saved(x)' THEN SigningBytes(man'[x]) ELSE None) =
             (IF x = n THEN None ELSE holds[x])
      BY <2>1, <2>3 DEF holds
    <3>2. holds' = [x \in Clients |-> IF x = n THEN None ELSE holds[x]]
      BY <3>1 DEF holds
    <3>3. holds' = [holds EXCEPT ![n] = None]
      BY <3>2 DEF holds
    <3> QED
      BY <2>1, <2>3, <3>3 DEF Trust!Next, Trust!Release
  <2> QED
    BY <2>2, <2>3
<1>24. ASSUME NEW n \in Nodes, NEW m \in Models, Expire(m, n)
     PROVE  [Trust!Next]_Trust!vars
  <2>1. /\ signed' = signed
        /\ \A x \in Clients :
              /\ Saved(x)' <=> Saved(x)
              /\ Saved(x) => man'[x] = man[x]
    BY <1>24 DEF Expire, Saved, TypeOK, PhaseInv, Nodes, Goto, registry, download, Failures
  <2> QED
    BY <2>1, SameHolds
<1>25. ASSUME NEW c \in Clients, DirFails(c)
     PROVE  [Trust!Next]_Trust!vars
  <2>1. /\ signed' = signed
        /\ \A x \in Clients :
              /\ Saved(x)' <=> Saved(x)
              /\ Saved(x) => man'[x] = man[x]
    BY <1>25 DEF DirFails, Saved, TypeOK, PhaseInv, Nodes, Goto, registry, download, Failures
  <2> QED
    BY <2>1, SameHolds
<1>26. ASSUME NEW c \in Clients, NEW i \in todo[c], ExportFails(c, i)
     PROVE  [Trust!Next]_Trust!vars
  <2>1. /\ signed' = signed
        /\ \A x \in Clients :
              /\ Saved(x)' <=> Saved(x)
              /\ Saved(x) => man'[x] = man[x]
    BY <1>26 DEF ExportFails, Goto, Exports, Saved, TypeOK, PhaseInv, Nodes, registry, download, Failures
  <2> QED
    BY <2>1, SameHolds
<1> QED
  BY <1>1, <1>2, <1>3, <1>4, <1>5, <1>6, <1>7, <1>8, <1>9, <1>10, <1>11, <1>12, <1>13, <1>14, <1>15, <1>16, <1>17, <1>18, <1>19, <1>20, <1>21, <1>22, <1>23, <1>24, <1>25, <1>26 DEF Next, Proceed, Await

(***************************************************************************)
(* Whatever the registry answers, whoever seeds, and wherever a process    *)
(* dies, a client is given only records that a quorum of the validators it *)
(* pins has signed: the pipeline implements TrustModel, for any keyring.   *)
(***************************************************************************)
THEOREM PipelineImplementsTrustModel == Spec => ImplementsTrustModel
<1>1. Init => Trust!Init
  BY DEF Init, Trust!Init, holds, Saved, Nodes
<1>2. IInv /\ [Next]_vars => [Trust!Next]_Trust!vars
  <2>1. ASSUME IInv, Next PROVE [Trust!Next]_Trust!vars
    BY <2>1, RefinementStep
  <2>2. ASSUME UNCHANGED vars PROVE [Trust!Next]_Trust!vars
    <3>1. signed' = signed /\ \A c \in Clients : (Saved(c)' <=> Saved(c)) /\ man'[c] = man[c]
      BY <2>2 DEF vars, Saved
    <3> QED
      BY <3>1, SameHolds
  <2> QED
    BY <2>1, <2>2
<1> QED
  BY <1>1, <1>2, Inductive, PTL DEF Spec, ImplementsTrustModel, Trust!Spec

-----------------------------------------------------------------------------
(***************************************************************************)
(* What reaches the output directory.                                      *)
(***************************************************************************)
LEMMA CollectionOf ==
    ASSUME IInv, NEW c \in Clients, man[c] # None
    PROVE  /\ man[c] \in Manifests
           /\ SigningBytes(man[c]) \in Bodies
           /\ SigningBytes(man[c]).collection = man[c].collection
           /\ SigningBytes(man[c]).files = man[c].files
<1>1. man[c] \in Manifests /\ SigningBytes(man[c]) \in Bodies
  BY DEF IInv, TypeOK, GenuineInv, Genuine, Nodes
<1>2. <<>> \in Seq(Signatures)
  OBVIOUS
<1>3. /\ SigningBytes(man[c]).collection = man[c].collection
      /\ SigningBytes(man[c]).files = man[c].files
  BY <1>1, <1>2, SigningBytesFacts
<1> QED
  BY <1>1, <1>3, BodiesAreManifests

Vouching(c, p) ==
    disk'[c][p] # disk[c][p] /\ disk'[c][p] \in Hashes =>
        \E b \in Bodies :
            /\ Trust!Truth(b)
            /\ [path |-> p, blake3 |-> disk'[c][p]] \in Range(b.collection)

LEMMA DiskStep ==
    ASSUME IInv, Next, NEW x \in Clients, NEW y \in Paths
    PROVE  Vouching(x, y)
<1> USE DEF IInv
<1>1. ASSUME NEW v \in Validators, NEW m \in Models, NEW ver \in Versions, NEW folder \in Folders, Import(v, m, ver, folder)
     PROVE  Vouching(x, y)
  <2>1. disk' = disk
    BY <1>1 DEF Import, download
  <2> QED
    BY <2>1 DEF Vouching
<1>2. ASSUME NEW v \in Validators, Sign(v)
     PROVE  Vouching(x, y)
  <2>1. disk' = disk
    BY <1>2 DEF Sign, download
  <2> QED
    BY <2>1 DEF Vouching
<1>3. ASSUME NEW v \in Validators, Put(v)
     PROVE  Vouching(x, y)
  <2>1. disk' = disk
    BY <1>3 DEF Put, download
  <2> QED
    BY <2>1 DEF Vouching
<1>4. ASSUME NEW v \in Validators, NEW b \in HandSigned, SignByHand(v, b)
     PROVE  Vouching(x, y)
  <2>1. disk' = disk
    BY <1>4 DEF SignByHand, download
  <2> QED
    BY <2>1 DEF Vouching
<1>5. ASSUME NEW s \in Seeders, NEW m \in Models, NEW folder \in Folders, SeedDir(s, m, folder)
     PROVE  Vouching(x, y)
  <2>1. disk' = disk
    BY <1>5 DEF SeedDir, download
  <2> QED
    BY <2>1 DEF Vouching
<1>6. ASSUME NEW c \in Clients, NEW m \in Models, Get(c, m)
     PROVE  Vouching(x, y)
  <2>1. disk' = disk
    BY <1>6 DEF Get, download
  <2> QED
    BY <2>1 DEF Vouching
<1>7. ASSUME NEW c \in Clients, Resolve(c)
     PROVE  Vouching(x, y)
  <2>1. disk' = disk
    BY <1>7 DEF Resolve, download
  <2> QED
    BY <2>1 DEF Vouching
<1>8. ASSUME NEW c \in Clients, RequestFails(c)
     PROVE  Vouching(x, y)
  <2>1. disk' = disk
    BY <1>8 DEF RequestFails, download
  <2> QED
    BY <2>1 DEF Vouching
<1>9. ASSUME NEW c \in Clients, Verify(c)
     PROVE  Vouching(x, y)
  <2>1. disk' = disk
    BY <1>9 DEF Verify, download
  <2> QED
    BY <2>1 DEF Vouching
<1>10. ASSUME NEW c \in Clients, Locate(c)
     PROVE  Vouching(x, y)
  <2>1. disk' = disk
    BY <1>10 DEF Locate
  <2> QED
    BY <2>1 DEF Vouching
<1>11. ASSUME NEW c \in Clients, Fetch(c)
     PROVE  Vouching(x, y)
  <2>1. disk' = disk
    BY <1>11 DEF Fetch, download
  <2> QED
    BY <2>1 DEF Vouching
<1>12. ASSUME NEW c \in Clients, FetchFails(c)
     PROVE  Vouching(x, y)
  <2>1. disk' = disk
    BY <1>12 DEF FetchFails, download
  <2> QED
    BY <2>1 DEF Vouching
<1>13. ASSUME NEW c \in Clients, Fetched(c)
     PROVE  Vouching(x, y)
  <2>1. disk' = disk
    BY <1>13 DEF Fetched
  <2> QED
    BY <2>1 DEF Vouching
<1>14. ASSUME NEW c \in Clients, NEW i \in todo[c], Clear(c, i)
     PROVE  Vouching(x, y)
  <2>1. disk'[x][y] \in {disk[x][y], None}
    BY <1>14 DEF Clear, TypeOK
  <2> QED
    BY <2>1, RecordsAssumption DEF Vouching
<1>15. ASSUME NEW c \in Clients, NEW i \in todo[c], ClearFails(c, i)
     PROVE  Vouching(x, y)
  <2>1. disk' = disk
    BY <1>15 DEF ClearFails
  <2> QED
    BY <2>1 DEF Vouching
<1>16. ASSUME NEW c \in Clients, Cleared(c)
     PROVE  Vouching(x, y)
  <2>1. disk' = disk
    BY <1>16 DEF Cleared
  <2> QED
    BY <2>1 DEF Vouching
<1>17. ASSUME NEW c \in Clients, NEW i \in todo[c], Export(c, i)
     PROVE  Vouching(x, y)
  <2>1. CASE x = c /\ y = Dest(c, i)
    <3>1. man[c] # None /\ Verdict(Pinned, man[c]) = "accepted"
      BY <1>17 DEF Export, Exports, AcceptedInv, Accepted, PastQuorum, Nodes
    <3>2. man[c] \in Manifests /\ Genuine(man[c], signed)
      BY <3>1 DEF TypeOK, GenuineInv, Nodes
    <3>3. Trust!Truth(SigningBytes(man[c]))
      BY <3>1, <3>2, AcceptedIsTruth
    <3>4. /\ SigningBytes(man[c]) \in Bodies
          /\ SigningBytes(man[c]).collection = man[c].collection
      BY <3>1, CollectionOf
    <3>5. disk'[c][y] = man[c].collection[i].blake3
      BY <1>17, <2>1 DEF Export, TypeOK
    <3>6. i \in DOMAIN man[c].collection
      BY <1>17 DEF Export, Exports, PhaseInv, Nodes
    <3>7. man[c].collection[i] = [path |-> y, blake3 |-> disk'[c][y]]
      BY <2>1, <3>2, <3>5, <3>6, EntriesOfManifest DEF Dest, Entry
    <3>8. [path |-> y, blake3 |-> disk'[c][y]] \in Range(man[c].collection)
      BY <3>6, <3>7 DEF Range
    <3> QED
      BY <2>1, <3>3, <3>4, <3>8 DEF Vouching
  <2>2. CASE ~(x = c /\ y = Dest(c, i))
    <3>1. disk'[x][y] = disk[x][y]
      BY <1>17, <2>2 DEF Export, TypeOK
    <3> QED
      BY <3>1 DEF Vouching
  <2> QED
    BY <2>1, <2>2
<1>18. ASSUME NEW c \in Clients, NEW i \in todo[c], ExportBlocked(c, i)
     PROVE  Vouching(x, y)
  <2>1. disk' = disk
    BY <1>18 DEF ExportBlocked, download
  <2> QED
    BY <2>1 DEF Vouching
<1>19. ASSUME NEW c \in Clients, Exported(c)
     PROVE  Vouching(x, y)
  <2>1. disk' = disk
    BY <1>19 DEF Exported, download
  <2> QED
    BY <2>1 DEF Vouching
<1>20. ASSUME NEW c \in Clients, CrossCheck(c)
     PROVE  Vouching(x, y)
  <2>1. disk' = disk
    BY <1>20 DEF CrossCheck, download
  <2> QED
    BY <2>1 DEF Vouching
<1>21. ASSUME NEW c \in Clients, NEW i \in todo[c], ExportTorn(c, i)
     PROVE  Vouching(x, y)
  <2>1. disk'[x][y] \in {disk[x][y], Partial}
    BY <1>21 DEF ExportTorn, TypeOK
  <2> QED
    BY <2>1, RecordsAssumption DEF Vouching
<1>22. ASSUME NEW n \in Nodes, AnnounceAndServe(n)
     PROVE  Vouching(x, y)
  <2>1. disk' = disk
    BY <1>22 DEF AnnounceAndServe, download
  <2> QED
    BY <2>1 DEF Vouching
<1>23. ASSUME NEW n \in Nodes, Exit(n)
     PROVE  Vouching(x, y)
  <2>1. disk' = disk
    BY <1>23 DEF Exit
  <2> QED
    BY <2>1 DEF Vouching
<1>24. ASSUME NEW n \in Nodes, NEW m \in Models, Expire(m, n)
     PROVE  Vouching(x, y)
  <2>1. disk' = disk
    BY <1>24 DEF Expire, download
  <2> QED
    BY <2>1 DEF Vouching
<1>25. ASSUME NEW c \in Clients, DirFails(c)
     PROVE  Vouching(x, y)
  <2>1. disk' = disk
    BY <1>25 DEF DirFails, download
  <2> QED
    BY <2>1 DEF Vouching
<1>26. ASSUME NEW c \in Clients, NEW i \in todo[c], ExportFails(c, i)
     PROVE  Vouching(x, y)
  <2>1. disk'[x][y] \in {disk[x][y], Partial}
    BY <1>26 DEF ExportFails, Goto, TypeOK
  <2> QED
    BY <2>1, RecordsAssumption DEF Vouching
<1> QED
  BY <1>1, <1>2, <1>3, <1>4, <1>5, <1>6, <1>7, <1>8, <1>9, <1>10, <1>11, <1>12, <1>13, <1>14, <1>15, <1>16, <1>17, <1>18, <1>19, <1>20, <1>21, <1>22, <1>23, <1>24, <1>25, <1>26 DEF Next, Proceed, Await

(***************************************************************************)
(* Every byte that export writes belongs to a record that a quorum of the  *)
(* pinned validators has signed.                                           *)
(***************************************************************************)
THEOREM DiskIsVouched == Spec => OnlyVouchedTouchesDisk
<1> DEFINE A == \A c \in Clients, p \in Paths : Vouching(c, p)
<1>1. IInv /\ [Next]_vars => [A]_vars
  BY DiskStep
<1>2. [A]_vars => [\A c \in Clients, p \in Paths :
          disk'[c][p] # disk[c][p] /\ disk'[c][p] \in Hashes =>
              \E b \in Bodies :
                  /\ Trust!Truth(b)
                  /\ [path |-> p, blake3 |-> disk'[c][p]] \in Range(b.collection)]_vars
  BY DEF Vouching
<1> QED
  BY <1>1, <1>2, Inductive, PTL DEF Spec, OnlyVouchedTouchesDisk

-----------------------------------------------------------------------------
(***************************************************************************)
(* A saved download is complete.  While exporting, what is no longer to do *)
(* is on disk; then everything is.                                         *)
(***************************************************************************)
Written(c, i) == disk[c][Dest(c, i)] = man[c].collection[i].blake3

WrittenSoFar(c) == \A i \in DOMAIN man[c].collection \ todo[c] : Written(c, i)

AllWritten(c) == \A i \in DOMAIN man[c].collection : Written(c, i)

CompleteInv ==
    \A c \in Clients :
        /\ pc[c] = "exporting" => WrittenSoFar(c)
        /\ pc[c] = "checking" => AllWritten(c)
        /\ Saved(c) => AllWritten(c) /\ man[c].files \subseteq Range(man[c].collection)

LEMMA CompleteStep ==
    ASSUME IInv, CompleteInv, Next
    PROVE  CompleteInv'
<1>1. ASSUME NEW v \in Validators, NEW m \in Models, NEW ver \in Versions, NEW folder \in Folders, Import(v, m, ver, folder)
     PROVE  CompleteInv'
  BY <1>1
     DEF Import, Goto, IInv, CompleteInv, WrittenSoFar, AllWritten, Written, Dest, Saved,
         TypeOK, PhaseInv, Nodes, registry, download, Failures
<1>2. ASSUME NEW v \in Validators, Sign(v)
     PROVE  CompleteInv'
  BY <1>2
     DEF Sign, Goto, IInv, CompleteInv, WrittenSoFar, AllWritten, Written, Dest, Saved,
         TypeOK, PhaseInv, Nodes, registry, download, Failures
<1>3. ASSUME NEW v \in Validators, Put(v)
     PROVE  CompleteInv'
  BY <1>3
     DEF Put, Goto, IInv, CompleteInv, WrittenSoFar, AllWritten, Written, Dest, Saved,
         TypeOK, PhaseInv, Nodes, registry, download, Failures
<1>4. ASSUME NEW v \in Validators, NEW b \in HandSigned, SignByHand(v, b)
     PROVE  CompleteInv'
  BY <1>4
     DEF SignByHand, IInv, CompleteInv, WrittenSoFar, AllWritten, Written, Dest, Saved,
         TypeOK, PhaseInv, Nodes, registry, download, Failures
<1>5. ASSUME NEW s \in Seeders, NEW m \in Models, NEW folder \in Folders, SeedDir(s, m, folder)
     PROVE  CompleteInv'
  BY <1>5
     DEF SeedDir, Goto, IInv, CompleteInv, WrittenSoFar, AllWritten, Written, Dest, Saved,
         TypeOK, PhaseInv, Nodes, registry, download, Failures
<1>6. ASSUME NEW c \in Clients, NEW m \in Models, Get(c, m)
     PROVE  CompleteInv'
  BY <1>6
     DEF Get, Goto, IInv, CompleteInv, WrittenSoFar, AllWritten, Written, Dest, Saved,
         TypeOK, PhaseInv, Nodes, registry, download, Failures
<1>7. ASSUME NEW c \in Clients, Resolve(c)
     PROVE  CompleteInv'
  BY <1>7
     DEF Resolve, Goto, IInv, CompleteInv, WrittenSoFar, AllWritten, Written, Dest, Saved,
         TypeOK, PhaseInv, Nodes, registry, download, Failures
<1>8. ASSUME NEW c \in Clients, RequestFails(c)
     PROVE  CompleteInv'
  BY <1>8
     DEF RequestFails, Goto, IInv, CompleteInv, WrittenSoFar, AllWritten,
         Written, Dest, Saved, TypeOK, PhaseInv, Nodes, registry, download, Failures
<1>9. ASSUME NEW c \in Clients, Verify(c)
     PROVE  CompleteInv'
  BY <1>9
     DEF Verify, IInv, CompleteInv, WrittenSoFar, AllWritten, Written, Dest, Saved, TypeOK,
         PhaseInv, Nodes, registry, download, Failures
<1>10. ASSUME NEW c \in Clients, Locate(c)
     PROVE  CompleteInv'
  BY <1>10
     DEF Locate, Goto, IInv, CompleteInv, WrittenSoFar, AllWritten, Written, Dest, Saved,
         TypeOK, PhaseInv, Nodes, registry, download, Failures
<1>11. ASSUME NEW c \in Clients, Fetch(c)
     PROVE  CompleteInv'
  BY <1>11
     DEF Fetch, IInv, CompleteInv, WrittenSoFar, AllWritten, Written, Dest, Saved, TypeOK,
         PhaseInv, Nodes, registry, download, Failures
<1>12. ASSUME NEW c \in Clients, FetchFails(c)
     PROVE  CompleteInv'
  BY <1>12
     DEF FetchFails, Goto, IInv, CompleteInv, WrittenSoFar, AllWritten, Written, Dest, Saved,
         TypeOK, PhaseInv, Nodes, registry, download, Failures
<1>13. ASSUME NEW c \in Clients, Fetched(c)
     PROVE  CompleteInv'
  BY <1>13
     DEF Fetched, Goto, IInv, CompleteInv, WrittenSoFar, AllWritten, Written, Dest, Saved,
         TypeOK, PhaseInv, Nodes, registry, download, Failures
<1>14. ASSUME NEW c \in Clients, NEW i \in todo[c], Clear(c, i)
     PROVE  CompleteInv'
  BY <1>14
     DEF Clear, IInv, CompleteInv, WrittenSoFar, AllWritten, Written, Dest, Saved, TypeOK,
         PhaseInv, Nodes, registry, download, Failures
<1>15. ASSUME NEW c \in Clients, NEW i \in todo[c], ClearFails(c, i)
     PROVE  CompleteInv'
  BY <1>15
     DEF ClearFails, IInv, CompleteInv, WrittenSoFar, AllWritten, Written, Dest, Saved,
         TypeOK, PhaseInv, Nodes, registry, download, Failures
<1>16. ASSUME NEW c \in Clients, Cleared(c)
     PROVE  CompleteInv'
  BY <1>16
     DEF Cleared, Goto, IInv, CompleteInv, WrittenSoFar, AllWritten, Written, Dest, Saved,
         TypeOK, PhaseInv, Nodes, registry, download, Failures
<1>17. ASSUME NEW c \in Clients, NEW i \in todo[c], Export(c, i)
     PROVE  CompleteInv'
  <2>1. i \in DOMAIN man[c].collection /\ man[c] \in Manifests
    BY <1>17 DEF Export, Exports, IInv, TypeOK, PhaseInv, AcceptedInv, Accepted, PastQuorum, Nodes
  <2>2. \A x \in Clients \ {c} : disk'[x] = disk[x] /\ todo'[x] = todo[x]
    BY <1>17 DEF Export, IInv, TypeOK
  <2>3. /\ \A j \in DOMAIN man[c].collection : man[c].collection[j].blake3 \in Hashes
        /\ Dest(c, i) \in Paths
    BY <2>1, EntriesOfManifest DEF Dest
  <2>4. Written(c, i)'
    BY <1>17, <2>3 DEF Export, IInv, TypeOK, Written, Dest
  <2>5. ASSUME NEW j \in DOMAIN man[c].collection \ todo[c]
        PROVE  Written(c, j)'
    <3>1. Written(c, j)
      BY <1>17, <2>5 DEF Export, Exports, CompleteInv, WrittenSoFar
    <3>2. Dest(c, j) # Dest(c, i)
      BY <1>17, <2>3, <3>1, RecordsAssumption DEF Export, IsFree, Written
    <3> QED
      BY <1>17, <3>1, <3>2 DEF Export, IInv, TypeOK, Written, Dest
  <2>6. WrittenSoFar(c)'
    BY <1>17, <2>4, <2>5 DEF Export, IInv, TypeOK, WrittenSoFar
  <2> QED
    BY <1>17, <2>2, <2>6
       DEF Export, Exports, CompleteInv, WrittenSoFar, AllWritten, Written, Dest, Saved
<1>18. ASSUME NEW c \in Clients, NEW i \in todo[c], ExportBlocked(c, i)
     PROVE  CompleteInv'
  BY <1>18
     DEF ExportBlocked, Goto, IInv, CompleteInv, WrittenSoFar, AllWritten,
         Written, Dest, Saved, TypeOK, PhaseInv, Nodes, registry, download, Failures, Exports
<1>19. ASSUME NEW c \in Clients, Exported(c)
     PROVE  CompleteInv'
  BY <1>19
     DEF Exported, Goto, IInv, CompleteInv, WrittenSoFar, AllWritten, Written, Dest, Saved,
         TypeOK, PhaseInv, Nodes, registry, download, Failures
<1>20. ASSUME NEW c \in Clients, CrossCheck(c)
     PROVE  CompleteInv'
  BY <1>20
     DEF CrossCheck, IInv, CompleteInv, WrittenSoFar, AllWritten, Written, Dest, Saved,
         TypeOK, PhaseInv, Nodes, registry, download, Failures
<1>21. ASSUME NEW c \in Clients, NEW i \in todo[c], ExportTorn(c, i)
     PROVE  CompleteInv'
  BY <1>21
     DEF ExportTorn, IInv, CompleteInv, WrittenSoFar, AllWritten, Written, Dest, Saved,
         TypeOK, PhaseInv, Nodes, registry, download, Failures, End, Up,
         Exports
<1>22. ASSUME NEW n \in Nodes, AnnounceAndServe(n)
     PROVE  CompleteInv'
  BY <1>22
     DEF AnnounceAndServe, Goto, IInv, CompleteInv, WrittenSoFar, AllWritten,
         Written, Dest, Saved, TypeOK, PhaseInv, Nodes, registry, download, Failures
<1>23. ASSUME NEW n \in Nodes, Exit(n)
     PROVE  CompleteInv'
  BY <1>23
     DEF Exit, IInv, CompleteInv, WrittenSoFar, AllWritten, Written, Dest, Saved, TypeOK,
         PhaseInv, Nodes, registry, download, Failures, End, Up
<1>24. ASSUME NEW n \in Nodes, NEW m \in Models, Expire(m, n)
     PROVE  CompleteInv'
  BY <1>24
     DEF Expire, IInv, CompleteInv, WrittenSoFar, AllWritten, Written, Dest, Saved, TypeOK,
         PhaseInv, Nodes, registry, download, Failures
<1>25. ASSUME NEW c \in Clients, DirFails(c)
     PROVE  CompleteInv'
  BY <1>25
     DEF DirFails, Goto, IInv, CompleteInv, WrittenSoFar, AllWritten, Written, Dest, Saved,
         TypeOK, PhaseInv, Nodes, registry, download, Failures
<1>26. ASSUME NEW c \in Clients, NEW i \in todo[c], ExportFails(c, i)
     PROVE  CompleteInv'
  BY <1>26
     DEF ExportFails, Goto, IInv, CompleteInv, WrittenSoFar, AllWritten, Written, Dest, Saved,
         TypeOK, PhaseInv, Nodes, registry, download, Failures,
         Exports
<1> QED
  BY <1>1, <1>2, <1>3, <1>4, <1>5, <1>6, <1>7, <1>8, <1>9, <1>10, <1>11, <1>12, <1>13, <1>14, <1>15, <1>16, <1>17, <1>18, <1>19, <1>20, <1>21, <1>22, <1>23, <1>24, <1>25, <1>26 DEF Next, Proceed, Await

(***************************************************************************)
(* When download_verified returns Ok, every file of the manifest is on     *)
(* disk with its signed hash, whatever was in the output directory before, *)
(* and whichever files could not be removed.                               *)
(***************************************************************************)
THEOREM DownloadIsComplete == Spec => []SavedIsComplete
<1>1. Init => CompleteInv
  BY DEF Init, CompleteInv, Saved, Nodes
<1>2. IInv /\ CompleteInv /\ [Next]_vars => CompleteInv'
  <2>1. ASSUME CompleteInv, UNCHANGED vars PROVE CompleteInv'
    BY <2>1 DEF vars, CompleteInv, WrittenSoFar, AllWritten, Written, Dest, Saved
  <2> QED
    BY <2>1, CompleteStep
<1>3. CompleteInv => SavedIsComplete
  BY DEF CompleteInv, AllWritten, Written, Dest, SavedIsComplete, Range
<1> QED
  BY <1>1, <1>2, <1>3, Inductive, PTL DEF Spec
-----------------------------------------------------------------------------
(***************************************************************************)
(* Late failures.  What is in the way of an export is a file that could    *)
(* not be removed, or an entry of the same name; and the records of        *)
(* `validate' list exactly their collection.                               *)
(***************************************************************************)
Late(c) ==
    /\ pc[c] = "clearing" =>
          \A i \in DOMAIN man[c].collection \ todo[c] : IsFree(c, i) \/ Dest(c, i) \in Stuck
    /\ pc[c] = "exporting" => \A i \in todo[c] : IsFree(c, i) \/ Blames(c, i)
    /\ pc[c] = "blocked" => \E i \in todo[c] : ~IsFree(c, i) /\ Blames(c, i)
    /\ pc[c] = "mismatch" => SigningBytes(man[c]) \in HandSigned

LateInv == \A c \in Clients : Late(c)

(***************************************************************************)
(* A step that leaves a client's export alone.                             *)
(***************************************************************************)
Untouched(c) ==
    \/ pc'[c] \notin {"clearing", "exporting", "blocked", "mismatch"}
    \/ pc'[c] = pc[c] /\ man'[c] = man[c] /\ todo'[c] = todo[c] /\ disk'[c] = disk[c]

LEMMA LateKept ==
    ASSUME NEW c \in Clients, Late(c), Untouched(c)
    PROVE  Late(c)'
BY DEF Late, Untouched, IsFree, Blames, Dest

LEMMA LateKeptByAll ==
    ASSUME LateInv, \A c \in Clients : Untouched(c)
    PROVE  LateInv'
BY LateKept DEF LateInv

LEMMA LateKeptByOthers ==
    ASSUME LateInv, NEW c \in Clients, Late(c)', \A x \in Clients \ {c} : Untouched(x)
    PROVE  LateInv'
BY LateKept DEF LateInv

LEMMA FilesAreCollection ==
    ASSUME IInv, NEW c \in Clients, man[c] # None, SigningBytes(man[c]) \notin HandSigned
    PROVE  man[c].files = Range(man[c].collection)
<1>1. /\ SigningBytes(man[c]) \in Bodies
      /\ SigningBytes(man[c]).collection = man[c].collection
      /\ SigningBytes(man[c]).files = man[c].files
  BY CollectionOf
<1>2. PICK m \in Models, v \in Versions, folder \in Folders :
         SigningBytes(man[c]) = Record(m, v, folder)
  BY <1>1 DEF Bodies
<1> QED
  BY <1>1, <1>2 DEF Record

LEMMA LateStep ==
    ASSUME IInv, LateInv, Next
    PROVE  LateInv'
<1>1. ASSUME NEW v \in Validators, NEW m \in Models, NEW ver \in Versions,
            NEW folder \in Folders, Import(v, m, ver, folder)
     PROVE  LateInv'
  BY <1>1, LateKeptByAll
     DEF Import, Goto, IInv, TypeOK, Nodes, Failures, Untouched, registry, download
<1>2. ASSUME NEW v \in Validators, Sign(v)
     PROVE  LateInv'
  BY <1>2, LateKeptByAll
     DEF Sign, Goto, IInv, TypeOK, Nodes, Failures, Untouched, registry, download
<1>3. ASSUME NEW v \in Validators, Put(v)
     PROVE  LateInv'
  BY <1>3, LateKeptByAll
     DEF Put, Goto, IInv, TypeOK, Nodes, Failures, Untouched, registry, download
<1>4. ASSUME NEW v \in Validators, NEW b \in HandSigned, SignByHand(v, b)
     PROVE  LateInv'
  BY <1>4, LateKeptByAll
     DEF SignByHand, IInv, TypeOK, Nodes, Failures, Untouched, registry, download
<1>5. ASSUME NEW s \in Seeders, NEW m \in Models, NEW folder \in Folders, SeedDir(s, m, folder)
     PROVE  LateInv'
  BY <1>5, LateKeptByAll
     DEF SeedDir, Goto, IInv, TypeOK, Nodes, Failures, Untouched, registry, download
<1>6. ASSUME NEW c \in Clients, NEW m \in Models, Get(c, m)
     PROVE  LateInv'
  BY <1>6, LateKeptByAll
     DEF Get, Goto, IInv, TypeOK, Nodes, Failures, Untouched, registry, download
<1>7. ASSUME NEW c \in Clients, Resolve(c)
     PROVE  LateInv'
  BY <1>7, LateKeptByAll
     DEF Resolve, Goto, IInv, TypeOK, Nodes, Failures, Untouched, registry, download
<1>8. ASSUME NEW c \in Clients, RequestFails(c)
     PROVE  LateInv'
  BY <1>8, LateKeptByAll
     DEF RequestFails, Goto, IInv, TypeOK, Nodes, Failures, Untouched, registry, download
<1>9. ASSUME NEW c \in Clients, Verify(c)
     PROVE  LateInv'
  BY <1>9, LateKeptByAll
     DEF Verify, IInv, TypeOK, Nodes, Failures, Untouched, registry, download
<1>10. ASSUME NEW c \in Clients, Locate(c)
     PROVE  LateInv'
  BY <1>10, LateKeptByAll
     DEF Locate, Goto, IInv, TypeOK, Nodes, Failures, Untouched, registry, download
<1>11. ASSUME NEW c \in Clients, Fetch(c)
     PROVE  LateInv'
  BY <1>11, LateKeptByAll
     DEF Fetch, IInv, TypeOK, Nodes, Failures, Untouched, registry, download
<1>12. ASSUME NEW c \in Clients, FetchFails(c)
     PROVE  LateInv'
  BY <1>12, LateKeptByAll
     DEF FetchFails, Goto, IInv, TypeOK, Nodes, Failures, Untouched, registry, download
<1>13. ASSUME NEW c \in Clients, Fetched(c)
     PROVE  LateInv'
  <2>0. \A x \in Clients \ {c} : Untouched(x)
    BY <1>13 DEF Fetched, Goto, IInv, TypeOK, Nodes, Untouched, registry, download
  <2>1. Late(c)'
    BY <1>13 DEF Fetched, Goto, IInv, TypeOK, Late, Nodes
  <2> QED
    BY <2>0, <2>1, LateKeptByOthers
<1>14. ASSUME NEW c \in Clients, NEW i \in todo[c], Clear(c, i)
     PROVE  LateInv'
  <2>0. \A x \in Clients \ {c} : Untouched(x)
    BY <1>14 DEF Clear, Goto, IInv, TypeOK, Nodes, Untouched, registry, download
  <2>a. i \in DOMAIN man[c].collection /\ man[c] \in Manifests
    BY <1>14 DEF Clear, IInv, TypeOK, PhaseInv, AcceptedInv, Accepted, PastQuorum, Nodes
  <2>b. Dest(c, i) \in Paths
    BY <2>a, EntriesOfManifest DEF Dest
  <2>1. IsFree(c, i)'
    BY <1>14, <2>b DEF Clear, IInv, TypeOK, IsFree, Dest
  <2>2. ASSUME NEW j \in DOMAIN man[c].collection \ todo[c]
        PROVE  IsFree(c, j)' \/ Dest(c, j)' \in Stuck
    BY <1>14, <2>2 DEF Clear, IInv, TypeOK, LateInv, Late, IsFree, Dest
  <2>3. Late(c)'
    BY <1>14, <2>1, <2>2 DEF Clear, IInv, TypeOK, Late
  <2> QED
    BY <2>0, <2>3, LateKeptByOthers
<1>15. ASSUME NEW c \in Clients, NEW i \in todo[c], ClearFails(c, i)
     PROVE  LateInv'
  <2>0. \A x \in Clients \ {c} : Untouched(x)
    BY <1>15 DEF ClearFails, Goto, IInv, TypeOK, Nodes, Untouched, registry, download
  <2>1. Late(c)'
    BY <1>15 DEF ClearFails, IInv, TypeOK, LateInv, Late, IsFree, Dest
  <2> QED
    BY <2>0, <2>1, LateKeptByOthers
<1>16. ASSUME NEW c \in Clients, Cleared(c)
     PROVE  LateInv'
  <2>0. \A x \in Clients \ {c} : Untouched(x)
    BY <1>16 DEF Cleared, Goto, IInv, TypeOK, Nodes, Untouched, registry, download
  <2>1. ASSUME NEW i \in DOMAIN man[c].collection
        PROVE  IsFree(c, i)' \/ Blames(c, i)'
    BY <1>16, <2>1 DEF Cleared, Goto, LateInv, Late, IsFree, Blames, Dest
  <2>2. Late(c)'
    BY <1>16, <2>1 DEF Cleared, Goto, IInv, TypeOK, Late, Nodes
  <2> QED
    BY <2>0, <2>2, LateKeptByOthers
<1>17. ASSUME NEW c \in Clients, NEW i \in todo[c], Export(c, i)
     PROVE  LateInv'
  <2>0. \A x \in Clients \ {c} : Untouched(x)
    BY <1>17 DEF Export, Goto, IInv, TypeOK, Nodes, Untouched, registry, download
  <2>1. i \in DOMAIN man[c].collection
    BY <1>17 DEF Export, Exports, IInv, PhaseInv, Nodes
  <2>2. ASSUME NEW j \in todo[c] \ {i}
        PROVE  IsFree(c, j)' \/ Blames(c, j)'
    <3>1. CASE Dest(c, j) = Dest(c, i)
      BY <1>17, <2>1, <2>2, <3>1 DEF Export, Blames, Dest
    <3>2. CASE Dest(c, j) # Dest(c, i)
      <4>1. IsFree(c, j) \/ Blames(c, j)
        BY <1>17, <2>2 DEF Export, Exports, LateInv, Late
      <4>2. IsFree(c, j) => IsFree(c, j)'
        BY <1>17, <3>2 DEF Export, IInv, TypeOK, IsFree, Dest
      <4>3. Blames(c, j) => Blames(c, j)'
        BY <1>17 DEF Export, Blames, Dest
      <4> QED
        BY <4>1, <4>2, <4>3
    <3> QED
      BY <3>1, <3>2
  <2>3. Late(c)'
    BY <1>17, <2>2 DEF Export, Exports, IInv, TypeOK, Late
  <2> QED
    BY <2>0, <2>3, LateKeptByOthers
<1>18. ASSUME NEW c \in Clients, NEW i \in todo[c], ExportBlocked(c, i)
     PROVE  LateInv'
  <2>0. \A x \in Clients \ {c} : Untouched(x)
    BY <1>18 DEF ExportBlocked, Goto, IInv, TypeOK, Nodes, Untouched, registry, download
  <2>1. ~IsFree(c, i) /\ Blames(c, i)
    BY <1>18 DEF ExportBlocked, Exports, LateInv, Late
  <2>2. ~IsFree(c, i)' /\ Blames(c, i)'
    BY <1>18, <2>1 DEF ExportBlocked, IsFree, Blames, Dest, download
  <2>3. Late(c)'
    BY <1>18, <2>2 DEF ExportBlocked, Goto, IInv, TypeOK, Late, Nodes, download
  <2> QED
    BY <2>0, <2>3, LateKeptByOthers
<1>19. ASSUME NEW c \in Clients, Exported(c)
     PROVE  LateInv'
  BY <1>19, LateKeptByAll
     DEF Exported, Goto, IInv, TypeOK, Nodes, Failures, Untouched, registry, download
<1>20. ASSUME NEW c \in Clients, CrossCheck(c)
     PROVE  LateInv'
  <2>0. \A x \in Clients \ {c} : Untouched(x)
    BY <1>20 DEF CrossCheck, Goto, IInv, TypeOK, Nodes, Untouched, registry, download
  <2>1. man[c] # None
    BY <1>20 DEF CrossCheck, IInv, AcceptedInv, Accepted, PastQuorum, Nodes
  <2>2. pc'[c] = "mismatch" => SigningBytes(man[c]) \in HandSigned
    BY <1>20, <2>1, FilesAreCollection DEF CrossCheck, IInv, TypeOK, Nodes
  <2>3. Late(c)'
    BY <1>20, <2>2 DEF CrossCheck, IInv, TypeOK, Late, Nodes
  <2> QED
    BY <2>0, <2>3, LateKeptByOthers
<1>21. ASSUME NEW c \in Clients, NEW i \in todo[c], ExportTorn(c, i)
     PROVE  LateInv'
  BY <1>21, LateKeptByAll
     DEF ExportTorn, End, IInv, TypeOK, Nodes, Failures, Untouched, registry, download
<1>22. ASSUME NEW n \in Nodes, AnnounceAndServe(n)
     PROVE  LateInv'
  BY <1>22, LateKeptByAll
     DEF AnnounceAndServe, Goto, IInv, TypeOK, Nodes, Failures, Untouched, registry, download
<1>23. ASSUME NEW n \in Nodes, Exit(n)
     PROVE  LateInv'
  BY <1>23, LateKeptByAll
     DEF Exit, End, IInv, TypeOK, Nodes, Failures, Untouched, registry, download
<1>24. ASSUME NEW n \in Nodes, NEW m \in Models, Expire(m, n)
     PROVE  LateInv'
  BY <1>24, LateKeptByAll
     DEF Expire, IInv, TypeOK, Nodes, Failures, Untouched, registry, download
<1>25. ASSUME NEW c \in Clients, DirFails(c)
     PROVE  LateInv'
  BY <1>25, LateKeptByAll
     DEF DirFails, Goto, IInv, TypeOK, Nodes, Failures, Untouched, registry, download
<1>26. ASSUME NEW c \in Clients, NEW i \in todo[c], ExportFails(c, i)
     PROVE  LateInv'
  BY <1>26, LateKeptByAll
     DEF ExportFails, Goto, IInv, TypeOK, Nodes, Failures, Untouched, registry, download
<1> QED
  BY <1>1, <1>2, <1>3, <1>4, <1>5, <1>6, <1>7, <1>8, <1>9, <1>10, <1>11, <1>12,
     <1>13, <1>14, <1>15, <1>16, <1>17, <1>18, <1>19, <1>20, <1>21, <1>22, <1>23,
     <1>24, <1>25, <1>26 DEF Next, Proceed, Await

(***************************************************************************)
(* A download that fails after its blobs have arrived, and not for want of *)
(* disk space, meets a file that cannot be removed, a name that its record *)
(* has twice, or a record that `validate' did not make -- for any records, *)
(* any names in them, and whatever earlier downloads left behind.          *)
(***************************************************************************)
THEOREM LateFailuresHaveACause == Spec => []LateFailureHasCause
<1>1. Init => LateInv
  BY DEF Init, LateInv, Late, Nodes
<1>2. IInv /\ LateInv /\ [Next]_vars => LateInv'
  <2>1. ASSUME LateInv, UNCHANGED vars PROVE LateInv'
    BY <2>1, LateKeptByAll DEF vars, Untouched
  <2> QED
    BY <2>1, LateStep
<1>3. LateInv => LateFailureHasCause
  BY DEF LateInv, Late, LateFailureHasCause
<1> QED
  BY <1>1, <1>2, <1>3, Inductive, PTL DEF Spec
-----------------------------------------------------------------------------
(***************************************************************************)
(* How manifests travel: the registry's record of a model is one that a    *)
(* validator was publishing under that name; a node's manifest is built    *)
(* from a folder, signed by the node alone, or an answer of the registry.  *)
(***************************************************************************)
SignedAlone(n) == [man[n] EXCEPT !.signatures = <<OwnSignature(n, man[n])>>]

RecordMoves(m) ==
    \/ record'[m] = record[m]
    \/ \E v \in Validators : want[v] = m /\ man[v] # None /\ record'[m] = man[v]

ManifestMoves(n) ==
    \/ man'[n] = None
    \/ man'[n] = man[n] /\ want'[n] = want[n]
    \/ \E ver \in Versions, folder \in Folders : man'[n] = Record(want'[n], ver, folder)
    \/ /\ n \in Validators /\ man[n] # None /\ want'[n] = want[n]
       /\ man'[n] = SignedAlone(n)
    \/ /\ want[n] \in Models /\ want'[n] = want[n]
       /\ man'[n] \in Answers(want[n])

LEMMA Moves ==
    ASSUME IInv, Next
    PROVE  /\ \A m \in Models : RecordMoves(m)
           /\ \A n \in Nodes : ManifestMoves(n)
<1> DEFINE Moved == /\ \A m \in Models : RecordMoves(m)
                    /\ \A n \in Nodes : ManifestMoves(n)
<1>1. ASSUME NEW v \in Validators, NEW m \in Models, NEW ver \in Versions, NEW folder \in Folders, Import(v, m, ver, folder)
     PROVE  Moved
  BY <1>1
     DEF Import, Goto, IInv, RecordMoves, ManifestMoves, TypeOK, PhaseInv,
         Nodes, registry, download
<1>2. ASSUME NEW v \in Validators, Sign(v)
     PROVE  Moved
  BY <1>2
     DEF Sign, Goto, IInv, RecordMoves, ManifestMoves, TypeOK, PhaseInv,
         Nodes, registry, download, SignedAlone
<1>3. ASSUME NEW v \in Validators, Put(v)
     PROVE  Moved
  BY <1>3
     DEF Put, Goto, IInv, RecordMoves, ManifestMoves, TypeOK, PhaseInv, Nodes,
         registry, download
<1>4. ASSUME NEW v \in Validators, NEW b \in HandSigned, SignByHand(v, b)
     PROVE  Moved
  BY <1>4
     DEF SignByHand, IInv, RecordMoves, ManifestMoves, TypeOK, PhaseInv,
         Nodes, registry, download
<1>5. ASSUME NEW s \in Seeders, NEW m \in Models, NEW folder \in Folders, SeedDir(s, m, folder)
     PROVE  Moved
  BY <1>5
     DEF SeedDir, Goto, IInv, RecordMoves, ManifestMoves, TypeOK, PhaseInv,
         Nodes, registry, download
<1>6. ASSUME NEW c \in Clients, NEW m \in Models, Get(c, m)
     PROVE  Moved
  BY <1>6
     DEF Get, Goto, IInv, RecordMoves, ManifestMoves, TypeOK, PhaseInv, Nodes,
         registry, download
<1>7. ASSUME NEW c \in Clients, Resolve(c)
     PROVE  Moved
  <2>1. want[c] \in Models /\ c \in Nodes
    BY <1>7 DEF IInv, Resolve, Goto, PhaseInv, Nodes
  <2> QED
    BY <1>7, <2>1
       DEF Resolve, Goto, IInv, RecordMoves, ManifestMoves, TypeOK, PhaseInv,
           Nodes, registry, download
<1>8. ASSUME NEW c \in Clients, RequestFails(c)
     PROVE  Moved
  BY <1>8
     DEF RequestFails, Goto, IInv, RecordMoves, ManifestMoves, TypeOK,
         PhaseInv, Nodes, registry, download
<1>9. ASSUME NEW c \in Clients, Verify(c)
     PROVE  Moved
  BY <1>9
     DEF Verify, IInv, RecordMoves, ManifestMoves, TypeOK, PhaseInv, Nodes,
         registry, download
<1>10. ASSUME NEW c \in Clients, Locate(c)
     PROVE  Moved
  BY <1>10
     DEF Locate, Goto, IInv, RecordMoves, ManifestMoves, TypeOK, PhaseInv,
         Nodes, registry, download
<1>11. ASSUME NEW c \in Clients, Fetch(c)
     PROVE  Moved
  BY <1>11
     DEF Fetch, IInv, RecordMoves, ManifestMoves, TypeOK, PhaseInv, Nodes,
         registry, download
<1>12. ASSUME NEW c \in Clients, FetchFails(c)
     PROVE  Moved
  BY <1>12
     DEF FetchFails, Goto, IInv, RecordMoves, ManifestMoves, TypeOK, PhaseInv,
         Nodes, registry, download
<1>13. ASSUME NEW c \in Clients, Fetched(c)
     PROVE  Moved
  BY <1>13
     DEF Fetched, Goto, IInv, RecordMoves, ManifestMoves, TypeOK, PhaseInv,
         Nodes, registry, download
<1>14. ASSUME NEW c \in Clients, NEW i \in todo[c], Clear(c, i)
     PROVE  Moved
  BY <1>14
     DEF Clear, IInv, RecordMoves, ManifestMoves, TypeOK, PhaseInv, Nodes,
         registry, download
<1>15. ASSUME NEW c \in Clients, NEW i \in todo[c], ClearFails(c, i)
     PROVE  Moved
  BY <1>15
     DEF ClearFails, IInv, RecordMoves, ManifestMoves, TypeOK, PhaseInv,
         Nodes, registry, download
<1>16. ASSUME NEW c \in Clients, Cleared(c)
     PROVE  Moved
  BY <1>16
     DEF Cleared, Goto, IInv, RecordMoves, ManifestMoves, TypeOK, PhaseInv,
         Nodes, registry, download
<1>17. ASSUME NEW c \in Clients, NEW i \in todo[c], Export(c, i)
     PROVE  Moved
  BY <1>17
     DEF Export, IInv, RecordMoves, ManifestMoves, TypeOK, PhaseInv, Nodes,
         registry, download, Exports
<1>18. ASSUME NEW c \in Clients, NEW i \in todo[c], ExportBlocked(c, i)
     PROVE  Moved
  BY <1>18
     DEF ExportBlocked, Goto, IInv, RecordMoves, ManifestMoves, TypeOK,
         PhaseInv, Nodes, registry, download, Exports
<1>19. ASSUME NEW c \in Clients, Exported(c)
     PROVE  Moved
  BY <1>19
     DEF Exported, Goto, IInv, RecordMoves, ManifestMoves, TypeOK, PhaseInv,
         Nodes, registry, download
<1>20. ASSUME NEW c \in Clients, CrossCheck(c)
     PROVE  Moved
  BY <1>20
     DEF CrossCheck, IInv, RecordMoves, ManifestMoves, TypeOK, PhaseInv,
         Nodes, registry, download
<1>21. ASSUME NEW c \in Clients, NEW i \in todo[c], ExportTorn(c, i)
     PROVE  Moved
  BY <1>21
     DEF ExportTorn, IInv, RecordMoves, ManifestMoves, TypeOK, PhaseInv,
         Nodes, registry, download, End, Up, Exports
<1>22. ASSUME NEW n \in Nodes, AnnounceAndServe(n)
     PROVE  Moved
  BY <1>22
     DEF AnnounceAndServe, Goto, IInv, RecordMoves, ManifestMoves, TypeOK,
         PhaseInv, Nodes, registry, download
<1>23. ASSUME NEW n \in Nodes, Exit(n)
     PROVE  Moved
  BY <1>23
     DEF Exit, IInv, RecordMoves, ManifestMoves, TypeOK, PhaseInv, Nodes,
         registry, download, End, Up
<1>24. ASSUME NEW n \in Nodes, NEW m \in Models, Expire(m, n)
     PROVE  Moved
  BY <1>24
     DEF Expire, IInv, RecordMoves, ManifestMoves, TypeOK, PhaseInv, Nodes,
         registry, download
<1>25. ASSUME NEW c \in Clients, DirFails(c)
     PROVE  Moved
  BY <1>25
     DEF DirFails, Goto, IInv, RecordMoves, ManifestMoves, TypeOK, PhaseInv,
         Nodes, registry, download
<1>26. ASSUME NEW c \in Clients, NEW i \in todo[c], ExportFails(c, i)
     PROVE  Moved
  BY <1>26
     DEF ExportFails, Goto, IInv, RecordMoves, ManifestMoves, TypeOK, PhaseInv,
         Nodes, registry, download, Exports
<1> QED
  BY <1>1, <1>2, <1>3, <1>4, <1>5, <1>6, <1>7, <1>8, <1>9, <1>10, <1>11, <1>12, <1>13, <1>14, <1>15, <1>16, <1>17, <1>18, <1>19, <1>20, <1>21, <1>22, <1>23, <1>24, <1>25, <1>26 DEF Next, Proceed, Await

LEMMA SignedAloneFacts ==
    ASSUME IInv, NEW v \in Validators, man[v] # None
    PROVE  /\ Len(SignedAlone(v).signatures) <= 1
           /\ SignedAlone(v).name = man[v].name
<1>1. man[v] \in Manifests /\ SigningBytes(man[v]) \in Bodies
  BY DEF IInv, TypeOK, GenuineInv, Genuine, Nodes
<1>2. <<OwnSignature(v, man[v])>> \in Seq(Signatures)
  BY <1>1, OwnSignatureIsKnown
<1> QED
  BY <1>1, <1>2, SigningBytesFacts DEF SignedAlone
-----------------------------------------------------------------------------
(***************************************************************************)
(* With an honest registry, what is saved is what was asked for.           *)
(***************************************************************************)
NamedInv ==
    /\ \A m \in Models : record[m] # None => record[m].name = m
    /\ \A n \in Nodes : man[n] # None => man[n].name = want[n]

LEMMA NamedStep ==
    ASSUME ~Untrusted, IInv, NamedInv, Next
    PROVE  NamedInv'
<1>1. ASSUME NEW m \in Models, record'[m] # None
     PROVE  record'[m].name = m
  BY <1>1, Moves DEF RecordMoves, NamedInv, Nodes
<1>2. ASSUME NEW n \in Nodes, man'[n] # None
     PROVE  man'[n].name = want'[n]
  <2>1. ManifestMoves(n)
    BY Moves
  <2>2. CASE n \in Validators /\ man[n] # None /\ man'[n] = SignedAlone(n) /\ want'[n] = want[n]
    BY <2>2, SignedAloneFacts DEF NamedInv
  <2>3. CASE want[n] \in Models /\ want'[n] = want[n] /\ man'[n] \in Answers(want[n])
    BY <2>3 DEF Answers, NamedInv
  <2>4. CASE \E ver \in Versions, folder \in Folders : man'[n] = Record(want'[n], ver, folder)
    BY <2>4 DEF Record
  <2> QED
    BY <1>2, <2>1, <2>2, <2>3, <2>4 DEF ManifestMoves, NamedInv
<1> QED
  BY <1>1, <1>2 DEF NamedInv

(***************************************************************************)
(* A registry that answers with what was published under the name it was   *)
(* asked for never leads a client to another model.                        *)
(***************************************************************************)
THEOREM HonestRegistryServesTheModel ==
    ASSUME ~Untrusted
    PROVE  Spec => []SavedIsRequested
<1>1. Init => NamedInv
  BY DEF Init, NamedInv
<1>2. IInv /\ NamedInv /\ [Next]_vars => NamedInv'
  <2>1. ASSUME NamedInv, UNCHANGED vars PROVE NamedInv'
    BY <2>1 DEF vars, NamedInv
  <2> QED
    BY <2>1, NamedStep
<1>3. NamedInv => SavedIsRequested
  BY DEF NamedInv, SavedIsRequested, Saved, Nodes
<1> QED
  BY <1>1, <1>2, <1>3, Inductive, PTL DEF Spec

-----------------------------------------------------------------------------
(***************************************************************************)
(* `validate' signs alone: a record made and served by this code never has *)
(* two signatures, so a keyring that asks for two accepts nothing.         *)
(***************************************************************************)
AloneInv ==
    /\ \A m \in Models : record[m] # None => Len(record[m].signatures) <= 1
    /\ \A n \in Nodes : man[n] # None => Len(man[n].signatures) <= 1

LEMMA AloneStep ==
    ASSUME ~Untrusted, IInv, AloneInv, Next
    PROVE  AloneInv'
<1>1. ASSUME NEW m \in Models, record'[m] # None
     PROVE  Len(record'[m].signatures) <= 1
  BY <1>1, Moves DEF RecordMoves, AloneInv, Nodes
<1>2. ASSUME NEW n \in Nodes, man'[n] # None
     PROVE  Len(man'[n].signatures) <= 1
  <2>1. ManifestMoves(n)
    BY Moves
  <2>2. CASE n \in Validators /\ man[n] # None /\ man'[n] = SignedAlone(n) /\ want'[n] = want[n]
    BY <2>2, SignedAloneFacts DEF AloneInv
  <2>3. CASE want[n] \in Models /\ want'[n] = want[n] /\ man'[n] \in Answers(want[n])
    BY <2>3 DEF Answers, AloneInv
  <2>4. CASE \E ver \in Versions, folder \in Folders : man'[n] = Record(want'[n], ver, folder)
    BY <2>4 DEF Record
  <2> QED
    BY <1>2, <2>1, <2>2, <2>3, <2>4 DEF ManifestMoves, AloneInv
<1> QED
  BY <1>1, <1>2 DEF AloneInv

LEMMA OneSignatureOneVoucher ==
    ASSUME NEW m \in Manifests, Len(m.signatures) <= 1
    PROVE  Cardinality(Vouchers(Pinned, m)) <= 1
<1>1. Len(m.signatures) \in Nat
  BY DEF Manifests
<1>2. Vouchers(Pinned, m) \subseteq {m.signatures[1].validator}
  BY <1>1 DEF Vouchers, Vouched
<1> QED
  <2> DEFINE one == {m.signatures[1].validator}
             V == Vouchers(Pinned, m)
  <2>1. IsFiniteSet(one) /\ Cardinality(one) = 1
    BY FS_Singleton
  <2>2. Cardinality(V) <= Cardinality(one)
    BY <1>2, <2>1, FS_Subset
  <2> QED
    BY <2>1, <2>2

NothingSaved == \A c \in Clients : ~Saved(c)

(***************************************************************************)
(* With an honest registry and a quorum of two or more, no get ever        *)
(* succeeds, however many validators publish the same record: each         *)
(* validate_and_publish replaces the others' signatures with its own.      *)
(***************************************************************************)
THEOREM LoneSignaturesNeverSuffice ==
    ASSUME ~Untrusted, Pinned.quorum >= 2
    PROVE  Spec => []NothingSaved
<1>1. Init => AloneInv
  BY DEF Init, AloneInv
<1>2. IInv /\ AloneInv /\ [Next]_vars => AloneInv'
  <2>1. ASSUME AloneInv, UNCHANGED vars PROVE AloneInv'
    BY <2>1 DEF vars, AloneInv
  <2> QED
    BY <2>1, AloneStep
<1>3. IInv /\ AloneInv => NothingSaved
  <2>1. SUFFICES ASSUME IInv, AloneInv, NEW c \in Clients, Saved(c)
                 PROVE  FALSE
    BY DEF NothingSaved
  <2>2. man[c] \in Manifests /\ Len(man[c].signatures) <= 1
    BY <2>1 DEF Saved, IInv, TypeOK, AloneInv, Nodes
  <2>3. Cardinality(Vouchers(Pinned, man[c])) >= Pinned.quorum
    BY <2>1 DEF IInv, AcceptedInv, Accepted, PastQuorum, Saved, Verdict, Nodes
  <2>4. Cardinality(Vouchers(Pinned, man[c])) <= 1
    BY <2>2, OneSignatureOneVoucher
  <2>5. IsFiniteSet(Vouchers(Pinned, man[c]))
    BY <2>1, <2>2, VouchersAreSigners, SignersAreFinite, FS_Subset
       DEF IInv, GenuineInv, Saved, Nodes
  <2> QED
    BY <2>3, <2>4, <2>5, FS_CardinalityType, RolesAssumption DEF Keyring
<1> QED
  BY <1>1, <1>2, <1>3, Inductive, PTL DEF Spec

=========================================================================
