---------------------------- MODULE Pipeline ----------------------------
(***************************************************************************)
(* Publishing, seeding and verified download (node/src/pipeline.rs,        *)
(* node/src/lib.rs, the commands of cli/src/main.rs): validators sign and  *)
(* publish, nodes announce, clients resolve, verify, fetch, export and     *)
(* cross-check, each `await' a point where anyone else may step in or the  *)
(* process may die.  The registry keeps the two tables of Registry.tla,    *)
(* with the time-to-live replaced by what Seeding.tla shows of it: a       *)
(* listed node may vanish from the list only when it is not serving.       *)
(*                                                                         *)
(* iroh-blobs is external: a store of blobs by BLAKE3 hash.  A collection  *)
(* is the list of its (path, hash) entries, which its root hash            *)
(* determines; nothing keeps it from having one path twice.                *)
(***************************************************************************)
EXTENDS Manifest, Functions

CONSTANTS
    Validators,     \* nodes that run `validate', one per validator
    Clients,        \* nodes that run `get'
    Seeders,        \* nodes that run `seed'
    Unparsable,     \* an announced node id that is no NodeId
    IdOf, KeyOf,    \* validator |-> its --id and the public half of its --key
    Pinned,         \* the keyring clients pin
    Models, Versions, Paths, Hashes,
    Folders,        \* the collections that source directories import to
    HandSigned,     \* records that validators sign by other means than `validate'
    Untrusted,      \* the registry answers whatever it likes
    MaxSignatures,  \* bound on the signatures of an untrusted answer
    Stuck,          \* paths whose file the system may refuse to remove
    None, Partial   \* no value; a file that is half written

Nodes == Validators \cup Clients \cup Seeders

Entry == [path : Paths, blake3 : Hashes]

(***************************************************************************)
(* The record validate_and_publish builds for a folder it imported.        *)
(***************************************************************************)
Record(m, v, folder) ==
    [name |-> m, version |-> v, files |-> Range(folder), collection |-> folder,
     signatures |-> <<>>]

Bodies ==
    {Record(m, v, folder) : m \in Models, v \in Versions, folder \in Folders}
        \cup HandSigned

Signatures == {SignManifest(id, key, b) : id \in Ids, key \in Keys, b \in Bodies}

Manifests ==
    [name : Models, version : Versions, files : SUBSET Entry,
     collection : Seq(Entry), signatures : Seq(Signatures)]

ASSUME RolesAssumption ==
    /\ IdOf \in [Validators -> Ids]
    /\ KeyOf \in [Validators -> Keys]
    /\ Pinned \in Keyring
    /\ Malformed \notin Keys
    /\ Untrusted \in BOOLEAN
    /\ MaxSignatures \in Nat

ASSUME RecordsAssumption ==
    /\ Folders \subseteq Seq(Entry)
    /\ \A b \in HandSigned : b \in Manifests /\ b.signatures = <<>>
    /\ None \notin Hashes /\ Partial \notin Hashes /\ None # Partial
    /\ None \notin Manifests /\ None \notin Models
    /\ \A s \in Signatures : Decodes(s.sig)

VARIABLES
    signed,         \* every signature made so far (history)
    record,         \* registry, manifests: model |-> manifest, or None
    listed,         \* registry, seeders: the <<model, node>> a query answers with
    pc,             \* node |-> where its process is
    want,           \* node |-> the model of its command, or None
    man,            \* node |-> the manifest it builds or was given, or None
    peers,          \* client |-> the seeders it downloads from
    store,          \* node |-> roots and blobs in its persistent store
    todo,           \* client |-> entries (by number) still to clear or to export
    disk            \* client |-> path |-> hash, Partial or None

vars == <<signed, record, listed, pc, want, man, peers, store, todo, disk>>
registry == <<record, listed>>
download == <<peers, todo, disk>>

Failures ==
    {"unresolved", "rejected", "unlisted", "unreachable", "unwritten", "blocked", "mismatch"}

States ==
    {"off", "imported", "signed", "resolving", "verifying", "locating", "fetching",
     "clearing", "exporting", "checking", "saved", "ready", "serving"} \cup Failures

TypeOK ==
    /\ signed \subseteq Signatures
    /\ record \in [Models -> Manifests \cup {None}]
    /\ listed \subseteq Models \X Nodes
    /\ pc \in [Nodes -> States]
    /\ want \in [Nodes -> Models \cup {None}]
    /\ man \in [Nodes -> Manifests \cup {None}]
    /\ peers \in [Clients -> SUBSET (Nodes \cup {Unparsable})]
    /\ todo \in [Clients -> SUBSET Nat]
    /\ disk \in [Clients -> [Paths -> Hashes \cup {None, Partial}]]

Init ==
    /\ signed = {}
    /\ record = [m \in Models |-> None]
    /\ listed = {}
    /\ pc = [n \in Nodes |-> "off"]
    /\ want = [n \in Nodes |-> None]
    /\ man = [n \in Nodes |-> None]
    /\ peers = [c \in Clients |-> {}]
    /\ store = [n \in Nodes |-> {}]
    /\ todo = [c \in Clients |-> {}]
    /\ disk = [c \in Clients |-> [p \in Paths |-> None]]

Goto(n, from, to) == pc[n] = from /\ pc' = [pc EXCEPT ![n] = to]

Up(n) == pc[n] # "off"

(***************************************************************************)
(* A process ends and its local variables with it.                         *)
(***************************************************************************)
End(n) ==
    /\ Up(n)
    /\ pc' = [pc EXCEPT ![n] = "off"]
    /\ want' = [want EXCEPT ![n] = None]
    /\ man' = [man EXCEPT ![n] = None]
    /\ peers' = [c \in Clients |-> IF c = n THEN {} ELSE peers[c]]
    /\ todo' = [c \in Clients |-> IF c = n THEN {} ELSE todo[c]]

(***************************************************************************)
(* The blobs of a collection: its root and one blob per file.              *)
(***************************************************************************)
Blobs(collection) == {collection} \cup {e.blake3 : e \in Range(collection)}
-----------------------------------------------------------------------------
(***************************************************************************)
(* Mutant: a manifest with another name than the one it is published under.*)
(***************************************************************************)
ImportMisnamed(v, m, ver, folder) ==
    /\ Goto(v, "off", "imported")
    /\ want' = [want EXCEPT ![v] = m]
    /\ store' = [store EXCEPT ![v] = @ \cup Blobs(folder)]
    /\ \E x \in Models : man' = [man EXCEPT ![v] = Record(x, ver, folder)]
    /\ UNCHANGED <<signed, registry, download>>

(***************************************************************************)
(* `validate': seed_dir imports the folder and makes the collection; the   *)
(* manifest gets this validator's signature and no other; the PUT replaces *)
(* what the registry had.  An error ends the process: that is Exit.        *)
(***************************************************************************)
Import(v, m, ver, folder) ==
    /\ Goto(v, "off", "imported")
    /\ want' = [want EXCEPT ![v] = m]
    /\ store' = [store EXCEPT ![v] = @ \cup Blobs(folder)]
    /\ man' = [man EXCEPT ![v] = Record(m, ver, folder)]
    /\ UNCHANGED <<signed, registry, download>>

OwnSignature(v, m) == SignManifest(IdOf[v], KeyOf[v], m)

Sign(v) ==
    /\ Goto(v, "imported", "signed")
    /\ signed' = signed \cup {OwnSignature(v, man[v])}
    /\ man' = [man EXCEPT ![v] = [@ EXCEPT !.signatures = <<OwnSignature(v, man[v])>>]]
    /\ UNCHANGED <<registry, want, store, download>>

(***************************************************************************)
(* Mutant: a PUT that leaves the signatures of the record it replaces.     *)
(***************************************************************************)
PutUnderOldSignatures(v) ==
    /\ Goto(v, "signed", "ready")
    /\ record' = [record EXCEPT ![want[v]] =
                    IF @ = None
                    THEN man[v]
                    ELSE [man[v] EXCEPT !.signatures = record[want[v]].signatures]]
    /\ man' = [man EXCEPT ![v] = None]
    /\ UNCHANGED <<signed, listed, want, store, download>>

Put(v) ==
    /\ Goto(v, "signed", "ready")
    /\ record' = [record EXCEPT ![want[v]] = man[v]]
    /\ man' = [man EXCEPT ![v] = None]
    /\ UNCHANGED <<signed, listed, want, store, download>>

(***************************************************************************)
(* A validator's key signs a record that its owner made in another way.    *)
(***************************************************************************)
SignByHand(v, b) ==
    /\ signed' = signed \cup {OwnSignature(v, b)}
    /\ UNCHANGED <<registry, pc, want, man, store, download>>

(***************************************************************************)
(* `seed': import a folder and announce it under a model's name; nothing   *)
(* compares it with the model's manifest.                                  *)
(***************************************************************************)
SeedDir(s, m, folder) ==
    /\ Goto(s, "off", "ready")
    /\ want' = [want EXCEPT ![s] = m]
    /\ store' = [store EXCEPT ![s] = @ \cup Blobs(folder)]
    /\ UNCHANGED <<signed, registry, man, download>>

(***************************************************************************)
(* Mutant: a node that announces whatever state it is in.                  *)
(***************************************************************************)
AnnounceAnytime(n) ==
    /\ pc' = [pc EXCEPT ![n] = "serving"]
    /\ listed' = listed \cup {<<want[n], n>>}
    /\ UNCHANGED <<signed, record, want, man, store, download>>

(***************************************************************************)
(* announce_and_serve: a lost announce is repeated by the next heartbeat.  *)
(***************************************************************************)
AnnounceAndServe(n) ==
    /\ Goto(n, "ready", "serving") \/ Goto(n, "saved", "serving")
    /\ listed' = listed \cup {<<want[n], n>>}
    /\ UNCHANGED <<signed, record, want, man, store, download>>

(***************************************************************************)
(* The end of a process: Ctrl-C, the end of its command, or a crash.  The  *)
(* blob store and the output directory are files and stay as they are.     *)
(***************************************************************************)
Exit(n) == End(n) /\ UNCHANGED <<signed, registry, store, disk>>

(***************************************************************************)
(* The row of a node that stopped announcing this model expires.           *)
(***************************************************************************)
Expire(m, n) ==
    /\ <<m, n>> \in listed
    /\ ~(pc[n] = "serving" /\ want[n] = m)
    /\ listed' = listed \ {<<m, n>>}
    /\ UNCHANGED <<signed, record, pc, want, man, store, download>>
-----------------------------------------------------------------------------
(***************************************************************************)
(* `get': download_verified.  Its first request is get_manifest.           *)
(***************************************************************************)
Get(c, m) ==
    /\ Goto(c, "off", "resolving")
    /\ want' = [want EXCEPT ![c] = m]
    /\ UNCHANGED <<signed, registry, man, store, download>>

(***************************************************************************)
(* Mutants: a client that takes what it was told, one that is content with *)
(* a single signature.                                                     *)
(***************************************************************************)
ResolveTrusting(c) ==
    /\ Goto(c, "resolving", "locating")
    /\ \E b \in Bodies : man' = [man EXCEPT ![c] = b]
    /\ UNCHANGED <<signed, registry, want, store, download>>

VerifyAnySigner(c) ==
    /\ pc[c] = "verifying"
    /\ pc' = [pc EXCEPT ![c] =
                IF Vouchers(Pinned, man[c]) # {} THEN "locating" ELSE "rejected"]
    /\ UNCHANGED <<signed, registry, want, man, store, download>>

(***************************************************************************)
(* What the registry may answer.  An untrusted one may put together any    *)
(* record and any signatures that validators ever made.                    *)
(***************************************************************************)
SignatureLists == UNION {[1 .. k -> signed] : k \in 0 .. MaxSignatures}

Answers(m) ==
    IF Untrusted
    THEN {[b EXCEPT !.signatures = ss] : b \in Bodies, ss \in SignatureLists}
    ELSE {record[m]} \ {None}

PeerLists(m) ==
    IF Untrusted
    THEN SUBSET (Nodes \cup {Unparsable})
    ELSE {{n \in Nodes : <<m, n>> \in listed}}

Resolve(c) ==
    /\ Goto(c, "resolving", "verifying")
    /\ \E answer \in Answers(want[c]) : man' = [man EXCEPT ![c] = answer]
    /\ UNCHANGED <<signed, registry, want, store, download>>

(***************************************************************************)
(* No such model, no answer, or one that does not parse.                   *)
(***************************************************************************)
RequestFails(c) ==
    /\ Goto(c, "resolving", "unresolved") \/ Goto(c, "locating", "unresolved")
    /\ UNCHANGED <<signed, registry, want, man, store, download>>

(***************************************************************************)
(* Keyring::verify; KeyringProofs shows that it computes Verdict.          *)
(***************************************************************************)
Verify(c) ==
    /\ pc[c] = "verifying"
    /\ pc' = [pc EXCEPT ![c] =
                IF Verdict(Pinned, man[c]) = "accepted" THEN "locating" ELSE "rejected"]
    /\ UNCHANGED <<signed, registry, want, man, store, download>>

(***************************************************************************)
(* seeders() and node_addrs: an empty list fails, and so does one id that  *)
(* does not parse.                                                         *)
(***************************************************************************)
Locate(c) ==
    /\ \E ps \in PeerLists(want[c]) :
          IF ps # {} /\ Unparsable \notin ps
          THEN /\ Goto(c, "locating", "fetching")
               /\ peers' = [peers EXCEPT ![c] = ps]
          ELSE /\ Goto(c, "locating", "unlisted")
               /\ UNCHANGED peers
    /\ UNCHANGED <<signed, registry, want, man, store, todo, disk>>

(***************************************************************************)
(* Node::get, the download: first the root, then the blobs it names, each  *)
(* from any listed node that has it; what an earlier run fetched is there. *)
(***************************************************************************)
Missing(c) ==
    (IF man[c].collection \in store[c] THEN Blobs(man[c].collection)
                                       ELSE {man[c].collection}) \ store[c]

Fetch(c) ==
    /\ pc[c] = "fetching"
    /\ \E x \in Missing(c), n \in peers[c] \ {c} :
          /\ Up(n)
          /\ x \in store[n]
          /\ store' = [store EXCEPT ![c] = @ \cup {x}]
    /\ UNCHANGED <<signed, registry, pc, want, man, download>>

(***************************************************************************)
(* Mutant: a download that asks the registry for other seeders.            *)
(***************************************************************************)
FetchElsewhere(c) ==
    /\ Goto(c, "fetching", "locating")
    /\ Missing(c) # {}
    /\ UNCHANGED <<signed, registry, want, man, store, download>>

(***************************************************************************)
(* The downloader gives up on every listed node: gone, out of reach, or    *)
(* without the blob.                                                       *)
(***************************************************************************)
FetchFails(c) ==
    /\ Goto(c, "fetching", "unreachable")
    /\ Missing(c) # {}
    /\ UNCHANGED <<signed, registry, want, man, store, download>>

(***************************************************************************)
(* The output directory cannot be made, or the blob store not be written.  *)
(***************************************************************************)
DirFails(c) ==
    /\ Goto(c, "fetching", "unwritten")
    /\ UNCHANGED <<signed, registry, want, man, store, download>>

Fetched(c) ==
    /\ Goto(c, "fetching", "clearing")
    /\ Missing(c) = {}
    /\ todo' = [todo EXCEPT ![c] = DOMAIN man[c].collection]
    /\ peers' = [peers EXCEPT ![c] = {}]
    /\ UNCHANGED <<signed, registry, want, man, store, disk>>

(***************************************************************************)
(* Node::get, the export: remove what is in the way, entry by entry, then  *)
(* write entry by entry; writing refuses to overwrite.                     *)
(***************************************************************************)
Dest(c, i) == man[c].collection[i].path

Clear(c, i) ==
    /\ pc[c] = "clearing"
    /\ i \in todo[c]
    /\ disk' = [disk EXCEPT ![c][Dest(c, i)] = None]
    /\ todo' = [todo EXCEPT ![c] = @ \ {i}]
    /\ UNCHANGED <<signed, registry, pc, want, man, store, peers>>

(***************************************************************************)
(* remove_file fails (another program holds the file open, say); the code  *)
(* drops the error.                                                        *)
(***************************************************************************)
ClearFails(c, i) ==
    /\ pc[c] = "clearing"
    /\ i \in todo[c] /\ Dest(c, i) \in Stuck
    /\ disk[c][Dest(c, i)] # None
    /\ todo' = [todo EXCEPT ![c] = @ \ {i}]
    /\ UNCHANGED <<signed, registry, pc, want, man, store, peers, disk>>

(***************************************************************************)
(* Mutant: an export that does not wait for the last removal.              *)
(***************************************************************************)
ClearedEarly(c) ==
    /\ Goto(c, "clearing", "exporting")
    /\ todo' = [todo EXCEPT ![c] = DOMAIN man[c].collection]
    /\ UNCHANGED <<signed, registry, want, man, store, peers, disk>>

Cleared(c) ==
    /\ Goto(c, "clearing", "exporting")
    /\ todo[c] = {}
    /\ todo' = [todo EXCEPT ![c] = DOMAIN man[c].collection]
    /\ UNCHANGED <<signed, registry, want, man, store, peers, disk>>

Exports(c, i) == pc[c] = "exporting" /\ i \in todo[c]

IsFree(c, i) == disk[c][Dest(c, i)] = None

Export(c, i) ==
    /\ Exports(c, i) /\ IsFree(c, i)
    /\ disk' = [disk EXCEPT ![c][Dest(c, i)] = man[c].collection[i].blake3]
    /\ todo' = [todo EXCEPT ![c] = @ \ {i}]
    /\ UNCHANGED <<signed, registry, pc, want, man, store, peers>>

(***************************************************************************)
(* Mutant: an export that waits until the file in its way is gone.         *)
(***************************************************************************)
ExportWaits(c, i) ==
    /\ Exports(c, i) /\ ~IsFree(c, i)
    /\ UNCHANGED vars

(***************************************************************************)
(* A file that could not be removed is in the way, or an entry of the same *)
(* name that this export has written.                                      *)
(***************************************************************************)
ExportBlocked(c, i) ==
    /\ Exports(c, i) /\ ~IsFree(c, i)
    /\ Goto(c, "exporting", "blocked")
    /\ UNCHANGED <<signed, registry, want, man, store, download>>

(***************************************************************************)
(* The disk is full or fails: get returns the error, and may leave a       *)
(* half-written file behind.                                               *)
(***************************************************************************)
ExportFails(c, i) ==
    /\ Exports(c, i) /\ IsFree(c, i)
    /\ Goto(c, "exporting", "unwritten")
    /\ disk' = [disk EXCEPT ![c][Dest(c, i)] = Partial] \/ disk' = disk
    /\ UNCHANGED <<signed, registry, want, man, store, peers, todo>>

(***************************************************************************)
(* The process dies in the middle of a file.                               *)
(***************************************************************************)
ExportTorn(c, i) ==
    /\ Exports(c, i) /\ IsFree(c, i)
    /\ disk' = [disk EXCEPT ![c][Dest(c, i)] = Partial]
    /\ End(c)
    /\ UNCHANGED <<signed, registry, store>>

(***************************************************************************)
(* Mutants: an export that is not awaited, a cross-check that is left out. *)
(***************************************************************************)
ExportedEarly(c) ==
    /\ Goto(c, "exporting", "checking")
    /\ UNCHANGED <<signed, registry, want, man, store, download>>

CrossCheckNothing(c) ==
    /\ Goto(c, "checking", "saved")
    /\ UNCHANGED <<signed, registry, want, man, store, download>>

Exported(c) ==
    /\ Goto(c, "exporting", "checking")
    /\ todo[c] = {}
    /\ UNCHANGED <<signed, registry, want, man, store, download>>

(***************************************************************************)
(* Every file of the manifest must be in the collection with its hash; the *)
(* files are on disk already.  The export lets no name pass twice, so the  *)
(* code's map from names to hashes has every entry.                        *)
(***************************************************************************)
CrossCheck(c) ==
    /\ pc[c] = "checking"
    /\ pc' = [pc EXCEPT ![c] =
                IF man[c].files \subseteq Range(man[c].collection)
                THEN "saved" ELSE "mismatch"]
    /\ UNCHANGED <<signed, registry, want, man, store, download>>
-----------------------------------------------------------------------------
(***************************************************************************)
(* What a client's requests and its download come to; it has no timeout    *)
(* for any of them.                                                        *)
(***************************************************************************)
Await(c) ==
    \/ Resolve(c) \/ RequestFails(c) \/ Locate(c)
    \/ Fetch(c) \/ FetchFails(c) \/ DirFails(c)

(***************************************************************************)
(* What it does on its own.                                                *)
(***************************************************************************)
Proceed(c) ==
    \/ Verify(c) \/ Fetched(c) \/ Cleared(c) \/ Exported(c) \/ CrossCheck(c)
    \/ \E i \in todo[c] :
          \/ Clear(c, i) \/ ClearFails(c, i)
          \/ Export(c, i) \/ ExportBlocked(c, i) \/ ExportFails(c, i)

Next ==
    \/ \E v \in Validators :
          \/ \E m \in Models, ver \in Versions, folder \in Folders : Import(v, m, ver, folder)
          \/ Sign(v)
          \/ Put(v)
          \/ \E b \in HandSigned : SignByHand(v, b)
    \/ \E s \in Seeders, m \in Models, folder \in Folders : SeedDir(s, m, folder)
    \/ \E c \in Clients :
          \/ \E m \in Models : Get(c, m)
          \/ Await(c)
          \/ Proceed(c)
          \/ \E i \in todo[c] : ExportTorn(c, i)
    \/ \E n \in Nodes :
          \/ AnnounceAndServe(n)
          \/ Exit(n)
          \/ \E m \in Models : Expire(m, n)

Spec == Init /\ [][Next]_vars

(***************************************************************************)
(* tokio keeps polling a client's task.  That a request or a download ever *)
(* ends is not assumed: reqwest::Client::new() sets no timeout.            *)
(***************************************************************************)
FairSpec == Spec /\ \A c \in Clients : WF_vars(Proceed(c))
-----------------------------------------------------------------------------
(***************************************************************************)
(* The refinement: a client holds what download_verified returned Ok for.  *)
(***************************************************************************)
Saved(c) == pc[c] \in {"saved", "serving"} /\ man[c] # None

holds == [c \in Clients |-> IF Saved(c) THEN SigningBytes(man[c]) ELSE None]

Trust == INSTANCE TrustModel WITH signed <- signed, holds <- holds

(***************************************************************************)
(* Whatever the registry answers and whoever seeds, a client ends up with  *)
(* a record only if a quorum of the validators it pinned has signed that   *)
(* very record: publishing, downloading, crashing and failing over         *)
(* implement the trust model.                                              *)
(***************************************************************************)
ImplementsTrustModel == Trust!Spec

(***************************************************************************)
(* No byte of an unvouched record reaches the output directory: a file     *)
(* that changes is emptied, torn by a crash, or becomes a file of a record *)
(* that a quorum has signed -- although the export comes before the        *)
(* cross-check and the registry could have changed its mind in between.    *)
(***************************************************************************)
OnlyVouchedTouchesDisk ==
    [][\A c \in Clients, p \in Paths :
          disk'[c][p] # disk[c][p] /\ disk'[c][p] \in Hashes =>
              \E b \in Bodies :
                  /\ Trust!Truth(b)
                  /\ [path |-> p, blake3 |-> disk'[c][p]] \in Range(b.collection)]_vars

(***************************************************************************)
(* When download_verified returns Ok every file of the manifest is in the  *)
(* output directory with the signed hash, whatever earlier runs, crashes   *)
(* and other versions left there.                                          *)
(***************************************************************************)
SavedIsComplete ==
    \A c \in Clients :
        Saved(c) => \A f \in man[c].files : disk[c][f.path] = f.blake3

(***************************************************************************)
(* When a get fails although its blobs are there -- and the files it was   *)
(* to replace are gone --, its own command is to blame and no earlier one: *)
(* the disk has refused a write, a file in the way cannot be removed, the  *)
(* record has the name twice (import_dir gives one name to two paths that  *)
(* differ in a backslash), or it is not one that `validate' made.  What    *)
(* crashed, torn or failed exports left behind never makes it fail.        *)
(***************************************************************************)
Blames(c, i) ==
    \/ Dest(c, i) \in Stuck
    \/ \E j \in DOMAIN man[c].collection \ {i} : Dest(c, j) = Dest(c, i)

LateFailureHasCause ==
    \A c \in Clients :
        /\ pc[c] = "blocked" => \E i \in todo[c] : ~IsFree(c, i) /\ Blames(c, i)
        /\ pc[c] = "mismatch" => SigningBytes(man[c]) \in HandSigned

(***************************************************************************)
(* A client that asked for a model was given that model: get never         *)
(* compares the manifest's name with the one it asked for.  docs/roles/    *)
(* registry.md says that a wrong registry cannot cause a bad download.     *)
(***************************************************************************)
SavedIsRequested ==
    \A c \in Clients : Saved(c) => man[c].name = want[c]

(***************************************************************************)
(* A get ends -- it is saved, it fails, or its process ends -- or it waits *)
(* for ever for an answer of the registry or for the seeders.  Nothing     *)
(* else holds it up: neither bad answers, nor what is on its disk, nor     *)
(* what anyone else does.  The wait itself has no bound in the code.       *)
(***************************************************************************)
Ended(c) == pc[c] \in {"saved", "off"} \cup Failures

Awaiting(c) ==
    \/ pc[c] \in {"resolving", "locating"}
    \/ pc[c] = "fetching" /\ Missing(c) # {}

GetEndsOrAwaits ==
    \A c \in Clients : pc[c] = "resolving" ~> Ended(c) \/ []Awaiting(c)

(***************************************************************************)
(* Why a get cannot go on for ever: whatever changes about a client in     *)
(* the middle of its command takes it to a later point of it (a failure is *)
(* one), or leaves it there with less to do.  No step of another process,  *)
(* no answer of the registry and no failover takes it back.                *)
(***************************************************************************)
Stages ==
    <<"resolving", "verifying", "locating", "fetching", "clearing", "exporting", "checking">>

Getting(c) == pc[c] \in Range(Stages)

Later(s, t) ==
    \/ t \in {"saved", "off"} \cup Failures
    \/ \E i, j \in DOMAIN Stages : i < j /\ s = Stages[i] /\ t = Stages[j]

Left(c) ==
    CASE pc[c] = "fetching" -> Blobs(man[c].collection) \ store[c]
      [] pc[c] \in {"clearing", "exporting"} -> todo[c]
      [] OTHER -> {}

ClientState(c) == <<pc[c], want[c], man[c], peers[c], store[c], todo[c], disk[c]>>

DownloadAdvances ==
    [][\A c \in Clients :
          Getting(c) /\ ClientState(c)' # ClientState(c) =>
              \/ Later(pc[c], pc'[c])
              \/ /\ pc'[c] = pc[c]
                 /\ Left(c)' \subseteq Left(c)
                 /\ Left(c)' # Left(c)]_vars

(***************************************************************************)
(* A quorum of one works: when a client pins every validator's key, and    *)
(* the registry is honest, no get is refused for want of signatures,       *)
(* whichever validator's record replaces which.                            *)
(***************************************************************************)
QuorumOfOneAccepts ==
    /\ ~Untrusted
    /\ Usable(Pinned) /\ Pinned.quorum = 1
    /\ \A v \in Validators : IsKeyOf(Pinned.validators, IdOf[v], KeyOf[v])
    => \A c \in Clients : pc[c] # "rejected"

(***************************************************************************)
(* docs/trust-model.md: a federation needs no code change.  Once every     *)
(* pinned validator has published the same record, the registry's record   *)
(* is accepted.                                                            *)
(***************************************************************************)
FederationIsHeard ==
    \A m \in Models :
        /\ record[m] # None
        /\ \A v \in Validators : pc[v] \in {"ready", "serving"} /\ want[v] = m
        /\ Trust!Truth(SigningBytes(record[m]))
        => Verdict(Pinned, record[m]) = "accepted"
=========================================================================
