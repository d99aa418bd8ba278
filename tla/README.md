# Bitmodel in TLA+

Bitmodel distributes AI model files peer to peer. Validators import a model's
files, sign a manifest and publish it at a registry; nodes that hold the files
announce themselves there; clients resolve the manifest, check it against a
pinned keyring (a list of keys and a quorum), fetch the content by BLAKE3 hash
from whoever has it, and export it to a directory. The code is a Rust
workspace under `src/app/crates` (`core`, `node`, `registry`, `validator`,
`cli`). This directory models it, checks the models with TLC and proves their
main properties with TLAPS.

Commands: `tlc -config X.cfg M` for the runs listed below, `tlapm M.tla` for
the seven `*Proofs` modules.

## 1. The system

| Component | Code | State | Operations |
|---|---|---|---|
| Manifest, signing | `core/manifest.rs`, `core/sign.rs` | none (values) | `signing_bytes`, `sign_manifest` |
| Keyring | `core/keyring.rs` | the trust file | `from_toml`, `decode_keys`, `verify` |
| Registry server | `registry/main.rs` | tables `seeders`, `manifests` | `announce`, `seeders` (prunes), `get_manifest`, `put_manifest` |
| Registry client | `node/registry.rs` | none | the four requests |
| Node | `node/lib.rs` | blob store, `node.key`, output directories | `spawn`, `seed_dir`, `get`, `shutdown` |
| Import | `node/collection.rs`, `core/allowlist.rs` | the source directory | `import_dir` |
| Pipeline | `node/pipeline.rs` | local variables between awaits | `validate_and_publish`, `download_verified` |
| Command line | `cli/main.rs` | the heartbeat task | `validate`, `seed`, `get`, `peers`, `keygen` |
| Validator | `validator/main.rs` | the work directory | `fetch_file`, publish, anchor seeding |
| Deployment | `deploy/deploy.sh`, `deploy/*.service` | key files, `trust.toml`, the environment file, what runs with which token | the script's steps, systemd's restarts |
| Landing page | `src/landingpage` | none | not modelled |

Interactions: the CLI and the validator call the pipeline; the pipeline calls
the node and, over HTTP, the registry; nodes exchange blobs directly. The only
shared mutable states are the registry's tables (behind one mutex), a node's
blob store and a client's output directory; from one start of a process to the
next there are also the validator's work directory, `node.key` and, on the
box, the key and environment files that `deploy.sh` ships.

What is hard here:

* every `await` of the pipeline lets the registry's answers, the seeders and
  other validators change; the manifest is read once and used until the end;
* processes are killed at any point, and the output directory and the blob
  store survive them;
* heartbeats are lost or slow, the registry is restarted and its wall clock is
  not reliable, while a query deletes rows of every model;
* nobody says goodbye: a listed node may be gone;
* the anchor fetches and imports again at every start, over whatever an ended
  process left, from an origin that may have changed;
* `deploy.sh` is run again, or is broken off, while the services it started
  end and restart on half of its files;
* `Keyring::verify` is a loop with five early `continue`s over a hash map in
  which repeated ids overwrite each other.

What makes each part correct:

* keyring: `verify` accepts exactly when at least `quorum` different members
  signed this manifest; an unusable keyring gives no verdict;
* registry: an answer lists exactly the nodes heard within the time-to-live;
* seeding: a node that serves stays listed, a node that is gone is forgotten;
* pipeline: a client holds, and writes to disk, only what a quorum signed; a
  download that succeeds is complete, one that fails late has a cause of its
  own, and nothing but an answer it waits for keeps a `get` from ending;
* import: equal directories give equal records, in the order of the names,
  where these differ;
* validator: what is signed is what the origin served, restarts change
  nothing, a node that is up holds its record, and the anchor comes back;
* deployment: clients with a `trust.toml` of the script that pins a key accept
  what the box publishes, the anchor keeps one identity and goes on seeding.

`PROJECT.json` lists the hazards line by line, with the properties that would
catch each of them going wrong.

## 2. The modules

| Module | Models | Composes |
|---|---|---|
| `Manifest` | manifests, signatures, keyrings and the rule `Verdict` | |
| `QuorumRule` | what the keyring promises: one question, one verdict | `Manifest` |
| `KeyringCheck` | `Keyring::verify` as it runs, refines `QuorumRule` | `Manifest` |
| `Registry` | the two tables and their handlers | |
| `RegistryMC` | the registry alone, under any requests | `Registry` |
| `SeederList` | what the registry promises about seeders, without clocks | |
| `Seeding` | heartbeats, network, exits, restarts, clock error | `Registry`, refines `SeederList` |
| `TrustModel` | what Bitmodel promises its users | `Manifest` |
| `Pipeline` | publish, seed, resolve, verify, fetch, export, cross-check | `Manifest`, refines `TrustModel` |
| `Import` | `import_dir`: walk, sort, allowlist, entry by entry | |
| `Validator` | the auto-script under systemd: fetch, import, publish, restart | `Import` |
| `Deployment` | `deploy.sh`, `keygen`, the units, `load_or_create_secret` | `Manifest` |
| `KeyringMC`, `SeedingMC`, `PipelineMC`, `ValidatorMC`, `DeploymentMC` | small instances | |
| `KeyringProofs`, `RegistryProofs`, `SeedingProofs`, `PipelineProofs`, `DownloadProofs` (extends it), `ValidatorProofs`, `DeploymentProofs` | proofs | |

### Keyring

`KeyringCheck` has one action per exit of the code: `Load` (quorum zero is an
error), `DecodeEntry`/`DecodeError`/`DecodeReturn` for `decode_keys`, then for
each signature exactly one of `SkipNotMember`, `SkipCounted`,
`SkipUndecodable`, `SkipUnverified` and `Count`, then `Report`. `keys` is the
`HashMap`, `signers` the `Vec`, `report` the `VerifyReport`. `QuorumRule`
decides in one step by `Manifest!Verdict`, a definition by quantifiers that
knows neither loop nor table. A signature is the pair of the key that made it
and the bytes it covers; Ed25519 and the JSON encoding are not modelled further.

### Registry and seeding

Handlers are operators over the tables that take the wall-clock reading as an
argument, because the mutex makes each handler one step. `Seeding` adds real
time, the node's loop (`Start`, `Return`, `Beat`, `Exit`), the network
(`Handle`, `Lose`), and the registry process (`Stop`, `Restart` on the same
database). A request whose sender has died stays on the wire and may still be
handled. `timer` is when a call was sent, or when a sleeper wakes: the period
is the sleep plus the call, as in the code, which sleeps after `announce`
returned. The CLI's and the validator's loops differ only in the warning they
print.

`SeederList` is the registry as its users think of it: calls are heard or
lost, a heard node is on its model's list until it leaves, only nodes that left
or moved on are forgotten. `Seeding` implements it (`Listing`, an `INSTANCE`
with the wire, the processes that were heard and the answers as `called`, `up`
and `listed`): ticks that age rows are `Forget`, queries, prunings and restarts
stutter. The list is read at the latest clock reading, `now + Skew`, so that it
holds the nodes every reading would list.

### Pipeline

One process per node. `pc` is the point between two awaits, `man` the
manifest it works on (what it builds, or what it was given). `Import`, `Sign`
and `Put` are `validate_and_publish`; `Get`, `Resolve`, `Verify`, `Locate`,
`Fetch`, `Fetched`, `Clear`, `Cleared`, `Export`, `Exported` and `CrossCheck`
are `download_verified` in its order, with their failures; `SeedDir` and
`AnnounceAndServe` the `seed` command and what follows every command. `Exit`
may strike anywhere; `ExportTorn` strikes in the middle of a file. The blob
store and the directory survive. `Await` gathers the steps in which a client
hears from the registry or a seeder, `Proceed` those it takes on its own.

* A collection is a list of names and hashes, as iroh's is. `import_dir` may
  give one name to two files (`to_string_lossy`, and a backslash becomes a
  slash), so a folder may list a name twice; the second entry then finds the
  first one's file in its way (`ExportBlocked`), since export refuses to
  overwrite. `todo` numbers the entries.
* `ExportFails` and `DirFails` are errors that `Node::get` returns: a disk
  that is full or fails, with or without a half-written file left behind. They
  are failures of the command and not ends of the process.
* The manifest's file list and its collection are separate fields: `validate`
  fills both from one folder, but a key can sign a record made otherwise
  (`HandSigned`), and only `CrossCheck` relates the two.
* With `Untrusted`, the registry answers any record with any list of
  signatures made so far, and any list of node ids, one unparsable.
* `listed` is the seeders table with the time-to-live replaced by the list of
  `SeederList`: `Expire` is its `Forget` and removes only nodes that do not
  serve. That `Seeding` implements `SeederList` is what justifies it.
* `Stuck` are paths whose file the system may refuse to remove;
  `let _ = remove_file` drops that error and the export then fails.
* A file's size is never checked by the client and is left out. A malformed
  `collection` string behaves like a root nobody has (`FetchFails`).

### Import and validator

`Import` has the loop of `import_dir`: `Walk` finds the files, and each step
takes a file of the smallest name and adds its entry (`AddFile`) or skips it
(`SkipFile`, not on the allowlist). A file is a sequence of units, and stands
for its own BLAKE3 hash. Names are numbers in the order of `String::cmp`; two
files may have one name, and are then listed in the order `read_dir` gives them.

`Validator` is the process as systemd runs it. `proc` is where `main` is, `at`
the file of `--files`, `dir` the work directory. `SkipPresent` and `Request`
are the two outcomes of HEAD against the file that is there; `Get` truncates;
`Chunk` appends; `StreamEnds` ends the loop; `End` may strike anywhere and
leaves everything as it is; `Start` begins again. `faults` says what else may
happen in a behaviour: the origin moves a file, refuses, gives no length, gives
the length of HEAD's empty body, cuts bodies short without an error, or a
later start has other `--files`. The properties name the faults they allow. An
origin that refuses may refuse HEAD, too, which `fetch_file` takes for no
length; if GET is answered again a moment later, it truncates a file that was
whole and published.
The signature and the registry's answer are `Pipeline`'s, the heartbeat
`Seeding`'s, the key and the token `Deployment`'s matter; here `Publish`
succeeds.

### Deployment

`Deployment` has a step for each step of `deploy.sh` that changes something
another part reads: the key file (`KeepKey`, or `CreateKey` and `WriteKey` of
`keygen`), `trust.toml` (`CreateTrust`, `WriteQuorum` and `Pin`: the shell
truncates it, then writes two commands' output), the shipped key, the
environment file, the two `enable --now`. A run may be interrupted between them and the script run
again, with a new `TOKEN` or the operator's old one. The registry keeps the
token it was started with; the anchor's process goes through
`load_or_create_secret` (`LoadSecret`, `LoadFails`, `NoSecret`,
`CreateSecret`, `WriteSecret`) and publishes or is refused. A file that is
created and not yet written is `Torn`, a `trust.toml` that ends after its first
line is `Bare`: it parses and has no validator. `ClientsAccept` uses the `Verdict` of
`Manifest`. The fetch between the anchor's start and its first look at
`node.key` changes none of this state and is left to `Validator`.

## 3. The runs

| Run | Checks | Instance and why it is enough |
|---|---|---|
| `Keyring` | `TypeOK`, `SignersAreVouchers`, `QuorumTakesKeys`, `ImplementsQuorumRule` | quorum 0..3, up to two entries with repeated ids, a shared or a malformed key; up to three of seven signatures (both members with both keys, undecodable, other bytes, stranger): every pair of early exits in every order. The proofs cover the rest. |
| `Registry` | `TypeOK`, `ListsExactlyTheHeard` | two models, two nodes, time-to-live 2, clock to 5: two windows, rows pruned by the other model's query |
| `Seeding` | `TypeOK`, `KeepListed`, `GoneIsForgotten`, `ImplementsSeederList` | one node that may come back for another of two models, heartbeat 2, latency 1, one loss, clock error 1: silence and clock error are exactly the time-to-live of 9; time to 14 passes silence, expiry and a late announce. Nodes meet only in the pruning, which the two models show; the proofs cover any number. |
| `PipelineUntrusted` | `TypeOK`, `SavedIsComplete`, `ImplementsTrustModel`, `OnlyVouchedTouchesDisk` | two validators, quorum two, a record whose list and collection disagree, a path that may not be removable, answers with up to two signatures |
| `PipelineHonest` | `SavedIsComplete`, `LateFailureHasCause`, `SavedIsRequested`, `QuorumOfOneAccepts`, `GetEndsOrAwaits`, `DownloadAdvances` | two validators that publish one model and replace each other's records (`FewRecords`: each signs one), one client, two models; a folder of two files and one with a name that comes twice and another content under it, so that files of another version are on disk; crashes, torn and failed exports anywhere |
| `Validator` | `TypeOK`, `ImportIsCanonical`, `SteadySigning`, `PublishedIsHeld`, `RecordIsTheOrigin`, `Idempotent`, `AnchorServes`, `AnchorAdvances` | four files, one not allowed, two with one name, one of two units and with two versions (a torn file, a shorter one of another version); lists that are not in the order of the names; two processes that end; every pair of faults |
| `Deployment` | `TypeOK`, `ClientsAccept`, `OneIdentity`, `AnchorIsLetIn`, `TrustStands`, `SeederStaysIfSteady` | two runs of the script, each broken off anywhere, two services that end, three keys (the validator's, the node's, and one too many), every set of faults |
| `KeyringKeys`, `PipelineMisfiled`, `PipelineFederation`, `ValidatorLeftover`, `DeploymentRedeploy` | one violated property each | see section 5 |

Bounds are constants or a constraint: `MaxEntries`, `MaxSignatures`,
`MaxWall`, `MaxTime` (`Bounded`), `MaxEnds`, `MaxRuns`, `FewRecords`. The last
one stops validators and no step of a client, so that it cuts no behaviour in
which a `get` is under way and could go on. Deadlock is checked
where the system cannot stop. It may in the keyring runs (`verify` returns,
and then nothing happens) and in those of `Validator` and `Deployment`: an
anchor that serves, with no fault left to happen, just serves.

`MaxTime` stops time and no other action, so all interleavings within the
horizon are explored; 14 exceeds time-to-live, latency and clock error by
enough for a node to die and be forgotten.

`PROJECT.json` names for every checked property a mutated definition (a
loop that forgets whom it counted, a table that ignores a row it has, a cutoff
one second late, an export that is not awaited, a PUT that keeps another
validator's signatures, a fetch that ends at an error, a key made anew at every run, ...) under which the same run
reports it violated.

### Fairness

Safety runs assume none. `GetEndsOrAwaits` is checked under `FairSpec`: weak
fairness of `Proceed(c)`, what a client does on its own, as tokio keeps polling
the task of the command. Nothing is assumed of the steps in `Await(c)`:
`reqwest::Client::new()` sets no timeout, and whether iroh's downloader gives
up is not in this repository. A request or a download may therefore hang, and
the property says that a `get` ends or waits for ever for just that: for the
registry, or for the seeders while blobs are missing. No fairness is assumed of
validators, seeders, the registry's rows or crashes.

`AnchorServes` is checked under weak fairness of `Run`, one step of the
anchor's process or of systemd: `Restart=always` starts it again, and its
requests end. `SeederStaysIfSteady` assumes weak fairness of the script's
steps (a run that was started is finished or interrupted), of the registry's
restart and of the anchor, for the same reason. systemd's start limit
does not apply: with `RestartSec` of 10 and 3 seconds no unit reaches it. Ends
of processes are bounded by `MaxEnds`, since no one seeds for good who is
killed for ever.

## 4. What is proved

For all values of the constants, under the named assumptions of the modules.

* `KeyringProofs`. Assumed: the keyrings and manifests have the code's types,
  and the malformed text is no key. The inductive invariant says what `keys`
  holds after each entry (for each id seen the key of its last entry), and
  what `signers` holds after each signature (exactly the vouchers so far, no
  repetition). `Len(signers)` is then the cardinality of `Vouchers`, hence
  `VerifyImplementsQuorumRule`; also `LoopCountsVouchers`, `TypeCorrect`.
  `QuorumIsOfKeys` (`QuorumTakesKeys`): where no key has two ids, the ids in
  `signers` have as many different keys. About the rule itself, and through the
  refinement about `verify`: `MoreSignaturesNeverHurt` and
  `SameSignaturesSameVerdict` (order and repetition do not matter).
* `SeedingProofs`. Assumed: the time constants are naturals, the heartbeat
  is not zero. The invariant bounds, for every node that was heard, the age of
  its row by the losses so far and its phase, and, for every row and request,
  the time since its sender was alive. `ServingIsListed` (`KeepListed`)
  holds for every heartbeat, latency, loss bound, clock error and
  time-to-live with `(MaxLost + 1)(Heartbeat + MaxLatency) + MaxLatency +
  2 Skew <= TTL`. `ThreeLostHeartbeats` is that with the code's 120 s and 600 s:
  three lost heartbeats in a row, calls of up to 20 s and a clock that is up to
  10 s off are covered. `DeadIsForgotten` is `GoneIsForgotten`.
  `SeedingIsAList` is the refinement of `SeederList` under the same condition:
  an announce makes a row that even the latest reading lists because the
  time-to-live is at least twice the clock's error, and no tick takes a
  serving node off the list because its row is that young (`UpListed`).
* `RegistryProofs`. Assumed: time-to-live and clock bound are naturals.
  Each row says when its node was last heard, and every node a query of now
  would list has its row; a query deletes only rows that no later query would
  list, because the clock does not go back. Hence `AnswersAreExact`
  (`ListsExactlyTheHeard`).
* `PipelineProofs`. Assumed: each validator has an id and a key, folders and
  hand-signed records are well formed, a signature that was made decodes, and
  the special values are distinct. The invariant (`IInv`): types; every manifest anywhere has a known
  body and signatures that were really made; past the quorum check the
  client's manifest is accepted. Nothing weaker is inductive: acceptance alone
  does not say that the counted signatures exist. Then
  - `PipelineImplementsTrustModel`: the refinement, step by step, for
    any registry, with `AcceptedIsTruth` as its heart (vouchers of an accepted
    manifest are signers in the abstract model);
  - `DiskIsVouched`: every exported file content is vouched for;
  - `DownloadIsComplete`: what is written so far, as an extra inductive part;
  - `LateFailuresHaveACause` (`LateFailureHasCause`): a `get` that fails after
    its blobs have arrived was refused a write, met a file that cannot be
    removed or a name its own record has twice, or had a record that
    `validate` did not make. The inductive part says that a path that is not
    free was either not removable, or was exported by another entry of this
    very record; what earlier runs left is never the cause;
  - `HonestRegistryServesTheModel`: `SavedIsRequested` under `~Untrusted`;
  - `LoneSignaturesNeverSuffice`: under `~Untrusted` and a quorum of two or
    more, no `get` ever succeeds, for any number of validators.
* `DownloadProofs`, on the same invariant.
  - `HonestRecordsAreAccepted` (`QuorumOfOneAccepts`): at an honest registry
    each record carries a signature of its own validator (`OneKeyInv`), so a
    quorum of one with all validators pinned refuses none. With
    `LoneSignaturesNeverSuffice` this draws the line between one and two.
  - `AQuorumOutvotesTheBad`: if fewer ids than the quorum are in bad hands,
    what a client saved was also signed under an id that is not, whatever
    registry and seeders do. This is what a quorum is for.
  - `DownloadsAdvance` (`DownloadAdvances`): every step that touches a client in
    a `get` brings it to a later stage or leaves strictly less to fetch, to
    clear or to export; no step of any node takes it back. This is the
    safety half of `GetEndsOrAwaits`: a client that moves gets nearer to its end.

* `ValidatorProofs`. Assumed: names are numbers, which may coincide, contents
  are sequences of units, `Absent` is none. `ImportListsTheDirectory`: at each
  step a bijection takes the entries made to the allowed files that are not to
  do any more, and the entries do not descend and do not come after the files
  to do. For the others the
  invariant says that each file in the work directory is a prefix of what the
  origin serves -- a prefix of the same size is the whole file, so that a skip
  is right -- and that the files of the list before the one being fetched are
  whole (`SteadySignsTheOrigin`). `TheRecordIsComplete` (`RecordIsTheOrigin`):
  what is published is the origin's files in `--files`, none left out. A
  restart in an outage may truncate one of them, but it imports, and its node
  comes up, only when all of them are whole again; together this is
  `AnchorHoldsItsRecord` (`PublishedIsHeld`). `RestartsAreIdempotent`
  (`Idempotent`): where the names in `--files` differ, every publish puts those
  entries strictly ascending, and two such lists of the same entries are one
  list (`AscendingIsUnique`, by the least index at which they differ). The same
  lemma gives `SameFilesSameRecord`: where names differ, what `import_dir` ends
  with is the only list of the allowed files in their order. With two files of
  one name the record may change at a restart: TLC finds `Idempotent` without
  `NamesDiffer` violated.
  `AnchorGetsOn` (`AnchorAdvances`): each step of the process leads to a later
  phase, a later file, a longer partial file or fewer files to import; an
  import always finds an allowed file because the files fetched in this run
  are still there (`KeptInv`).
* `DeploymentProofs`. Assumed: the special values are distinct, keys decode.
  Once `trust.toml` is there the key file holds a key and is never written
  again; what is pinned, what is shipped and what signed is that key, and a
  keyring of one accepts it (`OnePinnedKey`), while one without a member
  accepts nothing (`NoPinnedKey`). While `trust.toml` is being written nothing
  has been shipped, so that only a run that was broken off leaves a published
  record and no pinned key: `TheBoxIsAccepted`. `IdentityIsStable`: an identity is
  reachable only after `node.key` holds it, and a file that exists is not
  written again. `TrustIsForGood` (`TrustStands`): the steps that write
  `trust.toml` are only taken while it pins no key. `SteadyAnchorIsLetIn`
  (`AnchorIsLetIn`): without a redeploy or a torn key, the token a running
  registry asks for is the one the anchor's environment has (`BoxInv`), however
  often runs are broken off and services end.

Only model-checked: the liveness properties `GetEndsOrAwaits`, `AnchorServes` and
`SeederStaysIfSteady`, since fairness and ENABLED are beyond the prover. Their
safety halves are proved: `DownloadAdvances` and `AnchorAdvances` (no step goes
back), `AnchorIsLetIn` (no running registry refuses a start). What is left to
TLC is that a step is always possible, and that finitely many suffice. So are
the five violated properties, of which counterexamples are the point.

## 5. Where the code and its documents disagree

1. **A quorum counts ids, not keys** (`KeyringKeys`). One key under two ids of
   a keyring is a quorum of two; `docs/trust-model.md:47` speaks of stealing N keys.
   By `QuorumIsOfKeys` the document is right where no key has two ids.
2. **A wrong registry can give the wrong model** (`PipelineMisfiled`). `get`
   never compares the manifest's name with the one it asked for;
   `docs/roles/registry.md:14-15` says a lying registry cannot cause a bad
   download. By `HonestRegistryServesTheModel` this is the registry's doing only.
3. **A federation is never heard** (`PipelineFederation`). Each validator
   publishes its signature alone and replaces the record;
   `docs/trust-model.md:51` promises growth to a federation without code
   change, `docs/roles/validator.md:12` a multi-signed record. A quorum of
   one works (`HonestRecordsAreAccepted`).
4. **A broken fetch is signed** (`ValidatorLeftover`). A fetch that is cut off
   leaves its partial file under the final name. A start that no longer lists
   the file imports and signs it with the rest of the work directory;
   `docs/roles/validator.md:9-11` and `docs/trust-model.md:10` say that
   what is fetched from the origin is signed. By `SteadySignsTheOrigin` it takes
   a changed `--files` (or origin, or wrong lengths).
5. **A second deploy stops the anchor at its next restart**
   (`DeploymentRedeploy`). A new token reaches the environment file but not the
   running registry, which goes on asking for the old one; `deploy.sh:10` says
   "Re-runnable / idempotent", `deploy/README.md:9` "Guarantees >= 1 seeder". By
   `SeederStaysIfSteady` nothing but a redeploy or a torn `node.key` or
   `validator.key` stops it for good, and by `SteadyAnchorIsLetIn` none of its
   starts meets a refusal by a running registry.

Seen while modelling and not the subject of a run:

* `docs/roles/registry.md:43` gives the seeder query with 300 seconds,
  `SEEDER_TTL_SECS` is 600.
* The quick start of the top-level README (lines 108-110) runs `keygen` twice, for
  the key file and for the keyring entry; each call generates a key, so the
  two never match. `deploy.sh` uses one call and is right.
* `fetch_file` takes the length of a HEAD response from `content_length()`. If the
  HTTP library answers with the size of that response's (empty) body, whole files
  are never skipped and an empty partial file is: the fault "bodiless".
  `SteadySigning` and `PublishedIsHeld` do not hold under it.
* A `deploy.sh` that is interrupted between `keygen` and the end of line 44
  never writes `trust.toml` again: later runs find the key and skip the block.
  Clients are left without the file, with one that does not parse, or with one
  that pins no key and refuses everything (`ClientsAccept`), although
  `deploy.sh:10` says "Re-runnable / idempotent" and line 46 names the file.
* Two files whose names differ in a backslash and a slash, or in bytes that
  are not UTF-8, get one name (`collection.rs:65-69`). `validate` signs the
  record, and no `get` of it succeeds: the second entry's export meets the file
  of the first (`LateFailureHasCause`).
* A registry that accepts a request and never answers holds a `get`, a publish
  or a heartbeat for ever: no timeout is set (`registry.rs:27`).
* While the origin is down the anchor cannot restart, although it holds the
  model: `fetch_file` runs first and its error ends `main`.

## 6. Not modelled, and what is left

Left out for good: JSON, TOML and hex syntax, logging, progress bars, SQL
errors, relay and hole punching (iroh), byte-range verification inside
iroh-blobs (a blob is its hash), `core/hash.rs` (no other crate calls it), the
read-only commands (`peers`, `ticket_for`, `has_collection`), the build,
firewall and relay steps of `deploy.sh`, the landing page.

What a further extension would take up:

1. `Seeding` and `Pipeline` in one model, so that a `get` meets the table
   itself; now they meet through `SeederList`.
2. Two processes on one data directory that both make a first `node.key`
   (`lib.rs:271`): needs the blob store's lock, which is iroh's.
3. Files that change while they are imported (`collection.rs:39`), once it is
   known what a linked blob store does then.
