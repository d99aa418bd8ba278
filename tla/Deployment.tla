--------------------------- MODULE Deployment ---------------------------
(***************************************************************************)
(* One box (deploy/deploy.sh and the systemd units): the script makes a    *)
(* validator key and the clients' trust.toml, ships key and environment,   *)
(* and enables the registry and the anchor; systemd restarts both on       *)
(* whatever files and environment they then find.  The script may be       *)
(* interrupted and run again, the services may end at any point.           *)
(*                                                                         *)
(* Secret keys stand for their public keys and node ids.  What the anchor  *)
(* fetches and signs is Validator.tla's matter.                            *)
(***************************************************************************)
EXTENDS Manifest

CONSTANTS
    ValidatorId,    \* --id of the units and of `bitmodel keygen'
    FaultSets,      \* sets of faults that may come together, see Init
    MaxRuns,        \* bound on runs of the script
    MaxEnds,        \* bound on services that end while they work
    Absent,         \* a file that is not there
    Torn,           \* a file that was created and not written
    Bare,           \* a trust.toml that ends after `quorum = 1'
    Down            \* a service that does not run

(***************************************************************************)
(* Where the anchor's process is: load_or_create_secret, then publish.     *)
(***************************************************************************)
Working == {"starting", "generating", "creating", "publishing", "serving"}

(***************************************************************************)
(* The anchor's record before it is signed; see Validator.tla for what is  *)
(* in it.                                                                  *)
(***************************************************************************)
Unsigned == [signatures |-> <<>>]

ASSUME DeploymentAssumption ==
    /\ ValidatorId \in Ids
    /\ MaxRuns \in Nat
    /\ MaxEnds \in Nat
    /\ Malformed \notin Keys
    /\ \A k \in Keys : Decodes([key |-> k, msg |-> Unsigned])
    /\ {Absent, Torn, Bare} \cap Keys = {}
    /\ Absent # Torn /\ Absent # Bare /\ Torn # Bare
    /\ Down \notin Nat \cup Working

VARIABLES
    faults,     \* what may go wrong in this behaviour
    script,     \* where deploy.sh is
    runs,       \* runs started so far
    token,      \* TOKEN of the run
    key,        \* deploy/keys/validator.key
    trust,      \* trust.toml: the key it pins, or Bare, Torn or Absent
    deployed,   \* a run has come to its end
    shipped,    \* /opt/bitmodel/keys/validator.key
    env,        \* the token in /etc/bitmodel.env, 0 when there is no such file
    enabled,    \* the units enabled so far
    registry,   \* the token the running registry asks for, or Down
    anchor,     \* where the anchor's process is, or Down
    bearer,     \* the token the anchor's process was started with
    nodekey,    \* node.key in the anchor's data directory
    nodeid,     \* the identity of the anchor's process
    known,      \* the identities under which the anchor was ever reachable
    published,  \* the key that signed the registry's record, or Absent
    used,       \* the keys generated so far
    ends        \* services ended so far

desk == <<script, runs, token, key, trust, deployed>>
box == <<shipped, env, enabled>>
node == <<nodekey, nodeid, known>>
vars == <<faults, desk, box, registry, anchor, bearer, node, published, used, ends>>

TypeOK ==
    /\ faults \in FaultSets
    /\ script \in {"idle", "key", "creating", "written", "truncated", "quorum",
                   "keyed", "shipped", "installed", "registry"}
    /\ runs \in 0 .. MaxRuns
    /\ {token, env, bearer} \subseteq 0 .. MaxRuns
    /\ {key, shipped, nodekey} \subseteq used \cup {Absent, Torn}
    /\ trust \in used \cup {Absent, Torn, Bare}
    /\ {nodeid, published} \subseteq used \cup {Absent}
    /\ deployed \in BOOLEAN
    /\ enabled \subseteq {"registry", "anchor"}
    /\ registry \in 0 .. MaxRuns \cup {Down}
    /\ anchor \in Working \cup {Down}
    /\ known \subseteq used /\ used \subseteq Keys
    /\ ends \in 0 .. MaxEnds

(***************************************************************************)
(* What may go wrong besides services that end:                            *)
(*   "redeploy"     the script runs again while its registry is up         *)
(*   "interrupted"  a run is broken off                                    *)
(*   "torn"         something ends between creating a key file and         *)
(*                  writing it                                             *)
(***************************************************************************)
Init ==
    /\ faults \in FaultSets
    /\ script = "idle" /\ runs = 0 /\ token = 0
    /\ key = Absent /\ trust = Absent /\ deployed = FALSE
    /\ shipped = Absent /\ env = 0 /\ enabled = {}
    /\ registry = Down /\ anchor = Down /\ bearer = 0
    /\ nodekey = Absent /\ nodeid = Absent /\ known = {}
    /\ published = Absent /\ used = {} /\ ends = 0

At(p, q) == script = p /\ script' = q

(***************************************************************************)
(* ValidatorKey::generate, SecretKey::generate: a key nobody has.          *)
(***************************************************************************)
Generate(k) == k \in Keys \ used /\ used' = used \cup {k}
-----------------------------------------------------------------------------
(***************************************************************************)
(* deploy.sh.  TOKEN is random, unless the operator sets it: then it is    *)
(* the one of the run before.                                              *)
(***************************************************************************)
StartRun ==
    /\ At("idle", "key")
    /\ runs < MaxRuns
    /\ "registry" \notin enabled \/ "redeploy" \in faults
    /\ runs' = runs + 1
    /\ token' \in {runs + 1} \cup ({token} \ {0})
    /\ UNCHANGED <<faults, key, trust, deployed, box, registry, anchor, bearer,
                   node, published, used, ends>>

KeyFileExists == key # Absent

(***************************************************************************)
(* Mutant: every run makes a key.                                          *)
(***************************************************************************)
KeyFileIgnored == FALSE

KeyFileFound == KeyFileExists

KeepKey ==
    /\ At("key", "keyed")
    /\ KeyFileFound
    /\ UNCHANGED <<faults, runs, token, key, trust, deployed, box, registry, anchor,
                   bearer, node, published, used, ends>>

(***************************************************************************)
(* bitmodel keygen: create the file, then write the secret into it.        *)
(***************************************************************************)
CreateKey ==
    /\ At("key", "creating")
    /\ ~KeyFileFound
    /\ key' = Torn
    /\ UNCHANGED <<faults, runs, token, trust, deployed, box, registry, anchor,
                   bearer, node, published, used, ends>>

WriteKey ==
    /\ At("creating", "written")
    /\ \E k \in Keys : Generate(k) /\ key' = k
    /\ UNCHANGED <<faults, runs, token, trust, deployed, box, registry, anchor,
                   bearer, node, published, ends>>

(***************************************************************************)
(* trust.toml is truncated, then gets the quorum, then the [[validator]]   *)
(* block that keygen printed.  As the key exists by now, a later run comes *)
(* here no more (KeepKey), whatever this one has written.                  *)
(***************************************************************************)
WriteTrust(content) ==
    /\ trust' = content
    /\ UNCHANGED <<faults, runs, token, key, deployed, box, registry, anchor,
                   bearer, node, published, used, ends>>

CreateTrust == At("written", "truncated") /\ WriteTrust(Torn)

WriteQuorum == At("truncated", "quorum") /\ WriteTrust(Bare)

Pin == At("quorum", "keyed") /\ WriteTrust(key)

Ship ==
    /\ At("keyed", "shipped")
    /\ shipped' = key
    /\ UNCHANGED <<faults, runs, token, key, trust, deployed, env, enabled, registry,
                   anchor, bearer, node, published, used, ends>>

InstallEnv ==
    /\ At("shipped", "installed")
    /\ env' = token
    /\ UNCHANGED <<faults, runs, token, key, trust, deployed, shipped, enabled,
                   registry, anchor, bearer, node, published, used, ends>>

(***************************************************************************)
(* systemctl enable --now: a unit that runs already is left alone.  The    *)
(* anchor's Requires= and After= have the registry started before it.      *)
(***************************************************************************)
EnableRegistry ==
    /\ At("installed", "registry")
    /\ enabled' = enabled \cup {"registry"}
    /\ registry' = IF registry = Down THEN env ELSE registry
    /\ UNCHANGED <<faults, runs, token, key, trust, deployed, shipped, env, anchor,
                   bearer, node, published, used, ends>>

EnableAnchor ==
    /\ At("registry", "idle")
    /\ registry # Down
    /\ enabled' = enabled \cup {"anchor"}
    /\ deployed' = TRUE
    /\ IF anchor = Down
       THEN anchor' = "starting" /\ bearer' = env
       ELSE UNCHANGED <<anchor, bearer>>
    /\ UNCHANGED <<faults, runs, token, key, trust, shipped, env, registry, node,
                   published, used, ends>>

Interrupt ==
    /\ script # "idle"
    /\ "interrupted" \in faults
    /\ script = "creating" => "torn" \in faults
    /\ script' = "idle"
    /\ UNCHANGED <<faults, runs, token, key, trust, deployed, box, registry, anchor,
                   bearer, node, published, used, ends>>
-----------------------------------------------------------------------------
(***************************************************************************)
(* The services.  systemd reads the environment file at every start.       *)
(* Mutant: a start of the registry without it.                             *)
(***************************************************************************)
RegistryStartsBare ==
    /\ registry = Down
    /\ "registry" \in enabled
    /\ registry' = 0
    /\ UNCHANGED <<faults, desk, box, anchor, bearer, node, published, used, ends>>

RegistryStarts ==
    /\ registry = Down
    /\ "registry" \in enabled
    /\ registry' = env
    /\ UNCHANGED <<faults, desk, box, anchor, bearer, node, published, used, ends>>

RegistryEnds ==
    /\ registry # Down
    /\ ends < MaxEnds
    /\ ends' = ends + 1
    /\ registry' = Down
    /\ UNCHANGED <<faults, desk, box, anchor, bearer, node, published, used>>

(***************************************************************************)
(* Restart=always.  Mutant: an anchor that has run is not started again.   *)
(***************************************************************************)
AnchorStartsOnce ==
    /\ anchor = Down
    /\ "anchor" \in enabled
    /\ registry # Down
    /\ known = {}
    /\ anchor' = "starting"
    /\ bearer' = env
    /\ UNCHANGED <<faults, desk, box, registry, node, published, used, ends>>

AnchorStarts ==
    /\ anchor = Down
    /\ "anchor" \in enabled
    /\ registry # Down
    /\ anchor' = "starting"
    /\ bearer' = env
    /\ UNCHANGED <<faults, desk, box, registry, node, published, used, ends>>

AnchorEnds ==
    /\ anchor # Down
    /\ anchor = "creating" => "torn" \in faults
    /\ ends < MaxEnds
    /\ ends' = ends + 1
    /\ anchor' = Down
    /\ nodeid' = Absent
    /\ UNCHANGED <<faults, desk, box, registry, bearer, nodekey, known, published, used>>

(***************************************************************************)
(* load_or_create_secret: read node.key when it exists -- one that does    *)
(* not decode is an error --, else make one, create the file and write it. *)
(***************************************************************************)
Reachable(k) == nodeid' = k /\ known' = known \cup {k}

(***************************************************************************)
(* Mutant: a file that does not decode is used all the same.               *)
(***************************************************************************)
LoadSecretUnchecked ==
    /\ anchor = "starting"
    /\ nodekey # Absent
    /\ anchor' = "publishing"
    /\ Reachable(nodekey)
    /\ UNCHANGED <<faults, desk, box, registry, bearer, nodekey, published, used, ends>>

LoadSecret ==
    /\ anchor = "starting"
    /\ nodekey \in Keys
    /\ anchor' = "publishing"
    /\ Reachable(nodekey)
    /\ UNCHANGED <<faults, desk, box, registry, bearer, nodekey, published, used, ends>>

LoadFails ==
    /\ anchor = "starting"
    /\ nodekey = Torn
    /\ anchor' = Down
    /\ UNCHANGED <<faults, desk, box, registry, bearer, node, published, used, ends>>

NoSecret ==
    /\ anchor = "starting"
    /\ nodekey = Absent
    /\ anchor' = "generating"
    /\ UNCHANGED <<faults, desk, box, registry, bearer, node, published, used, ends>>

(***************************************************************************)
(* Mutant: the endpoint is bound before the secret is saved.               *)
(***************************************************************************)
CreateSecretLate ==
    /\ anchor = "generating"
    /\ anchor' = "publishing"
    /\ \E k \in Keys : Generate(k) /\ Reachable(k)
    /\ UNCHANGED <<faults, desk, box, registry, bearer, nodekey, published, ends>>

CreateSecret ==
    /\ anchor = "generating"
    /\ anchor' = "creating"
    /\ nodekey' = Torn
    /\ UNCHANGED <<faults, desk, box, registry, bearer, nodeid, known, published,
                   used, ends>>

WriteSecret ==
    /\ anchor = "creating"
    /\ anchor' = "publishing"
    /\ \E k \in Keys : Generate(k) /\ nodekey' = k /\ Reachable(k)
    /\ UNCHANGED <<faults, desk, box, registry, bearer, published, ends>>

(***************************************************************************)
(* from_secret_hex, then PUT with the bearer token; then serve_forever().  *)
(***************************************************************************)
Publishable == shipped \in Keys /\ registry = bearer

Publish ==
    /\ anchor = "publishing"
    /\ Publishable
    /\ published' = shipped
    /\ anchor' = "serving"
    /\ UNCHANGED <<faults, desk, box, registry, bearer, node, used, ends>>

PublishFails ==
    /\ anchor = "publishing"
    /\ ~Publishable
    /\ anchor' = Down
    /\ nodeid' = Absent
    /\ UNCHANGED <<faults, desk, box, registry, bearer, nodekey, known, published,
                   used, ends>>

Script ==
    \/ KeepKey \/ CreateKey \/ WriteKey \/ CreateTrust \/ WriteQuorum \/ Pin
    \/ Ship \/ InstallEnv \/ EnableRegistry \/ EnableAnchor

Anchor ==
    \/ AnchorStarts
    \/ LoadSecret \/ LoadFails \/ NoSecret \/ CreateSecret \/ WriteSecret
    \/ Publish \/ PublishFails

Next ==
    \/ StartRun \/ Script \/ Interrupt
    \/ RegistryStarts \/ RegistryEnds
    \/ Anchor \/ AnchorEnds

Spec == Init /\ [][Next]_vars

FairSpec ==
    /\ Spec
    /\ WF_vars(Script)
    /\ WF_vars(RegistryStarts)
    /\ WF_vars(Anchor)
-----------------------------------------------------------------------------
(***************************************************************************)
(* The keyring of trust.toml, where that parses (a torn one has no quorum, *)
(* which has no default), and the anchor's signed record.                  *)
(***************************************************************************)
TrustToml ==
    [quorum |-> 1,
     validators |-> IF trust = Bare THEN <<>>
                    ELSE <<[id |-> ValidatorId, key |-> trust]>>]

SignedRecord ==
    [signatures |-> <<SignManifest(ValidatorId, published, Unsigned)>>]

(***************************************************************************)
(* deploy.sh prints "Clients use: ... trust: deploy/trust.toml".  Unless a *)
(* run is broken off, that file is there and pins a key whenever the       *)
(* registry holds a record.  One that pins a key accepts the record,       *)
(* whatever is broken off, run again or restarted; one that a broken run   *)
(* has left without a key refuses it, for good: later runs keep the file.  *)
(***************************************************************************)
ClientsAccept ==
    published # Absent =>
        /\ "interrupted" \notin faults => trust \in Keys
        /\ trust \in Keys => Verdict(TrustToml, SignedRecord) = "accepted"
        /\ trust = Bare => Verdict(TrustToml, SignedRecord) = "rejected"

(***************************************************************************)
(* Node::spawn: "load/generate a stable secret key".  The anchor is only   *)
(* ever reachable under one node id, wherever a first start breaks off.    *)
(***************************************************************************)
OneIdentity == \A k \in known : nodekey = k /\ (nodeid # Absent => nodeid = k)

(***************************************************************************)
(* A client copies trust.toml once.  A file that pins a key is never       *)
(* written again, and the box never publishes under another key, so a copy *)
(* that pins a key is good for the records of all later runs and restarts. *)
(***************************************************************************)
TrustStands ==
    [][/\ trust \in Keys => trust' = trust
       /\ published # Absent => published' = published]_vars

(***************************************************************************)
(* Why systemd's restarts bring the anchor back: no start of it finds a    *)
(* node.key that does not decode, and a registry that is up takes its      *)
(* token and its record -- unless a key file is torn or the script is run  *)
(* again under a registry that is up, and also when runs of the script are *)
(* broken off before.                                                      *)
(***************************************************************************)
AnchorIsLetIn ==
    faults \cap {"redeploy", "torn"} = {} =>
        /\ anchor = "starting" => nodekey # Torn
        /\ anchor = "publishing" /\ registry # Down => Publishable

(***************************************************************************)
(* deploy/README.md: the anchor "Guarantees >= 1 seeder"; deploy.sh:       *)
(* "Re-runnable / idempotent".  Once a run has come to its end the anchor  *)
(* serves for good, as services end finitely often.                        *)
(***************************************************************************)
SeederStays == <>[](deployed => anchor = "serving")

(***************************************************************************)
(* It does when no key file is torn and the script is not run again under  *)
(* a registry that is up.                                                  *)
(***************************************************************************)
SeederStaysIfSteady == faults \cap {"redeploy", "torn"} = {} => SeederStays
=========================================================================
