--------------------------- MODULE Validator ----------------------------
(***************************************************************************)
(* The validator's auto-script (validator/src/main.rs) as systemd runs it  *)
(* (deploy/bitmodel-anchor.service): fetch the files of --files from the   *)
(* origin into the work directory, import the directory, sign and publish  *)
(* the manifest, and seed until the process ends -- then start again, on   *)
(* whatever the work directory holds by then.                              *)
(*                                                                         *)
(* Nobody else writes to the work directory.                               *)
(***************************************************************************)
EXTENDS Import, Functions

CONSTANTS
    Contents,   \* file |-> the contents the origin may serve
    ArgLists,   \* the values --files may have
    FaultSets,  \* sets of faults that may come together, see Init
    MaxEnds     \* bound on the times a process ends before its work is done

ASSUME ValidatorAssumption ==
    /\ Contents \in [Files -> SUBSET Seq(Units)]
    /\ ArgLists \subseteq Seq(Files)
    /\ MaxEnds \in Nat

VARIABLES
    faults,     \* what may go wrong in this behaviour
    origin,     \* file |-> the content the origin serves
    past,       \* file |-> the contents it has ever served
    proc,       \* where main() is
    args,       \* --files
    at,         \* the file of args that is being fetched
    body,       \* what GET answers
    dir,        \* the work directory: file |-> its bytes, or Absent
    published,  \* the files of the registry's record; <<>> when there is none
    ends        \* processes ended so far

AllContents == UNION {Contents[f] : f \in Files}

world == <<faults, origin, past>>
vars == <<faults, origin, past, proc, args, at, body, dir, published, ends, todo, out>>

TypeOK ==
    /\ ImportOK
    /\ faults \in FaultSets
    /\ origin \in [Files -> AllContents]
    /\ past \in [Files -> SUBSET AllContents]
    /\ proc \in {"down", "heading", "getting", "writing", "importing", "serving"}
    /\ args \in ArgLists
    /\ at \in Nat \ {0}
    /\ proc \in {"getting", "writing"} => at <= Len(args)
    /\ proc = "writing" => dir[args[at]] # Absent
    /\ body \in Seq(Units)
    /\ dir \in [Files -> Seq(Units) \cup {Absent}]
    /\ published \in Seq(Entry)
    /\ ends \in 0 .. MaxEnds
    /\ proc = "importing" => todo \subseteq Present(dir)

(***************************************************************************)
(* What may go wrong besides the end of the process:                       *)
(*   "moves"     the origin replaces a file                                *)
(*   "gone"      the origin refuses requests, HEAD or GET                  *)
(*   "headless"  HEAD alone fails or gives no length                       *)
(*   "bodiless"  HEAD's length is that of its (empty) body                 *)
(*   "unframed"  a GET that is cut short ends without an error             *)
(*   "relisted"  a later start has another --files                         *)
(***************************************************************************)
Init ==
    /\ faults \in FaultSets
    /\ origin \in {o \in [Files -> AllContents] : \A f \in Files : o[f] \in Contents[f]}
    /\ past = [f \in Files |-> {origin[f]}]
    /\ proc = "down"
    /\ args \in ArgLists
    /\ at = 1
    /\ body = <<>>
    /\ dir = [f \in Files |-> Absent]
    /\ published = <<>>
    /\ ends = 0
    /\ todo = {}
    /\ out = <<>>
-----------------------------------------------------------------------------
(***************************************************************************)
(* main(): parse the arguments, refuse an empty --files, fetch each file.  *)
(***************************************************************************)
Start(a) ==
    /\ proc = "down"
    /\ a # <<>>
    /\ a = args \/ "relisted" \in faults
    /\ proc' = "heading"
    /\ args' = a
    /\ at' = 1
    /\ UNCHANGED <<world, body, dir, published, ends, import>>

(***************************************************************************)
(* HEAD: the length of the remote file as fetch_file comes to see it; a    *)
(* request that fails is no length (.ok()), and GET may be answered again. *)
(***************************************************************************)
NoLength == -1

RemoteLengths(f) ==
    {Len(origin[f])}
        \cup {NoLength : x \in faults \cap {"gone", "headless"}}
        \cup {0 : x \in faults \cap {"bodiless"}}

(***************************************************************************)
(* Mutant: a file that is there is taken for complete.                     *)
(***************************************************************************)
SameSizeIgnored(f, len) == dir[f] # Absent

SameSize(f, len) == dir[f] # Absent /\ Len(dir[f]) = len

Fetching == proc = "heading" /\ at <= Len(args)

SkipPresent ==
    /\ Fetching
    /\ \E len \in RemoteLengths(args[at]) : SameSize(args[at], len)
    /\ at' = at + 1
    /\ UNCHANGED <<world, proc, args, body, dir, published, ends, import>>

Request ==
    /\ Fetching
    /\ \E len \in RemoteLengths(args[at]) : ~SameSize(args[at], len)
    /\ proc' = "getting"
    /\ UNCHANGED <<world, args, at, body, dir, published, ends, import>>

(***************************************************************************)
(* GET succeeds, and File::create leaves the file empty.                   *)
(***************************************************************************)
Get ==
    /\ proc = "getting"
    /\ proc' = "writing"
    /\ body' = origin[args[at]]
    /\ dir' = [dir EXCEPT ![args[at]] = <<>>]
    /\ UNCHANGED <<world, args, at, published, ends, import>>

GetRefused ==
    /\ proc = "getting"
    /\ "gone" \in faults
    /\ proc' = "down"
    /\ UNCHANGED <<world, args, at, body, dir, published, ends, import>>

Written == Len(dir[args[at]])

Chunk ==
    /\ proc = "writing"
    /\ Written < Len(body)
    /\ dir' = [dir EXCEPT ![args[at]] = Append(@, body[Written + 1])]
    /\ UNCHANGED <<world, proc, args, at, body, published, ends, import>>

(***************************************************************************)
(* The loop over the body's chunks ends: at the end of the body, or, when  *)
(* the answer carries no length, where the connection was lost.            *)
(* Mutants: an error between two chunks ends the loop as well; a file that *)
(* was written is looked at once more.                                     *)
(***************************************************************************)
StreamRepeats ==
    /\ proc = "writing"
    /\ Written = Len(body) \/ "unframed" \in faults
    /\ proc' = "heading"
    /\ UNCHANGED <<world, args, at, body, dir, published, ends, import>>

StreamStops ==
    /\ proc = "writing"
    /\ proc' = "heading"
    /\ at' = at + 1
    /\ UNCHANGED <<world, args, body, dir, published, ends, import>>

StreamEnds ==
    /\ proc = "writing"
    /\ Written = Len(body) \/ "unframed" \in faults
    /\ proc' = "heading"
    /\ at' = at + 1
    /\ UNCHANGED <<world, args, body, dir, published, ends, import>>

(***************************************************************************)
(* seed_dir of the node: import the work directory; nothing to import is   *)
(* an error.  Mutant: the import begins before the last file is fetched.   *)
(***************************************************************************)
WalkEarly ==
    /\ proc = "heading"
    /\ at >= Len(args)
    /\ proc' = "importing"
    /\ Walk(dir)
    /\ UNCHANGED <<world, args, at, body, dir, published, ends>>

WalkWork ==
    /\ proc = "heading"
    /\ at > Len(args)
    /\ proc' = "importing"
    /\ Walk(dir)
    /\ UNCHANGED <<world, args, at, body, dir, published, ends>>

ImportFile ==
    /\ proc = "importing"
    /\ \E f \in todo : SkipFile(f) \/ AddFile(f, dir)
    /\ UNCHANGED <<world, proc, args, at, body, dir, published, ends>>

NothingToImport ==
    /\ proc = "importing"
    /\ todo = {}
    /\ out = <<>>
    /\ proc' = "down"
    /\ UNCHANGED <<world, args, at, body, dir, published, ends, import>>

(***************************************************************************)
(* validate_and_publish: sign the record and replace the registry's; the   *)
(* registry accepts the token.  Then the anchor announces and serves.      *)
(* Mutant: a registry that refuses a record it already has.                *)
(***************************************************************************)
PublishOnce ==
    /\ proc = "importing"
    /\ todo = {}
    /\ out # <<>>
    /\ published = <<>>
    /\ published' = out
    /\ proc' = "serving"
    /\ UNCHANGED <<world, args, at, body, dir, ends, import>>

Publish ==
    /\ proc = "importing"
    /\ todo = {}
    /\ out # <<>>
    /\ published' = out
    /\ proc' = "serving"
    /\ UNCHANGED <<world, args, at, body, dir, ends, import>>

(***************************************************************************)
(* A `?' that fails, a crash, a reboot or Ctrl-C: the work directory and   *)
(* the registry's record stay as they are.                                 *)
(***************************************************************************)
End ==
    /\ proc # "down"
    /\ ends < MaxEnds
    /\ ends' = ends + 1
    /\ proc' = "down"
    /\ UNCHANGED <<world, args, at, body, dir, published, import>>

OriginMoves(f) ==
    /\ "moves" \in faults
    /\ \E c \in Contents[f] \ past[f] :
          /\ origin' = [origin EXCEPT ![f] = c]
          /\ past' = [past EXCEPT ![f] = @ \cup {c}]
    /\ UNCHANGED <<faults, proc, args, at, body, dir, published, ends, import>>

(***************************************************************************)
(* One step of the process or of systemd, which restarts it.               *)
(***************************************************************************)
Run ==
    \/ \E a \in ArgLists : Start(a)
    \/ SkipPresent
    \/ Request
    \/ Get
    \/ GetRefused
    \/ Chunk
    \/ StreamEnds
    \/ WalkWork
    \/ ImportFile
    \/ NothingToImport
    \/ Publish

Next ==
    \/ Run
    \/ End
    \/ \E f \in Files : OriginMoves(f)

Spec == Init /\ [][Next]_vars

FairSpec == Spec /\ WF_vars(Run)
-----------------------------------------------------------------------------
(***************************************************************************)
(* What is signed is the directory and nothing else: an import that is     *)
(* done lists every allowed file once, with its length and its hash, in    *)
(* the order of the names, although read_dir has no order.  Two files may  *)
(* have one name (`a\b' and `a/b'); both are listed then.                  *)
(***************************************************************************)
ImportIsCanonical ==
    (proc = "importing" /\ todo = {}) \/ proc = "serving" =>
        /\ \A i, j \in 1 .. Len(out) : i < j => out[i].path <= out[j].path
        /\ \E listed \in Bijection(1 .. Len(out), Present(dir) \cap Allowed) :
              \A i \in 1 .. Len(out) : out[i] = EntryOf(listed[i], dir)

(***************************************************************************)
(* docs/trust-model.md: a validator fetches the model from origin, hashes  *)
(* it and signs that record.  So every entry of the published record is a  *)
(* file as the origin served it, whole.                                    *)
(***************************************************************************)
SignedIsServed ==
    \A i \in 1 .. Len(published) :
        \E f \in Allowed : \E c \in past[f] :
            published[i] = [path |-> Rel[f], size |-> Len(c), blake3 |-> c]

(***************************************************************************)
(* As long as --files and the origin's files stay the same and lengths are *)
(* true, only whole files of the origin are ever signed, wherever fetches  *)
(* are broken off and however often the script starts again.               *)
(***************************************************************************)
SteadySigning == faults \subseteq {"gone", "headless"} => SignedIsServed

(***************************************************************************)
(* And nothing is left out: under the same conditions the record is that   *)
(* of all files of --files that may be listed, as the origin serves them.  *)
(***************************************************************************)
RecordIsTheOrigin ==
    faults \subseteq {"gone", "headless"} /\ published # <<>> =>
        {published[i] : i \in 1 .. Len(published)} =
            {EntryOf(f, origin) : f \in {args[i] : i \in 1 .. Len(args)} \cap Allowed}

(***************************************************************************)
(* Whenever the anchor's node is up -- main() spawns it after the last     *)
(* fetch -- each file that the registry lists for the model lies whole in  *)
(* the work directory, in which the blob store links it.  A restart in an  *)
(* outage may find no length, truncate a published file and end before it  *)
(* is written again: then no node comes up until it is whole.              *)
(***************************************************************************)
PublishedIsHeld ==
    faults \subseteq {"gone", "headless"} /\ proc \in {"importing", "serving"} =>
        \A i \in 1 .. Len(published) :
            \E f \in Present(dir) : published[i] = EntryOf(f, dir)

(***************************************************************************)
(* bitmodel-anchor.service: "Idempotent across restarts".  A restart never *)
(* changes the record, unless --files or the origin's files have changed,  *)
(* lengths are wrong, or two of --files have one name in the record: their *)
(* entries come in the order that read_dir gives them.                     *)
(***************************************************************************)
NamesDiffer ==
    \A i, j \in 1 .. Len(args) : Rel[args[i]] = Rel[args[j]] => args[i] = args[j]

Idempotent ==
    [][/\ faults \subseteq {"gone", "headless"} /\ NamesDiffer
       /\ published # <<>>
       => published' = published]_published

(***************************************************************************)
(* Why it does: unless the origin refuses requests, each step between two  *)
(* ends of the process -- on whatever the earlier ones left, and whatever  *)
(* HEAD says or GET leaves out -- brings it closer to seeding.  It never   *)
(* fetches a file twice in one run, and an import that may list a file     *)
(* never ends with nothing to publish.                                     *)
(***************************************************************************)
Phase == [down |-> 0, heading |-> 1, getting |-> 1, writing |-> 1,
          importing |-> 2, serving |-> 3]

FetchPoint == [heading |-> 1, getting |-> 2, writing |-> 3]

FetchesOn ==
    /\ Phase[proc] = 1 /\ Phase[proc'] = 1
    /\ \/ at' \in at + 1 .. Len(args) + 1
       \/ at' = at /\ FetchPoint[proc'] > FetchPoint[proc]
       \/ /\ UNCHANGED <<proc, at, body>> /\ proc = "writing"
          /\ Written' \in Written + 1 .. Len(body)

ImportsOn ==
    /\ proc = "importing" /\ proc' = "importing"
    /\ todo' \subseteq todo /\ todo' # todo

AnchorAdvances ==
    [][/\ "gone" \notin faults
       /\ \E i \in 1 .. Len(args) : args[i] \in Allowed
       /\ ends' = ends
       /\ <<proc, at, dir, todo>>' # <<proc, at, dir, todo>>
       => Phase[proc'] > Phase[proc] \/ FetchesOn \/ ImportsOn]_vars

(***************************************************************************)
(* The anchor comes back: when processes end finitely often, the origin    *)
(* answers and --files names a file that is allowed, systemd's restarts    *)
(* bring it to seed for good, whatever partial files the ended processes   *)
(* left behind.                                                            *)
(***************************************************************************)
AnchorServes ==
    /\ faults \cap {"gone", "relisted"} = {}
    /\ \E i \in 1 .. Len(args) : args[i] \in Allowed
    => <>[](proc = "serving")
=========================================================================
