------------------------- MODULE ValidatorProofs ------------------------
(***************************************************************************)
(* Proofs about Validator: types, what an import lists, what is signed,    *)
(* what stays in the work directory, and that the script gets on.          *)
(***************************************************************************)
EXTENDS Validator, SequenceTheorems, WellFoundedInduction, TLAPS

(***************************************************************************)
(* s is what has arrived of b.                                             *)
(***************************************************************************)
Prefix(s, b) ==
    /\ Len(s) <= Len(b)
    /\ \A i \in 1 .. Len(s) : s[i] = b[i]

(***************************************************************************)
(* The entries are in the order of their names; strictly so when no name   *)
(* comes twice.                                                            *)
(***************************************************************************)
Ascending(s) == \A i, j \in 1 .. Len(s) : i < j => s[i].path <= s[j].path

StrictlyAscending(s) == \A i, j \in 1 .. Len(s) : i < j => s[i].path < s[j].path

(***************************************************************************)
(* s lists the files F of the directory d, each of them once.              *)
(***************************************************************************)
ListsBy(s, F, d, listed) ==
    /\ listed \in Bijection(1 .. Len(s), F)
    /\ \A i \in 1 .. Len(s) : s[i] = EntryOf(listed[i], d)

Lists(s, F, d) == \E listed : ListsBy(s, F, d, listed)

(***************************************************************************)
(* The loop of import_dir: what is listed comes before what is to come.    *)
(***************************************************************************)
ListedSoFar ==
    /\ todo \subseteq Present(dir)
    /\ Ascending(out)
    /\ \A i \in 1 .. Len(out) : \A f \in todo : out[i].path <= Rel[f]
    /\ Lists(out, (Present(dir) \ todo) \cap Allowed, dir)

ImportInv ==
    /\ proc \in {"importing", "serving"} => ListedSoFar
    /\ proc = "serving" => todo = {}

(***************************************************************************)
(* While --files and the origin stay the same: the work directory holds    *)
(* beginnings of the origin's files, whole ones up to the file that is     *)
(* being fetched.                                                          *)
(***************************************************************************)
Steady == faults \subseteq {"gone", "headless"}

IsWhole(f) == dir[f] = origin[f]

Fetched(n) == \A i \in 1 .. Len(args) : i < n => IsWhole(args[i])

Beginnings ==
    /\ \A f \in Files : past[f] = {origin[f]}
    /\ \A f \in Present(dir) : Prefix(dir[f], origin[f])
    /\ \A f \in Present(dir) : \E i \in 1 .. Len(args) : f = args[i]

Progress ==
    /\ proc \in {"heading", "getting"} => Fetched(at)
    /\ proc = "writing" =>
          /\ body = origin[args[at]]
          /\ \A i \in 1 .. Len(args) :
                i < at /\ args[i] # args[at] => IsWhole(args[i])
    /\ proc \in {"importing", "serving"} => Fetched(Len(args) + 1)

SteadyInv == Steady => Beginnings /\ Progress /\ SignedIsServed

(***************************************************************************)
(* Two sequences of one length, one a beginning of the other, are equal.   *)
(***************************************************************************)
LEMMA FullPrefix ==
    ASSUME NEW S, NEW s \in Seq(S), NEW b \in Seq(S), Prefix(s, b), Len(s) = Len(b)
    PROVE  s = b
BY SeqEqual DEF Prefix

(***************************************************************************)
(* A beginning stays one when the next unit arrives.                       *)
(***************************************************************************)
LEMMA LongerPrefix ==
    ASSUME NEW S, NEW s \in Seq(S), NEW b \in Seq(S), Prefix(s, b), Len(s) < Len(b)
    PROVE  Prefix(Append(s, b[Len(s) + 1]), b)
BY DEF Prefix

LEMMA ArgTypes ==
    ASSUME TypeOK
    PROVE  /\ Len(args) \in Nat
           /\ \A i \in 1 .. Len(args) : args[i] \in Files
           /\ \A f \in Files : origin[f] \in Seq(Units)
           /\ proc \in {"getting", "writing"} => at \in 1 .. Len(args)
<1>1. args \in Seq(Files)
  BY ValidatorAssumption DEF TypeOK
<1>2. \A f \in Files : origin[f] \in Seq(Units)
  BY ValidatorAssumption DEF TypeOK, AllContents
<1> QED
  BY <1>1, <1>2 DEF TypeOK
-----------------------------------------------------------------------------
LEMMA InitType == Init => TypeOK
<1> SUFFICES ASSUME Init PROVE TypeOK
  OBVIOUS
<1>1. past \in [Files -> SUBSET AllContents]
  BY DEF Init
<1>2. dir \in [Files -> Seq(Units) \cup {Absent}]
  BY DEF Init
<1> QED
  BY <1>1, <1>2, ValidatorAssumption DEF Init, TypeOK, ImportOK

(***************************************************************************)
(* An entry of the import has the type of a manifest's file entry.         *)
(***************************************************************************)
LEMMA EntryType ==
    ASSUME TypeOK, NEW f \in Files, dir[f] # Absent
    PROVE  EntryOf(f, dir) \in Entry
<1>1. dir[f] \in Seq(Units)
  BY DEF TypeOK
<1>2. Len(dir[f]) \in Nat /\ Rel[f] \in Nat
  BY <1>1, ImportAssumption
<1> QED
  BY <1>1, <1>2 DEF Entry, EntryOf

LEMMA StepType == TypeOK /\ [Next]_vars => TypeOK'
<1> SUFFICES ASSUME TypeOK, [Next]_vars
             PROVE  TypeOK'
  OBVIOUS
<1>0. /\ \A i \in 1 .. Len(args) : args[i] \in Files
      /\ \A f \in Files : origin[f] \in Seq(Units)
      /\ proc \in {"getting", "writing"} => at \in 1 .. Len(args) /\ args[at] \in Files
  BY ArgTypes
<1>1. ASSUME NEW a \in ArgLists, Start(a) PROVE TypeOK'
  BY <1>1 DEF TypeOK, Start, world, import, ImportOK
<1>2. CASE SkipPresent
  BY <1>2 DEF TypeOK, SkipPresent, Fetching, world, import, ImportOK
<1>3. CASE Request
  BY <1>3 DEF TypeOK, Request, Fetching, world, import, ImportOK
<1>4. CASE Get
  <2>1. args[at] \in Files /\ origin[args[at]] \in Seq(Units)
    BY <1>4, <1>0 DEF Get
  <2>2. dir' = [dir EXCEPT ![args[at]] = <<>>] /\ <<>> \in Seq(Units)
    BY <1>4 DEF Get
  <2>3. dir' \in [Files -> Seq(Units) \cup {Absent}] /\ dir'[args[at]] # Absent
    BY <2>1, <2>2, ImportAssumption DEF TypeOK
  <2> QED
    BY <1>4, <2>1, <2>3 DEF TypeOK, Get, world, import, ImportOK
<1>14. CASE GetRefused
  BY <1>14 DEF TypeOK, GetRefused, world, import, ImportOK
<1>5. CASE Chunk
  <2>1. args[at] \in Files /\ dir[args[at]] \in Seq(Units)
    BY <1>5, <1>0 DEF TypeOK, Chunk
  <2>2. body[Written + 1] \in Units
    BY <1>5, <2>1 DEF Chunk, Written, TypeOK
  <2>3. Append(dir[args[at]], body[Written + 1]) \in Seq(Units)
    BY <2>1, <2>2
  <2>4. dir' \in [Files -> Seq(Units) \cup {Absent}] /\ dir'[args[at]] # Absent
    BY <1>5, <2>1, <2>3, ImportAssumption DEF Chunk, TypeOK
  <2> QED
    BY <1>5, <2>4 DEF TypeOK, Chunk, world, import, ImportOK
<1>6. CASE StreamEnds
  BY <1>6 DEF TypeOK, StreamEnds, world, import, ImportOK
<1>7. CASE WalkWork
  BY <1>7 DEF TypeOK, WalkWork, Walk, Present, world, ImportOK
<1>8. CASE ImportFile
  <2>1. ASSUME NEW f \in todo, SkipFile(f) PROVE ImportOK'
    BY <2>1 DEF SkipFile, TypeOK, ImportOK
  <2>2. ASSUME NEW f \in todo, AddFile(f, dir) PROVE ImportOK'
    <3>1. f \in Files /\ dir[f] # Absent
      BY <1>8 DEF ImportFile, TypeOK, Present
    <3>2. EntryOf(f, dir) \in Entry
      BY <3>1, EntryType
    <3> QED
      BY <2>2, <3>2 DEF AddFile, TypeOK, ImportOK
  <2>3. ImportOK'
    BY <1>8, <2>1, <2>2 DEF ImportFile
  <2>4. todo' \subseteq todo
    BY <1>8 DEF ImportFile, SkipFile, AddFile
  <2> QED
    BY <1>8, <2>3, <2>4 DEF TypeOK, ImportFile, world, Present
<1>9. CASE NothingToImport
  BY <1>9 DEF TypeOK, NothingToImport, world, import, ImportOK
<1>10. CASE Publish
  BY <1>10 DEF TypeOK, Publish, world, import, ImportOK
<1>11. CASE End
  BY <1>11, ValidatorAssumption DEF TypeOK, End, world, import, ImportOK
<1>12. ASSUME NEW f \in Files, OriginMoves(f) PROVE TypeOK'
  <2>1. PICK c \in Contents[f] \ past[f] :
            /\ origin' = [origin EXCEPT ![f] = c]
            /\ past' = [past EXCEPT ![f] = @ \cup {c}]
    BY <1>12 DEF OriginMoves
  <2>2. c \in AllContents
    BY <2>1 DEF AllContents
  <2> QED
    BY <1>12, <2>1, <2>2 DEF TypeOK, OriginMoves, import, ImportOK
<1>13. CASE UNCHANGED vars
  BY <1>13 DEF TypeOK, vars, ImportOK
<1> QED
  BY <1>1, <1>2, <1>3, <1>4, <1>5, <1>6, <1>7, <1>8, <1>9, <1>10, <1>11, <1>12,
     <1>13, <1>14 DEF Next, Run

(***************************************************************************)
(* The script's state is typed in every behaviour, in particular the       *)
(* directory holds nothing but units of what GET answered.                 *)
(***************************************************************************)
THEOREM TypeCorrect == Spec => []TypeOK
<1>1. Init => TypeOK
  BY InitType
<1>2. TypeOK /\ [Next]_vars => TypeOK'
  BY StepType
<1> QED
  BY <1>1, <1>2, PTL DEF Spec
-----------------------------------------------------------------------------
(***************************************************************************)
(* What it means that each file of F is listed once.                       *)
(***************************************************************************)
LEMMA ListedOnce ==
    ASSUME NEW s, NEW F, NEW d, NEW listed
    PROVE  ListsBy(s, F, d, listed) <=>
               /\ listed \in [1 .. Len(s) -> F]
               /\ \A i, j \in 1 .. Len(s) : listed[i] = listed[j] => i = j
               /\ \A f \in F : \E i \in 1 .. Len(s) : listed[i] = f
               /\ \A i \in 1 .. Len(s) : s[i] = EntryOf(listed[i], d)
BY DEF ListsBy, Bijection, Injection, Surjection, IsInjective

(***************************************************************************)
(* The entries of a list of F are those of the files of F.                 *)
(***************************************************************************)
LEMMA EntriesListed ==
    ASSUME NEW s, NEW F, NEW d, Lists(s, F, d)
    PROVE  {s[i] : i \in 1 .. Len(s)} = {EntryOf(f, d) : f \in F}
<1>1. PICK listed : ListsBy(s, F, d, listed)
  BY DEF Lists
<1>2. /\ \A i \in 1 .. Len(s) : listed[i] \in F
      /\ \A f \in F : \E i \in 1 .. Len(s) : listed[i] = f
      /\ \A i \in 1 .. Len(s) : s[i] = EntryOf(listed[i], d)
  BY <1>1, ListedOnce
<1>3. \A i \in 1 .. Len(s) : s[i] \in {EntryOf(f, d) : f \in F}
  BY <1>2
<1>4. \A f \in F : EntryOf(f, d) \in {s[i] : i \in 1 .. Len(s)}
  BY <1>2
<1> QED
  BY <1>3, <1>4

(***************************************************************************)
(* One more file, that was not listed yet, and its entry at the end.       *)
(***************************************************************************)
LEMMA OneMoreListed ==
    ASSUME NEW s \in Seq(Entry), NEW F, NEW d, NEW f, f \notin F,
           EntryOf(f, d) \in Entry, Lists(s, F, d)
    PROVE  Lists(Append(s, EntryOf(f, d)), F \cup {f}, d)
<1> DEFINE e == EntryOf(f, d)
           t == Append(s, e)
           n == Len(s)
<1>1. /\ n \in Nat /\ Len(t) = n + 1 /\ t[n + 1] = e
      /\ \A i \in 1 .. n : t[i] = s[i]
  <2> HIDE DEF e
  <2> QED
    OBVIOUS
<1>2. PICK listed : ListsBy(s, F, d, listed)
  BY DEF Lists
<1>3. /\ listed \in [1 .. n -> F]
      /\ \A i, j \in 1 .. n : listed[i] = listed[j] => i = j
      /\ \A g \in F : \E i \in 1 .. n : listed[i] = g
      /\ \A i \in 1 .. n : s[i] = EntryOf(listed[i], d)
  BY <1>2, ListedOnce
<1> DEFINE more == [i \in 1 .. Len(t) |-> IF i <= n THEN listed[i] ELSE f]
<1>4. /\ \A i \in 1 .. n : more[i] = listed[i] /\ more[i] \in F
      /\ more[n + 1] = f
      /\ \A i \in 1 .. Len(t) : i \in 1 .. n \/ i = n + 1
      /\ n + 1 \in 1 .. Len(t) /\ 1 .. n \subseteq 1 .. Len(t)
  <2> HIDE DEF e, t, n
  <2> QED
    BY <1>1, <1>3
<1>5. more \in [1 .. Len(t) -> F \cup {f}]
  <2>1. \A i \in 1 .. Len(t) : more[i] \in F \cup {f}
    <3> HIDE DEF more, t, n, e
    <3> QED
      BY <1>4
  <2> QED
    BY <2>1
<1> HIDE DEF more, t, n, e
<1>6. \A i, j \in 1 .. Len(t) : more[i] = more[j] => i = j
  BY <1>3, <1>4
<1>7. \A g \in F \cup {f} : \E i \in 1 .. Len(t) : more[i] = g
  BY <1>3, <1>4
<1>8. \A i \in 1 .. Len(t) : t[i] = EntryOf(more[i], d)
  BY <1>1, <1>3, <1>4 DEF e
<1>9. ListsBy(t, F \cup {f}, d, more)
  BY <1>5, <1>6, <1>7, <1>8, ListedOnce
<1> QED
  BY <1>9 DEF Lists, t, e

(***************************************************************************)
(* One round of import_dir's loop keeps the list canonical.                *)
(***************************************************************************)
LEMMA RoundKeepsList ==
    ASSUME TypeOK, ListedSoFar, proc = "importing", ImportFile
    PROVE  ListedSoFar'
<1>0. /\ dir' = dir
      /\ Present(dir)' = Present(dir)
      /\ todo \subseteq Files
      /\ out \in Seq(Entry)
  BY DEF ImportFile, TypeOK, ImportOK, Present
<1>1. ASSUME NEW f \in todo, SkipFile(f)
      PROVE  ListedSoFar'
  <2>1. out' = out /\ todo' = todo \ {f} /\ f \notin Allowed
    BY <1>1 DEF SkipFile, IsAllowed
  <2>2. (Present(dir) \ todo') \cap Allowed = (Present(dir) \ todo) \cap Allowed
    BY <2>1
  <2> QED
    BY <1>0, <2>1, <2>2 DEF ListedSoFar
<1>2. ASSUME NEW f \in todo, AddFile(f, dir)
      PROVE  ListedSoFar'
  <2> DEFINE e == EntryOf(f, dir)
  <2>1. /\ out' = Append(out, e)
        /\ todo' = todo \ {f}
        /\ f \in Allowed
        /\ \A g \in todo : Rel[f] <= Rel[g]
        /\ e.path = Rel[f]
    BY <1>2 DEF AddFile, IsAllowed, First, EntryOf
  <2>9. e \in Entry
    BY <1>0, EntryType DEF ListedSoFar, Present
  <2>2. /\ Len(out) \in Nat
        /\ Len(out') = Len(out) + 1
        /\ out'[Len(out) + 1] = e
        /\ \A i \in 1 .. Len(out) : out'[i] = out[i]
    <3> HIDE DEF e
    <3> QED
      BY <1>0, <2>1, <2>9
  <2>3. Ascending(out')
    <3> SUFFICES ASSUME NEW i \in 1 .. Len(out'), NEW j \in 1 .. Len(out'), i < j
                 PROVE  out'[i].path <= out'[j].path
      BY DEF Ascending
    <3>1. i \in 1 .. Len(out) /\ out'[i] = out[i]
      BY <2>2
    <3>2. CASE j \in 1 .. Len(out)
      BY <2>2, <3>1, <3>2 DEF ListedSoFar, Ascending
    <3>3. CASE j = Len(out) + 1
      BY <2>1, <2>2, <3>1, <3>3 DEF ListedSoFar
    <3> QED
      BY <2>2, <3>2, <3>3
  <2>4. \A i \in 1 .. Len(out') : \A g \in todo' : out'[i].path <= Rel[g]
    <3> SUFFICES ASSUME NEW i \in 1 .. Len(out'), NEW g \in todo'
                 PROVE  out'[i].path <= Rel[g]
      OBVIOUS
    <3>1. g \in todo
      BY <2>1
    <3>2. CASE i \in 1 .. Len(out)
      BY <2>2, <3>1, <3>2 DEF ListedSoFar
    <3>3. CASE i = Len(out) + 1
      BY <2>1, <2>2, <3>1, <3>3
    <3> QED
      BY <2>2, <3>2, <3>3
  <2>6. (Present(dir) \ todo') \cap Allowed =
            ((Present(dir) \ todo) \cap Allowed) \cup {f}
    BY <2>1 DEF ListedSoFar
  <2>7. Lists(out', (Present(dir) \ todo') \cap Allowed, dir)
    <3>1. f \notin (Present(dir) \ todo) \cap Allowed
      OBVIOUS
    <3>2. Lists(Append(out, e), ((Present(dir) \ todo) \cap Allowed) \cup {f}, dir)
      BY <1>0, <2>9, <3>1, OneMoreListed DEF ListedSoFar
    <3> QED
      BY <2>1, <2>6, <3>2
  <2>8. todo' \subseteq Present(dir)
    BY <2>1 DEF ListedSoFar
  <2> QED
    BY <1>0, <2>3, <2>4, <2>7, <2>8 DEF ListedSoFar
<1> QED
  BY <1>1, <1>2 DEF ImportFile

LEMMA ListedUnchanged ==
    ASSUME ListedSoFar, UNCHANGED <<todo, out, dir>>
    PROVE  ListedSoFar'
<1>1. Present(dir)' = Present(dir)
  BY DEF Present
<1>2. \A F : Lists(out', F, dir') <=> Lists(out, F, dir)
  OBVIOUS
<1> QED
  BY <1>1, <1>2 DEF ListedSoFar, Ascending

LEMMA StepImport ==
    ASSUME TypeOK, ImportInv, [Next]_vars
    PROVE  ImportInv'
<1>1. ASSUME NEW a \in ArgLists, Start(a) PROVE ImportInv'
  BY <1>1 DEF ImportInv, Start
<1>2. CASE SkipPresent \/ Request \/ StreamEnds
  BY <1>2 DEF ImportInv, SkipPresent, Request, StreamEnds, Fetching
<1>3. CASE Get \/ GetRefused \/ Chunk \/ NothingToImport \/ End
  BY <1>3 DEF ImportInv, Get, GetRefused, Chunk, NothingToImport, End
<1>4. CASE WalkWork
  <2>1. todo' = Present(dir) /\ out' = <<>> /\ dir' = dir /\ proc' = "importing"
    BY <1>4 DEF WalkWork, Walk
  <2>2. Len(out') = 0
    BY <2>1
  <2>3. (Present(dir) \ todo') \cap Allowed = {}
    BY <2>1
  <2>4. Lists(out', {}, dir')
    <3>1. <<>> \in [1 .. Len(out') -> {}]
      BY <2>2
    <3>2. ListsBy(out', {}, dir', <<>>)
      BY <2>2, <3>1, ListedOnce
    <3> QED
      BY <3>2 DEF Lists
  <2>6. Present(dir)' = Present(dir)
    BY <2>1 DEF Present
  <2>5. ListedSoFar'
    BY <2>1, <2>2, <2>3, <2>4, <2>6 DEF ListedSoFar, Ascending
  <2> QED
    BY <2>1, <2>5 DEF ImportInv
<1>5. CASE ImportFile
  <2>1. proc = "importing" /\ proc' = "importing"
    BY <1>5 DEF ImportFile
  <2>2. ListedSoFar'
    BY <1>5, <2>1, RoundKeepsList DEF ImportInv
  <2> QED
    BY <2>1, <2>2 DEF ImportInv
<1>6. CASE Publish
  <2>1. proc = "importing" /\ proc' = "serving" /\ todo = {} /\ UNCHANGED <<todo, out, dir>>
    BY <1>6 DEF Publish, import
  <2> QED
    BY <2>1, ListedUnchanged DEF ImportInv
<1>7. ASSUME NEW f \in Files, OriginMoves(f) PROVE ImportInv'
  <2>1. UNCHANGED <<proc, todo, out, dir>>
    BY <1>7 DEF OriginMoves, import
  <2> QED
    BY <2>1, ListedUnchanged DEF ImportInv
<1>8. CASE UNCHANGED vars
  <2>1. UNCHANGED <<proc, todo, out, dir>>
    BY <1>8 DEF vars
  <2> QED
    BY <2>1, ListedUnchanged DEF ImportInv
<1> QED
  BY <1>1, <1>2, <1>3, <1>4, <1>5, <1>6, <1>7, <1>8 DEF Next, Run

LEMMA ListIsDone ==
    ASSUME ImportInv, (proc = "importing" /\ todo = {}) \/ proc = "serving"
    PROVE  /\ Ascending(out)
           /\ Lists(out, Present(dir) \cap Allowed, dir)
           /\ {out[i] : i \in 1 .. Len(out)} =
                  {EntryOf(f, dir) : f \in Present(dir) \cap Allowed}
<1>1. ListedSoFar /\ todo = {}
  BY DEF ImportInv
<1>2. (Present(dir) \ todo) \cap Allowed = Present(dir) \cap Allowed
  BY <1>1
<1>3. Ascending(out) /\ Lists(out, Present(dir) \cap Allowed, dir)
  BY <1>1, <1>2 DEF ListedSoFar
<1>4. {out[i] : i \in 1 .. Len(out)} = {EntryOf(f, dir) : f \in Present(dir) \cap Allowed}
  BY <1>3, EntriesListed
<1> QED
  BY <1>3, <1>4

LEMMA ImportImplies == ImportInv => ImportIsCanonical
<1> SUFFICES ASSUME ImportInv, (proc = "importing" /\ todo = {}) \/ proc = "serving"
             PROVE  Ascending(out) /\ Lists(out, Present(dir) \cap Allowed, dir)
  BY DEF ImportIsCanonical, Ascending, Lists, ListsBy
<1> QED
  BY ListIsDone

(***************************************************************************)
(* An import that is done lists each allowed file of the directory once,   *)
(* in the order of their names, for any directory, any allowlist, any      *)
(* order of read_dir and any names, also when two files have one.          *)
(***************************************************************************)
THEOREM ImportListsTheDirectory == Spec => []ImportIsCanonical
<1>1. Init => ImportInv
  BY DEF Init, ImportInv
<1>2. TypeOK /\ ImportInv /\ [Next]_vars => ImportInv'
  BY StepImport
<1>3. ImportInv => ImportIsCanonical
  BY ImportImplies
<1> QED
  BY <1>1, <1>2, <1>3, TypeCorrect, PTL DEF Spec
-----------------------------------------------------------------------------
(***************************************************************************)
(* A length that HEAD tells and a beginning of the file has makes the      *)
(* beginning the whole file, when lengths are those of the files.          *)
(***************************************************************************)
LEMMA SameSizeIsWhole ==
    ASSUME TypeOK, "bodiless" \notin faults, Beginnings, NEW f \in Files,
           NEW len \in RemoteLengths(f), SameSize(f, len)
    PROVE  IsWhole(f)
<1>1. f \in Present(dir) /\ dir[f] \in Seq(Units) /\ origin[f] \in Seq(Units)
  BY ArgTypes DEF TypeOK, SameSize, Present
<1>2. len = Len(origin[f])
  BY <1>1 DEF RemoteLengths, SameSize, NoLength
<1>3. Prefix(dir[f], origin[f])
  BY <1>1 DEF Beginnings
<1> QED
  BY <1>1, <1>2, <1>3, FullPrefix DEF IsWhole, SameSize

(***************************************************************************)
(* At the end of the list every file that is there is whole.               *)
(***************************************************************************)
LEMMA AllWhole ==
    ASSUME Beginnings, Fetched(Len(args) + 1), Len(args) \in Nat, NEW f \in Present(dir)
    PROVE  IsWhole(f)
<1>1. PICK i \in 1 .. Len(args) : f = args[i]
  BY DEF Beginnings
<1> QED
  BY <1>1 DEF Fetched

LEMMA InitSteady == Init => SteadyInv
<1> SUFFICES ASSUME Init PROVE Beginnings /\ Progress /\ SignedIsServed
  BY DEF SteadyInv
<1>1. Present(dir) = {}
  BY DEF Init, Present
<1>2. Len(published) = 0
  BY DEF Init
<1> QED
  BY <1>1, <1>2 DEF Init, Beginnings, Progress, SignedIsServed

(***************************************************************************)
(* What a publish adds to the record is a whole file of the origin.        *)
(***************************************************************************)
LEMMA ImportedIsServed ==
    ASSUME TypeOK, ImportInv, Beginnings, Progress, proc = "importing", todo = {}
    PROVE  \A i \in 1 .. Len(out) :
               \E f \in Allowed : \E c \in past[f] :
                   out[i] = [path |-> Rel[f], size |-> Len(c), blake3 |-> c]
<1> SUFFICES ASSUME NEW i \in 1 .. Len(out)
             PROVE  \E f \in Allowed : \E c \in past[f] :
                        out[i] = [path |-> Rel[f], size |-> Len(c), blake3 |-> c]
  OBVIOUS
<1>1. PICK f \in Present(dir) \cap Allowed : out[i] = EntryOf(f, dir)
  BY ListIsDone
<1>2. Fetched(Len(args) + 1) /\ Len(args) \in Nat
  BY ArgTypes DEF Progress
<1>3. dir[f] = origin[f]
  BY <1>1, <1>2, AllWhole DEF IsWhole
<1>4. origin[f] \in past[f]
  BY <1>1 DEF Beginnings, Present
<1> QED
  BY <1>1, <1>3, <1>4 DEF EntryOf

(***************************************************************************)
(* The files of the directory when only one of them was changed.           *)
(***************************************************************************)
LEMMA OneFileWritten ==
    ASSUME TypeOK, Beginnings, at \in 1 .. Len(args), NEW b \in Seq(Units),
           dir' = [dir EXCEPT ![args[at]] = b], Prefix(b, origin[args[at]]),
           UNCHANGED <<origin, past, args>>
    PROVE  Beginnings'
<1>1. args[at] \in Files /\ dir'[args[at]] = b
  BY ArgTypes DEF TypeOK
<1>2. \A f \in Files : f # args[at] => dir'[f] = dir[f]
  BY DEF TypeOK
<1>3. \A f \in Present(dir)' : f = args[at] \/ f \in Present(dir)
  BY <1>2 DEF Present
<1>4. \A f \in Present(dir)' : Prefix(dir'[f], origin'[f])
  BY <1>1, <1>2, <1>3 DEF Beginnings, Present
<1>5. \A f \in Present(dir)' : \E i \in 1 .. Len(args') : f = args'[i]
  BY <1>3 DEF Beginnings
<1> QED
  BY <1>4, <1>5 DEF Beginnings, Prefix

LEMMA StepSteady ==
    ASSUME TypeOK, ImportInv, SteadyInv, [Next]_vars
    PROVE  SteadyInv'
<1> SUFFICES ASSUME Steady'
             PROVE  Beginnings' /\ Progress' /\ SignedIsServed'
  BY DEF SteadyInv
<1>0. /\ Steady /\ Beginnings /\ Progress /\ SignedIsServed
      /\ "relisted" \notin faults /\ "moves" \notin faults
      /\ "bodiless" \notin faults /\ "unframed" \notin faults
  <2>1. faults' = faults
    BY DEF Next, Run, Start, SkipPresent, Request, Get, GetRefused, Chunk, StreamEnds,
           WalkWork, ImportFile, NothingToImport, Publish, End, OriginMoves, vars, world
  <2> QED
    BY <2>1 DEF SteadyInv, Steady
<1>a. /\ Len(args) \in Nat
      /\ \A i \in 1 .. Len(args) : args[i] \in Files
      /\ \A f \in Files : origin[f] \in Seq(Units)
      /\ proc \in {"getting", "writing"} => at \in 1 .. Len(args)
  BY ArgTypes
<1>b. ASSUME UNCHANGED <<origin, past, args, dir>>
      PROVE  /\ Beginnings'
             /\ \A n : Fetched(n)' <=> Fetched(n')
  BY <1>0, <1>b DEF Beginnings, Present, Prefix, Fetched, IsWhole
<1>c. ASSUME UNCHANGED <<past, published>>
      PROVE  SignedIsServed'
  BY <1>0, <1>c DEF SignedIsServed
<1>1. ASSUME NEW a \in ArgLists, Start(a) PROVE Beginnings' /\ Progress' /\ SignedIsServed'
  <2>1. args' = args /\ UNCHANGED <<origin, past, dir, published>> /\ proc' = "heading" /\ at' = 1
    BY <1>0, <1>1 DEF Start, world
  <2> QED
    BY <1>a, <1>b, <1>c, <2>1 DEF Progress, Fetched
<1>2. CASE SkipPresent
  <2>1. /\ UNCHANGED <<origin, past, args, dir, published>>
        /\ proc = "heading" /\ proc' = "heading" /\ at' = at + 1 /\ at \in 1 .. Len(args)
    BY <1>2, <1>a DEF SkipPresent, Fetching, world, TypeOK
  <2>2. IsWhole(args[at])
    BY <1>0, <1>2, <1>a, <2>1, SameSizeIsWhole DEF SkipPresent
  <2>3. Fetched(at)
    BY <1>0, <2>1 DEF Progress
  <2>4. \A i \in 1 .. Len(args) : i < at + 1 => i < at \/ i = at
    BY <1>a, <2>1
  <2>5. Fetched(at + 1)
    BY <2>2, <2>3, <2>4 DEF Fetched
  <2>6. Fetched(at)'
    BY <2>1, <2>5 DEF Fetched, IsWhole
  <2> QED
    BY <1>b, <1>c, <2>1, <2>6 DEF Progress
<1>3. CASE Request
  <2>1. /\ UNCHANGED <<origin, past, args, dir, published, at>>
        /\ proc = "heading" /\ proc' = "getting"
    BY <1>3 DEF Request, Fetching, world
  <2> QED
    BY <1>0, <1>b, <1>c, <2>1 DEF Progress, Fetched, IsWhole
<1>4. CASE Get
  <2>1. /\ UNCHANGED <<origin, past, args, published, at>>
        /\ proc = "getting" /\ proc' = "writing" /\ at \in 1 .. Len(args)
        /\ body' = origin[args[at]]
        /\ dir' = [dir EXCEPT ![args[at]] = <<>>]
    BY <1>4, <1>a DEF Get, world
  <2>2. Prefix(<<>>, origin[args[at]])
    <3>1. Len(origin[args[at]]) \in Nat
      BY <1>a, <2>1
    <3> QED
      BY <3>1 DEF Prefix
  <2>3. <<>> \in Seq(Units)
    OBVIOUS
  <2>4. Beginnings'
    BY <1>0, <2>1, <2>2, <2>3, OneFileWritten
  <2>5. \A i \in 1 .. Len(args) : i < at /\ args[i] # args[at] => IsWhole(args[i])'
    BY <1>0, <1>a, <2>1 DEF Progress, Fetched, IsWhole, TypeOK
  <2> QED
    BY <1>c, <2>1, <2>4, <2>5 DEF Progress, IsWhole
<1>5. CASE GetRefused
  <2>1. UNCHANGED <<origin, past, args, dir, published>> /\ proc' = "down"
    BY <1>5 DEF GetRefused, world
  <2> QED
    BY <1>b, <1>c, <2>1 DEF Progress
<1>6. CASE Chunk
  <2> DEFINE b == Append(dir[args[at]], body[Written + 1])
  <2>1. /\ UNCHANGED <<origin, past, args, published, at, proc, body>>
        /\ proc = "writing" /\ at \in 1 .. Len(args)
        /\ body = origin[args[at]]
        /\ Written < Len(body)
        /\ dir' = [dir EXCEPT ![args[at]] = b]
    BY <1>0, <1>6, <1>a DEF Chunk, world, Progress
  <2>2. /\ args[at] \in Files /\ dir[args[at]] \in Seq(Units)
        /\ origin[args[at]] \in Seq(Units)
        /\ Prefix(dir[args[at]], origin[args[at]])
    BY <1>0, <1>a, <2>1 DEF TypeOK, Beginnings, Present
  <2>3. Prefix(b, origin[args[at]])
    BY <2>1, <2>2, LongerPrefix DEF Written
  <2>4. b \in Seq(Units)
    BY <2>1, <2>2 DEF Written
  <2>5. Beginnings'
    <3> HIDE DEF b
    <3> QED
      BY <1>0, <2>1, <2>3, <2>4, OneFileWritten
  <2>6. \A i \in 1 .. Len(args) : i < at /\ args[i] # args[at] => IsWhole(args[i])'
    <3> HIDE DEF b
    <3> QED
      BY <1>0, <1>a, <2>1 DEF Progress, IsWhole, TypeOK
  <2> QED
    BY <1>c, <2>1, <2>5, <2>6 DEF Progress, IsWhole
<1>7. CASE StreamEnds
  <2>1. /\ UNCHANGED <<origin, past, args, dir, published>>
        /\ proc = "writing" /\ proc' = "heading" /\ at' = at + 1 /\ at \in 1 .. Len(args)
        /\ Written = Len(body) /\ body = origin[args[at]]
    BY <1>0, <1>7, <1>a DEF StreamEnds, world, Progress
  <2>2. /\ args[at] \in Files /\ dir[args[at]] \in Seq(Units)
        /\ origin[args[at]] \in Seq(Units)
        /\ Prefix(dir[args[at]], origin[args[at]])
    BY <1>0, <1>a, <2>1 DEF TypeOK, Beginnings, Present
  <2>3. IsWhole(args[at])
    BY <2>1, <2>2, FullPrefix DEF Written, IsWhole
  <2>4. \A i \in 1 .. Len(args) : i < at + 1 => IsWhole(args[i])
    BY <1>0, <2>1, <2>3 DEF Progress, IsWhole
  <2>5. Fetched(at)'
    BY <2>1, <2>4 DEF Fetched, IsWhole
  <2> QED
    BY <1>b, <1>c, <2>1, <2>5 DEF Progress
<1>8. CASE WalkWork
  <2>1. /\ UNCHANGED <<origin, past, args, dir, published>>
        /\ proc = "heading" /\ proc' = "importing" /\ at > Len(args)
    BY <1>8 DEF WalkWork, world
  <2>2. Fetched(at) /\ at \in Nat
    BY <1>0, <2>1 DEF Progress, TypeOK
  <2>3. Fetched(Len(args) + 1)'
    BY <1>a, <2>1, <2>2 DEF Fetched, IsWhole
  <2> QED
    BY <1>b, <1>c, <2>1, <2>3 DEF Progress
<1>9. CASE ImportFile
  <2>1. UNCHANGED <<origin, past, args, dir, published, proc>> /\ proc = "importing"
    BY <1>9 DEF ImportFile, world
  <2>2. Fetched(Len(args) + 1)'
    BY <1>0, <2>1 DEF Progress, Fetched, IsWhole
  <2> QED
    BY <1>b, <1>c, <2>1, <2>2 DEF Progress
<1>10. CASE NothingToImport
  <2>1. UNCHANGED <<origin, past, args, dir, published>> /\ proc' = "down"
    BY <1>10 DEF NothingToImport, world
  <2> QED
    BY <1>b, <1>c, <2>1 DEF Progress
<1>11. CASE Publish
  <2>1. /\ UNCHANGED <<origin, past, args, dir>> /\ published' = out
        /\ proc = "importing" /\ proc' = "serving" /\ todo = {}
    BY <1>11 DEF Publish, world
  <2>2. SignedIsServed'
    BY <1>0, <2>1, ImportedIsServed DEF SignedIsServed
  <2>3. Fetched(Len(args) + 1)'
    BY <1>0, <2>1 DEF Progress, Fetched, IsWhole
  <2> QED
    BY <1>b, <2>1, <2>2, <2>3 DEF Progress
<1>12. CASE End
  <2>1. UNCHANGED <<origin, past, args, dir, published>> /\ proc' = "down"
    BY <1>12 DEF End, world
  <2> QED
    BY <1>b, <1>c, <2>1 DEF Progress
<1>13. ASSUME NEW f \in Files, OriginMoves(f) PROVE Beginnings' /\ Progress' /\ SignedIsServed'
  BY <1>0, <1>13 DEF OriginMoves
<1>14. CASE UNCHANGED vars
  <2>1. UNCHANGED <<origin, past, args, dir, published, proc, at, body>>
    BY <1>14 DEF vars
  <2> QED
    BY <1>0, <1>b, <1>c, <2>1 DEF Progress, Fetched, IsWhole
<1> QED
  BY <1>1, <1>2, <1>3, <1>4, <1>5, <1>6, <1>7, <1>8, <1>9, <1>10, <1>11, <1>12,
     <1>13, <1>14 DEF Next, Run

(***************************************************************************)
(* As long as --files and the origin's files stay the same and lengths are *)
(* true, only whole files of the origin are ever signed: for any lists of  *)
(* files, repetitions included, and any number of ended processes.         *)
(***************************************************************************)
THEOREM SteadySignsTheOrigin == Spec => []SteadySigning
<1>1. Init => ImportInv /\ SteadyInv
  BY InitSteady DEF Init, ImportInv
<1>2. TypeOK /\ ImportInv /\ SteadyInv /\ [Next]_vars => ImportInv' /\ SteadyInv'
  BY StepImport, StepSteady
<1>3. SteadyInv => SteadySigning
  BY DEF SteadyInv, SteadySigning, Steady
<1> QED
  BY <1>1, <1>2, <1>3, TypeCorrect, PTL DEF Spec
-----------------------------------------------------------------------------
(***************************************************************************)
(* The order of distinct names leaves no choice: two strictly ascending    *)
(* lists of the same entries are the same list.                            *)
(***************************************************************************)
LEMMA LeastIndex ==
    ASSUME NEW T, T \subseteq Nat, T # {}
    PROVE  \E n \in T : \A m \in T : n <= m
<1>1. PICK n \in T : \A m \in T : ~ (<<m, n>> \in OpToRel(<, Nat))
  BY NatLessThanWellFounded, WFMin
<1>2. \A m \in T : ~ (m < n)
  BY <1>1 DEF OpToRel
<1> QED
  BY <1>2

LEMMA AscendingIsUnique ==
    ASSUME NEW s \in Seq(Entry), NEW t \in Seq(Entry), StrictlyAscending(s), StrictlyAscending(t),
           {s[i] : i \in 1 .. Len(s)} = {t[i] : i \in 1 .. Len(t)}
    PROVE  s = t
<1> DEFINE D == {i \in 1 .. Len(s) : i > Len(t) \/ s[i] # t[i]}
<1>1. /\ Len(s) \in Nat /\ Len(t) \in Nat
      /\ \A i \in 1 .. Len(s) : s[i].path \in Nat
      /\ \A i \in 1 .. Len(t) : t[i].path \in Nat
  <2>1. \A i \in 1 .. Len(s) : s[i] \in Entry
    OBVIOUS
  <2>2. \A i \in 1 .. Len(t) : t[i] \in Entry
    OBVIOUS
  <2>3. \A e \in Entry : e.path \in Nat
    BY DEF Entry
  <2> QED
    BY <2>1, <2>2, <2>3
<1>2. CASE D = {}
  <2>1. \A i \in 1 .. Len(s) : i <= Len(t) /\ s[i] = t[i]
    BY <1>1, <1>2
  <2>2. ASSUME Len(s) < Len(t) PROVE FALSE
    <3>1. Len(s) + 1 \in 1 .. Len(t)
      BY <1>1, <2>2
    <3>2. PICK j \in 1 .. Len(s) : s[j] = t[Len(s) + 1]
      BY <3>1
    <3>3. t[j].path < t[Len(s) + 1].path
      BY <1>1, <2>1, <3>1 DEF StrictlyAscending
    <3> QED
      BY <1>1, <2>1, <3>1, <3>2, <3>3
  <2>3. Len(s) = Len(t)
    <3>1. Len(s) <= Len(t)
      BY <1>1, <2>1
    <3> QED
      BY <1>1, <2>2, <3>1
  <2> QED
    BY <2>1, <2>3, SeqEqual
<1>3. CASE D # {}
  <2>1. PICK n \in D : \A m \in D : n <= m
    <3>1. D \subseteq Nat
      BY <1>1
    <3> HIDE DEF D
    <3> QED
      BY <1>3, <3>1, LeastIndex
  <2>2. \A i \in 1 .. n - 1 : i \in 1 .. Len(s) /\ i <= Len(t) /\ s[i] = t[i]
    BY <1>1, <2>1
  <2>3. PICK k \in 1 .. Len(t) : s[n] = t[k]
    BY <2>1
  <2>4. ASSUME k < n PROVE FALSE
    <3>1. s[k] = t[k] /\ k \in 1 .. Len(s)
      BY <2>2, <2>3, <2>4, <2>1
    <3>2. s[k].path < s[n].path
      BY <2>4, <3>1, <2>1 DEF StrictlyAscending
    <3> QED
      BY <1>1, <2>3, <3>1, <3>2
  <2>5. n < k
    <3>1. n <= k
      BY <2>1, <2>3, <2>4, <1>1
    <3>2. n \in 1 .. Len(t)
      BY <1>1, <2>1, <2>3, <3>1
    <3> QED
      BY <1>1, <2>1, <2>3, <3>1, <3>2
  <2>6. n \in 1 .. Len(t) /\ s[n] # t[n]
    BY <1>1, <2>1, <2>5
  <2>7. t[n].path < s[n].path
    BY <2>3, <2>5, <2>6 DEF StrictlyAscending
  <2>8. PICK m \in 1 .. Len(s) : t[n] = s[m]
    BY <2>6
  <2>9. CASE m < n
    <3>1. s[m] = t[m] /\ m \in 1 .. Len(t)
      BY <2>2, <2>8, <2>9, <1>1, <2>1
    <3>2. t[m].path < t[n].path
      BY <2>6, <2>9, <3>1 DEF StrictlyAscending
    <3> QED
      BY <1>1, <2>6, <2>8, <3>1, <3>2
  <2>10. CASE n < m
    <3>1. s[n].path < s[m].path
      BY <2>1, <2>8, <2>10 DEF StrictlyAscending
    <3> QED
      BY <1>1, <2>1, <2>6, <2>7, <2>8, <3>1
  <2>11. CASE m = n
    BY <2>6, <2>8, <2>11
  <2> QED
    BY <1>1, <2>1, <2>8, <2>9, <2>10, <2>11
<1> QED
  BY <1>2, <1>3

(***************************************************************************)
(* A list in the order of names that differ is strictly so.                *)
(***************************************************************************)
LEMMA DistinctNames ==
    ASSUME NEW s \in Seq(Entry), NEW F \in SUBSET Files, NEW d,
           Ascending(s), Lists(s, F, d),
           \A f, g \in F : Rel[f] = Rel[g] => f = g
    PROVE  StrictlyAscending(s)
<1>1. PICK listed : ListsBy(s, F, d, listed)
  BY DEF Lists
<1>2. /\ \A i \in 1 .. Len(s) : listed[i] \in F
      /\ \A i, j \in 1 .. Len(s) : listed[i] = listed[j] => i = j
      /\ \A i \in 1 .. Len(s) : s[i] = EntryOf(listed[i], d)
  BY <1>1, ListedOnce
<1>3. \A i \in 1 .. Len(s) : s[i].path = Rel[listed[i]] /\ Rel[listed[i]] \in Nat
  <2> SUFFICES ASSUME NEW i \in 1 .. Len(s)
               PROVE  s[i].path = Rel[listed[i]] /\ Rel[listed[i]] \in Nat
    OBVIOUS
  <2>1. listed[i] \in Files
    BY <1>2
  <2>2. s[i] = EntryOf(listed[i], d)
    BY <1>2
  <2> QED
    BY <2>1, <2>2, ImportAssumption DEF EntryOf
<1> SUFFICES ASSUME NEW i \in 1 .. Len(s), NEW j \in 1 .. Len(s), i < j
             PROVE  s[i].path < s[j].path
  BY DEF StrictlyAscending
<1>4. s[i].path <= s[j].path
  BY DEF Ascending
<1>5. Len(s) \in Nat /\ i # j
  OBVIOUS
<1>6. s[i].path # s[j].path
  BY <1>2, <1>3, <1>5
<1> QED
  BY <1>3, <1>4, <1>6

(***************************************************************************)
(* Once something is published it is the record of the origin's files in   *)
(* --files, in the order of their names if these differ.                   *)
(***************************************************************************)
Named == {args[i] : i \in 1 .. Len(args)}

RecordInv ==
    Steady /\ published # <<>> =>
        /\ NamesDiffer => StrictlyAscending(published)
        /\ {published[i] : i \in 1 .. Len(published)} =
               {EntryOf(f, origin) : f \in Named \cap Allowed}

(***************************************************************************)
(* What the loop has listed when it ends is just that record.              *)
(***************************************************************************)
LEMMA ListedIsTheRecord ==
    ASSUME TypeOK, ImportInv, SteadyInv, Steady, proc = "importing", todo = {}
    PROVE  /\ NamesDiffer => StrictlyAscending(out)
           /\ {out[i] : i \in 1 .. Len(out)} =
                  {EntryOf(f, origin) : f \in Named \cap Allowed}
<1>1. /\ Ascending(out)
      /\ Lists(out, Present(dir) \cap Allowed, dir)
      /\ {out[i] : i \in 1 .. Len(out)} = {EntryOf(f, dir) : f \in Present(dir) \cap Allowed}
  BY ListIsDone
<1>2. Beginnings /\ Fetched(Len(args) + 1)
  BY DEF SteadyInv, Progress
<1>3. /\ Len(args) \in Nat
      /\ \A i \in 1 .. Len(args) : args[i] \in Files
      /\ \A f \in Files : origin[f] \in Seq(Units)
  BY ArgTypes
<1>4. \A i \in 1 .. Len(args) : dir[args[i]] = origin[args[i]]
  BY <1>2, <1>3 DEF Fetched, IsWhole
<1>5. Named \subseteq Present(dir)
  BY <1>3, <1>4, ImportAssumption DEF Named, Present
<1>6. Present(dir) \subseteq Named
  BY <1>2 DEF Beginnings, Named
<1>7. \A f \in Named : EntryOf(f, dir) = EntryOf(f, origin)
  BY <1>4 DEF Named, EntryOf
<1>8. {EntryOf(f, dir) : f \in Present(dir) \cap Allowed} =
          {EntryOf(f, origin) : f \in Named \cap Allowed}
  BY <1>5, <1>6, <1>7
<1>9. ASSUME NamesDiffer PROVE StrictlyAscending(out)
  <2>1. \A f, g \in Present(dir) \cap Allowed : Rel[f] = Rel[g] => f = g
    BY <1>6, <1>9 DEF NamesDiffer, Named
  <2>2. out \in Seq(Entry) /\ Present(dir) \cap Allowed \in SUBSET Files
    BY DEF TypeOK, ImportOK, Present
  <2> QED
    BY <1>1, <2>1, <2>2, DistinctNames
<1> QED
  BY <1>1, <1>8, <1>9

LEMMA StepRecord ==
    ASSUME TypeOK, ImportInv, SteadyInv, RecordInv, [Next]_vars
    PROVE  /\ RecordInv'
           /\ Steady /\ NamesDiffer /\ published # <<>> => published' = published
<1>1. faults' = faults
  BY DEF Next, Run, Start, SkipPresent, Request, Get, GetRefused, Chunk, StreamEnds,
         WalkWork, ImportFile, NothingToImport, Publish, End, OriginMoves, vars, world
<1>2. CASE ~Steady
  BY <1>1, <1>2 DEF RecordInv, Steady
<1>3. CASE Steady /\ Publish
  <2>1. /\ proc = "importing" /\ todo = {}
        /\ published' = out /\ args' = args /\ origin' = origin
    BY <1>3 DEF Publish, world
  <2>2. /\ NamesDiffer => StrictlyAscending(out)
        /\ {out[i] : i \in 1 .. Len(out)} =
               {EntryOf(f, origin) : f \in Named \cap Allowed}
    BY <1>3, <2>1, ListedIsTheRecord
  <2>3. RecordInv'
    BY <2>1, <2>2 DEF RecordInv, StrictlyAscending, NamesDiffer, Named, EntryOf
  <2>4. NamesDiffer /\ published # <<>> => out = published
    <3>1. out \in Seq(Entry) /\ published \in Seq(Entry)
      BY DEF TypeOK, ImportOK
    <3> QED
      BY <1>3, <2>2, <3>1, AscendingIsUnique DEF RecordInv
  <2> QED
    BY <2>1, <2>3, <2>4
<1>4. CASE Steady /\ ~Publish
  <2>1. \A f \in Files : ~OriginMoves(f)
    BY <1>4 DEF Steady, OriginMoves
  <2>2. \A a \in ArgLists : Start(a) => a = args
    BY <1>4 DEF Steady, Start
  <2>3. UNCHANGED <<published, args, origin>>
    BY <1>4, <2>1, <2>2
       DEF Next, Run, Start, SkipPresent, Request, Get, GetRefused, Chunk, StreamEnds,
           WalkWork, ImportFile, NothingToImport, End, vars, world
  <2>4. CASE published = <<>>
    BY <2>3, <2>4 DEF RecordInv
  <2>5. CASE published # <<>>
    <3>1. /\ NamesDiffer => StrictlyAscending(published)
          /\ {published[i] : i \in 1 .. Len(published)} =
                 {EntryOf(f, origin) : f \in Named \cap Allowed}
      BY <1>4, <2>5 DEF RecordInv
    <3>2. NamesDiffer' => StrictlyAscending(published)'
      BY <2>3, <3>1 DEF NamesDiffer, StrictlyAscending
    <3>3. {published[i] : i \in 1 .. Len(published)}' =
              {EntryOf(f, origin) : f \in Named \cap Allowed}'
      BY <2>3, <3>1 DEF Named, EntryOf
    <3> QED
      BY <3>2, <3>3, <2>3 DEF RecordInv
  <2> QED
    BY <2>3, <2>4, <2>5
<1> QED
  BY <1>2, <1>3, <1>4

(***************************************************************************)
(* Whatever an outage does to the work directory, a node is up only when   *)
(* it holds every file of the record: for any lists of files, any number   *)
(* of ended processes, files truncated again after they were published     *)
(* included.                                                               *)
(***************************************************************************)
THEOREM AnchorHoldsItsRecord == Spec => []PublishedIsHeld
<1>1. Init => ImportInv /\ SteadyInv /\ RecordInv
  BY InitSteady DEF Init, ImportInv, RecordInv
<1>2. /\ TypeOK /\ ImportInv /\ SteadyInv /\ RecordInv
      /\ [Next]_vars
      => ImportInv' /\ SteadyInv' /\ RecordInv'
  BY StepImport, StepSteady, StepRecord
<1>3. TypeOK /\ SteadyInv /\ RecordInv => PublishedIsHeld
  <2> SUFFICES ASSUME TypeOK, SteadyInv, RecordInv, Steady,
                      proc \in {"importing", "serving"},
                      NEW i \in 1 .. Len(published)
               PROVE  \E f \in Present(dir) : published[i] = EntryOf(f, dir)
    BY DEF PublishedIsHeld, Steady
  <2>1. published # <<>>
    OBVIOUS
  <2>2. PICK f \in Named \cap Allowed : published[i] = EntryOf(f, origin)
    BY <2>1 DEF RecordInv
  <2>3. Fetched(Len(args) + 1)
    BY DEF SteadyInv, Progress
  <2>4. PICK k \in 1 .. Len(args) : f = args[k]
    BY DEF Named
  <2>5. dir[f] = origin[f] /\ f \in Files /\ origin[f] # Absent
    BY <2>3, <2>4, ArgTypes, ImportAssumption DEF Fetched, IsWhole
  <2> QED
    BY <2>2, <2>5 DEF Present, EntryOf
<1> QED
  BY <1>1, <1>2, <1>3, TypeCorrect, PTL DEF Spec

(***************************************************************************)
(* The record is complete: what is published lists every file of --files   *)
(* that may be listed, whole, and no other, wherever processes end.        *)
(***************************************************************************)
THEOREM TheRecordIsComplete == Spec => []RecordIsTheOrigin
<1>1. Init => ImportInv /\ SteadyInv /\ RecordInv
  BY InitSteady DEF Init, ImportInv, RecordInv
<1>2. /\ TypeOK /\ ImportInv /\ SteadyInv /\ RecordInv
      /\ [Next]_vars
      => ImportInv' /\ SteadyInv' /\ RecordInv'
  BY StepImport, StepSteady, StepRecord
<1>3. RecordInv => RecordIsTheOrigin
  BY DEF RecordInv, RecordIsTheOrigin, Steady, Named
<1> QED
  BY <1>1, <1>2, <1>3, TypeCorrect, PTL DEF Spec

(***************************************************************************)
(* "Idempotent across restarts" (bitmodel-anchor.service): whatever is     *)
(* broken off and however often the script starts again, it publishes the  *)
(* record that is there, unless --files or the origin has changed, a       *)
(* length was wrong or two of --files have one name.                       *)
(***************************************************************************)
THEOREM RestartsAreIdempotent == Spec => Idempotent
<1>1. Init => ImportInv /\ SteadyInv /\ RecordInv
  BY InitSteady DEF Init, ImportInv, RecordInv
<1>2. /\ TypeOK /\ ImportInv /\ SteadyInv /\ RecordInv
      /\ [Next]_vars
      => /\ ImportInv' /\ SteadyInv' /\ RecordInv'
         /\ [/\ faults \subseteq {"gone", "headless"} /\ NamesDiffer
             /\ published # <<>>
             => published' = published]_published
  BY StepImport, StepSteady, StepRecord DEF Steady
<1> QED
  BY <1>1, <1>2, TypeCorrect, PTL DEF Spec, Idempotent
-----------------------------------------------------------------------------
(***************************************************************************)
(* "any validator/seeder importing the same files produces the same        *)
(* collection hash" (node/src/collection.rs): when the names of the        *)
(* directory's allowed files differ, a list of these files in the order of *)
(* their names can only be the one import_dir makes.                       *)
(***************************************************************************)
IsListOf(s, d) ==
    s \in Seq(Entry) /\ Ascending(s) /\ Lists(s, Present(d) \cap Allowed, d)

ListedNamesDiffer(d) ==
    \A f, g \in Present(d) \cap Allowed : Rel[f] = Rel[g] => f = g

OnlyList(l, d) ==
    /\ IsListOf(l, d)
    /\ ListedNamesDiffer(d) => \A s : IsListOf(s, d) => s = l

THEOREM SameFilesSameRecord ==
    Spec => [](proc = "importing" /\ todo = {} => OnlyList(out, dir))
<1>1. TypeOK /\ ImportInv => (proc = "importing" /\ todo = {} => OnlyList(out, dir))
  <2> SUFFICES ASSUME TypeOK, ImportInv, proc = "importing", todo = {}
               PROVE  OnlyList(out, dir)
    OBVIOUS
  <2>1. IsListOf(out, dir)
    BY ListIsDone DEF TypeOK, ImportOK, IsListOf
  <2>2. ASSUME ListedNamesDiffer(dir), NEW s, IsListOf(s, dir) PROVE s = out
    <3>1. Present(dir) \cap Allowed \in SUBSET Files
      BY DEF Present
    <3>2. StrictlyAscending(s) /\ StrictlyAscending(out)
      BY <2>1, <2>2, <3>1, DistinctNames DEF IsListOf, ListedNamesDiffer
    <3> DEFINE F == Present(dir) \cap Allowed
    <3>3. {s[i] : i \in 1 .. Len(s)} = {EntryOf(f, dir) : f \in F}
      <4>1. Lists(s, F, dir)
        BY <2>2 DEF IsListOf
      <4> HIDE DEF F
      <4> QED
        BY <4>1, EntriesListed
    <3>4. {out[i] : i \in 1 .. Len(out)} = {EntryOf(f, dir) : f \in F}
      BY ListIsDone
    <3>5. {s[i] : i \in 1 .. Len(s)} = {out[i] : i \in 1 .. Len(out)}
      BY <3>3, <3>4
    <3> QED
      BY <2>1, <2>2, <3>2, <3>5, AscendingIsUnique DEF IsListOf
  <2> QED
    BY <2>1, <2>2 DEF OnlyList
<1>2. Init => ImportInv
  BY DEF Init, ImportInv
<1>3. TypeOK /\ ImportInv /\ [Next]_vars => ImportInv'
  BY StepImport
<1> QED
  BY <1>1, <1>2, <1>3, TypeCorrect, PTL DEF Spec
-----------------------------------------------------------------------------
(***************************************************************************)
(* A file the run is past is there; nothing ever removes it.               *)
(***************************************************************************)
Kept(n) == \A i \in 1 .. Len(args) : i < n => dir[args[i]] # Absent

KeptInv ==
    /\ proc \in {"heading", "getting", "writing"} => Kept(at)
    /\ proc \in {"importing", "serving"} => Kept(Len(args) + 1)

LEMMA StepKept == TypeOK /\ KeptInv /\ [Next]_vars => KeptInv'
<1> SUFFICES ASSUME TypeOK, KeptInv, [Next]_vars PROVE KeptInv'
  OBVIOUS
<1>0. /\ Len(args) \in Nat
      /\ \A i \in 1 .. Len(args) : args[i] \in Files
      /\ proc \in {"getting", "writing"} => at \in 1 .. Len(args)
  BY ArgTypes
<1>1. ASSUME NEW a \in ArgLists, Start(a) PROVE KeptInv'
  <2>1. Len(a) \in Nat
    BY ValidatorAssumption
  <2> QED
    BY <1>1, <2>1 DEF Start, KeptInv, Kept
<1>2. CASE SkipPresent
  BY <1>0, <1>2 DEF SkipPresent, Fetching, SameSize, KeptInv, Kept, TypeOK
<1>3. CASE Get
  <2>1. dir' = [dir EXCEPT ![args[at]] = <<>>] /\ <<>> \in Seq(Units)
    BY <1>3 DEF Get
  <2>2. \A f \in Files : dir[f] # Absent => dir'[f] # Absent
    BY <2>1, ImportAssumption DEF TypeOK
  <2> QED
    BY <1>0, <1>3, <2>2 DEF Get, KeptInv, Kept
<1>4. CASE Chunk
  <2>1. args[at] \in Files /\ dir[args[at]] \in Seq(Units)
    BY <1>0, <1>4 DEF TypeOK, Chunk
  <2>2. body[Written + 1] \in Units
    BY <1>4, <2>1 DEF Chunk, Written, TypeOK
  <2>3. Append(dir[args[at]], body[Written + 1]) \in Seq(Units)
    BY <2>1, <2>2
  <2>4. \A f \in Files : dir[f] # Absent => dir'[f] # Absent
    BY <1>4, <2>3, ImportAssumption DEF TypeOK, Chunk
  <2> QED
    BY <1>0, <1>4, <2>4 DEF Chunk, KeptInv, Kept
<1>5. CASE StreamEnds
  BY <1>0, <1>5 DEF StreamEnds, KeptInv, Kept, TypeOK
<1>6. CASE WalkWork
  BY <1>0, <1>6 DEF WalkWork, KeptInv, Kept, TypeOK
<1>7. CASE Request \/ ImportFile \/ Publish
  BY <1>7 DEF Request, Fetching, ImportFile, Publish, KeptInv, Kept
<1>8. CASE GetRefused \/ NothingToImport \/ End
  BY <1>8 DEF GetRefused, NothingToImport, End, KeptInv
<1>9. ASSUME NEW f \in Files, OriginMoves(f) PROVE KeptInv'
  BY <1>9 DEF OriginMoves, KeptInv, Kept
<1>10. CASE UNCHANGED vars
  BY <1>10 DEF vars, KeptInv, Kept
<1> QED
  BY <1>1, <1>2, <1>3, <1>4, <1>5, <1>6, <1>7, <1>8, <1>9, <1>10 DEF Next, Run

LEMMA PhasesInOrder ==
    /\ Phase["down"] = 0 /\ Phase["heading"] = 1 /\ Phase["getting"] = 1
    /\ Phase["writing"] = 1 /\ Phase["importing"] = 2 /\ Phase["serving"] = 3
    /\ FetchPoint["heading"] = 1 /\ FetchPoint["getting"] = 2
    /\ FetchPoint["writing"] = 3
BY DEF Phase, FetchPoint

(***************************************************************************)
(* A directory with a file that may be listed is not an empty import.      *)
(***************************************************************************)
LEMMA SomethingToImport ==
    ASSUME TypeOK, ImportInv, KeptInv, proc = "importing", todo = {},
           \E i \in 1 .. Len(args) : args[i] \in Allowed
    PROVE  out # <<>>
<1>1. PICK i \in 1 .. Len(args) : args[i] \in Allowed
  OBVIOUS
<1>2. args[i] \in Present(dir) \cap Allowed
  BY <1>1, ArgTypes DEF KeptInv, Kept, Present
<1>3. EntryOf(args[i], dir) \in {out[j] : j \in 1 .. Len(out)}
  BY <1>2, ListIsDone
<1> QED
  BY <1>3

(***************************************************************************)
(* Between two ends of the process every step brings the anchor closer to  *)
(* seeding, for any files, contents, lists and lengths, and from any       *)
(* partial files: the part of AnchorServes that is not fairness.           *)
(***************************************************************************)
THEOREM AnchorGetsOn == Spec => AnchorAdvances
<1> DEFINE Moves == <<proc, at, dir, todo>>' # <<proc, at, dir, todo>>
           May == /\ "gone" \notin faults
                  /\ \E i \in 1 .. Len(args) : args[i] \in Allowed
                  /\ ends' = ends
           GetsOn == Phase[proc'] > Phase[proc] \/ FetchesOn \/ ImportsOn
<1>1. Init => KeptInv
  BY DEF Init, KeptInv
<1>2. TypeOK /\ KeptInv /\ [Next]_vars => KeptInv'
  BY StepKept
<1>3. TypeOK /\ ImportInv /\ KeptInv /\ [Next]_vars => [May /\ Moves => GetsOn]_vars
  <2> SUFFICES ASSUME TypeOK, ImportInv, KeptInv, Next, May, Moves PROVE GetsOn
    OBVIOUS
  <2>0. /\ Len(args) \in Nat /\ at \in Nat
        /\ proc \in {"getting", "writing"} => at \in 1 .. Len(args)
    BY ArgTypes DEF TypeOK
  <2>1. ASSUME NEW a \in ArgLists, Start(a) PROVE GetsOn
    BY <2>1, PhasesInOrder DEF Start
  <2>2. CASE SkipPresent
    BY <2>0, <2>2, PhasesInOrder DEF SkipPresent, Fetching, FetchesOn
  <2>3. CASE Request \/ Get
    BY <2>3, PhasesInOrder DEF Request, Get, Fetching, FetchesOn
  <2>4. CASE Chunk
    <3>1. args[at] \in Files /\ dir[args[at]] \in Seq(Units)
      BY <2>0, <2>4, ArgTypes DEF TypeOK, Chunk
    <3>2. body[Written + 1] \in Units /\ Len(body) \in Nat /\ Written \in Nat
      BY <2>4, <3>1 DEF Chunk, Written, TypeOK
    <3>3. dir'[args[at]] = Append(dir[args[at]], body[Written + 1])
      BY <2>4, <3>1 DEF Chunk, TypeOK
    <3>4. Written' = Written + 1
      BY <2>4, <3>1, <3>2, <3>3 DEF Chunk, Written
    <3> QED
      BY <2>4, <3>2, <3>4, PhasesInOrder DEF Chunk, FetchesOn
  <2>5. CASE StreamEnds
    BY <2>0, <2>5, PhasesInOrder DEF StreamEnds, FetchesOn
  <2>6. CASE WalkWork \/ Publish
    BY <2>6, PhasesInOrder DEF WalkWork, Publish
  <2>7. CASE ImportFile
    BY <2>7 DEF ImportFile, SkipFile, AddFile, ImportsOn
  <2>8. CASE NothingToImport
    BY <2>8, SomethingToImport DEF NothingToImport
  <2>9. CASE GetRefused \/ End
    BY <2>9 DEF GetRefused, End, TypeOK
  <2>10. ASSUME NEW f \in Files, OriginMoves(f) PROVE GetsOn
    BY <2>10 DEF OriginMoves, import
  <2> QED
    BY <2>1, <2>2, <2>3, <2>4, <2>5, <2>6, <2>7, <2>8, <2>9, <2>10 DEF Next, Run
<1>4. Init => ImportInv
  BY DEF Init, ImportInv
<1>5. TypeOK /\ ImportInv /\ [Next]_vars => ImportInv'
  BY StepImport
<1> QED
  BY <1>1, <1>2, <1>3, <1>4, <1>5, TypeCorrect, PTL DEF Spec, AnchorAdvances
=========================================================================
