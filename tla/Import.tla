----------------------------- MODULE Import -----------------------------
(***************************************************************************)
(* import_dir of node/src/collection.rs: the files of a directory become   *)
(* the entries of a manifest, sorted by relative name, so that everybody   *)
(* who imports the same files gets the same collection.                    *)
(*                                                                         *)
(* A file's bytes are a sequence of units.  BLAKE3 is injective on them,   *)
(* so the bytes stand for their hash.                                      *)
(***************************************************************************)
EXTENDS Integers, Sequences, FiniteSets

CONSTANTS
    Files,      \* the files the directory may hold
    Rel,        \* file |-> its relative name, a number in the order of String::cmp
    Allowed,    \* the files whose extension is in ALLOWED_EXTENSIONS
    Units,      \* what bytes are made of
    Absent      \* a file that is not there

ASSUME ImportAssumption ==
    /\ Rel \in [Files -> Nat]
    /\ Allowed \subseteq Files
    /\ Absent \notin Seq(Units)

VARIABLES
    todo,       \* `found' in the code: files found and not yet reached by the loop
    out         \* the entries made so far

import == <<todo, out>>

Entry == [path : Nat, size : Nat, blake3 : Seq(Units)]

ImportOK == todo \subseteq Files /\ out \in Seq(Entry)

(***************************************************************************)
(* SeededFile and FileEntry: name, length and hash.                        *)
(* Mutant: the name under which the file was opened, not the relative one. *)
(***************************************************************************)
EntryAbsolute(f, dir) == [path |-> f, size |-> Len(dir[f]), blake3 |-> dir[f]]

EntryOf(f, dir) == [path |-> Rel[f], size |-> Len(dir[f]), blake3 |-> dir[f]]

(***************************************************************************)
(* is_allowed(f).                                                          *)
(***************************************************************************)
IsAllowed(f) == f \in Allowed

Present(dir) == {f \in Files : dir[f] # Absent}

(***************************************************************************)
(* walk(): every file below the directory, in whatever order read_dir      *)
(* gives them.                                                             *)
(***************************************************************************)
Walk(dir) ==
    /\ todo' = Present(dir)
    /\ out' = <<>>

(***************************************************************************)
(* found.sort_by(): the loop goes on with a file of the smallest name.     *)
(* Mutant: the order of read_dir.                                          *)
(***************************************************************************)
FirstFound(f) == f \in todo

First(f) == f \in todo /\ \A g \in todo : Rel[f] <= Rel[g]

SkipFile(f) ==
    /\ First(f)
    /\ ~IsAllowed(f)
    /\ todo' = todo \ {f}
    /\ UNCHANGED out

AddFile(f, dir) ==
    /\ First(f)
    /\ IsAllowed(f)
    /\ todo' = todo \ {f}
    /\ out' = Append(out, EntryOf(f, dir))
=========================================================================
