---------------------------- MODULE VerifiedFile ----------------------------
(***************************************************************************)
(* verified.py on top of PythonClient: read_verified_file and its async    *)
(* form read a file of one revision in two calls of the client, inspect for *)
(* the digest and read_file for the bytes, and compare the two.             *)
(*                                                                         *)
(* Revisions never change.  The service answers inspect with the manifest   *)
(* of some revision, which need not be the one asked for, and read_file     *)
(* with any content.  A content stands for itself, its size and its digest. *)
(***************************************************************************)
EXTENDS PythonClient

CONSTANTS
  first, second,          \* the two calls of the reader
  Revisions,              \* immutable revisions
  FileOf,                 \* the content of the path in each, None without it
  Asked                   \* the revision that is read

Manifests == {[id |-> r, file |-> FileOf[r]] : r \in Revisions}

ASSUME VerifiedAssumption ==
  /\ Asked \in Revisions
  /\ \A mode \in {"sync", "async"} :
       Answers[<<mode, "contexts", "inspect">>] \subseteq Manifests
  /\ first \in Calls \ Mutations /\ second \in Calls \ (Mutations \union {first})

VARIABLE reader           \* the state of the reader, in either form

readerVars == <<vars, reader>>

ReaderAt(label) == reader.pc = label

ReaderInit ==
  /\ Init
  /\ reader \in [mode : {"sync", "async"}, pc : {"idle"},
                 file : {None}, bytes : {None}]

(* Both calls name the revision by its ID.                                 *)
StartRead ==
  /\ ReaderAt("idle")
  /\ Cardinality(Begun) < MaxCalls
  /\ Begin(first, <<reader.mode, "contexts", "inspect">>, FALSE)
  /\ reader' = [reader EXCEPT !.pc = "inspect"]

MutantManifest(manifest) == manifest.file # None

(* _manifest: the revision is the one asked for and lists the file.        *)
Manifest(manifest) == manifest.id = Asked /\ manifest.file # None

MutantInspected ==
  /\ ReaderAt("inspect")
  /\ At(first, "over")
  /\ call[first].outcome = "data" /\ Manifest(call[first].value)
  /\ Begin(second, <<reader.mode, "contexts", "read_file">>, TRUE)
  /\ reader' = [reader EXCEPT !.pc = "read", !.file = call[first].value.file]

Inspected ==
  /\ ReaderAt("inspect")
  /\ At(first, "over")
  /\ IF call[first].outcome = "data" /\ Manifest(call[first].value)
     THEN /\ Begin(second, <<reader.mode, "contexts", "read_file">>, TRUE)
          /\ reader' = [reader EXCEPT !.pc = "read",
                                      !.file = call[first].value.file]
     ELSE /\ reader' = [reader EXCEPT !.pc = "over"]
          /\ UNCHANGED vars

(* _verify: size and digest are those of the manifest, or nothing is       *)
(* returned.                                                                *)
Verified ==
  /\ ReaderAt("read")
  /\ At(second, "over")
  /\ reader' = IF call[second].outcome = "data" /\ call[second].value = reader.file
               THEN [reader EXCEPT !.pc = "over", !.bytes = call[second].value]
               ELSE [reader EXCEPT !.pc = "over"]
  /\ UNCHANGED vars

ReaderStep == Inspected \/ Verified

ReaderNext ==
  \/ Next /\ UNCHANGED reader
  \/ StartRead
  \/ ReaderStep

ReaderSpec == ReaderInit /\ [][ReaderNext]_readerVars

(* A provider of tokens returns, every phase of a request has a time limit,*)
(* a body a size limit, and a reader that is not suspended runs on.         *)
FairReaderSpec ==
  /\ ReaderSpec
  /\ \A c \in Calls : WF_readerVars(Step(c) /\ UNCHANGED reader)
  /\ WF_readerVars(ReaderStep)

-----------------------------------------------------------------------------

(* What a verified read returns is the file of the revision it was asked   *)
(* for, whichever revision the service inspects and whatever bytes it sends,*)
(* and however often either call is tried again.                            *)
ReadIsPinned == reader.bytes # None => reader.bytes = FileOf[Asked]

(* A verified read ends.                                                   *)
ReadEnds == ReaderAt("inspect") ~> ReaderAt("over")
=============================================================================
