------------------------------- MODULE Release -------------------------------
(***************************************************************************)
(* A release directory (release.py) and the read path over it              *)
(* (readpath.py).  build_release writes one file per record and then the   *)
(* manifest; it may be killed between or within two writes, and a later    *)
(* build may use the directory again.  serve_record verifies the manifest  *)
(* and every file it lists, and then reads the record's file once more.    *)
(*                                                                         *)
(* A hash is named by the content it is a hash of.  The root hash and the  *)
(* signing block follow from the list of hashes.                           *)
(***************************************************************************)
EXTENDS Integers, FiniteSets

CONSTANTS Records,
          Contents,     \* what a projected record may contain
          Private,      \* the contents with a canary marker
          Builds,       \* what is built: the content of each record
          Readers,
          NoContent,    \* no file
          Torn          \* a file that was cut off while it was written

ASSUME ReleaseAssumption ==
    /\ Records # {}
    /\ Private \subseteq Contents
    /\ {NoContent, Torn} \cap Contents = {}
    /\ NoContent # Torn
    /\ Builds \subseteq [Records -> Contents \cup {NoContent}]

(* A manifest lists the hashes of a build, NoContent for a record it       *)
(* leaves out.                                                             *)
Listed(hashes) == {r \in Records : hashes[r] # NoContent}

(* A manifest that is not there or does not parse. *)
NoManifest == [r \in Records |-> Torn]

VARIABLES file,         \* the records' files
          manifest,     \* the hashes in release-manifest.json
          build,        \* the running build: its records, what is written
          read,         \* each running serve_record; history: the records that
                        \* were written over while it ran
          answer        \* history: the last record that was served

releaseVars == <<file, manifest, build, read, answer>>

NotBuilding == [running |-> FALSE, records |-> NoManifest, written |-> {}]
NotReading == [at |-> "idle", record |-> NoContent, denied |-> FALSE,
               manifest |-> NoManifest, checked |-> {}, overwritten |-> {}]

InitRelease == /\ file = [r \in Records |-> NoContent]
               /\ manifest = NoManifest
               /\ build = NotBuilding
               /\ read = [p \in Readers |-> NotReading]
               /\ answer = {}

-----------------------------------------------------------------------------
(* build_release *)

StartBuild(records) ==
    /\ ~build.running
    /\ build' = [running |-> TRUE, records |-> records, written |-> {}]
    /\ UNCHANGED <<file, manifest, read, answer>>

(* A private canary raises before the record's file is touched. *)
NoScan(content) == TRUE                                             \* mutant
PassesScan(content) == content \notin Private

(* A file is written while others read. *)
Overwrites(r) ==
    read' = [p \in Readers |->
                IF read[p].at = "idle" THEN read[p]
                ELSE [read[p] EXCEPT !.overwritten = @ \cup {r}]]

(* write_bytes truncates the file before it writes. *)
TruncateRecord(r) ==
    /\ build.running
    /\ r \in Listed(build.records) \ build.written
    /\ PassesScan(build.records[r])
    /\ file[r] # Torn
    /\ file' = [file EXCEPT ![r] = Torn]
    /\ Overwrites(r)
    /\ UNCHANGED <<manifest, build, answer>>

WriteRecord(r) ==
    /\ build.running
    /\ r \in Listed(build.records) \ build.written
    /\ PassesScan(build.records[r])
    /\ file[r] = Torn
    /\ file' = [file EXCEPT ![r] = build.records[r]]
    /\ build' = [build EXCEPT !.written = @ \cup {r}]
    /\ Overwrites(r)
    /\ UNCHANGED <<manifest, answer>>

AllRecordsWritten == build.written = Listed(build.records)
SomeRecordsWritten == build.written # {}                            \* mutant

TruncateManifest ==
    /\ build.running
    /\ AllRecordsWritten
    /\ manifest' = NoManifest
    /\ UNCHANGED <<file, build, read, answer>>

WriteManifest ==
    /\ build.running
    /\ AllRecordsWritten
    /\ manifest = NoManifest
    /\ manifest' = build.records
    /\ build' = NotBuilding
    /\ UNCHANGED <<file, read, answer>>

(* The build is killed, or a canary makes it raise. *)
BuildDies == /\ build.running
             /\ build' = NotBuilding
             /\ UNCHANGED <<file, manifest, read, answer>>

-----------------------------------------------------------------------------
(* serve_record; where it raises, the reader is done.  denied: what the    *)
(* overlay says of the record.                                             *)

StartRead(p, r, denied) ==
    /\ read[p] = NotReading
    /\ manifest # NoManifest
    /\ read' = [read EXCEPT ![p] = [at |-> "verify", record |-> r,
                                    denied |-> denied, manifest |-> manifest,
                                    checked |-> {}, overwritten |-> {}]]
    /\ UNCHANGED <<file, manifest, build, answer>>

AnyBytes(p, r) == file[r] # NoContent                               \* mutant
HashMatches(p, r) == file[r] = read[p].manifest[r]

Check(p, r) ==
    /\ read[p].at = "verify"
    /\ r \in Listed(read[p].manifest) \ read[p].checked
    /\ HashMatches(p, r)
    /\ read' = [read EXCEPT ![p].checked = @ \cup {r}]
    /\ UNCHANGED <<file, manifest, build, answer>>

ReadRaises(p) ==
    /\ read[p].at = "verify"
    /\ \E r \in Listed(read[p].manifest) \ read[p].checked : ~HashMatches(p, r)
    /\ read' = [read EXCEPT ![p] = NotReading]
    /\ UNCHANGED <<file, manifest, build, answer>>

(* After verify_release: a tombstone, not found, or the file as it is now, *)
(* unless it does not parse.                                               *)
Serve(p) ==
    LET r == read[p].record IN
    /\ read[p].at = "verify"
    /\ read[p].checked = Listed(read[p].manifest)
    /\ read' = [read EXCEPT ![p] = NotReading]
    /\ answer' = IF /\ ~read[p].denied
                    /\ r \in Listed(read[p].manifest)
                    /\ file[r] # Torn
                 THEN {[record |-> r, body |-> file[r],
                        denied |-> read[p].denied,
                        manifest |-> read[p].manifest,
                        overwritten |-> read[p].overwritten]}
                 ELSE answer
    /\ UNCHANGED <<file, manifest, build>>

NextRelease ==
    \/ \E records \in Builds : StartBuild(records)
    \/ \E r \in Records : TruncateRecord(r) \/ WriteRecord(r)
    \/ TruncateManifest
    \/ WriteManifest
    \/ BuildDies
    \/ \E p \in Readers :
          \/ \E r \in Records, denied \in BOOLEAN : StartRead(p, r, denied)
          \/ \E r \in Records : Check(p, r)
          \/ ReadRaises(p)
          \/ Serve(p)

SpecRelease == InitRelease /\ [][NextRelease]_releaseVars

-----------------------------------------------------------------------------

(* "Serves exactly the signed release artifact bytes, applying the current *)
(* suppression overlay" (readpath.py:3-4): what is served passed the       *)
(* canary scan, is whole, is listed by a manifest that a build finished    *)
(* and is not denied, though the directory may hold a mixture of releases  *)
(* and of builds that died, and change while it is read.  It is, byte for  *)
(* byte, what that manifest lists, unless this very file was written over  *)
(* in this very read: then the second read of the file, which no hash is   *)
(* compared with, may find the bytes of the other build.                   *)
ServedIsReleased ==
    \A a \in answer :
        /\ a.manifest \in Builds
        /\ a.record \in Listed(a.manifest)
        /\ ~a.denied
        /\ a.body \in Contents \ Private
        /\ a.record \notin a.overwritten => a.body = a.manifest[a.record]

(* What "exactly the signed release artifact bytes" says, and does not     *)
(* hold when a build writes into the directory between the two reads.      *)
ServedIsVerified == \A a \in answer : a.body = a.manifest[a.record]

=============================================================================
