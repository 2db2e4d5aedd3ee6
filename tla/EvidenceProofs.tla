--------------------------- MODULE EvidenceProofs ---------------------------
(***************************************************************************)
(* Theorems about the files the evidence is served from: the evidence      *)
(* store (any bytes, writers and temporary names) and the release          *)
(* directory (any records, contents, builds and readers).  Each part has   *)
(* its own state and invariant.                                            *)
(***************************************************************************)
EXTENDS EvidenceStore, Release, TLAPS

-----------------------------------------------------------------------------
(* The evidence store. *)

USE EvidenceStoreAssumption

TypeOKStore ==
    /\ blob \in [Digests -> Files \cup {NoFile}]
    /\ tmp \in [Digests -> Files \cup {NoFile}]
    /\ content \in [Files -> SUBSET Nat]
    /\ free \subseteq Files
    /\ put \in [Writers -> [at : {"idle", "open", "write"},
                            digest : Digests \cup {NoFile},
                            file : Files \cup {NoFile}, written : Nat]]
    /\ \A w \in Writers : put[w].at # "idle" => put[w].digest \in Digests

(* A digest is put by one writer, and only while it has no blob. *)
OneWriterEach ==
    /\ \A v, w \in Writers : \A d \in Digests :
          Busy(v, d) /\ Busy(w, d) => v = w
    /\ \A w \in Writers : \A d \in Digests : Busy(w, d) => blob[d] = NoFile

(* A file has one name, so nobody writes to a file that has another. *)
NamesAreApart ==
    /\ \A d \in Digests : tmp[d] \notin free /\ blob[d] \notin free
    /\ \A d, e \in Digests : tmp[d] # NoFile => /\ tmp[d] # blob[e]
                                                /\ tmp[d] = tmp[e] => d = e

(* A writer fills the file that has its digest's .tmp name. *)
WritersAreOnTrack ==
    \A w \in Writers : put[w].at = "write" =>
        /\ put[w].file \in Files
        /\ put[w].file = tmp[put[w].digest]
        /\ content[put[w].file] = 1..put[w].written

IInvStore == /\ TypeOKStore
             /\ OneWriterEach
             /\ NamesAreApart
             /\ WritersAreOnTrack
             /\ StoredBlobIsWhole

LEMMA InitIInvStore == InitStore => IInvStore
<1> SUFFICES ASSUME InitStore PROVE IInvStore
  OBVIOUS
<1> USE DEF InitStore, Idle
<1>1. TypeOKStore
  BY DEF TypeOKStore
<1>2. OneWriterEach /\ WritersAreOnTrack
  BY DEF OneWriterEach, WritersAreOnTrack, Busy
<1>3. NamesAreApart /\ StoredBlobIsWhole
  BY DEF NamesAreApart, StoredBlobIsWhole
<1> QED
  BY <1>1, <1>2, <1>3 DEF IInvStore

LEMMA PutKeepsIInvStore ==
    ASSUME OneWriter, IInvStore, NEW w \in Writers, NEW d \in Digests, Put(w, d)
    PROVE  IInvStore'
<1>1. /\ put' = [put EXCEPT ![w] = [at |-> "open", digest |-> d,
                                    file |-> NoFile, written |-> 0]]
      /\ blob' = blob /\ tmp' = tmp /\ content' = content /\ free' = free
      /\ blob[d] = NoFile
      /\ \A v \in Writers : ~Busy(v, d)
  BY DEF Put
<1>2. TypeOKStore'
  BY <1>1 DEF IInvStore, TypeOKStore
<1>3. \A v \in Writers : put'[v] = IF v = w
          THEN [at |-> "open", digest |-> d, file |-> NoFile, written |-> 0]
          ELSE put[v]
  BY <1>1 DEF IInvStore, TypeOKStore
<1>4. OneWriterEach'
  BY <1>1, <1>3 DEF IInvStore, OneWriterEach, Busy
<1>5. WritersAreOnTrack'
  BY <1>1, <1>3 DEF IInvStore, WritersAreOnTrack
<1> QED
  BY <1>1, <1>2, <1>4, <1>5 DEF IInvStore, NamesAreApart, StoredBlobIsWhole

LEMMA OpenKeepsIInvStore ==
    ASSUME IInvStore, NEW w \in Writers, NEW f \in Files, Open(w, f)
    PROVE  IInvStore'
<1> PICK d : d = put[w].digest
  OBVIOUS
<1>1. /\ put[w].at = "open"
      /\ f \in Opened(d)
      /\ tmp' = [tmp EXCEPT ![d] = f]
      /\ free' = free \ {f}
      /\ content' = [content EXCEPT ![f] = {}]
      /\ put' = [put EXCEPT ![w] = [at |-> "write", digest |-> d,
                                    file |-> f, written |-> 0]]
      /\ blob' = blob
  BY DEF Open
<1>2. d \in Digests /\ Busy(w, d)
  BY <1>1 DEF IInvStore, TypeOKStore, Busy
<1>3. /\ \A e \in Digests : tmp'[e] = IF e = d THEN f ELSE tmp[e]
      /\ \A g \in Files : content'[g] = IF g = f THEN {} ELSE content[g]
      /\ \A v \in Writers : put'[v] = IF v = w
            THEN [at |-> "write", digest |-> d, file |-> f, written |-> 0]
            ELSE put[v]
  BY <1>1 DEF IInvStore, TypeOKStore
(* The file opened has no name but, perhaps, this digest's .tmp. *)
<1>4. \A e \in Digests : /\ f # blob[e]
                         /\ f = tmp[e] => e = d
  BY <1>1, <1>2 DEF Opened, IInvStore, NamesAreApart
<1>5. TypeOKStore'
  BY <1>1, <1>2 DEF IInvStore, TypeOKStore
<1>6. OneWriterEach'
  <2>1. \A v \in Writers, e \in Digests : Busy(v, e)' <=> Busy(v, e)
    BY <1>1, <1>2, <1>3 DEF Busy
  <2> QED
    BY <1>1, <2>1 DEF IInvStore, OneWriterEach
<1>7. NamesAreApart'
  BY <1>1, <1>2, <1>3, <1>4 DEF IInvStore, NamesAreApart, TypeOKStore
<1>8. WritersAreOnTrack'
  <2> SUFFICES ASSUME NEW v \in Writers, put'[v].at = "write"
               PROVE  /\ put'[v].file \in Files
                      /\ put'[v].file = tmp'[put'[v].digest]
                      /\ content'[put'[v].file] = 1..put'[v].written
    BY DEF WritersAreOnTrack
  <2>1. CASE v = w
    BY <1>2, <1>3, <2>1
  <2>2. CASE v # w
    <3>1. /\ put'[v] = put[v] /\ put[v].at = "write"
          /\ put[v].digest \in Digests
          /\ put[v].file \in Files /\ put[v].file = tmp[put[v].digest]
          /\ content[put[v].file] = 1..put[v].written
      BY <1>3, <2>2 DEF IInvStore, WritersAreOnTrack, TypeOKStore
    <3>2. put[v].digest # d
      BY <1>2, <2>2, <3>1 DEF IInvStore, OneWriterEach, Busy
    <3>3. put[v].file # f
      BY <1>4, <3>1, <3>2
    <3> QED
      BY <1>3, <3>1, <3>2, <3>3
  <2> QED
    BY <2>1, <2>2
<1>9. StoredBlobIsWhole'
  BY <1>1, <1>3, <1>4 DEF IInvStore, StoredBlobIsWhole, TypeOKStore
<1> QED
  BY <1>5, <1>6, <1>7, <1>8, <1>9 DEF IInvStore

LEMMA WriteKeepsIInvStore ==
    ASSUME IInvStore, NEW w \in Writers, Write(w)
    PROVE  IInvStore'
<1> PICK d, f, k : d = put[w].digest /\ f = put[w].file /\ k = put[w].written
  OBVIOUS
<1>1. /\ put[w].at = "write"
      /\ content' = [content EXCEPT ![f] = @ \cup {k + 1}]
      /\ put' = [put EXCEPT ![w] = [at |-> "write", digest |-> d,
                                    file |-> f, written |-> k + 1]]
      /\ blob' = blob /\ tmp' = tmp /\ free' = free
  BY DEF Write
<1>2. /\ d \in Digests /\ k \in Nat /\ f \in Files /\ f = tmp[d]
      /\ content[f] = 1..k
      /\ Busy(w, d)
  BY <1>1 DEF IInvStore, TypeOKStore, WritersAreOnTrack, Busy
<1>3. 1..(k + 1) = 1..k \cup {k + 1}
  BY <1>2
<1>4. /\ \A g \in Files : content'[g] = IF g = f THEN 1..(k + 1)
                                        ELSE content[g]
      /\ \A v \in Writers : put'[v] = IF v = w
            THEN [at |-> "write", digest |-> d, file |-> f, written |-> k + 1]
            ELSE put[v]
  BY <1>1, <1>2, <1>3 DEF IInvStore, TypeOKStore
<1>5. TypeOKStore'
  <2>1. content' \in [Files -> SUBSET Nat]
    BY <1>1, <1>2 DEF IInvStore, TypeOKStore
  <2> QED
    BY <1>1, <1>2, <2>1 DEF IInvStore, TypeOKStore
<1>6. OneWriterEach'
  <2>1. \A v \in Writers, e \in Digests : Busy(v, e)' <=> Busy(v, e)
    BY <1>1, <1>4 DEF Busy
  <2> QED
    BY <1>1, <2>1 DEF IInvStore, OneWriterEach
<1>7. WritersAreOnTrack'
  <2> SUFFICES ASSUME NEW v \in Writers, put'[v].at = "write"
               PROVE  /\ put'[v].file \in Files
                      /\ put'[v].file = tmp'[put'[v].digest]
                      /\ content'[put'[v].file] = 1..put'[v].written
    BY DEF WritersAreOnTrack
  <2>1. CASE v = w
    <3>1. put'[v].file = f /\ put'[v].digest = d /\ put'[v].written = k + 1
      BY <1>4, <2>1
    <3> QED
      BY <1>1, <1>2, <1>4, <3>1
  <2>2. CASE v # w
    <3>1. /\ put'[v] = put[v] /\ put[v].at = "write"
          /\ put[v].digest \in Digests
          /\ put[v].file \in Files /\ put[v].file = tmp[put[v].digest]
          /\ content[put[v].file] = 1..put[v].written
      BY <1>4, <2>2 DEF IInvStore, WritersAreOnTrack, TypeOKStore
    <3>2. put[v].digest # d
      BY <1>2, <2>2, <3>1 DEF IInvStore, OneWriterEach, Busy
    <3>3. put[v].file # f
      BY <1>2, <3>1, <3>2 DEF IInvStore, NamesAreApart
    <3> QED
      BY <1>1, <1>4, <3>1, <3>3
  <2> QED
    BY <2>1, <2>2
<1>8. StoredBlobIsWhole'
  <2>1. \A e \in Digests : blob[e] # f
    BY <1>2 DEF IInvStore, NamesAreApart
  <2> QED
    BY <1>1, <1>4, <2>1 DEF IInvStore, StoredBlobIsWhole, TypeOKStore
<1> QED
  BY <1>1, <1>5, <1>6, <1>7, <1>8 DEF IInvStore, NamesAreApart

(* Becoming idle takes a writer away and changes nothing for the others. *)
LEMMA LeavingWriters ==
    ASSUME IInvStore, NEW w \in Writers, put' = [put EXCEPT ![w] = Idle]
    PROVE  /\ put' \in [Writers -> [at : {"idle", "open", "write"},
                                    digest : Digests \cup {NoFile},
                                    file : Files \cup {NoFile},
                                    written : Nat]]
           /\ \A v \in Writers : put'[v].at # "idle" =>
                                     put'[v] = put[v] /\ v # w
           /\ \A v \in Writers, e \in Digests : Busy(v, e)' =>
                                     Busy(v, e) /\ v # w
<1>1. Idle \in [at : {"idle", "open", "write"}, digest : Digests \cup {NoFile},
                file : Files \cup {NoFile}, written : Nat]
  BY DEF Idle
<1>2. Idle.at = "idle"
  BY DEF Idle
<1> QED
  BY <1>1, <1>2 DEF IInvStore, TypeOKStore, Busy

LEMMA RenameKeepsIInvStore ==
    ASSUME IInvStore, NEW w \in Writers, Rename(w)
    PROVE  IInvStore'
<1> PICK d, f : d = put[w].digest /\ f = put[w].file
  OBVIOUS
<1>1. /\ put[w].at = "write"
      /\ put[w].written = Size
      /\ put' = [put EXCEPT ![w] = Idle]
      /\ content' = content /\ free' = free
  BY DEF Rename, AllWritten
<1>2. /\ d \in Digests /\ f \in Files /\ f = tmp[d]
      /\ content[f] = 1..Size
      /\ Busy(w, d)
  BY <1>1 DEF IInvStore, TypeOKStore, WritersAreOnTrack, Busy
<1>3. /\ blob' = [blob EXCEPT ![d] = f]
      /\ tmp' = [tmp EXCEPT ![d] = NoFile]
  BY <1>2 DEF Rename
<1>4. \A e \in Digests : /\ blob'[e] = IF e = d THEN f ELSE blob[e]
                         /\ tmp'[e] = IF e = d THEN NoFile ELSE tmp[e]
  BY <1>3 DEF IInvStore, TypeOKStore
<1>5. /\ \A v \in Writers : put'[v].at # "idle" => put'[v] = put[v] /\ v # w
      /\ \A v \in Writers, e \in Digests : Busy(v, e)' => Busy(v, e) /\ v # w
  BY <1>1, LeavingWriters
<1>6. TypeOKStore'
  BY <1>1, <1>2, <1>3, <1>5, LeavingWriters DEF IInvStore, TypeOKStore
<1>7. OneWriterEach'
  <2>1. \A v \in Writers : ~Busy(v, d)'
    BY <1>2, <1>5 DEF IInvStore, OneWriterEach
  <2> QED
    BY <1>4, <1>5, <2>1 DEF IInvStore, OneWriterEach
<1>8. NamesAreApart'
  <2>1. NoFile \notin free
    BY DEF IInvStore, TypeOKStore
  <2>2. f # NoFile
    BY <1>2
  <2>3. \A e \in Digests : tmp'[e] \notin free' /\ blob'[e] \notin free'
    BY <1>1, <1>2, <1>4, <2>1 DEF IInvStore, NamesAreApart
  <2>4. ASSUME NEW a \in Digests, NEW b \in Digests, tmp'[a] # NoFile
        PROVE  tmp'[a] # blob'[b] /\ (tmp'[a] = tmp'[b] => a = b)
    <3>1. a # d /\ tmp'[a] = tmp[a]
      BY <1>4, <2>4
    <3> QED
      BY <1>2, <1>4, <2>2, <2>4, <3>1 DEF IInvStore, NamesAreApart
  <2> QED
    BY <2>3, <2>4 DEF NamesAreApart
<1>9. WritersAreOnTrack'
  <2> SUFFICES ASSUME NEW v \in Writers, put'[v].at = "write"
               PROVE  /\ put'[v].file \in Files
                      /\ put'[v].file = tmp'[put'[v].digest]
                      /\ content'[put'[v].file] = 1..put'[v].written
    BY DEF WritersAreOnTrack
  <2>1. /\ put'[v] = put[v] /\ v # w /\ put[v].at = "write"
        /\ put[v].digest \in Digests
        /\ put[v].file \in Files /\ put[v].file = tmp[put[v].digest]
        /\ content[put[v].file] = 1..put[v].written
    BY <1>5 DEF IInvStore, WritersAreOnTrack, TypeOKStore
  <2>2. put[v].digest # d
    BY <1>2, <2>1 DEF IInvStore, OneWriterEach, Busy
  <2> QED
    BY <1>1, <1>4, <2>1, <2>2
<1>10. StoredBlobIsWhole'
  BY <1>1, <1>2, <1>4 DEF IInvStore, StoredBlobIsWhole
<1> QED
  BY <1>6, <1>7, <1>8, <1>9, <1>10 DEF IInvStore

LEMMA DeathKeepsIInvStore ==
    ASSUME IInvStore, NEW w \in Writers, WriterDies(w)
    PROVE  IInvStore'
<1>1. /\ put' = [put EXCEPT ![w] = Idle]
      /\ blob' = blob /\ tmp' = tmp /\ content' = content /\ free' = free
  BY DEF WriterDies
<1>2. /\ \A v \in Writers : put'[v].at # "idle" => put'[v] = put[v] /\ v # w
      /\ \A v \in Writers, e \in Digests : Busy(v, e)' => Busy(v, e) /\ v # w
  BY <1>1, LeavingWriters
<1>3. TypeOKStore'
  BY <1>1, <1>2, LeavingWriters DEF IInvStore, TypeOKStore
<1>4. OneWriterEach' /\ WritersAreOnTrack'
  BY <1>1, <1>2 DEF IInvStore, OneWriterEach, WritersAreOnTrack
<1> QED
  BY <1>1, <1>3, <1>4 DEF IInvStore, NamesAreApart, StoredBlobIsWhole

LEMMA NextKeepsIInvStore ==
    ASSUME OneWriter
    PROVE  IInvStore /\ [NextStore]_storeVars => IInvStore'
<1> SUFFICES ASSUME IInvStore, [NextStore]_storeVars PROVE IInvStore'
  OBVIOUS
<1>1. ASSUME NEW w \in Writers,
             \/ \E d \in Digests : Put(w, d)
             \/ \E f \in Files : Open(w, f)
             \/ Write(w)
             \/ Rename(w)
             \/ WriterDies(w)
      PROVE  IInvStore'
  BY <1>1, PutKeepsIInvStore, OpenKeepsIInvStore, WriteKeepsIInvStore,
     RenameKeepsIInvStore, DeathKeepsIInvStore
<1>2. CASE UNCHANGED storeVars
  BY <1>2 DEF storeVars, IInvStore, TypeOKStore, OneWriterEach,
              NamesAreApart, WritersAreOnTrack, StoredBlobIsWhole, Busy
<1> QED
  BY <1>1, <1>2 DEF NextStore

(* When a digest is put by one writer at a time, what is at its name is    *)
(* whole, at whatever points writers die (store.py:3, 20-33).              *)
THEOREM StoredBlobsAreWhole ==
    ASSUME OneWriter PROVE SpecStore => []StoredBlobIsWhole
<1>1. IInvStore /\ [NextStore]_storeVars => IInvStore'
  BY NextKeepsIInvStore
<1>2. IInvStore => StoredBlobIsWhole
  BY DEF IInvStore
<1> QED
  BY InitIInvStore, <1>1, <1>2, PTL DEF SpecStore

(* Only whole files have a digest's name, so an object is there or not. *)
Objects(names) ==
    [d \in Digests |-> IF names[d] = NoFile THEN "none" ELSE "whole"]

LEMMA ObjectsOfNames ==
    ASSUME StoredBlobIsWhole
    PROVE  [d \in Digests |-> IF blob[d] = NoFile THEN "none"
                              ELSE IF content[blob[d]] = 1..Size THEN "whole"
                              ELSE "torn"] = Objects(blob)
  BY DEF StoredBlobIsWhole, Objects

LEMMA ObjectsOfNextNames ==
    ASSUME StoredBlobIsWhole'
    PROVE  [d \in Digests |-> IF blob[d] = NoFile THEN "none"
                              ELSE IF content[blob[d]] = 1..Size THEN "whole"
                              ELSE "torn"]' = Objects(blob')
  BY DEF StoredBlobIsWhole, Objects

(* A rename gives a name to a file, all else leaves the names alone. *)
LEMMA NamesAreGivenOnce ==
    ASSUME IInvStore, [NextStore]_storeVars
    PROVE  \/ Objects(blob') = Objects(blob)
           \/ \E d \in Digests :
                 /\ Objects(blob)[d] = "none"
                 /\ Objects(blob') = [Objects(blob) EXCEPT ![d] = "whole"]
<1>1. ASSUME NEW w \in Writers, Rename(w), blob' # blob
      PROVE  \E d \in Digests : /\ d = put[w].digest /\ tmp[d] # NoFile
                                /\ blob' = [blob EXCEPT ![d] = tmp[d]]
  <2>1. put[w].digest \in Digests
    BY <1>1 DEF Rename, IInvStore, TypeOKStore, WritersAreOnTrack, Busy
  <2> QED
    BY <1>1, <2>1 DEF Rename
<1>2. CASE blob' = blob
  BY <1>2 DEF Objects
<1>3. CASE blob' # blob
  <2>1. PICK w \in Writers : Rename(w)
    BY <1>3 DEF NextStore, Put, Open, Write, WriterDies, storeVars
  <2>2. PICK d \in Digests : /\ tmp[d] # NoFile
                             /\ blob' = [blob EXCEPT ![d] = tmp[d]]
    BY <1>1, <1>3, <2>1
  <2>3. DOMAIN blob = Digests
    BY DEF IInvStore, TypeOKStore
  <2>4. Objects(blob') = [Objects(blob) EXCEPT ![d] = "whole"]
    BY <2>2, <2>3 DEF Objects
  <2>5. CASE blob[d] = NoFile
    BY <2>4, <2>5 DEF Objects
  <2>6. CASE blob[d] # NoFile
    BY <2>4, <2>6 DEF Objects
  <2> QED
    BY <2>5, <2>6
<1> QED
  BY <1>2, <1>3

(* When a digest is put by one writer at a time, the file operations of    *)
(* all writers, with their deaths, implement a store in which an object    *)
(* appears whole and stays (store.py:3-4).                                 *)
THEOREM StoreIsWriteOnce ==
    ASSUME OneWriter PROVE SpecStore => KeepsWriteOnce
<1>1. InitStore => Promise!Init
  BY DEF InitStore, Promise!Init
<1>2. IInvStore /\ IInvStore' /\ [NextStore]_storeVars =>
         [Promise!Next]_([d \in Digests |-> IF blob[d] = NoFile THEN "none"
                              ELSE IF content[blob[d]] = 1..Size THEN "whole"
                              ELSE "torn"])
  <2> SUFFICES ASSUME IInvStore, IInvStore', [NextStore]_storeVars
               PROVE  [Promise!Next]_([d \in Digests |->
                              IF blob[d] = NoFile THEN "none"
                              ELSE IF content[blob[d]] = 1..Size THEN "whole"
                              ELSE "torn"])
    OBVIOUS
  <2>1. StoredBlobIsWhole /\ StoredBlobIsWhole'
    BY DEF IInvStore
  <2> QED
    BY <2>1, ObjectsOfNames, ObjectsOfNextNames, NamesAreGivenOnce
       DEF Promise!Next, Promise!Store
<1>3. IInvStore /\ [NextStore]_storeVars => IInvStore'
  BY NextKeepsIInvStore
<1> QED
  BY InitIInvStore, <1>1, <1>2, <1>3, PTL
     DEF SpecStore, KeepsWriteOnce, Promise!Spec

HIDE EvidenceStoreAssumption

-----------------------------------------------------------------------------
(* The release directory. *)

USE ReleaseAssumption

Reading == [at : {"idle", "verify"}, record : Records \cup {NoContent},
            denied : BOOLEAN, manifest : Builds \cup {NoManifest},
            checked : SUBSET Records, overwritten : SUBSET Records]

TypeOKRelease ==
    /\ file \in [Records -> Contents \cup {NoContent, Torn}]
    /\ manifest \in Builds \cup {NoManifest}
    /\ build \in [running : BOOLEAN, records : Builds \cup {NoManifest},
                  written : SUBSET Records]
    /\ read \in [Readers -> Reading]

(* What lies in the directory whole passed the scan, whoever wrote it. *)
FilesAreScanned ==
    \A r \in Records : file[r] \in (Contents \ Private) \cup {NoContent, Torn}

Scanned(hashes) == \A r \in Listed(hashes) : hashes[r] \in Contents \ Private

(* What the running build wrote passed the scan. *)
BuildIsOnTrack ==
    build.running =>
        /\ build.records \in Builds
        /\ build.written \subseteq Listed(build.records)
        /\ \A r \in build.written : build.records[r] \in Contents \ Private

(* All that a manifest lists passed the scan. *)
ManifestIsScanned == manifest # NoManifest => Scanned(manifest)

(* A reader has a manifest that a build finished; what it has checked is a *)
(* file, and still the one it checked unless a build wrote to it since.    *)
ReadersAreOnTrack ==
    \A p \in Readers : read[p].at = "verify" =>
        /\ read[p].record \in Records
        /\ read[p].manifest \in Builds
        /\ Scanned(read[p].manifest)
        /\ read[p].checked \subseteq Listed(read[p].manifest)
        /\ \A r \in read[p].checked :
              /\ file[r] # NoContent
              /\ r \notin read[p].overwritten =>
                    file[r] = read[p].manifest[r]

IInvRelease == /\ TypeOKRelease
               /\ FilesAreScanned
               /\ BuildIsOnTrack
               /\ ManifestIsScanned
               /\ ReadersAreOnTrack
               /\ ServedIsReleased

LEMMA ManifestsAreApart == NoManifest \notin Builds
<1>1. PICK r \in Records : TRUE
  OBVIOUS
<1>2. NoManifest[r] = Torn
  BY DEF NoManifest
<1> QED
  BY <1>1, <1>2

LEMMA InitIInvRelease == InitRelease => IInvRelease
<1> SUFFICES ASSUME InitRelease PROVE IInvRelease
  OBVIOUS
<1>1. TypeOKRelease
  BY DEF InitRelease, TypeOKRelease, Reading, NotBuilding, NotReading
<1> QED
  BY <1>1 DEF InitRelease, IInvRelease, FilesAreScanned, BuildIsOnTrack,
     ManifestIsScanned, ReadersAreOnTrack, ServedIsReleased, NotBuilding,
     NotReading

(* What the readers see of a file that is written over. *)
LEMMA OverwritingKeepsReads ==
    ASSUME TypeOKRelease, NEW r \in Records, Overwrites(r)
    PROVE  /\ read' \in [Readers -> Reading]
           /\ \A p \in Readers :
                 /\ read'[p].at = read[p].at
                 /\ read'[p].record = read[p].record
                 /\ read'[p].manifest = read[p].manifest
                 /\ read'[p].checked = read[p].checked
                 /\ read[p].at = "verify" =>
                       read'[p].overwritten = read[p].overwritten \cup {r}
<1>1. ASSUME NEW p \in Readers
      PROVE  /\ read'[p] \in Reading
             /\ read'[p].at = read[p].at
             /\ read'[p].record = read[p].record
             /\ read'[p].manifest = read[p].manifest
             /\ read'[p].checked = read[p].checked
             /\ read[p].at = "verify" =>
                   read'[p].overwritten = read[p].overwritten \cup {r}
  <2>1. read[p] \in Reading
    BY DEF TypeOKRelease
  <2>2. CASE read[p].at = "idle"
    <3>1. read'[p] = read[p]
      BY <2>2 DEF Overwrites
    <3> QED
      BY <2>1, <2>2, <3>1
  <2>3. CASE read[p].at # "idle"
    <3>1. read'[p] = [read[p] EXCEPT !.overwritten =
                         read[p].overwritten \cup {r}]
      BY <2>3 DEF Overwrites
    <3>2. read'[p] \in Reading
      BY <2>1, <3>1 DEF Reading
    <3> QED
      BY <2>1, <3>1, <3>2 DEF Reading
  <2> QED
    BY <2>2, <2>3
<1>2. DOMAIN read' = Readers /\ read' = [p \in Readers |-> read'[p]]
  BY DEF Overwrites
<1> QED
  BY <1>1, <1>2

(* A build that writes leaves everything but the file it writes. *)
LEMMA WritesKeepIInvRelease ==
    ASSUME IInvRelease, build.running,
           NEW r \in Records, r \in Listed(build.records) \ build.written,
           PassesScan(build.records[r]),
           NEW bytes \in {Torn, build.records[r]},
           file' = [file EXCEPT ![r] = bytes],
           Overwrites(r),
           UNCHANGED <<manifest, answer>>,
           \/ UNCHANGED build
           \/ build' = [build EXCEPT !.written = @ \cup {r}]
    PROVE  IInvRelease'
<1> USE DEF IInvRelease
<1>1. build.records \in Builds /\ build.records[r] \in Contents \ Private
  <2>1. build.records \in Builds
    BY DEF BuildIsOnTrack
  <2>2. build.records[r] \in Contents \cup {NoContent}
    BY <2>1
  <2> QED
    BY <2>1, <2>2 DEF Listed, PassesScan
<1>2. bytes \in (Contents \ Private) \cup {Torn} /\ bytes # NoContent
  BY <1>1
<1>3. /\ file'[r] = bytes
      /\ \A q \in Records : q # r => file'[q] = file[q]
      /\ file' \in [Records -> Contents \cup {NoContent, Torn}]
  BY <1>2 DEF TypeOKRelease
<1>4. /\ build'.running = build.running
      /\ build'.records = build.records
      /\ build'.written \in {build.written, build.written \cup {r}}
      /\ build' \in [running : BOOLEAN, records : Builds \cup {NoManifest},
                     written : SUBSET Records]
  <2>1. build \in [running : BOOLEAN, records : Builds \cup {NoManifest},
                  written : SUBSET Records]
    BY DEF TypeOKRelease
  <2>2. CASE UNCHANGED build
    BY <2>1, <2>2
  <2>3. CASE build' = [build EXCEPT !.written = @ \cup {r}]
    BY <2>1, <2>3
  <2> QED
    BY <2>2, <2>3
<1>5. TypeOKRelease'
  BY <1>3, <1>4, OverwritingKeepsReads DEF TypeOKRelease
<1>6. FilesAreScanned'
  BY <1>2, <1>3 DEF FilesAreScanned
<1>7. BuildIsOnTrack'
  BY <1>1, <1>4 DEF BuildIsOnTrack
<1>8. ManifestIsScanned' /\ ServedIsReleased'
  BY DEF ManifestIsScanned, ServedIsReleased
<1>9. ReadersAreOnTrack'
  <2> SUFFICES ASSUME NEW p \in Readers, read'[p].at = "verify"
               PROVE  /\ read'[p].record \in Records
                      /\ read'[p].manifest \in Builds
                      /\ Scanned(read'[p].manifest)
                      /\ read'[p].checked \subseteq Listed(read'[p].manifest)
                      /\ \A q \in read'[p].checked :
                            /\ file'[q] # NoContent
                            /\ q \notin read'[p].overwritten =>
                                  file'[q] = read'[p].manifest[q]
    BY DEF ReadersAreOnTrack
  <2>1. /\ read[p].at = "verify"
        /\ read'[p].record = read[p].record
        /\ read'[p].manifest = read[p].manifest
        /\ read'[p].checked = read[p].checked
        /\ read'[p].overwritten = read[p].overwritten \cup {r}
    BY OverwritingKeepsReads
  <2>2. read[p].checked \subseteq Records
    BY <2>1 DEF ReadersAreOnTrack, Listed
  <2> QED
    BY <1>2, <1>3, <2>1, <2>2 DEF ReadersAreOnTrack
<1> QED
  BY <1>5, <1>6, <1>7, <1>8, <1>9

LEMMA BuildKeepsIInvRelease ==
    ASSUME IInvRelease,
           \/ \E records \in Builds : StartBuild(records)
           \/ \E r \in Records : TruncateRecord(r) \/ WriteRecord(r)
           \/ TruncateManifest
           \/ WriteManifest
           \/ BuildDies
    PROVE  IInvRelease'
<1> USE DEF IInvRelease
<1>1. ASSUME NEW records \in Builds, StartBuild(records) PROVE IInvRelease'
  BY <1>1 DEF StartBuild, TypeOKRelease, FilesAreScanned, BuildIsOnTrack,
     ManifestIsScanned, ReadersAreOnTrack, ServedIsReleased
<1>2. ASSUME NEW r \in Records, TruncateRecord(r) PROVE IInvRelease'
  BY <1>2, WritesKeepIInvRelease DEF TruncateRecord
<1>3. ASSUME NEW r \in Records, WriteRecord(r) PROVE IInvRelease'
  BY <1>3, WritesKeepIInvRelease DEF WriteRecord
<1>4. CASE TruncateManifest
  BY <1>4 DEF TruncateManifest, TypeOKRelease, FilesAreScanned,
     BuildIsOnTrack, ManifestIsScanned, ReadersAreOnTrack, ServedIsReleased
<1>5. CASE WriteManifest
  <2>1. TypeOKRelease'
    BY <1>5 DEF WriteManifest, TypeOKRelease, NotBuilding
  <2>2. ManifestIsScanned'
    BY <1>5 DEF WriteManifest, ManifestIsScanned, BuildIsOnTrack,
       AllRecordsWritten, Scanned
  <2> QED
    BY <1>5, <2>1, <2>2 DEF WriteManifest, NotBuilding, FilesAreScanned,
       BuildIsOnTrack, ReadersAreOnTrack, ServedIsReleased
<1>6. CASE BuildDies
  BY <1>6 DEF BuildDies, NotBuilding, TypeOKRelease, FilesAreScanned,
     BuildIsOnTrack, ManifestIsScanned, ReadersAreOnTrack, ServedIsReleased
<1> QED
  BY <1>1, <1>2, <1>3, <1>4, <1>5, <1>6

(* A step of a reader leaves the directory and the other readers alone. *)
LEMMA ReadingKeepsIInvRelease ==
    ASSUME IInvRelease, NEW p \in Readers, NEW x \in Reading,
           read' = [read EXCEPT ![p] = x],
           x.at = "verify" =>
               /\ x.record \in Records
               /\ x.manifest \in Builds
               /\ Scanned(x.manifest)
               /\ x.checked \subseteq Listed(x.manifest)
               /\ \A r \in x.checked :
                     /\ file[r] # NoContent
                     /\ r \notin x.overwritten => file[r] = x.manifest[r],
           UNCHANGED <<file, manifest, build>>
    PROVE  /\ TypeOKRelease' /\ FilesAreScanned' /\ BuildIsOnTrack'
           /\ ManifestIsScanned' /\ ReadersAreOnTrack'
<1> USE DEF IInvRelease
<1>1. /\ read'[p] = x /\ read' \in [Readers -> Reading]
      /\ \A q \in Readers : q # p => read'[q] = read[q]
  BY DEF TypeOKRelease
<1>2. TypeOKRelease'
  BY <1>1 DEF TypeOKRelease
<1>3. FilesAreScanned' /\ BuildIsOnTrack' /\ ManifestIsScanned'
  BY DEF FilesAreScanned, BuildIsOnTrack, ManifestIsScanned
<1>4. ReadersAreOnTrack'
  BY <1>1 DEF ReadersAreOnTrack
<1> QED
  BY <1>2, <1>3, <1>4

LEMMA ReadKeepsIInvRelease ==
    ASSUME IInvRelease, NEW p \in Readers,
           \/ \E r \in Records, denied \in BOOLEAN : StartRead(p, r, denied)
           \/ \E r \in Records : Check(p, r)
           \/ ReadRaises(p)
           \/ Serve(p)
    PROVE  IInvRelease'
<1> USE DEF IInvRelease
<1>1. ASSUME NEW r \in Records, NEW denied \in BOOLEAN, StartRead(p, r, denied)
      PROVE  IInvRelease'
  <2>1. PICK x : x = [at |-> "verify", record |-> r, denied |-> denied,
                      manifest |-> manifest, checked |-> {},
                      overwritten |-> {}]
    OBVIOUS
  <2>2. manifest \in Builds /\ Scanned(manifest)
    BY <1>1 DEF StartRead, TypeOKRelease, ManifestIsScanned
  <2>3. x \in Reading /\ x.record = r /\ x.manifest = manifest
        /\ x.checked = {}
    BY <2>1, <2>2 DEF Reading
  <2>4. read' = [read EXCEPT ![p] = x]
    BY <1>1, <2>1 DEF StartRead
  <2>5. ServedIsReleased'
    BY <1>1 DEF StartRead, ServedIsReleased
  <2> QED
    BY <1>1, <2>2, <2>3, <2>4, <2>5, ReadingKeepsIInvRelease DEF StartRead
<1>2. ASSUME NEW r \in Records, Check(p, r) PROVE IInvRelease'
  <2>1. PICK x : x = [read[p] EXCEPT !.checked = read[p].checked \cup {r}]
    OBVIOUS
  <2>2. read[p] \in Reading /\ read[p].at = "verify"
    BY <1>2 DEF Check, TypeOKRelease
  <2>3. x \in Reading
    BY <2>1, <2>2 DEF Reading
  <2>4. /\ x.record = read[p].record /\ x.manifest = read[p].manifest
        /\ x.checked = read[p].checked \cup {r}
        /\ x.overwritten = read[p].overwritten
    BY <2>1, <2>2 DEF Reading
  <2>5. read' = [read EXCEPT ![p] = x]
    BY <1>2, <2>1 DEF Check
  <2>6. /\ r \in Listed(read[p].manifest) /\ file[r] = read[p].manifest[r]
        /\ file[r] # NoContent
    BY <1>2 DEF Check, HashMatches, Listed
  <2>7. ServedIsReleased'
    BY <1>2 DEF Check, ServedIsReleased
  <2>8. /\ x.record \in Records /\ x.manifest \in Builds
        /\ Scanned(x.manifest) /\ x.checked \subseteq Listed(x.manifest)
        /\ \A q \in x.checked :
              /\ file[q] # NoContent
              /\ q \notin x.overwritten => file[q] = x.manifest[q]
    BY <2>2, <2>4, <2>6 DEF ReadersAreOnTrack
  <2> QED
    BY <1>2, <2>3, <2>5, <2>7, <2>8, ReadingKeepsIInvRelease DEF Check
<1>3. NotReading \in Reading /\ NotReading.at = "idle"
  BY DEF NotReading, Reading
<1>4. CASE ReadRaises(p)
  <2>1. ServedIsReleased'
    BY <1>4 DEF ReadRaises, ServedIsReleased
  <2> QED
    BY <1>3, <1>4, <2>1, ReadingKeepsIInvRelease DEF ReadRaises
<1>5. CASE Serve(p)
  <2>1. ServedIsReleased'
    <3> DEFINE r == read[p].record
               a == [record |-> r, body |-> file[r], denied |-> read[p].denied,
                     manifest |-> read[p].manifest,
                     overwritten |-> read[p].overwritten]
    <3>1. SUFFICES ASSUME ~read[p].denied, r \in Listed(read[p].manifest),
                          file[r] # Torn, answer' = {a}
                   PROVE  ServedIsReleased'
      BY <1>5 DEF Serve, ServedIsReleased
    <3>2. read[p].at = "verify" /\ r \in read[p].checked /\ r \in Records
          /\ read[p].manifest \in Builds
      BY <1>5, <3>1 DEF Serve, ReadersAreOnTrack
    <3>3. file[r] \in Contents \ Private
      BY <3>1, <3>2 DEF ReadersAreOnTrack, FilesAreScanned
    <3>4. r \notin read[p].overwritten => file[r] = read[p].manifest[r]
      BY <3>2 DEF ReadersAreOnTrack
    <3> QED
      BY <3>1, <3>2, <3>3, <3>4 DEF ServedIsReleased
  <2> QED
    BY <1>3, <1>5, <2>1, ReadingKeepsIInvRelease DEF Serve
<1> QED
  BY <1>1, <1>2, <1>4, <1>5

LEMMA NextKeepsIInvRelease ==
    IInvRelease /\ [NextRelease]_releaseVars => IInvRelease'
<1> SUFFICES ASSUME IInvRelease, [NextRelease]_releaseVars PROVE IInvRelease'
  OBVIOUS
<1>1. CASE UNCHANGED releaseVars
  BY <1>1 DEF releaseVars, IInvRelease, TypeOKRelease, FilesAreScanned,
     BuildIsOnTrack, ManifestIsScanned, ReadersAreOnTrack, ServedIsReleased
<1>2. CASE NextRelease
  BY <1>2, BuildKeepsIInvRelease, ReadKeepsIInvRelease DEF NextRelease
<1> QED
  BY <1>1, <1>2

(* For any records and contents, any number of readers and builds,         *)
(* wherever a build dies and whatever is built during a read: what is      *)
(* served passed the canary scan, is listed by a manifest that a build     *)
(* finished, is not denied, and is what that manifest lists unless its     *)
(* file was written over meanwhile (release.py, readpath.py:3-4).          *)
THEOREM ServesReleasedBytes == SpecRelease => []ServedIsReleased
<1>1. IInvRelease => ServedIsReleased
  BY DEF IInvRelease
<1> QED
  BY InitIInvRelease, NextKeepsIInvRelease, <1>1, PTL DEF SpecRelease

HIDE ReleaseAssumption

=============================================================================
