---------------------------- MODULE EvidenceStore ----------------------------
(***************************************************************************)
(* The content-addressed store (store.py): put writes the bytes to a       *)
(* temporary file named by their digest and renames it.  Writers are       *)
(* processes that may die at any point; a writer keeps writing to the file *)
(* it opened, under whatever name that file has by then.                   *)
(*                                                                         *)
(* The bytes of a digest are the chunks 1..Size, so the content of a file  *)
(* is the set of those that were written since it was truncated.           *)
(***************************************************************************)
EXTENDS Integers, FiniteSets

CONSTANTS Writers,
          Digests,
          Size,         \* chunks, written one after the other
          Files,        \* the files (inodes) there may ever be
          NoFile,       \* what a name stands for that does not exist
          OneWriter     \* whether callers put a digest one at a time

ASSUME EvidenceStoreAssumption ==
    /\ Size \in Nat \ {0}
    /\ NoFile \notin Files
    /\ OneWriter \in BOOLEAN

VARIABLES blob,         \* the file at _path(digest)
          tmp,          \* the file at its .tmp name
          content,      \* the chunks of each file
          free,         \* the files not yet made
          put           \* how far each writer is

storeVars == <<blob, tmp, content, free, put>>

Idle == [at |-> "idle", digest |-> NoFile, file |-> NoFile, written |-> 0]

InitStore == /\ blob = [d \in Digests |-> NoFile]
             /\ tmp = [d \in Digests |-> NoFile]
             /\ content = [f \in Files |-> {}]
             /\ free = Files
             /\ put = [w \in Writers |-> Idle]

-----------------------------------------------------------------------------

Busy(w, d) == put[w].at # "idle" /\ put[w].digest = d

(* put, up to exists(): what is there is not written again.  If its bytes  *)
(* are not the caller's, put raises.                                       *)
Put(w, d) ==
    /\ put[w].at = "idle"
    /\ OneWriter => \A v \in Writers : ~Busy(v, d)
    /\ blob[d] = NoFile
    /\ put' = [put EXCEPT ![w] = [at |-> "open", digest |-> d,
                                  file |-> NoFile, written |-> 0]]
    /\ UNCHANGED <<blob, tmp, content, free>>

(* write_bytes opens the name: that truncates the file it has, or makes a  *)
(* new one.                                                                *)
Opened(d) == IF tmp[d] = NoFile THEN free ELSE {tmp[d]}

Open(w, f) ==
    LET d == put[w].digest IN
    /\ put[w].at = "open"
    /\ f \in Opened(d)
    /\ tmp' = [tmp EXCEPT ![d] = f]
    /\ free' = free \ {f}
    /\ content' = [content EXCEPT ![f] = {}]
    /\ put' = [put EXCEPT ![w] = [at |-> "write", digest |-> d,
                                  file |-> f, written |-> 0]]
    /\ UNCHANGED blob

Write(w) ==
    LET k == put[w].written + 1
        f == put[w].file
    IN  /\ put[w].at = "write"
        /\ k <= Size
        /\ content' = [content EXCEPT ![f] = @ \cup {k}]
        /\ put' = [put EXCEPT ![w] = [at |-> "write", digest |-> put[w].digest,
                                      file |-> f, written |-> k]]
        /\ UNCHANGED <<blob, tmp, free>>

(* rename, once all is written; it raises if another writer renamed the    *)
(* name first.                                                             *)
BeforeClosing(w) == put[w].written > 0                              \* mutant
AllWritten(w) == put[w].written = Size

Rename(w) ==
    LET d == put[w].digest IN
    /\ put[w].at = "write"
    /\ AllWritten(w)
    /\ IF tmp[d] = NoFile THEN UNCHANGED <<blob, tmp>>
       ELSE /\ blob' = [blob EXCEPT ![d] = tmp[d]]
            /\ tmp' = [tmp EXCEPT ![d] = NoFile]
    /\ put' = [put EXCEPT ![w] = Idle]
    /\ UNCHANGED <<content, free>>

WriterDies(w) == /\ put[w].at # "idle"
                 /\ put' = [put EXCEPT ![w] = Idle]
                 /\ UNCHANGED <<blob, tmp, content, free>>

NextStore ==
    \E w \in Writers :
        \/ \E d \in Digests : Put(w, d)
        \/ \E f \in Files : Open(w, f)
        \/ Write(w)
        \/ Rename(w)
        \/ WriterDies(w)

SpecStore == InitStore /\ [][NextStore]_storeVars

-----------------------------------------------------------------------------

(* A digest that exists holds all of its bytes, at whatever point a writer *)
(* died and whoever tried again over its leftovers.  It takes one writer   *)
(* per digest at a time: two share the .tmp name, and the first renames    *)
(* what the second is about to fill.                                       *)
StoredBlobIsWhole ==
    \A d \in Digests : blob[d] # NoFile => content[blob[d]] = 1..Size

(* "Write-once by construction" (store.py:3): the file operations, with    *)
(* their deaths and their leftovers, are one step that makes an object     *)
(* appear whole, for good.  A torn one would stay for ever: put refuses it *)
(* and get raises.                                                         *)
Promise == INSTANCE WriteOnceStore WITH
    object <- [d \in Digests |-> IF blob[d] = NoFile THEN "none"
                                 ELSE IF content[blob[d]] = 1..Size THEN "whole"
                                 ELSE "torn"]
KeepsWriteOnce == Promise!Spec

=============================================================================
