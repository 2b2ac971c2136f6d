------------------------------ MODULE BlobStore ------------------------------
(***************************************************************************)
(* One blob of a regional server's content-addressed store                 *)
(* (hive-server/src/store.rs), file operation by file operation.           *)
(*                                                                         *)
(* put writes a temporary file whose name depends on the content only,     *)
(* syncs it and renames it to its address; uploads are served in parallel, *)
(* and the collector removes a blob while others put or read it.  A name   *)
(* refers to a file; a writer that has opened a file goes on writing to it *)
(* after it was renamed.                                                   *)
(***************************************************************************)
EXTENDS Naturals, FiniteSets

CONSTANTS
    Writer,        \* uploads (and replication pulls) of the same content
    NoFile,
    MaxCrashes     \* bound: restarts of the server

StoreAssumption == NoFile \notin Writer /\ MaxCrashes \in Nat

VARIABLES
    part, blob,    \* what the two names refer to: the file a writer created, or NoFile
    full,          \* the files whose bytes are all written
    pc, fd,        \* the step of put a writer is at (idle, create, write, rename, ok,
                   \* error), and the file it has open
    removing,      \* the collector has seen the blob and is about to remove it
    crashes

vars == <<part, blob, full, pc, fd, removing, crashes>>

Init ==
    /\ part = NoFile /\ blob = NoFile /\ full = {}
    /\ pc = [w \in Writer |-> "idle"] /\ fd = [w \in Writer |-> NoFile]
    /\ removing = FALSE /\ crashes = 0

\* the same bytes at the same address are not written again
PutExists(w) ==
    /\ pc[w] = "idle"
    /\ pc' = [pc EXCEPT ![w] = IF blob # NoFile THEN "ok" ELSE "create"]
    /\ UNCHANGED <<part, blob, full, fd, removing, crashes>>

PutCreateInPlace(w) ==
    /\ pc[w] = "create"
    /\ part' = w /\ blob' = w
    /\ full' = full \ {w}
    /\ fd' = [fd EXCEPT ![w] = w]
    /\ pc' = [pc EXCEPT ![w] = "write"]
    /\ UNCHANGED <<removing, crashes>>

\* File::create: a new file, or the one already there, cut to nothing
PutCreate(w) ==
    /\ pc[w] = "create"
    /\ LET f == IF part # NoFile THEN part ELSE w IN
          /\ part' = f
          /\ full' = full \ {f}
          /\ fd' = [fd EXCEPT ![w] = f]
    /\ pc' = [pc EXCEPT ![w] = "write"]
    /\ UNCHANGED <<blob, removing, crashes>>

\* write_all and sync_all
PutWrite(w) ==
    /\ pc[w] = "write"
    /\ full' = full \cup {fd[w]}
    /\ pc' = [pc EXCEPT ![w] = "rename"]
    /\ UNCHANGED <<part, blob, fd, removing, crashes>>

PutRename(w) ==
    /\ pc[w] = "rename"
    /\ IF part # NoFile
          THEN /\ blob' = part /\ part' = NoFile
               /\ pc' = [pc EXCEPT ![w] = "ok"]
          ELSE /\ pc' = [pc EXCEPT ![w] = "error"]
               /\ UNCHANGED <<part, blob>>
    /\ UNCHANGED <<full, fd, removing, crashes>>

\* remove: the path is looked at, then the file is deleted
RemoveLook ==
    /\ ~ removing /\ blob # NoFile
    /\ removing' = TRUE
    /\ UNCHANGED <<part, blob, full, pc, fd, crashes>>

RemoveFile ==
    /\ removing
    /\ removing' = FALSE /\ blob' = NoFile
    /\ UNCHANGED <<part, full, pc, fd, crashes>>

\* the server dies: what was written so far stays, under the names it had
Crash ==
    /\ crashes < MaxCrashes
    /\ crashes' = crashes + 1
    /\ removing' = FALSE
    /\ pc' = [w \in Writer |-> "idle"] /\ fd' = [w \in Writer |-> NoFile]
    /\ UNCHANGED <<part, blob, full>>

Retry(w) ==
    /\ pc[w] \in {"ok", "error"}
    /\ w \notin {part, blob} /\ \A v \in Writer \ {w} : fd[v] # w
    /\ pc' = [pc EXCEPT ![w] = "idle"]
    /\ fd' = [fd EXCEPT ![w] = NoFile]
    /\ UNCHANGED <<part, blob, full, removing, crashes>>

Next ==
    \/ \E w \in Writer : PutExists(w) \/ PutCreate(w) \/ PutWrite(w) \/ PutRename(w) \/ Retry(w)
    \/ RemoveLook \/ RemoveFile \/ Crash

Spec == Init /\ [][Next]_vars

\* an upload that was begun is carried on
FairSpec == Spec /\ \A w \in Writer : WF_vars(PutCreate(w) \/ PutWrite(w) \/ PutRename(w))

----------------------------------------------------------------------------
(* Properties.                                                             *)

\* As long as uploads of the same content come one after the other, what lies at a valid
\* address is a whole blob, at every moment at which a reader or a crash may look.
NoHalfBlob == blob # NoFile => blob \in full

\* (Claimed by store.rs.)  A crash never leaves a half blob at a valid address.
CrashLeavesNoHalfBlob ==
    (\A w \in Writer : pc[w] = "idle") => (blob # NoFile => blob \in full)

\* While the server keeps running, a half blob that two uploads of the same content
\* exposed does not stay half: the slower one goes on writing the file it has open.
HalfBlobsHeal == (blob # NoFile /\ blob \notin full) ~> (blob = NoFile \/ blob \in full)
=============================================================================
