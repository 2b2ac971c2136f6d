---------------------------- MODULE FolderVault ----------------------------
(***************************************************************************)
(* A vault that is indexed from a folder (local_hub/vault_folder.rs,       *)
(* vault.rs): watchers and the owner scan the folder at the same time,     *)
(* files change while they read, watchers stop, the hub restarts.          *)
(*                                                                         *)
(* A file is its version: editing or writing it again gives a higher one,  *)
(* renaming moves the version.  A walk reads the files one after another.  *)
(***************************************************************************)
EXTENDS Naturals, FiniteSets

CONSTANTS
    Path, Scanner,
    Watcher,      \* the scanners that are watchers; the others are calls of the owner
    Absent,
    MaxVersion,   \* bound: versions written
    MaxScans      \* bound: scans started

FolderAssumption ==
    /\ Path # {} /\ IsFiniteSet(Path) /\ Watcher \subseteq Scanner /\ Absent \notin Nat
    /\ MaxVersion \in Nat /\ MaxScans \in Nat

VARIABLES
    disk, written,      \* path -> version or Absent; versions written so far
    docs,               \* the index: records of an id, a path and the version that is indexed
    ids,                \* ids given
    generation, state,  \* vault_sources.generation, vaults.state
    scan,               \* of each scanner: where its scan is, the generation it read, two walks
    active,             \* watchers whose lifetime has not ended
    scans

source == <<disk, written>>
index == <<docs, ids, generation, state>>
vars == <<source, index, scan, active, scans>>

NoWalk == [p \in {} |-> Absent]
Resting == [pc |-> "idle", generation |-> 0, first |-> NoWalk, second |-> NoWalk]

Init ==
    /\ disk = [p \in Path |-> Absent] /\ written = 0
    /\ docs = {} /\ ids = 0 /\ generation = 0 /\ state = "unavailable"
    /\ scan = [s \in Scanner |-> Resting] /\ active = Watcher /\ scans = 0

-----------------------------------------------------------------------------
Write(p) ==
    /\ written < MaxVersion /\ written' = written + 1
    /\ disk' = [disk EXCEPT ![p] = written + 1]
    /\ UNCHANGED <<index, scan, active, scans>>
Delete(p) ==
    /\ disk[p] # Absent /\ disk' = [disk EXCEPT ![p] = Absent]
    /\ UNCHANGED <<written, index, scan, active, scans>>
Rename(p, q) ==
    /\ disk[p] # Absent /\ disk[q] = Absent
    /\ disk[p] = written  \* the newest file, so that versions only grow at a path
    /\ disk' = [disk EXCEPT ![p] = Absent, ![q] = disk[p]]
    /\ UNCHANGED <<written, index, scan, active, scans>>

-----------------------------------------------------------------------------
\* scan_folder: a watcher scans while it lives, the owner whenever it likes
ScanStarts(s) ==
    /\ scan[s].pc = "idle" /\ scans < MaxScans /\ scans' = scans + 1
    /\ s \in Watcher => s \in active
    /\ scan' = [scan EXCEPT ![s] = [Resting EXCEPT !.pc = "first", !.generation = generation]]
    /\ UNCHANGED <<source, index, active>>

\* walk: one file of the first or the second snapshot, in the order of the directory
Walk(s) ==
    /\ scan[s].pc \in {"first", "second"}
    /\ LET w == scan[s].pc
           p == CHOOSE q \in Path : q \notin DOMAIN scan[s][w]
           read == [q \in DOMAIN scan[s][w] \cup {p} |-> IF q = p THEN disk[p] ELSE scan[s][w][q]]
       IN  scan' = [scan EXCEPT ![s][w] = read,
                                ![s].pc = IF DOMAIN read # Path THEN w
                                          ELSE IF w = "first" THEN "second"
                                          ELSE IF read = scan[s].first THEN "publish" ELSE "failed"]
    /\ UNCHANGED <<source, index, active, scans>>

\* a file that changes while it is read, cannot be read, a root that was replaced
WalkFails(s) ==
    /\ scan[s].pc \in {"first", "second"} /\ scan' = [scan EXCEPT ![s].pc = "failed"]
    /\ UNCHANGED <<source, index, active, scans>>

\* reconcile_folder: a path keeps its id, and so does a file that was renamed, if only one
\* path is gone and only one is new with its contents; other files get new ids
Gone(notes) == {d \in docs : notes[d.path] = Absent}
New(notes) == {p \in Path : notes[p] # Absent /\ \A d \in docs : d.path # p}
Renamed(notes, p) ==
    {d \in Gone(notes) : /\ d.version = notes[p]
                         /\ Cardinality({e \in Gone(notes) : e.version = notes[p]}) = 1
                         /\ Cardinality({q \in New(notes) : notes[q] = notes[p]}) = 1}
Fresh(notes) == {p \in New(notes) : Renamed(notes, p) = {}}
Reconciled(notes, number) ==
    {[d EXCEPT !.version = notes[d.path]] : d \in docs \ Gone(notes)}
        \cup (UNION {{[d EXCEPT !.path = p] : d \in Renamed(notes, p)} : p \in New(notes)})
        \cup {[id |-> ids + number[p], path |-> p, version |-> notes[p]] : p \in Fresh(notes)}

MayPublish(s) == generation = scan[s].generation
EnabledAtStart(s) == TRUE  \* mutant: the watcher is only asked before the scan

Enabled(s) == s \in Watcher => s \in active
\* publication, under the lock that ends the watcher's lifetime
Publish(s) ==
    /\ scan[s].pc = "publish" /\ Enabled(s) /\ MayPublish(s)
    /\ LET notes == scan[s].first
           n == Cardinality(Fresh(notes))
       IN  /\ \E number \in [Fresh(notes) -> 1 .. n] :
                 /\ \A p, q \in Fresh(notes) : number[p] = number[q] => p = q
                 /\ docs' = Reconciled(notes, number)
           /\ ids' = ids + n
    /\ generation' = generation + 1 /\ state' = "ready"
    /\ scan' = [scan EXCEPT ![s] = Resting]
    /\ UNCHANGED <<source, active, scans>>
PublishRefused(s) ==
    /\ scan[s].pc = "publish" /\ ~ (Enabled(s) /\ MayPublish(s))
    /\ scan' = [scan EXCEPT ![s].pc = "failed"]
    /\ UNCHANGED <<source, index, active, scans>>

\* a failure hides the index, unless a newer scan has ended meanwhile
ScanFails(s) ==
    /\ scan[s].pc = "failed" /\ scan' = [scan EXCEPT ![s] = Resting]
    /\ IF generation = scan[s].generation
       THEN state' = "unavailable" /\ generation' = generation + 1
       ELSE UNCHANGED <<state, generation>>
    /\ UNCHANGED <<source, docs, ids, active, scans>>

\* WatchLifetime::drop: a scan that runs goes on, its result is not published
WatcherStops(s) ==
    /\ s \in active /\ active' = active \ {s} /\ state' = "unavailable"
    /\ UNCHANGED <<source, docs, ids, generation, scan, scans>>

\* from_connection: the scans end with the process, every vault is unavailable
Restart ==
    /\ scans < MaxScans
    /\ scan' = [s \in Scanner |-> Resting] /\ active' = Watcher /\ state' = "unavailable"
    /\ UNCHANGED <<source, docs, ids, generation, scans>>

Next ==
    \/ \E p \in Path : Write(p) \/ Delete(p)
    \/ \E p, q \in Path : Rename(p, q)
    \/ \E s \in Scanner :
          \/ ScanStarts(s) \/ WalkFails(s) \/ Publish(s) \/ PublishRefused(s) \/ ScanFails(s)
          \/ Walk(s) \/ WatcherStops(s)
    \/ Restart

Spec == Init /\ [][Next]_vars

-----------------------------------------------------------------------------
\* A vault is shown only while somebody keeps it up to date: once every watcher has stopped,
\* nothing a watcher still had under way makes it ready.
\* (Calls of the owner publish without a watcher; the instance has none.)
ReadyIsWatched == state = "ready" => active # {}

\* An index that was published does not go back to an older version of a file, whoever scans
\* at the same time; ids and paths are unique, and an id is never passed to another file.
IndexMovesOn ==
    /\ \A d \in docs' : \A e \in docs :
          /\ d.path = e.path => d.version >= e.version \/ d.id # e.id
          /\ d.id = e.id => d.path = e.path \/ d.version = e.version
    /\ \A d, e \in docs' : d.id = e.id \/ d.path = e.path => d = e

FolderStep == IndexMovesOn /\ ReadyIsWatched'
FolderSafe == [][FolderStep]_vars
=============================================================================
