----------------------------- MODULE FleetStorage -----------------------------
(***************************************************************************)
(* Artifacts on the regional servers (hive-server lib.rs, replicate.rs,    *)
(* backup.rs) and their registry in the community hub.                     *)
(*                                                                         *)
(* A server keeps blobs on its disk and tells the hub about them with a    *)
(* separate call that may fail.  Uploads, backups, the replication pass    *)
(* and the collector of one server run side by side; each looks at the     *)
(* disk and at the registry at different moments.                          *)
(***************************************************************************)
EXTENDS Naturals, FiniteSets

CONSTANTS
    Server, Blob,
    Backup,        \* the blobs that are nightly backups: each is made once
    Nothing,
    Factor,        \* hive.artifacts.replication
    MaxLost,       \* bound: calls to the hub that fail
    MaxCrashes     \* bound: servers that stop

StorageAssumption ==
    /\ Backup \subseteq Blob /\ Nothing \notin Blob
    /\ Factor \in Nat \ {0} /\ MaxLost \in Nat /\ MaxCrashes \in Nat

VARIABLES
    up, online,    \* a server runs; the hub believes it does
    disk,          \* what a server's store holds
    artifact,      \* hive.artifacts: no row, pinned, in grace, or past grace
    replicas,      \* hive.artifact_replicas
    put,           \* the blob of an upload or a backup that is stored and not announced yet
    pull,          \* the replication pass: the blob, fetched or not
    doomed,        \* the collector's plan
    dropped,       \* the blob the collector removed and has not reported yet
    lost, crashes

vars == <<up, online, disk, artifact, replicas, put, pull, doomed, dropped, lost, crashes>>
local == <<put, pull, doomed, dropped>>

TypeOK ==
    /\ up \in [Server -> BOOLEAN] /\ online \in [Server -> BOOLEAN]
    /\ disk \in [Server -> SUBSET Blob]
    /\ artifact \in [Blob -> {"none", "pinned", "grace", "expired"}]
    /\ replicas \subseteq Server \X Blob
    /\ put \in [Server -> Blob \cup {Nothing}] /\ dropped \in [Server -> Blob \cup {Nothing}]
    /\ pull \in [Server -> [blob : Blob \cup {Nothing}, fetched : BOOLEAN]]
    /\ \A s \in Server : pull[s].fetched => pull[s].blob # Nothing
    /\ doomed \in [Server -> SUBSET Blob]
    /\ lost \in 0 .. MaxLost /\ crashes \in 0 .. MaxCrashes

NoPull == [blob |-> Nothing, fetched |-> FALSE]

Init ==
    /\ up = [s \in Server |-> TRUE] /\ online = [s \in Server |-> TRUE]
    /\ disk = [s \in Server |-> {}]
    /\ artifact = [b \in Blob |-> "none"] /\ replicas = {}
    /\ put = [s \in Server |-> Nothing] /\ pull = [s \in Server |-> NoPull]
    /\ doomed = [s \in Server |-> {}] /\ dropped = [s \in Server |-> Nothing]
    /\ lost = 0 /\ crashes = 0

\* artifact_announce: a new artifact is pinned, a known one stays as it is
Announced(S, b) ==
    /\ artifact' = [artifact EXCEPT ![b] = IF S # {} /\ @ = "none" THEN "pinned" ELSE @]
    /\ replicas' = replicas \cup (S \X {b})

\* a call to the hub that is only logged when it fails
Told(s, b) ==
    \/ Announced({s}, b) /\ UNCHANGED lost
    \/ lost < MaxLost /\ lost' = lost + 1 /\ UNCHANGED <<artifact, replicas>>

----------------------------------------------------------------------------
(* Uploads (put_blob) and backups (Backup::run).                           *)

Put(s, b) ==
    /\ up[s] /\ put[s] = Nothing
    /\ b \in Backup => artifact[b] = "none" /\ \A r \in Server : b \notin disk[r] /\ put[r] # b
    /\ disk' = [disk EXCEPT ![s] = @ \cup {b}]
    /\ put' = [put EXCEPT ![s] = b]
    /\ UNCHANGED <<up, online, artifact, replicas, pull, doomed, dropped, lost, crashes>>

PutAnnounce(s) ==
    /\ up[s] /\ put[s] # Nothing
    /\ Told(s, put[s])
    /\ put' = [put EXCEPT ![s] = Nothing]
    /\ UNCHANGED <<up, online, disk, pull, doomed, dropped, crashes>>

\* retire_old_backups, and the end of its day of grace
Retire(b) ==
    /\ b \in Backup
    /\ \/ artifact[b] = "pinned" /\ artifact' = [artifact EXCEPT ![b] = "grace"]
       \/ artifact[b] = "grace" /\ artifact' = [artifact EXCEPT ![b] = "expired"]
    /\ UNCHANGED <<up, online, disk, replicas, local, lost, crashes>>

----------------------------------------------------------------------------
(* The replication pass (replicate::tick).                                 *)

Copies(b) == {s \in Server : <<s, b>> \in replicas}

\* replication_plan: pinned, below its factor, not here, and some other server has it
Planned(s, b) ==
    /\ artifact[b] = "pinned" /\ Cardinality(Copies(b)) < Factor
    /\ s \notin Copies(b)
    /\ \E r \in Copies(b) \ {s} : online[r]

PullPlan(s, b) ==
    /\ up[s] /\ pull[s] = NoPull
    /\ Planned(s, b)
    /\ pull' = [pull EXCEPT ![s] = [blob |-> b, fetched |-> b \in disk[s]]]
    /\ UNCHANGED <<up, online, disk, artifact, replicas, put, doomed, dropped, lost, crashes>>

\* get_blob of the holder; a server that is gone, or has dropped the blob, ends the pull
PullFetch(s) ==
    /\ up[s] /\ pull[s].blob # Nothing /\ ~ pull[s].fetched
    /\ LET b == pull[s].blob IN
          IF \E r \in Server : online[r] /\ up[r] /\ <<r, b>> \in replicas /\ b \in disk[r]
          THEN /\ disk' = [disk EXCEPT ![s] = @ \cup {b}]
               /\ pull' = [pull EXCEPT ![s].fetched = TRUE]
          ELSE /\ pull' = [pull EXCEPT ![s] = NoPull]
               /\ UNCHANGED disk
    /\ UNCHANGED <<up, online, artifact, replicas, put, doomed, dropped, lost, crashes>>

PullAnnounce(s) ==
    /\ up[s] /\ pull[s].fetched
    /\ Told(s, pull[s].blob)
    /\ pull' = [pull EXCEPT ![s] = NoPull]
    /\ UNCHANGED <<up, online, disk, put, doomed, dropped, crashes>>

----------------------------------------------------------------------------
(* The collector (replicate::gc_tick).                                     *)

DroppableRowsOnly(b) == artifact[b] = "none"

\* gc_plan: of the blobs on disk, those without a row or past their grace
Droppable(b) == artifact[b] \in {"none", "expired"}

GcPlan(s) ==
    /\ up[s] /\ doomed[s] = {} /\ dropped[s] = Nothing
    /\ doomed' = [doomed EXCEPT ![s] = {b \in disk[s] : Droppable(b)}]
    /\ UNCHANGED <<up, online, disk, artifact, replicas, put, pull, dropped, lost, crashes>>

GcRemove(s) ==
    /\ up[s] /\ dropped[s] = Nothing
    /\ \E b \in doomed[s] :
          /\ doomed' = [doomed EXCEPT ![s] = @ \ {b}]
          /\ disk' = [disk EXCEPT ![s] = @ \ {b}]
          /\ dropped' = [dropped EXCEPT ![s] = IF b \in disk[s] THEN b ELSE Nothing]
    /\ UNCHANGED <<up, online, artifact, replicas, put, pull, lost, crashes>>

\* replica_drop
GcReport(s) ==
    /\ up[s] /\ dropped[s] # Nothing
    /\ \/ replicas' = replicas \ {<<s, dropped[s]>>} /\ UNCHANGED lost
       \/ lost < MaxLost /\ lost' = lost + 1 /\ UNCHANGED replicas
    /\ dropped' = [dropped EXCEPT ![s] = Nothing]
    /\ UNCHANGED <<up, online, disk, artifact, put, pull, doomed, crashes>>

----------------------------------------------------------------------------
(* Crashes, restarts and the hub's view of who runs.                       *)

Crash(s) ==
    /\ up[s] /\ crashes < MaxCrashes
    /\ crashes' = crashes + 1
    /\ up' = [up EXCEPT ![s] = FALSE]
    /\ put' = [put EXCEPT ![s] = Nothing] /\ pull' = [pull EXCEPT ![s] = NoPull]
    /\ doomed' = [doomed EXCEPT ![s] = {}] /\ dropped' = [dropped EXCEPT ![s] = Nothing]
    /\ UNCHANGED <<online, disk, artifact, replicas, lost>>

\* serve: register, then announce every blob on disk again
Restart(s) ==
    /\ ~ up[s]
    /\ up' = [up EXCEPT ![s] = TRUE] /\ online' = [online EXCEPT ![s] = TRUE]
    /\ artifact' = [b \in Blob |-> IF b \in disk[s] /\ artifact[b] = "none" THEN "pinned" ELSE artifact[b]]
    /\ replicas' = replicas \cup ({s} \X disk[s])
    /\ UNCHANGED <<disk, local, lost, crashes>>

\* reap_stale_servers after three minutes, reap_dead_replicas after a day
ReapServer(s) ==
    /\ ~ up[s] /\ online[s]
    /\ online' = [online EXCEPT ![s] = FALSE]
    /\ UNCHANGED <<up, disk, artifact, replicas, local, lost, crashes>>

ReapReplicas(s) ==
    /\ ~ up[s] /\ ~ online[s]
    /\ replicas' = {r \in replicas : r[1] # s}
    /\ UNCHANGED <<up, online, disk, artifact, local, lost, crashes>>

Pull(s) == PullFetch(s) \/ PullAnnounce(s)
Gc(s) == GcPlan(s) \/ GcRemove(s) \/ GcReport(s)
Serve(s) == Crash(s) \/ Restart(s) \/ ReapServer(s) \/ ReapReplicas(s)

Next ==
    \/ \E s \in Server :
          \/ \E b \in Blob : Put(s, b) \/ PullPlan(s, b)
          \/ PutAnnounce(s) \/ Pull(s) \/ Gc(s) \/ Serve(s)
    \/ \E b \in Blob : Retire(b)

Spec == Init /\ [][Next]_vars

\* every loop of a server comes round again while it runs, a replication pass tries all
\* blobs of its plan (SF), and dead servers are reaped
FairSpec ==
    /\ Spec
    /\ \A s \in Server :
          /\ WF_vars(PutAnnounce(s)) /\ WF_vars(Pull(s)) /\ WF_vars(Gc(s))
          /\ \A b \in Blob : SF_vars(PullPlan(s, b))
          /\ WF_vars(ReapServer(s)) /\ WF_vars(ReapReplicas(s))

----------------------------------------------------------------------------
(* Properties.                                                             *)

\* A pinned artifact that some running server holds and has told the hub of comes to
\* have as many copies as it should, or as there are running servers; calls that failed
\* and servers that died on the way are made up for.
Replicated ==
    \A b \in Blob :
        (artifact[b] = "pinned" /\ \E s \in Server : up[s] /\ <<s, b>> \in replicas /\ b \in disk[s])
        ~> \/ artifact[b] # "pinned"
           \/ Cardinality(Copies(b)) >= Factor
           \/ \A s \in Server : up[s] => s \in Copies(b)
           \/ \A s \in Copies(b) : ~ (up[s] /\ b \in disk[s])

\* A retired backup leaves the disks of all running servers once its grace is over, even
\* if one of them was just fetching it.
RetiredGoAway ==
    \A b \in Blob : \A s \in Server :
        (artifact[b] = "expired" /\ b \in disk[s]) ~> (b \notin disk[s] \/ ~ up[s])

\* What a server holds does not stay unknown: a blob whose announcement failed is
\* announced again or collected, or its server stopped.
NothingStaysUnknown ==
    \A b \in Blob : \A s \in Server :
        (b \in disk[s]) ~> (b \notin disk[s] \/ <<s, b>> \in replicas \/ ~ up[s] \/ artifact[b] # "none")

\* (Claimed by the migration that introduced the collector.)  The last copy of a pinned
\* artifact is never removed this way.
LastCopyKept ==
    [][\A s \in Server : \A b \in disk[s] \ disk'[s] :
          artifact[b] = "pinned" => \E r \in Server : b \in disk'[r]]_vars
=============================================================================
