---------------------------- MODULE ServerElection ----------------------------
(***************************************************************************)
(* Which regional server acts for the fleet: the coordinator lease of the  *)
(* hub, what each server believes about it, and what hangs on the belief   *)
(* (the board snapshot, the ledger archive, stepping down).                *)
(*                                                                         *)
(* A server learns the outcome of coordinator_try only when the call gets  *)
(* through: when it fails the server goes on believing what it last heard, *)
(* while the lease runs out behind its back.  A tick is the 30 seconds of  *)
(* the heartbeat, which is also what a standby waits on top.               *)
(***************************************************************************)
EXTENDS Naturals, FiniteSets

CONSTANTS
    Server, Standby, Nobody,
    TTL,           \* heartbeats a lease lasts (90 s: 3)
    MaxVersion,    \* bound: changes of the board
    MaxFaults      \* bound: failed calls and crashes

ElectionAssumption ==
    /\ Standby \subseteq Server /\ Nobody \notin Server
    /\ TTL \in Nat \ {0} /\ MaxVersion \in Nat /\ MaxFaults \in Nat

VARIABLES
    holder, left,    \* hive.coordinator_lease: node_id, and heartbeats until expires_at;
                     \* 0: it just ran out, "late": a heartbeat ago
    late,
    up,
    flag,            \* is_coordinator of a running server
    url,             \* coordinator_url
    heard,           \* heartbeats since the server last got through
    due,             \* the servers whose heartbeat of this tick is still to come
    board, snapshot, \* version of the board, and of each server's copy
    faults

vars == <<holder, left, late, up, flag, url, heard, due, board, snapshot, faults>>

TypeOK ==
    /\ holder \in Server \cup {Nobody} /\ left \in 0 .. TTL /\ late \in BOOLEAN
    /\ up \subseteq Server /\ flag \subseteq up /\ due \subseteq up
    /\ url \in [Server -> Server \cup {Nobody}] /\ heard \in [Server -> 0 .. TTL]
    /\ board \in 0 .. MaxVersion /\ snapshot \in [Server -> 0 .. MaxVersion]
    /\ faults \in 0 .. MaxFaults

Init ==
    /\ holder = Nobody /\ left = 0 /\ late = TRUE
    /\ up = Server /\ flag = {} /\ due = Server
    /\ url = [s \in Server |-> Nobody] /\ heard = [s \in Server |-> TTL]
    /\ board = 0 /\ snapshot = [s \in Server |-> 0] /\ faults = 0

WinsUnheld(s) == holder \in {s, Nobody}

\* coordinator_try: the holder renews, another takes an expired lease, a standby a little later
Wins(s) ==
    \/ holder = s \/ holder = Nobody
    \/ left = 0 /\ (s \in Standby => late)

HeartbeatKeepingFlag(s) ==
    /\ s \in due
    /\ due' = due \ {s}
    /\ IF Wins(s)
          THEN /\ holder' = s /\ left' = TTL /\ late' = FALSE
               /\ flag' = flag \cup {s}
          ELSE UNCHANGED <<holder, left, late, flag>>
    /\ url' = [url EXCEPT ![s] = holder']
    /\ heard' = [heard EXCEPT ![s] = 0]
    /\ UNCHANGED <<up, board, snapshot, faults>>

Heartbeat(s) ==
    /\ s \in due
    /\ due' = due \ {s}
    /\ IF Wins(s)
          THEN /\ holder' = s /\ left' = TTL /\ late' = FALSE
               /\ flag' = flag \cup {s}
          ELSE /\ flag' = flag \ {s}
               /\ UNCHANGED <<holder, left, late>>
    /\ url' = [url EXCEPT ![s] = holder']
    /\ heard' = [heard EXCEPT ![s] = 0]
    /\ UNCHANGED <<up, board, snapshot, faults>>

\* the call fails: nothing the server believes changes
HeartbeatFails(s) ==
    /\ s \in due /\ faults < MaxFaults
    /\ due' = due \ {s} /\ faults' = faults + 1
    /\ UNCHANGED <<holder, left, late, up, flag, url, heard, board, snapshot>>

\* Snapshot::refresh: the coordinator asks the hub, the others ask the coordinator
Refresh(s) ==
    /\ s \in up
    /\ \/ s \in flag /\ snapshot' = [snapshot EXCEPT ![s] = board]
       \/ s \notin flag /\ url[s] \in up /\ snapshot' = [snapshot EXCEPT ![s] = snapshot[url[s]]]
    /\ UNCHANGED <<holder, left, late, up, flag, url, heard, due, board, faults>>

BoardChanges ==
    /\ board < MaxVersion /\ board' = board + 1
    /\ UNCHANGED <<holder, left, late, up, flag, url, heard, due, snapshot, faults>>

\* the loops are stopped, and whoever believes to be the coordinator steps down;
\* coordinator_release only touches a lease that is the caller's
ShutDown(s) ==
    /\ s \in up /\ faults < MaxFaults /\ faults' = faults + 1
    /\ IF s \in flag /\ holder = s THEN left' = 0 ELSE UNCHANGED left
    /\ up' = up \ {s} /\ flag' = flag \ {s} /\ due' = due \ {s}
    /\ UNCHANGED <<holder, late, url, heard, board, snapshot>>

Crash(s) ==
    /\ s \in up /\ faults < MaxFaults /\ faults' = faults + 1
    /\ up' = up \ {s} /\ flag' = flag \ {s} /\ due' = due \ {s}
    /\ UNCHANGED <<holder, left, late, url, heard, board, snapshot>>

\* serve: nothing is remembered from before
Start(s) ==
    /\ s \notin up
    /\ up' = up \cup {s} /\ due' = due \cup {s}
    /\ url' = [url EXCEPT ![s] = Nobody] /\ heard' = [heard EXCEPT ![s] = TTL]
    /\ snapshot' = [snapshot EXCEPT ![s] = 0]
    /\ UNCHANGED <<holder, left, late, flag, board, faults>>

\* the next heartbeat of everybody; a standby's extra wait is one of them
Tick ==
    /\ due = {}
    /\ due' = up
    /\ left' = IF left > 0 THEN left - 1 ELSE 0
    /\ late' = (left = 0)
    /\ heard' = [s \in Server |-> IF heard[s] < TTL THEN heard[s] + 1 ELSE TTL]
    /\ UNCHANGED <<holder, up, flag, url, board, snapshot, faults>>

Next ==
    \/ \E s \in Server :
          \/ Heartbeat(s) \/ HeartbeatFails(s) \/ Refresh(s)
          \/ ShutDown(s) \/ Crash(s) \/ Start(s)
    \/ BoardChanges \/ Tick

Spec == Init /\ [][Next]_vars

\* heartbeats and refreshes go on while a server runs
FairSpec ==
    /\ Spec /\ WF_vars(Tick)
    /\ \A s \in Server : WF_vars(Heartbeat(s)) /\ WF_vars(Refresh(s))

----------------------------------------------------------------------------
(* Properties.                                                             *)

\* A server that got through to the hub less than a lease ago is not mistaken about being
\* the coordinator, so two servers act as coordinator (and archive the ledger) at the same
\* time only while one of them is cut off for longer than that.
BeliefIsTrueWhileFresh ==
    \A s \in flag : heard[s] < TTL => holder = s

\* Stepping down on an outdated belief does not end the lease of whoever took over.
NobodyElseStepsDown ==
    [][\A s \in Server : (holder = s /\ s \in up /\ s \in up' /\ left > 0 /\ left' = 0) => left = 1]_vars

\* A fleet whose coordinator died has a running one again, if any server runs.
SomeoneTakesOver == (holder \notin up) ~> (holder \in up \/ up = {})

\* What changes on the board reaches the snapshot of every server that keeps running.
SnapshotsFollow ==
    \A v \in 1 .. MaxVersion : \A s \in Server :
        (board >= v /\ s \in up) ~> (snapshot[s] >= v \/ s \notin up)
=============================================================================
