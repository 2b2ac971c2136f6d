------------------------------ MODULE TauriShell ------------------------------
(***************************************************************************)
(* The worker in the Tauri desktop app, which no supervisor drives: a      *)
(* start looks whether the slot is empty, probes the machine, fills the    *)
(* slot and leaves a task to work.  The toggle of the tray, the window and *)
(* the resumption at launch may all start at once.  Quitting waits for the *)
(* worker, but not for ever; the app is launched again.                    *)
(***************************************************************************)
EXTENDS Naturals

CONSTANTS
    Starts,       \* calls of worker_start, of all launches
    MaxLost,      \* bound: check outs the hub does not get
    MaxLaunches,  \* bound: times the app is launched
    None, Left    \* no one; a lease of this node nobody works on

TauriAssumption == MaxLost \in Nat /\ MaxLaunches \in Nat /\ None # Left /\ {None, Left} \cap Starts = {}

VARIABLES
    app, launches,  \* "up", "quitting" or "gone"
    worker_stop,    \* AppState::worker_stop: whose channel is in the slot
    worker,         \* how far each start got
    told,           \* starts whose channel was told to stop
    enabled,        \* HIVE_WORKER_ENABLED
    presence,       \* of the node at the hub
    card,           \* who works on the card leased to the node
    lost, unheard   \* check outs lost; a worker's last one was, or the app did not wait for it

tasks == <<worker_stop, worker, told>>
node == <<presence, card>>
vars == <<app, launches, tasks, enabled, node, lost, unheard>>

Alive == {"check_in", "working", "card", "check_out", "failed", "clearing"}

TypeOK ==
    /\ app \in {"up", "quitting", "gone"} /\ launches \in 1 .. MaxLaunches + 1
    /\ worker_stop \in Starts \cup {None} /\ told \subseteq Starts
    /\ worker \in [Starts -> Alive \cup {"none", "checking", "done"}]
    /\ enabled \in BOOLEAN /\ unheard \in BOOLEAN
    /\ presence \in {"in", "draining", "out"} /\ card \in Starts \cup {None, Left}
    /\ lost \in 0 .. MaxLost

Init ==
    /\ app = "up" /\ launches = 1
    /\ worker_stop = None /\ worker = [w \in Starts |-> "none"] /\ told = {}
    /\ enabled \in BOOLEAN
    /\ presence = "out" /\ card = None /\ lost = 0 /\ unheard = FALSE

Up == app # "gone"
Moves(w, from, to) == Up /\ worker[w] = from /\ worker' = [worker EXCEPT ![w] = to]
\* the task sees it at its next look: told, or its channel is no longer there
Stopped(w) == w \in told \/ worker_stop # w
Outside == UNCHANGED <<app, launches, unheard>>

----------------------------------------------------------------------------
(* worker_start, worker_stop.                                              *)

StartLooks(w) ==
    /\ app = "up" /\ worker_stop = None /\ Moves(w, "none", "checking")
    /\ UNCHANGED <<worker_stop, told, enabled, node, lost>> /\ Outside

\* not paired, or the model server has no model
StartRefused(w) ==
    /\ Moves(w, "checking", "done")
    /\ UNCHANGED <<worker_stop, told, enabled, node, lost>> /\ Outside

StartGoes(w) ==
    /\ Moves(w, "checking", "check_in")
    /\ worker_stop' = w /\ enabled' = TRUE
    /\ UNCHANGED <<told, node, lost>> /\ Outside

StopWorker(forget) ==
    /\ Up
    /\ told' = told \cup ({worker_stop} \ {None})
    /\ enabled' = (enabled /\ ~ forget)
    /\ UNCHANGED <<app, launches, worker_stop, worker, node, lost, unheard>>

----------------------------------------------------------------------------
(* The task.                                                               *)

\* the hub may have checked the node in and its answer be lost; then, or when the sandbox
\* does not start, the task fails
CheckIn(w) ==
    /\ \/ Moves(w, "check_in", "working") /\ presence' = "in"
       \/ Moves(w, "check_in", "failed") /\ presence' \in {presence, "in"}
    /\ UNCHANGED <<worker_stop, told, enabled, card, lost>> /\ Outside

\* a tick claims while the slot of the machine is free, and checks in again first if need be
Claims(w) ==
    /\ ~ Stopped(w)
    /\ \/ Moves(w, "working", "card") /\ presence = "in" /\ card = None /\ card' = w /\ UNCHANGED presence
       \/ Moves(w, "working", "working") /\ presence # "in" /\ presence' = "in" /\ UNCHANGED card
    /\ UNCHANGED <<worker_stop, told, enabled, lost>> /\ Outside

\* completed or failed; or the hub was not told, and the lease is left to expire
CardEnds(w) ==
    /\ Moves(w, "card", "working")
    /\ card' \in {None, Left}
    /\ UNCHANGED <<worker_stop, told, enabled, presence, lost>> /\ Outside

\* the stop is seen between two cards, or in the middle of one, which is handed back
Leaves(w) ==
    /\ Stopped(w)
    /\ \/ Moves(w, "working", "check_out") /\ UNCHANGED card
       \/ Moves(w, "card", "check_out") /\ card' \in {None, Left}
    /\ UNCHANGED <<worker_stop, told, enabled, presence, lost>> /\ Outside

Out == IF card = None THEN "out" ELSE "draining"

\* run_forever checks out on its way down
ChecksOut(w) ==
    /\ \/ Moves(w, "check_out", "clearing") /\ presence' = Out /\ UNCHANGED lost
       \/ Moves(w, "check_out", "failed") /\ lost < MaxLost /\ lost' = lost + 1 /\ UNCHANGED presence
    /\ UNCHANGED <<worker_stop, told, enabled, card>> /\ Outside

FailsQuietly(w) ==
    /\ Moves(w, "failed", "clearing")
    /\ UNCHANGED <<presence, lost, worker_stop, told, enabled, card>> /\ Outside

\* whatever failed, the shell checks out itself, and does not look at the answer
Fails(w) ==
    /\ Moves(w, "failed", "clearing")
    /\ \/ presence' = Out /\ UNCHANGED <<lost, unheard>>
       \/ lost < MaxLost /\ lost' = lost + 1 /\ unheard' = TRUE /\ UNCHANGED presence
    /\ UNCHANGED <<app, launches, worker_stop, told, enabled, card>>

\* whoever is in the slot
Clears(w) ==
    /\ Moves(w, "clearing", "done") /\ worker_stop' = None
    /\ UNCHANGED <<told, enabled, node, lost>> /\ Outside

----------------------------------------------------------------------------
(* The app, the hub.                                                       *)

\* quit in the tray: stop, remember what was on, and wait ten seconds for the slot to empty
Quit ==
    /\ app = "up" /\ app' = "quitting"
    /\ told' = told \cup ({worker_stop} \ {None})
    /\ UNCHANGED <<launches, worker_stop, worker, enabled, node, lost, unheard>>

\* the slot is empty, or the wait is over: what still runs dies with the process
Exit ==
    /\ app = "quitting" /\ app' = "gone"
    /\ unheard' = (unheard \/ \E w \in Starts : worker[w] \in Alive)
    /\ worker' = [w \in Starts |-> IF worker[w] = "none" THEN "none" ELSE "done"]
    /\ worker_stop' = None
    /\ card' = IF card = None THEN None ELSE Left
    /\ UNCHANGED <<launches, told, enabled, presence, lost>>

\* the next launch resumes what was on, with a call of worker_start
Launch ==
    /\ app = "gone" /\ launches < MaxLaunches
    /\ app' = "up" /\ launches' = launches + 1
    /\ UNCHANGED <<tasks, enabled, node, lost, unheard>>

\* leases that expire, nodes that are not heard of
Reaped ==
    /\ \/ card = Left /\ card' = None /\ UNCHANGED presence
       \/ presence = "in" /\ (\A w \in Starts : worker[w] \notin Alive)
          /\ presence' = "out" /\ UNCHANGED card
    /\ UNCHANGED <<app, launches, tasks, enabled, lost, unheard>>

Next ==
    \/ \E w \in Starts : \/ StartLooks(w) \/ StartRefused(w) \/ StartGoes(w)
                         \/ CheckIn(w) \/ Claims(w) \/ CardEnds(w) \/ Leaves(w)
                         \/ ChecksOut(w) \/ Fails(w) \/ Clears(w)
    \/ \E forget \in BOOLEAN : StopWorker(forget)
    \/ Quit \/ Exit \/ Launch \/ Reaped

Spec == Init /\ [][Next]_vars

----------------------------------------------------------------------------
(* Properties.                                                             *)

\* However many starts, stops and launches overlap: when nothing works any more the hub does
\* not take the node for working, unless the last check out of a worker was lost or the app did
\* not wait for it; and as long as the app is shown as working something does.
NothingLeftBehind ==
    /\ (\A w \in Starts : worker[w] \notin Alive) /\ ~ unheard => presence # "in"
    /\ worker_stop # None => worker[worker_stop] \in Alive
=============================================================================
