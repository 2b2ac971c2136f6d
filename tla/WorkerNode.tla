------------------------------ MODULE WorkerNode ------------------------------
(***************************************************************************)
(* One machine: the member's intent, the supervisor that drives the worker *)
(* towards it, a run of the worker with its dispatch loop and its heartbeat*)
(* loop, and what the hub knows of the node (presence, heartbeat, lease).  *)
(*                                                                         *)
(* The supervisor hears of intent through a watch channel, where changes   *)
(* coalesce, and of a run only that it ended.  How long a retry waits is   *)
(* left to the scheduler.                                                  *)
(***************************************************************************)
EXTENDS Naturals

CONSTANTS
    MaxPresses,   \* bound: times the member sets the intent
    MaxLost,      \* bound: calls that fail, panics of the worker
    MaxBreaks     \* bound: times the model server goes away

WorkerAssumption == {MaxPresses, MaxLost, MaxBreaks} \subseteq Nat

VARIABLES
    intent, news, owner,  \* the watch: its value, whether there is an unseen change, its sender
    sup, shown,           \* where Supervisor::run is, the WorkerStatus it published
    wk, result, stop,     \* where the run is, how the last one ended, its stop flag
    beats,                \* the heartbeat loop runs
    permit,               \* who holds the execution slot of the machine
    presence, age,        \* hive.nodes: presence, and how old last_heartbeat is (2: stale)
    leased, ready,        \* a card is leased to this node, waits to be leased
    usable,               \* key and models are there
    presses, unblocked, lost, breaks, asked

intents == <<intent, news, owner, presses>>
hub == <<presence, age, leased, ready>>
ghosts == <<unblocked, asked>>
vars == <<intents, sup, shown, wk, result, stop, beats, permit, hub, usable, lost, breaks, ghosts>>

TypeOK ==
    /\ intent \in {"Work", "Rest"} /\ news \in BOOLEAN /\ owner \in BOOLEAN
    /\ sup \in {"decide", "resting", "running", "retrying", "blocked", "gone"}
    /\ shown \in {"Resting", "Working", "Retrying", "Blocked"}
    /\ wk \in {"none", "start", "poll", "tick", "card", "check_out", "ended"}
    /\ result \in {"none", "requested", "error", "terminal"}
    /\ stop \in BOOLEAN /\ beats \in BOOLEAN
    /\ permit \in {"free", "worker", "bots"}
    /\ presence \in {"checked_in", "draining", "checked_out"} /\ age \in 0 .. 2
    /\ leased \in BOOLEAN /\ ready \in BOOLEAN /\ usable \in BOOLEAN /\ asked \in BOOLEAN
    /\ presses \in 0 .. MaxPresses /\ unblocked \in 0 .. MaxPresses
    /\ lost \in 0 .. MaxLost /\ breaks \in 0 .. MaxBreaks
    /\ permit = "worker" <=> wk = "card"

Init ==
    /\ intent \in {"Work", "Rest"} /\ news = FALSE /\ owner = TRUE
    /\ sup = "decide" /\ shown = "Resting"
    /\ wk = "none" /\ result = "none" /\ stop = FALSE /\ beats = FALSE
    /\ permit = "free"
    /\ presence = "checked_out" /\ age = 2 /\ leased = FALSE /\ ready = TRUE
    /\ usable = TRUE
    /\ presses = 0 /\ unblocked = 0 /\ lost = 0 /\ breaks = 0 /\ asked = FALSE

Fails == lost < MaxLost /\ lost' = lost + 1
Up == wk \notin {"none", "ended"}

----------------------------------------------------------------------------
(* Supervisor::run.                                                        *)

\* the top of the loop
Decide ==
    /\ sup = "decide"
    /\ IF intent = "Rest"
          THEN /\ sup' = "resting" /\ shown' = "Resting"
               /\ UNCHANGED <<wk, result, stop, asked>>
          ELSE /\ sup' = "running" /\ shown' = "Working"
               /\ wk' = "start" /\ result' = "none" /\ stop' = FALSE /\ asked' = FALSE
    /\ UNCHANGED <<intents, beats, permit, hub, usable, lost, breaks, unblocked>>

\* run_once, an unseen change or a sender that is gone; the run is waited for all the same
Notices ==
    /\ sup = "running" /\ (news \/ ~ owner)
    /\ stop' = (stop \/ ~ news \/ intent = "Rest")
    /\ asked' = stop'
    /\ news' = FALSE
    /\ UNCHANGED <<intent, owner, presses, sup, shown, wk, result, beats, permit, hub, usable, lost, breaks, unblocked>>

JoinedGivingUp ==
    /\ sup = "running" /\ wk = "ended"
    /\ \/ intent = "Rest" /\ sup' = "decide" /\ UNCHANGED shown
       \/ /\ intent = "Work" /\ result = "terminal"
          /\ sup' = "blocked" /\ shown' = "Blocked"
       \/ /\ intent = "Work" /\ result # "terminal"
          /\ sup' = "resting" /\ shown' = "Resting"
    /\ UNCHANGED <<intents, wk, result, stop, beats, permit, hub, usable, lost, breaks, ghosts>>

\* the run ended: what the member wants counts, whatever the run reports
Joined ==
    /\ sup = "running" /\ wk = "ended"
    /\ \/ intent = "Rest" /\ sup' = "decide" /\ UNCHANGED shown
       \/ /\ intent = "Work" /\ result = "terminal"
          /\ sup' = "blocked" /\ shown' = "Blocked"
       \/ /\ intent = "Work" /\ result # "terminal"
          /\ sup' = "retrying" /\ shown' = "Retrying"
    /\ UNCHANGED <<intents, wk, result, stop, beats, permit, hub, usable, lost, breaks, ghosts>>

\* idle_until_intent_changes, and idle_for when the intent changes first
Wakes ==
    /\ sup \in {"resting", "retrying", "blocked"}
    /\ \/ /\ news /\ news' = FALSE
          /\ sup' = "decide"
          /\ unblocked' = IF sup = "blocked" THEN unblocked + 1 ELSE unblocked
       \/ /\ ~ news /\ ~ owner
          /\ sup' = "gone" /\ UNCHANGED <<news, unblocked>>
    /\ UNCHANGED <<intent, owner, presses, shown, wk, result, stop, beats, permit, hub, usable, lost, breaks, asked>>

\* idle_for runs out
RetryDue ==
    /\ sup = "retrying"
    /\ sup' = "decide"
    /\ UNCHANGED <<intents, shown, wk, result, stop, beats, permit, hub, usable, lost, breaks, ghosts>>

----------------------------------------------------------------------------
(* A run: NodeWorker::run, Worker::run_until_stopped.                      *)

EndsRun(how) == wk' = "ended" /\ result' = how /\ beats' = FALSE
Stays == UNCHANGED <<intents, sup, shown, stop, usable, breaks, ghosts>>

\* nothing to work with, or the hub does not answer; else check_in and both loops
Starts ==
    /\ wk = "start"
    /\ \/ /\ ~ usable /\ EndsRun("terminal")
          /\ UNCHANGED <<lost, presence, age>>
       \/ /\ usable /\ Fails /\ EndsRun("error")
          /\ UNCHANGED <<presence, age>>
       \/ /\ usable
          /\ presence' = "checked_in" /\ age' = 0
          /\ wk' = "poll" /\ beats' = TRUE
          /\ UNCHANGED <<result, lost>>
    /\ UNCHANGED <<permit, leased, ready>> /\ Stays

\* dispatch_loop between two passes
Polls ==
    /\ wk = "poll"
    /\ wk' = IF stop THEN "check_out" ELSE "tick"
    /\ UNCHANGED <<result, beats, permit, hub, lost>> /\ Stays

\* tick: the slot of the machine first, then one card
Ticks ==
    /\ wk = "tick"
    /\ \/ /\ permit # "free" \/ (presence = "checked_in" /\ (leased \/ ~ ready))
          /\ wk' = "poll" /\ UNCHANGED <<permit, hub, lost>>
       \/ /\ permit = "free" /\ Fails
          /\ wk' = "poll" /\ UNCHANGED <<permit, hub>>
       \/ /\ permit = "free" /\ presence # "checked_in"
          /\ presence' = "checked_in" /\ age' = 0
          /\ wk' = "poll" /\ UNCHANGED <<permit, leased, ready, lost>>
       \/ /\ permit = "free" /\ presence = "checked_in" /\ ~ leased /\ ready
          /\ leased' = TRUE /\ ready' = FALSE /\ permit' = "worker"
          /\ wk' = "card" /\ UNCHANGED <<presence, age, lost>>
    /\ UNCHANGED <<result, beats>> /\ Stays

\* run_card ends: the card is completed, failed or refused; or the hub cannot be told
CardEnds ==
    /\ wk = "card" /\ permit' = "free"
    /\ \/ wk' = "tick" /\ leased' = FALSE /\ UNCHANGED lost
       \/ wk' = "poll" /\ Fails /\ UNCHANGED leased
    /\ UNCHANGED <<result, beats, presence, age, ready>> /\ Stays

StopsCardKeepingLease ==
    /\ wk = "card" /\ stop
    /\ permit' = "free" /\ wk' = "check_out"
    /\ UNCHANGED <<result, beats, hub, lost>> /\ Stays

\* a stop in the middle of a card hands it back before checking out
StopsCard ==
    /\ wk = "card" /\ stop
    /\ permit' = "free" /\ wk' = "check_out"
    /\ \/ leased' = FALSE /\ ready' = (ready \/ leased) /\ UNCHANGED lost
       \/ Fails /\ UNCHANGED <<leased, ready>>
    /\ UNCHANGED <<result, beats, presence, age>> /\ Stays

ChecksOut ==
    /\ wk = "check_out"
    /\ \/ /\ presence' = IF leased THEN "draining" ELSE "checked_out"
          /\ age' = 0
          /\ EndsRun("requested") /\ UNCHANGED lost
       \/ Fails /\ EndsRun("error") /\ UNCHANGED <<presence, age>>
    /\ UNCHANGED <<permit, leased, ready>> /\ Stays

Panics ==
    /\ Up /\ Fails /\ EndsRun("error")
    /\ permit' = IF permit = "worker" THEN "free" ELSE permit
    /\ UNCHANGED hub /\ Stays

\* the heartbeat loop while a run lasts, the supervisor's ping while it idles; both are one
\* call, and the hub looks at the presence
Heartbeat ==
    /\ beats \/ sup \in {"resting", "retrying", "blocked"}
    /\ age' = IF presence = "checked_in" THEN 0 ELSE age
    /\ UNCHANGED <<wk, result, beats, permit, presence, leased, ready, lost>> /\ Stays

----------------------------------------------------------------------------
(* The member, the hub, the other users of the machine.                    *)

\* worker_start, worker_stop, supervise: the value may be the one it was
Presses(i) ==
    /\ owner /\ presses < MaxPresses
    /\ presses' = presses + 1 /\ intent' = i /\ news' = TRUE
    /\ UNCHANGED <<owner, sup, shown, wk, result, stop, beats, permit, hub, usable, lost, breaks, ghosts>>

AppGoesAway ==
    /\ owner /\ owner' = FALSE
    /\ UNCHANGED <<intent, news, presses, sup, shown, wk, result, stop, beats, permit, hub, usable, lost, breaks, ghosts>>

ModelServer ==
    /\ \/ usable /\ breaks < MaxBreaks /\ breaks' = breaks + 1
       \/ ~ usable /\ UNCHANGED breaks
    /\ usable' = ~ usable
    /\ UNCHANGED <<intents, sup, shown, wk, result, stop, beats, permit, hub, lost, ghosts>>

Elsewhere == UNCHANGED <<intents, sup, shown, wk, result, stop, beats, usable, lost, breaks, ghosts>>

\* bots of this machine use the same slot
BotsTurn ==
    /\ \/ permit = "free" /\ permit' = "bots"
       \/ permit = "bots" /\ permit' = "free"
    /\ UNCHANGED hub /\ Elsewhere

CardArrives == ~ ready /\ ready' = TRUE /\ UNCHANGED <<permit, presence, age, leased>> /\ Elsewhere
Time == age < 2 /\ age' = age + 1 /\ UNCHANGED <<permit, presence, leased, ready>> /\ Elsewhere

\* reap_stale_nodes, reap_expired_leases
Reaped ==
    /\ \/ presence = "checked_in" /\ age = 2 /\ presence' = "checked_out" /\ UNCHANGED <<leased, ready>>
       \/ leased /\ leased' = FALSE /\ ready' = TRUE /\ UNCHANGED presence
    /\ UNCHANGED <<permit, age>> /\ Elsewhere

Supervision == Decide \/ Notices \/ Joined \/ Wakes \/ RetryDue
Run == Starts \/ Polls \/ Ticks \/ CardEnds \/ StopsCard \/ ChecksOut

Next ==
    \/ Supervision \/ Run \/ Panics \/ Heartbeat
    \/ \E i \in {"Work", "Rest"} : Presses(i)
    \/ AppGoesAway \/ ModelServer \/ BotsTurn \/ CardArrives \/ Time \/ Reaped

Spec == Init /\ [][Next]_vars

\* tasks of the runtime go on, timers fire, and the hub keeps house
FairSpec ==
    /\ Spec /\ WF_vars(Supervision) /\ WF_vars(Run)
    /\ WF_vars(Heartbeat) /\ WF_vars(Time) /\ WF_vars(Reaped)

----------------------------------------------------------------------------
(* Properties.                                                             *)

\* What the member is shown is not a guess: while a run goes on the machine is shown as
\* working, so "resting", "retrying" and "blocked" all mean that nothing runs.
ShownIsTrue == Up => shown = "Working"

\* A machine whose member wants work works again, however its last run ended, unless that takes
\* the member: it is never silently left doing nothing.
ResumesWork == (owner /\ intent = "Work") ~> (wk \in {"poll", "tick", "card"} \/ shown = "Blocked" \/ intent = "Rest" \/ ~ owner)

\* A blocked machine tries again when its member does something, once, and not in a loop.
BlockedNeedsMember == unblocked <= presses /\ (news => unblocked < presses)

\* A run that ended as asked, with every call answered, leaves no card leased behind it and
\* the node checked out.
CleanExit == (wk = "ended" /\ result = "requested" /\ lost = 0) => (~ leased /\ presence # "checked_in")

\* A run shown as retrying "ended without being asked to".
RetryingWasNotAsked == (owner /\ shown = "Retrying") => ~ asked

\* A machine that rests for good is checked out, or is taken for checked out by the hub: the
\* reapers read availability, which pinging while idle leaves alone.
RestingIsCheckedOut == (intent = "Rest") ~> (presence # "checked_in" \/ intent = "Work" \/ ~ owner)

\* Whatever was lost, panicked or was pressed: the machine shows what it does, bothers the member no
\* more than once for a change, and leaves nothing behind at the hub.
WorkerSafe == ShownIsTrue /\ BlockedNeedsMember /\ CleanExit
=============================================================================
