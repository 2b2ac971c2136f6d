----------------------------- MODULE MCProgress -----------------------------
(*****************************************************************************)
(* What must happen in the end, part by part.  The parts share no variable;  *)
(* each runs while the others stand still, under the fairness its own        *)
(* module states and justifies.                                              *)
(*****************************************************************************)
EXTENDS Naturals, Sequences, FiniteSets, TLC

CONSTANTS c1, c2, s1, s2, n1, n2, m1, m2, None

VARIABLES
    moving,  \* the part that runs; the others stand still
    cardsStatus, row, deps, link, cardsHolder, cardsLeft, output, checkpoint, checkedIn,
    revoked,
    cause, root, depth, replied, announced, notified, botsStatus, gen, lease, retry,
    botsPc, batch, job, ticket, to, hold, botsTroubles,
    now, enabled, last, anchor, occ, conv, schedulesResult, schedulesPc, current, after,
    wait, executed, schedulesTroubles,
    storageUp, online, disk, artifact, replicas, put, pull, doomed, dropped, storageLost,
    crashes,
    electionHolder, electionLeft, late, electionUp, flag, url, heard, due, board, snapshot,
    faults,
    intent, news, owner, sup, shown, wk, workerResult, stop, beats, permit, presence, age,
    leased, ready, usable, presses, unblocked, workerLost, breaks, asked

\* A coordinator and a code child of it, one session on each computer.
Cards == INSTANCE LocalHubCards WITH Card <- {c1, c2}, Session <- {s1, s2},
                                     Node <- {n1, n2}, NodeOf <- (s1 :> n1) @@ (s2 :> n2),
                                     Code <- {c1, c2}, Eligible <- {n1, n2} \X {c1, c2},
                                     Scope <- [s \in {s1, s2} |-> {c1, c2}],
                                     DeclaredDeps <- [c \in {c1, c2} |-> {}],
                                     Ttl <- [c \in {c1, c2} |-> 1], Content <- {"x"},
                                     MaxStep <- 0, NoSession <- None, NoOutput <- None,
                                     status <- cardsStatus, holder <- cardsHolder,
                                     left <- cardsLeft
cardsVars == <<cardsStatus, row, deps, link, cardsHolder, cardsLeft, output, checkpoint,
               checkedIn, revoked>>

\* Two processes that serve the same agent.
Bots == INSTANCE BotsExecutor WITH Agent <- {c1}, Message <- {m1, m2}, Person <- "person",
                                   Unsent <- "unsent", NoDelivery <- None,
                                   Worker <- {s1, s2}, Hosts <- [w \in {s1, s2} |-> {c1}],
                                   MaxActive <- 1, LeaseTime <- 1, RetryTime <- 1,
                                   Batch <- 1, MaxDepth <- 1, MaxTurns <- 2, Width <- 1,
                                   MaxAsks <- 1, MaxTroubles <- 1, status <- botsStatus,
                                   pc <- botsPc, troubles <- botsTroubles
botsVars == <<cause, root, depth, replied, announced, notified, botsStatus, gen, lease,
              retry, botsPc, batch, job, ticket, to, hold, botsTroubles>>

\* Two schedules of one agent.
Timer == INSTANCE Schedules WITH Schedule <- {s1, s2}, Agent <- {c1},
                                 AgentOf <- [s \in {s1, s2} |-> c1],
                                 Every <- (s1 :> 1) @@ (s2 :> 2), StartAt <- {},
                                 RunTimeout <- 2, MaxPerTick <- 1, MaxTime <- 2,
                                 MaxTroubles <- 0, MaxAsks <- 0, NoStart <- None,
                                 Nobody <- None, result <- schedulesResult,
                                 pc <- schedulesPc, troubles <- schedulesTroubles
schedulesVars == <<now, enabled, last, anchor, occ, conv, schedulesResult, schedulesPc,
                   current, after, wait, executed, schedulesTroubles>>

\* A nightly backup and three servers.
Storage == INSTANCE FleetStorage WITH Server <- {s1, s2, n1}, Blob <- {m1}, Backup <- {m1},
                                      Nothing <- None, Factor <- 2, MaxLost <- 1,
                                      MaxCrashes <- 1, up <- storageUp, lost <- storageLost
storageVars == <<storageUp, online, disk, artifact, replicas, put, pull, doomed, dropped,
                 storageLost, crashes>>

\* Two servers that serve and one that stands by.
Election == INSTANCE ServerElection WITH
    Server <- {s1, s2, n1}, Standby <- {n1}, Nobody <- None, TTL <- 2, MaxVersion <- 1,
    MaxFaults <- 2, holder <- electionHolder, left <- electionLeft, up <- electionUp
electionVars == <<electionHolder, electionLeft, late, electionUp, flag, url, heard, due,
                  board, snapshot, faults>>

\* The supervisor of a machine, its dispatch loop and its heartbeats.
Worker == INSTANCE WorkerNode WITH MaxPresses <- 1, MaxLost <- 1, MaxBreaks <- 1,
                                   result <- workerResult, lost <- workerLost
workerVars == <<intent, news, owner, sup, shown, wk, workerResult, stop, beats, permit,
                presence, age, leased, ready, usable, presses, unblocked, workerLost,
                breaks, asked>>

ASSUME TimerAssumed == Timer!SchedulesAssumption
ASSUME StorageAssumed == Storage!StorageAssumption
ASSUME ElectionAssumed == Election!ElectionAssumption
ASSUME WorkerAssumed == Worker!WorkerAssumption

Init ==
    /\ moving \in {"cards", "bots", "schedules", "storage", "election", "worker"}
    /\ Cards!Init
    /\ Bots!Init
    /\ Timer!Init
    /\ Storage!Init
    /\ Election!Init
    /\ Worker!Init /\ (moving # "worker" => intent = "Rest")

Next ==
    \/ /\ moving = "cards" /\ Cards!Next
       /\ UNCHANGED <<moving, botsVars, schedulesVars, storageVars, electionVars,
                      workerVars>>
    \/ /\ moving = "bots" /\ Bots!Next
       /\ UNCHANGED <<moving, cardsVars, schedulesVars, storageVars, electionVars,
                      workerVars>>
    \/ /\ moving = "schedules" /\ Timer!Next
       /\ UNCHANGED <<moving, cardsVars, botsVars, storageVars, electionVars, workerVars>>
    \/ /\ moving = "storage" /\ Storage!Next
       /\ UNCHANGED <<moving, cardsVars, botsVars, schedulesVars, electionVars,
                      workerVars>>
    \/ /\ moving = "election" /\ Election!Next
       /\ UNCHANGED <<moving, cardsVars, botsVars, schedulesVars, storageVars, workerVars>>
    \/ /\ moving = "worker" /\ Worker!Next
       /\ UNCHANGED <<moving, cardsVars, botsVars, schedulesVars, storageVars,
                      electionVars>>

vars == <<moving, cardsVars, botsVars, schedulesVars, storageVars, electionVars,
          workerVars>>

Spec == Init /\ [][Next]_vars

\* the fairness each part states for itself, of the part that runs
FairSpec ==
    /\ Spec
    /\ WF_cardsVars(moving = "cards" /\ Cards!Tick)
    /\ WF_cardsVars(moving = "cards" /\ \E s \in {s1, s2} : Cards!Heartbeat(s))
    /\ WF_botsVars(moving = "bots" /\ Bots!Tick)
    /\ \A w \in {s1, s2} : WF_botsVars(moving = "bots" /\ Bots!Drain(w))
    /\ \A w \in {s1, s2} : SF_botsVars(moving = "bots" /\ Bots!List(w, c1))
    /\ WF_schedulesVars(moving = "schedules" /\ Timer!SchedulerStep)
    /\ WF_schedulesVars(moving = "schedules" /\ Timer!Elapse)
    /\ \A s \in {s1, s2, n1} : WF_storageVars(moving = "storage" /\ Storage!PutAnnounce(s))
    /\ \A s \in {s1, s2, n1} : WF_storageVars(moving = "storage" /\ Storage!Pull(s))
    /\ \A s \in {s1, s2, n1} : WF_storageVars(moving = "storage" /\ Storage!Gc(s))
    /\ \A s \in {s1, s2, n1} : WF_storageVars(moving = "storage" /\ Storage!ReapServer(s))
    /\ \A s \in {s1, s2, n1} : WF_storageVars(moving = "storage" /\ Storage!ReapReplicas(s))
    /\ \A s \in {s1, s2, n1} : SF_storageVars(moving = "storage" /\ Storage!PullPlan(s, m1))
    /\ WF_electionVars(moving = "election" /\ Election!Tick)
    /\ \A s \in {s1, s2, n1} : WF_electionVars(moving = "election" /\ Election!Heartbeat(s))
    /\ \A s \in {s1, s2, n1} : WF_electionVars(moving = "election" /\ Election!Refresh(s))
    /\ WF_workerVars(moving = "worker" /\ Worker!Supervision)
    /\ WF_workerVars(moving = "worker" /\ Worker!Run)
    /\ WF_workerVars(moving = "worker" /\ Worker!Heartbeat)
    /\ WF_workerVars(moving = "worker" /\ Worker!Time)
    /\ WF_workerVars(moving = "worker" /\ Worker!Reaped)

-----------------------------------------------------------------------------
\* The card of a worker that vanished does not stay its card.
LostWorkerLosesCard == moving = "cards" => Cards!LostWorkerLosesCard

\* What was asked of an agent comes to an end: every delivery is resolved, or waits for a
\* person, and every queued occurrence of a schedule is claimed or cancelled.
QueuesDrain == /\ moving = "bots" => Bots!DeliveriesResolve
               /\ moving = "schedules" => Timer!QueueDrains

\* A retired backup leaves the disks of the running servers.
RetiredGoAway == moving = "storage" => Storage!RetiredGoAway

\* A fleet whose coordinator died has a running one again.
SomeoneTakesOver == moving = "election" => Election!SomeoneTakesOver

\* A machine whose member wants work works again.
ResumesWork == moving = "worker" => Worker!ResumesWork
=============================================================================
