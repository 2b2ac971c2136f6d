------------------------------- MODULE Fleet -------------------------------
(*****************************************************************************)
(* The fleet, part by part: the services of the community hub, the loops of  *)
(* a computer, and its desktop applications.  The parts share no variable,   *)
(* so that a behaviour of them all is an interleaving of behaviours of       *)
(* each, and an invariant or an action property of one holds of the whole    *)
(* just if it holds while the others stand still.                            *)
(*****************************************************************************)
EXTENDS Naturals, Sequences, FiniteSets, TLC

CONSTANTS
    \* FleetDispatch
    DispatchNode, DispatchCard, Parent, Deps, Rank, OwnNode, Budgets, Costs, Purse,
    DispatchTTL, DispatchMaxCrashes,
    \* LedgerArchive
    ArchiveServer, Member, ArchiveFund, Treasury, Source, Last, MaxTxns, Keep,
    Writer, BlobMaxCrashes,                                   \* BlobStore
    \* ServerElection
    ElectionServer, Standby, ElectionTTL, MaxVersion, ElectionMaxFaults,
    \* AgentLoop
    LoopNode, MaxRevisions, LoopTTL, MaxDrafts, LoopMaxFaults, MaxSendBacks,
    MaxPresses, WorkerMaxLost, MaxBreaks,                     \* WorkerNode
    \* CodeSession
    MaxTurns, MaxRepairs, MaxVerifyRuns, Declared, Lease, MaxBatch,
    \* CodeWorkspaces
    CheckoutCard, Process, CardOf, CheckoutFresh, CheckoutMaxFaults, MaxWork,
    \* RegionalControl
    ControlCard, MaxCalls, MaxTokens, MaxLeases, ControlMaxFaults,
    Codes, Servers, MaxSteps,                                 \* NativeShell
    TauriStarts, TauriMaxLost, MaxLaunches, Left,             \* TauriShell
    Limit, Second, MaxTime, Quote, Charge, BatchSize,         \* DesktopSpending
    RemoteCall, Asked, Id, Agent, Built,                      \* RemoteCalls
    None                                                      \* nobody, nothing

VARIABLES
    moving,  \* the part that runs; the others stand still
    dispatchPresence, beat, dispatchStatus, lease, dispatchLife, shared, budget, approved,
    hold, spent, fund, purse, wallet, down,
    ledgerNow, hot, checkpoints, log, posted, pass, stored, history,
    part, blob, full, blobsPc, fd, removing, crashes,
    electionHolder, electionLeft, electionLate, electionUp, flag, url, heard, due, board,
    snapshot, electionFaults,
    kind, loopStatus, loopHolder, loopLife, ckpt, child, output, run, deadline, drafts,
    verdict, round, rejected, loopFaults, sentBack,
    intent, news, owner, sup, shown, wk, workerResult, stop, beats, permit, workerPresence,
    age, leased, workerReady, usable, presses, unblocked, workerLost, breaks, asked,
    sessionPc, sessionLeft, sessionTurns, repairs, sessionCalls, context, spawned, good,
    verifyRuns, terminal, failure, lastGate, outcome, package, execs,
    checkoutPc, cardLock, repoLock, cache, checkoutReady, branch, dest, receipt, work,
    checkoutFaults,
    keyOk, controlStatus, controlHolder, controlLate, epoch, live, granted, expired,
    session, bearer, controlCalls, cur, again, held, acked, controlFaults,
    key, pairing, poll, claimed, busy, setup, steps, server_stop, serve, tunnel,
    shellEnabled, registered,
    app, launches, worker_stop, worker, told, tauriEnabled, tauriPresence, card, tauriLost,
    unheard,
    spendingNow, spendingTurns, bytes, actions, cost, times, pending, failed, stopped,
    batch, asking, billed, unseen, overrun, inputs,
    callsPc, method, agent, id, answer, stage, callsResult, effects, callsLate, served,
    done, revoked, host, callsUp

\* The cards, leases and honey of the community hub.
Dispatch == INSTANCE FleetDispatch WITH
    Node <- DispatchNode, Card <- DispatchCard, TTL <- DispatchTTL,
    MaxCrashes <- DispatchMaxCrashes, presence <- dispatchPresence,
    status <- dispatchStatus, life <- dispatchLife
dispatchVars == <<dispatchPresence, beat, dispatchStatus, lease, dispatchLife, shared,
                  budget, approved, hold, spent, fund, purse, wallet, down>>

\* The archive of its ledger, and the servers that may believe they should keep it.
Archive == INSTANCE LedgerArchive WITH
    Server <- ArchiveServer, Fund <- ArchiveFund, now <- ledgerNow
ledgerVars == <<ledgerNow, hot, checkpoints, log, posted, pass, stored, history>>

\* The file of one blob of a server.
Blob == INSTANCE BlobStore WITH
    NoFile <- None, MaxCrashes <- BlobMaxCrashes, pc <- blobsPc
blobsVars == <<part, blob, full, blobsPc, fd, removing, crashes>>

\* Which server acts for the fleet.
Election == INSTANCE ServerElection WITH
    Server <- ElectionServer, Nobody <- None, TTL <- ElectionTTL,
    MaxFaults <- ElectionMaxFaults, holder <- electionHolder, left <- electionLeft,
    late <- electionLate, up <- electionUp, faults <- electionFaults
electionVars == <<electionHolder, electionLeft, electionLate, electionUp, flag, url, heard,
                  due, board, snapshot, electionFaults>>

\* The agent loop of a card, and the nodes that hand it to each other.
Loop == INSTANCE AgentLoop WITH
    Node <- LoopNode, Nobody <- None, TTL <- LoopTTL, MaxFaults <- LoopMaxFaults,
    status <- loopStatus, holder <- loopHolder, life <- loopLife, faults <- loopFaults
loopVars == <<kind, loopStatus, loopHolder, loopLife, ckpt, child, output, run, deadline,
              drafts, verdict, round, rejected, loopFaults, sentBack>>

\* The supervisor of a machine, its dispatch loop and its heartbeats.
Worker == INSTANCE WorkerNode WITH
    MaxLost <- WorkerMaxLost, result <- workerResult, presence <- workerPresence,
    ready <- workerReady, lost <- workerLost
workerVars == <<intent, news, owner, sup, shown, wk, workerResult, stop, beats, permit,
                workerPresence, age, leased, workerReady, usable, presses, unblocked,
                workerLost, breaks, asked>>

\* A coding session with its required checks.
Session == INSTANCE CodeSession WITH
    pc <- sessionPc, left <- sessionLeft, turns <- sessionTurns, calls <- sessionCalls
sessionVars == <<sessionPc, sessionLeft, sessionTurns, repairs, sessionCalls, context,
                 spawned, good, verifyRuns, terminal, failure, lastGate, outcome, package,
                 execs>>

\* The checkouts of one repository and the processes that prepare and use them.
Checkout == INSTANCE CodeWorkspaces WITH
    Card <- CheckoutCard, Fresh <- CheckoutFresh, MaxFaults <- CheckoutMaxFaults,
    Free <- None, pc <- checkoutPc, ready <- checkoutReady, faults <- checkoutFaults
checkoutVars == <<checkoutPc, cardLock, repoLock, cache, checkoutReady, branch, dest,
                  receipt, work, checkoutFaults>>

\* A node of the regional pilot and its cards, which others may take as well.
Control == INSTANCE RegionalControl WITH
    Card <- ControlCard, MaxFaults <- ControlMaxFaults, status <- controlStatus,
    holder <- controlHolder, late <- controlLate, calls <- controlCalls,
    faults <- controlFaults
controlVars == <<keyOk, controlStatus, controlHolder, controlLate, epoch, live, granted,
                 expired, session, bearer, controlCalls, cur, again, held, acked,
                 controlFaults>>

\* Codes, server role and setup of the native app.
Native == INSTANCE NativeShell WITH
    enabled <- shellEnabled
shellVars == <<key, pairing, poll, claimed, busy, setup, steps, server_stop, serve, tunnel,
               shellEnabled, registered>>

\* The worker of the other desktop app, which may be launched more than once.
Tauri == INSTANCE TauriShell WITH
    Starts <- TauriStarts, MaxLost <- TauriMaxLost, enabled <- tauriEnabled,
    presence <- tauriPresence, lost <- tauriLost
tauriVars == <<app, launches, worker_stop, worker, told, tauriEnabled, tauriPresence, card,
               tauriLost, unheard>>

\* The ledger of a desktop session.
Spending == INSTANCE DesktopSpending WITH
    now <- spendingNow, turns <- spendingTurns
spendingVars == <<spendingNow, spendingTurns, bytes, actions, cost, times, pending, failed,
                  stopped, batch, asking, billed, unseen, overrun, inputs>>

\* Two calls of a computer, the second of which may repeat the first.
Remote == INSTANCE RemoteCalls WITH
    Call <- RemoteCall, Nobody <- None, pc <- callsPc, result <- callsResult,
    late <- callsLate, up <- callsUp
callsVars == <<callsPc, method, agent, id, answer, stage, callsResult, effects, callsLate,
               served, done, revoked, host, callsUp>>

ASSUME DispatchAssumed == Dispatch!FleetAssumption
ASSUME ArchiveAssumed == Archive!LedgerAssumption
ASSUME BlobAssumed == Blob!StoreAssumption
ASSUME ElectionAssumed == Election!ElectionAssumption
ASSUME LoopAssumed == Loop!LoopAssumption
ASSUME WorkerAssumed == Worker!WorkerAssumption
ASSUME SessionAssumed == Session!SessionAssumption
ASSUME CheckoutAssumed == Checkout!WorkspacesAssumption
ASSUME ControlAssumed == Control!ControlAssumption
ASSUME NativeAssumed == Native!ShellAssumption
ASSUME TauriAssumed == Tauri!TauriAssumption
ASSUME SpendingAssumed == Spending!SpendingAssumption
ASSUME RemoteAssumed == Remote!CallsAssumption

Init ==
    /\ moving \in {"dispatch", "ledger", "blobs", "election", "loop", "worker", "session",
                   "checkout", "control", "shell", "tauri", "spending", "calls"}
    /\ Dispatch!Init /\ (moving # "dispatch" => shared)
    /\ Archive!Init
    /\ Blob!Init
    /\ Election!Init
    /\ Loop!Init /\ (moving # "loop" => kind.single /\ ~ kind.child)
    /\ Worker!Init /\ (moving # "worker" => intent = "Rest")
    /\ Session!Init /\ (moving # "session" => context = "none" /\ good)
    /\ Checkout!Init
    /\ Control!Init
    /\ Native!Init
    /\ Tauri!Init /\ (moving # "tauri" => tauriEnabled = FALSE)
    /\ Spending!Init
    /\ Remote!Init /\ (moving # "calls" => host = [a \in {"a1"} |-> "here"])

Next ==
    \/ /\ moving = "dispatch" /\ Dispatch!Next
       /\ UNCHANGED <<moving, ledgerVars, blobsVars, electionVars, loopVars, workerVars,
                      sessionVars, checkoutVars, controlVars, shellVars, tauriVars,
                      spendingVars, callsVars>>
    \/ /\ moving = "ledger" /\ Archive!Next
       /\ UNCHANGED <<moving, dispatchVars, blobsVars, electionVars, loopVars, workerVars,
                      sessionVars, checkoutVars, controlVars, shellVars, tauriVars,
                      spendingVars, callsVars>>
    \/ /\ moving = "blobs" /\ Blob!Next
       /\ UNCHANGED <<moving, dispatchVars, ledgerVars, electionVars, loopVars, workerVars,
                      sessionVars, checkoutVars, controlVars, shellVars, tauriVars,
                      spendingVars, callsVars>>
    \/ /\ moving = "election" /\ Election!Next
       /\ UNCHANGED <<moving, dispatchVars, ledgerVars, blobsVars, loopVars, workerVars,
                      sessionVars, checkoutVars, controlVars, shellVars, tauriVars,
                      spendingVars, callsVars>>
    \/ /\ moving = "loop" /\ Loop!Next
       /\ UNCHANGED <<moving, dispatchVars, ledgerVars, blobsVars, electionVars,
                      workerVars, sessionVars, checkoutVars, controlVars, shellVars,
                      tauriVars, spendingVars, callsVars>>
    \/ /\ moving = "worker" /\ Worker!Next
       /\ UNCHANGED <<moving, dispatchVars, ledgerVars, blobsVars, electionVars, loopVars,
                      sessionVars, checkoutVars, controlVars, shellVars, tauriVars,
                      spendingVars, callsVars>>
    \/ /\ moving = "session" /\ Session!Next
       /\ UNCHANGED <<moving, dispatchVars, ledgerVars, blobsVars, electionVars, loopVars,
                      workerVars, checkoutVars, controlVars, shellVars, tauriVars,
                      spendingVars, callsVars>>
    \/ /\ moving = "checkout" /\ Checkout!Next
       /\ UNCHANGED <<moving, dispatchVars, ledgerVars, blobsVars, electionVars, loopVars,
                      workerVars, sessionVars, controlVars, shellVars, tauriVars,
                      spendingVars, callsVars>>
    \/ /\ moving = "control" /\ Control!Next
       /\ UNCHANGED <<moving, dispatchVars, ledgerVars, blobsVars, electionVars, loopVars,
                      workerVars, sessionVars, checkoutVars, shellVars, tauriVars,
                      spendingVars, callsVars>>
    \/ /\ moving = "shell" /\ Native!Next
       /\ UNCHANGED <<moving, dispatchVars, ledgerVars, blobsVars, electionVars, loopVars,
                      workerVars, sessionVars, checkoutVars, controlVars, tauriVars,
                      spendingVars, callsVars>>
    \/ /\ moving = "tauri" /\ Tauri!Next
       /\ UNCHANGED <<moving, dispatchVars, ledgerVars, blobsVars, electionVars, loopVars,
                      workerVars, sessionVars, checkoutVars, controlVars, shellVars,
                      spendingVars, callsVars>>
    \/ /\ moving = "spending" /\ Spending!Next
       /\ UNCHANGED <<moving, dispatchVars, ledgerVars, blobsVars, electionVars, loopVars,
                      workerVars, sessionVars, checkoutVars, controlVars, shellVars,
                      tauriVars, callsVars>>
    \/ /\ moving = "calls" /\ Remote!Next
       /\ UNCHANGED <<moving, dispatchVars, ledgerVars, blobsVars, electionVars, loopVars,
                      workerVars, sessionVars, checkoutVars, controlVars, shellVars,
                      tauriVars, spendingVars>>

vars == <<moving, dispatchVars, ledgerVars, blobsVars, electionVars, loopVars, workerVars,
          sessionVars, checkoutVars, controlVars, shellVars, tauriVars, spendingVars,
          callsVars>>

Spec == Init /\ [][Next]_vars

-----------------------------------------------------------------------------
\* Honey is reserved exactly while a card is leased, no card costs more than its limit,
\* none appears or disappears, and a node is paid once per lease of its own.
MoneySafe == [][moving = "dispatch" => Dispatch!MoneyStep]_dispatchVars

\* A call through a regional server takes effect once, in time, and about the lease it was
\* sent for.
ControlSafe == [][moving = "control" => Control!ControlStep]_controlVars

\* Archiving moves no honey, and what was deleted lies in exactly one archived month.
ArchiveSafe == Archive!ArchiveSafe

\* A valid address never shows a half blob.
NoHalfBlob == Blob!NoHalfBlob

\* A server that is connected is not mistaken about being the coordinator.
BeliefIsTrueWhileFresh == Election!BeliefIsTrueWhileFresh

\* A draft that is handed in was reviewed, whoever wrote it, and stays until a member sends
\* it back.
LoopSafe == [][moving = "loop" => Loop!LoopStep]_loopVars

\* What the member is shown is true, and a run that ended as asked leaves nothing behind.
WorkerSafe == Worker!WorkerSafe

\* What a coding session reports can be trusted.
SessionSafe == Session!SessionSafe

\* What the window shows of codes, servers and setup is so.
ShownIsSo == Native!ShownIsSo

\* Whatever starts, fails and quits at once, no task and no presence is left that the app
\* does not know of.
NothingLeftBehind == Tauri!NothingLeftBehind

\* What the provider may charge is covered by the limit, and inputs keep to their rate.
SpendingSafe == Spending!SpendingSafe

\* What a crash left behind is not mistaken for a checkout, sessions keep apart, and a
\* checkout that holds work is never made anew.
CheckoutsSafe == [][moving = "checkout" => Checkout!CheckoutsStep]_checkoutVars

\* A call takes effect once at most, whoever is told so, and only for a key and an agent of
\* the computer.
CallsSafe == Remote!CallsSafe

-----------------------------------------------------------------------------
(* A small instance: what Fleet.cfg gives to the parameters that are functions. *)

\* two planned cards, the second of which waits for the first
NoParents == [c \in DispatchCard |-> None]
OneAfterTheOther == ("c1" :> {}) @@ ("c2" :> {"c1"})
InOrder == ("c1" :> 1) @@ ("c2" :> 2)

\* two cards of one repository, with two processes each
TwoSessionsEach == "p1" :> "c1" @@ "p2" :> "c1" @@ "p3" :> "c2" @@ "p4" :> "c2"

\* one method of each kind; the second call may send the same message again
OneOfEach ==
    [x |-> {"agents_create", "message_send", "bots_agent_handoff_create",
            "private_run_request", "pair", "handoff_create", "record_agent_usage",
            "hive_personal_channel_post_node", "interview", "hive_pair_begin",
            "bots_report_unroutable", "private_review_workflow_stop", "hub_name"},
     y |-> {"bots_message_send"}]

SmallLimit == [turns |-> 2, duration |-> 4, bytes |-> 6, actions |-> 3, perSecond |-> 2, cost |-> 3]

\* nodes that work on a card are alike
Symmetric == Permutations(LoopNode)
=============================================================================
