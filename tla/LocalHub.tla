------------------------------ MODULE LocalHub ------------------------------
(*****************************************************************************)
(* The other services of a local hub, and the choice of the hub a computer   *)
(* works on, part by part.  The parts share no variable, so that an          *)
(* invariant or an action property of one holds of the whole just if it      *)
(* holds while the others stand still.                                       *)
(*****************************************************************************)
EXTENDS Naturals, Sequences, FiniteSets, TLC

CONSTANTS
    \* Schedules
    Schedule, Agent, AgentOf, Every, StartAt, RunTimeout, MaxPerTick, MaxTime, MaxTroubles,
    MaxAsks,
    Path, Scanner, Watcher, MaxVersion, MaxScans,             \* FolderVault
    Note, Connector, ManagedMaxText, MaxGen, MaxRuns,         \* ManagedVault
    \* SharedVaults
    SharingDevice, Member, Project, Contents, Repo, Vault, Card, SharingMaxText,
    \* FleetEnrollment
    EnrollmentDevice, Account, Process, Guesses, MaxCodes, MaxNonce, MaxSigned,
    \* ReviewWorkflows
    MaxTasks, MaxFlows, RoundLimit, Allowed, MaxByHand, FlowsMaxChanges,
    Op, Worker, ChoiceMaxChanges,                             \* PrimarySelection
    None                                                      \* nobody, nothing

VARIABLES
    moving,  \* the part that runs; the others stand still
    now, enabled, last, anchor, occ, conv, result, pc, current, after, wait, executed,
    troubles,
    disk, written, folderDocs, ids, generation, state, scan, active, scans,
    managedDocs, managedTexts, intake, archive, approving, policy, expires, token, runs,
    started, managedReady,
    key, projects, vaultOf, binding, vaults, sharingReady, readers, text, sharingTexts,
    found, given, cards, withdrawn, dropped,
    pairing, codes, minted, nodes, selfKey, opening, authority, challenge, nonces, signed,
    verified, enrollments,
    task, flow, able, hand, byHand, changes,
    selected, account, enrolled, made, joined, revoked, server, pending, gate, asked,
    session, worker, stopped, off, report, op, seen

\* The schedules of agents, crashes and messages of people included.
Timer == INSTANCE Schedules WITH
    NoStart <- None, Nobody <- None
schedulesVars == <<now, enabled, last, anchor, occ, conv, result, pc, current, after, wait,
                   executed, troubles>>

\* A vault that is kept from a folder, and the scans of it.
Folder == INSTANCE FolderVault WITH
    Absent <- None, docs <- folderDocs
folderVars == <<disk, written, folderDocs, ids, generation, state, scan, active, scans>>

\* A curated vault and its connectors.
Managed == INSTANCE ManagedVault WITH
    MaxText <- ManagedMaxText, docs <- managedDocs, texts <- managedTexts,
    ready <- managedReady
managedVars == <<managedDocs, managedTexts, intake, archive, approving, policy, expires,
                 token, runs, started, managedReady>>

\* Vaults that projects share with computers.
Sharing == INSTANCE SharedVaults WITH
    Device <- SharingDevice, MaxText <- SharingMaxText, ready <- sharingReady,
    texts <- sharingTexts
sharingVars == <<key, projects, vaultOf, binding, vaults, sharingReady, readers, text,
                 sharingTexts, found, given, cards, withdrawn, dropped>>

\* Computers that join the private fleets of accounts.
Enrollment == INSTANCE FleetEnrollment WITH
    Device <- EnrollmentDevice
enrollVars == <<pairing, codes, minted, nodes, selfKey, opening, authority, challenge,
                nonces, signed, verified, enrollments>>

\* Coding tasks and the chains of checks and corrections their owner starts.
Flows == INSTANCE ReviewWorkflows WITH
    MaxChanges <- FlowsMaxChanges
flowsVars == <<task, flow, able, hand, byHand, changes>>

\* The store a computer works on.
Choice == INSTANCE PrimarySelection WITH
    MaxChanges <- ChoiceMaxChanges
choiceVars == <<selected, account, enrolled, made, joined, revoked, server, pending, gate,
                asked, session, worker, stopped, off, report, op, seen>>

ASSUME TimerAssumed == Timer!SchedulesAssumption
ASSUME FolderAssumed == Folder!FolderAssumption
ASSUME ManagedAssumed == Managed!ManagedAssumption
ASSUME SharingAssumed == Sharing!VaultsAssumption
ASSUME EnrollmentAssumed == Enrollment!EnrollmentAssumption
ASSUME FlowsAssumed == Flows!WorkflowsAssumption
ASSUME ChoiceAssumed == Choice!SelectionAssumption

Init ==
    /\ moving \in {"schedules", "folder", "managed", "sharing", "enroll", "flows",
                   "choice"}
    /\ Timer!Init
    /\ Folder!Init
    /\ Managed!Init
    /\ Sharing!Init
    /\ Enrollment!Init
    /\ Flows!Init
    /\ Choice!Init

Next ==
    \/ /\ moving = "schedules" /\ Timer!Next
       /\ UNCHANGED <<moving, folderVars, managedVars, sharingVars, enrollVars, flowsVars,
                      choiceVars>>
    \/ /\ moving = "folder" /\ Folder!Next
       /\ UNCHANGED <<moving, schedulesVars, managedVars, sharingVars, enrollVars,
                      flowsVars, choiceVars>>
    \/ /\ moving = "managed" /\ Managed!Next
       /\ UNCHANGED <<moving, schedulesVars, folderVars, sharingVars, enrollVars,
                      flowsVars, choiceVars>>
    \/ /\ moving = "sharing" /\ Sharing!Next
       /\ UNCHANGED <<moving, schedulesVars, folderVars, managedVars, enrollVars,
                      flowsVars, choiceVars>>
    \/ /\ moving = "enroll" /\ Enrollment!Next
       /\ UNCHANGED <<moving, schedulesVars, folderVars, managedVars, sharingVars,
                      flowsVars, choiceVars>>
    \/ /\ moving = "flows" /\ Flows!Next
       /\ UNCHANGED <<moving, schedulesVars, folderVars, managedVars, sharingVars,
                      enrollVars, choiceVars>>
    \/ /\ moving = "choice" /\ Choice!Next
       /\ UNCHANGED <<moving, schedulesVars, folderVars, managedVars, sharingVars,
                      enrollVars, flowsVars>>

vars == <<moving, schedulesVars, folderVars, managedVars, sharingVars, enrollVars,
          flowsVars, choiceVars>>

Spec == Init /\ [][Next]_vars

-----------------------------------------------------------------------------
\* Downtime, crashes and disabling lose no occurrence and start none that was called off.
SchedulesSafe == Timer!SchedulesSafe

\* A slow scan never overwrites what a newer one has published.
FolderSafe == [][moving = "folder" => Folder!FolderStep]_folderVars

\* Curated text is neither overwritten nor brought back against the will of its owner.
ManagedSafe == [][moving = "managed" => Managed!ManagedStep]_managedVars

\* A computer reads what it may read, as it is now, and a family of tasks keeps its
\* repository.
SharingSafe == Sharing!SharingSafe

\* A computer gets in by a code or an assertion that was its own, once.
EnrollmentSafe == [][moving = "enroll" => Enrollment!EnrollmentStep]_enrollVars

\* What runs acts on the store the member chose, and a computer does not offer its own
\* store while it works on another.
SelectionSafe == Choice!SelectionSafe

\* A chain of checks and corrections ends when it is stopped, and passes only what was
\* checked.
WorkflowsSafe == [][moving = "flows" => Flows!WorkflowsStep]_flowsVars

-----------------------------------------------------------------------------
(* A small instance: what LocalHub.cfg gives to the parameters that are functions. *)

\* one agent has every schedule, at every second tick
SoleAgent == [s \in Schedule |-> CHOOSE a \in Agent : TRUE]
EverySecond == [s \in Schedule |-> 2]

\* computers that enroll (Op stands for the same values), and accounts, are alike
Symmetric == {f @@ g : f \in Permutations(EnrollmentDevice), g \in Permutations(Account)}
=============================================================================
