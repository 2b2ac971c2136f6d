--------------------------- MODULE CodeWorkspaces ---------------------------
(***************************************************************************)
(* The durable checkout of a coding card: coder/workspace.rs.              *)
(*                                                                         *)
(* A session of a card locks the card, and either reuses the checkout its  *)
(* receipt vouches for or makes one: by a clone of its own when it has a   *)
(* token, else as a worktree of a cache of the repository that all cards   *)
(* share under a second lock.  Every git command and every file operation  *)
(* is a step; a process may crash between any two, which releases its      *)
(* locks and leaves the files as they are.  Nothing is ever wiped: what a  *)
(* crash left half done is refused until an operator has looked at it.     *)
(***************************************************************************)
EXTENDS Naturals, FiniteSets

CONSTANTS
    Card,       \* cards of one repository
    Process,    \* sessions, each of one card
    CardOf,
    Fresh,      \* the processes that prepare with a token (prepare_authenticated)
    MaxFaults,  \* bound: crashes and failed commands
    MaxWork,    \* bound: edits of one checkout
    Free        \* a lock nobody holds

WorkspacesAssumption ==
    /\ IsFiniteSet(Process) /\ CardOf \in [Process -> Card]
    /\ Fresh \subseteq Process
    /\ MaxFaults \in Nat /\ MaxWork \in Nat
    /\ Free \notin Process

VARIABLES
    pc,         \* where each process is
    cardLock,   \* code-workspace-state/<card>.lock
    repoLock,   \* code-repositories/<key>.lock
    cache,      \* the shared clone: "none", "partial" or "complete"
    ready,      \* code-repositories/<key>.ready
    branch,     \* the cards whose branch exists in the cache
    dest,       \* code-workspaces/<card>
    receipt,    \* code-workspace-state/<card>.json exists
    work,       \* edits made in the checkout of each card
    faults

files == <<cache, ready, branch, dest, receipt, work>>
locks == <<cardLock, repoLock>>
vars == <<pc, locks, files, faults>>

Stage == {"none", "partial", "complete"}
Step == {"idle", "check", "clone", "repo", "cache", "cloning", "mark", "worktree",
         "adding", "publish", "working", "refused"}

TypeOK ==
    /\ pc \in [Process -> Step]
    /\ cardLock \in [Card -> Process \cup {Free}]
    /\ repoLock \in Process \cup {Free}
    /\ cache \in Stage /\ ready \in BOOLEAN
    /\ branch \subseteq Card
    /\ dest \in [Card -> Stage] /\ receipt \in [Card -> BOOLEAN]
    /\ work \in [Card -> 0 .. MaxWork]
    /\ faults \in 0 .. MaxFaults

Init ==
    /\ pc = [p \in Process |-> "idle"]
    /\ cardLock = [c \in Card |-> Free] /\ repoLock = Free
    /\ cache = "none" /\ ready = FALSE /\ branch = {}
    /\ dest = [c \in Card |-> "none"] /\ receipt = [c \in Card |-> FALSE]
    /\ work = [c \in Card |-> 0]
    /\ faults = 0

Go(p, step) == pc' = [pc EXCEPT ![p] = step]

\* dropping the files releases the locks; the operating system does it on a crash
Released(p) ==
    /\ cardLock' = [c \in Card |-> IF cardLock[c] = p THEN Free ELSE cardLock[c]]
    /\ repoLock' = IF repoLock = p THEN Free ELSE repoLock

Refuse(p) == Go(p, "refused") /\ Released(p)

----------------------------------------------------------------------------

Lock(p) ==
    /\ pc[p] = "idle"
    /\ IF cardLock[CardOf[p]] = Free
          THEN cardLock' = [cardLock EXCEPT ![CardOf[p]] = p] /\ Go(p, "check")
          ELSE UNCHANGED cardLock /\ Go(p, "refused")
    /\ UNCHANGED <<repoLock, files, faults>>

CheckRecloning(p) ==
    LET c == CardOf[p] IN
    /\ pc[p] = "check"
    /\ dest' = [dest EXCEPT ![c] = "none"] /\ branch' = branch \ {c}
    /\ receipt' = [receipt EXCEPT ![c] = FALSE]
    /\ Go(p, IF p \in Fresh THEN "clone" ELSE "repo")
    /\ UNCHANGED <<locks, cache, ready, work, faults>>

\* a receipt must match what is there; a checkout without one is not touched
Check(p) ==
    LET c == CardOf[p] IN
    /\ pc[p] = "check"
    /\ \/ receipt[c] /\ dest[c] # "none" /\ Go(p, "working") /\ UNCHANGED locks
       \/ receipt[c] /\ dest[c] = "none" /\ Refuse(p)
       \/ ~ receipt[c] /\ dest[c] # "none" /\ Refuse(p)
       \/ /\ ~ receipt[c] /\ dest[c] = "none"
          /\ Go(p, IF p \in Fresh THEN "clone" ELSE "repo")
          /\ UNCHANGED locks
    /\ UNCHANGED <<files, faults>>

\* clone_fresh into the checkout itself: begins, then completes with its branch
CloneFresh(p) ==
    LET c == CardOf[p] IN
    /\ pc[p] = "clone"
    /\ \/ dest[c] = "none" /\ dest' = [dest EXCEPT ![c] = "partial"] /\ UNCHANGED pc
       \/ dest[c] = "partial" /\ dest' = [dest EXCEPT ![c] = "complete"] /\ Go(p, "publish")
    /\ UNCHANGED <<locks, cache, ready, branch, receipt, work, faults>>

LockRepository(p) ==
    /\ pc[p] = "repo"
    /\ IF repoLock = Free
          THEN repoLock' = p /\ Go(p, "cache") /\ UNCHANGED cardLock
          ELSE Refuse(p)
    /\ UNCHANGED <<files, faults>>

\* fetch when the cache is vouched for, clone when there is none
Cache(p) ==
    /\ pc[p] = "cache"
    /\ \/ cache # "none" /\ ready /\ Go(p, "worktree") /\ UNCHANGED <<locks, cache>>
       \/ cache # "none" /\ ~ ready /\ Refuse(p) /\ UNCHANGED cache
       \/ cache = "none" /\ ready /\ Refuse(p) /\ UNCHANGED cache
       \/ cache = "none" /\ ~ ready /\ cache' = "partial" /\ Go(p, "cloning") /\ UNCHANGED locks
    /\ UNCHANGED <<ready, branch, dest, receipt, work, faults>>

CloneCache(p) ==
    /\ pc[p] = "cloning"
    /\ cache' = "complete"
    /\ Go(p, "mark")
    /\ UNCHANGED <<locks, ready, branch, dest, receipt, work, faults>>

MarkReady(p) ==
    /\ pc[p] = "mark"
    /\ ready' = TRUE
    /\ Go(p, "worktree")
    /\ UNCHANGED <<locks, cache, branch, dest, receipt, work, faults>>

\* git worktree add -b: the branch, then the files; refused by git when the branch
\* or the directory is there
AddWorktree(p) ==
    LET c == CardOf[p] IN
    /\ pc[p] = "worktree"
    /\ IF c \in branch \/ dest[c] # "none"
          THEN Refuse(p) /\ UNCHANGED <<branch, dest>>
          ELSE /\ branch' = branch \cup {c}
               /\ dest' = [dest EXCEPT ![c] = "partial"]
               /\ Go(p, "adding") /\ UNCHANGED locks
    /\ UNCHANGED <<cache, ready, receipt, work, faults>>

FinishWorktree(p) ==
    /\ pc[p] = "adding"
    /\ dest' = [dest EXCEPT ![CardOf[p]] = "complete"]
    /\ repoLock' = Free
    /\ Go(p, "publish")
    /\ UNCHANGED <<cardLock, cache, ready, branch, receipt, work, faults>>

\* staged, synced and renamed: the receipt appears whole or not at all
Publish(p) ==
    /\ pc[p] = "publish"
    /\ receipt' = [receipt EXCEPT ![CardOf[p]] = TRUE]
    /\ Go(p, "working")
    /\ UNCHANGED <<locks, cache, ready, branch, dest, work, faults>>

----------------------------------------------------------------------------
Edit(p) ==
    /\ pc[p] = "working" /\ work[CardOf[p]] < MaxWork
    /\ work' = [work EXCEPT ![CardOf[p]] = @ + 1]
    /\ UNCHANGED <<pc, locks, cache, ready, branch, dest, receipt, faults>>

Leave(p) ==
    /\ pc[p] = "working"
    /\ Go(p, "idle") /\ Released(p)
    /\ UNCHANGED <<files, faults>>

Retry(p) ==
    /\ pc[p] = "refused"
    /\ Go(p, "idle")
    /\ UNCHANGED <<locks, files, faults>>

\* a crash, or a git command that fails or times out: files stay as they are, but
\* git itself removes a clone that fails
Fault(p) ==
    /\ pc[p] \notin {"idle", "refused"} /\ faults < MaxFaults
    /\ faults' = faults + 1
    /\ Refuse(p)
    /\ cache' \in IF pc[p] = "cloning" THEN {cache, "none"} ELSE {cache}
    /\ UNCHANGED <<ready, branch, dest, receipt, work>>

Prepare(p) ==
    \/ Lock(p) \/ Check(p) \/ CloneFresh(p) \/ LockRepository(p) \/ Cache(p)
    \/ CloneCache(p) \/ MarkReady(p) \/ AddWorktree(p) \/ FinishWorktree(p) \/ Publish(p)

Next == \E p \in Process : Prepare(p) \/ Edit(p) \/ Leave(p) \/ Retry(p) \/ Fault(p)

Spec == Init /\ [][Next]_vars

----------------------------------------------------------------------------
(***************************************************************************)
(* Properties.                                                             *)
(***************************************************************************)

Making == {"clone", "repo", "cache", "cloning", "mark", "worktree", "adding", "publish", "working"}

\* One session at a time prepares or edits the checkout of a card, and one at a time
\* changes the shared cache.
OneSessionPerCheckout ==
    /\ \A p, q \in Process :
          p # q /\ CardOf[p] = CardOf[q] => ~ (pc[p] \in Making /\ pc[q] \in Making)
    /\ Cardinality({p \in Process : pc[p] \in {"cache", "cloning", "mark", "worktree", "adding"}}) <= 1

\* A session only ever works in a checkout that was made completely: what a crash
\* left behind is not mistaken for one, although nothing is deleted.
WorkInCompleteCheckouts ==
    \A p \in Process : pc[p] = "working" => dest[CardOf[p]] = "complete"

\* The markers that later sessions trust are written after what they vouch for.
MarkersAreTrue ==
    /\ ready => cache = "complete"
    /\ \A c \in Card : receipt[c] => dest[c] = "complete"

\* A card whose checkout holds work keeps it through crashes and retries: it is
\* found again, or refused, but never made anew.
WorkIsKept ==
    \A c \in Card : work[c] > 0 => work'[c] >= work[c] /\ dest'[c] = dest[c]

\* Sessions and crashes of others do not show in the checkout a session works in.
Apart == OneSessionPerCheckout /\ WorkInCompleteCheckouts /\ MarkersAreTrue

\* That, in every step that touches a checkout, and no work is lost.
CheckoutsStep == Apart' /\ WorkIsKept
CheckoutsSafe == [][CheckoutsStep]_vars
=============================================================================
