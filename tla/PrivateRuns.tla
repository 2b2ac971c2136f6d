---------------------------- MODULE PrivateRuns ----------------------------
(***************************************************************************)
(* Private coding tasks: local_hub/private_run.rs, private_preparation.rs  *)
(* and private_code_tasks.rs, over the card queue they run on.             *)
(*                                                                         *)
(* A private task is a code card that an owner stages for one computer,    *)
(* its target.  It is blocked until its checkout is prepared: on the       *)
(* target itself, by whoever operates it (the local way), or by the target *)
(* after a request of the owner (the remote way).  A task that went the    *)
(* remote way runs only under a *run*, which the owner requests, may stop, *)
(* and may replace by another run once it is over and left nothing behind. *)
(*                                                                         *)
(* As in LocalHubCards, one action is one transaction.  A repeated request *)
(* that is answered with the receipt of the first one changes nothing and  *)
(* is not an action.  A request of an owner comes from any computer of the *)
(* owner, so any live session may make it.                                 *)
(***************************************************************************)
EXTENDS LocalHubCards

CONSTANTS
    Private,     \* the private coding tasks
    Target,      \* the computer a private task is staged for
    Run,         \* identities a run may get (private_runs.id)
    NoCard,      \* the card of a run that was not requested
    NoRun        \* a run that was not retried

ASSUME RunsAssumption ==
    /\ Private \subseteq Code
    /\ Target \in [Private -> Node]
    /\ \A c \in Private, n \in Node : <<n, c>> \in Eligible => n = Target[c]
    /\ IsFiniteSet(Run)
    /\ NoCard \notin Card
    /\ NoRun \notin Run

VARIABLES
    prep,        \* private_preparations.state, "none" without a row
    prepRow,     \* the rowid of the preparation
    prepSession, \* private_preparations.session
    retired,     \* private_preparation_recoveries: <<card, session>>
    workspace,   \* cards whose data names a prepared workspace
    assigned,    \* cards whose agent is still active on the target
    runCard,     \* private_runs.card_id
    runSession,  \* private_runs.session; the column state is 'running' iff it is set
    stopped,     \* private_run_stops
    nextRun      \* private_run_retries: the run that replaced this one

prepVars == <<prep, prepRow, prepSession, retired, workspace>>
runVars == <<runCard, runSession, stopped, nextRun>>
privateVars == <<prepVars, assigned, runVars>>
vars == <<cardVars, privateVars>>

RunsTypeOK ==
    /\ prep \in [Private -> {"none", "queued", "claimed", "prepared"}]
    /\ prepRow \in [Private -> Nat]
    /\ prepSession \in [Private -> Session \cup {NoSession}]
    /\ retired \in SUBSET (Private \X Session)
    /\ workspace \in SUBSET Private
    /\ assigned \in SUBSET Private
    /\ runCard \in [Run -> Private \cup {NoCard}]
    /\ runSession \in [Run -> Session \cup {NoSession}]
    /\ stopped \in SUBSET Run
    /\ nextRun \in [Run -> Run \cup {NoRun}]

(***************************************************************************)
(* State formulae.                                                         *)
(***************************************************************************)
\* with_node, verified_owner and verify_target, for one owner of all computers.
Caller(s, c) == Live(s) /\ ~revoked[Target[c]]

\* The computer itself, asking about its own task.
Worker(s, c) == Caller(s, c) /\ NodeOf[s] = Target[c]

Remote(c) == prep[c] # "none"

RunsOf(c) == {r \in Run : runCard[r] = c}

Requested(r) == runCard[r] # NoCard

Current(r) == Requested(r) /\ nextRun[r] = NoRun

LeaseActive(r) == runSession[r] # NoSession /\ Owns(runSession[r], runCard[r])

\* What PrivateRunStatus.state says of a run, as far as a call asks.
Queued(r) == Current(r) /\ runSession[r] = NoSession /\ r \notin stopped

RunFinished(r) == runSession[r] # NoSession /\ status[runCard[r]] = "review"

\* Stopped, blocked or interrupted.
Over(r) ==
    /\ Current(r)
    /\ runSession[r] # NoSession \/ r \in stopped
    /\ status[runCard[r]] # "review"
    /\ ~LeaseActive(r)

\* Mutant: a retry only looks for a result.
Unresulted(c) == left[c] = 0 /\ output[c] = NoOutput

\* No running lease, result, child or checkpoint.
LeftNothing(c) ==
    /\ left[c] = 0
    /\ output[c] = NoOutput
    /\ Children(c) = {}
    /\ checkpoint[c] = 0

(***************************************************************************)
(* Staging and the local way.                                              *)
(***************************************************************************)
Stage(c) ==
    /\ status[c] = "absent"
    /\ ~revoked[Target[c]]
    /\ c \in assigned
    /\ status' = [status EXCEPT ![c] = "awaiting_preparation"]
    /\ row' = [row EXCEPT ![c] = NextRow]
    /\ deps' = [deps EXCEPT ![c] = DeclaredDeps[c]]
    /\ UNCHANGED <<link, leaseVars, output, checkpoint, checkedIn, revoked, privateVars>>

\* The host checks the card, works on its files and checks it again in the
\* transaction that makes it ready.
PrepareHere(c) ==
    /\ status[c] = "awaiting_preparation"
    /\ ~revoked[Target[c]]
    /\ c \in assigned
    /\ status' = [status EXCEPT ![c] = "ready"]
    /\ workspace' = workspace \cup {c}
    /\ UNCHANGED <<leaseVars, boardVars, prep, prepRow, prepSession, retired, assigned, runVars>>

RetryHere(c) ==
    /\ status[c] = "running" \/ IsBlocked(status[c])
    /\ status[c] # "awaiting_preparation"
    /\ LeftNothing(c)
    /\ c \in workspace
    /\ ~revoked[Target[c]]
    /\ c \in assigned
    /\ status' = [status EXCEPT ![c] = "ready"]
    /\ holder' = [holder EXCEPT ![c] = NoSession]
    /\ UNCHANGED <<left, boardVars, privateVars>>

\* The owner archives the agent of a task or moves it to another computer, or
\* moves it back.
Reassign(c) ==
    /\ assigned' = IF c \in assigned THEN assigned \ {c} ELSE assigned \cup {c}
    /\ UNCHANGED <<cardVars, prepVars, runVars>>

(***************************************************************************)
(* Remote preparation.                                                     *)
(***************************************************************************)
RequestPreparation(s, c) ==
    /\ Caller(s, c)
    /\ status[c] = "awaiting_preparation"
    /\ prep[c] = "none"
    /\ prep' = [prep EXCEPT ![c] = "queued"]
    /\ prepRow' = [prepRow EXCEPT ![c] = 1 + Cardinality({d \in Private : Remote(d)})]
    /\ UNCHANGED <<cardVars, prepSession, retired, workspace, assigned, runVars>>

\* The preparations a computer has still to do; it is only given the first.
Pending(n) == {c \in Private : Target[c] = n /\ prep[c] \in {"queued", "claimed"}}

TakePreparation(s, c) ==
    /\ Worker(s, c)
    /\ c \in Pending(NodeOf[s])
    /\ \A d \in Pending(NodeOf[s]) : prepRow[c] <= prepRow[d]
    /\ <<c, s>> \notin retired
    /\ prep[c] = "claimed" => prepSession[c] = s
    /\ status[c] = "awaiting_preparation"
    /\ prep' = [prep EXCEPT ![c] = "claimed"]
    /\ prepSession' = [prepSession EXCEPT ![c] = s]
    /\ UNCHANGED <<cardVars, prepRow, retired, workspace, assigned, runVars>>

\* Mutant: the card is moved on, its preparation is not.
CompleteCardOnly(s, c) ==
    /\ Worker(s, c)
    /\ prep[c] = "claimed"
    /\ prepSession[c] = s
    /\ status[c] = "awaiting_preparation"
    /\ status' = [status EXCEPT ![c] = "awaiting_private_run"]
    /\ workspace' = workspace \cup {c}
    /\ UNCHANGED <<leaseVars, boardVars, prep, prepRow, prepSession, retired, assigned, runVars>>

CompletePreparation(s, c) ==
    /\ Worker(s, c)
    /\ prep[c] = "claimed"
    /\ prepSession[c] = s
    /\ status[c] = "awaiting_preparation"
    /\ status' = [status EXCEPT ![c] = "awaiting_private_run"]
    /\ prep' = [prep EXCEPT ![c] = "prepared"]
    /\ workspace' = workspace \cup {c}
    /\ UNCHANGED <<leaseVars, boardVars, prepRow, prepSession, retired, assigned, runVars>>

RecoverPreparation(s, c) ==
    /\ Caller(s, c)
    /\ prep[c] = "claimed"
    /\ status[c] = "awaiting_preparation"
    /\ RunsOf(c) = {}
    /\ holder[c] = NoSession
    /\ retired' = retired \cup {<<c, prepSession[c]>>}
    /\ prep' = [prep EXCEPT ![c] = "queued"]
    /\ prepSession' = [prepSession EXCEPT ![c] = NoSession]
    /\ UNCHANGED <<cardVars, prepRow, workspace, assigned, runVars>>

(***************************************************************************)
(* Runs.                                                                   *)
(***************************************************************************)
RequestRun(s, c, r) ==
    /\ Caller(s, c)
    /\ ~Requested(r)
    /\ prep[c] = "prepared"
    /\ status[c] = "awaiting_private_run"
    /\ holder[c] = NoSession
    /\ RunsOf(c) = {}
    /\ status' = [status EXCEPT ![c] = "ready"]
    /\ runCard' = [runCard EXCEPT ![r] = c]
    /\ UNCHANGED <<leaseVars, boardVars, prepVars, assigned, runSession, stopped, nextRun>>

\* A stop of a run that is over but not replaced is recorded as well, and every
\* repetition takes a card out of the queue again.
StopRun(s, r) ==
    /\ Current(r)
    /\ Caller(s, runCard[r])
    /\ ~RunFinished(r)
    /\ stopped' = stopped \cup {r}
    /\ status' = [status EXCEPT ![runCard[r]] = IF @ = "ready" THEN "blocked" ELSE @]
    /\ UNCHANGED <<leaseVars, boardVars, prepVars, assigned, runCard, runSession, nextRun>>

RetryRun(s, r, q) ==
    /\ Over(r)
    /\ Caller(s, runCard[r])
    /\ ~Requested(q)
    /\ LeftNothing(runCard[r])
    /\ runCard' = [runCard EXCEPT ![q] = runCard[r]]
    /\ nextRun' = [nextRun EXCEPT ![r] = q]
    /\ holder' = [holder EXCEPT ![runCard[r]] = NoSession]
    /\ status' = [status EXCEPT ![runCard[r]] = "awaiting_retry_validation"]
    /\ UNCHANGED <<left, boardVars, prepVars, assigned, runSession, stopped>>

\* The target says that the checkout of the last attempt is still good.
ReadyRun(s, r) ==
    /\ Queued(r)
    /\ Worker(s, runCard[r])
    /\ status[runCard[r]] = "awaiting_retry_validation"
    /\ status' = [status EXCEPT ![runCard[r]] = "ready"]
    /\ UNCHANGED <<leaseVars, boardVars, privateVars>>

(***************************************************************************)
(* Claims.  allows_claim is asked about every ready card in the scope of   *)
(* the session, oldest first, before anything else is compared.  It skips  *)
(* the cards of other computers, and remote ones unless the claim is for a *)
(* run; it fails the whole call, which is then rolled back, at a card      *)
(* whose agent is no longer assigned.                                      *)
(***************************************************************************)
Unassigned(s) == {c \in Private \cap Scope[s] :
    Settled[c] = "ready" /\ Target[c] = NodeOf[s] /\ ~Remote(c) /\ c \notin assigned}

Local == {c \in Card : c \in Private => ~Remote(c)}

ClaimLocal(s, c) ==
    /\ ClaimCardFrom(s, c, Local)
    /\ \A d \in Unassigned(s) : row[c] < row[d]
    /\ UNCHANGED privateVars

ClaimNoLocal(s) ==
    /\ ClaimNothingFrom(s, Local)
    /\ MayClaim(s) => Unassigned(s) = {}
    /\ UNCHANGED privateVars

\* Mutant: a stop that arrives before the claim is not seen by it.
AuthorizedUnstopped(s, r) == {c \in Private :
    /\ c = runCard[r]
    /\ Target[c] = NodeOf[s]
    /\ Current(r) /\ runSession[r] = NoSession
    /\ \A q \in RunsOf(c) \ {r} : runSession[q] # s}

\* What a claim for the run r may be given.
Authorized(s, r) == {c \in Private :
    /\ c = runCard[r]
    /\ Target[c] = NodeOf[s]
    /\ Queued(r)
    /\ \A q \in RunsOf(c) \ {r} : runSession[q] # s}

ClaimRun(s, r) ==
    /\ Requested(r)
    /\ Caller(s, runCard[r])
    /\ runCard[r] \in assigned
    /\ ClaimCardFrom(s, runCard[r], Authorized(s, r))
    /\ runSession' = [runSession EXCEPT ![r] = s]
    /\ UNCHANGED <<prepVars, assigned, runCard, stopped, nextRun>>

\* The call fails, and settles nothing, only at a ready card of this computer
\* whose agent is gone.
ClaimNoRun(s, r) ==
    /\ Requested(r)
    /\ Caller(s, runCard[r])
    /\ ClaimNothingFrom(s, Authorized(s, r))
    /\ MayClaim(s) /\ Settled[runCard[r]] = "ready" /\ Target[runCard[r]] = NodeOf[s]
            => runCard[r] \in assigned
    /\ UNCHANGED privateVars

(***************************************************************************)
(* The whole system.                                                       *)
(***************************************************************************)
PrivateInit ==
    /\ prep = [c \in Private |-> "none"]
    /\ prepRow = [c \in Private |-> 0]
    /\ prepSession = [c \in Private |-> NoSession]
    /\ retired = {}
    /\ workspace = {}
    /\ assigned = Private
    /\ runCard = [r \in Run |-> NoCard]
    /\ runSession = [r \in Run |-> NoSession]
    /\ stopped = {}
    /\ nextRun = [r \in Run |-> NoRun]

\* The calls of the card queue; no child gets the identity of a private task.
QueueCall ==
    /\ \/ \E c \in Card \ Private : AddCard(c)
       \/ \E n \in Node : Revoke(n)
       \/ \E s \in Session : Presence(s) \/ \E c \in Card : Attempt(s, c)
       \/ Tick
    /\ \A c \in Private : status[c] = "absent" => status'[c] = "absent"
    /\ UNCHANGED privateVars

HostCall == \E c \in Private : Stage(c) \/ PrepareHere(c) \/ RetryHere(c) \/ Reassign(c)

PreparationCall(s, c) ==
    \/ RequestPreparation(s, c)
    \/ TakePreparation(s, c)
    \/ CompletePreparation(s, c)
    \/ RecoverPreparation(s, c)

RunCall(s, r) ==
    \/ \E c \in Private : RequestRun(s, c, r)
    \/ StopRun(s, r)
    \/ \E q \in Run : RetryRun(s, r, q)
    \/ ReadyRun(s, r)
    \/ ClaimRun(s, r)
    \/ ClaimNoRun(s, r)

PrivateNext ==
    \/ QueueCall
    \/ HostCall
    \/ \E s \in Session :
        \/ \E c \in Private : PreparationCall(s, c)
        \/ \E r \in Run : RunCall(s, r)
        \/ \E c \in Card : ClaimLocal(s, c)
        \/ ClaimNoLocal(s)

PrivateSpec == Init /\ PrivateInit /\ [][PrivateNext]_vars

-----------------------------------------------------------------------------
(***************************************************************************)
(* Safety.                                                                 *)
(***************************************************************************)
\* private_coding_tasks reads "the" run of a task as the one without a
\* successor: there is at most one, and retries never leave the task.
OneCurrentRun ==
    /\ \A q, r \in Run : Current(q) /\ Current(r) /\ runCard[q] = runCard[r] => q = r
    /\ \A r \in Run : nextRun[r] # NoRun => runCard[nextRun[r]] = runCard[r]

\* "Generic workers cannot drain explicit private runs": whoever works on a
\* remote task, or has its result accepted, is the session of its current run.
WorkHasRun == \A c \in Private : Remote(c) =>
    /\ holder[c] # NoSession =>
        \E r \in RunsOf(c) : Current(r) /\ runSession[r] = holder[c]
    /\ output[c] # NoOutput =>
        \E r \in RunsOf(c) : Current(r) /\ runSession[r] = output[c].session

\* A delayed worker of an old attempt cannot own the lease of a new one: a
\* session never serves two attempts at a task.
SessionServesOnce == \A q, r \in Run :
    runCard[q] = runCard[r] /\ runSession[q] = runSession[r] /\ runSession[q] # NoSession
        => q = r

\* Until it is claimed, a run finds the task as if nobody had worked on it:
\* no lease, not even an expired one, and nothing a late call may have left.
RunStartsClean == \A r \in Run : Current(r) /\ runSession[r] = NoSession =>
    LET c == runCard[r] IN
        /\ holder[c] = NoSession
        /\ output[c] = NoOutput
        /\ Children(c) = {}
        /\ checkpoint[c] = 0

\* The reason a blocked task is shown with is what its tables say.
ReasonsAreTrue == \A c \in Private :
    /\ status[c] = "awaiting_preparation" =>
        prep[c] # "prepared" /\ c \notin workspace /\ RunsOf(c) = {}
    /\ status[c] = "awaiting_private_run" => prep[c] = "prepared" /\ RunsOf(c) = {}
    /\ status[c] = "awaiting_retry_validation" =>
        \E r \in RunsOf(c) : Current(r) /\ runSession[r] = NoSession

\* What the member is shown of a task and of its attempts is so.
RunsAreTold == ReasonsAreTrue /\ SessionServesOnce

\* Nothing runs without a checkout, and a prepared checkout was prepared by a
\* session that was not retired from it.
CheckoutsArePrepared == \A c \in Private :
    /\ status[c] \in {"ready", "running", "review"} => c \in workspace
    /\ <<c, prepSession[c]>> \notin retired

\* A computer prepares one checkout at a time, whatever its sessions and their
\* crashes: the next task is not handed out before the first one is done.
OnePreparationPerTarget == \A c, d \in Private :
    prep[c] = "claimed" /\ prep[d] = "claimed" /\ Target[c] = Target[d] => c = d

(***************************************************************************)
(* What a step may never do.                                               *)
(***************************************************************************)
\* "Once consumed, the operation cannot authorize another attempt, even after
\* lease expiry or a repair": every lease of a remote task uses up a run that
\* was neither stopped nor replaced, and no run is used twice.
LeasesConsumeRuns == [][
    /\ \A r \in Run : runSession[r] # NoSession => runSession'[r] = runSession[r]
    /\ \A c \in Private : Remote(c) /\ holder'[c] \notin {holder[c], NoSession} =>
        \E r \in RunsOf(c) : Queued(r) /\ runSession'[r] = holder'[c]]_vars

\* "Reassignment/archive stops future execution", in either way.
UnassignedNeverStarts == [][\A c \in Private :
    holder'[c] \notin {holder[c], NoSession} => c \in assigned]_vars

\* No stop, retry or preparation takes back an accepted result.
ResultsStand == [][\A c \in Private : output[c] # NoOutput =>
    output'[c] = output[c] /\ status'[c] = "review"]_vars

\* "only interrupted or failed prepared tasks can be retried": a remote task
\* that was prepared leaves that state for a run.  The local retry breaks it.
RetryNeedsAttempt == [][\A c \in Private :
    status[c] = "awaiting_private_run" /\ status'[c] = "ready"
        => \E r \in Run : runCard'[r] = c]_vars

=============================================================================
