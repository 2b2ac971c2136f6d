-------------------------- MODULE PrimarySelection --------------------------
(***************************************************************************)
(* Which store a computer works on: its own, or that of the primary its    *)
(* member selected.  A selection is a file that names one enrollment; it   *)
(* is written by private_primary_join_complete only, and it survives the   *)
(* process.  Sessions and coding workers remember what they were opened    *)
(* under and look at the file again at the start of every call; tasks,     *)
(* ticks and sharing hold the gate of the app as well.                     *)
(* An enrollment is a number: the order in which private_primary_join_     *)
(* begin paired with some primary.                                         *)
(***************************************************************************)
EXTENDS Naturals, FiniteSets

CONSTANTS
    Op,           \* calls of the app that may run at one time
    Worker,       \* coding workers the app may open
    MaxChanges,   \* bound: join_begin calls that reach a primary and changes of the community account
    None

SelectionAssumption ==
    MaxChanges \in Nat /\ None \notin Op /\ None \notin 1 .. MaxChanges

Pairing == 1 .. MaxChanges

\* what a session is opened on: the store of a primary, this computer's under
\* its private identity, or this computer's under a community account
Place == [on : {"primary"}, as : Pairing] \cup [on : {"here"}, as : 0 .. (MaxChanges + 1)]

Private == [on |-> "here", as |-> 0]

VARIABLES
    selected,              \* private-primary.json: an enrollment, or None
    account, enrolled,     \* the community account, private fleet identity of this computer
    made, joined, revoked, \* at the primaries: credentials given, enrollments accepted, taken back
    server,                \* FleetState::server: "off", "on", or a task that "ended"
    pending,               \* FleetState::pending: a connection request
    gate,                  \* FleetState::gate: the operation that holds it
    asked,                 \* what private_stop tells the task that runs
    session,               \* the place of the BotsSession the app holds
    worker,                \* coding workers: their place, or None
    stopped, off,          \* workers told to stop, and those that reported so since
    report,                \* the last readiness a worker sent
    op,                    \* the calls: kind, phase, place, whom it is about
    seen                   \* places that were the chosen ones since the call was made

saved == <<selected, account, enrolled>>
remotes == <<made, joined, revoked>>
app == <<server, pending, asked, session>>
workers == <<worker, stopped, off, report>>
vars == <<saved, remotes, app, gate, workers, op, seen>>

Gated == {"join", "run", "stage", "tick"}
Free == {"open", "call", "drain", "ask", "report"}

\* those of which the places chosen meanwhile are kept
Watched == Free \ {"open"}

idle == [kind |-> "none", phase |-> "idle", place |-> Private, about |-> None]

TypeOK ==
    /\ selected \in Pairing \cup {None} /\ account \in 1 .. (MaxChanges + 1) /\ enrolled \in BOOLEAN
    /\ made \in 0 .. MaxChanges /\ joined \subseteq Pairing /\ revoked \subseteq Pairing
    /\ server \in {"off", "on", "ended"} /\ pending \in Pairing \cup {None}
    /\ gate \in Op \cup {None} /\ asked \in BOOLEAN
    /\ session \in Place \cup {None} /\ worker \in [Worker -> Place \cup {None}]
    /\ stopped \subseteq Worker /\ off \subseteq Worker
    /\ report \in [Worker -> {"none", "ready", "off"}]
    /\ op \in [Op -> [kind : Gated \cup Free \cup {"none"},
                      phase : {"idle", "entered", "ready", "told", "confirmed", "acting", "closing"},
                      place : Place, about : Worker \cup Pairing \cup {None}]]
    /\ seen \in [Op -> SUBSET Place]

Init ==
    /\ selected = None /\ account = 1 /\ enrolled = FALSE
    /\ made = 0 /\ joined = {} /\ revoked = {}
    /\ server = "off" /\ pending = None /\ gate = None /\ asked = FALSE /\ session = None
    /\ worker = [w \in Worker |-> None] /\ stopped = {} /\ off = {}
    /\ report = [w \in Worker |-> "none"]
    /\ op = [o \in Op |-> idle] /\ seen = [o \in Op |-> {}]

----------------------------------------------------------------------------
(* What the saved settings choose.                                         *)

\* a place stays good for those who hold it: an account for as long as the
\* computer is paired with it, even once the computer has a private identity
ChosenBy(sel, acc, enr) ==
    IF sel # None THEN {[on |-> "primary", as |-> sel]}
    ELSE {[on |-> "here", as |-> acc]} \cup (IF enr THEN {Private} ELSE {})

Chosen == ChosenBy(selected, account, enrolled)

Valid(place) == place \in Chosen

\* every call that is under way has lived to see the new choice
Sees(sel, acc, enr) ==
    seen' = [o \in Op |-> IF op[o].kind \in Watched
                            THEN seen[o] \cup ChosenBy(sel, acc, enr) ELSE {}]

\* selection.connect: the primary answers and is who it was
Connects(p) == p \in joined \ revoked

----------------------------------------------------------------------------
(* Calls.  Those of Gated hold the gate from their first step to the last, *)
(* so that what they do before they wait for anything is that first step.  *)

BeginsUngated(o, kind, about, phase, place) ==
    /\ op[o].phase = "idle"
    /\ kind \in Gated \ {"join"} => gate = None
    /\ gate' = IF kind \in Gated \ {"join"} THEN o ELSE gate
    /\ op' = [op EXCEPT ![o] = [kind |-> kind, phase |-> phase, place |-> place, about |-> about]]
    /\ seen' = IF kind \in Watched THEN [seen EXCEPT ![o] = Chosen] ELSE seen

Begins(o, kind, about, phase, place) ==
    /\ op[o].phase = "idle"
    /\ kind \in Gated => gate = None
    /\ gate' = IF kind \in Gated THEN o ELSE gate
    /\ op' = [op EXCEPT ![o] = [kind |-> kind, phase |-> phase, place |-> place, about |-> about]]
    /\ seen' = IF kind \in Watched THEN [seen EXCEPT ![o] = Chosen] ELSE seen

\* the call returns, with a result or an error
Returns(o) ==
    /\ op' = [op EXCEPT ![o] = idle] /\ seen' = [seen EXCEPT ![o] = {}]
    /\ gate' = IF gate = o THEN None ELSE gate

\* it goes on
Goes(o, phase) ==
    /\ op' = [op EXCEPT ![o].phase = phase]
    /\ UNCHANGED <<gate, seen>>

In(o, kind, phase) == op[o].kind = kind /\ op[o].phase = phase

----------------------------------------------------------------------------
(* Sharing this computer's store.                                          *)

ShareStarts ==
    /\ gate = None /\ selected = None /\ server # "on" /\ enrolled
    /\ server' = "on"
    /\ UNCHANGED <<saved, remotes, pending, asked, session, gate, workers, op, seen>>

\* the port is gone, or the server failed
ShareEnds ==
    /\ server = "on" /\ server' = "ended"
    /\ UNCHANGED <<saved, remotes, pending, asked, session, gate, workers, op, seen>>

\* the slot is emptied and the server awaited
ShareStops ==
    /\ gate = None /\ server # "off" /\ server' = "off"
    /\ UNCHANGED <<saved, remotes, pending, asked, session, gate, workers, op, seen>>

----------------------------------------------------------------------------
(* Selecting a primary.                                                    *)

\* pairing may succeed and its challenge, or the answer, be lost: then nothing new is pending
JoinBegins ==
    /\ gate = None /\ server # "on" /\ made + account <= MaxChanges
    /\ made' = made + 1 /\ pending' \in {pending, made + 1}
    /\ UNCHANGED <<saved, joined, revoked, server, asked, session, gate, workers, op, seen>>

\* enrollment_complete, with the approval of the pending request.  A second one
\* is refused, as the challenge is used up, and so is one whose answer was lost:
\* both are told from a failure by asking which identity the credential has
JoinCompletes(o) ==
    /\ pending # None /\ server # "on"
    /\ Begins(o, "join", pending, "told", Private)
    /\ joined' \in {joined} \cup (IF pending \in revoked THEN {} ELSE {joined \cup {pending}})
    /\ UNCHANGED <<saved, made, revoked, app, workers>>

JoinGivesUp(o) ==
    /\ In(o, "join", "told") /\ Returns(o)
    /\ UNCHANGED <<saved, remotes, app, workers>>

\* RemoteAuthoritySelection::confirm: the primary names the approved receipt itself
JoinConfirmed(o) ==
    /\ In(o, "join", "told") /\ Connects(op[o].about)
    /\ Goes(o, "confirmed")
    /\ UNCHANGED <<saved, remotes, app, workers>>

\* save_selection: a new file takes the place of the old one, or nothing changes
JoinSaved(o) ==
    /\ In(o, "join", "confirmed")
    /\ selected' = op[o].about /\ pending' = None
    /\ op' = [op EXCEPT ![o] = idle] /\ gate' = IF gate = o THEN None ELSE gate
    /\ Sees(selected', account, enrolled)
    /\ UNCHANGED <<account, enrolled, remotes, server, asked, session, workers>>

JoinUnsaved(o) ==
    /\ In(o, "join", "confirmed") /\ Returns(o)
    /\ UNCHANGED <<saved, remotes, app, workers>>

\* a primary takes a device off its list
Revokes(p) ==
    /\ p <= made /\ p \notin revoked /\ revoked' = revoked \cup {p}
    /\ UNCHANGED <<saved, made, joined, app, gate, workers, op, seen>>

----------------------------------------------------------------------------
(* Identities of this computer.                                            *)

\* configure_private_fleet on this computer's own store
Enrolls ==
    /\ ~ enrolled /\ enrolled' = TRUE /\ Sees(selected, account, TRUE)
    /\ UNCHANGED <<selected, account, remotes, app, gate, workers, op>>

\* the computer is paired with another community account
ChangesAccount ==
    /\ made + account <= MaxChanges /\ account' = account + 1 /\ Sees(selected, account + 1, enrolled)
    /\ UNCHANGED <<selected, enrolled, remotes, app, gate, workers, op>>

----------------------------------------------------------------------------
(* Bots: bots_open, and the calls of the session.  No gate.                *)

\* a selection leaves no way back to the local store
Opens(o) ==
    /\ Begins(o, "open", None, "ready",
              IF selected # None THEN [on |-> "primary", as |-> selected]
              ELSE IF enrolled THEN Private ELSE [on |-> "here", as |-> account])
    /\ UNCHANGED <<saved, remotes, app, workers>>

\* the primary, or whoami, answers, or does not
Opened(o) ==
    /\ In(o, "open", "ready") /\ Returns(o)
    /\ session' \in {session} \cup (IF op[o].place.on = "primary" /\ ~ Connects(op[o].place.as)
                                     THEN {} ELSE {op[o].place})
    /\ UNCHANGED <<saved, remotes, server, pending, asked, workers>>

\* a call keeps the session it was made on, whatever the app opens meanwhile;
\* one drain at a time (DRAIN_GATE)
SessionCalled(o, kind) ==
    /\ session # None
    /\ kind = "drain" => \A x \in Op : op[x].kind # "drain"
    /\ Begins(o, kind, None, "entered", session)
    /\ UNCHANGED <<saved, remotes, app, workers>>

\* profiles, libraries and the policies of tools
ProfileCall(o) == SessionCalled(o, "call")

\* agents and their handoffs
AgentsCall(o) == SessionCalled(o, "call")

\* conversations, rooms and messages
RoomsCall(o) == SessionCalled(o, "call")

\* drain_once
Drains(o) == SessionCalled(o, "drain")

\* validate, at the head of every call
SessionActs(o) ==
    /\ op[o].kind \in {"call", "drain"} /\ op[o].phase = "entered"
    /\ IF Valid(op[o].place) THEN Goes(o, "acting") ELSE Returns(o)
    /\ UNCHANGED <<saved, remotes, app, workers>>

\* a call, a task, a tick is over
Done(o) ==
    /\ op[o].phase = "acting" /\ op[o].kind # "report" /\ Returns(o)
    /\ asked' = (asked /\ op[o].kind # "run")
    /\ UNCHANGED <<saved, remotes, server, pending, session, workers>>

----------------------------------------------------------------------------
(* Tasks of the private fleet.                                             *)

\* private_job_run: private_job_context, then the model server is asked for its tools
RunStarts(o) ==
    /\ selected = None /\ enrolled
    /\ Begins(o, "run", None, "entered", Private)
    /\ UNCHANGED <<saved, remotes, app, workers>>

\* a stop that came meanwhile is heard before the worker is made
RunGoes(o) ==
    /\ In(o, "run", "entered")
    /\ \/ ~ asked /\ Goes(o, "acting") /\ UNCHANGED asked
       \/ Returns(o) /\ asked' = FALSE
    /\ UNCHANGED <<saved, remotes, server, pending, session, workers>>

\* private_job_stop: not behind the gate
StopsRun ==
    /\ \E o \in Op : op[o].kind = "run"
    /\ ~ asked /\ asked' = TRUE
    /\ UNCHANGED <<saved, remotes, server, pending, session, gate, workers, op, seen>>

\* behind the gate, on the store that is chosen
OnChosenStore(o) ==
    /\ IF selected # None THEN Connects(selected) ELSE enrolled
    /\ Begins(o, "stage", None, "acting",
              IF selected # None THEN [on |-> "primary", as |-> selected] ELSE Private)
    /\ UNCHANGED <<saved, remotes, app, workers>>

StageCodingRequest(o) == OnChosenStore(o)

RemoteCodingCommand(o) == OnChosenStore(o)

RepositoryProject(o) == OnChosenStore(o)

\* private_job_stage, _prepare and _retry: on this computer only
PrivateJob(o) == selected = None /\ OnChosenStore(o)

\* not behind the gate: the selection is read, the store then called
Asks(o) ==
    /\ selected # None \/ enrolled
    /\ Begins(o, "ask", None, "entered",
              IF selected # None THEN [on |-> "primary", as |-> selected] ELSE Private)
    /\ UNCHANGED <<saved, remotes, app, workers>>

WorkflowStart(o) == Asks(o)

CorrectionStage(o) == Asks(o)

\* a primary is connected to and called; here the selection is read once more
\* (private_job_context), and there must be none
AskActs(o) ==
    /\ In(o, "ask", "entered")
    /\ IF op[o].place.on = "primary"
         THEN IF Connects(op[o].place.as) THEN Goes(o, "acting") ELSE Returns(o)
         ELSE IF Valid(Private) THEN Goes(o, "acting") ELSE Returns(o)
    /\ UNCHANGED <<saved, remotes, app, workers>>

----------------------------------------------------------------------------
(* Coding workers: another computer's tasks on this one.                   *)

WorkerOpens(w) ==
    /\ gate = None /\ worker[w] = None /\ selected # None /\ Connects(selected)
    /\ worker' = [worker EXCEPT ![w] = [on |-> "primary", as |-> selected]]
    /\ UNCHANGED <<saved, remotes, app, gate, stopped, off, report, op, seen>>

WorkerStops(w) ==
    /\ worker[w] # None /\ w \notin stopped /\ stopped' = stopped \cup {w}
    /\ UNCHANGED <<saved, remotes, app, gate, worker, off, report, op, seen>>

\* PrivateCodingWorker::validate
WorkerValid(w) == w \notin stopped /\ Valid(worker[w])

\* one tick of a worker at a time; the gate is waited for before the worker is validated
Tick(o, w) ==
    /\ worker[w] # None /\ \A x \in Op : ~ (op[x].kind = "tick" /\ op[x].about = w)
    /\ WorkerValid(w) /\ Begins(o, "tick", w, "acting", worker[w])
    /\ UNCHANGED <<saved, remotes, app, workers>>

\* advertise, one at a time for a worker.  A worker that was stopped says so to
\* the primary it was opened on; another one must still be on the chosen
\* primary, and its models are asked for their tools before the report is sent
ReportStarts(o, w) ==
    /\ worker[w] # None /\ \A x \in Op : ~ (op[x].kind = "report" /\ op[x].about = w)
    /\ w \in stopped \/ WorkerValid(w)
    /\ Begins(o, "report", w, IF w \in stopped THEN "closing" ELSE "acting", worker[w])
    /\ UNCHANGED <<saved, remotes, app, workers>>

\* the report reaches the primary, or is lost
ReportEnds(o) ==
    /\ op[o].kind = "report" /\ Returns(o)
    /\ LET w == op[o].about
           closing == op[o].phase = "closing" IN
         \/ UNCHANGED <<report, off>>
         \/ /\ Connects(op[o].place.as)
            /\ report' = [report EXCEPT ![w] = IF closing THEN "off" ELSE "ready"]
            /\ off' = IF closing THEN off \cup {w} ELSE off
    /\ UNCHANGED <<saved, remotes, app, worker, stopped>>

----------------------------------------------------------------------------
\* the app is closed or crashes: only the settings and the primaries stay
Restart ==
    /\ server' = "off" /\ pending' = None /\ gate' = None /\ asked' = FALSE /\ session' = None
    /\ worker' = [w \in Worker |-> None] /\ stopped' = {} /\ off' = {}
    /\ report' = [w \in Worker |-> "none"]
    /\ op' = [o \in Op |-> idle] /\ seen' = [o \in Op |-> {}]
    /\ UNCHANGED <<saved, remotes>>

Next ==
    \/ \E o \in Op :
         \/ JoinCompletes(o) \/ JoinGivesUp(o) \/ JoinConfirmed(o) \/ JoinSaved(o) \/ JoinUnsaved(o)
         \/ Opens(o) \/ Opened(o) \/ ProfileCall(o) \/ AgentsCall(o) \/ RoomsCall(o) \/ Drains(o)
         \/ SessionActs(o) \/ Done(o) \/ RunStarts(o) \/ RunGoes(o)
         \/ StageCodingRequest(o) \/ RemoteCodingCommand(o) \/ RepositoryProject(o) \/ PrivateJob(o)
         \/ WorkflowStart(o) \/ CorrectionStage(o) \/ AskActs(o)
         \/ \E w \in Worker : Tick(o, w) \/ ReportStarts(o, w)
         \/ ReportEnds(o)
    \/ ShareStarts \/ ShareEnds \/ ShareStops \/ JoinBegins \/ StopsRun
    \/ Enrolls \/ ChangesAccount \/ Restart
    \/ \E p \in Pairing : Revokes(p)
    \/ \E w \in Worker : WorkerOpens(w) \/ WorkerStops(w)

Spec == Init /\ [][Next]_vars

----------------------------------------------------------------------------
\* This computer never offers its own store to others and works on another's.
NeverBoth == server = "on" => selected = None

\* A selection is one the primary accepted and confirmed, though answers of it were lost.
SelectionIsEnrolled == selected # None => selected \in joined

\* Nothing acts on a store that was not the chosen one at some time since it was
\* asked for; and what holds the gate acts on the store that is chosen now.
ActsWhereChosen ==
    \A o \in Op : op[o].phase = "acting" =>
        op[o].place \in (IF op[o].kind \in Gated THEN Chosen ELSE seen[o])

\* A worker that was stopped and has said so is not announced as ready again.
OffStaysOff == \A w \in off : report[w] = "off"

\* The store this computer acts on is the one its member chose: it does not
\* share while it uses another's, a selection is a confirmed one, calls and tasks
\* of sessions opened earlier never act beside it, and a stopped worker is not ready.
SelectionSafe == NeverBoth /\ SelectionIsEnrolled /\ ActsWhereChosen /\ OffStaysOff
=============================================================================
