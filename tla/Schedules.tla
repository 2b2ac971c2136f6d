----------------------------- MODULE Schedules -----------------------------
(***************************************************************************)
(* The scheduler of a local hub: local_hub/schedules.rs of ohhive-core.    *)
(*                                                                         *)
(* One loop inside the hub materializes the occurrences that are due,      *)
(* claims them one by one, sends the task to the agent in the owner's      *)
(* conversation with it, and polls that conversation for a reply.  Every   *)
(* access to the database is a transaction, hence one action; people and   *)
(* agents act between any two of them, and the hub may stop anywhere.      *)
(***************************************************************************)
EXTENDS Integers, Sequences, FiniteSets

CONSTANTS
    Schedule,    \* schedules.id
    Agent,       \* agents the schedules wake
    AgentOf,     \* schedule_revisions.agent_id of the only revision
    Every,       \* recurrence_json.every_secs, in units of the clock
    StartAt,     \* the start_at values an owner may give
    RunTimeout,  \* RUN_TIMEOUT
    MaxPerTick,  \* MAX_PER_TICK
    MaxTime,     \* bound: the last instant of the clock
    MaxTroubles, \* bound: crashes and failed transactions
    MaxAsks,     \* bound: messages people write to an agent by themselves
    NoStart, Nobody

SchedulesAssumption ==
    /\ AgentOf \in [Schedule -> Agent]
    /\ Every \in [Schedule -> Nat \ {0}]
    /\ StartAt \subseteq 0 .. MaxTime
    /\ RunTimeout \in Nat /\ MaxPerTick \in Nat \ {0}
    /\ MaxTime \in Nat /\ MaxTroubles \in Nat /\ MaxAsks \in Nat
    /\ NoStart \notin StartAt /\ Nobody \notin Schedule

VARIABLES
    now,         \* the clock
    enabled,     \* schedules.enabled
    last,        \* last_materialized_through
    anchor,      \* the first due instant promised at creation; NoStart before
    occ,         \* schedule_occurrences.state by schedule and due_at
    conv,        \* the messages of the owner's conversation with each agent
    result,      \* what the recorded reply of an occurrence was an answer to
    pc,          \* where the tick loop is
    current,     \* the claimed occurrence: <<schedule, due>>
    after,       \* the position the poll has read to
    wait,        \* time left before the deadline of the run
    executed,    \* occurrences executed by this tick
    troubles     \* crashes and failed transactions so far

tables == <<enabled, last, anchor, occ, result>>
loop == <<pc, current, after, wait, executed>>
vars == <<now, tables, conv, loop, troubles>>

Due == 0 .. MaxTime
Occurrence == Schedule \X Due
NoOccurrence == <<Nobody, 0>>
State == {"absent", "queued", "running", "succeeded", "failed", "cancelled"}
Finished == {"succeeded", "failed", "cancelled"}

(***************************************************************************)
(* A message of the owner is <<"task", o>> or <<"chat", n>>; the reply of  *)
(* the agent is <<"reply", m>> with the message it answers.                *)
(***************************************************************************)
Chat == {<<"chat", n>> : n \in 1 .. MaxAsks}
Question == {<<"task", o>> : o \in Occurrence} \cup Chat
Message == Question \cup {<<"reply", m>> : m \in Question}

TypeOK ==
    /\ now \in Due
    /\ enabled \in [Schedule -> BOOLEAN]
    /\ last \in [Schedule -> Int]
    /\ anchor \in [Schedule -> Int \cup {NoStart}]
    /\ occ \in [Occurrence -> State]
    /\ conv \in [Agent -> Seq(Message)]
    /\ result \in [Occurrence -> Question \cup {Nobody}]
    /\ pc \in {"idle", "claim", "send", "poll", "complete"}
    /\ current \in Occurrence \cup {NoOccurrence}
    /\ after \in Nat /\ wait \in 0 .. RunTimeout
    /\ executed \in 0 .. MaxPerTick /\ troubles \in 0 .. MaxTroubles

Exists(s) == anchor[s] # NoStart
Said(a) == {conv[a][i] : i \in DOMAIN conv[a]}

Init ==
    /\ now = 0
    /\ enabled = [s \in Schedule |-> FALSE]
    /\ last = [s \in Schedule |-> 0]
    /\ anchor = [s \in Schedule |-> NoStart]
    /\ occ = [o \in Occurrence |-> "absent"]
    /\ conv = [a \in Agent |-> <<>>]
    /\ result = [o \in Occurrence |-> Nobody]
    /\ pc = "idle" /\ current = NoOccurrence /\ after = 0 /\ wait = 0
    /\ executed = 0 /\ troubles = 0

----------------------------------------------------------------------------
(* What the owner does. *)

\* last_materialized_through starts one interval before the first due instant
Create(s, start) ==
    /\ ~ Exists(s)
    /\ last' = [last EXCEPT ![s] = IF start = NoStart THEN now ELSE start - Every[s]]
    /\ anchor' = [anchor EXCEPT ![s] = IF start = NoStart THEN now + Every[s] ELSE start]
    /\ enabled' = [enabled EXCEPT ![s] = TRUE]
    /\ UNCHANGED <<now, occ, conv, result, loop, troubles>>

Cancelled(s, states) ==
    [o \in Occurrence |-> IF o[1] = s /\ occ[o] \in states THEN "cancelled" ELSE occ[o]]

DisableLeavingQueue(s, on) ==
    /\ Exists(s)
    /\ enabled' = [enabled EXCEPT ![s] = on]
    /\ UNCHANGED <<now, last, anchor, occ, conv, result, loop, troubles>>

SetEnabled(s, on) ==
    /\ Exists(s)
    /\ enabled' = [enabled EXCEPT ![s] = on]
    /\ occ' = IF on THEN occ ELSE Cancelled(s, {"queued"})
    /\ UNCHANGED <<now, last, anchor, conv, result, loop, troubles>>

----------------------------------------------------------------------------
(* The tick. *)

\* the latest boundary at or before the clock: the while loop that skips
Boundary(s) == last[s] + Every[s] * ((now - last[s]) \div Every[s])

IsDue(s) == Exists(s) /\ enabled[s] /\ last[s] + Every[s] <= now

MaterializeDue ==
    /\ pc = "idle"
    /\ LET due == {s \in Schedule : IsDue(s)}
           new == {<<s, Boundary(s)>> : s \in due}
       IN /\ occ' = [o \in Occurrence |->
                        IF o \in new /\ occ[o] = "absent" THEN "queued" ELSE occ[o]]
          /\ last' = [s \in Schedule |-> IF s \in due THEN Boundary(s) ELSE last[s]]
    /\ pc' = "claim" /\ executed' = 0
    /\ UNCHANGED <<now, enabled, anchor, conv, result, current, after, wait, troubles>>

Claimable ==
    {o \in Occurrence : occ[o] = "queued" /\ o[2] <= now /\ enabled[o[1]]}

ClaimDueOccurrence ==
    /\ pc = "claim" /\ executed < MaxPerTick
    /\ \E o \in Claimable :
        /\ \A p \in Claimable : o[2] <= p[2]
        /\ occ' = [occ EXCEPT ![o] = "running"]
        /\ current' = o
    /\ pc' = "send"
    /\ UNCHANGED <<now, enabled, last, anchor, conv, result, after, wait, executed, troubles>>

\* nothing left to claim, or MAX_PER_TICK executed
EndTick ==
    /\ pc = "claim"
    /\ executed = MaxPerTick \/ Claimable = {}
    /\ pc' = "idle"
    /\ UNCHANGED <<now, tables, conv, current, after, wait, executed, troubles>>

ToIdle == pc' = "idle" /\ current' = NoOccurrence /\ UNCHANGED <<after, wait, executed>>

Settled(o, state, answer) ==
    /\ occ' = [occ EXCEPT ![o] = state]
    /\ result' = [result EXCEPT ![o] = answer]
    /\ pc' = "claim" /\ current' = NoOccurrence /\ executed' = executed + 1
    /\ UNCHANGED <<now, enabled, last, anchor, conv, after, wait, troubles>>

TheAgent == AgentOf[current[1]]

\* run_occurrence: the request id of the message is the occurrence's
Send ==
    /\ pc = "send"
    /\ conv' = [conv EXCEPT ![TheAgent] = Append(@, <<"task", current>>)]
    /\ after' = Len(conv'[TheAgent])
    /\ wait' = RunTimeout
    /\ pc' = "poll"
    /\ UNCHANGED <<now, tables, current, executed, troubles>>

\* the conversation cannot be opened, or the hub rejects the message
SendRejected == pc = "send" /\ Settled(current, "failed", Nobody)

Unread == {i \in DOMAIN conv[TheAgent] : i > after /\ conv[TheAgent][i][1] = "reply"}

\* a page with a reply: the first one decides
PollReply ==
    /\ pc = "poll"
    /\ \E i \in Unread :
        /\ \A j \in Unread : i <= j
        /\ Settled(current, "succeeded", conv[TheAgent][i][2])

PollRestartingDeadline ==
    /\ pc = "poll" /\ Unread = {} /\ wait > 0
    /\ after' = Len(conv[TheAgent])
    /\ wait' = RunTimeout
    /\ UNCHANGED <<now, tables, conv, pc, current, executed, troubles>>

PollNothing ==
    /\ pc = "poll" /\ Unread = {} /\ wait > 0
    /\ after' = Len(conv[TheAgent])
    /\ UNCHANGED <<now, tables, conv, pc, current, wait, executed, troubles>>

PollTimeout ==
    /\ pc = "poll" /\ Unread = {} /\ wait = 0
    /\ Settled(current, "failed", Nobody)

----------------------------------------------------------------------------
(* Faults, time, people and agents. *)

\* a transaction of the tick fails: the tick ends, what it claimed stays running
TickFails ==
    /\ pc # "idle" /\ troubles < MaxTroubles
    /\ troubles' = troubles + 1
    /\ ToIdle
    /\ UNCHANGED <<now, tables, conv>>

Elapse ==
    /\ now < MaxTime \/ wait > 0
    /\ now' = IF now < MaxTime THEN now + 1 ELSE now
    /\ wait' = IF wait > 0 THEN wait - 1 ELSE 0
    /\ UNCHANGED <<tables, conv, pc, current, after, executed, troubles>>

Ask(a, m) ==
    /\ \A b \in Agent : m \notin Said(b)
    /\ conv' = [conv EXCEPT ![a] = Append(@, m)]
    /\ UNCHANGED <<now, tables, loop, troubles>>

\* an agent answers a message once (BotsExecutor), whenever it gets to it
Reply(a, m) ==
    /\ m \in Said(a) /\ <<"reply", m>> \notin Said(a)
    /\ conv' = [conv EXCEPT ![a] = Append(@, <<"reply", m>>)]
    /\ UNCHANGED <<now, tables, loop, troubles>>

Poll == PollReply \/ PollNothing \/ PollTimeout

SchedulerStep ==
    \/ MaterializeDue \/ ClaimDueOccurrence \/ EndTick
    \/ Send \/ SendRejected \/ Poll

Next ==
    \/ \E s \in Schedule, start \in StartAt \cup {NoStart} : Create(s, start)
    \/ \E s \in Schedule, on \in BOOLEAN : SetEnabled(s, on)
    \/ SchedulerStep
    \/ TickFails
    \/ Elapse
    \/ \E a \in Agent, m \in Chat : Ask(a, m)
    \/ \E a \in Agent : \E m \in Said(a) \cap Question : Reply(a, m)

Spec == Init /\ [][Next]_vars

\* the loop runs as long as the hub does, and time passes
FairSpec == Spec /\ WF_vars(SchedulerStep) /\ WF_vars(Elapse)

----------------------------------------------------------------------------
(***************************************************************************)
(* Properties.                                                             *)
(***************************************************************************)

\* Every occurrence lies on the grid that starts at the promised first instant
\* (or one interval after creation), however late the ticks come: no drift.
OnTheGrid ==
    \A o \in Occurrence : occ[o] # "absent" =>
        /\ Exists(o[1]) /\ o[2] >= anchor[o[1]]
        /\ (o[2] - anchor[o[1]]) % Every[o[1]] = 0

\* A materialization leaves no schedule that is still behind: what was missed
\* while the hub was down becomes one occurrence, never a burst.
BacklogIsSkipped ==
    [][\A s \in Schedule : last'[s] # last[s] /\ Exists(s) =>
        /\ last'[s] <= now /\ last'[s] + Every[s] > now
        /\ Cardinality({d \in Due : occ[<<s, d>>] # occ'[<<s, d>>]}) <= 1]_vars

\* A disabled schedule has nothing left in the queue, so that no later tick
\* starts what was materialized before (schedules_set_enabled).
DisabledIsQuiet ==
    \A o \in Occurrence : occ[o] = "queued" => enabled[o[1]]

\* An occurrence is tried once: what finished never runs again and its outcome
\* is never overwritten, although the completion itself checks no state.
FinishedForGood ==
    [][\A o \in Occurrence : occ[o] \in Finished => occ'[o] = occ[o] /\ result'[o] = result[o]]_vars

\* The loop runs one occurrence at a time; any other that is still 'running'
\* was lost in a crash or a failed transaction, at most one for each of those.
OrphansComeFromFaults ==
    Cardinality({o \in Occurrence : occ[o] = "running" /\ o # current}) <= troubles

\* The task of an occurrence that succeeded was sent to its agent, and the reply
\* that is recorded came after it (run_occurrence reads from its own message on).
ResultsFollowTheTask ==
    \A o \in Occurrence : occ[o] = "succeeded" =>
        LET c == conv[AgentOf[o[1]]]
        IN \E i, j \in DOMAIN c :
            i < j /\ c[i] = <<"task", o>> /\ c[j] = <<"reply", result[o]>>

\* Every queued occurrence is claimed or cancelled in the end, even when the
\* agents of others never answer.
QueueDrains ==
    \A o \in Occurrence : occ[o] = "queued" ~> occ[o] # "queued"

\* What the task text promises: the agent's response to it "will be recorded as
\* this run's result".
ResultAnswersTask ==
    \A o \in Occurrence : occ[o] = "succeeded" => result[o] = <<"task", o>>

\* Downtime, crashes and disabling lose no occurrence and start none that was called off.
SchedulesSafe == OnTheGrid /\ DisabledIsQuiet /\ OrphansComeFromFaults /\ ResultsFollowTheTask
=============================================================================
