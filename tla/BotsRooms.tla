----------------------------- MODULE BotsRooms ------------------------------
(***************************************************************************)
(* Agents, rooms and messages of a local hub, and the workers that answer  *)
(* them (local_hub/bots.rs, local_hub/bots/rooms.rs, bots/mentions.rs and  *)
(* the pass of bots/executor.rs).  Several computers of several accounts   *)
(* share one hub.  Which attempt holds a delivery, and what becomes of a   *)
(* chain of replies, are BotsDeliveries and BotsExecutor; here a delivery  *)
(* is claimed by one worker and the questions are who may write what, who  *)
(* is woken, and what a room is told when nobody can answer.               *)
(***************************************************************************)
EXTENDS Naturals, Sequences, FiniteSets, FiniteSetsExt, SequencesExt

CONSTANTS
    Account, Device, DeviceOwner,
    Agent, AgentOwner,
    Local,         \* the agents whose replies a computer makes itself; the others' are made in the cloud
    LocalModel,    \* the computers with a local model
    CloudService,  \* the computers with a cloud runner
    NameOf,        \* of an agent; names are not unique
    Request,       \* ids the callers choose
    Paired,        \* the computers paired at the start
    HostOf,        \* of the agents made before the start, their hosts
    MaxRooms, MaxMessages, MaxChanges,  \* bounds: the last on changes to computers and agents
    None

RoomsAssumption ==
    /\ DeviceOwner \in [Device -> Account] /\ AgentOwner \in [Agent -> Account]
    /\ Local \subseteq Agent /\ LocalModel \subseteq Device /\ CloudService \subseteq Device
    /\ DOMAIN NameOf = Agent /\ {MaxRooms, MaxMessages, MaxChanges} \subseteq Nat
    /\ Paired \subseteq Device /\ DOMAIN HostOf \subseteq Agent /\ IsFiniteSet(Agent)
    \* callers do not make up the ids that the hub gives its own messages
    /\ \A q \in Request : q \notin {"delivery", "failed", "unroutable"} \X (Nat \X Agent)

VARIABLES
    devices,     \* "unknown", "paired" or "revoked"
    agents,      \* agent_profiles: NotMade, or whether archived and preferred_host
    rooms,       \* conversations and their agent members
    receipts,    \* bots_room_create_receipts
    messages,    \* in the order they were written
    deliveries,  \* agent_deliveries: of a message and a recipient, the status
    passes,      \* what the worker of a computer is doing
    changes      \* how many changes of computers and agents there were

vars == <<devices, agents, rooms, receipts, messages, deliveries, passes, changes>>

Made(host) == [made |-> TRUE, archived |-> FALSE, host |-> host]
NotMade == [made |-> FALSE, archived |-> FALSE, host |-> None]
Idle == [phase |-> "idle", todo |-> {}, listed |-> {}, turn |-> None, replied |-> FALSE]

Init ==
    /\ devices = [d \in Device |-> IF d \in Paired THEN "paired" ELSE "unknown"]
    /\ agents = [a \in Agent |-> IF a \in DOMAIN HostOf THEN Made(HostOf[a]) ELSE NotMade]
    /\ rooms = <<>>
    /\ receipts = {}
    /\ messages = <<>>
    /\ deliveries = <<>>
    /\ passes = [d \in Device |-> Idle]
    /\ changes = 0

-----------------------------------------------------------------------------
(***************************************************************************)
(* Computers and agents                                                    *)
(***************************************************************************)

\* A session of d: the key is good and the owner of the computer is known.
Session(d) == devices[d] = "paired"
Mine(d, a) == agents[a].made /\ AgentOwner[a] = DeviceOwner[d]

Change == changes < MaxChanges /\ changes' = changes + 1

\* Known computers keep their row when their key is revoked.
Pair(d) ==
    /\ devices[d] = "unknown"
    /\ devices' = [devices EXCEPT ![d] = "paired"]
    /\ Change /\ UNCHANGED <<agents, rooms, receipts, messages, deliveries, passes>>

Revoke(d) ==
    /\ devices[d] = "paired"
    /\ devices' = [devices EXCEPT ![d] = "revoked"]
    /\ passes' = [passes EXCEPT ![d] = Idle]
    /\ Change /\ UNCHANGED <<agents, rooms, receipts, messages, deliveries>>

\* bots_agents_create: any computer may be named as the host.
AgentsCreate(d, a, host) ==
    /\ Session(d) /\ ~ agents[a].made /\ AgentOwner[a] = DeviceOwner[d]
    /\ agents' = [agents EXCEPT ![a] = Made(host)]
    /\ Change /\ UNCHANGED <<devices, rooms, receipts, messages, deliveries, passes>>

AgentsUpdate(d, a, host) ==
    /\ Session(d) /\ Mine(d, a) /\ host # agents[a].host
    /\ agents' = [agents EXCEPT ![a].host = host]
    /\ Change /\ UNCHANGED <<devices, rooms, receipts, messages, deliveries, passes>>

AgentsArchive(d, a) ==
    /\ Session(d) /\ Mine(d, a)
    /\ agents' = [agents EXCEPT ![a].archived = TRUE]
    /\ Change /\ UNCHANGED <<devices, rooms, receipts, messages, deliveries, passes>>

-----------------------------------------------------------------------------
(***************************************************************************)
(* Rooms                                                                   *)
(***************************************************************************)

OwnRoom(d, r) == r \in DOMAIN rooms /\ rooms[r].owner = DeviceOwner[d]

NewRoom(d, members) ==
    /\ Len(rooms) < MaxRooms
    /\ rooms' = Append(rooms, [owner |-> DeviceOwner[d], members |-> members])

\* bots_conversations_create: a conversation with one agent, the coordinator, or none.
ConversationsCreate(d, coordinator) ==
    /\ Session(d)
    /\ \A a \in coordinator : Mine(d, a)
    /\ NewRoom(d, coordinator)
    /\ UNCHANGED <<devices, agents, receipts, messages, deliveries, passes, changes>>

Receipts(owner, request) == {x \in receipts : x.owner = owner /\ x.request = request}

\* bots_rooms_create: the room, its members and the receipt in one
\* transaction.  The same request again returns the room that was made, or is
\* refused when the details differ; neither changes anything.
RoomsCreate(d, request, members) ==
    /\ Session(d) /\ members # {}
    /\ Receipts(DeviceOwner[d], request) = {}
    /\ \A a \in members : Mine(d, a) /\ ~ agents[a].archived
    /\ NewRoom(d, members)
    /\ receipts' = receipts \cup {[owner |-> DeviceOwner[d], request |-> request,
                                   members |-> members, room |-> Len(rooms')]}
    /\ UNCHANGED <<devices, agents, messages, deliveries, passes, changes>>

\* bots_conversations_join: the agents of the account of the room, archived
\* ones too.  There is no leaving.
Join(d, a, r) ==
    /\ Session(d) /\ Mine(d, a) /\ OwnRoom(d, r) /\ a \notin rooms[r].members
    /\ rooms' = [rooms EXCEPT ![r].members = @ \cup {a}]
    /\ UNCHANGED <<devices, agents, receipts, messages, deliveries, passes, changes>>

-----------------------------------------------------------------------------
(***************************************************************************)
(* Messages                                                                *)
(***************************************************************************)

In(r) == {i \in DOMAIN messages : messages[i].room = r}

Written(r, request) == \E i \in In(r) : messages[i].request = request

NextSequence(log, r) ==
    1 + Max({0} \cup {log[i].seq : i \in {j \in DOMAIN log : log[j].room = r}})

Add(log, r, author, request, system, to) ==
    Append(log, [room |-> r, author |-> author, request |-> request, system |-> system,
                 to |-> to, seq |-> NextSequence(log, r)])

\* The next message waits for the agents in to, unless it is a system message.
Woken(system, to) ==
    LET new == IF system THEN {} ELSE {Len(messages) + 1} \X to
    IN  [k \in DOMAIN deliveries \cup new |-> IF k \in new THEN "pending" ELSE deliveries[k]]

\* Mutant: a request that was written before is written again.
InsertAgain(r, author, request, system, to) ==
    /\ Len(messages) < MaxMessages
    /\ messages' = Add(messages, r, author, request, system, to)
    /\ deliveries' = Woken(system, to)

\* The insertion of bots_message_send_with_cause.  A request that was written
\* before returns the earlier message.  A system message wakes nobody.
Insert(r, author, request, system, to) ==
    IF Written(r, request) THEN UNCHANGED <<messages, deliveries>>
    ELSE /\ Len(messages) < MaxMessages
         /\ messages' = Add(messages, r, author, request, system, to)
         /\ deliveries' = Woken(system, to)

\* An agent that makes its own replies acts at its host alone; another one
\* at any computer of its owner unless it has a host.
Hosts(d, a) ==
    /\ Mine(d, a)
    /\ IF a \in Local THEN agents[a].host = d ELSE agents[a].host \in {None, d}

\* bots_message_send: a person, or an agent this computer hosts.  What is
\* asked before the insertion, in transactions of its own, concerns facts that
\* no operation takes back: who owns what, and who is a member.
Send(d, author, r, request, system, to) ==
    /\ Session(d) /\ OwnRoom(d, r)
    /\ author \in Agent => Hosts(d, author) /\ author \in rooms[r].members
    /\ author \notin Agent => author = DeviceOwner[d]
    /\ to \subseteq rooms[r].members
    /\ Insert(r, author, request, system, to)
    /\ UNCHANGED <<devices, agents, rooms, receipts, passes, changes>>

-----------------------------------------------------------------------------
(***************************************************************************)
(* The pass of a worker                                                    *)
(***************************************************************************)

Set(d, p) == passes' = [passes EXCEPT ![d] = p]
Status(k) == deliveries[k]
With(status) == {k \in DOMAIN deliveries : deliveries[k] = status}

HasRunner(d, a) == d \in IF a \in Local THEN LocalModel ELSE CloudService
Runs(d, a) == Hosts(d, a) /\ ~ agents[a].archived /\ HasRunner(d, a)

\* drain_once: the agents of this pass are chosen at its start.
StartPass(d) ==
    /\ Session(d) /\ passes[d].phase = "idle"
    /\ Set(d, [Idle EXCEPT !.phase = "drain", !.todo = {a \in Agent : Runs(d, a)}])
    /\ UNCHANGED <<devices, agents, rooms, receipts, messages, deliveries, changes>>

Draining(d) == passes[d].phase = "drain" /\ passes[d].turn = None

\* drain_agent: what waits for one agent is listed once.  A delivery that was
\* put off is not listed until its time has come.
ListPending(d, a) ==
    /\ Draining(d) /\ passes[d].listed = {} /\ a \in passes[d].todo
    /\ Set(d, [passes[d] EXCEPT !.todo = @ \ {a},
                                !.listed = {k \in With("pending") : k[2] = a}])
    /\ UNCHANGED <<devices, agents, rooms, receipts, messages, deliveries, changes>>

\* drain_one: another worker may have claimed it meanwhile, or the agent been moved.
ClaimDelivery(d, k) ==
    /\ Draining(d) /\ k \in passes[d].listed
    /\ IF Status(k) = "pending" /\ Hosts(d, k[2])
       THEN /\ deliveries' = [deliveries EXCEPT ![k] = "running"]
            /\ Set(d, [passes[d] EXCEPT !.listed = @ \ {k}, !.turn = k])
       ELSE /\ Set(d, [passes[d] EXCEPT !.listed = @ \ {k}])
            /\ UNCHANGED deliveries
    /\ UNCHANGED <<devices, agents, rooms, receipts, messages, changes>>

\* The agents a reply addresses by name: one that is unambiguous among the
\* members at work, and not its author.  A reply cannot address everyone.
Roster(r) == {a \in rooms[r].members : ~ agents[a].archived}
Called(r, name) == {a \in Roster(r) : NameOf[a] = name}
Mentioned(r, names, author) ==
    (UNION {Called(r, n) : n \in {m \in names : Cardinality(Called(r, m)) = 1}}) \ {author}

EndTurn(d) == Set(d, [passes[d] EXCEPT !.turn = None, !.replied = FALSE])

Working(d) ==
    /\ passes[d].turn # None /\ ~ passes[d].replied
    /\ Hosts(d, passes[d].turn[2])

\* attempt_reply: the reply has the request id of the delivery, so that a
\* second attempt writes nothing.  Who is named is told (what the budgets of
\* a chain keep back is as if it had not been named).
Reply(d, names) ==
    LET k == passes[d].turn
        r == messages[k[1]].room
    IN  /\ Working(d)
        /\ Insert(r, k[2], <<"delivery", k>>, FALSE, Mentioned(r, names, k[2]))
        /\ Set(d, [passes[d] EXCEPT !.replied = TRUE])
        /\ UNCHANGED <<devices, agents, rooms, receipts, changes>>

Complete(d) ==
    LET k == passes[d].turn
    IN  /\ k # None /\ passes[d].replied /\ Hosts(d, k[2])
        /\ deliveries' = [deliveries EXCEPT ![k] = "done"]
        /\ EndTurn(d)
        /\ UNCHANGED <<devices, agents, rooms, receipts, messages, changes>>

\* The computer is busy: the delivery is put off.
NoCapacity(d) ==
    LET k == passes[d].turn
    IN  /\ Working(d)
        /\ deliveries' = [deliveries EXCEPT ![k] = "later"]
        /\ EndTurn(d)
        /\ UNCHANGED <<devices, agents, rooms, receipts, messages, changes>>

RetryDue(k) ==
    /\ Status(k) = "later"
    /\ deliveries' = [deliveries EXCEPT ![k] = "pending"]
    /\ UNCHANGED <<devices, agents, rooms, receipts, messages, passes, changes>>

\* The turn fails: the delivery is closed and the room told, in one
\* transaction, unless there is a reply.
Fails(d) ==
    LET k == passes[d].turn
        r == messages[k[1]].room
    IN  /\ Working(d)
        /\ Len(messages) < MaxMessages
        /\ deliveries' = [deliveries EXCEPT ![k] = "failed"]
        /\ messages' = IF Written(r, <<"delivery", k>>) THEN messages
                       ELSE Add(messages, r, rooms[r].owner, <<"failed", k>>, TRUE, {})
        /\ EndTurn(d)
        /\ UNCHANGED <<devices, agents, rooms, receipts, changes>>

\* The agent was moved to another host: neither the reply nor the end of the
\* turn is accepted, and the lease has to lapse.
Refused(d) ==
    /\ passes[d].turn # None /\ ~ Hosts(d, passes[d].turn[2])
    /\ EndTurn(d)
    /\ UNCHANGED <<devices, agents, rooms, receipts, messages, deliveries, changes>>

\* The worker dies.
Crash(d) ==
    /\ passes[d] # Idle
    /\ Set(d, Idle)
    /\ UNCHANGED <<devices, agents, rooms, receipts, messages, deliveries, changes>>

\* The lease of a delivery nobody works on lapses.
Reap(k) ==
    /\ Status(k) = "running"
    /\ \A d \in Device : passes[d].turn # k
    /\ deliveries' = [deliveries EXCEPT ![k] = "pending"]
    /\ UNCHANGED <<devices, agents, rooms, receipts, messages, passes, changes>>

\* Why a delivery of agent a is reported by the worker of d.
CannotRun(d, a) ==
    \/ agents[a].archived
    \/ a \notin Local
    \/ agents[a].host = None
    \/ agents[a].host # d /\ devices[agents[a].host] = "unknown"
    \/ agents[a].host = d /\ d \notin LocalModel

Reported(k) == Written(messages[k[1]].room, <<"unroutable", k>>)

Unroutable(d) ==
    {k \in With("pending") \cup With("later") :
        Mine(d, k[2]) /\ CannotRun(d, k[2]) /\ ~ Reported(k)}

Notice(log, k) ==
    LET r == messages[k[1]].room
    IN  Add(log, r, rooms[r].owner, <<"unroutable", k>>, TRUE, {})

\* the messages after a notice for each of the first n deliveries of q
AfterNotices(q, n) ==
    LET told[i \in 0 .. n] == IF i = 0 THEN messages ELSE Notice(told[i - 1], q[i])
    IN  told[n]

\* bots_report_unroutable, after everything listed is answered: one notice for
\* each delivery still pending that this worker takes for unanswerable.
ReportUnroutable(d) ==
    /\ Draining(d) /\ passes[d].listed = {} /\ passes[d].todo = {}
    /\ Len(messages) + Cardinality(Unroutable(d)) <= MaxMessages
    /\ messages' = AfterNotices(SetToSeq(Unroutable(d)), Cardinality(Unroutable(d)))
    /\ Set(d, Idle)
    /\ UNCHANGED <<devices, agents, rooms, receipts, deliveries, changes>>

-----------------------------------------------------------------------------
Hosting == Device \cup {None}

Manage(d) ==
    \/ Pair(d) \/ Revoke(d)
    \/ \E a \in Agent, host \in Hosting : AgentsCreate(d, a, host) \/ AgentsUpdate(d, a, host)
    \/ \E a \in Agent : AgentsArchive(d, a)
    \/ \E a \in Agent : ConversationsCreate(d, {a})
    \/ ConversationsCreate(d, {})
    \/ \E request \in Request, members \in SUBSET Agent : RoomsCreate(d, request, members)
    \/ \E a \in Agent, r \in DOMAIN rooms : Join(d, a, r)

Write(d) ==
    \E r \in DOMAIN rooms :
        \E author \in {DeviceOwner[d]} \cup Agent, request \in Request, system \in BOOLEAN,
           to \in SUBSET rooms[r].members : Send(d, author, r, request, system, to)

Work(d) ==
    \/ StartPass(d)
    \/ \E a \in Agent : ListPending(d, a)
    \/ \E k \in passes[d].listed : ClaimDelivery(d, k)
    \/ \E names \in SUBSET {NameOf[a] : a \in Agent} : Reply(d, names)
    \/ Complete(d) \/ NoCapacity(d) \/ Fails(d) \/ Refused(d) \/ Crash(d)
    \/ ReportUnroutable(d)

Next ==
    \/ \E d \in Device : Manage(d) \/ Write(d) \/ Work(d)
    \/ \E k \in DOMAIN deliveries : RetryDue(k) \/ Reap(k)

Spec == Init /\ [][Next]_vars

-----------------------------------------------------------------------------
(***************************************************************************)
(* Properties                                                              *)
(***************************************************************************)

\* Within a room messages are numbered without gaps and no request is written twice.
WellNumbered ==
    \A r \in DOMAIN rooms :
        /\ {messages[i].seq : i \in In(r)} = 1..Cardinality(In(r))
        /\ \A i, j \in In(r) : messages[i].request = messages[j].request => i = j

\* Whoever is woken is a member of the room and of its account, and was
\* addressed; a reply is by the agent that was asked and does not wake it.
OnlyMembersAreWoken ==
    /\ \A k \in DOMAIN deliveries :
           LET m == messages[k[1]]
           IN  /\ k[2] \in m.to /\ ~ m.system
               /\ k[2] \in rooms[m.room].members /\ AgentOwner[k[2]] = rooms[m.room].owner
    /\ \A i \in DOMAIN messages : \A k \in DOMAIN deliveries :
           messages[i].request = <<"delivery", k>> =>
               /\ messages[i].author = k[2] /\ k[2] \notin messages[i].to
               /\ messages[i].room = messages[k[1]].room

\* What a caller holds as its room belongs to its account and has the members it asked for.
ReceiptsAreOwn ==
    \A owner \in Account, request \in Request :
        \A x \in Receipts(owner, request) :
            /\ Receipts(owner, request) = {x}
            /\ rooms[x.room].owner = owner /\ x.members \subseteq rooms[x.room].members

\* A delivery is closed only when the room can see why.
ClosedIsExplained ==
    \A k \in DOMAIN deliveries :
        LET r == messages[k[1]].room
        IN  /\ deliveries[k] = "done" => Written(r, <<"delivery", k>>)
            /\ deliveries[k] = "failed" => \/ Written(r, <<"delivery", k>>)
                                          \/ Written(r, <<"failed", k>>)

\* Several computers write to the rooms of several accounts, workers answer
\* and die in between: everybody sees one room per request and one sequence
\* of messages per room, only addressed members are woken, no answer is
\* written twice, and no question is closed in silence.
RoomsSafe == WellNumbered /\ OnlyMembersAreWoken /\ ReceiptsAreOwn /\ ClosedIsExplained

\* bots.rs: "An agent pinned to a node the vault has never heard of --
\* unpaired, revoked, or a stale id -- is nobody's job, and that notice is
\* worth posting because no one else will ever post it."  Refuted: the row of a
\* computer stays when its key is revoked.
SaidWhenNobodyCan ==
    [][\A d \in Device : ReportUnroutable(d) =>
           \A k \in With("pending") :
               /\ Mine(d, k[2]) /\ k[2] \in Local
               /\ agents[k[2]].host \in Device \ {d} /\ devices[agents[k[2]].host] = "revoked"
               => Reported(k)']_vars

\* executor.rs: "a supported cloud agent never collects an "unsupported" notice
\* next to its own reply [...] Only genuinely unanswerable deliveries are still
\* pending here."  Refuted: a delivery may be put off or arrive during the pass.
NoticesAreTrue ==
    [][\A d \in Device : ReportUnroutable(d) =>
           \A k \in Unroutable(d) : ~ Runs(d, k[2])]_vars


-----------------------------------------------------------------------------
(* A small instance: everything belongs to one account, agents are called by *)
(* different names, and the local ones run on a computer with a model.       *)
OneOwnerOfDevices == [d \in Device |-> CHOOSE u \in Account : TRUE]
OneOwnerOfAgents == [a \in Agent |-> CHOOSE u \in Account : TRUE]
DifferentNames == [a \in Agent |-> a]
OnItsModel == [a \in Local |-> CHOOSE d \in LocalModel : TRUE]
=============================================================================
