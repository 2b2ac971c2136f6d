------------------------------- MODULE Agents -------------------------------
(*****************************************************************************)
(* Agents and the sessions they run in, part by part.  The parts share no    *)
(* variable, so that an invariant or an action property of one holds of the  *)
(* whole just if it holds while the others stand still.                      *)
(*****************************************************************************)
EXTENDS Naturals, Sequences, FiniteSets, TLC

CONSTANTS
    Op, Input, Process, TurnsMaxGen, MaxFaults,               \* SubscriptionTurns
    MaxAttempts,                                              \* ChatgptAccount
    MaxQueued, MaxCalls, LinkMaxGen,                          \* SubscriptionLink
    \* AgentTools
    Limit, MaxInvalid, ToolsMaxGen, MaxRevision, MaxBatch, Saved, Offers,
    \* BotsRooms
    Account, Device, DeviceOwner, RoomsAgent, AgentOwner, Local, LocalModel, CloudService,
    NameOf, RoomsRequest, Paired, HostOf, MaxRooms, MaxMessages, MaxChanges,
    \* Handoffs
    WorkAgent, Caller, Person, MaxHandoffs, MaxDms, MaxArchived,
    \* DesktopBroker
    Target, BrokerCall, MaxShots, MaxRules, MaxStops, MaxTold,
    None                                                      \* nobody, nothing

VARIABLES
    moving,  \* the part that runs; the others stand still
    writer, gen, live, turn, saved, turnsProc, late, sent, answer, turnsDelivery, post,
    faults,
    accountProc, state, shown, pending, completion, doing, accountAttempts, stored, active,
    emitted,
    generation, next_id, in_flight, results, auth, coordinator, linkCalls, holder, wire,
    broken,
    policy, assigned, shared, toolsDelivery, toolsAttempts, toolsReceipts, findings, reply,
    origin,
    devices, agents, rooms, roomsReceipts, roomsMessages, deliveries, passes, changes,
    handoffs, dms, workMessages, granted, archived, workCalls,
    focus, through, revoked, interrupted, uncertain, used, journal, shot, fresh, rule,
    revision, queue, consent, done, moved, stops, told

\* The operations of a conversation and the processes that run them.
Turns == INSTANCE SubscriptionTurns WITH
    MaxGen <- TurnsMaxGen, proc <- turnsProc, delivery <- turnsDelivery
turnsVars == <<writer, gen, live, turn, saved, turnsProc, late, sent, answer,
               turnsDelivery, post, faults>>

\* The account a member connects.
Chatgpt == INSTANCE ChatgptAccount WITH
    proc <- accountProc, attempts <- accountAttempts
accountVars == <<accountProc, state, shown, pending, completion, doing, accountAttempts,
                 stored, active, emitted>>

\* The link to the app server.
Link == INSTANCE SubscriptionLink WITH
    MaxGen <- LinkMaxGen, calls <- linkCalls
linkVars == <<generation, next_id, in_flight, results, auth, coordinator, linkCalls,
              holder, wire, broken>>

\* A turn of an agent that calls tools.
Tools == INSTANCE AgentTools WITH
    MaxGen <- ToolsMaxGen, delivery <- toolsDelivery, attempts <- toolsAttempts,
    receipts <- toolsReceipts
toolsVars == <<policy, assigned, shared, toolsDelivery, toolsAttempts, toolsReceipts,
               findings, reply, origin>>

\* Rooms, the agents in them and the computers that answer for the agents.
Rooms == INSTANCE BotsRooms WITH
    Agent <- RoomsAgent, Request <- RoomsRequest, receipts <- roomsReceipts,
    messages <- roomsMessages
roomsVars == <<devices, agents, rooms, roomsReceipts, roomsMessages, deliveries, passes,
               changes>>

\* Work that agents, their owners and turns of agents hand over.
Work == INSTANCE Handoffs WITH
    Agent <- WorkAgent, messages <- workMessages, calls <- workCalls
workVars == <<handoffs, dms, workMessages, granted, archived, workCalls>>

\* The broker of a desktop session.
Broker == INSTANCE DesktopBroker WITH
    Call <- BrokerCall, Nowhere <- None
desktopVars == <<focus, through, revoked, interrupted, uncertain, used, journal, shot,
                 fresh, rule, revision, queue, consent, done, moved, stops, told>>

ASSUME TurnsAssumed == Turns!TurnsAssumption
ASSUME ChatgptAssumed == Chatgpt!AccountAssumption
ASSUME LinkAssumed == Link!LinkAssumption
ASSUME ToolsAssumed == Tools!ToolsAssumption
ASSUME RoomsAssumed == Rooms!RoomsAssumption
ASSUME WorkAssumed == Work!HandoffsAssumption
ASSUME BrokerAssumed == Broker!BrokerAssumption

Init ==
    /\ moving \in {"turns", "account", "link", "tools", "rooms", "work", "desktop"}
    /\ Turns!Init
    /\ Chatgpt!Init
    /\ Link!Init
    /\ Tools!Init
    /\ Rooms!Init
    /\ Work!Init
    /\ Broker!Init

Next ==
    \/ /\ moving = "turns" /\ Turns!Next
       /\ UNCHANGED <<moving, accountVars, linkVars, toolsVars, roomsVars, workVars,
                      desktopVars>>
    \/ /\ moving = "account" /\ Chatgpt!Next
       /\ UNCHANGED <<moving, turnsVars, linkVars, toolsVars, roomsVars, workVars,
                      desktopVars>>
    \/ /\ moving = "link" /\ Link!Next
       /\ UNCHANGED <<moving, turnsVars, accountVars, toolsVars, roomsVars, workVars,
                      desktopVars>>
    \/ /\ moving = "tools" /\ Tools!Next
       /\ UNCHANGED <<moving, turnsVars, accountVars, linkVars, roomsVars, workVars,
                      desktopVars>>
    \/ /\ moving = "rooms" /\ Rooms!Next
       /\ UNCHANGED <<moving, turnsVars, accountVars, linkVars, toolsVars, workVars,
                      desktopVars>>
    \/ /\ moving = "work" /\ Work!Next
       /\ UNCHANGED <<moving, turnsVars, accountVars, linkVars, toolsVars, roomsVars,
                      desktopVars>>
    \/ /\ moving = "desktop" /\ Broker!Next
       /\ UNCHANGED <<moving, turnsVars, accountVars, linkVars, toolsVars, roomsVars,
                      workVars>>

vars == <<moving, turnsVars, accountVars, linkVars, toolsVars, roomsVars, workVars,
          desktopVars>>

Spec == Init /\ [][Next]_vars

-----------------------------------------------------------------------------
\* An input reaches the window the person is in and wants it in, once, and is never
\* forgotten.
BrokerSafe == [][moving = "desktop" => Broker!BrokerStep]_desktopVars

\* A turn is sent to the provider once, whoever replays it, and answered with what the
\* provider said to it.
TurnsSafe == Turns!TurnsSafe

\* What the account page shows is what the runtime has stored.
ShownIsStored == Chatgpt!ShownIsStored

\* A call gets its own answer.
AnswersAreOwn == Link!AnswersAreOwn

\* A turn acts through its tools while it is the turn, within its limit, and once.
ToolsSafe == [][moving = "tools" => Tools!ToolsStep]_toolsVars

\* Nothing is written twice, and everyone writes where they belong.
RoomsSafe == Rooms!RoomsSafe

\* An agent is asked once, and the result told once and truly.
HandoffsSafe == Work!HandoffsSafe

-----------------------------------------------------------------------------
(* A small instance: what Agents.cfg gives to the parameters that are functions. *)

\* one account owns the computers and the agents, the other owns none
FirstOwnsDevices == [d \in Device |-> CHOOSE u \in Account : TRUE]
FirstOwnsAgents == [c \in RoomsAgent |-> CHOOSE u \in Account : TRUE]
OwnNames == [c \in RoomsAgent |-> c]
OnTheModelsDevice == [c \in Local |-> CHOOSE d \in LocalModel : TRUE]
=============================================================================
