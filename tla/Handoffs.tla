------------------------------ MODULE Handoffs ------------------------------
(***************************************************************************)
(* Work that is handed from one agent to another (local_hub/bots.rs and    *)
(* local_hub/agent_tools.rs, with the look-up of a conversation in         *)
(* local_hub/schedules.rs).  An operation is several transactions: the     *)
(* handoff, the conversation of the owner with the agent to be told, and   *)
(* the message to it.  Several callers are under way at once, and each may *)
(* die between two transactions.                                           *)
(***************************************************************************)
EXTENDS Naturals, Sequences, FiniteSets, FiniteSetsExt

CONSTANTS
    Agent,
    Caller,        \* the owner's command line, and turns of agents
    Person,        \* the callers that are the owner's
    MaxHandoffs, MaxDms, MaxArchived,  \* bounds
    None

HandoffsAssumption ==
    /\ Person \subseteq Caller
    /\ {MaxHandoffs, MaxDms, MaxArchived} \subseteq Nat

Terminal == {"completed", "failed"}

VARIABLES
    handoffs,  \* the rows: from whom, to whom, and the state
    dms,       \* conversations of the owner with one agent, by the agent
    messages,  \* what was written: of which handoff, telling what, in which conversation
    granted,   \* pairs of agents: whom an agent may hand work to
    archived,
    calls      \* what a caller is in the middle of

vars == <<handoffs, dms, messages, granted, archived, calls>>

Free == [stage |-> "free", source |-> None, agent |-> None, of |-> 0, says |-> None, dm |-> 0]

Init ==
    /\ handoffs = <<>>
    /\ dms = <<>>
    /\ messages = <<>>
    /\ granted = {}
    /\ archived = {}
    /\ calls = [c \in Caller |-> Free]

-----------------------------------------------------------------------------
\* bots_agent_handoff_targets_grant_local
GrantTarget(source, target) ==
    /\ source # target /\ target \notin archived
    /\ granted' = granted \cup {<<source, target>>}
    /\ UNCHANGED <<handoffs, dms, messages, archived, calls>>

Archive(a) ==
    /\ Cardinality(archived) < MaxArchived
    /\ archived' = archived \cup {a}
    /\ UNCHANGED <<handoffs, dms, messages, granted, calls>>

\* What the turn of an agent must show before the hub acts for it (the rest of
\* the authorization is AgentTools); the owner needs to show nothing.
MayHandOff(c, source, target) ==
    c \in Person \/ (<<source, target>> \in granted /\ source \notin archived
                        /\ target \notin archived)

\* Mutant: a handoff may be resolved again.
Unchecked(h) == TRUE

\* The last state a handoff is given is kept.
Unresolved(h) == handoffs[h].state \notin Terminal

Set(c, call) == calls' = [calls EXCEPT ![c] = call]
Tell(c, agent, h, says) ==
    Set(c, [Free EXCEPT !.stage = "looking", !.agent = agent, !.of = h, !.says = says])

\* An operation starts: for an agent the hub checks its turn in a transaction
\* of its own.  A call repeated after a crash writes another handoff.
AskHandOff(c, source, target) ==
    /\ calls[c] = Free /\ MayHandOff(c, source, target)
    /\ Set(c, [Free EXCEPT !.stage = "creating", !.source = source, !.agent = target])
    /\ UNCHANGED <<handoffs, dms, messages, granted, archived>>

\* bots_handoff_create_and_wake writes the handoff first.
Create(c) ==
    LET k == calls[c]
    IN  /\ k.stage = "creating" /\ Len(handoffs) < MaxHandoffs
        /\ handoffs' = Append(handoffs, [source |-> k.source, target |-> k.agent,
                                         state |-> "requested"])
        /\ Tell(c, k.agent, Len(handoffs'), "requested")
        /\ UNCHANGED <<dms, messages, granted, archived>>

\* The owner, or a turn of the target, resolves a handoff.
AskResolve(c, h, state) ==
    /\ calls[c] = Free
    /\ c \in Person \/ handoffs[h].target \notin archived
    /\ Set(c, [Free EXCEPT !.stage = "resolving", !.of = h, !.says = state])
    /\ UNCHANGED <<handoffs, dms, messages, granted, archived>>

\* bots_handoff_resolve: refused when the handoff has been resolved meanwhile.
Resolve(c) ==
    LET k == calls[c]
    IN  /\ k.stage = "resolving"
        /\ \/ /\ Unresolved(k.of)
              /\ handoffs' = [handoffs EXCEPT ![k.of].state = k.says]
              /\ Tell(c, handoffs[k.of].source, k.of, k.says)
           \/ /\ ~ Unresolved(k.of)
              /\ Set(c, Free) /\ UNCHANGED handoffs
        /\ UNCHANGED <<dms, messages, granted, archived>>

\* find_or_create_agent_dm looks for the conversation and makes it when there
\* is none; another caller may have made one in between.
DmsOf(a) == {i \in DOMAIN dms : dms[i] = a}

FindDm(c) ==
    /\ calls[c].stage = "looking"
    /\ calls' = IF DmsOf(calls[c].agent) = {} THEN [calls EXCEPT ![c].stage = "making"]
                ELSE [calls EXCEPT ![c].stage = "telling", ![c].dm = Max(DmsOf(calls[c].agent))]
    /\ UNCHANGED <<handoffs, dms, messages, granted, archived>>

MakeDm(c) ==
    /\ calls[c].stage = "making" /\ Len(dms) < MaxDms
    /\ dms' = Append(dms, calls[c].agent)
    /\ calls' = [calls EXCEPT ![c].stage = "telling", ![c].dm = Len(dms')]
    /\ UNCHANGED <<handoffs, messages, granted, archived>>

\* The request id names the handoff and whether it is asked for or resolved:
\* within one conversation it is written once.
Said(dm, h, resolved) ==
    \E i \in DOMAIN messages : /\ messages[i].dm = dm /\ messages[i].of = h
                               /\ (messages[i].says # "requested") = resolved

SendMessage(c) ==
    LET k == calls[c]
    IN  /\ k.stage = "telling"
        /\ messages' = IF Said(k.dm, k.of, k.says # "requested") THEN messages
                       ELSE Append(messages, [dm |-> k.dm, of |-> k.of, says |-> k.says])
        /\ calls' = [calls EXCEPT ![c] = Free]
        /\ UNCHANGED <<handoffs, dms, granted, archived>>

\* The caller dies, or its turn is taken over by another.
Crash(c) ==
    /\ calls[c] # Free
    /\ calls' = [calls EXCEPT ![c] = Free]
    /\ UNCHANGED <<handoffs, dms, messages, granted, archived>>

Next ==
    \/ \E s, t \in Agent : GrantTarget(s, t)
    \/ \E a \in Agent : Archive(a)
    \/ \E c \in Caller :
           \/ \E s, t \in Agent : AskHandOff(c, s, t)
           \/ \E h \in DOMAIN handoffs, state \in Terminal : AskResolve(c, h, state)
           \/ Create(c) \/ Resolve(c) \/ FindDm(c) \/ MakeDm(c) \/ SendMessage(c) \/ Crash(c)

Spec == Init /\ [][Next]_vars

-----------------------------------------------------------------------------
(***************************************************************************)
(* Properties                                                              *)
(***************************************************************************)

About(h, resolved) ==
    {i \in DOMAIN messages : messages[i].of = h /\ (messages[i].says # "requested") = resolved}

\* bots_handoff_resolve: "one receipt per handoff, not a moving target".
\* Whatever callers race and die, an agent is asked at most once and told of
\* the result at most once, each in its own conversation, and what the source
\* is told is how the handoff ended.
HandoffsSafe ==
    \A h \in DOMAIN handoffs :
        /\ Cardinality(About(h, FALSE)) <= 1 /\ Cardinality(About(h, TRUE)) <= 1
        /\ \A i \in About(h, FALSE) : dms[messages[i].dm] = handoffs[h].target
        /\ \A i \in About(h, TRUE) : /\ dms[messages[i].dm] = handoffs[h].source
                                     /\ messages[i].says = handoffs[h].state

\* bots.rs: "Resolves a handoff to a terminal state and notifies the source
\* agent via its own DM": once nobody is at it, the source of a resolved handoff
\* has been told.  Refuted: the caller dies in between, and the retry is refused.
ResolvedIsTold ==
    \A h \in DOMAIN handoffs :
        handoffs[h].state \in Terminal /\ (\A c \in Caller : calls[c].of # h)
            => About(h, TRUE) # {}

=============================================================================
