----------------------------- MODULE BotsChains -----------------------------
(***************************************************************************)
(* What people are promised about a conversation with agents, without the  *)
(* workers, leases and retries that bring it about:                        *)
(*   - a chain starts with a message of a person, and every other message  *)
(*     in it is the reply to one delivery, at most one to each;            *)
(*   - a reply wakes agents only down to the depth limit of the chain;     *)
(*   - a held delivery is answered by nobody until a person releases it;   *)
(*   - a closed delivery stays closed.                                     *)
(***************************************************************************)
EXTENDS Integers

CONSTANTS Agent, Message, MaxDepth, Person, Unsent

Delivery == Message \X Agent

VARIABLES
    cause,   \* what a message is the reply to
    root,    \* the first message of its chain
    depth,   \* how many replies away from it
    open,    \* deliveries an agent may be working on
    held,    \* deliveries that wait for a person
    closed,  \* deliveries that are over
    replied  \* deliveries that have a reply

chainsVars == <<cause, root, depth, open, held, closed, replied>>

Init ==
    /\ cause = [m \in Message |-> Unsent]
    /\ root = [m \in Message |-> m]
    /\ depth = [m \in Message |-> 0]
    /\ open = {}
    /\ held = {}
    /\ closed = {}
    /\ replied = {}

Ask(m, A) ==
    /\ cause[m] = Unsent
    /\ cause' = [cause EXCEPT ![m] = Person]
    /\ root' = [root EXCEPT ![m] = m]
    /\ depth' = [depth EXCEPT ![m] = 0]
    /\ open' = open \cup ({m} \X A)
    /\ UNCHANGED <<held, closed, replied>>

MayAnswer(d) == d \in (open \cup closed) \ held /\ d \notin replied

AnswerQuietly(d) ==
    /\ MayAnswer(d)
    /\ replied' = replied \cup {d}
    /\ UNCHANGED <<cause, root, depth, open, held, closed>>

\* A turn may outlive its delivery: an answer to a closed one still arrives.
AnswerAndWake(d, m, A) ==
    /\ MayAnswer(d)
    /\ cause[m] = Unsent
    /\ depth[d[1]] < MaxDepth
    /\ cause' = [cause EXCEPT ![m] = d]
    /\ root' = [root EXCEPT ![m] = root[d[1]]]
    /\ depth' = [depth EXCEPT ![m] = depth[d[1]] + 1]
    /\ \/ open' = open \cup ({m} \X A) /\ held' = held
       \/ held' = held \cup ({m} \X A) /\ open' = open
    /\ replied' = replied \cup {d}
    /\ UNCHANGED closed

Close(d) ==
    /\ d \in open
    /\ open' = open \ {d}
    /\ closed' = closed \cup {d}
    /\ UNCHANGED <<cause, root, depth, held, replied>>

Dismiss(d) ==
    /\ d \in held
    /\ held' = held \ {d}
    /\ closed' = closed \cup {d}
    /\ UNCHANGED <<cause, root, depth, open, replied>>

Release(r) ==
    /\ held' = {d \in held : root[d[1]] # r}
    /\ open' = open \cup {d \in held : root[d[1]] = r}
    /\ UNCHANGED <<cause, root, depth, closed, replied>>

Next ==
    \/ \E m \in Message, A \in SUBSET Agent : Ask(m, A)
    \/ \E d \in Delivery :
        \/ AnswerQuietly(d)
        \/ \E m \in Message, A \in SUBSET Agent : AnswerAndWake(d, m, A)
        \/ Close(d)
        \/ Dismiss(d)
    \/ \E r \in Message : Release(r)

Spec == Init /\ [][Next]_chainsVars

=============================================================================
