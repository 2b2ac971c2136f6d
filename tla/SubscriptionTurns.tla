------------------------- MODULE SubscriptionTurns -------------------------
(***************************************************************************)
(* A turn on a member's own subscription (subscription/): the journal of   *)
(* one session, the runner that sends a turn or reconciles one that is     *)
(* uncertain, the replies it stores, and their publication in a room.      *)
(*                                                                         *)
(* Every transaction of the journal is one step, for processes may stop    *)
(* and leases may run out between any two of them.  A reply is a number:   *)
(* the provider answers the k-th time it is sent an operation with k or    *)
(* an earlier answer.                                                      *)
(***************************************************************************)
EXTENDS Naturals, FiniteSets

CONSTANTS
    Op, Input,   \* operations, and what the envelope of one may hash to
    Process,     \* runners with the journal open
    None,
    MaxGen,      \* bound: leases granted
    MaxFaults    \* bound: processes that stop

TurnsAssumption ==
    /\ IsFiniteSet(Op) /\ None \notin Process \cup Input \cup Nat
    /\ MaxGen \in Nat /\ MaxFaults \in Nat

VARIABLES
    writer, gen, live,  \* sessions: writer, generation, whether expires lies ahead
    turn,               \* turns: state, input_hash, provider_turn, receipt
    saved,              \* results: the reply and its receipt
    proc,               \* of each process: where its run or reconcile is, its lease, its reply
    late,               \* results.persist calls that timed out and still run
    sent, answer,       \* at the provider: times an operation was sent, the reply to it
    delivery, post,     \* in the room: status of the delivery, the reply that was posted
    faults

session == <<writer, gen, live>>
provider == <<sent, answer>>
room == <<delivery, post>>
vars == <<session, turn, saved, proc, late, provider, room, faults>>

Uncertain == {"dispatched", "delivery_unknown"}
NoTurn == [state |-> "none", input |-> None, reply |-> None, receipt |-> None]
NoSave == [reply |-> None, receipt |-> None]
Idle == [pc |-> "idle", op |-> None, input |-> None, gen |-> 0, reply |-> None, receipt |-> None]

Init ==
    /\ writer = None /\ gen = 0 /\ live = FALSE
    /\ turn = [o \in Op |-> NoTurn] /\ saved = [o \in Op |-> NoSave]
    /\ proc = [p \in Process |-> Idle] /\ late = {}
    /\ sent = [o \in Op |-> 0] /\ answer = [o \in Op |-> None]
    /\ delivery = [o \in Op |-> "running"] /\ post = [o \in Op |-> None]
    /\ faults = 0

-----------------------------------------------------------------------------
At(p, pc) == proc[p].pc = pc
Goes(p, pc) == proc' = [proc EXCEPT ![p].pc = pc]
\* fence: this writer, this generation, not expired
Fenced(p) == live /\ writer = p /\ gen = proc[p].gen
Pending == {o \in Op : turn[o].state \in {"prepared"} \cup Uncertain}
GivenUp == [o \in Op |-> IF turn[o].state = "dispatched"
                         THEN [turn[o] EXCEPT !.state = "delivery_unknown"] ELSE turn[o]]

\* acquire: a run of an operation with some input, or a reconciliation of one
Acquire(p, o, i) ==
    /\ At(p, "idle") /\ ~ live /\ gen < MaxGen
    /\ writer' = p /\ gen' = gen + 1 /\ live' = TRUE
    /\ turn' = GivenUp
    /\ proc' = [proc EXCEPT ![p] = [Idle EXCEPT !.pc = IF i = None THEN "reconcile" ELSE "run",
                                                !.op = o, !.input = i, !.gen = gen + 1]]
    /\ UNCHANGED <<saved, late, provider, room, faults>>

\* a step of a lease holder: what it does when the fence lets it, and the error otherwise
Fences(p, Ok, Else) == IF Fenced(p) /\ Ok THEN Else ELSE Goes(p, "leave") /\ UNCHANGED turn

\* prepare: the recorded turn if its hash is the same, else a new one if nothing is pending
Prepare(p) ==
    LET o == proc[p].op  i == proc[p].input  old == turn[o] IN
    /\ At(p, "run")
    /\ Fences(p, IF old.state = "none" THEN Pending = {} ELSE old.input = i,
         /\ Goes(p, IF old.state = "completed" THEN "leave" ELSE "prepared")
         /\ turn' = [turn EXCEPT ![o] = IF old.state = "none"
                        THEN [NoTurn EXCEPT !.state = "prepared", !.input = i] ELSE old])
    /\ UNCHANGED <<session, saved, late, provider, room, faults>>

MarkDispatchedAgain(p) ==  \* mutant: any turn that is not completed may be sent
    /\ At(p, "prepared")
    /\ Fences(p, turn[proc[p].op].state # "completed",
         Goes(p, "send") /\ turn' = [turn EXCEPT ![proc[p].op].state = "dispatched"])
    /\ UNCHANGED <<session, saved, late, provider, room, faults>>

\* mark_dispatched: only the change from prepared lets the runner send
MarkDispatched(p) ==
    /\ At(p, "prepared")
    /\ Fences(p, turn[proc[p].op].state = "prepared",
         Goes(p, "send") /\ turn' = [turn EXCEPT ![proc[p].op].state = "dispatched"])
    /\ UNCHANGED <<session, saved, late, provider, room, faults>>

Send(p) ==
    /\ At(p, "send") /\ Goes(p, "wait")
    /\ sent' = [sent EXCEPT ![proc[p].op] = @ + 1]
    /\ UNCHANGED <<session, turn, saved, late, answer, room, faults>>

Reply(p) ==
    LET o == proc[p].op IN
    /\ At(p, "wait") /\ answer[o] # None
    /\ proc' = [proc EXCEPT ![p].pc = "reply", ![p].reply = answer[o]]
    /\ UNCHANGED <<session, turn, saved, late, provider, room, faults>>

\* guarded: cancelled, timed out, a provider error, or a renewal that was refused
GiveUp(p) ==
    /\ proc[p].pc \in {"wait", "look"} /\ Goes(p, "leave")
    /\ UNCHANGED <<session, turn, saved, late, provider, room, faults>>

\* reconcile: only a turn whose delivery is unknown
Enumerate(p) ==
    /\ At(p, "reconcile")
    /\ Fences(p, turn[proc[p].op].state = "delivery_unknown", Goes(p, "look") /\ UNCHANGED turn)
    /\ UNCHANGED <<session, saved, late, provider, room, faults>>

\* the stored reply, else what the provider can say of it; it is never sent again
Look(p) ==
    LET o == proc[p].op
        found == IF saved[o].reply # None THEN saved[o].reply ELSE answer[o] IN
    /\ At(p, "look") /\ found # None
    /\ proc' = [proc EXCEPT ![p].pc = "reply", ![p].reply = found]
    /\ UNCHANGED <<session, turn, saved, late, provider, room, faults>>

Acknowledge(p) ==
    LET o == proc[p].op  r == proc[p].reply IN
    /\ At(p, "reply")
    /\ Fences(p, turn[o].state \in Uncertain /\ turn[o].reply \in {None, r},
         Goes(p, "persist") /\ turn' = [turn EXCEPT ![o].reply = r])
    /\ UNCHANGED <<session, saved, late, provider, room, faults>>

\* DurableResults::access: the reply must be the acknowledged one, and is stored once
Accepts(o, r) ==
    /\ turn[o].reply = r
    /\ IF saved[o].reply # None THEN saved[o].reply = r ELSE turn[o].state \in Uncertain
Stored(o, r, receipt) ==
    [saved EXCEPT ![o] = IF @.reply # None THEN @ ELSE [reply |-> r, receipt |-> receipt]]

Persist(p) ==
    LET o == proc[p].op IN
    /\ At(p, "persist")
    /\ IF Accepts(o, proc[p].reply)
       THEN /\ saved' = Stored(o, proc[p].reply, proc[p].gen)
            /\ proc' = [proc EXCEPT ![p].pc = "finish", ![p].receipt = saved'[o].receipt]
       ELSE Goes(p, "leave") /\ UNCHANGED saved
    /\ UNCHANGED <<session, turn, late, provider, room, faults>>

\* after five seconds the runner stops waiting; the blocking call may still go through
PersistTimesOut(p) ==
    /\ At(p, "persist") /\ Goes(p, "leave")
    /\ late' = late \cup {[op |-> proc[p].op, reply |-> proc[p].reply, receipt |-> proc[p].gen]}
    /\ UNCHANGED <<session, turn, saved, provider, room, faults>>

LatePersist(l) ==
    /\ late' = late \ {l}
    /\ saved' = IF Accepts(l.op, l.reply) THEN Stored(l.op, l.reply, l.receipt) ELSE saved
    /\ UNCHANGED <<session, turn, proc, provider, room, faults>>

\* finish: the same record again is fine, any other only for an uncertain turn
Finish(p) ==
    LET o == proc[p].op  r == proc[p].reply  done == [turn[o] EXCEPT !.state = "completed", !.reply = r,
                                                                    !.receipt = proc[p].receipt] IN
    /\ At(p, "finish")
    /\ Fences(p, turn[o].reply \in {None, r} /\ (turn[o] = done \/ turn[o].state \in Uncertain),
         Goes(p, "leave") /\ turn' = [turn EXCEPT ![o] = done])
    /\ UNCHANGED <<session, saved, late, provider, room, faults>>

Release(p) ==
    /\ At(p, "leave") /\ proc' = [proc EXCEPT ![p] = Idle]
    /\ IF Fenced(p) THEN turn' = GivenUp /\ writer' = None /\ live' = FALSE
                    ELSE UNCHANGED <<turn, writer, live>>
    /\ UNCHANGED <<gen, saved, late, provider, room, faults>>

-----------------------------------------------------------------------------
\* completed and bots_publish_subscription: a completed reply whose journal and store agree
\* ends the running delivery; a repetition finds its own message
Publish(o) ==
    /\ turn[o].state = "completed"
    /\ saved[o] = [reply |-> turn[o].reply, receipt |-> turn[o].receipt]
    /\ delivery[o] = "running" /\ post[o] = None
    /\ delivery' = [delivery EXCEPT ![o] = "done"] /\ post' = [post EXCEPT ![o] = saved[o]]
    /\ UNCHANGED <<session, turn, saved, proc, late, provider, faults>>

\* the delivery is cancelled or fails meanwhile
DeliveryEnds(o) ==
    /\ delivery[o] = "running" /\ delivery' = [delivery EXCEPT ![o] = "cancelled"]
    /\ UNCHANGED <<session, turn, saved, proc, late, provider, post, faults>>

ProviderAnswers(o) ==
    /\ sent[o] > 0 /\ answer[o] \in {None} \cup 0 .. sent[o] - 1
    /\ answer' = [answer EXCEPT ![o] = sent[o]]
    /\ UNCHANGED <<session, turn, saved, proc, late, sent, room, faults>>

\* the lease runs out: a host that slept, or a process that stopped
Expire ==
    /\ live /\ live' = FALSE
    /\ UNCHANGED <<writer, gen, turn, saved, proc, late, provider, room, faults>>

Crash(p) ==
    /\ ~ At(p, "idle") /\ faults < MaxFaults /\ faults' = faults + 1
    /\ proc' = [proc EXCEPT ![p] = Idle] /\ late' = {}
    /\ UNCHANGED <<session, turn, saved, provider, room>>

Next ==
    \/ \E p \in Process :
          \/ \E o \in Op, i \in Input \cup {None} : Acquire(p, o, i)
          \/ Prepare(p) \/ MarkDispatched(p) \/ Send(p) \/ Reply(p) \/ GiveUp(p)
          \/ Enumerate(p) \/ Look(p) \/ Acknowledge(p) \/ Persist(p) \/ PersistTimesOut(p)
          \/ Finish(p) \/ Release(p) \/ Crash(p)
    \/ \E o \in Op : Publish(o) \/ DeliveryEnds(o) \/ ProviderAnswers(o)
    \/ \E l \in late : LatePersist(l)
    \/ Expire

Spec == Init /\ [][Next]_vars

-----------------------------------------------------------------------------
(* Properties.                                                             *)

\* Whatever stops, expires or is retried: the provider is sent an operation at most once, for
\* the turn costs the member's allowance and may act.
SentAtMostOnce == \A o \in Op : sent[o] <= 1

\* While it is not known what became of one turn no other one is sent in the session, and a
\* turn recorded as completed is what the provider answered and the store keeps, so that what
\* the room shows is that answer, however often and by whomever it is published.
RepliesAreTrue ==
    /\ Cardinality({o \in Op : sent[o] > 0 /\ turn[o].state # "completed"}) <= 1
    /\ \A o \in Op : turn[o].state = "completed" =>
          /\ turn[o].reply = answer[o] /\ answer[o] # None
          /\ saved[o] = [reply |-> turn[o].reply, receipt |-> turn[o].receipt]
    /\ \A o \in Op : post[o] # None => post[o] = saved[o] /\ turn[o].state = "completed"

\* Whoever replays a turn after a crash, it reaches the provider once, and the room shows what
\* the provider said to it.
TurnsSafe == SentAtMostOnce /\ RepliesAreTrue
=============================================================================
