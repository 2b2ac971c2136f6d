---------------------------- MODULE BotsExecutor ----------------------------
(***************************************************************************)
(* The processes that answer deliveries (bots/executor.rs), over the store *)
(* of BotsDeliveries, together with the people who write, cancel and       *)
(* release.  A worker calls the store one request at a time and other      *)
(* workers and people act between any two of its requests: each step here  *)
(* is one request, or the model turn.                                      *)
(*                                                                         *)
(* The store may be a hub on another computer, so a request can take       *)
(* effect and its answer be lost; and a worker may crash anywhere.  What   *)
(* makes a row start over (a crash, a lost claim, no capacity, no runner,  *)
(* a turn longer than its lease) is bounded by MaxTroubles.                *)
(***************************************************************************)
EXTENDS BotsDeliveries

CONSTANTS
    Worker,
    Hosts,       \* the agents a worker drains (drain_once's filter)
    Batch,       \* DRAIN_BATCH
    MaxDepth,    \* HandoffBudgets.max_depth, 0 when fan-out is disabled
    MaxTurns,    \* HandoffBudgets.max_turns_per_root
    Width,       \* HandoffBudgets.max_active_specialist_handoffs_per_run
    MaxAsks,     \* bound: messages of people
    MaxTroubles, \* bound: see above
    NoDelivery

ASSUME ExecutorAssumption ==
    /\ Hosts \in [Worker -> SUBSET Agent]
    /\ Batch \in Nat \ {0}
    /\ MaxDepth \in Nat
    /\ MaxTurns \in Nat
    /\ Width \in Nat
    /\ MaxAsks \in Nat
    /\ MaxTroubles \in Nat
    /\ NoDelivery \notin Delivery

VARIABLES
    pc,       \* where a worker is in its pass
    batch,    \* the rows it listed and has still to try
    job,      \* the row it tries
    ticket,   \* claimed.lease_generation
    to,       \* the agents its reply wakes
    hold,     \* what the gate decided
    troubles  \* troubles so far

passVars == <<pc, batch, job, ticket, to, hold>>
vars == <<storeVars, passVars, troubles>>

Working == {"turn", "gate", "send", "announce", "complete", "fail", "requeue", "handback"}

ExecTypeOK ==
    /\ StoreTypeOK
    /\ pc \in [Worker -> {"list", "peek", "claim"} \cup Working]
    /\ batch \in [Worker -> SUBSET Delivery]
    /\ job \in [Worker -> Delivery \cup {NoDelivery}]
    /\ \A w \in Worker : pc[w] \in Working \cup {"claim"} => job[w] \in Delivery
    /\ ticket \in [Worker -> Nat]
    /\ to \in [Worker -> SUBSET Agent]
    /\ hold \in [Worker -> BOOLEAN]
    /\ troubles \in 0..MaxTroubles

Trouble == troubles < MaxTroubles /\ troubles' = troubles + 1

Goto(w, l) == pc' = [pc EXCEPT ![w] = l]

\* drain_one returns: the next row of the batch, or the next agent.
NextRow(w) == Goto(w, IF batch[w] = {} THEN "list" ELSE "peek")

Resolved(w) ==
    /\ NextRow(w)
    /\ job' = [job EXCEPT ![w] = NoDelivery]
    /\ ticket' = [ticket EXCEPT ![w] = 0]
    /\ to' = [to EXCEPT ![w] = {}]
    /\ hold' = [hold EXCEPT ![w] = FALSE]
    /\ UNCHANGED batch

(***************************************************************************)
(* drain_once and drain_agent.                                             *)
(***************************************************************************)
Listed(a) == {B \in SUBSET Claimable(a) :
    Cardinality(B) <= Batch /\ (Cardinality(B) = Batch \/ B = Claimable(a))}

\* One agent of the pass.  The order of the agents in a pass is left open.
List(w, a) ==
    /\ pc[w] = "list"
    /\ a \in Hosts[w]
    /\ Reap(a)
    /\ \E B \in Listed(a) :
        /\ batch' = [batch EXCEPT ![w] = B]
        /\ Goto(w, IF B = {} THEN "list" ELSE "peek")
    /\ UNCHANGED <<job, ticket, to, hold, troubles>>

\* The cheap look at the running count before a claim.
Peek(w, d) ==
    /\ pc[w] = "peek"
    /\ d \in batch[w]
    /\ Cardinality(Running(d[2])) < MaxActive
    /\ Goto(w, "claim")
    /\ job' = [job EXCEPT ![w] = d]
    /\ batch' = [batch EXCEPT ![w] = @ \ {d}]
    /\ UNCHANGED <<storeVars, ticket, to, hold, troubles>>

\* The agent is at its limit, or the count could not be read.
LeaveAgent(w) ==
    /\ pc[w] = "peek"
    /\ \/ \E d \in batch[w] : Cardinality(Running(d[2])) >= MaxActive
          /\ UNCHANGED troubles
       \/ Trouble
    /\ batch' = [batch EXCEPT ![w] = {}]
    /\ Goto(w, "list")
    /\ UNCHANGED <<storeVars, job, ticket, to, hold>>

(***************************************************************************)
(* drain_one and attempt_reply.                                            *)
(***************************************************************************)
Claim(w) ==
    /\ pc[w] = "claim"
    /\ ClaimWithinBudget(job[w])
    /\ ticket' = [ticket EXCEPT ![w] = gen'[job[w]]]
    /\ Goto(w, "turn")
    /\ UNCHANGED <<batch, job, to, hold, troubles>>

\* Refused: somebody was faster.  Or the request or its answer got lost.
ClaimMissed(w) ==
    /\ pc[w] = "claim"
    /\ \/ ~CanClaim(job[w]) /\ UNCHANGED <<storeVars, troubles>>
       \/ (ClaimWithinBudget(job[w]) \/ UNCHANGED storeVars) /\ Trouble
    /\ Resolved(w)

\* The turn: it fails, finds no capacity or no runner, or says something.
TurnFails(w) ==
    /\ pc[w] = "turn"
    /\ \/ Goto(w, "fail") /\ UNCHANGED troubles
       \/ \E l \in {"requeue", "handback"} : Goto(w, l) /\ Trouble
    /\ UNCHANGED <<storeVars, batch, job, ticket, to, hold>>

\* The mentions of a reply, cut to the width; nobody beyond the depth limit.
Addressable(d) ==
    IF depth[d[1]] + 1 > MaxDepth THEN {{}}
    ELSE {A \in SUBSET (Agent \ {d[2]}) : Cardinality(A) <= Width}

TurnSpeaks(w) ==
    /\ pc[w] = "turn"
    /\ \E A \in Addressable(job[w]) :
        /\ to' = [to EXCEPT ![w] = A]
        /\ Goto(w, IF A = {} THEN "send" ELSE "gate")
    /\ UNCHANGED <<storeVars, batch, job, ticket, hold, troubles>>

\* turn_budget_decision, when the count could be read.
MustHold(r, n) == Cardinality(ChainRows(r)) + n > MaxTurns

\* A count that could not be read holds.
Gate(w) ==
    /\ pc[w] = "gate"
    /\ \/ hold' = [hold EXCEPT ![w] = MustHold(root[job[w][1]], Cardinality(to[w]))]
       \/ hold' = [hold EXCEPT ![w] = TRUE]
    /\ Goto(w, "send")
    /\ UNCHANGED <<storeVars, batch, job, ticket, to, troubles>>

\* Mutant: a refused reply is taken for a sent one.
SendUnchecked(w) ==
    /\ pc[w] = "send"
    /\ \/ \E m \in Message : Reply(job[w], m, to[w], hold[w])
       \/ UNCHANGED storeVars
    /\ Goto(w, IF hold[w] THEN "announce" ELSE "complete")
    /\ UNCHANGED <<batch, job, ticket, to, hold, troubles>>

\* Refused (the agent left, the policy changed), unreachable, or sent and the
\* answer lost: all are a failed attempt.
Send(w) ==
    /\ pc[w] = "send"
    /\ \/ /\ \E m \in Message : Reply(job[w], m, to[w], hold[w])
          /\ Goto(w, IF hold[w] THEN "announce" ELSE "complete") \/ Goto(w, "fail")
       \/ UNCHANGED storeVars /\ Goto(w, "fail")
    /\ UNCHANGED <<batch, job, ticket, to, hold, troubles>>

\* The result of posting the notice is not looked at.
PostNotice(w) ==
    /\ pc[w] = "announce"
    /\ Announce(job[w]) \/ UNCHANGED storeVars
    /\ Goto(w, "complete")
    /\ UNCHANGED <<batch, job, ticket, to, hold, troubles>>

\* delivery_complete.  On an error, the lost answer of a completion included,
\* drain_one fails the row instead.
Complete(w) ==
    /\ pc[w] = "complete"
    /\ \/ /\ Holds(job[w], ticket[w])
          /\ Finish(job[w], "done", 0)
          /\ \/ Resolved(w)
             \/ Goto(w, "fail") /\ UNCHANGED <<batch, job, ticket, to, hold>>
       \/ /\ UNCHANGED storeVars
          /\ Goto(w, "fail")
          /\ UNCHANGED <<batch, job, ticket, to, hold>>
    /\ UNCHANGED troubles

\* delivery_fail, its result ignored: for good, or to be retried later
\* (no capacity) or at once (no runner on this host).
Fail(w) ==
    /\ pc[w] \in {"fail", "requeue", "handback"}
    /\ \/ /\ Holds(job[w], ticket[w])
          /\ Finish(job[w], IF pc[w] = "fail" THEN "failed" ELSE "pending",
                    IF pc[w] = "requeue" THEN RetryTime ELSE 0)
          /\ UNCHANGED troubles
       \/ ~Holds(job[w], ticket[w]) /\ UNCHANGED <<storeVars, troubles>>
       \/ UNCHANGED storeVars /\ Trouble
    /\ Resolved(w)

\* A worker dies and is started again; the store keeps what it claimed.
Crash(w) ==
    /\ pc[w] # "list"
    /\ Trouble
    /\ Goto(w, "list")
    /\ batch' = [batch EXCEPT ![w] = {}]
    /\ job' = [job EXCEPT ![w] = NoDelivery]
    /\ ticket' = [ticket EXCEPT ![w] = 0]
    /\ to' = [to EXCEPT ![w] = {}]
    /\ hold' = [hold EXCEPT ![w] = FALSE]
    /\ UNCHANGED storeVars

(***************************************************************************)
(* People and time.                                                        *)
(***************************************************************************)
Asked == {m \in Message : cause[m] = Person}

PersonAsks(m, A) ==
    /\ Cardinality(Asked) < MaxAsks
    /\ HumanSend(m, A)
    /\ UNCHANGED <<passVars, troubles>>

PersonCancels(d) == Cancel(d) /\ UNCHANGED <<passVars, troubles>>

PersonReleases(r) == ReleaseRoot(r) /\ UNCHANGED <<passVars, troubles>>

\* A lease that runs out under a worker that is still at its turn.
OutlivesLease(w) == pc[w] \in Working /\ Holds(job[w], ticket[w]) /\ lease[job[w]] = 1

Tick ==
    /\ \E d \in Delivery : lease[d] > 0 \/ retry[d] > 0
    /\ Elapse
    /\ IF \E w \in Worker : OutlivesLease(w) THEN Trouble ELSE UNCHANGED troubles
    /\ UNCHANGED passVars

Init ==
    /\ StoreInit
    /\ pc = [w \in Worker |-> "list"]
    /\ batch = [w \in Worker |-> {}]
    /\ job = [w \in Worker |-> NoDelivery]
    /\ ticket = [w \in Worker |-> 0]
    /\ to = [w \in Worker |-> {}]
    /\ hold = [w \in Worker |-> FALSE]
    /\ troubles = 0

Attempt(w) ==
    \/ Claim(w)
    \/ ClaimMissed(w)
    \/ TurnFails(w)
    \/ TurnSpeaks(w)
    \/ Gate(w)
    \/ Send(w)
    \/ PostNotice(w)
    \/ Complete(w)
    \/ Fail(w)

Drain(w) ==
    \/ \E a \in Agent : List(w, a)
    \/ \E d \in Delivery : Peek(w, d)
    \/ LeaveAgent(w)
    \/ Attempt(w)

People ==
    \/ \E m \in Message, A \in SUBSET Agent : PersonAsks(m, A)
    \/ \E d \in Delivery : PersonCancels(d)
    \/ \E r \in Message : PersonReleases(r)

Next ==
    \/ \E w \in Worker : Drain(w) \/ Crash(w)
    \/ People
    \/ Tick

Spec == Init /\ [][Next]_vars

\* A worker that runs takes its next step, every pass of drain_once lists each
\* agent it hosts, and time passes.  The number of troubles is finite, so no
\* attempt is started over for ever.
Fairness ==
    /\ WF_vars(Tick)
    /\ \A w \in Worker :
        /\ WF_vars(Drain(w))
        /\ \A a \in Hosts[w] : SF_vars(List(w, a))

FairSpec == Spec /\ Fairness

-----------------------------------------------------------------------------
(***************************************************************************)
(* Safety.                                                                 *)
(***************************************************************************)
\* Two workers may list the same rows and pass the same Peek: only the count
\* inside the claim keeps an agent within its limit of turns.
ActiveTurnsBounded == \A a \in Agent : Cardinality(Running(a)) <= MaxActive

\* A row that was reaped from a slow worker has two workers at it, with two
\* different generations, and no worker has a generation from the future.
TicketsDiffer ==
    /\ \A w \in Worker : pc[w] \in Working => ticket[w] <= gen[job[w]]
    /\ \A v, w \in Worker :
        v # w /\ pc[v] \in Working /\ pc[w] \in Working /\ job[v] = job[w] => ticket[v] # ticket[w]

\* A delivery that is done has its reply, and one that failed has its reply or
\* a notice that says so, across crashes and lost answers.
ResolvedIsVisible == \A d \in Delivery :
    /\ status[d] = "done" => d \in replied
    /\ status[d] = "failed" => d \in replied \cup notified

\* The two attempts at a reaped row send one reply; chains stay trees, no
\* deeper than the limit.
OneReplyPerDelivery == \A m \in Message : cause[m] \in Delivery =>
    LET d == cause[m] IN
    /\ d \in replied
    /\ \A n \in Message : cause[n] = d => n = m
    /\ root[m] = root[d[1]]
    /\ depth[m] = depth[d[1]] + 1

\* The depth limit of the chain holds for the rows, not only for the replies.
DepthBounded == \A d \in Delivery : status[d] # "none" => depth[d[1]] <= MaxDepth

(***************************************************************************)
(* What a step may never do.                                               *)
(***************************************************************************)
\* "a stale finish ... must not resolve it out from under that one": a running
\* row ends under its own generation, by its lease, or by being cancelled, and
\* a resolved row never changes again.
OnlyHolderResolves == [][\A d \in Delivery :
    /\ status[d] \in Terminal => status'[d] = status[d]
    /\ status[d] = "running" /\ status'[d] # "running" =>
        \/ status'[d] = "cancelled"
        \/ lease[d] = 0
        \/ \E w \in Worker : job[w] = d /\ ticket[w] = gen[d] /\ pc'[w] # pc[w]]_vars

\* A held delivery waits for a person: no worker, crash or deadline moves it.
HeldWaitsForPerson == [][\A d \in Delivery :
    status[d] = "held" /\ status'[d] # "held" =>
        /\ UNCHANGED <<passVars, lease, retry>>
        /\ status'[d] \in {"pending", "cancelled"}]_vars

\* Who decides about a row: its holder about a running one, a person about a
\* held one.
RowsHaveOwners == OnlyHolderResolves /\ HeldWaitsForPerson

\* types.rs: "Total deliveries allowed against one chain root before it pauses
\* for a person": a reply that takes its chain over the limit wakes nobody by
\* itself.  True while one worker serves the chain.
WakesWithinBudget == [][\A d \in Delivery :
    status[d] = "none" /\ status'[d] = "pending" /\ depth'[d[1]] > 0 =>
        Cardinality({e \in Delivery : status'[e] # "none" /\ root'[e[1]] = root'[d[1]]})
            <= MaxTurns]_vars

\* bots_deliveries_release_root: "the released chain gets another
\* max_turns_per_root worth of headroom above the turns already spent".
ReleaseGivesHeadroom == [][\A r \in Message :
    (\E d \in Delivery : root[d[1]] = r /\ status[d] = "held" /\ status'[d] = "pending")
        => ~MustHold(r, 1)']_vars

(***************************************************************************)
(* Liveness.                                                               *)
(***************************************************************************)
\* Every delivery that waits to be run is resolved or held in the end, though
\* its workers crash, lose answers and run out of time.
DeliveriesResolve == \A d \in Delivery :
    status[d] \in {"pending", "running"} ~> status[d] \in Terminal \cup {"held"}

\* "a held chain that nobody can see is indistinguishable from a broken one":
\* a held delivery gets its notice, unless a person acts first.
HoldsAreAnnounced == \A m \in Message, a \in Agent :
    status[<<m, a>>] = "held" ~> (status[<<m, a>>] # "held" \/ cause[m] \in announced)

(***************************************************************************)
(* The executor and the store keep what people are promised.               *)
(***************************************************************************)
Chains == INSTANCE BotsChains WITH
    open <- {d \in Delivery : status[d] \in {"pending", "running"}},
    held <- {d \in Delivery : status[d] = "held"},
    closed <- {d \in Delivery : status[d] \in Terminal}

KeepsPromises == Chains!Spec

=============================================================================
