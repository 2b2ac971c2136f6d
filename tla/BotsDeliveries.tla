--------------------------- MODULE BotsDeliveries ---------------------------
(***************************************************************************)
(* The deliveries of a conversation with agents: the store half of Bots    *)
(* (local_hub/bots.rs).  A message that names agents gets one row for each *)
(* of them, and the row is the unit of work: pending, claimed for a turn,  *)
(* and resolved under the generation of the claim.                         *)
(*                                                                         *)
(* Every operation is one transaction of the hub's store, so each is one   *)
(* action here, whoever calls it.  BotsExecutor composes them with the     *)
(* processes that drain the rows.                                          *)
(*                                                                         *)
(* Only messages that wake an agent have an identity here: a reply that    *)
(* wakes nobody is its client_request_id, a member of replied.  Deadlines  *)
(* are kept as the time left before them.                                  *)
(***************************************************************************)
EXTENDS Integers, FiniteSets

CONSTANTS
    Agent,
    Message,    \* identities of the messages that wake somebody
    MaxActive,  \* HandoffBudgets.max_active_turns_per_agent
    LeaseTime,  \* DELIVERY_LEASE_SECS
    RetryTime,  \* NO_CAPACITY_RETRY_SECONDS
    Person,     \* the cause of a message a person sent
    Unsent      \* the cause of a message that does not exist yet

Delivery == Message \X Agent

ASSUME DeliveriesAssumption ==
    /\ IsFiniteSet(Message)
    /\ IsFiniteSet(Agent)
    /\ MaxActive \in Nat
    /\ LeaseTime \in Nat \ {0}
    /\ RetryTime \in Nat
    /\ Person \notin Delivery
    /\ Unsent \notin Delivery
    /\ Person # Unsent

VARIABLES
    cause,      \* the delivery a message answers (cause_message_id and its author)
    root,       \* agent_deliveries.root_message_id of the rows of a message
    depth,      \* agent_deliveries.turn_depth of the rows of a message
    replied,    \* deliveries whose reply exists ("delivery:message:recipient")
    announced,  \* deliveries whose reply has its hold notice ("notice:...")
    notified,   \* deliveries with a failure notice ("failed:...")
    status,     \* agent_deliveries.status, "none" while there is no row
    gen,        \* agent_deliveries.lease_generation
    lease,      \* lease_deadline - now, 0 once it has passed or is NULL
    retry       \* retry_deadline - now, 0 once it has passed or is NULL

chainVars == <<cause, root, depth>>
noteVars == <<replied, announced, notified>>
rowVars == <<status, gen, lease, retry>>
storeVars == <<cause, root, depth, replied, announced, notified, status, gen, lease, retry>>

Terminal == {"done", "failed", "cancelled"}

DeliveryStatus == {"none", "pending", "held", "running"} \cup Terminal

StoreTypeOK ==
    /\ cause \in [Message -> Delivery \cup {Person, Unsent}]
    /\ root \in [Message -> Message]
    /\ depth \in [Message -> Nat]
    /\ replied \in SUBSET Delivery
    /\ announced \in SUBSET Delivery
    /\ notified \in SUBSET Delivery
    /\ status \in [Delivery -> DeliveryStatus]
    /\ gen \in [Delivery -> Nat]
    /\ lease \in [Delivery -> 0..LeaseTime]
    /\ retry \in [Delivery -> 0..RetryTime]

(***************************************************************************)
(* What the store is asked.                                                *)
(***************************************************************************)
\* bots_active_turns_for_agent.
Running(a) == {d \in Delivery : d[2] = a /\ status[d] = "running"}

\* bots_turns_for_root counts every row of the chain, resolved and held too.
ChainRows(r) == {d \in Delivery : status[d] # "none" /\ root[d[1]] = r}

Lapsed(a) == {d \in Running(a) : lease[d] = 0}

\* The rows bots_deliveries_pending_for_agent lists, after it has requeued the
\* rows whose lease has passed.
Claimable(a) == {d \in Delivery : d[2] = a /\ (status[d] = "pending" \/ d \in Lapsed(a)) /\ retry[d] = 0}

(***************************************************************************)
(* bots_message_send_with_cause.                                           *)
(***************************************************************************)
Post(m, A, by, r, k, v) ==
    /\ cause[m] = Unsent
    /\ cause' = [cause EXCEPT ![m] = by]
    /\ root' = [root EXCEPT ![m] = r]
    /\ depth' = [depth EXCEPT ![m] = k]
    /\ status' = [d \in Delivery |-> IF d \in {m} \X A THEN v ELSE status[d]]
    /\ UNCHANGED <<gen, lease, retry>>

\* A person's message starts a chain, and no budget is asked.
HumanSend(m, A) ==
    /\ A # {}
    /\ Post(m, A, Person, m, 0, "pending")
    /\ UNCHANGED noteVars

\* Mutant: the depth of the delivery is handed on as it is.
ReplySameDepth(d, m, A, hold) ==
    /\ replied' = replied \cup {d}
    /\ UNCHANGED <<announced, notified>>
    /\ IF d \in replied \/ A = {}
       THEN UNCHANGED <<chainVars, rowVars>>
       ELSE Post(m, A, d, root[d[1]], depth[d[1]], IF hold THEN "held" ELSE "pending")

\* The reply to a delivery, with the rows of the agents it wakes.  The same
\* client_request_id a second time only returns the message that exists.
Reply(d, m, A, hold) ==
    /\ replied' = replied \cup {d}
    /\ UNCHANGED <<announced, notified>>
    /\ IF d \in replied \/ A = {}
       THEN UNCHANGED <<chainVars, rowVars>>
       ELSE Post(m, A, d, root[d[1]], depth[d[1]] + 1, IF hold THEN "held" ELSE "pending")

\* The system message that says that a reply is held.
Announce(d) ==
    /\ announced' = announced \cup {d}
    /\ UNCHANGED <<chainVars, rowVars, replied, notified>>

(***************************************************************************)
(* The life of a row.                                                      *)
(***************************************************************************)
\* bots_delivery_cancel, by the author of the message or the recipient.
Cancel(d) ==
    /\ status[d] \notin Terminal \cup {"none"}
    /\ status' = [status EXCEPT ![d] = "cancelled"]
    /\ gen' = [gen EXCEPT ![d] = @ + 1]
    /\ UNCHANGED <<chainVars, noteVars, lease, retry>>

\* bots_deliveries_release_root.
ReleaseRoot(r) ==
    /\ status' = [d \in Delivery |->
         IF status[d] = "held" /\ root[d[1]] = r THEN "pending" ELSE status[d]]
    /\ UNCHANGED <<chainVars, noteVars, gen, lease, retry>>

\* The first half of bots_deliveries_pending_for_agent: a row whose worker
\* never came back is pending again, under a new generation.
Reap(a) ==
    /\ status' = [d \in Delivery |-> IF d \in Lapsed(a) THEN "pending" ELSE status[d]]
    /\ gen' = [d \in Delivery |-> IF d \in Lapsed(a) THEN gen[d] + 1 ELSE gen[d]]
    /\ UNCHANGED <<chainVars, noteVars, lease, retry>>

\* bots_delivery_claim_within_budget: the budget is counted in the same UPDATE.
CanClaim(d) ==
    /\ status[d] = "pending"
    /\ retry[d] = 0
    /\ Cardinality(Running(d[2])) < MaxActive

ClaimWithinBudget(d) ==
    /\ CanClaim(d)
    /\ status' = [status EXCEPT ![d] = "running"]
    /\ gen' = [gen EXCEPT ![d] = @ + 1]
    /\ lease' = [lease EXCEPT ![d] = LeaseTime]
    /\ UNCHANGED <<chainVars, noteVars, retry>>

\* Mutant: any generation may finish a running row.
HoldsUnfenced(d, g) == status[d] = "running"

\* bots_delivery_finish changes a row only under the generation of its claim.
Holds(d, g) == status[d] = "running" /\ gen[d] = g

\* bots_delivery_complete, and bots_delivery_fail with a time to retry at.
Finish(d, v, delay) ==
    /\ status' = [status EXCEPT ![d] = v]
    /\ retry' = [retry EXCEPT ![d] = delay]
    /\ lease' = [lease EXCEPT ![d] = 0]
    /\ notified' = IF v = "failed" /\ d \notin replied THEN notified \cup {d} ELSE notified
    /\ UNCHANGED <<chainVars, replied, announced, gen>>

Elapse ==
    /\ lease' = [d \in Delivery |-> IF lease[d] > 0 THEN lease[d] - 1 ELSE 0]
    /\ retry' = [d \in Delivery |-> IF retry[d] > 0 THEN retry[d] - 1 ELSE 0]
    /\ UNCHANGED <<chainVars, noteVars, status, gen>>

StoreInit ==
    /\ cause = [m \in Message |-> Unsent]
    /\ root = [m \in Message |-> m]
    /\ depth = [m \in Message |-> 0]
    /\ replied = {}
    /\ announced = {}
    /\ notified = {}
    /\ status = [d \in Delivery |-> "none"]
    /\ gen = [d \in Delivery |-> 0]
    /\ lease = [d \in Delivery |-> 0]
    /\ retry = [d \in Delivery |-> 0]

=============================================================================
