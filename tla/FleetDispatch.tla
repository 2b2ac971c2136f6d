---------------------------- MODULE FleetDispatch ----------------------------
(***************************************************************************)
(* Dispatch and payment in the community hub: the functions of             *)
(* supabase/migrations that nodes, members and the housekeeping job call.  *)
(*                                                                         *)
(* Each function runs as one transaction that holds the row locks of the   *)
(* card, lease and account it changes, so each is one action.  A node acts *)
(* on what it last heard: a call for a card whose lease was reaped, sent   *)
(* back or taken over meanwhile arrives late and must be refused.          *)
(*                                                                         *)
(* Time is coarse: beat counts how old a heartbeat is (1: past the 90      *)
(* seconds of reap_stale_nodes, 2: past the 5 minutes of                   *)
(* reap_orphaned_leases) and life the ticks a lease still has (0: expired).*)
(***************************************************************************)
EXTENDS Naturals, FiniteSets, FiniteSetsExt

CONSTANTS
    Node, Card,
    None,          \* no node, no card
    Parent,        \* the card a card is spawned by, or None for a planned card
    Deps,          \* the cards a card waits for
    Rank,          \* priority and order_index: lower is tried first
    OwnNode,       \* the nodes of the project's owner
    Budgets,       \* bound: the limits an owner approves
    Costs,         \* bound: the charges a completion may ask for
    Purse,         \* bound: the honey the members hold at first
    TTL,           \* ticks a claim or a checkpoint gives a lease
    MaxCrashes     \* bound: nodes that die

FleetAssumption ==
    /\ IsFiniteSet(Node) /\ IsFiniteSet(Card) /\ None \notin Node \cup Card
    /\ Parent \in [Card -> Card \cup {None}] /\ Deps \in [Card -> SUBSET Card]
    /\ \A c \in Card : Parent[c] # None => Parent[Parent[c]] = None
    /\ Rank \in [Card -> Nat] /\ OwnNode \subseteq Node
    /\ Budgets \subseteq Nat \ {0} /\ Costs \subseteq Nat
    /\ Purse \in Nat /\ TTL \in Nat \ {0} /\ MaxCrashes \in Nat

VARIABLES
    presence, beat,     \* hive.nodes
    status,             \* hive.cards.status, "absent" before a card is spawned
    lease, life,        \* hive.leases: the node, and the ticks until expires_at
    shared,             \* hive.projects.execution_mode = 'hive'
    budget, approved,   \* hive.compute_card_budgets: the limit, and whether its input
                        \* hash is that of the card as it now is
    hold,               \* hive.speech_reservations of the card
    spent,              \* the ledger's spend_job entries of the card
    fund, purse, wallet,\* balances: project fund, members, nodes
    down                \* nodes that died

nodes == <<presence, beat, down>>
board == <<status, lease, life>>
money == <<budget, approved, hold, spent, fund, purse, wallet>>
vars == <<nodes, board, shared, money>>

Presence == {"checked_out", "checked_in", "draining"}
Status == {"absent", "suggested", "ready", "running", "waiting_on_child", "review", "done", "blocked"}
Finished == {"review", "done"}

TypeOK ==
    /\ presence \in [Node -> Presence] /\ beat \in [Node -> 0 .. 2] /\ down \subseteq Node
    /\ status \in [Card -> Status]
    /\ lease \in [Card -> Node \cup {None}] /\ life \in [Card -> 0 .. TTL]
    /\ shared \in BOOLEAN
    /\ budget \in [Card -> Budgets \cup {0}] /\ approved \in [Card -> BOOLEAN]
    /\ hold \in [Card -> Nat] /\ spent \in [Card -> Nat]
    /\ fund \in Nat /\ purse \in Nat /\ wallet \in [Node -> Nat]

Init ==
    /\ presence = [n \in Node |-> "checked_out"] /\ beat = [n \in Node |-> 2] /\ down = {}
    /\ status = [c \in Card |-> IF Parent[c] = None THEN "suggested" ELSE "absent"]
    /\ lease = [c \in Card |-> None] /\ life = [c \in Card |-> 0]
    /\ shared \in BOOLEAN
    /\ budget = [c \in Card |-> 0] /\ approved = [c \in Card |-> FALSE]
    /\ hold = [c \in Card |-> 0] /\ spent = [c \in Card |-> 0]
    /\ fund = 0 /\ purse = Purse /\ wallet = [n \in Node |-> 0]

Children(c) == {k \in Card : Parent[k] = c /\ status[k] # "absent"}
Remaining(c) == IF budget[c] > spent[c] THEN budget[c] - spent[c] ELSE 0
Holds == MapThenSumSet(LAMBDA c : hold[c], Card)
Leased(n) == \E c \in Card : lease[c] = n

\* card_has_funded_budget: the fund must cover the card beside everything reserved
Covered(c) == approved[c] /\ Remaining(c) > 0 /\ fund >= Holds + Remaining(c)

Claimable(c, n) ==
    /\ status[c] = "ready" /\ lease[c] = None
    /\ \A d \in Deps[c] : status[d] \in Finished
    /\ IF shared THEN Covered(c) ELSE n \in OwnNode

\* cascade_child_status: what the change of c to s does to a parent that waits
Cascade(c, s) ==
    LET p == Parent[c] IN
    [k \in Card |->
        IF k = c THEN s
        ELSE IF k # p \/ p = None \/ status[p] # "waiting_on_child" \/ s = status[c] THEN status[k]
        ELSE IF s \in Finished /\ \A b \in Children(p) \ {c} : status[b] \in Finished THEN "ready"
        ELSE IF s = "blocked" THEN "blocked" ELSE status[k]]

\* deleting a lease releases what was reserved for it (release_speech_reservation)
Unlease(S) ==
    /\ lease' = [c \in Card |-> IF c \in S THEN None ELSE lease[c]]
    /\ life' = [c \in Card |-> IF c \in S THEN 0 ELSE life[c]]
    /\ hold' = [c \in Card |-> IF c \in S THEN 0 ELSE hold[c]]

----------------------------------------------------------------------------
(* What a node calls.                                                      *)

CheckIn(n) ==
    /\ presence' = [presence EXCEPT ![n] = "checked_in"]
    /\ beat' = [beat EXCEPT ![n] = 0]
    /\ UNCHANGED <<down, board, shared, money>>

\* a heartbeat counts towards availability only while checked in
Heartbeat(n) ==
    /\ presence[n] = "checked_in"
    /\ beat' = [beat EXCEPT ![n] = 0]
    /\ UNCHANGED <<presence, down, board, shared, money>>

CheckOut(n) ==
    /\ presence' = [presence EXCEPT ![n] = IF Leased(n) THEN "draining" ELSE "checked_out"]
    /\ beat' = [beat EXCEPT ![n] = 0]
    /\ UNCHANGED <<down, board, shared, money>>

\* the first card that fits is leased, and in a shared project its budget reserved
Claim(n) ==
    /\ presence[n] = "checked_in" /\ ~ Leased(n)
    /\ \E c \in Card :
          /\ Claimable(c, n)
          /\ \A d \in Card : Claimable(d, n) => Rank[c] <= Rank[d]
          /\ lease' = [lease EXCEPT ![c] = n]
          /\ life' = [life EXCEPT ![c] = TTL]
          /\ status' = Cascade(c, "running")
          /\ hold' = [hold EXCEPT ![c] = IF shared THEN Remaining(c) ELSE 0]
    /\ UNCHANGED <<nodes, shared, budget, approved, spent, fund, purse, wallet>>

Checkpoint(n, c) ==
    /\ lease[c] = n
    /\ life' = [life EXCEPT ![c] = TTL]
    /\ UNCHANGED <<nodes, status, lease, shared, money>>

\* paid out of what was reserved for this card and never more than is left of its limit

CompleteUnlimited(n, c) ==
    /\ lease[c] = n /\ shared /\ approved[c] /\ life[c] > 0
    /\ \E amount \in {a \in Costs : a <= fund} :
          /\ spent' = [spent EXCEPT ![c] = @ + amount]
          /\ fund' = fund - amount
          /\ wallet' = [wallet EXCEPT ![n] = @ + amount]
    /\ Unlease({c})
    /\ status' = Cascade(c, "review")
    /\ UNCHANGED <<nodes, shared, budget, approved, purse>>

Complete(n, c) ==
    /\ lease[c] = n
    /\ \/ ~ shared /\ UNCHANGED <<spent, fund, wallet>>
       \/ /\ shared /\ approved[c] /\ life[c] > 0
          /\ hold[c] = Remaining(c)
          /\ \E amount \in {a \in Costs : a <= Remaining(c)} :
                /\ spent' = [spent EXCEPT ![c] = @ + amount]
                /\ fund' = fund - amount
                /\ wallet' = [wallet EXCEPT ![n] = @ + amount]
    /\ Unlease({c})
    /\ status' = Cascade(c, "review")
    /\ UNCHANGED <<nodes, shared, budget, approved, purse>>

Fail(n, c) ==
    /\ lease[c] = n
    /\ Unlease({c})
    /\ status' = Cascade(c, "blocked")
    /\ UNCHANGED <<nodes, shared, budget, approved, spent, fund, purse, wallet>>

Release(n, c) ==
    /\ lease[c] = n
    /\ Unlease({c})
    /\ status' = IF status[c] = "running" THEN Cascade(c, "ready") ELSE status
    /\ UNCHANGED <<nodes, shared, budget, approved, spent, fund, purse, wallet>>

SpawnChild(n, c, k) ==
    /\ lease[c] = n
    /\ Parent[k] = c /\ status[k] = "absent"
    /\ status' = [status EXCEPT ![k] = "ready"]
    /\ UNCHANGED <<nodes, lease, life, shared, money>>

\* the lease is given up for a child; the child's own state is not looked at
WaitOnChild(n, c, k) ==
    /\ lease[c] = n
    /\ k \in Children(c)
    /\ Unlease({c})
    /\ status' = Cascade(c, "waiting_on_child")
    /\ UNCHANGED <<nodes, shared, budget, approved, spent, fund, purse, wallet>>

----------------------------------------------------------------------------
(* What members do.                                                        *)

Accept(c) ==
    /\ status[c] \in {"review", "running", "blocked"}
    /\ status' = Cascade(c, "done")
    /\ UNCHANGED <<nodes, lease, life, shared, money>>

\* a reviewer's note changes the inputs, so the budget no longer matches them
SendBack(c) ==
    /\ status[c] # "absent"
    /\ Unlease({c})
    /\ status' = Cascade(c, "ready")
    /\ \E note \in BOOLEAN :
          approved' = [approved EXCEPT ![c] = @ /\ ~ note]
    /\ UNCHANGED <<nodes, shared, budget, spent, fund, purse, wallet>>

Promote(c) ==
    /\ status[c] = "suggested"
    /\ status' = Cascade(c, "ready")
    /\ UNCHANGED <<nodes, lease, life, shared, money>>

MemberCheckOut(n) ==
    /\ presence' = [presence EXCEPT ![n] = IF Leased(n) THEN "draining" ELSE "checked_out"]
    /\ UNCHANGED <<beat, down, board, shared, money>>

SetExecutionMode ==
    /\ shared' = ~ shared
    /\ UNCHANGED <<nodes, board, money>>

Fund ==
    /\ \E amount \in 1 .. purse : purse' = purse - amount /\ fund' = fund + amount
    /\ UNCHANGED <<nodes, board, shared, budget, approved, hold, spent, wallet>>

\* hive_compute_budget_approve the first time, hive_compute_budget_replace afterwards;
\* never while the card is leased
Approve(c) ==
    /\ shared
    /\ status[c] \in {"suggested", "ready", "blocked"} /\ lease[c] = None /\ hold[c] = 0
    /\ \E limit \in Budgets :
          /\ budget[c] = 0 \/ limit > spent[c]
          /\ budget' = [budget EXCEPT ![c] = limit]
    /\ approved' = [approved EXCEPT ![c] = TRUE]
    /\ UNCHANGED <<nodes, board, shared, hold, spent, fund, purse, wallet>>

----------------------------------------------------------------------------
(* The clock, the housekeeping job and crashes.                            *)

Tick ==
    /\ beat' = [n \in Node |-> IF beat[n] < 2 THEN beat[n] + 1 ELSE 2]
    /\ life' = [c \in Card |-> IF life[c] > 0 THEN life[c] - 1 ELSE 0]
    /\ UNCHANGED <<presence, down, status, lease, shared, money>>

Expired == {c \in Card : lease[c] # None /\ life[c] = 0}
Orphaned ==
    {c \in Card : lease[c] # None
        /\ presence[lease[c]] \notin {"checked_in", "draining"} /\ beat[lease[c]] = 2}

\* expired leases, then orphaned ones, then nodes that went quiet
Housekeeping ==
    LET gone == Expired \cup Orphaned IN
    /\ Unlease(gone)
    /\ status' = [c \in Card |-> IF c \in gone /\ status[c] = "running" THEN "ready" ELSE status[c]]
    /\ presence' = [n \in Node |-> IF presence[n] = "checked_in" /\ beat[n] > 0
                                      THEN "checked_out" ELSE presence[n]]
    /\ UNCHANGED <<beat, down, shared, budget, approved, spent, fund, purse, wallet>>

Crash(n) ==
    /\ Cardinality(down) < MaxCrashes
    /\ down' = down \cup {n}
    /\ UNCHANGED <<presence, beat, board, shared, money>>

Calls(n) ==
    /\ n \notin down
    /\ \/ CheckIn(n) \/ Heartbeat(n) \/ CheckOut(n) \/ Claim(n)
       \/ \E c \in Card :
             \/ Checkpoint(n, c) \/ Complete(n, c) \/ Fail(n, c) \/ Release(n, c)
             \/ \E k \in Card : SpawnChild(n, c, k) \/ WaitOnChild(n, c, k)

Members ==
    \/ \E c \in Card : Accept(c) \/ SendBack(c) \/ Promote(c) \/ Approve(c)
    \/ \E n \in Node : MemberCheckOut(n)
    \/ SetExecutionMode \/ Fund

Next ==
    \/ \E n \in Node : Calls(n) \/ Crash(n)
    \/ Members \/ Tick \/ Housekeeping

Spec == Init /\ [][Next]_vars
FairSpec == Spec /\ WF_vars(Tick) /\ WF_vars(Housekeeping)

----------------------------------------------------------------------------
(***************************************************************************)
(* Properties.                                                             *)
(***************************************************************************)

\* A card is never left running with nobody holding it: whatever takes its lease away
\* (completion, failure, release, waiting, a reviewer, the reapers) also moves the card.
RunningIsLeased == \A c \in Card : status[c] = "running" => lease[c] # None

\* Honey is reserved exactly while a lease lasts, no more than the card has left of its
\* limit, and the fund always covers everything reserved.
ReservedWhileLeased ==
    /\ \A c \in Card : hold[c] > 0 => lease[c] # None /\ hold[c] = Remaining(c)
    /\ fund >= Holds

\* However often a card is taken up again after a crash, an expiry or a review, it never
\* costs its payer more than the limit approved for it.
WithinLimit == \A c \in Card : spent[c] <= budget[c]

\* No honey appears or disappears: what the members put in is in the fund or was earned.
HoneyConserved ==
    fund + purse + MapThenSumSet(LAMBDA n : wallet[n], Node) = Purse

\* A node is paid for at most one delivery per lease, only while the lease is its own
\* and not after its time ran out.
PaidForOwnLease ==
    \A n \in Node : wallet'[n] > wallet[n] =>
        \E c \in Card : lease[c] = n /\ life[c] > 0 /\ lease'[c] = None

\* A card held by a node that died is taken from it, even when nobody asks for it back.
DeadNodesLoseCards ==
    \A c \in Card : (lease[c] \in down) ~> (lease[c] \notin down)

\* (Claimed by the migration that introduced waiting.)  A parent waits only while one of
\* its children is still to finish or fail.
ParentsWaitForSomeone ==
    \A c \in Card : status[c] = "waiting_on_child" =>
        \E k \in Children(c) : status[k] \notin Finished \cup {"blocked"}

\* Every reserved, spent and paid amount is accounted for, through crashes, expiries and reviews.
Balanced == RunningIsLeased /\ ReservedWhileLeased /\ WithinLimit /\ HoneyConserved

\* That, in every step that touches a card or an account, and nobody is paid for a card that is not theirs.
MoneyStep == Balanced' /\ PaidForOwnLease
MoneySafe == [][MoneyStep]_vars
=============================================================================
