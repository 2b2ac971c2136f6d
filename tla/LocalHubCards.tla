--------------------------- MODULE LocalHubCards ---------------------------
(***************************************************************************)
(* The card queue of a local hub: local_hub/mod.rs of ohhive-core.         *)
(*                                                                         *)
(* Every operation of the hub is one BEGIN IMMEDIATE transaction of        *)
(* SQLite, so one action here is one call, whole: the authentication of    *)
(* the node key, the settling of expired leases where the call settles,    *)
(* and the rows it writes.  A caller is a *session* (one connection of one *)
(* worker process); a node may have several, one after a crash of another. *)
(* Any live session may make any call at any time, which covers a worker   *)
(* that retries, that comes back after its lease ran out, or that never    *)
(* calls again.                                                            *)
(*                                                                         *)
(* Wall-clock deadlines are kept as the time left before them.             *)
(***************************************************************************)
EXTENDS Integers, FiniteSets

CONSTANTS
    Card,        \* identities a card may get (cards.id)
    Session,     \* worker sessions (LocalHub.session)
    Node,        \* enrolled computers (nodes.id)
    NodeOf,      \* the node whose key a session presents
    Code,        \* the cards whose modality is "code"
    Eligible,    \* <<node, card>>: capabilities, target node and MCP server match
    Scope,       \* the cards a session may claim (claim_scope; all cards if None)
    DeclaredDeps,\* the dependencies a card is added with
    Ttl,         \* the lease length of a card, in ticks (14400 or 900 seconds)
    Content,     \* results a worker may report
    MaxStep,     \* the last checkpoint step
    NoSession,   \* a card nobody leases
    NoOutput     \* a card without a row in card_outputs

ASSUME CardsAssumption ==
    /\ IsFiniteSet(Card)
    /\ NodeOf \in [Session -> Node]
    /\ Code \subseteq Card
    /\ Eligible \subseteq Node \X Card
    /\ Scope \in [Session -> SUBSET Card]
    /\ DeclaredDeps \in [Card -> SUBSET Card]
    /\ Ttl \in [Card -> Nat \ {0}]
    /\ MaxStep \in Nat
    /\ NoSession \notin Session
    /\ NoOutput \notin [session : Session, content : Content]

VARIABLES
    status,      \* cards.status (and the reasons that are read back, see Parked)
    row,         \* the rowid of the card, 0 before it is inserted
    deps,        \* the cards whose output must exist before a claim (data.deps)
    link,        \* child_links: <<parent, child>>
    holder,      \* leases.session, NoSession when the card has no lease row
    left,        \* leases.expires - now, never below 0
    output,      \* card_outputs
    checkpoint,  \* checkpoints.step, 0 when there is no row
    checkedIn,   \* nodes.checked_in
    revoked      \* local_node_keys.revoked

cardVars == <<status, row, deps, link, holder, left, output, checkpoint, checkedIn, revoked>>
leaseVars == <<holder, left>>
boardVars == <<row, deps, link, output, checkpoint, checkedIn, revoked>>

(***************************************************************************)
(* Types.  The column reason is text for people, except for the values the *)
(* private-run code compares it with: a blocked card with one of these is  *)
(* kept apart as a status of its own.  'done' is never written by a hub.   *)
(***************************************************************************)
Parked == {"awaiting_preparation", "awaiting_private_run", "awaiting_retry_validation"}

Status == {"absent", "ready", "running", "waiting_on_child", "blocked", "review"} \cup Parked

Output == [session : Session, content : Content]

CardsTypeOK ==
    /\ status \in [Card -> Status]
    /\ row \in [Card -> Nat]
    /\ deps \in [Card -> SUBSET Card]
    /\ link \in SUBSET (Card \X Card)
    /\ holder \in [Card -> Session \cup {NoSession}]
    /\ left \in [Card -> Nat]
    /\ \A c \in Card : left[c] <= Ttl[c]
    /\ output \in [Card -> Output \cup {NoOutput}]
    /\ checkpoint \in [Card -> 0..MaxStep]
    /\ checkedIn \in [Node -> BOOLEAN]
    /\ revoked \in [Node -> BOOLEAN]

(***************************************************************************)
(* State formulae.                                                         *)
(***************************************************************************)
Live(s) == ~revoked[NodeOf[s]]

Owns(s, c) == holder[c] = s /\ left[c] > 0

HoldsAny(n, h) == \E c \in Card : h[c] # NoSession /\ NodeOf[h[c]] = n

Children(p) == {c \in Card : <<p, c>> \in link}

NextRow == 1 + Cardinality({c \in Card : status[c] # "absent"})

Expired(c) == holder[c] # NoSession /\ left[c] = 0

(***************************************************************************)
(* settle(): an expired lease blocks a code card and requeues any other;   *)
(* then a parent that waits is blocked with a blocked child, at any depth  *)
(* (the loop of the code, as the least set closed under it), or ready once *)
(* every child is finished.                                                *)
(***************************************************************************)
\* Mutant: every expired lease requeues its card.
ReapedForReplay == [c \in Card |-> IF Expired(c) THEN "ready" ELSE status[c]]

Reaped == [c \in Card |->
    IF Expired(c) THEN (IF c \in Code THEN "blocked" ELSE "ready") ELSE status[c]]

IsBlocked(v) == v = "blocked" \/ v \in Parked

Waiting(st) == {c \in Card : st[c] = "waiting_on_child"}

ClosedUnderBlocking(st, D) == \A p \in Waiting(st) :
    (\E c \in Children(p) : IsBlocked(st[c]) \/ c \in D) => p \in D

\* Mutant: one pass over the parents instead of the loop.
DoomedByChildren(st) == {p \in Waiting(st) : \E c \in Children(p) : IsBlocked(st[c])}

Doomed(st) == {p \in Waiting(st) :
    \A D \in SUBSET Waiting(st) : ClosedUnderBlocking(st, D) => p \in D}

SettleParents(st) == [c \in Card |->
    IF st[c] # "waiting_on_child" THEN st[c]
    ELSE IF c \in Doomed(st) THEN "blocked"
    ELSE IF \A k \in Children(c) : st[k] = "review" THEN "ready"
    ELSE st[c]]

Settled == SettleParents(Reaped)

SettledHolder == [c \in Card |-> IF Expired(c) THEN NoSession ELSE holder[c]]

(***************************************************************************)
(* settle() at the end of a call that gave the card c the status v and     *)
(* dropped its lease.                                                      *)
(***************************************************************************)
GiveUp(c, v) ==
    /\ status' = SettleParents([Reaped EXCEPT ![c] = v])
    /\ holder' = [SettledHolder EXCEPT ![c] = NoSession]
    /\ left' = [left EXCEPT ![c] = 0]

Settle ==
    /\ status' = Settled
    /\ holder' = SettledHolder
    /\ left' = left
(***************************************************************************)
(* Actions: the owner's and the nodes'.                                    *)
(***************************************************************************)
Insert(c, d) ==
    /\ status[c] = "absent"
    /\ status' = [status EXCEPT ![c] = "ready"]
    /\ row' = [row EXCEPT ![c] = NextRow]
    /\ deps' = [deps EXCEPT ![c] = d]

AddCard(c) ==
    /\ Insert(c, DeclaredDeps[c])
    /\ UNCHANGED <<link, leaseVars, output, checkpoint, checkedIn, revoked>>

Revoke(n) ==
    /\ revoked' = [revoked EXCEPT ![n] = TRUE]
    /\ UNCHANGED <<status, leaseVars, row, deps, link, output, checkpoint, checkedIn>>

CheckIn(s) ==
    /\ Live(s)
    /\ checkedIn' = [checkedIn EXCEPT ![NodeOf[s]] = TRUE]
    /\ UNCHANGED <<status, leaseVars, row, deps, link, output, checkpoint, revoked>>

\* A node that checks out drains: what it leases stays leased.
CheckOut(s) ==
    /\ Live(s)
    /\ checkedIn' = [checkedIn EXCEPT ![NodeOf[s]] = FALSE]
    /\ UNCHANGED <<status, leaseVars, row, deps, link, output, checkpoint, revoked>>

\* Mutant: renews before it settles, so an expired lease comes back.
HeartbeatRenewsFirst(s) ==
    /\ Live(s)
    /\ left' = [c \in Card |-> IF holder[c] = s THEN Ttl[c] ELSE left[c]]
    /\ UNCHANGED <<status, holder, boardVars>>

\* Settles first, so that a lease that ran out is never renewed.
Heartbeat(s) ==
    /\ Live(s)
    /\ status' = Settled
    /\ holder' = SettledHolder
    /\ left' = [c \in Card |-> IF SettledHolder[c] = s THEN Ttl[c] ELSE left[c]]
    /\ UNCHANGED boardVars

(***************************************************************************)
(* claim_card: settle, then lease the oldest ready card this session can   *)
(* run and whose dependencies all have an output.                          *)
(***************************************************************************)
Finished(d, st) == st[d] = "review" /\ output[d] # NoOutput

Candidates(s, Allowed) == {c \in Allowed \cap Scope[s] :
    /\ Settled[c] = "ready"
    /\ <<NodeOf[s], c>> \in Eligible
    /\ \A d \in deps[c] : Finished(d, Settled)}

MayClaim(s) ==
    /\ Live(s)
    /\ checkedIn[NodeOf[s]]
    /\ ~HoldsAny(NodeOf[s], SettledHolder)

ClaimCardFrom(s, c, Allowed) ==
    /\ MayClaim(s)
    /\ c \in Candidates(s, Allowed)
    /\ \A d \in Candidates(s, Allowed) : row[c] <= row[d]
    /\ status' = [Settled EXCEPT ![c] = "running"]
    /\ holder' = [SettledHolder EXCEPT ![c] = s]
    /\ left' = [left EXCEPT ![c] = Ttl[c]]
    /\ UNCHANGED boardVars

\* NotCheckedIn, AlreadyLeased and NothingToDo commit what settle() did.
ClaimNothingFrom(s, Allowed) ==
    /\ Live(s)
    /\ ~MayClaim(s) \/ Candidates(s, Allowed) = {}
    /\ Settle
    /\ UNCHANGED boardVars

ClaimCard(s, c) == ClaimCardFrom(s, c, Card)
ClaimNothing(s) == ClaimNothingFrom(s, Card)

(***************************************************************************)
(* The outcomes of an attempt.                                             *)
(***************************************************************************)

\* A repeated identical completion is accepted and changes nothing; any other
\* is a "completion conflict".
CompleteCard(s, c, r) ==
    /\ Live(s)
    /\ output[c] = NoOutput
    /\ Owns(s, c)
    /\ output' = [output EXCEPT ![c] = [session |-> s, content |-> r]]
    /\ GiveUp(c, "review")
    /\ UNCHANGED <<row, deps, link, checkpoint, checkedIn, revoked>>

CompleteAgain(s, c, r) ==
    /\ Live(s)
    /\ output[c] = [session |-> s, content |-> r]
    /\ UNCHANGED cardVars

Checkpoint(s, c, step) ==
    /\ Live(s)
    /\ Owns(s, c)
    /\ checkpoint' = [checkpoint EXCEPT ![c] = IF step >= @ THEN step ELSE @]
    /\ left' = [left EXCEPT ![c] = Ttl[c]]
    /\ UNCHANGED <<status, holder, row, deps, link, output, checkedIn, revoked>>

FailCard(s, c) ==
    /\ Live(s)
    /\ Owns(s, c)
    /\ GiveUp(c, "blocked")
    /\ UNCHANGED boardVars

ReleaseCard(s, c) ==
    /\ Live(s)
    /\ Owns(s, c)
    /\ GiveUp(c, IF c \in Code THEN "blocked" ELSE "ready")
    /\ UNCHANGED boardVars

\* A child gets no dependencies.  Spawning an existing child of this parent
\* again returns it; any other existing key is refused.
SpawnChild(s, p, c) ==
    /\ Live(s)
    /\ Owns(s, p)
    /\ Insert(c, {})
    /\ link' = link \cup {<<p, c>>}
    /\ UNCHANGED <<leaseVars, output, checkpoint, checkedIn, revoked>>

WaitOnChild(s, p, c) ==
    /\ Live(s)
    /\ Owns(s, p)
    /\ <<p, c>> \in link
    /\ deps' = [deps EXCEPT ![p] = @ \cup {c}]
    /\ GiveUp(p, "waiting_on_child")
    /\ UNCHANGED <<row, link, output, checkpoint, checkedIn, revoked>>

\* A second passes: every deadline comes closer.
Tick ==
    /\ \E c \in Card : left[c] > 0
    /\ left' = [c \in Card |-> IF left[c] > 0 THEN left[c] - 1 ELSE 0]
    /\ UNCHANGED <<status, holder, boardVars>>

Init ==
    /\ status = [c \in Card |-> "absent"]
    /\ row = [c \in Card |-> 0]
    /\ deps = [c \in Card |-> {}]
    /\ link = {}
    /\ holder = [c \in Card |-> NoSession]
    /\ left = [c \in Card |-> 0]
    /\ output = [c \in Card |-> NoOutput]
    /\ checkpoint = [c \in Card |-> 0]
    /\ checkedIn = [n \in Node |-> FALSE]
    /\ revoked = [n \in Node |-> FALSE]

\* What a session does with a card it was given.
Attempt(s, c) ==
    \/ \E r \in Content : CompleteCard(s, c, r) \/ CompleteAgain(s, c, r)
    \/ \E step \in 1..MaxStep : Checkpoint(s, c, step)
    \/ FailCard(s, c)
    \/ ReleaseCard(s, c)
    \/ \E k \in Card : SpawnChild(s, c, k) \/ WaitOnChild(s, c, k)

Presence(s) == CheckIn(s) \/ CheckOut(s) \/ Heartbeat(s)

Owner == (\E c \in Card : AddCard(c)) \/ (\E n \in Node : Revoke(n))

Next ==
    \/ Owner
    \/ \E s \in Session :
        \/ Presence(s)
        \/ ClaimNothing(s)
        \/ \E c \in Card : ClaimCard(s, c) \/ Attempt(s, c)
    \/ Tick

Spec == Init /\ [][Next]_cardVars

-----------------------------------------------------------------------------
(***************************************************************************)
(* Safety.                                                                 *)
(***************************************************************************)
\* The leases and cards.status are two tables kept in step by hand in nine
\* places: a card is running exactly while it has a lease row.
LeaseMeansRunning == \A c \in Card : holder[c] # NoSession <=> status[c] = "running"

\* claim_card checks that its node leases nothing, and lease rows outlive the
\* session that took them: no node works on two cards, across all its sessions.
OneLeasePerNode == \A c, d \in Card :
    holder[c] # NoSession /\ holder[d] # NoSession /\ NodeOf[holder[c]] = NodeOf[holder[d]]
        => c = d

\* A result is stored exactly for the cards in review: neither an expired nor a
\* released nor a repeated attempt leaves one without the other.
OutputMeansReview == \A c \in Card : output[c] # NoOutput <=> status[c] = "review"

\* Work starts only on the outputs of every dependency, those that
\* wait_on_child added after the card was first claimed included.
DepsBeforeWork == \A c \in Card : status[c] \in {"running", "review"} =>
    \A d \in deps[c] : output[d] # NoOutput

\* settle() leaves no parent waiting for nothing: one that waits has a child
\* still to finish, and none of its children is blocked.
NoStalledParent == \A p \in Card : status[p] = "waiting_on_child" =>
    /\ \E c \in Children(p) : status[c] # "review"
    /\ \A c \in Children(p) : ~IsBlocked(status[c])

\* The tables that are kept in step by hand stay in step: leases with nodes,
\* and parents that wait with the children they wait for.
BoardHolds == OneLeasePerNode /\ NoStalledParent

\* Children are inserted after their parents, so that no set of parents can
\* wait for one another.
ChildrenAreYounger == \A e \in link :
    row[e[1]] # 0 /\ row[e[1]] < row[e[2]]

(***************************************************************************)
(* What a step may never do.                                               *)
(***************************************************************************)
\* complete_card: the first accepted result of a card is its only one, and the
\* card is never worked on again, whatever a late or repeated call asks.
CompletedForGood == [][\A c \in Card : output[c] # NoOutput =>
    output'[c] = output[c] /\ status'[c] = "review"]_cardVars

\* "never replay their side effects automatically": an attempt at a code card
\* that ends without a result ends blocked and stays so.  Only a coordinator
\* goes back to the queue, once the children it waited for are all finished.
CodeNeverReplayed == [][\A c \in Code :
    /\ status[c] = "blocked" => status'[c] = "blocked"
    /\ status[c] \in {"running", "waiting_on_child"} /\ status'[c] = "ready" =>
        /\ Children(c) # {}
        /\ \A k \in Children(c) : status'[k] = "review"]_cardVars

\* A code lease that ran out is lost: no heartbeat or checkpoint of its old
\* session brings it back, although the lease row is still there.
ExpiredCodeLeaseIsLost == [][\A c \in Code :
    Expired(c) => left'[c] = 0 /\ holder'[c] \in {holder[c], NoSession}]_cardVars

\* A result or a checkpoint is only ever written by the session whose lease is
\* still running, and a checkpoint never goes back.
WritesAreFenced == [][\A c \in Card :
    /\ output'[c] # output[c] => Owns(output'[c].session, c)
    /\ checkpoint'[c] # checkpoint[c] => holder[c] # NoSession /\ left[c] > 0
    /\ checkpoint'[c] >= checkpoint[c]]_cardVars

\* Nothing an old attempt asks for is done: code is not run again, and what a
\* lost lease wrote does not count.
OldAttemptsAreHarmless == CodeNeverReplayed /\ WritesAreFenced

(***************************************************************************)
(* Liveness.  Time passes, and some session whose key is good keeps        *)
(* sending heartbeats (the heartbeat loop of a worker beats every 30       *)
(* seconds whatever its card does).                                        *)
(***************************************************************************)
Fairness ==
    /\ WF_cardVars(Tick)
    /\ WF_cardVars(\E s \in Session : Heartbeat(s))

FairSpec == Spec /\ Fairness

\* The card of a worker that vanished does not stay its card: some later call
\* of any session requeues it, or blocks it if it is a code card, and then no
\* parent is left waiting for it.
LostWorkerLosesCard == \A c \in Card : Expired(c) ~>
    \/ /\ ~Expired(c)
       /\ c \in Code => status[c] = "blocked"
       /\ c \in Code => \A p \in Card : c \in Children(p) => status[p] # "waiting_on_child"
    \/ \A s \in Session : ~Live(s)

=============================================================================
