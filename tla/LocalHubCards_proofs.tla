----------------------- MODULE LocalHubCards_proofs -----------------------
(***************************************************************************)
(* Theorems about the card queue of a local hub, for any sets of cards,    *)
(* sessions and nodes and any lease lengths.                               *)
(***************************************************************************)
EXTENDS LocalHubCards, FiniteSetTheorems, TLAPS

(***************************************************************************)
(* What settling does to one card.                                         *)
(***************************************************************************)
\* The next rowid is a number.
LEMMA NextRowType == NextRow \in Nat \ {0}
  <1>1. IsFiniteSet({c \in Card : status[c] # "absent"})
    BY CardsAssumption, FS_Subset
  <1>2. Cardinality({c \in Card : status[c] # "absent"}) \in Nat
    BY <1>1, FS_CardinalityType
  <1>. QED BY <1>2 DEF NextRow

\* SettleParents touches waiting parents only, and makes them ready or blocked.
LEMMA SettleParentsSpec ==
  ASSUME NEW st \in [Card -> Status]
  PROVE /\ SettleParents(st) \in [Card -> Status]
        /\ \A c \in Card : st[c] # "waiting_on_child" => SettleParents(st)[c] = st[c]
        /\ \A c \in Card : st[c] = "waiting_on_child" =>
             SettleParents(st)[c] \in {"waiting_on_child", "ready", "blocked"}
  BY DEF SettleParents, Status

\* The set of parents that settle() blocks contains every waiting parent with
\* a child in it or blocked: this is what the loop of the code runs for.
LEMMA DoomedIsClosed ==
  ASSUME NEW st \in [Card -> Status]
  PROVE ClosedUnderBlocking(st, Doomed(st))
  <1>. SUFFICES ASSUME NEW p \in Waiting(st),
                       NEW c \in Children(p), IsBlocked(st[c]) \/ c \in Doomed(st),
                       NEW D \in SUBSET Waiting(st), ClosedUnderBlocking(st, D)
                PROVE p \in D
    BY DEF ClosedUnderBlocking, Doomed
  <1>1. IsBlocked(st[c]) \/ c \in D
    BY DEF Doomed
  <1>. QED BY <1>1 DEF ClosedUnderBlocking

\* After settle() no waiting parent has only finished children or a blocked one.
LEMMA SettleParentsLeavesNoStall ==
  ASSUME NEW st \in [Card -> Status], NEW p \in Card,
         SettleParents(st)[p] = "waiting_on_child"
  PROVE /\ \E c \in Children(p) : SettleParents(st)[c] # "review"
        /\ \A c \in Children(p) : ~IsBlocked(SettleParents(st)[c])
  <1>1. st[p] = "waiting_on_child" /\ p \notin Doomed(st)
    BY DEF SettleParents
  <1>2. PICK k \in Children(p) : st[k] # "review"
    BY <1>1 DEF SettleParents
  <1>3. SettleParents(st)[k] # "review"
    BY <1>2 DEF SettleParents, Children
  <1>4. ASSUME NEW c \in Children(p) PROVE ~IsBlocked(SettleParents(st)[c])
    <2>1. c \in Card /\ ~IsBlocked(st[c]) /\ c \notin Doomed(st)
      BY <1>1, DoomedIsClosed DEF ClosedUnderBlocking, Children, Waiting
    <2>. QED BY <2>1 DEF SettleParents, IsBlocked, Parked
  <1>. QED BY <1>2, <1>3, <1>4

(***************************************************************************)
(* The inductive invariant.  The safety invariants lean on each other: a   *)
(* completion keeps results and reviews together because an owner's card   *)
(* is running, and a claim keeps leases and running cards together because *)
(* a ready card has no lease.                                              *)
(***************************************************************************)
CardsInv ==
    /\ CardsTypeOK
    /\ LeaseMeansRunning
    /\ OneLeasePerNode
    /\ OutputMeansReview
    /\ DepsBeforeWork
    /\ NoStalledParent

\* A whole settle() keeps every relation of the invariant.
LEMMA SettledSpec ==
  ASSUME CardsInv
  PROVE /\ Settled \in [Card -> Status]
        /\ SettledHolder \in [Card -> Session \cup {NoSession}]
        /\ \A c \in Card :
             /\ Settled[c] = "running" <=> SettledHolder[c] # NoSession
             /\ Settled[c] = "running" => status[c] = "running"
             /\ Settled[c] = "review" <=> status[c] = "review"
             /\ SettledHolder[c] \in {holder[c], NoSession}
        /\ \A p \in Card : Settled[p] = "waiting_on_child" =>
             /\ \E c \in Children(p) : Settled[c] # "review"
             /\ \A c \in Children(p) : ~IsBlocked(Settled[c])
  <1>1. Reaped \in [Card -> Status]
    BY DEF Reaped, CardsInv, CardsTypeOK, Status
  <1>2. SettledHolder \in [Card -> Session \cup {NoSession}]
    BY DEF SettledHolder, CardsInv, CardsTypeOK
  <1>3. \A c \in Card : /\ Reaped[c] = "running" <=> SettledHolder[c] # NoSession
                        /\ Reaped[c] = "running" => status[c] = "running"
                        /\ Reaped[c] = "review" <=> status[c] = "review"
    BY DEF Reaped, SettledHolder, Expired, CardsInv, CardsTypeOK, LeaseMeansRunning
  <1>4. \A c \in Card : SettledHolder[c] \in {holder[c], NoSession}
    BY DEF SettledHolder
  <1>5. Settled \in [Card -> Status]
    BY <1>1, SettleParentsSpec DEF Settled
  <1>6. \A c \in Card : /\ Settled[c] = "running" <=> Reaped[c] = "running"
                        /\ Settled[c] = "review" <=> Reaped[c] = "review"
    BY <1>1, SettleParentsSpec DEF Settled
  <1>7. \A p \in Card : Settled[p] = "waiting_on_child" =>
             /\ \E c \in Children(p) : Settled[c] # "review"
             /\ \A c \in Children(p) : ~IsBlocked(Settled[c])
    BY <1>1, SettleParentsLeavesNoStall DEF Settled
  <1>. QED BY <1>2, <1>3, <1>4, <1>5, <1>6, <1>7

\* What the end of an attempt does: the owner's card gets its status, the
\* lease is gone, and everything else is settled.
LEMMA GiveUpSpec ==
  ASSUME CardsInv, NEW s \in Session, NEW c \in Card, Owns(s, c),
         NEW v \in {"review", "blocked", "ready", "waiting_on_child"}, GiveUp(c, v)
  PROVE /\ status' \in [Card -> Status]
        /\ holder' \in [Card -> Session \cup {NoSession}]
        /\ left' \in [Card -> Nat] /\ \A d \in Card : left'[d] <= Ttl[d]
        /\ \A d \in Card :
             /\ status'[d] = "running" <=> holder'[d] # NoSession
             /\ status'[d] = "running" => status[d] = "running"
             /\ status'[d] = "review" <=> (status[d] = "review" \/ (d = c /\ v = "review"))
             /\ holder'[d] \in {holder[d], NoSession}
        /\ \A p \in Card : status'[p] = "waiting_on_child" =>
             /\ \E k \in Children(p) : status'[k] # "review"
             /\ \A k \in Children(p) : ~IsBlocked(status'[k])
  <1>. DEFINE st == [Reaped EXCEPT ![c] = v]
              h == [SettledHolder EXCEPT ![c] = NoSession]
  <1>1. status[c] = "running"
    BY CardsAssumption DEF Owns, CardsInv, CardsTypeOK, LeaseMeansRunning
  <1>2. Reaped \in [Card -> Status] /\ st \in [Card -> Status]
    BY DEF Reaped, CardsInv, CardsTypeOK, Status
  <1>3. h \in [Card -> Session \cup {NoSession}]
    BY DEF SettledHolder, CardsInv, CardsTypeOK
  <1>4. \A d \in Card : /\ st[d] = "running" <=> h[d] # NoSession
                        /\ st[d] = "running" => status[d] = "running"
                        /\ st[d] = "review" <=> (status[d] = "review" \/ (d = c /\ v = "review"))
                        /\ h[d] \in {holder[d], NoSession}
    <2>. TAKE d \in Card
    <2>1. CASE d = c
      BY <2>1, <1>1, <1>2 DEF SettledHolder, CardsInv, CardsTypeOK
    <2>2. CASE d # c
      BY <2>2, <1>2 DEF Reaped, SettledHolder, Expired, CardsInv, CardsTypeOK, LeaseMeansRunning
    <2>. QED BY <2>1, <2>2
  <1>5. status' = SettleParents(st) /\ holder' = h /\ left' = [left EXCEPT ![c] = 0]
    BY DEF GiveUp
  <1>6. /\ SettleParents(st) \in [Card -> Status]
        /\ \A d \in Card : /\ SettleParents(st)[d] = "running" <=> st[d] = "running"
                           /\ SettleParents(st)[d] = "review" <=> st[d] = "review"
    BY <1>2, SettleParentsSpec
  <1>7. \A p \in Card : SettleParents(st)[p] = "waiting_on_child" =>
             /\ \E k \in Children(p) : SettleParents(st)[k] # "review"
             /\ \A k \in Children(p) : ~IsBlocked(SettleParents(st)[k])
    BY <1>2, SettleParentsLeavesNoStall
  <1>. HIDE DEF st, h
  <1>8. left' \in [Card -> Nat] /\ \A d \in Card : left'[d] <= Ttl[d]
    <2>1. left' = [left EXCEPT ![c] = 0]
      BY <1>5
    <2>2. left \in [Card -> Nat] /\ \A d \in Card : left[d] <= Ttl[d] /\ Ttl[d] \in Nat
      BY CardsAssumption DEF CardsInv, CardsTypeOK
    <2>. QED BY <2>1, <2>2
  <1>. QED BY <1>3, <1>4, <1>5, <1>6, <1>7, <1>8

(***************************************************************************)
(* One lemma per operation: it keeps the invariant.                        *)
(***************************************************************************)
\* A step of which only the effect on the leases and statuses matters, as
\* settle() alone or with the end of an attempt without a result.
LEMMA SettlingStep ==
  ASSUME CardsInv,
         status' \in [Card -> Status],
         holder' \in [Card -> Session \cup {NoSession}],
         left' \in [Card -> Nat], \A d \in Card : left'[d] <= Ttl[d],
         \A d \in Card : /\ status'[d] = "running" <=> holder'[d] # NoSession
                         /\ status'[d] = "running" => status[d] = "running"
                         /\ status'[d] = "review" <=> status[d] = "review"
                         /\ holder'[d] \in {holder[d], NoSession},
         \A p \in Card : status'[p] = "waiting_on_child" =>
             /\ \E k \in Children(p) : status'[k] # "review"
             /\ \A k \in Children(p) : ~IsBlocked(status'[k]),
         UNCHANGED boardVars
  PROVE CardsInv'
  <1>1. CardsTypeOK'
    BY DEF CardsInv, CardsTypeOK, boardVars
  <1>2. LeaseMeansRunning'
    BY DEF LeaseMeansRunning
  <1>3. OneLeasePerNode'
    BY DEF OneLeasePerNode, CardsInv
  <1>4. OutputMeansReview'
    BY DEF OutputMeansReview, CardsInv, boardVars
  <1>5. DepsBeforeWork'
    BY DEF DepsBeforeWork, CardsInv, boardVars
  <1>6. NoStalledParent'
    BY DEF NoStalledParent, boardVars, Children
  <1>. QED BY <1>1, <1>2, <1>3, <1>4, <1>5, <1>6 DEF CardsInv

\* add_card and the insertion of a child: a new card is ready and has no lease.
LEMMA InsertStep ==
  ASSUME CardsInv, NEW c \in Card, NEW d \in SUBSET Card, Insert(c, d),
         link' \in SUBSET (Card \X Card), link \subseteq link',
         \A e \in link' : e \in link \/ status[e[1]] = "running",
         UNCHANGED <<leaseVars, output, checkpoint, checkedIn, revoked>>
  PROVE CardsInv'
  <1>1. status[c] = "absent" /\ status' = [status EXCEPT ![c] = "ready"]
        /\ deps' = [deps EXCEPT ![c] = d]
    BY DEF Insert
  <1>2. CardsTypeOK'
    BY <1>1, NextRowType DEF Insert, CardsInv, CardsTypeOK, leaseVars, Status
  <1>3. LeaseMeansRunning' /\ OneLeasePerNode' /\ OutputMeansReview'
    BY <1>1 DEF LeaseMeansRunning, OneLeasePerNode, OutputMeansReview,
                CardsInv, CardsTypeOK, leaseVars
  <1>4. DepsBeforeWork'
    BY <1>1 DEF DepsBeforeWork, CardsInv, CardsTypeOK
  <1>5. NoStalledParent'
    <2>. SUFFICES ASSUME NEW p \in Card, status'[p] = "waiting_on_child"
                  PROVE /\ \E k \in Children(p)' : status'[k] # "review"
                        /\ \A k \in Children(p)' : ~IsBlocked(status'[k])
      BY DEF NoStalledParent
    <2>1. status[p] = "waiting_on_child"
      BY <1>1 DEF CardsInv, CardsTypeOK
    <2>2. \A k \in Card : <<p, k>> \in link' => <<p, k>> \in link
      BY <2>1
    <2>3. \A k \in Card : status'[k] = status[k] \/ status'[k] = "ready"
      BY <1>1 DEF CardsInv, CardsTypeOK
    <2>4. /\ \E k \in Children(p) : status[k] # "review"
          /\ \A k \in Children(p) : ~IsBlocked(status[k])
      BY <2>1 DEF CardsInv, NoStalledParent
    <2>. QED BY <2>2, <2>3, <2>4 DEF Children, IsBlocked, Parked
  <1>. QED BY <1>2, <1>3, <1>4, <1>5 DEF CardsInv

LEMMA AddCardInv ==
  ASSUME CardsInv, NEW c \in Card, AddCard(c)
  PROVE CardsInv'
  <1>1. DeclaredDeps[c] \in SUBSET Card
    BY CardsAssumption
  <1>. QED BY <1>1, InsertStep DEF AddCard, CardsInv, CardsTypeOK

LEMMA SpawnChildInv ==
  ASSUME CardsInv, NEW s \in Session, NEW p \in Card, NEW c \in Card, SpawnChild(s, p, c)
  PROVE CardsInv'
  <1>1. status[p] = "running"
    BY CardsAssumption DEF SpawnChild, Owns, CardsInv, LeaseMeansRunning
  <1>2. link' = link \cup {<<p, c>>}
    BY DEF SpawnChild
  <1>3. link' \in SUBSET (Card \X Card) /\ link \subseteq link'
    BY <1>2 DEF CardsInv, CardsTypeOK
  <1>4. \A e \in link' : e \in link \/ status[e[1]] = "running"
    BY <1>1, <1>2
  <1>. QED BY <1>3, <1>4, InsertStep DEF SpawnChild

\* Presence and keys are not part of the card invariants.
LEMMA NodeFlagsInv ==
  ASSUME CardsInv,
         checkedIn' \in [Node -> BOOLEAN], revoked' \in [Node -> BOOLEAN],
         UNCHANGED <<status, leaseVars, row, deps, link, output, checkpoint>>
  PROVE CardsInv'
  BY DEF CardsInv, CardsTypeOK, LeaseMeansRunning, OneLeasePerNode, OutputMeansReview,
         DepsBeforeWork, NoStalledParent, Children, leaseVars

LEMMA HeartbeatInv ==
  ASSUME CardsInv, NEW s \in Session, Heartbeat(s)
  PROVE CardsInv'
  <1>1. left' \in [Card -> Nat] /\ \A d \in Card : left'[d] <= Ttl[d]
    BY CardsAssumption DEF Heartbeat, CardsInv, CardsTypeOK
  <1>2. status' = Settled /\ holder' = SettledHolder /\ UNCHANGED boardVars
    BY DEF Heartbeat
  <1>. QED BY <1>1, <1>2, SettledSpec, SettlingStep

LEMMA ClaimNothingInv ==
  ASSUME CardsInv, NEW s \in Session, NEW Allowed, ClaimNothingFrom(s, Allowed)
  PROVE CardsInv'
  <1>1. status' = Settled /\ holder' = SettledHolder /\ left' = left /\ UNCHANGED boardVars
    BY DEF ClaimNothingFrom, Settle
  <1>. QED BY <1>1, SettledSpec, SettlingStep DEF CardsInv, CardsTypeOK

\* A claim or a checkpoint gives a lease its full length again.
LEMMA RenewedLease ==
  ASSUME CardsInv, NEW c \in Card, left' = [left EXCEPT ![c] = Ttl[c]]
  PROVE left' \in [Card -> Nat] /\ \A d \in Card : left'[d] <= Ttl[d]
  <1>1. left \in [Card -> Nat] /\ \A d \in Card : left[d] <= Ttl[d]
    BY DEF CardsInv, CardsTypeOK
  <1>2. \A d \in Card : Ttl[d] \in Nat
    BY CardsAssumption
  <1>. QED BY <1>1, <1>2

\* claim_card: the node leases nothing after settling and the card's
\* dependencies all have outputs.
LEMMA ClaimCardInv ==
  ASSUME CardsInv, NEW s \in Session, NEW c \in Card, NEW Allowed \in SUBSET Card,
         ClaimCardFrom(s, c, Allowed)
  PROVE CardsInv'
  <1>1. /\ status' = [Settled EXCEPT ![c] = "running"]
        /\ holder' = [SettledHolder EXCEPT ![c] = s]
        /\ left' = [left EXCEPT ![c] = Ttl[c]]
        /\ UNCHANGED boardVars
    BY DEF ClaimCardFrom
  <1>2. Settled[c] = "ready" /\ (\A d \in deps[c] : output[d] # NoOutput)
    BY DEF ClaimCardFrom, Candidates, Finished
  <1>3. \A d \in Card : SettledHolder[d] # NoSession => NodeOf[SettledHolder[d]] # NodeOf[s]
    BY DEF ClaimCardFrom, MayClaim, HoldsAny
  <1>4. CardsTypeOK'
    <2>1. status' \in [Card -> Status] /\ holder' \in [Card -> Session \cup {NoSession}]
      BY <1>1, SettledSpec DEF Status
    <2>2. left' \in [Card -> Nat] /\ \A d \in Card : left'[d] <= Ttl[d]
      BY <1>1, RenewedLease
    <2>. QED BY <1>1, <2>1, <2>2 DEF CardsInv, CardsTypeOK, boardVars
  <1>5. LeaseMeansRunning'
    BY <1>1, SettledSpec, CardsAssumption DEF LeaseMeansRunning
  <1>6. OneLeasePerNode'
    BY <1>1, <1>3, SettledSpec DEF OneLeasePerNode, CardsInv
  <1>7. OutputMeansReview'
    BY <1>1, <1>2, SettledSpec DEF OutputMeansReview, CardsInv, boardVars
  <1>8. DepsBeforeWork'
    BY <1>1, <1>2, SettledSpec DEF DepsBeforeWork, CardsInv, boardVars
  <1>9. NoStalledParent'
    <2>1. \A d \in Card : status'[d] = (IF d = c THEN "running" ELSE Settled[d])
      BY <1>1, SettledSpec
    <2>. QED BY <1>1, <1>2, <2>1, SettledSpec DEF NoStalledParent, boardVars, Children, IsBlocked, Parked
  <1>. QED BY <1>4, <1>5, <1>6, <1>7, <1>8, <1>9 DEF CardsInv

LEMMA CompleteCardInv ==
  ASSUME CardsInv, NEW s \in Session, NEW c \in Card, NEW r \in Content, CompleteCard(s, c, r)
  PROVE CardsInv'
  <1>1. Owns(s, c) /\ GiveUp(c, "review") /\ UNCHANGED <<row, deps, link, checkpoint, checkedIn, revoked>>
        /\ output' = [output EXCEPT ![c] = [session |-> s, content |-> r]]
    BY DEF CompleteCard
  <1>2. /\ status' \in [Card -> Status]
        /\ holder' \in [Card -> Session \cup {NoSession}]
        /\ left' \in [Card -> Nat] /\ \A d \in Card : left'[d] <= Ttl[d]
        /\ \A d \in Card :
             /\ status'[d] = "running" <=> holder'[d] # NoSession
             /\ status'[d] = "running" => status[d] = "running"
             /\ status'[d] = "review" <=> (status[d] = "review" \/ d = c)
             /\ holder'[d] \in {holder[d], NoSession}
        /\ \A p \in Card : status'[p] = "waiting_on_child" =>
             /\ \E k \in Children(p) : status'[k] # "review"
             /\ \A k \in Children(p) : ~IsBlocked(status'[k])
    BY <1>1, GiveUpSpec
  <1>3. status[c] = "running"
    BY <1>1, CardsAssumption DEF Owns, CardsInv, LeaseMeansRunning
  <1>4. output' \in [Card -> Output \cup {NoOutput}] /\ output'[c] # NoOutput
        /\ \A d \in Card : output[d] # NoOutput => output'[d] # NoOutput
    BY <1>1, CardsAssumption DEF CardsInv, CardsTypeOK, Output
  <1>5. CardsTypeOK'
    BY <1>1, <1>2, <1>4 DEF CardsInv, CardsTypeOK
  <1>6. LeaseMeansRunning' /\ OneLeasePerNode'
    BY <1>2 DEF LeaseMeansRunning, OneLeasePerNode, CardsInv
  <1>7. OutputMeansReview'
    BY <1>1, <1>2, <1>4 DEF OutputMeansReview, CardsInv, CardsTypeOK
  <1>8. DepsBeforeWork'
    BY <1>1, <1>2, <1>3, <1>4 DEF DepsBeforeWork, CardsInv, CardsTypeOK
  <1>9. NoStalledParent'
    BY <1>1, <1>2 DEF NoStalledParent, Children
  <1>. QED BY <1>5, <1>6, <1>7, <1>8, <1>9 DEF CardsInv

LEMMA CheckpointInv ==
  ASSUME CardsInv, NEW s \in Session, NEW c \in Card, NEW step \in 1..MaxStep,
         Checkpoint(s, c, step)
  PROVE CardsInv'
  <1>1. /\ checkpoint' = [checkpoint EXCEPT ![c] = IF step >= checkpoint[c] THEN step ELSE checkpoint[c]]
        /\ left' = [left EXCEPT ![c] = Ttl[c]]
        /\ UNCHANGED <<status, holder, row, deps, link, output, checkedIn, revoked>>
    BY DEF Checkpoint
  <1>2. left' \in [Card -> Nat] /\ \A d \in Card : left'[d] <= Ttl[d]
    BY <1>1, RenewedLease
  <1>3. checkpoint' \in [Card -> 0..MaxStep]
    BY <1>1, CardsAssumption DEF CardsInv, CardsTypeOK
  <1>. QED
    BY <1>1, <1>2, <1>3 DEF CardsInv, CardsTypeOK, LeaseMeansRunning, OneLeasePerNode,
       OutputMeansReview, DepsBeforeWork, NoStalledParent, Children

\* fail_card and release_card: the end of an attempt without a result.
LEMMA GiveUpInv ==
  ASSUME CardsInv, NEW s \in Session, NEW c \in Card, Owns(s, c),
         NEW v \in {"blocked", "ready"}, GiveUp(c, v), UNCHANGED boardVars
  PROVE CardsInv'
  BY GiveUpSpec, SettlingStep

LEMMA WaitOnChildInv ==
  ASSUME CardsInv, NEW s \in Session, NEW p \in Card, NEW c \in Card, WaitOnChild(s, p, c)
  PROVE CardsInv'
  <1>1. Owns(s, p) /\ GiveUp(p, "waiting_on_child") /\ deps' = [deps EXCEPT ![p] = @ \cup {c}]
        /\ UNCHANGED <<row, link, output, checkpoint, checkedIn, revoked>>
    BY DEF WaitOnChild
  <1>2. /\ status' \in [Card -> Status]
        /\ holder' \in [Card -> Session \cup {NoSession}]
        /\ left' \in [Card -> Nat] /\ \A d \in Card : left'[d] <= Ttl[d]
        /\ \A d \in Card :
             /\ status'[d] = "running" <=> holder'[d] # NoSession
             /\ status'[d] = "running" => status[d] = "running"
             /\ status'[d] = "review" <=> status[d] = "review"
             /\ holder'[d] \in {holder[d], NoSession}
        /\ \A q \in Card : status'[q] = "waiting_on_child" =>
             /\ \E k \in Children(q) : status'[k] # "review"
             /\ \A k \in Children(q) : ~IsBlocked(status'[k])
    BY <1>1, GiveUpSpec
  <1>3. holder'[p] = NoSession /\ status[p] = "running"
    BY <1>1, CardsAssumption DEF GiveUp, SettledHolder, Owns, CardsInv, CardsTypeOK, LeaseMeansRunning
  <1>4. CardsTypeOK'
    BY <1>1, <1>2 DEF CardsInv, CardsTypeOK
  <1>5. LeaseMeansRunning' /\ OneLeasePerNode'
    BY <1>2 DEF LeaseMeansRunning, OneLeasePerNode, CardsInv
  <1>6. OutputMeansReview'
    BY <1>1, <1>2 DEF OutputMeansReview, CardsInv
  <1>7. DepsBeforeWork'
    BY <1>1, <1>2, <1>3 DEF DepsBeforeWork, CardsInv, CardsTypeOK
  <1>8. NoStalledParent'
    BY <1>1, <1>2 DEF NoStalledParent, Children
  <1>. QED BY <1>4, <1>5, <1>6, <1>7, <1>8 DEF CardsInv

LEMMA TickInv ==
  ASSUME CardsInv, Tick
  PROVE CardsInv'
  <1>1. left' \in [Card -> Nat] /\ \A d \in Card : left'[d] <= Ttl[d]
    BY CardsAssumption DEF Tick, CardsInv, CardsTypeOK
  <1>. QED
    BY <1>1 DEF Tick, boardVars, CardsInv, CardsTypeOK, LeaseMeansRunning, OneLeasePerNode,
       OutputMeansReview, DepsBeforeWork, NoStalledParent, Children

LEMMA InitInv == Init => CardsInv
  <1>. SUFFICES ASSUME Init PROVE CardsInv
    OBVIOUS
  <1>1. CardsTypeOK
    BY CardsAssumption DEF Init, CardsTypeOK, Status
  <1>. QED
    BY <1>1, CardsAssumption DEF Init, CardsInv, LeaseMeansRunning, OneLeasePerNode,
       OutputMeansReview, DepsBeforeWork, NoStalledParent

LEMMA StepInv == CardsInv /\ [Next]_cardVars => CardsInv'
  <1>. SUFFICES ASSUME CardsInv, [Next]_cardVars PROVE CardsInv'
    OBVIOUS
  <1>1. CASE \E c \in Card : AddCard(c)
    BY <1>1, AddCardInv
  <1>2. ASSUME NEW n \in Node, Revoke(n) PROVE CardsInv'
    BY <1>2, NodeFlagsInv DEF Revoke, CardsInv, CardsTypeOK
  <1>3. ASSUME NEW s \in Session, Presence(s) PROVE CardsInv'
    <2>1. CASE CheckIn(s)
      BY <2>1, NodeFlagsInv DEF CheckIn, CardsInv, CardsTypeOK
    <2>2. CASE CheckOut(s)
      BY <2>2, NodeFlagsInv DEF CheckOut, CardsInv, CardsTypeOK
    <2>3. CASE Heartbeat(s)
      BY <2>3, HeartbeatInv
    <2>. QED BY <1>3, <2>1, <2>2, <2>3 DEF Presence
  <1>4. ASSUME NEW s \in Session, ClaimNothing(s) PROVE CardsInv'
    BY <1>4, ClaimNothingInv DEF ClaimNothing
  <1>5. ASSUME NEW s \in Session, NEW c \in Card, ClaimCard(s, c) PROVE CardsInv'
    BY <1>5, ClaimCardInv DEF ClaimCard
  <1>6. ASSUME NEW s \in Session, NEW c \in Card, Attempt(s, c) PROVE CardsInv'
    <2>1. CASE \E r \in Content : CompleteCard(s, c, r)
      BY <2>1, CompleteCardInv
    <2>2. CASE \E r \in Content : CompleteAgain(s, c, r)
      BY <2>2, NodeFlagsInv DEF CompleteAgain, cardVars, leaseVars, CardsInv, CardsTypeOK
    <2>3. CASE \E step \in 1..MaxStep : Checkpoint(s, c, step)
      BY <2>3, CheckpointInv
    <2>4. CASE FailCard(s, c)
      BY <2>4, GiveUpInv DEF FailCard
    <2>5. CASE ReleaseCard(s, c)
      BY <2>5, GiveUpInv DEF ReleaseCard
    <2>6. CASE \E k \in Card : SpawnChild(s, c, k)
      BY <2>6, SpawnChildInv
    <2>7. CASE \E k \in Card : WaitOnChild(s, c, k)
      BY <2>7, WaitOnChildInv
    <2>. QED BY <1>6, <2>1, <2>2, <2>3, <2>4, <2>5, <2>6, <2>7 DEF Attempt
  <1>7. CASE Tick
    BY <1>7, TickInv
  <1>8. CASE UNCHANGED cardVars
    BY <1>8, NodeFlagsInv DEF cardVars, leaseVars, CardsInv, CardsTypeOK
  <1>. QED BY <1>1, <1>2, <1>3, <1>4, <1>5, <1>6, <1>7, <1>8 DEF Next, Owner

\* The inductive invariant holds in every state of the hub.
THEOREM CardsInvariant == Spec => []CardsInv
  <1>. QED BY InitInv, StepInv, PTL DEF Spec

\* Every table keeps its type, and no lease is longer than its card's term.
THEOREM CardsTypeCorrect == Spec => []CardsTypeOK
  <1>1. CardsInv => CardsTypeOK
    BY DEF CardsInv
  <1>. QED BY <1>1, CardsInvariant, PTL

\* Lease rows and running cards are the same cards, and a node has at most one.
THEOREM LeasesCorrect == Spec => [](LeaseMeansRunning /\ OneLeasePerNode)
  <1>1. CardsInv => LeaseMeansRunning /\ OneLeasePerNode
    BY DEF CardsInv
  <1>. QED BY <1>1, CardsInvariant, PTL

\* A stored result and the status "review" go together, and work only ever
\* started on the outputs of every dependency.
THEOREM ResultsCorrect == Spec => [](OutputMeansReview /\ DepsBeforeWork)
  <1>1. CardsInv => OutputMeansReview /\ DepsBeforeWork
    BY DEF CardsInv
  <1>. QED BY <1>1, CardsInvariant, PTL

\* Settling leaves no waiting parent with only finished children or a blocked
\* one, however deep the tree of children is.
THEOREM ParentsNeverStall == Spec => []NoStalledParent
  <1>1. CardsInv => NoStalledParent
    BY DEF CardsInv
  <1>. QED BY <1>1, CardsInvariant, PTL

(***************************************************************************)
(* Only complete_card and checkpoint write results and checkpoints, and    *)
(* only for the session whose lease still runs.                            *)
(***************************************************************************)
LEMMA Writes ==
  ASSUME CardsInv, Next, NEW c \in Card
  PROVE /\ output[c] # NoOutput => output'[c] = output[c]
        /\ output'[c] # output[c] => Owns(output'[c].session, c)
        /\ checkpoint'[c] # checkpoint[c] => holder[c] # NoSession /\ left[c] > 0
        /\ checkpoint'[c] >= checkpoint[c]
  <1>0. checkpoint \in [Card -> 0..MaxStep] /\ output \in [Card -> Output \cup {NoOutput}]
        /\ MaxStep \in Nat
    BY CardsAssumption DEF CardsInv, CardsTypeOK
  <1>. DEFINE Quiet == output' = output /\ checkpoint' = checkpoint
  <1>1. CASE Quiet
    BY <1>0, <1>1
  <1>2. ASSUME NEW s \in Session, NEW d \in Card, NEW r \in Content, CompleteCard(s, d, r)
        PROVE output[d] = NoOutput /\ Owns(s, d) /\ UNCHANGED checkpoint
              /\ output' = [output EXCEPT ![d] = [session |-> s, content |-> r]]
    BY <1>2 DEF CompleteCard
  <1>3. CASE \E s \in Session, d \in Card, r \in Content : CompleteCard(s, d, r)
    BY <1>0, <1>2, <1>3
  <1>4. ASSUME NEW s \in Session, NEW d \in Card, NEW step \in 1..MaxStep,
               Checkpoint(s, d, step)
        PROVE Owns(s, d) /\ UNCHANGED output
              /\ checkpoint' = [checkpoint EXCEPT ![d] =
                                   IF step >= checkpoint[d] THEN step ELSE checkpoint[d]]
    BY <1>4 DEF Checkpoint
  <1>5. CASE \E s \in Session, d \in Card, step \in 1..MaxStep : Checkpoint(s, d, step)
    <2>. PICK s \in Session, d \in Card, step \in 1..MaxStep : Checkpoint(s, d, step)
      BY <1>5
    <2>1. Owns(s, d) /\ UNCHANGED output
          /\ checkpoint' = [checkpoint EXCEPT ![d] =
                                   IF step >= checkpoint[d] THEN step ELSE checkpoint[d]]
      BY <1>4
    <2>. QED BY <1>0, <2>1, CardsAssumption DEF Owns
  <1>6. \/ Quiet
        \/ \E s \in Session, d \in Card, r \in Content : CompleteCard(s, d, r)
        \/ \E s \in Session, d \in Card, step \in 1..MaxStep : Checkpoint(s, d, step)
    BY ZenonT(60) DEF Next, Owner, AddCard, Revoke, Presence, CheckIn, CheckOut, Heartbeat, ClaimNothing,
       ClaimNothingFrom, ClaimCard, ClaimCardFrom, Attempt, CompleteAgain, FailCard,
       ReleaseCard, SpawnChild, WaitOnChild, Tick, boardVars, cardVars
  <1>. QED BY <1>1, <1>3, <1>5, <1>6

\* The first accepted result of a card is its only one, and the card is never
\* worked on again.
THEOREM CompletionIsFinal == Spec => CompletedForGood
  <1>1. CardsInv /\ CardsInv' /\ [Next]_cardVars =>
          [\A c \in Card : output[c] # NoOutput =>
             output'[c] = output[c] /\ status'[c] = "review"]_cardVars
    <2>. SUFFICES ASSUME CardsInv, CardsInv', Next, NEW c \in Card, output[c] # NoOutput
                  PROVE output'[c] = output[c] /\ status'[c] = "review"
      OBVIOUS
    <2>1. output'[c] = output[c]
      BY Writes
    <2>. QED BY <2>1 DEF CardsInv, OutputMeansReview
  <1>. QED BY <1>1, CardsInvariant, PTL DEF Spec, CompletedForGood

\* Results and checkpoints are written under a running lease, and a
\* checkpoint never goes back.
THEOREM WritesFenced == Spec => WritesAreFenced
  <1>1. CardsInv /\ [Next]_cardVars =>
          [\A c \in Card :
            /\ output'[c] # output[c] => Owns(output'[c].session, c)
            /\ checkpoint'[c] # checkpoint[c] => holder[c] # NoSession /\ left[c] > 0
            /\ checkpoint'[c] >= checkpoint[c]]_cardVars
    BY Writes
  <1>. QED BY <1>1, CardsInvariant, PTL DEF Spec, WritesAreFenced

\* The board: no node holds two leases, and no parent waits for nothing.
THEOREM BoardStands == Spec => []BoardHolds
  <1>1. CardsInv => BoardHolds
    BY DEF CardsInv, BoardHolds
  <1>. QED BY <1>1, CardsInvariant, PTL
(***************************************************************************)
(* Code cards.                                                             *)
(***************************************************************************)
\* What CodeNeverReplayed says of a step and one card.
CodeStep(c) ==
    /\ status[c] = "blocked" => status'[c] = "blocked"
    /\ status[c] \in {"running", "waiting_on_child"} /\ status'[c] = "ready" =>
        /\ Children(c) # {}
        /\ \A k \in Children(c) : status'[k] = "review"

\* A parent that settle() makes ready has children, and all are finished.
LEMMA SettledCode ==
  ASSUME NEW st \in [Card -> Status], NEW c \in Card,
         status[c] = "blocked" => st[c] = "blocked",
         status[c] \in {"running", "waiting_on_child"} => st[c] # "ready",
         st[c] = "waiting_on_child" => Children(c) # {},
         status' = SettleParents(st)
  PROVE CodeStep(c)
  <1>1. CASE st[c] # "waiting_on_child"
    <2>1. status'[c] = st[c]
      BY <1>1 DEF SettleParents
    <2>. QED BY <2>1 DEF CodeStep
  <1>2. CASE st[c] = "waiting_on_child"
    <2>1. status'[c] = "ready" => \A k \in Children(c) : st[k] = "review"
      BY <1>2 DEF SettleParents
    <2>2. \A k \in Children(c) : st[k] = "review" => status'[k] = "review"
      BY DEF SettleParents, Children
    <2>. QED BY <1>2, <2>1, <2>2 DEF CodeStep
  <1>. QED BY <1>1, <1>2

\* An expired code card is blocked, never requeued.
LEMMA ReapedCode ==
  ASSUME CardsInv, NEW c \in Code
  PROVE /\ Reaped \in [Card -> Status] /\ c \in Card
        /\ status[c] = "blocked" => Reaped[c] = "blocked"
        /\ status[c] \in {"running", "waiting_on_child"} => Reaped[c] # "ready"
        /\ Reaped[c] = "waiting_on_child" => Children(c) # {}
  <1>1. c \in Card
    BY CardsAssumption
  <1>2. Reaped \in [Card -> Status]
    BY DEF Reaped, CardsInv, CardsTypeOK, Status
  <1>3. Reaped[c] = IF Expired(c) THEN "blocked" ELSE status[c]
    BY <1>1 DEF Reaped
  <1>4. status[c] = "waiting_on_child" => Children(c) # {}
    BY <1>1 DEF CardsInv, NoStalledParent
  <1>. QED BY <1>1, <1>2, <1>3, <1>4

\* The end of an attempt: the code card of its owner is not ready again.
LEMMA GivenUpCode ==
  ASSUME CardsInv, NEW s \in Session, NEW d \in Card, Owns(s, d), NEW v \in Status, GiveUp(d, v),
         d \in Code => v # "ready", v = "waiting_on_child" => Children(d) # {}, NEW c \in Code
  PROVE CodeStep(c)
  <1> DEFINE st == [Reaped EXCEPT ![d] = v]
  <1>1. status' = SettleParents(st)
    BY DEF GiveUp
  <1>2. st \in [Card -> Status] /\ st[d] = v /\ \A k \in Card : k # d => st[k] = Reaped[k]
    BY ReapedCode
  <1>3. status[d] = "running"
    BY CardsAssumption DEF Owns, CardsInv, CardsTypeOK, LeaseMeansRunning
  <1> HIDE DEF st
  <1>4. CASE c = d
    BY <1>1, <1>2, <1>3, <1>4, SettledCode
  <1>5. CASE c # d
    <2>1. c \in Card /\ st[c] = Reaped[c]
      BY <1>2, <1>5, ReapedCode
    <2>. QED BY <1>1, <1>2, <2>1, ReapedCode, SettledCode
  <1>. QED BY <1>4, <1>5

LEMMA CodeSteps ==
  ASSUME CardsInv, [Next]_cardVars, NEW c \in Code
  PROVE CodeStep(c)
  <1>0. c \in Card
    BY CardsAssumption
  <1>1. CASE UNCHANGED status
    BY <1>1 DEF CodeStep
  <1>2. CASE status' = Settled
    <2>1. status' = SettleParents(Reaped)
      BY <1>2 DEF Settled
    <2>. QED BY <2>1, ReapedCode, SettledCode
  <1>3. ASSUME NEW d \in Card, NEW D, Insert(d, D) PROVE CodeStep(c)
    <2>1. status[d] = "absent" /\ status' = [status EXCEPT ![d] = "ready"]
      BY <1>3 DEF Insert
    <2>2. status[c] # "absent" => status'[c] = status[c]
      BY <1>0, <2>1 DEF CardsInv, CardsTypeOK
    <2>. QED BY <2>2 DEF CodeStep
  <1>4. ASSUME NEW s \in Session, NEW d \in Card, ClaimCard(s, d) PROVE CodeStep(c)
    <2>1. Settled[d] = "ready" /\ status' = [Settled EXCEPT ![d] = "running"] /\ Settled \in [Card -> Status]
      BY <1>4, SettledSpec DEF ClaimCard, ClaimCardFrom, Candidates
    <2>2. /\ status[c] = "blocked" => Settled[c] = "blocked"
          /\ status[c] \in {"running", "waiting_on_child"} /\ Settled[c] = "ready" =>
               Children(c) # {} /\ \A k \in Children(c) : Settled[k] = "review"
      <3>1. CASE Reaped[c] # "waiting_on_child"
        <4>1. Settled[c] = Reaped[c]
          BY <1>0, <3>1 DEF Settled, SettleParents
        <4>. QED BY <4>1, ReapedCode
      <3>2. CASE Reaped[c] = "waiting_on_child"
        <4>1. Settled[c] = "ready" => \A k \in Children(c) : Reaped[k] = "review"
          BY <1>0, <3>2 DEF Settled, SettleParents
        <4>2. \A k \in Children(c) : Reaped[k] = "review" => Settled[k] = "review"
          BY DEF Settled, SettleParents, Children
        <4>. QED BY <3>2, <4>1, <4>2, ReapedCode
      <3>. QED BY <3>1, <3>2
    <2>3. status'[c] = "ready" => Settled[c] = "ready"
      BY <1>0, <2>1
    <2>4. \A k \in Card : Settled[k] # "ready" => status'[k] = Settled[k]
      BY <2>1
    <2>. QED BY <1>0, <2>2, <2>3, <2>4 DEF CodeStep, Children
  <1>5. ASSUME NEW s \in Session, NEW d \in Card, NEW r \in Content, CompleteCard(s, d, r) PROVE CodeStep(c)
    BY <1>5, GivenUpCode DEF CompleteCard, Status
  <1>6. ASSUME NEW s \in Session, NEW d \in Card, FailCard(s, d) PROVE CodeStep(c)
    BY <1>6, GivenUpCode DEF FailCard, Status
  <1>7. ASSUME NEW s \in Session, NEW d \in Card, ReleaseCard(s, d) PROVE CodeStep(c)
    <2>1. CASE d \in Code
      BY <1>7, <2>1, GivenUpCode DEF ReleaseCard, Status
    <2>2. CASE d \notin Code
      BY <1>7, <2>2, GivenUpCode DEF ReleaseCard, Status
    <2>. QED BY <2>1, <2>2
  <1>8. ASSUME NEW s \in Session, NEW d \in Card, NEW k \in Card, WaitOnChild(s, d, k) PROVE CodeStep(c)
    <2>1. Owns(s, d) /\ GiveUp(d, "waiting_on_child") /\ Children(d) # {}
      BY <1>8 DEF WaitOnChild, Children
    <2>. QED BY <2>1, GivenUpCode DEF Status
  <1>9. ASSUME NEW s \in Session, NEW d \in Card, NEW k \in Card, SpawnChild(s, d, k) PROVE CodeStep(c)
    BY <1>3, <1>9 DEF SpawnChild
  <1>10. ASSUME NEW d \in Card, AddCard(d) PROVE CodeStep(c)
    BY <1>3, <1>10 DEF AddCard
  <1>11. ASSUME NEW s \in Session, Presence(s) \/ ClaimNothing(s) PROVE CodeStep(c)
    BY <1>1, <1>2, <1>11 DEF Presence, CheckIn, CheckOut, Heartbeat, ClaimNothing, ClaimNothingFrom, Settle
  <1>12. ASSUME NEW s \in Session, NEW d \in Card, Attempt(s, d) PROVE CodeStep(c)
    <2>1. ASSUME NEW r \in Content, CompleteAgain(s, d, r) PROVE CodeStep(c)
      BY <1>1, <2>1 DEF CompleteAgain, cardVars
    <2>2. ASSUME NEW step \in 1..MaxStep, Checkpoint(s, d, step) PROVE CodeStep(c)
      BY <1>1, <2>2 DEF Checkpoint
    <2>. QED BY <1>5, <1>6, <1>7, <1>8, <1>9, <1>12, <2>1, <2>2 DEF Attempt
  <1>13. CASE Owner
    <2>1. ASSUME NEW n \in Node, Revoke(n) PROVE CodeStep(c)
      BY <1>1, <2>1 DEF Revoke
    <2>. QED BY <1>10, <1>13, <2>1 DEF Owner
  <1>14. CASE Tick \/ UNCHANGED cardVars
    BY <1>1, <1>14 DEF Tick, cardVars
  <1>. QED BY <1>4, <1>11, <1>12, <1>13, <1>14 DEF Next

\* Nothing an old attempt asks for is done: a code card whose attempt ended is not run again
\* (only a parent is, once the children it waited for are all finished), and what a session
\* without a running lease writes does not count.
THEOREM OldAttemptsHarmless == Spec => OldAttemptsAreHarmless
  <1>1. CardsInv /\ [Next]_cardVars =>
          [\A c \in Code :
            /\ status[c] = "blocked" => status'[c] = "blocked"
            /\ status[c] \in {"running", "waiting_on_child"} /\ status'[c] = "ready" =>
                /\ Children(c) # {}
                /\ \A k \in Children(c) : status'[k] = "review"]_cardVars
    BY CodeSteps DEF CodeStep
  <1>2. Spec => CodeNeverReplayed
    BY <1>1, CardsInvariant, PTL DEF Spec, CodeNeverReplayed
  <1>. QED BY <1>2, WritesFenced DEF OldAttemptsAreHarmless

(***************************************************************************)
(* Leases that ran out, and the order of rows.                             *)
(***************************************************************************)
\* Settling takes the lease of an expired code card and leaves it blocked.
LEMMA SettledLost ==
  ASSUME CardsInv, NEW c \in Code, Expired(c)
  PROVE  /\ c \in Card /\ left[c] = 0 /\ SettledHolder[c] = NoSession /\ Settled[c] = "blocked"
         /\ left \in [Card -> Nat] /\ holder \in [Card -> Session \cup {NoSession}]
  <1>1. c \in Card /\ left[c] = 0
    BY CardsAssumption DEF Expired
  <1>2. Reaped[c] = "blocked"
    BY <1>1 DEF Reaped
  <1>3. Settled[c] = "blocked"
    BY <1>1, <1>2 DEF Settled, SettleParents
  <1>. QED BY <1>1, <1>3 DEF SettledHolder, CardsInv, CardsTypeOK

\* What a step does to a lease that ran out.
LEMMA LostSteps ==
  ASSUME CardsInv, [Next]_cardVars, NEW c \in Code, Expired(c)
  PROVE  left'[c] = 0 /\ holder'[c] \in {holder[c], NoSession}
  <1> DEFINE Lost == left'[c] = 0 /\ holder'[c] \in {holder[c], NoSession}
  <1>0. /\ c \in Card /\ left[c] = 0 /\ SettledHolder[c] = NoSession /\ Settled[c] = "blocked"
        /\ left \in [Card -> Nat] /\ holder \in [Card -> Session \cup {NoSession}]
    BY SettledLost
  <1>1. CASE UNCHANGED leaseVars
    BY <1>0, <1>1 DEF leaseVars
  <1>2. ASSUME NEW d \in Card, NEW v, GiveUp(d, v) PROVE Lost
    <2>1. SettledHolder \in [Card -> Session \cup {NoSession}]
      BY SettledSpec
    <2>. QED BY <1>0, <1>2, <2>1 DEF GiveUp
  <1>3. ASSUME NEW s \in Session, Presence(s) \/ ClaimNothing(s) PROVE Lost
    <2>1. CASE CheckIn(s) \/ CheckOut(s)
      BY <1>1, <2>1 DEF CheckIn, CheckOut
    <2>2. CASE Heartbeat(s)
      <3>1. s # NoSession
        BY CardsAssumption
      <3>. QED BY <1>0, <2>2, <3>1 DEF Heartbeat
    <2>3. CASE ClaimNothing(s)
      BY <1>0, <2>3 DEF ClaimNothing, ClaimNothingFrom, Settle
    <2>. QED BY <1>3, <2>1, <2>2, <2>3 DEF Presence
  <1>4. ASSUME NEW s \in Session, NEW d \in Card, ClaimCard(s, d) PROVE Lost
    <2>1. /\ Settled[d] = "ready"
          /\ holder' = [SettledHolder EXCEPT ![d] = s] /\ left' = [left EXCEPT ![d] = Ttl[d]]
      BY <1>4 DEF ClaimCard, ClaimCardFrom, Candidates
    <2>2. c # d
      BY <1>0, <2>1
    <2>3. SettledHolder \in [Card -> Session \cup {NoSession}]
      BY SettledSpec
    <2>. QED BY <1>0, <2>1, <2>2, <2>3
  <1>5. ASSUME NEW s \in Session, NEW d \in Card, Attempt(s, d) PROVE Lost
    <2>1. ASSUME NEW r \in Content, CompleteCard(s, d, r) PROVE Lost
      BY <1>2, <2>1 DEF CompleteCard
    <2>2. ASSUME NEW r \in Content, CompleteAgain(s, d, r) PROVE Lost
      BY <1>1, <2>2 DEF CompleteAgain, cardVars, leaseVars
    <2>3. ASSUME NEW step \in 1..MaxStep, Checkpoint(s, d, step) PROVE Lost
      <3>1. left[d] > 0 /\ UNCHANGED holder /\ left' = [left EXCEPT ![d] = Ttl[d]]
        BY <2>3 DEF Checkpoint, Owns
      <3>. QED BY <1>0, <3>1
    <2>4. CASE FailCard(s, d)
      BY <1>2, <2>4 DEF FailCard
    <2>5. CASE ReleaseCard(s, d)
      <3>1. CASE d \in Code
        BY <1>2, <2>5, <3>1 DEF ReleaseCard
      <3>2. CASE d \notin Code
        BY <1>2, <2>5, <3>2 DEF ReleaseCard
      <3>. QED BY <3>1, <3>2
    <2>6. ASSUME NEW k \in Card, SpawnChild(s, d, k) PROVE Lost
      BY <1>1, <2>6 DEF SpawnChild
    <2>7. ASSUME NEW k \in Card, WaitOnChild(s, d, k) PROVE Lost
      BY <1>2, <2>7 DEF WaitOnChild
    <2>. QED BY <1>5, <2>1, <2>2, <2>3, <2>4, <2>5, <2>6, <2>7 DEF Attempt
  <1>6. CASE Owner
    BY <1>1, <1>6 DEF Owner, AddCard, Revoke
  <1>7. CASE Tick
    <2>1. left' = [d \in Card |-> IF left[d] > 0 THEN left[d] - 1 ELSE 0] /\ UNCHANGED holder
      BY <1>7 DEF Tick
    <2>. QED BY <1>0, <2>1
  <1>8. CASE UNCHANGED cardVars
    BY <1>1, <1>8 DEF cardVars, leaseVars
  <1>. QED BY <1>3, <1>4, <1>5, <1>6, <1>7, <1>8 DEF Next

\* settle() runs before every renewal: the expired lease of a code card never runs again and
\* goes to nobody else, whatever its old session and other nodes ask for meanwhile.
THEOREM ExpiredLeasesLost == Spec => ExpiredCodeLeaseIsLost
  <1>1. CardsInv /\ [Next]_cardVars =>
          [\A c \in Code : Expired(c) => left'[c] = 0 /\ holder'[c] \in {holder[c], NoSession}]_cardVars
    BY LostSteps
  <1>. QED BY <1>1, CardsInvariant, PTL DEF Spec, ExpiredCodeLeaseIsLost

\* The cards there are.
Present == {c \in Card : status[c] # "absent"}

\* A card has a number from its insertion on, and numbers are given in order.
RowInv ==
    /\ \A c \in Card : (row[c] = 0 <=> c \notin Present) /\ row[c] <= Cardinality(Present)
    /\ ChildrenAreYounger

LEMMA PresentFinite == IsFiniteSet(Present) /\ Cardinality(Present) \in Nat
  BY CardsAssumption, FS_Subset, FS_CardinalityType DEF Present

\* Settling inserts no card and removes none.
LEMMA SettledPresent ==
  ASSUME CardsInv, NEW c \in Card
  PROVE  Settled[c] = "absent" <=> status[c] = "absent"
  <1>1. Reaped \in [Card -> Status]
    BY DEF Reaped, CardsInv, CardsTypeOK, Status
  <1>2. Expired(c) => status[c] = "running"
    BY DEF Expired, CardsInv, LeaseMeansRunning
  <1>3. Reaped[c] = "absent" <=> status[c] = "absent"
    BY <1>2 DEF Reaped
  <1>. QED BY <1>1, <1>3, SettleParentsSpec DEF Settled

LEMMA GivenUpPresent ==
  ASSUME CardsInv, NEW s \in Session, NEW d \in Card, Owns(s, d), NEW v \in Status \ {"absent"}, GiveUp(d, v)
  PROVE  Present' = Present
  <1>. SUFFICES ASSUME NEW c \in Card PROVE status'[c] = "absent" <=> status[c] = "absent"
    BY DEF Present
  <1>1. Reaped \in [Card -> Status]
    BY DEF Reaped, CardsInv, CardsTypeOK, Status
  <1>2. PICK st : st = [Reaped EXCEPT ![d] = v]
    OBVIOUS
  <1>3. st \in [Card -> Status] /\ status' = SettleParents(st)
    BY <1>1, <1>2 DEF GiveUp
  <1>4. status[d] = "running"
    BY CardsAssumption DEF Owns, CardsInv, CardsTypeOK, LeaseMeansRunning
  <1>5. Expired(c) => status[c] = "running"
    BY DEF Expired, CardsInv, LeaseMeansRunning
  <1>6. st[c] = "absent" <=> status[c] = "absent"
    <2>1. CASE c = d
      BY <1>1, <1>2, <1>4, <2>1
    <2>2. CASE c # d
      <3>1. st[c] = Reaped[c]
        BY <1>1, <1>2, <2>2
      <3>. QED BY <1>5, <3>1 DEF Reaped
    <2>. QED BY <2>1, <2>2
  <1>. QED BY <1>3, <1>6, SettleParentsSpec

\* What a step does to the rows: it inserts a card, or nothing.
LEMMA RowSteps ==
  ASSUME CardsInv, [Next]_cardVars
  PROVE  \/ Present' = Present /\ UNCHANGED <<row, link>>
         \/ \E c \in Card : \E D : Insert(c, D) /\ UNCHANGED link
         \/ \E p \in Present, c \in Card : Insert(c, {}) /\ link' = link \cup {<<p, c>>}
  <1> DEFINE Same == Present' = Present /\ UNCHANGED <<row, link>>
             Grows == \E c \in Card : \E D : Insert(c, D) /\ UNCHANGED link
             Spawns == \E p \in Present, c \in Card : Insert(c, {}) /\ link' = link \cup {<<p, c>>}
  <1>1. status' = status /\ row' = row /\ link' = link => Same
    BY DEF Present
  <1>2. status' = Settled /\ row' = row /\ link' = link => Same
    BY SettledPresent DEF Present
  <1>3. ASSUME NEW s \in Session, Presence(s) \/ ClaimNothing(s) PROVE Same
    <2>1. CASE CheckIn(s) \/ CheckOut(s)
      BY <1>1, <2>1 DEF CheckIn, CheckOut
    <2>2. CASE Heartbeat(s)
      BY <1>2, <2>2 DEF Heartbeat, boardVars
    <2>3. CASE ClaimNothing(s)
      BY <1>2, <2>3 DEF ClaimNothing, ClaimNothingFrom, Settle, boardVars
    <2>. QED BY <1>3, <2>1, <2>2, <2>3 DEF Presence
  <1>4. ASSUME NEW s \in Session, NEW d \in Card, ClaimCard(s, d) PROVE Same
    <2>1. Settled[d] = "ready" /\ status' = [Settled EXCEPT ![d] = "running"] /\ UNCHANGED <<row, link>>
      BY <1>4 DEF ClaimCard, ClaimCardFrom, Candidates, boardVars
    <2>2. \A c \in Card : status'[c] = "absent" <=> Settled[c] = "absent"
      BY <2>1, SettledSpec
    <2>. QED BY <2>1, <2>2, SettledPresent DEF Present
  <1>5. ASSUME NEW s \in Session, NEW d \in Card, Attempt(s, d) PROVE Same \/ Spawns
    <2>1. ASSUME NEW r \in Content, CompleteCard(s, d, r) PROVE Same
      BY <2>1, GivenUpPresent DEF CompleteCard, Status
    <2>2. ASSUME NEW r \in Content, CompleteAgain(s, d, r) PROVE Same
      BY <1>1, <2>2 DEF CompleteAgain, cardVars
    <2>3. ASSUME NEW step \in 1..MaxStep, Checkpoint(s, d, step) PROVE Same
      BY <1>1, <2>3 DEF Checkpoint
    <2>4. CASE FailCard(s, d)
      BY <2>4, GivenUpPresent DEF FailCard, Status, boardVars
    <2>5. CASE ReleaseCard(s, d)
      <3>1. CASE d \in Code
        BY <2>5, <3>1, GivenUpPresent DEF ReleaseCard, Status, boardVars
      <3>2. CASE d \notin Code
        BY <2>5, <3>2, GivenUpPresent DEF ReleaseCard, Status, boardVars
      <3>. QED BY <3>1, <3>2
    <2>6. ASSUME NEW k \in Card, SpawnChild(s, d, k) PROVE Spawns
      <3>1. Owns(s, d) /\ Insert(k, {}) /\ link' = link \cup {<<d, k>>}
        BY <2>6 DEF SpawnChild
      <3>2. d \in Present
        BY <3>1, CardsAssumption DEF Owns, CardsInv, CardsTypeOK, LeaseMeansRunning, Present
      <3>. QED BY <3>1, <3>2
    <2>7. ASSUME NEW k \in Card, WaitOnChild(s, d, k) PROVE Same
      BY <2>7, GivenUpPresent DEF WaitOnChild, Status
    <2>. QED BY <1>5, <2>1, <2>2, <2>3, <2>4, <2>5, <2>6, <2>7 DEF Attempt
  <1>6. CASE Owner
    <2>1. ASSUME NEW d \in Card, AddCard(d) PROVE Grows
      BY <2>1 DEF AddCard
    <2>2. ASSUME NEW n \in Node, Revoke(n) PROVE Same
      BY <1>1, <2>2 DEF Revoke
    <2>. QED BY <1>6, <2>1, <2>2 DEF Owner
  <1>7. CASE Tick \/ UNCHANGED cardVars
    BY <1>1, <1>7 DEF Tick, cardVars, boardVars
  <1>. QED BY <1>3, <1>4, <1>5, <1>6, <1>7 DEF Next

\* A new card gets the highest number.
LEMMA RowInserted ==
  ASSUME CardsInv, RowInv, NEW c \in Card, NEW D, Insert(c, D)
  PROVE  /\ row'[c] = Cardinality(Present) + 1 /\ row[c] = 0
         /\ \A d \in Card : d # c => row'[d] = row[d]
         /\ \A d \in Card : (row'[d] = 0 <=> d \notin Present') /\ row'[d] <= Cardinality(Present')
  <1>1. c \notin Present /\ Present' = Present \cup {c}
    BY DEF Insert, Present, CardsInv, CardsTypeOK
  <1>2. Cardinality(Present') = Cardinality(Present) + 1
    BY <1>1, PresentFinite, FS_AddElement
  <1>3. NextRow = Cardinality(Present) + 1
    BY PresentFinite DEF NextRow, Present
  <1>4. row \in [Card -> Nat] /\ row' = [row EXCEPT ![c] = NextRow]
    BY DEF Insert, CardsInv, CardsTypeOK
  <1>. QED BY <1>1, <1>2, <1>3, <1>4, PresentFinite DEF RowInv

LEMMA RowInvStep ==
  ASSUME CardsInv, RowInv, [Next]_cardVars
  PROVE  RowInv'
  <1>0. row \in [Card -> Nat] /\ link \in SUBSET (Card \X Card) /\ Cardinality(Present) \in Nat
    BY PresentFinite DEF CardsInv, CardsTypeOK
  <1>1. CASE Present' = Present /\ UNCHANGED <<row, link>>
    BY <1>1 DEF RowInv, ChildrenAreYounger
  <1>2. ASSUME NEW c \in Card, NEW D, Insert(c, D)
        PROVE  \A e \in link : row'[e[1]] # 0 /\ row'[e[1]] < row'[e[2]]
    <2>1. ASSUME NEW e \in link PROVE row'[e[1]] = row[e[1]] /\ row'[e[2]] = row[e[2]]
      <3>1. e[1] \in Card /\ e[2] \in Card /\ row[e[1]] # 0 /\ row[e[2]] # 0
        BY <1>0 DEF RowInv, ChildrenAreYounger
      <3>. QED BY <1>2, <3>1, RowInserted
    <2>. QED BY <2>1 DEF RowInv, ChildrenAreYounger
  <1>3. ASSUME NEW c \in Card, NEW D, Insert(c, D), UNCHANGED link PROVE RowInv'
    BY <1>2, <1>3, RowInserted DEF RowInv, ChildrenAreYounger
  <1>4. ASSUME NEW p \in Present, NEW c \in Card, Insert(c, {}), link' = link \cup {<<p, c>>} PROVE RowInv'
    <2>1. p \in Card /\ row[p] # 0 /\ row[p] <= Cardinality(Present)
      BY DEF RowInv, Present
    <2>2. row'[p] # 0 /\ row'[p] < row'[c]
      BY <1>0, <1>4, <2>1, RowInserted
    <2>3. \A e \in link' : row'[e[1]] # 0 /\ row'[e[1]] < row'[e[2]]
      BY <1>2, <1>4, <2>2
    <2>. QED BY <1>4, <2>3, RowInserted DEF RowInv, ChildrenAreYounger
  <1>. QED BY <1>1, <1>3, <1>4, RowSteps

\* Children get their rows after their parents, so that no set of parents can wait for one another,
\* whatever is spawned and in which order.
THEOREM ChildrenStayYounger == Spec => []ChildrenAreYounger
  <1>1. Init => RowInv
    <2>. SUFFICES ASSUME Init PROVE RowInv
      OBVIOUS
    <2>1. Present = {} /\ link = {} /\ row = [c \in Card |-> 0]
      BY DEF Init, Present
    <2>. QED BY <2>1, FS_EmptySet DEF RowInv, ChildrenAreYounger
  <1>2. CardsInv /\ RowInv /\ [Next]_cardVars => RowInv'
    BY RowInvStep
  <1>3. RowInv => ChildrenAreYounger
    BY DEF RowInv
  <1>. QED BY <1>1, <1>2, <1>3, CardsInvariant, PTL DEF Spec
=============================================================================
