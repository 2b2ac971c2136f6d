------------------------- MODULE BotsExecutor_proofs -------------------------
(***************************************************************************)
(* Theorems about the executors of Bots, for any number of agents, workers *)
(* and messages and any budgets.                                           *)
(***************************************************************************)
EXTENDS BotsExecutor, FiniteSetTheorems, TLAPS

(***************************************************************************)
(* The inductive invariant, in a part about the store and a part about the *)
(* workers.  A worker relies on rows only ever growing up, see Grows.      *)
(***************************************************************************)
\* Rows and replies belong to messages that were sent.
RowsExist == \A d \in Delivery :
    status[d] # "none" \/ d \in replied => cause[d[1]] # Unsent

StoreInv ==
    /\ StoreTypeOK
    /\ RowsExist
    /\ ActiveTurnsBounded
    /\ ResolvedIsVisible
    /\ OneReplyPerDelivery
    /\ DepthBounded

PassTypeOK ==
    /\ pc \in [Worker -> {"list", "peek", "claim"} \cup Working]
    /\ batch \in [Worker -> SUBSET Delivery]
    /\ job \in [Worker -> Delivery \cup {NoDelivery}]
    /\ \A w \in Worker : pc[w] \in Working \cup {"claim"} => job[w] \in Delivery
    /\ ticket \in [Worker -> Nat]
    /\ to \in [Worker -> SUBSET Agent]
    /\ hold \in [Worker -> BOOLEAN]

\* What is known of the row a worker is at, whatever others did to it since.
WorkKnown == \A w \in Worker :
    /\ pc[w] \in Working => status[job[w]] \notin {"none", "held"}
    /\ pc[w] \in {"announce", "complete"} => job[w] \in replied
    /\ pc[w] \in {"gate", "send"} /\ to[w] # {} => depth[job[w][1]] + 1 <= MaxDepth

PassInv == PassTypeOK /\ TicketsDiffer /\ WorkKnown

ExecInv == StoreInv /\ PassInv /\ troubles \in 0..MaxTroubles

\* What no step of the store takes back.
Grows ==
    /\ replied \subseteq replied'
    /\ \A d \in Delivery :
        /\ gen'[d] \in Nat /\ gen'[d] >= gen[d]
        /\ status[d] \notin {"none", "held"} => status'[d] \notin {"none", "held"}
        /\ cause[d[1]] # Unsent => depth'[d[1]] = depth[d[1]]

(***************************************************************************)
(* Counting running rows.                                                  *)
(***************************************************************************)
LEMMA RunningFinite ==
  ASSUME NEW a \in Agent
  PROVE IsFiniteSet(Running(a)) /\ Cardinality(Running(a)) \in Nat
  <1>1. IsFiniteSet(Delivery)
    BY DeliveriesAssumption, FS_Product DEF Delivery
  <1>2. Running(a) \in SUBSET Delivery
    BY DEF Running
  <1>. QED BY <1>1, <1>2, FS_Subset, FS_CardinalityType

\* A step that makes no row run keeps every agent within its limit.
LEMMA RunningShrinks ==
  ASSUME ActiveTurnsBounded,
         \A d \in Delivery : status'[d] = "running" => status[d] = "running"
  PROVE ActiveTurnsBounded'
  <1>. SUFFICES ASSUME NEW a \in Agent PROVE Cardinality(Running(a)') <= MaxActive
    BY DEF ActiveTurnsBounded
  <1>1. Running(a)' \in SUBSET Running(a)
    BY DEF Running
  <1>2. /\ Cardinality(Running(a)') <= Cardinality(Running(a))
        /\ IsFiniteSet(Running(a)')
    BY <1>1, RunningFinite, FS_Subset
  <1>3. Cardinality(Running(a)') \in Nat
    BY <1>2, FS_CardinalityType
  <1>. QED BY <1>2, <1>3, RunningFinite, DeliveriesAssumption DEF ActiveTurnsBounded

\* The count inside the claim is what keeps an agent within its limit.
LEMMA ClaimKeepsBudget ==
  ASSUME StoreTypeOK, ActiveTurnsBounded, NEW d \in Delivery, ClaimWithinBudget(d)
  PROVE ActiveTurnsBounded'
  <1>. SUFFICES ASSUME NEW a \in Agent PROVE Cardinality(Running(a)') <= MaxActive
    BY DEF ActiveTurnsBounded
  <1>0. d[2] \in Agent
    BY DEF Delivery
  <1>1. status' = [status EXCEPT ![d] = "running"] /\ status[d] # "running"
    BY DEF ClaimWithinBudget, CanClaim
  <1>2. CASE d[2] = a
    <2>1. Running(a)' = Running(a) \cup {d}
      BY <1>1, <1>2 DEF Running, StoreTypeOK
    <2>2. Cardinality(Running(a)') = Cardinality(Running(a)) + 1
      BY <1>1, <2>1, RunningFinite, FS_AddElement DEF Running
    <2>. QED BY <1>2, <2>2, RunningFinite, DeliveriesAssumption DEF ClaimWithinBudget, CanClaim
  <1>3. CASE d[2] # a
    <2>1. Running(a)' = Running(a)
      BY <1>1, <1>3 DEF Running, StoreTypeOK
    <2>. QED BY <2>1 DEF ActiveTurnsBounded
  <1>. QED BY <1>2, <1>3

(***************************************************************************)
(* Steps on rows that exist: what each of them has to show.                *)
(***************************************************************************)
LEMMA RowStep ==
  ASSUME StoreInv, StoreTypeOK', ActiveTurnsBounded',
         UNCHANGED <<chainVars, replied>>, notified \subseteq notified',
         \A d \in Delivery : gen'[d] >= gen[d],
         \A d \in Delivery : status'[d] # status[d] =>
             /\ status[d] # "none"
             /\ status'[d] \notin {"none", "held"}
             /\ status'[d] = "done" => d \in replied
             /\ status'[d] = "failed" => d \in replied \cup notified'
  PROVE StoreInv' /\ Grows
  <1>1. RowsExist' /\ OneReplyPerDelivery' /\ DepthBounded'
    BY DEF StoreInv, RowsExist, OneReplyPerDelivery, DepthBounded, chainVars
  <1>2. ResolvedIsVisible'
    BY DEF StoreInv, ResolvedIsVisible
  <1>3. Grows
    BY DEF Grows, StoreInv, StoreTypeOK, chainVars
  <1>. QED BY <1>1, <1>2, <1>3 DEF StoreInv

LEMMA CancelInv ==
  ASSUME StoreInv, NEW d \in Delivery, Cancel(d)
  PROVE StoreInv' /\ Grows
  <1>1. /\ status' = [status EXCEPT ![d] = "cancelled"]
        /\ gen' = [gen EXCEPT ![d] = gen[d] + 1]
        /\ UNCHANGED <<chainVars, noteVars, lease, retry>>
        /\ status[d] # "none"
    BY DEF Cancel
  <1>2. StoreTypeOK'
    BY <1>1 DEF StoreInv, StoreTypeOK, chainVars, noteVars, DeliveryStatus, Terminal
  <1>3. ActiveTurnsBounded'
    BY <1>1, RunningShrinks DEF StoreInv, StoreTypeOK
  <1>. QED BY <1>1, <1>2, <1>3, RowStep DEF StoreInv, StoreTypeOK, noteVars

LEMMA ReapInv ==
  ASSUME StoreInv, NEW a \in Agent, Reap(a)
  PROVE StoreInv' /\ Grows
  <1>1. /\ status' = [d \in Delivery |-> IF d \in Lapsed(a) THEN "pending" ELSE status[d]]
        /\ gen' = [d \in Delivery |-> IF d \in Lapsed(a) THEN gen[d] + 1 ELSE gen[d]]
        /\ UNCHANGED <<chainVars, noteVars, lease, retry>>
    BY DEF Reap
  <1>2. StoreTypeOK'
    BY <1>1 DEF StoreInv, StoreTypeOK, chainVars, noteVars, DeliveryStatus
  <1>3. ActiveTurnsBounded'
    BY <1>1, RunningShrinks DEF StoreInv
  <1>4. \A d \in Lapsed(a) : status[d] = "running"
    BY DEF Lapsed, Running
  <1>. QED BY <1>1, <1>2, <1>3, <1>4, RowStep DEF StoreInv, StoreTypeOK, noteVars

LEMMA ReleaseRootInv ==
  ASSUME StoreInv, NEW r \in Message, ReleaseRoot(r)
  PROVE StoreInv' /\ Grows
  <1>1. /\ status' = [d \in Delivery |->
              IF status[d] = "held" /\ root[d[1]] = r THEN "pending" ELSE status[d]]
        /\ UNCHANGED <<chainVars, noteVars, gen, lease, retry>>
    BY DEF ReleaseRoot
  <1>2. StoreTypeOK'
    BY <1>1 DEF StoreInv, StoreTypeOK, chainVars, noteVars, DeliveryStatus
  <1>3. ActiveTurnsBounded'
    BY <1>1, RunningShrinks DEF StoreInv
  <1>. QED BY <1>1, <1>2, <1>3, RowStep DEF StoreInv, StoreTypeOK, noteVars

LEMMA ClaimInv ==
  ASSUME StoreInv, NEW d \in Delivery, ClaimWithinBudget(d)
  PROVE StoreInv' /\ Grows /\ gen' = [gen EXCEPT ![d] = gen[d] + 1]
  <1>1. /\ status' = [status EXCEPT ![d] = "running"]
        /\ gen' = [gen EXCEPT ![d] = gen[d] + 1]
        /\ lease' = [lease EXCEPT ![d] = LeaseTime]
        /\ UNCHANGED <<chainVars, noteVars, retry>>
        /\ status[d] = "pending"
    BY DEF ClaimWithinBudget, CanClaim
  <1>2. StoreTypeOK'
    BY <1>1, DeliveriesAssumption DEF StoreInv, StoreTypeOK, chainVars, noteVars, DeliveryStatus
  <1>3. ActiveTurnsBounded'
    BY ClaimKeepsBudget DEF StoreInv
  <1>. QED BY <1>1, <1>2, <1>3, RowStep DEF StoreInv, StoreTypeOK, noteVars

LEMMA FinishInv ==
  ASSUME StoreInv, NEW d \in Delivery, NEW v \in {"done", "failed", "pending"},
         NEW delay \in 0..RetryTime, status[d] = "running", Finish(d, v, delay),
         v = "done" => d \in replied
  PROVE StoreInv' /\ Grows
  <1>1. /\ status' = [status EXCEPT ![d] = v]
        /\ retry' = [retry EXCEPT ![d] = delay]
        /\ lease' = [lease EXCEPT ![d] = 0]
        /\ notified' = IF v = "failed" /\ d \notin replied THEN notified \cup {d} ELSE notified
        /\ UNCHANGED <<chainVars, replied, announced, gen>>
    BY DEF Finish
  <1>2. StoreTypeOK'
    BY <1>1, DeliveriesAssumption DEF StoreInv, StoreTypeOK, chainVars, DeliveryStatus, Terminal
  <1>3. ActiveTurnsBounded'
    BY <1>1, RunningShrinks DEF StoreInv, StoreTypeOK
  <1>. QED BY <1>1, <1>2, <1>3, RowStep DEF StoreInv, StoreTypeOK

LEMMA ElapseInv ==
  ASSUME StoreInv, Elapse
  PROVE StoreInv' /\ Grows
  <1>1. /\ lease' = [d \in Delivery |-> IF lease[d] > 0 THEN lease[d] - 1 ELSE 0]
        /\ retry' = [d \in Delivery |-> IF retry[d] > 0 THEN retry[d] - 1 ELSE 0]
        /\ UNCHANGED <<chainVars, noteVars, status, gen>>
    BY DEF Elapse
  <1>2. StoreTypeOK'
    BY <1>1, DeliveriesAssumption DEF StoreInv, StoreTypeOK, chainVars, noteVars
  <1>3. ActiveTurnsBounded'
    BY <1>1, RunningShrinks DEF StoreInv
  <1>. QED BY <1>1, <1>2, <1>3, RowStep DEF StoreInv, StoreTypeOK, noteVars

LEMMA AnnounceInv ==
  ASSUME StoreInv, NEW d \in Delivery, Announce(d)
  PROVE StoreInv' /\ Grows
  <1>1. announced' = announced \cup {d} /\ UNCHANGED <<chainVars, rowVars, replied, notified>>
    BY DEF Announce
  <1>2. StoreTypeOK'
    BY <1>1 DEF StoreInv, StoreTypeOK, chainVars, rowVars
  <1>3. ActiveTurnsBounded'
    BY <1>1, RunningShrinks DEF StoreInv, rowVars
  <1>. QED BY <1>1, <1>2, <1>3, RowStep DEF StoreInv, StoreTypeOK, rowVars

LEMMA StoreUnchanged ==
  ASSUME StoreInv, UNCHANGED storeVars
  PROVE StoreInv' /\ Grows
  <1>1. UNCHANGED <<chainVars, noteVars, rowVars>>
    BY DEF storeVars, chainVars, noteVars, rowVars
  <1>2. StoreTypeOK'
    BY <1>1 DEF StoreInv, StoreTypeOK, chainVars, noteVars, rowVars
  <1>3. ActiveTurnsBounded'
    BY <1>1, RunningShrinks DEF StoreInv, rowVars
  <1>. QED BY <1>1, <1>2, <1>3, RowStep DEF StoreInv, StoreTypeOK, noteVars, rowVars

(***************************************************************************)
(* Steps that add rows.                                                    *)
(***************************************************************************)
\* Nothing is known of a message before it is sent.
LEMMA UnsentIsBare ==
  ASSUME StoreInv, NEW m \in Message, cause[m] = Unsent, NEW d \in Delivery, d[1] = m
  PROVE status[d] = "none" /\ d \notin replied
  BY DEF StoreInv, RowsExist

LEMMA PostInv ==
  ASSUME StoreInv, NEW m \in Message, NEW A \in SUBSET Agent,
         NEW by \in Delivery \cup {Person}, NEW r \in Message, NEW k \in Nat,
         NEW v \in {"pending", "held"}, Post(m, A, by, r, k, v),
         k <= MaxDepth, UNCHANGED <<announced, notified>>,
         \/ by = Person /\ replied' = replied
         \/ /\ by \in Delivery \ replied /\ replied' = replied \cup {by}
            /\ cause[by[1]] # Unsent
            /\ r = root[by[1]] /\ k = depth[by[1]] + 1
  PROVE StoreInv' /\ Grows
  <1>1. /\ cause[m] = Unsent
        /\ cause' = [cause EXCEPT ![m] = by]
        /\ root' = [root EXCEPT ![m] = r]
        /\ depth' = [depth EXCEPT ![m] = k]
        /\ status' = [d \in Delivery |-> IF d \in {m} \X A THEN v ELSE status[d]]
        /\ UNCHANGED <<gen, lease, retry>>
    BY DEF Post
  <1>2. by # Unsent /\ Person \notin Delivery
    BY DeliveriesAssumption
  <1>3. StoreTypeOK'
    BY <1>1 DEF StoreInv, StoreTypeOK, DeliveryStatus
  <1>4. ASSUME NEW d \in Delivery
        PROVE /\ d[1] \in Message /\ d[2] \in Agent
              /\ d \in {m} \X A => d[1] = m
              /\ status[d] # "none" => d[1] # m /\ status'[d] = status[d]
              /\ status'[d] # status[d] => d[1] = m /\ status'[d] = v
    BY <1>1, UnsentIsBare DEF Delivery
  <1>5. RowsExist'
    BY <1>1, <1>2, <1>4 DEF StoreInv, StoreTypeOK, RowsExist
  <1>6. ActiveTurnsBounded'
    BY <1>4, RunningShrinks DEF StoreInv
  <1>7. ResolvedIsVisible'
    BY <1>4 DEF StoreInv, ResolvedIsVisible
  <1>8. DepthBounded'
    BY <1>1, <1>4 DEF StoreInv, StoreTypeOK, DepthBounded
  <1>9. OneReplyPerDelivery'
    <2>. SUFFICES ASSUME NEW n \in Message, cause'[n] \in Delivery
                  PROVE /\ cause'[n] \in replied'
                        /\ \A o \in Message : cause'[o] = cause'[n] => o = n
                        /\ root'[n] = root'[cause'[n][1]]
                        /\ depth'[n] = depth'[cause'[n][1]] + 1
      BY DEF OneReplyPerDelivery
    <2>1. CASE n = m
      <3>1. by \in Delivery \ replied /\ cause'[n] = by /\ by[1] \in Message /\ by[1] # m
        BY <1>1, <1>2, <1>4, <2>1 DEF StoreInv, StoreTypeOK
      <3>2. \A o \in Message : o # m => cause'[o] # by
        BY <1>1, <3>1 DEF StoreInv, OneReplyPerDelivery, StoreTypeOK
      <3>. QED BY <1>1, <1>2, <2>1, <3>1, <3>2 DEF StoreInv, StoreTypeOK
    <2>2. CASE n # m
      <3>1. cause'[n] = cause[n] /\ cause[n] \in Delivery
        BY <1>1, <2>2 DEF StoreInv, StoreTypeOK
      <3>2. /\ cause[n] \in replied
            /\ \A o \in Message : cause[o] = cause[n] => o = n
            /\ root[n] = root[cause[n][1]]
            /\ depth[n] = depth[cause[n][1]] + 1
        BY <3>1 DEF StoreInv, OneReplyPerDelivery
      <3>3. cause[n][1] \in Message /\ cause[n][1] # m
        BY <1>1, <1>4, <3>1, <3>2 DEF StoreInv, RowsExist
      <3>4. cause[n] # by
        BY <1>2, <3>1, <3>2
      <3>. QED BY <1>1, <2>2, <3>1, <3>2, <3>3, <3>4 DEF StoreInv, StoreTypeOK
    <2>. QED BY <2>1, <2>2
  <1>10. Grows
    BY <1>1, <1>4 DEF Grows, StoreInv, StoreTypeOK
  <1>. QED BY <1>3, <1>5, <1>6, <1>7, <1>8, <1>9, <1>10 DEF StoreInv

LEMMA HumanSendInv ==
  ASSUME StoreInv, NEW m \in Message, NEW A \in SUBSET Agent, HumanSend(m, A)
  PROVE StoreInv' /\ Grows
  <1>1. Post(m, A, Person, m, 0, "pending") /\ UNCHANGED noteVars
    BY DEF HumanSend
  <1>. QED BY <1>1, PostInv, ExecutorAssumption DEF noteVars

LEMMA ReplyInv ==
  ASSUME StoreInv, NEW d \in Delivery, NEW m \in Message, NEW A \in SUBSET Agent,
         NEW h \in BOOLEAN, Reply(d, m, A, h),
         status[d] # "none", A # {} => depth[d[1]] + 1 <= MaxDepth
  PROVE StoreInv' /\ Grows /\ d \in replied'
  <1>1. /\ replied' = replied \cup {d}
        /\ UNCHANGED <<announced, notified>>
        /\ cause[d[1]] # Unsent /\ d[1] \in Message
    BY DEF Reply, StoreInv, RowsExist, Delivery
  <1>2. CASE d \in replied \/ A = {}
    <2>1. UNCHANGED <<chainVars, rowVars>>
      BY <1>2 DEF Reply
    <2>2. StoreTypeOK'
      BY <1>1, <2>1 DEF StoreInv, StoreTypeOK, chainVars, rowVars
    <2>3. ActiveTurnsBounded'
      BY <2>1, RunningShrinks DEF StoreInv, rowVars
    <2>4. RowsExist' /\ OneReplyPerDelivery' /\ DepthBounded' /\ ResolvedIsVisible'
      BY <1>1, <2>1 DEF StoreInv, RowsExist, OneReplyPerDelivery, DepthBounded,
                        ResolvedIsVisible, chainVars, rowVars
    <2>5. Grows
      BY <1>1, <2>1 DEF Grows, StoreInv, StoreTypeOK, chainVars, rowVars
    <2>. QED BY <1>1, <2>2, <2>3, <2>4, <2>5 DEF StoreInv
  <1>3. CASE d \notin replied /\ A # {}
    <2>1. Post(m, A, d, root[d[1]], depth[d[1]] + 1, IF h THEN "held" ELSE "pending")
      BY <1>3 DEF Reply
    <2>2. root[d[1]] \in Message /\ depth[d[1]] + 1 \in Nat
      BY <1>1 DEF StoreInv, StoreTypeOK
    <2>. QED BY <1>1, <1>3, <2>1, <2>2, PostInv
  <1>. QED BY <1>2, <1>3

(***************************************************************************)
(* Steps of a worker.  The others keep what they know, because the store   *)
(* grows; the worker itself has to show what it knows of its row now.      *)
(***************************************************************************)
OthersStay(w) == \A v \in Worker \ {w} :
    /\ pc'[v] = pc[v]
    /\ job'[v] = job[v]
    /\ ticket'[v] = ticket[v]
    /\ to'[v] = to[v]

LEMMA WorkerStep ==
  ASSUME ExecInv, Grows, PassTypeOK', NEW w \in Worker, OthersStay(w),
         pc'[w] \in Working =>
           /\ status'[job'[w]] \notin {"none", "held"}
           /\ ticket'[w] <= gen'[job'[w]]
           /\ \A v \in Worker \ {w} :
                pc[v] \in Working /\ job[v] = job'[w] => ticket[v] # ticket'[w],
         pc'[w] \in {"announce", "complete"} => job'[w] \in replied',
         pc'[w] \in {"gate", "send"} /\ to'[w] # {} => depth'[job'[w][1]] + 1 <= MaxDepth
  PROVE PassInv'
  <1>. USE DEF OthersStay
  <1>1. ASSUME NEW v \in Worker \ {w}, pc[v] \in Working
        PROVE /\ job[v] \in Delivery
              /\ status'[job[v]] \notin {"none", "held"}
              /\ ticket[v] <= gen'[job[v]]
              /\ pc[v] \in {"announce", "complete"} => job[v] \in replied'
              /\ pc[v] \in {"gate", "send"} /\ to[v] # {} => depth'[job[v][1]] + 1 <= MaxDepth
    <2>1. job[v] \in Delivery /\ ticket[v] \in Nat /\ gen[job[v]] \in Nat
      BY <1>1 DEF ExecInv, PassInv, PassTypeOK, StoreInv, StoreTypeOK
    <2>2. status[job[v]] \notin {"none", "held"} /\ ticket[v] <= gen[job[v]]
      BY <1>1 DEF ExecInv, PassInv, WorkKnown, TicketsDiffer
    <2>3. depth'[job[v][1]] = depth[job[v][1]]
      BY <2>1, <2>2 DEF ExecInv, StoreInv, RowsExist, Grows
    <2>. QED BY <1>1, <2>1, <2>2, <2>3 DEF ExecInv, PassInv, WorkKnown, Grows
  <1>2. WorkKnown'
    <2>. SUFFICES ASSUME NEW v \in Worker
                  PROVE /\ pc'[v] \in Working => status'[job'[v]] \notin {"none", "held"}
                        /\ pc'[v] \in {"announce", "complete"} => job'[v] \in replied'
                        /\ pc'[v] \in {"gate", "send"} /\ to'[v] # {} =>
                             depth'[job'[v][1]] + 1 <= MaxDepth
      BY DEF WorkKnown
    <2>1. CASE v = w
      BY <2>1
    <2>2. CASE v # w
      BY <1>1, <2>2 DEF Working
    <2>. QED BY <2>1, <2>2
  <1>3. TicketsDiffer'
    <2>1. ASSUME NEW v \in Worker, pc'[v] \in Working PROVE ticket'[v] <= gen'[job'[v]]
      BY <1>1, <2>1
    <2>2. ASSUME NEW u \in Worker, NEW v \in Worker, u # v,
                 pc'[u] \in Working, pc'[v] \in Working, job'[u] = job'[v]
          PROVE ticket'[u] # ticket'[v]
      BY <2>2 DEF ExecInv, PassInv, TicketsDiffer
    <2>. QED BY <2>1, <2>2 DEF TicketsDiffer
  <1>. QED BY <1>2, <1>3 DEF PassInv

\* A worker that goes on with its row.
LEMMA WorkContinues ==
  ASSUME ExecInv, Grows, PassTypeOK', NEW w \in Worker, OthersStay(w),
         pc[w] \in Working, job'[w] = job[w], ticket'[w] = ticket[w],
         pc'[w] \in {"announce", "complete"} => job[w] \in replied',
         pc'[w] \in {"gate", "send"} /\ to'[w] # {} => depth[job[w][1]] + 1 <= MaxDepth
  PROVE PassInv'
  <1>1. job[w] \in Delivery /\ ticket[w] \in Nat /\ gen[job[w]] \in Nat
    BY DEF ExecInv, PassInv, PassTypeOK, StoreInv, StoreTypeOK
  <1>2. status[job[w]] \notin {"none", "held"} /\ ticket[w] <= gen[job[w]]
    BY DEF ExecInv, PassInv, WorkKnown, TicketsDiffer
  <1>3. depth'[job[w][1]] = depth[job[w][1]]
    BY <1>1, <1>2 DEF ExecInv, StoreInv, RowsExist, Grows
  <1>4. status'[job[w]] \notin {"none", "held"} /\ ticket[w] <= gen'[job[w]]
    BY <1>1, <1>2 DEF Grows
  <1>5. \A v \in Worker \ {w} :
           pc[v] \in Working /\ job[v] = job[w] => ticket[v] # ticket[w]
    BY DEF ExecInv, PassInv, TicketsDiffer
  <1>. QED BY <1>3, <1>4, <1>5, WorkerStep

\* A worker that lets go of its row, or has none yet.
LEMMA WorkEnds ==
  ASSUME ExecInv, Grows, PassTypeOK', NEW w \in Worker, OthersStay(w),
         pc'[w] \notin Working
  PROVE PassInv'
  BY WorkerStep DEF Working

LEMMA ResolvedPass ==
  ASSUME ExecInv, NEW w \in Worker, Resolved(w)
  PROVE PassTypeOK' /\ OthersStay(w) /\ pc'[w] \in {"list", "peek"}
  <1>1. /\ pc' = [pc EXCEPT ![w] = IF batch[w] = {} THEN "list" ELSE "peek"]
        /\ job' = [job EXCEPT ![w] = NoDelivery]
        /\ ticket' = [ticket EXCEPT ![w] = 0]
        /\ to' = [to EXCEPT ![w] = {}]
        /\ hold' = [hold EXCEPT ![w] = FALSE]
        /\ batch' = batch
    BY DEF Resolved, NextRow, Goto
  <1>2. OthersStay(w) /\ pc'[w] \in {"list", "peek"}
    BY <1>1 DEF ExecInv, PassInv, PassTypeOK, OthersStay
  <1>3. PassTypeOK'
    BY <1>1 DEF ExecInv, PassInv, PassTypeOK, Working
  <1>. QED BY <1>2, <1>3

\* A step to another place of the attempt, the row and the ticket kept.
LEMMA GotoPass ==
  ASSUME ExecInv, NEW w \in Worker, pc[w] \in Working, NEW l \in Working, Goto(w, l),
         UNCHANGED <<batch, job, ticket, to, hold>>
  PROVE PassTypeOK' /\ OthersStay(w) /\ pc'[w] = l
  BY DEF ExecInv, PassInv, PassTypeOK, OthersStay, Goto

LEMMA TroubleType ==
  ASSUME ExecInv, Trouble \/ UNCHANGED troubles
  PROVE troubles' \in 0..MaxTroubles
  BY ExecutorAssumption DEF ExecInv, Trouble

LEMMA ListInv ==
  ASSUME ExecInv, NEW w \in Worker, NEW a \in Agent, List(w, a)
  PROVE ExecInv'
  <1>1. StoreInv' /\ Grows
    BY ReapInv DEF List, ExecInv
  <1>2. PICK B \in Listed(a) : /\ batch' = [batch EXCEPT ![w] = B]
                               /\ Goto(w, IF B = {} THEN "list" ELSE "peek")
    BY DEF List
  <1>3. B \in SUBSET Delivery
    BY DEF Listed, Claimable
  <1>4. /\ pc' = [pc EXCEPT ![w] = IF B = {} THEN "list" ELSE "peek"]
        /\ UNCHANGED <<job, ticket, to, hold, troubles>>
    BY <1>2 DEF List, Goto
  <1>5. PassTypeOK' /\ OthersStay(w) /\ pc'[w] \notin Working
    BY <1>2, <1>3, <1>4 DEF ExecInv, PassInv, PassTypeOK, OthersStay, Working
  <1>. QED BY <1>1, <1>4, <1>5, WorkEnds DEF ExecInv

LEMMA PeekInv ==
  ASSUME ExecInv, NEW w \in Worker, NEW d \in Delivery, Peek(w, d)
  PROVE ExecInv'
  <1>1. /\ pc' = [pc EXCEPT ![w] = "claim"]
        /\ job' = [job EXCEPT ![w] = d]
        /\ batch' = [batch EXCEPT ![w] = @ \ {d}]
        /\ UNCHANGED <<ticket, to, hold, troubles>>
        /\ UNCHANGED storeVars
    BY DEF Peek, Goto
  <1>2. PassTypeOK' /\ OthersStay(w) /\ pc'[w] \notin Working
    BY <1>1 DEF ExecInv, PassInv, PassTypeOK, OthersStay, Working
  <1>. QED BY <1>1, <1>2, StoreUnchanged, WorkEnds DEF ExecInv

LEMMA LeaveAgentInv ==
  ASSUME ExecInv, NEW w \in Worker, LeaveAgent(w)
  PROVE ExecInv'
  <1>1. /\ pc' = [pc EXCEPT ![w] = "list"]
        /\ batch' = [batch EXCEPT ![w] = {}]
        /\ UNCHANGED <<job, ticket, to, hold>>
        /\ UNCHANGED storeVars
        /\ Trouble \/ UNCHANGED troubles
    BY DEF LeaveAgent, Goto
  <1>2. PassTypeOK' /\ OthersStay(w) /\ pc'[w] \notin Working
    BY <1>1 DEF ExecInv, PassInv, PassTypeOK, OthersStay, Working
  <1>. QED BY <1>1, <1>2, StoreUnchanged, WorkEnds, TroubleType DEF ExecInv

LEMMA ClaimStepInv ==
  ASSUME ExecInv, NEW w \in Worker, Claim(w)
  PROVE ExecInv'
  <1>1. job[w] \in Delivery
    BY DEF Claim, ExecInv, PassInv, PassTypeOK
  <1>2. StoreInv' /\ Grows /\ gen' = [gen EXCEPT ![job[w]] = gen[job[w]] + 1]
    BY <1>1, ClaimInv DEF Claim, ExecInv
  <1>3. /\ pc' = [pc EXCEPT ![w] = "turn"]
        /\ ticket' = [ticket EXCEPT ![w] = gen'[job[w]]]
        /\ UNCHANGED <<batch, job, to, hold, troubles>>
        /\ status' = [status EXCEPT ![job[w]] = "running"]
    BY DEF Claim, Goto, ClaimWithinBudget
  <1>4. gen[job[w]] \in Nat /\ gen'[job[w]] = gen[job[w]] + 1 /\ status'[job[w]] = "running"
    BY <1>1, <1>2, <1>3 DEF ExecInv, StoreInv, StoreTypeOK
  <1>5. PassTypeOK' /\ OthersStay(w) /\ pc'[w] = "turn" /\ ticket'[w] = gen'[job[w]]
    BY <1>1, <1>3, <1>4 DEF ExecInv, PassInv, PassTypeOK, OthersStay, Working
  <1>6. ASSUME NEW v \in Worker \ {w}, pc[v] \in Working, job[v] = job[w]
        PROVE ticket[v] # gen'[job[w]]
    <2>1. ticket[v] \in Nat /\ ticket[v] <= gen[job[w]]
      BY <1>6 DEF ExecInv, PassInv, PassTypeOK, TicketsDiffer
    <2>. QED BY <1>4, <2>1
  <1>. QED BY <1>2, <1>3, <1>4, <1>5, <1>6, WorkerStep DEF ExecInv

LEMMA ClaimMissedInv ==
  ASSUME ExecInv, NEW w \in Worker, ClaimMissed(w)
  PROVE ExecInv'
  <1>1. job[w] \in Delivery
    BY DEF ClaimMissed, ExecInv, PassInv, PassTypeOK
  <1>2. /\ UNCHANGED storeVars \/ ClaimWithinBudget(job[w])
        /\ Trouble \/ UNCHANGED troubles
        /\ Resolved(w)
    BY DEF ClaimMissed
  <1>3. StoreInv' /\ Grows
    BY <1>1, <1>2, ClaimInv, StoreUnchanged DEF ExecInv
  <1>4. pc'[w] \notin Working
    BY <1>2, ResolvedPass DEF Working
  <1>. QED BY <1>2, <1>3, <1>4, ResolvedPass, WorkEnds, TroubleType DEF ExecInv

LEMMA TurnFailsInv ==
  ASSUME ExecInv, NEW w \in Worker, TurnFails(w)
  PROVE ExecInv'
  <1>1. PICK l \in {"fail", "requeue", "handback"} : Goto(w, l)
    BY DEF TurnFails
  <1>2. /\ pc[w] \in Working /\ l \in Working
        /\ UNCHANGED storeVars /\ UNCHANGED <<batch, job, ticket, to, hold>>
        /\ Trouble \/ UNCHANGED troubles
    BY <1>1 DEF TurnFails, Working
  <1>3. PassTypeOK' /\ OthersStay(w) /\ pc'[w] = l
    BY <1>1, <1>2, GotoPass
  <1>4. StoreInv' /\ Grows
    BY <1>2, StoreUnchanged DEF ExecInv
  <1>. QED BY <1>2, <1>3, <1>4, WorkContinues, TroubleType DEF ExecInv

LEMMA TurnSpeaksInv ==
  ASSUME ExecInv, NEW w \in Worker, TurnSpeaks(w)
  PROVE ExecInv'
  <1>1. PICK A \in Addressable(job[w]) :
           /\ to' = [to EXCEPT ![w] = A]
           /\ Goto(w, IF A = {} THEN "send" ELSE "gate")
    BY DEF TurnSpeaks
  <1>2. A \in SUBSET Agent /\ (A # {} => depth[job[w][1]] + 1 <= MaxDepth)
    <2>1. job[w] \in Delivery
      BY DEF TurnSpeaks, Working, ExecInv, PassInv, PassTypeOK
    <2>2. depth[job[w][1]] \in Nat /\ MaxDepth \in Nat
      BY <2>1, ExecutorAssumption DEF ExecInv, StoreInv, StoreTypeOK, Delivery
    <2>. QED BY <1>1, <2>2 DEF Addressable
  <1>3. /\ pc[w] = "turn"
        /\ UNCHANGED storeVars /\ UNCHANGED <<batch, job, ticket, hold, troubles>>
        /\ pc' = [pc EXCEPT ![w] = IF A = {} THEN "send" ELSE "gate"]
    BY <1>1 DEF TurnSpeaks, Goto
  <1>4. PassTypeOK' /\ OthersStay(w) /\ pc'[w] \in {"send", "gate"} /\ to'[w] = A
    BY <1>1, <1>2, <1>3 DEF ExecInv, PassInv, PassTypeOK, OthersStay, Working
  <1>5. StoreInv' /\ Grows
    BY <1>3, StoreUnchanged DEF ExecInv
  <1>. QED BY <1>2, <1>3, <1>4, <1>5, WorkContinues DEF ExecInv, Working

LEMMA GateInv ==
  ASSUME ExecInv, NEW w \in Worker, Gate(w)
  PROVE ExecInv'
  <1>1. /\ pc[w] = "gate"
        /\ pc' = [pc EXCEPT ![w] = "send"]
        /\ \/ hold' = [hold EXCEPT ![w] = MustHold(root[job[w][1]], Cardinality(to[w]))]
           \/ hold' = [hold EXCEPT ![w] = TRUE]
        /\ UNCHANGED storeVars /\ UNCHANGED <<batch, job, ticket, to, troubles>>
    BY DEF Gate, Goto
  <1>2. hold' \in [Worker -> BOOLEAN]
    <2>1. MustHold(root[job[w][1]], Cardinality(to[w])) \in BOOLEAN
      BY DEF MustHold
    <2>. QED BY <1>1, <2>1 DEF ExecInv, PassInv, PassTypeOK
  <1>3. PassTypeOK' /\ OthersStay(w) /\ pc'[w] = "send" /\ to'[w] = to[w]
    BY <1>1, <1>2 DEF ExecInv, PassInv, PassTypeOK, OthersStay, Working
  <1>4. to[w] # {} => depth[job[w][1]] + 1 <= MaxDepth
    BY <1>1 DEF ExecInv, PassInv, WorkKnown
  <1>5. StoreInv' /\ Grows
    BY <1>1, StoreUnchanged DEF ExecInv
  <1>. QED BY <1>1, <1>3, <1>4, <1>5, WorkContinues DEF ExecInv, Working

LEMMA SendInv ==
  ASSUME ExecInv, NEW w \in Worker, Send(w)
  PROVE ExecInv'
  <1>1. PICK l \in {"announce", "complete", "fail"} :
           /\ Goto(w, l)
           /\ \/ \E m \in Message : Reply(job[w], m, to[w], hold[w])
              \/ UNCHANGED storeVars /\ l = "fail"
    BY DEF Send
  <1>2. /\ pc[w] = "send" /\ pc[w] \in Working /\ l \in Working
        /\ UNCHANGED <<batch, job, ticket, to, hold, troubles>>
    BY DEF Send, Working
  <1>3. /\ job[w] \in Delivery /\ to[w] \in SUBSET Agent /\ hold[w] \in BOOLEAN
        /\ status[job[w]] # "none"
        /\ to[w] # {} => depth[job[w][1]] + 1 <= MaxDepth
    BY <1>2 DEF ExecInv, PassInv, PassTypeOK, WorkKnown
  <1>4. StoreInv' /\ Grows /\ (l # "fail" => job[w] \in replied')
    BY <1>1, <1>3, ReplyInv, StoreUnchanged DEF ExecInv
  <1>5. PassTypeOK' /\ OthersStay(w) /\ pc'[w] = l
    BY <1>1, <1>2, GotoPass
  <1>. QED BY <1>1, <1>2, <1>4, <1>5, WorkContinues DEF ExecInv

LEMMA PostNoticeInv ==
  ASSUME ExecInv, NEW w \in Worker, PostNotice(w)
  PROVE ExecInv'
  <1>1. /\ pc[w] = "announce" /\ pc[w] \in Working /\ "complete" \in Working
        /\ Announce(job[w]) \/ UNCHANGED storeVars
        /\ Goto(w, "complete")
        /\ UNCHANGED <<batch, job, ticket, to, hold, troubles>>
    BY DEF PostNotice, Working
  <1>2. job[w] \in Delivery /\ job[w] \in replied
    BY <1>1 DEF ExecInv, PassInv, PassTypeOK, WorkKnown
  <1>3. StoreInv' /\ Grows
    BY <1>1, <1>2, AnnounceInv, StoreUnchanged DEF ExecInv
  <1>4. PassTypeOK' /\ OthersStay(w) /\ pc'[w] = "complete"
    BY <1>1, GotoPass
  <1>5. job[w] \in replied'
    BY <1>2, <1>3 DEF Grows
  <1>. QED BY <1>1, <1>3, <1>4, <1>5, WorkContinues DEF ExecInv

LEMMA CompleteInv ==
  ASSUME ExecInv, NEW w \in Worker, Complete(w)
  PROVE ExecInv'
  <1>1. /\ pc[w] = "complete" /\ pc[w] \in Working /\ "fail" \in Working
        /\ \/ Holds(job[w], ticket[w]) /\ Finish(job[w], "done", 0)
           \/ UNCHANGED storeVars
        /\ \/ Resolved(w)
           \/ Goto(w, "fail") /\ UNCHANGED <<batch, job, ticket, to, hold>>
        /\ UNCHANGED troubles
    BY DEF Complete, Working
  <1>2. job[w] \in Delivery /\ job[w] \in replied
    BY <1>1 DEF ExecInv, PassInv, PassTypeOK, WorkKnown
  <1>3. StoreInv' /\ Grows
    BY <1>1, <1>2, FinishInv, StoreUnchanged, DeliveriesAssumption DEF ExecInv, Holds
  <1>4. CASE Resolved(w)
    <2>1. pc'[w] \notin Working
      BY <1>4, ResolvedPass DEF Working
    <2>. QED BY <1>1, <1>3, <1>4, <2>1, ResolvedPass, WorkEnds DEF ExecInv
  <1>5. CASE Goto(w, "fail") /\ UNCHANGED <<batch, job, ticket, to, hold>>
    <2>1. PassTypeOK' /\ OthersStay(w) /\ pc'[w] = "fail"
      BY <1>1, <1>5, GotoPass
    <2>. QED BY <1>1, <1>3, <1>5, <2>1, WorkContinues DEF ExecInv
  <1>. QED BY <1>1, <1>4, <1>5

LEMMA FailInv ==
  ASSUME ExecInv, NEW w \in Worker, Fail(w)
  PROVE ExecInv'
  <1>1. /\ pc[w] \in {"fail", "requeue", "handback"} /\ pc[w] \in Working
        /\ \/ /\ Holds(job[w], ticket[w])
              /\ Finish(job[w], IF pc[w] = "fail" THEN "failed" ELSE "pending",
                        IF pc[w] = "requeue" THEN RetryTime ELSE 0)
           \/ UNCHANGED storeVars
        /\ Resolved(w)
        /\ Trouble \/ UNCHANGED troubles
    BY DEF Fail, Working
  <1>2. job[w] \in Delivery
    BY <1>1 DEF ExecInv, PassInv, PassTypeOK
  <1>3. StoreInv' /\ Grows
    BY <1>1, <1>2, FinishInv, StoreUnchanged, DeliveriesAssumption DEF ExecInv, Holds
  <1>4. pc'[w] \notin Working
    BY <1>1, ResolvedPass DEF Working
  <1>. QED BY <1>1, <1>3, <1>4, ResolvedPass, WorkEnds, TroubleType DEF ExecInv

LEMMA CrashInv ==
  ASSUME ExecInv, NEW w \in Worker, Crash(w)
  PROVE ExecInv'
  <1>1. /\ pc' = [pc EXCEPT ![w] = "list"]
        /\ batch' = [batch EXCEPT ![w] = {}]
        /\ job' = [job EXCEPT ![w] = NoDelivery]
        /\ ticket' = [ticket EXCEPT ![w] = 0]
        /\ to' = [to EXCEPT ![w] = {}]
        /\ hold' = [hold EXCEPT ![w] = FALSE]
        /\ UNCHANGED storeVars
        /\ Trouble
    BY DEF Crash, Goto
  <1>2. PassTypeOK' /\ OthersStay(w) /\ pc'[w] \notin Working
    BY <1>1 DEF ExecInv, PassInv, PassTypeOK, OthersStay, Working
  <1>. QED BY <1>1, <1>2, StoreUnchanged, WorkEnds, TroubleType DEF ExecInv

(***************************************************************************)
(* People and time.                                                        *)
(***************************************************************************)
LEMMA NoWorkerMoves ==
  ASSUME ExecInv, Grows, UNCHANGED passVars
  PROVE PassInv'
  <1>1. UNCHANGED <<pc, batch, job, ticket, to, hold>>
    BY DEF passVars
  <1>2. ASSUME NEW w \in Worker, pc[w] \in Working
        PROVE /\ status'[job[w]] \notin {"none", "held"}
              /\ ticket[w] <= gen'[job[w]]
              /\ pc[w] \in {"announce", "complete"} => job[w] \in replied'
              /\ pc[w] \in {"gate", "send"} /\ to[w] # {} => depth'[job[w][1]] + 1 <= MaxDepth
    <2>1. job[w] \in Delivery /\ ticket[w] \in Nat /\ gen[job[w]] \in Nat
      BY <1>2 DEF ExecInv, PassInv, PassTypeOK, StoreInv, StoreTypeOK
    <2>2. status[job[w]] \notin {"none", "held"} /\ ticket[w] <= gen[job[w]]
      BY <1>2 DEF ExecInv, PassInv, WorkKnown, TicketsDiffer
    <2>3. depth'[job[w][1]] = depth[job[w][1]]
      BY <2>1, <2>2 DEF ExecInv, StoreInv, RowsExist, Grows
    <2>. QED BY <1>2, <2>1, <2>2, <2>3 DEF ExecInv, PassInv, WorkKnown, Grows
  <1>3. PassTypeOK'
    BY <1>1 DEF ExecInv, PassInv, PassTypeOK
  <1>4. WorkKnown'
    BY <1>1, <1>2 DEF WorkKnown, Working
  <1>5. TicketsDiffer'
    BY <1>1, <1>2 DEF ExecInv, PassInv, TicketsDiffer
  <1>. QED BY <1>3, <1>4, <1>5 DEF PassInv

LEMMA PeopleInv ==
  ASSUME ExecInv, People
  PROVE ExecInv'
  <1>1. UNCHANGED passVars /\ UNCHANGED troubles
    BY DEF People, PersonAsks, PersonCancels, PersonReleases
  <1>2. StoreInv' /\ Grows
    <2>1. ASSUME NEW m \in Message, NEW A \in SUBSET Agent, PersonAsks(m, A)
          PROVE StoreInv' /\ Grows
      BY <2>1, HumanSendInv DEF ExecInv, PersonAsks
    <2>2. ASSUME NEW d \in Delivery, PersonCancels(d)
          PROVE StoreInv' /\ Grows
      BY <2>2, CancelInv DEF ExecInv, PersonCancels
    <2>3. ASSUME NEW r \in Message, PersonReleases(r)
          PROVE StoreInv' /\ Grows
      BY <2>3, ReleaseRootInv DEF ExecInv, PersonReleases
    <2>. QED BY <2>1, <2>2, <2>3 DEF People
  <1>. QED BY <1>1, <1>2, NoWorkerMoves DEF ExecInv

LEMMA TickInv ==
  ASSUME ExecInv, Tick
  PROVE ExecInv'
  <1>1. Elapse /\ UNCHANGED passVars /\ (Trouble \/ UNCHANGED troubles)
    BY DEF Tick
  <1>. QED BY <1>1, ElapseInv, NoWorkerMoves, TroubleType DEF ExecInv

LEMMA InitInv == Init => ExecInv
  <1>. SUFFICES ASSUME Init PROVE ExecInv
    OBVIOUS
  <1>. USE DeliveriesAssumption, ExecutorAssumption
  <1>1. /\ cause = [m \in Message |-> Unsent] /\ root = [m \in Message |-> m]
        /\ depth = [m \in Message |-> 0] /\ replied = {} /\ announced = {} /\ notified = {}
        /\ status = [d \in Delivery |-> "none"] /\ gen = [d \in Delivery |-> 0]
        /\ lease = [d \in Delivery |-> 0] /\ retry = [d \in Delivery |-> 0]
    BY DEF Init, StoreInit
  <1>2. StoreTypeOK
    BY <1>1 DEF StoreTypeOK, DeliveryStatus
  <1>3. ActiveTurnsBounded
    <2>1. \A a \in Agent : Running(a) = {}
      BY <1>1 DEF Running
    <2>. QED BY <2>1, FS_EmptySet DEF ActiveTurnsBounded
  <1>4. RowsExist /\ ResolvedIsVisible /\ OneReplyPerDelivery /\ DepthBounded
    BY <1>1 DEF RowsExist, ResolvedIsVisible, OneReplyPerDelivery, DepthBounded
  <1>5. PassInv
    BY DEF Init, PassInv, PassTypeOK, TicketsDiffer, WorkKnown, Working
  <1>6. troubles \in 0..MaxTroubles
    BY DEF Init
  <1>. QED BY <1>2, <1>3, <1>4, <1>5, <1>6 DEF StoreInv, ExecInv

LEMMA DrainInv ==
  ASSUME ExecInv, NEW w \in Worker, Drain(w)
  PROVE ExecInv'
  <1>1. ASSUME NEW a \in Agent, List(w, a) PROVE ExecInv'
    BY <1>1, ListInv
  <1>2. ASSUME NEW d \in Delivery, Peek(w, d) PROVE ExecInv'
    BY <1>2, PeekInv
  <1>3. CASE LeaveAgent(w)
    BY <1>3, LeaveAgentInv
  <1>4. CASE Attempt(w)
    BY <1>4, ClaimStepInv, ClaimMissedInv, TurnFailsInv, TurnSpeaksInv, GateInv, SendInv,
       PostNoticeInv, CompleteInv, FailInv DEF Attempt
  <1>. QED BY <1>1, <1>2, <1>3, <1>4 DEF Drain

LEMMA StepInv == ExecInv /\ [Next]_vars => ExecInv'
  <1>. SUFFICES ASSUME ExecInv, [Next]_vars PROVE ExecInv'
    OBVIOUS
  <1>1. ASSUME NEW w \in Worker, Drain(w) PROVE ExecInv'
    BY <1>1, DrainInv
  <1>2. ASSUME NEW w \in Worker, Crash(w) PROVE ExecInv'
    BY <1>2, CrashInv
  <1>3. CASE People
    BY <1>3, PeopleInv
  <1>4. CASE Tick
    BY <1>4, TickInv
  <1>5. CASE UNCHANGED vars
    <2>1. UNCHANGED storeVars /\ UNCHANGED passVars /\ UNCHANGED troubles
      BY <1>5 DEF vars
    <2>. QED BY <2>1, StoreUnchanged, NoWorkerMoves, TroubleType DEF ExecInv
  <1>. QED BY <1>1, <1>2, <1>3, <1>4, <1>5 DEF Next

\* The inductive invariant holds in every state of the executors.
THEOREM ExecInvariant == Spec => []ExecInv
  <1>. QED BY InitInv, StepInv, PTL DEF Spec

\* Rows, chains and passes keep their types.
THEOREM ExecTypeCorrect == Spec => []ExecTypeOK
  <1>1. ExecInv => ExecTypeOK
    BY DEF ExecInv, StoreInv, PassInv, PassTypeOK, ExecTypeOK
  <1>. QED BY <1>1, ExecInvariant, PTL

\* No agent runs more turns at a time than its limit, however many workers
\* serve it.
THEOREM TurnsBounded == Spec => []ActiveTurnsBounded
  <1>1. ExecInv => ActiveTurnsBounded
    BY DEF ExecInv, StoreInv
  <1>. QED BY <1>1, ExecInvariant, PTL

\* Two workers at one row hold different generations of it.
THEOREM TicketsFence == Spec => []TicketsDiffer
  <1>1. ExecInv => TicketsDiffer
    BY DEF ExecInv, PassInv
  <1>. QED BY <1>1, ExecInvariant, PTL

\* What is resolved has left a reply or a notice.
THEOREM ResolutionsVisible == Spec => []ResolvedIsVisible
  <1>1. ExecInv => ResolvedIsVisible
    BY DEF ExecInv, StoreInv
  <1>. QED BY <1>1, ExecInvariant, PTL

\* A delivery has one reply, and the rows of a chain stay a tree within the
\* depth limit.
THEOREM ChainsAreTrees == Spec => [](OneReplyPerDelivery /\ DepthBounded)
  <1>1. ExecInv => OneReplyPerDelivery /\ DepthBounded
    BY DEF ExecInv, StoreInv
  <1>. QED BY <1>1, ExecInvariant, PTL

(***************************************************************************)
(* What the steps do to one row.                                           *)
(***************************************************************************)
\* A row changes its status in one of these ways only.
RowMoves(d) ==
    \/ status'[d] = status[d]
    \/ status[d] = "none"
    \/ status[d] \notin Terminal /\ status'[d] = "cancelled" /\ UNCHANGED <<passVars, lease, retry>>
    \/ status[d] = "held" /\ status'[d] = "pending" /\ UNCHANGED <<passVars, lease, retry>>
    \/ status[d] = "running" /\ lease[d] = 0 /\ status'[d] = "pending"
    \/ status[d] = "pending" /\ status'[d] = "running"
    \/ /\ status[d] = "running"
       /\ status'[d] \in {"done", "failed", "pending"}
       /\ \E w \in Worker : job[w] = d /\ ticket[w] = gen[d] /\ pc'[w] # pc[w]

\* A reply adds rows and leaves those that exist.
LEMMA ReplyRows ==
  ASSUME StoreInv, NEW d \in Delivery, NEW e \in Delivery, NEW m \in Message,
         NEW A \in SUBSET Agent, NEW h \in BOOLEAN, Reply(d, m, A, h)
  PROVE status'[e] = status[e] \/ status[e] = "none"
  <1>1. CASE UNCHANGED <<chainVars, rowVars>>
    BY <1>1 DEF rowVars
  <1>2. ASSUME cause[m] = Unsent,
               NEW v, status' = [x \in Delivery |-> IF x \in {m} \X A THEN v ELSE status[x]]
        PROVE status'[e] = status[e] \/ status[e] = "none"
    <2>1. e \in {m} \X A => e[1] = m
      OBVIOUS
    <2>. QED BY <1>2, <2>1, UnsentIsBare
  <1>. QED BY <1>1, <1>2 DEF Reply, Post

LEMMA StepMovesRows ==
  ASSUME ExecInv, Next, NEW d \in Delivery
  PROVE RowMoves(d)
  <1>. USE DEF RowMoves
  <1>0. /\ status \in [Delivery -> DeliveryStatus]
        /\ pc \in [Worker -> {"list", "peek", "claim"} \cup Working]
    BY DEF ExecInv, StoreInv, StoreTypeOK, PassInv, PassTypeOK
  <1>1. CASE UNCHANGED storeVars
    BY <1>1 DEF storeVars
  <1>2. ASSUME NEW w \in Worker, NEW a \in Agent, List(w, a) PROVE RowMoves(d)
    <2>1. status' = [e \in Delivery |-> IF e \in Lapsed(a) THEN "pending" ELSE status[e]]
      BY <1>2 DEF List, Reap
    <2>2. d \in Lapsed(a) => status[d] = "running" /\ lease[d] = 0
      BY DEF Lapsed, Running
    <2>. QED BY <2>1, <2>2
  <1>3. ASSUME NEW w \in Worker, ClaimWithinBudget(job[w]) PROVE RowMoves(d)
    BY <1>0, <1>3 DEF ClaimWithinBudget, CanClaim
  <1>4. ASSUME NEW w \in Worker, Send(w) PROVE RowMoves(d)
    <2>1. job[w] \in Delivery /\ to[w] \in SUBSET Agent /\ hold[w] \in BOOLEAN
      BY <1>4 DEF Send, Working, ExecInv, PassInv, PassTypeOK
    <2>2. UNCHANGED storeVars \/ \E m \in Message : Reply(job[w], m, to[w], hold[w])
      BY <1>4 DEF Send
    <2>. QED BY <1>1, <2>1, <2>2, ReplyRows DEF ExecInv
  <1>5. ASSUME NEW w \in Worker, PostNotice(w) PROVE RowMoves(d)
    BY <1>5 DEF PostNotice, Announce, rowVars, storeVars
  <1>6. ASSUME NEW w \in Worker, Complete(w) PROVE RowMoves(d)
    <2>1. CASE Holds(job[w], ticket[w]) /\ Finish(job[w], "done", 0)
      <3>1. pc'[w] # pc[w]
        BY <1>0, <1>6 DEF Complete, Resolved, NextRow, Goto
      <3>. QED BY <1>0, <2>1, <3>1 DEF Holds, Finish
    <2>. QED BY <1>1, <1>6, <2>1 DEF Complete
  <1>7. ASSUME NEW w \in Worker, Fail(w) PROVE RowMoves(d)
    <2>1. CASE /\ Holds(job[w], ticket[w])
               /\ Finish(job[w], IF pc[w] = "fail" THEN "failed" ELSE "pending",
                         IF pc[w] = "requeue" THEN RetryTime ELSE 0)
      <3>1. pc'[w] # pc[w]
        BY <1>0, <1>7 DEF Fail, Resolved, NextRow, Goto
      <3>. QED BY <1>0, <2>1, <3>1 DEF Holds, Finish
    <2>. QED BY <1>1, <1>7, <2>1 DEF Fail
  <1>8. CASE People
    <2>1. ASSUME NEW m \in Message, NEW A \in SUBSET Agent, PersonAsks(m, A)
          PROVE RowMoves(d)
      <3>1. /\ cause[m] = Unsent
            /\ status' = [e \in Delivery |-> IF e \in {m} \X A THEN "pending" ELSE status[e]]
        BY <2>1 DEF PersonAsks, HumanSend, Post
      <3>2. d \in {m} \X A => d[1] = m
        OBVIOUS
      <3>. QED BY <3>1, <3>2, UnsentIsBare DEF ExecInv
    <2>2. ASSUME NEW e \in Delivery, PersonCancels(e) PROVE RowMoves(d)
      BY <1>0, <2>2 DEF PersonCancels, Cancel
    <2>3. ASSUME NEW r \in Message, PersonReleases(r) PROVE RowMoves(d)
      BY <2>3 DEF PersonReleases, ReleaseRoot
    <2>. QED BY <1>8, <2>1, <2>2, <2>3 DEF People
  <1>9. CASE Tick
    BY <1>9 DEF Tick, Elapse
  <1>10. ASSUME NEW w \in Worker, Attempt(w) PROVE RowMoves(d)
    BY <1>1, <1>3, <1>4, <1>5, <1>6, <1>7, <1>10
       DEF Attempt, Claim, ClaimMissed, TurnFails, TurnSpeaks, Gate
  <1>11. ASSUME NEW w \in Worker, Drain(w) PROVE RowMoves(d)
    BY <1>1, <1>2, <1>10, <1>11 DEF Drain, Peek, LeaveAgent
  <1>12. ASSUME NEW w \in Worker, Crash(w) PROVE RowMoves(d)
    BY <1>1, <1>12 DEF Crash
  <1>. QED BY <1>8, <1>9, <1>11, <1>12 DEF Next

\* A running row ends under its own generation, by its lease or by being
\* cancelled, and a resolved row never changes again.
THEOREM HoldersResolve == Spec => OnlyHolderResolves
  <1>1. ExecInv /\ [Next]_vars => [\A d \in Delivery :
          /\ status[d] \in Terminal => status'[d] = status[d]
          /\ status[d] = "running" /\ status'[d] # "running" =>
              \/ status'[d] = "cancelled"
              \/ lease[d] = 0
              \/ \E w \in Worker : job[w] = d /\ ticket[w] = gen[d] /\ pc'[w] # pc[w]]_vars
    BY StepMovesRows DEF RowMoves, Terminal
  <1>. QED BY <1>1, ExecInvariant, PTL DEF Spec, OnlyHolderResolves

\* No worker, crash or deadline moves a held row.
THEOREM HeldRowsWait == Spec => HeldWaitsForPerson
  <1>1. ExecInv /\ [Next]_vars => [\A d \in Delivery :
          status[d] = "held" /\ status'[d] # "held" =>
            /\ UNCHANGED <<passVars, lease, retry>>
            /\ status'[d] \in {"pending", "cancelled"}]_vars
    BY StepMovesRows DEF RowMoves
  <1>. QED BY <1>1, ExecInvariant, PTL DEF Spec, HeldWaitsForPerson

\* A running row is its holder's, a held row a person's.
THEOREM RowsOwned == Spec => RowsHaveOwners
  <1>. QED BY HoldersResolve, HeldRowsWait DEF RowsHaveOwners

(***************************************************************************)
(* The executors implement BotsChains: every step is a step of a           *)
(* conversation, or leaves the conversation as it is.                      *)
(***************************************************************************)
OpenRows == {d \in Delivery : status[d] \in {"pending", "running"}}
HeldRows == {d \in Delivery : status[d] = "held"}
ClosedRows == {d \in Delivery : status[d] \in Terminal}

\* What BotsChains sees of a state.
Conversation == <<cause, root, depth, OpenRows, HeldRows, ClosedRows, replied>>

ConversationStep == Chains!Next \/ UNCHANGED Conversation

LEMMA SeenUnchanged ==
  ASSUME UNCHANGED <<chainVars, replied>>,
         \A d \in Delivery :
           \/ status'[d] = status[d]
           \/ status[d] \in {"pending", "running"} /\ status'[d] \in {"pending", "running"}
  PROVE ConversationStep
  <1>1. OpenRows' = OpenRows /\ HeldRows' = HeldRows /\ ClosedRows' = ClosedRows
    BY DEF OpenRows, HeldRows, ClosedRows, Terminal
  <1>. QED BY <1>1 DEF ConversationStep, Conversation, chainVars

LEMMA SeenStore ==
  ASSUME UNCHANGED storeVars
  PROVE ConversationStep
  BY SeenUnchanged DEF storeVars, chainVars

\* A row that is over, one way or the other.
LEMMA SeenClose ==
  ASSUME StoreInv, NEW d \in Delivery, NEW v \in Terminal,
         status[d] \in {"pending", "running", "held"},
         status' = [status EXCEPT ![d] = v], UNCHANGED <<chainVars, replied>>
  PROVE ConversationStep
  <1>0. status \in [Delivery -> DeliveryStatus] /\ UNCHANGED <<cause, root, depth, replied>>
    BY DEF StoreInv, StoreTypeOK, chainVars
  <1>1. CASE status[d] = "held"
    <2>1. /\ HeldRows' = HeldRows \ {d} /\ ClosedRows' = ClosedRows \cup {d}
          /\ OpenRows' = OpenRows /\ d \in HeldRows
      BY <1>0, <1>1 DEF OpenRows, HeldRows, ClosedRows, Terminal
    <2>2. Chains!Dismiss(d)
      BY <1>0, <2>1 DEF Chains!Dismiss, OpenRows, HeldRows, ClosedRows
    <2>. QED BY <2>2 DEF ConversationStep, Chains!Next, Delivery, Chains!Delivery
  <1>2. CASE status[d] # "held"
    <2>1. /\ OpenRows' = OpenRows \ {d} /\ ClosedRows' = ClosedRows \cup {d}
          /\ HeldRows' = HeldRows /\ d \in OpenRows
      BY <1>0, <1>2 DEF OpenRows, HeldRows, ClosedRows, Terminal
    <2>2. Chains!Close(d)
      BY <1>0, <2>1 DEF Chains!Close, OpenRows, HeldRows, ClosedRows
    <2>. QED BY <2>2 DEF ConversationStep, Chains!Next, Delivery, Chains!Delivery
  <1>. QED BY <1>1, <1>2

LEMMA SeenFinish ==
  ASSUME StoreInv, NEW d \in Delivery, NEW v \in {"done", "failed", "pending"}, NEW delay,
         status[d] = "running", Finish(d, v, delay)
  PROVE ConversationStep
  <1>1. status' = [status EXCEPT ![d] = v] /\ UNCHANGED <<chainVars, replied>>
    BY DEF Finish
  <1>2. CASE v = "pending"
    BY <1>1, <1>2, SeenUnchanged DEF StoreInv, StoreTypeOK
  <1>3. CASE v # "pending"
    BY <1>1, <1>3, SeenClose DEF Terminal
  <1>. QED BY <1>2, <1>3

\* The rows of a new message join those that exist.
LEMMA SeenPost ==
  ASSUME StoreInv, NEW m \in Message, NEW A \in SUBSET Agent, NEW by, NEW r, NEW k,
         NEW v \in {"pending", "held"}, Post(m, A, by, r, k, v)
  PROVE /\ OpenRows' = IF v = "pending" THEN OpenRows \cup ({m} \X A) ELSE OpenRows
        /\ HeldRows' = IF v = "held" THEN HeldRows \cup ({m} \X A) ELSE HeldRows
        /\ ClosedRows' = ClosedRows
  <1>1. {m} \X A \subseteq Delivery
    BY DEF Delivery
  <1>2. \A d \in {m} \X A : status[d] = "none"
    BY <1>1, UnsentIsBare DEF Post
  <1>3. status' = [d \in Delivery |-> IF d \in {m} \X A THEN v ELSE status[d]]
    BY DEF Post
  <1>. DEFINE N == {m} \X A
  <1>. HIDE DEF N
  <1>4. /\ N \subseteq Delivery /\ \A d \in N : status[d] = "none"
        /\ status' = [d \in Delivery |-> IF d \in N THEN v ELSE status[d]]
    BY <1>1, <1>2, <1>3 DEF N
  <1>5. /\ OpenRows' = IF v = "pending" THEN OpenRows \cup N ELSE OpenRows
        /\ HeldRows' = IF v = "held" THEN HeldRows \cup N ELSE HeldRows
        /\ ClosedRows' = ClosedRows
    BY <1>4 DEF OpenRows, HeldRows, ClosedRows, Terminal
  <1>. QED BY <1>5 DEF N

LEMMA SeenAsk ==
  ASSUME StoreInv, NEW m \in Message, NEW A \in SUBSET Agent, HumanSend(m, A)
  PROVE ConversationStep
  <1>1. Post(m, A, Person, m, 0, "pending") /\ replied' = replied
    BY DEF HumanSend, noteVars
  <1>2. Chains!Ask(m, A)
    BY <1>1, SeenPost DEF Chains!Ask, Post, OpenRows, HeldRows, ClosedRows
  <1>. QED BY <1>2 DEF ConversationStep, Chains!Next

LEMMA SeenReply ==
  ASSUME StoreInv, NEW d \in Delivery, NEW m \in Message, NEW A \in SUBSET Agent,
         NEW h \in BOOLEAN, Reply(d, m, A, h), status[d] \notin {"none", "held"},
         A # {} => depth[d[1]] + 1 <= MaxDepth
  PROVE ConversationStep
  <1>0. status[d] \in DeliveryStatus /\ replied' = replied \cup {d}
    BY DEF StoreInv, StoreTypeOK, Reply
  <1>1. CASE d \in replied
    <2>1. UNCHANGED <<chainVars, rowVars>>
      BY <1>1 DEF Reply
    <2>2. replied' = replied
      BY <1>0, <1>1
    <2>. QED BY <2>1, <2>2, SeenUnchanged DEF rowVars
  <1>. SUFFICES ASSUME d \notin replied PROVE ConversationStep
    BY <1>1
  <1>2. Chains!MayAnswer(d)
    BY <1>0 DEF Chains!MayAnswer, DeliveryStatus
  <1>3. CASE A = {}
    <2>1. UNCHANGED <<chainVars, rowVars>>
      BY <1>3 DEF Reply
    <2>2. Chains!AnswerQuietly(d)
      BY <1>0, <1>2, <2>1 DEF Chains!AnswerQuietly, chainVars, rowVars
    <2>. QED BY <2>2 DEF ConversationStep, Chains!Next, Delivery, Chains!Delivery
  <1>4. CASE A # {}
    <2>1. Post(m, A, d, root[d[1]], depth[d[1]] + 1, IF h THEN "held" ELSE "pending")
      BY <1>4 DEF Reply
    <2>2. depth[d[1]] < MaxDepth
      BY <1>4, ExecutorAssumption DEF StoreInv, StoreTypeOK, Delivery
    <2>3. /\ ClosedRows' = ClosedRows
          /\ \/ OpenRows' = OpenRows \cup ({m} \X A) /\ HeldRows' = HeldRows
             \/ HeldRows' = HeldRows \cup ({m} \X A) /\ OpenRows' = OpenRows
      BY <2>1, SeenPost
    <2>4. /\ cause[m] = Unsent
          /\ cause' = [cause EXCEPT ![m] = d]
          /\ root' = [root EXCEPT ![m] = root[d[1]]]
          /\ depth' = [depth EXCEPT ![m] = depth[d[1]] + 1]
      BY <2>1 DEF Post
    <2>5. Chains!AnswerAndWake(d, m, A)
      BY <1>0, <1>2, <2>2, <2>3, <2>4
         DEF Chains!AnswerAndWake, OpenRows, HeldRows, ClosedRows
    <2>. QED BY <2>5 DEF ConversationStep, Chains!Next, Delivery, Chains!Delivery
  <1>. QED BY <1>3, <1>4

LEMMA SeenRelease ==
  ASSUME StoreInv, NEW r \in Message, ReleaseRoot(r)
  PROVE ConversationStep
  <1>1. /\ status' = [d \in Delivery |->
              IF status[d] = "held" /\ root[d[1]] = r THEN "pending" ELSE status[d]]
        /\ UNCHANGED <<cause, root, depth, replied>>
    BY DEF ReleaseRoot, chainVars, noteVars
  <1>2. /\ HeldRows' = {d \in HeldRows : root[d[1]] # r}
        /\ OpenRows' = OpenRows \cup {d \in HeldRows : root[d[1]] = r}
        /\ ClosedRows' = ClosedRows
    BY <1>1 DEF OpenRows, HeldRows, ClosedRows, Terminal
  <1>3. Chains!Release(r)
    BY <1>1, <1>2 DEF Chains!Release, OpenRows, HeldRows, ClosedRows
  <1>. QED BY <1>3 DEF ConversationStep, Chains!Next

LEMMA SeenStep ==
  ASSUME ExecInv, Next
  PROVE ConversationStep
  <1>0. StoreInv /\ status \in [Delivery -> DeliveryStatus]
    BY DEF ExecInv, StoreInv, StoreTypeOK
  <1>1. ASSUME NEW a \in Agent, Reap(a) PROVE ConversationStep
    <2>1. \A d \in Lapsed(a) : status[d] = "running"
      BY DEF Lapsed, Running
    <2>. QED BY <1>1, <2>1, SeenUnchanged DEF Reap, noteVars
  <1>2. ASSUME NEW d, ClaimWithinBudget(d) PROVE ConversationStep
    BY <1>0, <1>2, SeenUnchanged DEF ClaimWithinBudget, CanClaim, noteVars
  <1>3. ASSUME NEW w \in Worker, Attempt(w) PROVE ConversationStep
    <2>0. pc[w] \in Working \cup {"claim"} /\ job[w] \in Delivery
      BY <1>3 DEF Attempt, Claim, ClaimMissed, TurnFails, TurnSpeaks, Gate, Send, PostNotice,
                  Complete, Fail, Working, ExecInv, PassInv, PassTypeOK
    <2>1. CASE Send(w)
      <3>1. /\ to[w] \in SUBSET Agent /\ hold[w] \in BOOLEAN
            /\ status[job[w]] \notin {"none", "held"}
            /\ to[w] # {} => depth[job[w][1]] + 1 <= MaxDepth
        BY <2>1 DEF Send, Working, ExecInv, PassInv, PassTypeOK, WorkKnown
      <3>2. UNCHANGED storeVars \/ \E m \in Message : Reply(job[w], m, to[w], hold[w])
        BY <2>1 DEF Send
      <3>. QED BY <1>0, <2>0, <3>1, <3>2, SeenReply, SeenStore
    <2>2. CASE PostNotice(w)
      BY <2>2, SeenStore, SeenUnchanged DEF PostNotice, Announce, rowVars
    <2>3. CASE Complete(w)
      BY <1>0, <2>0, <2>3, SeenFinish, SeenStore DEF Complete, Holds
    <2>4. CASE Fail(w)
      BY <1>0, <2>0, <2>4, SeenFinish, SeenStore DEF Fail, Holds
    <2>. QED BY <1>2, <1>3, <2>1, <2>2, <2>3, <2>4, SeenStore
             DEF Attempt, Claim, ClaimMissed, TurnFails, TurnSpeaks, Gate
  <1>4. ASSUME NEW w \in Worker, Drain(w) PROVE ConversationStep
    BY <1>1, <1>3, <1>4, SeenStore DEF Drain, List, Peek, LeaveAgent
  <1>5. ASSUME NEW w \in Worker, Crash(w) PROVE ConversationStep
    BY <1>5, SeenStore DEF Crash
  <1>6. ASSUME NEW m \in Message, NEW A \in SUBSET Agent, PersonAsks(m, A)
        PROVE ConversationStep
    BY <1>0, <1>6, SeenAsk DEF PersonAsks
  <1>7. ASSUME NEW d \in Delivery, PersonCancels(d) PROVE ConversationStep
    <2>1. /\ status[d] \in {"pending", "running", "held"}
          /\ status' = [status EXCEPT ![d] = "cancelled"]
          /\ UNCHANGED <<chainVars, replied>>
      BY <1>0, <1>7 DEF PersonCancels, Cancel, noteVars, DeliveryStatus
    <2>. QED BY <1>0, <2>1, SeenClose DEF Terminal
  <1>8. ASSUME NEW r \in Message, PersonReleases(r) PROVE ConversationStep
    BY <1>0, <1>8, SeenRelease DEF PersonReleases
  <1>9. CASE Tick
    BY <1>9, SeenUnchanged DEF Tick, Elapse, noteVars
  <1>. QED BY <1>4, <1>5, <1>6, <1>7, <1>8, <1>9 DEF Next, People

\* Executors, leases, retries, crashes and lost answers bring about a
\* conversation as people are promised it.
THEOREM PromisesKept == Spec => KeepsPromises
  <1>1. Init => Chains!Init
    BY DEF Init, StoreInit, Chains!Init, Terminal
  <1>2. ExecInv /\ [Next]_vars => [Chains!Next]_Chains!chainsVars
    <2>. SUFFICES ASSUME ExecInv, [Next]_vars
                  PROVE Chains!Next \/ UNCHANGED Chains!chainsVars
      OBVIOUS
    <2>1. CASE Next
      BY <2>1, SeenStep DEF ConversationStep, Conversation, Chains!chainsVars,
                            OpenRows, HeldRows, ClosedRows
    <2>2. CASE UNCHANGED vars
      BY <2>2 DEF vars, storeVars, Chains!chainsVars
    <2>. QED BY <2>1, <2>2
  <1>. QED BY <1>1, <1>2, ExecInvariant, PTL DEF Spec, KeepsPromises, Chains!Spec

=============================================================================
