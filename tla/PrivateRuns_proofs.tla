------------------------- MODULE PrivateRuns_proofs -------------------------
(***************************************************************************)
(* Theorems about private coding tasks, for any sets of tasks, runs,       *)
(* sessions and computers: what LocalHubCards_proofs shows of the card     *)
(* queue survives the calls that park and unpark private tasks, and a      *)
(* remote task is only ever worked on under its one current run.           *)
(***************************************************************************)
EXTENDS PrivateRuns, LocalHubCards_proofs

(***************************************************************************)
(* The inductive invariant.                                                *)
(***************************************************************************)
\* A private task is nobody's child, so parking it stalls no parent.
TasksAreRoots == \A e \in link : e[2] \notin Private

Untouched == {"absent", "awaiting_preparation"}

\* What the tables say of a task in each stage of its preparation.
TaskOK(c) ==
    /\ prep[c] = "claimed" => prepSession[c] \in Session
    /\ <<c, prepSession[c]>> \notin retired
    /\ status[c] \in Untouched => prep[c] # "prepared" /\ RunsOf(c) = {}
    /\ c \in workspace <=> status[c] \notin Untouched
    /\ status[c] = "awaiting_private_run" => prep[c] = "prepared" /\ RunsOf(c) = {}
    /\ status[c] \in Untouched \cup {"awaiting_private_run"} =>
         Children(c) = {} /\ checkpoint[c] = 0

\* A run that was not requested has no other row, and a task with a run was
\* prepared the remote way.
RunOK(r) ==
    /\ ~Requested(r) => runSession[r] = NoSession /\ nextRun[r] = NoRun
    /\ Requested(r) => prep[runCard[r]] = "prepared"

RetriesWait == \A c \in Private : status[c] = "awaiting_retry_validation" =>
    \E r \in RunsOf(c) : Current(r) /\ runSession[r] = NoSession

RemoteTasks == {c \in Private : Remote(c)}

\* Preparations are numbered as they were requested, and the one a computer
\* works on was requested before the others it has to do.
RowsOrdered ==
    /\ \A c \in RemoteTasks : prepRow[c] <= Cardinality(RemoteTasks)
    /\ \A c, d \in RemoteTasks : prepRow[c] = prepRow[d] => c = d
    /\ \A c, d \in Private :
         prep[c] = "claimed" /\ prep[d] \in {"queued", "claimed"} /\ Target[c] = Target[d]
           => prepRow[c] <= prepRow[d]

TablesInv ==
    /\ RunsTypeOK
    /\ \A c \in Private : TaskOK(c)
    /\ \A r \in Run : RunOK(r)
    /\ OneCurrentRun
    /\ WorkHasRun
    /\ SessionServesOnce
    /\ RunStartsClean
    /\ RetriesWait
    /\ RowsOrdered

PrivateInv == CardsInv /\ TasksAreRoots /\ TablesInv

(***************************************************************************)
(* The card queue under private tasks.                                     *)
(***************************************************************************)
\* Staging, preparing, stopping and retrying give one task without a result
\* and, afterwards, without a lease another status: the queue stays correct.
LEMMA ParkStep ==
  ASSUME CardsInv, TasksAreRoots, NEW c \in Private, status[c] # "review",
         status'[c] \in {"ready", "blocked"} \cup Parked,
         status' = [status EXCEPT ![c] = status'[c]],
         holder' = [holder EXCEPT ![c] = NoSession], left' = left,
         row' \in [Card -> Nat], deps' \in [Card -> SUBSET Card],
         \A d \in Card : d # c => deps'[d] = deps[d],
         UNCHANGED <<link, output, checkpoint, checkedIn, revoked>>
  PROVE  CardsInv' /\ TasksAreRoots'
  <1>0. c \in Card
    BY CardsAssumption, RunsAssumption
  <1>1. CardsTypeOK'
    BY <1>0 DEF CardsInv, CardsTypeOK, Status
  <1>2. \A d \in Card : /\ d # c => status'[d] = status[d]
                        /\ holder'[d] = (IF d = c THEN NoSession ELSE holder[d])
    BY <1>0 DEF CardsInv, CardsTypeOK
  <1>3. status'[c] \notin {"running", "review", "waiting_on_child"}
    BY DEF Parked
  <1>4. LeaseMeansRunning' /\ OneLeasePerNode'
    BY <1>2, <1>3 DEF CardsInv, LeaseMeansRunning, OneLeasePerNode
  <1>5. OutputMeansReview'
    BY <1>2, <1>3 DEF CardsInv, OutputMeansReview
  <1>6. DepsBeforeWork'
    BY <1>2, <1>3 DEF CardsInv, DepsBeforeWork
  <1>7. NoStalledParent'
    <2>. SUFFICES ASSUME NEW p \in Card, status'[p] = "waiting_on_child"
                  PROVE /\ \E k \in Children(p)' : status'[k] # "review"
                        /\ \A k \in Children(p)' : ~IsBlocked(status'[k])
      BY DEF NoStalledParent
    <2>1. status[p] = "waiting_on_child" /\ Children(p)' = Children(p)
      BY <1>2, <1>3 DEF Children
    <2>2. \A k \in Children(p) : k \in Card /\ status'[k] = status[k]
      BY <1>2 DEF TasksAreRoots, Children
    <2>. QED BY <2>1, <2>2 DEF CardsInv, NoStalledParent
  <1>. QED BY <1>1, <1>4, <1>5, <1>6, <1>7 DEF CardsInv, TasksAreRoots

\* What a call of the queue may do to a private task.
Kept(c) ==
    /\ status[c] \in {"absent"} \cup Parked => status'[c] = status[c]
    /\ status'[c] \in {"absent"} \cup Parked => status'[c] = status[c]
    /\ Remote(c) => holder'[c] \in {holder[c], NoSession}
    /\ output'[c] # output[c] => output'[c] # NoOutput /\ output'[c].session = holder[c]
    /\ holder[c] = NoSession =>
         /\ output'[c] = output[c]
         /\ checkpoint'[c] = checkpoint[c]
         /\ Children(c)' = Children(c)

\* Settling moves no parked card and parks none, and takes leases only.
LEMMA SettledKeeps ==
  ASSUME CardsInv, NEW c \in Card
  PROVE  /\ status[c] \in {"absent"} \cup Parked => Settled[c] = status[c]
         /\ Settled[c] \in {"absent"} \cup Parked => Settled[c] = status[c]
         /\ SettledHolder[c] \in {holder[c], NoSession}
  <1>1. Reaped \in [Card -> Status]
    BY DEF Reaped, CardsInv, CardsTypeOK, Status
  <1>2. /\ status[c] \in {"absent"} \cup Parked => Reaped[c] = status[c]
        /\ Reaped[c] \in {"absent"} \cup Parked => Reaped[c] = status[c]
    BY DEF Reaped, Expired, Parked, CardsInv, LeaseMeansRunning
  <1>3. /\ Reaped[c] # "waiting_on_child" => Settled[c] = Reaped[c]
        /\ Reaped[c] = "waiting_on_child" => Settled[c] \in {"waiting_on_child", "ready", "blocked"}
    BY <1>1, SettleParentsSpec DEF Settled
  <1>. QED BY <1>2, <1>3 DEF Parked, SettledHolder

\* The same of a settle() after the end of an attempt.
LEMMA GiveUpKeeps ==
  ASSUME CardsInv, NEW s \in Session, NEW d \in Card, Owns(s, d),
         NEW v \in {"review", "blocked", "ready", "waiting_on_child"}, GiveUp(d, v),
         NEW c \in Card
  PROVE  /\ status[c] \in {"absent"} \cup Parked => status'[c] = status[c]
         /\ status'[c] \in {"absent"} \cup Parked => status'[c] = status[c]
         /\ holder'[c] \in {holder[c], NoSession}
  <1>. DEFINE st == [Reaped EXCEPT ![d] = v]
  <1>0. status[d] = "running"
    BY CardsAssumption DEF Owns, CardsInv, LeaseMeansRunning
  <1>1. Reaped \in [Card -> Status] /\ st \in [Card -> Status]
    BY DEF Reaped, CardsInv, CardsTypeOK, Status
  <1>2. /\ status[c] \in {"absent"} \cup Parked => st[c] = status[c]
        /\ st[c] \in {"absent"} \cup Parked => st[c] = status[c]
    BY <1>0, <1>1 DEF Reaped, Expired, Parked, CardsInv, LeaseMeansRunning
  <1>3. status' = SettleParents(st)
    BY DEF GiveUp
  <1>4. holder'[c] \in {holder[c], NoSession}
    BY GiveUpSpec
  <1>. HIDE DEF st
  <1>5. /\ st[c] # "waiting_on_child" => status'[c] = st[c]
        /\ st[c] = "waiting_on_child" => status'[c] \in {"waiting_on_child", "ready", "blocked"}
    BY <1>1, <1>3, SettleParentsSpec
  <1>. QED BY <1>2, <1>4, <1>5 DEF Parked

\* Every call of the queue keeps what the tables of private tasks rest on.
LEMMA QueueKept ==
  ASSUME CardsInv, TasksAreRoots, QueueCall, NEW c \in Private
  PROVE  Kept(c)
  <1>0. c \in Card
    BY CardsAssumption, RunsAssumption
  <1>1. status[c] = "absent" => status'[c] = "absent"
    BY DEF QueueCall
  <1>2. ASSUME status'[c] = status[c], UNCHANGED <<holder, output, checkpoint, link>>
        PROVE Kept(c)
    BY <1>2 DEF Kept, Children
  <1>3. CASE \E d \in Card \ Private : AddCard(d)
    <2>. PICK d \in Card \ Private : AddCard(d)
      BY <1>3
    <2>1. status'[c] = status[c] /\ UNCHANGED <<holder, output, checkpoint, link>>
      BY <1>0 DEF AddCard, Insert, leaseVars, CardsInv, CardsTypeOK
    <2>. QED BY <1>2, <2>1
  <1>4. CASE \E n \in Node : Revoke(n)
    BY <1>2, <1>4 DEF Revoke, leaseVars
  <1>5. ASSUME NEW s \in Session, Presence(s) PROVE Kept(c)
    <2>1. CASE CheckIn(s) \/ CheckOut(s)
      BY <1>2, <2>1 DEF CheckIn, CheckOut, leaseVars
    <2>2. CASE Heartbeat(s)
      <3>1. status' = Settled /\ holder' = SettledHolder /\ UNCHANGED <<output, checkpoint, link>>
        BY <2>2 DEF Heartbeat, boardVars
      <3>. QED BY <1>0, <3>1, SettledKeeps DEF Kept, Children
    <2>. QED BY <1>5, <2>1, <2>2 DEF Presence
  <1>6. CASE Tick
    BY <1>2, <1>6 DEF Tick, boardVars
  <1>7. ASSUME NEW s \in Session, NEW d \in Card, Attempt(s, d) PROVE Kept(c)
    <2>1. ASSUME NEW r \in Content, CompleteCard(s, d, r) PROVE Kept(c)
      <3>1. Owns(s, d) /\ GiveUp(d, "review") /\ UNCHANGED <<checkpoint, link>>
            /\ output' = [output EXCEPT ![d] = [session |-> s, content |-> r]]
        BY <2>1 DEF CompleteCard
      <3>2. /\ status[c] \in {"absent"} \cup Parked => status'[c] = status[c]
            /\ status'[c] \in {"absent"} \cup Parked => status'[c] = status[c]
            /\ holder'[c] \in {holder[c], NoSession}
        BY <1>0, <3>1, GiveUpKeeps
      <3>3. output'[c] # output[c] =>
              output'[c] # NoOutput /\ output'[c].session = holder[c] /\ holder[c] # NoSession
        BY <1>0, <3>1, CardsAssumption DEF Owns, CardsInv, CardsTypeOK
      <3>. QED BY <3>1, <3>2, <3>3 DEF Kept, Children
    <2>2. CASE \E r \in Content : CompleteAgain(s, d, r)
      BY <1>2, <2>2 DEF CompleteAgain, cardVars
    <2>3. ASSUME NEW step \in 1..MaxStep, Checkpoint(s, d, step) PROVE Kept(c)
      <3>1. /\ holder[d] # NoSession
            /\ checkpoint' = [checkpoint EXCEPT ![d] = IF step >= checkpoint[d] THEN step ELSE checkpoint[d]]
            /\ UNCHANGED <<status, holder, link, output>>
        BY <2>3, CardsAssumption DEF Checkpoint, Owns
      <3>. QED BY <1>0, <3>1 DEF Kept, Children, CardsInv, CardsTypeOK
    <2>4. ASSUME NEW v \in {"blocked", "ready", "waiting_on_child"},
                 Owns(s, d), GiveUp(d, v), UNCHANGED <<link, output, checkpoint>>
          PROVE Kept(c)
      BY <1>0, <2>4, GiveUpKeeps DEF Kept, Children
    <2>5. CASE FailCard(s, d) \/ ReleaseCard(s, d)
      BY <2>4, <2>5 DEF FailCard, ReleaseCard, boardVars
    <2>6. ASSUME NEW k \in Card, SpawnChild(s, d, k) PROVE Kept(c)
      <3>1. /\ status[k] = "absent" /\ status' = [status EXCEPT ![k] = "ready"]
            /\ link' = link \cup {<<d, k>>} /\ UNCHANGED <<holder, output, checkpoint>>
        BY <2>6 DEF SpawnChild, Insert, leaseVars
      <3>2. holder[d] # NoSession
        BY <2>6, CardsAssumption DEF SpawnChild, Owns
      <3>3. status'[c] = status[c]
        BY <1>0, <1>1, <3>1 DEF CardsInv, CardsTypeOK
      <3>. QED BY <3>1, <3>2, <3>3 DEF Kept, Children
    <2>7. CASE \E k \in Card : WaitOnChild(s, d, k)
      BY <2>4, <2>7 DEF WaitOnChild
    <2>. QED BY <1>7, <2>1, <2>2, <2>3, <2>5, <2>6, <2>7 DEF Attempt
  <1>. QED BY <1>3, <1>4, <1>5, <1>6, <1>7 DEF QueueCall

\* No call of the queue makes a private task a child.
LEMMA QueueRoots ==
  ASSUME CardsInv, TasksAreRoots, QueueCall
  PROVE  TasksAreRoots'
  <1>1. CASE link' = link
    BY <1>1 DEF TasksAreRoots
  <1>2. CASE \E s \in Session, p, k \in Card : SpawnChild(s, p, k)
    <2>. PICK s \in Session, p \in Card, k \in Card : SpawnChild(s, p, k)
      BY <1>2
    <2>1. /\ status[k] = "absent" /\ status'[k] = "ready"
          /\ link' = link \cup {<<p, k>>}
      BY DEF SpawnChild, Insert, CardsInv, CardsTypeOK
    <2>2. k \notin Private
      BY <2>1 DEF QueueCall
    <2>. QED BY <2>1, <2>2 DEF TasksAreRoots
  <1>3. link' = link \/ \E s \in Session, p, k \in Card : SpawnChild(s, p, k)
    BY ZenonT(60) DEF QueueCall, AddCard, Revoke, Presence, CheckIn, CheckOut, Heartbeat, Attempt,
       CompleteCard, CompleteAgain, Checkpoint, FailCard, ReleaseCard, WaitOnChild, Tick,
       boardVars, cardVars
  <1>. QED BY <1>1, <1>2, <1>3

\* A call of the queue is a step of the queue.
LEMMA QueueStep ==
  ASSUME CardsInv, QueueCall
  PROVE  Next
  BY DEF QueueCall, Next, Owner

(***************************************************************************)
(* The tables of private tasks.                                            *)
(***************************************************************************)
\* They stay right under any step that only moves cards, the way calls of the
\* queue and claims do.
LEMMA KeptStep ==
  ASSUME PrivateInv, CardsInv', \A c \in Private : Kept(c),
         UNCHANGED <<prepVars, runVars>>, assigned' \in SUBSET Private
  PROVE  TablesInv'
  <1>0. UNCHANGED <<prep, prepRow, prepSession, retired, workspace,
                    runCard, runSession, stopped, nextRun>>
    BY DEF prepVars, runVars
  <1>1. RunsTypeOK'
    BY <1>0 DEF PrivateInv, TablesInv, RunsTypeOK
  <1>2. ASSUME NEW c \in Private PROVE TaskOK(c)'
    <2>1. TaskOK(c) /\ Kept(c) /\ RunsOf(c)' = RunsOf(c)
      BY <1>0 DEF PrivateInv, TablesInv, RunsOf
    <2>2. /\ status'[c] \in Untouched <=> status[c] \in Untouched
          /\ status'[c] = "awaiting_private_run" <=> status[c] = "awaiting_private_run"
      BY <2>1 DEF Kept, Untouched, Parked
    <2>3. status[c] \in Untouched \cup {"awaiting_private_run"} => holder[c] = NoSession
      BY CardsAssumption, RunsAssumption DEF PrivateInv, CardsInv, LeaseMeansRunning, Untouched
    <2>. QED BY <1>0, <2>1, <2>2, <2>3 DEF TaskOK, Kept
  <1>3. \A r \in Run : RunOK(r)'
    BY <1>0 DEF PrivateInv, TablesInv, RunOK, Requested
  <1>4. OneCurrentRun' /\ SessionServesOnce'
    BY <1>0 DEF PrivateInv, TablesInv, OneCurrentRun, SessionServesOnce, Current, Requested
  <1>5. WorkHasRun'
    <2>. SUFFICES ASSUME NEW c \in Private, Remote(c)
                  PROVE /\ holder'[c] # NoSession =>
                             \E r \in RunsOf(c) : Current(r) /\ runSession[r] = holder'[c]
                        /\ output'[c] # NoOutput =>
                             \E r \in RunsOf(c) : Current(r) /\ runSession[r] = output'[c].session
      BY <1>0 DEF WorkHasRun, Remote, RunsOf, Current, Requested
    <2>1. Kept(c) /\ WorkHasRun
      BY DEF PrivateInv, TablesInv
    <2>. QED BY <2>1 DEF Kept, WorkHasRun
  <1>6. RunStartsClean'
    <2>. SUFFICES ASSUME NEW r \in Run, Current(r), runSession[r] = NoSession
                  PROVE /\ holder'[runCard[r]] = NoSession
                        /\ output'[runCard[r]] = NoOutput
                        /\ Children(runCard[r])' = {}
                        /\ checkpoint'[runCard[r]] = 0
      BY <1>0 DEF RunStartsClean, Current, Requested, Children
    <2>1. runCard[r] \in Private /\ Remote(runCard[r])
      BY DEF PrivateInv, TablesInv, RunsTypeOK, RunOK, Current, Requested, Remote
    <2>2. Kept(runCard[r]) /\ RunStartsClean
      BY <2>1 DEF PrivateInv, TablesInv
    <2>. QED BY <2>1, <2>2 DEF Kept, RunStartsClean
  <1>7. RetriesWait'
    <2>. SUFFICES ASSUME NEW c \in Private, status'[c] = "awaiting_retry_validation"
                  PROVE \E r \in RunsOf(c) : Current(r) /\ runSession[r] = NoSession
      BY <1>0 DEF RetriesWait, RunsOf, Current, Requested
    <2>1. status[c] = "awaiting_retry_validation"
      BY DEF Kept, Parked
    <2>. QED BY <2>1 DEF PrivateInv, TablesInv, RetriesWait
  <1>8. RowsOrdered'
    BY <1>0 DEF PrivateInv, TablesInv, RowsOrdered, RemoteTasks, Remote
  <1>. QED BY <1>1, <1>2, <1>3, <1>4, <1>5, <1>6, <1>7, <1>8 DEF TablesInv

\* A claim keeps the queue correct, moves no other task and takes up no parked
\* one.
LEMMA ClaimKeeps ==
  ASSUME CardsInv, TasksAreRoots, NEW s \in Session, NEW c \in Card,
         NEW Allowed \in SUBSET Card, ClaimCardFrom(s, c, Allowed)
  PROVE  /\ CardsInv'
         /\ TasksAreRoots'
         /\ \A d \in Private : d # c \/ ~Remote(d) => Kept(d)
         /\ status[c] \notin Untouched \cup Parked
         /\ \A d \in Card : /\ status'[d] = (IF d = c THEN "running" ELSE Settled[d])
                            /\ holder'[d] = (IF d = c THEN s ELSE SettledHolder[d])
         /\ UNCHANGED <<row, deps, link, output, checkpoint>>
  <1>1. /\ c \in Allowed /\ Settled[c] = "ready"
        /\ status' = [Settled EXCEPT ![c] = "running"]
        /\ holder' = [SettledHolder EXCEPT ![c] = s]
        /\ UNCHANGED <<row, deps, link, output, checkpoint>>
    BY DEF ClaimCardFrom, Candidates, boardVars
  <1>2. CardsInv'
    BY ClaimCardInv
  <1>3. status[c] \notin Untouched \cup Parked
    BY <1>1, SettledKeeps DEF Untouched, Parked
  <1>4. \A d \in Card : /\ status'[d] = (IF d = c THEN "running" ELSE Settled[d])
                        /\ holder'[d] = (IF d = c THEN s ELSE SettledHolder[d])
    BY <1>1, SettledSpec
  <1>5. ASSUME NEW d \in Private, d # c \/ ~Remote(d) PROVE Kept(d)
    <2>1. d \in Card
      BY CardsAssumption, RunsAssumption
    <2>2. CASE d # c
      BY <1>1, <1>4, <2>1, <2>2, SettledKeeps DEF Kept, Children
    <2>3. CASE d = c
      BY <1>1, <1>3, <1>4, <1>5, <2>1, <2>3 DEF Kept, Children, Untouched, Parked
    <2>. QED BY <2>2, <2>3
  <1>. QED BY <1>1, <1>2, <1>3, <1>4, <1>5 DEF TasksAreRoots

\* A step that parks or unparks one task, and may finish its preparation.
LEMMA ParkTables ==
  ASSUME PrivateInv, CardsInv', NEW c \in Private,
         status' = [status EXCEPT ![c] = status'[c]],
         holder' = [holder EXCEPT ![c] = NoSession],
         UNCHANGED <<link, output, checkpoint>>,
         prep' = prep \/ (prep[c] = "claimed" /\ prep' = [prep EXCEPT ![c] = "prepared"]),
         workspace' \in SUBSET Private, \A d \in Private : d # c => (d \in workspace' <=> d \in workspace),
         TaskOK(c)',
         status'[c] = "awaiting_retry_validation" => \E r \in RunsOf(c) : Current(r) /\ runSession[r] = NoSession,
         stopped' \in SUBSET Run,
         UNCHANGED <<prepRow, prepSession, retired, assigned, runCard, runSession, nextRun>>
  PROVE  TablesInv'
  <1>0. c \in Card
    BY CardsAssumption, RunsAssumption
  <1>a. \A d \in Card : /\ d # c => status'[d] = status[d]
                        /\ holder'[d] = (IF d = c THEN NoSession ELSE holder[d])
    BY <1>0 DEF PrivateInv, CardsInv, CardsTypeOK
  <1>b. prep \in [Private -> {"none", "queued", "claimed", "prepared"}]
    BY DEF PrivateInv, TablesInv, RunsTypeOK
  <1>c. \A d \in Private : /\ Remote(d)' <=> Remote(d)
                           /\ prep[d] = "prepared" => prep'[d] = "prepared"
                           /\ prep'[d] \in {"queued", "claimed"} => prep'[d] = prep[d]
    BY <1>b DEF Remote
  <1>1. RunsTypeOK'
    BY <1>b DEF PrivateInv, TablesInv, RunsTypeOK
  <1>2. ASSUME NEW d \in Private PROVE TaskOK(d)'
    <2>1. CASE d = c
      BY <2>1
    <2>2. CASE d # c
      <3>1. d \in Card /\ TaskOK(d)
        BY CardsAssumption, RunsAssumption DEF PrivateInv, TablesInv
      <3>2. status'[d] = status[d] /\ prep'[d] = prep[d]
        BY <1>a, <1>b, <2>2, <3>1
      <3>. QED BY <2>2, <3>1, <3>2 DEF TaskOK, RunsOf, Children
    <2>. QED BY <2>1, <2>2
  <1>3. \A r \in Run : RunOK(r)'
    BY <1>c DEF PrivateInv, TablesInv, RunsTypeOK, RunOK, Requested
  <1>4. OneCurrentRun' /\ SessionServesOnce'
    BY DEF PrivateInv, TablesInv, OneCurrentRun, SessionServesOnce, Current, Requested
  <1>5. WorkHasRun'
    <2>. SUFFICES ASSUME NEW d \in Private, Remote(d)
                  PROVE /\ holder'[d] # NoSession =>
                             \E r \in RunsOf(d) : Current(r) /\ runSession[r] = holder'[d]
                        /\ output[d] # NoOutput =>
                             \E r \in RunsOf(d) : Current(r) /\ runSession[r] = output[d].session
      BY <1>c DEF WorkHasRun, RunsOf, Current, Requested
    <2>1. d \in Card /\ WorkHasRun
      BY CardsAssumption, RunsAssumption DEF PrivateInv, TablesInv
    <2>. QED BY <1>a, <2>1 DEF WorkHasRun
  <1>6. RunStartsClean'
    <2>. SUFFICES ASSUME NEW r \in Run, Current(r), runSession[r] = NoSession
                  PROVE /\ holder'[runCard[r]] = NoSession
                        /\ output[runCard[r]] = NoOutput
                        /\ Children(runCard[r]) = {}
                        /\ checkpoint[runCard[r]] = 0
      BY DEF RunStartsClean, Current, Requested, Children
    <2>1. runCard[r] \in Card
      BY CardsAssumption, RunsAssumption DEF PrivateInv, TablesInv, RunsTypeOK, Current, Requested
    <2>. QED BY <1>a, <2>1 DEF PrivateInv, TablesInv, RunStartsClean
  <1>7. RetriesWait'
    <2>. SUFFICES ASSUME NEW d \in Private, status'[d] = "awaiting_retry_validation"
                  PROVE \E r \in RunsOf(d) : Current(r) /\ runSession[r] = NoSession
      BY DEF RetriesWait, RunsOf, Current, Requested
    <2>1. d \in Card
      BY CardsAssumption, RunsAssumption
    <2>. QED BY <1>a, <2>1 DEF PrivateInv, TablesInv, RetriesWait
  <1>8. RowsOrdered'
    <2>1. RemoteTasks' = RemoteTasks
      BY <1>c DEF RemoteTasks
    <2>2. \A d \in Private : prep'[d] = "claimed" => prep[d] = "claimed"
      BY <1>c
    <2>. QED BY <1>c, <2>1, <2>2 DEF PrivateInv, TablesInv, RowsOrdered
  <1>. QED BY <1>1, <1>2, <1>3, <1>4, <1>5, <1>6, <1>7, <1>8 DEF TablesInv

(***************************************************************************)
(* One lemma per operation.                                                *)
(***************************************************************************)
\* Writing one task's status.
LEMMA NewStatus ==
  ASSUME CardsInv, NEW c \in Private, NEW v, status' = [status EXCEPT ![c] = v]
  PROVE  status'[c] = v /\ status' = [status EXCEPT ![c] = status'[c]]
  <1>1. c \in Card
    BY CardsAssumption, RunsAssumption
  <1>. QED BY <1>1 DEF CardsInv, CardsTypeOK

\* A task without a lease keeps the lease table as it is.
LEMMA NoLease ==
  ASSUME CardsInv, NEW c \in Private, holder[c] = NoSession
  PROVE  holder = [holder EXCEPT ![c] = NoSession]
  BY DEF CardsInv, CardsTypeOK

LEMMA StageInv ==
  ASSUME PrivateInv, NEW c \in Private, Stage(c)
  PROVE  PrivateInv'
  <1>0. c \in Card /\ DeclaredDeps[c] \in SUBSET Card
    BY CardsAssumption, RunsAssumption
  <1>1. /\ status[c] = "absent"
        /\ status' = [status EXCEPT ![c] = "awaiting_preparation"]
        /\ row' = [row EXCEPT ![c] = NextRow]
        /\ deps' = [deps EXCEPT ![c] = DeclaredDeps[c]]
        /\ UNCHANGED <<link, holder, left, output, checkpoint, checkedIn, revoked, prep, prepRow,
             prepSession, retired, workspace, assigned, runCard, runSession, stopped, nextRun>>
    BY DEF Stage, leaseVars, privateVars, prepVars, runVars
  <1>2. holder[c] = NoSession
    BY <1>0, <1>1 DEF PrivateInv, CardsInv, LeaseMeansRunning
  <1>3. holder' = [holder EXCEPT ![c] = NoSession]
    BY <1>1, <1>2, NoLease DEF PrivateInv
  <1>4. row' \in [Card -> Nat] /\ deps' \in [Card -> SUBSET Card]
        /\ \A d \in Card : d # c => deps'[d] = deps[d]
    BY <1>0, <1>1, NextRowType DEF PrivateInv, CardsInv, CardsTypeOK
  <1>a. status'[c] = "awaiting_preparation" /\ status' = [status EXCEPT ![c] = status'[c]]
    BY <1>0, <1>1 DEF PrivateInv, CardsInv, CardsTypeOK
  <1>5. CardsInv' /\ TasksAreRoots'
    BY <1>1, <1>a, <1>3, <1>4, ParkStep DEF PrivateInv, Parked
  <1>6. TaskOK(c)'
    <2>1. TaskOK(c) /\ status'[c] = "awaiting_preparation"
      BY <1>a DEF PrivateInv, TablesInv
    <2>. QED BY <1>1, <2>1 DEF TaskOK, Untouched, RunsOf, Children
  <1>7. workspace' \in SUBSET Private /\ stopped' \in SUBSET Run
    BY <1>1 DEF PrivateInv, TablesInv, RunsTypeOK
  <1>8. TablesInv'
    BY <1>1, <1>a, <1>3, <1>5, <1>6, <1>7, ParkTables
  <1>. QED BY <1>5, <1>8 DEF PrivateInv

\* The other calls that park or unpark one task.
LEMMA ParkInv ==
  ASSUME PrivateInv, NEW c \in Private, status[c] # "review",
         status'[c] \in {"ready", "blocked"} \cup Parked,
         status' = [status EXCEPT ![c] = status'[c]],
         holder' = [holder EXCEPT ![c] = NoSession],
         UNCHANGED <<left, boardVars>>,
         prep' = prep \/ (prep[c] = "claimed" /\ prep' = [prep EXCEPT ![c] = "prepared"]),
         workspace' = workspace \cup {c}, status'[c] # "awaiting_preparation",
         status'[c] = "awaiting_private_run" =>
             status[c] = "awaiting_preparation" /\ prep'[c] = "prepared",
         status'[c] = "awaiting_retry_validation" => \E r \in RunsOf(c) : Current(r) /\ runSession[r] = NoSession,
         stopped' \in SUBSET Run,
         UNCHANGED <<prepRow, prepSession, retired, assigned, runCard, runSession, nextRun>>
  PROVE  PrivateInv'
  <1>0. c \in Card
    BY CardsAssumption, RunsAssumption
  <1>1. row' \in [Card -> Nat] /\ deps' \in [Card -> SUBSET Card]
        /\ UNCHANGED <<row, deps, link, output, checkpoint, checkedIn, revoked>>
    BY DEF PrivateInv, CardsInv, CardsTypeOK, boardVars
  <1>2. CardsInv' /\ TasksAreRoots'
    BY <1>1, ParkStep DEF PrivateInv
  <1>3. TaskOK(c) /\ RunsTypeOK
    BY DEF PrivateInv, TablesInv
  <1>4. status'[c] # "absent"
    BY DEF Parked
  <1>5. TaskOK(c)'
    BY <1>1, <1>3, <1>4 DEF TaskOK, Untouched, RunsOf, Children
  <1>6. workspace' \in SUBSET Private /\ \A d \in Private : d # c => (d \in workspace' <=> d \in workspace)
    BY <1>3 DEF RunsTypeOK
  <1>7. TablesInv'
    BY <1>1, <1>2, <1>5, <1>6, ParkTables
  <1>. QED BY <1>2, <1>7 DEF PrivateInv

\* What the tables say of a task that was staged but has no checkout yet.
LEMMA AwaitingPreparation ==
  ASSUME PrivateInv, NEW c \in Private, status[c] = "awaiting_preparation"
  PROVE  /\ holder[c] = NoSession /\ output[c] = NoOutput
         /\ prep[c] # "prepared" /\ RunsOf(c) = {}
  BY CardsAssumption, RunsAssumption DEF PrivateInv, TablesInv, TaskOK, Untouched,
     CardsInv, LeaseMeansRunning, OutputMeansReview

LEMMA PrepareHereInv ==
  ASSUME PrivateInv, NEW c \in Private, PrepareHere(c)
  PROVE  PrivateInv'
  <1>1. /\ status[c] = "awaiting_preparation" /\ status' = [status EXCEPT ![c] = "ready"]
        /\ workspace' = workspace \cup {c}
        /\ UNCHANGED <<holder, left, boardVars, prep, prepRow, prepSession, retired, assigned,
                       runCard, runSession, stopped, nextRun>>
    BY DEF PrepareHere, leaseVars, runVars
  <1>2. holder' = [holder EXCEPT ![c] = NoSession]
    BY <1>1, AwaitingPreparation, NoLease DEF PrivateInv
  <1>3. stopped' \in SUBSET Run
    BY <1>1 DEF PrivateInv, TablesInv, RunsTypeOK
  <1>4. status'[c] = "ready" /\ status' = [status EXCEPT ![c] = status'[c]]
    BY <1>1, NewStatus DEF PrivateInv
  <1>. QED BY <1>1, <1>2, <1>3, <1>4, ParkInv DEF Parked

LEMMA CompletePreparationInv ==
  ASSUME PrivateInv, NEW s \in Session, NEW c \in Private, CompletePreparation(s, c)
  PROVE  PrivateInv'
  <1>1. /\ status[c] = "awaiting_preparation" /\ prep[c] = "claimed"
        /\ status' = [status EXCEPT ![c] = "awaiting_private_run"]
        /\ prep' = [prep EXCEPT ![c] = "prepared"]
        /\ workspace' = workspace \cup {c}
        /\ UNCHANGED <<holder, left, boardVars, prepRow, prepSession, retired, assigned,
                       runCard, runSession, stopped, nextRun>>
    BY DEF CompletePreparation, leaseVars, runVars
  <1>2. holder' = [holder EXCEPT ![c] = NoSession]
    BY <1>1, AwaitingPreparation, NoLease DEF PrivateInv
  <1>3. stopped' \in SUBSET Run
    BY <1>1 DEF PrivateInv, TablesInv, RunsTypeOK
  <1>4. status'[c] = "awaiting_private_run" /\ status' = [status EXCEPT ![c] = status'[c]]
    BY <1>1, NewStatus DEF PrivateInv
  <1>5. prep'[c] = "prepared"
    BY <1>1 DEF PrivateInv, TablesInv, RunsTypeOK
  <1>. QED BY <1>1, <1>2, <1>3, <1>4, <1>5, ParkInv DEF Parked

\* A task past its preparation has a workspace, so adding it changes nothing.
LEMMA HasWorkspace ==
  ASSUME PrivateInv, NEW c \in Private, status[c] \notin Untouched
  PROVE  workspace = workspace \cup {c}
  BY DEF PrivateInv, TablesInv, TaskOK

LEMMA RetryHereInv ==
  ASSUME PrivateInv, NEW c \in Private, RetryHere(c)
  PROVE  PrivateInv'
  <1>1. /\ status[c] # "review" /\ status[c] \notin Untouched
        /\ status' = [status EXCEPT ![c] = "ready"]
        /\ holder' = [holder EXCEPT ![c] = NoSession]
        /\ UNCHANGED <<left, boardVars, prep, prepRow, prepSession, retired, workspace, assigned,
                       runCard, runSession, stopped, nextRun>>
    BY DEF RetryHere, privateVars, prepVars, runVars, IsBlocked, Parked, Untouched
  <1>2. workspace' = workspace \cup {c}
    BY <1>1, HasWorkspace
  <1>3. stopped' \in SUBSET Run
    BY <1>1 DEF PrivateInv, TablesInv, RunsTypeOK
  <1>4. status'[c] = "ready" /\ status' = [status EXCEPT ![c] = status'[c]]
    BY <1>1, NewStatus DEF PrivateInv
  <1>. QED BY <1>1, <1>2, <1>3, <1>4, ParkInv DEF Parked, Untouched

LEMMA ReassignInv ==
  ASSUME PrivateInv, NEW c \in Private, Reassign(c)
  PROVE  PrivateInv'
  <1>1. /\ UNCHANGED <<status, row, deps, link, holder, left, output, checkpoint, checkedIn, revoked>>
        /\ UNCHANGED <<prepVars, runVars>>
        /\ assigned' \in SUBSET Private
    BY DEF Reassign, cardVars, PrivateInv, TablesInv, RunsTypeOK
  <1>2. CardsInv' /\ TasksAreRoots'
    BY <1>1, NodeFlagsInv DEF PrivateInv, TasksAreRoots, leaseVars, CardsInv, CardsTypeOK
  <1>3. \A d \in Private : Kept(d)
    BY <1>1 DEF Kept, Children
  <1>. QED BY <1>1, <1>2, <1>3, KeptStep DEF PrivateInv

\* A task of which a current run exists: its owner stops it, the target finds
\* its checkout good.
LEMMA RunTask ==
  ASSUME PrivateInv, NEW r \in Run, Requested(r)
  PROVE  /\ runCard[r] \in Private
         /\ prep[runCard[r]] = "prepared"
         /\ status[runCard[r]] \notin Untouched \cup {"awaiting_private_run"}
  BY DEF PrivateInv, TablesInv, RunsTypeOK, RunOK, TaskOK, Requested, RunsOf

LEMMA ReadyRunInv ==
  ASSUME PrivateInv, NEW s \in Session, NEW r \in Run, ReadyRun(s, r)
  PROVE  PrivateInv'
  <1>. DEFINE c == runCard[r]
  <1>1. /\ Requested(r) /\ status[c] = "awaiting_retry_validation"
        /\ status' = [status EXCEPT ![c] = "ready"]
        /\ UNCHANGED <<holder, left, boardVars, prep, prepRow, prepSession, retired, workspace,
                       assigned, runCard, runSession, stopped, nextRun>>
    BY DEF ReadyRun, Queued, Current, leaseVars, privateVars, prepVars, runVars
  <1>2. c \in Private /\ c \in Card
    BY <1>1, RunTask, CardsAssumption, RunsAssumption
  <1>3. holder' = [holder EXCEPT ![c] = NoSession]
    BY <1>1, <1>2, NoLease DEF PrivateInv, CardsInv, LeaseMeansRunning
  <1>4. workspace' = workspace \cup {c}
    BY <1>1, <1>2, HasWorkspace DEF Untouched
  <1>5. stopped' \in SUBSET Run
    BY <1>1 DEF PrivateInv, TablesInv, RunsTypeOK
  <1>6. status'[c] = "ready" /\ status' = [status EXCEPT ![c] = status'[c]]
    BY <1>1, <1>2, NewStatus DEF PrivateInv
  <1>. HIDE DEF c
  <1>. QED BY <1>1, <1>2, <1>3, <1>4, <1>5, <1>6, ParkInv DEF Parked

LEMMA StopRunInv ==
  ASSUME PrivateInv, NEW s \in Session, NEW r \in Run, StopRun(s, r)
  PROVE  PrivateInv'
  <1>. DEFINE c == runCard[r]
  <1>1. /\ Requested(r)
        /\ status' = [status EXCEPT ![c] = IF status[c] = "ready" THEN "blocked" ELSE status[c]]
        /\ UNCHANGED <<holder, left, boardVars, prep, prepRow, prepSession, retired, workspace,
                       assigned, runCard, runSession, nextRun>>
        /\ stopped' \in SUBSET Run
    BY DEF StopRun, Current, leaseVars, prepVars, PrivateInv, TablesInv, RunsTypeOK
  <1>2. c \in Private /\ c \in Card
    BY <1>1, RunTask, CardsAssumption, RunsAssumption
  <1>3. CASE status[c] = "ready"
    <2>1. holder' = [holder EXCEPT ![c] = NoSession]
      BY <1>1, <1>2, <1>3, NoLease DEF PrivateInv, CardsInv, LeaseMeansRunning
    <2>2. workspace' = workspace \cup {c}
      BY <1>1, <1>2, <1>3, HasWorkspace DEF Untouched
    <2>3. status'[c] = "blocked" /\ status' = [status EXCEPT ![c] = status'[c]]
      BY <1>1, <1>2, <1>3, NewStatus DEF PrivateInv
    <2>. HIDE DEF c
    <2>. QED BY <1>1, <1>2, <1>3, <2>1, <2>2, <2>3, ParkInv DEF Parked
  <1>4. CASE status[c] # "ready"
    <2>1. status' = status
      BY <1>1, <1>4 DEF PrivateInv, CardsInv, CardsTypeOK
    <2>2. CardsInv' /\ TasksAreRoots'
      BY <1>1, <2>1, NodeFlagsInv DEF PrivateInv, TasksAreRoots, boardVars, leaseVars, CardsInv, CardsTypeOK
    <2>3. TablesInv'
      BY <1>1, <2>1 DEF boardVars, PrivateInv, TablesInv, RunsTypeOK, TaskOK, RunOK, OneCurrentRun,
         WorkHasRun, SessionServesOnce, RunStartsClean, RetriesWait, RowsOrdered, RemoteTasks,
         Remote, RunsOf, Requested, Current, Children
    <2>. QED BY <2>2, <2>3 DEF PrivateInv
  <1>. QED BY <1>3, <1>4

\* A step of the preparation of one task that is still without a checkout.
LEMMA PrepInv ==
  ASSUME PrivateInv, NEW c \in Private, status[c] = "awaiting_preparation",
         UNCHANGED <<cardVars, workspace, assigned, runVars>>,
         RunsTypeOK', TaskOK(c)', RowsOrdered',
         \A d \in Private : d # c => prep'[d] = prep[d] /\ prepSession'[d] = prepSession[d],
         retired' \subseteq retired \cup {<<c, prepSession[c]>>}
  PROVE  PrivateInv'
  <1>1. UNCHANGED <<status, row, deps, link, holder, left, output, checkpoint, checkedIn, revoked,
                    runCard, runSession, stopped, nextRun, workspace>>
    BY DEF cardVars, runVars
  <1>2. CardsInv' /\ TasksAreRoots'
    BY <1>1, NodeFlagsInv DEF PrivateInv, TasksAreRoots, leaseVars, CardsInv, CardsTypeOK
  <1>3. RunsOf(c) = {} /\ holder[c] = NoSession /\ output[c] = NoOutput
    BY AwaitingPreparation
  <1>4. \A d \in Private : TaskOK(d)'
    <2>. TAKE d \in Private
    <2>1. CASE d = c
      BY <2>1
    <2>2. CASE d # c
      BY <1>1, <2>2 DEF PrivateInv, TablesInv, TaskOK, RunsOf, Children
    <2>. QED BY <2>1, <2>2
  <1>5. \A r \in Run : RunOK(r)'
    <2>. TAKE r \in Run
    <2>1. RunOK(r) /\ RunsTypeOK /\ runCard[r] # c
      BY <1>3 DEF PrivateInv, TablesInv, RunsOf
    <2>. QED BY <1>1, <2>1 DEF RunOK, RunsTypeOK, Requested
  <1>6. OneCurrentRun' /\ SessionServesOnce' /\ RunStartsClean' /\ RetriesWait'
    BY <1>1 DEF PrivateInv, TablesInv, OneCurrentRun, SessionServesOnce, RunStartsClean,
       RetriesWait, RunsOf, Current, Requested, Children
  <1>7. WorkHasRun'
    BY <1>1, <1>3 DEF PrivateInv, TablesInv, WorkHasRun, Remote, RunsOf, Current, Requested
  <1>. QED BY <1>2, <1>4, <1>5, <1>6, <1>7 DEF PrivateInv, TablesInv

\* A new preparation gets a number above all others.
LEMMA RequestPreparationInv ==
  ASSUME PrivateInv, NEW s \in Session, NEW c \in Private, RequestPreparation(s, c)
  PROVE  PrivateInv'
  <1>1. /\ status[c] = "awaiting_preparation" /\ prep[c] = "none"
        /\ prep' = [prep EXCEPT ![c] = "queued"]
        /\ prepRow' = [prepRow EXCEPT ![c] = 1 + Cardinality(RemoteTasks)]
        /\ UNCHANGED <<cardVars, prepSession, retired, workspace, assigned, runVars>>
    BY DEF RequestPreparation, RemoteTasks
  <1>2. RunsTypeOK /\ TaskOK(c) /\ RowsOrdered
    BY DEF PrivateInv, TablesInv
  <1>3. /\ IsFiniteSet(RemoteTasks) /\ Cardinality(RemoteTasks) \in Nat
        /\ c \notin RemoteTasks
        /\ RemoteTasks' = RemoteTasks \cup {c}
        /\ Cardinality(RemoteTasks') = Cardinality(RemoteTasks) + 1
    <2>1. IsFiniteSet(RemoteTasks)
      <3>1. RemoteTasks \subseteq Card
        BY CardsAssumption, RunsAssumption DEF RemoteTasks
      <3>. QED BY <3>1, CardsAssumption, FS_Subset
    <2>2. c \notin RemoteTasks /\ RemoteTasks' = RemoteTasks \cup {c}
      BY <1>1, <1>2 DEF RemoteTasks, Remote, RunsTypeOK
    <2>. QED BY <2>1, <2>2, FS_CardinalityType, FS_AddElement
  <1>4. \A d \in Private : /\ d # c => prep'[d] = prep[d] /\ prepRow'[d] = prepRow[d]
                           /\ prepRow[d] \in Nat
    BY <1>1, <1>2 DEF RunsTypeOK
  <1>5. prep'[c] = "queued" /\ prepRow'[c] = Cardinality(RemoteTasks) + 1
    BY <1>1, <1>2, <1>3 DEF RunsTypeOK
  <1>6. RunsTypeOK'
    BY <1>1, <1>2, <1>3 DEF RunsTypeOK, runVars
  <1>7. TaskOK(c)'
    BY <1>1, <1>2, <1>5 DEF TaskOK, RunsOf, Children, cardVars, runVars, Untouched
  <1>8. RowsOrdered'
    <2>1. \A d \in RemoteTasks : d \in Private /\ d # c /\ prepRow[d] <= Cardinality(RemoteTasks)
      BY <1>2, <1>3 DEF RowsOrdered, RemoteTasks
    <2>2. \A d \in RemoteTasks' : prepRow'[d] <= Cardinality(RemoteTasks')
      BY <1>3, <1>4, <1>5, <2>1
    <2>3. \A d, e \in RemoteTasks' : prepRow'[d] = prepRow'[e] => d = e
      <3>1. \A d, e \in RemoteTasks : prepRow[d] = prepRow[e] => d = e
        BY <1>2 DEF RowsOrdered
      <3>. QED BY <1>3, <1>4, <1>5, <2>1, <3>1
    <2>4. ASSUME NEW d \in Private, NEW e \in Private, prep'[d] = "claimed",
                 prep'[e] \in {"queued", "claimed"}, Target[d] = Target[e]
          PROVE prepRow'[d] <= prepRow'[e]
      <3>1. d # c /\ d \in RemoteTasks
        BY <1>4, <1>5, <2>4 DEF RemoteTasks, Remote
      <3>2. CASE e = c
        BY <1>3, <1>4, <1>5, <2>1, <3>1, <3>2
      <3>3. CASE e # c
        BY <1>2, <1>4, <2>4, <3>1, <3>3 DEF RowsOrdered
      <3>. QED BY <3>2, <3>3
    <2>. QED BY <2>2, <2>3, <2>4 DEF RowsOrdered
  <1>9. \A d \in Private : d # c => prep'[d] = prep[d] /\ prepSession'[d] = prepSession[d]
    BY <1>1, <1>4
  <1>. QED BY <1>1, <1>6, <1>7, <1>8, <1>9, PrepInv

\* The preparation that is handed out is the first that is still to do.
LEMMA TakePreparationInv ==
  ASSUME PrivateInv, NEW s \in Session, NEW c \in Private, TakePreparation(s, c)
  PROVE  PrivateInv'
  <1>1. /\ status[c] = "awaiting_preparation" /\ prep[c] \in {"queued", "claimed"}
        /\ \A d \in Private : Target[d] = Target[c] /\ prep[d] \in {"queued", "claimed"}
               => prepRow[c] <= prepRow[d]
        /\ <<c, s>> \notin retired
        /\ prep' = [prep EXCEPT ![c] = "claimed"]
        /\ prepSession' = [prepSession EXCEPT ![c] = s]
        /\ UNCHANGED <<cardVars, prepRow, retired, workspace, assigned, runVars>>
    BY DEF TakePreparation, Pending, Worker
  <1>2. RunsTypeOK /\ TaskOK(c) /\ RowsOrdered
    BY DEF PrivateInv, TablesInv
  <1>3. /\ prep'[c] = "claimed" /\ prepSession'[c] = s
        /\ \A d \in Private : d # c => prep'[d] = prep[d] /\ prepSession'[d] = prepSession[d]
    BY <1>1, <1>2 DEF RunsTypeOK
  <1>4. RunsTypeOK'
    BY <1>1, <1>2 DEF RunsTypeOK, runVars
  <1>5. TaskOK(c)'
    BY <1>1, <1>2, <1>3 DEF TaskOK, RunsOf, Children, cardVars, runVars, Untouched
  <1>6. RemoteTasks' = RemoteTasks
    BY <1>1, <1>3 DEF RemoteTasks, Remote
  <1>7. RowsOrdered'
    BY <1>1, <1>2, <1>3, <1>6 DEF RowsOrdered
  <1>. QED BY <1>1, <1>3, <1>4, <1>5, <1>7, PrepInv

LEMMA RecoverPreparationInv ==
  ASSUME PrivateInv, NEW s \in Session, NEW c \in Private, RecoverPreparation(s, c)
  PROVE  PrivateInv'
  <1>1. /\ status[c] = "awaiting_preparation" /\ prep[c] = "claimed"
        /\ retired' = retired \cup {<<c, prepSession[c]>>}
        /\ prep' = [prep EXCEPT ![c] = "queued"]
        /\ prepSession' = [prepSession EXCEPT ![c] = NoSession]
        /\ UNCHANGED <<cardVars, prepRow, workspace, assigned, runVars>>
    BY DEF RecoverPreparation
  <1>2. RunsTypeOK /\ TaskOK(c) /\ RowsOrdered
    BY DEF PrivateInv, TablesInv
  <1>3. prepSession[c] \in Session
    BY <1>1, <1>2 DEF TaskOK
  <1>4. /\ prep'[c] = "queued" /\ prepSession'[c] = NoSession
        /\ \A d \in Private : d # c => prep'[d] = prep[d] /\ prepSession'[d] = prepSession[d]
    BY <1>1, <1>2 DEF RunsTypeOK
  <1>5. RunsTypeOK'
    BY <1>1, <1>2, <1>3 DEF RunsTypeOK, runVars
  <1>6. TaskOK(c)'
    <2>1. <<c, NoSession>> \notin retired'
      BY <1>5, CardsAssumption DEF RunsTypeOK
    <2>. QED BY <1>1, <1>2, <1>4, <2>1 DEF TaskOK, RunsOf, Children, cardVars, runVars, Untouched
  <1>7. RemoteTasks' = RemoteTasks
    BY <1>1, <1>4 DEF RemoteTasks, Remote
  <1>8. RowsOrdered'
    BY <1>1, <1>2, <1>4, <1>7 DEF RowsOrdered
  <1>. QED BY <1>1, <1>4, <1>5, <1>6, <1>8, PrepInv

\* The first run of a prepared task.
LEMMA RequestRunInv ==
  ASSUME PrivateInv, NEW s \in Session, NEW c \in Private, NEW r \in Run, RequestRun(s, c, r)
  PROVE  PrivateInv'
  <1>0. c \in Card
    BY CardsAssumption, RunsAssumption
  <1>1. /\ ~Requested(r) /\ prep[c] = "prepared" /\ status[c] = "awaiting_private_run"
        /\ holder[c] = NoSession /\ RunsOf(c) = {}
        /\ status' = [status EXCEPT ![c] = "ready"]
        /\ runCard' = [runCard EXCEPT ![r] = c]
        /\ UNCHANGED <<holder, left, row, deps, link, output, checkpoint, checkedIn, revoked,
                       prep, prepRow, prepSession, retired, workspace, assigned,
                       runSession, stopped, nextRun>>
    BY DEF RequestRun, leaseVars, boardVars, prepVars
  <1>2. /\ RunsTypeOK /\ TaskOK(c) /\ OneCurrentRun /\ SessionServesOnce /\ WorkHasRun
        /\ RunStartsClean /\ RetriesWait /\ RowsOrdered
        /\ \A q \in Run : RunOK(q)
        /\ \A d \in Private : TaskOK(d)
    BY DEF PrivateInv, TablesInv
  <1>3. /\ \A q \in Run : q # r => runCard'[q] = runCard[q] /\ runCard[q] # c
        /\ runCard'[r] = c /\ runCard[r] = NoCard
        /\ runSession[r] = NoSession /\ nextRun[r] = NoRun
        /\ \A q \in Run : nextRun[q] # r
    <2>1. runCard[r] = NoCard /\ runSession[r] = NoSession /\ nextRun[r] = NoRun
      BY <1>1, <1>2 DEF RunOK, Requested
    <2>2. \A q \in Run : runCard[q] # c
      BY <1>1 DEF RunsOf
    <2>3. ASSUME NEW q \in Run, nextRun[q] = r PROVE FALSE
      <3>1. nextRun[q] # NoRun
        BY <2>3, RunsAssumption
      <3>2. runCard[r] = runCard[q] /\ Requested(q)
        BY <1>2, <2>3, <3>1 DEF OneCurrentRun, RunOK
      <3>. QED BY <2>1, <3>2 DEF Requested
    <2>. QED BY <1>1, <1>2, <2>1, <2>2, <2>3 DEF RunsTypeOK
  <1>4. NoCard \notin Private
    BY CardsAssumption, RunsAssumption
  <1>5. /\ \A d \in Private : d # c => RunsOf(d)' = RunsOf(d)
        /\ RunsOf(c)' = {r}
        /\ \A q \in Run : Current(q)' <=> (Current(q) \/ q = r)
    BY <1>1, <1>3, <1>4 DEF RunsOf, Current, Requested
  <1>6. status'[c] = "ready" /\ status' = [status EXCEPT ![c] = status'[c]]
        /\ \A d \in Card : d # c => status'[d] = status[d]
    BY <1>0, <1>1 DEF PrivateInv, CardsInv, CardsTypeOK
  <1>7. output[c] = NoOutput /\ Children(c) = {} /\ checkpoint[c] = 0
    BY <1>0, <1>1, <1>2 DEF TaskOK, PrivateInv, CardsInv, OutputMeansReview
  <1>8. CardsInv' /\ TasksAreRoots'
    <2>1. holder' = [holder EXCEPT ![c] = NoSession]
      BY <1>1, NoLease DEF PrivateInv
    <2>2. row' \in [Card -> Nat] /\ deps' \in [Card -> SUBSET Card]
      BY <1>1 DEF PrivateInv, CardsInv, CardsTypeOK
    <2>. QED BY <1>1, <1>6, <2>1, <2>2, ParkStep DEF PrivateInv
  <1>9. RunsTypeOK'
    BY <1>1, <1>2 DEF RunsTypeOK
  <1>10. ASSUME NEW d \in Private PROVE TaskOK(d)'
    <2>1. d \in Card
      BY CardsAssumption, RunsAssumption
    <2>2. CASE d = c
      BY <1>1, <1>2, <1>6, <2>2 DEF TaskOK, Children, Untouched
    <2>3. CASE d # c
      BY <1>1, <1>2, <1>5, <1>6, <2>1, <2>3 DEF TaskOK, Children
    <2>. QED BY <2>2, <2>3
  <1>11. \A q \in Run : RunOK(q)'
    BY <1>1, <1>2, <1>3 DEF RunOK, Requested
  <1>12. OneCurrentRun'
    BY <1>1, <1>2, <1>3, <1>5 DEF OneCurrentRun, RunsTypeOK
  <1>13. SessionServesOnce'
    BY <1>1, <1>2, <1>3 DEF SessionServesOnce
  <1>14. WorkHasRun'
    <2>1. \A d \in Private : d # c => \A q \in RunsOf(d) : Current(q) => Current(q)'
      BY <1>5 DEF RunsOf
    <2>2. \A d \in Private : Remote(d)' <=> Remote(d)
      BY <1>1 DEF Remote
    <2>. QED BY <1>1, <1>2, <1>5, <1>7, <2>1, <2>2 DEF WorkHasRun
  <1>15. RunStartsClean'
    BY <1>1, <1>2, <1>3, <1>5, <1>7 DEF RunStartsClean, Children
  <1>16. RetriesWait'
    <2>1. \A d \in Private : status'[d] = "awaiting_retry_validation" =>
            d # c /\ status[d] = "awaiting_retry_validation"
      BY <1>6, CardsAssumption, RunsAssumption
    <2>2. \A d \in Private : d # c => \A q \in RunsOf(d) : Current(q) => Current(q)'
      BY <1>5 DEF RunsOf
    <2>. QED BY <1>1, <1>2, <1>5, <2>1, <2>2 DEF RetriesWait
  <1>17. RowsOrdered'
    BY <1>1, <1>2 DEF RowsOrdered, RemoteTasks, Remote
  <1>. QED BY <1>8, <1>9, <1>10, <1>11, <1>12, <1>13, <1>14, <1>15, <1>16, <1>17
           DEF PrivateInv, TablesInv

\* A run that takes the place of one that is over and left nothing behind.
LEMMA RetryRunInv ==
  ASSUME PrivateInv, NEW s \in Session, NEW r \in Run, NEW q \in Run, RetryRun(s, r, q)
  PROVE  PrivateInv'
  <1>. DEFINE c == runCard[r]
  <1>1. /\ ~Requested(q) /\ Current(r) /\ status[c] # "review"
        /\ output[c] = NoOutput /\ Children(c) = {} /\ checkpoint[c] = 0
        /\ runCard' = [runCard EXCEPT ![q] = c]
        /\ nextRun' = [nextRun EXCEPT ![r] = q]
        /\ holder' = [holder EXCEPT ![c] = NoSession]
        /\ status' = [status EXCEPT ![c] = "awaiting_retry_validation"]
        /\ UNCHANGED <<left, row, deps, link, output, checkpoint, checkedIn, revoked,
                       prep, prepRow, prepSession, retired, workspace, assigned,
                       runSession, stopped>>
    BY DEF RetryRun, Over, LeftNothing, boardVars, prepVars
  <1>0. c \in Private /\ c \in Card /\ prep[c] = "prepared"
        /\ status[c] \notin Untouched \cup {"awaiting_private_run"}
    BY <1>1, RunTask, CardsAssumption, RunsAssumption DEF Current
  <1>2. /\ RunsTypeOK /\ TaskOK(c) /\ OneCurrentRun /\ SessionServesOnce /\ WorkHasRun
        /\ RunStartsClean /\ RetriesWait /\ RowsOrdered
        /\ \A p \in Run : RunOK(p)
        /\ \A d \in Private : TaskOK(d)
    BY <1>0 DEF PrivateInv, TablesInv
  <1>3. /\ q # r /\ runCard[q] = NoCard /\ runSession[q] = NoSession /\ nextRun[q] = NoRun
        /\ \A p \in Run : nextRun[p] # q
    <2>1. q # r /\ runCard[q] = NoCard /\ runSession[q] = NoSession /\ nextRun[q] = NoRun
      BY <1>1, <1>2 DEF RunOK, Requested, Current
    <2>2. ASSUME NEW p \in Run, nextRun[p] = q PROVE FALSE
      <3>1. nextRun[p] # NoRun
        BY <2>2, RunsAssumption
      <3>2. runCard[q] = runCard[p] /\ Requested(p)
        BY <1>2, <2>2, <3>1 DEF OneCurrentRun, RunOK
      <3>. QED BY <2>1, <3>2 DEF Requested
    <2>. QED BY <2>1, <2>2
  <1>4. /\ NoCard \notin Private /\ NoRun \notin Run
    BY CardsAssumption, RunsAssumption
  <1>5. /\ \A p \in Run : p # q => runCard'[p] = runCard[p]
        /\ \A p \in Run : p # r => nextRun'[p] = nextRun[p]
        /\ runCard'[q] = c /\ nextRun'[r] = q
    BY <1>1, <1>2, <1>3 DEF RunsTypeOK
  <1>6. /\ \A d \in Private : d # c => RunsOf(d)' = RunsOf(d)
        /\ \A p \in Run : Current(p)' <=> ((Current(p) /\ p # r) \/ p = q)
        /\ \A p \in Run : Requested(p)' <=> (Requested(p) \/ p = q)
    BY <1>0, <1>3, <1>4, <1>5 DEF RunsOf, Current, Requested
  <1>7. status'[c] = "awaiting_retry_validation" /\ status' = [status EXCEPT ![c] = status'[c]]
        /\ holder'[c] = NoSession
        /\ \A d \in Card : d # c => status'[d] = status[d] /\ holder'[d] = holder[d]
    BY <1>0, <1>1 DEF PrivateInv, CardsInv, CardsTypeOK
  <1>. HIDE DEF c
  <1>8. CardsInv' /\ TasksAreRoots'
    <2>1. row' \in [Card -> Nat] /\ deps' \in [Card -> SUBSET Card]
      BY <1>1 DEF PrivateInv, CardsInv, CardsTypeOK
    <2>. QED BY <1>0, <1>1, <1>7, <2>1, ParkStep DEF PrivateInv, Parked
  <1>9. RunsTypeOK'
    BY <1>0, <1>1, <1>2 DEF RunsTypeOK
  <1>10. ASSUME NEW d \in Private PROVE TaskOK(d)'
    <2>1. d \in Card
      BY CardsAssumption, RunsAssumption
    <2>2. CASE d = c
      BY <1>0, <1>1, <1>2, <1>7, <2>2 DEF TaskOK, Children, Untouched
    <2>3. CASE d # c
      BY <1>1, <1>2, <1>6, <1>7, <2>1, <2>3 DEF TaskOK, Children
    <2>. QED BY <2>2, <2>3
  <1>11. \A p \in Run : RunOK(p)'
    BY <1>0, <1>1, <1>2, <1>3, <1>5, <1>6 DEF RunOK, Current
  <1>12. OneCurrentRun'
    <2>1. runCard[r] = c
      BY DEF c
    <2>2. ASSUME NEW p \in Run, NEW x \in Run, Current(p)', Current(x)', runCard'[p] = runCard'[x]
          PROVE p = x
      <3>1. \A y \in Run : Current(y) /\ runCard[y] = c => y = r
        BY <1>1, <1>2, <2>1 DEF OneCurrentRun
      <3>2. CASE p = q \/ x = q
        BY <1>5, <1>6, <2>2, <3>1, <3>2
      <3>3. CASE p # q /\ x # q
        BY <1>2, <1>5, <1>6, <2>2, <3>3 DEF OneCurrentRun
      <3>. QED BY <3>2, <3>3
    <2>3. ASSUME NEW p \in Run, nextRun'[p] # NoRun PROVE runCard'[nextRun'[p]] = runCard'[p]
      <3>1. CASE p = r
        BY <1>3, <1>5, <2>1, <3>1
      <3>2. CASE p # r
        <4>1. nextRun[p] # NoRun /\ nextRun[p] \in Run /\ p # q
          BY <1>2, <1>3, <1>5, <2>3, <3>2 DEF RunsTypeOK
        <4>. QED BY <1>2, <1>3, <1>5, <3>2, <4>1 DEF OneCurrentRun
      <3>. QED BY <3>1, <3>2
    <2>. QED BY <2>2, <2>3 DEF OneCurrentRun
  <1>13. SessionServesOnce'
    BY <1>1, <1>2, <1>3, <1>5 DEF SessionServesOnce
  <1>14. WorkHasRun'
    <2>. SUFFICES ASSUME NEW d \in Private, Remote(d)
                  PROVE /\ holder'[d] # NoSession =>
                             \E p \in RunsOf(d)' : Current(p)' /\ runSession[p] = holder'[d]
                        /\ output[d] # NoOutput =>
                             \E p \in RunsOf(d)' : Current(p)' /\ runSession[p] = output[d].session
      BY <1>1 DEF WorkHasRun, Remote
    <2>1. CASE d = c
      BY <1>1, <1>7, <2>1
    <2>2. CASE d # c
      <3>1. \A p \in RunsOf(d) : p \in Run /\ p # r
        BY <2>2 DEF RunsOf, c
      <3>2. \A p \in RunsOf(d) : Current(p) => Current(p)'
        BY <1>6, <3>1
      <3>3. d \in Card
        BY CardsAssumption, RunsAssumption
      <3>. QED BY <1>2, <1>6, <1>7, <2>2, <3>2, <3>3 DEF WorkHasRun
    <2>. QED BY <2>1, <2>2
  <1>15. RunStartsClean'
    <2>. SUFFICES ASSUME NEW p \in Run, Current(p)', runSession[p] = NoSession
                  PROVE /\ holder'[runCard'[p]] = NoSession
                        /\ output[runCard'[p]] = NoOutput
                        /\ Children(runCard'[p]) = {}
                        /\ checkpoint[runCard'[p]] = 0
      BY <1>1 DEF RunStartsClean, Children
    <2>1. CASE p = q
      BY <1>1, <1>5, <1>7, <2>1
    <2>2. CASE p # q
      <3>1. Current(p) /\ runCard'[p] = runCard[p] /\ runCard[p] \in Card
        BY <1>2, <1>5, <1>6, <2>2, CardsAssumption, RunsAssumption DEF RunsTypeOK, Current, Requested
      <3>. QED BY <1>2, <1>7, <3>1 DEF RunStartsClean
    <2>. QED BY <2>1, <2>2
  <1>16. RetriesWait'
    <2>. SUFFICES ASSUME NEW d \in Private, status'[d] = "awaiting_retry_validation"
                  PROVE \E p \in RunsOf(d)' : Current(p)' /\ runSession[p] = NoSession
      BY <1>1 DEF RetriesWait
    <2>1. CASE d = c
      <3>1. q \in RunsOf(d)'
        BY <1>5, <2>1 DEF RunsOf
      <3>. QED BY <1>3, <1>6, <3>1
    <2>2. CASE d # c
      <3>1. \A p \in RunsOf(d) : p \in Run /\ p # r
        BY <2>2 DEF RunsOf, c
      <3>2. status[d] = "awaiting_retry_validation"
        BY <1>7, <2>2, CardsAssumption, RunsAssumption
      <3>. QED BY <1>2, <1>6, <2>2, <3>1, <3>2 DEF RetriesWait
    <2>. QED BY <2>1, <2>2
  <1>17. RowsOrdered'
    BY <1>1, <1>2 DEF RowsOrdered, RemoteTasks, Remote
  <1>. QED BY <1>8, <1>9, <1>10, <1>11, <1>12, <1>13, <1>14, <1>15, <1>16, <1>17
           DEF PrivateInv, TablesInv

\* A claim for a run uses it up, for a session that served no other.
LEMMA ClaimRunInv ==
  ASSUME PrivateInv, NEW s \in Session, NEW r \in Run, ClaimRun(s, r)
  PROVE  PrivateInv'
  <1>. DEFINE c == runCard[r]
  <1>1. /\ Requested(r)
        /\ ClaimCardFrom(s, c, Authorized(s, r))
        /\ runSession' = [runSession EXCEPT ![r] = s]
        /\ UNCHANGED <<prep, prepRow, prepSession, retired, workspace, assigned,
                       runCard, stopped, nextRun>>
    BY DEF ClaimRun, prepVars
  <1>0. c \in Private /\ c \in Card /\ Authorized(s, r) \in SUBSET Card
    BY <1>1, RunTask, CardsAssumption, RunsAssumption DEF Authorized
  <1>2. /\ Current(r) /\ runSession[r] = NoSession /\ r \notin stopped
        /\ \A q \in RunsOf(c) : q # r => runSession[q] # s
    <2>1. c \in Authorized(s, r)
      BY <1>1 DEF ClaimCardFrom, Candidates
    <2>. QED BY <2>1 DEF Authorized, Queued
  <1>3. /\ RunsTypeOK /\ OneCurrentRun /\ SessionServesOnce /\ WorkHasRun
        /\ RunStartsClean /\ RetriesWait /\ RowsOrdered
        /\ \A p \in Run : RunOK(p)
        /\ \A d \in Private : TaskOK(d)
    BY DEF PrivateInv, TablesInv
  <1>. HIDE DEF c
  <1>4. /\ CardsInv' /\ TasksAreRoots'
        /\ \A d \in Private : d # c => Kept(d)
        /\ status[c] \notin Untouched \cup Parked
        /\ \A d \in Card : /\ status'[d] = (IF d = c THEN "running" ELSE Settled[d])
                           /\ holder'[d] = (IF d = c THEN s ELSE SettledHolder[d])
        /\ UNCHANGED <<row, deps, link, output, checkpoint>>
    BY <1>0, <1>1, ClaimKeeps DEF PrivateInv
  <1>5. /\ runSession'[r] = s /\ s # NoSession
        /\ \A q \in Run : q # r => runSession'[q] = runSession[q]
    BY <1>1, <1>3, CardsAssumption DEF RunsTypeOK
  <1>6. /\ \A d \in Private : RunsOf(d)' = RunsOf(d)
        /\ \A q \in Run : Current(q)' <=> Current(q)
        /\ \A q \in Run : Requested(q)' <=> Requested(q)
    BY <1>1 DEF RunsOf, Current, Requested
  <1>7. RunsTypeOK'
    BY <1>1, <1>3 DEF RunsTypeOK
  <1>8. ASSUME NEW d \in Private PROVE TaskOK(d)'
    <2>1. d \in Card
      BY CardsAssumption, RunsAssumption
    <2>2. CASE d = c
      BY <1>1, <1>3, <1>4, <2>1, <2>2 DEF TaskOK, Children, Untouched, Parked
    <2>3. CASE d # c
      <3>1. /\ status'[d] \in Untouched <=> status[d] \in Untouched
            /\ status'[d] = "awaiting_private_run" <=> status[d] = "awaiting_private_run"
        BY <1>4, <2>3 DEF Kept, Untouched, Parked
      <3>. QED BY <1>1, <1>3, <1>4, <1>6, <3>1 DEF TaskOK, Children
    <2>. QED BY <2>2, <2>3
  <1>9. \A p \in Run : RunOK(p)'
    BY <1>1, <1>2, <1>3, <1>5, <1>6 DEF RunOK, Current
  <1>10. OneCurrentRun'
    BY <1>1, <1>3, <1>6 DEF OneCurrentRun
  <1>11. SessionServesOnce'
    <2>1. runCard[r] = c
      BY DEF c
    <2>2. \A q \in Run : q # r /\ runCard[q] = c => runSession[q] # s
      BY <1>2 DEF RunsOf
    <2>. QED BY <1>1, <1>3, <1>5, <2>1, <2>2 DEF SessionServesOnce
  <1>12. WorkHasRun'
    <2>. SUFFICES ASSUME NEW d \in Private, Remote(d)
                  PROVE /\ holder'[d] # NoSession =>
                             \E p \in RunsOf(d) : Current(p) /\ runSession'[p] = holder'[d]
                        /\ output[d] # NoOutput =>
                             \E p \in RunsOf(d) : Current(p) /\ runSession'[p] = output[d].session
      BY <1>1, <1>4, <1>6 DEF WorkHasRun, Remote, RunsOf
    <2>1. CASE d = c
      <3>1. r \in RunsOf(d) /\ holder'[d] = s
        BY <1>0, <1>4, <2>1 DEF RunsOf, c
      <3>2. output[d] = NoOutput
        BY <1>0, <1>2, <1>3, <2>1 DEF RunStartsClean, c
      <3>. QED BY <1>2, <1>5, <3>1, <3>2
    <2>2. CASE d # c
      <3>1. \A p \in RunsOf(d) : p \in Run /\ p # r
        BY <2>2 DEF RunsOf, c
      <3>2. holder'[d] \in {holder[d], NoSession}
        BY <1>4, <2>2 DEF Kept
      <3>. QED BY <1>3, <1>5, <3>1, <3>2 DEF WorkHasRun
    <2>. QED BY <2>1, <2>2
  <1>13. RunStartsClean'
    <2>. SUFFICES ASSUME NEW p \in Run, Current(p), runSession'[p] = NoSession
                  PROVE /\ holder'[runCard[p]] = NoSession
                        /\ output[runCard[p]] = NoOutput
                        /\ Children(runCard[p]) = {}
                        /\ checkpoint[runCard[p]] = 0
      BY <1>1, <1>4, <1>6 DEF RunStartsClean, Children
    <2>1. p # r /\ runSession[p] = NoSession
      BY <1>5
    <2>2. runCard[p] # c /\ runCard[p] \in Private /\ Remote(runCard[p])
      <3>1. runCard[p] # c
        BY <1>2, <1>3, <2>1 DEF OneCurrentRun, c
      <3>. QED BY <3>1, RunTask DEF Current, Remote
    <2>3. Kept(runCard[p])
      BY <1>4, <2>2
    <2>. QED BY <1>3, <2>1, <2>2, <2>3 DEF Kept, RunStartsClean
  <1>14. RetriesWait'
    <2>. SUFFICES ASSUME NEW d \in Private, status'[d] = "awaiting_retry_validation"
                  PROVE \E p \in RunsOf(d) : Current(p) /\ runSession'[p] = NoSession
      BY <1>1, <1>6 DEF RetriesWait, RunsOf
    <2>1. d # c
      BY <1>0, <1>4
    <2>2. status[d] = "awaiting_retry_validation"
      BY <1>4, <2>1 DEF Kept, Parked
    <2>3. \A p \in RunsOf(d) : p \in Run /\ p # r
      BY <2>1 DEF RunsOf, c
    <2>. QED BY <1>3, <1>5, <2>2, <2>3 DEF RetriesWait
  <1>15. RowsOrdered'
    BY <1>1, <1>3 DEF RowsOrdered, RemoteTasks, Remote
  <1>. QED BY <1>4, <1>7, <1>8, <1>9, <1>10, <1>11, <1>12, <1>13, <1>14, <1>15
           DEF PrivateInv, TablesInv

\* Claims that are given no private task of the remote way.
LEMMA ClaimLocalInv ==
  ASSUME PrivateInv, NEW s \in Session, NEW c \in Card, ClaimLocal(s, c)
  PROVE  PrivateInv'
  <1>1. ClaimCardFrom(s, c, Local) /\ UNCHANGED privateVars
    BY DEF ClaimLocal
  <1>2. Local \in SUBSET Card /\ c \in Local
    BY <1>1 DEF Local, ClaimCardFrom, Candidates
  <1>3. /\ CardsInv' /\ TasksAreRoots'
        /\ \A d \in Private : d # c \/ ~Remote(d) => Kept(d)
    BY <1>1, <1>2, ClaimKeeps DEF PrivateInv
  <1>4. \A d \in Private : Kept(d)
    BY <1>2, <1>3 DEF Local
  <1>5. UNCHANGED <<prepVars, runVars>> /\ assigned' \in SUBSET Private
    BY <1>1 DEF privateVars, PrivateInv, TablesInv, RunsTypeOK
  <1>. QED BY <1>3, <1>4, <1>5, KeptStep DEF PrivateInv

LEMMA ClaimNothingKeeps ==
  ASSUME PrivateInv, NEW s \in Session, NEW Allowed, ClaimNothingFrom(s, Allowed),
         UNCHANGED privateVars
  PROVE  PrivateInv'
  <1>1. status' = Settled /\ holder' = SettledHolder /\ UNCHANGED <<link, output, checkpoint>>
    BY DEF ClaimNothingFrom, Settle, boardVars
  <1>2. CardsInv' /\ TasksAreRoots'
    BY <1>1, ClaimNothingInv DEF PrivateInv, TasksAreRoots
  <1>3. \A d \in Private : Kept(d)
    BY <1>1, SettledKeeps, CardsAssumption, RunsAssumption DEF PrivateInv, Kept, Children
  <1>4. UNCHANGED <<prepVars, runVars>> /\ assigned' \in SUBSET Private
    BY DEF privateVars, PrivateInv, TablesInv, RunsTypeOK
  <1>. QED BY <1>2, <1>3, <1>4, KeptStep DEF PrivateInv

LEMMA QueueCallInv ==
  ASSUME PrivateInv, QueueCall
  PROVE  PrivateInv'
  <1>1. CardsInv' /\ TasksAreRoots'
    BY QueueStep, StepInv, QueueRoots DEF PrivateInv
  <1>2. \A d \in Private : Kept(d)
    BY QueueKept DEF PrivateInv
  <1>3. UNCHANGED <<prepVars, runVars>> /\ assigned' \in SUBSET Private
    BY DEF QueueCall, privateVars, PrivateInv, TablesInv, RunsTypeOK
  <1>. QED BY <1>1, <1>2, <1>3, KeptStep DEF PrivateInv

LEMMA PrivateInitInv == Init /\ PrivateInit => PrivateInv
  <1>. SUFFICES ASSUME Init, PrivateInit PROVE PrivateInv
    OBVIOUS
  <1>1. CardsInv /\ TasksAreRoots
    BY InitInv DEF TasksAreRoots, Init
  <1>2. RunsTypeOK
    BY DEF PrivateInit, RunsTypeOK
  <1>3. \A r \in Run : ~Requested(r)
    BY DEF PrivateInit, Requested
  <1>4. \A c \in Private : TaskOK(c)
    <2>. TAKE c \in Private
    <2>1. c \in Card /\ NoCard \notin Card
      BY CardsAssumption, RunsAssumption
    <2>2. prep[c] = "none" /\ retired = {} /\ RunsOf(c) = {} /\ workspace = {}
      BY <2>1 DEF PrivateInit, RunsOf
    <2>3. status[c] = "absent" /\ Children(c) = {} /\ checkpoint[c] = 0
      BY <2>1 DEF Init, Children
    <2>. QED BY <2>2, <2>3 DEF TaskOK, Untouched
  <1>5. (\A r \in Run : RunOK(r)) /\ OneCurrentRun /\ SessionServesOnce /\ RunStartsClean
    BY <1>3 DEF PrivateInit, RunOK, OneCurrentRun, SessionServesOnce, RunStartsClean, Current
  <1>6. WorkHasRun
    BY DEF PrivateInit, WorkHasRun, Remote
  <1>7. RetriesWait
    BY CardsAssumption, RunsAssumption DEF Init, RetriesWait
  <1>8. RowsOrdered
    BY DEF PrivateInit, RowsOrdered, RemoteTasks, Remote
  <1>. QED BY <1>1, <1>2, <1>4, <1>5, <1>6, <1>7, <1>8 DEF PrivateInv, TablesInv

LEMMA PrivateStepInv == PrivateInv /\ [PrivateNext]_vars => PrivateInv'
  <1>. SUFFICES ASSUME PrivateInv, [PrivateNext]_vars PROVE PrivateInv'
    OBVIOUS
  <1>1. CASE QueueCall
    BY <1>1, QueueCallInv
  <1>2. CASE HostCall
    BY <1>2, StageInv, PrepareHereInv, RetryHereInv, ReassignInv DEF HostCall
  <1>3. ASSUME NEW s \in Session, NEW c \in Private, PreparationCall(s, c) PROVE PrivateInv'
    BY <1>3, RequestPreparationInv, TakePreparationInv, CompletePreparationInv,
       RecoverPreparationInv DEF PreparationCall
  <1>4. ASSUME NEW s \in Session, NEW r \in Run, RunCall(s, r) PROVE PrivateInv'
    <2>1. CASE ClaimNoRun(s, r)
      BY <2>1, ClaimNothingKeeps DEF ClaimNoRun
    <2>. QED BY <1>4, <2>1, RequestRunInv, StopRunInv, RetryRunInv, ReadyRunInv, ClaimRunInv DEF RunCall
  <1>5. ASSUME NEW s \in Session, NEW c \in Card, ClaimLocal(s, c) PROVE PrivateInv'
    BY <1>5, ClaimLocalInv
  <1>6. ASSUME NEW s \in Session, ClaimNoLocal(s) PROVE PrivateInv'
    BY <1>6, ClaimNothingKeeps DEF ClaimNoLocal
  <1>7. CASE UNCHANGED vars
    <2>1. UNCHANGED cardVars /\ UNCHANGED privateVars
      BY <1>7 DEF vars
    <2>2. UNCHANGED <<status, holder, link, output, checkpoint>>
      BY <2>1 DEF cardVars
    <2>3. CardsInv' /\ TasksAreRoots'
      BY <2>1, <2>2, StepInv DEF PrivateInv, TasksAreRoots
    <2>4. \A d \in Private : Kept(d)
      BY <2>2 DEF Kept, Children
    <2>5. UNCHANGED <<prepVars, runVars>> /\ assigned' \in SUBSET Private
      BY <2>1 DEF privateVars, PrivateInv, TablesInv, RunsTypeOK
    <2>. QED BY <2>3, <2>4, <2>5, KeptStep DEF PrivateInv
  <1>. QED BY <1>1, <1>2, <1>3, <1>4, <1>5, <1>6, <1>7 DEF PrivateNext

(***************************************************************************)
(* The theorems.                                                           *)
(***************************************************************************)
\* The inductive invariant holds in every state; with it everything that is
\* proved of the card queue on its own.
THEOREM PrivateInvariant == PrivateSpec => []PrivateInv
  <1>. QED BY PrivateInitInv, PrivateStepInv, PTL DEF PrivateSpec

\* A remote task has one current run, whoever works on it or has its result
\* accepted is the session of that run, and no session serves two runs of it.
THEOREM RunsCorrect == PrivateSpec => [](OneCurrentRun /\ WorkHasRun /\ SessionServesOnce)
  <1>1. PrivateInv => OneCurrentRun /\ WorkHasRun /\ SessionServesOnce
    BY DEF PrivateInv, TablesInv
  <1>. QED BY <1>1, PrivateInvariant, PTL

\* A run that was not claimed finds the task as if nobody had worked on it.
THEOREM RunsStartClean == PrivateSpec => []RunStartsClean
  <1>1. PrivateInv => RunStartsClean
    BY DEF PrivateInv, TablesInv
  <1>. QED BY <1>1, PrivateInvariant, PTL

\* The reasons shown are true, nothing runs without a checkout, and a computer
\* prepares one checkout at a time.
THEOREM PreparationsCorrect ==
    PrivateSpec => [](ReasonsAreTrue /\ CheckoutsArePrepared /\ OnePreparationPerTarget)
  <1>1. PrivateInv => ReasonsAreTrue
    BY DEF PrivateInv, TablesInv, TaskOK, RetriesWait, ReasonsAreTrue, Untouched
  <1>2. PrivateInv => CheckoutsArePrepared
    BY DEF PrivateInv, TablesInv, TaskOK, CheckoutsArePrepared, Untouched
  <1>3. PrivateInv => OnePreparationPerTarget
    <2>. SUFFICES ASSUME PrivateInv, NEW c \in Private, NEW d \in Private,
                         prep[c] = "claimed", prep[d] = "claimed", Target[c] = Target[d]
                  PROVE c = d
      BY DEF OnePreparationPerTarget
    <2>1. RowsOrdered /\ prepRow[c] \in Nat /\ prepRow[d] \in Nat
      BY DEF PrivateInv, TablesInv, RunsTypeOK
    <2>2. c \in RemoteTasks /\ d \in RemoteTasks
      BY DEF RemoteTasks, Remote
    <2>. QED BY <2>1, <2>2 DEF RowsOrdered
  <1>. QED BY <1>1, <1>2, <1>3, PrivateInvariant, PTL

\* The reasons shown are true, and no session serves two attempts at a task.
THEOREM RunsTold == PrivateSpec => []RunsAreTold
  <1>1. PrivateInv => ReasonsAreTrue
    BY DEF PrivateInv, TablesInv, TaskOK, RetriesWait, ReasonsAreTrue, Untouched
  <1>2. PrivateInv => RunsAreTold
    BY <1>1 DEF PrivateInv, TablesInv, RunsAreTold
  <1>. QED BY <1>2, PrivateInvariant, PTL

(***************************************************************************)
(* What a step may never do.                                               *)
(***************************************************************************)
\* Only claims give leases.
LEMMA QueueLeases ==
  ASSUME CardsInv, QueueCall, NEW c \in Card
  PROVE  holder'[c] \in {holder[c], NoSession}
  <1>1. CASE holder' = holder
    BY <1>1
  <1>2. CASE \E s \in Session : Heartbeat(s)
    BY <1>2, SettledSpec DEF Heartbeat
  <1>3. ASSUME NEW s \in Session, NEW d \in Card, Owns(s, d),
               NEW v \in {"review", "blocked", "ready", "waiting_on_child"}, GiveUp(d, v)
        PROVE holder'[c] \in {holder[c], NoSession}
    BY <1>3, GiveUpSpec
  <1>4. \/ holder' = holder
        \/ \E s \in Session : Heartbeat(s)
        \/ \E s \in Session, d \in Card, v \in {"review", "blocked", "ready", "waiting_on_child"} :
              Owns(s, d) /\ GiveUp(d, v)
    BY ZenonT(60) DEF QueueCall, AddCard, Revoke, Presence, CheckIn, CheckOut, Attempt, CompleteCard,
       CompleteAgain, Checkpoint, FailCard, ReleaseCard, SpawnChild, WaitOnChild, Tick,
       leaseVars, cardVars
  <1>. QED BY <1>1, <1>2, <1>3, <1>4

\* A task gets a lease from a local claim, or from a claim for one of its runs.
LEMMA NewLease ==
  ASSUME PrivateInv, PrivateNext, NEW c \in Private, holder'[c] \notin {holder[c], NoSession}
  PROVE  \/ \E s \in Session : ClaimLocal(s, c)
         \/ \E s \in Session, r \in Run : ClaimRun(s, r) /\ c = runCard[r]
  <1>0. c \in Card /\ CardsInv /\ TasksAreRoots
    BY CardsAssumption, RunsAssumption DEF PrivateInv
  <1>1. ~QueueCall
    BY <1>0, QueueLeases
  <1>2. ~HostCall
    BY <1>0 DEF HostCall, Stage, PrepareHere, RetryHere, Reassign, leaseVars, cardVars,
       CardsInv, CardsTypeOK
  <1>3. ASSUME NEW s \in Session, NEW d \in Private PROVE ~PreparationCall(s, d)
    BY DEF PreparationCall, RequestPreparation, TakePreparation, CompletePreparation,
       RecoverPreparation, leaseVars, cardVars
  <1>4. ASSUME NEW s \in Session, NEW Allowed PROVE ~ClaimNothingFrom(s, Allowed)
    BY <1>0, SettledSpec DEF ClaimNothingFrom, Settle
  <1>5. ASSUME NEW s \in Session, NEW d \in Card, NEW Allowed \in SUBSET Card,
               ClaimCardFrom(s, d, Allowed)
        PROVE c = d
    <2>1. c # d => holder'[c] = SettledHolder[c]
      BY <1>0, <1>5, ClaimKeeps
    <2>. QED BY <1>0, <2>1, SettledSpec
  <1>6. ASSUME NEW s \in Session, NEW d \in Card, ClaimLocal(s, d) PROVE ClaimLocal(s, c)
    <2>1. ClaimCardFrom(s, d, Local) /\ Local \in SUBSET Card
      BY <1>6 DEF ClaimLocal, Local
    <2>. QED BY <1>5, <1>6, <2>1
  <1>7. ASSUME NEW s \in Session, NEW r \in Run, RunCall(s, r)
        PROVE ClaimRun(s, r) /\ c = runCard[r]
    <2>1. ~ClaimNoRun(s, r)
      BY <1>4 DEF ClaimNoRun
    <2>2. ~(\E d \in Private : RequestRun(s, d, r)) /\ ~StopRun(s, r) /\ ~ReadyRun(s, r)
      BY DEF RequestRun, StopRun, ReadyRun, leaseVars
    <2>3. ASSUME NEW q \in Run PROVE ~RetryRun(s, r, q)
      BY <1>0 DEF RetryRun, CardsInv, CardsTypeOK
    <2>4. ClaimRun(s, r)
      BY <1>7, <2>1, <2>2, <2>3 DEF RunCall
    <2>5. /\ ClaimCardFrom(s, runCard[r], Authorized(s, r)) /\ runCard[r] \in Card
          /\ Authorized(s, r) \in SUBSET Card
      BY <2>4, RunTask, CardsAssumption, RunsAssumption DEF ClaimRun, Authorized
    <2>6. c = runCard[r]
      BY <1>5, <2>5
    <2>. QED BY <2>4, <2>6
  <1>8. CASE \E s \in Session : ClaimNoLocal(s)
    BY <1>4, <1>8 DEF ClaimNoLocal
  <1>. QED BY <1>1, <1>2, <1>3, <1>6, <1>7, <1>8 DEF PrivateNext

\* Only a claim for a run marks it as used, and only if it was not.
LEMMA RunsUsedOnce ==
  ASSUME PrivateInv, PrivateNext, NEW r \in Run, runSession[r] # NoSession
  PROVE  runSession'[r] = runSession[r]
  <1>1. CASE UNCHANGED runSession
    BY <1>1
  <1>2. ASSUME NEW s \in Session, NEW q \in Run, ClaimRun(s, q) PROVE runSession'[r] = runSession[r]
    <2>1. runCard[q] \in Authorized(s, q) /\ runSession' = [runSession EXCEPT ![q] = s]
      BY <1>2 DEF ClaimRun, ClaimCardFrom, Candidates
    <2>2. q # r
      BY <2>1 DEF Authorized, Queued
    <2>. QED BY <2>1, <2>2 DEF PrivateInv, TablesInv, RunsTypeOK
  <1>3. UNCHANGED runSession \/ \E s \in Session, q \in Run : ClaimRun(s, q)
    BY ZenonT(60) DEF PrivateNext, QueueCall, HostCall, Stage, PrepareHere, RetryHere, Reassign,
       PreparationCall, RequestPreparation, TakePreparation, CompletePreparation,
       RecoverPreparation, RunCall, RequestRun, StopRun, RetryRun, ReadyRun, ClaimNoRun,
       ClaimLocal, ClaimNoLocal, privateVars, runVars
  <1>. QED BY <1>1, <1>2, <1>3

\* Every lease of a remote task uses up a run that was neither stopped nor
\* replaced, and no run is used twice.
THEOREM RunsAreConsumed == PrivateSpec => LeasesConsumeRuns
  <1>1. PrivateInv /\ [PrivateNext]_vars =>
          [/\ \A r \in Run : runSession[r] # NoSession => runSession'[r] = runSession[r]
           /\ \A c \in Private : Remote(c) /\ holder'[c] \notin {holder[c], NoSession} =>
                \E r \in RunsOf(c) : Queued(r) /\ runSession'[r] = holder'[c]]_vars
    <2>. SUFFICES ASSUME PrivateInv, PrivateNext
                  PROVE /\ \A r \in Run : runSession[r] # NoSession => runSession'[r] = runSession[r]
                        /\ \A c \in Private : Remote(c) /\ holder'[c] \notin {holder[c], NoSession} =>
                             \E r \in RunsOf(c) : Queued(r) /\ runSession'[r] = holder'[c]
      OBVIOUS
    <2>1. \A r \in Run : runSession[r] # NoSession => runSession'[r] = runSession[r]
      BY RunsUsedOnce
    <2>2. ASSUME NEW c \in Private, Remote(c), holder'[c] \notin {holder[c], NoSession}
          PROVE \E r \in RunsOf(c) : Queued(r) /\ runSession'[r] = holder'[c]
      <3>1. ASSUME NEW s \in Session PROVE ~ClaimLocal(s, c)
        BY <2>2 DEF ClaimLocal, ClaimCardFrom, Candidates, Local
      <3>2. PICK s \in Session, r \in Run : ClaimRun(s, r) /\ c = runCard[r]
        BY <2>2, <3>1, NewLease
      <3>3. /\ c \in Authorized(s, r) /\ Authorized(s, r) \in SUBSET Card
            /\ ClaimCardFrom(s, c, Authorized(s, r))
            /\ runSession' = [runSession EXCEPT ![r] = s]
        BY <3>2, CardsAssumption, RunsAssumption DEF ClaimRun, ClaimCardFrom, Candidates, Authorized
      <3>4. holder'[c] = s
        BY <3>3, ClaimKeeps DEF PrivateInv
      <3>5. r \in RunsOf(c) /\ Queued(r)
        BY <3>2, <3>3 DEF Authorized, RunsOf
      <3>6. runSession'[r] = s
        BY <3>3 DEF PrivateInv, TablesInv, RunsTypeOK
      <3>. QED BY <3>4, <3>5, <3>6
    <2>. QED BY <2>1, <2>2
  <1>. QED BY <1>1, PrivateInvariant, PTL DEF PrivateSpec, LeasesConsumeRuns

\* No task starts once its agent is archived or moved, in either way.
THEOREM UnassignedStaysIdle == PrivateSpec => UnassignedNeverStarts
  <1>1. PrivateInv /\ [PrivateNext]_vars =>
          [\A c \in Private : holder'[c] \notin {holder[c], NoSession} => c \in assigned]_vars
    <2>. SUFFICES ASSUME PrivateInv, PrivateNext, NEW c \in Private,
                         holder'[c] \notin {holder[c], NoSession}
                  PROVE c \in assigned
      OBVIOUS
    <2>1. ASSUME NEW s \in Session, ClaimLocal(s, c) PROVE c \in assigned
      <3>1. /\ c \in Local \cap Scope[s] /\ Settled[c] = "ready"
            /\ <<NodeOf[s], c>> \in Eligible
            /\ \A d \in Unassigned(s) : row[c] < row[d]
        BY <2>1 DEF ClaimLocal, ClaimCardFrom, Candidates
      <3>2. Target[c] = NodeOf[s] /\ ~Remote(c) /\ NodeOf[s] \in Node /\ c \in Card
        BY <3>1, CardsAssumption, RunsAssumption DEF Local
      <3>3. c \notin assigned => c \in Unassigned(s)
        BY <3>1, <3>2 DEF Unassigned
      <3>4. row[c] \in Nat
        BY <3>2 DEF PrivateInv, CardsInv, CardsTypeOK
      <3>. QED BY <3>1, <3>3, <3>4
    <2>2. ASSUME NEW s \in Session, NEW r \in Run, ClaimRun(s, r), c = runCard[r]
          PROVE c \in assigned
      BY <2>2 DEF ClaimRun
    <2>. QED BY <2>1, <2>2, NewLease
  <1>. QED BY <1>1, PrivateInvariant, PTL DEF PrivateSpec, UnassignedNeverStarts

\* An accepted result of a private task is never taken back.
THEOREM PrivateResultsStand == PrivateSpec => ResultsStand
  <1>1. PrivateInv /\ PrivateInv' /\ [PrivateNext]_vars =>
          [\A c \in Private : output[c] # NoOutput =>
             output'[c] = output[c] /\ status'[c] = "review"]_vars
    <2>. SUFFICES ASSUME PrivateInv, PrivateInv', PrivateNext, NEW c \in Private,
                         output[c] # NoOutput
                  PROVE output'[c] = output[c] /\ status'[c] = "review"
      OBVIOUS
    <2>0. c \in Card
      BY CardsAssumption, RunsAssumption
    <2>1. ASSUME QueueCall PROVE output'[c] = output[c]
      BY <2>0, <2>1, QueueStep, Writes DEF PrivateInv
    <2>2. ASSUME ~QueueCall PROVE UNCHANGED output
      <3>1. HostCall => UNCHANGED output
        BY DEF HostCall, Stage, PrepareHere, RetryHere, Reassign, boardVars, cardVars
      <3>2. ASSUME NEW s \in Session, NEW d \in Private, PreparationCall(s, d)
            PROVE UNCHANGED output
        BY <3>2 DEF PreparationCall, RequestPreparation, TakePreparation,
           CompletePreparation, RecoverPreparation, boardVars, cardVars
      <3>3. ASSUME NEW s \in Session, NEW r \in Run, RunCall(s, r) PROVE UNCHANGED output
        BY <3>3 DEF RunCall, RequestRun, StopRun, RetryRun, ReadyRun, ClaimRun, ClaimNoRun,
           ClaimCardFrom, ClaimNothingFrom, boardVars
      <3>4. ASSUME NEW s \in Session, (\E d \in Card : ClaimLocal(s, d)) \/ ClaimNoLocal(s)
            PROVE UNCHANGED output
        BY <3>4 DEF ClaimLocal, ClaimNoLocal, ClaimCardFrom, ClaimNothingFrom, boardVars
      <3>. QED BY <2>2, <3>1, <3>2, <3>3, <3>4 DEF PrivateNext
    <2>3. output'[c] = output[c]
      BY <2>1, <2>2
    <2>. QED BY <2>0, <2>3 DEF PrivateInv, CardsInv, OutputMeansReview
  <1>. QED BY <1>1, PrivateInvariant, PTL DEF PrivateSpec, ResultsStand

=============================================================================
