-------------------------- MODULE ReviewWorkflows --------------------------
(***************************************************************************)
(* Review workflows: local_hub/private_workflow.rs over the tasks of       *)
(* private_code_tasks.rs, private_correction.rs, private_preparation.rs    *)
(* and private_run.rs, with the verdicts of coder/checker.rs.              *)
(*                                                                         *)
(* An owner authorizes a whole chain at once: a coding task, a check of    *)
(* its frozen result by another agent, a correction when the check asks    *)
(* for one, a check of that, and so on.  Nothing drives the chain but the  *)
(* polls of the owner's computers; each of them first advances every       *)
(* active workflow of the owner, one savepoint each, and a workflow that   *)
(* cannot advance is stopped.  In between, the owner may stop, restart,    *)
(* prepare, check or correct any of the tasks by hand.                     *)
(*                                                                         *)
(* One action is one transaction.  PrivateRuns has the sessions and the    *)
(* order of preparations; here any queued one may be taken.  Computers     *)
(* stay enrolled; the agents of both sides may be archived or moved, and   *)
(* come back.                                                              *)
(***************************************************************************)
EXTENDS Naturals, Sequences

CONSTANTS
    MaxTasks,     \* bound on the tasks of the project
    MaxFlows,     \* bound on the workflows the owner starts
    RoundLimit,   \* CorrectionContext::validate: 3 in the code
    Allowed,      \* the correction limits owners choose
    MaxByHand,    \* bound on restarts, checks and corrections by hand
    MaxChanges    \* bound on the changes of agents

WorkflowsAssumption ==
    /\ {MaxTasks, MaxFlows, RoundLimit, MaxByHand, MaxChanges} \subseteq Nat
    /\ Allowed \subseteq Nat

VARIABLES
    task,     \* cards, card_outputs, private_preparations and the current private_runs row
    flow,     \* private_review_workflows
    able,     \* the sides whose agent is active on its computer
    hand,     \* history: the tasks the owner started by hand since their workflow stopped
    byHand, changes

vars == <<task, flow, able, hand, byHand, changes>>
----------------------------------------------------------------------------
\* capture: a session freezes what it changed, or finds that it cannot
CodeResults == {"bare", "weak", "good"}
\* run_with_context, and whatever else a computer may hand in for a check
CheckResults == {"pass", "changes", "inconclusive", "garbled"}

\* "waiting", "prepared" and "retry" are blocked cards with the reasons awaiting_repository_preparation,
\* awaiting_private_run and awaiting_retry_validation; "blocked" has another; "done" is review or done
Status == {"waiting", "prepared", "ready", "running", "retry", "blocked", "done"}

TypeOK ==
    /\ task \in Seq([of : Nat, check : BOOLEAN, round : Nat, st : Status, leased : BOOLEAN,
                     result : {"none"} \cup CodeResults \cup CheckResults,
                     workspace : BOOLEAN, prep : {"none", "queued", "claimed", "prepared"},
                     run : {"none", "queued", "running"}, asked : BOOLEAN])
    /\ flow \in Seq([state : {"active", "passed", "stopped", "blocked"}, source : Nat, current : Nat, coder : Nat,
                     checking : BOOLEAN, corrections : Nat, limit : Nat, late : BOOLEAN])
    /\ able \subseteq {"coder", "checker"}
    /\ hand \subseteq 1 .. Len(task)

\* stage_task; a check is of a code task, a correction of a check
Staged(of, check, round) ==
    [of |-> of, check |-> check, round |-> round, st |-> "waiting", leased |-> FALSE, result |-> "none",
     workspace |-> FALSE, prep |-> "none", run |-> "none", asked |-> FALSE]

Init ==
    /\ task = <<Staged(0, FALSE, 0)>> /\ flow = <<>>
    /\ able = {"coder", "checker"} /\ hand = {} /\ byHand = 0 /\ changes = 0

----------------------------------------------------------------------------
(* What a transaction makes of the database: [task |-> .., flow |-> ..].   *)

\* validate_agent_assignment: a correction also needs the check that asked for it
Assigned(t) ==
    /\ t.check \/ t.of # 0 => "checker" \in able
    /\ ~ t.check => "coder" \in able

\* ReviewPackage::from_output, validate
Frozen(t) == t.result \in {"weak", "good"}

\* review_source
HasPackage(t) == ~ t.check /\ t.st = "done" /\ Frozen(t)

\* ReviewReceipt::validate, ReviewVerdict::validate: a pass needs the required checks of the source
Verdict(db, t) == IF t.result = "pass" /\ db.task[t.of].result # "good" THEN "garbled" ELSE t.result

\* private_correction::stage, source, CorrectionContext::validate
MayCorrect(db, t) ==
    /\ t.check /\ t.st = "done" /\ Verdict(db, t) = "changes"
    /\ able = {"coder", "checker"}
    /\ db.task[t.of].round + 1 <= RoundLimit

CorrectionOf(db, i) == Staged(i, FALSE, db.task[db.task[i].of].round + 1)

StopLeavingRun(db, f, state) ==
    LET i == db.flow[f].current
    IN  [flow |-> [db.flow EXCEPT ![f].state = state],
         task |-> [db.task EXCEPT ![i].st = IF @ \in {"ready", "waiting", "prepared"} THEN "blocked" ELSE @]]

\* stop: the current run is asked to stop, and a card that nobody works on is blocked
Stop(db, f, state) ==
    LET i == db.flow[f].current
    IN  [flow |-> [db.flow EXCEPT ![f].state = state],
         task |-> [db.task EXCEPT ![i].st = IF @ \in {"ready", "waiting", "prepared"} THEN "blocked" ELSE @,
                                  ![i].asked = @ \/ db.task[i].run # "none"]]

Staging(db, f, t, fl) == [task |-> Append(db.task, t), flow |-> [db.flow EXCEPT ![f] = fl]]

\* advance, the coder is done: a check of its package (MaxTasks bounds the model)
ToCheck(db, f) ==
    LET i == db.flow[f].current  new == Len(db.task) + 1
    IN  CASE ~ HasPackage(db.task[i]) \/ "checker" \notin able -> Stop(db, f, "blocked")
          [] OTHER -> IF new > MaxTasks THEN db
                      ELSE Staging(db, f, Staged(i, TRUE, 0), [db.flow[f] EXCEPT !.current = new, !.checking = TRUE])

\* advance, the checker is done
Judge(db, f) ==
    LET i == db.flow[f].current  t == db.task[i]  new == Len(db.task) + 1
    IN  CASE Verdict(db, t) = "pass" -> [db EXCEPT !.flow[f].state = "passed"]
          [] Verdict(db, t) # "pass" /\ (~ MayCorrect(db, t) \/ db.flow[f].corrections >= db.flow[f].limit) ->
                Stop(db, f, "blocked")
          [] OTHER -> IF new > MaxTasks THEN db
                      ELSE Staging(db, f, CorrectionOf(db, i),
                                 [db.flow[f] EXCEPT !.current = new, !.coder = new, !.checking = FALSE, !.corrections = @ + 1])

\* private_run::status is queued or running, and nobody asked for a stop
Underway(t) == ~ t.asked /\ (t.run = "queued" \/ (t.run = "running" /\ t.leased))

\* advance, the task is not done: request its preparation, then its run, then watch that run
Drive(db, f) ==
    LET i == db.flow[f].current  t == db.task[i]
    IN  CASE t.st = "waiting" -> [db EXCEPT !.task[i].prep = IF @ = "none" THEN "queued" ELSE @]
          [] t.st = "prepared" -> [db EXCEPT !.task[i].run = "queued", !.task[i].st = "ready"]
          [] OTHER -> IF Underway(t) THEN db ELSE Stop(db, f, "blocked")

\* advance, with what advance_owner does when it fails
Advance(db, f) ==
    LET t == db.task[db.flow[f].current]
    IN  CASE db.flow[f].state # "active" -> db
          [] db.flow[f].state = "active" /\ db.flow[f].late -> Stop(db, f, "stopped")
          [] OTHER -> CASE ~ Assigned(t) -> Stop(db, f, "blocked")
                        [] Assigned(t) /\ t.st # "done" -> Drive(db, f)
                        [] OTHER -> IF db.flow[f].checking THEN Judge(db, f) ELSE ToCheck(db, f)

\* the workflows in the order they were started, up to f
AdvanceAll(db) ==
    LET upTo[f \in 0 .. Len(db.flow)] == IF f = 0 THEN db ELSE Advance(upTo[f - 1], f)
    IN  upTo[Len(db.flow)]

Db == [task |-> task, flow |-> flow]

\* the tasks whose workflow ends between db and new
Dropped(db, new) == {db.flow[f].current : f \in {g \in 1 .. Len(db.flow) : db.flow[g].state = "active" /\ new.flow[g].state \in {"stopped", "blocked"}}}

Commit(new) ==
    /\ task' = new.task /\ flow' = new.flow
    /\ hand' = hand \ Dropped(Db, new)
    /\ UNCHANGED <<able, byHand, changes>>
----------------------------------------------------------------------------
(* The owner's workflows.                                                  *)

\* private_review_workflow_start, of a code task that is blocked or done
Start(i, limit) ==
    /\ Len(flow) < MaxFlows
    /\ ~ task[i].check /\ task[i].st \notin {"ready", "running"}
    /\ Assigned(task[i]) /\ "checker" \in able
    /\ LET f == [state |-> "active", source |-> i, current |-> i, coder |-> i, checking |-> FALSE,
                 corrections |-> 0, limit |-> limit, late |-> FALSE]
           new == AdvanceAll([task |-> task, flow |-> Append(flow, f)])
       IN  /\ task' = new.task /\ flow' = new.flow
           /\ hand' = hand \ (Dropped(Db, new) \cup (IF new.flow[Len(new.flow)].state = "active" THEN {} ELSE {i}))
    /\ UNCHANGED <<able, byHand, changes>>

\* private_review_workflows, private_run_status, private_coding_pending
Poll == Commit(AdvanceAll(Db))

\* private_review_workflow_stop
StopFlow(f) == flow[f].state = "active" /\ Commit(Stop(Db, f, "stopped"))

Deadline(f) ==
    /\ flow[f].state = "active" /\ ~ flow[f].late
    /\ flow' = [flow EXCEPT ![f].late = TRUE]
    /\ UNCHANGED <<task, able, hand, byHand, changes>>

Side(a) ==
    /\ changes < MaxChanges /\ changes' = changes + 1
    /\ able' = (able \ {a}) \cup ({a} \ able)
    /\ UNCHANGED <<task, flow, hand, byHand>>
----------------------------------------------------------------------------
(* The computers.                                                          *)

Works(t) == UNCHANGED <<flow, able, hand, byHand, changes>>

\* private_preparation_take: not for a workflow that is over
Take(i) ==
    /\ task[i].prep = "queued" /\ task[i].st = "waiting"
    /\ \A f \in 1 .. Len(flow) : flow[f].current = i => flow[f].state = "active"
    /\ task' = [task EXCEPT ![i].prep = "claimed"]
    /\ Works(i)

\* private_preparation_complete
Complete(i) ==
    /\ task[i].prep = "claimed" /\ task[i].st = "waiting"
    /\ task' = [task EXCEPT ![i].prep = "prepared", ![i].st = "prepared", ![i].workspace = TRUE]
    /\ Works(i)

\* private_run_ready
Ready(i) ==
    /\ task[i].st = "retry" /\ task[i].run = "queued" /\ ~ task[i].asked
    /\ task' = [task EXCEPT ![i].st = "ready"]
    /\ Works(i)

\* claim_card with allows_claim: once prepared remotely, only under a queued run
Claim(i) ==
    /\ task[i].st = "ready" \/ (task[i].st = "running" /\ ~ task[i].leased)
    /\ task[i].prep = "none" \/ (task[i].run = "queued" /\ ~ task[i].asked)
    /\ Assigned(task[i])
    /\ task' = [task EXCEPT ![i].st = "running", ![i].leased = TRUE,
                            ![i].run = IF @ = "queued" THEN "running" ELSE @]
    /\ Works(i)

\* complete_card; a code session leaves a package or not, a check whatever its computer wrote
Finish(i, result) ==
    /\ task[i].leased
    /\ result \in IF task[i].check THEN CheckResults ELSE CodeResults
    /\ task' = [task EXCEPT ![i].st = "done", ![i].leased = FALSE, ![i].result = result]
    /\ Works(i)

\* fail_card, and a lease that runs out
Fail(i) ==
    /\ task[i].leased
    /\ \E s \in {"blocked", "running"} : task' = [task EXCEPT ![i].st = s, ![i].leased = FALSE]
    /\ Works(i)
----------------------------------------------------------------------------
(* The owner by hand.                                                      *)

ByHand ==
    /\ byHand < MaxByHand /\ byHand' = byHand + 1
    /\ UNCHANGED <<flow, able, changes>>

\* private_run_stop
StopRun(i) ==
    /\ task[i].run # "none" /\ task[i].st # "done" /\ ~ task[i].asked
    /\ task' = [task EXCEPT ![i].asked = TRUE, ![i].st = IF @ = "ready" THEN "blocked" ELSE @]
    /\ UNCHANGED hand /\ ByHand

\* private_run_retry: the old run is over and left nothing
RetryRun(i) ==
    /\ task[i].run = "running" \/ task[i].asked
    /\ ~ task[i].leased /\ task[i].st # "done"
    /\ task' = [task EXCEPT ![i].run = "queued", ![i].asked = FALSE, ![i].st = "retry"]
    /\ hand' = hand \cup {i} /\ ByHand

\* private_preparation_request, private_run_request
Request(i) ==
    /\ \/ /\ task[i].st = "waiting" /\ task[i].prep = "none"
          /\ task' = [task EXCEPT ![i].prep = "queued"]
       \/ /\ task[i].st = "prepared"
          /\ task' = [task EXCEPT ![i].run = "queued", ![i].st = "ready"]
    /\ hand' = hand \cup {i} /\ ByHand

\* prepare_private_code_task, retry_private_code_task on the computer itself
ByItself(i) ==
    /\ Assigned(task[i])
    /\ \/ task[i].st = "waiting"
       \/ /\ task[i].st \in {"prepared", "retry", "blocked", "running"} /\ ~ task[i].leased
          /\ task[i].workspace
    /\ task' = [task EXCEPT ![i].st = "ready", ![i].workspace = TRUE]
    /\ hand' = hand \cup {i} /\ ByHand

\* private_code_task_stage of a check, private_code_correction_stage
StageByHand(i) ==
    /\ Len(task) < MaxTasks
    /\ \/ /\ HasPackage(task[i]) /\ "checker" \in able
          /\ task' = Append(task, Staged(i, TRUE, 0))
       \/ /\ MayCorrect(Db, task[i])
          /\ task' = Append(task, CorrectionOf(Db, i))
    /\ UNCHANGED hand /\ ByHand

Computers(i) ==
    \/ Take(i) \/ Complete(i) \/ Ready(i) \/ Claim(i) \/ Fail(i)
    \/ \E r \in CodeResults \cup CheckResults : Finish(i, r)

Owner(i) ==
    \/ StopRun(i) \/ RetryRun(i) \/ Request(i) \/ ByItself(i) \/ StageByHand(i)
    \/ \E limit \in Allowed : Start(i, limit)

Next ==
    \/ Poll
    \/ \E i \in 1 .. Len(task) : Computers(i) \/ Owner(i)
    \/ \E f \in 1 .. Len(flow) : StopFlow(f) \/ Deadline(f)
    \/ \E a \in {"coder", "checker"} : Side(a)

Spec == Init /\ [][Next]_vars
----------------------------------------------------------------------------
(* Properties.                                                             *)

\* The word passed is never said lightly: it stands on the pass of the check of that very code, whose
\* required checks passed, after no more corrections than the owner allowed and the code ever allows.
PassedIsChecked ==
    \A f \in 1 .. Len(flow) :
        flow[f].state = "passed" =>
            LET t == task[flow[f].current]  c == task[flow[f].coder]
            IN  /\ t.check /\ t.result = "pass" /\ t.of = flow[f].coder
                /\ ~ c.check /\ c.result = "good"
                /\ flow[f].corrections <= flow[f].limit
                /\ c.round = task[flow[f].source].round + flow[f].corrections
                /\ c.round <= RoundLimit

\* What a stopped workflow leaves, no computer starts: the task it was at is not claimed again, however
\* far its preparation or its run had come, until its owner starts it by hand or another workflow does.
OverIsOver(i) ==
    (/\ ~ task[i].leased /\ task'[i].leased
     /\ task[i].prep # "none"
     /\ \E f \in 1 .. Len(flow) : flow[f].current = i /\ flow[f].state \in {"stopped", "blocked"}
     /\ \A f \in 1 .. Len(flow) : flow[f].current = i => flow[f].state # "active")
        => i \in hand

\* private_review_workflow_start's promise, "the entire bounded chain", both ways.
WorkflowsStep == PassedIsChecked' /\ \A i \in 1 .. Len(task) : OverIsOver(i)
WorkflowsSafe == [][WorkflowsStep]_vars
=============================================================================
