------------------------------ MODULE AgentLoop ------------------------------
(***************************************************************************)
(* One text card on its way through the agent loop of the worker nodes:    *)
(* Draft, Critique, Revise, at most MaxRevisions times, with a checkpoint  *)
(* after every step.  Nodes die, lose their lease or hand the card back,   *)
(* and the next one resumes from the checkpoint; a card may spawn a child  *)
(* and wait for it; a member may send the finished card back.              *)
(*                                                                         *)
(* A draft is a number.  What a critique says of a draft and after how     *)
(* many revisions it was written is remembered beside the program.         *)
(***************************************************************************)
EXTENDS Naturals, FiniteSets

CONSTANTS
    Node, Nobody,
    MaxRevisions,  \* MAX_REVISIONS
    TTL,           \* ticks a lease lasts
    MaxDrafts,     \* bound: drafts written
    MaxFaults,     \* bound: nodes that die, calls that are lost
    MaxSendBacks   \* bound: times a member interferes

LoopAssumption ==
    /\ Nobody \notin Node
    /\ {MaxRevisions, TTL, MaxDrafts, MaxFaults, MaxSendBacks} \subseteq Nat

VARIABLES
    kind,             \* what the card asks for: a single step, a child to wait for
    status, holder, life,  \* hive.cards.status; hive.leases: node, ticks until expires_at
    ckpt,             \* the latest checkpoint, or NoState
    child,            \* the spawned child
    output,           \* the draft that was handed in, 0: none
    run, deadline,    \* of each node: its LoopState and the lease_expires_at it was told
    drafts, verdict, round,  \* drafts written; of each: what critiques said, its revisions
    rejected,         \* drafts that were handed in and sent back
    faults, sentBack

hub == <<status, holder, life, ckpt, child, output>>
history == <<drafts, verdict, round>>
vars == <<kind, hub, run, deadline, history, rejected, faults, sentBack>>

Phase == {"waiting_on_child", "draft", "critique", "revise", "done"}
LoopState == [phase : Phase, revisions : 0 .. MaxRevisions, draft : 0 .. MaxDrafts]
NoState == [phase |-> "none", revisions |-> 0, draft |-> 0]

\* where run_card is, beside its LoopState
Point == {"idle", "tool", "blocking", "wait", "top", "infer", "save", "finish"}

TypeOK ==
    /\ kind \in [single : BOOLEAN, child : BOOLEAN]
    /\ status \in {"ready", "running", "waiting_on_child", "review", "blocked"}
    /\ holder \in Node \cup {Nobody} /\ life \in 0 .. TTL
    /\ ckpt \in LoopState \cup {NoState}
    /\ child \in {"none", "open", "done", "failed"}
    /\ output \in 0 .. MaxDrafts /\ rejected \subseteq 1 .. MaxDrafts
    /\ run \in [Node -> [at : Point, st : LoopState \cup {NoState}]]
    /\ deadline \in [Node -> 0 .. TTL]
    /\ drafts \in 0 .. MaxDrafts
    /\ verdict \in [1 .. MaxDrafts -> SUBSET {"pass", "fail"}]
    /\ round \in [1 .. MaxDrafts -> 0 .. MaxRevisions]
    /\ faults \in 0 .. MaxFaults /\ sentBack \in 0 .. MaxSendBacks
    /\ status = "running" <=> holder # Nobody

Idle == [at |-> "idle", st |-> NoState]
NewState == [phase |-> "draft", revisions |-> 0, draft |-> 0]

Init ==
    /\ kind \in [single : BOOLEAN, child : BOOLEAN]
    /\ status = "ready" /\ holder = Nobody /\ life = 0
    /\ ckpt = NoState /\ child = "none" /\ output = 0 /\ rejected = {}
    /\ run = [n \in Node |-> Idle] /\ deadline = [n \in Node |-> 0]
    /\ drafts = 0 /\ verdict = [d \in 1 .. MaxDrafts |-> {}]
    /\ round = [d \in 1 .. MaxDrafts |-> 0]
    /\ faults = 0 /\ sentBack = 0

Moves(n, at, st) == run' = [run EXCEPT ![n] = [at |-> at, st |-> st]]
Ends(n) == run' = [run EXCEPT ![n] = Idle]
At(n, at) == run[n].at = at
Unlease == holder' = Nobody /\ life' = 0

----------------------------------------------------------------------------
(* Claiming, resuming and the step before the first draft.                 *)

\* tick: a checkpoint is resumed at its step, out of waiting_on_child straight into the draft
Claim(n) ==
    /\ At(n, "idle") /\ status = "ready"
    /\ status' = "running" /\ holder' = n /\ life' = TTL
    /\ deadline' = [deadline EXCEPT ![n] = TTL]
    /\ IF ckpt = NoState THEN Moves(n, "tool", NewState)
       ELSE Moves(n, "top", IF ckpt.phase = "waiting_on_child"
                               THEN [ckpt EXCEPT !.phase = "draft"] ELSE ckpt)
    /\ UNCHANGED <<kind, ckpt, child, output, history, rejected, faults, sentBack>>

\* maybe_run_tool: on a fresh start only; a card that is no longer ours spawns nothing
RunTool(n) ==
    /\ At(n, "tool")
    /\ IF kind.child /\ holder = n
          THEN /\ child' = "open"
               /\ Moves(n, "blocking", [run[n].st EXCEPT !.phase = "waiting_on_child"])
          ELSE UNCHANGED child /\ Moves(n, "top", run[n].st)
    /\ UNCHANGED <<kind, status, holder, life, ckpt, output, deadline, history, rejected, faults, sentBack>>

\* node_checkpoint: refused to a node without the lease, else the lease begins anew
Stored(n) ==
    IF holder = n THEN ckpt' = run[n].st /\ life' = TTL ELSE UNCHANGED <<ckpt, life>>

\* a checkpoint that fails is only logged
Checkpoint(n) ==
    /\ At(n, "blocking") \/ At(n, "save")
    /\ \/ Stored(n) /\ UNCHANGED faults
       \/ faults < MaxFaults /\ faults' = faults + 1 /\ UNCHANGED <<ckpt, life>>
    /\ Moves(n, IF At(n, "blocking") THEN "wait" ELSE "top", run[n].st)
    /\ UNCHANGED <<kind, status, holder, child, output, deadline, history, rejected, sentBack>>

\* wait_on_child: the lease is given up for the child, or the card drafted without it
WaitOnChild(n) ==
    /\ At(n, "wait")
    /\ \/ /\ holder = n
          /\ status' = "waiting_on_child" /\ Unlease
          /\ Ends(n) /\ UNCHANGED faults
       \/ /\ \/ holder # n /\ UNCHANGED faults
             \/ faults < MaxFaults /\ faults' = faults + 1
          /\ Moves(n, "top", [run[n].st EXCEPT !.phase = "draft"])
          /\ UNCHANGED <<status, holder, life>>
    /\ UNCHANGED <<kind, ckpt, child, output, deadline, history, rejected, sentBack>>

----------------------------------------------------------------------------
(* The loop.                                                               *)

\* node_release_card: checkpoints are kept for the next claimant
ReleasedBy(n) ==
    IF holder = n THEN status' = "ready" /\ Unlease ELSE UNCHANGED <<status, holder, life>>

\* the top of the loop: past the deadline the card is handed back
LeaseRanOut(n) ==
    /\ At(n, "top") /\ run[n].st.phase # "done" /\ deadline[n] = 0
    /\ ReleasedBy(n) /\ Ends(n)
    /\ UNCHANGED <<kind, ckpt, child, output, deadline, history, rejected, faults, sentBack>>

StartInference(n) ==
    /\ At(n, "top") /\ run[n].st.phase # "done" /\ deadline[n] > 0
    /\ Moves(n, "infer", run[n].st)
    /\ UNCHANGED <<kind, hub, deadline, history, rejected, faults, sentBack>>

FailUnowned(n) == status' = "blocked" /\ Unlease

\* node_fail_card: only of a card whose lease the node holds
Fail(n) == IF holder = n THEN status' = "blocked" /\ Unlease ELSE UNCHANGED <<status, holder, life>>

\* the backend fails, or cuts off a draft: half an artifact is never handed in
InferenceFails(n) ==
    /\ At(n, "infer")
    /\ Fail(n) /\ Ends(n)
    /\ UNCHANGED <<kind, ckpt, child, output, deadline, history, rejected, faults, sentBack>>

AfterDraft == IF kind.single THEN "done" ELSE "critique"
Continue(n, st) == Moves(n, IF st.phase = "done" THEN "finish" ELSE "save", st)

\* Draft and Revise
Write(n) ==
    LET st == run[n].st  revised == st.phase = "revise"  new == drafts + 1 IN
    /\ At(n, "infer") /\ st.phase \in {"draft", "revise"} /\ drafts < MaxDrafts
    /\ drafts' = new
    /\ round' = [round EXCEPT ![new] = IF revised THEN st.revisions + 1 ELSE st.revisions]
    /\ UNCHANGED verdict
    /\ Continue(n, [phase |-> IF revised THEN "critique" ELSE AfterDraft, draft |-> new,
                    revisions |-> IF revised THEN st.revisions + 1 ELSE st.revisions])
    /\ UNCHANGED <<kind, hub, deadline, rejected, faults, sentBack>>

\* Critique: the best draft is shipped when the revisions are used up
Judge(n) ==
    LET st == run[n].st IN
    /\ At(n, "infer") /\ st.phase = "critique"
    /\ \E said \in {"pass", "fail"} :
          /\ verdict' = [verdict EXCEPT ![st.draft] = @ \cup {said}]
          /\ Continue(n, [st EXCEPT !.phase =
                IF said = "pass" \/ st.revisions >= MaxRevisions THEN "done" ELSE "revise"])
    /\ UNCHANGED <<kind, hub, deadline, drafts, round, rejected, faults, sentBack>>

\* node_complete_card; the checkpoints stay
Complete(n) ==
    /\ At(n, "finish")
    /\ IF holder = n
          THEN status' = "review" /\ output' = run[n].st.draft /\ Unlease
          ELSE UNCHANGED <<status, output, holder, life>>
    /\ Ends(n)
    /\ UNCHANGED <<kind, ckpt, child, deadline, history, rejected, faults, sentBack>>

\* a stop in the middle of the card
Stop(n) ==
    /\ ~ At(n, "idle")
    /\ ReleasedBy(n) /\ Ends(n)
    /\ UNCHANGED <<kind, ckpt, child, output, deadline, history, rejected, faults, sentBack>>

----------------------------------------------------------------------------
(* Everybody else.                                                         *)

Dies(n) ==
    /\ ~ At(n, "idle") /\ faults < MaxFaults
    /\ faults' = faults + 1 /\ Ends(n)
    /\ UNCHANGED <<kind, hub, deadline, history, rejected, sentBack>>

Tick ==
    /\ life > 0 \/ \E n \in Node : deadline[n] > 0
    /\ life' = IF life > 0 THEN life - 1 ELSE 0
    /\ deadline' = [n \in Node |-> IF deadline[n] > 0 THEN deadline[n] - 1 ELSE 0]
    /\ UNCHANGED <<kind, status, holder, ckpt, child, output, run, history, rejected, faults, sentBack>>

\* reap_expired_leases
Reap ==
    /\ holder # Nobody /\ life = 0
    /\ status' = "ready" /\ Unlease
    /\ UNCHANGED <<kind, ckpt, child, output, run, deadline, history, rejected, faults, sentBack>>

\* cascade_child_status
ChildEnds ==
    /\ child = "open"
    /\ \E how \in {"done", "failed"} :
          /\ child' = how
          /\ status' = IF status # "waiting_on_child" THEN status
                       ELSE IF how = "done" THEN "ready" ELSE "blocked"
    /\ UNCHANGED <<kind, holder, life, ckpt, output, run, deadline, history, rejected, faults, sentBack>>

\* card_send_back: whatever the card is doing
SendBack ==
    /\ sentBack < MaxSendBacks /\ sentBack' = sentBack + 1
    /\ status' = "ready" /\ Unlease
    /\ rejected' = IF output = 0 THEN rejected ELSE rejected \cup {output}
    /\ output' = 0
    /\ UNCHANGED <<kind, ckpt, child, run, deadline, history, faults>>

Next ==
    \/ \E n \in Node :
          \/ Claim(n) \/ RunTool(n) \/ Checkpoint(n) \/ WaitOnChild(n)
          \/ LeaseRanOut(n) \/ StartInference(n) \/ InferenceFails(n)
          \/ Write(n) \/ Judge(n) \/ Complete(n) \/ Stop(n) \/ Dies(n)
    \/ Tick \/ Reap \/ ChildEnds \/ SendBack

Spec == Init /\ [][Next]_vars

----------------------------------------------------------------------------
(* Properties.                                                             *)

\* Whoever drafted, revised and reviewed it, and however often the card changed hands: a draft
\* that is handed in was passed by a critique of that very draft, or its revisions are used up.
OutputReviewed ==
    (output # 0 /\ ~ kind.single) =>
        \/ "pass" \in verdict[output]
        \/ "fail" \in verdict[output] /\ round[output] = MaxRevisions

\* What was handed in for review stays until a member sends it back: no node that was slow, was
\* reaped or was stopped can still fail, release or replace it.
ReviewStands ==
    [][status = "review" => (status' = "review" /\ output' = output) \/ sentBack' # sentBack]_vars

\* A card that is handed in: reviewed, and staying so, whichever node held it and lost it.
LoopStep == OutputReviewed' /\ (status = "review" => (status' = "review" /\ output' = output) \/ sentBack' # sentBack)
LoopSafe == [][LoopStep]_vars

\* Completing a card clears its checkpoints, so a card that is sent back is drafted again and
\* does not come back with the draft that was rejected.
SentBackMeansRedone == output \notin rejected

\* "If this card is here at all", a card resumed out of waiting_on_child has its child's output.
ChildOutputIsThere ==
    [][\A n \in Node :
          (At(n, "idle") /\ ~ At(n, "idle")' /\ ckpt.phase = "waiting_on_child") => child = "done"]_vars

\* After every step the lease is extended, so a node only hands a card back as expired when its
\* lease has run out.
ReleasesOnlyExpired ==
    [][\A n \in Node : (LeaseRanOut(n) /\ holder = n) => life = 0]_vars
=============================================================================
