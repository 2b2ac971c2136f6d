---------------------------- MODULE CodeSession ----------------------------
(***************************************************************************)
(* One coding session: the loop of coder.rs (run_session_with_context),    *)
(* the host checks of coder/acceptance.rs, the bounded verify_task of      *)
(* coder/verification.rs, the gate of coder/coordinator.rs, and the result *)
(* tools.rs makes of the outcome.                                          *)
(*                                                                         *)
(* The brain (a model) may answer anything at any time; every tool, every  *)
(* check and every answer of the brain takes time, during which the lease  *)
(* of the card may run out.  Nothing is interrupted: the loop looks at the *)
(* clock between calls.                                                    *)
(***************************************************************************)
EXTENDS Naturals

CONSTANTS
    MaxTurns,       \* spec.max_turns
    MaxRepairs,     \* spec.max_acceptance_repairs
    MaxVerifyRuns,  \* spec.max_verification_runs
    Declared,       \* whether spec.acceptance has a required check
    Lease,          \* the time left on the lease when the session starts
    MaxBatch,       \* bound: tool calls in one answer of the brain
    None

VARIABLES
    pc,          \* where the loop is
    left,        \* lease_expires_at - now
    turns, repairs,
    calls,       \* tool calls of the batch that have not run
    context,     \* the coordinator envelope: none, no children, or their state
    spawned,     \* spawned_this_session
    good,        \* whether the required checks would pass on the workspace now
    verifyRuns,  \* VerificationState.runs
    terminal,    \* VerificationState.terminal
    failure,     \* VerificationState.last_failure
    lastGate,    \* last_acceptance
    outcome,     \* the CodeSessionOutcome, None while the session runs
    package,     \* whether a review package was captured
    execs        \* runs of the declared checks (history)

budget == <<turns, repairs, verifyRuns>>
gates == <<terminal, failure, lastGate>>
vars == <<pc, left, calls, context, spawned, good, outcome, package, budget, gates, execs>>

(***************************************************************************)
(* What a run of the checks can come to: AcceptanceOutcome, with the cases *)
(* that matter kept apart.  "passed_advisory" passed although an advisory  *)
(* check timed out or did not start; "timed_out" is Failed with a check    *)
(* that timed out, which is not repaired.                                  *)
(***************************************************************************)
Gate == {"unverified", "skipped", "passed", "passed_advisory", "failed", "timed_out", "errored"}

Blocks(gate) == gate \in {"failed", "timed_out", "errored"}

Outcome == [end : {"text", "turn_limit", "lease", "waiting", "error"},
            gate : Gate, expired : BOOLEAN]

SessionAssumption ==
    /\ MaxTurns \in Nat \ {0} /\ MaxRepairs \in Nat /\ MaxVerifyRuns \in Nat
    /\ Declared \in BOOLEAN /\ (MaxVerifyRuns > 0 => Declared)
    /\ Lease \in Nat /\ MaxBatch \in Nat \ {0}
    /\ None \notin Gate /\ None \notin Outcome

TypeOK ==
    /\ pc \in {"top", "brain", "batch", "verify", "answer", "final", "capture", "finish", "done"}
    /\ left \in 0 .. Lease
    /\ turns \in 0 .. MaxTurns /\ repairs \in 0 .. MaxRepairs
    /\ verifyRuns \in 0 .. MaxVerifyRuns
    /\ calls \in 0 .. MaxBatch
    /\ context \in {"none", "childless", "pending", "complete"}
    /\ spawned \in BOOLEAN /\ good \in BOOLEAN /\ package \in BOOLEAN
    /\ {terminal, failure, lastGate} \subseteq Gate \cup {None}
    /\ outcome \in Outcome \cup {None}
    /\ execs \in Nat

Init ==
    /\ pc = "top" /\ left = Lease
    /\ turns = 0 /\ repairs = 0 /\ verifyRuns = 0 /\ calls = 0
    /\ context \in {"none", "childless", "pending", "complete"}
    /\ spawned = FALSE /\ good \in BOOLEAN /\ package = FALSE
    /\ terminal = None /\ failure = None /\ lastGate = None
    /\ outcome = None /\ execs = 0

Expired == left = 0

Ended(end, gate, expired) == [end |-> end, gate |-> gate, expired |-> expired]

----------------------------------------------------------------------------
(* The top of the loop. *)

TurnLimit ==
    /\ pc = "top" /\ turns >= MaxTurns
    /\ outcome' = Ended("turn_limit", "skipped", FALSE)
    /\ pc' = "finish"
    /\ UNCHANGED <<left, calls, context, spawned, good, package, budget, gates, execs>>

LeaseExpired ==
    /\ pc = "top" /\ turns < MaxTurns /\ Expired
    /\ outcome' = Ended("lease", "skipped", TRUE)
    /\ pc' = "finish"
    /\ UNCHANGED <<left, calls, context, spawned, good, package, budget, gates, execs>>

NextTurn ==
    /\ pc = "top" /\ turns < MaxTurns /\ ~ Expired
    /\ turns' = turns + 1
    /\ pc' = "brain"
    /\ UNCHANGED <<left, calls, context, spawned, good, outcome, package,
                   repairs, verifyRuns, gates, execs>>

----------------------------------------------------------------------------
(* The answer of the brain. *)

Stop == /\ outcome' = Ended("error", "skipped", FALSE)
        /\ pc' = "done"
        /\ UNCHANGED <<left, calls, context, spawned, good, package, budget, gates, execs>>

\* a failed request, or an empty text
BrainFails == pc = "brain" /\ Stop

\* a text while children of this session, or of an earlier one, are not done
CompletionBlocked ==
    /\ pc = "brain"
    /\ spawned \/ context = "pending"
    /\ Stop

AnswerText ==
    /\ pc = "brain"
    /\ ~ spawned /\ context # "pending"
    /\ pc' = "answer"
    /\ UNCHANGED <<left, calls, context, spawned, good, outcome, package, budget, gates, execs>>

AnswerCalls ==
    /\ pc = "brain"
    /\ calls' \in 1 .. MaxBatch
    /\ pc' = "batch"
    /\ UNCHANGED <<left, context, spawned, good, outcome, package, budget, gates, execs>>

----------------------------------------------------------------------------
(* The tool calls of a batch, one after the other, the lease read before each. *)

BatchEnd ==
    /\ pc = "batch" /\ calls = 0
    /\ pc' = "top"
    /\ UNCHANGED <<left, calls, context, spawned, good, outcome, package, budget, gates, execs>>

BatchLeaseExpired ==
    /\ pc = "batch" /\ calls > 0 /\ Expired
    /\ outcome' = Ended("lease", "skipped", TRUE)
    /\ pc' = "finish"
    /\ UNCHANGED <<left, calls, context, spawned, good, package, budget, gates, execs>>

MayRun == pc = "batch" /\ calls > 0 /\ ~ Expired

Ran == calls' = calls - 1

\* read_file, write_file, list_dir, run_command, vault_*: what they leave in the
\* workspace is up to the model; a refused or failed call is the same without effect
ToolCall ==
    /\ MayRun /\ Ran
    /\ good' \in BOOLEAN
    /\ UNCHANGED <<pc, left, context, spawned, outcome, package, budget, gates, execs>>

\* hub.spawn_child_card succeeds; refused to a recovered coordinator
SpawnCard ==
    /\ MayRun /\ Ran
    /\ context \notin {"pending", "complete"}
    /\ spawned' = TRUE
    /\ UNCHANGED <<pc, left, context, good, outcome, package, budget, gates, execs>>

\* hub.wait_on_child succeeds: the hub has ended the lease, the session stops here
WaitForChild ==
    /\ MayRun /\ Ran
    /\ spawned \/ context \in {"pending", "complete"}
    /\ outcome' = Ended("waiting", "skipped", FALSE)
    /\ pc' = "done"
    /\ UNCHANGED <<left, context, spawned, good, package, budget, gates, execs>>

Refused == MaxVerifyRuns = 0 \/ terminal # None \/ verifyRuns >= MaxVerifyRuns

AfterVerify == lastGate' = IF failure' # None THEN failure' ELSE lastGate

VerifyRefused ==
    /\ MayRun /\ Ran /\ Refused
    /\ UNCHANGED <<terminal, failure>> /\ AfterVerify
    /\ UNCHANGED <<pc, left, context, spawned, good, outcome, package, budget, execs>>

VerifyTask ==
    /\ MayRun /\ Ran /\ ~ Refused
    /\ verifyRuns' = verifyRuns + 1
    /\ execs' = execs + 1
    /\ pc' = "verify"
    /\ UNCHANGED <<left, context, spawned, good, outcome, package, turns, repairs, gates>>

\* acceptance::run with the lease running: each check is limited to what is left
\* of it, and none is started after it
CheckResults ==
    {"errored", "timed_out"}
        \cup (IF good THEN {"passed", "passed_advisory"} ELSE {"failed"})
        \cup (IF Expired THEN {"skipped"} ELSE {})

VerifyDone ==
    /\ pc = "verify"
    /\ \E gate \in CheckResults :
        LET fatal == gate \notin {"passed", "failed"}
            kept == IF fatal /\ gate # "skipped" THEN "errored" ELSE gate
        IN /\ terminal' = IF fatal THEN kept ELSE None
           /\ failure' = IF Blocks(kept) THEN kept ELSE failure
           /\ AfterVerify
    /\ pc' = "batch"
    /\ UNCHANGED <<left, calls, context, spawned, good, outcome, package, budget, execs>>

----------------------------------------------------------------------------
(* A text: the final checks, a bounded repair, or the end. *)

\* a verification that stopped fatally is the result; nothing is replayed
KeepTerminal ==
    /\ pc = "answer" /\ terminal # None
    /\ outcome' = Ended("text", terminal, Expired)
    /\ terminal' = None
    /\ pc' = "capture"
    /\ UNCHANGED <<left, calls, context, spawned, good, package, budget, failure, lastGate, execs>>

\* no checks are declared, or the lease is over before the first one
NoChecks ==
    /\ pc = "answer" /\ terminal = None
    /\ ~ Declared \/ Expired
    /\ outcome' = Ended("text", IF Declared THEN "skipped" ELSE "unverified", Expired)
    /\ pc' = "capture"
    /\ UNCHANGED <<left, calls, context, spawned, good, package, budget, gates, execs>>

FinalChecksReusingPreview ==
    /\ pc = "answer" /\ terminal = None /\ Declared /\ ~ Expired
    /\ IF verifyRuns > 0 /\ failure = None
          THEN /\ outcome' = Ended("text", "passed", Expired)
               /\ pc' = "capture"
               /\ UNCHANGED execs
          ELSE /\ execs' = execs + 1
               /\ pc' = "final"
               /\ UNCHANGED outcome
    /\ UNCHANGED <<left, calls, context, spawned, good, package, budget, gates>>

FinalChecks ==
    /\ pc = "answer" /\ terminal = None /\ Declared /\ ~ Expired
    /\ execs' = execs + 1
    /\ pc' = "final"
    /\ UNCHANGED <<left, calls, context, spawned, good, outcome, package, budget, gates>>

MayRepair(gate) ==
    gate = "failed" /\ ~ Expired /\ repairs < MaxRepairs /\ turns < MaxTurns

Repair ==
    /\ pc = "final"
    /\ \E gate \in CheckResults : MayRepair(gate) /\ lastGate' = gate
    /\ repairs' = repairs + 1
    /\ pc' = "top"
    /\ UNCHANGED <<left, calls, context, spawned, good, outcome, package,
                   turns, verifyRuns, terminal, failure, execs>>

Accept ==
    /\ pc = "final"
    /\ \E gate \in CheckResults :
        ~ MayRepair(gate) /\ outcome' = Ended("text", gate, Expired)
    /\ pc' = "capture"
    /\ UNCHANGED <<left, calls, context, spawned, good, package, budget, gates, execs>>

----------------------------------------------------------------------------
(* The end of the session. *)

\* the latest failed gate replaces a skipped one; a review package is captured
\* of a session that may complete, and may fail
Preserved == IF outcome.gate = "skipped" /\ lastGate # None THEN lastGate ELSE outcome.gate

Capture ==
    /\ pc \in {"capture", "finish"}
    /\ pc' = "done"
    /\ outcome' = [outcome EXCEPT !.gate = Preserved, !.expired = @ \/ Expired]
    /\ package' \in {FALSE,
           outcome.end # "turn_limit" /\ ~ outcome.expired /\ ~ Blocks(Preserved)}
    /\ UNCHANGED <<left, calls, context, spawned, good, budget, gates, execs>>

\* time passes while a call is in flight
Elapse ==
    /\ pc # "done" /\ left > 0
    /\ left' = left - 1
    /\ UNCHANGED <<pc, calls, context, spawned, good, outcome, package, budget, gates, execs>>

SessionStep ==
    \/ TurnLimit \/ LeaseExpired \/ NextTurn
    \/ BrainFails \/ CompletionBlocked \/ AnswerText \/ AnswerCalls
    \/ BatchEnd \/ BatchLeaseExpired
    \/ ToolCall \/ SpawnCard \/ WaitForChild
    \/ VerifyRefused \/ VerifyTask \/ VerifyDone
    \/ KeepTerminal \/ NoChecks \/ FinalChecks \/ Repair \/ Accept
    \/ Capture

Next == SessionStep \/ Elapse

Spec == Init /\ [][Next]_vars

\* every call the session makes returns: commands have time-outs, and so have the
\* requests to a model (the brain itself is given no limit by the loop)
FairSpec == Spec /\ WF_vars(SessionStep)

----------------------------------------------------------------------------
(***************************************************************************)
(* Properties.                                                             *)
(***************************************************************************)

\* run_code_session_with_deps: whether the worker may complete the card
Ok(o) == o.end \notin {"turn_limit", "error"} /\ ~ o.expired /\ ~ Blocks(o.gate)

\* A session that is reported as done, on a card with a required check, leaves a
\* workspace that passes it: a check that passed before a later edit is not reused,
\* and neither a turn limit, a lease nor a fatal check can be taken for success.
OkMeansVerified ==
    pc = "done" /\ Ok(outcome) /\ outcome.end = "text" /\ Declared =>
        good /\ outcome.gate \in {"passed", "passed_advisory"}

\* No tool call and no run of the checks starts once the lease has run out.
NothingStartsAfterLease == [][calls' < calls \/ execs' # execs => left > 0]_vars

\* The saved limits bound how often the declared checks run, whatever the model
\* asks for: the agent's runs, one after each repair, and one more.
ChecksWithinBudget == execs <= MaxVerifyRuns + MaxRepairs + 1

\* After a check timed out or could not run in a verification, no check runs again
\* in this session ("no automatic replay is permitted").
FatalChecksStand == [][terminal # None => execs' = execs]_vars

\* A coordinator that has children it has not seen finished cannot complete: it
\* pauses for them or it fails.
ChildrenAreAwaited ==
    pc = "done" /\ Ok(outcome) /\ outcome.end = "text" => ~ spawned /\ context # "pending"

\* A package for review is only captured from a session whose checks did not fail
\* and which stopped by itself, within its lease at the moment of the capture.
PackagesComeFromSuccess ==
    package => outcome.end = "text" /\ ~ Blocks(outcome.gate)

\* A failed gate is never lost: a session that stops at a limit after one reports it.
FailureIsReported ==
    pc = "done" /\ outcome.end \in {"turn_limit", "lease"} /\ failure # None =>
        Blocks(outcome.gate)

\* The session ends, whatever the model answers.
Terminates == <>(pc = "done")

\* What a session reports can be trusted: success was verified, failure is not lost, limits were kept.
SessionSafe ==
    /\ OkMeansVerified
    /\ ChecksWithinBudget
    /\ ChildrenAreAwaited
    /\ PackagesComeFromSuccess
    /\ FailureIsReported
=============================================================================
