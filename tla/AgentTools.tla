----------------------------- MODULE AgentTools -----------------------------
(***************************************************************************)
(* The tools an agent may use while it answers a message, and what is      *)
(* recorded of them (local_hub/agent_tools.rs, agent_tools/                *)
(* source_evidence.rs, agent_tools/library_save.rs, bots_library.rs and    *)
(* bots/library_tools.rs).  One agent, one message to it.  The delivery of *)
(* the message is handed out again when its lease lapses, and the earlier  *)
(* attempt does not know: two attempts may run side by side, and the       *)
(* owner changes what the agent may do while they do.  An attempt reads    *)
(* the policy once; the hub checks every call against the current one.     *)
(***************************************************************************)
EXTENDS Naturals, Sequences, FiniteSets

CONSTANTS
    Limit,        \* tool calls of one attempt (8)
    MaxInvalid,   \* rounds of nothing but malformed calls before giving up (3)
    MaxGen,       \* bound: how often the delivery is claimed
    MaxRevision,  \* bound: revisions of the policy
    MaxBatch,     \* bound: calls in one answer of the model
    Saved,        \* what the owner has allowed before
    Offers,       \* the sets of tools the owner chooses between
    None

ToolsAssumption ==
    /\ {Limit, MaxInvalid, MaxGen, MaxRevision, MaxBatch} \subseteq Nat \ {0}
    /\ Offers \cup {Saved} \subseteq SUBSET {"read", "fetch", "post", "save"}

Gens == 1..MaxGen

VARIABLES
    policy,    \* what the owner allows: the revision and the granted tools
    assigned,  \* the agent is not archived and this computer is its host
    shared,    \* this computer may read, and save to, the collections
    delivery,  \* of the message: its status, lease generation and whether the lease holds
    attempts,  \* what each claim of the delivery has led to
    receipts,  \* the calls that were allowed, and what was observed of sources
    findings,  \* per attempt, the receipts its saved findings rest on, {} before
    reply,     \* the attempt that wrote the stored reply, 0 when there is none
    origin     \* the receipts recorded as sources of the reply the owner saved, or None

vars == <<policy, assigned, shared, delivery, attempts, receipts, findings, reply, origin>>

\* What the process keeps of an attempt.
NoAttempt == [phase |-> "none", revision |-> 0, offered |-> {}, used |-> 0, invalid |-> 0,
              rounds |-> 0, last |-> FALSE, batch |-> <<>>, receipt |-> 0]

Left(phase) == [NoAttempt EXCEPT !.phase = phase]

\* The owner has saved a policy for the agent.
Init ==
    /\ policy = [revision |-> 1, grants |-> Saved]
    /\ assigned = TRUE
    /\ shared = TRUE
    /\ delivery = [status |-> "pending", generation |-> 0, live |-> FALSE]
    /\ attempts = [g \in Gens |-> NoAttempt]
    /\ receipts = <<>>
    /\ findings = [g \in Gens |-> {}]
    /\ reply = 0
    /\ origin = None

-----------------------------------------------------------------------------
(***************************************************************************)
(* The owner                                                               *)
(***************************************************************************)

\* bots_agent_tool_policy_set: the page must have loaded the current
\* revision; a collection to save to must be open to the agent's computer.
PolicySet(grants, loaded) ==
    /\ assigned /\ policy.revision < MaxRevision
    /\ loaded = policy.revision
    /\ "save" \in grants => shared
    /\ policy' = [revision |-> policy.revision + 1, grants |-> grants]
    /\ UNCHANGED <<assigned, shared, delivery, attempts, receipts, findings, reply, origin>>

\* bots_agent_web_post_hosts_grant_local: adds to what is granted, whatever
\* revision that is.
GrantLocal(tool) ==
    /\ policy.revision < MaxRevision
    /\ policy' = [revision |-> policy.revision + 1, grants |-> policy.grants \cup {tool}]
    /\ UNCHANGED <<assigned, shared, delivery, attempts, receipts, findings, reply, origin>>

\* The agent is archived or given another host.
Unassign ==
    /\ assigned
    /\ assigned' = FALSE
    /\ UNCHANGED <<policy, shared, delivery, attempts, receipts, findings, reply, origin>>

\* The collections are opened to this computer or closed to it: no new
\* revision of the policy.
Share(yes) ==
    /\ yes # shared
    /\ shared' = yes
    /\ UNCHANGED <<policy, assigned, delivery, attempts, receipts, findings, reply, origin>>

-----------------------------------------------------------------------------
(***************************************************************************)
(* The delivery                                                            *)
(***************************************************************************)

Claim ==
    /\ delivery.status = "pending" /\ delivery.generation < MaxGen
    /\ delivery' = [status |-> "running", generation |-> delivery.generation + 1, live |-> TRUE]
    /\ attempts' = [attempts EXCEPT ![delivery.generation + 1].phase = "claimed"]
    /\ UNCHANGED <<policy, assigned, shared, receipts, findings, reply, origin>>

\* The lease passes its deadline; the next look for pending work returns the
\* delivery under a new generation.  Nobody tells the attempt.
Lapse ==
    /\ delivery.status = "running"
    /\ delivery' =
           IF delivery.live THEN [delivery EXCEPT !.live = FALSE]
                   ELSE [delivery EXCEPT !.status = "pending", !.generation = @ + 1]
    /\ UNCHANGED <<policy, assigned, shared, attempts, receipts, findings, reply, origin>>

\* The process of the attempt dies.
Crash(g) ==
    /\ attempts[g].phase \notin {"none", "over"}
    /\ attempts' = [attempts EXCEPT ![g] = Left("over")]
    /\ UNCHANGED <<policy, assigned, shared, delivery, receipts, findings, reply, origin>>

-----------------------------------------------------------------------------
(***************************************************************************)
(* What the hub checks                                                     *)
(***************************************************************************)

\* Mutant: an attempt whose lease has lapsed still counts as the one at work.
AliveByStatus(g) == delivery.status = "running" /\ delivery.generation = g

\* turn_alive_check: the delivery is still this attempt's.
Alive(g) == delivery.status = "running" /\ delivery.generation = g /\ delivery.live

\* turn_check: and the attempt has calls left.
Uses(g) == Cardinality({r \in DOMAIN receipts : receipts[r].generation = g})
TurnCheck(g) == Alive(g) /\ Uses(g) < Limit

\* Every call: an active agent at its host, and the policy the attempt loaded.
Current(g) == assigned /\ policy.revision = attempts[g].revision

Authorized(g, tool) == Current(g) /\ TurnCheck(g) /\ tool \in policy.grants

Record(g, tool, seen) ==
    Append(receipts, [tool |-> tool, generation |-> g, revision |-> policy.revision, seen |-> seen])

-----------------------------------------------------------------------------
(***************************************************************************)
(* An attempt                                                              *)
(***************************************************************************)

\* The tools offered to the model are those the policy grants, no others.
Schemas(p) == p.grants

\* A call to a hub of another computer may be carried out and its answer lost.
Losses == BOOLEAN

\* What a request to a web server comes back with.  A redirect is not
\* followed: it is no page.
Fetched == {"page", "error"}

\* The runner reads the policy once.
LoadPolicy(g) ==
    /\ attempts[g].phase = "claimed" /\ assigned
    /\ attempts' = [attempts EXCEPT ![g].phase = "asking", ![g].revision = policy.revision,
                                    ![g].offered = Schemas(policy)]
    /\ UNCHANGED <<policy, assigned, shared, delivery, receipts, findings, reply, origin>>

\* The computer is busy: the delivery waits for another claim.
NoCapacity(g) ==
    /\ attempts[g].phase = "claimed"
    /\ delivery' = IF delivery.status = "running" /\ delivery.generation = g
                   THEN [delivery EXCEPT !.status = "pending", !.live = FALSE] ELSE delivery
    /\ attempts' = [attempts EXCEPT ![g] = Left("over")]
    /\ UNCHANGED <<policy, assigned, shared, receipts, findings, reply, origin>>

\* A call of a tool that is not offered, or with other arguments than the
\* tool's, is invalid.
Calls(g) == attempts[g].offered \cup {"invalid"}
Batches(g) == UNION {[1..n -> Calls(g)] : n \in 1..MaxBatch}

\* The model asks for tools.  Calls over the limit, calls where only a final
\* answer was asked for, and too many rounds of malformed calls end the attempt.
ModelCalls(g, batch) ==
    LET a == attempts[g]
        invalid == IF \A i \in DOMAIN batch : batch[i] = "invalid" THEN a.invalid + 1 ELSE 0
        fails == \/ a.last \/ a.used + Len(batch) > Limit \/ invalid >= MaxInvalid
    IN  /\ a.phase = "asking" /\ a.rounds <= Limit
        /\ attempts' = [attempts EXCEPT ![g] =
               IF fails THEN Left("failing")
               ELSE [a EXCEPT !.phase = "calling", !.batch = batch, !.invalid = invalid,
                              !.rounds = @ + 1]]
        /\ UNCHANGED <<policy, assigned, shared, delivery, receipts, findings, reply, origin>>

\* The model answers.  An empty answer is asked for once more, without tools.
ModelAnswers(g, empty) ==
    LET a == attempts[g]
    IN  /\ a.phase = "asking" /\ a.rounds <= Limit
        /\ attempts' = [attempts EXCEPT ![g] =
               IF ~ empty THEN Left("replying")
               ELSE IF a.last THEN Left("failing")
               ELSE [a EXCEPT !.last = TRUE, !.rounds = @ + 1]]
        /\ UNCHANGED <<policy, assigned, shared, delivery, receipts, findings, reply, origin>>

\* No round is left, or the request to the model fails.
RunsOut(g) ==
    /\ attempts[g].phase = "asking"
    /\ attempts' = [attempts EXCEPT ![g] = Left("failing")]
    /\ UNCHANGED <<policy, assigned, shared, delivery, receipts, findings, reply, origin>>

Calling(g, tool) == attempts[g].phase = "calling" /\ Head(attempts[g].batch) = tool

\* The call is answered: the next one of the batch, or the model again.
Answered(a) == [a EXCEPT !.used = @ + 1, !.batch = Tail(@),
                         !.phase = IF Len(a.batch) = 1 THEN "asking" ELSE "calling"]

Malformed(g) ==
    /\ Calling(g, "invalid")
    /\ attempts' = [attempts EXCEPT ![g] = Answered(@)]
    /\ UNCHANGED <<policy, assigned, shared, delivery, receipts, findings, reply, origin>>

\* bots_agent_web_authorize: the hub allows the fetch, the host performs it.
\* A refusal is told to the model; an answer that is lost ends the attempt,
\* although the call has been counted.
FetchAuthorize(g, lost) ==
    /\ Calling(g, "fetch")
    /\ IF Authorized(g, "fetch")
       THEN /\ receipts' = Record(g, "fetch", "pending")
            /\ attempts' = [attempts EXCEPT ![g] =
                   IF lost THEN Left("failing")
                   ELSE [@ EXCEPT !.phase = "fetching", !.receipt = Len(receipts')]]
       ELSE /\ attempts' = [attempts EXCEPT ![g] = IF lost THEN Left("failing")
                                                   ELSE Answered(@)]
            /\ UNCHANGED receipts
    /\ UNCHANGED <<policy, assigned, shared, delivery, findings, reply, origin>>

\* bots_agent_web_observe: what was fetched is recorded for the receipt, not
\* counted as another call.  A page is never replaced by another.
FetchObserve(g, seen) ==
    LET a == attempts[g]
        r == a.receipt
    IN  /\ a.phase = "fetching"
        /\ IF Current(g) /\ Alive(g) /\ receipts[r].seen \in {"pending", seen}
           THEN /\ receipts' = [receipts EXCEPT ![r].seen = seen]
                /\ attempts' = [attempts EXCEPT ![g] = [Answered(a) EXCEPT !.receipt = 0]]
           ELSE /\ attempts' = [attempts EXCEPT ![g] = Left("failing")]
                /\ UNCHANGED receipts
        /\ UNCHANGED <<policy, assigned, shared, delivery, findings, reply, origin>>

\* bots_agent_web_post_authorize and the request: one receipt, one request.
Post(g, lost) ==
    /\ Calling(g, "post")
    /\ receipts' = IF Authorized(g, "post") THEN Record(g, "post", None) ELSE receipts
    /\ attempts' = [attempts EXCEPT ![g] = IF lost THEN Left("failing")
                                           ELSE Answered(@)]
    /\ UNCHANGED <<policy, assigned, shared, delivery, findings, reply, origin>>

\* bots_agent_tool_execute: the checks, the read and its record are one
\* transaction.  A stale reference is told to the model; any other refusal
\* ends the attempt.
Read(g, stale) ==
    LET allowed == Authorized(g, "read") /\ shared
    IN  /\ Calling(g, "read")
        /\ receipts' = IF allowed /\ ~ stale THEN Record(g, "read", "page") ELSE receipts
        /\ attempts' = [attempts EXCEPT ![g] = IF allowed THEN Answered(@)
                                               ELSE Left("failing")]
        /\ UNCHANGED <<policy, assigned, shared, delivery, findings, reply, origin>>

\* A source that can support findings: observed in this attempt, under this
\* policy, and not an error.
Usable(g, r) ==
    /\ r \in DOMAIN receipts
    /\ receipts[r].generation = g /\ receipts[r].revision = policy.revision
    /\ receipts[r].seen = "page"

\* Keeping a receipt is no lasting access: the grants are checked again.
StillReadable(r) ==
    /\ receipts[r].tool \in policy.grants
    /\ receipts[r].tool = "read" => shared

Supported(g, sources) == \A r \in sources : Usable(g, r) /\ StillReadable(r)

\* bots_agent_library_save: one note per attempt; the same findings again
\* change nothing, others are refused.  Any refusal ends the attempt.
SaveFindings(g, sources, lost) ==
    LET granted == Current(g) /\ Alive(g) /\ "save" \in policy.grants /\ shared
                     /\ Supported(g, sources)
        again == granted /\ findings[g] = sources
        saves == granted /\ findings[g] = {} /\ TurnCheck(g)
    IN  /\ Calling(g, "save")
        /\ receipts' = IF saves THEN Record(g, "save", None) ELSE receipts
        /\ findings' = IF saves THEN [findings EXCEPT ![g] = sources] ELSE findings
        /\ attempts' = [attempts EXCEPT ![g] =
               IF (again \/ saves) /\ ~ lost THEN Answered(@) ELSE Left("failing")]
        /\ UNCHANGED <<policy, assigned, shared, delivery, reply, origin>>

\* message_send with the request id of the delivery: the first reply stays.
\* Nothing asks whether the attempt still holds the delivery.
Reply(g) ==
    /\ attempts[g].phase = "replying"
    /\ reply' = IF reply = 0 THEN g ELSE reply
    /\ attempts' = [attempts EXCEPT ![g] = Left("replied")]
    /\ UNCHANGED <<policy, assigned, shared, delivery, receipts, findings, origin>>

\* delivery_complete and delivery_fail are fenced by the generation.
Finish(g) ==
    /\ attempts[g].phase \in {"replied", "failing"}
    /\ delivery' = IF delivery.status = "running" /\ delivery.generation = g
                   THEN [delivery EXCEPT !.status = IF attempts[g].phase = "replied"
                                                    THEN "completed" ELSE "failed"]
                   ELSE delivery
    /\ attempts' = [attempts EXCEPT ![g] = Left("over")]
    /\ UNCHANGED <<policy, assigned, shared, receipts, findings, reply, origin>>

-----------------------------------------------------------------------------
(***************************************************************************)
(* The owner saves the reply                                               *)
(***************************************************************************)

\* reply_metadata: the sources of the reply are those recorded under the
\* generation the delivery has now.
ReplySources ==
    {r \in DOMAIN receipts : receipts[r].generation = delivery.generation
                               /\ receipts[r].tool \in {"read", "fetch"}}

\* bots_library_save: once; saving again returns the first note.
SaveReply ==
    /\ shared /\ reply # 0 /\ origin = None
    /\ origin' = ReplySources
    /\ UNCHANGED <<policy, assigned, shared, delivery, attempts, receipts, findings, reply>>

-----------------------------------------------------------------------------
Owner ==
    \/ \E grants \in Offers, loaded \in 0..MaxRevision : PolicySet(grants, loaded)
    \/ GrantLocal("post")
    \/ Unassign
    \/ \E yes \in BOOLEAN : Share(yes)
    \/ SaveReply

Attempt(g) ==
    \/ LoadPolicy(g)
    \/ NoCapacity(g)
    \/ \E batch \in Batches(g) : ModelCalls(g, batch)
    \/ \E empty \in BOOLEAN : ModelAnswers(g, empty)
    \/ RunsOut(g)
    \/ Malformed(g)
    \/ \E lost \in Losses : FetchAuthorize(g, lost)
    \/ \E seen \in Fetched : FetchObserve(g, seen)
    \/ \E lost \in Losses : Post(g, lost)
    \/ \E stale \in BOOLEAN : Read(g, stale)
    \/ \E sources \in (SUBSET DOMAIN receipts) \ {{}}, lost \in Losses :
           SaveFindings(g, sources, lost)
    \/ Reply(g)
    \/ Finish(g)
    \/ Crash(g)

Next ==
    \/ Owner
    \/ Claim
    \/ Lapse
    \/ \E g \in Gens : Attempt(g)

Spec == Init /\ [][Next]_vars

-----------------------------------------------------------------------------
(***************************************************************************)
(* Properties                                                              *)
(***************************************************************************)

\* No attempt has more calls counted than it may have, whatever is lost.
WithinLimit == \A g \in Gens : Uses(g) <= Limit

\* Findings rest on pages the same attempt has seen, and there is one receipt
\* for saving them.
FindingsAreSourced ==
    \A g \in Gens : findings[g] # {} =>
        /\ \A r \in findings[g] : receipts[r].generation = g /\ receipts[r].seen = "page"
        /\ Cardinality({r \in DOMAIN receipts : receipts[r].generation = g
                                                  /\ receipts[r].tool = "save"}) = 1

\* A step that saves findings, or lets a tool act, does so for the attempt
\* that holds the delivery, under a lease and by what the owner grants at that
\* moment; the sources of new findings may still be read then.
ActsWithAuthority ==
    /\ \A r \in DOMAIN receipts' \ DOMAIN receipts :
           /\ receipts'[r].tool \in policy.grants
           /\ delivery.live /\ delivery.generation = receipts'[r].generation
           /\ assigned
    /\ \A g \in Gens : findings'[g] # findings[g] =>
           \A r \in findings'[g] : receipts[r].tool \in policy.grants
                                     /\ (receipts[r].tool = "read" => shared)

\* What was once observed of a source stays.
RecordsStay ==
    /\ Len(receipts') >= Len(receipts)
    /\ \A r \in DOMAIN receipts :
           receipts[r].seen \in {"page", "error"} => receipts'[r] = receipts[r]
    /\ \A g \in Gens : findings[g] # {} => findings'[g] = findings[g]
    /\ origin # None => origin' = origin

\* Tools act only for the attempt that holds the delivery and by what is
\* granted at that moment, however old the policy is that the attempt loaded;
\* what is recorded of sources and findings is never changed, and findings are
\* saved with pages seen in the same attempt that may still be read.
ToolsStep == ActsWithAuthority /\ RecordsStay /\ WithinLimit' /\ FindingsAreSourced'
ToolsSafe == [][ToolsStep]_vars

\* source_evidence.rs: "Bind evidence to a stored executor reply"; the sources
\* kept with a saved reply were seen by the attempt that wrote that reply.
\* Refuted: the first reply stays, the sources are those of the last attempt.
OriginsAreOwn ==
    origin # None => \A r \in origin : receipts[r].generation = reply

=============================================================================
