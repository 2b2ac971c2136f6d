----------------------------- MODULE RemoteCalls -----------------------------
(*****************************************************************************)
(* A computer calls a hub.  RemoteLocalHub sends a method over the local     *)
(* transport, HubClient one over the web; the request may not arrive, the    *)
(* answer may be lost, the caller gives up while the hub goes on, the hub    *)
(* may go down in the middle, and the key of the computer may be revoked or  *)
(* an agent moved to another computer between two looks at them.             *)
(*                                                                           *)
(* A method is its name.  It reads, writes, or writes under a request id     *)
(* that the hub remembers; what it writes is left to the modules of the      *)
(* services.  The hub looks at the caller in one of several ways, stage by   *)
(* stage.                                                                    *)
(*****************************************************************************)
EXTENDS Naturals, FiniteSets

CONSTANTS
    Call,      \* calls that a program makes, each of them once
    Asked,     \* the methods each of them may ask for
    Id,        \* request ids, each made for one request
    Agent,     \* the agents of the owner
    Nobody,    \* no agent
    Built      \* the features the hub was built with: "bots", "sandbox"

CallsAssumption ==
    /\ Nobody \notin Agent
    /\ Asked \in [Call -> SUBSET STRING]

VARIABLES
    pc,        \* of each call: where its caller is
    method,    \* what it asks for
    agent,     \* the agent it acts for
    id,        \* its request id
    answer,    \* what the caller was told
    stage,     \* how far the hub has come with it
    result,    \* what the hub answers
    effects,   \* how often it took effect
    late,      \* it arrived after the key was revoked
    served,    \* the computer hosted the agent at some time since it arrived
    done,      \* of each request id: how often it took effect
    revoked,   \* the key of the computer
    host,      \* of each agent: the computer it runs on
    up         \* the local hub runs

vars == <<pc, method, agent, id, answer, stage, result, effects, late, served, done,
          revoked, host, up>>
hubVars == <<done, revoked, host, up>>

-----------------------------------------------------------------------------
(* The methods of the local transport, by what they do to the hub.           *)

PrivateProjects ==
    [reads |-> {"private_repository_projects", "private_repository_project_binding",
                "private_coding_tasks", "private_coding_hosts", "private_coding_pending"},
     writes |-> {"private_repository_project_set", "private_coding_advertise"},
     once |-> {"private_repository_project_create", "private_preparation_recover"}]

PrivateWork ==
    [reads |-> {"private_run_work", "private_run_status", "private_preparation_status",
                "private_execution_hosts", "private_fleet_identity"},
     writes |-> {"private_run_ready", "private_run_stop", "private_run_claim",
                 "private_preparation_take", "private_preparation_complete"},
     once |-> {"private_run_retry", "private_run_request", "private_preparation_request",
               "private_code_correction_stage", "private_code_task_stage"}]

Reviews == [reads |-> {"private_review_workflows"},
            writes |-> {"private_review_workflow_stop"},
            once |-> {"private_review_workflow_start"}]

Documents ==
    [reads |-> {"bots_message_get", "vault_list", "vault_status", "vault_search",
                "vault_read", "vault_list_documents"},
     writes |-> {"enrollment_challenge", "enrollment_complete"},
     once |-> {}]

\* the trait that the local and the community hub share
HubTrait ==
    {"claim_card", "complete_card", "checkpoint", "fail_card", "release_card",
     "spawn_child_card", "wait_on_child", "mcp_server_config", "check_in", "heartbeat",
     "check_out", "get_schedule", "post_activity"}

CardCalls == [reads |-> {"mcp_server_config", "get_schedule"},
              writes |-> HubTrait \ {"mcp_server_config", "get_schedule"},
              once |-> {}]

ToolCalls ==
    [reads |-> {"hub_name", "bots_agent_tool_settings", "bots_agent_tool_policy_get",
                "bots_handoffs_list"},
     writes |-> {"bots_agent_web_authorize", "bots_agent_web_observe",
                 "bots_agent_web_post_authorize", "bots_agent_tool_policy_set",
                 "bots_agent_tool_execute", "bots_agent_handoff_create",
                 "bots_agent_handoff_resolve"},
     once |-> {}]

ProfileCalls ==
    [reads |-> {"bots_conversation_deliveries", "bots_agent_was_archived",
                "bots_agent_bio_get", "bots_user_profile_get", "bots_agents_list"},
     writes |-> {"bots_agent_bio_set", "bots_user_profile_set", "bots_agents_create",
                 "bots_agents_update", "bots_agents_archive"},
     once |-> {}]

RoomCalls ==
    [reads |-> {"bots_room_agents", "bots_conversations_list", "bots_library_collections",
                "bots_messages_list"},
     writes |-> {"bots_conversations_create", "bots_conversations_join",
                 "bots_conversation_mark_read"},
     once |-> {"bots_rooms_create", "bots_library_save", "bots_message_send"}]

DeliveryCalls ==
    [reads |-> {"bots_turns_for_root", "bots_deliveries_pending_for_agent",
                "bots_active_turns_for_agent"},
     writes |-> {"bots_delivery_claim", "bots_delivery_claim_within_budget",
                 "bots_delivery_complete", "bots_delivery_fail", "bots_report_unroutable",
                 "bots_deliveries_release_root"},
     once |-> {"bots_message_send_with_cause"}]

\* the one call that needs no key: it brings one
PairCalls == [reads |-> {}, writes |-> {"pair"}, once |-> {}]

LocalAreas == {PrivateProjects, PrivateWork, Reviews, Documents, CardCalls, ToolCalls,
               ProfileCalls, RoomCalls, DeliveryCalls, PairCalls}

\* A store that the executor uses is the one of the machine or a hub elsewhere: what the
\* second one sends for a method of the first.
DeliveryStore ==
    [agent_bio |-> "bots_agent_bio_get",
     user_profile |-> "bots_user_profile_get",
     message_get |-> "bots_message_get",
     room_agents |-> "bots_room_agents",
     deliveries_pending_for_agent |-> "bots_deliveries_pending_for_agent",
     delivery_claim |-> "bots_delivery_claim_within_budget",
     delivery_complete |-> "bots_delivery_complete",
     delivery_fail |-> "bots_delivery_fail",
     message_send_with_cause |-> "bots_message_send_with_cause",
     turns_for_root |-> "bots_turns_for_root",
     active_turns_for_agent |-> "bots_active_turns_for_agent",
     deliveries_release_root |-> "bots_deliveries_release_root",
     report_unroutable |-> "bots_report_unroutable"]

BotsService ==
    [agents_list |-> "bots_agents_list",
     agents_create |-> "bots_agents_create",
     agents_update |-> "bots_agents_update",
     agents_archive |-> "bots_agents_archive",
     conversations_list |-> "bots_conversations_list",
     conversations_create |-> "bots_conversations_create",
     conversations_join |-> "bots_conversations_join",
     messages_list |-> "bots_messages_list",
     message_send |-> "bots_message_send",
     conversation_mark_read |-> "bots_conversation_mark_read"]

\* what a hub elsewhere is not asked for, and what is dropped without a word
NotDispatched == {"handoff_create", "handoff_status", "delivery_cancel",
                  "conversation_search"}
Dropped == {"record_agent_usage"}

Wire(n) == CASE n \in DOMAIN DeliveryStore -> DeliveryStore[n]
             [] n \in DOMAIN BotsService -> BotsService[n]
             [] OTHER -> n

-----------------------------------------------------------------------------
(* The methods of the community hub: functions of its database, and those    *)
(* that a provider answers.                                                  *)

MemberFunctions ==
    [reads |-> {"hive_node_whoami", "hive_node_member_key_status"},
     writes |-> {"hive_feature_request_create_node", "hive_node_member_key_set",
                 "hive_node_member_key_remove", "hive_node_member_key_set_model"},
     once |-> {}]

CodeFunctions == [reads |-> {"hive_code_session_projects_node",
                             "hive_code_session_status_node"},
                  writes |-> {},
                  once |-> {"hive_code_session_create_node"}]

ChannelFunctions ==
    [reads |-> {"hive_chat_memory_get_node", "hive_release_notes_unseen_node",
                "hive_personal_channel_list_node", "hive_member_mcp_server_get_node"},
     writes |-> {"hive_release_notes_mark_seen_node", "hive_personal_channel_post_node",
                 "hive_personal_channel_post_node_event", "hive_bug_report_create_node"},
     once |-> {}]

CardFunctions ==
    [reads |-> {"hive_node_schedule_get"},
     writes |-> {"hive_node_checkin", "hive_node_heartbeat", "hive_node_checkout",
                 "hive_node_claim_card", "hive_node_complete_card", "hive_node_checkpoint",
                 "hive_node_fail_card"},
     once |-> {}]

ChildFunctions == [reads |-> {},
                   writes |-> {"hive_spawn_child_card", "hive_node_wait_on_child"},
                   once |-> {}]

ServerFunctions ==
    [reads |-> {"hive_node_artifact_locate"},
     writes |-> {"hive_server_register", "hive_server_heartbeat", "hive_artifact_announce"},
     once |-> {}]

CoordinatorFunctions ==
    [reads |-> {"hive_replication_plan", "hive_backup_export", "hive_ledger_archive_pending",
                "hive_ledger_archive_export", "hive_gc_plan", "hive_node_summary",
                "hive_node_projects_overview", "hive_snapshot_source"},
     writes |-> {"hive_coordinator_try", "hive_backup_record", "hive_ledger_archive_apply",
                 "hive_replica_drop", "hive_coordinator_release", "hive_node_release_card"},
     once |-> {}]

\* a provider is asked, and may charge for it
EdgeFunctions == [reads |-> {},
                  writes |-> {"interview", "code-brain-turn", "generate-image"},
                  once |-> {}]

PairFunctions == [reads |-> {},
                  writes |-> {"hive_pair_begin", "hive_pair_poll"},
                  once |-> {}]

\* a server asks on behalf of a member, who is signed in
MemberRpc == [reads |-> {"hive_is_member"}, writes |-> {}, once |-> {}]

\* those that need no key of a node
Keyless == {PairCalls, PairFunctions, MemberRpc}

SqlAreas == {MemberFunctions, CodeFunctions, ChannelFunctions, CardFunctions, ChildFunctions,
             ServerFunctions, CoordinatorFunctions, PairFunctions, MemberRpc}
Areas == LocalAreas \cup SqlAreas \cup {EdgeFunctions}

Names(areas) == UNION {a.reads \cup a.writes \cup a.once : a \in areas}
Reading == (UNION {a.reads : a \in Areas}) \cup {"handoff_status", "conversation_search"}
Once == UNION {a.once : a \in Areas}
Local(m) == m \in Names(LocalAreas)

-----------------------------------------------------------------------------
(* How the hub looks at the caller.                                          *)

\* the owner of the computer is read, and then the store is asked
ForOwner ==
    {"bots_message_get", "bots_conversation_deliveries", "bots_user_profile_get",
     "bots_user_profile_set", "bots_handoffs_list", "bots_agents_list",
     "bots_agents_create", "bots_agents_update", "bots_agents_archive",
     "bots_conversations_list", "bots_room_agents", "bots_conversations_create",
     "bots_conversations_join", "bots_messages_list", "bots_conversation_mark_read",
     "bots_rooms_create", "bots_agent_was_archived", "bots_agent_bio_get",
     "bots_agent_bio_set", "bots_turns_for_root", "bots_deliveries_release_root"}

\* as well, that the computer runs the agent
ForHost == {"bots_delivery_claim", "bots_delivery_claim_within_budget",
            "bots_delivery_complete", "bots_delivery_fail",
            "bots_deliveries_pending_for_agent", "bots_active_turns_for_agent"}

\* one look at key, host and policy, and then the store is asked
Granted == {"bots_agent_handoff_create", "bots_agent_handoff_resolve"}

\* The looks at the caller of m, who acts for a: an agent has a host to be compared.
AgentPath(m) == CASE m \in Granted -> "granted"
                  [] m = "bots_message_send" -> "sender"
                  [] OTHER -> "host"
OwnPath(m) ==
    CASE m \in ForOwner \cup {"bots_message_send", "bots_message_send_with_cause"} -> "owner"
      [] m = "bots_report_unroutable" -> "named"
      [] m \in Names(Keyless) -> "open"
      [] m \in Names({EdgeFunctions}) -> "function"
      [] m \in Names(SqlAreas \ Keyless) -> "sql"
      [] OTHER -> "together"
Path(m, a) == IF a = Nobody THEN OwnPath(m) ELSE AgentPath(m)

\* the stage from which the method itself is carried out
ActsFrom == [granted |-> "granted", host |-> "hosted", sender |-> "cleared",
             owner |-> "mine", named |-> "named", open |-> "received",
             function |-> "known", sql |-> "received", together |-> "known"]

\* the key is looked at again in the transaction that writes
KeyInside(path) == path \in {"sql", "together"}

\* the agents a caller may name
Actors(m) == CASE m \in ForHost \cup Granted -> Agent
               [] m \in {"bots_message_send", "bots_message_send_with_cause"} ->
                    Agent \cup {Nobody}
               [] OTHER -> {Nobody}

PathOf(c) == Path(method[c], agent[c])
Stages == {"none", "received", "known", "mine", "named", "hosted", "granted", "cleared",
           "answered", "gone"}
InFlight == {"received", "known", "mine", "named", "hosted", "granted", "cleared"}
Serves(a) == a # Nobody /\ host[a] \in {"here", "any"}

-----------------------------------------------------------------------------
Outcomes == {"ok", "badKey", "rejected", "unavailable"}
Answers == {"none", "ok", "badKey", "rejected", "transport", "unsupported"}

TypeOK ==
    /\ pc \in [Call -> {"idle", "dialing", "again", "waiting", "over"}]
    /\ method = [c \in Call |-> method[c]]
    /\ agent \in [Call -> Agent \cup {Nobody}]
    /\ id \in [Call -> Id]
    /\ answer \in [Call -> Answers]
    /\ stage \in [Call -> Stages]
    /\ result \in [Call -> Outcomes]
    /\ effects \in [Call -> Nat]
    /\ done \in [Id -> Nat]
    /\ host \in [Agent -> {"here", "elsewhere", "any"}]
TypeOKBooleans ==
    /\ late \in [Call -> BOOLEAN]
    /\ served \in [Call -> BOOLEAN]
    /\ revoked \in BOOLEAN
    /\ up \in BOOLEAN

Init ==
    /\ pc = [c \in Call |-> "idle"]
    /\ method = [c \in Call |-> "hub_name"]
    /\ agent = [c \in Call |-> Nobody]
    /\ id \in [Call -> Id]
    /\ answer = [c \in Call |-> "none"]
    /\ stage = [c \in Call |-> "none"]
    /\ result = [c \in Call |-> "ok"]
    /\ effects = [c \in Call |-> 0]
    /\ late = [c \in Call |-> FALSE]
    /\ served = [c \in Call |-> FALSE]
    /\ done = [i \in Id |-> 0]
    /\ revoked = FALSE
    /\ host \in [Agent -> {"here", "elsewhere", "any"}]
    /\ up = TRUE

\* A request id stays with its request.
Fresh(c, m, a) ==
    \A d \in Call \ {c} : pc[d] # "idle" /\ id[d] = id[c] => method[d] = m /\ agent[d] = a

Ends(c, told) ==
    /\ pc' = [pc EXCEPT ![c] = "over"]
    /\ answer' = [answer EXCEPT ![c] = told]

\* A program asks for n on behalf of a.
Ask(c, n, a) ==
    /\ pc[c] = "idle"
    /\ n \notin NotDispatched \cup Dropped
    /\ a \in Actors(Wire(n)) /\ Fresh(c, Wire(n), a)
    /\ pc' = [pc EXCEPT ![c] = "dialing"]
    /\ method' = [method EXCEPT ![c] = Wire(n)]
    /\ agent' = [agent EXCEPT ![c] = a]
    /\ UNCHANGED <<id, answer, stage, result, effects, late, served, hubVars>>

\* What a hub elsewhere has no method for is answered where it is asked.
Unsent(c, n) ==
    /\ pc[c] = "idle"
    /\ n \in NotDispatched \cup Dropped
    /\ Ends(c, IF n \in Dropped THEN "ok" ELSE "unsupported")
    /\ UNCHANGED <<method, agent, id, stage, result, effects, late, served, hubVars>>

\* No connection: the local transport tries a second time, the web not.
NoConnection(c) ==
    /\ pc[c] \in {"dialing", "again"}
    /\ IF pc[c] = "dialing" /\ Local(method[c]) /\ method[c] # "pair"
       THEN pc' = [pc EXCEPT ![c] = "again"] /\ UNCHANGED answer
       ELSE Ends(c, IF method[c] = "pair" THEN "rejected" ELSE "transport")
    /\ UNCHANGED <<method, agent, id, stage, result, effects, late, served, hubVars>>

Send(c) ==
    /\ pc[c] \in {"dialing", "again"}
    /\ Local(method[c]) => up
    /\ pc' = [pc EXCEPT ![c] = "waiting"]
    /\ stage' = [stage EXCEPT ![c] = "received"]
    /\ late' = [late EXCEPT ![c] = revoked]
    /\ served' = [served EXCEPT ![c] = Serves(agent[c])]
    /\ UNCHANGED <<method, agent, id, answer, result, effects, hubVars>>

-----------------------------------------------------------------------------
(* At the hub, one transaction at a time.                                    *)

\* the arms of the dispatch that need a feature
WithSandbox == Names({Reviews})
WithBots ==
    (Names({ToolCalls, ProfileCalls, RoomCalls, DeliveryCalls}) \cup {"bots_message_get"})
        \ {"hub_name", "bots_agent_tool_execute", "bots_agent_bio_get",
           "bots_agent_bio_set", "bots_user_profile_get", "bots_conversations_create"}
Wired(m) == /\ m \in WithSandbox => "sandbox" \in Built
            /\ m \in WithBots => "bots" \in Built

To(c, s) ==
    /\ stage' = [stage EXCEPT ![c] = s]
    /\ UNCHANGED <<pc, method, agent, id, answer, result, effects, late, served, hubVars>>

Answered(c, r) ==
    /\ stage' = [stage EXCEPT ![c] = "answered"]
    /\ result' = [result EXCEPT ![c] = r]

Refuse(c, r) ==
    /\ Answered(c, r)
    /\ UNCHANGED <<pc, method, agent, id, answer, effects, late, served, hubVars>>

\* The key is looked at before the method, wherever it is not inside it.
Admit(c) ==
    /\ stage[c] = "received" /\ ActsFrom[PathOf(c)] # "received"
    /\ \/ revoked /\ Refuse(c, "badKey")
       \/ ~ revoked /\ ~ Wired(method[c]) /\ Refuse(c, "rejected")
       \/ ~ revoked /\ Wired(method[c]) /\ To(c, "known")

\* bots_owner: the computer belongs to an owner, as do agent and conversation; the sender of
\* a message is looked at once more after its host.
Own(c) ==
    \/ /\ stage[c] = "known" /\ PathOf(c) \in {"owner", "host", "sender", "named"}
       /\ \/ revoked /\ Refuse(c, "badKey")
          \/ ~ revoked /\ Refuse(c, "rejected")
          \/ ~ revoked /\ To(c, "mine")
    \/ /\ stage[c] = "hosted" /\ PathOf(c) = "sender"
       /\ \/ revoked /\ Refuse(c, "badKey")
          \/ ~ revoked /\ Refuse(c, "rejected")
          \/ ~ revoked /\ To(c, "cleared")

\* node_id: which computer it is
Name(c) ==
    /\ stage[c] = "mine" /\ PathOf(c) \in {"host", "sender", "named"}
    /\ IF revoked THEN Refuse(c, "badKey") ELSE To(c, "named")

\* bots_hosts_agent: the computer runs the agent, or nobody in particular does
Hosts(c) ==
    /\ stage[c] = "named" /\ PathOf(c) \in {"host", "sender"}
    /\ IF Serves(agent[c]) THEN To(c, "hosted") ELSE Refuse(c, "rejected")

\* key, host, turn and policy in one transaction
Grant(c) ==
    /\ stage[c] = "known" /\ PathOf(c) = "granted"
    /\ \/ revoked /\ Refuse(c, "badKey")
       \/ ~ revoked /\ Refuse(c, "rejected")
       \/ ~ revoked /\ host[agent[c]] = "here" /\ To(c, "granted")

\* What the method does when it succeeds: a repetition under the same id does nothing.
Effect(c, m) ==
    IF m \in Reading \/ (m \in Once /\ done[id[c]] > 0) THEN UNCHANGED <<effects, done>>
    ELSE /\ effects' = [effects EXCEPT ![c] = @ + 1]
         /\ done' = IF m \in Once THEN [done EXCEPT ![id[c]] = @ + 1] ELSE done

\* The method itself, in one transaction: refused, rolled back, or carried out.
Act(c) ==
    /\ stage[c] = ActsFrom[PathOf(c)]
    /\ IF KeyInside(PathOf(c)) /\ revoked THEN Refuse(c, "badKey")
       ELSE \/ \E r \in {"rejected", "unavailable"} : Refuse(c, r)
            \/ /\ Answered(c, "ok")
               /\ Effect(c, method[c])
               /\ UNCHANGED <<pc, method, agent, id, answer, late, served, revoked, host, up>>

\* The executor of the machine that keeps the hub asks its store, with no key and no wire.
Inside(c, n, a) ==
    /\ pc[c] = "idle"
    /\ n \in DOMAIN DeliveryStore \cup DOMAIN BotsService \cup NotDispatched \cup Dropped
    /\ up
    /\ a \in Actors(Wire(n)) /\ Fresh(c, Wire(n), a)
    /\ method' = [method EXCEPT ![c] = Wire(n)]
    /\ agent' = [agent EXCEPT ![c] = a]
    /\ served' = [served EXCEPT ![c] = TRUE]
    /\ \/ Ends(c, "rejected") /\ UNCHANGED <<effects, done>>
       \/ Ends(c, "ok") /\ Effect(c, Wire(n))
    /\ UNCHANGED <<id, stage, result, late, revoked, host, up>>

-----------------------------------------------------------------------------
(* What the caller hears.                                                    *)

\* rpc: what the local client makes of a status, and pair
LocalHears(m, r) == IF m = "pair" /\ r # "ok" THEN "rejected"
                    ELSE IF r = "unavailable" THEN "transport" ELSE r
\* rpc_with_limits: only a node has a key to lose
CommunityHears(m, r) ==
    IF r \in {"ok", "rejected"} THEN r
    ELSE IF r = "badKey" /\ m \notin Names(Keyless) THEN "badKey" ELSE "rejected"

\* an answer whose body is cut off, too long or unreadable
LocalMisses(m, r) == IF r = "ok" THEN "rejected" ELSE LocalHears(m, r)
CommunityMisses == {"transport", "rejected"}

Hear(c) ==
    /\ pc[c] = "waiting" /\ stage[c] = "answered"
    /\ LET m == method[c]
           r == result[c]
       IN IF Local(m)
          THEN \E told \in {LocalHears(m, r), LocalMisses(m, r)} : Ends(c, told)
          ELSE \E told \in {CommunityHears(m, r)} \cup CommunityMisses : Ends(c, told)
    /\ UNCHANGED <<method, agent, id, stage, result, effects, late, served, hubVars>>

GiveUpAndRepeat(c) ==  \* mutant: what got no answer is sent again
    /\ pc[c] = "waiting"
    /\ pc' = [pc EXCEPT ![c] = "again"]
    /\ UNCHANGED <<method, agent, id, answer, stage, result, effects, late, served, hubVars>>

\* The connection breaks or the time is up.  The hub does not hear of it.
GiveUp(c) ==
    /\ pc[c] = "waiting"
    /\ Ends(c, IF method[c] = "pair" THEN "rejected" ELSE "transport")
    /\ UNCHANGED <<method, agent, id, stage, result, effects, late, served, hubVars>>

-----------------------------------------------------------------------------
(* What happens to the hub.                                                  *)

\* asked to stop, it answers what it has accepted
Stops ==
    /\ up
    /\ \A c \in Call : ~ (Local(method[c]) /\ stage[c] \in InFlight)
    /\ up' = FALSE
    /\ UNCHANGED <<pc, method, agent, id, answer, stage, result, effects, late, served, done,
                   revoked, host>>

\* what it has begun and not committed is gone
Dies ==
    /\ up
    /\ up' = FALSE
    /\ stage' = [c \in Call |-> IF Local(method[c]) /\ stage[c] # "none" THEN "gone"
                                ELSE stage[c]]
    /\ UNCHANGED <<pc, method, agent, id, answer, result, effects, late, served, done,
                   revoked, host>>

Starts ==
    /\ ~ up
    /\ up' = TRUE
    /\ UNCHANGED <<pc, method, agent, id, answer, stage, result, effects, late, served, done,
                   revoked, host>>

Revoke ==
    /\ ~ revoked
    /\ revoked' = TRUE
    /\ UNCHANGED <<pc, method, agent, id, answer, stage, result, effects, late, served, done,
                   host, up>>

\* the owner moves an agent
Move(a, h) ==
    /\ host[a] # h
    /\ host' = [host EXCEPT ![a] = h]
    /\ served' = [c \in Call |-> served[c] \/ (agent[c] = a /\ h # "elsewhere")]
    /\ UNCHANGED <<pc, method, agent, id, answer, stage, result, effects, late, done, revoked,
                   up>>

HubStep(c) == Admit(c) \/ Own(c) \/ Name(c) \/ Hosts(c) \/ Grant(c) \/ Act(c)

Next ==
    \/ \E c \in Call : \/ \E n \in Asked[c] : \/ \E a \in Agent \cup {Nobody} :
                                                    Ask(c, n, a) \/ Inside(c, n, a)
                                              \/ Unsent(c, n)
                       \/ NoConnection(c) \/ Send(c) \/ HubStep(c) \/ Hear(c) \/ GiveUp(c)
    \/ Stops \/ Dies \/ Starts \/ Revoke
    \/ \E a \in Agent, h \in {"here", "elsewhere", "any"} : Move(a, h)

Spec == Init /\ [][Next]_vars

-----------------------------------------------------------------------------
\* A call takes effect once at most, and so does a request id, however many calls carry it:
\* rpc sends again only what never arrived.
OnceOnly == /\ \A c \in Call : effects[c] <= 1
            /\ \A i \in Id : done[i] <= 1

\* Who is told that it was done can rely on it, and on the refusals of a key.
AnswersTrue ==
    \A c \in Call :
        /\ answer[c] = "ok" /\ method[c] \notin Reading =>
               effects[c] = 1 \/ (method[c] \in Once /\ done[id[c]] = 1)
        /\ answer[c] \in {"badKey", "unsupported"} => effects[c] = 0

\* A request that arrives after the key was revoked does nothing.
LateKeysOut == \A c \in Call : late[c] /\ PathOf(c) # "open" => effects[c] = 0

\* A call for an agent takes effect only if the computer hosted it while the call was there.
OnlyHostsAct ==
    \A c \in Call : effects[c] > 0 /\ agent[c] # Nobody => served[c]

\* What a caller may take for granted, whatever got lost: RemoteLocalHub, HubClient and the
\* checks of LocalHub.
CallsSafe == OnceOnly /\ AnswersTrue /\ LateKeysOut /\ OnlyHostsAct
=============================================================================
