-------------------------- MODULE RegionalControl --------------------------
(***************************************************************************)
(* The regional control pilot: coordinator_hub.rs on a node, control.rs on *)
(* the regional server, and the gateway functions of                       *)
(* 20260914030000_control_pilot_delegation.sql.                            *)
(*                                                                         *)
(* The node makes one call at a time.  The server checks the signed bearer *)
(* against the only session it keeps for the node, runs the call in the    *)
(* database, asks the database for a new token when leases may have        *)
(* changed, and answers with it.  A reply may be lost at every point: the  *)
(* node gives up after ten seconds while its call goes on, the connection  *)
(* to the database breaks before or after a commit, the server restarts.   *)
(* What was not refused before it began is never sent again.               *)
(*                                                                         *)
(* One node of the pilot; the other nodes, and the housekeeping that takes *)
(* expired leases away, are the environment.  The calls are kept by what   *)
(* they do to a lease: "claim", "checkpoint" (spawn_child_card as well),   *)
(* "settle" (complete, release, fail and wait_on_child) and "read" (the    *)
(* calls that are safe to repeat: heartbeat, get_schedule, recover_leases, *)
(* which the worker does not use).                                         *)
(***************************************************************************)
EXTENDS Naturals, Sequences, FiniteSets

CONSTANTS
    Card,         \* the cards of the pilot's project
    MaxCalls,     \* bound on the calls of the node
    MaxTokens,    \* bound on the session tokens
    MaxLeases,    \* bound on the leases of a card
    MaxFaults     \* bound on lost replies, broken connections and restarts

ControlAssumption ==
    /\ MaxTokens \in Nat \ {0}
    /\ {MaxCalls, MaxLeases, MaxFaults} \subseteq Nat

VARIABLES
    keyOk,                   \* neither the node key nor the delegation is revoked
    status, holder, late,    \* cards; leases: the node of each, and the expired ones
    epoch,                   \* the number of the lease, or of the last one
    live, granted, expired,  \* hub_tokens: not revoked, lease_ids, past expires_at
    session,                 \* Control.sessions: the token of the node's session (0: none)
    bearer,                  \* CoordinatorHub.token
    calls, cur, again,       \* the calls so far, the one waited for (0: none), reauthenticated;
                             \* n is history: how often a call changed something
    held,                    \* the leases the node was given and works on: card -> number (0: none)
    acked,                   \* history: the newest token the node got by authenticating
    faults

db == <<keyOk, status, holder, late, epoch, live, granted, expired>>
node == <<bearer, cur, again, held, acked>>
vars == <<db, session, node, calls, faults>>
----------------------------------------------------------------------------
Method == {"claim", "checkpoint", "settle", "read"}
Token == 0 .. MaxTokens

TypeOK ==
    /\ keyOk \in BOOLEAN /\ late \subseteq Card /\ again \in BOOLEAN
    /\ status \in [Card -> {"ready", "running", "review", "blocked"}]
    /\ holder \in [Card -> {"nobody", "me", "other"}]
    /\ epoch \in [Card -> 0 .. MaxLeases] /\ held \in [Card -> 0 .. MaxLeases]
    /\ granted \in Seq(SUBSET Card) /\ live \cup expired \subseteq 1 .. Len(granted)
    /\ {session, bearer, acked} \subseteq Token /\ cur \in 0 .. Len(calls)
    /\ calls \in Seq([m : Method, cards : SUBSET Card, token : Token, at : STRING, held : 0 .. MaxLeases, n : Nat])

Init ==
    /\ keyOk = TRUE /\ late = {}
    /\ status = [c \in Card |-> "ready"] /\ holder = [c \in Card |-> "nobody"] /\ epoch = [c \in Card |-> 0]
    /\ live = {1} /\ granted = <<{}>> /\ expired = {}
    /\ session = 1 /\ bearer = 1 /\ acked = 1
    /\ calls = <<>> /\ cur = 0 /\ again = FALSE /\ held = [c \in Card |-> 0]
    /\ faults = 0

Leased == {c \in Card : holder[c] = "me" /\ c \notin late}
Fault == faults < MaxFaults /\ faults' = faults + 1
Underway == {i \in 1 .. Len(calls) : calls[i].at \in {"sent", "working", "did"}}

\* a call nobody waits for any more is forgotten once it has ended
Over == [m |-> "read", cards |-> {}, token |-> 0, at |-> "over", held |-> 0, n |-> 0]
Goes(i, to) ==
    calls' = IF i = cur \/ to \notin {"ok", "refused", "unauthorized"} THEN [calls EXCEPT ![i].at = to]
             ELSE [calls EXCEPT ![i] = Over]
----------------------------------------------------------------------------
(* The node.                                                               *)

\* rpc: with the bearer of now; a card is one it was told it leases
Call(m, c) ==
    /\ cur = 0 /\ Len(calls) < MaxCalls
    /\ m \in {"checkpoint", "settle"} => held[c] > 0
    /\ m = "claim" => \A d \in Card : held[d] = 0
    /\ m \in {"claim", "read"} => c = CHOOSE d \in Card : TRUE
    /\ calls' = Append(calls, [m |-> m, cards |-> IF m \in {"checkpoint", "settle"} THEN {c} ELSE {},
                               token |-> bearer, at |-> "sent", held |-> held[c], n |-> 0])
    /\ cur' = Len(calls) + 1 /\ again' = FALSE
    /\ UNCHANGED <<db, session, bearer, held, acked, faults>>

\* after an error the worker drops the card, unless it was only a checkpoint that failed
Dropped(i) == [c \in Card |-> IF c \in calls[i].cards /\ calls[i].m = "settle" THEN 0 ELSE held[c]]

\* ten seconds without an answer, while the call goes on
GiveUp ==
    /\ cur > 0 /\ calls[cur].at \in {"sent", "working", "did"} /\ Fault
    /\ cur' = 0 /\ held' = Dropped(cur)
    /\ UNCHANGED <<db, session, bearer, again, acked, calls>>

\* the answer: a result and the next bearer, or an error
Receive ==
    /\ cur > 0 /\ calls[cur].at \in {"ok", "refused"}
    /\ cur' = 0 /\ calls' = [calls EXCEPT ![cur] = Over]
    /\ IF calls[cur].at = "refused"
       THEN held' = Dropped(cur) /\ UNCHANGED bearer
       ELSE /\ bearer' = calls[cur].token
            /\ held' = CASE calls[cur].m = "claim" ->
                                [c \in Card |-> IF c \in calls[cur].cards THEN epoch[c] ELSE held[c]]
                         [] calls[cur].m = "settle" -> [c \in Card |-> IF c \in calls[cur].cards THEN 0 ELSE held[c]]
                         [] OTHER -> held
    /\ UNCHANGED <<db, session, again, acked, faults>>

\* the gateway's "auth" and the session the server makes of it
Auth ==
    /\ keyOk /\ Len(granted) < MaxTokens
    /\ granted' = Append(granted, Leased)
    /\ live' = {Len(granted) + 1}
    /\ UNCHANGED <<keyOk, status, holder, late, epoch, expired>>

\* authenticate, after a 401: once per call, which is then sent again
Reauthenticate ==
    /\ cur > 0 /\ calls[cur].at = "unauthorized" /\ ~ again /\ Auth
    /\ session' = Len(granted) + 1 /\ bearer' = Len(granted) + 1 /\ acked' = Len(granted) + 1
    /\ again' = TRUE
    /\ calls' = [calls EXCEPT ![cur].at = "sent", ![cur].token = Len(granted) + 1]
    /\ UNCHANGED <<cur, held, faults>>

\* the same when it fails: refused, or its answer lost before or after the server knew
AuthFails ==
    /\ cur > 0 /\ calls[cur].at = "unauthorized"
    /\ \/ (again \/ ~ keyOk) /\ UNCHANGED <<db, session, faults>>
       \/ ~ again /\ Fault /\ UNCHANGED <<db, session>>
       \/ ~ again /\ Fault /\ Auth /\ session' \in {session, Len(granted) + 1}
    /\ cur' = 0 /\ held' = Dropped(cur) /\ calls' = [calls EXCEPT ![cur] = Over]
    /\ UNCHANGED <<bearer, again, acked>>
----------------------------------------------------------------------------
(* The regional server.                                                    *)

\* rpc: verify, the session, its lock and its token; a call is refused before it does anything, or begins
Begin(i) ==
    /\ calls[i].at = "sent"
    /\ IF calls[i].token = session /\ session \notin expired
       THEN (\A j \in Underway : calls[j].at # "sent" => calls[j].token # session) /\ Goes(i, "working")
       ELSE Goes(i, "unauthorized")
    /\ UNCHANGED <<db, session, node, faults>>

\* ctl_delegate_node and the token check of ctl_pilot_call
Valid(t) == keyOk /\ t \in live \ expired

\* the gateway's check of a card
Owns(t, c) == c \in granted[t] \cap Leased

Counts(i) == calls' = [calls EXCEPT ![i].at = "did", ![i].n = @ + 1]

\* claim_card: one of the cards choose offers, if one is left; nothing to do otherwise
Free(c) == status[c] = "ready" /\ holder[c] = "nobody"
Idle == \A d \in Card : holder[d] # "me"

Claims(i) ==
    /\ calls[i].m = "claim"
    /\ \/ \E c \in Card :
             /\ Idle /\ Free(c) /\ epoch[c] < MaxLeases
             /\ status' = [status EXCEPT ![c] = "running"]
             /\ holder' = [holder EXCEPT ![c] = "me"]
             /\ epoch' = [epoch EXCEPT ![c] = @ + 1]
             /\ calls' = [calls EXCEPT ![i].cards = {c}, ![i].at = "did", ![i].n = @ + 1]
       \/ /\ ~ Idle \/ \A c \in Card : ~ Free(c)
          /\ Goes(i, "did") /\ UNCHANGED <<status, holder, epoch>>

Checkpoints(i) ==
    /\ calls[i].m = "checkpoint" /\ \A c \in calls[i].cards : Owns(calls[i].token, c)
    /\ Counts(i) /\ UNCHANGED <<status, holder, epoch>>

\* released, completed, failed or waiting for a child
Endings == {"ready", "review", "blocked"}

Settles(i) ==
    /\ calls[i].m = "settle" /\ \A c \in calls[i].cards : Owns(calls[i].token, c)
    /\ \E to \in Endings : status' = [c \in Card |-> IF c \in calls[i].cards THEN to ELSE status[c]]
    /\ holder' = [c \in Card |-> IF c \in calls[i].cards THEN "nobody" ELSE holder[c]]
    /\ Counts(i) /\ UNCHANGED epoch

Reads(i) == calls[i].m = "read" /\ Goes(i, "did") /\ UNCHANGED <<status, holder, epoch>>

\* call, and ctl_pilot_call
Do(i) ==
    /\ calls[i].at = "working" /\ Valid(calls[i].token)
    /\ Claims(i) \/ Checkpoints(i) \/ Settles(i) \/ Reads(i)
    /\ UNCHANGED <<keyOk, late, live, granted, expired, session, node, faults>>

\* the gateway refuses
Refused(i) ==
    /\ calls[i].at = "working"
    /\ ~ Valid(calls[i].token) \/ \E c \in calls[i].cards : ~ Owns(calls[i].token, c)
    /\ Goes(i, "refused")
    /\ UNCHANGED <<db, session, node, faults>>

\* the connection breaks: before the call, or between its commit and the answer
Broken(i) ==
    /\ calls[i].at \in {"working", "did"} /\ Fault /\ Goes(i, "refused")
    /\ UNCHANGED <<db, session, node>>

ChangesLeasesByEnding == {"settle"}

ChangesLeases == {"claim", "settle"}

\* refresh: a new token when leases may have changed, or when little is left of this one
Finish(i) ==
    /\ calls[i].at = "did"
    /\ \E renew \in BOOLEAN :
        /\ calls[i].m \in ChangesLeases => renew
        /\ IF ~ renew THEN Goes(i, "ok") /\ UNCHANGED <<live, granted, session, faults>>
           ELSE IF ~ Valid(calls[i].token)
                THEN Goes(i, "refused") /\ UNCHANGED <<live, granted, session, faults>>
                ELSE /\ Len(granted) < MaxTokens
                     /\ granted' = Append(granted, Leased)
                     /\ live' = (live \ {calls[i].token}) \cup {Len(granted) + 1}
                     /\ \/ /\ calls' = [calls EXCEPT ![i] = IF i = cur THEN [@ EXCEPT !.at = "ok", !.token = Len(granted) + 1] ELSE Over]
                           /\ session' = IF session = calls[i].token THEN Len(granted) + 1 ELSE session
                           /\ UNCHANGED faults
                        \/ Fault /\ Goes(i, "refused") /\ UNCHANGED session
    /\ UNCHANGED <<keyOk, status, holder, late, epoch, expired, node>>

\* the server restarts: its sessions and the calls it works on are gone
Restart ==
    /\ Fault /\ session' = 0
    /\ calls' = [i \in 1 .. Len(calls) |-> IF i \in Underway THEN IF i = cur THEN [calls[i] EXCEPT !.at = "refused"] ELSE Over
                                         ELSE calls[i]]
    /\ UNCHANGED <<db, node>>
----------------------------------------------------------------------------
(* Time and the others.  Calls take seconds; leases and tokens minutes.    *)

Expire ==
    /\ Underway = {}
    /\ \/ bearer \notin expired /\ expired' = 1 .. bearer /\ UNCHANGED late
       \/ \E c \in Leased : late' = late \cup {c} /\ UNCHANGED expired
    /\ UNCHANGED <<keyOk, status, holder, epoch, live, granted, session, node, calls, faults>>

\* housekeeping
Sweep(c) ==
    /\ c \in late
    /\ late' = late \ {c} /\ holder' = [holder EXCEPT ![c] = "nobody"] /\ status' = [status EXCEPT ![c] = "ready"]
    /\ UNCHANGED <<keyOk, epoch, live, granted, expired, session, node, calls, faults>>

\* another node takes a card or settles it
Others(c) ==
    /\ \/ /\ status[c] = "ready" /\ holder[c] = "nobody" /\ epoch[c] < MaxLeases
          /\ holder' = [holder EXCEPT ![c] = "other"] /\ status' = [status EXCEPT ![c] = "running"]
          /\ epoch' = [epoch EXCEPT ![c] = @ + 1]
       \/ /\ holder[c] = "other"
          /\ holder' = [holder EXCEPT ![c] = "nobody"] /\ status' = [status EXCEPT ![c] = "review"]
          /\ UNCHANGED epoch
    /\ UNCHANGED <<keyOk, late, live, granted, expired, session, node, calls, faults>>

RevokeKey ==
    /\ keyOk /\ keyOk' = FALSE
    /\ UNCHANGED <<status, holder, late, epoch, live, granted, expired, session, node, calls, faults>>

Next ==
    \/ \E m \in Method, c \in Card : Call(m, c)
    \/ GiveUp \/ Receive \/ Reauthenticate \/ AuthFails \/ Restart \/ Expire \/ RevokeKey
    \/ \E i \in 1 .. Len(calls) : Begin(i) \/ Do(i) \/ Refused(i) \/ Broken(i) \/ Finish(i)
    \/ \E c \in Card : Sweep(c) \/ Others(c)

Spec == Init /\ [][Next]_vars
----------------------------------------------------------------------------
(* Properties.                                                             *)

\* A call takes effect once at most, and has taken it when the node is told so; what was refused for
\* want of a session has not.
OnceAtMost ==
    \A i \in 1 .. Len(calls) :
        /\ calls[i].n <= 1
        /\ calls[i].at \in {"sent", "unauthorized"} => calls[i].n = 0
        /\ calls[i].at = "ok" /\ calls[i].m \in {"checkpoint", "settle"} => calls[i].n = 1

\* What a call changes, it changes for a node whose key is good, not behind the back of a session that
\* was opened after it was sent, and, on a lease the node was given, only if it was sent about that lease.
Timely(i) ==
    /\ keyOk /\ calls[i].token >= acked
    /\ calls[i].m # "claim" => \A c \in calls[i].cards :
           c \in Leased /\ (held[c] = epoch[c] => calls[i].held = epoch[c])

\* Both, of every step.
ControlStep == OnceAtMost' /\ \A i \in 1 .. Len(calls) : calls'[i].n > calls[i].n => Timely(i)
ControlSafe == [][ControlStep]_vars
=============================================================================
