-------------------------- MODULE SubscriptionLink --------------------------
(***************************************************************************)
(* The connection to a subscription runtime (subscription/supervisor.rs,   *)
(* reducer.rs, transport.rs): requests that are answered in any order,     *)
(* twice or not at all, frames that are malformed, streams that end and    *)
(* are replaced by a new connection, on which ids start at 1 again.        *)
(*                                                                         *)
(* A request is named by a number that is never used again; the program    *)
(* only knows its id.                                                      *)
(***************************************************************************)
EXTENDS Naturals, FiniteSets

CONSTANTS
    MaxQueued,   \* limits.max_queued_control
    MaxCalls,    \* bound: requests made
    MaxGen       \* bound: connections

LinkAssumption == MaxQueued \in Nat \ {0} /\ MaxCalls \in Nat /\ MaxGen \in Nat

VARIABLES
    generation, next_id, in_flight,
    results,        \* id -> the request whose answer it is
    auth, coordinator,  \* states of the reducer
    calls,          \* requests made
    holder,         \* id -> request, of the caller that waits on this connection
    wire,           \* <<id, request>> the runtime was sent and may answer, again and again
    broken          \* the stream was lost

reducer == <<auth, coordinator>>
vars == <<generation, next_id, in_flight, results, reducer, calls, holder, wire, broken>>

\* one frame of the stream at a time
Holding == DOMAIN holder
Forget(f, id) == [i \in DOMAIN f \ {id} |-> f[i]]
Put(f, id, c) == [i \in DOMAIN f \cup {id} |-> IF i = id THEN c ELSE f[i]]
Empty == [i \in {} |-> 0]

Init ==
    /\ generation = 1 /\ next_id = 1 /\ in_flight = {} /\ results = Empty
    /\ auth = "starting" /\ coordinator = "idle"
    /\ calls = 0 /\ holder = Empty /\ wire = {} /\ broken = FALSE

\* call: refused without any output when too much is outstanding
Call ==
    /\ ~ broken /\ calls < MaxCalls
    /\ Cardinality(in_flight) + Cardinality(DOMAIN results) < MaxQueued
    /\ calls' = calls + 1 /\ next_id' = next_id + 1
    /\ in_flight' = in_flight \cup {next_id}
    /\ holder' = Put(holder, next_id, calls + 1)
    /\ wire' = wire \cup {<<next_id, calls + 1>>}
    /\ UNCHANGED <<generation, results, reducer, broken>>

PumpAnyResponse(id, c) ==  \* mutant: answers are kept whether anybody waits for them or not
    /\ ~ broken /\ <<id, c>> \in wire
    /\ in_flight' = in_flight \ {id} /\ results' = Put(results, id, c)
    /\ UNCHANGED <<generation, next_id, reducer, calls, holder, wire, broken>>

\* pump_once: only the first answer to a request in flight is kept
PumpResponse(id, c) ==
    /\ ~ broken /\ <<id, c>> \in wire
    /\ in_flight' = in_flight \ {id}
    /\ results' = (IF id \in in_flight THEN Put(results, id, c) ELSE results)
    /\ UNCHANGED <<generation, next_id, reducer, calls, holder, wire, broken>>
\* reduce_notification
PumpAccount(a) ==
    /\ ~ broken /\ auth' = a
    /\ UNCHANGED <<generation, next_id, in_flight, results, coordinator, calls, holder, wire, broken>>
PumpTurn(s) ==
    /\ ~ broken /\ coordinator' = s
    /\ UNCHANGED <<generation, next_id, in_flight, results, auth, calls, holder, wire, broken>>

\* a read that fails; a bad frame is only reported, a request of the runtime is declined
PumpLost ==
    /\ ~ broken /\ broken' = TRUE
    /\ auth' = "reconnect_required" /\ coordinator' = "disconnected"
    /\ UNCHANGED <<generation, next_id, in_flight, results, calls, holder, wire>>

\* the end of the stream between two frames changes no state
StreamEnds ==
    /\ ~ broken /\ broken' = TRUE
    /\ UNCHANGED <<generation, next_id, in_flight, results, reducer, calls, holder, wire>>

TakeResult(id) ==
    /\ id \in Holding \cap DOMAIN results
    /\ results' = Forget(results, id) /\ holder' = Forget(holder, id)
    /\ UNCHANGED <<generation, next_id, in_flight, reducer, calls, wire, broken>>

\* reconnect: what was outstanding is abandoned, and its callers know that it is
Reconnect ==
    /\ generation < MaxGen /\ generation' = generation + 1
    /\ next_id' = 1 /\ in_flight' = {} /\ results' = Empty
    /\ auth' = "starting" /\ coordinator' = "disconnected"
    /\ holder' = Empty /\ wire' = {} /\ broken' = FALSE
    /\ UNCHANGED calls

Next ==
    \/ Call \/ PumpLost \/ StreamEnds \/ Reconnect
    \/ \E m \in wire : PumpResponse(m[1], m[2])
    \/ \E a \in {"starting", "signed_out", "ready", "unavailable", "reconnect_required"} : PumpAccount(a)
    \/ \E s \in {"running", "completed", "failed", "interrupted", "disconnected"} : PumpTurn(s)
    \/ \E id \in Holding : TakeResult(id)

Spec == Init /\ [][Next]_vars

-----------------------------------------------------------------------------
\* Answers come late, twice, out of order or after a reconnect that gave their id to another
\* request: what a caller takes is the answer to its own request, what is kept was asked for,
\* and what is outstanding stays within the limit.
AnswersAreOwn ==
    /\ \A id \in DOMAIN results : id \in Holding /\ results[id] = holder[id]
    /\ in_flight \cap DOMAIN results = {}
    /\ Cardinality(in_flight) + Cardinality(DOMAIN results) <= MaxQueued
=============================================================================
