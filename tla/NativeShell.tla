----------------------------- MODULE NativeShell -----------------------------
(***************************************************************************)
(* The object behind the native desktop app: pairing this machine, first   *)
(* run setup and the regional server role.  Each is a handle in a slot and *)
(* a task of its own; the calls of the app come from any thread.  Checking *)
(* a slot and filling it are separate steps, and a task that ends empties  *)
(* the slot whoever is in it: dropping a handle tells its task to stop.    *)
(* The worker of the same object is in WorkerNode.                         *)
(***************************************************************************)
EXTENDS Naturals, FiniteSets

CONSTANTS
    Codes,     \* pairing codes the hub gives out, one per pair_begin that asks
    Servers,   \* calls of server_start
    MaxSteps,  \* bound: setup steps the member starts
    None

ShellAssumption == MaxSteps \in Nat /\ None \notin Codes \cup Servers

VARIABLES
    key,                   \* HIVE_NODE_KEY: the code it came from
    pairing, poll,         \* the handle of the code shown, the tasks that poll for each code
    claimed,               \* codes a member entered at the hub
    busy, setup, steps,    \* setup_busy, the step that runs, steps started
    server_stop, serve,    \* the handle of the server, the tasks
    tunnel, enabled,       \* cloudflared runs, HIVE_SERVER_ENABLED
    registered             \* ServerStatus::registered

pairs == <<key, pairing, poll, claimed>>
setups == <<busy, setup, steps>>
serves == <<server_stop, serve, tunnel, enabled, registered>>
vars == <<pairs, setups, serves>>

TypeOK ==
    /\ key \in Codes \cup {None} /\ pairing \in Codes \cup {None}
    /\ poll \in [Codes -> {"none", "asking", "polling", "ending", "done"}]
    /\ claimed \subseteq Codes
    /\ busy \in BOOLEAN /\ setup \in {"idle", "install", "pull"} /\ steps \in 0 .. MaxSteps
    /\ server_stop \in Servers \cup {None}
    /\ serve \in [Servers -> {"none", "checking", "starting", "serving", "ending", "done"}]
    /\ tunnel \in BOOLEAN /\ enabled \in BOOLEAN /\ registered \in BOOLEAN

Init ==
    /\ key = None /\ pairing = None /\ poll = [c \in Codes |-> "none"] /\ claimed = {}
    /\ busy = FALSE /\ setup = "idle" /\ steps = 0
    /\ server_stop = None /\ serve = [s \in Servers |-> "none"]
    /\ tunnel = FALSE /\ enabled = FALSE /\ registered = FALSE

----------------------------------------------------------------------------
(* Pairing.                                                                *)

\* not paired, no code shown: the hub is asked for one
PairBegin(c) ==
    /\ poll[c] = "none" /\ key = None /\ pairing = None
    /\ poll' = [poll EXCEPT ![c] = "asking"]
    /\ UNCHANGED <<key, pairing, claimed, setups, serves>>

\* its answer; whatever handle another pair_begin put there meanwhile is dropped
PairShown(c) ==
    /\ poll[c] = "asking"
    /\ \/ poll' = [poll EXCEPT ![c] = "polling"] /\ pairing' = c
       \/ poll' = [poll EXCEPT ![c] = "done"] /\ UNCHANGED pairing
    /\ UNCHANGED <<key, claimed, setups, serves>>

\* a member enters a code at the hub, which knows nothing of this app's handles
MemberClaims(c) ==
    /\ poll[c] \notin {"none", "asking"} /\ c \notin claimed
    /\ claimed' = claimed \cup {c}
    /\ UNCHANGED <<key, pairing, poll, setups, serves>>

\* the answer to a poll: claimed.  The loop ends even when the key cannot be saved
PollClaimed(c) ==
    /\ poll[c] = "polling" /\ c \in claimed
    /\ poll' = [poll EXCEPT ![c] = "ending"]
    /\ key' \in {key, c}
    /\ UNCHANGED <<pairing, claimed, setups, serves>>

\* expired, a poll that fails, cancelled, or the handle is gone
PollEnds(c) ==
    /\ poll[c] = "polling"
    /\ poll' = [poll EXCEPT ![c] = "ending"]
    /\ UNCHANGED <<key, pairing, claimed, setups, serves>>

PollLeavesHandle(c) ==
    /\ poll[c] = "ending"
    /\ poll' = [poll EXCEPT ![c] = "done"]
    /\ UNCHANGED <<key, pairing, claimed, setups, serves>>

PollClears(c) ==
    /\ poll[c] = "ending"
    /\ poll' = [poll EXCEPT ![c] = "done"]
    /\ pairing' = None
    /\ UNCHANGED <<key, claimed, setups, serves>>

PairCancel ==
    /\ pairing # None
    /\ pairing' = None
    /\ UNCHANGED <<key, poll, claimed, setups, serves>>

----------------------------------------------------------------------------
(* Setup.                                                                  *)

SetupBegin(what) ==
    /\ ~ busy /\ steps < MaxSteps
    /\ busy' = TRUE /\ setup' = what /\ steps' = steps + 1
    /\ UNCHANGED <<pairs, serves>>

\* done or failed; a pull that cannot read the configuration ends here too
SetupEnds ==
    /\ setup # "idle"
    /\ busy' = FALSE /\ setup' = "idle"
    /\ UNCHANGED <<steps, pairs, serves>>

----------------------------------------------------------------------------
(* The regional server.                                                    *)

\* hive_server::serve listens at one address
Free == \A s \in Servers : serve[s] # "serving"

ServerStart(s) ==
    /\ serve[s] = "none" /\ server_stop = None
    /\ serve' = [serve EXCEPT ![s] = "checking"]
    /\ UNCHANGED <<server_stop, tunnel, enabled, registered, pairs, setups>>

\* not paired, or no public address
ServerRefused(s) ==
    /\ serve[s] = "checking"
    /\ serve' = [serve EXCEPT ![s] = "done"]
    /\ UNCHANGED <<server_stop, tunnel, enabled, registered, pairs, setups>>

\* the tunnel first, if one was set up, then the handle
ServerGoes(s) ==
    /\ serve[s] = "checking" /\ key # None
    /\ tunnel' \in {tunnel, TRUE}
    /\ server_stop' = s /\ enabled' = TRUE
    /\ serve' = [serve EXCEPT ![s] = "starting"]
    /\ UNCHANGED <<registered, pairs, setups>>

\* serve listens and registers with the hub
ServeRegisters(s) ==
    /\ serve[s] = "starting" /\ Free
    /\ serve' = [serve EXCEPT ![s] = "serving"]
    /\ registered' = TRUE
    /\ UNCHANGED <<server_stop, tunnel, enabled, pairs, setups>>

\* serve returns: it cannot listen or register, it fails, it was or its handle is gone
ServeReturns(s) ==
    /\ serve[s] \in {"starting", "serving"}
    /\ serve' = [serve EXCEPT ![s] = "ending"]
    /\ UNCHANGED <<server_stop, tunnel, enabled, registered, pairs, setups>>

ServeClears(s) ==
    /\ serve[s] = "ending"
    /\ serve' = [serve EXCEPT ![s] = "done"]
    /\ registered' = FALSE /\ server_stop' = None
    /\ UNCHANGED <<tunnel, enabled, pairs, setups>>

\* the handle stays until serve has returned; forget says not to start at the next launch
ServerStop(forget) ==
    /\ server_stop # None \/ tunnel \/ enabled
    /\ tunnel' = FALSE
    /\ enabled' = (enabled /\ ~ forget)
    /\ UNCHANGED <<server_stop, serve, registered, pairs, setups>>

----------------------------------------------------------------------------

Next ==
    \/ \E c \in Codes : \/ PairBegin(c) \/ PairShown(c) \/ MemberClaims(c)
                        \/ PollClaimed(c) \/ PollEnds(c) \/ PollClears(c)
    \/ PairCancel
    \/ \E what \in {"install", "pull"} : SetupBegin(what)
    \/ SetupEnds
    \/ \E s \in Servers : \/ ServerStart(s) \/ ServerRefused(s) \/ ServerGoes(s)
                          \/ ServeRegisters(s) \/ ServeReturns(s) \/ ServeClears(s)
    \/ \E forget \in BOOLEAN : ServerStop(forget)

Spec == Init /\ [][Next]_vars

----------------------------------------------------------------------------
(* Properties.                                                             *)

\* Whatever calls overlap, what a snapshot shows is so: a code on display is still polled for,
\* a server shown as running has not ended, one shown as registered did register, the key is one a
\* member approved, and setup is busy just while a step runs.
ShownIsSo ==
    /\ pairing # None => poll[pairing] \in {"polling", "ending"}
    /\ server_stop # None => serve[server_stop] \in {"starting", "serving", "ending"}
    /\ registered => \E s \in Servers : serve[s] \in {"serving", "ending"}
    /\ key # None => key \in claimed
    /\ busy <=> setup # "idle"
=============================================================================
