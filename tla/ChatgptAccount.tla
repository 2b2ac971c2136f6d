--------------------------- MODULE ChatgptAccount ---------------------------
(***************************************************************************)
(* The ChatGPT account of one user of a computer (subscription/account.rs):*)
(* the connection that all views of the desktop share behind one mutex and *)
(* the runtime process it drives, in whose keyring the account is.         *)
(*                                                                         *)
(* An account is named by the sign-in attempt that stored it.  One action  *)
(* of a view may take several requests; the runtime moves between any two. *)
(***************************************************************************)
EXTENDS Naturals

CONSTANTS MaxAttempts  \* bound: sign-ins started

AccountAssumption == MaxAttempts \in Nat

VARIABLES
    proc,        \* the connection has a runtime process
    state, shown,  \* the status: its state, the account it names (0 for none)
    pending,     \* the attempt the connection waits for, 0 for none
    completion,  \* login_completion: the last completion event read
    doing,       \* the action that holds the mutex and the request it waits for
    attempts,    \* sign-ins started so far
    \* the runtime
    stored,      \* the account in its keyring, 0 for none
    active,      \* the attempt a browser can still finish, 0 for none
    emitted      \* completion event it wrote and nobody read yet

status == <<state, shown>>
runtime == <<stored, active, emitted>>
vars == <<proc, status, pending, completion, doing, attempts, runtime>>

NoEvent == [login |-> 0, success |-> FALSE]
Free == [act |-> "none", at |-> "none"]

Init ==
    /\ proc = FALSE /\ state = "not_started" /\ shown = 0 /\ pending = 0 /\ completion = NoEvent
    /\ doing = Free /\ attempts = 0
    /\ stored = 0 /\ active = 0 /\ emitted = NoEvent

-----------------------------------------------------------------------------
Waits(at) == doing.at = at
Asks(at) == doing' = [doing EXCEPT !.at = at]
Done == doing' = Free
Shows(s, a) == state' = s /\ shown' = a
\* the events written before the reply are read with it, the last one is kept
Reads == completion' = (IF emitted # NoEvent THEN emitted ELSE completion) /\ emitted' = NoEvent

\* any error of an action drops the process, and with it what waits in it
Fail ==
    /\ doing # Free
    /\ Done /\ proc' = FALSE /\ pending' = 0 /\ Shows("error", 0)
    /\ active' = 0 /\ emitted' = NoEvent /\ completion' = NoEvent
    /\ UNCHANGED <<attempts, stored>>

\* account_action with a process: what an action does before its first request
Acts(act) ==
    \/ /\ act = "connect" /\ state = "connected" /\ Done
       /\ UNCHANGED <<status, pending, completion>>
    \/ /\ act = "device" \/ (act = "connect" /\ state # "connected")
       /\ doing' = [act |-> act, at |-> IF pending # 0 THEN "refused" ELSE "login"]
       /\ completion' = (IF pending # 0 THEN completion ELSE NoEvent)
       /\ UNCHANGED <<status, pending>>
    \/ /\ act = "status" /\ doing' = [act |-> act, at |-> "read"]
       /\ UNCHANGED <<status, pending, completion>>
    \/ /\ act = "cancel" /\ pending' = 0 /\ Shows("signed_out", 0)
       /\ doing' = (IF pending # 0 THEN [act |-> act, at |-> "cancel"] ELSE Free)
       /\ UNCHANGED completion
    \/ /\ act = "disconnect" /\ pending' = 0 /\ Shows("signed_out", 0)
       /\ doing' = [act |-> act, at |-> "logout"]
       /\ UNCHANGED completion

Action(act) ==
    /\ doing = Free
    /\ IF proc THEN Acts(act)
       ELSE /\ act # "status" /\ doing' = [act |-> act, at |-> "start"]
            /\ UNCHANGED <<status, pending, completion>>
    /\ UNCHANGED <<proc, attempts, runtime>>

\* start: the account that an earlier process left in the keyring is shown at once
Started ==
    /\ Waits("start") /\ proc' = TRUE /\ pending' = 0 /\ completion' = NoEvent
    /\ Shows(IF stored # 0 THEN "connected" ELSE "signed_out", stored)
    /\ Asks("started")
    /\ UNCHANGED <<attempts, runtime>>
Resumed == Waits("started") /\ Acts(doing.act) /\ UNCHANGED <<proc, attempts, runtime>>

LoginStarts ==
    /\ Waits("login") /\ attempts < MaxAttempts
    /\ attempts' = attempts + 1 /\ active' = attempts + 1 /\ pending' = attempts + 1
    /\ Shows("signing_in", 0) /\ Done
    /\ completion' = (IF emitted # NoEvent THEN emitted ELSE completion) /\ emitted' = NoEvent
    /\ UNCHANGED <<proc, stored>>

FailedAttempt(c) == c.login = pending /\ ~ c.success
FinishesAny(c) == c.success  \* mutant: the event of any attempt ends the pending one

Finishes(c) == c.login = pending /\ c.success
\* refresh, its attempt not overdue: an attempt that failed is an error
Refreshed ==
    /\ Waits("read") /\ Reads
    /\ pending # 0 => ~ FailedAttempt(completion')
    /\ IF pending # 0
       THEN IF Finishes(completion') /\ stored # 0
            THEN Shows("connected", stored) /\ pending' = 0
            ELSE UNCHANGED <<status, pending>>
       ELSE /\ IF state = "connected" THEN Shows(IF stored # 0 THEN "connected" ELSE "signed_out", stored)
               ELSE UNCHANGED status
            /\ UNCHANGED pending
    /\ Done
    /\ UNCHANGED <<proc, attempts, stored, active>>

\* refresh after fifteen minutes of an attempt: as if it were cancelled
RefreshOverdue ==
    /\ Waits("read") /\ pending # 0 /\ Reads
    /\ pending' = 0 /\ Shows("signed_out", 0) /\ Asks("cancel")
    /\ UNCHANGED <<proc, attempts, stored, active>>

CancelServed ==
    /\ Waits("cancel") /\ Reads /\ active' = 0 /\ Asks("logout")
    /\ UNCHANGED <<proc, status, pending, attempts, stored>>

LogoutServed ==
    /\ Waits("logout") /\ Reads /\ stored' = 0 /\ Asks("confirm")
    /\ UNCHANGED <<proc, status, pending, attempts, active>>

LogoutConfirmed ==
    /\ Waits("confirm") /\ stored = 0 /\ Reads /\ Done
    /\ UNCHANGED <<proc, status, pending, attempts, stored, active>>

-----------------------------------------------------------------------------
\* in the browser: the attempt succeeds or fails at any moment
BrowserEnds(ok) ==
    /\ active # 0 /\ active' = 0
    /\ emitted' = [login |-> active, success |-> ok]
    /\ stored' = (IF ok THEN active ELSE stored)
    /\ UNCHANGED <<proc, status, pending, completion, doing, attempts>>

Next ==
    \/ \E act \in {"connect", "device", "status", "cancel", "disconnect"} : Action(act)
    \/ Started \/ Resumed \/ LoginStarts \/ Refreshed \/ RefreshOverdue
    \/ CancelServed \/ LogoutServed \/ LogoutConfirmed \/ Fail
    \/ \E ok \in BOOLEAN : BrowserEnds(ok)

Spec == Init /\ [][Next]_vars

-----------------------------------------------------------------------------
\* Several views share the connection, attempts are cancelled, fail, run out or end while a
\* request waits: the account that is shown as connected is the one in the keyring, and no
\* attempt that could still replace it is open or waited for.
ShownIsStored ==
    state = "connected" => proc /\ shown = stored /\ stored # 0 /\ pending = 0 /\ active = 0
=============================================================================
