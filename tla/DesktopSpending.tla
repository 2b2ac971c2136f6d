-------------------------- MODULE DesktopSpending --------------------------
(***************************************************************************)
(* What a desktop session may use up: provider turns, bytes, money, input  *)
(* actions and their rate.  The ledger reserves before it knows, and       *)
(* settles with what it is told; the batches of a session stop at the      *)
(* first call that is refused.  Which inputs the desktop lets through is   *)
(* the business of DesktopBroker: here it applies a call or does not.      *)
(***************************************************************************)
EXTENDS Naturals, Sequences

CONSTANTS
    Limit,    \* Limits: [turns, duration, bytes, actions, perSecond, cost]
    Second,   \* bound: ticks of the clock in a second
    MaxTime,  \* bound: ticks the clock runs
    Quote,    \* ceilings of the host for one provider call
    Charge,   \* what a provider call may really cost
    BatchSize

SpendingAssumption ==
    /\ Limit \in [turns : Nat, duration : Nat, bytes : Nat, actions : Nat, perSecond : Nat, cost : Nat]
    /\ Second \in Nat \ {0} /\ MaxTime \in Nat /\ BatchSize \in Nat \ {0}
    /\ Quote \subseteq Nat \ {0} /\ Charge \subseteq Nat

VARIABLES
    now,
    turns, bytes, actions, cost,  \* Counters
    times,                        \* action_times: inputs of the last second
    pending, failed,              \* Budget: the reservation that is out (0: none), a quote was overrun
    stopped,                      \* DesktopSession::stopped
    batch,                        \* Batch: [next, stopped]
    asking,                       \* a provider call is out
    billed,                       \* history: what the provider charged
    unseen, overrun,              \* history: charges above the quote nobody reported, and reported ones
    inputs                        \* history: the times of the inputs sent to the desktop

ledger == <<turns, bytes, actions, cost, times, pending, failed>>
history == <<billed, unseen, overrun, inputs>>
vars == <<now, ledger, stopped, batch, asking, history>>

TypeOK ==
    /\ now \in 0 .. MaxTime /\ {turns, bytes, actions, cost, pending, billed, unseen, overrun} \subseteq Nat
    /\ times \in Seq(0 .. MaxTime) /\ inputs \in Seq(0 .. MaxTime)
    /\ {failed, stopped, asking} \subseteq BOOLEAN
    /\ batch \in [next : 1 .. (BatchSize + 1), stopped : BOOLEAN]

Init ==
    /\ now = 0 /\ turns = 0 /\ bytes = 0 /\ actions = 0 /\ cost = 0
    /\ times = <<>> /\ pending = 0 /\ failed = FALSE
    /\ stopped = FALSE /\ batch = [next |-> 1, stopped |-> FALSE] /\ asking = FALSE
    /\ billed = 0 /\ unseen = 0 /\ overrun = 0 /\ inputs = <<>>

----------------------------------------------------------------------------
(* Budget.                                                                 *)

\* check_time: the deadline, and a ledger that failed
InTime == now < Limit.duration /\ ~ failed

Ready == InTime /\ pending = 0

\* the k inputs at the front that are a second old are dropped
Old(k) ==
    /\ \A i \in 1 .. k : times[i] + Second <= now
    /\ k < Len(times) => now < times[k + 1] + Second

InputAllowed(k) == Ready /\ actions < Limit.actions /\ Len(times) - k < Limit.perSecond

ProviderAllowed(quote) ==
    /\ Ready /\ turns < Limit.turns /\ bytes + 1 <= Limit.bytes
    /\ cost + quote <= Limit.cost

----------------------------------------------------------------------------
(* A turn of the provider.                                                 *)

\* begin_provider: the whole ceiling is reserved before anything is sent
Asks(quote) ==
    /\ ~ stopped /\ ~ asking /\ ProviderAllowed(quote)
    /\ turns' = turns + 1 /\ bytes' = bytes + 1 /\ cost' = cost + quote /\ pending' = quote
    /\ asking' = TRUE
    /\ UNCHANGED <<now, actions, times, failed, stopped, batch, history>>

\* a proposal that can be read, with its usage at the host's own prices
Answered(charge) ==
    /\ asking /\ asking' = FALSE /\ pending' = 0
    /\ billed' = billed + charge
    /\ failed' = (failed \/ charge > pending)
    /\ cost' = (cost - pending) + charge
    /\ overrun' = IF charge > pending THEN overrun + (charge - pending) ELSE overrun
    /\ UNCHANGED <<now, turns, bytes, actions, times, stopped, batch, unseen, inputs>>

LostRefunded(charge) ==
    /\ asking /\ asking' = FALSE /\ pending' = 0
    /\ billed' = billed + charge
    /\ cost' = cost - pending
    /\ unseen' = IF charge > pending THEN unseen + (charge - pending) ELSE unseen
    /\ UNCHANGED <<now, turns, bytes, actions, times, failed, stopped, batch, overrun, inputs>>

\* no answer, one that cannot be read, or no prices to settle with: the provider
\* may have charged, and the reservation stands
Lost(charge) ==
    /\ asking /\ asking' = FALSE /\ pending' = 0
    /\ billed' = billed + charge
    /\ unseen' = IF charge > pending THEN unseen + (charge - pending) ELSE unseen
    /\ UNCHANGED <<now, turns, bytes, actions, cost, times, failed, stopped, batch, overrun, inputs>>

\* the caller goes away while the call is out: nobody finishes it, and the
\* session waits for it for ever
Abandoned(charge) ==
    /\ asking /\ asking' = FALSE
    /\ billed' = billed + charge
    /\ unseen' = IF charge > pending THEN unseen + (charge - pending) ELSE unseen
    /\ UNCHANGED <<now, ledger, stopped, batch, overrun, inputs>>

----------------------------------------------------------------------------
(* A step of a batch.                                                      *)

Stops == batch' = [batch EXCEPT !.stopped = TRUE]

Refused ==
    /\ ~ asking /\ ~ batch.stopped
    /\ stopped \/ batch.next > BatchSize \/ ~ Ready \/ bytes + 1 > Limit.bytes
    /\ Stops
    /\ UNCHANGED <<now, ledger, stopped, asking, history>>

\* an observation: its bytes count
Observes ==
    /\ ~ asking /\ ~ batch.stopped /\ ~ stopped /\ batch.next <= BatchSize
    /\ Ready /\ bytes + 1 <= Limit.bytes
    /\ bytes' = bytes + 1
    /\ \/ batch' = [batch EXCEPT !.next = @ + 1]
       \/ Stops
    /\ UNCHANGED <<now, turns, actions, cost, times, pending, failed, stopped, asking, history>>

\* an input: counted before it is sent, whether the desktop then applies it or not
Inputs ==
    /\ ~ asking /\ ~ batch.stopped /\ ~ stopped /\ batch.next <= BatchSize
    /\ Ready /\ bytes + 1 <= Limit.bytes
    /\ bytes' = bytes + 1
    /\ \E k \in 0 .. Len(times) : Old(k) /\
         IF InputAllowed(k)
           THEN /\ times' = Append(SubSeq(times, k + 1, Len(times)), now) /\ actions' = actions + 1
                /\ inputs' = Append(inputs, now)
                /\ batch' = [batch EXCEPT !.next = @ + 1] \/ Stops
           ELSE Stops /\ UNCHANGED <<times, actions, inputs>>
    /\ UNCHANGED <<now, turns, cost, pending, failed, stopped, asking, billed, unseen, overrun>>

\* the host makes another batch of what the provider proposed
NewBatch ==
    /\ batch # [next |-> 1, stopped |-> FALSE] /\ ~ asking
    /\ batch' = [next |-> 1, stopped |-> FALSE]
    /\ UNCHANGED <<now, ledger, stopped, asking, history>>

\* interrupt, mark_uncertain: for good
Interrupted ==
    /\ ~ stopped /\ ~ asking /\ stopped' = TRUE
    /\ UNCHANGED <<now, ledger, batch, asking, history>>

Tick ==
    /\ now < MaxTime /\ now' = now + 1
    /\ UNCHANGED <<ledger, stopped, batch, asking, history>>

Next ==
    \/ \E q \in Quote : Asks(q)
    \/ \E c \in Charge : Answered(c) \/ Lost(c) \/ Abandoned(c)
    \/ Refused \/ Observes \/ Inputs \/ NewBatch \/ Interrupted \/ Tick

Spec == Init /\ [][Next]_vars

----------------------------------------------------------------------------
\* Whatever the provider charged is in the ledger, except what went beyond a
\* quote unreported; and the ledger never goes beyond the limit but by the one
\* overrun after which it is closed.
BillIsCovered ==
    /\ billed <= cost + unseen
    /\ cost <= Limit.cost + overrun
    /\ overrun > 0 => failed

\* In no second are more inputs sent than allowed, however batches are cut.
RateHolds ==
    /\ Len(inputs) <= Limit.actions
    /\ \A i, j \in 1 .. Len(inputs) :
         i < j /\ j - i >= Limit.perSecond => inputs[i] + Second <= inputs[j]

\* A session uses no more than it was given, though answers, prices and whole
\* calls get lost: its bill is covered and its rate of inputs holds.
SpendingSafe == BillIsCovered /\ RateHolds
=============================================================================
