--------------------------- MODULE DesktopBroker ---------------------------
(***************************************************************************)
(* The broker of a desktop session: desktop/mod.rs (evaluate, FakeDesktop) *)
(* and desktop/journal.rs.                                                 *)
(*                                                                         *)
(* A model proposes clicks and keystrokes; what it proposes is queued and  *)
(* may be handed in late, twice or never.  Between the proposal and the    *)
(* input the person moves the focus, takes a grant back, changes a rule,   *)
(* interrupts, consents or lets a consent lapse, and the process dies, at  *)
(* worst between an input and its receipt.  Executors are simulated in     *)
(* this milestone; what the module promises of them is not.                *)
(*                                                                         *)
(* The caller is the trusted broker of the module's doc: it hands in the   *)
(* last observation it made, and reports a change of focus as it happens.  *)
(* Only ids and targets of requests are kept.  An authority that is        *)
(* stopped, of someone else or past a deadline refuses as a rule that      *)
(* denies does, and is not kept apart from it.                             *)
(***************************************************************************)
EXTENDS Naturals, Sequences

CONSTANTS
    Target,     \* windows of applications
    Call,       \* call ids
    Nowhere,    \* no window has the focus
    MaxShots,   \* bound on observations
    MaxRules,   \* bound on policy revisions
    MaxStops,   \* bound on interruptions and restarts
    MaxTold     \* bound on focus changes and revocations

BrokerAssumption ==
    /\ Nowhere \notin Target
    /\ {MaxShots, MaxRules, MaxStops, MaxTold} \subseteq Nat

VARIABLES
    focus, through,      \* focused_target, focus_invalidated_through (0: none)
    revoked,             \* revoked_targets
    interrupted, uncertain,
    used,                \* invalidated_observation (0: none)
    journal,             \* receipts: [call, shot, state]; the next sequence number is its length
    shot,                \* the windows of the observations so far; an id is an index
    fresh,               \* the last observation is still valid
    rule, revision,      \* Policy: the rule for the risk at hand
    queue,               \* proposed requests
    consent,             \* approvals that have not expired
    done,                \* history: the inputs that reached the desktop
    moved,               \* history: the observations before the last real change of focus
    stops, told

broker == <<focus, through, revoked, interrupted, uncertain, used, journal>>
world == <<shot, fresh, rule, revision, queue, consent>>
vars == <<broker, world, done, moved, stops, told>>
----------------------------------------------------------------------------
Receipt == {"Observed", "Applied", "Unknown", "ReviewedApplied", "ReviewedNotApplied"}

Request == [call : Call, at : Nat, shot : 1 .. MaxShots, revision : Nat, input : BOOLEAN]

TypeOK ==
    /\ focus \in Target \cup {Nowhere} /\ through \in 0 .. MaxShots /\ revoked \subseteq Target
    /\ {interrupted, uncertain, fresh} \subseteq BOOLEAN
    /\ used \in 0 .. MaxShots /\ moved \in 0 .. MaxShots
    /\ journal \in Seq([call : Call, shot : 1 .. MaxShots, state : Receipt])
    /\ shot \in Seq(Target) /\ rule \in {"allow", "confirm", "deny"}
    /\ queue \subseteq Request /\ consent \subseteq Request
    /\ done \in Seq(Request)

Init ==
    /\ focus = Nowhere /\ through = 0 /\ revoked = {} /\ interrupted = FALSE /\ uncertain = FALSE
    /\ used = 0 /\ journal = <<>>
    /\ shot = <<>> /\ fresh = FALSE /\ rule = "confirm" /\ revision = 1
    /\ queue = {} /\ consent = {} /\ done = <<>> /\ moved = 0 /\ stops = 0 /\ told = 0

Latest == Len(shot)
Consumed == {journal[i].call : i \in 1 .. Len(journal)}
Unknown(j) == j # <<>> /\ j[Len(j)].state = "Unknown"
----------------------------------------------------------------------------
(* The model and the person.                                               *)

\* a new screenshot, of the window the broker looks at
Look(t) ==
    /\ Latest < MaxShots
    /\ shot' = Append(shot, t) /\ fresh' = TRUE
    /\ UNCHANGED <<broker, rule, revision, queue, consent, done, moved, stops, told>>

\* parse_response: a proposal about the last observation, numbered as the caller says
Propose(c, input) ==
    /\ Latest > 0 /\ ~ \E r \in queue : r.call = c
    /\ queue' = queue \cup {[call |-> c, at |-> Len(journal), shot |-> Latest, revision |-> revision, input |-> input]}
    /\ UNCHANGED <<broker, shot, fresh, rule, revision, consent, done, moved, stops, told>>

\* Approval::from_local_consent, and its expiry
Consent(r) ==
    /\ r.input
    /\ consent' = (consent \ {r}) \cup ({r} \ consent)
    /\ UNCHANGED <<broker, shot, fresh, rule, revision, queue, done, moved, stops, told>>

\* set_consented_exception
SetRule(to) ==
    /\ revision < MaxRules /\ revision' = revision + 1 /\ rule' = to
    /\ UNCHANGED <<broker, shot, fresh, queue, consent, done, moved, stops, told>>

\* valid_until
Expire ==
    /\ fresh /\ fresh' = FALSE
    /\ UNCHANGED <<broker, shot, rule, revision, queue, consent, done, moved, stops, told>>

\* the window a person goes to; report_focus_change
ChangeFocus(t) ==
    /\ told < MaxTold /\ told' = told + 1
    /\ focus' = t /\ through' = (IF through > Latest THEN through ELSE Latest)
    /\ moved' = Latest
    /\ UNCHANGED <<revoked, interrupted, uncertain, used, journal, world, done, stops>>

\* revoke_grant
Revoke(t) ==
    /\ told < MaxTold /\ told' = told + 1
    /\ revoked' = revoked \cup {t}
    /\ UNCHANGED <<focus, through, interrupted, uncertain, used, journal, world, done, moved, stops>>

\* interrupt
Interrupt ==
    /\ stops < MaxStops /\ stops' = stops + 1
    /\ interrupted' = TRUE
    /\ UNCHANGED <<focus, through, revoked, uncertain, used, journal, world, done, moved, told>>
----------------------------------------------------------------------------
(* The broker.                                                             *)

\* check_broker_state
InPlace(t, o) == t \notin revoked /\ focus = t /\ o > through

\* evaluate
Decision(r) ==
    IF r.revision # revision \/ r.shot # Latest \/ ~ fresh THEN "deny"
    ELSE IF ~ r.input \/ rule = "allow" \/ (rule = "confirm" /\ r \in consent) THEN "allow"
    ELSE rule

AcceptsSameShot(r) ==
    /\ ~ interrupted /\ ~ uncertain
    /\ r.at = Len(journal) /\ r.call \notin Consumed
    /\ InPlace(shot[r.shot], r.shot)

\* what execute looks at before it evaluates
Accepts(r) ==
    /\ ~ interrupted /\ ~ uncertain
    /\ r.at = Len(journal) /\ r.call \notin Consumed
    /\ r.input => used # r.shot
    /\ InPlace(shot[r.shot], r.shot)

\* execute: the receipt is written before the input and settled after it; it is lost when the
\* process dies in between (mark_uncertain, or a restart), before or after the input
Execute(r) ==
    /\ Accepts(r) /\ Decision(r) = "allow"
    /\ \E how \in IF r.input THEN {"Applied", "Unknown"} ELSE {"Observed"}, reached \in BOOLEAN :
        /\ reached => r.input
        /\ how = "Applied" => reached
        /\ journal' = Append(journal, [call |-> r.call, shot |-> r.shot, state |-> how])
        /\ uncertain' = (how = "Unknown")
        /\ used' = IF how = "Applied" THEN r.shot ELSE used
        /\ done' = IF reached THEN Append(done, r) ELSE done
    /\ UNCHANGED <<focus, through, revoked, interrupted, world, moved, stops, told>>

\* journal_snapshot and recover: the receipts and revocations are kept, the focus is not
Recover ==
    /\ stops < MaxStops /\ stops' = stops + 1
    /\ interrupted' = TRUE /\ focus' = Nowhere /\ through' = 0
    /\ uncertain' = Unknown(journal)
    /\ used' = LET acts == {i \in 1 .. Len(journal) : journal[i].state # "Observed"}
               IN  IF acts = {} THEN 0 ELSE journal[CHOOSE i \in acts : \A j \in acts : j <= i].shot
    /\ UNCHANGED <<revoked, journal, world, done, moved, told>>

\* resume_after_local_review: a new observation, current authority, and a finding when in doubt
Resume(finding) ==
    /\ interrupted \/ uncertain
    /\ Latest > 0
    /\ journal # <<>> => Latest > journal[Len(journal)].shot
    /\ InPlace(shot[Latest], Latest) /\ fresh
    /\ IF uncertain
       THEN Unknown(journal) /\ journal' = [journal EXCEPT ![Len(journal)].state = finding]
       ELSE UNCHANGED journal
    /\ interrupted' = FALSE /\ uncertain' = FALSE
    /\ UNCHANGED <<focus, through, revoked, used, world, done, moved, stops, told>>

Next ==
    \/ \E t \in Target : Look(t) \/ Revoke(t)
    \/ \E t \in Target \cup {Nowhere} : ChangeFocus(t)
    \/ \E c \in Call, input \in BOOLEAN : Propose(c, input)
    \/ \E r \in queue : Consent(r) \/ Execute(r)
    \/ \E to \in {"allow", "deny"} : SetRule(to)
    \/ Expire \/ Interrupt \/ Recover
    \/ \E finding \in {"ReviewedApplied", "ReviewedNotApplied"} : Resume(finding)

Spec == Init /\ [][Next]_vars
----------------------------------------------------------------------------
(* Properties.                                                             *)

\* Whatever reached the desktop has a receipt, so that a restart finds it, and no call reached it twice.
NothingTwice ==
    /\ \A i, j \in 1 .. Len(done) : done[i].call = done[j].call => i = j
    /\ \A i \in 1 .. Len(done) : \E k \in 1 .. Len(journal) :
        journal[k].call = done[i].call /\ journal[k].state # "Observed"

\* An input reaches the window the person is in and has not taken back, as they last saw it: neither
\* the focus has moved nor another input been made since the observation it is about; the rule
\* of now allows it or the person agreed to this very request; and nothing before it is in doubt.
Wanted(r) ==
    /\ shot[r.shot] \notin revoked /\ shot[r.shot] = focus /\ r.shot > moved
    /\ \A i \in 1 .. Len(done) : done[i].shot < r.shot
    /\ rule = "allow" \/ (rule = "confirm" /\ r \in consent)
    /\ \A k \in 1 .. Len(journal) : journal[k].state # "Unknown"

\* Both, of every step: restarts, lost receipts and stale proposals included.
BrokerStep == NothingTwice' /\ \A r \in queue : done' = Append(done, r) => Wanted(r)
BrokerSafe == [][BrokerStep]_vars
=============================================================================
