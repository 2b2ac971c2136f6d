---------------------------- MODULE ManagedVault ----------------------------
(***************************************************************************)
(* A vault without a folder (local_hub/vault.rs, vault_intake.rs,          *)
(* vault_intake_folder.rs, vault_curation.rs, vault_maintenance.rs): notes *)
(* written by hand or taken in from sources, archived and restored, and a  *)
(* maintenance run that may drop copies of what is archived.               *)
(*                                                                         *)
(* The contents of a note are a number, its revision.  Every transaction   *)
(* of the store is one step.                                               *)
(***************************************************************************)
EXTENDS Naturals

CONSTANTS
    Note,        \* identities of notes; each is that of an intake source too
    Connector,   \* calls of vault_intake_approve_file that overlap
    None,
    MaxText,     \* bound: contents ever written
    MaxGen,      \* bound: intake generations
    MaxRuns      \* bound: maintenance runs and policies

ManagedAssumption ==
    /\ None \notin Nat
    /\ MaxText \in Nat /\ MaxGen \in Nat /\ MaxRuns \in Nat

VARIABLES
    docs,      \* note -> contents, None for no note
    texts,     \* contents written so far
    intake,    \* note -> generation, contents (None when excluded) of the last intake
    archive,   \* note -> revision and snapshot of its archive entry
    approving, \* connector -> the note, its contents and the generation it found
    policy, expires,   \* number of the maintenance policy, whether it drops copies
    token,     \* the run that holds the claim, None for none
    runs,      \* maintenance runs that go on: number, policy, whether their policy drops copies
    started,   \* runs claimed so far
    ready      \* vaults.state

notes == <<docs, texts>>
maintenance == <<policy, expires, token, runs, started>>
vars == <<notes, intake, archive, approving, maintenance, ready>>

NoIntake == [generation |-> 0, text |-> None]
NoArchive == [revision |-> None, snapshot |-> None]
NoFile == [note |-> None, text |-> None, generation |-> 0]

Init ==
    /\ docs = [n \in Note |-> None] /\ texts = 0
    /\ intake = [n \in Note |-> NoIntake] /\ archive = [n \in Note |-> NoArchive]
    /\ approving = [c \in Connector |-> NoFile]
    /\ policy = 0 /\ expires = FALSE /\ token = None /\ runs = {} /\ started = 0
    /\ ready = TRUE

Archived(n) == archive[n].revision # None
\* a source that was taken in and then excluded leaves its generation behind
Excluded(n) == intake[n].generation > 0 /\ intake[n].text = None

-----------------------------------------------------------------------------
\* vault_put: a new note, or another text of one that is there
Put(n) ==
    /\ texts < MaxText /\ texts' = texts + 1
    /\ docs[n] # None \/ intake[n] = NoIntake
    /\ docs' = [docs EXCEPT ![n] = texts + 1]
    /\ UNCHANGED <<intake, archive, approving, maintenance, ready>>

RemoveDocument(n) ==
    /\ docs[n] # None /\ docs' = [docs EXCEPT ![n] = None]
    /\ UNCHANGED <<texts, intake, archive, approving, maintenance, ready>>

-----------------------------------------------------------------------------
\* vault_intake: refused when the note is not what the last intake left, stale or in conflict
Untouched(n) == docs[n] = intake[n].text
Newer(n, g) == g > intake[n].generation
Taken(n, g, t) ==
    /\ docs' = [docs EXCEPT ![n] = t]
    /\ intake' = [intake EXCEPT ![n] = [generation |-> g, text |-> t]]

\* an adapter sends a generation of a source: another text, or that it is excluded
Intake(n, g) ==
    /\ Untouched(n) /\ Newer(n, g)
    /\ \/ texts < MaxText /\ texts' = texts + 1 /\ Taken(n, g, texts + 1)
       \/ UNCHANGED texts /\ Taken(n, g, None)
    /\ UNCHANGED <<archive, approving, maintenance, ready>>

\* vault_intake_approve_file: reads the file and what was taken in last ...
ApproveReads(c, n) ==
    /\ approving[c] = NoFile /\ texts < MaxText /\ texts' = texts + 1
    /\ approving' = [approving EXCEPT ![c] =
                       [note |-> n, text |-> texts + 1, generation |-> intake[n].generation]]
    /\ UNCHANGED <<docs, intake, archive, maintenance, ready>>
\* ... and submits the next generation, unless another one came first
ApproveSubmits(c) ==
    LET a == approving[c] IN
    /\ a # NoFile /\ approving' = [approving EXCEPT ![c] = NoFile]
    /\ IF Untouched(a.note) /\ Newer(a.note, a.generation + 1)
       THEN Taken(a.note, a.generation + 1, a.text)
       ELSE UNCHANGED <<docs, intake>>
    /\ UNCHANGED <<texts, archive, maintenance, ready>>

-----------------------------------------------------------------------------
\* expire: copies of notes that are indexed with exactly the archived contents
Redundant(n) == archive[n].snapshot # None /\ archive[n].snapshot = docs[n]
ExpireAmong(S, may) ==
    archive' = [n \in Note |-> IF may /\ ready /\ n \in S /\ Redundant(n)
                               THEN [archive[n] EXCEPT !.snapshot = None] ELSE archive[n]]

\* vault_archive, the revision that was reviewed; a full archive first drops copies
Archive(n) ==
    /\ docs[n] # None /\ ~ Archived(n)
    /\ \E full \in BOOLEAN :
          archive' = [m \in Note |->
             IF m = n THEN [revision |-> docs[n], snapshot |-> docs[n]]
             ELSE IF full /\ expires /\ ready /\ Redundant(m) THEN [archive[m] EXCEPT !.snapshot = None]
             ELSE archive[m]]
    /\ UNCHANGED <<notes, intake, approving, maintenance, ready>>

RestoresMissing(n) == archive[n].snapshot # None /\ ~ Excluded(n)
\* vault_restore: what is indexed stays as it is; a missing note comes back from its copy
Restore(n) ==
    /\ Archived(n) /\ (docs[n] = None => RestoresMissing(n))
    /\ docs' = [docs EXCEPT ![n] = IF docs[n] = None THEN archive[n].snapshot ELSE docs[n]]
    /\ archive' = [archive EXCEPT ![n] = NoArchive]
    /\ UNCHANGED <<texts, intake, approving, maintenance, ready>>

-----------------------------------------------------------------------------
\* vault_configure_maintenance takes the claim from a run that goes on
Configure(e) ==
    /\ policy < MaxRuns /\ policy' = policy + 1 /\ expires' = e /\ token' = None
    /\ UNCHANGED <<notes, intake, archive, approving, runs, started, ready>>

\* maintenance_tick_at: due, and nobody has the claim or its hour is over
TickClaims ==
    /\ policy > 0 /\ started < MaxRuns /\ started' = started + 1
    /\ token' = started + 1
    /\ runs' = runs \cup {[run |-> started + 1, policy |-> policy, expires |-> expires]}
    /\ UNCHANGED <<notes, intake, archive, approving, policy, expires, ready>>

HasAnyClaim(r) == TRUE  \* mutant: the token is not compared

HasClaim(r) == token = r.run
\* the last transaction of a run: nothing of it counts once the claim is another's
TickFinishes(r) ==
    /\ r \in runs /\ runs' = runs \ {r}
    /\ IF HasClaim(r)
       THEN /\ token' = None
            /\ \E oldEnough \in SUBSET Note : ExpireAmong(oldEnough, r.expires)
       ELSE UNCHANGED <<token, archive>>
    /\ UNCHANGED <<notes, intake, approving, policy, expires, started, ready>>

\* the process stops during a run; the vault is unavailable until it is opened again
TickDies(r) ==
    /\ r \in runs /\ runs' = runs \ {r} /\ ready' = FALSE
    /\ UNCHANGED <<notes, intake, archive, approving, policy, expires, token, started>>
ReopenManual ==
    /\ ~ ready /\ ready' = TRUE
    /\ UNCHANGED <<notes, intake, archive, approving, maintenance>>

Next ==
    \/ \E n \in Note :
          \/ Put(n) \/ RemoveDocument(n) \/ Archive(n) \/ Restore(n)
          \/ \E g \in 1 .. MaxGen : Intake(n, g)
          \/ \E c \in Connector : ApproveReads(c, n)
    \/ \E c \in Connector : ApproveSubmits(c)
    \/ \E e \in BOOLEAN : Configure(e)
    \/ TickClaims \/ ReopenManual
    \/ \E r \in runs : TickFinishes(r) \/ TickDies(r)

Spec == Init /\ [][Next]_vars

-----------------------------------------------------------------------------
\* A source that was excluded is not indexed again by anything but a newer generation of it:
\* not by restoring what was archived of it before, nor by a late or repeated intake.
ExcludedStaysOut == \A n \in Note : Excluded(n) => docs[n] = None

\* What a person wrote is not overwritten by an intake, and the archived copy of a note is only
\* dropped while the same text is indexed and the policy of the moment allows it, whatever run
\* was started under an earlier one.
EditsAndCopiesKept ==
    \A n \in Note :
       /\ intake'[n] # intake[n] => docs[n] = intake[n].text
       /\ Archived(n) /\ archive'[n].revision = archive[n].revision
             /\ archive'[n].snapshot # archive[n].snapshot
             => expires /\ docs'[n] = archive[n].snapshot

ManagedStep == EditsAndCopiesKept /\ ExcludedStaysOut'
ManagedSafe == [][ManagedStep]_vars
=============================================================================
