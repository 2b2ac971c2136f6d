---------------------------- MODULE SharedVaults ----------------------------
(***************************************************************************)
(* Projects, their repositories and their collections, and who may read a  *)
(* collection: local_hub/repository.rs, local_hub/vault.rs and the card    *)
(* creation of local_hub/mod.rs of ohhive-core.                            *)
(*                                                                         *)
(* A project gets a collection of its own that every computer paired at    *)
(* that time may read; the owner grants and withdraws, by hand or for the  *)
(* whole fleet.  A computer searches first and reads what it found later,  *)
(* by revision.  A task keeps the repository its project had when it was   *)
(* made, and hands it to its children.  Every operation is a transaction.  *)
(***************************************************************************)
EXTENDS Naturals

CONSTANTS
    Device,    \* computers
    Member,    \* the computers of a verified owner
    Project,   \* request ids of projects; an id is the project's
    Contents,  \* titles and goals
    Repo,      \* repository bindings
    Vault,     \* vaults.id
    Card,      \* tasks of kind code without a location of their own
    None,
    MaxText    \* bound: texts written to a collection

\* a card: its project, its repository, and the task it is a child of; itself if it is none's
Task == [project : Project, repo : Repo \cup {None}, parent : Card]

VaultsAssumption ==
    /\ Member \subseteq Device /\ None \notin Vault \cup Project \cup Repo \cup Contents \cup Task
    /\ MaxText \in Nat

VARIABLES
    key,        \* local_node_keys: none, good or revoked
    projects,   \* projects: contents by id
    vaultOf,    \* project_vaults
    binding,    \* project_repositories
    vaults,     \* the collections there are
    ready,      \* those whose state is ready
    readers,    \* vault_readers
    text,       \* the revision of the one document a collection holds; 0: none
    texts,      \* revisions so far
    found,      \* what a device has found: a collection and a revision
    given,      \* the revision a device was last given, and the one it had found
    cards,      \* the project, repository and parent of a task
    withdrawn,  \* what the owner has taken from a device and not given back
    dropped     \* the collections the owner has asked to delete

collections == <<vaults, ready, readers, text, texts, withdrawn, dropped>>
vars == <<key, projects, vaultOf, binding, collections, found, given, cards>>

Init ==
    /\ key = [d \in Device |-> "none"]
    /\ projects = [p \in Project |-> None] /\ vaultOf = [p \in Project |-> None]
    /\ binding = [p \in Project |-> None]
    /\ vaults = {} /\ ready = {} /\ readers = {} /\ text = [v \in Vault |-> 0] /\ texts = 0
    /\ found = [d \in Device |-> None] /\ given = [d \in Device |-> <<0, 0>>]
    /\ cards = [c \in Card |-> None] /\ withdrawn = {} /\ dropped = {}

Paired == {d \in Device : key[d] = "good"}

\* verified_owner
Verified(d) == d \in Member /\ d \in Paired

-----------------------------------------------------------------------------
\* redeem_pairing, revoke
Pair(d) ==
    /\ key[d] = "none"
    /\ key' = [key EXCEPT ![d] = "good"]
    /\ UNCHANGED <<projects, vaultOf, binding, collections, found, given, cards>>

Revoke(d) ==
    /\ key[d] = "good"
    /\ key' = [key EXCEPT ![d] = "revoked"]
    /\ UNCHANGED <<projects, vaultOf, binding, collections, found, given, cards>>

\* a collection that was not there; the owner names it, so that an id is not used again
NewVault(v) == v \notin vaults \cup dropped

\* insert_project: the project, its collection, and a grant for every computer there is
InsertProject(p, c, v) ==
    /\ NewVault(v)
    /\ projects' = [projects EXCEPT ![p] = c]
    /\ vaultOf' = [vaultOf EXCEPT ![p] = v]
    /\ vaults' = vaults \cup {v}
    /\ readers' = readers \cup {v} \X Paired
    /\ UNCHANGED <<key, binding, ready, text, texts, withdrawn, dropped, found, given, cards>>

\* private_repository_project_create, create_project: a request that is sent again finds the
\* project, and is refused if it asks for something else
ProjectCreate(p, c, v) ==
    /\ \E d \in Device : Verified(d)
    /\ projects[p] = None
    /\ InsertProject(p, c, v)

\* private_repository_project_set, set_project_repository
ProjectSetRepository(p, r) ==
    /\ projects[p] # None /\ binding[p] # r
    /\ binding' = [binding EXCEPT ![p] = r]
    /\ UNCHANGED <<key, projects, vaultOf, collections, found, given, cards>>

\* add_card: the default of the project of the moment
AddCard(c, p) ==
    /\ projects[p] # None /\ cards[c] = None
    /\ cards' = [cards EXCEPT ![c] = [project |-> p, repo |-> binding[p], parent |-> c]]
    /\ UNCHANGED <<key, projects, vaultOf, binding, collections, found, given>>

\* a plausible bug: a child takes the default of the project again
Default(p) == binding[cards[p].project]

\* inherit_parent_repository
Inherited(p) == cards[p].repo

\* spawn_child_card
SpawnChild(c, p) ==
    /\ cards[p] # None /\ cards[c] = None
    /\ cards' = [cards EXCEPT
          ![c] = [project |-> cards[p].project, repo |-> Inherited(p), parent |-> p]]
    /\ UNCHANGED <<key, projects, vaultOf, binding, collections, found, given>>

-----------------------------------------------------------------------------
\* vault_create
VaultCreate(v) ==
    /\ NewVault(v)
    /\ vaults' = vaults \cup {v}
    /\ UNCHANGED <<key, projects, vaultOf, binding, ready, readers, text, texts, withdrawn,
                   dropped, found, given, cards>>

\* vault_reconcile_grants, which the command line calls after vault_create too
ReconcileGrants ==
    /\ readers' = readers \cup vaults \X Paired
    /\ UNCHANGED <<key, projects, vaultOf, binding, vaults, ready, text, texts, withdrawn,
                   dropped, found, given, cards>>

\* vault_set_computer_access, vault_grant
SetAccess(v, d, allowed) ==
    /\ v \in vaults /\ key[d] # "none"
    /\ allowed => d \in Paired
    /\ IF allowed
       THEN readers' = readers \cup {<<v, d>>} /\ withdrawn' = withdrawn \ {<<v, d>>}
       ELSE readers' = readers \ {<<v, d>>} /\ withdrawn' = withdrawn \cup {<<v, d>>}
    /\ UNCHANGED <<key, projects, vaultOf, binding, vaults, ready, text, texts, dropped,
                   found, given, cards>>

\* vault_set_available, from_connection
SetAvailable(v) ==
    /\ v \in vaults
    /\ ready' \in {ready \ {v}, ready \cup {v}}
    /\ UNCHANGED <<key, projects, vaultOf, binding, vaults, readers, text, texts, withdrawn,
                   dropped, found, given, cards>>

\* vault_put, vault_remove_document
Put(v) ==
    /\ v \in vaults /\ texts < MaxText
    /\ texts' = texts + 1 /\ text' = [text EXCEPT ![v] = texts + 1]
    /\ UNCHANGED <<key, projects, vaultOf, binding, vaults, ready, readers, withdrawn,
                   dropped, found, given, cards>>

RemoveDocument(v) ==
    /\ text[v] # 0
    /\ text' = [text EXCEPT ![v] = 0]
    /\ UNCHANGED <<key, projects, vaultOf, binding, vaults, ready, readers, texts, withdrawn,
                   dropped, found, given, cards>>

\* project_vaults refers to the collection, and nothing deletes its row
Referenced(v) == \E p \in Project : vaultOf[p] = v

\* vault_delete: all of it or, when the last statement breaks a reference, nothing
VaultDelete(v) ==
    /\ v \in vaults
    /\ dropped' = dropped \cup {v}
    /\ IF Referenced(v)
       THEN UNCHANGED <<vaults, ready, readers, text>>
       ELSE /\ vaults' = vaults \ {v} /\ ready' = ready \ {v}
            /\ readers' = {r \in readers : r[1] # v} /\ text' = [text EXCEPT ![v] = 0]
    /\ UNCHANGED <<key, projects, vaultOf, binding, texts, withdrawn, found, given, cards>>

-----------------------------------------------------------------------------
\* vault_access, of a call that needs the documents
Access(d, v) == d \in Paired /\ <<v, d>> \in readers /\ v \in ready

\* vault_search, vault_list_documents
Search(d, v) ==
    /\ Access(d, v) /\ text[v] # 0
    /\ found' = [found EXCEPT ![d] = [vault |-> v, revision |-> text[v]]]
    /\ UNCHANGED <<key, projects, vaultOf, binding, collections, given, cards>>

\* a plausible bug: the document is given whatever it has become
SomeRevision(d) == text[found[d].vault] # 0

\* vault_read: the revision that was found is still the current one
CurrentRevision(d) == text[found[d].vault] = found[d].revision

Read(d) ==
    /\ found[d] # None /\ Access(d, found[d].vault)
    /\ CurrentRevision(d)
    /\ given' = [given EXCEPT ![d] = <<found[d].revision, text[found[d].vault]>>]
    /\ UNCHANGED <<key, projects, vaultOf, binding, collections, found, cards>>

Next ==
    \/ \E d \in Device : Pair(d) \/ Revoke(d) \/ Read(d)
    \/ \E p \in Project, c \in Contents, v \in Vault : ProjectCreate(p, c, v)
    \/ \E p \in Project, r \in Repo \cup {None} : ProjectSetRepository(p, r)
    \/ \E c \in Card : (\E p \in Project : AddCard(c, p)) \/ (\E p \in Card : SpawnChild(c, p))
    \/ \E v \in Vault : VaultCreate(v) \/ SetAvailable(v) \/ Put(v) \/ RemoveDocument(v)
    \/ \E v \in Vault : VaultDelete(v) \/ \E d \in Device : Search(d, v)
    \/ \E v \in Vault, d \in Device, allowed \in BOOLEAN : SetAccess(v, d, allowed)
    \/ ReconcileGrants

Spec == Init /\ [][Next]_vars

-----------------------------------------------------------------------------
\* A computer is given the text it has found, not one that was written since; a project keeps a
\* collection of its own; a family of tasks works in one repository, whatever the default of
\* their project has become since.
SharingSafe ==
    /\ \A d \in Device : given[d][1] = given[d][2]
    /\ \A p, q \in Project :
          /\ projects[p] # None => vaultOf[p] \in vaults
          /\ projects[p] # None /\ vaultOf[p] = vaultOf[q] => p = q
    /\ \A c \in Card : cards[c] # None => cards[c].repo = cards[cards[c].parent].repo

\* Refuted.  Deleting a collection is unconditional (vault.rs).
DeletedIsGone == dropped \cap vaults = {}

\* Refuted.  What the owner has withdrawn is not readable again before the owner allows it.
WithdrawnStays == withdrawn \cap readers = {}
=============================================================================
