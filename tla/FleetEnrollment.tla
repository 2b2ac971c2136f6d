-------------------------- MODULE FleetEnrollment --------------------------
(***************************************************************************)
(* How a computer gets into a private fleet: pairing and keys in           *)
(* local_hub/mod.rs, enrollment in local_hub/enrollment.rs of              *)
(* ohhive-core.                                                            *)
(*                                                                         *)
(* A computer pairs with a short code and gets a key; its owner then has   *)
(* the platform sign an assertion about a challenge that the hub gave out, *)
(* and the hub accepts the assertion once.  The first one configures the   *)
(* authority.  Everything but checking the signature is a transaction; the *)
(* trust that a signature is checked with is read in a transaction before  *)
(* the one that accepts it.  Cryptography is perfect: a right code, key or *)
(* signature is one that was given out.                                    *)
(***************************************************************************)
EXTENDS Naturals, FiniteSets

CONSTANTS
    Device,    \* nodes.id, given out by mint
    Account,   \* the accounts of the platform, each with its fleet
    Process,   \* processes on the computer of the hub that open the store
    None,
    Guesses,   \* the wrong guesses a code allows: 5
    MaxCodes,  \* bound: pairing codes made
    MaxNonce,  \* bound: challenges given out
    MaxSigned  \* bound: assertions signed

EnrollmentAssumption ==
    /\ None \notin Device \cup Account
    /\ Guesses \in Nat \ {0} /\ MaxCodes \in Nat /\ MaxNonce \in Nat /\ MaxSigned \in Nat

VARIABLES
    pairing,     \* the active code, how often it was missed and whether its time is over
    codes,       \* codes made so far
    minted,      \* the code each device was minted for; 0: none, by the owner
    nodes,       \* nodes and local_node_keys: the owner bound to a device, and its key
    selfKey,     \* HIVE_VAULT_SELF_KEY: the device of the hub's own computer
    opening,     \* the device a process has minted for itself and not saved yet
    authority,   \* private_fleet_authority: the account it was configured for
    challenge,   \* private_fleet_challenges by device
    nonces,      \* challenges given out so far
    signed,      \* assertions of the platform that have not expired
    verified,    \* assertions a call has verified and not submitted yet
    enrollments  \* private_fleet_enrollments

keys == <<pairing, codes, minted, nodes, selfKey, opening>>
enrolling == <<authority, challenge, nonces, signed, verified, enrollments>>
vars == <<keys, enrolling>>

NoCode == [code |-> 0, missed |-> 0, over |-> TRUE]
NoNode == [owner |-> None, key |-> "none"]
NoChallenge == [nonce |-> 0, over |-> TRUE]

Init ==
    /\ pairing = NoCode /\ codes = 0 /\ minted = [d \in Device |-> 0]
    /\ nodes = [d \in Device |-> NoNode] /\ selfKey = None
    /\ opening = [p \in Process |-> None]
    /\ authority = None /\ challenge = [d \in Device |-> NoChallenge] /\ nonces = 0
    /\ signed = {} /\ verified = {} /\ enrollments = {}

Known(d) == nodes[d].key # "none"

\* with_node: the key of a device that was not revoked
HasKey(d) == nodes[d].key = "good"

-----------------------------------------------------------------------------
\* mint
Mint(d, code) ==
    /\ ~ Known(d)
    /\ nodes' = [nodes EXCEPT ![d] = [owner |-> None, key |-> "good"]]
    /\ minted' = [minted EXCEPT ![d] = code]

\* pairing_code: a new code replaces the one before, its missed guesses included
PairingCode ==
    /\ codes < MaxCodes
    /\ codes' = codes + 1
    /\ pairing' = [code |-> codes + 1, missed |-> 0, over |-> FALSE]
    /\ UNCHANGED <<minted, nodes, selfKey, opening, enrolling>>

PairingExpires ==
    /\ ~ pairing.over
    /\ pairing' = [pairing EXCEPT !.over = TRUE]
    /\ UNCHANGED <<codes, minted, nodes, selfKey, opening, enrolling>>

\* redeem_pairing: the code is active and was not missed too often
Redeemable == pairing # NoCode /\ ~ pairing.over /\ pairing.missed < Guesses

\* a wrong guess is committed
RedeemMissed ==
    /\ Redeemable
    /\ pairing' = [pairing EXCEPT !.missed = @ + 1]
    /\ UNCHANGED <<codes, minted, nodes, selfKey, opening, enrolling>>

Redeem(d) ==
    /\ Redeemable
    /\ Mint(d, pairing.code)
    /\ pairing' = NoCode
    /\ UNCHANGED <<codes, selfKey, opening, enrolling>>

\* enroll_owner, from the command line
EnrollOwner(d) ==
    /\ Mint(d, 0)
    /\ UNCHANGED <<pairing, codes, selfKey, opening, enrolling>>

\* self_reader: no key is saved, one is minted ...
SelfMints(p, d) ==
    /\ opening[p] = None /\ selfKey = None
    /\ Mint(d, 0)
    /\ opening' = [opening EXCEPT ![p] = d]
    /\ UNCHANGED <<pairing, codes, selfKey, enrolling>>

\* ... and saved; or the process dies first
SelfSaves(p) ==
    /\ opening[p] # None
    /\ \/ selfKey' = opening[p]
       \/ UNCHANGED selfKey
    /\ opening' = [opening EXCEPT ![p] = None]
    /\ UNCHANGED <<pairing, codes, minted, nodes, enrolling>>

\* revoke
Revoke(d) ==
    /\ HasKey(d)
    /\ nodes' = [nodes EXCEPT ![d].key = "revoked"]
    /\ UNCHANGED <<pairing, codes, minted, selfKey, opening, enrolling>>

\* the binding of a device is immutable
MayBind(d, a) == Known(d) /\ nodes[d].owner \in {None, a}

\* set_node_owner
SetNodeOwner(d, a) ==
    /\ MayBind(d, a)
    /\ nodes' = [nodes EXCEPT ![d].owner = a]
    /\ UNCHANGED <<pairing, codes, minted, selfKey, opening, enrolling>>

-----------------------------------------------------------------------------
\* enrollment_challenge: replaces the challenge of the device
EnrollmentChallenge(d) ==
    /\ HasKey(d) /\ nonces < MaxNonce
    /\ nonces' = nonces + 1
    /\ challenge' = [challenge EXCEPT ![d] = [nonce |-> nonces + 1, over |-> FALSE]]
    /\ UNCHANGED <<keys, authority, signed, verified, enrollments>>

ChallengeExpires(d) ==
    /\ ~ challenge[d].over
    /\ challenge' = [challenge EXCEPT ![d].over = TRUE]
    /\ UNCHANGED <<keys, authority, nonces, signed, verified, enrollments>>

\* The platform signs what an account approves: a challenge it was shown, with a new assertion
\* id each time.  An account may approve a challenge twice, or two accounts the same.
Sign(a, d) ==
    /\ challenge[d].nonce # 0 /\ Cardinality(signed) < MaxSigned
    /\ \E id \in 1 .. MaxSigned :
          /\ id \notin {s.id : s \in signed} \cup {e.id : e \in enrollments}
          /\ signed' = signed \cup {[id |-> id, account |-> a, device |-> d,
                                     nonce |-> challenge[d].nonce]}
    /\ UNCHANGED <<keys, authority, challenge, nonces, verified, enrollments>>

\* the times in an assertion are over: neither check lets it through
AssertionExpires(s) ==
    /\ s \in signed
    /\ signed' = signed \ {s} /\ verified' = verified \ {s}
    /\ UNCHANGED <<keys, authority, challenge, nonces, enrollments>>

\* enrollment_complete: the trust is read and the assertion checked with it
CompleteVerifies(s) ==
    /\ s \in signed /\ HasKey(s.device) /\ authority # None
    /\ verified' = verified \cup {s}
    /\ UNCHANGED <<keys, authority, challenge, nonces, signed, enrollments>>

\* accept_enrollment: what it asks of the authority, first or not
RightFleet(s, first) == IF first THEN authority = None ELSE authority = s.account

\* the challenge is answered while it lasts
Answers(s) == challenge[s.device] = [nonce |-> s.nonce, over |-> FALSE]

\* a plausible bug: the challenge stays
UsedUpLater(d) == challenge

\* an accepted challenge is used up
UsedUp(d) == [challenge EXCEPT ![d] = NoChallenge]

AcceptEnrollment(s, first) ==
    /\ HasKey(s.device)
    /\ RightFleet(s, first)
    /\ Answers(s)
    /\ MayBind(s.device, s.account)
    /\ s.id \notin {e.id : e \in enrollments}
    /\ enrollments' = enrollments \cup {s}
    /\ nodes' = [nodes EXCEPT ![s.device].owner = s.account]
    /\ authority' = s.account
    /\ challenge' = UsedUp(s.device)
    /\ verified' = verified \ {s}
    /\ UNCHANGED <<pairing, codes, minted, selfKey, opening, nonces, signed>>

\* configure_private_fleet, by the owner at the computer of the hub
Configure == \E s \in signed : AcceptEnrollment(s, TRUE)
CompleteAccepts == \E s \in verified : AcceptEnrollment(s, FALSE)

Next ==
    \/ PairingCode \/ PairingExpires \/ RedeemMissed
    \/ \E d \in Device : Redeem(d) \/ EnrollOwner(d) \/ Revoke(d)
    \/ \E p \in Process : SelfSaves(p) \/ \E d \in Device : SelfMints(p, d)
    \/ \E d \in Device, a \in Account : SetNodeOwner(d, a) \/ Sign(a, d)
    \/ \E d \in Device : EnrollmentChallenge(d) \/ ChallengeExpires(d)
    \/ \E s \in signed : AssertionExpires(s) \/ CompleteVerifies(s)
    \/ Configure \/ CompleteAccepts

Spec == Init /\ [][Next]_vars

-----------------------------------------------------------------------------
\* Whoever is enrolled answered a challenge of its own that nobody answered before, and belongs
\* to the account the authority was configured for; a code made one device.
EnrolledProperly ==
    /\ \A e \in enrollments :
          /\ authority = e.account /\ nodes[e.device].owner = e.account
          /\ \A f \in enrollments : e.nonce = f.nonce \/ e.id = f.id => e = f
    /\ \A d, e \in Device : minted[d] = minted[e] /\ minted[d] # 0 => d = e

\* A device stays with its account and a fleet with its owner; a revoked key is not taken back
\* and enrolls nothing more, whatever was verified before it was revoked.
BoundForGood ==
    /\ authority # None => authority' = authority
    /\ \A d \in Device :
          /\ nodes[d].owner # None => nodes'[d].owner = nodes[d].owner
          /\ nodes[d].key = "revoked" =>
                /\ nodes'[d].key = "revoked"
                /\ \A e \in enrollments' : e.device = d => e \in enrollments

\* Enrollment: local_hub/enrollment.rs and the pairing of local_hub/mod.rs.
EnrollmentStep == BoundForGood /\ EnrolledProperly'
EnrollmentSafe == [][EnrollmentStep]_vars
=============================================================================
