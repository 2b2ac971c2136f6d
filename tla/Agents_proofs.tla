---------------------------- MODULE Agents_proofs ----------------------------
(*****************************************************************************)
(* Theorems about agents and the sessions they run in: first those about     *)
(* each part, then what the whole keeps.                                     *)
(*****************************************************************************)
EXTENDS Agents, FiniteSetTheorems, SequenceTheorems, WellFoundedInduction, TLAPS

(***************************************************************************)
(* The natural numbers are well ordered.                                   *)
(***************************************************************************)
LEMMA LessIsRelated == \A x, y \in Nat : x < y => <<x, y>> \in OpToRel(<, Nat)
  BY DEF OpToRel

\* A set of natural numbers that is not empty has a least element.
LEMMA NatLeast ==
    ASSUME NEW S \in SUBSET Nat, S # {}
    PROVE  \E m \in S : \A n \in S : m <= n
  <1>1. IsWellFoundedOn(OpToRel(<, Nat), Nat)
    BY NatLessThanWellFounded
  <1>2. PICK m \in S : \A n \in S : ~ (<<n, m>> \in OpToRel(<, Nat))
    BY <1>1, WFMin
  <1>3. \A n \in S : ~ (n < m)
    BY <1>2, LessIsRelated, Zenon
  <1>. QED BY <1>3

\* One that is bounded has a greatest one.
LEMMA NatGreatest ==
    ASSUME NEW b \in Nat, NEW S \in SUBSET (0 .. b), S # {}
    PROVE  \E m \in S : \A n \in S : n <= m
  <1> DEFINE T == {b - n : n \in S}
  <1>1. T \in SUBSET Nat /\ T # {}
    <2>1. \A n \in S : b - n \in Nat
      OBVIOUS
    <2>2. PICK n \in S : TRUE
      OBVIOUS
    <2>. QED BY <2>1, <2>2
  <1>2. PICK t \in T : \A u \in T : t <= u
    BY <1>1, NatLeast
  <1>3. PICK m \in S : t = b - m
    BY <1>2
  <1>4. \A n \in S : b - m <= b - n
    BY <1>2, <1>3
  <1>. QED BY <1>4

(***************************************************************************)
(* The broker.  Receipts tell what was done: their shots never go back,    *)
(* and one in doubt is the last.  An input about the latest observation    *)
(* has either used it up or left a doubt that only a newer one resolves.   *)
(***************************************************************************)
Acted(k) == journal[k].state # "Observed"

JournalInv ==
    /\ journal \in Seq([call : BrokerCall, shot : Nat, state : Broker!Receipt])
    /\ \A k \in 1 .. Len(journal) : journal[k].shot <= Len(shot)
    /\ \A k, l \in 1 .. Len(journal) : k <= l => journal[k].shot <= journal[l].shot
    /\ \A k \in 1 .. Len(journal) : journal[k].state = "Unknown" => k = Len(journal) /\ uncertain
    /\ \A k \in 1 .. Len(journal) :
         Acted(k) /\ journal[k].shot = Len(shot) => used = Len(shot) \/ uncertain

DoneInv ==
    /\ done \in Seq([call : BrokerCall, at : Nat, shot : Nat, revision : Nat, input : BOOLEAN])
    /\ \A i, j \in 1 .. Len(done) : done[i].call = done[j].call => i = j
    /\ \A i \in 1 .. Len(done) : \E k \in 1 .. Len(journal) :
         journal[k].call = done[i].call /\ journal[k].shot = done[i].shot /\ Acted(k)

FocusInv ==
    /\ focus \in Target \cup {None} /\ through \in Nat /\ moved \in Nat
    /\ focus # None => moved <= through

WorldInv ==
    /\ shot \in Seq(Target) /\ rule \in {"allow", "confirm", "deny"}
    /\ uncertain \in BOOLEAN /\ interrupted \in BOOLEAN /\ revision \in Nat
    /\ queue \subseteq [call : BrokerCall, at : Nat, shot : Nat, revision : Nat, input : BOOLEAN]
    /\ \A r \in queue : r.shot \in 1 .. Len(shot)

BrokerInv == WorldInv /\ JournalInv /\ DoneInv /\ FocusInv

LEMMA BrokerTypes ==
    ASSUME BrokerInv
    PROVE  /\ Len(journal) \in Nat /\ Len(shot) \in Nat /\ Len(done) \in Nat
           /\ \A k \in 1 .. Len(journal) :
                journal[k] \in [call : BrokerCall, shot : Nat, state : Broker!Receipt]
           /\ \A i \in 1 .. Len(done) :
                done[i] \in [call : BrokerCall, at : Nat, shot : Nat, revision : Nat, input : BOOLEAN]
           /\ \A i \in 1 .. Len(shot) : shot[i] \in Target
  BY ElementOfSeq, LenProperties DEF BrokerInv, JournalInv, WorldInv, DoneInv

\* An input that is accepted is one the person wants.
LEMMA AcceptedIsWanted ==
    ASSUME Broker!BrokerAssumption, BrokerInv, NEW r \in queue, r.input,
           Broker!Accepts(r), Broker!Decision(r) = "allow"
    PROVE  Broker!Wanted(r)
  <1>1. ~ uncertain /\ used # r.shot /\ r.shot = Len(shot) /\ Broker!InPlace(shot[r.shot], r.shot)
    BY DEF Broker!Accepts, Broker!Decision, Broker!Latest
  <1>2. r.shot \in Nat /\ r.shot \in 1 .. Len(shot) /\ shot[r.shot] \in Target
    BY <1>1 DEF BrokerInv, WorldInv
  <1>3. shot[r.shot] \notin revoked /\ shot[r.shot] = focus /\ r.shot > moved
    BY <1>1, <1>2 DEF Broker!InPlace, Broker!BrokerAssumption, BrokerInv, FocusInv
  <1>4. \A i \in 1 .. Len(done) : done[i].shot < r.shot
    <2> TAKE i \in 1 .. Len(done)
    <2>1. PICK k \in 1 .. Len(journal) : journal[k].shot = done[i].shot /\ Acted(k)
      BY DEF BrokerInv, DoneInv
    <2>2. journal[k].shot <= Len(shot) /\ journal[k].shot # Len(shot) /\ journal[k].shot \in Nat
      BY <1>1, <2>1, BrokerTypes DEF BrokerInv, JournalInv
    <2>. QED BY <1>1, <1>2, <2>1, <2>2
  <1>5. rule = "allow" \/ (rule = "confirm" /\ r \in consent)
    BY DEF Broker!Decision, BrokerInv, WorldInv
  <1>6. \A k \in 1 .. Len(journal) : journal[k].state # "Unknown"
    BY <1>1 DEF BrokerInv, JournalInv
  <1>. QED BY <1>3, <1>4, <1>5, <1>6 DEF Broker!Wanted

\* The receipt of what is carried out.
LEMMA ExecuteKeeps ==
    ASSUME Broker!BrokerAssumption, BrokerInv, NEW r \in queue, Broker!Execute(r)
    PROVE  BrokerInv'
  <1> DEFINE n == Len(journal)
             m == Len(done)
             s == Len(shot)
  <1>1. PICK how \in {"Applied", "Unknown", "Observed"}, reached \in BOOLEAN :
          /\ how = "Observed" => ~ reached
          /\ how = "Applied" => reached
          /\ journal' = Append(journal, [call |-> r.call, shot |-> r.shot, state |-> how])
          /\ uncertain' = (how = "Unknown")
          /\ used' = IF how = "Applied" THEN r.shot ELSE used
          /\ done' = IF reached THEN Append(done, r) ELSE done
    BY DEF Broker!Execute
  <1>2. /\ ~ uncertain /\ r.call \notin Broker!Consumed /\ r.shot = s
        /\ UNCHANGED <<focus, through, interrupted, moved, shot, rule, revision, queue>>
    BY DEF Broker!Execute, Broker!Accepts, Broker!Decision, Broker!Latest, Broker!world
  <1>3. /\ r \in [call : BrokerCall, at : Nat, shot : Nat, revision : Nat, input : BOOLEAN]
        /\ n \in Nat /\ m \in Nat /\ s \in Nat
    BY BrokerTypes DEF BrokerInv, WorldInv
  <1> DEFINE e == [call |-> r.call, shot |-> r.shot, state |-> how]
  <1>4. e \in [call : BrokerCall, shot : Nat, state : Broker!Receipt]
    BY <1>3 DEF Broker!Receipt
  <1>5. /\ journal' \in Seq([call : BrokerCall, shot : Nat, state : Broker!Receipt]) /\ Len(journal') = n + 1
        /\ journal'[n + 1] = e /\ \A k \in 1 .. n : journal'[k] = journal[k]
    BY <1>1, <1>4 DEF BrokerInv, JournalInv
  <1>6. e.call = r.call /\ e.shot = s /\ e.state = how
    BY <1>2
  <1> HIDE DEF e, n, m, s
  <1>7. \A k \in 1 .. n : journal[k].shot \in Nat /\ journal[k].shot <= s /\ journal[k].state # "Unknown"
    BY <1>2, BrokerTypes DEF BrokerInv, JournalInv, n, s
  <1>8. JournalInv'
    <2>1. \A k \in 1 .. n + 1 : k = n + 1 \/ k \in 1 .. n
      BY <1>3
    <2>2. \A k \in 1 .. n + 1 : journal'[k].shot <= s
      BY <1>3, <1>5, <1>6, <1>7, <2>1
    <2>3. \A k, l \in 1 .. n + 1 : k <= l => journal'[k].shot <= journal'[l].shot
      <3> SUFFICES ASSUME NEW k \in 1 .. n + 1, NEW l \in 1 .. n + 1, k <= l
                   PROVE  journal'[k].shot <= journal'[l].shot
        OBVIOUS
      <3>1. CASE l = n + 1
        BY <3>1, <1>5, <1>6, <2>2
      <3>2. CASE l # n + 1
        <4>1. k \in 1 .. n /\ l \in 1 .. n
          BY <1>3, <3>2
        <4>. QED BY <1>5, <4>1 DEF BrokerInv, JournalInv, n
      <3>. QED BY <3>1, <3>2
    <2>4. \A k \in 1 .. n + 1 : journal'[k].state = "Unknown" => k = n + 1 /\ uncertain'
      BY <1>1, <1>5, <1>6, <1>7, <2>1
    <2>5. ASSUME NEW k \in 1 .. n + 1, journal'[k].state # "Observed", journal'[k].shot = s
          PROVE  used' = s \/ uncertain'
      <3>1. CASE how = "Unknown"
        BY <3>1, <1>1
      <3>2. CASE how = "Applied"
        BY <3>2, <1>1, <1>2
      <3>3. CASE how = "Observed"
        <4>1. k \in 1 .. n /\ journal'[k] = journal[k]
          BY <3>3, <1>5, <1>6, <2>1, <2>5
        <4>2. used = s
          BY <4>1, <1>2, <2>5 DEF BrokerInv, JournalInv, Acted, n, s
        <4>. QED BY <3>3, <4>2, <1>1
      <3>. QED BY <3>1, <3>2, <3>3
    <2>6. Len(shot') = s
      BY <1>2 DEF s
    <2>. QED BY <1>5, <2>2, <2>3, <2>4, <2>5, <2>6 DEF JournalInv, Acted
  <1>9. DoneInv'
    <2>1. \A i \in 1 .. m : \E k \in 1 .. n + 1 :
            journal'[k].call = done[i].call /\ journal'[k].shot = done[i].shot /\ journal'[k].state # "Observed"
      <3> TAKE i \in 1 .. m
      <3>1. PICK k \in 1 .. n : journal[k].call = done[i].call /\ journal[k].shot = done[i].shot /\ Acted(k)
        BY DEF BrokerInv, DoneInv, n, m
      <3>2. k \in 1 .. n + 1
        BY <1>3
      <3>. QED BY <3>1, <3>2, <1>5 DEF Acted
    <2>2. CASE ~ reached
      <3>1. done' = done
        BY <1>1, <2>2
      <3>. QED BY <1>5, <2>1, <3>1 DEF DoneInv, BrokerInv, Acted, m
    <2>3. CASE reached
      <3>1. done' = Append(done, r)
        BY <1>1, <2>3
      <3>2. /\ done' \in Seq([call : BrokerCall, at : Nat, shot : Nat, revision : Nat, input : BOOLEAN])
            /\ Len(done') = m + 1 /\ done'[m + 1] = r /\ \A i \in 1 .. m : done'[i] = done[i]
        BY <1>3, <3>1 DEF BrokerInv, DoneInv, m
      <3>3. \A i \in 1 .. m : done[i].call # r.call
        <4> TAKE i \in 1 .. m
        <4>1. PICK k \in 1 .. n : journal[k].call = done[i].call
          BY DEF BrokerInv, DoneInv, n, m
        <4>. QED BY <4>1, <1>2 DEF Broker!Consumed, n
      <3>4. \A i \in 1 .. m + 1 : i = m + 1 \/ i \in 1 .. m
        BY <1>3
      <3>5. \A i, j \in 1 .. m + 1 : done'[i].call = done'[j].call => i = j
        <4> TAKE i, j \in 1 .. m + 1
        <4>1. CASE i \in 1 .. m /\ j \in 1 .. m
          BY <4>1, <3>2 DEF BrokerInv, DoneInv, m
        <4>2. CASE i = m + 1 \/ j = m + 1
          BY <4>2, <3>2, <3>3, <3>4
        <4>. QED BY <4>1, <4>2, <3>4
      <3>6. ASSUME NEW i \in 1 .. m + 1
            PROVE  \E k \in 1 .. n + 1 : journal'[k].call = done'[i].call
                     /\ journal'[k].shot = done'[i].shot /\ journal'[k].state # "Observed"
        <4>1. CASE i \in 1 .. m
          BY <4>1, <2>1, <3>2
        <4>2. CASE i = m + 1
          <5>1. n + 1 \in 1 .. n + 1
            BY <1>3
          <5>. QED BY <4>2, <5>1, <1>1, <1>2, <1>5, <1>6, <2>3, <3>2
        <4>. QED BY <4>1, <4>2, <3>4
      <3>. QED BY <1>5, <3>2, <3>5, <3>6 DEF DoneInv, Acted
    <2>. QED BY <2>2, <2>3
  <1>10. uncertain' \in BOOLEAN
    BY <1>1
  <1>. QED BY <1>2, <1>8, <1>9, <1>10 DEF BrokerInv, WorldInv, FocusInv

\* A restart finds the last input in the journal.
LEMMA RecoverKeeps ==
    ASSUME Broker!BrokerAssumption, BrokerInv, Broker!Recover
    PROVE  BrokerInv'
  <1> DEFINE acts == {i \in 1 .. Len(journal) : journal[i].state # "Observed"}
             last == CHOOSE i \in acts : \A j \in acts : j <= i
  <1>1. /\ UNCHANGED <<journal, shot, done, moved, rule, revision, queue>>
        /\ focus' = None /\ through' = 0 /\ interrupted' = TRUE /\ uncertain' = Broker!Unknown(journal)
        /\ used' = IF acts = {} THEN 0 ELSE journal[last].shot
    BY DEF Broker!Recover, Broker!world
  <1>2. acts # {} => last \in acts /\ \A j \in acts : j <= last
    <2> SUFFICES ASSUME acts # {} PROVE \E i \in acts : \A j \in acts : j <= i
      OBVIOUS
    <2>1. acts \in SUBSET (0 .. Len(journal)) /\ Len(journal) \in Nat
      BY BrokerTypes
    <2>. QED BY <2>1, NatGreatest
  <1> HIDE DEF last
  <1>3. ASSUME NEW k \in 1 .. Len(journal), Acted(k), journal[k].shot = Len(shot)
        PROVE  used' = Len(shot)
    <2>1. k \in acts
      BY <1>3 DEF Acted
    <2>2. last \in 1 .. Len(journal) /\ k <= last /\ used' = journal[last].shot
      BY <1>1, <1>2, <2>1
    <2>3. journal[k].shot <= journal[last].shot /\ journal[last].shot <= Len(shot)
      BY <2>2 DEF BrokerInv, JournalInv
    <2>. QED BY <1>3, <2>2, <2>3, BrokerTypes
  <1>4. ASSUME NEW k \in 1 .. Len(journal), journal[k].state = "Unknown"
        PROVE  k = Len(journal) /\ uncertain'
    <2>1. k = Len(journal)
      BY <1>4 DEF BrokerInv, JournalInv
    <2>2. journal # <<>>
      BY <1>4
    <2>. QED BY <1>1, <1>4, <2>1, <2>2 DEF Broker!Unknown
  <1>5. uncertain' \in BOOLEAN
    BY <1>1 DEF Broker!Unknown
  <1>6. JournalInv'
    BY <1>1, <1>3, <1>4 DEF BrokerInv, JournalInv, Acted
  <1>. QED BY <1>1, <1>5, <1>6 DEF BrokerInv, WorldInv, DoneInv, FocusInv, Acted

\* A review settles the receipt in doubt; what follows is about a newer observation.
LEMMA ResumeKeeps ==
    ASSUME Broker!BrokerAssumption, BrokerInv,
           NEW finding \in {"ReviewedApplied", "ReviewedNotApplied"}, Broker!Resume(finding)
    PROVE  BrokerInv'
  <1> DEFINE n == Len(journal)
  <1>1. /\ UNCHANGED <<focus, through, used, shot, moved, rule, revision, queue, done>>
        /\ interrupted' = FALSE /\ uncertain' = FALSE
    BY DEF Broker!Resume, Broker!world
  <1>2. /\ n \in Nat /\ Len(shot) \in Nat
        /\ journal \in Seq([call : BrokerCall, shot : Nat, state : Broker!Receipt])
        /\ \A k \in 1 .. n : journal[k] \in [call : BrokerCall, shot : Nat, state : Broker!Receipt]
    BY BrokerTypes DEF BrokerInv, JournalInv
  <1>3. CASE ~ uncertain
    <2>1. journal' = journal
      BY <1>3 DEF Broker!Resume
    <2>. QED BY <1>1, <1>3, <2>1 DEF BrokerInv, WorldInv, JournalInv, DoneInv, FocusInv, Acted
  <1>4. CASE uncertain
    <2>1. /\ journal # <<>> /\ journal[n].state = "Unknown"
          /\ journal' = [journal EXCEPT ![n].state = finding]
          /\ Len(shot) > journal[n].shot
      BY <1>4 DEF Broker!Resume, Broker!Unknown, Broker!Latest
    <2>2. n \in 1 .. n
      BY <1>2, <2>1, EmptySeq
    <2>3. /\ Len(journal') = n
          /\ journal'[n] = [journal[n] EXCEPT !.state = finding]
          /\ \A k \in 1 .. n : k # n => journal'[k] = journal[k]
      BY <1>2, <2>1, <2>2
    <2>4. [journal[n] EXCEPT !.state = finding] \in [call : BrokerCall, shot : Nat, state : Broker!Receipt]
      BY <1>2, <2>2 DEF Broker!Receipt
    <2>5. journal' \in Seq([call : BrokerCall, shot : Nat, state : Broker!Receipt])
      BY <1>2, <2>1, <2>2, <2>4, ExceptSeq
    <2>6. \A k \in 1 .. n :
            /\ journal'[k].call = journal[k].call /\ journal'[k].shot = journal[k].shot
            /\ journal'[k].state = IF k = n THEN finding ELSE journal[k].state
      BY <1>2, <2>2, <2>3
    <2>7. \A k \in 1 .. n : journal[k].shot < Len(shot) /\ (journal[k].state = "Unknown" => k = n)
      BY <1>2, <2>1, <2>2 DEF BrokerInv, JournalInv
    <2>8. JournalInv'
      <3>1. \A k \in 1 .. n : journal'[k].state # "Unknown"
        BY <2>6, <2>7
      <3>2. \A k \in 1 .. n : journal'[k].shot <= Len(shot) /\ journal'[k].shot # Len(shot)
        BY <1>2, <2>6, <2>7
      <3>3. \A k, l \in 1 .. n : k <= l => journal'[k].shot <= journal'[l].shot
        BY <2>6 DEF BrokerInv, JournalInv
      <3>. QED BY <1>1, <2>3, <2>5, <3>1, <3>2, <3>3 DEF JournalInv
    <2>9. DoneInv'
      <3>1. \A i \in 1 .. Len(done) : \E k \in 1 .. n :
              journal'[k].call = done[i].call /\ journal'[k].shot = done[i].shot
              /\ journal'[k].state # "Observed"
        <4> TAKE i \in 1 .. Len(done)
        <4>1. PICK k \in 1 .. n :
                journal[k].call = done[i].call /\ journal[k].shot = done[i].shot /\ Acted(k)
          BY DEF BrokerInv, DoneInv
        <4>. QED BY <2>6, <4>1 DEF Acted
      <3>. QED BY <1>1, <2>3, <3>1 DEF BrokerInv, DoneInv, Acted
    <2>. QED BY <1>1, <2>8, <2>9 DEF BrokerInv, WorldInv, FocusInv
  <1>. QED BY <1>3, <1>4

LEMMA BrokerStays ==
    ASSUME Broker!BrokerAssumption, BrokerInv, [Broker!Next]_(Broker!vars)
    PROVE  BrokerInv'
  <1>1. ASSUME NEW t \in Target, Broker!Look(t) PROVE BrokerInv'
    <2>1. shot' \in Seq(Target) /\ Len(shot') = Len(shot) + 1 /\ Len(shot) \in Nat
      BY <1>1 DEF Broker!Look, BrokerInv, WorldInv
    <2>2. UNCHANGED <<focus, through, moved, revoked, interrupted, uncertain, used, journal, rule, revision, queue, done>>
      BY <1>1 DEF Broker!Look, Broker!broker
    <2>3. WorldInv'
      BY <2>1, <2>2 DEF BrokerInv, WorldInv
    <2>4. \A k \in 1 .. Len(journal) : journal[k].shot \in Nat
      BY BrokerTypes
    <2>5. JournalInv'
      BY <2>1, <2>2, <2>4, SMTT(60) DEF BrokerInv, JournalInv, Acted
    <2>. QED BY <2>2, <2>3, <2>5 DEF BrokerInv, DoneInv, FocusInv, Acted
  <1>2. ASSUME NEW c \in BrokerCall, NEW input \in BOOLEAN, Broker!Propose(c, input) PROVE BrokerInv'
    <2> DEFINE r == [call |-> c, at |-> Len(journal), shot |-> Len(shot), revision |-> revision, input |-> input]
    <2>1. UNCHANGED <<focus, through, moved, interrupted, uncertain, used, journal, rule, revision, shot, done>>
      BY <1>2 DEF Broker!Propose, Broker!broker
    <2>2. queue' = queue \cup {r} /\ Len(shot) > 0
      BY <1>2 DEF Broker!Propose, Broker!Latest
    <2>3. r \in [call : BrokerCall, at : Nat, shot : Nat, revision : Nat, input : BOOLEAN]
          /\ r.shot \in 1 .. Len(shot)
      BY <2>2, BrokerTypes DEF BrokerInv, WorldInv
    <2> HIDE DEF r
    <2>4. WorldInv'
      BY <2>1, <2>2, <2>3 DEF BrokerInv, WorldInv
    <2>. QED BY <2>1, <2>4 DEF BrokerInv, JournalInv, DoneInv, FocusInv, Acted
  <1>3. ASSUME NEW t \in Target \cup {None}, Broker!ChangeFocus(t) PROVE BrokerInv'
    <2>1. UNCHANGED <<interrupted, uncertain, used, journal, rule, revision, shot, queue, done>>
      BY <1>3 DEF Broker!ChangeFocus, Broker!world
    <2>2. FocusInv'
      BY <1>3, BrokerTypes DEF Broker!ChangeFocus, Broker!Latest, BrokerInv, FocusInv
    <2>. QED BY <2>1, <2>2 DEF BrokerInv, JournalInv, DoneInv, WorldInv, Acted
  <1>4. ASSUME NEW to \in {"allow", "deny"}, Broker!SetRule(to) PROVE BrokerInv'
    <2>1. UNCHANGED <<focus, through, moved, interrupted, uncertain, used, journal, shot, queue, done>>
          /\ revision' = revision + 1 /\ rule' = to
      BY <1>4 DEF Broker!SetRule, Broker!broker
    <2>2. WorldInv'
      BY <2>1 DEF BrokerInv, WorldInv
    <2>. QED BY <2>1, <2>2 DEF BrokerInv, JournalInv, DoneInv, FocusInv, Acted
  <1>5. ASSUME \/ \E t \in Target : Broker!Revoke(t)
               \/ \E r \in queue : Broker!Consent(r)
               \/ Broker!Expire \/ Broker!Interrupt \/ UNCHANGED Broker!vars
        PROVE BrokerInv'
    <2>1. UNCHANGED <<focus, through, moved, uncertain, used, journal, shot, rule, revision, queue, done>>
      BY <1>5 DEF Broker!Revoke, Broker!Consent, Broker!Expire, Broker!Interrupt, Broker!vars, Broker!broker, Broker!world
    <2>2. interrupted' \in BOOLEAN
      BY <1>5, Zenon DEF Broker!Revoke, Broker!Consent, Broker!Expire, Broker!Interrupt, Broker!vars, Broker!broker, BrokerInv, WorldInv
    <2>. QED BY <2>1, <2>2 DEF BrokerInv, WorldInv, JournalInv, DoneInv, FocusInv, Acted
  <1>. QED BY <1>1, <1>2, <1>3, <1>4, <1>5, ExecuteKeeps, RecoverKeeps, ResumeKeeps DEF Broker!Next

\* Restarts, lost receipts and stale proposals included: an input reaches the
\* window the person is in and wants it in, once, and there is a receipt of it.
THEOREM BrokerObeys ==
    ASSUME Broker!BrokerAssumption PROVE Broker!Spec => Broker!BrokerSafe
  <1>1. Broker!Init => BrokerInv
    <2> SUFFICES ASSUME Broker!Init PROVE BrokerInv
      OBVIOUS
    <2>1. uncertain \in BOOLEAN /\ interrupted \in BOOLEAN
      BY Zenon DEF Broker!Init
    <2>. QED BY <2>1 DEF Broker!Init, BrokerInv, WorldInv, JournalInv, DoneInv, FocusInv
  <1>2. BrokerInv /\ BrokerInv' /\ [Broker!Next]_(Broker!vars) => [Broker!BrokerStep]_(Broker!vars)
    <2> SUFFICES ASSUME BrokerInv, BrokerInv', Broker!Next PROVE Broker!BrokerStep
      OBVIOUS
    <2>1. Broker!NothingTwice'
      BY DEF BrokerInv, DoneInv, Broker!NothingTwice, Acted
    <2>2. ASSUME NEW r \in queue, done' = Append(done, r) PROVE Broker!Wanted(r)
      <3>1. Len(done) \in Nat /\ Len(done') = Len(done) + 1
            /\ r \in [call : BrokerCall, at : Nat, shot : Nat, revision : Nat, input : BOOLEAN]
            /\ done'[Len(done) + 1] = r
        BY <2>2, BrokerTypes DEF BrokerInv, WorldInv, DoneInv
      <3>2. done' # done
        BY <3>1
      <3>3. PICK x \in queue : Broker!Execute(x)
        BY <3>2 DEF Broker!Next, Broker!Look, Broker!Propose, Broker!Consent, Broker!SetRule, Broker!Expire,
             Broker!ChangeFocus, Broker!Revoke, Broker!Interrupt, Broker!Recover, Broker!Resume
      <3>4. x.input /\ done' = Append(done, x)
        BY <3>2, <3>3 DEF Broker!Execute
      <3>5. x = r
        <4>1. x \in [call : BrokerCall, at : Nat, shot : Nat, revision : Nat, input : BOOLEAN]
          BY DEF BrokerInv, WorldInv
        <4>2. done'[Len(done) + 1] = x
          BY <3>4, <4>1, BrokerTypes DEF BrokerInv, DoneInv
        <4>. QED BY <3>1, <4>2
      <3>. QED BY <3>3, <3>4, <3>5, AcceptedIsWanted DEF Broker!Execute
    <2>. QED BY <2>1, <2>2 DEF Broker!BrokerStep
  <1>. QED BY <1>1, <1>2, BrokerStays, PTL DEF Broker!Spec, Broker!BrokerSafe

\* Beside everything else agents do, the desktop broker applies an input to the focused
\* window only, under the rule and revision it was proposed for, once, and journals it
\* before and after.
THEOREM AgentsAreBrokered == Spec => BrokerSafe
  <1>1. Init => Broker!Init
    BY DEF Init
  <1>2. [Next]_vars => [Broker!Next]_(Broker!vars)
    <2>1. UNCHANGED desktopVars => UNCHANGED Broker!vars
      BY DEF desktopVars, Broker!vars, Broker!broker, Broker!world
    <2>2. Next => Broker!Next \/ UNCHANGED desktopVars
      BY DEF Next
    <2>3. UNCHANGED vars => UNCHANGED desktopVars
      BY DEF vars
    <2>. QED BY <2>1, <2>2, <2>3
  <1>3. [Broker!BrokerStep]_(Broker!vars) => [moving = "desktop" => Broker!BrokerStep]_desktopVars
    <2>1. UNCHANGED Broker!vars => UNCHANGED desktopVars
      BY DEF desktopVars, Broker!vars, Broker!broker, Broker!world
    <2>. QED BY <2>1
  <1>. QED BY <1>1, <1>2, BrokerAssumed, <1>3, BrokerObeys, PTL DEF Spec, Broker!Spec, BrokerSafe, Broker!BrokerSafe

(***************************************************************************)
(* The account.  While an attempt is pending no other one is open, and its *)
(* end is an event that says which account was stored; a process that is   *)
(* gone leaves no attempt.                                                 *)
(***************************************************************************)
Event == [login : 0 .. accountAttempts, success : BOOLEAN]
Actions == {"connect", "device", "status", "cancel", "disconnect"}
Steps == {"none", "start", "started", "refused", "login", "read", "cancel", "logout", "confirm"}

AccountTypes ==
    /\ accountAttempts \in Nat /\ pending \in 0 .. accountAttempts /\ active \in 0 .. accountAttempts /\ stored \in 0 .. accountAttempts
    /\ emitted \in Event /\ completion \in Event
    /\ doing \in [act : Actions \cup {"none"}, at : Steps]

\* an event of the pending attempt
Tells(e) == pending # 0 /\ e.login = pending => active = 0 /\ (e.success => stored = pending)

Processes ==
    /\ ~ accountProc => active = 0 /\ pending = 0 /\ emitted = Chatgpt!NoEvent
    /\ doing.at = "start" => ~ accountProc
    /\ doing.at \notin {"none", "start"} => accountProc
    /\ doing.at \in {"start", "started"} => doing.act \in Actions
    /\ doing.at \in {"cancel", "logout", "confirm"} => pending = 0 /\ state # "connected"
    /\ pending # 0 => active \in {0, pending}

AccountInv == AccountTypes /\ Processes /\ Tells(emitted) /\ Tells(completion) /\ Chatgpt!ShownIsStored

\* The steps of an action before its first request start nothing and end nothing.
LEMMA AccountActs ==
    ASSUME AccountInv, NEW act \in Actions, accountProc,
           doing.at \notin {"cancel", "logout", "confirm"}, Chatgpt!Acts(act),
           UNCHANGED <<accountProc, accountAttempts, stored, active, emitted>>
    PROVE  AccountInv'
  <1> USE DEF AccountInv
  <1>1. /\ completion' \in {completion, Chatgpt!NoEvent} /\ pending' \in {0, pending}
        /\ doing' \in [act : Actions \cup {"none"}, at : {"none", "refused", "login", "read", "cancel", "logout"}]
        /\ doing'.at \in {"cancel", "logout"} => pending' = 0 /\ state' # "connected"
        /\ (<<state, shown>>' = <<state, shown>> /\ pending' = pending) \/ state' # "connected"
    BY DEF Chatgpt!Acts, Chatgpt!Done, Chatgpt!Free, Chatgpt!Shows, Chatgpt!status, Actions
  <1>2. AccountTypes'
    <2>1. doing' \in [act : Actions \cup {"none"}, at : Steps]
      BY <1>1 DEF Steps
    <2>2. Chatgpt!NoEvent \in Event
      BY DEF AccountTypes, Event, Chatgpt!NoEvent
    <2>3. completion' \in Event /\ Event' = Event
      BY <1>1, <2>2 DEF AccountTypes, Event
    <2>4. pending' \in 0 .. accountAttempts
      BY <1>1 DEF AccountTypes
    <2>. QED BY <2>1, <2>3, <2>4 DEF AccountTypes
  <1>3. Processes'
    BY <1>1 DEF Processes
  <1>4. Tells(emitted)' /\ Tells(completion)'
    BY <1>1 DEF Tells, Chatgpt!NoEvent
  <1>5. Chatgpt!ShownIsStored'
    BY <1>1 DEF Chatgpt!ShownIsStored
  <1>. QED BY <1>2, <1>3, <1>4, <1>5

LEMMA AccountStep ==
    ASSUME AccountInv, [Chatgpt!Next]_(Chatgpt!vars)
    PROVE  AccountInv'
  <1> USE DEF AccountInv
  <1>1. ASSUME NEW act \in Actions, Chatgpt!Action(act)
        PROVE  AccountInv'
    <2>1. doing.at = "none"
      BY <1>1 DEF Chatgpt!Action, Chatgpt!Free
    <2>2. CASE accountProc
      BY <1>1, <2>1, <2>2, AccountActs DEF Chatgpt!Action, Chatgpt!runtime
    <2>3. CASE ~ accountProc
      <3>1. /\ doing' = [act |-> act, at |-> "start"]
            /\ UNCHANGED <<state, shown, pending, completion, accountProc, accountAttempts, stored, active, emitted>>
        BY <1>1, <2>3 DEF Chatgpt!Action, Chatgpt!status, Chatgpt!runtime
      <3>. QED BY <2>3, <3>1 DEF AccountTypes, Event, Steps, Processes, Tells, Chatgpt!ShownIsStored
    <2>. QED BY <2>2, <2>3
  <1>2. CASE Chatgpt!Resumed
    BY <1>2, AccountActs DEF Chatgpt!Resumed, Chatgpt!Waits, Chatgpt!runtime, Processes
  <1>3. CASE Chatgpt!Started
    <2>1. /\ doing.at = "start" /\ accountProc' = TRUE /\ pending' = 0 /\ completion' = Chatgpt!NoEvent
          /\ doing' = [doing EXCEPT !.at = "started"] /\ shown' = stored /\ (state' = "connected" => stored # 0)
          /\ UNCHANGED <<accountAttempts, stored, active, emitted>>
      BY <1>3 DEF Chatgpt!Started, Chatgpt!Waits, Chatgpt!Shows, Chatgpt!Asks, Chatgpt!runtime
    <2>2. ~ accountProc /\ active = 0
      BY <2>1 DEF Processes
    <2>3. AccountTypes' /\ Tells(emitted)' /\ Tells(completion)' /\ Chatgpt!ShownIsStored'
      BY <2>1, <2>2 DEF AccountTypes, Event, Steps, Chatgpt!NoEvent, Tells, Chatgpt!ShownIsStored
    <2>. QED BY <2>1, <2>2, <2>3 DEF Processes, AccountTypes
  <1>4. CASE Chatgpt!LoginStarts
    <2>1. /\ doing.at = "login" /\ accountAttempts' = accountAttempts + 1 /\ active' = accountAttempts + 1 /\ pending' = accountAttempts + 1
          /\ state' = "signing_in" /\ doing' = Chatgpt!Free /\ completion' \in {emitted, completion}
          /\ emitted' = Chatgpt!NoEvent /\ UNCHANGED <<accountProc, stored>>
      BY <1>4 DEF Chatgpt!LoginStarts, Chatgpt!Waits, Chatgpt!Shows, Chatgpt!Done
    <2>2. AccountTypes'
      BY <2>1 DEF AccountTypes, Event, Steps, Chatgpt!NoEvent, Chatgpt!Free
    <2>3. Processes' /\ Chatgpt!ShownIsStored'
      BY <2>1 DEF Processes, Chatgpt!ShownIsStored, Chatgpt!Free
    <2>4. Tells(emitted)' /\ Tells(completion)'
      BY <2>1 DEF AccountTypes, Event, Tells, Chatgpt!NoEvent
    <2>. QED BY <2>2, <2>3, <2>4
  <1>5. CASE Chatgpt!Refreshed \/ Chatgpt!RefreshOverdue \/ Chatgpt!CancelServed \/ Chatgpt!LogoutServed \/ Chatgpt!LogoutConfirmed
    <2>1. /\ completion' \in {emitted, completion} /\ emitted' = Chatgpt!NoEvent
          /\ accountAttempts' = accountAttempts /\ accountProc' = accountProc /\ accountProc
      BY <1>5 DEF Chatgpt!Refreshed, Chatgpt!RefreshOverdue, Chatgpt!CancelServed, Chatgpt!LogoutServed,
         Chatgpt!LogoutConfirmed, Chatgpt!Reads, Chatgpt!Waits, Processes
    <2>2. Tells(completion')
      BY <2>1 DEF Tells
    <2>3. CASE Chatgpt!Refreshed
      <3>1. doing.at = "read" /\ doing' = Chatgpt!Free /\ UNCHANGED <<stored, active>>
        BY <2>3 DEF Chatgpt!Refreshed, Chatgpt!Waits, Chatgpt!Done
      <3>2. \/ pending' = pending /\ state' = state /\ shown' = shown
            \/ pending' = 0 /\ state' = "connected" /\ shown' = stored /\ stored # 0 /\ active = 0
            \/ pending' = 0 /\ state = "connected" /\ shown' = stored /\ (state' = "connected" => stored # 0)
        BY <2>3, <2>2 DEF Chatgpt!Refreshed, Chatgpt!Shows, Chatgpt!status, Chatgpt!Finishes, Tells
      <3>. QED BY <2>1, <2>2, <3>1, <3>2
           DEF AccountTypes, Event, Steps, Chatgpt!NoEvent, Chatgpt!Free, Processes, Tells, Chatgpt!ShownIsStored
    <2>4. CASE Chatgpt!RefreshOverdue \/ Chatgpt!CancelServed \/ Chatgpt!LogoutServed \/ Chatgpt!LogoutConfirmed
      <3>1. /\ pending' = 0 /\ state' # "connected" /\ active' \in {0, active} /\ stored' \in {0, stored}
            /\ \/ doing' = Chatgpt!Free
               \/ \E at \in {"cancel", "logout", "confirm"} : doing' = [doing EXCEPT !.at = at]
        BY <2>4 DEF Chatgpt!RefreshOverdue, Chatgpt!CancelServed, Chatgpt!LogoutServed, Chatgpt!LogoutConfirmed,
           Chatgpt!Waits, Chatgpt!Asks, Chatgpt!Done, Chatgpt!Shows, Chatgpt!status, Processes
      <3>2. AccountTypes'
        BY <2>1, <3>1 DEF AccountTypes, Event, Steps, Chatgpt!NoEvent, Chatgpt!Free
      <3>3. Processes' /\ Tells(emitted)' /\ Tells(completion)' /\ Chatgpt!ShownIsStored'
        BY <2>1, <3>1 DEF AccountTypes, Chatgpt!Free, Processes, Tells, Chatgpt!ShownIsStored
      <3>. QED BY <3>2, <3>3
    <2>. QED BY <1>5, <2>3, <2>4
  <1>6. CASE Chatgpt!Fail
    <2>1. /\ doing' = Chatgpt!Free /\ accountProc' = FALSE /\ pending' = 0 /\ state' = "error" /\ active' = 0
          /\ emitted' = Chatgpt!NoEvent /\ completion' = Chatgpt!NoEvent /\ UNCHANGED <<accountAttempts, stored>>
      BY <1>6 DEF Chatgpt!Fail, Chatgpt!Done, Chatgpt!Shows
    <2>. QED BY <2>1 DEF AccountTypes, Event, Steps, Chatgpt!NoEvent, Chatgpt!Free, Processes, Tells, Chatgpt!ShownIsStored
  <1>7. ASSUME NEW ok \in BOOLEAN, Chatgpt!BrowserEnds(ok)
        PROVE  AccountInv'
    <2>1. /\ active # 0 /\ active' = 0 /\ emitted' = [login |-> active, success |-> ok]
          /\ stored' \in {stored, active} /\ (ok => stored' = active)
          /\ UNCHANGED <<accountProc, state, shown, pending, completion, doing, accountAttempts>>
      BY <1>7 DEF Chatgpt!BrowserEnds, Chatgpt!status
    <2>2. accountProc /\ (pending # 0 => active = pending) /\ state # "connected"
      BY <2>1 DEF Processes, Chatgpt!ShownIsStored
    <2>3. AccountTypes'
      BY <2>1 DEF AccountTypes, Event
    <2>4. Processes' /\ Chatgpt!ShownIsStored'
      BY <2>1, <2>2 DEF Processes, Chatgpt!ShownIsStored
    <2>5. Tells(emitted)'
      BY <2>1, <2>2 DEF Tells
    <2>6. Tells(completion)'
      BY <2>1, <2>2 DEF Tells
    <2>. QED BY <2>3, <2>4, <2>5, <2>6
  <1>8. CASE UNCHANGED Chatgpt!vars
    BY <1>8 DEF Chatgpt!vars, Chatgpt!status, Chatgpt!runtime, AccountTypes, Event, Processes, Tells, Chatgpt!ShownIsStored
  <1>. QED BY <1>1, <1>2, <1>3, <1>4, <1>5, <1>6, <1>7, <1>8 DEF Chatgpt!Next, Actions

\* The account that is shown as connected is the one in the keyring, and no attempt that could
\* replace it is open: whatever the views of the desktop start and cancel, whenever the browser
\* ends an attempt and whichever request fails.
THEOREM AccountShown == Chatgpt!Spec => []Chatgpt!ShownIsStored
  <1>1. Chatgpt!Init => AccountInv
    BY DEF Chatgpt!Init, AccountInv, AccountTypes, Event, Actions, Steps, Processes, Tells, Chatgpt!ShownIsStored,
       Chatgpt!NoEvent, Chatgpt!Free
  <1>2. AccountInv /\ [Chatgpt!Next]_(Chatgpt!vars) => AccountInv'
    BY AccountStep
  <1>3. AccountInv => Chatgpt!ShownIsStored
    BY DEF AccountInv
  <1>. QED BY <1>1, <1>2, <1>3, PTL DEF Chatgpt!Spec

\* Beside everything else, the account that the runtime shows as connected is the one in
\* the keyring, and no attempt to replace it is open.
THEOREM AgentsShowAccount == Spec => []ShownIsStored
  <1>1. Init => Chatgpt!Init
    BY DEF Init
  <1>2. [Next]_vars => [Chatgpt!Next]_(Chatgpt!vars)
    <2>1. UNCHANGED accountVars => UNCHANGED Chatgpt!vars
      BY DEF accountVars, Chatgpt!vars, Chatgpt!status, Chatgpt!runtime
    <2>2. Next => Chatgpt!Next \/ UNCHANGED accountVars
      BY DEF Next
    <2>3. UNCHANGED vars => UNCHANGED accountVars
      BY DEF vars
    <2>. QED BY <2>1, <2>2, <2>3
  <1>. QED BY <1>1, <1>2, ChatgptAssumed, AccountShown, PTL DEF Spec, Chatgpt!Spec, ShownIsStored

(***************************************************************************)
(* The link.  Ids are smaller than the next one, what the runtime may      *)
(* answer under an id in flight is the request of its holder.              *)
(***************************************************************************)
LinkInv ==
    /\ next_id \in Nat /\ linkCalls \in Nat
    /\ wire \subseteq Nat \X Nat
    /\ IsFiniteSet(in_flight) /\ IsFiniteSet(DOMAIN results)
    /\ in_flight \subseteq DOMAIN holder
    /\ DOMAIN holder \subseteq Nat /\ \A i \in DOMAIN holder : i < next_id
    /\ \A m \in wire : m[1] < next_id /\ (m[1] \in in_flight => holder[m[1]] = m[2])
    /\ Link!AnswersAreOwn

LEMMA LinkCounts == \A S : Link!Cardinality(S) = Cardinality(S)
  BY Zenon DEF Link!Cardinality, Cardinality

LEMMA LinkStep ==
    ASSUME Link!LinkAssumption, LinkInv, [Link!Next]_(Link!vars)
    PROVE  LinkInv'
  <1>1. /\ Cardinality(in_flight) \in Nat /\ Cardinality(DOMAIN results) \in Nat
        /\ IsFiniteSet({}) /\ Cardinality({}) = 0 /\ MaxQueued \in Nat
    BY FS_CardinalityType, FS_EmptySet DEF LinkInv, Link!LinkAssumption
  <1>2. CASE Link!Call
    <2>1. /\ linkCalls' = linkCalls + 1 /\ next_id' = next_id + 1 /\ in_flight' = in_flight \cup {next_id}
          /\ wire' = wire \cup {<<next_id, linkCalls + 1>>} /\ results' = results
          /\ Cardinality(in_flight) + Cardinality(DOMAIN results) < MaxQueued
      BY <1>2, LinkCounts DEF Link!Call
    <2>9. /\ DOMAIN holder' = DOMAIN holder \cup {next_id}
          /\ \A i \in DOMAIN holder' : holder'[i] = IF i = next_id THEN linkCalls + 1 ELSE holder[i]
      BY <1>2, Zenon DEF Link!Call, Link!Put
    <2>2. next_id \notin in_flight /\ next_id \notin DOMAIN holder
      BY DEF LinkInv
    <2>3. IsFiniteSet(in_flight') /\ Cardinality(in_flight') = Cardinality(in_flight) + 1
      BY <2>1, <2>2, FS_AddElement DEF LinkInv
    <2>8. Cardinality(in_flight') + Cardinality(DOMAIN results') <= MaxQueued
      BY <1>1, <2>1, <2>3
    <2>4. Link!AnswersAreOwn'
      <3>1. \A id \in DOMAIN results : id \in DOMAIN holder /\ results[id] = holder[id] /\ id # next_id
        BY <2>2, LinkCounts DEF LinkInv, Link!AnswersAreOwn, Link!Holding
      <3>2. in_flight' \cap DOMAIN results' = {}
        BY <2>1, <2>2, <3>1, LinkCounts DEF LinkInv, Link!AnswersAreOwn
      <3>. QED BY <2>1, <2>8, <2>9, <3>1, <3>2, LinkCounts DEF Link!AnswersAreOwn, Link!Holding
    <2>5. \A m \in wire' : m[1] < next_id' /\ (m[1] \in in_flight' => holder'[m[1]] = m[2])
      <3>1. \A m \in wire : m[1] < next_id' /\ (m[1] \in in_flight' => holder'[m[1]] = m[2])
        BY <2>1, <2>2, <2>9 DEF LinkInv
      <3>. QED BY <2>1, <2>9, <3>1 DEF LinkInv
    <2>6. wire' \subseteq Nat \X Nat
      BY <2>1 DEF LinkInv
    <2>7. \A i \in DOMAIN holder' : i \in Nat /\ i < next_id'
      BY <2>1, <2>9 DEF LinkInv
    <2>. QED BY <2>1, <2>9, <2>3, <2>4, <2>5, <2>6, <2>7 DEF LinkInv
  <1>3. ASSUME NEW m \in wire, Link!PumpResponse(m[1], m[2])
        PROVE  LinkInv'
    <2>1. /\ in_flight' = in_flight \ {m[1]} /\ UNCHANGED <<next_id, linkCalls, holder, wire>>
          /\ results' = (IF m[1] \in in_flight THEN Link!Put(results, m[1], m[2]) ELSE results)
      BY <1>3 DEF Link!PumpResponse
    <2>2. CASE m[1] \in in_flight
      <3>1. holder[m[1]] = m[2] /\ m[1] \notin DOMAIN results /\ m[1] \in DOMAIN holder
        BY <2>2, LinkCounts DEF LinkInv, Link!AnswersAreOwn
      <3>2. /\ DOMAIN results' = DOMAIN results \cup {m[1]}
            /\ \A i \in DOMAIN results' : results'[i] = IF i = m[1] THEN m[2] ELSE results[i]
        BY <2>1, <2>2 DEF Link!Put
      <3>3. /\ IsFiniteSet(in_flight') /\ Cardinality(in_flight') = Cardinality(in_flight) - 1
            /\ IsFiniteSet(DOMAIN results') /\ Cardinality(DOMAIN results') = Cardinality(DOMAIN results) + 1
        <4>1. IsFiniteSet(in_flight) /\ IsFiniteSet(DOMAIN results)
          BY DEF LinkInv
        <4>2. IsFiniteSet(in_flight') /\ Cardinality(in_flight') = Cardinality(in_flight) - 1
          BY <2>1, <2>2, <4>1, FS_RemoveElement
        <4>3. IsFiniteSet(DOMAIN results') /\ Cardinality(DOMAIN results') = Cardinality(DOMAIN results) + 1
          BY <3>1, <3>2, <4>1, FS_AddElement
        <4>. QED BY <4>2, <4>3
      <3>4. Cardinality(in_flight') + Cardinality(DOMAIN results') <= MaxQueued
        <4>1. Cardinality(in_flight) + Cardinality(DOMAIN results) <= MaxQueued
          BY LinkCounts DEF LinkInv, Link!AnswersAreOwn
        <4>. QED BY <1>1, <3>3, <4>1
      <3>5. Link!AnswersAreOwn'
        <4>1. \A id \in DOMAIN results' : id \in DOMAIN holder' /\ results'[id] = holder'[id]
          BY <2>1, <3>1, <3>2, LinkCounts DEF LinkInv, Link!AnswersAreOwn, Link!Holding
        <4>2. in_flight' \cap DOMAIN results' = {}
          BY <2>1, <3>2, LinkCounts DEF LinkInv, Link!AnswersAreOwn
        <4>. QED BY <3>4, <4>1, <4>2, LinkCounts DEF Link!AnswersAreOwn, Link!Holding
      <3>. QED BY <2>1, <3>3, <3>5 DEF LinkInv
    <2>3. CASE m[1] \notin in_flight
      <3>1. in_flight' = in_flight /\ results' = results
        BY <2>1, <2>3
      <3>. QED BY <2>1, <3>1, LinkCounts DEF LinkInv, Link!AnswersAreOwn, Link!Holding
    <2>. QED BY <2>2, <2>3
  <1>4. ASSUME NEW id \in DOMAIN holder, Link!TakeResult(id)
        PROVE  LinkInv'
    <2>1. /\ id \in DOMAIN results /\ UNCHANGED <<next_id, linkCalls, in_flight, wire>>
          /\ DOMAIN results' = DOMAIN results \ {id} /\ \A i \in DOMAIN results' : results'[i] = results[i]
          /\ DOMAIN holder' = DOMAIN holder \ {id} /\ \A i \in DOMAIN holder' : holder'[i] = holder[i]
      BY <1>4 DEF Link!TakeResult, Link!Forget
    <2>2. id \notin in_flight
      BY <2>1, LinkCounts DEF LinkInv, Link!AnswersAreOwn
    <2>3. IsFiniteSet(DOMAIN results') /\ Cardinality(DOMAIN results') = Cardinality(DOMAIN results) - 1
      BY <2>1, FS_RemoveElement DEF LinkInv
    <2>4. Link!AnswersAreOwn'
      <3>1. Cardinality(in_flight') + Cardinality(DOMAIN results') <= MaxQueued
        <4>1. Cardinality(in_flight) + Cardinality(DOMAIN results) <= MaxQueued
          BY LinkCounts DEF LinkInv, Link!AnswersAreOwn
        <4>. QED BY <1>1, <2>1, <2>3, <4>1
      <3>2. \A i \in DOMAIN results' : i \in DOMAIN holder' /\ results'[i] = holder'[i]
        BY <2>1, LinkCounts DEF LinkInv, Link!AnswersAreOwn, Link!Holding
      <3>3. in_flight' \cap DOMAIN results' = {}
        BY <2>1, LinkCounts DEF LinkInv, Link!AnswersAreOwn
      <3>. QED BY <3>1, <3>2, <3>3, LinkCounts DEF Link!AnswersAreOwn, Link!Holding
    <2>. QED BY <2>1, <2>2, <2>3, <2>4 DEF LinkInv
  <1>5. CASE Link!Reconnect
    <2>1. /\ next_id' = 1 /\ in_flight' = {} /\ DOMAIN results' = {} /\ DOMAIN holder' = {} /\ wire' = {} /\ linkCalls' = linkCalls
      BY <1>5 DEF Link!Reconnect, Link!Empty
    <2>2. Cardinality(in_flight') + Cardinality(DOMAIN results') <= MaxQueued
      BY <1>1, <2>1
    <2>. QED BY <1>1, <2>1, <2>2, LinkCounts DEF LinkInv, Link!AnswersAreOwn, Link!Holding
  <1>6. CASE UNCHANGED <<next_id, in_flight, results, linkCalls, holder, wire>>
    BY <1>6, LinkCounts DEF LinkInv, Link!AnswersAreOwn, Link!Holding
  <1>7. CASE Link!PumpLost \/ Link!StreamEnds \/ (\E a : Link!PumpAccount(a)) \/ (\E s : Link!PumpTurn(s))
    BY <1>6, <1>7 DEF Link!PumpLost, Link!StreamEnds, Link!PumpAccount, Link!PumpTurn
  <1>8. CASE UNCHANGED Link!vars
    BY <1>6, <1>8 DEF Link!vars
  <1>. QED BY <1>2, <1>3, <1>4, <1>5, <1>7, <1>8 DEF Link!Next, Link!Holding

\* What a caller takes is the answer to its own request, and what is outstanding stays within
\* the limit: however late, often and out of order the answers come, and although ids start at
\* one again on every connection.
THEOREM AnswersOwned ==
    ASSUME Link!LinkAssumption
    PROVE  Link!Spec => []Link!AnswersAreOwn
  <1>1. Link!Init => LinkInv
    <2>. SUFFICES ASSUME Link!Init PROVE LinkInv
      OBVIOUS
    <2>1. /\ next_id = 1 /\ in_flight = {} /\ DOMAIN results = {} /\ DOMAIN holder = {} /\ wire = {} /\ linkCalls = 0
      BY DEF Link!Init, Link!Empty
    <2>2. IsFiniteSet({}) /\ Cardinality(in_flight) + Cardinality(DOMAIN results) <= MaxQueued
      BY <2>1, FS_EmptySet DEF Link!LinkAssumption
    <2>. QED BY <2>1, <2>2, LinkCounts DEF LinkInv, Link!AnswersAreOwn, Link!Holding
  <1>2. LinkInv /\ [Link!Next]_(Link!vars) => LinkInv'
    BY LinkStep
  <1>3. LinkInv => Link!AnswersAreOwn
    BY DEF LinkInv
  <1>. QED BY <1>1, <1>2, <1>3, PTL DEF Link!Spec

\* Beside everything else, the caller of a request over the link to the provider takes the
\* answer that was sent to that request, and no more requests wait than the limit allows.
THEOREM AgentsGetAnswers == Spec => []AnswersAreOwn
  <1>1. Init => Link!Init
    BY DEF Init
  <1>2. [Next]_vars => [Link!Next]_(Link!vars)
    <2>1. UNCHANGED linkVars => UNCHANGED Link!vars
      BY DEF linkVars, Link!vars, Link!reducer
    <2>2. Next => Link!Next \/ UNCHANGED linkVars
      BY DEF Next
    <2>3. UNCHANGED vars => UNCHANGED linkVars
      BY DEF vars
    <2>. QED BY <2>1, <2>2, <2>3
  <1>. QED BY <1>1, <1>2, LinkAssumed, AnswersOwned, PTL DEF Spec, Link!Spec, AnswersAreOwn

(***************************************************************************)
(* The journal of turns.  A turn that nobody sent is sent by one process,  *)
(* once; whatever any process, stored reply or message holds is the one    *)
(* answer to it.                                                           *)
(***************************************************************************)
TurnReply == Nat \cup {None}
TurnRecord == [state : {"none", "prepared", "dispatched", "delivery_unknown", "completed"},
               input : Input \cup {None}, reply : TurnReply, receipt : TurnReply]
Recorded == [state : {"prepared", "dispatched", "delivery_unknown", "completed"},
             input : Input \cup {None}, reply : TurnReply, receipt : TurnReply]
SaveRecord == [reply : TurnReply, receipt : TurnReply]
Phases == {"idle", "run", "prepared", "send", "wait", "reply", "reconcile", "look", "persist", "finish", "leave"}
ProcRecord == [pc : Phases, op : Op \cup {None}, input : Input \cup {None}, gen : Nat,
               reply : TurnReply, receipt : TurnReply]
Starting == [pc : {"idle", "run", "reconcile"}, op : Op \cup {None}, input : Input \cup {None}, gen : Nat,
             reply : TurnReply, receipt : TurnReply]
TurnTypes ==
    /\ turn \in [Op -> TurnRecord]
    /\ saved \in [Op -> SaveRecord]
    /\ turnsProc \in [Process -> ProcRecord]
    /\ late \subseteq [op : Op, reply : TurnReply, receipt : TurnReply]
    /\ sent \in [Op -> Nat] /\ answer \in [Op -> TurnReply]
    /\ DOMAIN post = Op
    /\ gen \in Nat
    /\ \A p \in Process : turnsProc[p].pc # "idle" => turnsProc[p].op \in Op

Sending ==
    /\ \A o \in Op : sent[o] <= 1 /\ (turn[o].state \in {"none", "prepared"} => sent[o] = 0)
    /\ \A p \in Process : turnsProc[p].pc = "send" =>
          sent[turnsProc[p].op] = 0 /\ turn[turnsProc[p].op].state \notin {"none", "prepared"}
    /\ \A p, q \in Process : turnsProc[p].pc = "send" /\ turnsProc[q].pc = "send" /\ turnsProc[p].op = turnsProc[q].op => p = q
    /\ \A o, u \in Op : o \in Turns!Pending /\ u \in Turns!Pending => o = u

\* r is the answer to o
Said(o, r) == r = answer[o] /\ r # None

Holds(q) ==
    /\ turnsProc[q].pc \in {"reply", "persist", "finish"} => Said(turnsProc[q].op, turnsProc[q].reply)
    /\ turnsProc[q].pc = "finish" => saved[turnsProc[q].op] = [reply |-> turnsProc[q].reply, receipt |-> turnsProc[q].receipt]

Keeps(o) ==
    /\ answer[o] # None => answer[o] = 1
    /\ turn[o].reply # None => Said(o, turn[o].reply)
    /\ saved[o].reply # None => Said(o, saved[o].reply)
    /\ turn[o].state = "completed" =>
          Said(o, turn[o].reply) /\ saved[o] = [reply |-> turn[o].reply, receipt |-> turn[o].receipt]
    /\ post[o] # None => post[o] = saved[o] /\ turn[o].state = "completed"

Answering ==
    /\ \A q \in Process : Holds(q)
    /\ \A o \in Op : Keeps(o)
    /\ \A l \in late : Said(l.op, l.reply)

TurnsInv == TurnTypes /\ Sending /\ Answering

\* A process goes on and nothing else changes.
LEMMA TurnsMoves ==
    ASSUME TurnsInv, NEW p \in Process, turnsProc[p].pc # "idle",
           NEW pc \in {"prepared", "wait", "look", "persist", "leave"},
           pc = "persist" => turnsProc[p].pc = "reply",
           Turns!Goes(p, pc), UNCHANGED <<turn, saved, late, answer, turnsDelivery, post, gen>>,
           \/ sent' = sent
           \/ turnsProc[p].pc = "send" /\ sent' = [sent EXCEPT ![turnsProc[p].op] = @ + 1]
    PROVE  TurnsInv'
  <1>1. turnsProc' = [turnsProc EXCEPT ![p].pc = pc] /\ turnsProc[p].op \in Op
    BY DEF TurnsInv, TurnTypes, TurnRecord, Recorded, SaveRecord, Phases, ProcRecord, Turns!Goes
  <1>2. TurnTypes'
    <2>1. sent' \in [Op -> Nat]
      <3>1. sent \in [Op -> Nat]
        BY DEF TurnsInv, TurnTypes
      <3>2. sent[turnsProc[p].op] + 1 \in Nat
        BY <1>1, <3>1
      <3>. QED BY <1>1, <3>1, <3>2
    <2>2. turnsProc' \in [Process -> ProcRecord]
      <3>1. turnsProc[p] \in ProcRecord /\ turnsProc \in [Process -> ProcRecord]
        BY DEF TurnsInv, TurnTypes
      <3>2. [turnsProc[p] EXCEPT !.pc = pc] \in ProcRecord
        BY <3>1 DEF ProcRecord, Phases
      <3>. QED BY <1>1, <3>1, <3>2
    <2>3. \A q \in Process : turnsProc'[q].pc # "idle" => turnsProc'[q].op \in Op
      <3>1. \A q \in Process : turnsProc'[q].pc # "idle" => turnsProc[q].pc # "idle" /\ turnsProc'[q].op = turnsProc[q].op
        BY <1>1 DEF TurnsInv, TurnTypes, TurnRecord, Recorded, SaveRecord, Phases, ProcRecord
      <3>. QED BY <3>1 DEF TurnsInv, TurnTypes
    <2>. QED BY <2>1, <2>2, <2>3 DEF TurnsInv, TurnTypes, TurnRecord, Recorded, SaveRecord, Phases, ProcRecord
  <1>3. /\ turnsProc'[p] = [turnsProc[p] EXCEPT !.pc = pc] /\ turnsProc'[p].pc = pc
        /\ turnsProc'[p].op = turnsProc[p].op /\ turnsProc'[p].reply = turnsProc[p].reply
        /\ \A q \in Process \ {p} : turnsProc'[q] = turnsProc[q]
    BY <1>1 DEF TurnsInv, TurnTypes, TurnRecord, Recorded, SaveRecord, Phases, ProcRecord
  <1>4. Sending'
    <2>1. CASE sent' = sent
      <3>1. \A q \in Process : turnsProc'[q].pc = "send" => turnsProc'[q] = turnsProc[q] /\ turnsProc[q].pc = "send"
        BY <1>3
      <3>2. Turns!Pending' = Turns!Pending
        BY DEF Turns!Pending
      <3>. QED BY <2>1, <3>1, <3>2 DEF TurnsInv, Sending
    <2>2. CASE turnsProc[p].pc = "send" /\ sent' = [sent EXCEPT ![turnsProc[p].op] = @ + 1]
      <3>1. sent'[turnsProc[p].op] = 1 /\ \A o \in Op \ {turnsProc[p].op} : sent'[o] = sent[o]
        BY <1>1, <2>2 DEF TurnsInv, TurnTypes, TurnRecord, Recorded, SaveRecord, Phases, ProcRecord, Sending
      <3>2. \A q \in Process : turnsProc'[q].pc = "send" => q # p /\ turnsProc[q].pc = "send" /\ turnsProc[q].op # turnsProc[p].op /\ turnsProc[q].op \in Op
        BY <1>3, <2>2 DEF TurnsInv, TurnTypes, TurnRecord, Recorded, SaveRecord, Phases, ProcRecord, Sending
      <3>. QED BY <1>1, <1>3, <2>2, <3>1, <3>2 DEF TurnsInv, Sending, Turns!Pending, Turns!Uncertain
    <2>. QED BY <2>1, <2>2
  <1>5. Answering'
    <2>1. \A q \in Process : /\ turnsProc'[q].pc \in {"reply", "persist", "finish"} => turnsProc[q].pc \in {"reply", "persist", "finish"}
                             /\ turnsProc'[q].pc = "finish" => turnsProc[q].pc = "finish"
                             /\ turnsProc'[q].op = turnsProc[q].op /\ turnsProc'[q].reply = turnsProc[q].reply /\ turnsProc'[q].receipt = turnsProc[q].receipt
      BY <1>1, <1>3 DEF TurnsInv, TurnTypes, TurnRecord, Recorded, SaveRecord, Phases, ProcRecord
    <2>2. \A q \in Process : Holds(q)'
      <3>. SUFFICES ASSUME NEW q \in Process PROVE Holds(q)'
        OBVIOUS
      <3>1. Holds(q)
        BY DEF TurnsInv, Answering
      <3>. QED BY <2>1, <3>1 DEF Holds, Said
    <2>3. (\A o \in Op : Keeps(o)') /\ \A l \in late' : Said(l.op, l.reply)'
      BY DEF TurnsInv, Answering, Keeps, Said
    <2>. QED BY <2>2, <2>3 DEF Answering
  <1>. QED BY <1>2, <1>4, <1>5 DEF TurnsInv

\* What a lease holder does with the turn of its operation: the turn is not taken back, and is
\* completed only with what is stored.
LEMMA TurnsChange ==
    ASSUME TurnsInv, NEW p \in Process, turnsProc[p].pc # "idle", NEW o \in Op, turnsProc[p].op = o,
           NEW pc \in {"prepared", "send", "persist", "leave"},
           Turns!Goes(p, pc), UNCHANGED <<saved, late, sent, answer, turnsDelivery, post, gen>>,
           pc = "persist" => turnsProc[p].pc = "reply",
           NEW t, t \in Recorded,
           turn' = [turn EXCEPT ![o] = t],
           t.reply # None => Said(o, t.reply),
           turn[o].state = "completed" => t = turn[o],
           t.state = "completed" => Said(o, t.reply) /\ saved[o] = [reply |-> t.reply, receipt |-> t.receipt],
           t.state = "prepared" => turn[o].state \in {"none", "prepared"},
           turn[o].state = "none" => Turns!Pending = {},
           pc = "send" => turn[o].state = "prepared" /\ t.state = "dispatched"
    PROVE  TurnsInv'
  <1>1. turnsProc' = [turnsProc EXCEPT ![p].pc = pc]
    BY DEF Turns!Goes
  <1>2. TurnTypes'
    <2>1. turnsProc \in [Process -> ProcRecord] /\ turnsProc[p] \in ProcRecord /\ turn \in [Op -> TurnRecord]
      BY DEF TurnsInv, TurnTypes
    <2>2. [turnsProc[p] EXCEPT !.pc = pc] \in ProcRecord
      BY <2>1 DEF ProcRecord, Phases
    <2>3. turnsProc' = [turnsProc EXCEPT ![p] = [turnsProc[p] EXCEPT !.pc = pc]]
      BY <1>1
    <2>4. turnsProc' \in [Process -> ProcRecord]
      BY <2>1, <2>2, <2>3
    <2>5. t \in TurnRecord
      BY DEF Recorded, TurnRecord
    <2>6. turn' \in [Op -> TurnRecord]
      BY <2>1, <2>5
    <2>7. turnsProc'[p].op = o /\ \A q \in Process \ {p} : turnsProc'[q] = turnsProc[q]
      BY <2>1, <2>3 DEF ProcRecord
    <2>8. \A q \in Process : turnsProc'[q].pc # "idle" => turnsProc'[q].op \in Op
      BY <2>7 DEF TurnsInv, TurnTypes
    <2>. QED BY <2>4, <2>6, <2>8 DEF TurnsInv, TurnTypes
  <1>3. /\ turnsProc'[p].pc = pc /\ turnsProc'[p].op = o /\ turnsProc'[p].reply = turnsProc[p].reply
        /\ \A q \in Process \ {p} : turnsProc'[q] = turnsProc[q]
        /\ turn'[o] = t /\ \A u \in Op \ {o} : turn'[u] = turn[u]
        /\ \A q \in Process : turnsProc[q].pc # "idle" => turnsProc[q].op \in Op
    BY <1>1 DEF TurnsInv, TurnTypes, TurnRecord, Recorded, SaveRecord, Phases, ProcRecord
  <1>4. Sending'
    <2>1. \A u, v \in Op : u \in Turns!Pending' /\ v \in Turns!Pending' => u = v
      <3>1. \A u \in Op \ {o} : u \in Turns!Pending' => u \in Turns!Pending
        BY <1>3 DEF Turns!Pending, Turns!Uncertain
      <3>2. o \in Turns!Pending' => Turns!Pending = {} \/ o \in Turns!Pending
        BY <1>3 DEF Turns!Pending, Turns!Uncertain, TurnsInv, TurnTypes, TurnRecord, Recorded, SaveRecord, Phases, ProcRecord
      <3>. QED BY <3>1, <3>2 DEF TurnsInv, Sending
    <2>2. \A u \in Op : sent'[u] <= 1 /\ (turn'[u].state \in {"none", "prepared"} => sent'[u] = 0)
      BY <1>3 DEF TurnRecord, Recorded, SaveRecord, Phases, ProcRecord, TurnsInv, Sending
    <2>3. \A q \in Process : turnsProc'[q].pc = "send" =>
             /\ sent'[turnsProc'[q].op] = 0 /\ turn'[turnsProc'[q].op].state \notin {"none", "prepared"}
             /\ turnsProc'[q].op = o => (q = p \/ (turnsProc[q].pc = "send" /\ turn[o].state # "prepared"))
      BY <1>3 DEF TurnRecord, Recorded, SaveRecord, Phases, ProcRecord, TurnsInv, Sending
    <2>4. \A q, r \in Process : turnsProc'[q].pc = "send" /\ turnsProc'[r].pc = "send" /\ turnsProc'[q].op = turnsProc'[r].op => q = r
      BY <1>3, <2>3 DEF TurnsInv, Sending
    <2>. QED BY <2>1, <2>2, <2>3, <2>4 DEF Sending
  <1>5. Answering'
    <2>1. ASSUME NEW q \in Process PROVE Holds(q)'
      <3>1. Holds(q) /\ Holds(p)
        BY DEF TurnsInv, Answering
      <3>2. CASE q = p
        BY <1>3, <3>1, <3>2 DEF Holds, Said
      <3>3. CASE q # p
        BY <1>3, <3>1, <3>3 DEF Holds, Said
      <3>. QED BY <3>2, <3>3
    <2>2. ASSUME NEW u \in Op PROVE Keeps(u)'
      <3>1. Keeps(u)
        BY DEF TurnsInv, Answering
      <3>2. CASE u = o
        BY <1>3, <3>1, <3>2 DEF Keeps, Said
      <3>3. CASE u # o
        BY <1>3, <3>1, <3>3 DEF Keeps, Said
      <3>. QED BY <3>2, <3>3
    <2>3. \A l \in late' : Said(l.op, l.reply)'
      BY DEF TurnsInv, Answering, Said
    <2>. QED BY <2>1, <2>2, <2>3 DEF Answering
  <1>. QED BY <1>2, <1>4, <1>5 DEF TurnsInv

\* What is stored of an answer stays as it is.
LEMMA TurnsStored ==
    ASSUME TurnsInv, NEW o \in Op, NEW r, Said(o, r), r \in TurnReply, NEW receipt \in TurnReply, Turns!Accepts(o, r),
           saved' = Turns!Stored(o, r, receipt)
    PROVE  /\ saved' \in [Op -> SaveRecord]
           /\ \A u \in Op : saved[u].reply # None => saved'[u] = saved[u]
           /\ \A u \in Op : saved'[u].reply # None => Said(u, saved'[u].reply)
           /\ saved'[o].reply = r
  <1>1. \A u \in Op : saved'[u] = IF u = o /\ saved[u].reply = None THEN [reply |-> r, receipt |-> receipt] ELSE saved[u]
    BY DEF Turns!Stored, TurnsInv, TurnTypes, TurnRecord, Recorded, SaveRecord, Phases, ProcRecord
  <1>2. saved' \in [Op -> SaveRecord]
    BY DEF Turns!Stored, TurnsInv, TurnTypes, TurnRecord, Recorded, SaveRecord, Phases, ProcRecord
  <1>3. \A u \in Op : saved'[u].reply # None => Said(u, saved'[u].reply)
    <2>. SUFFICES ASSUME NEW u \in Op, saved'[u].reply # None PROVE Said(u, saved'[u].reply)
      OBVIOUS
    <2>1. saved[u].reply # None => Said(u, saved[u].reply)
      BY DEF TurnsInv, Answering, Keeps
    <2>2. u = o /\ saved[u].reply = None => saved'[u].reply = r
      BY <1>1
    <2>. QED BY <1>1, <2>1, <2>2
  <1>. QED BY <1>1, <1>2, <1>3 DEF Turns!Accepts

\* A lease that ends or is taken over makes the delivery of what was dispatched unknown.
LEMMA TurnsGivenUp ==
    ASSUME TurnsInv, turn' \in {turn, Turns!GivenUp}
    PROVE  /\ turn' \in [Op -> TurnRecord]
           /\ \A o \in Op : /\ turn[o].state # "dispatched" => turn'[o] = turn[o]
                            /\ turn[o].state = "dispatched" => turn'[o].state \in Turns!Uncertain
                            /\ turn'[o].reply = turn[o].reply
  <1>1. CASE turn' = turn
    BY <1>1 DEF Turns!Uncertain, TurnsInv, TurnTypes, TurnRecord, Recorded, SaveRecord, Phases, ProcRecord
  <1>2. CASE turn' = Turns!GivenUp
    <2>1. \A o \in Op : turn'[o] = IF turn[o].state = "dispatched" THEN [turn[o] EXCEPT !.state = "delivery_unknown"] ELSE turn[o]
      BY <1>2 DEF Turns!GivenUp
    <2>2. DOMAIN turn' = Op /\ turn' = [o \in Op |-> turn'[o]]
      BY <1>2 DEF Turns!GivenUp
    <2>3. \A o \in Op : /\ turn'[o] \in TurnRecord
                        /\ turn[o].state # "dispatched" => turn'[o] = turn[o]
                        /\ turn[o].state = "dispatched" => turn'[o].state = "delivery_unknown"
                        /\ turn'[o].reply = turn[o].reply
      <3>. SUFFICES ASSUME NEW o \in Op
                    PROVE  /\ turn'[o] \in TurnRecord
                           /\ turn[o].state # "dispatched" => turn'[o] = turn[o]
                           /\ turn[o].state = "dispatched" => turn'[o].state = "delivery_unknown"
                           /\ turn'[o].reply = turn[o].reply
        OBVIOUS
      <3>1. turn[o] \in TurnRecord
        BY DEF TurnsInv, TurnTypes, TurnRecord, Recorded, SaveRecord, Phases, ProcRecord
      <3>. QED BY <2>1, <3>1 DEF TurnRecord, Recorded, SaveRecord, Phases, ProcRecord
    <2>. QED BY <2>2, <2>3 DEF Turns!Uncertain
  <1>. QED BY <1>1, <1>2

LEMMA TurnStarts ==
    ASSUME Turns!Idle \in Starting, NEW o \in Op, NEW i \in Input \cup {None}, NEW g \in Nat
    PROVE  [Turns!Idle EXCEPT !.pc = IF i = None THEN "reconcile" ELSE "run", !.op = o, !.input = i, !.gen = g] \in Starting
  BY DEF Starting

LEMMA TurnsStep ==
    ASSUME Turns!TurnsAssumption, TurnsInv, [Turns!Next]_(Turns!vars)
    PROVE  TurnsInv'
  <1> USE DEF Turns!session, Turns!provider, Turns!room
  <1>1. ASSUME NEW p \in Process,
               \/ Turns!Send(p) \/ Turns!GiveUp(p) \/ Turns!Enumerate(p)
               \/ Turns!Goes(p, "leave") /\ UNCHANGED <<turn, saved, late, sent, answer, turnsDelivery, post, gen>> /\ turnsProc[p].pc # "idle"
        PROVE  TurnsInv'
    <2>1. turnsProc[p].pc # "idle"
      BY <1>1 DEF Turns!Send, Turns!GiveUp, Turns!Enumerate, Turns!At
    <2>2. \E pc \in {"wait", "look", "leave"} :
             /\ Turns!Goes(p, pc) /\ UNCHANGED <<turn, saved, late, answer, turnsDelivery, post, gen>>
             /\ \/ sent' = sent
                \/ turnsProc[p].pc = "send" /\ sent' = [sent EXCEPT ![turnsProc[p].op] = @ + 1]
      BY <1>1 DEF Turns!Send, Turns!GiveUp, Turns!Enumerate, Turns!At, Turns!Fences
    <2>. QED BY <2>1, <2>2, TurnsMoves
  <1>2. ASSUME NEW p \in Process, Turns!Prepare(p) \/ Turns!MarkDispatched(p) \/ Turns!Acknowledge(p) \/ Turns!Finish(p)
        PROVE  TurnsInv'
    <2> DEFINE o == turnsProc[p].op
    <2>1. /\ turnsProc[p].pc # "idle" /\ o \in Op /\ turn[o].input \in Input \cup {None}
          /\ turnsProc[p].input \in Input \cup {None}
          /\ UNCHANGED <<saved, late, sent, answer, turnsDelivery, post, gen>>
      BY <1>2 DEF Turns!Prepare, Turns!MarkDispatched, Turns!Acknowledge, Turns!Finish, Turns!At, TurnsInv, TurnTypes, TurnRecord, Recorded, SaveRecord, Phases, ProcRecord
    <2>2. CASE Turns!Prepare(p)
      <3>1. CASE Turns!Goes(p, "leave") /\ turn' = turn
        BY <1>1, <2>1, <3>1
      <3>2. CASE ~ (Turns!Goes(p, "leave") /\ turn' = turn)
        <4> DEFINE t == IF turn[o].state = "none" THEN [Turns!NoTurn EXCEPT !.state = "prepared", !.input = turnsProc[p].input]
                        ELSE turn[o]
        <4>1. /\ turn' = [turn EXCEPT ![o] = t] /\ (turn[o].state = "none" => Turns!Pending = {})
              /\ \E pc \in {"prepared", "leave"} : Turns!Goes(p, pc)
          BY <2>2, <3>2 DEF Turns!Prepare, Turns!Fences
        <4>2. /\ t \in Recorded
              /\ turn[o].state # "none" => t = turn[o]
              /\ turn[o].state = "none" => t.state = "prepared" /\ t.reply = None
          BY <2>1 DEF Turns!NoTurn, TurnsInv, TurnTypes, TurnRecord, Recorded, SaveRecord, Phases, ProcRecord, TurnReply
        <4>3. /\ t.reply # None => Said(o, t.reply)
              /\ t.state = "completed" => Said(o, t.reply) /\ saved[o] = [reply |-> t.reply, receipt |-> t.receipt]
              /\ t.state = "prepared" => turn[o].state \in {"none", "prepared"}
              /\ turn[o].state = "completed" => t = turn[o]
          BY <2>1, <4>2 DEF TurnsInv, Answering, Holds, Keeps
        <4> HIDE DEF t
        <4>4. PICK pc \in {"prepared", "leave"} : Turns!Goes(p, pc)
          BY <4>1
        <4>5. turn[o].state = "prepared" => t = turn[o]
          BY <4>2
        <4>. QED BY <2>1, <4>1, <4>2, <4>3, <4>4, TurnsChange, ZenonT(60)
      <3>. QED BY <3>1, <3>2
    <2>3. CASE Turns!MarkDispatched(p)
      <3>1. CASE Turns!Goes(p, "leave") /\ turn' = turn
        BY <1>1, <2>1, <3>1
      <3>2. CASE ~ (Turns!Goes(p, "leave") /\ turn' = turn)
        <4> DEFINE t == [turn[o] EXCEPT !.state = "dispatched"]
        <4>1. Turns!Goes(p, "send") /\ turn' = [turn EXCEPT ![o] = t] /\ turn[o].state = "prepared"
          BY <2>3, <3>2 DEF Turns!MarkDispatched, Turns!Fences
        <4>2. /\ t \in Recorded
              /\ t.state = "dispatched" /\ t.reply = turn[o].reply
          BY <2>1, <4>1 DEF TurnsInv, TurnTypes, TurnRecord, Recorded, SaveRecord, Phases, ProcRecord
        <4>3. t.reply # None => Said(o, t.reply)
          BY <2>1, <4>2 DEF TurnsInv, Answering, Holds, Keeps
        <4> HIDE DEF t
        <4>. QED BY <2>1, <4>1, <4>2, <4>3, TurnsChange
      <3>. QED BY <3>1, <3>2
    <2>4. CASE Turns!Acknowledge(p)
      <3>1. CASE Turns!Goes(p, "leave") /\ turn' = turn
        BY <1>1, <2>1, <3>1
      <3>2. CASE ~ (Turns!Goes(p, "leave") /\ turn' = turn)
        <4> DEFINE t == [turn[o] EXCEPT !.reply = turnsProc[p].reply]
        <4>1. /\ Turns!Goes(p, "persist") /\ turn' = [turn EXCEPT ![o] = t] /\ turn[o].state \in Turns!Uncertain
              /\ turnsProc[p].pc = "reply"
          BY <2>4, <3>2 DEF Turns!Acknowledge, Turns!Fences, Turns!At
        <4>2. /\ t \in Recorded
              /\ t.state = turn[o].state /\ t.reply = turnsProc[p].reply
          <5>1. turn[o] \in TurnRecord /\ turnsProc[p] \in ProcRecord
            BY <2>1 DEF TurnsInv, TurnTypes
          <5>2. turn[o] \in Recorded
            BY <4>1, <5>1 DEF TurnRecord, Recorded, Turns!Uncertain
          <5>3. PICK r \in TurnReply : r = turnsProc[p].reply
            BY <5>1 DEF ProcRecord
          <5>. QED BY <5>2, <5>3 DEF Recorded
        <4>3. Said(o, t.reply)
          BY <4>1, <4>2 DEF TurnsInv, Answering, Holds, Keeps
        <4> HIDE DEF t
        <4>. QED BY <2>1, <4>1, <4>2, <4>3, TurnsChange DEF Turns!Uncertain
      <3>. QED BY <3>1, <3>2
    <2>5. CASE Turns!Finish(p)
      <3>1. CASE Turns!Goes(p, "leave") /\ turn' = turn
        BY <1>1, <2>1, <3>1
      <3>2. CASE ~ (Turns!Goes(p, "leave") /\ turn' = turn)
        <4> DEFINE t == [turn[o] EXCEPT !.state = "completed", !.reply = turnsProc[p].reply, !.receipt = turnsProc[p].receipt]
        <4>1. /\ Turns!Goes(p, "leave") /\ turn' = [turn EXCEPT ![o] = t] /\ (turn[o] = t \/ turn[o].state \in Turns!Uncertain)
              /\ turnsProc[p].pc = "finish"
          BY <2>5, <3>2 DEF Turns!Finish, Turns!Fences, Turns!At
        <4>2. /\ t \in Recorded
              /\ t.state = "completed" /\ t.reply = turnsProc[p].reply /\ t.receipt = turnsProc[p].receipt
          <5>1. turnsProc[p].reply \in TurnReply /\ turnsProc[p].receipt \in TurnReply
            BY DEF TurnsInv, TurnTypes, TurnRecord, Recorded, SaveRecord, Phases, ProcRecord
          <5>2. turn[o] \in TurnRecord
            BY <2>1 DEF TurnsInv, TurnTypes, TurnRecord, Recorded, SaveRecord, Phases, ProcRecord
          <5>. QED BY <5>1, <5>2 DEF TurnRecord, Recorded, SaveRecord, Phases, ProcRecord
        <4>3. Said(o, t.reply) /\ saved[o] = [reply |-> t.reply, receipt |-> t.receipt]
          BY <4>1, <4>2 DEF TurnsInv, Answering, Holds, Keeps
        <4>4. /\ turn[o].state # "none" /\ (turn[o].state = "completed" => t = turn[o])
          BY <4>1, <4>2 DEF Turns!Uncertain
        <4> HIDE DEF t
        <4>. QED BY <2>1, <4>1, <4>2, <4>3, <4>4, TurnsChange
      <3>. QED BY <3>1, <3>2
    <2>. QED BY <1>2, <2>2, <2>3, <2>4, <2>5
  <1>3. ASSUME NEW p \in Process, Turns!Reply(p) \/ Turns!Look(p)
        PROVE  TurnsInv'
    <2>1. PICK r \in TurnReply :
             /\ Said(turnsProc[p].op, r) /\ turnsProc[p].pc \notin {"idle", "send"}
             /\ turnsProc' = [turnsProc EXCEPT ![p].pc = "reply", ![p].reply = r]
             /\ UNCHANGED <<turn, saved, late, sent, answer, turnsDelivery, post, gen>>
      <3>1. turnsProc[p].pc \in {"wait", "look"} /\ turnsProc[p].op \in Op
        BY <1>3 DEF Turns!Reply, Turns!Look, Turns!At, TurnsInv, TurnTypes, TurnRecord, Recorded, SaveRecord, Phases, ProcRecord
      <3>2. CASE Turns!Reply(p)
        BY <3>1, <3>2 DEF Turns!Reply, TurnsInv, TurnTypes, TurnRecord, Recorded, SaveRecord, Phases, ProcRecord, Said
      <3>3. CASE Turns!Look(p)
        BY <3>1, <3>3 DEF Turns!Look, TurnsInv, TurnTypes, TurnRecord, Recorded, SaveRecord, Phases, ProcRecord, Answering, Holds, Keeps, Said
      <3>. QED BY <1>3, <3>2, <3>3
    <2>2. TurnTypes'
      <3>3. turnsProc[p] \in ProcRecord /\ turnsProc \in [Process -> ProcRecord]
        BY DEF TurnsInv, TurnTypes
      <3>4. [turnsProc[p] EXCEPT !.pc = "reply", !.reply = r] \in ProcRecord
        BY <3>3 DEF ProcRecord, Phases
      <3>1. turnsProc' \in [Process -> ProcRecord]
        BY <2>1, <3>3, <3>4
      <3>2. \A q \in Process : turnsProc'[q].pc # "idle" => turnsProc[q].pc # "idle" /\ turnsProc'[q].op = turnsProc[q].op
        BY <2>1 DEF TurnsInv, TurnTypes, TurnRecord, Recorded, SaveRecord, Phases, ProcRecord
      <3>. QED BY <2>1, <3>1, <3>2 DEF TurnsInv, TurnTypes, TurnRecord, Recorded, SaveRecord, Phases, ProcRecord
    <2>3. /\ turnsProc'[p].pc = "reply" /\ turnsProc'[p].reply = r /\ turnsProc'[p].op = turnsProc[p].op
          /\ \A q \in Process \ {p} : turnsProc'[q] = turnsProc[q]
      BY <2>1 DEF TurnsInv, TurnTypes, TurnRecord, Recorded, SaveRecord, Phases, ProcRecord
    <2>4. Sending'
      <3>1. \A q \in Process : turnsProc'[q].pc = "send" => q # p /\ turnsProc'[q] = turnsProc[q]
        BY <2>3
      <3>2. (\A o \in Op : sent'[o] <= 1 /\ (turn'[o].state \in {"none", "prepared"} => sent'[o] = 0))
            /\ \A o, u \in Op : o \in Turns!Pending' /\ u \in Turns!Pending' => o = u
        BY <2>1 DEF TurnsInv, Sending, Turns!Pending
      <3>3. \A q \in Process : turnsProc'[q].pc = "send" =>
               sent'[turnsProc'[q].op] = 0 /\ turn'[turnsProc'[q].op].state \notin {"none", "prepared"}
        BY <2>1, <3>1 DEF TurnsInv, Sending
      <3>4. \A q, z \in Process : turnsProc'[q].pc = "send" /\ turnsProc'[z].pc = "send" /\ turnsProc'[q].op = turnsProc'[z].op => q = z
        BY <3>1 DEF TurnsInv, Sending
      <3>. QED BY <3>2, <3>3, <3>4 DEF Sending
    <2>5. Answering'
      <3>1. \A q \in Process : Holds(q)'
        <4>1. ASSUME NEW q \in Process, q # p PROVE Holds(q)'
          <5>1. Holds(q) /\ turnsProc'[q] = turnsProc[q]
            BY <2>3, <4>1 DEF TurnsInv, Answering
          <5>. QED BY <2>1, <5>1 DEF Holds, Said
        <4>2. Holds(p)'
          BY <2>1, <2>3 DEF Holds, Said
        <4>. QED BY <4>1, <4>2
      <3>2. (\A o \in Op : Keeps(o)') /\ \A l \in late' : Said(l.op, l.reply)'
        BY <2>1 DEF TurnsInv, Answering, Keeps, Said
      <3>. QED BY <3>1, <3>2 DEF Answering
    <2>. QED BY <2>2, <2>4, <2>5 DEF TurnsInv
  <1>4. ASSUME NEW p \in Process, Turns!Persist(p)
        PROVE  TurnsInv'
    <2> DEFINE o == turnsProc[p].op  r == turnsProc[p].reply
    <2>1. /\ turnsProc[p].pc = "persist" /\ o \in Op /\ Said(o, r) /\ r \in TurnReply /\ turnsProc[p].gen \in TurnReply
          /\ UNCHANGED <<turn, late, sent, answer, turnsDelivery, post, gen>>
      BY <1>4 DEF Turns!Persist, Turns!At, TurnsInv, TurnTypes, TurnRecord, Recorded, SaveRecord, Phases, ProcRecord, Answering, Holds, TurnReply
    <2>2. CASE ~ Turns!Accepts(o, r)
      BY <1>1, <1>4, <2>1, <2>2 DEF Turns!Persist
    <2>3. CASE Turns!Accepts(o, r)
      <3>1. saved' = Turns!Stored(o, r, turnsProc[p].gen) /\ turnsProc' = [turnsProc EXCEPT ![p].pc = "finish", ![p].receipt = saved'[o].receipt]
        BY <1>4, <2>3 DEF Turns!Persist
      <3>2. /\ saved' \in [Op -> SaveRecord]
            /\ \A u \in Op : saved[u].reply # None => saved'[u] = saved[u]
            /\ \A u \in Op : saved'[u].reply # None => Said(u, saved'[u].reply)
            /\ saved'[o].reply = r
        BY <2>1, <2>3, <3>1, TurnsStored
      <3>3. /\ turnsProc' \in [Process -> ProcRecord]
            /\ turnsProc'[p].pc = "finish" /\ turnsProc'[p].reply = r /\ turnsProc'[p].op = o /\ turnsProc'[p].receipt = saved'[o].receipt
            /\ \A q \in Process \ {p} : turnsProc'[q] = turnsProc[q]
        <4>1. saved'[o].receipt \in TurnReply
          BY <2>1, <3>2 DEF TurnRecord, Recorded, SaveRecord, Phases, ProcRecord
        <4>2. /\ turnsProc \in [Process -> ProcRecord] /\ turnsProc[p] \in ProcRecord
              /\ [turnsProc[p] EXCEPT !.pc = "finish", !.receipt = saved'[o].receipt] \in ProcRecord
          <5>1. turnsProc \in [Process -> ProcRecord] /\ turnsProc[p] \in ProcRecord
            BY DEF TurnsInv, TurnTypes
          <5>2. PICK v \in TurnReply : v = saved'[o].receipt
            BY <4>1
          <5>3. [turnsProc[p] EXCEPT !.pc = "finish", !.receipt = v] \in ProcRecord
            BY <5>1 DEF ProcRecord, Phases
          <5>. QED BY <5>1, <5>2, <5>3
        <4>3. turnsProc' = [turnsProc EXCEPT ![p] = [turnsProc[p] EXCEPT !.pc = "finish", !.receipt = saved'[o].receipt]]
          BY <3>1
        <4>4. turnsProc' \in [Process -> ProcRecord]
          BY <4>2, <4>3
        <4>5. /\ turnsProc'[p] = [turnsProc[p] EXCEPT !.pc = "finish", !.receipt = saved'[o].receipt]
              /\ \A q \in Process \ {p} : turnsProc'[q] = turnsProc[q]
          BY <4>2, <4>3
        <4>. QED BY <4>2, <4>4, <4>5 DEF ProcRecord
      <3>4. TurnTypes'
        BY <2>1, <3>2, <3>3 DEF TurnsInv, TurnTypes, TurnRecord, Recorded, SaveRecord, Phases, ProcRecord
      <3>5. Sending'
        BY <2>1, <3>3 DEF TurnsInv, Sending, Turns!Pending
      <3>6. saved'[o] = [reply |-> r, receipt |-> saved'[o].receipt]
        BY <2>1, <3>2 DEF TurnRecord, Recorded, SaveRecord, Phases, ProcRecord
      <3>7. \A q \in Process : Holds(q)'
        <4>1. Holds(p)'
          BY <2>1, <3>3, <3>6 DEF Holds, Said
        <4>2. ASSUME NEW q \in Process \ {p} PROVE Holds(q)'
          <5>1. Holds(q) /\ (turnsProc[q].pc = "finish" => turnsProc[q].op \in Op)
            BY DEF TurnsInv, TurnTypes, TurnRecord, Recorded, SaveRecord, Phases, ProcRecord, Answering
          <5>2. turnsProc[q].pc = "finish" => saved[turnsProc[q].op].reply # None
            BY <5>1 DEF Holds, Said
          <5>. QED BY <2>1, <3>2, <3>3, <5>1, <5>2 DEF Holds, Said
        <4>. QED BY <4>1, <4>2
      <3>8. ASSUME NEW u \in Op PROVE Keeps(u)'
        <4>1. Keeps(u) /\ (turn[u].state = "completed" => saved[u].reply # None)
          BY DEF TurnsInv, Answering, Keeps, Said
        <4>. QED BY <2>1, <3>2, <4>1 DEF Keeps, Said
      <3>9. \A l \in late' : Said(l.op, l.reply)'
        BY <2>1 DEF TurnsInv, Answering, Said
      <3>. QED BY <3>4, <3>5, <3>7, <3>8, <3>9 DEF TurnsInv, Answering
    <2>. QED BY <2>2, <2>3
  <1>5. ASSUME NEW l \in late, Turns!LatePersist(l)
        PROVE  TurnsInv'
    <2>1. /\ l.op \in Op /\ l.reply \in TurnReply /\ l.receipt \in TurnReply /\ Said(l.op, l.reply)
          /\ late' = late \ {l} /\ UNCHANGED <<turn, turnsProc, sent, answer, turnsDelivery, post, gen>>
      BY <1>5 DEF Turns!LatePersist, TurnsInv, TurnTypes, TurnRecord, Recorded, SaveRecord, Phases, ProcRecord, Answering
    <2>2. /\ saved' \in [Op -> SaveRecord]
          /\ \A u \in Op : saved[u].reply # None => saved'[u] = saved[u]
          /\ \A u \in Op : saved'[u].reply # None => Said(u, saved'[u].reply)
      <3>1. CASE Turns!Accepts(l.op, l.reply)
        <4>1. saved' = Turns!Stored(l.op, l.reply, l.receipt)
          BY <1>5, <3>1 DEF Turns!LatePersist
        <4>. QED BY <2>1, <3>1, <4>1, TurnsStored
      <3>2. CASE ~ Turns!Accepts(l.op, l.reply)
        BY <1>5, <3>2 DEF Turns!LatePersist, TurnsInv, TurnTypes, TurnRecord, Recorded, SaveRecord, Phases, ProcRecord, Answering, Keeps
      <3>. QED BY <3>1, <3>2
    <2>3. TurnTypes' /\ Sending'
      BY <2>1, <2>2 DEF TurnsInv, TurnTypes, TurnRecord, Recorded, SaveRecord, Phases, ProcRecord, Sending, Turns!Pending
    <2>4. ASSUME NEW q \in Process PROVE Holds(q)'
      <3>1. Holds(q) /\ (turnsProc[q].pc = "finish" => turnsProc[q].op \in Op)
        BY DEF TurnsInv, TurnTypes, TurnRecord, Recorded, SaveRecord, Phases, ProcRecord, Answering
      <3>2. turnsProc[q].pc = "finish" => saved[turnsProc[q].op].reply # None
        BY <3>1 DEF Holds, Said
      <3>. QED BY <2>1, <2>2, <3>1, <3>2 DEF Holds, Said
    <2>5. ASSUME NEW u \in Op PROVE Keeps(u)'
      <3>1. Keeps(u) /\ (turn[u].state = "completed" => saved[u].reply # None)
        BY DEF TurnsInv, Answering, Keeps, Said
      <3>. QED BY <2>1, <2>2, <3>1 DEF Keeps, Said
    <2>6. \A k \in late' : Said(k.op, k.reply)'
      BY <2>1 DEF TurnsInv, Answering, Said
    <2>. QED BY <2>3, <2>4, <2>5, <2>6 DEF TurnsInv, Answering
  <1>6. ASSUME NEW p \in Process, Turns!PersistTimesOut(p)
        PROVE  TurnsInv'
    <2>1. /\ turnsProc[p].pc = "persist" /\ turnsProc[p].op \in Op /\ Said(turnsProc[p].op, turnsProc[p].reply)
          /\ turnsProc[p].reply \in TurnReply /\ turnsProc[p].gen \in TurnReply
          /\ turnsProc' = [turnsProc EXCEPT ![p].pc = "leave"]
          /\ late' = late \cup {[op |-> turnsProc[p].op, reply |-> turnsProc[p].reply, receipt |-> turnsProc[p].gen]}
          /\ UNCHANGED <<turn, saved, sent, answer, turnsDelivery, post, gen>>
      BY <1>6 DEF Turns!PersistTimesOut, Turns!At, Turns!Goes, TurnsInv, TurnTypes, TurnRecord, Recorded, SaveRecord, Phases, ProcRecord, Answering, Holds, TurnReply
    <2>2. /\ turnsProc' \in [Process -> ProcRecord]
          /\ turnsProc'[p].pc = "leave" /\ turnsProc'[p].op = turnsProc[p].op /\ \A q \in Process \ {p} : turnsProc'[q] = turnsProc[q]
      BY <2>1 DEF TurnsInv, TurnTypes, TurnRecord, Recorded, SaveRecord, Phases, ProcRecord
    <2>3. TurnTypes'
      BY <2>1, <2>2 DEF TurnsInv, TurnTypes, TurnRecord, Recorded, SaveRecord, Phases, ProcRecord
    <2>4. Sending'
      BY <2>1, <2>2 DEF TurnsInv, Sending, Turns!Pending
    <2>5. (\A q \in Process : Holds(q)') /\ (\A o \in Op : Keeps(o)')
      BY <2>1, <2>2 DEF TurnsInv, Answering, Holds, Keeps, Said
    <2>6. \A l \in late' : Said(l.op, l.reply)'
      BY <2>1 DEF TurnsInv, Answering, Said
    <2>. QED BY <2>3, <2>4, <2>5, <2>6 DEF TurnsInv, Answering
  \* a process that takes the lease, leaves it or stops
  <1>7. ASSUME NEW p \in Process, NEW next,
               next \in Starting,
               next.pc # "idle" => next.op \in Op,
               turnsProc' = [turnsProc EXCEPT ![p] = next], turn' \in {turn, Turns!GivenUp}, gen' \in Nat,
               late' \subseteq late, UNCHANGED <<saved, sent, answer, turnsDelivery, post>>
        PROVE  TurnsInv'
    <2>1. /\ turn' \in [Op -> TurnRecord]
          /\ \A o \in Op : /\ turn[o].state # "dispatched" => turn'[o] = turn[o]
                           /\ turn[o].state = "dispatched" => turn'[o].state \in Turns!Uncertain
                           /\ turn'[o].reply = turn[o].reply
      BY <1>7, TurnsGivenUp
    <2>2. /\ turnsProc' \in [Process -> ProcRecord]
          /\ turnsProc'[p] = next /\ \A q \in Process \ {p} : turnsProc'[q] = turnsProc[q]
      BY <1>7 DEF Starting, TurnsInv, TurnTypes, TurnRecord, Recorded, SaveRecord, Phases, ProcRecord
    <2>3. TurnTypes'
      BY <1>7, <2>1, <2>2 DEF TurnsInv, TurnTypes, TurnRecord, Recorded, SaveRecord, Phases, ProcRecord
    <2>4. Turns!Pending' = Turns!Pending
      BY <2>1 DEF Turns!Pending, Turns!Uncertain
    <2>5. \A o \in Op : /\ turn'[o].state \in {"none", "prepared"} <=> turn[o].state \in {"none", "prepared"}
                        /\ turn'[o].state = "completed" <=> turn[o].state = "completed"
                        /\ turn[o].state = "completed" => turn'[o] = turn[o]
      BY <2>1 DEF Turns!Uncertain
    <2>6. Sending'
      <3>1. \A q \in Process : turnsProc'[q].pc = "send" => turnsProc'[q] = turnsProc[q] /\ turnsProc[q].op \in Op
        <4>1. turnsProc'[p].pc # "send"
          BY <1>7, <2>2 DEF Starting
        <4>. QED BY <2>2, <4>1 DEF TurnsInv, TurnTypes
      <3>. QED BY <1>7, <2>4, <2>5, <3>1 DEF TurnsInv, Sending
    <2>7. \A q \in Process : Holds(q)'
      BY <1>7, <2>2 DEF Starting, TurnsInv, Answering, Holds, Said
    <2>8. \A o \in Op : Keeps(o)'
      <3>. SUFFICES ASSUME NEW o \in Op PROVE Keeps(o)'
        OBVIOUS
      <3>1. Keeps(o) /\ turn'[o].reply = turn[o].reply
        BY <2>1 DEF TurnsInv, Answering
      <3>2. CASE turn[o].state = "completed"
        BY <1>7, <2>5, <3>1, <3>2 DEF Keeps, Said
      <3>3. CASE turn[o].state # "completed"
        BY <1>7, <2>5, <3>1, <3>3 DEF Keeps, Said
      <3>. QED BY <3>2, <3>3
    <2>9. \A l \in late' : Said(l.op, l.reply)'
      BY <1>7 DEF TurnsInv, Answering, Said
    <2>. QED BY <2>3, <2>6, <2>7, <2>8, <2>9 DEF TurnsInv, Answering
  <1>8. Turns!Idle \in Starting /\ Turns!Idle.pc = "idle"
    BY DEF Starting, TurnRecord, Recorded, SaveRecord, Phases, ProcRecord, Turns!Idle, TurnReply
  <1>9. ASSUME NEW p \in Process, NEW o \in Op, NEW i \in Input \cup {None}, Turns!Acquire(p, o, i)
        PROVE  TurnsInv'
    <2> DEFINE next == [Turns!Idle EXCEPT !.pc = IF i = None THEN "reconcile" ELSE "run",
                                          !.op = o, !.input = i, !.gen = gen + 1]
    <2>1. /\ turnsProc' = [turnsProc EXCEPT ![p] = next] /\ turn' = Turns!GivenUp /\ gen' = gen + 1
          /\ UNCHANGED <<saved, late, sent, answer, turnsDelivery, post>>
      BY <1>9 DEF Turns!Acquire
    <2>2. gen \in Nat
      BY DEF TurnsInv, TurnTypes, TurnRecord, Recorded, SaveRecord, Phases, ProcRecord
    <2>3. /\ next \in Starting
          /\ next.op = o
      <3>1. Turns!Idle \in Starting
        BY DEF Turns!Idle, Starting, TurnReply
      <3>2. next \in Starting
        <4>1. gen + 1 \in Nat
          BY <2>2
        <4>. QED BY <3>1, <4>1, TurnStarts
      <3>3. next.op = o
        BY <3>1 DEF Starting
      <3>. QED BY <3>2, <3>3
    <2> HIDE DEF next
    <2>4. gen' \in Nat /\ late' \subseteq late /\ (next.pc # "idle" => next.op \in Op)
      BY <2>1, <2>2, <2>3
    <2>. QED BY <1>7, <2>1, <2>3, <2>4
  <1>10. ASSUME NEW p \in Process, Turns!Release(p) \/ Turns!Crash(p)
         PROVE  TurnsInv'
    <2>1. /\ turnsProc' = [turnsProc EXCEPT ![p] = Turns!Idle] /\ turn' \in {turn, Turns!GivenUp} /\ gen' = gen
          /\ late' \subseteq late /\ UNCHANGED <<saved, sent, answer, turnsDelivery, post>>
      BY <1>10 DEF Turns!Release, Turns!Crash
    <2>2. gen' \in Nat
      BY <2>1 DEF TurnsInv, TurnTypes, TurnRecord, Recorded, SaveRecord, Phases, ProcRecord
    <2>. QED BY <1>7, <1>8, <2>1, <2>2
  <1>11. ASSUME NEW o \in Op, Turns!Publish(o) \/ Turns!DeliveryEnds(o) \/ Turns!ProviderAnswers(o)
         PROVE  TurnsInv'
    <2>1. UNCHANGED <<turn, saved, turnsProc, late, sent, gen>>
      BY <1>11 DEF Turns!Publish, Turns!DeliveryEnds, Turns!ProviderAnswers
    <2>2. Sending'
      BY <2>1 DEF TurnsInv, Sending, Turns!Pending
    <2>3. CASE Turns!Publish(o)
      <3>1. /\ turn[o].state = "completed" /\ post' = [post EXCEPT ![o] = saved[o]]
            /\ turnsDelivery' = [turnsDelivery EXCEPT ![o] = "done"] /\ answer' = answer
        BY <2>3 DEF Turns!Publish
      <3>2. TurnTypes'
        BY <2>1, <3>1 DEF TurnsInv, TurnTypes, TurnRecord, Recorded, SaveRecord, Phases, ProcRecord
      <3>3. (\A q \in Process : Holds(q)') /\ \A l \in late' : Said(l.op, l.reply)'
        BY <2>1, <3>1 DEF TurnsInv, Answering, Holds, Said
      <3>4. \A u \in Op : post'[u] = IF u = o THEN saved[o] ELSE post[u]
        BY <3>1 DEF TurnsInv, TurnTypes
      <3>5. ASSUME NEW u \in Op PROVE Keeps(u)'
        <4>1. Keeps(u)
          BY DEF TurnsInv, Answering
        <4>. QED BY <2>1, <3>1, <3>4, <4>1 DEF Keeps, Said
      <3>. QED BY <2>2, <3>2, <3>3, <3>5 DEF TurnsInv, Answering
    <2>4. CASE Turns!DeliveryEnds(o)
      <3>1. turnsDelivery' = [turnsDelivery EXCEPT ![o] = "cancelled"] /\ UNCHANGED <<answer, post>>
        BY <2>4 DEF Turns!DeliveryEnds
      <3>2. TurnTypes'
        BY <2>1, <3>1 DEF TurnsInv, TurnTypes, TurnRecord, Recorded, SaveRecord, Phases, ProcRecord
      <3>3. Answering'
        BY <2>1, <3>1 DEF TurnsInv, Answering, Holds, Keeps, Said
      <3>. QED BY <2>2, <3>2, <3>3 DEF TurnsInv
    <2>5. CASE Turns!ProviderAnswers(o)
      <3>1. answer' = [answer EXCEPT ![o] = 1] /\ answer[o] = None /\ UNCHANGED <<turnsDelivery, post>>
        <4>1. sent[o] = 1 /\ answer[o] \in {None, 0} /\ (answer[o] # None => answer[o] = 1)
          BY <2>5 DEF Turns!ProviderAnswers, TurnsInv, TurnTypes, TurnRecord, Recorded, SaveRecord, Phases, ProcRecord, Sending, Answering, Keeps
        <4>. QED BY <2>5, <4>1 DEF Turns!ProviderAnswers
      <3>2. \A u, r : Said(u, r) => Said(u, r)'
        BY <3>1 DEF Said
      <3>3. (\A q \in Process : Holds(q)') /\ \A l \in late' : Said(l.op, l.reply)'
        BY <2>1, <3>2 DEF TurnsInv, Answering, Holds
      <3>4. \A u \in Op : Keeps(u)'
        BY <2>1, <3>1, <3>2 DEF TurnsInv, TurnTypes, TurnRecord, Recorded, SaveRecord, Phases, ProcRecord, Answering, Keeps
      <3>5. TurnTypes'
        BY <2>1, <3>1 DEF TurnsInv, TurnTypes, TurnRecord, Recorded, SaveRecord, Phases, ProcRecord, TurnReply
      <3>. QED BY <2>2, <3>3, <3>4, <3>5 DEF TurnsInv, Answering
    <2>. QED BY <1>11, <2>3, <2>4, <2>5
  <1>12. CASE UNCHANGED <<turn, saved, turnsProc, late, sent, answer, turnsDelivery, post, gen>>
    BY <1>12 DEF TurnsInv, TurnTypes, TurnRecord, Recorded, SaveRecord, Phases, ProcRecord, Sending, Turns!Pending, Answering, Holds, Keeps, Said
  <1>13. CASE Turns!Expire \/ UNCHANGED Turns!vars
    BY <1>12, <1>13 DEF Turns!Expire, Turns!vars
  <1>. QED BY <1>1, <1>2, <1>3, <1>4, <1>5, <1>6, <1>9, <1>10, <1>11, <1>13 DEF Turns!Next

LEMMA TurnsCounts == \A S : Turns!Cardinality(S) = Cardinality(S)
  BY Zenon DEF Turns!Cardinality, Cardinality

LEMMA TurnsAreSafe ==
    ASSUME TurnsInv
    PROVE  Turns!TurnsSafe
  <1> DEFINE S == {o \in Op : sent[o] > 0 /\ turn[o].state # "completed"}
  <1>1. \A o, u \in S : o = u
    BY DEF TurnsInv, TurnTypes, TurnRecord, Recorded, SaveRecord, Phases, ProcRecord, Sending, Turns!Pending, Turns!Uncertain
  <1>2. S = {} \/ \E o : S = {o}
    BY <1>1
  <1>3. Cardinality(S) <= 1
    <2>1. CASE S = {}
      BY <2>1, FS_EmptySet
    <2>2. ASSUME NEW o, S = {o} PROVE Cardinality(S) <= 1
      <3>1. Cardinality({o}) = 1
        BY FS_Singleton
      <3>. QED BY <2>2, <3>1
    <2>. QED BY <1>2, <2>1, <2>2
  <1>4. Turns!SentAtMostOnce
    BY DEF Turns!SentAtMostOnce, TurnsInv, Sending
  <1>5. Turns!RepliesAreTrue
    BY <1>3, TurnsCounts DEF Turns!RepliesAreTrue, TurnsInv, Answering, Keeps, Said
  <1>. QED BY <1>4, <1>5 DEF Turns!TurnsSafe

\* Whoever replays a turn after a crash, it reaches the provider at most once; while it is not
\* known what became of it no other one is sent; and what the room shows is what the provider
\* said: for any number of processes, operations, leases and faults.
THEOREM TurnsReplayed ==
    ASSUME Turns!TurnsAssumption
    PROVE  Turns!Spec => []Turns!TurnsSafe
  <1>1. Turns!Init => TurnsInv
    <2>. SUFFICES ASSUME Turns!Init PROVE TurnsInv
      OBVIOUS
    <2>1. /\ \A o \in Op : /\ turn[o] = [state |-> "none", input |-> None, reply |-> None, receipt |-> None]
                           /\ saved[o] = [reply |-> None, receipt |-> None] /\ sent[o] = 0 /\ answer[o] = None /\ post[o] = None
          /\ \A p \in Process : turnsProc[p] = Turns!Idle
          /\ late = {}
      BY DEF Turns!Init, Turns!NoTurn, Turns!NoSave
    <2>2. TurnTypes
      <3>1. Turns!NoTurn \in TurnRecord /\ Turns!NoSave \in SaveRecord /\ Turns!Idle \in ProcRecord /\ Turns!Idle.pc = "idle"
        BY DEF Turns!NoTurn, Turns!NoSave, Turns!Idle, TurnRecord, SaveRecord, ProcRecord, Phases, TurnReply
      <3>. QED BY <3>1 DEF Turns!Init, TurnTypes, TurnReply
    <2>3. Sending
      BY <2>1 DEF Sending, Turns!Idle, Turns!Pending, Turns!Uncertain
    <2>4. Answering
      BY <2>1 DEF Answering, Holds, Keeps, Turns!Idle
    <2>. QED BY <2>2, <2>3, <2>4 DEF TurnsInv
  <1>2. TurnsInv /\ [Turns!Next]_(Turns!vars) => TurnsInv'
    BY TurnsStep
  <1>3. TurnsInv => Turns!TurnsSafe
    BY TurnsAreSafe
  <1>. QED BY <1>1, <1>2, <1>3, PTL DEF Turns!Spec

\* Beside everything else, a turn of a subscription session reaches the provider once, no
\* other one is sent while its outcome is not known, and the room shows what the provider
\* said to it.
THEOREM AgentsTakeTurns == Spec => []TurnsSafe
  <1>1. Init => Turns!Init
    BY DEF Init
  <1>2. [Next]_vars => [Turns!Next]_(Turns!vars)
    <2>1. UNCHANGED turnsVars => UNCHANGED Turns!vars
      BY DEF turnsVars, Turns!vars, Turns!session, Turns!provider, Turns!room
    <2>2. Next => Turns!Next \/ UNCHANGED turnsVars
      BY DEF Next
    <2>3. UNCHANGED vars => UNCHANGED turnsVars
      BY DEF vars
    <2>. QED BY <2>1, <2>2, <2>3
  <1>. QED BY <1>1, <1>2, TurnsAssumed, TurnsReplayed, PTL DEF Spec, Turns!Spec, TurnsSafe

(***************************************************************************)
(* The tools of an agent.  Receipts are only added, each for an attempt    *)
(* that had calls left, and what an attempt has observed of a source does  *)
(* not change; findings come with the one receipt for saving them.         *)
(***************************************************************************)
ToolReceipts ==
    [tool : {"read", "fetch", "post", "save"}, generation : Tools!Gens, revision : Nat,
     seen : {"pending", "page", "error", None}]

\* the calls of an attempt, and those that saved something
OfGen(rs, g) == {r \in DOMAIN rs : rs[r].generation = g}
SavesOf(rs, g) == {r \in DOMAIN rs : rs[r].generation = g /\ rs[r].tool = "save"}

Sourced(s, rs, g) ==
    /\ s \subseteq DOMAIN rs /\ s # {}
    /\ \A r \in s : rs[r].generation = g /\ rs[r].seen = "page"
    /\ \E r \in DOMAIN rs : SavesOf(rs, g) = {r}

ToolsInv ==
    /\ toolsReceipts \in Seq(ToolReceipts) /\ policy.revision \in Nat /\ DOMAIN findings = Tools!Gens
    /\ \A g \in Tools!Gens :
          /\ IsFiniteSet(OfGen(toolsReceipts, g)) /\ Cardinality(OfGen(toolsReceipts, g)) <= Limit
          /\ (findings[g] = {} /\ SavesOf(toolsReceipts, g) = {}) \/ Sourced(findings[g], toolsReceipts, g)

LEMMA ToolCounts == \A S : Tools!Cardinality(S) = Cardinality(S)
  BY Zenon DEF Tools!Cardinality, Cardinality

LEMMA ToolsUses == \A g : Tools!Uses(g) = Cardinality(OfGen(toolsReceipts, g))
  BY ToolCounts, Zenon DEF Tools!Uses, OfGen

\* Nothing is recorded.
LEMMA ToolsRest ==
    ASSUME ToolsInv, UNCHANGED <<toolsReceipts, findings>>, policy'.revision \in Nat, origin # None => origin' = origin
    PROVE  ToolsInv' /\ Tools!ActsWithAuthority /\ Tools!RecordsStay
  <1>1. ToolsInv'
    BY DEF ToolsInv, Sourced
  <1>2. Tools!ActsWithAuthority
    BY DEF Tools!ActsWithAuthority
  <1>3. Tools!RecordsStay
    BY DEF Tools!RecordsStay, ToolsInv
  <1>. QED BY <1>1, <1>2, <1>3

\* A call is counted for an attempt that may make it.
LEMMA ToolsRecord ==
    ASSUME Tools!ToolsAssumption, ToolsInv, NEW g \in Tools!Gens, NEW tool \in {"read", "fetch", "post", "save"},
           NEW seen \in {"pending", "page", "error", None},
           toolsReceipts' = Tools!Record(g, tool, seen), UNCHANGED <<policy, origin>>,
           Tools!Current(g), Tools!TurnCheck(g), tool \in policy.grants,
           \/ tool # "save" /\ UNCHANGED findings
           \/ /\ tool = "save" /\ findings[g] = {}
              /\ \E s \in (SUBSET DOMAIN toolsReceipts) \ {{}} :
                    Tools!Supported(g, s) /\ findings' = [findings EXCEPT ![g] = s]
    PROVE  ToolsInv' /\ Tools!ActsWithAuthority /\ Tools!RecordsStay
  <1>0. PICK n : n = Len(toolsReceipts) + 1
    OBVIOUS
  <1> DEFINE x == [tool |-> tool, generation |-> g, revision |-> policy.revision, seen |-> seen]
  <1>1. x \in ToolReceipts /\ x.generation = g /\ x.tool = tool /\ toolsReceipts' = Append(toolsReceipts, x)
    BY DEF Tools!Record, ToolReceipts, ToolsInv
  <1> HIDE DEF x
  <1>2. /\ toolsReceipts' \in Seq(ToolReceipts) /\ Len(toolsReceipts') = n /\ n \notin DOMAIN toolsReceipts
        /\ DOMAIN toolsReceipts' = DOMAIN toolsReceipts \cup {n} /\ toolsReceipts'[n] = x /\ \A r \in DOMAIN toolsReceipts : toolsReceipts'[r] = toolsReceipts[r]
        /\ \A h : OfGen(toolsReceipts', h) = IF g = h THEN OfGen(toolsReceipts, h) \cup {n} ELSE OfGen(toolsReceipts, h)
        /\ \A h : SavesOf(toolsReceipts', h) =
              IF g = h /\ tool = "save" THEN SavesOf(toolsReceipts, h) \cup {n} ELSE SavesOf(toolsReceipts, h)
    <2>1. toolsReceipts \in Seq(ToolReceipts)
      BY DEF ToolsInv
    <2>2. /\ toolsReceipts' \in Seq(ToolReceipts) /\ Len(toolsReceipts') = n /\ n \notin DOMAIN toolsReceipts
          /\ DOMAIN toolsReceipts' = DOMAIN toolsReceipts \cup {n} /\ toolsReceipts'[n] = x /\ \A r \in DOMAIN toolsReceipts : toolsReceipts'[r] = toolsReceipts[r]
          /\ \A h : OfGen(toolsReceipts', h) = IF x.generation = h THEN OfGen(toolsReceipts, h) \cup {n} ELSE OfGen(toolsReceipts, h)
          /\ \A h : SavesOf(toolsReceipts', h) =
                IF x.generation = h /\ x.tool = "save" THEN SavesOf(toolsReceipts, h) \cup {n} ELSE SavesOf(toolsReceipts, h)
      <3>1. /\ toolsReceipts' \in Seq(ToolReceipts) /\ Len(toolsReceipts') = n /\ n \notin DOMAIN toolsReceipts
            /\ DOMAIN toolsReceipts' = DOMAIN toolsReceipts \cup {n} /\ toolsReceipts'[n] = x /\ \A r \in DOMAIN toolsReceipts : toolsReceipts'[r] = toolsReceipts[r]
        BY <1>0, <1>1, <2>1
      <3>. QED BY <3>1 DEF OfGen, SavesOf
    <2>. QED BY <1>1, <2>2
  <1>3. n = Len(toolsReceipts) + 1 /\ Len(toolsReceipts) \in Nat
    BY <1>0 DEF ToolsInv
  <1>4. ASSUME NEW h \in Tools!Gens
        PROVE  IsFiniteSet(OfGen(toolsReceipts', h)) /\ Cardinality(OfGen(toolsReceipts', h)) <= Limit
    <2>1. IsFiniteSet(OfGen(toolsReceipts, h)) /\ Cardinality(OfGen(toolsReceipts, h)) <= Limit /\ Cardinality(OfGen(toolsReceipts, h)) \in Nat
      BY FS_CardinalityType DEF ToolsInv
    <2>2. CASE g # h
      BY <1>2, <2>1, <2>2
    <2>3. CASE g = h
      <3>1. n \notin OfGen(toolsReceipts, h)
        BY <1>2 DEF OfGen
      <3>2. OfGen(toolsReceipts', h) = OfGen(toolsReceipts, h) \cup {n}
        BY <1>2, <2>3
      <3>3. IsFiniteSet(OfGen(toolsReceipts', h)) /\ Cardinality(OfGen(toolsReceipts', h)) = Cardinality(OfGen(toolsReceipts, h)) + 1
        BY <2>1, <3>1, <3>2, FS_AddElement
      <3>4. Cardinality(OfGen(toolsReceipts, h)) < Limit /\ Limit \in Nat
        BY <2>3, ToolsUses DEF Tools!TurnCheck, Tools!ToolsAssumption
      <3>. QED BY <2>1, <3>3, <3>4
    <2>. QED BY <2>2, <2>3
  <1>5. ASSUME NEW h \in Tools!Gens, h # g \/ tool # "save"
        PROVE  (findings'[h] = {} /\ SavesOf(toolsReceipts', h) = {}) \/ Sourced(findings'[h], toolsReceipts', h)
    <2>1. SavesOf(toolsReceipts', h) = SavesOf(toolsReceipts, h) /\ findings'[h] = findings[h]
      BY <1>2, <1>5 DEF ToolsInv
    <2>2. (findings[h] = {} /\ SavesOf(toolsReceipts, h) = {}) \/ Sourced(findings[h], toolsReceipts, h)
      BY DEF ToolsInv
    <2>. QED BY <1>2, <2>1, <2>2 DEF Sourced
  <1>6. ASSUME tool = "save" PROVE Sourced(findings'[g], toolsReceipts', g)
    <2>1. PICK s \in (SUBSET DOMAIN toolsReceipts) \ {{}} :
             Tools!Supported(g, s) /\ findings' = [findings EXCEPT ![g] = s]
      BY <1>6
    <2>2. findings'[g] = s /\ s # {}
      BY <2>1 DEF ToolsInv
    <2>3. \A r \in s : toolsReceipts[r].generation = g /\ toolsReceipts[r].seen = "page"
      BY <2>1 DEF Tools!Supported, Tools!Usable
    <2>4. SavesOf(toolsReceipts, g) = {}
      BY <1>6 DEF ToolsInv, Sourced
    <2>5. SavesOf(toolsReceipts', g) = {n}
      BY <1>2, <1>6, <2>4
    <2>. QED BY <1>2, <2>2, <2>3, <2>5 DEF Sourced
  <1>7. DOMAIN findings' = Tools!Gens /\ policy'.revision \in Nat
    BY DEF ToolsInv
  <1>8. ToolsInv'
    <2>1. \A h \in Tools!Gens : (findings'[h] = {} /\ SavesOf(toolsReceipts', h) = {}) \/ Sourced(findings'[h], toolsReceipts', h)
      BY <1>5, <1>6
    <2>. QED BY <1>2, <1>4, <1>7, <2>1 DEF ToolsInv
  <1>9. Tools!ActsWithAuthority
    <2>1. \A r \in DOMAIN toolsReceipts' \ DOMAIN toolsReceipts :
              /\ toolsReceipts'[r].tool \in policy.grants /\ toolsDelivery.live /\ toolsDelivery.generation = toolsReceipts'[r].generation /\ assigned
      BY <1>1, <1>2 DEF Tools!Current, Tools!TurnCheck, Tools!Alive
    <2>2. ASSUME NEW h \in Tools!Gens, findings'[h] # findings[h], NEW r \in findings'[h]
          PROVE  toolsReceipts[r].tool \in policy.grants /\ (toolsReceipts[r].tool = "read" => shared)
      <3>1. PICK s : Tools!Supported(g, s) /\ findings' = [findings EXCEPT ![g] = s]
        BY <2>2
      <3>2. r \in s
        BY <2>2, <3>1 DEF ToolsInv
      <3>. QED BY <3>1, <3>2 DEF Tools!Supported, Tools!StillReadable
    <2>. QED BY <2>1, <2>2 DEF Tools!ActsWithAuthority
  <1>10. Tools!RecordsStay
    <2>1. \A h \in Tools!Gens : findings[h] # {} => findings'[h] = findings[h]
      BY DEF ToolsInv
    <2>. QED BY <1>2, <1>3, <2>1 DEF Tools!RecordsStay
  <1>. QED BY <1>8, <1>9, <1>10

\* What was fetched is observed, unless something else was.
LEMMA ToolsObserve ==
    ASSUME ToolsInv, NEW r, NEW seen \in {"page", "error"}, toolsReceipts[r].seen \in {"pending", seen},
           toolsReceipts' = [toolsReceipts EXCEPT ![r].seen = seen], UNCHANGED <<policy, findings, origin>>
    PROVE  ToolsInv' /\ Tools!ActsWithAuthority /\ Tools!RecordsStay
  <1>1. CASE r \notin DOMAIN toolsReceipts
    <2>1. toolsReceipts' = toolsReceipts
      BY <1>1 DEF ToolsInv
    <2>. QED BY <2>1, ToolsRest DEF ToolsInv
  <1>2. CASE r \in DOMAIN toolsReceipts
    <2>1. toolsReceipts \in Seq(ToolReceipts) /\ toolsReceipts[r] \in ToolReceipts
      BY <1>2 DEF ToolsInv
    <2> DEFINE x == [toolsReceipts[r] EXCEPT !.seen = seen]
    <2>2. /\ x \in ToolReceipts /\ x.generation = toolsReceipts[r].generation /\ x.tool = toolsReceipts[r].tool /\ x.seen = seen
          /\ toolsReceipts[r].seen = seen => x = toolsReceipts[r]
      BY <2>1 DEF ToolReceipts
    <2>3. toolsReceipts' = [toolsReceipts EXCEPT ![r] = x]
      OBVIOUS
    <2> HIDE DEF x
    <2>4. /\ toolsReceipts' \in Seq(ToolReceipts) /\ DOMAIN toolsReceipts' = DOMAIN toolsReceipts /\ Len(toolsReceipts') = Len(toolsReceipts) /\ Len(toolsReceipts) \in Nat
          /\ toolsReceipts'[r] = x /\ \A q \in DOMAIN toolsReceipts : q # r => toolsReceipts'[q] = toolsReceipts[q]
      BY <1>2, <2>1, <2>2, <2>3
    <2>5. \A q \in DOMAIN toolsReceipts :
             /\ toolsReceipts'[q].generation = toolsReceipts[q].generation /\ toolsReceipts'[q].tool = toolsReceipts[q].tool
             /\ toolsReceipts[q].seen \in {"page", "error"} => toolsReceipts'[q] = toolsReceipts[q]
      BY <2>2, <2>4
    <2>6. \A g : OfGen(toolsReceipts', g) = OfGen(toolsReceipts, g) /\ SavesOf(toolsReceipts', g) = SavesOf(toolsReceipts, g)
      BY <2>4, <2>5 DEF OfGen, SavesOf
    <2>7. \A g \in Tools!Gens : Sourced(findings[g], toolsReceipts, g) => Sourced(findings'[g], toolsReceipts', g)
      BY <2>4, <2>5, <2>6 DEF Sourced
    <2>8. ToolsInv'
      BY <2>4, <2>6, <2>7 DEF ToolsInv
    <2>9. Tools!ActsWithAuthority
      BY <2>4 DEF Tools!ActsWithAuthority
    <2>10. Tools!RecordsStay
      BY <2>4, <2>5 DEF Tools!RecordsStay
    <2>. QED BY <2>8, <2>9, <2>10
  <1>. QED BY <1>1, <1>2

LEMMA ToolsKeeps ==
    ASSUME Tools!ToolsAssumption, ToolsInv, [Tools!Next]_(Tools!vars)
    PROVE  ToolsInv' /\ Tools!ActsWithAuthority /\ Tools!RecordsStay
  <1>1. policy.revision \in Nat
    BY DEF ToolsInv
  <1>2. CASE UNCHANGED Tools!vars
    BY <1>1, <1>2, ToolsRest DEF Tools!vars
  <1>3. CASE Tools!Owner
    <2>1. UNCHANGED <<toolsReceipts, findings>> /\ (origin # None => origin' = origin)
      BY <1>3 DEF Tools!Owner, Tools!PolicySet, Tools!GrantLocal, Tools!Unassign, Tools!Share, Tools!SaveReply
    <2>2. policy'.revision \in Nat
      BY <1>1, <1>3 DEF Tools!Owner, Tools!PolicySet, Tools!GrantLocal, Tools!Unassign, Tools!Share, Tools!SaveReply
    <2>. QED BY <2>1, <2>2, ToolsRest
  <1>4. CASE Tools!Claim \/ Tools!Lapse
    BY <1>1, <1>4, ToolsRest DEF Tools!Claim, Tools!Lapse
  <1>5. ASSUME NEW g \in Tools!Gens, Tools!Attempt(g)
        PROVE  ToolsInv' /\ Tools!ActsWithAuthority /\ Tools!RecordsStay
    <2>1. CASE UNCHANGED <<policy, toolsReceipts, findings, origin>>
      BY <1>1, <2>1, ToolsRest
    <2>2. CASE \/ Tools!LoadPolicy(g) \/ Tools!NoCapacity(g) \/ Tools!RunsOut(g) \/ Tools!Malformed(g) \/ Tools!Reply(g)
               \/ Tools!Finish(g) \/ Tools!Crash(g)
      BY <2>1, <2>2 DEF Tools!LoadPolicy, Tools!NoCapacity, Tools!RunsOut, Tools!Malformed, Tools!Reply, Tools!Finish, Tools!Crash
    <2>3. CASE (\E batch \in Tools!Batches(g) : Tools!ModelCalls(g, batch)) \/ \E empty \in BOOLEAN : Tools!ModelAnswers(g, empty)
      BY <2>1, <2>3 DEF Tools!ModelCalls, Tools!ModelAnswers
    <2>4. ASSUME NEW lost \in Tools!Losses, Tools!FetchAuthorize(g, lost)
          PROVE  ToolsInv' /\ Tools!ActsWithAuthority /\ Tools!RecordsStay
      <3>1. CASE Tools!Authorized(g, "fetch")
        <4>1. toolsReceipts' = Tools!Record(g, "fetch", "pending") /\ UNCHANGED <<policy, findings, origin>>
          BY <2>4, <3>1 DEF Tools!FetchAuthorize
        <4>2. "fetch" \in {"read", "fetch", "post", "save"} /\ "pending" \in {"pending", "page", "error", None}
          OBVIOUS
        <4>. QED BY <3>1, <4>1, <4>2, ToolsRecord DEF Tools!Authorized
      <3>2. CASE ~ Tools!Authorized(g, "fetch")
        BY <2>1, <2>4, <3>2 DEF Tools!FetchAuthorize
      <3>. QED BY <3>1, <3>2
    <2>5. ASSUME NEW seen \in Tools!Fetched, Tools!FetchObserve(g, seen)
          PROVE  ToolsInv' /\ Tools!ActsWithAuthority /\ Tools!RecordsStay
      <3>1. UNCHANGED <<policy, findings, origin>> /\ seen \in {"page", "error"}
        BY <2>5 DEF Tools!FetchObserve, Tools!Fetched
      <3>2. PICK r : \/ toolsReceipts[r].seen \in {"pending", seen} /\ toolsReceipts' = [toolsReceipts EXCEPT ![r].seen = seen]
                     \/ UNCHANGED toolsReceipts
        BY <2>5 DEF Tools!FetchObserve
      <3>. QED BY <2>1, <3>1, <3>2, ToolsObserve
    <2>6. ASSUME NEW lost \in Tools!Losses, Tools!Post(g, lost)
          PROVE  ToolsInv' /\ Tools!ActsWithAuthority /\ Tools!RecordsStay
      <3>1. CASE Tools!Authorized(g, "post")
        <4>1. toolsReceipts' = Tools!Record(g, "post", None) /\ UNCHANGED <<policy, findings, origin>>
          BY <2>6, <3>1 DEF Tools!Post
        <4>2. "post" \in {"read", "fetch", "post", "save"} /\ None \in {"pending", "page", "error", None}
          OBVIOUS
        <4>. QED BY <3>1, <4>1, <4>2, ToolsRecord DEF Tools!Authorized
      <3>2. CASE ~ Tools!Authorized(g, "post")
        BY <2>1, <2>6, <3>2 DEF Tools!Post
      <3>. QED BY <3>1, <3>2
    <2>7. ASSUME NEW stale \in BOOLEAN, Tools!Read(g, stale)
          PROVE  ToolsInv' /\ Tools!ActsWithAuthority /\ Tools!RecordsStay
      <3>1. CASE Tools!Authorized(g, "read") /\ toolsReceipts' = Tools!Record(g, "read", "page")
        <4>1. UNCHANGED <<policy, findings, origin>>
          BY <2>7 DEF Tools!Read
        <4>2. "read" \in {"read", "fetch", "post", "save"} /\ "page" \in {"pending", "page", "error", None}
          OBVIOUS
        <4>. QED BY <3>1, <4>1, <4>2, ToolsRecord DEF Tools!Authorized
      <3>2. CASE UNCHANGED toolsReceipts
        BY <2>1, <2>7, <3>2 DEF Tools!Read
      <3>. QED BY <2>7, <3>1, <3>2 DEF Tools!Read
    <2>8. ASSUME NEW s \in (SUBSET DOMAIN toolsReceipts) \ {{}}, NEW lost \in Tools!Losses, Tools!SaveFindings(g, s, lost)
          PROVE  ToolsInv' /\ Tools!ActsWithAuthority /\ Tools!RecordsStay
      <3> DEFINE may == /\ Tools!Current(g) /\ "save" \in policy.grants /\ Tools!Supported(g, s)
                        /\ findings[g] = {} /\ Tools!TurnCheck(g)
      <3>1. UNCHANGED <<policy, origin>>
        BY <2>8 DEF Tools!SaveFindings
      <3>2. \/ may /\ toolsReceipts' = Tools!Record(g, "save", None) /\ findings' = [findings EXCEPT ![g] = s]
            \/ UNCHANGED <<toolsReceipts, findings>>
        BY <2>8 DEF Tools!SaveFindings
      <3>3. "save" \in {"read", "fetch", "post", "save"} /\ None \in {"pending", "page", "error", None}
        OBVIOUS
      <3>. QED BY <2>1, <3>1, <3>2, <3>3, ToolsRecord
    <2>. QED BY <1>5, <2>2, <2>3, <2>4, <2>5, <2>6, <2>7, <2>8 DEF Tools!Attempt
  <1>. QED BY <1>2, <1>3, <1>4, <1>5 DEF Tools!Next

\* Tools act for the attempt that holds the delivery, within its limit and by what is granted then, and
\* what is recorded of sources and findings stays: for any limit, policies, claims and lost answers.
THEOREM ToolsHold ==
    ASSUME Tools!ToolsAssumption
    PROVE  Tools!Spec => Tools!ToolsSafe
  <1>1. Tools!Init => ToolsInv
    <2>. SUFFICES ASSUME Tools!Init PROVE ToolsInv
      OBVIOUS
    <2>1. toolsReceipts = << >> /\ policy.revision = 1 /\ findings = [g \in Tools!Gens |-> {}]
      BY DEF Tools!Init
    <2>2. DOMAIN toolsReceipts = {} /\ toolsReceipts \in Seq(ToolReceipts)
      BY <2>1
    <2>3. \A g : OfGen(toolsReceipts, g) = {} /\ SavesOf(toolsReceipts, g) = {}
      BY <2>2 DEF OfGen, SavesOf
    <2>4. IsFiniteSet({}) /\ Cardinality({}) = 0 /\ Limit \in Nat
      BY FS_EmptySet DEF Tools!ToolsAssumption
    <2>5. ASSUME NEW g \in Tools!Gens
          PROVE  /\ IsFiniteSet(OfGen(toolsReceipts, g)) /\ Cardinality(OfGen(toolsReceipts, g)) <= Limit
                 /\ findings[g] = {} /\ SavesOf(toolsReceipts, g) = {}
      <3>1. OfGen(toolsReceipts, g) = {} /\ SavesOf(toolsReceipts, g) = {} /\ findings[g] = {}
        BY <2>1, <2>3
      <3>2. 0 <= Limit
        BY <2>4
      <3>. QED BY <2>4, <3>1, <3>2
    <2>. QED BY <2>1, <2>2, <2>5 DEF ToolsInv
  <1>2. ToolsInv => Tools!WithinLimit /\ Tools!FindingsAreSourced
    <2>. SUFFICES ASSUME ToolsInv PROVE Tools!WithinLimit /\ Tools!FindingsAreSourced
      OBVIOUS
    <2>1. Tools!WithinLimit
      BY ToolsUses DEF ToolsInv, Tools!WithinLimit
    <2>2. ASSUME NEW g \in Tools!Gens, findings[g] # {}
          PROVE  /\ \A r \in findings[g] : toolsReceipts[r].generation = g /\ toolsReceipts[r].seen = "page"
                 /\ Tools!Cardinality({r \in DOMAIN toolsReceipts : toolsReceipts[r].generation = g /\ toolsReceipts[r].tool = "save"}) = 1
      <3>1. Sourced(findings[g], toolsReceipts, g)
        BY <2>2 DEF ToolsInv
      <3>2. PICK r : SavesOf(toolsReceipts, g) = {r}
        BY <3>1 DEF Sourced
      <3>3. Cardinality({r}) = 1
        BY FS_Singleton
      <3>. QED BY <3>1, <3>2, <3>3, ToolCounts DEF Sourced, SavesOf
    <2>3. Tools!FindingsAreSourced
      BY <2>2 DEF Tools!FindingsAreSourced
    <2>. QED BY <2>1, <2>3
  <1>3. ToolsInv /\ [Tools!Next]_(Tools!vars) => ToolsInv' /\ Tools!ActsWithAuthority /\ Tools!RecordsStay
    BY ToolsKeeps
  <1>4. Tools!ActsWithAuthority /\ Tools!RecordsStay /\ Tools!WithinLimit' /\ Tools!FindingsAreSourced' => Tools!ToolsStep
    BY DEF Tools!ToolsStep
  <1>. QED BY <1>1, <1>2, <1>3, <1>4, PTL DEF Tools!Spec, Tools!ToolsSafe

\* Beside everything else, the tools that agent_tools.rs lets an agent use act for the
\* attempt that holds its message, within its limit and by what is granted at that moment,
\* and saved findings rest on pages that attempt has seen.
THEOREM AgentsUseTools == Spec => ToolsSafe
  <1>1. Init => Tools!Init
    BY DEF Init
  <1>2. [Next]_vars => [Tools!Next]_(Tools!vars)
    <2>1. UNCHANGED toolsVars => UNCHANGED Tools!vars
      BY DEF toolsVars, Tools!vars
    <2>2. Next => Tools!Next \/ UNCHANGED toolsVars
      BY DEF Next
    <2>3. UNCHANGED vars => UNCHANGED toolsVars
      BY DEF vars
    <2>. QED BY <2>1, <2>2, <2>3
  <1>3. [Tools!ToolsStep]_(Tools!vars) => [moving = "tools" => Tools!ToolsStep]_toolsVars
    <2>1. UNCHANGED Tools!vars => UNCHANGED toolsVars
      BY DEF toolsVars, Tools!vars
    <2>. QED BY <2>1
  <1>. QED BY <1>1, <1>2, ToolsAssumed, <1>3, ToolsHold, PTL DEF Spec, Tools!Spec, ToolsSafe, Tools!ToolsSafe

(***************************************************************************)
(* Rooms.  A room only grows: what was written stays where it is, under    *)
(* its number and its request.  The requests of the hub's own messages     *)
(* name a delivery, which a worker holds alone until it closes it, and     *)
(* closes once.                                                            *)
(***************************************************************************)
Kinds == {"delivery", "failed", "unroutable"}
IsLog(log) == \E S : log \in Seq(S)
InLog(log, r) == {i \in DOMAIN log : log[i].room = r}
SeqsIn(log, r) == {log[i].seq : i \in InLog(log, r)}
Asked(log, r, q) == \E i \in DOMAIN log : log[i].room = r /\ log[i].request = q
AskedOnce(log) == \A i, j \in DOMAIN log : log[i].room = log[j].room /\ log[i].request = log[j].request => i = j
Numbered(log) == IsLog(log) /\ AskedOnce(log) /\ \A r \in Nat : SeqsIn(log, r) = 1 .. Cardinality(InLog(log, r))

\* new has all that log has
Prolongs(log, new) == Len(log) <= Len(new) /\ \A i \in 1 .. Len(log) : new[i] = log[i]
\* and one message more
ByOne(log, new, m) == Len(new) = Len(log) + 1 /\ Prolongs(log, new) /\ new[Len(new)] = m

RoomRows == [owner : Account, members : SUBSET RoomsAgent]
PassRows == [phase : {"idle", "drain"}, todo : SUBSET RoomsAgent, listed : SUBSET (Nat \X RoomsAgent),
             turn : (Nat \X RoomsAgent) \cup {None}, replied : BOOLEAN]
RoomOf(k) == roomsMessages[k[1]].room

RoomsKnown ==
    /\ rooms \in Seq(RoomRows)
    /\ \A r \in DOMAIN rooms : \A a \in rooms[r].members : AgentOwner[a] = rooms[r].owner
    /\ \A x \in roomsReceipts : x.room \in DOMAIN rooms /\ rooms[x.room].owner = x.owner /\ x.members \subseteq rooms[x.room].members
    /\ \A x, y \in roomsReceipts : x.owner = y.owner /\ x.request = y.request => x = y

LogKnown ==
    /\ Numbered(roomsMessages)
    /\ \A i \in DOMAIN roomsMessages :
          /\ roomsMessages[i].room \in DOMAIN rooms
          /\ roomsMessages[i].request \in RoomsRequest \/ \E kind \in Kinds : \E k \in DOMAIN deliveries : roomsMessages[i].request = <<kind, k>>

Woke ==
    \A k \in DOMAIN deliveries :
        /\ k \in (1 .. Len(roomsMessages)) \X RoomsAgent /\ k[2] \in roomsMessages[k[1]].to /\ ~ roomsMessages[k[1]].system
        /\ k[2] \in rooms[RoomOf(k)].members

Replies ==
    \A i \in DOMAIN roomsMessages : \A k \in DOMAIN deliveries :
        roomsMessages[i].request = <<"delivery", k>> =>
            roomsMessages[i].author = k[2] /\ k[2] \notin roomsMessages[i].to /\ roomsMessages[i].room = RoomOf(k)

Closed(k) ==
    /\ deliveries[k] = "done" => Asked(roomsMessages, RoomOf(k), <<"delivery", k>>)
    /\ deliveries[k] = "failed" => Asked(roomsMessages, RoomOf(k), <<"delivery", k>>) \/ Asked(roomsMessages, RoomOf(k), <<"failed", k>>)
    /\ Asked(roomsMessages, RoomOf(k), <<"failed", k>>) => deliveries[k] = "failed"

\* what is written, and where
RoomsWritten == LogKnown /\ Woke /\ Replies /\ \A k \in DOMAIN deliveries : Closed(k)

\* a delivery that is answered is answered by one worker
OnTurn(d) ==
    /\ passes[d] \in PassRows /\ passes[d].listed \subseteq DOMAIN deliveries
    /\ passes[d].turn = None => ~ passes[d].replied
    /\ passes[d].turn # None =>
          /\ passes[d].turn \in DOMAIN deliveries /\ deliveries[passes[d].turn] = "running"
          /\ passes[d].replied => Asked(roomsMessages, RoomOf(passes[d].turn), <<"delivery", passes[d].turn>>)
          /\ \A e \in Device : passes[e].turn = passes[d].turn => e = d
RoomTurns == DOMAIN passes = Device /\ \A d \in Device : OnTurn(d)

RoomsInv == RoomsKnown /\ RoomsWritten /\ RoomTurns

\* A message more.
LEMMA LogAppend ==
    ASSUME NEW log, IsLog(log), NEW m
    PROVE  /\ IsLog(Append(log, m)) /\ Len(log) \in Nat /\ DOMAIN log = 1 .. Len(log)
           /\ DOMAIN Append(log, m) = 1 .. (Len(log) + 1) /\ ByOne(log, Append(log, m), m)
  <1>1. PICK S : log \in Seq(S)
    BY DEF IsLog
  <1>2. log \in Seq(S \cup {m}) /\ m \in S \cup {m}
    BY <1>1
  <1>3. /\ Append(log, m) \in Seq(S \cup {m}) /\ Len(Append(log, m)) = Len(log) + 1
        /\ \A i \in 1 .. Len(log) : Append(log, m)[i] = log[i] /\ Append(log, m)[Len(log) + 1] = m
    BY <1>2
  <1>4. Append(log, m)[Len(log) + 1] = m
    BY <1>2, AppendProperties
  <1>5. Len(log) \in Nat /\ DOMAIN log = 1 .. Len(log)
    BY <1>1
  <1>6. DOMAIN Append(log, m) = 1 .. (Len(log) + 1)
    BY <1>3
  <1>7. IsLog(Append(log, m))
    BY <1>3 DEF IsLog
  <1>. QED BY <1>3, <1>4, <1>5, <1>6, <1>7 DEF ByOne, Prolongs

LEMMA LogAdd ==
    ASSUME NEW log, Numbered(log), NEW r \in Nat, NEW author, NEW q, NEW system, NEW to, ~ Asked(log, r, q)
    PROVE  \E m : /\ m.room = r /\ m.author = author /\ m.request = q /\ m.system = system /\ m.to = to
                  /\ ByOne(log, Rooms!Add(log, r, author, q, system, to), m)
                  /\ Numbered(Rooms!Add(log, r, author, q, system, to))
  <1>1. PICK m : m = [room |-> r, author |-> author, request |-> q, system |-> system, to |-> to,
                      seq |-> Rooms!NextSequence(log, r)]
    OBVIOUS
  <1>2. m.room = r /\ m.author = author /\ m.request = q /\ m.system = system /\ m.to = to /\ m.seq = Rooms!NextSequence(log, r)
    BY <1>1
  <1>3. PICK new : new = Append(log, m)
    OBVIOUS
  <1>4. Rooms!Add(log, r, author, q, system, to) = new
    BY <1>1, <1>3 DEF Rooms!Add
  <1>5. /\ IsLog(new) /\ Len(log) \in Nat /\ DOMAIN log = 1 .. Len(log) /\ DOMAIN new = 1 .. (Len(log) + 1) /\ ByOne(log, new, m)
    BY <1>3, LogAppend DEF Numbered
  <1>6. new[Len(log) + 1] = m /\ \A i \in DOMAIN log : new[i] = log[i]
    BY <1>5 DEF ByOne, Prolongs
  <1>7. AskedOnce(new)
    <2>1. \A i \in DOMAIN log : ~ (log[i].room = r /\ log[i].request = q)
      BY DEF Asked
    <2>2. \A i \in DOMAIN new : i \in DOMAIN log \/ i = Len(log) + 1
      BY <1>5
    <2>. QED BY <1>2, <1>6, <2>1, <2>2 DEF AskedOnce, Numbered
  <1>8. \A s \in Nat : IsFiniteSet(InLog(log, s)) /\ Cardinality(InLog(log, s)) \in Nat
    <2>. SUFFICES ASSUME NEW s \in Nat PROVE IsFiniteSet(InLog(log, s)) /\ Cardinality(InLog(log, s)) \in Nat
      OBVIOUS
    <2>1. IsFiniteSet(DOMAIN log)
      BY <1>5, FS_Interval
    <2>2. InLog(log, s) \subseteq DOMAIN log
      BY DEF InLog
    <2>. QED BY <2>1, <2>2, FS_Subset, FS_CardinalityType
  <1>9. PICK n : n = Cardinality(InLog(log, r))
    OBVIOUS
  <1>10. n \in Nat /\ SeqsIn(log, r) = 1 .. n
    BY <1>8, <1>9 DEF Numbered
  <1>11. m.seq = n + 1
    <2>1. {0} \cup SeqsIn(log, r) = 0 .. n
      BY <1>10
    <2>2. {0} \cup {log[i].seq : i \in {j \in DOMAIN log : log[j].room = r}} = 0 .. n
      BY <2>1 DEF SeqsIn, InLog
    <2>3. Rooms!Max(0 .. n) = n
      <3>1. n \in 0 .. n /\ \A y \in 0 .. n : n >= y
        BY <1>10
      <3>2. PICK x : x = CHOOSE z \in 0 .. n : \A y \in 0 .. n : z >= y
        OBVIOUS
      <3>3. x \in 0 .. n /\ \A y \in 0 .. n : x >= y
        BY <3>1, <3>2
      <3>4. x = n
        BY <1>10, <3>1, <3>3
      <3>. QED BY <3>2, <3>4 DEF Rooms!Max
    <2>4. Rooms!NextSequence(log, r) = 1 + Rooms!Max(0 .. n)
      BY <2>2 DEF Rooms!NextSequence
    <2>. QED BY <1>2, <1>10, <2>3, <2>4
  <1>12. ASSUME NEW s \in Nat PROVE SeqsIn(new, s) = 1 .. Cardinality(InLog(new, s))
    <2>1. CASE s = r
      <3>1. InLog(new, r) = InLog(log, r) \cup {Len(log) + 1} /\ Len(log) + 1 \notin InLog(log, r)
        BY <1>2, <1>5, <1>6 DEF InLog
      <3>2. Cardinality(InLog(new, r)) = n + 1
        BY <1>8, <1>9, <3>1, FS_AddElement
      <3>3. SeqsIn(new, r) = SeqsIn(log, r) \cup {n + 1}
        <4>1. \A i \in InLog(log, r) : new[i].seq = log[i].seq
          BY <1>6 DEF InLog
        <4>. QED BY <1>6, <1>11, <3>1, <4>1 DEF SeqsIn
      <3>4. (1 .. n) \cup {n + 1} = 1 .. (n + 1)
        BY <1>10
      <3>. QED BY <1>10, <2>1, <3>2, <3>3, <3>4
    <2>2. CASE s # r
      <3>1. InLog(new, s) = InLog(log, s)
        BY <1>2, <1>5, <1>6, <2>2 DEF InLog
      <3>2. \A i \in InLog(log, s) : new[i].seq = log[i].seq
        BY <1>6 DEF InLog
      <3>3. SeqsIn(new, s) = SeqsIn(log, s)
        BY <3>1, <3>2 DEF SeqsIn
      <3>. QED BY <3>1, <3>3 DEF Numbered
    <2>. QED BY <2>1, <2>2
  <1>13. Numbered(new)
    BY <1>5, <1>7, <1>12 DEF Numbered
  <1>. QED BY <1>2, <1>4, <1>5, <1>13

LEMMA AskedStays ==
    ASSUME NEW log, NEW new, IsLog(log), IsLog(new), Prolongs(log, new), NEW r, NEW q, Asked(log, r, q)
    PROVE  Asked(new, r, q)
  <1>1. PICK i \in DOMAIN log : log[i].room = r /\ log[i].request = q
    BY DEF Asked
  <1>2. Len(log) \in Nat /\ Len(new) \in Nat /\ DOMAIN log = 1 .. Len(log) /\ DOMAIN new = 1 .. Len(new)
    BY LogAppend
  <1>3. i \in DOMAIN new /\ new[i] = log[i]
    BY <1>1, <1>2 DEF Prolongs
  <1>. QED BY <1>1, <1>3 DEF Asked

\* A message may be added when it stands in a room and, if it is one of the hub's own, tells of a
\* delivery in the room of that delivery: a reply is by the agent that was asked, and of a failure
\* only when the delivery is closed as failed.
Fitting(m, statuses) ==
    /\ m.room \in DOMAIN rooms
    /\ \/ m.request \in RoomsRequest
       \/ \E kind \in Kinds : \E k \in DOMAIN deliveries :
             /\ m.request = <<kind, k>> /\ m.room = RoomOf(k)
             /\ kind = "delivery" => m.author = k[2] /\ k[2] \notin m.to
             /\ kind = "failed" => statuses[k] = "failed"

\* Messages are added, rooms and the deliveries they make grow, deliveries that have not failed change.
LEMMA RoomsGrow ==
    ASSUME Rooms!RoomsAssumption, RoomsInv, RoomsKnown',
           \A r \in DOMAIN rooms : r \in DOMAIN rooms' /\ rooms[r].members \subseteq rooms'[r].members,
           Numbered(roomsMessages'), Prolongs(roomsMessages, roomsMessages'),
           \A i \in DOMAIN roomsMessages' \ DOMAIN roomsMessages : Fitting(roomsMessages'[i], deliveries'),
           \A k \in DOMAIN deliveries :
              /\ k \in DOMAIN deliveries'
              /\ \/ deliveries'[k] = deliveries[k]
                 \/ /\ deliveries[k] # "failed"
                    /\ deliveries'[k] = "done" => Asked(roomsMessages', RoomOf(k), <<"delivery", k>>)
                    /\ deliveries'[k] = "failed" => \/ Asked(roomsMessages', RoomOf(k), <<"delivery", k>>)
                                                    \/ Asked(roomsMessages', RoomOf(k), <<"failed", k>>),
           \A k \in DOMAIN deliveries' \ DOMAIN deliveries :
              /\ k \in {Len(roomsMessages) + 1} \X RoomsAgent /\ Len(roomsMessages) + 1 <= Len(roomsMessages') /\ deliveries'[k] = "pending"
              /\ k[2] \in roomsMessages'[k[1]].to /\ ~ roomsMessages'[k[1]].system
              /\ k[2] \in rooms[roomsMessages'[k[1]].room].members
    PROVE  RoomsWritten'
  <1>1. /\ IsLog(roomsMessages) /\ IsLog(roomsMessages') /\ Len(roomsMessages) \in Nat /\ DOMAIN roomsMessages = 1 .. Len(roomsMessages)
        /\ Len(roomsMessages') \in Nat /\ DOMAIN roomsMessages' = 1 .. Len(roomsMessages')
    BY LogAppend DEF RoomsInv, RoomsWritten, LogKnown, Numbered
  <1>2. \A i \in DOMAIN roomsMessages : i \in DOMAIN roomsMessages' /\ roomsMessages'[i] = roomsMessages[i]
    BY <1>1 DEF Prolongs
  <1>3. \A k \in DOMAIN deliveries : k \in (Nat \X RoomsAgent) /\ k[1] \in DOMAIN roomsMessages /\ k[2] \in RoomsAgent
    BY <1>1 DEF RoomsInv, RoomsWritten, Woke
  <1>4. \A k \in DOMAIN deliveries : RoomOf(k)' = RoomOf(k) /\ RoomOf(k) \in DOMAIN rooms
    BY <1>2, <1>3 DEF RoomOf, RoomsInv, RoomsWritten, LogKnown
  <1>5. \A k \in DOMAIN deliveries' : k \in (Nat \X RoomsAgent)
    BY <1>1, <1>3
  <1>6. \A q \in RoomsRequest : \A kind \in Kinds : \A k \in DOMAIN deliveries' : q # <<kind, k>>
    BY <1>5 DEF Rooms!RoomsAssumption, Kinds
  <1>7. ASSUME NEW k \in DOMAIN deliveries' \ DOMAIN deliveries, NEW kind \in Kinds, NEW i \in DOMAIN roomsMessages'
        PROVE  roomsMessages'[i].request # <<kind, k>>
    <2>1. CASE i \in DOMAIN roomsMessages
      <3>1. roomsMessages[i].request \in RoomsRequest \/ \E c \in Kinds : \E h \in DOMAIN deliveries : roomsMessages[i].request = <<c, h>>
        BY <2>1 DEF RoomsInv, RoomsWritten, LogKnown
      <3>. QED BY <1>2, <1>6, <2>1, <3>1
    <2>2. CASE i \notin DOMAIN roomsMessages
      <3>1. roomsMessages'[i].request \in RoomsRequest \/ \E c \in Kinds : \E h \in DOMAIN deliveries : roomsMessages'[i].request = <<c, h>>
        BY <2>2 DEF Fitting
      <3>. QED BY <1>6, <3>1
    <2>. QED BY <2>1, <2>2
  <1>8. LogKnown'
    <2>1. ASSUME NEW i \in DOMAIN roomsMessages'
          PROVE  /\ roomsMessages'[i].room \in DOMAIN rooms'
                 /\ roomsMessages'[i].request \in RoomsRequest \/ \E kind \in Kinds : \E k \in DOMAIN deliveries' : roomsMessages'[i].request = <<kind, k>>
      <3>1. CASE i \in DOMAIN roomsMessages
        BY <1>2, <3>1 DEF RoomsInv, RoomsWritten, LogKnown
      <3>2. CASE i \notin DOMAIN roomsMessages
        <4>1. Fitting(roomsMessages'[i], deliveries')
          BY <3>2
        <4>2. roomsMessages'[i].room \in DOMAIN rooms'
          BY <4>1 DEF Fitting
        <4>3. roomsMessages'[i].request \in RoomsRequest \/ \E kind \in Kinds : \E k \in DOMAIN deliveries : roomsMessages'[i].request = <<kind, k>>
          BY <4>1 DEF Fitting
        <4>. QED BY <4>2, <4>3
      <3>. QED BY <3>1, <3>2
    <2>. QED BY <2>1 DEF LogKnown
  <1>9. Woke'
    <2>1. ASSUME NEW k \in DOMAIN deliveries'
          PROVE  /\ k \in (1 .. Len(roomsMessages')) \X RoomsAgent /\ k[2] \in roomsMessages'[k[1]].to /\ ~ roomsMessages'[k[1]].system
                 /\ k[2] \in rooms'[roomsMessages'[k[1]].room].members
      <3>1. CASE k \in DOMAIN deliveries
        <4>1. k \in (1 .. Len(roomsMessages)) \X RoomsAgent /\ k[2] \in roomsMessages[k[1]].to /\ ~ roomsMessages[k[1]].system
              /\ k[2] \in rooms[roomsMessages[k[1]].room].members /\ roomsMessages[k[1]].room \in DOMAIN rooms
          BY <3>1, <1>4 DEF RoomsInv, RoomsWritten, Woke, RoomOf
        <4>2. roomsMessages'[k[1]] = roomsMessages[k[1]]
          BY <1>2, <1>3, <3>1
        <4>. QED BY <1>1, <4>1, <4>2 DEF Prolongs
      <3>2. CASE k \notin DOMAIN deliveries
        <4>1. /\ k \in {Len(roomsMessages) + 1} \X RoomsAgent /\ Len(roomsMessages) + 1 <= Len(roomsMessages')
              /\ k[2] \in roomsMessages'[k[1]].to /\ ~ roomsMessages'[k[1]].system /\ k[2] \in rooms[roomsMessages'[k[1]].room].members
          BY <3>2
        <4>2. k \in (1 .. Len(roomsMessages')) \X RoomsAgent /\ k[1] \in DOMAIN roomsMessages' \ DOMAIN roomsMessages
          BY <1>1, <4>1
        <4>3. roomsMessages'[k[1]].room \in DOMAIN rooms
          BY <4>2 DEF Fitting
        <4>. QED BY <4>1, <4>2, <4>3
      <3>. QED BY <3>1, <3>2
    <2>. QED BY <2>1 DEF Woke, RoomOf
  <1>10. Replies'
    <2>1. ASSUME NEW i \in DOMAIN roomsMessages', NEW k \in DOMAIN deliveries', roomsMessages'[i].request = <<"delivery", k>>
          PROVE  roomsMessages'[i].author = k[2] /\ k[2] \notin roomsMessages'[i].to /\ roomsMessages'[i].room = RoomOf(k)'
      <3>1. k \in DOMAIN deliveries
        BY <1>7, <2>1 DEF Kinds
      <3>2. CASE i \in DOMAIN roomsMessages
        BY <1>2, <1>4, <2>1, <3>1, <3>2 DEF RoomsInv, RoomsWritten, Replies
      <3>3. CASE i \notin DOMAIN roomsMessages
        <4>1. roomsMessages'[i].request \notin RoomsRequest
          BY <1>6, <2>1 DEF Kinds
        <4>2. PICK kind \in Kinds, h \in DOMAIN deliveries :
                /\ roomsMessages'[i].request = <<kind, h>> /\ roomsMessages'[i].room = RoomOf(h)
                /\ kind = "delivery" => roomsMessages'[i].author = h[2] /\ h[2] \notin roomsMessages'[i].to
          BY <3>3, <4>1 DEF Fitting
        <4>3. kind = "delivery" /\ h = k
          BY <2>1, <4>2
        <4>. QED BY <1>4, <3>1, <4>2, <4>3
      <3>. QED BY <3>2, <3>3
    <2>. QED BY <2>1 DEF Replies
  <1>11. ASSUME NEW k \in DOMAIN deliveries, Asked(roomsMessages', RoomOf(k), <<"failed", k>>)
         PROVE  deliveries'[k] = "failed" \/ Asked(roomsMessages, RoomOf(k), <<"failed", k>>)
    <2>1. PICK i \in DOMAIN roomsMessages' : roomsMessages'[i].room = RoomOf(k) /\ roomsMessages'[i].request = <<"failed", k>>
      BY <1>11 DEF Asked
    <2>2. CASE i \in DOMAIN roomsMessages
      BY <1>2, <2>1, <2>2 DEF Asked
    <2>3. CASE i \notin DOMAIN roomsMessages
      <3>1. roomsMessages'[i].request \notin RoomsRequest
        BY <1>6, <2>1 DEF Kinds
      <3>2. PICK kind \in Kinds, h \in DOMAIN deliveries : roomsMessages'[i].request = <<kind, h>> /\ (kind = "failed" => deliveries'[h] = "failed")
        BY <2>3, <3>1 DEF Fitting
      <3>3. kind = "failed" /\ h = k
        BY <2>1, <3>2
      <3>. QED BY <3>2, <3>3
    <2>. QED BY <2>2, <2>3
  <1>12. ASSUME NEW k \in DOMAIN deliveries' PROVE Closed(k)'
    <2>1. CASE k \in DOMAIN deliveries
      <3>1. Closed(k) /\ RoomOf(k)' = RoomOf(k)
        BY <1>4, <2>1 DEF RoomsInv, RoomsWritten
      <3>2. \A q : Asked(roomsMessages, RoomOf(k), q) => Asked(roomsMessages', RoomOf(k), q)
        BY <1>1, AskedStays
      <3>3. Asked(roomsMessages', RoomOf(k), <<"failed", k>>) => deliveries'[k] = "failed"
        BY <1>11, <2>1, <3>1 DEF Closed
      <3>. QED BY <2>1, <3>1, <3>2, <3>3 DEF Closed
    <2>2. CASE k \notin DOMAIN deliveries
      <3>1. deliveries'[k] = "pending"
        BY <2>2
      <3>2. \A kind \in Kinds : ~ Asked(roomsMessages', RoomOf(k)', <<kind, k>>)
        BY <1>7, <2>2 DEF Asked
      <3>. QED BY <3>1, <3>2 DEF Closed, Kinds
    <2>. QED BY <2>1, <2>2
  <1>. QED BY <1>8, <1>9, <1>10, <1>12 DEF RoomsWritten

\* What a worker holds is left alone by the others.
LEMMA RoomTurnsKept ==
    ASSUME RoomsInv, RoomsWritten', DOMAIN passes' = Device, NEW D \in SUBSET Device,
           Prolongs(roomsMessages, roomsMessages'), \A k \in DOMAIN deliveries : k \in DOMAIN deliveries',
           \A e \in Device \ D : /\ passes'[e] = passes[e]
                                 /\ passes[e].turn # None => deliveries'[passes[e].turn] = deliveries[passes[e].turn],
           \A d \in D :
              /\ passes'[d] \in PassRows /\ passes'[d].listed \subseteq DOMAIN deliveries'
              /\ passes'[d].turn = None => ~ passes'[d].replied
              /\ passes'[d].turn # None =>
                    /\ passes'[d].turn \in DOMAIN deliveries' /\ deliveries'[passes'[d].turn] = "running"
                    /\ passes'[d].replied => Asked(roomsMessages', roomsMessages'[passes'[d].turn[1]].room, <<"delivery", passes'[d].turn>>)
                    /\ \A e \in Device : passes'[e].turn = passes'[d].turn => e = d
    PROVE  RoomTurns'
  <1>1. ASSUME NEW e \in Device \ D PROVE OnTurn(e)'
    <2>1. OnTurn(e) /\ passes'[e] = passes[e]
      BY DEF RoomsInv, RoomTurns
    <2>2. /\ passes'[e] \in PassRows /\ passes'[e].listed \subseteq DOMAIN deliveries'
          /\ passes'[e].turn = None => ~ passes'[e].replied
      BY <2>1 DEF OnTurn
    <2>. SUFFICES ASSUME passes[e].turn # None
                  PROVE  /\ passes[e].turn \in DOMAIN deliveries' /\ deliveries'[passes[e].turn] = "running"
                         /\ passes[e].replied => Asked(roomsMessages', RoomOf(passes[e].turn)', <<"delivery", passes[e].turn>>)
                         /\ \A f \in Device : passes'[f].turn = passes[e].turn => f = e
      BY <2>1, <2>2 DEF OnTurn, RoomOf
    <2>3. PICK k : k = passes[e].turn
      OBVIOUS
    <2>4. k \in DOMAIN deliveries /\ deliveries[k] = "running" /\ (passes[e].replied => Asked(roomsMessages, RoomOf(k), <<"delivery", k>>))
      BY <2>1, <2>3 DEF OnTurn
    <2>5. IsLog(roomsMessages) /\ IsLog(roomsMessages')
      BY DEF RoomsInv, RoomsWritten, LogKnown, Numbered
    <2>6. k[1] \in 1 .. Len(roomsMessages)
      BY <2>4 DEF RoomsInv, RoomsWritten, Woke
    <2>7. roomsMessages'[k[1]].room = roomsMessages[k[1]].room
      BY <2>6 DEF Prolongs
    <2>8. passes[e].replied => Asked(roomsMessages', roomsMessages'[k[1]].room, <<"delivery", k>>)
      <3>1. Asked(roomsMessages, roomsMessages[k[1]].room, <<"delivery", k>>) => Asked(roomsMessages', roomsMessages[k[1]].room, <<"delivery", k>>)
        BY <2>5, AskedStays
      <3>. QED BY <2>4, <2>7, <3>1 DEF RoomOf
    <2>9. ASSUME NEW f \in Device, passes'[f].turn = k PROVE f = e
      <3>1. CASE f \in D
        <4>1. passes'[e].turn = passes'[f].turn /\ passes'[f].turn # None
          BY <2>1, <2>3, <2>9
        <4>. QED BY <3>1, <4>1
      <3>2. CASE f \notin D
        BY <2>1, <2>3, <2>9, <3>2 DEF OnTurn
      <3>. QED BY <3>1, <3>2
    <2>. QED BY <2>3, <2>4, <2>8, <2>9 DEF RoomOf
  <1>2. ASSUME NEW d \in D PROVE OnTurn(d)'
    BY DEF OnTurn, RoomOf
  <1>. QED BY <1>1, <1>2 DEF RoomTurns


\* Nothing is written, and no delivery changes.
LEMMA RoomsStill ==
    ASSUME RoomsInv, RoomsKnown', UNCHANGED <<roomsMessages, deliveries>>,
           \A r \in DOMAIN rooms : r \in DOMAIN rooms' /\ rooms[r].members \subseteq rooms'[r].members
    PROVE  RoomsWritten'
  <1>1. LogKnown'
    BY DEF RoomsInv, RoomsWritten, LogKnown
  <1>2. Woke'
    <2>1. \A k \in DOMAIN deliveries : RoomOf(k) \in DOMAIN rooms
      BY LogAppend DEF RoomsInv, RoomsWritten, LogKnown, Numbered, Woke, RoomOf
    <2>. QED BY <2>1 DEF RoomsInv, RoomsWritten, Woke, RoomOf
  <1>3. Replies'
    BY DEF RoomsInv, RoomsWritten, Replies, RoomOf
  <1>4. \A k \in DOMAIN deliveries' : Closed(k)'
    BY DEF RoomsInv, RoomsWritten, Closed, RoomOf
  <1>. QED BY <1>1, <1>2, <1>3, <1>4 DEF RoomsWritten

\* A delivery that has not failed gets another status, not without a reason.
LEMMA RoomsStatus ==
    ASSUME Rooms!RoomsAssumption, RoomsInv, UNCHANGED <<rooms, roomsReceipts, roomsMessages>>, NEW k \in DOMAIN deliveries, NEW status,
           deliveries' = [deliveries EXCEPT ![k] = status], deliveries[k] # "failed", status # "failed",
           status = "done" => Asked(roomsMessages, RoomOf(k), <<"delivery", k>>)
    PROVE  RoomsWritten' /\ RoomsKnown' /\ DOMAIN deliveries' = DOMAIN deliveries /\ Prolongs(roomsMessages, roomsMessages')
  <1>1. RoomsKnown'
    BY DEF RoomsInv, RoomsKnown
  <1>2. DOMAIN deliveries' = DOMAIN deliveries /\ deliveries'[k] = status /\ \A h \in DOMAIN deliveries \ {k} : deliveries'[h] = deliveries[h]
    OBVIOUS
  <1>3. LogKnown' /\ Prolongs(roomsMessages, roomsMessages')
    <2>1. Len(roomsMessages) \in Nat
      BY LogAppend DEF RoomsInv, RoomsWritten, LogKnown, Numbered
    <2>. QED BY <1>2, <2>1 DEF RoomsInv, RoomsWritten, LogKnown, Prolongs
  <1>4. Woke'
    BY <1>2 DEF RoomsInv, RoomsWritten, Woke, RoomOf
  <1>5. Replies'
    BY <1>2 DEF RoomsInv, RoomsWritten, Replies, RoomOf
  <1>6. \A h \in DOMAIN deliveries' : Closed(h)'
    BY <1>2 DEF RoomsInv, RoomsWritten, Closed, RoomOf
  <1>. QED BY <1>1, <1>2, <1>3, <1>4, <1>5, <1>6 DEF RoomsWritten

LEMMA WrittenIs ==
    ASSUME NEW r, NEW q
    PROVE  Rooms!Written(r, q) <=> Asked(roomsMessages, r, q)
  BY DEF Rooms!Written, Rooms!In, Asked

LEMMA RoomsInsert ==
    ASSUME Rooms!RoomsAssumption, RoomsInv, UNCHANGED <<rooms, roomsReceipts>>, NEW r \in DOMAIN rooms, NEW author, NEW q, NEW system,
           NEW to \in SUBSET rooms[r].members, Rooms!Insert(r, author, q, system, to),
           q \in RoomsRequest \/ \E k \in DOMAIN deliveries : q = <<"delivery", k>> /\ r = RoomOf(k) /\ author = k[2] /\ k[2] \notin to
    PROVE  /\ RoomsWritten' /\ RoomsKnown' /\ Prolongs(roomsMessages, roomsMessages') /\ Asked(roomsMessages', r, q)
           /\ \A k \in DOMAIN deliveries : k \in DOMAIN deliveries' /\ deliveries'[k] = deliveries[k]
  <1>1. RoomsKnown' /\ r \in Nat /\ rooms[r].members \subseteq RoomsAgent
    <2>1. RoomsKnown'
      BY DEF RoomsInv, RoomsKnown
    <2>2. r \in 1 .. Len(rooms) /\ rooms[r] \in RoomRows
      BY DEF RoomsInv, RoomsKnown
    <2>. QED BY <2>1, <2>2 DEF RoomRows
  <1>2. Numbered(roomsMessages) /\ Len(roomsMessages) \in Nat /\ DOMAIN roomsMessages = 1 .. Len(roomsMessages)
    BY LogAppend DEF RoomsInv, RoomsWritten, LogKnown, Numbered
  <1>3. CASE Asked(roomsMessages, r, q)
    <2>1. UNCHANGED <<roomsMessages, deliveries>>
      BY <1>3, WrittenIs DEF Rooms!Insert
    <2>2. RoomsWritten'
      BY <1>1, <2>1, RoomsStill
    <2>3. Prolongs(roomsMessages, roomsMessages')
      BY <1>2, <2>1 DEF Prolongs
    <2>. QED BY <1>1, <1>3, <2>1, <2>2, <2>3
  <1>4. CASE ~ Asked(roomsMessages, r, q)
    <2>1. roomsMessages' = Rooms!Add(roomsMessages, r, author, q, system, to) /\ deliveries' = Rooms!Woken(system, to)
      BY <1>4, WrittenIs DEF Rooms!Insert
    <2>2. PICK m : /\ m.room = r /\ m.author = author /\ m.request = q /\ m.system = system /\ m.to = to
                   /\ ByOne(roomsMessages, roomsMessages', m) /\ Numbered(roomsMessages')
      BY <1>1, <1>2, <1>4, <2>1, LogAdd
    <2>3. /\ Len(roomsMessages') = Len(roomsMessages) + 1 /\ DOMAIN roomsMessages' = 1 .. (Len(roomsMessages) + 1)
          /\ roomsMessages'[Len(roomsMessages) + 1] = m /\ Prolongs(roomsMessages, roomsMessages')
      BY <1>2, <2>2, LogAppend DEF ByOne, Numbered
    <2>4. PICK new : new = IF system THEN {} ELSE {Len(roomsMessages) + 1} \X to
      OBVIOUS
    <2>5. deliveries' = [k \in DOMAIN deliveries \cup new |-> IF k \in new THEN "pending" ELSE deliveries[k]]
      BY <2>1, <2>4 DEF Rooms!Woken
    <2>6. \A k \in DOMAIN deliveries : k \notin new
      <3>1. \A k \in DOMAIN deliveries : k \in (1 .. Len(roomsMessages)) \X RoomsAgent
        BY DEF RoomsInv, RoomsWritten, Woke
      <3>. QED BY <1>2, <2>4, <3>1
    <2>7. \A k \in DOMAIN deliveries : k \in DOMAIN deliveries' /\ deliveries'[k] = deliveries[k]
      BY <2>5, <2>6
    <2>8. ASSUME NEW k \in DOMAIN deliveries' \ DOMAIN deliveries
          PROVE  /\ k \in {Len(roomsMessages) + 1} \X RoomsAgent /\ Len(roomsMessages) + 1 <= Len(roomsMessages') /\ deliveries'[k] = "pending"
                 /\ k[2] \in roomsMessages'[k[1]].to /\ ~ roomsMessages'[k[1]].system
                 /\ k[2] \in rooms[roomsMessages'[k[1]].room].members
      <3>1. k \in new /\ deliveries'[k] = "pending"
        BY <2>5
      <3>2. ~ system /\ k \in {Len(roomsMessages) + 1} \X to
        BY <2>4, <3>1
      <3>3. k[1] = Len(roomsMessages) + 1 /\ k[2] \in to /\ roomsMessages'[k[1]] = m
        BY <2>3, <3>2
      <3>4. k \in {Len(roomsMessages) + 1} \X RoomsAgent
        BY <1>1, <3>2
      <3>. QED BY <1>2, <2>2, <2>3, <3>1, <3>2, <3>3, <3>4
    <2>9. Fitting(m, deliveries')
      BY <2>2 DEF Fitting, Kinds
    <2>10. \A i \in DOMAIN roomsMessages' \ DOMAIN roomsMessages : i = Len(roomsMessages) + 1
      BY <1>2, <2>3
    <2>11. RoomsWritten'
      BY <1>1, <2>2, <2>3, <2>7, <2>8, <2>9, <2>10, RoomsGrow
    <2>12. Len(roomsMessages) + 1 \in DOMAIN roomsMessages'
      BY <1>2, <2>3
    <2>13. Asked(roomsMessages', r, q)
      BY <2>2, <2>3, <2>12 DEF Asked
    <2>. QED BY <1>1, <2>3, <2>7, <2>11, <2>13
  <1>. QED BY <1>3, <1>4

\* The notices of a report, one after the other: AfterNotices is the last of them.
Noted(q, g, n) == g = [i \in 0 .. n |-> IF i = 0 THEN roomsMessages ELSE Rooms!Notice(g[i - 1], q[i])]

LEMMA NotedExists ==
    ASSUME NEW q, NEW n \in Nat
    PROVE  \E g : Noted(q, g, n)
  <1> DEFINE S == {k \in Nat : ~ \E g : Noted(q, g, k)}
  <1>1. CASE S = {}
    BY <1>1
  <1>2. CASE S # {}
    <2>1. PICK m \in S : \A k \in S : m <= k
      <3>1. S \in SUBSET Nat
        OBVIOUS
      <3>. HIDE DEF S
      <3>. QED BY <1>2, <3>1, NatLeast
    <2>2. CASE m = 0
      <3>1. PICK g : g = [i \in 0 .. 0 |-> roomsMessages]
        OBVIOUS
      <3>2. \A i \in 0 .. 0 : i = 0
        OBVIOUS
      <3>3. g = [i \in 0 .. 0 |-> IF i = 0 THEN roomsMessages ELSE Rooms!Notice(g[i - 1], q[i])]
        BY <3>1, <3>2
      <3>4. Noted(q, g, 0)
        BY <3>3 DEF Noted
      <3>. QED BY <2>1, <2>2, <3>4
    <2>3. CASE m # 0
      <3>1. m \in Nat /\ m - 1 \in Nat /\ ~ (m <= m - 1)
        BY <2>1, <2>3
      <3>2. PICK g : Noted(q, g, m - 1)
        BY <2>1, <3>1
      <3>3. PICK h : h = [i \in 0 .. m |-> IF i = m THEN Rooms!Notice(g[m - 1], q[m]) ELSE g[i]]
        OBVIOUS
      <3>4. ASSUME NEW i \in 0 .. m PROVE h[i] = IF i = 0 THEN roomsMessages ELSE Rooms!Notice(h[i - 1], q[i])
        <4>1. CASE i = m
          <5>1. h[i] = Rooms!Notice(g[m - 1], q[m]) /\ h[m - 1] = g[m - 1]
            BY <3>1, <3>3, <4>1
          <5>. QED BY <2>3, <4>1, <5>1
        <4>2. CASE i # m /\ i # 0
          <5>1. i \in 0 .. (m - 1) /\ i - 1 \in 0 .. (m - 1)
            BY <3>1, <4>2
          <5>2. h[i] = g[i] /\ h[i - 1] = g[i - 1]
            BY <3>1, <3>3, <4>2, <5>1
          <5>3. g[i] = Rooms!Notice(g[i - 1], q[i])
            BY <3>2, <4>2, <5>1 DEF Noted
          <5>. QED BY <4>2, <5>2, <5>3
        <4>3. CASE i # m /\ i = 0
          <5>1. 0 \in 0 .. (m - 1)
            BY <3>1
          <5>2. h[i] = g[0]
            BY <3>3, <4>3
          <5>3. g[0] = roomsMessages
            BY <3>2, <5>1 DEF Noted
          <5>. QED BY <4>3, <5>2, <5>3
        <4>. QED BY <4>1, <4>2, <4>3
      <3>5. Noted(q, h, m)
        BY <3>3, <3>4 DEF Noted
      <3>. QED BY <2>1, <3>5
    <2>. QED BY <2>2, <2>3
  <1>. QED BY <1>1, <1>2

\* the log once the first i notices are in it
Noticed(log, q, i) ==
    /\ Numbered(log) /\ Len(log) = Len(roomsMessages) + i /\ Prolongs(roomsMessages, log)
    /\ \A j \in 1 .. i : /\ log[Len(roomsMessages) + j].room = RoomOf(q[j])
                         /\ log[Len(roomsMessages) + j].request = <<"unroutable", q[j]>>

LEMMA NoticeMore ==
    ASSUME RoomsInv, NEW log, NEW q, NEW i \in Nat, Noticed(log, q, i),
           \A j \in 1 .. i : q[j] # q[i + 1],
           q[i + 1] \in DOMAIN deliveries, ~ Asked(roomsMessages, RoomOf(q[i + 1]), <<"unroutable", q[i + 1]>>)
    PROVE  Noticed(Rooms!Notice(log, q[i + 1]), q, i + 1)
  <1>1. PICK k : k = q[i + 1]
    OBVIOUS
  <1>2. /\ Len(roomsMessages) \in Nat /\ DOMAIN roomsMessages = 1 .. Len(roomsMessages) /\ DOMAIN log = 1 .. Len(log)
        /\ Len(log) = Len(roomsMessages) + i /\ \A x \in 1 .. Len(roomsMessages) : log[x] = roomsMessages[x]
    BY LogAppend DEF RoomsInv, RoomsWritten, LogKnown, Numbered, Noticed, Prolongs
  <1>3. RoomOf(k) \in Nat
    <2>1. RoomOf(k) \in DOMAIN rooms
      BY <1>1, <1>2 DEF RoomsInv, RoomsWritten, LogKnown, Woke, RoomOf
    <2>. QED BY <2>1 DEF RoomsInv, RoomsKnown
  <1>4. ~ Asked(log, RoomOf(k), <<"unroutable", k>>)
    <2>. SUFFICES ASSUME NEW x \in DOMAIN log, log[x].room = RoomOf(k), log[x].request = <<"unroutable", k>> PROVE FALSE
      BY DEF Asked
    <2>1. CASE x \in 1 .. Len(roomsMessages)
      BY <1>1, <1>2, <2>1 DEF Asked
    <2>2. CASE x \notin 1 .. Len(roomsMessages)
      <3>1. PICK j : j = x - Len(roomsMessages)
        OBVIOUS
      <3>2. j \in 1 .. i /\ x = Len(roomsMessages) + j
        BY <1>2, <2>2, <3>1
      <3>3. log[x].request = <<"unroutable", q[j]>>
        BY <3>2 DEF Noticed
      <3>4. q[j] = k
        BY <3>3
      <3>. QED BY <1>1, <3>2, <3>4
    <2>. QED BY <2>1, <2>2
  <1>5. PICK new : new = Rooms!Notice(log, k)
    OBVIOUS
  <1>6. PICK m : m.room = RoomOf(k) /\ m.request = <<"unroutable", k>> /\ ByOne(log, new, m) /\ Numbered(new)
    <2>1. new = Rooms!Add(log, RoomOf(k), rooms[RoomOf(k)].owner, <<"unroutable", k>>, TRUE, {})
      BY <1>5 DEF Rooms!Notice, RoomOf
    <2>2. Numbered(log)
      BY DEF Noticed
    <2>. QED BY <1>3, <1>4, <2>1, <2>2, LogAdd
  <1>7. Len(new) = Len(roomsMessages) + (i + 1) /\ new[Len(roomsMessages) + (i + 1)] = m /\ \A x \in 1 .. Len(log) : new[x] = log[x]
    BY <1>2, <1>6 DEF ByOne, Prolongs
  <1>8. Prolongs(roomsMessages, new)
    BY <1>2, <1>7 DEF Prolongs
  <1>9. ASSUME NEW j \in 1 .. (i + 1)
        PROVE  new[Len(roomsMessages) + j].room = RoomOf(q[j]) /\ new[Len(roomsMessages) + j].request = <<"unroutable", q[j]>>
    <2>1. CASE j = i + 1
      BY <1>1, <1>6, <1>7, <2>1
    <2>2. CASE j # i + 1
      <3>1. j \in 1 .. i /\ Len(roomsMessages) + j \in 1 .. Len(log)
        BY <1>2, <2>2
      <3>. QED BY <1>7, <3>1 DEF Noticed
    <2>. QED BY <2>1, <2>2
  <1>10. Noticed(new, q, i + 1)
    BY <1>6, <1>7, <1>8, <1>9 DEF Noticed
  <1>. QED BY <1>1, <1>5, <1>10

LEMMA NoticesAll ==
    ASSUME RoomsInv, NEW q, NEW n \in Nat, \A i, j \in 1 .. n : q[i] = q[j] => i = j,
           \A i \in 1 .. n : q[i] \in DOMAIN deliveries /\ ~ Asked(roomsMessages, RoomOf(q[i]), <<"unroutable", q[i]>>)
    PROVE  Noticed(Rooms!AfterNotices(q, n), q, n)
  <1>1. PICK g : g = CHOOSE h : Noted(q, h, n)
    OBVIOUS
  <1>2. Noted(q, g, n)
    BY <1>1, NotedExists
  <1>3. Rooms!AfterNotices(q, n) = g[n]
    BY <1>1 DEF Rooms!AfterNotices, Noted
  <1> DEFINE S == {k \in 0 .. n : ~ Noticed(g[k], q, k)}
  <1>4. CASE S # {}
    <2>1. PICK m \in S : \A k \in S : m <= k
      <3>1. S \in SUBSET Nat
        OBVIOUS
      <3>. HIDE DEF S
      <3>. QED BY <1>4, <3>1, NatLeast
    <2>2. m \in 0 .. n /\ ~ Noticed(g[m], q, m)
      BY <2>1
    <2>3. CASE m = 0
      <3>1. g[0] = roomsMessages
        BY <1>2 DEF Noted
      <3>2. Noticed(roomsMessages, q, 0)
        <4>1. Numbered(roomsMessages) /\ Len(roomsMessages) \in Nat
          BY LogAppend DEF RoomsInv, RoomsWritten, LogKnown, Numbered
        <4>. QED BY <4>1 DEF Noticed, Prolongs
      <3>. QED BY <2>2, <2>3, <3>1, <3>2
    <2>4. CASE m # 0
      <3>1. PICK k : k = m - 1
        OBVIOUS
      <3>2. k \in Nat /\ k \in 0 .. n /\ m = k + 1 /\ m \in 1 .. n /\ ~ (m <= k)
        BY <2>2, <2>4, <3>1
      <3>3. Noticed(g[k], q, k)
        BY <2>1, <3>2
      <3>4. g[m] = Rooms!Notice(g[k], q[m])
        BY <1>2, <2>2, <2>4, <3>1 DEF Noted
      <3>5. \A j \in 1 .. k : q[j] # q[m]
        BY <3>2
      <3>6. PICK log : log = g[k]
        OBVIOUS
      <3>7. Noticed(Rooms!Notice(log, q[k + 1]), q, k + 1)
        BY <3>2, <3>3, <3>5, <3>6, NoticeMore
      <3>. QED BY <2>2, <3>2, <3>4, <3>6, <3>7
    <2>. QED BY <2>3, <2>4
  <1>. QED BY <1>3, <1>4

\* The elements of a finite set in some order.
LEMMA RoomsSeqOf ==
    ASSUME NEW S, IsFiniteSet(S)
    PROVE  \E q : q = Rooms!SetToSeq(S) /\ q \in [1 .. Cardinality(S) -> S] /\ \A i, j \in 1 .. Cardinality(S) : q[i] = q[j] => i = j
  <1>1. Cardinality(S) \in Nat /\ ExistsBijection(1 .. Cardinality(S), S)
    BY FS_CardinalityType
  <1>2. PICK f : f \in [1 .. Cardinality(S) -> S] /\ \A i, j \in 1 .. Cardinality(S) : f[i] = f[j] => i = j
    BY <1>1 DEF ExistsBijection, Bijection, Injection, IsInjective
  <1>3. Rooms!Cardinality(S) = Cardinality(S)
    BY Zenon DEF Rooms!Cardinality, Cardinality
  <1>4. PICK q : q = CHOOSE h \in [1 .. Cardinality(S) -> S] : \A i, j \in DOMAIN h : h[i] = h[j] => i = j
    OBVIOUS
  <1>5. q \in [1 .. Cardinality(S) -> S] /\ \A i, j \in DOMAIN q : q[i] = q[j] => i = j
    <2>1. \A i, j \in DOMAIN f : f[i] = f[j] => i = j
      BY <1>2
    <2>2. \E h \in [1 .. Cardinality(S) -> S] : \A i, j \in DOMAIN h : h[i] = h[j] => i = j
      BY <1>2, <2>1
    <2>. QED BY <1>4, <2>2
  <1>6. q = Rooms!SetToSeq(S)
    BY <1>3, <1>4 DEF Rooms!SetToSeq, Rooms!IsInjective
  <1>. QED BY <1>5, <1>6

\* Rooms are made, with members of their account, or get a member more.
LEMMA RoomsMade ==
    ASSUME Rooms!RoomsAssumption, RoomsInv, NEW d \in Device, NEW members \in SUBSET RoomsAgent,
           \A a \in members : Rooms!Mine(d, a), Rooms!NewRoom(d, members)
    PROVE  /\ rooms' \in Seq(RoomRows) /\ Len(rooms') \in DOMAIN rooms' /\ Len(rooms') \notin DOMAIN rooms
           /\ rooms'[Len(rooms')].owner = DeviceOwner[d] /\ rooms'[Len(rooms')].members = members
           /\ \A r \in DOMAIN rooms : r \in DOMAIN rooms' /\ rooms'[r] = rooms[r]
           /\ \A r \in DOMAIN rooms' : \A a \in rooms'[r].members : AgentOwner[a] = rooms'[r].owner
  <1>1. PICK new : new = [owner |-> DeviceOwner[d], members |-> members]
    OBVIOUS
  <1>2. new \in RoomRows /\ new.owner = DeviceOwner[d] /\ new.members = members
    BY <1>1 DEF RoomRows, Rooms!RoomsAssumption
  <1>3. rooms' = Append(rooms, new)
    BY <1>1 DEF Rooms!NewRoom
  <1>4. rooms \in Seq(RoomRows) /\ Len(rooms) \in Nat /\ DOMAIN rooms = 1 .. Len(rooms)
    BY DEF RoomsInv, RoomsKnown
  <1>5. /\ rooms' \in Seq(RoomRows) /\ Len(rooms') = Len(rooms) + 1 /\ rooms'[Len(rooms) + 1] = new
        /\ \A r \in 1 .. Len(rooms) : rooms'[r] = rooms[r]
    BY <1>2, <1>3, <1>4, AppendProperties
  <1>6. DOMAIN rooms' = 1 .. (Len(rooms) + 1)
    BY <1>5
  <1>7. ASSUME NEW r \in DOMAIN rooms' PROVE \A a \in rooms'[r].members : AgentOwner[a] = rooms'[r].owner
    <2>1. CASE r \in DOMAIN rooms
      BY <1>4, <1>5, <2>1 DEF RoomsInv, RoomsKnown
    <2>2. CASE r \notin DOMAIN rooms
      <3>1. rooms'[r] = new
        BY <1>4, <1>5, <1>6, <2>2
      <3>. QED BY <1>2, <3>1 DEF Rooms!Mine
    <2>. QED BY <2>1, <2>2
  <1>. QED BY <1>2, <1>4, <1>5, <1>6, <1>7

LEMMA RoomsManaged ==
    ASSUME Rooms!RoomsAssumption, RoomsInv, NEW d \in Device, Rooms!Manage(d)
    PROVE  /\ UNCHANGED <<roomsMessages, deliveries>> /\ RoomsKnown'
           /\ \A r \in DOMAIN rooms : r \in DOMAIN rooms' /\ rooms[r].members \subseteq rooms'[r].members
           /\ passes' \in {passes, [passes EXCEPT ![d] = Rooms!Idle]}
  <1>1. ASSUME UNCHANGED <<rooms, roomsReceipts>>
        PROVE  RoomsKnown' /\ \A r \in DOMAIN rooms : r \in DOMAIN rooms' /\ rooms[r].members \subseteq rooms'[r].members
    BY <1>1 DEF RoomsInv, RoomsKnown
  <1>2. CASE Rooms!Pair(d)
    BY <1>1, <1>2 DEF Rooms!Pair
  <1>3. CASE Rooms!Revoke(d)
    BY <1>1, <1>3 DEF Rooms!Revoke
  <1>4. ASSUME NEW a, NEW host, Rooms!AgentsCreate(d, a, host) \/ Rooms!AgentsUpdate(d, a, host)
        PROVE  UNCHANGED <<roomsMessages, deliveries, passes, rooms, roomsReceipts>>
    BY <1>4 DEF Rooms!AgentsCreate, Rooms!AgentsUpdate
  <1>5. ASSUME NEW a, Rooms!AgentsArchive(d, a)
        PROVE  UNCHANGED <<roomsMessages, deliveries, passes, rooms, roomsReceipts>>
    BY <1>5 DEF Rooms!AgentsArchive
  <1>6. ASSUME NEW members \in SUBSET RoomsAgent, Rooms!ConversationsCreate(d, members)
        PROVE  /\ UNCHANGED <<roomsMessages, deliveries, passes>> /\ RoomsKnown'
               /\ \A r \in DOMAIN rooms : r \in DOMAIN rooms' /\ rooms[r].members \subseteq rooms'[r].members
    <2>1. (\A a \in members : Rooms!Mine(d, a)) /\ Rooms!NewRoom(d, members) /\ UNCHANGED <<roomsMessages, deliveries, passes, roomsReceipts>>
      BY <1>6 DEF Rooms!ConversationsCreate
    <2>2. /\ rooms' \in Seq(RoomRows) /\ \A r \in DOMAIN rooms : r \in DOMAIN rooms' /\ rooms'[r] = rooms[r]
          /\ \A r \in DOMAIN rooms' : \A a \in rooms'[r].members : AgentOwner[a] = rooms'[r].owner
      BY <2>1, RoomsMade
    <2>3. RoomsKnown'
      BY <2>1, <2>2 DEF RoomsInv, RoomsKnown
    <2>. QED BY <2>1, <2>2, <2>3
  <1>7. ASSUME NEW request, NEW members \in SUBSET RoomsAgent, Rooms!RoomsCreate(d, request, members)
        PROVE  /\ UNCHANGED <<roomsMessages, deliveries, passes>> /\ RoomsKnown'
               /\ \A r \in DOMAIN rooms : r \in DOMAIN rooms' /\ rooms[r].members \subseteq rooms'[r].members
    <2>1. PICK x : x = [owner |-> DeviceOwner[d], request |-> request, members |-> members, room |-> Len(rooms')]
      OBVIOUS
    <2>2. x.owner = DeviceOwner[d] /\ x.request = request /\ x.members = members /\ x.room = Len(rooms')
      BY <2>1
    <2>3. /\ (\A a \in members : Rooms!Mine(d, a)) /\ Rooms!NewRoom(d, members) /\ UNCHANGED <<roomsMessages, deliveries, passes>>
          /\ Rooms!Receipts(DeviceOwner[d], request) = {} /\ roomsReceipts' = roomsReceipts \cup {x}
      BY <1>7, <2>1 DEF Rooms!RoomsCreate
    <2>4. /\ rooms' \in Seq(RoomRows) /\ Len(rooms') \in DOMAIN rooms'
          /\ rooms'[Len(rooms')].owner = DeviceOwner[d] /\ rooms'[Len(rooms')].members = members
          /\ \A r \in DOMAIN rooms : r \in DOMAIN rooms' /\ rooms'[r] = rooms[r]
          /\ \A r \in DOMAIN rooms' : \A a \in rooms'[r].members : AgentOwner[a] = rooms'[r].owner
      BY <2>3, RoomsMade
    <2>5. \A y \in roomsReceipts : ~ (y.owner = x.owner /\ y.request = x.request)
      BY <2>2, <2>3 DEF Rooms!Receipts
    <2>6. ASSUME NEW y \in roomsReceipts'
          PROVE  y.room \in DOMAIN rooms' /\ rooms'[y.room].owner = y.owner /\ y.members \subseteq rooms'[y.room].members
      <3>1. CASE y \in roomsReceipts
        BY <2>4, <3>1 DEF RoomsInv, RoomsKnown
      <3>2. CASE y = x
        BY <2>2, <2>4, <3>2
      <3>. QED BY <2>3, <3>1, <3>2
    <2>7. \A y, z \in roomsReceipts' : y.owner = z.owner /\ y.request = z.request => y = z
      BY <2>3, <2>5 DEF RoomsInv, RoomsKnown
    <2>8. RoomsKnown'
      BY <2>4, <2>6, <2>7 DEF RoomsKnown
    <2>. QED BY <2>3, <2>4, <2>8
  <1>8. ASSUME NEW a \in RoomsAgent, NEW r \in DOMAIN rooms, Rooms!Join(d, a, r)
        PROVE  /\ UNCHANGED <<roomsMessages, deliveries, passes>> /\ RoomsKnown'
               /\ \A s \in DOMAIN rooms : s \in DOMAIN rooms' /\ rooms[s].members \subseteq rooms'[s].members
    <2>1. rooms \in Seq(RoomRows) /\ r \in 1 .. Len(rooms) /\ rooms[r] \in RoomRows
      BY DEF RoomsInv, RoomsKnown
    <2>2. PICK new : new = [rooms[r] EXCEPT !.members = @ \cup {a}]
      OBVIOUS
    <2>3. new \in RoomRows /\ new.owner = rooms[r].owner /\ new.members = rooms[r].members \cup {a}
      BY <2>1, <2>2 DEF RoomRows
    <2>4. /\ rooms' = [rooms EXCEPT ![r] = new] /\ UNCHANGED <<roomsMessages, deliveries, passes, roomsReceipts>>
          /\ AgentOwner[a] = rooms[r].owner
      BY <1>8, <2>2 DEF Rooms!Join, Rooms!Mine, Rooms!OwnRoom
    <2>5. rooms' \in Seq(RoomRows)
      BY <2>1, <2>3, <2>4, ExceptSeq
    <2>6. DOMAIN rooms' = DOMAIN rooms /\ rooms'[r] = new /\ \A s \in DOMAIN rooms \ {r} : rooms'[s] = rooms[s]
      BY <2>4
    <2>7. ASSUME NEW s \in DOMAIN rooms' PROVE \A b \in rooms'[s].members : AgentOwner[b] = rooms'[s].owner
      BY <2>3, <2>4, <2>6 DEF RoomsInv, RoomsKnown
    <2>8. ASSUME NEW s \in DOMAIN rooms PROVE rooms'[s].owner = rooms[s].owner /\ rooms[s].members \subseteq rooms'[s].members
      BY <2>3, <2>6
    <2>9. RoomsKnown'
      BY <2>4, <2>5, <2>6, <2>7, <2>8 DEF RoomsInv, RoomsKnown
    <2>. QED BY <2>4, <2>6, <2>8, <2>9
  <1>9. CASE \E a \in RoomsAgent, host \in Rooms!Hosting : Rooms!AgentsCreate(d, a, host) \/ Rooms!AgentsUpdate(d, a, host)
    BY <1>1, <1>4, <1>9
  <1>10. CASE \E a \in RoomsAgent : Rooms!AgentsArchive(d, a)
    BY <1>1, <1>5, <1>10
  <1>11. CASE Rooms!ConversationsCreate(d, {}) \/ \E a \in RoomsAgent : Rooms!ConversationsCreate(d, {a})
    <2>1. PICK members \in SUBSET RoomsAgent : Rooms!ConversationsCreate(d, members)
      BY <1>11
    <2>. QED BY <1>6, <2>1
  <1>12. CASE \E request \in RoomsRequest, members \in SUBSET RoomsAgent : Rooms!RoomsCreate(d, request, members)
    <2>1. PICK request \in RoomsRequest, members \in SUBSET RoomsAgent : Rooms!RoomsCreate(d, request, members)
      BY <1>12
    <2>. QED BY <1>7, <2>1
  <1>13. CASE \E a \in RoomsAgent, r \in DOMAIN rooms : Rooms!Join(d, a, r)
    <2>1. PICK a \in RoomsAgent, r \in DOMAIN rooms : Rooms!Join(d, a, r)
      BY <1>13
    <2>. QED BY <1>8, <2>1
  <1>. QED BY <1>2, <1>3, <1>9, <1>10, <1>11, <1>12, <1>13 DEF Rooms!Manage

\* The pass of one worker moves on.
LEMMA RoomsPass ==
    ASSUME RoomsInv, NEW d \in Device, NEW new \in PassRows, passes' = [passes EXCEPT ![d] = new], RoomsWritten', RoomsKnown',
           Prolongs(roomsMessages, roomsMessages'), \A k \in DOMAIN deliveries : k \in DOMAIN deliveries',
           \A e \in Device \ {d} : passes[e].turn # None => deliveries'[passes[e].turn] = deliveries[passes[e].turn],
           new.listed \subseteq DOMAIN deliveries', new.turn = None => ~ new.replied,
           new.turn # None =>
              /\ new.turn \in DOMAIN deliveries' /\ deliveries'[new.turn] = "running"
              /\ new.replied => Asked(roomsMessages', roomsMessages'[new.turn[1]].room, <<"delivery", new.turn>>)
              /\ \A e \in Device \ {d} : passes[e].turn # new.turn
    PROVE  RoomsInv'
  <1>1. DOMAIN passes' = Device /\ passes'[d] = new /\ \A e \in Device \ {d} : passes'[e] = passes[e]
    BY DEF RoomsInv, RoomTurns
  <1>2. new.turn # None => \A e \in Device : passes'[e].turn = new.turn => e = d
    BY <1>1
  <1>3. PICK D \in SUBSET Device : D = {d}
    OBVIOUS
  <1>4. ASSUME NEW x \in D
        PROVE  /\ passes'[x] \in PassRows /\ passes'[x].listed \subseteq DOMAIN deliveries'
               /\ passes'[x].turn = None => ~ passes'[x].replied
               /\ passes'[x].turn # None =>
                     /\ passes'[x].turn \in DOMAIN deliveries' /\ deliveries'[passes'[x].turn] = "running"
                     /\ passes'[x].replied => Asked(roomsMessages', roomsMessages'[passes'[x].turn[1]].room, <<"delivery", passes'[x].turn>>)
                     /\ \A e \in Device : passes'[e].turn = passes'[x].turn => e = x
    <2>1. x = d /\ passes'[x] = new
      BY <1>1, <1>3
    <2>. QED BY <1>2, <2>1
  <1>5. \A e \in Device \ D : /\ passes'[e] = passes[e]
                              /\ passes[e].turn # None => deliveries'[passes[e].turn] = deliveries[passes[e].turn]
    BY <1>1, <1>3
  <1>6. RoomTurns'
    BY <1>1, <1>4, <1>5, RoomTurnsKept
  <1>. QED BY <1>6 DEF RoomsInv

\* No pass moves on, and what is held stays so.
LEMMA RoomsNoPass ==
    ASSUME RoomsInv, UNCHANGED passes, RoomsWritten', RoomsKnown',
           Prolongs(roomsMessages, roomsMessages'), \A k \in DOMAIN deliveries : k \in DOMAIN deliveries',
           \A e \in Device : passes[e].turn # None => deliveries'[passes[e].turn] = deliveries[passes[e].turn]
    PROVE  RoomsInv'
  <1>1. DOMAIN passes' = Device /\ {} \in SUBSET Device
    BY DEF RoomsInv, RoomTurns
  <1>2. RoomTurns'
    BY <1>1, RoomTurnsKept
  <1>. QED BY <1>2 DEF RoomsInv

\* Only members of the room a bot speaks in can be called by name, and nobody calls himself.
LEMMA MentionedIn ==
  ASSUME NEW r, NEW names, NEW author
  PROVE  Rooms!Mentioned(r, names, author) \in SUBSET rooms[r].members /\ author \notin Rooms!Mentioned(r, names, author)
  <1>1. author \notin Rooms!Mentioned(r, names, author)
    BY Zenon DEF Rooms!Mentioned
  <1>2. ASSUME NEW one \in Rooms!Mentioned(r, names, author)
        PROVE  one \in rooms[r].members
    <2>1. PICK n : one \in Rooms!Called(r, n)
      BY <1>2, Zenon DEF Rooms!Mentioned
    <2>. QED BY <2>1 DEF Rooms!Called, Rooms!Roster
  <1>. QED BY <1>1, <1>2

LEMMA RoomsWork ==
    ASSUME Rooms!RoomsAssumption, RoomsInv, NEW d \in Device, Rooms!Work(d)
    PROVE  RoomsInv'
  <1>1. PICK p : p = passes[d]
    OBVIOUS
  <1>2. p \in PassRows /\ p.listed \subseteq DOMAIN deliveries /\ OnTurn(d) /\ DOMAIN passes = Device
    BY <1>1 DEF RoomsInv, RoomTurns, OnTurn
  <1>3. Numbered(roomsMessages) /\ IsLog(roomsMessages) /\ Len(roomsMessages) \in Nat /\ DOMAIN roomsMessages = 1 .. Len(roomsMessages) /\ Prolongs(roomsMessages, roomsMessages)
    <2>1. Numbered(roomsMessages) /\ IsLog(roomsMessages) /\ Len(roomsMessages) \in Nat /\ DOMAIN roomsMessages = 1 .. Len(roomsMessages)
      BY LogAppend DEF RoomsInv, RoomsWritten, LogKnown, Numbered
    <2>. QED BY <2>1 DEF Prolongs
  <1>4. \A k \in DOMAIN deliveries : k \in Nat \X RoomsAgent /\ k[1] \in DOMAIN roomsMessages /\ RoomOf(k) \in DOMAIN rooms
    BY <1>3 DEF RoomsInv, RoomsWritten, LogKnown, Woke, RoomOf
  \* nothing changes but the pass, which takes no delivery up
  <1>5. ASSUME NEW new \in PassRows, passes' = [passes EXCEPT ![d] = new], UNCHANGED <<rooms, roomsReceipts, roomsMessages, deliveries>>,
               new.listed \subseteq DOMAIN deliveries, new.turn = None, ~ new.replied
        PROVE  RoomsInv'
    <2>1. RoomsKnown'
      BY <1>5 DEF RoomsInv, RoomsKnown
    <2>2. RoomsWritten'
      BY <1>5, <2>1, RoomsStill DEF RoomsInv, RoomsKnown
    <2>3. Prolongs(roomsMessages, roomsMessages')
      BY <1>3, <1>5
    <2>. QED BY <1>5, <2>1, <2>2, <2>3, RoomsPass
  <1>6. Rooms!Idle \in PassRows /\ Rooms!Idle.listed = {} /\ Rooms!Idle.turn = None /\ ~ Rooms!Idle.replied
    BY DEF Rooms!Idle, PassRows
  <1>7. CASE Rooms!StartPass(d)
    <2>1. PICK todo \in SUBSET RoomsAgent : todo = {a \in RoomsAgent : Rooms!Runs(d, a)}
      OBVIOUS
    <2>2. PICK new : new = [Rooms!Idle EXCEPT !.phase = "drain", !.todo = todo]
      OBVIOUS
    <2>3. passes' = [passes EXCEPT ![d] = new] /\ UNCHANGED <<rooms, roomsReceipts, roomsMessages, deliveries>>
      BY <1>7, <2>1, <2>2 DEF Rooms!StartPass, Rooms!Set
    <2>4. new \in PassRows /\ new.listed = {} /\ new.turn = None /\ ~ new.replied
      BY <2>1, <2>2 DEF Rooms!Idle, PassRows
    <2>. QED BY <1>5, <2>3, <2>4
  <1>8. ASSUME NEW a \in RoomsAgent, Rooms!ListPending(d, a) PROVE RoomsInv'
    <2>1. PICK L : L = {k \in Rooms!With("pending") : k[2] = a}
      OBVIOUS
    <2>2. L \subseteq DOMAIN deliveries /\ L \in SUBSET (Nat \X RoomsAgent)
      BY <1>4, <2>1 DEF Rooms!With
    <2>3. PICK new : new = [p EXCEPT !.todo = @ \ {a}, !.listed = L]
      OBVIOUS
    <2>4. passes' = [passes EXCEPT ![d] = new] /\ p.turn = None /\ UNCHANGED <<rooms, roomsReceipts, roomsMessages, deliveries>>
      BY <1>1, <1>8, <2>1, <2>3 DEF Rooms!ListPending, Rooms!Draining, Rooms!Set
    <2>5. new \in PassRows /\ new.listed = L /\ new.turn = None /\ ~ new.replied
      BY <1>1, <1>2, <2>2, <2>3, <2>4 DEF PassRows, OnTurn
    <2>. QED BY <1>5, <2>2, <2>4, <2>5
  <1>9. ASSUME NEW k \in p.listed, Rooms!ClaimDelivery(d, k) PROVE RoomsInv'
    <2>1. p.turn = None /\ k \in DOMAIN deliveries /\ UNCHANGED <<rooms, roomsReceipts, roomsMessages>>
      BY <1>1, <1>2, <1>9 DEF Rooms!ClaimDelivery, Rooms!Draining
    <2>2. CASE deliveries[k] = "pending" /\ deliveries' = [deliveries EXCEPT ![k] = "running"]
               /\ passes' = [passes EXCEPT ![d] = [p EXCEPT !.listed = @ \ {k}, !.turn = k]]
      <3>1. PICK new : new = [p EXCEPT !.listed = @ \ {k}, !.turn = k]
        OBVIOUS
      <3>2. new \in PassRows /\ new.listed \subseteq DOMAIN deliveries /\ new.turn = k /\ new.replied = p.replied
        BY <1>2, <1>4, <2>1, <3>1 DEF PassRows
      <3>4. RoomsWritten' /\ RoomsKnown' /\ DOMAIN deliveries' = DOMAIN deliveries /\ Prolongs(roomsMessages, roomsMessages')
        BY <2>1, <2>2, RoomsStatus
      <3>5. \A e \in Device : passes[e].turn # None => deliveries[passes[e].turn] = "running"
        BY DEF RoomsInv, RoomTurns, OnTurn
      <3>6. \A e \in Device : passes[e].turn # None => passes[e].turn # k
        BY <2>2, <3>5
      <3>7. deliveries'[k] = "running" /\ \A h \in DOMAIN deliveries : h # k => deliveries'[h] = deliveries[h]
        BY <2>1, <2>2
      <3>8. \A e \in Device : passes[e].turn # None => passes[e].turn \in DOMAIN deliveries
        BY DEF RoomsInv, RoomTurns, OnTurn
      <3>9. k # None => \A e \in Device : passes[e].turn # k
        BY <3>6
      <3>10. ~ new.replied
        BY <1>1, <1>2, <2>1, <3>2 DEF OnTurn
      <3>11. \A e \in Device \ {d} : passes[e].turn # None => deliveries'[passes[e].turn] = deliveries[passes[e].turn]
        BY <3>6, <3>7, <3>8
      <3>12. new.turn # None => /\ new.turn \in DOMAIN deliveries' /\ deliveries'[new.turn] = "running"
                               /\ \A e \in Device \ {d} : passes[e].turn # new.turn
        BY <2>1, <3>2, <3>4, <3>7, <3>9
      <3>. QED BY <2>2, <3>1, <3>2, <3>4, <3>10, <3>11, <3>12, RoomsPass
    <2>3. CASE UNCHANGED deliveries /\ passes' = [passes EXCEPT ![d] = [p EXCEPT !.listed = @ \ {k}]]
      <3>1. PICK new : new = [p EXCEPT !.listed = @ \ {k}]
        OBVIOUS
      <3>2. new \in PassRows /\ new.listed \subseteq DOMAIN deliveries /\ new.turn = None /\ ~ new.replied
        BY <1>1, <1>2, <2>1, <3>1 DEF PassRows, OnTurn
      <3>. QED BY <1>5, <2>1, <2>3, <3>1, <3>2
    <2>. QED BY <1>1, <1>9, <2>2, <2>3 DEF Rooms!ClaimDelivery, Rooms!Status, Rooms!Set
  \* the delivery of a turn
  <1>10. ASSUME p.turn # None
         PROVE  /\ p.turn \in DOMAIN deliveries /\ deliveries[p.turn] = "running"
                /\ p.replied => Asked(roomsMessages, RoomOf(p.turn), <<"delivery", p.turn>>)
                /\ \A e \in Device \ {d} : passes[e].turn # None => passes[e].turn # p.turn /\ passes[e].turn \in DOMAIN deliveries
    <2>1. /\ p.turn \in DOMAIN deliveries /\ deliveries[p.turn] = "running"
          /\ p.replied => Asked(roomsMessages, RoomOf(p.turn), <<"delivery", p.turn>>)
          /\ \A e \in Device : passes[e].turn = p.turn => e = d
      BY <1>1, <1>2, <1>10 DEF OnTurn
    <2>2. \A e \in Device : passes[e].turn # None => passes[e].turn \in DOMAIN deliveries
      BY DEF RoomsInv, RoomTurns, OnTurn
    <2>. QED BY <2>1, <2>2
  <1>11. PICK ended : ended = [p EXCEPT !.turn = None, !.replied = FALSE]
    OBVIOUS
  <1>12. ended \in PassRows /\ ended.listed \subseteq DOMAIN deliveries /\ ended.turn = None /\ ~ ended.replied
    BY <1>2, <1>11 DEF PassRows
  <1>13. Rooms!EndTurn(d) => passes' = [passes EXCEPT ![d] = ended]
    BY <1>1, <1>11 DEF Rooms!EndTurn, Rooms!Set
  <1>14. ASSUME p.turn # None, Rooms!EndTurn(d), NEW status \in {"done", "later"}, deliveries' = [deliveries EXCEPT ![p.turn] = status],
                UNCHANGED <<rooms, roomsReceipts, roomsMessages>>, status = "done" => p.replied
         PROVE  RoomsInv'
    <2>1. PICK k : k = p.turn
      OBVIOUS
    <2>2. RoomsWritten' /\ RoomsKnown' /\ DOMAIN deliveries' = DOMAIN deliveries /\ Prolongs(roomsMessages, roomsMessages')
      BY <1>10, <1>14, <2>1, RoomsStatus
    <2>3. \A e \in Device \ {d} : passes[e].turn # None => deliveries'[passes[e].turn] = deliveries[passes[e].turn]
      BY <1>10, <1>14
    <2>. QED BY <1>12, <1>13, <1>14, <2>2, <2>3, RoomsPass
  <1>15. CASE Rooms!Complete(d)
    BY <1>1, <1>14, <1>15 DEF Rooms!Complete
  <1>16. CASE Rooms!NoCapacity(d)
    BY <1>1, <1>14, <1>16 DEF Rooms!NoCapacity, Rooms!Working
  <1>17. CASE Rooms!Refused(d)
    <2>1. passes' = [passes EXCEPT ![d] = ended] /\ UNCHANGED <<rooms, roomsReceipts, roomsMessages, deliveries>>
      BY <1>13, <1>17 DEF Rooms!Refused
    <2>. QED BY <1>5, <1>12, <2>1
  <1>18. CASE Rooms!Crash(d)
    <2>1. passes' = [passes EXCEPT ![d] = Rooms!Idle] /\ UNCHANGED <<rooms, roomsReceipts, roomsMessages, deliveries>>
      BY <1>18 DEF Rooms!Crash, Rooms!Set
    <2>. QED BY <1>5, <1>6, <2>1
  <1>19. ASSUME NEW names, Rooms!Reply(d, names) PROVE RoomsInv'
    <2>1. PICK k : k = p.turn
      OBVIOUS
    <2>2. PICK r : r = RoomOf(k)
      OBVIOUS
    <2>3. PICK to : to = Rooms!Mentioned(r, names, k[2])
      OBVIOUS
    <2>4. PICK new : new = [p EXCEPT !.replied = TRUE]
      OBVIOUS
    <2>5. /\ k # None /\ Rooms!Insert(r, k[2], <<"delivery", k>>, FALSE, to)
          /\ passes' = [passes EXCEPT ![d] = new] /\ UNCHANGED <<rooms, roomsReceipts>>
      BY <1>1, <1>19, <2>1, <2>2, <2>3, <2>4 DEF Rooms!Reply, Rooms!Working, Rooms!Set, RoomOf
    <2>6. k \in DOMAIN deliveries /\ deliveries[k] = "running" /\ r \in DOMAIN rooms /\ k[1] \in DOMAIN roomsMessages
          /\ \A e \in Device \ {d} : passes[e].turn # None => passes[e].turn # k /\ passes[e].turn \in DOMAIN deliveries
      BY <1>4, <1>10, <2>1, <2>2, <2>5
    <2>7. to \in SUBSET rooms[r].members /\ k[2] \notin to
      BY <2>3, MentionedIn
    <2>8. PICK q : q = <<"delivery", k>>
      OBVIOUS
    <2>9. PICK author : author = k[2]
      OBVIOUS
    <2>10. Rooms!Insert(r, author, q, FALSE, to)
      BY <2>5, <2>8, <2>9
    <2>11. \E h \in DOMAIN deliveries : q = <<"delivery", h>> /\ r = RoomOf(h) /\ author = h[2] /\ h[2] \notin to
      BY <2>2, <2>6, <2>7, <2>8, <2>9
    <2>12. /\ RoomsWritten' /\ RoomsKnown' /\ Prolongs(roomsMessages, roomsMessages') /\ Asked(roomsMessages', r, q)
           /\ \A h \in DOMAIN deliveries : h \in DOMAIN deliveries' /\ deliveries'[h] = deliveries[h]
      BY <2>5, <2>6, <2>7, <2>10, <2>11, RoomsInsert
    <2>13. roomsMessages'[k[1]].room = r
      BY <1>3, <2>2, <2>6, <2>12 DEF Prolongs, RoomOf
    <2>14. new \in PassRows /\ new.listed = p.listed /\ new.turn = k
      BY <1>2, <2>1, <2>4 DEF PassRows
    <2>15. new.listed \subseteq DOMAIN deliveries'
      BY <1>2, <2>12, <2>14
    <2>. QED BY <2>5, <2>6, <2>8, <2>12, <2>13, <2>14, <2>15, RoomsPass
  <1>20. CASE Rooms!Fails(d)
    <2>1. PICK k : k = p.turn
      OBVIOUS
    <2>2. PICK r : r = RoomOf(k)
      OBVIOUS
    <2>3. PICK owner : owner = rooms[r].owner
      OBVIOUS
    <2>4. /\ k # None /\ deliveries' = [deliveries EXCEPT ![k] = "failed"] /\ passes' = [passes EXCEPT ![d] = ended]
          /\ UNCHANGED <<rooms, roomsReceipts>>
          /\ roomsMessages' = IF Rooms!Written(r, <<"delivery", k>>) THEN roomsMessages
                         ELSE Rooms!Add(roomsMessages, r, owner, <<"failed", k>>, TRUE, {})
      BY <1>1, <1>13, <1>20, <2>1, <2>2, <2>3 DEF Rooms!Fails, Rooms!Working, RoomOf
    <2>5. k \in DOMAIN deliveries /\ deliveries[k] = "running" /\ r \in DOMAIN rooms /\ k[1] \in DOMAIN roomsMessages
          /\ \A e \in Device \ {d} : passes[e].turn # None => passes[e].turn # k /\ passes[e].turn \in DOMAIN deliveries
      BY <1>4, <1>10, <2>1, <2>2, <2>4
    <2>6. DOMAIN deliveries' = DOMAIN deliveries /\ deliveries'[k] = "failed" /\ \A h \in DOMAIN deliveries : h # k => deliveries'[h] = deliveries[h]
      BY <2>4, <2>5
    <2>7. RoomsKnown'
      BY <2>4 DEF RoomsInv, RoomsKnown
    <2>8. /\ Numbered(roomsMessages') /\ Prolongs(roomsMessages, roomsMessages')
          /\ \A i \in DOMAIN roomsMessages' \ DOMAIN roomsMessages : Fitting(roomsMessages'[i], deliveries')
          /\ Asked(roomsMessages', r, <<"delivery", k>>) \/ Asked(roomsMessages', r, <<"failed", k>>)
      <3>1. CASE Asked(roomsMessages, r, <<"delivery", k>>)
        <4>1. roomsMessages' = roomsMessages
          BY <2>4, <3>1, WrittenIs
        <4>. QED BY <1>3, <3>1, <4>1
      <3>2. CASE ~ Asked(roomsMessages, r, <<"delivery", k>>)
        <4>1. roomsMessages' = Rooms!Add(roomsMessages, r, owner, <<"failed", k>>, TRUE, {})
          BY <2>4, <3>2, WrittenIs
        <4>2. ~ Asked(roomsMessages, r, <<"failed", k>>)
          BY <2>2, <2>5 DEF RoomsInv, RoomsWritten, Closed
        <4>3. r \in Nat
          BY <2>5 DEF RoomsInv, RoomsKnown
        <4>4. PICK q : q = <<"failed", k>>
          OBVIOUS
        <4>5. PICK m : m.room = r /\ m.request = q /\ ByOne(roomsMessages, roomsMessages', m) /\ Numbered(roomsMessages')
          BY <1>3, <4>1, <4>2, <4>3, <4>4, LogAdd
        <4>6. DOMAIN roomsMessages' = 1 .. (Len(roomsMessages) + 1) /\ roomsMessages'[Len(roomsMessages) + 1] = m /\ Prolongs(roomsMessages, roomsMessages')
          BY <1>3, <4>5, LogAppend DEF ByOne, Numbered
        <4>7. Fitting(m, deliveries')
          BY <2>2, <2>5, <2>6, <4>4, <4>5 DEF Fitting, Kinds
        <4>8. \A i \in DOMAIN roomsMessages' \ DOMAIN roomsMessages : i = Len(roomsMessages) + 1
          BY <1>3, <4>6
        <4>9. Len(roomsMessages) + 1 \in DOMAIN roomsMessages'
          BY <1>3, <4>6
        <4>10. Asked(roomsMessages', r, q)
          BY <4>5, <4>6, <4>9 DEF Asked
        <4>. QED BY <4>4, <4>5, <4>6, <4>7, <4>8, <4>10
      <3>. QED BY <3>1, <3>2
    <2>9. \A h \in DOMAIN deliveries :
              /\ h \in DOMAIN deliveries'
              /\ \/ deliveries'[h] = deliveries[h]
                 \/ /\ deliveries[h] # "failed"
                    /\ deliveries'[h] = "done" => Asked(roomsMessages', RoomOf(h), <<"delivery", h>>)
                    /\ deliveries'[h] = "failed" => \/ Asked(roomsMessages', RoomOf(h), <<"delivery", h>>)
                                                    \/ Asked(roomsMessages', RoomOf(h), <<"failed", h>>)
      BY <2>2, <2>5, <2>6, <2>8
    <2>10. \A s \in DOMAIN rooms : s \in DOMAIN rooms' /\ rooms[s].members \subseteq rooms'[s].members
      BY <2>4
    <2>11. RoomsWritten'
      BY <2>6, <2>7, <2>8, <2>9, <2>10, RoomsGrow
    <2>12. \A e \in Device \ {d} : passes[e].turn # None => deliveries'[passes[e].turn] = deliveries[passes[e].turn]
      BY <2>5, <2>6
    <2>. QED BY <1>12, <2>4, <2>6, <2>7, <2>8, <2>11, <2>12, RoomsPass
  <1>21. CASE Rooms!ReportUnroutable(d)
    <2>1. PICK U : U = Rooms!Unroutable(d)
      OBVIOUS
    <2>2. \A k \in U : k \in DOMAIN deliveries /\ ~ Asked(roomsMessages, RoomOf(k), <<"unroutable", k>>)
      BY <2>1, WrittenIs DEF Rooms!Unroutable, Rooms!With, Rooms!Reported, RoomOf
    <2>3. IsFiniteSet(U)
      <3>1. IsFiniteSet(1 .. Len(roomsMessages)) /\ IsFiniteSet(RoomsAgent)
        <4>1. Rooms!IsFiniteSet(RoomsAgent)
          BY DEF Rooms!RoomsAssumption
        <4>2. Rooms!IsFiniteSet(RoomsAgent) => IsFiniteSet(RoomsAgent)
          BY Zenon DEF Rooms!IsFiniteSet, IsFiniteSet
        <4>. QED BY <1>3, <4>1, <4>2, FS_Interval
      <3>2. IsFiniteSet((1 .. Len(roomsMessages)) \X RoomsAgent)
        BY <3>1, FS_Product
      <3>3. U \subseteq (1 .. Len(roomsMessages)) \X RoomsAgent
        BY <2>2 DEF RoomsInv, RoomsWritten, Woke
      <3>. QED BY <3>2, <3>3, FS_Subset
    <2>4. PICK n : n = Cardinality(U)
      OBVIOUS
    <2>5. PICK q : q = Rooms!SetToSeq(U) /\ q \in [1 .. n -> U] /\ \A i, j \in 1 .. n : q[i] = q[j] => i = j
      BY <2>3, <2>4, RoomsSeqOf
    <2>6. n \in Nat /\ Rooms!Cardinality(U) = n
      <3>1. Rooms!Cardinality(U) = Cardinality(U)
        BY Zenon DEF Rooms!Cardinality, Cardinality
      <3>. QED BY <2>3, <2>4, <3>1, FS_CardinalityType
    <2>7. roomsMessages' = Rooms!AfterNotices(q, n) /\ passes' = [passes EXCEPT ![d] = Rooms!Idle] /\ UNCHANGED <<rooms, roomsReceipts, deliveries>>
      BY <1>21, <2>1, <2>5, <2>6 DEF Rooms!ReportUnroutable, Rooms!Set
    <2>8. Noticed(roomsMessages', q, n)
      BY <2>2, <2>5, <2>6, <2>7, NoticesAll
    <2>9. /\ Numbered(roomsMessages') /\ Prolongs(roomsMessages, roomsMessages')
          /\ DOMAIN roomsMessages' = 1 .. (Len(roomsMessages) + n)
      BY <2>8, LogAppend DEF Noticed, Numbered
    <2>10. ASSUME NEW i \in DOMAIN roomsMessages' \ DOMAIN roomsMessages PROVE Fitting(roomsMessages'[i], deliveries')
      <3>1. PICK j : j = i - Len(roomsMessages)
        OBVIOUS
      <3>2. j \in 1 .. n /\ i = Len(roomsMessages) + j
        BY <1>3, <2>6, <2>9, <3>1
      <3>3. PICK k : k = q[j]
        OBVIOUS
      <3>4. k \in DOMAIN deliveries /\ roomsMessages'[i].room = RoomOf(k) /\ roomsMessages'[i].request = <<"unroutable", k>>
        BY <2>2, <2>5, <2>8, <3>2, <3>3 DEF Noticed
      <3>5. RoomOf(k) \in DOMAIN rooms
        BY <1>4, <3>4
      <3>. QED BY <3>4, <3>5 DEF Fitting, Kinds
    <2>11. RoomsKnown'
      BY <2>7 DEF RoomsInv, RoomsKnown
    <2>12. \A s \in DOMAIN rooms : s \in DOMAIN rooms' /\ rooms[s].members \subseteq rooms'[s].members
      BY <2>7
    <2>13. \A k \in DOMAIN deliveries : k \in DOMAIN deliveries' /\ deliveries'[k] = deliveries[k]
      BY <2>7
    <2>14. DOMAIN deliveries' \ DOMAIN deliveries = {}
      BY <2>7
    <2>15. RoomsWritten'
      BY <2>9, <2>10, <2>11, <2>12, <2>13, <2>14, RoomsGrow
    <2>16. \A e \in Device \ {d} : passes[e].turn # None => deliveries'[passes[e].turn] = deliveries[passes[e].turn]
      BY <2>7
    <2>. QED BY <1>6, <2>7, <2>9, <2>11, <2>13, <2>15, <2>16, RoomsPass
  <1>22. CASE \E a \in RoomsAgent : Rooms!ListPending(d, a)
    BY <1>8, <1>22
  <1>23. CASE \E k \in passes[d].listed : Rooms!ClaimDelivery(d, k)
    BY <1>1, <1>9, <1>23
  <1>24. CASE \E names \in SUBSET {NameOf[a] : a \in RoomsAgent} : Rooms!Reply(d, names)
    BY <1>19, <1>24
  <1>. QED BY <1>7, <1>15, <1>16, <1>17, <1>18, <1>20, <1>21, <1>22, <1>23, <1>24 DEF Rooms!Work

LEMMA RoomsStep ==
    ASSUME Rooms!RoomsAssumption, RoomsInv, [Rooms!Next]_(Rooms!vars)
    PROVE  RoomsInv'
  <1>1. /\ Len(roomsMessages) \in Nat /\ Prolongs(roomsMessages, roomsMessages) /\ DOMAIN passes = Device
        /\ \A e \in Device : passes[e].turn # None => passes[e].turn \in DOMAIN deliveries /\ deliveries[passes[e].turn] = "running"
    <2>1. Len(roomsMessages) \in Nat
      BY LogAppend DEF RoomsInv, RoomsWritten, LogKnown, Numbered
    <2>2. Prolongs(roomsMessages, roomsMessages)
      BY <2>1 DEF Prolongs
    <2>. QED BY <2>1, <2>2 DEF RoomsInv, RoomTurns, OnTurn
  <1>2. ASSUME NEW d \in Device, Rooms!Manage(d) PROVE RoomsInv'
    <2>1. /\ UNCHANGED <<roomsMessages, deliveries>> /\ RoomsKnown'
          /\ \A r \in DOMAIN rooms : r \in DOMAIN rooms' /\ rooms[r].members \subseteq rooms'[r].members
          /\ passes' = passes \/ passes' = [passes EXCEPT ![d] = Rooms!Idle]
      BY <1>2, RoomsManaged
    <2>2. RoomsWritten' /\ Prolongs(roomsMessages, roomsMessages')
      BY <1>1, <2>1, RoomsStill
    <2>3. \A k \in DOMAIN deliveries : k \in DOMAIN deliveries' /\ deliveries'[k] = deliveries[k]
      BY <2>1
    <2>4. CASE passes' = passes
      BY <1>1, <2>1, <2>2, <2>3, <2>4, RoomsNoPass
    <2>5. CASE passes' = [passes EXCEPT ![d] = Rooms!Idle]
      <3>1. PICK new : new = Rooms!Idle
        OBVIOUS
      <3>2. new \in PassRows /\ new.listed = {} /\ new.turn = None /\ ~ new.replied
        BY <3>1 DEF Rooms!Idle, PassRows
      <3>. QED BY <1>1, <2>1, <2>2, <2>3, <2>5, <3>1, <3>2, RoomsPass
    <2>. QED BY <2>1, <2>4, <2>5
  <1>3. ASSUME NEW d \in Device, NEW author, NEW r \in DOMAIN rooms, NEW q \in RoomsRequest, NEW system, NEW to \in SUBSET rooms[r].members,
               Rooms!Send(d, author, r, q, system, to)
        PROVE  RoomsInv'
    <2>1. Rooms!Insert(r, author, q, system, to) /\ UNCHANGED <<rooms, roomsReceipts, passes>>
      BY <1>3 DEF Rooms!Send
    <2>2. /\ RoomsWritten' /\ RoomsKnown' /\ Prolongs(roomsMessages, roomsMessages')
          /\ \A k \in DOMAIN deliveries : k \in DOMAIN deliveries' /\ deliveries'[k] = deliveries[k]
      BY <2>1, RoomsInsert
    <2>. QED BY <1>1, <2>1, <2>2, RoomsNoPass
  <1>4. ASSUME NEW k \in DOMAIN deliveries, deliveries[k] # "failed", deliveries' = [deliveries EXCEPT ![k] = "pending"],
               \A e \in Device : passes[e].turn # None => passes[e].turn # k,
               UNCHANGED <<rooms, roomsReceipts, roomsMessages, passes>>
        PROVE  RoomsInv'
    <2>1. RoomsWritten' /\ RoomsKnown' /\ DOMAIN deliveries' = DOMAIN deliveries /\ Prolongs(roomsMessages, roomsMessages')
      BY <1>4, RoomsStatus
    <2>2. \A e \in Device : passes[e].turn # None => deliveries'[passes[e].turn] = deliveries[passes[e].turn]
      BY <1>1, <1>4
    <2>. QED BY <1>4, <2>1, <2>2, RoomsNoPass
  <1>5. ASSUME NEW k \in DOMAIN deliveries, Rooms!RetryDue(k) PROVE RoomsInv'
    <2>1. deliveries[k] = "later" /\ deliveries' = [deliveries EXCEPT ![k] = "pending"] /\ UNCHANGED <<rooms, roomsReceipts, roomsMessages, passes>>
      BY <1>5 DEF Rooms!RetryDue, Rooms!Status
    <2>. QED BY <1>1, <1>4, <2>1
  <1>6. ASSUME NEW k \in DOMAIN deliveries, Rooms!Reap(k) PROVE RoomsInv'
    <2>1. /\ deliveries[k] = "running" /\ deliveries' = [deliveries EXCEPT ![k] = "pending"] /\ UNCHANGED <<rooms, roomsReceipts, roomsMessages, passes>>
          /\ \A e \in Device : passes[e].turn # k
      BY <1>6 DEF Rooms!Reap, Rooms!Status
    <2>. QED BY <1>4, <2>1
  <1>7. CASE UNCHANGED Rooms!vars
    <2>1. UNCHANGED <<rooms, roomsReceipts, roomsMessages, deliveries, passes>>
      BY <1>7 DEF Rooms!vars
    <2>2. RoomsKnown'
      BY <2>1 DEF RoomsInv, RoomsKnown
    <2>3. RoomsWritten' /\ Prolongs(roomsMessages, roomsMessages')
      BY <1>1, <2>1, <2>2, RoomsStill
    <2>. QED BY <1>1, <2>1, <2>2, <2>3, RoomsNoPass
  <1>8. ASSUME NEW d \in Device, Rooms!Work(d) PROVE RoomsInv'
    BY <1>8, RoomsWork
  <1>9. ASSUME NEW d \in Device, Rooms!Write(d) PROVE RoomsInv'
    BY <1>3, <1>9 DEF Rooms!Write
  <1>. QED BY <1>2, <1>5, <1>6, <1>7, <1>8, <1>9 DEF Rooms!Next

\* What RoomsSafe says: several computers write to the rooms of several accounts, workers answer
\* and die in between, and everybody sees one room per request and one sequence of messages per
\* room, only addressed members are woken, no answer is written twice, and no question is closed
\* in silence; for any computers, agents and callers, whose requests are not named like the hub's.
THEOREM RoomsHold ==
    ASSUME Rooms!RoomsAssumption
    PROVE  Rooms!Spec => []Rooms!RoomsSafe
  <1>1. Rooms!Init => RoomsInv
    <2>. SUFFICES ASSUME Rooms!Init PROVE RoomsInv
      OBVIOUS
    <2>1. rooms = << >> /\ roomsReceipts = {} /\ roomsMessages = << >> /\ deliveries = << >> /\ passes = [d \in Device |-> Rooms!Idle]
      BY DEF Rooms!Init
    <2>2. DOMAIN roomsMessages = {} /\ DOMAIN deliveries = {} /\ DOMAIN rooms = {} /\ rooms \in Seq(RoomRows)
      BY <2>1
    <2>3. RoomsKnown
      BY <2>1, <2>2 DEF RoomsKnown
    <2>4. Numbered(roomsMessages)
      <3>1. roomsMessages \in Seq({})
        BY <2>1
      <3>2. \A r : InLog(roomsMessages, r) = {} /\ SeqsIn(roomsMessages, r) = {}
        BY <2>2 DEF InLog, SeqsIn
      <3>3. Cardinality({}) = 0 /\ 1 .. 0 = {}
        BY FS_EmptySet
      <3>. QED BY <2>2, <3>1, <3>2, <3>3 DEF Numbered, IsLog, AskedOnce
    <2>5. RoomsWritten
      BY <2>2, <2>4 DEF RoomsWritten, LogKnown, Woke, Replies
    <2>6. Rooms!Idle \in PassRows /\ Rooms!Idle.listed = {} /\ Rooms!Idle.turn = None /\ ~ Rooms!Idle.replied
      BY DEF Rooms!Idle, PassRows
    <2>7. RoomTurns
      BY <2>1, <2>6 DEF RoomTurns, OnTurn
    <2>. QED BY <2>3, <2>5, <2>7 DEF RoomsInv
  <1>2. RoomsInv /\ [Rooms!Next]_(Rooms!vars) => RoomsInv'
    BY RoomsStep
  <1>3. RoomsInv => Rooms!RoomsSafe
    <2>. SUFFICES ASSUME RoomsInv PROVE Rooms!RoomsSafe
      OBVIOUS
    <2>1. Rooms!WellNumbered
      <3>. SUFFICES ASSUME NEW r \in DOMAIN rooms
                    PROVE  /\ {roomsMessages[i].seq : i \in Rooms!In(r)} = 1 .. Rooms!Cardinality(Rooms!In(r))
                           /\ \A i, j \in Rooms!In(r) : roomsMessages[i].request = roomsMessages[j].request => i = j
        BY DEF Rooms!WellNumbered
      <3>1. Rooms!In(r) = InLog(roomsMessages, r)
        BY DEF Rooms!In, InLog
      <3>2. \A S : Rooms!Cardinality(S) = Cardinality(S)
        BY Zenon DEF Rooms!Cardinality, Cardinality
      <3>3. r \in Nat
        BY DEF RoomsInv, RoomsKnown
      <3>4. SeqsIn(roomsMessages, r) = 1 .. Cardinality(InLog(roomsMessages, r))
        BY <3>3 DEF RoomsInv, RoomsWritten, LogKnown, Numbered
      <3>5. \A i, j \in InLog(roomsMessages, r) : roomsMessages[i].request = roomsMessages[j].request => i = j
        BY DEF RoomsInv, RoomsWritten, LogKnown, Numbered, AskedOnce, InLog
      <3>. QED BY <3>1, <3>2, <3>4, <3>5 DEF SeqsIn
    <2>2. Rooms!OnlyMembersAreWoken
      <3>1. ASSUME NEW k \in DOMAIN deliveries
            PROVE  /\ k[2] \in roomsMessages[k[1]].to /\ ~ roomsMessages[k[1]].system
                   /\ k[2] \in rooms[roomsMessages[k[1]].room].members /\ AgentOwner[k[2]] = rooms[roomsMessages[k[1]].room].owner
        <4>1. k[1] \in DOMAIN roomsMessages
          BY LogAppend DEF RoomsInv, RoomsWritten, LogKnown, Numbered, Woke
        <4>2. roomsMessages[k[1]].room \in DOMAIN rooms
          BY <4>1 DEF RoomsInv, RoomsWritten, LogKnown
        <4>. QED BY <4>2 DEF RoomsInv, RoomsWritten, RoomsKnown, Woke, RoomOf
      <3>2. ASSUME NEW i \in DOMAIN roomsMessages, NEW k \in DOMAIN deliveries, roomsMessages[i].request = <<"delivery", k>>
            PROVE  roomsMessages[i].author = k[2] /\ k[2] \notin roomsMessages[i].to /\ roomsMessages[i].room = roomsMessages[k[1]].room
        BY <3>2 DEF RoomsInv, RoomsWritten, Replies, RoomOf
      <3>. QED BY <3>1, <3>2 DEF Rooms!OnlyMembersAreWoken
    <2>3. Rooms!ReceiptsAreOwn
      <3>. SUFFICES ASSUME NEW owner \in Account, NEW request \in RoomsRequest, NEW x \in Rooms!Receipts(owner, request)
                    PROVE  /\ Rooms!Receipts(owner, request) = {x}
                           /\ rooms[x.room].owner = owner /\ x.members \subseteq rooms[x.room].members
        BY DEF Rooms!ReceiptsAreOwn
      <3>. QED BY DEF Rooms!Receipts, RoomsInv, RoomsKnown
    <2>4. Rooms!ClosedIsExplained
      BY WrittenIs DEF Rooms!ClosedIsExplained, RoomsInv, RoomsWritten, Closed, RoomOf
    <2>. QED BY <2>1, <2>2, <2>3, <2>4 DEF Rooms!RoomsSafe
  <1>. QED BY <1>1, <1>2, <1>3, PTL DEF Rooms!Spec

\* Beside everything else, in the rooms of a hub nothing is written twice, only members who
\* were addressed are woken, and no message is closed in silence.
THEOREM AgentsMeet == Spec => []RoomsSafe
  <1>1. Init => Rooms!Init
    BY DEF Init
  <1>2. [Next]_vars => [Rooms!Next]_(Rooms!vars)
    <2>1. UNCHANGED roomsVars => UNCHANGED Rooms!vars
      BY DEF roomsVars, Rooms!vars
    <2>2. Next => Rooms!Next \/ UNCHANGED roomsVars
      BY DEF Next
    <2>3. UNCHANGED vars => UNCHANGED roomsVars
      BY DEF vars
    <2>. QED BY <2>1, <2>2, <2>3
  <1>. QED BY <1>1, <1>2, RoomsAssumed, RoomsHold, PTL DEF Spec, Rooms!Spec, RoomsSafe

(***************************************************************************)
(* Handoffs.  Who is at telling of a handoff, and what was told of it, are *)
(* at most one together: the caller that wrote the handoff tells of it,    *)
(* and the one that resolved it.                                           *)
(***************************************************************************)
WorkSaid == Work!Terminal \cup {"requested"}
Rows == [source : WorkAgent, target : WorkAgent, state : WorkSaid]
Notes == [dm : Nat, of : Nat, says : WorkSaid]
AtTelling(c) == workCalls[c].stage \in {"looking", "making", "telling"}

WorkTypes ==
    /\ handoffs \in Seq(Rows) /\ dms \in Seq(WorkAgent) /\ workMessages \in Seq(Notes) /\ DOMAIN workCalls = Caller

\* whose conversation it is told in, and what
Rightly(rows, agent, h, says) ==
    IF says = "requested" THEN agent = rows[h].target
    ELSE agent = rows[h].source /\ rows[h].state = says

Untold(h, says) ==
    \A i \in DOMAIN workMessages : workMessages[i].of = h => (workMessages[i].says = "requested") # (says = "requested")

CallHolds(c) ==
    /\ workCalls[c].stage = "creating" => workCalls[c].source \in WorkAgent /\ workCalls[c].agent \in WorkAgent
    /\ workCalls[c].stage = "resolving" => workCalls[c].of \in DOMAIN handoffs /\ workCalls[c].says \in Work!Terminal
    /\ AtTelling(c) =>
          /\ workCalls[c].agent \in WorkAgent /\ workCalls[c].of \in DOMAIN handoffs /\ workCalls[c].says \in WorkSaid
          /\ Rightly(handoffs, workCalls[c].agent, workCalls[c].of, workCalls[c].says)
          /\ Untold(workCalls[c].of, workCalls[c].says)
    /\ workCalls[c].stage = "telling" => workCalls[c].dm \in DOMAIN dms /\ dms[workCalls[c].dm] = workCalls[c].agent

OneTells(c, d) ==
    AtTelling(c) /\ AtTelling(d) /\ workCalls[c].of = workCalls[d].of
        /\ (workCalls[c].says = "requested") = (workCalls[d].says = "requested") => c = d

NoteHolds(i) ==
    /\ workMessages[i].dm \in DOMAIN dms /\ workMessages[i].of \in DOMAIN handoffs
    /\ Rightly(handoffs, dms[workMessages[i].dm], workMessages[i].of, workMessages[i].says)

OneNote(i, j) ==
    workMessages[i].of = workMessages[j].of
        /\ (workMessages[i].says = "requested") = (workMessages[j].says = "requested") => i = j

WorkInv ==
    /\ WorkTypes
    /\ \A c \in Caller : CallHolds(c)
    /\ \A c, d \in Caller : OneTells(c, d)
    /\ \A i \in DOMAIN workMessages : NoteHolds(i)
    /\ \A i, j \in DOMAIN workMessages : OneNote(i, j)

\* A call moves on; what it is to tell, nobody else is at.
LEMMA WorkCalls ==
    ASSUME WorkInv, NEW c \in Caller, NEW k, workCalls' = [workCalls EXCEPT ![c] = k],
           UNCHANGED <<handoffs, workMessages>>, dms' \in Seq(WorkAgent), DOMAIN dms \subseteq DOMAIN dms',
           \A i \in DOMAIN dms : dms'[i] = dms[i],
           k.stage = "creating" => k.source \in WorkAgent /\ k.agent \in WorkAgent,
           k.stage = "resolving" => k.of \in DOMAIN handoffs /\ k.says \in Work!Terminal,
           k.stage \in {"looking", "making", "telling"} =>
              AtTelling(c) /\ k.agent = workCalls[c].agent /\ k.of = workCalls[c].of /\ k.says = workCalls[c].says,
           k.stage = "telling" => k.dm \in DOMAIN dms' /\ dms'[k.dm] = k.agent
    PROVE  WorkInv'
  <1> USE DEF WorkInv
  <1>1. DOMAIN workCalls' = Caller /\ workCalls'[c] = k /\ \A d \in Caller \ {c} : workCalls'[d] = workCalls[d]
    BY DEF WorkTypes
  <1>2. WorkTypes'
    BY <1>1 DEF WorkTypes
  <1>3. ASSUME NEW d \in Caller PROVE CallHolds(d)'
    <2>1. CallHolds(d) /\ CallHolds(c)
      OBVIOUS
    <2>2. CASE d = c
      BY <1>1, <2>1, <2>2 DEF CallHolds, AtTelling, Rightly, Untold
    <2>3. CASE d # c
      BY <1>1, <2>1, <2>3 DEF CallHolds, AtTelling, Rightly, Untold
    <2>. QED BY <2>2, <2>3
  <1>4. ASSUME NEW d \in Caller, NEW e \in Caller PROVE OneTells(d, e)'
    BY <1>1 DEF OneTells, AtTelling
  <1>5. ASSUME NEW i \in DOMAIN workMessages PROVE NoteHolds(i)'
    BY DEF NoteHolds, Rightly
  <1>6. ASSUME NEW i \in DOMAIN workMessages, NEW j \in DOMAIN workMessages PROVE OneNote(i, j)'
    BY DEF OneNote
  <1>. QED BY <1>2, <1>3, <1>4, <1>5, <1>6

LEMMA WorkFree == Work!Free.stage = "free"
  BY DEF Work!Free

LEMMA WorkStep ==
    ASSUME Work!HandoffsAssumption, WorkInv, [Work!Next]_(Work!vars)
    PROVE  WorkInv'
  <1> USE DEF WorkInv
  <1>1. ASSUME UNCHANGED <<handoffs, dms, workMessages, workCalls>> PROVE WorkInv'
    BY <1>1 DEF WorkTypes, CallHolds, AtTelling, Rightly, Untold, OneTells, NoteHolds, OneNote
  <1>2. ASSUME NEW s \in WorkAgent, NEW t \in WorkAgent, Work!GrantTarget(s, t) \/ Work!Archive(s) PROVE WorkInv'
    BY <1>1, <1>2 DEF Work!GrantTarget, Work!Archive
  <1>3. ASSUME NEW c \in Caller, NEW s \in WorkAgent, NEW t \in WorkAgent, Work!AskHandOff(c, s, t) PROVE WorkInv'
    <2> DEFINE k == [Work!Free EXCEPT !.stage = "creating", !.source = s, !.agent = t]
    <2>1. workCalls' = [workCalls EXCEPT ![c] = k] /\ UNCHANGED <<handoffs, dms, workMessages>>
      BY <1>3 DEF Work!AskHandOff, Work!Set
    <2>2. k.stage = "creating" /\ k.source = s /\ k.agent = t
      BY DEF Work!Free
    <2> HIDE DEF k
    <2>. QED BY <2>1, <2>2, WorkCalls DEF WorkTypes
  <1>4. ASSUME NEW c \in Caller, NEW h \in DOMAIN handoffs, NEW st \in Work!Terminal, Work!AskResolve(c, h, st) PROVE WorkInv'
    <2> DEFINE k == [Work!Free EXCEPT !.stage = "resolving", !.of = h, !.says = st]
    <2>1. workCalls' = [workCalls EXCEPT ![c] = k] /\ UNCHANGED <<handoffs, dms, workMessages>>
      BY <1>4 DEF Work!AskResolve, Work!Set
    <2>2. k.stage = "resolving" /\ k.of = h /\ k.says = st
      BY DEF Work!Free
    <2> HIDE DEF k
    <2>. QED BY <2>1, <2>2, WorkCalls DEF WorkTypes
  \* a handoff is written or resolved, and its caller is the one to tell
  <1>5. ASSUME NEW c \in Caller, NEW h, NEW says \in WorkSaid, NEW agent \in WorkAgent, NEW k,
               handoffs' \in Seq(Rows), DOMAIN handoffs \subseteq DOMAIN handoffs', h \in DOMAIN handoffs',
               UNCHANGED <<dms, workMessages>>, workCalls' = [workCalls EXCEPT ![c] = k],
               k.stage = "looking", k.agent = agent, k.of = h, k.says = says,
               \A g \in DOMAIN handoffs : handoffs'[g].source = handoffs[g].source /\ handoffs'[g].target = handoffs[g].target,
               \A g \in DOMAIN handoffs : g # h => handoffs'[g].state = handoffs[g].state,
               Rightly(handoffs', agent, h, says),
               h \in DOMAIN handoffs => says # "requested" /\ handoffs[h].state \notin Work!Terminal
        PROVE  WorkInv'
    <2>1. DOMAIN workCalls' = Caller /\ workCalls'[c] = k /\ \A d \in Caller \ {c} : workCalls'[d] = workCalls[d]
      BY <1>5 DEF WorkTypes
    <2>2. WorkTypes'
      BY <1>5, <2>1 DEF WorkTypes
    \* nothing was told of it, and nobody else is at telling of it
    <2>3. ASSUME NEW i \in DOMAIN workMessages, workMessages[i].of = h PROVE says # "requested" /\ workMessages[i].says = "requested"
      <3>1. NoteHolds(i) /\ workMessages[i].says \in WorkSaid
        <4>1. workMessages[i] \in Notes
          BY DEF WorkTypes
        <4>. QED BY <4>1 DEF Notes
      <3>. QED BY <1>5, <2>3, <3>1 DEF NoteHolds, Rightly, WorkSaid
    <2>4. ASSUME NEW d \in Caller, AtTelling(d), workCalls[d].of = h PROVE says # "requested" /\ workCalls[d].says = "requested"
      BY <1>5, <2>4 DEF CallHolds, Rightly, WorkSaid
    <2>5. Untold(h, says)'
      BY <1>5, <2>3 DEF Untold
    <2>6. ASSUME NEW d \in Caller PROVE CallHolds(d)'
      <3>1. CASE d = c
        BY <1>5, <2>1, <2>5, <3>1 DEF CallHolds, AtTelling
      <3>2. CASE d # c
        <4>1. CallHolds(d) /\ workCalls'[d] = workCalls[d]
          BY <2>1, <3>2
        <4>2. AtTelling(d) => Rightly(handoffs', workCalls[d].agent, workCalls[d].of, workCalls[d].says)
          BY <1>5, <2>4, <4>1 DEF CallHolds, Rightly
        <4>. QED BY <1>5, <4>1, <4>2 DEF CallHolds, AtTelling, Untold
      <3>. QED BY <3>1, <3>2
    <2>7. ASSUME NEW d \in Caller, NEW e \in Caller PROVE OneTells(d, e)'
      BY <1>5, <2>1, <2>4 DEF OneTells, AtTelling
    <2>8. ASSUME NEW i \in DOMAIN workMessages PROVE NoteHolds(i)'
      BY <1>5, <2>3 DEF NoteHolds, Rightly
    <2>9. ASSUME NEW i \in DOMAIN workMessages, NEW j \in DOMAIN workMessages PROVE OneNote(i, j)'
      BY <1>5 DEF OneNote
    <2>. QED BY <1>5, <2>2, <2>6, <2>7, <2>8, <2>9
  <1>6. ASSUME NEW c \in Caller, Work!Create(c) PROVE WorkInv'
    <2> DEFINE row == [source |-> workCalls[c].source, target |-> workCalls[c].agent, state |-> "requested"]
               h == Len(handoffs) + 1
               k == [Work!Free EXCEPT !.stage = "looking", !.agent = workCalls[c].agent, !.of = h, !.says = "requested"]
    <2>1. workCalls[c].stage = "creating" /\ handoffs' = Append(handoffs, row) /\ UNCHANGED <<dms, workMessages>>
      BY <1>6 DEF Work!Create
    <2>2. workCalls[c].source \in WorkAgent /\ workCalls[c].agent \in WorkAgent /\ row \in Rows
      BY <2>1 DEF CallHolds, Rows, WorkSaid
    <2>3. /\ handoffs' \in Seq(Rows) /\ Len(handoffs') = h /\ DOMAIN handoffs' = DOMAIN handoffs \cup {h} /\ h \notin DOMAIN handoffs
          /\ handoffs'[h] = row /\ \A g \in DOMAIN handoffs : handoffs'[g] = handoffs[g]
      BY <2>1, <2>2 DEF WorkTypes
    <2>4. workCalls' = [workCalls EXCEPT ![c] = k]
      BY <1>6, <2>3 DEF Work!Create, Work!Tell, Work!Set
    <2>5. k.stage = "looking" /\ k.agent = workCalls[c].agent /\ k.of = h /\ k.says = "requested"
      BY DEF Work!Free
    <2>6. row.target = workCalls[c].agent
      OBVIOUS
    <2> HIDE DEF k, row, h
    <2>7. Rightly(handoffs', workCalls[c].agent, h, "requested")
      BY <2>3, <2>6 DEF Rightly
    <2>. QED BY <1>5, <2>1, <2>2, <2>3, <2>4, <2>5, <2>7 DEF WorkSaid
  <1>7. ASSUME NEW c \in Caller, Work!Resolve(c) PROVE WorkInv'
    <2> DEFINE h == workCalls[c].of
               row == [handoffs[h] EXCEPT !.state = workCalls[c].says]
               k == [Work!Free EXCEPT !.stage = "looking", !.agent = handoffs[h].source, !.of = h, !.says = workCalls[c].says]
    <2>1. workCalls[c].stage = "resolving" /\ UNCHANGED <<dms, workMessages>>
      BY <1>7 DEF Work!Resolve
    <2>2. h \in DOMAIN handoffs /\ workCalls[c].says \in Work!Terminal /\ handoffs[h] \in Rows
      BY <2>1 DEF CallHolds, WorkTypes
    <2>3. CASE workCalls' = [workCalls EXCEPT ![c] = Work!Free] /\ handoffs' = handoffs
      BY <2>1, <2>3, WorkFree, WorkCalls DEF WorkTypes
    <2>4. CASE handoffs[h].state \notin Work!Terminal /\ handoffs' = [handoffs EXCEPT ![h] = row] /\ workCalls' = [workCalls EXCEPT ![c] = k]
      <3>1. row \in Rows /\ row.source = handoffs[h].source /\ row.target = handoffs[h].target /\ row.state = workCalls[c].says
        BY <2>2 DEF Rows, WorkSaid
      <3>2. k.stage = "looking" /\ k.agent = handoffs[h].source /\ k.of = h /\ k.says = workCalls[c].says
        BY DEF Work!Free
      <3> HIDE DEF row, k, h
      <3>3. handoffs' \in Seq(Rows) /\ DOMAIN handoffs' = DOMAIN handoffs /\ handoffs'[h] = row
            /\ \A g \in DOMAIN handoffs : g # h => handoffs'[g] = handoffs[g]
        BY <2>2, <2>4, <3>1 DEF WorkTypes
      <3>4. workCalls[c].says # "requested" /\ workCalls[c].says \in WorkSaid /\ handoffs[h].source \in WorkAgent
        BY <2>2 DEF Work!Terminal, WorkSaid, Rows
      <3>5. Rightly(handoffs', handoffs[h].source, h, workCalls[c].says)
        BY <2>2, <3>1, <3>3, <3>4 DEF Rightly
      <3>6. \A g \in DOMAIN handoffs : handoffs'[g].source = handoffs[g].source /\ handoffs'[g].target = handoffs[g].target
        BY <3>1, <3>3
      <3>7. DOMAIN handoffs \subseteq DOMAIN handoffs' /\ h \in DOMAIN handoffs'
            /\ \A g \in DOMAIN handoffs : g # h => handoffs'[g].state = handoffs[g].state
        BY <2>2, <3>3
      <3>8. PICK a \in WorkAgent : a = handoffs[h].source
        BY <3>4
      <3>9. PICK says \in WorkSaid : says = workCalls[c].says
        BY <3>4
      <3>10. k.agent = a /\ k.says = says /\ Rightly(handoffs', a, h, says) /\ says # "requested"
        BY <3>2, <3>4, <3>5, <3>8, <3>9
      <3>11. handoffs[h].state \notin Work!Terminal /\ workCalls' = [workCalls EXCEPT ![c] = k] /\ k.stage = "looking" /\ k.of = h
             /\ handoffs' \in Seq(Rows) /\ UNCHANGED <<dms, workMessages>>
        BY <2>1, <2>4, <3>2, <3>3
      <3> HIDE DEF WorkInv
      <3>. QED BY <1>5, <3>6, <3>7, <3>10, <3>11, ZenonT(60)
    <2>5. workCalls[c].stage = "resolving" /\
          \/ /\ Work!Unresolved(h)
             /\ handoffs' = [handoffs EXCEPT ![h].state = workCalls[c].says]
             /\ Work!Tell(c, handoffs[h].source, h, workCalls[c].says)
          \/ /\ ~ Work!Unresolved(h)
             /\ Work!Set(c, Work!Free) /\ UNCHANGED handoffs
      BY <1>7 DEF Work!Resolve
    <2>. QED BY <2>3, <2>4, <2>5 DEF Work!Unresolved, Work!Tell, Work!Set
  <1>8. ASSUME NEW c \in Caller, Work!FindDm(c) PROVE WorkInv'
    <2> DEFINE D == Work!DmsOf(workCalls[c].agent)
               make == [workCalls[c] EXCEPT !.stage = "making"]
               tell == [[workCalls[c] EXCEPT !.stage = "telling"] EXCEPT !.dm = Work!Max(D)]
    <2>1. AtTelling(c) /\ UNCHANGED <<handoffs, dms, workMessages>>
      BY <1>8 DEF Work!FindDm, AtTelling
    <2>2. CASE workCalls' = [workCalls EXCEPT ![c] = make]
      <3>1. make.stage = "making" /\ make.agent = workCalls[c].agent /\ make.of = workCalls[c].of /\ make.says = workCalls[c].says
        OBVIOUS
      <3> HIDE DEF make
      <3>. QED BY <2>1, <2>2, <3>1, WorkCalls DEF WorkTypes
    <2>3. CASE D # {} /\ workCalls' = [workCalls EXCEPT ![c] = tell]
      <3>1. tell.stage = "telling" /\ tell.agent = workCalls[c].agent /\ tell.of = workCalls[c].of /\ tell.says = workCalls[c].says
            /\ tell.dm = Work!Max(D)
        OBVIOUS
      <3>2. D \in SUBSET (0 .. Len(dms)) /\ Len(dms) \in Nat
        BY DEF Work!DmsOf, WorkTypes
      <3>3. PICK m \in D : \A n \in D : n <= m
        BY <2>3, <3>2, NatGreatest
      <3>4. Work!Max(D) \in D
        <4>1. m \in D /\ \A n \in D : m >= n
          BY <3>2, <3>3
        <4>. QED BY <4>1 DEF Work!Max
      <3>5. Work!Max(D) \in DOMAIN dms /\ dms[Work!Max(D)] = workCalls[c].agent
        BY <3>4 DEF Work!DmsOf
      <3> HIDE DEF tell, D
      <3>. QED BY <2>1, <2>3, <3>1, <3>5, WorkCalls DEF WorkTypes
    <2>. QED BY <1>8, <2>2, <2>3 DEF Work!FindDm
  <1>9. ASSUME NEW c \in Caller, Work!MakeDm(c) PROVE WorkInv'
    <2> DEFINE tell == [[workCalls[c] EXCEPT !.stage = "telling"] EXCEPT !.dm = Len(dms')]
    <2>1. workCalls[c].stage = "making" /\ dms' = Append(dms, workCalls[c].agent) /\ workCalls' = [workCalls EXCEPT ![c] = tell]
          /\ UNCHANGED <<handoffs, workMessages>>
      BY <1>9 DEF Work!MakeDm
    <2>2. AtTelling(c) /\ workCalls[c].agent \in WorkAgent
      BY <2>1 DEF AtTelling, CallHolds
    <2>3. tell.stage = "telling" /\ tell.agent = workCalls[c].agent /\ tell.of = workCalls[c].of /\ tell.says = workCalls[c].says
          /\ tell.dm = Len(dms')
      OBVIOUS
    <2>4. dms' \in Seq(WorkAgent) /\ DOMAIN dms \subseteq DOMAIN dms' /\ (\A i \in DOMAIN dms : dms'[i] = dms[i])
          /\ Len(dms') \in DOMAIN dms' /\ dms'[Len(dms')] = workCalls[c].agent
      BY <2>1, <2>2 DEF WorkTypes
    <2> HIDE DEF tell
    <2>. QED BY <2>1, <2>2, <2>3, <2>4, WorkCalls
  <1>10. ASSUME NEW c \in Caller, Work!Crash(c) PROVE WorkInv'
    BY <1>10, WorkFree, WorkCalls DEF Work!Crash, WorkTypes
  <1>11. ASSUME NEW c \in Caller, Work!SendMessage(c) PROVE WorkInv'
    <2> DEFINE note == [dm |-> workCalls[c].dm, of |-> workCalls[c].of, says |-> workCalls[c].says]
               n == Len(workMessages) + 1
    <2>1. workCalls[c].stage = "telling" /\ workCalls' = [workCalls EXCEPT ![c] = Work!Free] /\ UNCHANGED <<handoffs, dms>>
      BY <1>11 DEF Work!SendMessage
    <2>2. CASE workMessages' = workMessages
      BY <2>1, <2>2, WorkFree, WorkCalls DEF WorkTypes
    <2>3. CASE workMessages' = Append(workMessages, note)
      <3>1. CallHolds(c) /\ AtTelling(c)
        BY <2>1 DEF AtTelling
      <3>2. /\ workCalls[c].dm \in DOMAIN dms /\ dms[workCalls[c].dm] = workCalls[c].agent /\ workCalls[c].of \in DOMAIN handoffs
            /\ workCalls[c].says \in WorkSaid /\ Rightly(handoffs, workCalls[c].agent, workCalls[c].of, workCalls[c].says)
            /\ Untold(workCalls[c].of, workCalls[c].says)
        BY <2>1, <3>1 DEF CallHolds
      <3>3. note \in Notes /\ note.dm = workCalls[c].dm /\ note.of = workCalls[c].of /\ note.says = workCalls[c].says
        BY <3>2 DEF Notes, WorkTypes
      <3> HIDE DEF note
      <3>4. workMessages' \in Seq(Notes) /\ DOMAIN workMessages' = DOMAIN workMessages \cup {n} /\ n \notin DOMAIN workMessages
            /\ workMessages'[n] = note /\ \A i \in DOMAIN workMessages : workMessages'[i] = workMessages[i]
        BY <2>3, <3>3 DEF WorkTypes
      <3> HIDE DEF n
      <3>5. DOMAIN workCalls' = Caller /\ workCalls'[c].stage = "free" /\ \A d \in Caller \ {c} : workCalls'[d] = workCalls[d]
        BY <2>1, WorkFree DEF WorkTypes
      <3>6. WorkTypes'
        BY <2>1, <3>4, <3>5 DEF WorkTypes
      <3>7. ASSUME NEW d \in Caller PROVE CallHolds(d)'
        <4>1. CASE d = c
          BY <3>5, <4>1 DEF CallHolds, AtTelling
        <4>2. CASE d # c
          <5>1. CallHolds(d) /\ workCalls'[d] = workCalls[d] /\ OneTells(c, d)
            BY <3>5, <4>2
          <5>2. AtTelling(d) => Untold(workCalls[d].of, workCalls[d].says)'
            BY <3>1, <3>3, <3>4, <4>2, <5>1 DEF CallHolds, Untold, OneTells
          <5>. QED BY <2>1, <5>1, <5>2 DEF CallHolds, AtTelling, Rightly
        <4>. QED BY <4>1, <4>2
      <3>8. ASSUME NEW d \in Caller, NEW e \in Caller PROVE OneTells(d, e)'
        BY <3>5 DEF OneTells, AtTelling
      <3>9. ASSUME NEW i \in DOMAIN workMessages' PROVE NoteHolds(i)'
        BY <2>1, <3>2, <3>3, <3>4 DEF NoteHolds, Rightly
      <3>10. ASSUME NEW i \in DOMAIN workMessages', NEW j \in DOMAIN workMessages' PROVE OneNote(i, j)'
        BY <3>2, <3>3, <3>4 DEF OneNote, Untold
      <3>. QED BY <3>6, <3>7, <3>8, <3>9, <3>10
    <2>. QED BY <1>11, <2>2, <2>3 DEF Work!SendMessage
  <1>. QED
    BY <1>1, <1>2, <1>3, <1>4, <1>6, <1>7, <1>8, <1>9, <1>10, <1>11 DEF Work!Next, Work!vars

LEMMA WorkCounts == \A S : Work!Cardinality(S) = Cardinality(S)
  BY Zenon DEF Work!Cardinality, Cardinality

\* "One receipt per handoff, not a moving target": whatever callers race and die, an agent is
\* asked at most once and told of the result at most once, each in its own conversation, and
\* what the source is told is how the handoff ended; for any agents, callers and handoffs.
THEOREM ToldOnce ==
    ASSUME Work!HandoffsAssumption
    PROVE  Work!Spec => []Work!HandoffsSafe
  <1>1. Work!Init => WorkInv
    BY WorkFree DEF Work!Init, WorkInv, WorkTypes, CallHolds, AtTelling, OneTells, NoteHolds, OneNote
  <1>2. WorkInv /\ [Work!Next]_(Work!vars) => WorkInv'
    BY WorkStep
  <1>3. WorkInv => Work!HandoffsSafe
    <2>. SUFFICES ASSUME WorkInv, NEW h \in DOMAIN handoffs
         PROVE  /\ Cardinality(Work!About(h, FALSE)) <= 1 /\ Cardinality(Work!About(h, TRUE)) <= 1
                /\ \A i \in Work!About(h, FALSE) : dms[workMessages[i].dm] = handoffs[h].target
                /\ \A i \in Work!About(h, TRUE) : /\ dms[workMessages[i].dm] = handoffs[h].source
                                                  /\ workMessages[i].says = handoffs[h].state
      BY WorkCounts DEF Work!HandoffsSafe
    <2>1. ASSUME NEW r \in BOOLEAN PROVE Cardinality(Work!About(h, r)) <= 1
      <3>1. \A i, j \in Work!About(h, r) : i = j
        BY DEF Work!About, WorkInv, OneNote
      <3>2. CASE Work!About(h, r) = {}
        BY <3>2, FS_EmptySet
      <3>3. CASE Work!About(h, r) # {}
        <4>1. PICK i \in Work!About(h, r) : TRUE
          BY <3>3
        <4>2. Work!About(h, r) = {i}
          BY <3>1, <4>1
        <4>. QED BY <4>2, FS_Singleton, SMTT(60)
      <3>. QED BY <3>2, <3>3
    <2>2. ASSUME NEW i \in Work!About(h, FALSE) PROVE dms[workMessages[i].dm] = handoffs[h].target
      BY DEF Work!About, WorkInv, NoteHolds, Rightly
    <2>3. ASSUME NEW i \in Work!About(h, TRUE)
          PROVE  dms[workMessages[i].dm] = handoffs[h].source /\ workMessages[i].says = handoffs[h].state
      BY DEF Work!About, WorkInv, NoteHolds, Rightly
    <2>. QED BY <2>1, <2>2, <2>3
  <1>. QED BY <1>1, <1>2, <1>3, PTL DEF Work!Spec

\* Beside everything else, the target of a handoff is woken for it at most once, and its
\* source is told at most once, in their own conversation, how it ended.
THEOREM AgentsHandOver == Spec => []HandoffsSafe
  <1>1. Init => Work!Init
    BY DEF Init
  <1>2. [Next]_vars => [Work!Next]_(Work!vars)
    <2>1. UNCHANGED workVars => UNCHANGED Work!vars
      BY DEF workVars, Work!vars
    <2>2. Next => Work!Next \/ UNCHANGED workVars
      BY DEF Next
    <2>3. UNCHANGED vars => UNCHANGED workVars
      BY DEF vars
    <2>. QED BY <2>1, <2>2, <2>3
  <1>. QED BY <1>1, <1>2, WorkAssumed, ToldOnce, PTL DEF Spec, Work!Spec, HandoffsSafe
=============================================================================
