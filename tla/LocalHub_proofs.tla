--------------------------- MODULE LocalHub_proofs ---------------------------
(*****************************************************************************)
(* Theorems about the other services of a local hub and the choice of the    *)
(* hub a computer works on: first those about each part, then what the       *)
(* whole keeps.                                                              *)
(*****************************************************************************)
EXTENDS LocalHub, Integers, FiniteSetTheorems, SequenceTheorems, WellFoundedInduction, TLAPS

(***************************************************************************)
(* The natural numbers are well ordered.                                   *)
(***************************************************************************)
LEMMA LessIsRelated == \A x, y \in Nat : x < y => <<x, y>> \in OpToRel(<, Nat)
  BY DEF OpToRel

\* A set of natural numbers that is not empty has a least element.
LEMMA NatLeast ==
    ASSUME NEW S \in SUBSET Nat, S # {}
    PROVE  \E m \in S : \A n \in S : m <= n
  <1>1. IsWellFoundedOn(OpToRel(<, Nat), Nat)
    BY NatLessThanWellFounded
  <1>2. PICK m \in S : \A n \in S : ~ (<<n, m>> \in OpToRel(<, Nat))
    BY <1>1, WFMin
  <1>3. \A n \in S : ~ (n < m)
    BY <1>2, LessIsRelated, Zenon
  <1>. QED BY <1>3

\* One that is bounded has a greatest one.
LEMMA NatGreatest ==
    ASSUME NEW b \in Nat, NEW S \in SUBSET (0 .. b), S # {}
    PROVE  \E m \in S : \A n \in S : n <= m
  <1> DEFINE T == {b - n : n \in S}
  <1>1. T \in SUBSET Nat /\ T # {}
    <2>1. \A n \in S : b - n \in Nat
      OBVIOUS
    <2>2. PICK n \in S : TRUE
      OBVIOUS
    <2>. QED BY <2>1, <2>2
  <1>2. PICK t \in T : \A u \in T : t <= u
    BY <1>1, NatLeast
  <1>3. PICK m \in S : t = b - m
    BY <1>2
  <1>4. \A n \in S : b - m <= b - n
    BY <1>2, <1>3
  <1>. QED BY <1>4

(***************************************************************************)
(* The scheduler.  Positions and occurrences stay a whole number of        *)
(* intervals away from the promised first instant; what the loop is at is  *)
(* running and, once its task was sent, in the part of the conversation    *)
(* that was read; what else is running was left there by a fault.          *)
(***************************************************************************)
LEMMA OnMultiples ==
    ASSUME NEW k \in Nat, NEW e \in Nat \ {0}, NEW a \in Int
    PROVE  a + k * e >= a /\ ((a + k * e) - a) % e = 0
  <1>1. k * e >= 0 /\ (k * e) % e = 0
    OBVIOUS
  <1>2. (a + k * e) - a = k * e
    OBVIOUS
  <1>. QED BY <1>1, <1>2

\* whole intervals after b; and the last position that is not after t
Grid(l, b, e) == \E k \in Nat : l = b + k * e
BoundaryOf(l, e, t) == l + e * ((t - l) \div e)

\* the latest boundary: at least one interval on, on the grid
LEMMA SkipsToBoundary ==
    ASSUME NEW e \in Nat \ {0}, NEW a \in Int, NEW l \in Int, NEW t \in Int,
           Grid(l, a - e, e), l + e <= t
    PROVE  /\ BoundaryOf(l, e, t) \in Int
           /\ Grid(BoundaryOf(l, e, t), a - e, e) /\ Grid(BoundaryOf(l, e, t), a, e)
  <1> DEFINE q == (t - l) \div e
  <1>1. q \in Nat /\ q >= 1
    <2>1. t - l \in Nat /\ t - l >= e
      OBVIOUS
    <2>. QED BY <2>1
  <1> HIDE DEF q
  <1>2. PICK k \in Nat : l = (a - e) + k * e
    BY DEF Grid
  <1>3. k + q \in Nat /\ k + q - 1 \in Nat
    BY <1>1
  <1>4. l + e * q = (a - e) + (k + q) * e /\ l + e * q = a + (k + q - 1) * e /\ l + e * q \in Int
    BY <1>1, <1>2
  <1>5. Grid(l + e * q, a - e, e) /\ Grid(l + e * q, a, e)
    BY <1>3, <1>4 DEF Grid
  <1>. QED BY <1>4, <1>5 DEF q, BoundaryOf

ClockTypes ==
    /\ now \in Int /\ after \in Nat /\ troubles \in Nat /\ DOMAIN enabled = Schedule
    /\ last \in [Schedule -> Int] /\ DOMAIN anchor = Schedule
    /\ occ \in [Timer!Occurrence -> Timer!State] /\ DOMAIN result = Timer!Occurrence
    /\ conv \in [Agent -> Seq(Timer!Message)]

\* a position is a number of intervals after the one before the first instant
OnTrack(s) ==
    Timer!Exists(s) =>
        anchor[s] \in Int /\ Grid(last[s], anchor[s] - Every[s], Every[s])

Planned(o) ==
    occ[o] # "absent" => Timer!Exists(o[1]) /\ Grid(o[2], anchor[o[1]], Every[o[1]])

Answered(o) ==
    occ[o] = "succeeded" =>
        \E i, j \in DOMAIN conv[AgentOf[o[1]]] :
           /\ i < j /\ conv[AgentOf[o[1]]][i] = <<"task", o>>
           /\ conv[AgentOf[o[1]]][j] = <<"reply", result[o]>>

Orphans == {o \in Timer!Occurrence : occ[o] = "running" /\ o # current}

AtOccurrence ==
    \/ pc \in {"idle", "claim"} /\ current = Timer!NoOccurrence
    \/ pc \in {"send", "poll"} /\ current \in Timer!Occurrence /\ occ[current] = "running"

\* the task was sent, and the poll has read on from there
TaskSent ==
    pc = "poll" => \E i \in DOMAIN conv[AgentOf[current[1]]] :
                      i <= after /\ conv[AgentOf[current[1]]][i] = <<"task", current>>

TimerInv ==
    /\ ClockTypes
    /\ \A s \in Schedule : OnTrack(s)
    /\ \A o \in Timer!Occurrence : Planned(o) /\ Answered(o)
    /\ Timer!DisabledIsQuiet
    /\ IsFiniteSet(Orphans) /\ Cardinality(Orphans) <= troubles
    /\ AtOccurrence /\ TaskSent

LEMMA TimerCounts == \A S : Timer!Cardinality(S) = Cardinality(S)
  BY Zenon DEF Timer!Cardinality, Cardinality

LEMMA NoOccurrenceIsNone ==
    ASSUME Timer!SchedulesAssumption PROVE Timer!NoOccurrence \notin Timer!Occurrence
  BY DEF Timer!SchedulesAssumption, Timer!NoOccurrence, Timer!Occurrence, Timer!Due

\* Messages are only added: what was said stays where it is.
LEMMA SaidStays ==
    ASSUME Timer!SchedulesAssumption, TimerInv, NEW a \in Agent, NEW m \in Timer!Message,
           conv' = [conv EXCEPT ![a] = Append(@, m)]
    PROVE  /\ conv' \in [Agent -> Seq(Timer!Message)]
           /\ \A b \in Agent : \A i \in DOMAIN conv[b] : i \in DOMAIN conv'[b] /\ conv'[b][i] = conv[b][i]
           /\ Len(conv'[a]) = Len(conv[a]) + 1 /\ conv'[a][Len(conv[a]) + 1] = m
           /\ Len(conv[a]) + 1 \in DOMAIN conv'[a]
  <1>1. conv[a] \in Seq(Timer!Message) /\ conv'[a] = Append(conv[a], m) /\ \A b \in Agent \ {a} : conv'[b] = conv[b]
    BY DEF TimerInv, ClockTypes
  <1>2. /\ conv'[a] \in Seq(Timer!Message) /\ Len(conv'[a]) = Len(conv[a]) + 1
        /\ conv'[a][Len(conv[a]) + 1] = m
        /\ \A i \in 1 .. Len(conv[a]) : conv'[a][i] = conv[a][i]
    BY <1>1
  <1>3. DOMAIN conv[a] = 1 .. Len(conv[a]) /\ DOMAIN conv'[a] = 1 .. Len(conv'[a]) /\ Len(conv[a]) \in Nat
    BY <1>1, <1>2
  <1>4. conv' \in [Agent -> Seq(Timer!Message)]
    BY <1>1, <1>2 DEF TimerInv, ClockTypes
  <1>5. \A i \in DOMAIN conv[a] : i \in DOMAIN conv'[a] /\ conv'[a][i] = conv[a][i]
    BY <1>2, <1>3
  <1>6. Len(conv[a]) + 1 \in DOMAIN conv'[a]
    BY <1>2, <1>3
  <1>. QED BY <1>1, <1>2, <1>4, <1>5, <1>6

\* An answer stays one when its conversation is only added to.
LEMMA AnswerStays ==
    ASSUME TimerInv, NEW o \in Timer!Occurrence, occ'[o] = occ[o], result'[o] = result[o],
           \A i \in DOMAIN conv[AgentOf[o[1]]] :
              i \in DOMAIN conv'[AgentOf[o[1]]] /\ conv'[AgentOf[o[1]]][i] = conv[AgentOf[o[1]]][i]
    PROVE  Answered(o)'
  <1>. SUFFICES ASSUME occ[o] = "succeeded"
                PROVE  \E i, j \in DOMAIN conv'[AgentOf[o[1]]] :
                          /\ i < j /\ conv'[AgentOf[o[1]]][i] = <<"task", o>>
                          /\ conv'[AgentOf[o[1]]][j] = <<"reply", result'[o]>>
    BY DEF Answered
  <1>1. PICK i \in DOMAIN conv[AgentOf[o[1]]], j \in DOMAIN conv[AgentOf[o[1]]] :
           /\ i < j /\ conv[AgentOf[o[1]]][i] = <<"task", o>>
           /\ conv[AgentOf[o[1]]][j] = <<"reply", result[o]>>
    BY DEF TimerInv, Answered
  <1>. QED BY <1>1

\* What a conversation is added keeps the answers and the task.
LEMMA TalkKeeps ==
    ASSUME Timer!SchedulesAssumption, TimerInv, NEW a \in Agent, NEW m \in Timer!Message,
           conv' = [conv EXCEPT ![a] = Append(@, m)],
           UNCHANGED <<now, enabled, last, anchor, occ, result, troubles, pc, current, after>>
    PROVE  TimerInv'
  <1> USE DEF TimerInv
  <1>1. \A b \in Agent : \A i \in DOMAIN conv[b] : i \in DOMAIN conv'[b] /\ conv'[b][i] = conv[b][i]
    BY SaidStays
  <1>2. ClockTypes'
    BY SaidStays DEF ClockTypes
  <1>3. ASSUME NEW o \in Timer!Occurrence PROVE Answered(o)'
    <2>1. AgentOf[o[1]] \in Agent
      BY DEF Timer!Occurrence, Timer!SchedulesAssumption
    <2>. QED BY <1>1, <2>1, AnswerStays
  <1>4. TaskSent'
    <2>1. CASE pc = "poll"
      <3>1. AgentOf[current[1]] \in Agent
        BY <2>1 DEF AtOccurrence, Timer!Occurrence, Timer!SchedulesAssumption
      <3>. QED BY <1>1, <3>1 DEF TaskSent
    <2>. QED BY <2>1 DEF TaskSent
  <1>5. \A s \in Schedule : OnTrack(s)'
    BY DEF OnTrack, Timer!Exists
  <1>6. \A o \in Timer!Occurrence : Planned(o)'
    BY DEF Planned, Timer!Exists
  <1>7. Timer!DisabledIsQuiet' /\ AtOccurrence' /\ Orphans' = Orphans
    BY DEF Timer!DisabledIsQuiet, AtOccurrence, Orphans
  <1>. QED BY <1>2, <1>3, <1>4, <1>5, <1>6, <1>7

\* A step about occurrences alone: nothing is planned that was not, and nothing runs that did not.
LEMMA RowsKeep ==
    ASSUME Timer!SchedulesAssumption, TimerInv,
           UNCHANGED <<now, last, anchor, conv, troubles>>, DOMAIN enabled' = Schedule,
           after' \in Nat, occ' \in [Timer!Occurrence -> Timer!State], DOMAIN result' = Timer!Occurrence,
           \A o \in Timer!Occurrence : occ'[o] # "absent" => occ[o] # "absent",
           \A o \in Timer!Occurrence : Answered(o)',
           Timer!DisabledIsQuiet', Orphans' = Orphans, AtOccurrence', TaskSent'
    PROVE  TimerInv'
  <1> USE DEF TimerInv
  <1>1. ClockTypes'
    BY DEF ClockTypes
  <1>2. \A s \in Schedule : OnTrack(s)'
    BY DEF OnTrack, Timer!Exists
  <1>3. \A o \in Timer!Occurrence : Planned(o)'
    BY DEF Planned, Timer!Exists
  <1>. QED BY <1>1, <1>2, <1>3

LEMMA CreateKeeps ==
    ASSUME Timer!SchedulesAssumption, TimerInv, NEW s \in Schedule, NEW start \in StartAt \cup {None},
           Timer!Create(s, start)
    PROVE  TimerInv'
  <1> USE DEF TimerInv
  <1>1. /\ ~ Timer!Exists(s) /\ enabled' = [enabled EXCEPT ![s] = TRUE]
        /\ UNCHANGED <<now, occ, conv, result, troubles, pc, current, after>>
    BY DEF Timer!Create, Timer!loop
  <1>2. PICK l \in Int, b \in Int :
           /\ last' = [last EXCEPT ![s] = l] /\ anchor' = [anchor EXCEPT ![s] = b] /\ l = b - Every[s]
    <2>1. Every[s] \in Nat /\ now \in Int /\ StartAt \subseteq Int
      BY DEF Timer!SchedulesAssumption, ClockTypes
    <2>2. CASE start = None
      <3>1. now \in Int /\ now + Every[s] \in Int /\ now = (now + Every[s]) - Every[s]
        BY <2>1
      <3>2. last' = [last EXCEPT ![s] = now] /\ anchor' = [anchor EXCEPT ![s] = now + Every[s]]
        BY <2>2 DEF Timer!Create
      <3>. QED BY <3>1, <3>2
    <2>3. CASE start # None
      <3>1. start \in Int /\ start - Every[s] \in Int
        BY <2>1, <2>3
      <3>2. last' = [last EXCEPT ![s] = start - Every[s]] /\ anchor' = [anchor EXCEPT ![s] = start]
        BY <2>3 DEF Timer!Create
      <3>. QED BY <3>1, <3>2
    <2>. QED BY <2>2, <2>3
  <1>3. ClockTypes'
    BY <1>1, <1>2 DEF ClockTypes
  <1>4. last'[s] = l /\ anchor'[s] = b /\ \A r \in Schedule \ {s} : last'[r] = last[r] /\ anchor'[r] = anchor[r]
    BY <1>2 DEF ClockTypes
  <1>5. ASSUME NEW r \in Schedule PROVE OnTrack(r)'
    <2>1. CASE r = s
      <3>1. Every[s] \in Nat /\ b \in Int /\ l = (b - Every[s]) + 0 * Every[s]
        BY <1>2 DEF Timer!SchedulesAssumption
      <3>2. Grid(l, b - Every[s], Every[s])
        BY <3>1 DEF Grid
      <3>. QED BY <1>4, <2>1, <3>1, <3>2 DEF OnTrack
    <2>. QED BY <1>4, <2>1 DEF OnTrack, Timer!Exists
  <1>6. ASSUME NEW o \in Timer!Occurrence PROVE Planned(o)'
    <2>1. o[1] \in Schedule
      BY DEF Timer!Occurrence
    <2>. QED BY <1>1, <1>4, <2>1 DEF Planned, Timer!Exists
  <1>7. \A o \in Timer!Occurrence : Answered(o)'
    BY <1>1 DEF Answered
  <1>8. Timer!DisabledIsQuiet'
    <2>1. \A r \in Schedule : enabled[r] => enabled'[r]
      BY <1>1 DEF ClockTypes
    <2>2. \A o \in Timer!Occurrence : o[1] \in Schedule
      BY DEF Timer!Occurrence
    <2>. QED BY <1>1, <2>1, <2>2 DEF Timer!DisabledIsQuiet
  <1>9. AtOccurrence' /\ TaskSent' /\ Orphans' = Orphans
    BY <1>1 DEF AtOccurrence, TaskSent, Orphans
  <1>. QED BY <1>1, <1>3, <1>5, <1>6, <1>7, <1>8, <1>9

LEMMA SwitchKeeps ==
    ASSUME Timer!SchedulesAssumption, TimerInv, NEW s \in Schedule, NEW on \in BOOLEAN,
           Timer!SetEnabled(s, on)
    PROVE  TimerInv'
  <1> USE DEF TimerInv
  <1>1. enabled' = [enabled EXCEPT ![s] = on] /\ UNCHANGED <<now, last, anchor, conv, result, troubles, pc, current, after>>
    BY DEF Timer!SetEnabled, Timer!loop
  <1>2. /\ occ' \in [Timer!Occurrence -> Timer!State]
        /\ \A o \in Timer!Occurrence : occ'[o] = occ[o] \/ (occ[o] = "queued" /\ occ'[o] = "cancelled")
        /\ \A o \in Timer!Occurrence : ~ on /\ o[1] = s => occ'[o] # "queued"
    BY DEF Timer!SetEnabled, Timer!Cancelled, ClockTypes, Timer!State
  <1>3. \A o \in Timer!Occurrence : Answered(o)'
    BY <1>1, <1>2 DEF Answered
  <1>4. Timer!DisabledIsQuiet'
    <2>1. ASSUME NEW o \in Timer!Occurrence, occ'[o] = "queued" PROVE enabled'[o[1]]
      <3>1. occ[o] = "queued" /\ enabled[o[1]] /\ o[1] \in Schedule
        BY <1>2, <2>1 DEF Timer!DisabledIsQuiet, Timer!Occurrence
      <3>2. CASE o[1] = s
        <4>1. on
          BY <1>2, <2>1, <3>2
        <4>. QED BY <1>1, <3>1, <3>2, <4>1 DEF ClockTypes
      <3>3. CASE o[1] # s
        BY <1>1, <3>1, <3>3 DEF ClockTypes
      <3>. QED BY <3>2, <3>3
    <2>. QED BY <2>1 DEF Timer!DisabledIsQuiet
  <1>5. Orphans' = Orphans /\ AtOccurrence' /\ TaskSent'
    BY <1>1, <1>2 DEF Orphans, AtOccurrence, TaskSent
  <1>6. DOMAIN enabled' = Schedule /\ after' \in Nat /\ DOMAIN result' = Timer!Occurrence
    BY <1>1 DEF ClockTypes
  <1>7. \A o \in Timer!Occurrence : occ'[o] # "absent" => occ[o] # "absent"
    BY <1>2
  <1>. QED BY <1>1, <1>2, <1>3, <1>4, <1>5, <1>6, <1>7, RowsKeep

LEMMA MaterializeKeeps ==
    ASSUME Timer!SchedulesAssumption, TimerInv, Timer!MaterializeDue
    PROVE  TimerInv'
  <1> USE DEF TimerInv
  <1> DEFINE due == {s \in Schedule : Timer!IsDue(s)}
  <1>1. /\ pc = "idle" /\ pc' = "claim"
        /\ occ' = [o \in Timer!Occurrence |->
                      IF o \in {<<s, Timer!Boundary(s)>> : s \in due} /\ occ[o] = "absent" THEN "queued" ELSE occ[o]]
        /\ last' = [s \in Schedule |-> IF s \in due THEN Timer!Boundary(s) ELSE last[s]]
        /\ UNCHANGED <<now, enabled, anchor, conv, result, current, after, troubles>>
    BY DEF Timer!MaterializeDue
  <1>2. ASSUME NEW s \in due
        PROVE  /\ s \in Schedule /\ Timer!Exists(s) /\ enabled[s] /\ Timer!Boundary(s) \in Int
               /\ Grid(Timer!Boundary(s), anchor[s] - Every[s], Every[s])
               /\ Grid(Timer!Boundary(s), anchor[s], Every[s])
    <2>1. s \in Schedule /\ Timer!Exists(s) /\ enabled[s] /\ last[s] + Every[s] <= now
      BY DEF Timer!IsDue
    <2>2. last[s] \in Int /\ now \in Int /\ Every[s] \in Nat \ {0} /\ anchor[s] \in Int
      BY <2>1 DEF ClockTypes, OnTrack, Timer!SchedulesAssumption
    <2>3. Grid(last[s], anchor[s] - Every[s], Every[s])
      BY <2>1 DEF OnTrack
    <2>4. Timer!Boundary(s) = BoundaryOf(last[s], Every[s], now)
      BY DEF Timer!Boundary, BoundaryOf
    <2> HIDE DEF due
    <2>. QED BY <2>1, <2>2, <2>3, <2>4, SkipsToBoundary
  <1> HIDE DEF due
  <1>3. /\ occ' \in [Timer!Occurrence -> Timer!State]
        /\ \A o \in Timer!Occurrence : occ'[o] # occ[o] =>
              occ'[o] = "queued" /\ \E s \in due : o = <<s, Timer!Boundary(s)>>
    BY <1>1 DEF ClockTypes, Timer!State
  <1>4. ClockTypes'
    BY <1>1, <1>2, <1>3 DEF ClockTypes
  <1>5. ASSUME NEW s \in Schedule PROVE OnTrack(s)'
    BY <1>1, <1>2 DEF OnTrack, Timer!Exists
  <1>6. ASSUME NEW o \in Timer!Occurrence, occ'[o] # occ[o]
        PROVE  enabled[o[1]] /\ Timer!Exists(o[1]) /\ Grid(o[2], anchor[o[1]], Every[o[1]])
    <2>1. PICK s \in due : o = <<s, Timer!Boundary(s)>>
      BY <1>3, <1>6
    <2>. QED BY <1>2, <2>1
  <1>7. \A o \in Timer!Occurrence : Planned(o)'
    BY <1>1, <1>6 DEF Planned, Timer!Exists
  <1>8. \A o \in Timer!Occurrence : Answered(o)'
    BY <1>1, <1>3 DEF Answered
  <1>9. Timer!DisabledIsQuiet'
    BY <1>1, <1>6 DEF Timer!DisabledIsQuiet
  <1>10. Orphans' = Orphans
    BY <1>1 DEF Orphans
  <1>11. AtOccurrence' /\ TaskSent'
    BY <1>1 DEF AtOccurrence, TaskSent
  <1>. QED BY <1>1, <1>4, <1>5, <1>7, <1>8, <1>9, <1>10, <1>11

LEMMA ClaimKeeps ==
    ASSUME Timer!SchedulesAssumption, TimerInv, Timer!ClaimDueOccurrence
    PROVE  TimerInv'
  <1> USE DEF TimerInv
  <1>1. PICK o \in Timer!Claimable : occ' = [occ EXCEPT ![o] = "running"] /\ current' = o
    BY DEF Timer!ClaimDueOccurrence
  <1>2. /\ pc = "claim" /\ pc' = "send"
        /\ UNCHANGED <<now, enabled, last, anchor, conv, result, after, troubles>>
    BY DEF Timer!ClaimDueOccurrence
  <1>3. o \in Timer!Occurrence /\ occ[o] = "queued"
    BY DEF Timer!Claimable
  <1>4. /\ occ' \in [Timer!Occurrence -> Timer!State]
        /\ occ'[o] = "running" /\ \A p \in Timer!Occurrence \ {o} : occ'[p] = occ[p]
    BY <1>1, <1>3 DEF ClockTypes, Timer!State
  <1>5. Orphans' = Orphans
    <2>1. current \notin Timer!Occurrence
      BY <1>2, NoOccurrenceIsNone DEF AtOccurrence
    <2>. QED BY <1>1, <1>3, <1>4, <2>1 DEF Orphans
  <1>6. AtOccurrence' /\ TaskSent'
    BY <1>1, <1>2, <1>3, <1>4 DEF AtOccurrence, TaskSent
  <1>7. Timer!DisabledIsQuiet'
    BY <1>2, <1>4 DEF Timer!DisabledIsQuiet
  <1>8. \A p \in Timer!Occurrence : Answered(p)'
    BY <1>2, <1>4 DEF Answered
  <1>9. DOMAIN enabled' = Schedule /\ after' \in Nat /\ DOMAIN result' = Timer!Occurrence
    BY <1>2 DEF ClockTypes
  <1>10. \A p \in Timer!Occurrence : occ'[p] # "absent" => occ[p] # "absent"
    BY <1>3, <1>4
  <1>. QED BY <1>2, <1>4, <1>5, <1>6, <1>7, <1>8, <1>9, <1>10, RowsKeep

\* The occurrence of the loop ends, with the reply that came after its task if it succeeds.
LEMMA SettleKeeps ==
    ASSUME Timer!SchedulesAssumption, TimerInv, pc \in {"send", "poll"},
           NEW to \in {"succeeded", "failed"}, NEW answer, Timer!Settled(current, to, answer),
           to = "succeeded" =>
              \E i, j \in DOMAIN conv[AgentOf[current[1]]] :
                 /\ i < j /\ conv[AgentOf[current[1]]][i] = <<"task", current>>
                 /\ conv[AgentOf[current[1]]][j] = <<"reply", answer>>
    PROVE  TimerInv'
  <1> USE DEF TimerInv
  <1>1. /\ occ' = [occ EXCEPT ![current] = to] /\ result' = [result EXCEPT ![current] = answer]
        /\ pc' = "claim" /\ current' = Timer!NoOccurrence
        /\ UNCHANGED <<now, enabled, last, anchor, conv, after, troubles>>
    BY DEF Timer!Settled
  <1>2. current \in Timer!Occurrence /\ occ[current] = "running"
    BY DEF AtOccurrence
  <1>3. /\ occ' \in [Timer!Occurrence -> Timer!State] /\ DOMAIN result' = Timer!Occurrence
        /\ occ'[current] = to /\ result'[current] = answer
        /\ \A p \in Timer!Occurrence \ {current} : occ'[p] = occ[p] /\ result'[p] = result[p]
    BY <1>1, <1>2 DEF ClockTypes, Timer!State
  <1>4. Orphans' = Orphans
    BY <1>1, <1>3, NoOccurrenceIsNone DEF Orphans
  <1>5. AtOccurrence' /\ TaskSent'
    BY <1>1 DEF AtOccurrence, TaskSent
  <1>6. Timer!DisabledIsQuiet'
    BY <1>1, <1>3 DEF Timer!DisabledIsQuiet
  <1>7. ASSUME NEW p \in Timer!Occurrence PROVE Answered(p)'
    <2>1. CASE p = current
      BY <1>1, <1>3, <2>1 DEF Answered
    <2>2. CASE p # current
      BY <1>1, <1>3, <2>2, AnswerStays
    <2>. QED BY <2>1, <2>2
  <1>8. DOMAIN enabled' = Schedule /\ after' \in Nat
    BY <1>1 DEF ClockTypes
  <1>9. \A p \in Timer!Occurrence : occ'[p] # "absent" => occ[p] # "absent"
    BY <1>2, <1>3
  <1>. QED BY <1>1, <1>3, <1>4, <1>5, <1>6, <1>7, <1>8, <1>9, RowsKeep

LEMMA PollKeeps ==
    ASSUME Timer!SchedulesAssumption, TimerInv, Timer!PollReply
    PROVE  TimerInv'
  <1> DEFINE talk == conv[AgentOf[current[1]]]
  <1>1. pc = "poll" /\ current \in Timer!Occurrence /\ AgentOf[current[1]] \in Agent
    BY DEF Timer!PollReply, TimerInv, AtOccurrence, Timer!Occurrence, Timer!SchedulesAssumption
  <1>2. PICK j \in DOMAIN talk :
           j > after /\ talk[j][1] = "reply" /\ Timer!Settled(current, "succeeded", talk[j][2])
    BY DEF Timer!PollReply, Timer!Unread, Timer!TheAgent
  <1>3. talk \in Seq(Timer!Message) /\ talk[j] \in Timer!Message
    <2>1. talk \in Seq(Timer!Message)
      BY <1>1 DEF TimerInv, ClockTypes
    <2> HIDE DEF talk
    <2>. QED BY <1>2, <2>1
  <1>4. talk[j] = <<"reply", talk[j][2]>>
    <2> HIDE DEF talk
    <2>. QED BY <1>2, <1>3 DEF Timer!Message, Timer!Question, Timer!Chat
  <1>5. PICK i \in DOMAIN talk : i <= after /\ talk[i] = <<"task", current>>
    BY <1>1 DEF TimerInv, TaskSent
  <1>6. i < j
    <2>1. i \in Int /\ j \in Int /\ after \in Int
      <3>1. DOMAIN talk \subseteq Int
        <4> HIDE DEF talk
        <4>. QED BY <1>3
      <3>. QED BY <1>2, <1>5, <3>1 DEF TimerInv, ClockTypes
    <2>. QED BY <1>2, <1>5, <2>1
  <1>. QED BY <1>1, <1>2, <1>4, <1>5, <1>6, SettleKeeps

LEMMA SendKeeps ==
    ASSUME Timer!SchedulesAssumption, TimerInv, Timer!Send
    PROVE  TimerInv'
  <1> USE DEF TimerInv
  <1> DEFINE a == AgentOf[current[1]]
  <1>1. /\ pc = "send" /\ pc' = "poll" /\ conv' = [conv EXCEPT ![a] = Append(@, <<"task", current>>)]
        /\ after' = Len(conv'[a]) /\ UNCHANGED <<now, enabled, last, anchor, occ, result, current, troubles>>
    BY DEF Timer!Send, Timer!TheAgent, Timer!tables
  <1>2. current \in Timer!Occurrence /\ occ[current] = "running" /\ a \in Agent
    BY <1>1 DEF AtOccurrence, Timer!Occurrence, Timer!SchedulesAssumption
  <1>3. <<"task", current>> \in Timer!Message
    BY <1>2 DEF Timer!Message, Timer!Question
  <1> HIDE DEF a
  <1>4. /\ conv' \in [Agent -> Seq(Timer!Message)]
        /\ \A b \in Agent : \A i \in DOMAIN conv[b] : i \in DOMAIN conv'[b] /\ conv'[b][i] = conv[b][i]
        /\ Len(conv'[a]) = Len(conv[a]) + 1 /\ conv'[a][Len(conv[a]) + 1] = <<"task", current>>
        /\ Len(conv[a]) + 1 \in DOMAIN conv'[a]
    BY <1>1, <1>2, <1>3, SaidStays
  <1>5. conv'[a] \in Seq(Timer!Message) /\ after' \in Nat
    BY <1>1, <1>2, <1>4
  <1>6. TaskSent'
    <2>1. Len(conv[a]) + 1 <= after'
      BY <1>1, <1>4, <1>5
    <2>. QED BY <1>1, <1>4, <2>1 DEF TaskSent, a
  <1>7. ASSUME NEW o \in Timer!Occurrence PROVE Answered(o)'
    <2>1. AgentOf[o[1]] \in Agent
      BY DEF Timer!Occurrence, Timer!SchedulesAssumption
    <2>. QED BY <1>1, <1>4, <2>1, AnswerStays
  <1>8. ClockTypes'
    BY <1>1, <1>4, <1>5 DEF ClockTypes
  <1>9. \A s \in Schedule : OnTrack(s)'
    BY <1>1 DEF OnTrack, Timer!Exists
  <1>10. \A o \in Timer!Occurrence : Planned(o)'
    BY <1>1 DEF Planned, Timer!Exists
  <1>11. Timer!DisabledIsQuiet' /\ AtOccurrence' /\ Orphans' = Orphans
    BY <1>1, <1>2 DEF Timer!DisabledIsQuiet, AtOccurrence, Orphans
  <1>. QED BY <1>1, <1>6, <1>7, <1>8, <1>9, <1>10, <1>11

LEMMA WaitKeeps ==
    ASSUME Timer!SchedulesAssumption, TimerInv, Timer!PollNothing
    PROVE  TimerInv'
  <1> USE DEF TimerInv
  <1> DEFINE talk == conv[AgentOf[current[1]]]
  <1>1. /\ pc = "poll" /\ after' = Len(talk)
        /\ UNCHANGED <<now, enabled, last, anchor, occ, result, conv, pc, current, troubles>>
    BY DEF Timer!PollNothing, Timer!tables, Timer!TheAgent
  <1>2. talk \in Seq(Timer!Message)
    BY <1>1 DEF AtOccurrence, Timer!Occurrence, Timer!SchedulesAssumption, ClockTypes
  <1>3. after' \in Nat /\ \A i \in DOMAIN talk : i <= after'
    <2> HIDE DEF talk
    <2>. QED BY <1>1, <1>2
  <1>4. TaskSent'
    BY <1>1, <1>3 DEF TaskSent
  <1>5. \A o \in Timer!Occurrence : Answered(o)'
    BY <1>1 DEF Answered
  <1>6. Timer!DisabledIsQuiet' /\ AtOccurrence' /\ Orphans' = Orphans
    BY <1>1 DEF Timer!DisabledIsQuiet, AtOccurrence, Orphans
  <1>7. DOMAIN enabled' = Schedule /\ DOMAIN result' = Timer!Occurrence /\ occ' \in [Timer!Occurrence -> Timer!State]
    BY <1>1 DEF ClockTypes
  <1>. QED BY <1>1, <1>3, <1>4, <1>5, <1>6, <1>7, RowsKeep

\* A fault leaves at most the one occurrence of the loop behind.
LEMMA FaultKeeps ==
    ASSUME Timer!SchedulesAssumption, TimerInv, Timer!TickFails
    PROVE  TimerInv'
  <1> USE DEF TimerInv
  <1>1. /\ troubles' = troubles + 1 /\ pc' = "idle" /\ current' = Timer!NoOccurrence
        /\ UNCHANGED <<now, enabled, last, anchor, occ, result, conv, after>>
    BY DEF Timer!TickFails, Timer!ToIdle, Timer!tables
  <1>2. troubles \in Nat /\ Cardinality(Orphans) \in Nat
    BY FS_CardinalityType DEF ClockTypes
  <1>3. IsFiniteSet(Orphans') /\ Cardinality(Orphans') <= troubles'
    <2>1. CASE current \in Timer!Occurrence /\ occ[current] = "running"
      <3>1. Orphans' = Orphans \cup {current} /\ current \notin Orphans
        BY <1>1, <2>1, NoOccurrenceIsNone DEF Orphans
      <3>2. IsFiniteSet(Orphans \cup {current}) /\ Cardinality(Orphans \cup {current}) = Cardinality(Orphans) + 1
        BY <3>1, FS_AddElement
      <3>. QED BY <1>1, <1>2, <3>1, <3>2
    <2>2. CASE ~ (current \in Timer!Occurrence /\ occ[current] = "running")
      <3>1. Orphans' = Orphans
        BY <1>1, <2>2, NoOccurrenceIsNone DEF Orphans
      <3>. QED BY <1>1, <1>2, <3>1
    <2>. QED BY <2>1, <2>2
  <1>4. ClockTypes'
    BY <1>1, <1>2 DEF ClockTypes
  <1>5. \A s \in Schedule : OnTrack(s)'
    BY <1>1 DEF OnTrack, Timer!Exists
  <1>6. \A o \in Timer!Occurrence : Planned(o)' /\ Answered(o)'
    BY <1>1 DEF Planned, Answered, Timer!Exists
  <1>7. Timer!DisabledIsQuiet' /\ AtOccurrence' /\ TaskSent'
    BY <1>1 DEF Timer!DisabledIsQuiet, AtOccurrence, TaskSent
  <1>. QED BY <1>3, <1>4, <1>5, <1>6, <1>7

LEMMA TimerKeeps ==
    ASSUME Timer!SchedulesAssumption, TimerInv, [Timer!Next]_(Timer!vars)
    PROVE  TimerInv'
  <1>1. ASSUME NEW s \in Schedule, NEW start \in StartAt \cup {None}, Timer!Create(s, start) PROVE TimerInv'
    BY <1>1, CreateKeeps
  <1>2. ASSUME NEW s \in Schedule, NEW on \in BOOLEAN, Timer!SetEnabled(s, on) PROVE TimerInv'
    BY <1>2, SwitchKeeps
  <1>3. CASE Timer!MaterializeDue \/ Timer!ClaimDueOccurrence \/ Timer!Send
    BY <1>3, MaterializeKeeps, ClaimKeeps, SendKeeps
  <1>4. CASE Timer!SendRejected \/ Timer!PollTimeout
    <2>1. pc \in {"send", "poll"} /\ Timer!Settled(current, "failed", None)
      BY <1>4 DEF Timer!SendRejected, Timer!PollTimeout
    <2>. QED BY <2>1, SettleKeeps
  <1>5. CASE Timer!PollReply \/ Timer!PollNothing \/ Timer!TickFails
    BY <1>5, PollKeeps, WaitKeeps, FaultKeeps
  <1>6. ASSUME NEW a \in Agent, NEW m \in Timer!Chat, Timer!Ask(a, m) PROVE TimerInv'
    <2>1. /\ conv' = [conv EXCEPT ![a] = Append(@, m)]
          /\ UNCHANGED <<now, enabled, last, anchor, occ, result, troubles, pc, current, after>>
      BY <1>6 DEF Timer!Ask, Timer!tables, Timer!loop
    <2>2. m \in Timer!Message
      BY DEF Timer!Message, Timer!Question
    <2>. QED BY <2>1, <2>2, TalkKeeps
  <1>7. ASSUME NEW a \in Agent, NEW m \in Timer!Question, Timer!Reply(a, m) PROVE TimerInv'
    <2>1. /\ conv' = [conv EXCEPT ![a] = Append(@, <<"reply", m>>)]
          /\ UNCHANGED <<now, enabled, last, anchor, occ, result, troubles, pc, current, after>>
      BY <1>7 DEF Timer!Reply, Timer!tables, Timer!loop
    <2>2. <<"reply", m>> \in Timer!Message
      BY DEF Timer!Message
    <2>. QED BY <2>1, <2>2, TalkKeeps
  <1>8. CASE Timer!EndTick \/ Timer!Elapse \/ UNCHANGED Timer!vars
    <2> USE DEF TimerInv
    <2>1. /\ UNCHANGED <<enabled, last, anchor, occ, result, conv, current, after, troubles>>
          /\ pc' = pc \/ (pc = "claim" /\ pc' = "idle")
          /\ now' \in Int
      BY <1>8 DEF Timer!EndTick, Timer!Elapse, Timer!vars, Timer!tables, Timer!loop, ClockTypes
    <2>2. ClockTypes'
      BY <2>1 DEF ClockTypes
    <2>3. \A s \in Schedule : OnTrack(s)'
      BY <2>1 DEF OnTrack, Timer!Exists
    <2>4. \A o \in Timer!Occurrence : Planned(o)' /\ Answered(o)'
      BY <2>1 DEF Planned, Answered, Timer!Exists
    <2>5. Timer!DisabledIsQuiet' /\ AtOccurrence' /\ TaskSent' /\ Orphans' = Orphans
      BY <2>1 DEF Timer!DisabledIsQuiet, AtOccurrence, TaskSent, Orphans
    <2>. QED BY <2>1, <2>2, <2>3, <2>4, <2>5
  <1>. QED
    BY <1>1, <1>2, <1>3, <1>4, <1>5, <1>6, <1>7, <1>8 DEF Timer!Next, Timer!SchedulerStep, Timer!Poll

LEMMA TimerStarts ==
    ASSUME Timer!SchedulesAssumption PROVE Timer!Init => TimerInv
  <1>. SUFFICES ASSUME Timer!Init PROVE TimerInv
    OBVIOUS
  <1>1. ClockTypes
    BY DEF Timer!Init, ClockTypes, Timer!State
  <1>2. Orphans = {}
    BY DEF Timer!Init, Orphans
  <1>3. \A s \in Schedule : ~ Timer!Exists(s)
    BY DEF Timer!Init, Timer!Exists
  <1>4. \A o \in Timer!Occurrence : occ[o] = "absent"
    BY DEF Timer!Init
  <1>5. AtOccurrence /\ TaskSent
    BY DEF Timer!Init, AtOccurrence, TaskSent
  <1>6. IsFiniteSet(Orphans) /\ Cardinality(Orphans) <= troubles
    BY <1>1, <1>2, FS_EmptySet DEF ClockTypes
  <1>. QED BY <1>1, <1>3, <1>4, <1>5, <1>6 DEF TimerInv, OnTrack, Planned, Answered, Timer!DisabledIsQuiet

\* Occurrences lie on the grid of the promised first instant however late the ticks come, a
\* disabled schedule leaves nothing queued, each orphan is owed to a fault, and the result of a
\* run was said after its task: for any schedules, agents, intervals and bounds.
THEOREM SchedulesHold ==
    ASSUME Timer!SchedulesAssumption
    PROVE  Timer!Spec => []Timer!SchedulesSafe
  <1>1. Timer!Init => TimerInv
    BY TimerStarts
  <1>2. TimerInv /\ [Timer!Next]_(Timer!vars) => TimerInv'
    BY TimerKeeps
  <1>3. TimerInv => Timer!SchedulesSafe
    <2>. SUFFICES ASSUME TimerInv PROVE Timer!SchedulesSafe
      OBVIOUS
    <2>1. ASSUME NEW o \in Timer!Occurrence, occ[o] # "absent"
          PROVE  Timer!Exists(o[1]) /\ o[2] >= anchor[o[1]] /\ (o[2] - anchor[o[1]]) % Every[o[1]] = 0
      <3>1. o[1] \in Schedule /\ Timer!Exists(o[1]) /\ anchor[o[1]] \in Int /\ Every[o[1]] \in Nat \ {0}
        BY <2>1 DEF TimerInv, Planned, OnTrack, Timer!Occurrence, Timer!SchedulesAssumption
      <3>2. PICK k \in Nat : o[2] = anchor[o[1]] + k * Every[o[1]]
        BY <2>1 DEF TimerInv, Planned, Grid
      <3>. QED BY <3>1, <3>2, OnMultiples
    <2>2. Timer!OnTheGrid
      BY <2>1 DEF Timer!OnTheGrid
    <2>3. Timer!OrphansComeFromFaults
      <3>1. Timer!Cardinality(Orphans) = Cardinality(Orphans) /\ Cardinality(Orphans) <= troubles
        BY TimerCounts DEF TimerInv
      <3>. QED BY <3>1, Zenon DEF Orphans, Timer!OrphansComeFromFaults
    <2>4. Timer!ResultsFollowTheTask
      BY DEF TimerInv, Answered, Timer!ResultsFollowTheTask
    <2>. QED BY <2>2, <2>3, <2>4 DEF TimerInv, Timer!SchedulesSafe
  <1>. QED BY <1>1, <1>2, <1>3, PTL DEF Timer!Spec

\* An occurrence is tried once: what finished never runs again and keeps its outcome, although
\* the completion itself checks no state.
THEOREM FinishedStays ==
    ASSUME Timer!SchedulesAssumption
    PROVE  Timer!Spec => Timer!FinishedForGood
  <1> DEFINE Stays == \A o \in Timer!Occurrence :
                         occ[o] \in Timer!Finished => occ'[o] = occ[o] /\ result'[o] = result[o]
  <1>1. Timer!Init => TimerInv
    BY TimerStarts
  <1>2. TimerInv /\ [Timer!Next]_(Timer!vars) => TimerInv'
    BY TimerKeeps
  <1>3. ASSUME TimerInv, [Timer!Next]_(Timer!vars) PROVE Stays
    <2>. SUFFICES ASSUME NEW o \in Timer!Occurrence, occ[o] \in Timer!Finished
                  PROVE  occ'[o] = occ[o] /\ result'[o] = result[o]
      OBVIOUS
    <2>1. occ[o] # "absent" /\ occ[o] # "queued" /\ occ[o] # "running"
      BY DEF Timer!Finished
    <2>2. DOMAIN occ = Timer!Occurrence /\ DOMAIN result = Timer!Occurrence
      BY <1>3 DEF TimerInv, ClockTypes
    <2>3. CASE UNCHANGED <<occ, result>>
      BY <2>3
    <2>4. ASSUME NEW s \in Schedule, NEW on \in BOOLEAN, Timer!SetEnabled(s, on)
          PROVE  occ'[o] = occ[o] /\ result'[o] = result[o]
      BY <2>1, <2>4 DEF Timer!SetEnabled, Timer!Cancelled
    <2>5. CASE Timer!MaterializeDue
      BY <2>1, <2>5 DEF Timer!MaterializeDue
    <2>6. CASE Timer!ClaimDueOccurrence
      <3>1. PICK p \in Timer!Claimable : occ' = [occ EXCEPT ![p] = "running"] /\ result' = result
        BY <2>6 DEF Timer!ClaimDueOccurrence
      <3>2. occ[p] = "queued"
        BY DEF Timer!Claimable
      <3>. QED BY <2>1, <2>2, <3>1, <3>2
    <2>7. ASSUME NEW p, NEW st, NEW r, p = current, occ[p] = "running", Timer!Settled(p, st, r)
          PROVE  occ'[o] = occ[o] /\ result'[o] = result[o]
      BY <2>1, <2>2, <2>7 DEF Timer!Settled
    <2>8. pc \in {"send", "poll"} => occ[current] = "running"
      BY <1>3 DEF TimerInv, AtOccurrence
    <2>9. CASE Timer!SendRejected \/ Timer!PollReply \/ Timer!PollTimeout
      BY <2>7, <2>8, <2>9 DEF Timer!SendRejected, Timer!PollReply, Timer!PollTimeout
    <2>10. ASSUME NEW s \in Schedule, NEW start, Timer!Create(s, start) PROVE UNCHANGED <<occ, result>>
      BY <2>10 DEF Timer!Create
    <2>11. ASSUME NEW a, NEW m, Timer!Ask(a, m) \/ Timer!Reply(a, m) PROVE UNCHANGED <<occ, result>>
      BY <2>11 DEF Timer!Ask, Timer!Reply, Timer!tables
    <2>12. CASE Timer!EndTick \/ Timer!Send \/ Timer!PollNothing \/ Timer!TickFails \/ Timer!Elapse \/ UNCHANGED Timer!vars
      BY <2>3, <2>12 DEF Timer!EndTick, Timer!Send, Timer!PollNothing, Timer!TickFails, Timer!Elapse, Timer!vars, Timer!tables
    <2>. QED BY <1>3, <2>3, <2>4, <2>5, <2>6, <2>9, <2>10, <2>11, <2>12 DEF Timer!Next, Timer!SchedulerStep, Timer!Poll
  <1>. QED BY <1>1, <1>2, <1>3, PTL DEF Timer!Spec, Timer!FinishedForGood

\* The position after the instants that were missed: at or before the clock, less than one
\* interval behind it.
LEMMA BoundaryIsLatest ==
    ASSUME NEW e \in Nat \ {0}, NEW l \in Int, NEW t \in Int
    PROVE  BoundaryOf(l, e, t) <= t /\ BoundaryOf(l, e, t) + e > t
  <1> DEFINE d == t - l
             q == d \div e
  <1>1. d \in Int
    OBVIOUS
  <1>2. q \in Int /\ e * q <= d /\ d < e * q + e
    <2> HIDE DEF d
    <2>. QED BY <1>1
  <1>3. BoundaryOf(l, e, t) = l + e * q /\ t = l + d
    BY DEF BoundaryOf
  <1> HIDE DEF d, q
  <1>4. PICK x \in Int : x = e * q
    BY <1>2
  <1>. QED BY <1>1, <1>2, <1>3, <1>4

\* A materialization leaves no schedule behind and adds at most one occurrence to it: what was
\* missed while the hub was down becomes one run, never a burst.
THEOREM BacklogBecomesOne ==
    ASSUME Timer!SchedulesAssumption
    PROVE  Timer!Spec => Timer!BacklogIsSkipped
  <1> DEFINE Added(s) == {d \in Timer!Due : occ[<<s, d>>] # occ'[<<s, d>>]}
             Skips == \A s \in Schedule : last'[s] # last[s] /\ Timer!Exists(s) =>
                          /\ last'[s] <= now /\ last'[s] + Every[s] > now
                          /\ Timer!Cardinality(Added(s)) <= 1
  <1>1. Timer!Init => TimerInv
    BY TimerStarts
  <1>2. TimerInv /\ [Timer!Next]_(Timer!vars) => TimerInv'
    BY TimerKeeps
  <1>3. ASSUME TimerInv, [Timer!Next]_(Timer!vars) PROVE Skips
    <2>. SUFFICES ASSUME NEW s \in Schedule, last'[s] # last[s], Timer!Exists(s)
                  PROVE  /\ last'[s] <= now /\ last'[s] + Every[s] > now
                         /\ Timer!Cardinality(Added(s)) <= 1
      OBVIOUS
    <2>1. ASSUME NEW r \in Schedule, NEW start, Timer!Create(r, start) PROVE FALSE
      <3>1. r # s /\ DOMAIN last = Schedule
        BY <1>3, <2>1 DEF Timer!Create, TimerInv, ClockTypes
      <3>2. \E v : last' = [last EXCEPT ![r] = v]
        BY <2>1 DEF Timer!Create
      <3>. QED BY <3>1, <3>2
    <2>2. ASSUME NEW r \in Schedule, NEW on, Timer!SetEnabled(r, on) PROVE FALSE
      BY <2>2 DEF Timer!SetEnabled
    <2>3. ASSUME NEW a, NEW m, Timer!Ask(a, m) \/ Timer!Reply(a, m) PROVE FALSE
      BY <2>3 DEF Timer!Ask, Timer!Reply, Timer!tables
    <2>4. ~ (Timer!ClaimDueOccurrence \/ Timer!EndTick \/ Timer!Send \/ Timer!SendRejected)
      BY DEF Timer!ClaimDueOccurrence, Timer!EndTick, Timer!Send, Timer!SendRejected, Timer!Settled, Timer!tables
    <2>5. ~ (Timer!PollReply \/ Timer!PollNothing \/ Timer!PollTimeout)
      BY DEF Timer!PollReply, Timer!PollNothing, Timer!PollTimeout, Timer!Settled, Timer!tables
    <2>6. ~ (Timer!TickFails \/ Timer!Elapse \/ UNCHANGED Timer!vars)
      BY DEF Timer!TickFails, Timer!Elapse, Timer!vars, Timer!tables
    <2>7. Timer!MaterializeDue
      BY <1>3, <2>1, <2>2, <2>3, <2>4, <2>5, <2>6 DEF Timer!Next, Timer!SchedulerStep, Timer!Poll
    <2>8. last'[s] = Timer!Boundary(s)
      BY <2>7 DEF Timer!MaterializeDue
    <2>9. last[s] \in Int /\ now \in Int /\ Every[s] \in Nat \ {0}
      BY <1>3 DEF TimerInv, ClockTypes, Timer!SchedulesAssumption
    <2>10. Timer!Boundary(s) = BoundaryOf(last[s], Every[s], now)
      BY DEF Timer!Boundary, BoundaryOf
    <2>11. last'[s] <= now /\ last'[s] + Every[s] > now
      BY <2>8, <2>9, <2>10, BoundaryIsLatest
    <2>12. ASSUME NEW d \in Added(s) PROVE d = Timer!Boundary(s)
      <3>1. <<s, d>> \in Timer!Occurrence /\ occ'[<<s, d>>] # occ[<<s, d>>]
        BY DEF Timer!Occurrence
      <3>2. <<s, d>> \in {<<r, Timer!Boundary(r)>> : r \in {r \in Schedule : Timer!IsDue(r)}}
        BY <2>7, <3>1 DEF Timer!MaterializeDue
      <3>. QED BY <3>2
    <2>13. Cardinality(Added(s)) <= 1
      <3>1. PICK b : b = Timer!Boundary(s)
        OBVIOUS
      <3>2. Added(s) \subseteq {b}
        BY <2>12, <3>1
      <3> HIDE DEF Added
      <3>3. IsFiniteSet({b}) /\ Cardinality({b}) = 1
        BY FS_Singleton
      <3>. QED BY <3>2, <3>3, FS_Subset
    <2>14. Timer!Cardinality(Added(s)) = Cardinality(Added(s))
      BY TimerCounts
    <2>. QED BY <2>11, <2>13, <2>14
  <1>. QED BY <1>1, <1>2, <1>3, PTL DEF Timer!Spec, Timer!BacklogIsSkipped

\* Beside everything else, the scheduler of a hub makes occurrences on the promised grid
\* only, runs none that was called off, loses at most one per fault, and records as the
\* result of a run what was said after its task.
THEOREM HubKeepsSchedules == Spec => []SchedulesSafe
  <1>1. Init => Timer!Init
    BY DEF Init
  <1>2. [Next]_vars => [Timer!Next]_(Timer!vars)
    <2>1. UNCHANGED schedulesVars => UNCHANGED Timer!vars
      BY DEF schedulesVars, Timer!vars, Timer!tables, Timer!loop
    <2>2. Next => Timer!Next \/ UNCHANGED schedulesVars
      BY DEF Next
    <2>3. UNCHANGED vars => UNCHANGED schedulesVars
      BY DEF vars
    <2>. QED BY <2>1, <2>2, <2>3
  <1>. QED BY <1>1, <1>2, TimerAssumed, SchedulesHold, PTL DEF Spec, Timer!Spec, SchedulesSafe

(***************************************************************************)
(* A vault without a folder.  A run that still has the claim goes by the   *)
(* policy of the moment, for whoever changes the policy takes the claim.   *)
(***************************************************************************)
ManagedTypes ==
    /\ DOMAIN managedDocs = Note /\ DOMAIN intake = Note /\ managedTexts \in Nat /\ started \in Nat
    /\ archive \in [Note -> [revision : Nat \cup {None}, snapshot : Nat \cup {None}]]
    /\ \A n \in Note : managedDocs[n] \in Nat \cup {None}
    /\ DOMAIN approving = Connector /\ \A c \in Connector : approving[c].text \in Nat \cup {None}

Claims ==
    /\ \A r \in runs : r.run \in Nat /\ r.run <= started
    /\ \A r \in runs : token = r.run => r.expires = expires

ManagedInv == ManagedTypes /\ Claims /\ Managed!ExcludedStaysOut

LEMMA ManagedRespects ==
    ASSUME Managed!ManagedAssumption, ManagedInv, [Managed!Next]_(Managed!vars)
    PROVE  ManagedInv' /\ Managed!EditsAndCopiesKept
  <1> USE DEF ManagedInv, Managed!ManagedAssumption, Managed!notes, Managed!maintenance
  <1>1. ASSUME UNCHANGED <<intake, archive, policy, expires, token, runs, started>>
        PROVE  Claims' /\ Managed!EditsAndCopiesKept
    BY <1>1 DEF Claims, Managed!EditsAndCopiesKept
  <1>2. ASSUME NEW n \in Note, Managed!Put(n) \/ Managed!RemoveDocument(n)
        PROVE  ManagedInv' /\ Managed!EditsAndCopiesKept
    <2>1. /\ UNCHANGED <<intake, archive, approving, policy, expires, token, runs, started>>
          /\ \/ managedTexts' = managedTexts + 1 /\ managedDocs' = [managedDocs EXCEPT ![n] = managedTexts + 1] /\ (managedDocs[n] # None \/ intake[n] = Managed!NoIntake)
             \/ managedTexts' = managedTexts /\ managedDocs' = [managedDocs EXCEPT ![n] = None]
      BY <1>2 DEF Managed!Put, Managed!RemoveDocument
    <2>2. ManagedTypes'
      BY <2>1 DEF ManagedTypes
    <2>3. Managed!ExcludedStaysOut'
      BY <2>1 DEF ManagedTypes, Managed!ExcludedStaysOut, Managed!Excluded, Managed!NoIntake
    <2>. QED BY <1>1, <2>1, <2>2, <2>3
  \* what an intake leaves, whatever it takes in
  <1>3. ASSUME NEW n, NEW g, NEW t \in Nat \cup {None}, Managed!Untouched(n), Managed!Taken(n, g, t), managedTexts' \in Nat,
               DOMAIN approving' = Connector, \A c \in Connector : approving'[c].text \in Nat \cup {None},
               UNCHANGED <<archive, policy, expires, token, runs, started>>
        PROVE  ManagedInv' /\ Managed!EditsAndCopiesKept
    <2>1. managedDocs' = [managedDocs EXCEPT ![n] = t] /\ intake' = [intake EXCEPT ![n] = [generation |-> g, text |-> t]]
      BY <1>3 DEF Managed!Taken
    <2>2. ManagedTypes'
      BY <1>3, <2>1 DEF ManagedTypes
    <2>3. Managed!ExcludedStaysOut'
      BY <2>1 DEF ManagedTypes, Managed!ExcludedStaysOut, Managed!Excluded
    <2>4. Managed!EditsAndCopiesKept
      BY <1>3, <2>1 DEF ManagedTypes, Managed!EditsAndCopiesKept, Managed!Untouched
    <2>5. Claims'
      BY <1>3 DEF Claims
    <2>. QED BY <2>2, <2>3, <2>4, <2>5
  <1>4. ASSUME NEW n \in Note, NEW g \in 1 .. MaxGen, Managed!Intake(n, g)
        PROVE  ManagedInv' /\ Managed!EditsAndCopiesKept
    <2>1. /\ Managed!Untouched(n) /\ UNCHANGED <<archive, policy, expires, token, runs, started>>
          /\ \E t \in Nat \cup {None} : Managed!Taken(n, g, t)
          /\ managedTexts' \in Nat /\ DOMAIN approving' = Connector
          /\ \A c \in Connector : approving'[c].text \in Nat \cup {None}
      <3>4. DOMAIN approving' = Connector /\ \A c \in Connector : approving'[c].text \in Nat \cup {None}
        BY <1>4 DEF Managed!Intake, ManagedTypes
      <3>1. managedTexts \in Nat
        BY DEF ManagedTypes
      <3>2. CASE managedTexts' = managedTexts + 1 /\ Managed!Taken(n, g, managedTexts + 1)
        <4>1. managedTexts + 1 \in Nat \cup {None} /\ managedTexts' \in Nat
          BY <3>1, <3>2
        <4>. QED BY <3>4, <1>4, <3>2, <4>1 DEF Managed!Intake
      <3>3. CASE managedTexts' = managedTexts /\ Managed!Taken(n, g, None)
        BY <3>4, <1>4, <3>1, <3>3 DEF Managed!Intake
      <3>. QED BY <3>4, <1>4, <3>2, <3>3 DEF Managed!Intake
    <2>. QED BY <1>3, <2>1
  <1>5. ASSUME NEW c \in Connector, Managed!ApproveSubmits(c)
        PROVE  ManagedInv' /\ Managed!EditsAndCopiesKept
    <2> DEFINE a == approving[c]
    <2>1. /\ UNCHANGED <<managedTexts, archive, policy, expires, token, runs, started>>
          /\ approving' = [approving EXCEPT ![c] = Managed!NoFile]
      BY <1>5 DEF Managed!ApproveSubmits
    <2>4. DOMAIN approving' = Connector /\ \A d \in Connector : approving'[d].text \in Nat \cup {None}
      BY <2>1 DEF ManagedTypes, Managed!NoFile
    <2>2. CASE Managed!Untouched(a.note) /\ Managed!Newer(a.note, a.generation + 1)
      <3>1. Managed!Taken(a.note, a.generation + 1, a.text)
        BY <1>5, <2>2 DEF Managed!ApproveSubmits
      <3>2. a.text \in Nat \cup {None} /\ managedTexts' \in Nat
        BY <2>1 DEF ManagedTypes
      <3>. QED BY <1>3, <2>1, <2>2, <2>4, <3>1, <3>2
    <2>3. CASE ~ (Managed!Untouched(a.note) /\ Managed!Newer(a.note, a.generation + 1))
      BY <1>1, <1>5, <2>1, <2>3, <2>4 DEF Managed!ApproveSubmits, ManagedTypes, Managed!ExcludedStaysOut, Managed!Excluded
    <2>. QED BY <2>2, <2>3
  <1>6. ASSUME NEW n \in Note, NEW c \in Connector, Managed!ApproveReads(c, n)
        PROVE  ManagedInv' /\ Managed!EditsAndCopiesKept
    BY <1>1, <1>6 DEF Managed!ApproveReads, ManagedTypes, Managed!ExcludedStaysOut, Managed!Excluded
  \* copies are dropped of what is indexed, where the policy of the moment allows it
  <1>7. ASSUME UNCHANGED <<managedDocs, managedTexts, intake, approving, policy, expires, started>>,
               runs' \subseteq runs, token' \in {token, None},
               DOMAIN archive' = Note,
               \A n \in Note :
                  \/ archive'[n] = archive[n]
                  \/ ~ Managed!Archived(n) /\ archive'[n] = [revision |-> managedDocs[n], snapshot |-> managedDocs[n]]
                  \/ expires /\ Managed!Redundant(n) /\ archive'[n] = [archive[n] EXCEPT !.snapshot = None],
               archive' = [n \in Note |-> archive'[n]]
        PROVE  ManagedInv' /\ Managed!EditsAndCopiesKept
    <2>1. \A n \in Note : archive'[n] \in [revision : Nat \cup {None}, snapshot : Nat \cup {None}]
      BY <1>7 DEF ManagedTypes
    <2>2. ManagedTypes'
      BY <1>7, <2>1 DEF ManagedTypes
    <2>3. Claims'
      BY <1>7 DEF Claims
    <2>4. Managed!EditsAndCopiesKept
      BY <1>7 DEF ManagedTypes, Managed!EditsAndCopiesKept, Managed!Archived, Managed!Redundant
    <2>. QED BY <1>7, <2>2, <2>3, <2>4 DEF Managed!ExcludedStaysOut, Managed!Excluded
  <1>8. ASSUME NEW n \in Note, Managed!Archive(n)
        PROVE  ManagedInv' /\ Managed!EditsAndCopiesKept
    <2>1. PICK full \in BOOLEAN : archive' = [m \in Note |->
             IF m = n THEN [revision |-> managedDocs[n], snapshot |-> managedDocs[n]]
             ELSE IF full /\ expires /\ managedReady /\ Managed!Redundant(m) THEN [archive[m] EXCEPT !.snapshot = None]
             ELSE archive[m]]
      BY <1>8 DEF Managed!Archive
    <2>2. \A m \in Note : \/ archive'[m] = archive[m]
                          \/ ~ Managed!Archived(m) /\ archive'[m] = [revision |-> managedDocs[m], snapshot |-> managedDocs[m]]
                          \/ expires /\ Managed!Redundant(m) /\ archive'[m] = [archive[m] EXCEPT !.snapshot = None]
      BY <1>8, <2>1 DEF Managed!Archive
    <2>3. UNCHANGED <<managedDocs, managedTexts, intake, approving, policy, expires, started, runs, token>>
      BY <1>8 DEF Managed!Archive
    <2>4. archive' = [m \in Note |-> archive'[m]] /\ DOMAIN archive' = Note
      BY <2>1
    <2>. QED BY <1>7, <2>2, <2>3, <2>4
  <1>9. ASSUME NEW n \in Note, Managed!Restore(n)
        PROVE  ManagedInv' /\ Managed!EditsAndCopiesKept
    <2>1. /\ Managed!Archived(n) /\ (managedDocs[n] = None => Managed!RestoresMissing(n))
          /\ managedDocs' = [managedDocs EXCEPT ![n] = IF managedDocs[n] = None THEN archive[n].snapshot ELSE managedDocs[n]]
          /\ archive' = [archive EXCEPT ![n] = Managed!NoArchive]
          /\ UNCHANGED <<managedTexts, intake, approving, policy, expires, token, runs, started>>
      BY <1>9 DEF Managed!Restore
    <2>2. Managed!NoArchive \in [revision : Nat \cup {None}, snapshot : Nat \cup {None}]
      BY DEF Managed!NoArchive
    <2>3. archive[n].snapshot \in Nat \cup {None}
      BY DEF ManagedTypes
    <2>4. ManagedTypes'
      BY <2>1, <2>2, <2>3 DEF ManagedTypes
    <2>5. Managed!ExcludedStaysOut'
      BY <2>1 DEF ManagedTypes, Managed!ExcludedStaysOut, Managed!Excluded, Managed!RestoresMissing
    <2>6. Managed!EditsAndCopiesKept
      <3>1. archive'[n].revision = None
        BY <2>1 DEF ManagedTypes, Managed!NoArchive
      <3>. QED BY <2>1, <3>1 DEF ManagedTypes, Managed!EditsAndCopiesKept, Managed!Archived
    <2>. QED BY <2>1, <2>4, <2>5, <2>6 DEF Claims
  <1>10. ASSUME NEW e \in BOOLEAN, Managed!Configure(e)
         PROVE  ManagedInv' /\ Managed!EditsAndCopiesKept
    BY <1>10 DEF Managed!Configure, ManagedTypes, Claims, Managed!ExcludedStaysOut, Managed!Excluded, Managed!EditsAndCopiesKept
  <1>11. CASE Managed!TickClaims
    <2>1. Claims'
      BY <1>11 DEF Managed!TickClaims, Claims, ManagedTypes
    <2>. QED BY <1>11, <2>1
         DEF Managed!TickClaims, ManagedTypes, Managed!ExcludedStaysOut, Managed!Excluded, Managed!EditsAndCopiesKept
  <1>12. ASSUME NEW r \in runs, Managed!TickFinishes(r)
         PROVE  ManagedInv' /\ Managed!EditsAndCopiesKept
    <2>1. runs' = runs \ {r} /\ UNCHANGED <<managedDocs, managedTexts, intake, approving, policy, expires, started>>
      BY <1>12 DEF Managed!TickFinishes
    <2>2. CASE Managed!HasClaim(r)
      <3>1. token' = None /\ r.expires = expires
        BY <1>12, <2>2 DEF Managed!TickFinishes, Managed!HasClaim, Claims
      <3>2. PICK S \in SUBSET Note : Managed!ExpireAmong(S, r.expires)
        BY <1>12, <2>2 DEF Managed!TickFinishes
      <3>3. \A m \in Note : \/ archive'[m] = archive[m]
                            \/ expires /\ Managed!Redundant(m) /\ archive'[m] = [archive[m] EXCEPT !.snapshot = None]
        BY <3>1, <3>2 DEF Managed!ExpireAmong
      <3>4. archive' = [m \in Note |-> archive'[m]] /\ DOMAIN archive' = Note
        BY <3>2 DEF Managed!ExpireAmong
      <3>. QED BY <1>7, <2>1, <3>1, <3>3, <3>4
    <2>3. CASE ~ Managed!HasClaim(r)
      <3>1. UNCHANGED <<token, archive>>
        BY <1>12, <2>3 DEF Managed!TickFinishes
      <3>. QED BY <2>1, <3>1 DEF ManagedTypes, Claims, Managed!ExcludedStaysOut, Managed!Excluded, Managed!EditsAndCopiesKept
    <2>. QED BY <2>2, <2>3
  <1>13. ASSUME NEW r \in runs, Managed!TickDies(r)
         PROVE  ManagedInv' /\ Managed!EditsAndCopiesKept
    BY <1>13 DEF Managed!TickDies, ManagedTypes, Claims, Managed!ExcludedStaysOut, Managed!Excluded, Managed!EditsAndCopiesKept
  <1>14. CASE Managed!ReopenManual \/ UNCHANGED Managed!vars
    BY <1>1, <1>14 DEF Managed!ReopenManual, Managed!vars, ManagedTypes, Managed!ExcludedStaysOut, Managed!Excluded
  <1>. QED BY <1>2, <1>4, <1>5, <1>6, <1>8, <1>9, <1>10, <1>11, <1>12, <1>13, <1>14 DEF Managed!Next

\* What a person wrote is not overwritten by an intake, what was excluded comes back by a newer
\* generation only, and a copy is dropped while the same text is indexed and by the policy of the
\* moment: for any notes, overlapping approvals, and runs that go on under an earlier policy.
THEOREM NotesKept ==
    ASSUME Managed!ManagedAssumption
    PROVE  Managed!Spec => Managed!ManagedSafe
  <1>1. Managed!Init => ManagedInv
    BY DEF Managed!Init, ManagedInv, ManagedTypes, Claims, Managed!ExcludedStaysOut, Managed!Excluded, Managed!NoIntake,
       Managed!NoArchive, Managed!NoFile
  <1>2. ManagedInv /\ [Managed!Next]_(Managed!vars) => ManagedInv' /\ [Managed!ManagedStep]_(Managed!vars)
    BY ManagedRespects DEF ManagedInv, Managed!ManagedStep
  <1>. QED BY <1>1, <1>2, PTL DEF Managed!Spec, Managed!ManagedSafe

\* Beside everything else a hub does, an intake run neither overwrites what a person
\* curated nor brings back what was excluded, under whichever policy it was started.
THEOREM HubKeepsNotes == Spec => ManagedSafe
  <1>1. Init => Managed!Init
    BY DEF Init
  <1>2. [Next]_vars => [Managed!Next]_(Managed!vars)
    <2>1. UNCHANGED managedVars => UNCHANGED Managed!vars
      BY DEF managedVars, Managed!vars, Managed!notes, Managed!maintenance
    <2>2. Next => Managed!Next \/ UNCHANGED managedVars
      BY DEF Next
    <2>3. UNCHANGED vars => UNCHANGED managedVars
      BY DEF vars
    <2>. QED BY <2>1, <2>2, <2>3
  <1>3. [Managed!ManagedStep]_(Managed!vars) => [moving = "managed" => Managed!ManagedStep]_managedVars
    <2>1. UNCHANGED Managed!vars => UNCHANGED managedVars
      BY DEF managedVars, Managed!vars, Managed!notes, Managed!maintenance
    <2>. QED BY <2>1
  <1>. QED BY <1>1, <1>2, ManagedAssumed, <1>3, NotesKept, PTL DEF Spec, Managed!Spec, ManagedSafe, Managed!ManagedSafe

(***************************************************************************)
(* A vault with a folder.  The versions at a path only grow, so what a     *)
(* scan read of a file is not older than what was indexed of it when the   *)
(* scan started; the generation tells whether the index is still the same. *)
(***************************************************************************)
Docs == [id : Nat, path : Path, version : Nat]

\* what was read of a path is not newer than what is there now
NotNewer(p, v) == v <= written /\ (disk[p] # None => v <= disk[p])

FolderTypes ==
    /\ disk \in [Path -> Nat \cup {None}] /\ written \in Nat
    /\ \A p \in Path : disk[p] # None => disk[p] <= written
    /\ folderDocs \in SUBSET Docs /\ ids \in Nat /\ generation \in Nat
    /\ DOMAIN scan = Scanner

Indexed ==
    /\ \A d \in folderDocs : d.id <= ids /\ NotNewer(d.path, d.version)
    /\ \A d, e \in folderDocs : d.id = e.id \/ d.path = e.path => d = e

\* what a walk has read so far
Walks == UNION {[S -> Nat \cup {None}] : S \in SUBSET Path}
FolderScan == [pc : {"idle", "first", "second", "publish", "failed"}, generation : Nat, first : Walks, second : Walks]

Scans(s) ==
    /\ scan[s] \in FolderScan /\ scan[s].generation <= generation
    /\ scan[s].pc = "first" => DOMAIN scan[s].first # Path /\ scan[s].second = Folder!NoWalk
    /\ scan[s].pc = "second" => DOMAIN scan[s].second # Path
    /\ scan[s].pc \in {"second", "publish"} => DOMAIN scan[s].first = Path
    /\ \A p \in DOMAIN scan[s].first :
          scan[s].first[p] # None =>
                /\ NotNewer(p, scan[s].first[p])
                /\ generation = scan[s].generation => \A d \in folderDocs : d.path = p => d.version <= scan[s].first[p]

\* while no call of the owner publishes (those have no watcher)
FolderWatched == Scanner \subseteq Watcher => Folder!ReadyIsWatched

FolderInv == FolderTypes /\ Indexed /\ (\A s \in Scanner : Scans(s)) /\ FolderWatched

LEMMA WalkReads ==
    ASSUME NEW walk \in Walks
    PROVE  DOMAIN walk \subseteq Path /\ \A p \in DOMAIN walk : walk[p] \in Nat \cup {None}
  BY DEF Walks

LEMMA FolderCounts == \A S : Folder!Cardinality(S) = Cardinality(S)
  BY Zenon DEF Folder!Cardinality, Cardinality

LEMMA FolderFinite == \A S : Folder!IsFiniteSet(S) = IsFiniteSet(S)
  BY Zenon DEF Folder!IsFiniteSet, IsFiniteSet

\* A path has one document, so the index is finite as the paths are.
LEMMA FolderIndexFinite ==
    ASSUME Folder!FolderAssumption, FolderInv
    PROVE  IsFiniteSet(folderDocs)
  <1> DEFINE f == [d \in folderDocs |-> d.path]
  <1>1. f \in [folderDocs -> Path]
    BY DEF FolderInv, FolderTypes, Docs
  <1>2. \A d, e \in folderDocs : f[d] = f[e] => d = e
    BY DEF FolderInv, Indexed
  <1> HIDE DEF f
  <1>3. f \in Injection(folderDocs, Path)
    BY <1>1, <1>2 DEF Injection, IsInjective
  <1>4. IsFiniteSet(Path)
    BY FolderFinite DEF Folder!FolderAssumption
  <1>. QED BY <1>3, <1>4, FS_Injection

\* A set with one member has no other.
LEMMA OneMember ==
    ASSUME NEW S, IsFiniteSet(S), Cardinality(S) = 1, NEW x \in S, NEW y \in S
    PROVE  x = y
  <1>1. PICK z : S = {z}
    BY FS_Singleton
  <1>. QED BY <1>1

\* What the index becomes when a scan is published.
LEMMA FolderReconciles ==
    ASSUME Folder!FolderAssumption, FolderInv, NEW notes \in [Path -> Nat \cup {None}],
           \A p \in Path : notes[p] # None =>
              NotNewer(p, notes[p]) /\ \A d \in folderDocs : d.path = p => d.version <= notes[p],
           NEW n \in Nat, NEW number \in [Folder!Fresh(notes) -> 1 .. n],
           \A p, q \in Folder!Fresh(notes) : number[p] = number[q] => p = q,
           folderDocs' = Folder!Reconciled(notes, number)
    PROVE  /\ folderDocs' \in SUBSET Docs
           /\ \A d \in folderDocs' : d.id <= ids + n /\ NotNewer(d.path, d.version)
           /\ Folder!IndexMovesOn
  <1> DEFINE Kept == {[d EXCEPT !.version = notes[d.path]] : d \in folderDocs \ Folder!Gone(notes)}
             Moved == UNION {{[d EXCEPT !.path = p] : d \in Folder!Renamed(notes, p)} : p \in Folder!New(notes)}
             Added == {[id |-> ids + number[p], path |-> p, version |-> notes[p]] : p \in Folder!Fresh(notes)}
  <1>1. folderDocs' = Kept \cup Moved \cup Added
    BY DEF Folder!Reconciled
  <1>2. ASSUME NEW d \in Kept
        PROVE  \E e \in folderDocs \ Folder!Gone(notes) :
                  d \in Docs /\ d.id = e.id /\ d.path = e.path /\ d.version = notes[e.path] /\ notes[e.path] # None
    BY DEF FolderInv, FolderTypes, Docs, Folder!Gone
  <1>3. ASSUME NEW d \in Moved
        PROVE  \E p \in Folder!New(notes), e \in folderDocs :
                  e \in Folder!Renamed(notes, p) /\ d \in Docs /\ d.id = e.id /\ d.path = p /\ d.version = e.version /\ e \in folderDocs /\ e.version = notes[p]
    <2>1. PICK p \in Folder!New(notes) : d \in {[e EXCEPT !.path = p] : e \in Folder!Renamed(notes, p)}
      OBVIOUS
    <2>2. PICK e \in Folder!Renamed(notes, p) : d = [e EXCEPT !.path = p]
      BY <2>1
    <2>3. e \in folderDocs /\ e \in Docs /\ e.version = notes[p] /\ p \in Path
      BY <2>2 DEF Folder!Renamed, Folder!Gone, Folder!New, FolderInv, FolderTypes
    <2>4. d \in Docs /\ d.id = e.id /\ d.path = p /\ d.version = e.version
      BY <2>2, <2>3 DEF Docs
    <2>. QED BY <2>1, <2>2, <2>3, <2>4
  <1>4. ASSUME NEW d \in Added
        PROVE  \E p \in Folder!Fresh(notes) :
                  /\ d \in Docs /\ d.id = ids + number[p] /\ d.path = p /\ d.version = notes[p]
                  /\ number[p] \in 1 .. n /\ p \in Folder!New(notes)
    BY DEF FolderInv, FolderTypes, Docs, Folder!Fresh, Folder!New
  <1> HIDE DEF Kept, Moved, Added
  \* who may be renamed to a path, and to how many
  <1>5. ASSUME NEW p \in Folder!New(notes), NEW q \in Folder!New(notes),
               NEW d \in Folder!Renamed(notes, p), NEW e \in Folder!Renamed(notes, q),
               d = e \/ p = q
        PROVE  d = e /\ p = q
    <2>1. /\ d \in Folder!Gone(notes) /\ e \in Folder!Gone(notes) /\ d.version = notes[p] /\ e.version = notes[q]
          /\ Cardinality({f \in Folder!Gone(notes) : f.version = notes[p]}) = 1
          /\ Cardinality({r \in Folder!New(notes) : notes[r] = notes[p]}) = 1
      BY FolderCounts DEF Folder!Renamed
    <2>2. IsFiniteSet({f \in Folder!Gone(notes) : f.version = notes[p]})
      <3>1. {f \in Folder!Gone(notes) : f.version = notes[p]} \in SUBSET folderDocs
        BY DEF Folder!Gone
      <3>. QED BY <3>1, FolderIndexFinite, FS_Subset
    <2>3. IsFiniteSet({r \in Folder!New(notes) : notes[r] = notes[p]})
      <3>1. {r \in Folder!New(notes) : notes[r] = notes[p]} \in SUBSET Path
        BY DEF Folder!New
      <3>2. IsFiniteSet(Path)
        BY FolderFinite DEF Folder!FolderAssumption
      <3>. QED BY <3>1, <3>2, FS_Subset
    <2>4. d.version = e.version /\ notes[p] = notes[q]
      BY <1>5, <2>1
    <2>5. d = e
      BY <2>1, <2>2, <2>4, OneMember
    <2>6. p = q
      BY <2>1, <2>3, <2>4, OneMember
    <2>. QED BY <2>5, <2>6
  <1>6. \A d, e \in folderDocs : d.id = e.id \/ d.path = e.path => d = e
    BY DEF FolderInv, Indexed
  <1>7. \A d \in folderDocs : d.id \in Nat /\ d.id <= ids /\ d.path \in Path
    BY DEF FolderInv, FolderTypes, Indexed, Docs
  <1>8. ids \in Nat
    BY DEF FolderInv, FolderTypes
  <1>9. \A p \in Folder!New(notes) : p \in Path /\ notes[p] # None /\ \A d \in folderDocs : d.path # p
    BY DEF Folder!New
  <1>10. \A p \in Folder!New(notes) : \A e \in Folder!Renamed(notes, p) : e \in folderDocs /\ notes[e.path] = None
    BY DEF Folder!Renamed, Folder!Gone
  <1>11. folderDocs' \in SUBSET Docs
    BY <1>1, <1>2, <1>3, <1>4
  <1>12. ASSUME NEW d \in folderDocs'
         PROVE  d.id <= ids + n /\ NotNewer(d.path, d.version)
    <2>1. CASE d \in Kept
      BY <1>2, <1>7, <1>8, <2>1
    <2>2. CASE d \in Moved
      BY <1>3, <1>7, <1>8, <1>9, <2>2
    <2>3. CASE d \in Added
      BY <1>4, <1>7, <1>8, <1>9, <2>3
    <2>. QED BY <1>1, <2>1, <2>2, <2>3
  <1>13. ASSUME NEW d \in folderDocs', NEW e \in folderDocs
         PROVE  /\ d.path = e.path => d.version >= e.version \/ d.id # e.id
                /\ d.id = e.id => d.path = e.path \/ d.version = e.version
    <2>1. CASE d \in Kept
      <3>1. PICK f \in folderDocs : d.id = f.id /\ d.path = f.path /\ d.version = notes[f.path] /\ notes[f.path] # None
        BY <1>2, <2>1
      <3>2. d.id = e.id => e = f
        BY <1>6, <3>1
      <3>3. f.version <= notes[f.path] /\ f.version \in Nat /\ notes[f.path] \in Nat
        BY <1>7, <3>1 DEF FolderInv, FolderTypes, Docs
      <3>. QED BY <3>1, <3>2, <3>3
    <2>2. CASE d \in Moved
      <3>1. PICK p \in Folder!New(notes), f \in folderDocs :
                f \in Folder!Renamed(notes, p) /\ d.id = f.id /\ d.path = p /\ d.version = f.version /\ f \in folderDocs
        BY <1>3, <2>2
      <3>. QED BY <1>6, <1>9, <3>1
    <2>3. CASE d \in Added
      <3>1. PICK p \in Folder!Fresh(notes) : d.id = ids + number[p] /\ d.path = p /\ number[p] \in 1 .. n /\ p \in Folder!New(notes)
        BY <1>4, <2>3
      <3>. QED BY <1>7, <1>8, <1>9, <3>1
    <2>. QED BY <1>1, <2>1, <2>2, <2>3
  <1>14. ASSUME NEW d \in folderDocs', NEW e \in folderDocs', d.id = e.id \/ d.path = e.path
         PROVE  d = e
    <2>1. d \in Docs /\ e \in Docs
      BY <1>11
    <2>2. ASSUME d.id = e.id, d.path = e.path, d.version = e.version PROVE d = e
      BY <2>1, <2>2 DEF Docs
    <2>3. CASE d \in Kept /\ e \in Kept
      <3>1. PICK f \in folderDocs : d.id = f.id /\ d.path = f.path /\ d.version = notes[f.path]
        BY <1>2, <2>3
      <3>2. PICK g \in folderDocs : e.id = g.id /\ e.path = g.path /\ e.version = notes[g.path]
        BY <1>2, <2>3
      <3>3. f = g
        BY <1>6, <1>14, <3>1, <3>2
      <3>. QED BY <2>2, <3>1, <3>2, <3>3
    <2>4. CASE d \in Moved /\ e \in Moved
      <3>1. PICK p \in Folder!New(notes), f \in folderDocs :
                f \in Folder!Renamed(notes, p) /\ d.id = f.id /\ d.path = p /\ d.version = f.version /\ f \in folderDocs
        BY <1>3, <2>4
      <3>2. PICK q \in Folder!New(notes), g \in folderDocs :
                g \in Folder!Renamed(notes, q) /\ e.id = g.id /\ e.path = q /\ e.version = g.version /\ g \in folderDocs
        BY <1>3, <2>4
      <3>3. f = g \/ p = q
        BY <1>6, <1>14, <3>1, <3>2
      <3>4. f = g /\ p = q
        BY <1>5, <3>1, <3>2, <3>3
      <3>. QED BY <2>2, <3>1, <3>2, <3>4
    <2>5. CASE d \in Added /\ e \in Added
      <3>1. PICK p \in Folder!Fresh(notes) : d.id = ids + number[p] /\ d.path = p /\ d.version = notes[p] /\ number[p] \in 1 .. n
        BY <1>4, <2>5
      <3>2. PICK q \in Folder!Fresh(notes) : e.id = ids + number[q] /\ e.path = q /\ e.version = notes[q] /\ number[q] \in 1 .. n
        BY <1>4, <2>5
      <3>3. p = q
        BY <1>8, <1>14, <3>1, <3>2
      <3>. QED BY <2>2, <3>1, <3>2, <3>3
    <2>6. ASSUME NEW a \in Kept, NEW b \in Moved PROVE a.id # b.id /\ a.path # b.path
      <3>1. PICK f \in folderDocs : a.id = f.id /\ a.path = f.path /\ notes[f.path] # None
        BY <1>2, <2>6
      <3>2. PICK p \in Folder!New(notes), g \in folderDocs : g \in Folder!Renamed(notes, p) /\ b.id = g.id /\ b.path = p /\ g \in folderDocs
        BY <1>3, <2>6
      <3>. QED BY <1>6, <1>9, <1>10, <3>1, <3>2
    <2>7. ASSUME NEW a \in Kept, NEW b \in Added PROVE a.id # b.id /\ a.path # b.path
      <3>1. PICK f \in folderDocs : a.id = f.id /\ a.path = f.path
        BY <1>2, <2>7
      <3>2. PICK p \in Folder!Fresh(notes) : b.id = ids + number[p] /\ b.path = p /\ number[p] \in 1 .. n /\ p \in Folder!New(notes)
        BY <1>4, <2>7
      <3>. QED BY <1>7, <1>8, <1>9, <3>1, <3>2
    <2>8. ASSUME NEW a \in Moved, NEW b \in Added PROVE a.id # b.id /\ a.path # b.path
      <3>1. PICK p \in Folder!New(notes), f \in folderDocs : f \in Folder!Renamed(notes, p) /\ a.id = f.id /\ a.path = p /\ f \in folderDocs
        BY <1>3, <2>8
      <3>2. PICK q \in Folder!Fresh(notes) : b.id = ids + number[q] /\ b.path = q /\ number[q] \in 1 .. n
        BY <1>4, <2>8
      <3>3. q # p
        BY <3>1 DEF Folder!Fresh
      <3>. QED BY <1>7, <1>8, <3>1, <3>2, <3>3
    <2>. QED BY <1>1, <1>14, <2>3, <2>4, <2>5, <2>6, <2>7, <2>8
  <1>. QED BY <1>11, <1>12, <1>13, <1>14 DEF Folder!IndexMovesOn

LEMMA FolderRespects ==
    ASSUME Folder!FolderAssumption, FolderInv, [Folder!Next]_(Folder!vars)
    PROVE  FolderInv' /\ [Folder!IndexMovesOn]_(Folder!vars)
  <1> USE DEF FolderInv
  <1>0. None \notin Nat
    BY DEF Folder!FolderAssumption
  \* a step that leaves the index alone
  <1>1. ASSUME folderDocs' = folderDocs PROVE Folder!IndexMovesOn
    BY <1>1 DEF Indexed, FolderTypes, Docs, Folder!IndexMovesOn
  <1>2. ASSUME UNCHANGED <<disk, written, folderDocs, ids>>, generation' \in Nat, generation <= generation',
               DOMAIN scan' = Scanner, \A s \in Scanner : Scans(s)', FolderWatched'
        PROVE  FolderInv' /\ Folder!IndexMovesOn
    <2>1. FolderTypes' /\ Indexed'
      BY <1>2 DEF FolderTypes, Indexed, NotNewer
    <2>. QED BY <1>1, <1>2, <2>1
  \* a file that is written, deleted or renamed
  <1>3. ASSUME UNCHANGED <<folderDocs, ids, generation, state, scan, active>>,
               disk' \in [Path -> Nat \cup {None}], written' \in Nat, written <= written',
               \A p \in Path : disk'[p] \in {disk[p], None, written'}
        PROVE  FolderInv' /\ Folder!IndexMovesOn
    <2>1. \A p \in Path : \A v \in Nat : NotNewer(p, v) => NotNewer(p, v)'
      BY <1>0, <1>3 DEF NotNewer, FolderTypes
    <2>2. FolderTypes'
      BY <1>0, <1>3 DEF FolderTypes
    <2>3. Indexed'
      BY <1>3, <2>1 DEF Indexed, FolderTypes, Docs
    <2>4. ASSUME NEW s \in Scanner PROVE Scans(s)'
      <3>1. Scans(s) /\ scan'[s] = scan[s]
        BY <1>3
      <3>2. ASSUME NEW p \in DOMAIN scan[s].first, scan[s].first[p] # None
            PROVE  p \in Path /\ scan[s].first[p] \in Nat
        BY <3>1, <3>2, WalkReads DEF Scans, FolderScan
      <3>. QED BY <1>3, <2>1, <3>1, <3>2 DEF Scans
    <2>. QED BY <1>1, <1>3, <2>2, <2>3, <2>4 DEF FolderWatched, Folder!ReadyIsWatched
  <1>4. ASSUME NEW p \in Path, Folder!Write(p) \/ Folder!Delete(p) PROVE FolderInv' /\ Folder!IndexMovesOn
    <2>1. UNCHANGED <<folderDocs, ids, generation, state, scan, active>>
      BY <1>4 DEF Folder!Write, Folder!Delete, Folder!index
    <2>2. CASE Folder!Write(p)
      BY <1>3, <2>1, <2>2 DEF Folder!Write, FolderTypes
    <2>3. CASE Folder!Delete(p)
      BY <1>3, <2>1, <2>3 DEF Folder!Delete, FolderTypes
    <2>. QED BY <1>4, <2>2, <2>3
  <1>5. ASSUME NEW p \in Path, NEW q \in Path, Folder!Rename(p, q) PROVE FolderInv' /\ Folder!IndexMovesOn
    <2>1. UNCHANGED <<folderDocs, ids, generation, state, scan, active>> /\ written' = written
      BY <1>5 DEF Folder!Rename, Folder!index
    <2>2. disk' \in [Path -> Nat \cup {None}] /\ \A r \in Path : disk'[r] \in {disk[r], None, written}
      BY <1>5 DEF Folder!Rename, FolderTypes
    <2>. QED BY <1>3, <2>1, <2>2 DEF FolderTypes
  \* a scan moves and nothing is published
  <1>6. ASSUME NEW s \in Scanner, UNCHANGED <<disk, written, folderDocs, ids>>, generation' \in Nat, generation <= generation',
               DOMAIN scan' = Scanner, \A t \in Scanner \ {s} : scan'[t] = scan[t], Scans(s)',
               FolderWatched'
        PROVE  FolderInv' /\ Folder!IndexMovesOn
    <2>1. ASSUME NEW t \in Scanner \ {s} PROVE Scans(t)'
      <3>1. scan[t].generation \in Nat /\ scan[t].generation <= generation /\ (generation' = scan[t].generation => generation = generation')
        BY <1>6 DEF Scans, FolderScan, FolderTypes
      <3>2. Scans(t) /\ scan'[t] = scan[t]
        BY <1>6
      <3>3. \A p : \A v : NotNewer(p, v) = NotNewer(p, v)'
        BY <1>6 DEF NotNewer
      <3>4. folderDocs' = folderDocs /\ scan'[t].generation = scan[t].generation
        BY <1>6, <3>2
      <3>5. ASSUME NEW p \in DOMAIN scan[t].first, scan[t].first[p] # None
            PROVE  /\ NotNewer(p, scan[t].first[p])'
                   /\ generation' = scan[t].generation =>
                            \A d \in folderDocs : d.path = p => d.version <= scan[t].first[p]
        BY <3>1, <3>2, <3>3, <3>5 DEF Scans
      <3>6. scan[t].generation <= generation'
        BY <1>6, <3>1 DEF FolderTypes
      <3> HIDE DEF FolderInv
      <3>. QED BY <3>2, <3>4, <3>5, <3>6 DEF Scans
    <2>. QED BY <1>2, <1>6, <2>1
  <1>7. /\ Folder!Resting \in FolderScan /\ Folder!Resting.first = Folder!NoWalk /\ Folder!Resting.second = Folder!NoWalk /\ DOMAIN Folder!NoWalk = {}
        /\ Folder!Resting.pc = "idle" /\ Folder!Resting.generation = 0
    <2>1. Folder!NoWalk \in [{} -> Nat \cup {None}]
      BY DEF Folder!NoWalk
    <2>2. Folder!NoWalk \in Walks
      BY <2>1 DEF Walks
    <2>. QED BY <2>1, <2>2 DEF Folder!Resting, FolderScan
  <1>8. ASSUME NEW s \in Scanner, Folder!ScanStarts(s) PROVE FolderInv' /\ Folder!IndexMovesOn
    <2> DEFINE next == [Folder!Resting EXCEPT !.pc = "first", !.generation = generation]
    <2>1. scan' = [scan EXCEPT ![s] = next] /\ UNCHANGED <<disk, written, folderDocs, ids, generation, state, active>>
      BY <1>8 DEF Folder!ScanStarts, Folder!source, Folder!index
    <2>2. next \in FolderScan /\ next.pc = "first" /\ next.generation = generation /\ next.first = Folder!NoWalk /\ next.second = Folder!NoWalk
      BY <1>7 DEF FolderScan, FolderTypes
    <2> HIDE DEF next
    <2>3. scan'[s] = next /\ DOMAIN scan' = Scanner /\ \A t \in Scanner \ {s} : scan'[t] = scan[t]
      BY <2>1 DEF FolderTypes
    <2>4. Scans(s)'
      BY <1>7, <2>1, <2>2, <2>3 DEF Scans, FolderTypes, Folder!FolderAssumption
    <2>5. generation' \in Nat /\ generation <= generation' /\ FolderWatched'
      BY <2>1 DEF FolderTypes, FolderWatched, Folder!ReadyIsWatched
    <2>. QED BY <1>6, <2>1, <2>3, <2>4, <2>5
  <1>9. ASSUME NEW s \in Scanner, Folder!Walk(s) PROVE FolderInv' /\ Folder!IndexMovesOn
    <2> DEFINE w == scan[s].pc
               p == CHOOSE q \in Path : q \notin DOMAIN scan[s][w]
               read == [q \in DOMAIN scan[s][w] \cup {p} |-> IF q = p THEN disk[p] ELSE scan[s][w][q]]
    <2>1. /\ w \in {"first", "second"} /\ UNCHANGED <<disk, written, folderDocs, ids, generation, state, active>>
          /\ scan' = [scan EXCEPT ![s][w] = read,
                                  ![s].pc = IF DOMAIN read # Path THEN w
                                            ELSE IF w = "first" THEN "second"
                                            ELSE IF read = scan[s].first THEN "publish" ELSE "failed"]
      BY <1>9 DEF Folder!Walk, Folder!source, Folder!index
    <2>2. Scans(s) /\ scan[s] \in FolderScan /\ scan[s].first \in Walks /\ scan[s].second \in Walks
      BY DEF Scans, FolderScan
    <2>3. scan[s][w] \in Walks /\ (w = "first" => scan[s][w] = scan[s].first)
      BY <2>1, <2>2
    <2> DEFINE to == IF DOMAIN read # Path THEN w
                     ELSE IF w = "first" THEN "second"
                     ELSE IF read = scan[s].first THEN "publish" ELSE "failed"
    <2>4. scan'[s] = [[scan[s] EXCEPT ![w] = read] EXCEPT !.pc = to] /\ DOMAIN scan' = Scanner
          /\ \A t \in Scanner \ {s} : scan'[t] = scan[t]
      BY <2>1 DEF FolderTypes
    <2>5. DOMAIN scan[s][w] # Path /\ DOMAIN scan[s][w] \subseteq Path
      BY <2>1, <2>2, <2>3, WalkReads DEF Scans
    <2>6. p \in Path /\ p \notin DOMAIN scan[s][w]
      BY <2>5
    <2>7. disk[p] \in Nat \cup {None}
      BY <2>6 DEF FolderTypes
    <2>8. read \in Walks /\ DOMAIN read = DOMAIN scan[s][w] \cup {p} /\ read[p] = disk[p]
          /\ \A q \in DOMAIN scan[s][w] : read[q] = scan[s][w][q]
      <3>1. DOMAIN read = DOMAIN scan[s][w] \cup {p} /\ read[p] = disk[p]
            /\ \A q \in DOMAIN scan[s][w] : read[q] = scan[s][w][q]
        BY <2>6
      <3>2. DOMAIN read \in SUBSET Path
        BY <2>5, <2>6, <3>1
      <3>3. \A q \in DOMAIN read : read[q] \in Nat \cup {None}
        BY <2>3, <2>7, <3>1, WalkReads
      <3>4. read \in [DOMAIN read -> Nat \cup {None}]
        <4>1. read = [q \in DOMAIN read |-> read[q]]
          OBVIOUS
        <4> HIDE DEF read
        <4>. QED BY <3>3, <4>1
      <3> HIDE DEF read
      <3>5. read \in Walks
        BY <3>2, <3>4 DEF Walks
      <3>. QED BY <3>1, <3>5
    <2>9. to \in {"first", "second", "publish", "failed"}
          /\ (to = "first" => w = "first" /\ DOMAIN read # Path)
          /\ (to = "second" => (w = "second" /\ DOMAIN read # Path) \/ (w = "first" /\ DOMAIN read = Path))
          /\ (to = "publish" => w = "second")
      BY <2>1
    <2>10. w = "first" => scan[s].second = Folder!NoWalk
      BY <2>2 DEF Scans
    <2> HIDE DEF w, p, read, to
    <2>11. Scans(s)'
      <3>1. CASE w = "first"
        <4>1. scan'[s] \in FolderScan /\ scan'[s].pc = to /\ scan'[s].generation = scan[s].generation
              /\ scan'[s].first = read /\ scan'[s].second = scan[s].second
          BY <2>2, <2>4, <2>8, <2>9, <3>1 DEF FolderScan
        <4>2. ASSUME NEW q \in DOMAIN read, read[q] # None
              PROVE  /\ NotNewer(q, read[q])
                     /\ generation = scan[s].generation => \A d \in folderDocs : d.path = q => d.version <= read[q]
          <5>1. CASE q = p
            BY <2>6, <2>7, <2>8, <4>2, <5>1 DEF NotNewer, FolderTypes, Indexed
          <5>2. CASE q # p
            BY <2>2, <2>3, <2>8, <3>1, <4>2, <5>2 DEF Scans
          <5>. QED BY <5>1, <5>2
        <4>3. \A q : \A v : NotNewer(q, v) = NotNewer(q, v)'
          BY <2>1 DEF NotNewer
        <4>4. to = "second" => DOMAIN scan[s].second # Path
          BY <1>7, <2>10, <3>1 DEF Folder!FolderAssumption
        <4>5. to = "first" => DOMAIN read # Path
          BY <2>9
        <4>6. to \in {"second", "publish"} => DOMAIN read = Path
          BY <2>9, <3>1
        <4>7. scan[s].generation <= generation /\ generation' = generation /\ folderDocs' = folderDocs
          BY <2>1, <2>2 DEF Scans
        <4>8. to = "first" => scan[s].second = Folder!NoWalk
          BY <2>10, <3>1
        <4>. QED BY <4>1, <4>2, <4>3, <4>4, <4>5, <4>6, <4>7, <4>8 DEF Scans
      <3>2. CASE w = "second"
        <4>1. scan'[s] \in FolderScan /\ scan'[s].pc = to /\ scan'[s].generation = scan[s].generation
              /\ scan'[s].first = scan[s].first /\ scan'[s].second = read
          BY <2>2, <2>4, <2>8, <2>9, <3>2 DEF FolderScan
        <4>2. scan[s].pc = "second"
          BY <3>2 DEF w
        <4>3. \A q : \A v : NotNewer(q, v) = NotNewer(q, v)'
          BY <2>1 DEF NotNewer
        <4>4. to # "first" /\ (to = "second" => DOMAIN read # Path)
          BY <2>9, <3>2
        <4>. QED BY <2>1, <2>2, <4>1, <4>2, <4>3, <4>4 DEF Scans
      <3>. QED BY <2>1, <3>1, <3>2
    <2>12. generation' \in Nat /\ generation <= generation' /\ FolderWatched'
      BY <2>1 DEF FolderTypes, FolderWatched, Folder!ReadyIsWatched
    <2>. QED BY <1>6, <2>1, <2>4, <2>11, <2>12
  <1>10. ASSUME NEW s \in Scanner, Folder!WalkFails(s) \/ Folder!PublishRefused(s) PROVE FolderInv' /\ Folder!IndexMovesOn
    <2> DEFINE next == [scan[s] EXCEPT !.pc = "failed"]
    <2>1. scan' = [scan EXCEPT ![s] = next] /\ UNCHANGED <<disk, written, folderDocs, ids, generation, state, active>>
      BY <1>10 DEF Folder!WalkFails, Folder!PublishRefused, Folder!source, Folder!index
    <2>3. Scans(s)
      OBVIOUS
    <2>4. next \in FolderScan /\ next.pc = "failed" /\ next.generation = scan[s].generation /\ next.first = scan[s].first
      BY <2>3 DEF Scans, FolderScan
    <2> HIDE DEF next
    <2>2. scan'[s] = next /\ DOMAIN scan' = Scanner /\ \A t \in Scanner \ {s} : scan'[t] = scan[t]
      BY <2>1 DEF FolderTypes
    <2>5. Scans(s)'
      BY <2>1, <2>2, <2>3, <2>4 DEF Scans, NotNewer
    <2>6. generation' \in Nat /\ generation <= generation' /\ FolderWatched'
      BY <2>1 DEF FolderTypes, FolderWatched, Folder!ReadyIsWatched
    <2>. QED BY <1>6, <2>1, <2>2, <2>5, <2>6
  <1>11. ASSUME NEW s \in Scanner, Folder!ScanFails(s) PROVE FolderInv' /\ Folder!IndexMovesOn
    <2>1. /\ scan' = [scan EXCEPT ![s] = Folder!Resting] /\ UNCHANGED <<disk, written, folderDocs, ids, active>>
          /\ generation' \in {generation, generation + 1} /\ state' \in {state, "unavailable"}
      BY <1>11 DEF Folder!ScanFails, Folder!source
    <2>5. DOMAIN scan' = Scanner /\ \A t \in Scanner \ {s} : scan'[t] = scan[t]
      BY <2>1 DEF FolderTypes
    <2>2. scan'[s] = Folder!Resting /\ generation' \in Nat /\ generation <= generation' /\ 0 <= generation'
      BY <2>1 DEF FolderTypes
    <2>3. Scans(s)'
      BY <1>7, <2>2 DEF Scans
    <2>4. FolderWatched'
      BY <2>1 DEF FolderWatched, Folder!ReadyIsWatched
    <2>. QED BY <1>6, <2>1, <2>2, <2>3, <2>4, <2>5
  <1>12. ASSUME NEW s \in Scanner, Folder!Publish(s) PROVE FolderInv' /\ Folder!IndexMovesOn
    <2> DEFINE notes == scan[s].first  n == Cardinality(Folder!Fresh(notes))
    <2>1. /\ scan[s].pc = "publish" /\ (Scanner \subseteq Watcher => s \in active) /\ generation = scan[s].generation
          /\ generation' = generation + 1 /\ state' = "ready" /\ ids' = ids + n
          /\ scan' = [scan EXCEPT ![s] = Folder!Resting] /\ UNCHANGED <<disk, written, active>>
      BY <1>0, <1>12, FolderCounts DEF Folder!Publish, Folder!Enabled, Folder!MayPublish, Folder!source
    <2>2. PICK number \in [Folder!Fresh(notes) -> 1 .. n] :
             /\ \A p, q \in Folder!Fresh(notes) : number[p] = number[q] => p = q
             /\ folderDocs' = Folder!Reconciled(notes, number)
      BY <1>12, FolderCounts DEF Folder!Publish
    <2>3. Folder!Fresh(notes) \in SUBSET Path
      BY DEF Folder!Fresh, Folder!New
    <2>4. IsFiniteSet(Folder!Fresh(notes)) /\ n \in Nat
      <3>1. IsFiniteSet(Path)
        BY FolderFinite DEF Folder!FolderAssumption
      <3>. QED BY <2>3, <3>1, FS_Subset, FS_CardinalityType
    <2>5. Scans(s)
      OBVIOUS
    <2>6. notes \in [Path -> Nat \cup {None}]
      BY <2>1, <2>5 DEF Scans, FolderScan, Walks
    <2>7. \A p \in Path : notes[p] # None =>
              NotNewer(p, notes[p]) /\ \A d \in folderDocs : d.path = p => d.version <= notes[p]
      BY <2>1, <2>5, <2>6 DEF Scans
    <2> HIDE DEF notes, n
    <2>8. /\ folderDocs' \in SUBSET Docs /\ \A d \in folderDocs' : d.id <= ids + n /\ NotNewer(d.path, d.version)
          /\ Folder!IndexMovesOn
      BY <2>2, <2>4, <2>6, <2>7, FolderReconciles
    <2>9. FolderTypes'
      BY <2>1, <2>4, <2>8 DEF FolderTypes
    <2>10. Indexed'
      BY <2>1, <2>8 DEF Indexed, NotNewer, Folder!IndexMovesOn
    <2>11. ASSUME NEW t \in Scanner PROVE Scans(t)'
      <3>1. CASE t = s
        <4>1. scan'[t] = Folder!Resting /\ generation' \in Nat /\ 0 <= generation'
          BY <2>1, <3>1 DEF FolderTypes
        <4>. QED BY <1>7, <4>1 DEF Scans
      <3>2. CASE t # s
        <4>1. Scans(t) /\ scan'[t] = scan[t]
          BY <2>1, <3>2 DEF FolderTypes
        <4>2. scan[t].generation \in Nat /\ scan[t].generation <= generation /\ generation' # scan[t].generation
              /\ scan[t].generation <= generation'
          BY <2>1, <4>1 DEF Scans, FolderScan, FolderTypes
        <4>3. \A q : \A v : NotNewer(q, v) = NotNewer(q, v)'
          BY <2>1 DEF NotNewer
        <4>. QED BY <4>1, <4>2, <4>3 DEF Scans
      <3>. QED BY <3>1, <3>2
    <2>12. FolderWatched'
      BY <2>1 DEF FolderWatched, Folder!ReadyIsWatched
    <2>. QED BY <2>8, <2>9, <2>10, <2>11, <2>12
  <1>13. ASSUME NEW s \in Scanner, Folder!WatcherStops(s) PROVE FolderInv' /\ Folder!IndexMovesOn
    <2>1. UNCHANGED <<disk, written, folderDocs, ids, generation, scan>> /\ state' = "unavailable"
      BY <1>13 DEF Folder!WatcherStops, Folder!source
    <2>2. ASSUME NEW t \in Scanner PROVE Scans(t)'
      BY <2>1 DEF Scans, NotNewer
    <2>3. generation' \in Nat /\ generation <= generation' /\ DOMAIN scan' = Scanner /\ FolderWatched'
      BY <2>1 DEF FolderTypes, FolderWatched, Folder!ReadyIsWatched
    <2>. QED BY <1>2, <2>1, <2>2, <2>3
  <1>14. CASE Folder!Restart
    <2>1. /\ UNCHANGED <<disk, written, folderDocs, ids, generation>> /\ state' = "unavailable"
          /\ scan' = [s \in Scanner |-> Folder!Resting]
      BY <1>14 DEF Folder!Restart, Folder!source
    <2>3. generation' \in Nat /\ generation <= generation' /\ 0 <= generation' /\ DOMAIN scan' = Scanner /\ FolderWatched'
      BY <2>1 DEF FolderTypes, FolderWatched, Folder!ReadyIsWatched
    <2>2. ASSUME NEW t \in Scanner PROVE Scans(t)'
      <3>1. scan'[t] = Folder!Resting
        BY <2>1
      <3>. QED BY <1>7, <2>3, <3>1 DEF Scans
    <2>. QED BY <1>2, <2>1, <2>2, <2>3
  <1>15. CASE UNCHANGED Folder!vars
    <2>1. UNCHANGED <<disk, written, folderDocs, ids, generation, scan, state, active>>
      BY <1>15 DEF Folder!vars, Folder!source, Folder!index
    <2>2. ASSUME NEW t \in Scanner PROVE Scans(t)'
      BY <2>1 DEF Scans, NotNewer
    <2>3. generation' \in Nat /\ generation <= generation' /\ DOMAIN scan' = Scanner /\ FolderWatched'
      BY <2>1 DEF FolderTypes, FolderWatched, Folder!ReadyIsWatched
    <2>. QED BY <1>2, <2>1, <2>2, <2>3
  <1>. QED
    BY <1>4, <1>5, <1>8, <1>9, <1>10, <1>11, <1>12, <1>13, <1>14, <1>15 DEF Folder!Next

\* The index never goes back to an older version of a file, nor gives an id or a path to two
\* documents, whoever scans at the same time and whatever happens to the files.  While every
\* scanner is a watcher, a vault is ready only while a watcher lives, whatever a stopped one
\* had under way.
THEOREM FolderHolds ==
    ASSUME Folder!FolderAssumption
    PROVE  Folder!Spec => [][Folder!IndexMovesOn]_(Folder!vars) /\ []FolderWatched
  <1>1. Folder!Init => FolderInv
    <2>. SUFFICES ASSUME Folder!Init PROVE FolderInv
      OBVIOUS
    <2>1. FolderTypes /\ Indexed /\ FolderWatched
      BY DEF Folder!Init, FolderTypes, Indexed, FolderWatched, Folder!ReadyIsWatched
    <2>2. ASSUME NEW s \in Scanner PROVE Scans(s)
      <3>1. Folder!NoWalk \in [{} -> Nat \cup {None}] /\ DOMAIN Folder!NoWalk = {}
        BY DEF Folder!NoWalk
      <3>2. Folder!NoWalk \in Walks
        BY <3>1 DEF Walks
      <3>3. scan[s] \in FolderScan /\ scan[s].generation = 0 /\ scan[s].pc = "idle" /\ scan[s].first = Folder!NoWalk /\ generation = 0
        BY <3>2 DEF Folder!Init, Folder!Resting, FolderScan
      <3>. QED BY <3>1, <3>3 DEF Scans
    <2>. QED BY <2>1, <2>2 DEF FolderInv
  <1>2. FolderInv /\ [Folder!Next]_(Folder!vars) => FolderInv' /\ [Folder!IndexMovesOn]_(Folder!vars)
    BY FolderRespects
  <1>3. FolderInv => FolderWatched
    BY DEF FolderInv
  <1>. QED BY <1>1, <1>2, <1>3, PTL DEF Folder!Spec

\* Both together, for the watchers.
THEOREM FolderKeepsUp ==
    ASSUME Folder!FolderAssumption, Scanner \subseteq Watcher
    PROVE  Folder!Spec => Folder!FolderSafe
  <1>1. Folder!Spec => [][Folder!IndexMovesOn]_(Folder!vars) /\ []FolderWatched
    BY FolderHolds
  <1>2. FolderWatched /\ FolderWatched' /\ [Folder!IndexMovesOn]_(Folder!vars) => [Folder!FolderStep]_(Folder!vars)
    BY DEF FolderWatched, Folder!FolderStep, Folder!ReadyIsWatched
  <1>. QED BY <1>1, <1>2, PTL DEF Folder!FolderSafe

\* Beside everything else, and while every scan is one of the watcher, a scan that was
\* overtaken publishes nothing, and a vault shows as ready only while something watches it.
THEOREM HubKeepsFolder ==
    ASSUME Scanner \subseteq Watcher PROVE Spec => FolderSafe
  <1>1. Init => Folder!Init
    BY DEF Init
  <1>2. [Next]_vars => [Folder!Next]_(Folder!vars)
    <2>1. UNCHANGED folderVars => UNCHANGED Folder!vars
      BY DEF folderVars, Folder!vars, Folder!source, Folder!index
    <2>2. Next => Folder!Next \/ UNCHANGED folderVars
      BY DEF Next
    <2>3. UNCHANGED vars => UNCHANGED folderVars
      BY DEF vars
    <2>. QED BY <2>1, <2>2, <2>3
  <1>3. [Folder!FolderStep]_(Folder!vars) => [moving = "folder" => Folder!FolderStep]_folderVars
    <2>1. UNCHANGED Folder!vars => UNCHANGED folderVars
      BY DEF folderVars, Folder!vars, Folder!source, Folder!index
    <2>. QED BY <2>1
  <1>. QED BY <1>1, <1>2, FolderAssumed, <1>3, FolderKeepsUp, PTL DEF Spec, Folder!Spec, FolderSafe, Folder!FolderSafe

(***************************************************************************)
(* Projects and their collections.                                         *)
(***************************************************************************)
SharingTypes ==
    /\ vaults \subseteq Vault /\ binding \in [Project -> Repo \cup {None}]
    /\ cards \in [Card -> Sharing!Task \cup {None}]
    /\ DOMAIN projects = Project /\ vaultOf \in [Project -> Vault \cup {None}]
    /\ DOMAIN given = SharingDevice

\* a project and its collection, which nothing deletes
Owned(p) == (projects[p] # None => vaultOf[p] \in vaults) /\ (vaultOf[p] # None => projects[p] # None)
\* a task has a parent, itself or another, that works in the same repository
InFamily(c) ==
    cards[c] # None =>
       /\ cards[c].parent \in Card /\ cards[cards[c].parent] # None
       /\ cards[c].repo = cards[cards[c].parent].repo

SharingInv ==
    /\ SharingTypes
    /\ \A p \in Project : Owned(p)
    /\ \A p, q \in Project : vaultOf[p] # None /\ vaultOf[p] = vaultOf[q] => p = q
    /\ \A c \in Card : InFamily(c)
    /\ \A d \in SharingDevice : given[d][1] = given[d][2]

LEMMA SharingKeeps ==
    ASSUME Sharing!VaultsAssumption, SharingInv, [Sharing!Next]_(Sharing!vars)
    PROVE  SharingInv'
  <1> USE DEF SharingInv
  \* the projects keep what they have, and their collections stay
  <1>1. ASSUME UNCHANGED <<projects, vaultOf, given, cards>>, vaults' \subseteq Vault,
               binding' \in [Project -> Repo \cup {None}],
               \A p \in Project : vaultOf[p] \in vaults => vaultOf[p] \in vaults'
        PROVE  SharingInv'
    <2>1. \A p \in Project : Owned(p)'
      BY <1>1 DEF Owned
    <2>2. \A c \in Card : InFamily(c)'
      BY <1>1 DEF InFamily
    <2>. QED BY <1>1, <2>1, <2>2 DEF SharingTypes
  <1>2. ASSUME NEW d \in SharingDevice, Sharing!Pair(d) \/ Sharing!Revoke(d) PROVE SharingInv'
    BY <1>1, <1>2 DEF Sharing!Pair, Sharing!Revoke, Sharing!collections, SharingTypes
  <1>3. ASSUME NEW d \in SharingDevice, Sharing!Read(d) PROVE SharingInv'
    <2>1. UNCHANGED <<projects, vaultOf, vaults, binding, cards>>
      BY <1>3 DEF Sharing!Read, Sharing!collections
    <2>2. PICK r : given' = [given EXCEPT ![d] = <<r, r>>]
      BY <1>3 DEF Sharing!Read, Sharing!CurrentRevision
    <2>3. DOMAIN given' = SharingDevice /\ \A e \in SharingDevice : given'[e][1] = given'[e][2]
      BY <2>2 DEF SharingTypes
    <2>4. \A p \in Project : Owned(p)'
      BY <2>1 DEF Owned
    <2>5. \A c \in Card : InFamily(c)'
      BY <2>1 DEF InFamily
    <2>. QED BY <2>1, <2>3, <2>4, <2>5 DEF SharingTypes
  <1>4. ASSUME NEW p \in Project, NEW c \in Contents, NEW v \in Vault, Sharing!ProjectCreate(p, c, v)
        PROVE  SharingInv'
    <2>1. /\ projects[p] = None /\ v \notin vaults /\ projects' = [projects EXCEPT ![p] = c]
          /\ vaultOf' = [vaultOf EXCEPT ![p] = v] /\ vaults' = vaults \cup {v} /\ UNCHANGED <<binding, given, cards>>
      BY <1>4 DEF Sharing!ProjectCreate, Sharing!InsertProject, Sharing!NewVault
    <2>2. c # None /\ v # None
      BY DEF Sharing!VaultsAssumption
    <2>3. SharingTypes'
      BY <2>1 DEF SharingTypes
    <2>4. vaultOf'[p] = v /\ projects'[p] = c /\ \A q \in Project \ {p} : vaultOf'[q] = vaultOf[q] /\ projects'[q] = projects[q]
      BY <2>1 DEF SharingTypes
    <2>5. \A q \in Project : Owned(q)'
      BY <2>1, <2>2, <2>4 DEF Owned
    <2>6. \A q \in Project : vaultOf[q] # v
      BY <2>1, <2>2 DEF Owned
    <2>7. \A q, r \in Project : vaultOf'[q] # None /\ vaultOf'[q] = vaultOf'[r] => q = r
      BY <2>4, <2>6
    <2>8. \A d \in Card : InFamily(d)'
      BY <2>1 DEF InFamily
    <2>. QED BY <2>1, <2>3, <2>5, <2>7, <2>8
  <1>5. ASSUME NEW p \in Project, NEW r \in Repo \cup {None}, Sharing!ProjectSetRepository(p, r) PROVE SharingInv'
    BY <1>1, <1>5 DEF Sharing!ProjectSetRepository, Sharing!collections, SharingTypes
  \* a task is added, with a parent that works in its repository
  <1>6. ASSUME NEW c \in Card, NEW t \in Sharing!Task, cards[c] = None, cards' = [cards EXCEPT ![c] = t],
               t.parent = c \/ (cards[t.parent] # None /\ cards[t.parent].repo = t.repo),
               UNCHANGED <<projects, vaultOf, vaults, binding, given>>
        PROVE  SharingInv'
    <2>1. DOMAIN cards' = Card /\ cards'[c] = t /\ \A d \in Card \ {c} : cards'[d] = cards[d]
      BY <1>6 DEF SharingTypes
    <2>2. t # None /\ t.parent \in Card
      BY DEF Sharing!VaultsAssumption, Sharing!Task
    <2>4. ASSUME NEW d \in Card PROVE InFamily(d)'
      BY <1>6, <2>1, <2>2 DEF InFamily
    <2>3. \A p \in Project : Owned(p)'
      BY <1>6 DEF Owned
    <2>. QED BY <1>6, <2>1, <2>3, <2>4 DEF SharingTypes
  <1>7. ASSUME NEW c \in Card, NEW p \in Project, Sharing!AddCard(c, p) PROVE SharingInv'
    <2> DEFINE t == [project |-> p, repo |-> binding[p], parent |-> c]
    <2>1. t.parent = c /\ t \in Sharing!Task
      BY DEF SharingTypes, Sharing!Task
    <2>. QED BY <1>6, <1>7, <2>1 DEF Sharing!AddCard, Sharing!collections
  <1>8. ASSUME NEW c \in Card, NEW p \in Card, Sharing!SpawnChild(c, p) PROVE SharingInv'
    <2> DEFINE t == [project |-> cards[p].project, repo |-> cards[p].repo, parent |-> p]
    <2>1. t.parent = p /\ t.repo = cards[p].repo /\ t \in Sharing!Task
      BY <1>8 DEF SharingTypes, Sharing!Task, Sharing!SpawnChild
    <2>. QED BY <1>6, <1>8, <2>1 DEF Sharing!SpawnChild, Sharing!Inherited, Sharing!collections
  <1>9. ASSUME NEW v \in Vault, Sharing!VaultCreate(v) \/ Sharing!SetAvailable(v) \/ Sharing!Put(v) \/ Sharing!RemoveDocument(v)
        PROVE  SharingInv'
    BY <1>1, <1>9 DEF Sharing!VaultCreate, Sharing!SetAvailable, Sharing!Put, Sharing!RemoveDocument, SharingTypes
  <1>10. ASSUME NEW v \in Vault, Sharing!VaultDelete(v) PROVE SharingInv'
    <2>1. UNCHANGED <<projects, vaultOf, given, cards>> /\ vaults' \subseteq vaults /\ binding' = binding
          /\ \A p \in Project : vaultOf[p] \in vaults => vaultOf[p] \in vaults'
      BY <1>10 DEF Sharing!VaultDelete, Sharing!Referenced
    <2>. QED BY <1>1, <2>1 DEF SharingTypes
  <1>11. ASSUME NEW d \in SharingDevice, NEW v \in Vault, Sharing!Search(d, v) PROVE SharingInv'
    BY <1>1, <1>11 DEF Sharing!Search, Sharing!collections, SharingTypes
  <1>12. ASSUME NEW v \in Vault, NEW d \in SharingDevice, NEW allowed \in BOOLEAN, Sharing!SetAccess(v, d, allowed) PROVE SharingInv'
    BY <1>1, <1>12 DEF Sharing!SetAccess, SharingTypes
  <1>13. CASE Sharing!ReconcileGrants
    BY <1>1, <1>13 DEF Sharing!ReconcileGrants, SharingTypes
  <1>14. CASE UNCHANGED Sharing!vars
    BY <1>1, <1>14 DEF Sharing!vars, Sharing!collections, SharingTypes
  <1>. QED
    BY <1>2, <1>3, <1>4, <1>5, <1>7, <1>8, <1>9, <1>10, <1>11, <1>12, <1>13, <1>14 DEF Sharing!Next

\* A computer is given the text it has found, a project keeps a collection of its own though
\* collections are deleted, and a family of tasks works in one repository whatever the default
\* of their project has become: for any computers, projects, collections and tasks.
THEOREM SharingHolds ==
    ASSUME Sharing!VaultsAssumption
    PROVE  Sharing!Spec => []Sharing!SharingSafe
  <1>1. Sharing!Init => SharingInv
    BY DEF Sharing!Init, SharingInv, SharingTypes, Owned, InFamily
  <1>2. SharingInv /\ [Sharing!Next]_(Sharing!vars) => SharingInv'
    BY SharingKeeps
  <1>3. SharingInv => Sharing!SharingSafe
    <2>. SUFFICES ASSUME SharingInv PROVE Sharing!SharingSafe
      OBVIOUS
    <2>1. \A p, q \in Project :
             /\ projects[p] # None => vaultOf[p] \in vaults
             /\ projects[p] # None /\ vaultOf[p] = vaultOf[q] => p = q
      BY DEF SharingInv, SharingTypes, Owned, Sharing!VaultsAssumption
    <2>2. \A c \in Card : cards[c] # None => cards[c].repo = cards[cards[c].parent].repo
      BY DEF SharingInv, InFamily
    <2>. QED BY <2>1, <2>2 DEF Sharing!SharingSafe, SharingInv
  <1>. QED BY <1>1, <1>2, <1>3, PTL DEF Sharing!Spec

\* Beside everything else, search and read hand a computer the text that is stored now in
\* collections it was granted, a project keeps a collection of its own, and a family of
\* tasks works in one repository.
THEOREM HubShares == Spec => []SharingSafe
  <1>1. Init => Sharing!Init
    BY DEF Init
  <1>2. [Next]_vars => [Sharing!Next]_(Sharing!vars)
    <2>1. UNCHANGED sharingVars => UNCHANGED Sharing!vars
      BY DEF sharingVars, Sharing!vars, Sharing!collections
    <2>2. Next => Sharing!Next \/ UNCHANGED sharingVars
      BY DEF Next
    <2>3. UNCHANGED vars => UNCHANGED sharingVars
      BY DEF vars
    <2>. QED BY <2>1, <2>2, <2>3
  <1>. QED BY <1>1, <1>2, SharingAssumed, SharingHolds, PTL DEF Spec, Sharing!Spec, SharingSafe

(***************************************************************************)
(* Review workflows.  The chain of an active workflow is in order: its     *)
(* code is as many corrections from its source as it counts, and its check *)
(* is of that code.  What keeps a stopped one stopped is that its task has *)
(* no run that could be claimed (Settled), unless its owner started it.    *)
(***************************************************************************)
FlowTasks ==
    [of : Nat, check : BOOLEAN, round : Nat, st : Flows!Status, leased : BOOLEAN,
     result : {"none"} \cup Flows!CodeResults \cup Flows!CheckResults,
     workspace : BOOLEAN, prep : {"none", "queued", "claimed", "prepared"},
     run : {"none", "queued", "running"}, asked : BOOLEAN]

FlowRows ==
    [state : {"active", "passed", "stopped", "blocked"}, source : Nat, current : Nat, coder : Nat,
     checking : BOOLEAN, corrections : Nat, limit : Nat, late : BOOLEAN]

FlowDbs == [task : Seq(FlowTasks), flow : Seq(FlowRows)]

TaskSound(t, n) ==
    /\ t.leased => t.st = "running"
    /\ t.result # "none" => t.st = "done"
    /\ t.check => t.of \in 1 .. n
    /\ t.round <= RoundLimit

ChainSound(ts, w) ==
    /\ w.source \in 1 .. Len(ts) /\ w.current \in 1 .. Len(ts) /\ w.coder \in 1 .. Len(ts)
    /\ ~ ts[w.coder].check
    /\ ts[w.coder].round = ts[w.source].round + w.corrections
    /\ w.corrections <= w.limit
    /\ w.checking => ts[w.current].check /\ ts[w.current].of = w.coder
    /\ ~ w.checking => w.current = w.coder
    /\ w.state = "passed" => w.checking /\ ts[w.current].result = "pass" /\ ts[w.coder].result = "good"

Sound(d) ==
    /\ d \in FlowDbs
    /\ \A i \in 1 .. Len(d.task) : TaskSound(d.task[i], Len(d.task))
    /\ \A f \in 1 .. Len(d.flow) : ChainSound(d.task, d.flow[f])

\* nobody will claim it on behalf of a workflow that is over
Idles(t) == t.st = "done" \/ t.run # "queued" \/ t.asked
Driven(d, i) == \E f \in 1 .. Len(d.flow) : d.flow[f].current = i /\ d.flow[f].state = "active"
Settled(d, i) == Idles(d.task[i]) \/ Driven(d, i)
Quiet(d, i) ==
    Settled(d, i) \/ \A f \in 1 .. Len(d.flow) : d.flow[f].current = i => d.flow[f].state \notin {"stopped", "blocked"}

QuietBut(d, h) == Sound(d) /\ \A i \in 1 .. Len(d.task) : Quiet(d, i) \/ i \in h
FlowsInv == QuietBut(Flows!Db, hand)

\* a step leases a task that was prepared remotely only under a queued run
FlowLeases ==
    \A i \in 1 .. Len(task) : ~ task[i].leased /\ task'[i].leased /\ task[i].prep # "none" => ~ Idles(task[i])

\* what advancing workflows leaves alone in a task
SameWork(t, u) ==
    /\ u \in FlowTasks /\ u.of = t.of /\ u.check = t.check /\ u.round = t.round
    /\ u.leased = t.leased /\ u.result = t.result /\ (u.st = "done" <=> t.st = "done")
    /\ u.st = "running" <=> t.st = "running"

Follows(d, e) ==
    /\ Sound(e) /\ Len(e.flow) = Len(d.flow) /\ Len(e.task) >= Len(d.task)
    /\ \A i \in 1 .. Len(d.task) :
          /\ SameWork(d.task[i], e.task[i])
          /\ Settled(d, i) => Settled(e, i)
          /\ Quiet(d, i) => Quiet(e, i)
    /\ \A i \in 1 .. Len(e.task) : i > Len(d.task) => Settled(e, i)

LEMMA DbFields ==
    ASSUME NEW d \in FlowDbs
    PROVE  /\ d.task \in Seq(FlowTasks) /\ d.flow \in Seq(FlowRows) /\ Len(d.task) \in Nat /\ Len(d.flow) \in Nat
           /\ \A i \in 1 .. Len(d.task) : d.task[i] \in FlowTasks
           /\ \A f \in 1 .. Len(d.flow) : d.flow[f] \in FlowRows
  BY DEF FlowDbs

LEMMA TaskFields ==
    ASSUME NEW t \in FlowTasks
    PROVE  /\ t.of \in Nat /\ t.check \in BOOLEAN /\ t.round \in Nat /\ t.st \in Flows!Status /\ t.leased \in BOOLEAN
           /\ t.run \in {"none", "queued", "running"} /\ t.asked \in BOOLEAN
  BY DEF FlowTasks

LEMMA RowFields ==
    ASSUME NEW w \in FlowRows
    PROVE  /\ w.source \in Nat /\ w.current \in Nat /\ w.coder \in Nat /\ w.checking \in BOOLEAN
           /\ w.corrections \in Nat /\ w.limit \in Nat /\ w.state \in {"active", "passed", "stopped", "blocked"}
  BY DEF FlowRows

LEMMA FollowsItself ==
    ASSUME NEW d, Sound(d)
    PROVE  Follows(d, d)
  <1>1. d \in FlowDbs
    BY DEF Sound
  <1>2. \A i \in 1 .. Len(d.task) : SameWork(d.task[i], d.task[i])
    BY <1>1, DbFields DEF SameWork
  <1>. QED BY <1>1, <1>2, DbFields DEF Follows

LEMMA FollowsOn ==
    ASSUME NEW c, NEW d, NEW e, c \in FlowDbs, Follows(c, d), Follows(d, e)
    PROVE  Follows(c, e)
  <1>1. Len(c.task) \in Nat /\ Len(d.task) \in Nat /\ Len(e.task) \in Nat /\ Len(d.task) >= Len(c.task) /\ Len(e.task) >= Len(d.task)
    BY DbFields DEF Follows, Sound
  <1>2. ASSUME NEW i \in 1 .. Len(c.task)
        PROVE  SameWork(c.task[i], e.task[i]) /\ (Settled(c, i) => Settled(e, i)) /\ (Quiet(c, i) => Quiet(e, i))
    <2>1. i \in 1 .. Len(d.task)
      BY <1>1
    <2>. QED BY <2>1 DEF Follows, SameWork
  <1>3. ASSUME NEW i \in 1 .. Len(e.task), i > Len(c.task) PROVE Settled(e, i)
    <2>1. i > Len(d.task) \/ i \in 1 .. Len(d.task)
      BY <1>1
    <2>. QED BY <1>3, <2>1 DEF Follows
  <1>. QED BY <1>1, <1>2, <1>3 DEF Follows

\* A chain stays in order while the tasks keep what they are about.
LEMMA ChainKeeps ==
    ASSUME NEW ts \in Seq(FlowTasks), NEW us \in Seq(FlowTasks), NEW w \in FlowRows, ChainSound(ts, w),
           Len(us) >= Len(ts), \A i \in 1 .. Len(ts) : SameWork(ts[i], us[i])
    PROVE  ChainSound(us, w)
  <1>1. Len(ts) \in Nat /\ Len(us) \in Nat
    OBVIOUS
  <1>2. \A i \in 1 .. Len(ts) : i \in 1 .. Len(us) /\ us[i].of = ts[i].of /\ us[i].check = ts[i].check /\ us[i].round = ts[i].round
                                /\ us[i].result = ts[i].result
    BY <1>1 DEF SameWork
  <1>. QED BY <1>2 DEF ChainSound

LEMMA SeqSet ==
    ASSUME NEW S, NEW s \in Seq(S), NEW i \in 1 .. Len(s), NEW x \in S, NEW r, r = [s EXCEPT ![i] = x]
    PROVE  r \in Seq(S) /\ Len(r) = Len(s) /\ r[i] = x /\ \A j \in 1 .. Len(s) : j # i => r[j] = s[j]
  OBVIOUS

\* One workflow looks at the task it is at: it may change that task and its own state.
LEMMA RowChanges ==
    ASSUME NEW d, Sound(d), NEW f \in 1 .. Len(d.flow), NEW i, i = d.flow[f].current, d.flow[f].state = "active",
           NEW u, SameWork(d.task[i], u), NEW x \in {"active", "passed", "stopped", "blocked"},
           x = "passed" => d.flow[f].checking /\ u.result = "pass" /\ d.task[d.flow[f].coder].result = "good",
           x = "active" \/ Idles(u),
           NEW e, e = [task |-> [d.task EXCEPT ![i] = u], flow |-> [d.flow EXCEPT ![f].state = x]]
    PROVE  Follows(d, e)
  <1>1. /\ d \in FlowDbs /\ d.task \in Seq(FlowTasks) /\ d.flow \in Seq(FlowRows) /\ Len(d.task) \in Nat /\ Len(d.flow) \in Nat
        /\ d.flow[f] \in FlowRows /\ ChainSound(d.task, d.flow[f]) /\ i \in 1 .. Len(d.task) /\ u \in FlowTasks
    BY DbFields DEF Sound, ChainSound, SameWork
  <1> DEFINE w == [d.flow[f] EXCEPT !.state = x]
  <1>2. /\ w \in FlowRows /\ w.state = x /\ w.source = d.flow[f].source /\ w.current = i /\ w.coder = d.flow[f].coder
        /\ w.checking = d.flow[f].checking /\ w.corrections = d.flow[f].corrections /\ w.limit = d.flow[f].limit
    BY <1>1 DEF FlowRows
  <1>3. e.task = [d.task EXCEPT ![i] = u] /\ e.flow = [d.flow EXCEPT ![f] = w]
    BY <1>1
  <1> HIDE DEF w
  <1>4. /\ e.task \in Seq(FlowTasks) /\ Len(e.task) = Len(d.task) /\ e.task[i] = u /\ \A j \in 1 .. Len(d.task) : j # i => e.task[j] = d.task[j]
        /\ e.flow \in Seq(FlowRows) /\ Len(e.flow) = Len(d.flow) /\ e.flow[f] = w /\ \A g \in 1 .. Len(d.flow) : g # f => e.flow[g] = d.flow[g]
    <2>1. /\ e.task \in Seq(FlowTasks) /\ Len(e.task) = Len(d.task) /\ e.task[i] = u
          /\ \A j \in 1 .. Len(d.task) : j # i => e.task[j] = d.task[j]
      BY <1>1, <1>3, SeqSet
    <2>2. /\ e.flow \in Seq(FlowRows) /\ Len(e.flow) = Len(d.flow) /\ e.flow[f] = w
          /\ \A g \in 1 .. Len(d.flow) : g # f => e.flow[g] = d.flow[g]
      <3>1. d.flow \in Seq(FlowRows) /\ w \in FlowRows /\ e.flow = [d.flow EXCEPT ![f] = w]
        BY <1>1, <1>2, <1>3
      <3>. QED BY <3>1, SeqSet
    <2>. QED BY <2>1, <2>2
  <1>5. \A j \in 1 .. Len(d.task) : SameWork(d.task[j], e.task[j])
    <2>1. ASSUME NEW j \in 1 .. Len(d.task), j # i PROVE SameWork(d.task[j], e.task[j])
      <3>1. e.task[j] = d.task[j] /\ d.task[j] \in FlowTasks
        BY <1>1, <1>4, <2>1
      <3>. QED BY <3>1 DEF SameWork
    <2>. QED BY <1>4, <2>1
  <1>6. Sound(e)
    <2>1. e \in FlowDbs
      BY <1>3, <1>4 DEF FlowDbs
    <2>2. \A j \in 1 .. Len(e.task) : TaskSound(e.task[j], Len(e.task))
      <3>. SUFFICES ASSUME NEW j \in 1 .. Len(e.task) PROVE TaskSound(e.task[j], Len(e.task))
        OBVIOUS
      <3>1. TaskSound(d.task[j], Len(d.task)) /\ SameWork(d.task[j], e.task[j]) /\ Len(e.task) = Len(d.task)
        BY <1>4, <1>5 DEF Sound
      <3>. QED BY <3>1 DEF TaskSound, SameWork
    <2>3. ASSUME NEW g \in 1 .. Len(d.flow), g # f PROVE ChainSound(e.task, e.flow[g])
      <3>1. Len(e.task) >= Len(d.task) /\ e.flow[g] = d.flow[g] /\ d.flow[g] \in FlowRows /\ ChainSound(d.task, d.flow[g])
        BY <1>1, <1>4, <2>3 DEF Sound
      <3>. QED BY <1>1, <1>4, <1>5, <3>1, ChainKeeps
    <2>4. ChainSound(e.task, w)
      <3>1. ChainSound(e.task, d.flow[f])
        <4>1. Len(e.task) >= Len(d.task)
          BY <1>1, <1>4
        <4>. QED BY <1>1, <1>4, <1>5, <4>1, ChainKeeps
      <3>2. x = "passed" => e.task[i].result = "pass" /\ e.task[d.flow[f].coder].result = "good"
        BY <1>1, <1>4, <1>5 DEF SameWork, ChainSound
      <3>. QED BY <1>2, <3>1, <3>2 DEF ChainSound
    <2>. QED BY <1>4, <2>1, <2>2, <2>3, <2>4 DEF Sound
  <1>7. Settled(e, i)
    BY <1>2, <1>4 DEF Settled, Driven
  <1>8. ASSUME NEW j \in 1 .. Len(d.task), j # i
        PROVE  (Settled(d, j) => Settled(e, j)) /\ (Quiet(d, j) => Quiet(e, j))
    <2>1. e.task[j] = d.task[j] /\ (\A g \in 1 .. Len(d.flow) : d.flow[g].current = j => g # f /\ e.flow[g] = d.flow[g])
          /\ (\A g \in 1 .. Len(d.flow) : e.flow[g].current = j => g # f /\ e.flow[g] = d.flow[g])
      BY <1>2, <1>4, <1>8
    <2>2. Driven(d, j) => Driven(e, j)
      BY <1>4, <2>1 DEF Driven
    <2>3. Settled(d, j) => Settled(e, j)
      BY <2>1, <2>2 DEF Settled
    <2>4. Quiet(d, j) => Quiet(e, j)
      <3>1. ASSUME \A g \in 1 .. Len(d.flow) : d.flow[g].current = j => d.flow[g].state \notin {"stopped", "blocked"}
            PROVE  \A g \in 1 .. Len(e.flow) : e.flow[g].current = j => e.flow[g].state \notin {"stopped", "blocked"}
        BY <1>4, <2>1, <3>1
      <3>. QED BY <2>3, <3>1 DEF Quiet
    <2>. QED BY <2>3, <2>4
  <1>9. \A j \in 1 .. Len(d.task) : (Settled(d, j) => Settled(e, j)) /\ (Quiet(d, j) => Quiet(e, j))
    BY <1>7, <1>8 DEF Quiet
  <1>10. Len(e.task) >= Len(d.task) /\ \A j \in 1 .. Len(e.task) : ~ (j > Len(d.task))
    BY <1>1, <1>4
  <1>. QED BY <1>4, <1>5, <1>6, <1>9, <1>10 DEF Follows

\* A workflow stages the next task of its chain; the one it was at is done.
LEMMA RowStages ==
    ASSUME NEW d, Sound(d), NEW f \in 1 .. Len(d.flow), d.flow[f].state = "active",
           d.task[d.flow[f].current].st = "done",
           NEW n, n = Len(d.task) + 1,
           NEW t \in FlowTasks, TaskSound(t, Len(d.task)), t.st = "waiting", t.run = "none",
           NEW w \in FlowRows, w.current = n, w.state = "active", ChainSound(Append(d.task, t), w),
           NEW e, e = [task |-> Append(d.task, t), flow |-> [d.flow EXCEPT ![f] = w]]
    PROVE  Follows(d, e)
  <1>1. /\ d \in FlowDbs /\ d.task \in Seq(FlowTasks) /\ d.flow \in Seq(FlowRows) /\ Len(d.task) \in Nat /\ Len(d.flow) \in Nat
        /\ d.flow[f] \in FlowRows /\ ChainSound(d.task, d.flow[f])
    BY DbFields DEF Sound
  <1>2. e.task = Append(d.task, t) /\ e.flow = [d.flow EXCEPT ![f] = w]
    OBVIOUS
  <1>3. /\ e.task \in Seq(FlowTasks) /\ Len(e.task) = n /\ e.task[n] = t /\ \A j \in 1 .. Len(d.task) : e.task[j] = d.task[j]
        /\ e.flow \in Seq(FlowRows) /\ Len(e.flow) = Len(d.flow) /\ e.flow[f] = w /\ \A g \in 1 .. Len(d.flow) : g # f => e.flow[g] = d.flow[g]
    BY <1>1, <1>2
  <1>4. \A j \in 1 .. Len(d.task) : SameWork(d.task[j], e.task[j])
    BY <1>1, <1>3, DbFields DEF SameWork
  <1>5. Sound(e)
    <2>1. e \in FlowDbs
      BY <1>3 DEF FlowDbs
    <2>2. \A j \in 1 .. Len(d.task) : TaskSound(e.task[j], Len(e.task))
      <3>1. \A j \in 1 .. Len(d.task) : TaskSound(d.task[j], Len(d.task))
        BY DEF Sound
      <3>. QED BY <1>1, <1>3, <3>1 DEF TaskSound
    <2>3. TaskSound(e.task[n], Len(e.task))
      BY <1>1, <1>3 DEF TaskSound
    <2>4. \A j \in 1 .. Len(e.task) : j \in 1 .. Len(d.task) \/ j = n
      BY <1>1, <1>3
    <2>5. ASSUME NEW g \in 1 .. Len(d.flow), g # f PROVE ChainSound(e.task, e.flow[g])
      <3>1. Len(e.task) >= Len(d.task) /\ e.flow[g] = d.flow[g] /\ d.flow[g] \in FlowRows /\ ChainSound(d.task, d.flow[g])
        BY <1>1, <1>3, <2>5 DEF Sound
      <3>. QED BY <1>1, <1>3, <1>4, <3>1, ChainKeeps
    <2>. QED BY <1>2, <1>3, <2>1, <2>2, <2>3, <2>4, <2>5 DEF Sound
  <1>6. Settled(e, n)
    BY <1>3 DEF Settled, Idles
  <1>7. ASSUME NEW j \in 1 .. Len(d.task)
        PROVE  (Settled(d, j) => Settled(e, j)) /\ (Quiet(d, j) => Quiet(e, j))
    <2>1. CASE j = d.flow[f].current
      BY <1>3, <2>1 DEF Settled, Idles, Quiet
    <2>2. CASE j # d.flow[f].current
      <3>1. e.task[j] = d.task[j] /\ j # n /\ (\A g \in 1 .. Len(d.flow) : d.flow[g].current = j => g # f /\ e.flow[g] = d.flow[g])
            /\ (\A g \in 1 .. Len(d.flow) : e.flow[g].current = j => g # f /\ e.flow[g] = d.flow[g])
        BY <1>1, <1>3, <2>2
      <3>2. Driven(d, j) => Driven(e, j)
        BY <1>3, <3>1 DEF Driven
      <3>. QED BY <1>3, <3>1, <3>2 DEF Settled, Quiet
    <2>. QED BY <2>1, <2>2
  <1>8. \A j \in 1 .. Len(e.task) : j > Len(d.task) => Settled(e, j)
    <2>1. \A j \in 1 .. Len(e.task) : j > Len(d.task) => j = n
      BY <1>1, <1>3
    <2>. QED BY <1>6, <2>1
  <1>9. Len(e.task) >= Len(d.task)
    BY <1>1, <1>3
  <1>. QED BY <1>3, <1>4, <1>5, <1>7, <1>8, <1>9 DEF Follows

\* What stopping makes of the task a workflow is at.
StopTask(t) ==
    [t EXCEPT !.st = IF @ \in {"ready", "waiting", "prepared"} THEN "blocked" ELSE @,
              !.asked = @ \/ t.run # "none"]
Prepared(t) == [t EXCEPT !.prep = IF @ = "none" THEN "queued" ELSE @]
RunQueued(t) == [t EXCEPT !.run = "queued", !.st = "ready"]

LEMMA StopTaskIdles ==
    ASSUME NEW t \in FlowTasks
    PROVE  SameWork(t, StopTask(t)) /\ Idles(StopTask(t))
  <1>1. StopTask(t) \in FlowTasks
    <2>1. (IF t.st \in {"ready", "waiting", "prepared"} THEN "blocked" ELSE t.st) \in Flows!Status
      BY DEF FlowTasks, Flows!Status
    <2>2. (t.asked \/ t.run # "none") \in BOOLEAN
      OBVIOUS
    <2>. QED BY <2>1, <2>2 DEF FlowTasks, StopTask
  <1>2. /\ StopTask(t).st = (IF t.st \in {"ready", "waiting", "prepared"} THEN "blocked" ELSE t.st)
        /\ StopTask(t).of = t.of /\ StopTask(t).check = t.check /\ StopTask(t).round = t.round /\ StopTask(t).leased = t.leased
        /\ StopTask(t).result = t.result /\ StopTask(t).run = t.run
    BY DEF FlowTasks, StopTask
  <1>3. StopTask(t).asked = (t.asked \/ t.run # "none")
    BY DEF FlowTasks, StopTask
  <1>4. SameWork(t, StopTask(t))
    BY <1>1, <1>2 DEF SameWork
  <1>5. StopTask(t).run = "queued" => StopTask(t).asked
    <2>1. StopTask(t).run = "queued" => t.run # "none"
      BY <1>2
    <2>. QED BY <1>3, <2>1
  <1>. QED BY <1>4, <1>5 DEF Idles

LEMMA StepTasks ==
    ASSUME NEW t \in FlowTasks
    PROVE  SameWork(t, Prepared(t)) /\ (t.st = "prepared" => SameWork(t, RunQueued(t)))
  <1>1. Prepared(t) \in FlowTasks /\ RunQueued(t) \in FlowTasks
    BY DEF FlowTasks, Prepared, RunQueued, Flows!Status
  <1>2. /\ Prepared(t).st = t.st /\ Prepared(t).of = t.of /\ Prepared(t).check = t.check /\ Prepared(t).round = t.round
        /\ Prepared(t).leased = t.leased /\ Prepared(t).result = t.result
    BY DEF FlowTasks, Prepared
  <1>3. /\ RunQueued(t).st = "ready" /\ RunQueued(t).of = t.of /\ RunQueued(t).check = t.check /\ RunQueued(t).round = t.round
        /\ RunQueued(t).leased = t.leased /\ RunQueued(t).result = t.result
    BY DEF FlowTasks, RunQueued
  <1>. QED BY <1>1, <1>2, <1>3 DEF SameWork

LEMMA StopIs ==
    ASSUME NEW d \in FlowDbs, NEW f \in 1 .. Len(d.flow), NEW x, NEW i, i = d.flow[f].current, i \in 1 .. Len(d.task)
    PROVE  Flows!Stop(d, f, x) = [task |-> [d.task EXCEPT ![i] = StopTask(d.task[i])], flow |-> [d.flow EXCEPT ![f].state = x]]
  <1>1. d.task \in Seq(FlowTasks) /\ d.task[i] \in FlowTasks
    BY DbFields
  <1>2. [d.task EXCEPT ![i].st = IF @ \in {"ready", "waiting", "prepared"} THEN "blocked" ELSE @,
                       ![i].asked = @ \/ d.task[i].run # "none"]
        = [d.task EXCEPT ![i] = StopTask(d.task[i])]
    BY <1>1 DEF StopTask, FlowTasks
  <1>3. Flows!Stop(d, f, x) = [flow |-> [d.flow EXCEPT ![f].state = x], task |-> [d.task EXCEPT ![i] = StopTask(d.task[i])]]
    BY <1>2 DEF Flows!Stop
  <1>4. \A ts, fs : [flow |-> fs, task |-> ts] = [task |-> ts, flow |-> fs]
    OBVIOUS
  <1>. QED BY <1>3, <1>4

LEMMA StopFollows ==
    ASSUME NEW d, Sound(d), NEW f \in 1 .. Len(d.flow), d.flow[f].state = "active", NEW x \in {"stopped", "blocked"}
    PROVE  Follows(d, Flows!Stop(d, f, x))
  <1>1. PICK i : i = d.flow[f].current
    OBVIOUS
  <1>2. d \in FlowDbs /\ i \in 1 .. Len(d.task) /\ d.task[i] \in FlowTasks
    BY <1>1, DbFields DEF Sound, ChainSound
  <1>3. SameWork(d.task[i], StopTask(d.task[i])) /\ Idles(StopTask(d.task[i]))
    BY <1>2, StopTaskIdles
  <1>4. Flows!Stop(d, f, x) = [task |-> [d.task EXCEPT ![i] = StopTask(d.task[i])], flow |-> [d.flow EXCEPT ![f].state = x]]
    BY <1>1, <1>2, StopIs
  <1>5. x \in {"active", "passed", "stopped", "blocked"} /\ x # "passed"
    OBVIOUS
  <1>. QED BY <1>1, <1>3, <1>4, <1>5, RowChanges

\* The changes of one task and one workflow, as RowChanges has them.
LEMMA SameRow ==
    ASSUME NEW d \in FlowDbs, NEW f \in 1 .. Len(d.flow), d.flow[f].state = "active"
    PROVE  [d.flow EXCEPT ![f].state = "active"] = d.flow
  <1>1. d.flow \in Seq(FlowRows) /\ d.flow[f] \in FlowRows
    BY DbFields
  <1>2. PICK w \in FlowRows : w = d.flow[f]
    BY <1>1
  <1>3. [w EXCEPT !.state = "active"] = w
    BY <1>2 DEF FlowRows
  <1>4. [d.flow EXCEPT ![f] = w] = d.flow
    BY <1>1, <1>2
  <1>. QED BY <1>2, <1>3, <1>4

LEMMA SameTask ==
    ASSUME NEW d \in FlowDbs, NEW i \in 1 .. Len(d.task)
    PROVE  [d.task EXCEPT ![i] = d.task[i]] = d.task
  <1>1. d.task \in Seq(FlowTasks)
    BY DbFields
  <1>. QED BY <1>1

PrepareDb(d, i) == [d EXCEPT !.task[i].prep = IF @ = "none" THEN "queued" ELSE @]
QueueDb(d, i) == [d EXCEPT !.task[i].run = "queued", !.task[i].st = "ready"]
PassDb(d, f) == [d EXCEPT !.flow[f].state = "passed"]

LEMMA DriveIs ==
    ASSUME NEW d \in FlowDbs, NEW f \in 1 .. Len(d.flow), d.flow[f].state = "active",
           NEW i, i = d.flow[f].current, i \in 1 .. Len(d.task)
    PROVE  /\ PrepareDb(d, i)
                = [task |-> [d.task EXCEPT ![i] = Prepared(d.task[i])], flow |-> [d.flow EXCEPT ![f].state = "active"]]
           /\ QueueDb(d, i)
                = [task |-> [d.task EXCEPT ![i] = RunQueued(d.task[i])], flow |-> [d.flow EXCEPT ![f].state = "active"]]
           /\ PassDb(d, f)
                = [task |-> [d.task EXCEPT ![i] = d.task[i]], flow |-> [d.flow EXCEPT ![f].state = "passed"]]
  <1>1. d.task \in Seq(FlowTasks) /\ d.task[i] \in FlowTasks /\ d.flow \in Seq(FlowRows) /\ d.flow[f] \in FlowRows
    BY DbFields
  <1>2. \A ts, fs : [d EXCEPT !.task = ts] = [task |-> ts, flow |-> d.flow] /\ [d EXCEPT !.flow = fs] = [task |-> d.task, flow |-> fs]
    BY DEF FlowDbs
  <1>3. [d.flow EXCEPT ![f].state = "active"] = d.flow
    BY SameRow
  <1>4. [d.task EXCEPT ![i] = d.task[i]] = d.task
    BY SameTask
  <1>5. [d EXCEPT !.task[i].prep = IF @ = "none" THEN "queued" ELSE @] = [d EXCEPT !.task = [d.task EXCEPT ![i] = Prepared(d.task[i])]]
    BY DEF Prepared
  <1>6. [d EXCEPT !.task[i].run = "queued", !.task[i].st = "ready"] = [d EXCEPT !.task = [d.task EXCEPT ![i] = RunQueued(d.task[i])]]
    <2>1. [[d.task EXCEPT ![i].run = "queued"] EXCEPT ![i].st = "ready"] = [d.task EXCEPT ![i] = RunQueued(d.task[i])]
      BY <1>1 DEF RunQueued
    <2>. QED BY <2>1 DEF FlowDbs
  <1>7. [d EXCEPT !.flow[f].state = "passed"] = [d EXCEPT !.flow = [d.flow EXCEPT ![f].state = "passed"]]
    OBVIOUS
  <1>. QED BY <1>2, <1>3, <1>4, <1>5, <1>6, <1>7, ZenonT(60) DEF PrepareDb, QueueDb, PassDb

LEMMA DriveFollows ==
    ASSUME NEW d, Sound(d), NEW f \in 1 .. Len(d.flow), d.flow[f].state = "active"
    PROVE  Follows(d, Flows!Drive(d, f))
  <1>1. PICK i : i = d.flow[f].current
    OBVIOUS
  <1>2. d \in FlowDbs /\ i \in 1 .. Len(d.task) /\ d.task[i] \in FlowTasks
    BY <1>1, DbFields DEF Sound, ChainSound
  <1>3. SameWork(d.task[i], Prepared(d.task[i])) /\ (d.task[i].st = "prepared" => SameWork(d.task[i], RunQueued(d.task[i])))
    BY <1>2, StepTasks
  <1>4. "active" \in {"active", "passed", "stopped", "blocked"} /\ "active" # "passed" /\ "blocked" \in {"stopped", "blocked"}
    OBVIOUS
  <1>5. CASE d.task[i].st = "waiting"
    <2>1. PICK e : e = [task |-> [d.task EXCEPT ![i] = Prepared(d.task[i])], flow |-> [d.flow EXCEPT ![f].state = "active"]]
      OBVIOUS
    <2>2. Flows!Drive(d, f) = e
      <3>1. Flows!Drive(d, f) = PrepareDb(d, i)
        BY <1>1, <1>5 DEF Flows!Drive, PrepareDb
      <3>. QED BY <1>1, <1>2, <2>1, <3>1, DriveIs
    <2>3. Follows(d, e)
      BY <1>1, <1>3, <1>4, <2>1, RowChanges
    <2>. QED BY <2>2, <2>3
  <1>6. CASE d.task[i].st = "prepared"
    <2>1. PICK e : e = [task |-> [d.task EXCEPT ![i] = RunQueued(d.task[i])], flow |-> [d.flow EXCEPT ![f].state = "active"]]
      OBVIOUS
    <2>2. Flows!Drive(d, f) = e
      <3>1. Flows!Drive(d, f) = QueueDb(d, i)
        BY <1>1, <1>6 DEF Flows!Drive, QueueDb
      <3>. QED BY <1>1, <1>2, <2>1, <3>1, DriveIs
    <2>3. Follows(d, e)
      BY <1>1, <1>3, <1>4, <1>6, <2>1, RowChanges
    <2>. QED BY <2>2, <2>3
  <1>7. CASE d.task[i].st # "waiting" /\ d.task[i].st # "prepared"
    <2>1. Flows!Drive(d, f) = IF Flows!Underway(d.task[i]) THEN d ELSE Flows!Stop(d, f, "blocked")
      BY <1>1, <1>7 DEF Flows!Drive
    <2>2. Follows(d, d)
      BY FollowsItself
    <2>3. Follows(d, Flows!Stop(d, f, "blocked"))
      BY <1>4, StopFollows
    <2>. QED BY <2>1, <2>2, <2>3
  <1>. QED BY <1>5, <1>6, <1>7

LEMMA JudgeFollows ==
    ASSUME Flows!WorkflowsAssumption, NEW d, Sound(d), NEW f \in 1 .. Len(d.flow), d.flow[f].state = "active", d.flow[f].checking,
           d.task[d.flow[f].current].st = "done"
    PROVE  Follows(d, Flows!Judge(d, f))
  <1>1. PICK i : i = d.flow[f].current
    OBVIOUS
  <1>2. PICK c : c = d.flow[f].coder
    OBVIOUS
  <1>3. PICK w : w = d.flow[f]
    OBVIOUS
  <1>4. PICK t : t = d.task[i]
    OBVIOUS
  <1>5. /\ d \in FlowDbs /\ i \in 1 .. Len(d.task) /\ c \in 1 .. Len(d.task) /\ t \in FlowTasks /\ d.task[c] \in FlowTasks /\ w \in FlowRows
        /\ t.check /\ t.of = c /\ ~ d.task[c].check /\ d.task[c].round = d.task[w.source].round + w.corrections
        /\ w.source \in 1 .. Len(d.task) /\ d.task[w.source] \in FlowTasks
    BY <1>1, <1>2, <1>3, <1>4, DbFields DEF Sound, ChainSound
  <1>6. CASE Flows!Verdict(d, t) = "pass"
    <2>1. PICK e : e = [task |-> [d.task EXCEPT ![i] = t], flow |-> [d.flow EXCEPT ![f].state = "passed"]]
      OBVIOUS
    <2>2. Flows!Judge(d, f) = PassDb(d, f)
      BY <1>1, <1>4, <1>6 DEF Flows!Judge, PassDb
    <2>3. e = PassDb(d, f)
      BY <1>1, <1>4, <1>5, <2>1, DriveIs
    <2>4. t.result = "pass" /\ d.task[c].result = "good"
      BY <1>5, <1>6 DEF Flows!Verdict
    <2>5. Idles(t) /\ "passed" \in {"active", "passed", "stopped", "blocked"}
      BY <1>1, <1>4 DEF Idles
    <2>6. SameWork(d.task[i], t)
      BY <1>4, <1>5 DEF SameWork
    <2>7. Follows(d, e)
      BY <1>1, <1>2, <2>1, <2>4, <2>5, <2>6, RowChanges
    <2>. QED BY <2>2, <2>3, <2>7
  <1>7. CASE Flows!Verdict(d, t) # "pass" /\ (~ Flows!MayCorrect(d, t) \/ d.flow[f].corrections >= d.flow[f].limit)
    <2>1. Flows!Judge(d, f) = Flows!Stop(d, f, "blocked")
      BY <1>1, <1>4, <1>7 DEF Flows!Judge
    <2>. QED BY <2>1, StopFollows
  <1>8. CASE Flows!Verdict(d, t) # "pass" /\ Flows!MayCorrect(d, t) /\ ~ (d.flow[f].corrections >= d.flow[f].limit)
    <2>1. PICK n : n = Len(d.task) + 1
      OBVIOUS
    <2>2. PICK u : u = Flows!CorrectionOf(d, i)
      OBVIOUS
    <2>3. PICK v : v = [w EXCEPT !.current = n, !.coder = n, !.checking = FALSE, !.corrections = @ + 1]
      OBVIOUS
    <2>4. PICK e : e = [task |-> Append(d.task, u), flow |-> [d.flow EXCEPT ![f] = v]]
      OBVIOUS
    <2>5. Flows!Judge(d, f) = IF n > MaxTasks THEN d ELSE e
      BY <1>1, <1>3, <1>4, <1>8, <2>1, <2>2, <2>3, <2>4 DEF Flows!Judge, Flows!Staging
    <2>6. Len(d.task) \in Nat /\ n \in Nat /\ d.task \in Seq(FlowTasks)
      BY <1>5, <2>1, DbFields
    <2>7. d.task[c].round \in Nat /\ w.corrections \in Nat /\ w.limit \in Nat /\ RoundLimit \in Nat
      BY <1>5, TaskFields, RowFields DEF Flows!WorkflowsAssumption
    <2>8. /\ u = [of |-> i, check |-> FALSE, round |-> d.task[c].round + 1, st |-> "waiting", leased |-> FALSE, result |-> "none",
                  workspace |-> FALSE, prep |-> "none", run |-> "none", asked |-> FALSE]
          /\ d.task[c].round + 1 <= RoundLimit /\ w.corrections + 1 <= w.limit
      <3>1. d.task[c].round + 1 <= RoundLimit
        BY <1>5, <1>8 DEF Flows!MayCorrect
      <3>2. w.corrections + 1 <= w.limit
        BY <1>3, <1>8, <2>7
      <3>3. d.task[d.task[i].of] = d.task[c]
        BY <1>4, <1>5
      <3>. QED BY <2>2, <3>1, <3>2, <3>3 DEF Flows!CorrectionOf, Flows!Staged
    <2>9. u \in FlowTasks /\ TaskSound(u, Len(d.task)) /\ u.st = "waiting" /\ u.run = "none" /\ ~ u.check /\ u.round = d.task[c].round + 1
      <3>1. PICK r : r = d.task[c].round + 1
        OBVIOUS
      <3>2. r \in Nat /\ r <= RoundLimit /\ i \in Nat
        BY <1>5, <2>6, <2>7, <2>8, <3>1
      <3>3. u = [of |-> i, check |-> FALSE, round |-> r, st |-> "waiting", leased |-> FALSE, result |-> "none",
                 workspace |-> FALSE, prep |-> "none", run |-> "none", asked |-> FALSE]
        BY <2>8, <3>1
      <3>4. u \in FlowTasks
        BY <3>2, <3>3 DEF FlowTasks, Flows!Status
      <3>5. ~ u.leased /\ u.result = "none" /\ ~ u.check /\ u.round = r /\ u.st = "waiting" /\ u.run = "none"
        BY <3>3
      <3>. QED BY <3>1, <3>2, <3>4, <3>5 DEF TaskSound
    <2>10. /\ v \in FlowRows /\ v.current = n /\ v.coder = n /\ v.state = "active" /\ ~ v.checking /\ v.source = w.source
           /\ v.corrections = w.corrections + 1 /\ v.limit = w.limit
      <3>1. PICK k : k = w.corrections + 1
        OBVIOUS
      <3>2. k \in Nat
        BY <2>7, <3>1
      <3>3. v = [w EXCEPT !.current = n, !.coder = n, !.checking = FALSE, !.corrections = k]
        BY <1>5, <2>3, <3>1 DEF FlowRows
      <3>. QED BY <1>3, <1>5, <2>6, <3>1, <3>2, <3>3 DEF FlowRows
    <2>11. PICK ts : ts = Append(d.task, u)
      OBVIOUS
    <2>12. ts \in Seq(FlowTasks) /\ Len(ts) = n /\ ts[n] = u /\ ts[w.source] = d.task[w.source] /\ n \in 1 .. n /\ w.source \in 1 .. n
      BY <1>5, <2>1, <2>6, <2>9, <2>11
    <2>13. d.task[w.source].round \in Nat
      BY <1>5, TaskFields
    <2>14. u.round = d.task[w.source].round + v.corrections
      <3>1. u.round = d.task[c].round + 1 /\ v.corrections = w.corrections + 1
        BY <2>8, <2>10
      <3>2. d.task[c].round = d.task[w.source].round + w.corrections
        BY <1>5 DEF ChainSound
      <3>. QED BY <2>7, <2>13, <3>1, <3>2
    <2>15. ChainSound(ts, v)
      BY <2>8, <2>9, <2>10, <2>12, <2>14 DEF ChainSound
    <2>16. Follows(d, e)
      BY <1>1, <1>5, <2>1, <2>4, <2>9, <2>10, <2>11, <2>15, RowStages
    <2>. QED BY <2>5, <2>16, FollowsItself
  <1>. QED BY <1>6, <1>7, <1>8

LEMMA CheckFollows ==
    ASSUME Flows!WorkflowsAssumption, NEW d, Sound(d), NEW f \in 1 .. Len(d.flow), d.flow[f].state = "active", ~ d.flow[f].checking,
           d.task[d.flow[f].current].st = "done"
    PROVE  Follows(d, Flows!ToCheck(d, f))
  <1>1. PICK i : i = d.flow[f].current
    OBVIOUS
  <1>2. PICK w : w = d.flow[f]
    OBVIOUS
  <1>3. /\ d \in FlowDbs /\ i \in 1 .. Len(d.task) /\ w \in FlowRows /\ w.coder = i /\ ~ d.task[i].check
        /\ d.task[i].round = d.task[w.source].round + w.corrections /\ w.corrections <= w.limit
        /\ w.source \in 1 .. Len(d.task) /\ w.state = "active"
    BY <1>1, <1>2, DbFields DEF Sound, ChainSound
  <1>4. CASE ~ Flows!HasPackage(d.task[i]) \/ "checker" \notin able
    <2>1. Flows!ToCheck(d, f) = Flows!Stop(d, f, "blocked")
      BY <1>1, <1>4 DEF Flows!ToCheck
    <2>. QED BY <2>1, StopFollows
  <1>5. CASE ~ (~ Flows!HasPackage(d.task[i]) \/ "checker" \notin able)
    <2>1. PICK n : n = Len(d.task) + 1
      OBVIOUS
    <2>2. PICK u : u = Flows!Staged(i, TRUE, 0)
      OBVIOUS
    <2>3. PICK v : v = [w EXCEPT !.current = n, !.checking = TRUE]
      OBVIOUS
    <2>4. PICK e : e = [task |-> Append(d.task, u), flow |-> [d.flow EXCEPT ![f] = v]]
      OBVIOUS
    <2>5. Flows!ToCheck(d, f) = IF n > MaxTasks THEN d ELSE e
      BY <1>1, <1>2, <1>5, <2>1, <2>2, <2>3, <2>4 DEF Flows!ToCheck, Flows!Staging
    <2>6. Len(d.task) \in Nat /\ n \in Nat /\ d.task \in Seq(FlowTasks)
      BY <1>3, <2>1, DbFields
    <2>7. RoundLimit \in Nat
      BY DEF Flows!WorkflowsAssumption
    <2>8. u = [of |-> i, check |-> TRUE, round |-> 0, st |-> "waiting", leased |-> FALSE, result |-> "none",
               workspace |-> FALSE, prep |-> "none", run |-> "none", asked |-> FALSE]
      BY <2>2 DEF Flows!Staged
    <2>9. u \in FlowTasks /\ TaskSound(u, Len(d.task)) /\ u.st = "waiting" /\ u.run = "none" /\ u.check /\ u.of = i
      BY <1>3, <2>6, <2>7, <2>8 DEF FlowTasks, TaskSound, Flows!Status
    <2>10. /\ v \in FlowRows /\ v.current = n /\ v.coder = i /\ v.state = "active" /\ v.checking /\ v.source = w.source
           /\ v.corrections = w.corrections /\ v.limit = w.limit
      BY <1>3, <2>3, <2>6 DEF FlowRows
    <2>11. PICK ts : ts = Append(d.task, u)
      OBVIOUS
    <2>12. /\ ts \in Seq(FlowTasks) /\ Len(ts) = n /\ ts[n] = u /\ ts[w.source] = d.task[w.source] /\ ts[i] = d.task[i]
           /\ n \in 1 .. n /\ w.source \in 1 .. n /\ i \in 1 .. n
      BY <1>3, <2>1, <2>6, <2>9, <2>11
    <2>13. ChainSound(ts, v)
      BY <1>3, <2>9, <2>10, <2>12 DEF ChainSound
    <2>14. Follows(d, e)
      BY <1>1, <1>3, <2>1, <2>4, <2>9, <2>10, <2>11, <2>13, RowStages
    <2>. QED BY <2>5, <2>14, FollowsItself
  <1>. QED BY <1>4, <1>5

LEMMA AdvanceFollows ==
    ASSUME Flows!WorkflowsAssumption, NEW d, Sound(d), NEW f \in 1 .. Len(d.flow)
    PROVE  Follows(d, Flows!Advance(d, f))
  <1>1. "blocked" \in {"stopped", "blocked"} /\ "stopped" \in {"stopped", "blocked"}
    OBVIOUS
  <1>2. CASE d.flow[f].state # "active"
    <2>1. Flows!Advance(d, f) = d
      BY <1>2 DEF Flows!Advance
    <2>. QED BY <2>1, FollowsItself
  <1>3. CASE d.flow[f].state = "active" /\ d.flow[f].late
    <2>1. Flows!Advance(d, f) = Flows!Stop(d, f, "stopped")
      BY <1>3 DEF Flows!Advance
    <2>. QED BY <1>1, <1>3, <2>1, StopFollows
  <1>4. CASE d.flow[f].state = "active" /\ ~ d.flow[f].late
    <2>1. CASE ~ Flows!Assigned(d.task[d.flow[f].current])
      <3>1. Flows!Advance(d, f) = Flows!Stop(d, f, "blocked")
        BY <1>4, <2>1 DEF Flows!Advance
      <3>. QED BY <1>1, <1>4, <3>1, StopFollows
    <2>2. CASE Flows!Assigned(d.task[d.flow[f].current]) /\ d.task[d.flow[f].current].st # "done"
      <3>1. Flows!Advance(d, f) = Flows!Drive(d, f)
        BY <1>4, <2>2 DEF Flows!Advance
      <3>. QED BY <1>4, <3>1, DriveFollows
    <2>3. CASE Flows!Assigned(d.task[d.flow[f].current]) /\ d.task[d.flow[f].current].st = "done"
      <3>1. Flows!Advance(d, f) = IF d.flow[f].checking THEN Flows!Judge(d, f) ELSE Flows!ToCheck(d, f)
        BY <1>4, <2>3 DEF Flows!Advance
      <3>. QED BY <1>4, <2>3, <3>1, JudgeFollows, CheckFollows
    <2>. QED BY <2>1, <2>2, <2>3
  <1>. QED BY <1>2, <1>3, <1>4

\* The advances of the workflows up to n, one after the other: AdvanceAll is the last of them.
UpTo(d, g, n) == g = [f \in 0 .. n |-> IF f = 0 THEN d ELSE Flows!Advance(g[f - 1], f)]

LEMMA UpToExists ==
    ASSUME NEW d, NEW n \in Nat
    PROVE  \E g : UpTo(d, g, n)
  <1> DEFINE S == {k \in Nat : ~ \E g : UpTo(d, g, k)}
  <1>1. CASE S = {}
    BY <1>1
  <1>2. CASE S # {}
    <2>1. PICK m \in S : \A k \in S : m <= k
      <3>1. S \in SUBSET Nat
        OBVIOUS
      <3>. HIDE DEF S
      <3>. QED BY <1>2, <3>1, NatLeast
    <2>2. CASE m = 0
      <3>1. PICK g : g = [f \in 0 .. 0 |-> d]
        OBVIOUS
      <3>2. \A f \in 0 .. 0 : f = 0
        OBVIOUS
      <3>3. g = [f \in 0 .. 0 |-> IF f = 0 THEN d ELSE Flows!Advance(g[f - 1], f)]
        BY <3>1, <3>2
      <3>4. UpTo(d, g, 0)
        BY <3>3 DEF UpTo
      <3>. QED BY <2>1, <2>2, <3>4
    <2>3. CASE m # 0
      <3>1. m \in Nat /\ m - 1 \in Nat /\ ~ (m <= m - 1)
        BY <2>1, <2>3
      <3>2. PICK g : UpTo(d, g, m - 1)
        BY <2>1, <3>1
      <3>3. PICK h : h = [f \in 0 .. m |-> IF f = m THEN Flows!Advance(g[m - 1], m) ELSE g[f]]
        OBVIOUS
      <3>4. ASSUME NEW f \in 0 .. m PROVE h[f] = IF f = 0 THEN d ELSE Flows!Advance(h[f - 1], f)
        <4>1. CASE f = m
          <5>1. h[f] = Flows!Advance(g[m - 1], m) /\ h[m - 1] = g[m - 1]
            BY <3>1, <3>3, <4>1
          <5>. QED BY <2>3, <4>1, <5>1
        <4>2. CASE f # m /\ f # 0
          <5>1. f \in 0 .. (m - 1) /\ f - 1 \in 0 .. (m - 1)
            BY <3>1, <4>2
          <5>2. h[f] = g[f] /\ h[f - 1] = g[f - 1]
            BY <3>1, <3>3, <4>2, <5>1
          <5>3. g[f] = Flows!Advance(g[f - 1], f)
            BY <3>2, <4>2, <5>1 DEF UpTo
          <5>. QED BY <4>2, <5>2, <5>3
        <4>3. CASE f # m /\ f = 0
          <5>1. 0 \in 0 .. (m - 1)
            BY <3>1
          <5>2. h[f] = g[0]
            BY <3>3, <4>3
          <5>3. g[0] = d
            BY <3>2, <5>1 DEF UpTo
          <5>. QED BY <4>3, <5>2, <5>3
        <4>. QED BY <4>1, <4>2, <4>3
      <3>5. UpTo(d, h, m)
        BY <3>3, <3>4 DEF UpTo
      <3>. QED BY <2>1, <3>5
    <2>. QED BY <2>2, <2>3
  <1>. QED BY <1>1, <1>2

LEMMA UpToFollows ==
    ASSUME Flows!WorkflowsAssumption, NEW d, Sound(d), NEW g, UpTo(d, g, Len(d.flow))
    PROVE  \A k \in 0 .. Len(d.flow) : Follows(d, g[k])
  <1>1. d \in FlowDbs /\ Len(d.flow) \in Nat
    BY DbFields DEF Sound
  <1> DEFINE S == {k \in 0 .. Len(d.flow) : ~ Follows(d, g[k])}
  <1>2. CASE S # {}
    <2>1. PICK m \in S : \A k \in S : m <= k
      <3>1. S \in SUBSET Nat
        OBVIOUS
      <3>. HIDE DEF S
      <3>. QED BY <1>2, <3>1, NatLeast
    <2>2. m \in 0 .. Len(d.flow) /\ ~ Follows(d, g[m])
      BY <2>1
    <2>3. CASE m = 0
      <3>1. g[0] = d
        BY <1>1 DEF UpTo
      <3>. QED BY <2>2, <2>3, <3>1, FollowsItself
    <2>4. CASE m # 0
      <3>1. PICK k : k = m - 1
        OBVIOUS
      <3>2. k \in 0 .. Len(d.flow) /\ m \in 1 .. Len(d.flow) /\ ~ (m <= k)
        BY <1>1, <2>2, <2>4, <3>1
      <3>3. Follows(d, g[k])
        BY <2>1, <3>2
      <3>4. g[m] = Flows!Advance(g[k], m)
        BY <2>2, <2>4, <3>1 DEF UpTo
      <3>5. Sound(g[k]) /\ m \in 1 .. Len(g[k].flow)
        BY <3>2, <3>3 DEF Follows
      <3>6. PICK e : e = g[k]
        OBVIOUS
      <3>7. Follows(e, Flows!Advance(e, m))
        BY <3>5, <3>6, AdvanceFollows
      <3>8. Follows(d, Flows!Advance(e, m))
        BY <1>1, <3>3, <3>6, <3>7, FollowsOn
      <3>. QED BY <2>2, <3>4, <3>6, <3>8
    <2>. QED BY <2>3, <2>4
  <1>. QED BY <1>2

LEMMA AdvanceAllFollows ==
    ASSUME Flows!WorkflowsAssumption, NEW d, Sound(d)
    PROVE  Follows(d, Flows!AdvanceAll(d))
  <1>1. Len(d.flow) \in Nat
    BY DbFields DEF Sound
  <1>2. PICK g : g = CHOOSE h : UpTo(d, h, Len(d.flow))
    OBVIOUS
  <1>3. UpTo(d, g, Len(d.flow))
    BY <1>1, <1>2, UpToExists
  <1>4. Flows!AdvanceAll(d) = g[Len(d.flow)]
    BY <1>2 DEF Flows!AdvanceAll, UpTo
  <1>. QED BY <1>1, <1>3, <1>4, UpToFollows

LEMMA FollowsQuietly ==
    ASSUME NEW d, NEW h, QuietBut(d, h), NEW e, Follows(d, e), NEW k, \A j \in h \ k : Driven(d, j)
    PROVE  QuietBut(e, k)
  <1>1. d \in FlowDbs /\ e \in FlowDbs /\ Len(d.task) \in Nat /\ Len(e.task) \in Nat
    BY DbFields DEF QuietBut, Follows, Sound
  <1>2. ASSUME NEW j \in 1 .. Len(e.task) PROVE Quiet(e, j) \/ j \in k
    <2>1. CASE j > Len(d.task)
      BY <2>1 DEF Follows, Quiet
    <2>2. CASE j \in 1 .. Len(d.task)
      <3>1. CASE Quiet(d, j)
        BY <2>2, <3>1 DEF Follows
      <3>2. CASE ~ Quiet(d, j) /\ j \notin k
        <4>1. j \in h
          BY <2>2, <3>2 DEF QuietBut
        <4>2. Settled(d, j)
          BY <3>2, <4>1 DEF Settled
        <4>. QED BY <2>2, <4>2 DEF Follows, Quiet
      <3>. QED BY <3>1, <3>2
    <2>. QED BY <1>1, <2>1, <2>2
  <1>. QED BY <1>2 DEF QuietBut, Follows

LEMMA DbNext ==
    ASSUME NEW d, d = Flows!Db
    PROVE  d.task = task /\ d.flow = flow
  BY DEF Flows!Db

LEMMA DroppedWereDriven ==
    ASSUME NEW d, NEW e, NEW j \in Flows!Dropped(d, e)
    PROVE  Driven(d, j)
  BY DEF Flows!Dropped, Driven

\* Poll, StopFlow
LEMMA FlowsCommit ==
    ASSUME FlowsInv, NEW e, Follows(Flows!Db, e), Flows!Commit(e)
    PROVE  FlowsInv' /\ FlowLeases
  <1>1. task' = e.task /\ flow' = e.flow /\ hand' = hand \ Flows!Dropped(Flows!Db, e) /\ e \in FlowDbs
    BY DEF Flows!Commit, Follows, Sound
  <1>2. e = [task |-> e.task, flow |-> e.flow]
    BY <1>1 DEF FlowDbs
  <1>3. (Flows!Db)' = e
    BY <1>1, <1>2 DEF Flows!Db
  <1>4. QuietBut(e, hand')
    <2>1. PICK d : d = Flows!Db
      OBVIOUS
    <2>2. \A j \in hand \ hand' : Driven(d, j)
      <3>1. \A j \in hand \ hand' : j \in Flows!Dropped(d, e)
        BY <1>1, <2>1
      <3>. QED BY <3>1, DroppedWereDriven
    <2>3. QuietBut(d, hand) /\ Follows(d, e)
      BY <2>1 DEF FlowsInv
    <2>. QED BY <2>2, <2>3, FollowsQuietly
  <1>5. FlowLeases
    BY <1>1 DEF FlowLeases, Follows, SameWork, Flows!Db
  <1>. QED BY <1>3, <1>4, <1>5 DEF FlowsInv

LEMMA FlowsFields ==
    ASSUME FlowsInv
    PROVE  /\ task \in Seq(FlowTasks) /\ flow \in Seq(FlowRows) /\ Len(task) \in Nat /\ Len(flow) \in Nat
           /\ \A i \in 1 .. Len(task) : task[i] \in FlowTasks /\ TaskSound(task[i], Len(task)) /\ (Quiet(Flows!Db, i) \/ i \in hand)
           /\ \A f \in 1 .. Len(flow) : flow[f] \in FlowRows /\ ChainSound(task, flow[f])
  <1>1. Flows!Db.task = task /\ Flows!Db.flow = flow /\ Sound(Flows!Db) /\ Flows!Db \in FlowDbs
    BY DEF FlowsInv, QuietBut, Sound, Flows!Db
  <1>. QED BY <1>1, DbFields DEF FlowsInv, QuietBut, Sound

\* The work of one task, by a computer or by its owner.
LEMMA FlowsWork ==
    ASSUME FlowsInv, NEW i \in 1 .. Len(task), NEW u \in FlowTasks, task' = [task EXCEPT ![i] = u], flow' = flow, hand \subseteq hand',
           u.of = task[i].of, u.check = task[i].check, u.round = task[i].round, TaskSound(u, Len(task)),
           task[i].result = "none" \/ u.result = task[i].result,
           (Idles(task[i]) => Idles(u)) \/ i \in hand',
           task[i].leased \/ ~ u.leased \/ task[i].prep = "none" \/ ~ Idles(task[i])
    PROVE  FlowsInv' /\ FlowLeases
  <1>1. task \in Seq(FlowTasks) /\ flow \in Seq(FlowRows) /\ Len(task) \in Nat /\ Len(flow) \in Nat
    BY FlowsFields
  <1>2. task' \in Seq(FlowTasks) /\ Len(task') = Len(task) /\ task'[i] = u /\ \A j \in 1 .. Len(task) : j # i => task'[j] = task[j]
    BY <1>1, SeqSet
  <1>3. PICK d : d = Flows!Db
    OBVIOUS
  <1>4. PICK e : e = (Flows!Db)'
    OBVIOUS
  <1>5. d.task = task /\ d.flow = flow /\ e.task = task' /\ e.flow = flow /\ e \in FlowDbs
    BY <1>1, <1>2, <1>3, <1>4 DEF Flows!Db, FlowDbs
  <1>6. ASSUME NEW f \in 1 .. Len(flow) PROVE ChainSound(task', flow[f])
    <2>1. ChainSound(task, flow[f])
      BY FlowsFields
    <2>2. \A j \in 1 .. Len(task) : /\ task'[j].check = task[j].check /\ task'[j].of = task[j].of /\ task'[j].round = task[j].round
                                    /\ task[j].result # "none" => task'[j].result = task[j].result
      BY <1>2
    <2>. QED BY <1>2, <2>1, <2>2 DEF ChainSound
  <1>7. \A j \in 1 .. Len(task') : TaskSound(task'[j], Len(task'))
    BY <1>2, FlowsFields
  <1>8. Sound(e)
    BY <1>5, <1>6, <1>7 DEF Sound
  <1>9. ASSUME NEW j \in 1 .. Len(task) PROVE Quiet(e, j) \/ j \in hand'
    <2>1. Quiet(d, j) \/ j \in hand
      BY <1>3, FlowsFields
    <2>2. Driven(d, j) = Driven(e, j)
      BY <1>5 DEF Driven
    <2>3. (Idles(task[j]) => Idles(task'[j])) \/ j \in hand'
      BY <1>2
    <2>. QED BY <1>5, <2>1, <2>2, <2>3 DEF Quiet, Settled
  <1>10. FlowsInv'
    BY <1>2, <1>4, <1>5, <1>8, <1>9 DEF FlowsInv, QuietBut
  <1>11. FlowLeases
    BY <1>2 DEF FlowLeases
  <1>. QED BY <1>10, <1>11

\* A task staged by hand.
LEMMA FlowsStage ==
    ASSUME FlowsInv, NEW u \in FlowTasks, task' = Append(task, u), flow' = flow, hand' = hand,
           TaskSound(u, Len(task)), u.run = "none"
    PROVE  FlowsInv' /\ FlowLeases
  <1>1. task \in Seq(FlowTasks) /\ flow \in Seq(FlowRows) /\ Len(task) \in Nat /\ Len(flow) \in Nat
    BY FlowsFields
  <1>2. PICK n : n = Len(task) + 1
    OBVIOUS
  <1>3. /\ task' \in Seq(FlowTasks) /\ Len(task') = n /\ task'[n] = u /\ \A j \in 1 .. Len(task) : task'[j] = task[j]
        /\ n \in Nat /\ \A j \in 1 .. n : j \in 1 .. Len(task) \/ j = n
    BY <1>1, <1>2
  <1>4. PICK d : d = Flows!Db
    OBVIOUS
  <1>5. PICK e : e = (Flows!Db)'
    OBVIOUS
  <1>6. d.task = task /\ d.flow = flow /\ e.task = task' /\ e.flow = flow /\ e \in FlowDbs
    BY <1>1, <1>3, <1>4, <1>5 DEF Flows!Db, FlowDbs
  <1>7. ASSUME NEW f \in 1 .. Len(flow) PROVE ChainSound(task', flow[f])
    <2>1. ChainSound(task, flow[f])
      BY FlowsFields
    <2>2. \A j \in 1 .. Len(task) : j \in 1 .. Len(task') /\ task'[j] = task[j]
      BY <1>1, <1>2, <1>3
    <2>. QED BY <2>1, <2>2 DEF ChainSound
  <1>8. \A j \in 1 .. n : TaskSound(task'[j], n)
    <2>1. TaskSound(u, n)
      BY <1>1, <1>2 DEF TaskSound
    <2>2. ASSUME NEW j \in 1 .. Len(task) PROVE TaskSound(task'[j], n)
      <3>1. TaskSound(task[j], Len(task)) /\ task'[j] = task[j]
        BY <1>3, FlowsFields
      <3>. QED BY <1>1, <1>2, <3>1 DEF TaskSound
    <2>. QED BY <1>3, <2>1, <2>2
  <1>9. Sound(e)
    BY <1>3, <1>6, <1>7, <1>8 DEF Sound
  <1>10. ASSUME NEW j \in 1 .. Len(task) PROVE Quiet(e, j) \/ j \in hand'
    <2>1. Quiet(d, j) \/ j \in hand
      BY <1>4, FlowsFields
    <2>2. Driven(d, j) = Driven(e, j)
      BY <1>6 DEF Driven
    <2>. QED BY <1>3, <1>6, <2>1, <2>2 DEF Quiet, Settled
  <1>11. Quiet(e, n)
    BY <1>3, <1>6 DEF Quiet, Settled, Idles
  <1>12. FlowsInv'
    BY <1>3, <1>5, <1>6, <1>9, <1>10, <1>11 DEF FlowsInv, QuietBut
  <1>13. FlowLeases
    BY <1>3 DEF FlowLeases
  <1>. QED BY <1>12, <1>13

\* Starting a workflow adds a row that is driven, and advances them all.
LEMMA FlowsStart ==
    ASSUME Flows!WorkflowsAssumption, FlowsInv, NEW i \in 1 .. Len(task), NEW limit \in Allowed, Flows!Start(i, limit)
    PROVE  FlowsInv' /\ FlowLeases
  <1>1. PICK w : w = [state |-> "active", source |-> i, current |-> i, coder |-> i, checking |-> FALSE,
                      corrections |-> 0, limit |-> limit, late |-> FALSE]
    OBVIOUS
  <1>2. PICK c : c = [task |-> task, flow |-> Append(flow, w)]
    OBVIOUS
  <1>3. PICK e : e = Flows!AdvanceAll(c)
    OBVIOUS
  <1>4. PICK d : d = Flows!Db
    OBVIOUS
  <1>5. /\ task' = e.task /\ flow' = e.flow /\ ~ task[i].check
        /\ hand' = hand \ (Flows!Dropped(d, e) \cup (IF e.flow[Len(e.flow)].state = "active" THEN {} ELSE {i}))
    BY <1>1, <1>2, <1>3, <1>4 DEF Flows!Start
  <1>6. /\ task \in Seq(FlowTasks) /\ flow \in Seq(FlowRows) /\ Len(task) \in Nat /\ Len(flow) \in Nat /\ limit \in Nat /\ i \in Nat
        /\ d.task = task /\ d.flow = flow
    BY <1>4, FlowsFields DEF Flows!WorkflowsAssumption, Flows!Db
  <1>7. /\ w \in FlowRows /\ w.state = "active" /\ w.source = i /\ w.current = i /\ w.coder = i /\ ~ w.checking
        /\ w.corrections = 0 /\ w.limit = limit
    BY <1>1, <1>6 DEF FlowRows
  <1>8. PICK n : n = Len(flow) + 1
    OBVIOUS
  <1>9. /\ c.task = task /\ c.flow \in Seq(FlowRows) /\ Len(c.flow) = n /\ c.flow[n] = w /\ \A f \in 1 .. Len(flow) : c.flow[f] = flow[f]
        /\ n \in Nat /\ (\A f \in 1 .. n : f \in 1 .. Len(flow) \/ f = n) /\ n \in 1 .. n /\ \A f \in 1 .. Len(flow) : f \in 1 .. n
    BY <1>2, <1>6, <1>7, <1>8
  <1>10. Sound(c)
    <2>1. c \in FlowDbs
      BY <1>2, <1>6, <1>9 DEF FlowDbs
    <2>2. ChainSound(task, w)
      <3>1. task[i].round \in Nat
        BY <1>6, FlowsFields, TaskFields
      <3>2. task[i].round = task[i].round + 0 /\ 0 <= limit
        BY <1>6, <3>1
      <3>. QED BY <1>5, <1>6, <1>7, <3>2 DEF ChainSound
    <2>3. \A f \in 1 .. n : ChainSound(task, c.flow[f])
      BY <1>9, <2>2, FlowsFields
    <2>4. \A j \in 1 .. Len(task) : TaskSound(task[j], Len(task))
      BY FlowsFields
    <2>. QED BY <1>9, <2>1, <2>3, <2>4 DEF Sound
  <1>11. \A j \in 1 .. Len(task) : (Driven(d, j) => Driven(c, j)) /\ (Quiet(d, j) => Quiet(c, j))
    <2>1. ASSUME NEW j \in 1 .. Len(task), Driven(d, j) PROVE Driven(c, j)
      BY <1>6, <1>9, <2>1 DEF Driven
    <2>2. ASSUME NEW j \in 1 .. Len(task), Quiet(d, j) PROVE Quiet(c, j)
      <3>1. CASE Settled(d, j)
        BY <1>6, <1>9, <2>1, <3>1 DEF Settled, Quiet
      <3>2. CASE \A f \in 1 .. Len(d.flow) : d.flow[f].current = j => d.flow[f].state \notin {"stopped", "blocked"}
        <4>1. \A f \in 1 .. Len(c.flow) : c.flow[f].current = j => c.flow[f].state \notin {"stopped", "blocked"}
          BY <1>6, <1>7, <1>9, <3>2
        <4>. QED BY <4>1 DEF Quiet
      <3>. QED BY <2>2, <3>1, <3>2 DEF Quiet
    <2>. QED BY <2>1, <2>2
  <1>12. QuietBut(c, hand)
    <2>1. \A j \in 1 .. Len(task) : Quiet(d, j) \/ j \in hand
      BY <1>4, FlowsFields
    <2>. QED BY <1>9, <1>10, <1>11, <2>1 DEF QuietBut
  <1>13. Follows(c, e)
    BY <1>3, <1>10, AdvanceAllFollows
  <1>14. \A j \in hand \ hand' : Driven(c, j)
    <2>1. Driven(c, i)
      BY <1>7, <1>9 DEF Driven
    <2>2. ASSUME NEW j \in Flows!Dropped(d, e) PROVE Driven(c, j)
      <3>1. PICK f \in 1 .. Len(d.flow) : d.flow[f].current = j /\ d.flow[f].state = "active"
        BY DroppedWereDriven DEF Driven
      <3>. QED BY <1>6, <1>9, <3>1 DEF Driven
    <2>3. \A j \in hand \ hand' : j \in Flows!Dropped(d, e) \/ j = i
      BY <1>5
    <2>. QED BY <2>1, <2>2, <2>3
  <1>15. QuietBut(e, hand')
    BY <1>12, <1>13, <1>14, FollowsQuietly
  <1>16. (Flows!Db)' = e
    <2>1. e \in FlowDbs
      BY <1>13 DEF Follows, Sound
    <2>2. e = [task |-> e.task, flow |-> e.flow]
      BY <2>1 DEF FlowDbs
    <2>. QED BY <1>5, <2>2 DEF Flows!Db
  <1>17. FlowLeases
    BY <1>5, <1>9, <1>13 DEF FlowLeases, Follows, SameWork
  <1>. QED BY <1>15, <1>16, <1>17 DEF FlowsInv

\* Nothing but a workflow's clock changes.
LEMMA FlowsDeadline ==
    ASSUME FlowsInv, NEW f \in 1 .. Len(flow), Flows!Deadline(f)
    PROVE  FlowsInv' /\ FlowLeases
  <1>1. task \in Seq(FlowTasks) /\ flow \in Seq(FlowRows) /\ Len(task) \in Nat /\ Len(flow) \in Nat /\ flow[f] \in FlowRows
    BY FlowsFields
  <1>2. PICK w : w = [flow[f] EXCEPT !.late = TRUE]
    OBVIOUS
  <1>3. task' = task /\ hand' = hand /\ flow' = [flow EXCEPT ![f] = w]
    BY <1>2 DEF Flows!Deadline
  <1>4. /\ w \in FlowRows /\ w.state = flow[f].state /\ w.source = flow[f].source /\ w.current = flow[f].current /\ w.coder = flow[f].coder
        /\ w.checking = flow[f].checking /\ w.corrections = flow[f].corrections /\ w.limit = flow[f].limit
    BY <1>1, <1>2 DEF FlowRows
  <1>5. flow' \in Seq(FlowRows) /\ Len(flow') = Len(flow) /\ flow'[f] = w /\ \A g \in 1 .. Len(flow) : g # f => flow'[g] = flow[g]
    BY <1>1, <1>3, <1>4, SeqSet
  <1>6. PICK d : d = Flows!Db
    OBVIOUS
  <1>7. PICK e : e = (Flows!Db)'
    OBVIOUS
  <1>8. d.task = task /\ d.flow = flow /\ e.task = task /\ e.flow = flow' /\ e \in FlowDbs
    BY <1>1, <1>3, <1>5, <1>6, <1>7 DEF Flows!Db, FlowDbs
  <1>9. \A g \in 1 .. Len(flow) : ChainSound(task, flow'[g])
    <2>1. \A g \in 1 .. Len(flow) : ChainSound(task, flow[g])
      BY FlowsFields
    <2>2. ChainSound(task, w)
      BY <1>4, <2>1 DEF ChainSound
    <2>. QED BY <1>5, <2>1, <2>2
  <1>10. Sound(e)
    BY <1>5, <1>8, <1>9, FlowsFields DEF Sound
  <1>11. \A g \in 1 .. Len(flow) : flow'[g].current = flow[g].current /\ flow'[g].state = flow[g].state
    BY <1>4, <1>5
  <1>12. ASSUME NEW j \in 1 .. Len(task) PROVE Quiet(e, j) \/ j \in hand
    <2>1. Quiet(d, j) \/ j \in hand
      BY <1>6, FlowsFields
    <2>2. Driven(d, j) = Driven(e, j)
      BY <1>5, <1>8, <1>11 DEF Driven
    <2>. QED BY <1>5, <1>8, <1>11, <2>1, <2>2 DEF Quiet, Settled
  <1>13. FlowsInv'
    BY <1>3, <1>7, <1>8, <1>10, <1>12 DEF FlowsInv, QuietBut
  <1>14. FlowLeases
    BY <1>3 DEF FlowLeases
  <1>. QED BY <1>13, <1>14

\* The computers.
LEMMA FlowsComputers ==
    ASSUME FlowsInv, NEW i \in 1 .. Len(task), Flows!Computers(i)
    PROVE  FlowsInv' /\ FlowLeases
  <1>1. task[i] \in FlowTasks /\ TaskSound(task[i], Len(task))
    BY FlowsFields
  <1>2. PICK t : t = task[i]
    OBVIOUS
  <1>3. flow' = flow /\ hand' = hand
    BY DEF Flows!Computers, Flows!Take, Flows!Complete, Flows!Ready, Flows!Claim, Flows!Finish, Flows!Fail, Flows!Works
  <1>4. CASE Flows!Take(i)
    <2>1. PICK u : u = [t EXCEPT !.prep = "claimed"]
      OBVIOUS
    <2>2. task' = [task EXCEPT ![i] = u]
      BY <1>2, <1>4, <2>1 DEF Flows!Take
    <2>3. /\ u \in FlowTasks /\ u.of = t.of /\ u.check = t.check /\ u.round = t.round /\ u.leased = t.leased /\ u.st = t.st
          /\ u.result = t.result /\ u.run = t.run /\ u.asked = t.asked
      BY <1>1, <1>2, <2>1 DEF FlowTasks
    <2>4. TaskSound(u, Len(task)) /\ (Idles(t) => Idles(u))
      BY <1>1, <1>2, <2>3 DEF TaskSound, Idles
    <2>. QED BY <1>2, <1>3, <2>2, <2>3, <2>4, FlowsWork
  <1>5. CASE Flows!Complete(i)
    <2>1. PICK u : u = [t EXCEPT !.prep = "prepared", !.st = "prepared", !.workspace = TRUE]
      OBVIOUS
    <2>2. task' = [task EXCEPT ![i] = u] /\ t.st = "waiting"
      BY <1>1, <1>2, <1>5, <2>1, FlowsFields DEF Flows!Complete, FlowTasks
    <2>3. /\ u \in FlowTasks /\ u.of = t.of /\ u.check = t.check /\ u.round = t.round /\ u.leased = t.leased /\ u.st = "prepared"
          /\ u.result = t.result /\ u.run = t.run /\ u.asked = t.asked
      BY <1>1, <1>2, <2>1 DEF FlowTasks, Flows!Status
    <2>4. TaskSound(u, Len(task)) /\ (Idles(t) => Idles(u))
      BY <1>1, <1>2, <2>2, <2>3 DEF TaskSound, Idles
    <2>. QED BY <1>2, <1>3, <2>2, <2>3, <2>4, FlowsWork
  <1>6. CASE Flows!Ready(i)
    <2>1. PICK u : u = [t EXCEPT !.st = "ready"]
      OBVIOUS
    <2>2. task' = [task EXCEPT ![i] = u] /\ t.st = "retry"
      BY <1>2, <1>6, <2>1 DEF Flows!Ready
    <2>3. /\ u \in FlowTasks /\ u.of = t.of /\ u.check = t.check /\ u.round = t.round /\ u.leased = t.leased /\ u.st = "ready"
          /\ u.result = t.result /\ u.run = t.run /\ u.asked = t.asked
      BY <1>1, <1>2, <2>1 DEF FlowTasks, Flows!Status
    <2>4. TaskSound(u, Len(task)) /\ (Idles(t) => Idles(u))
      BY <1>1, <1>2, <2>2, <2>3 DEF TaskSound, Idles
    <2>. QED BY <1>2, <1>3, <2>2, <2>3, <2>4, FlowsWork
  <1>7. CASE Flows!Claim(i)
    <2>1. PICK u : u = [t EXCEPT !.st = "running", !.leased = TRUE, !.run = IF @ = "queued" THEN "running" ELSE @]
      OBVIOUS
    <2>2. /\ task' = [task EXCEPT ![i] = u] /\ t.st \in {"ready", "running"}
          /\ t.prep = "none" \/ (t.run = "queued" /\ ~ t.asked)
      <3>1. [task EXCEPT ![i].st = "running", ![i].leased = TRUE, ![i].run = IF @ = "queued" THEN "running" ELSE @]
            = [task EXCEPT ![i] = u]
        BY <1>1, <1>2, <2>1, FlowsFields DEF FlowTasks
      <3>2. task' = [task EXCEPT ![i].st = "running", ![i].leased = TRUE, ![i].run = IF @ = "queued" THEN "running" ELSE @]
        BY <1>7 DEF Flows!Claim
      <3>3. t.st \in {"ready", "running"}
        BY <1>2, <1>7 DEF Flows!Claim
      <3>4. t.prep = "none" \/ (t.run = "queued" /\ ~ t.asked)
        BY <1>2, <1>7 DEF Flows!Claim
      <3>. QED BY <3>1, <3>2, <3>3, <3>4
    <2>3. /\ u \in FlowTasks /\ u.of = t.of /\ u.check = t.check /\ u.round = t.round /\ u.st = "running"
          /\ u.result = t.result /\ u.run # "queued"
      BY <1>1, <1>2, <2>1, ZenonT(60) DEF FlowTasks, Flows!Status
    <2>4. TaskSound(u, Len(task)) /\ Idles(u) /\ (t.prep = "none" \/ ~ Idles(t))
      BY <1>1, <1>2, <2>2, <2>3 DEF TaskSound, Idles
    <2>. QED BY <1>2, <1>3, <2>2, <2>3, <2>4, FlowsWork
  <1>8. ASSUME NEW r \in Flows!CodeResults \cup Flows!CheckResults, Flows!Finish(i, r)
        PROVE  FlowsInv' /\ FlowLeases
    <2>1. PICK u : u = [t EXCEPT !.st = "done", !.leased = FALSE, !.result = r]
      OBVIOUS
    <2>2. task' = [task EXCEPT ![i] = u] /\ t.leased
      BY <1>1, <1>2, <1>8, <2>1, FlowsFields DEF Flows!Finish, FlowTasks
    <2>3. u \in FlowTasks /\ u.of = t.of /\ u.check = t.check /\ u.round = t.round /\ ~ u.leased /\ u.st = "done"
      BY <1>1, <1>2, <1>8, <2>1 DEF FlowTasks, Flows!Status
    <2>4. TaskSound(u, Len(task)) /\ Idles(u) /\ t.result = "none"
      BY <1>1, <1>2, <2>2, <2>3 DEF TaskSound, Idles
    <2>. QED BY <1>2, <1>3, <2>2, <2>3, <2>4, FlowsWork
  <1>9. CASE Flows!Fail(i)
    <2>1. PICK s \in {"blocked", "running"} : task' = [task EXCEPT ![i].st = s, ![i].leased = FALSE]
      BY <1>9 DEF Flows!Fail
    <2>2. PICK u : u = [t EXCEPT !.st = s, !.leased = FALSE]
      OBVIOUS
    <2>3. task' = [task EXCEPT ![i] = u] /\ t.leased
      BY <1>1, <1>2, <1>9, <2>1, <2>2, FlowsFields DEF Flows!Fail, FlowTasks
    <2>4. /\ u \in FlowTasks /\ u.of = t.of /\ u.check = t.check /\ u.round = t.round /\ ~ u.leased /\ u.st = s
          /\ u.result = t.result /\ u.run = t.run /\ u.asked = t.asked
      BY <1>1, <1>2, <2>2 DEF FlowTasks, Flows!Status
    <2>5. TaskSound(u, Len(task)) /\ (Idles(t) => Idles(u))
      BY <1>1, <1>2, <2>3, <2>4 DEF TaskSound, Idles
    <2>. QED BY <1>2, <1>3, <2>3, <2>4, <2>5, FlowsWork
  <1>. QED BY <1>4, <1>5, <1>6, <1>7, <1>8, <1>9 DEF Flows!Computers

\* Its owner, by hand.
LEMMA FlowsOwner ==
    ASSUME Flows!WorkflowsAssumption, FlowsInv, NEW i \in 1 .. Len(task), Flows!Owner(i)
    PROVE  FlowsInv' /\ FlowLeases
  <1>1. task[i] \in FlowTasks /\ TaskSound(task[i], Len(task))
    BY FlowsFields
  <1>2. PICK t : t = task[i]
    OBVIOUS
  <1>3. CASE Flows!StopRun(i)
    <2>1. PICK u : u = [t EXCEPT !.asked = TRUE, !.st = IF @ = "ready" THEN "blocked" ELSE @]
      OBVIOUS
    <2>2. task' = [task EXCEPT ![i] = u] /\ t.st # "done" /\ hand' = hand /\ flow' = flow
      <3>1. [[task EXCEPT ![i].asked = TRUE] EXCEPT ![i].st = IF @ = "ready" THEN "blocked" ELSE @] = [task EXCEPT ![i] = u]
        BY <1>1, <1>2, <2>1, FlowsFields DEF FlowTasks
      <3>. QED BY <1>2, <1>3, <3>1 DEF Flows!StopRun, Flows!ByHand
    <2>3. /\ u \in FlowTasks /\ u.of = t.of /\ u.check = t.check /\ u.round = t.round /\ u.leased = t.leased
          /\ u.result = t.result /\ u.asked /\ u.st \in {t.st, "blocked"} /\ (t.st = "running" => u.st = "running")
      BY <1>1, <1>2, <2>1 DEF FlowTasks, Flows!Status
    <2>4. TaskSound(u, Len(task)) /\ Idles(u)
      BY <1>1, <1>2, <2>2, <2>3 DEF TaskSound, Idles
    <2>. QED BY <1>2, <2>2, <2>3, <2>4, FlowsWork
  <1>4. CASE Flows!RetryRun(i)
    <2>1. PICK u : u = [t EXCEPT !.run = "queued", !.asked = FALSE, !.st = "retry"]
      OBVIOUS
    <2>2. task' = [task EXCEPT ![i] = u] /\ ~ t.leased /\ t.st # "done" /\ hand' = hand \cup {i} /\ flow' = flow
      BY <1>1, <1>2, <1>4, <2>1, FlowsFields DEF Flows!RetryRun, Flows!ByHand, FlowTasks
    <2>3. /\ u \in FlowTasks /\ u.of = t.of /\ u.check = t.check /\ u.round = t.round /\ u.leased = t.leased
          /\ u.result = t.result
      BY <1>1, <1>2, <2>1 DEF FlowTasks, Flows!Status
    <2>4. TaskSound(u, Len(task)) /\ i \in hand' /\ hand \subseteq hand'
      BY <1>1, <1>2, <2>2, <2>3 DEF TaskSound
    <2>. QED BY <1>2, <2>2, <2>3, <2>4, FlowsWork
  <1>5. CASE Flows!Request(i) /\ t.st = "waiting"
    <2>1. PICK u : u = [t EXCEPT !.prep = "queued"]
      OBVIOUS
    <2>2. task' = [task EXCEPT ![i] = u] /\ hand' = hand \cup {i} /\ flow' = flow
      BY <1>2, <1>5, <2>1 DEF Flows!Request, Flows!ByHand
    <2>3. /\ u \in FlowTasks /\ u.of = t.of /\ u.check = t.check /\ u.round = t.round /\ u.leased = t.leased
          /\ u.result = t.result /\ u.st = t.st
      BY <1>1, <1>2, <2>1 DEF FlowTasks
    <2>4. TaskSound(u, Len(task)) /\ i \in hand' /\ hand \subseteq hand'
      BY <1>1, <1>2, <2>2, <2>3 DEF TaskSound
    <2>. QED BY <1>2, <2>2, <2>3, <2>4, FlowsWork
  <1>6. CASE Flows!Request(i) /\ t.st # "waiting"
    <2>1. PICK u : u = [t EXCEPT !.run = "queued", !.st = "ready"]
      OBVIOUS
    <2>2. task' = [task EXCEPT ![i] = u] /\ t.st = "prepared" /\ hand' = hand \cup {i} /\ flow' = flow
      BY <1>1, <1>2, <1>6, <2>1, FlowsFields DEF Flows!Request, Flows!ByHand, FlowTasks
    <2>3. /\ u \in FlowTasks /\ u.of = t.of /\ u.check = t.check /\ u.round = t.round /\ u.leased = t.leased
          /\ u.result = t.result
      BY <1>1, <1>2, <2>1 DEF FlowTasks, Flows!Status
    <2>4. TaskSound(u, Len(task)) /\ i \in hand' /\ hand \subseteq hand'
      BY <1>1, <1>2, <2>2, <2>3 DEF TaskSound
    <2>. QED BY <1>2, <2>2, <2>3, <2>4, FlowsWork
  <1>7. CASE Flows!ByItself(i)
    <2>1. PICK u : u = [t EXCEPT !.st = "ready", !.workspace = TRUE]
      OBVIOUS
    <2>2. /\ task' = [task EXCEPT ![i] = u] /\ t.st # "done" /\ (t.st = "running" => ~ t.leased)
          /\ hand' = hand \cup {i} /\ flow' = flow
      BY <1>1, <1>2, <1>7, <2>1, FlowsFields DEF Flows!ByItself, Flows!ByHand, FlowTasks
    <2>3. /\ u \in FlowTasks /\ u.of = t.of /\ u.check = t.check /\ u.round = t.round /\ u.leased = t.leased
          /\ u.result = t.result
      BY <1>1, <1>2, <2>1 DEF FlowTasks, Flows!Status
    <2>4. TaskSound(u, Len(task)) /\ i \in hand' /\ hand \subseteq hand'
      BY <1>1, <1>2, <2>2, <2>3 DEF TaskSound
    <2>. QED BY <1>2, <2>2, <2>3, <2>4, FlowsWork
  <1>8. CASE Flows!StageByHand(i)
    <2>1. flow' = flow /\ hand' = hand /\ Len(task) \in Nat /\ RoundLimit \in Nat /\ i \in Nat
      BY <1>8, FlowsFields DEF Flows!StageByHand, Flows!ByHand, Flows!WorkflowsAssumption
    <2>2. CASE task' = Append(task, Flows!Staged(i, TRUE, 0))
      <3>1. PICK u : u = Flows!Staged(i, TRUE, 0)
        OBVIOUS
      <3>2. u = [of |-> i, check |-> TRUE, round |-> 0, st |-> "waiting", leased |-> FALSE, result |-> "none",
                 workspace |-> FALSE, prep |-> "none", run |-> "none", asked |-> FALSE]
        BY <3>1 DEF Flows!Staged
      <3>3. u \in FlowTasks /\ TaskSound(u, Len(task)) /\ u.run = "none"
        BY <2>1, <3>2 DEF FlowTasks, TaskSound, Flows!Status
      <3>. QED BY <2>1, <2>2, <3>1, <3>3, FlowsStage
    <2>3. CASE Flows!MayCorrect(Flows!Db, t) /\ task' = Append(task, Flows!CorrectionOf(Flows!Db, i))
      <3>1. PICK r : r = task[t.of].round + 1
        OBVIOUS
      <3>2. Flows!Db.task = task
        BY DEF Flows!Db
      <3>3. t.of \in 1 .. Len(task) /\ r <= RoundLimit
        BY <1>1, <1>2, <2>3, <3>1, <3>2 DEF Flows!MayCorrect, TaskSound
      <3>4. r \in Nat
        <4>1. task[t.of].round \in Nat
          BY <3>3, FlowsFields, TaskFields
        <4>. QED BY <3>1, <4>1
      <3>5. PICK u : u = Flows!CorrectionOf(Flows!Db, i)
        OBVIOUS
      <3>6. u = [of |-> i, check |-> FALSE, round |-> r, st |-> "waiting", leased |-> FALSE, result |-> "none",
                 workspace |-> FALSE, prep |-> "none", run |-> "none", asked |-> FALSE]
        BY <1>2, <3>1, <3>2, <3>5 DEF Flows!CorrectionOf, Flows!Staged
      <3>7. u \in FlowTasks
        BY <2>1, <3>4, <3>6 DEF FlowTasks, Flows!Status
      <3>8. TaskSound(u, Len(task)) /\ u.run = "none"
        BY <3>3, <3>6 DEF TaskSound
      <3>. QED BY <2>1, <2>3, <3>5, <3>7, <3>8, FlowsStage
    <2>. QED BY <1>2, <1>8, <2>2, <2>3 DEF Flows!StageByHand
  <1>9. ASSUME NEW limit \in Allowed, Flows!Start(i, limit) PROVE FlowsInv' /\ FlowLeases
    BY <1>9, FlowsStart
  <1>. QED BY <1>3, <1>4, <1>5, <1>6, <1>7, <1>8, <1>9 DEF Flows!Owner

LEMMA FlowsKeeps ==
    ASSUME Flows!WorkflowsAssumption, FlowsInv, [Flows!Next]_(Flows!vars)
    PROVE  FlowsInv' /\ FlowLeases
  <1>1. ASSUME UNCHANGED <<task, flow, hand>> PROVE FlowsInv' /\ FlowLeases
    <2>1. (Flows!Db)' = Flows!Db
      BY <1>1 DEF Flows!Db
    <2>2. FlowsInv'
      BY <1>1, <2>1 DEF FlowsInv
    <2>. QED BY <1>1, <2>2 DEF FlowLeases
  <1>2. CASE Flows!Poll
    <2>1. PICK d : d = Flows!Db
      OBVIOUS
    <2>2. Sound(d)
      BY <2>1 DEF FlowsInv, QuietBut
    <2>3. Follows(d, Flows!AdvanceAll(d))
      BY <2>2, AdvanceAllFollows
    <2>4. PICK e : e = Flows!AdvanceAll(d)
      OBVIOUS
    <2>5. Flows!Commit(e)
      BY <1>2, <2>1, <2>4 DEF Flows!Poll
    <2>. QED BY <2>1, <2>3, <2>4, <2>5, FlowsCommit
  <1>3. ASSUME NEW f \in 1 .. Len(flow), Flows!StopFlow(f) PROVE FlowsInv' /\ FlowLeases
    <2>1. PICK d : d = Flows!Db
      OBVIOUS
    <2>2. Sound(d) /\ d.flow = flow
      BY <2>1 DEF FlowsInv, QuietBut, Flows!Db
    <2>3. d.flow[f].state = "active" /\ f \in 1 .. Len(d.flow) /\ "stopped" \in {"stopped", "blocked"}
      BY <1>3, <2>2 DEF Flows!StopFlow
    <2>4. Follows(d, Flows!Stop(d, f, "stopped"))
      BY <2>2, <2>3, StopFollows
    <2>5. PICK e : e = Flows!Stop(d, f, "stopped")
      OBVIOUS
    <2>6. Flows!Commit(e)
      BY <1>3, <2>1, <2>5 DEF Flows!StopFlow
    <2>. QED BY <2>1, <2>4, <2>5, <2>6, FlowsCommit
  <1>4. ASSUME NEW f \in 1 .. Len(flow), Flows!Deadline(f) PROVE FlowsInv' /\ FlowLeases
    BY <1>4, FlowsDeadline
  <1>5. ASSUME NEW i \in 1 .. Len(task), Flows!Computers(i) PROVE FlowsInv' /\ FlowLeases
    BY <1>5, FlowsComputers
  <1>6. ASSUME NEW i \in 1 .. Len(task), Flows!Owner(i) PROVE FlowsInv' /\ FlowLeases
    BY <1>6, FlowsOwner
  <1>7. CASE (\E a \in {"coder", "checker"} : Flows!Side(a)) \/ UNCHANGED Flows!vars
    BY <1>1, <1>7 DEF Flows!Side, Flows!vars
  <1>. QED BY <1>2, <1>3, <1>4, <1>5, <1>6, <1>7 DEF Flows!Next

\* A workflow that shows as passed did pass its check, and one that was stopped stays so: for every chain,
\* any number of workflows over the same tasks, and every order of polls, stops, leases and restarts.
THEOREM WorkflowsHold ==
    ASSUME Flows!WorkflowsAssumption
    PROVE  Flows!Spec => Flows!WorkflowsSafe
  <1>1. Flows!Init => FlowsInv
    <2>. SUFFICES ASSUME Flows!Init PROVE FlowsInv
      OBVIOUS
    <2>1. PICK u : u = Flows!Staged(0, FALSE, 0)
      OBVIOUS
    <2>2. RoundLimit \in Nat /\ 0 <= RoundLimit
      BY DEF Flows!WorkflowsAssumption
    <2>3. u \in FlowTasks /\ TaskSound(u, 1) /\ Idles(u)
      BY <2>1, <2>2 DEF Flows!Staged, FlowTasks, TaskSound, Idles, Flows!Status
    <2>4. task = <<u>> /\ flow = << >> /\ hand = {}
      BY <2>1 DEF Flows!Init
    <2>5. task \in Seq(FlowTasks) /\ Len(task) = 1 /\ task[1] = u /\ flow \in Seq(FlowRows) /\ Len(flow) = 0
      BY <2>3, <2>4
    <2>6. PICK d : d = Flows!Db
      OBVIOUS
    <2>7. d.task = task /\ d.flow = flow /\ d \in FlowDbs
      BY <2>5, <2>6 DEF Flows!Db, FlowDbs
    <2>8. \A i \in 1 .. 1 : i = 1
      OBVIOUS
    <2>9. \A i \in 1 .. 0 : FALSE
      OBVIOUS
    <2>10. Sound(d)
      BY <2>3, <2>5, <2>7, <2>8, <2>9 DEF Sound
    <2>11. \A i \in 1 .. Len(d.task) : Quiet(d, i)
      BY <2>3, <2>5, <2>7, <2>8 DEF Quiet, Settled
    <2>. QED BY <2>6, <2>10, <2>11 DEF FlowsInv, QuietBut
  <1>2. FlowsInv => Flows!PassedIsChecked
    <2>. SUFFICES ASSUME FlowsInv, NEW f \in 1 .. Len(flow), flow[f].state = "passed"
                  PROVE  LET t == task[flow[f].current]  c == task[flow[f].coder]
                         IN  /\ t.check /\ t.result = "pass" /\ t.of = flow[f].coder
                             /\ ~ c.check /\ c.result = "good"
                             /\ flow[f].corrections <= flow[f].limit
                             /\ c.round = task[flow[f].source].round + flow[f].corrections
                             /\ c.round <= RoundLimit
      BY DEF Flows!PassedIsChecked
    <2>1. ChainSound(task, flow[f])
      BY FlowsFields
    <2>2. TaskSound(task[flow[f].coder], Len(task))
      BY <2>1, FlowsFields DEF ChainSound
    <2>. QED BY <2>1, <2>2 DEF ChainSound, TaskSound
  <1>3. FlowsInv /\ FlowLeases => \A i \in 1 .. Len(task) : Flows!OverIsOver(i)
    <2>. SUFFICES ASSUME FlowsInv, FlowLeases, NEW i \in 1 .. Len(task),
                         ~ task[i].leased, task'[i].leased, task[i].prep # "none",
                         NEW f \in 1 .. Len(flow), flow[f].current = i, flow[f].state \in {"stopped", "blocked"},
                         \A g \in 1 .. Len(flow) : flow[g].current = i => flow[g].state # "active"
                  PROVE  i \in hand
      BY DEF Flows!OverIsOver
    <2>1. PICK d : d = Flows!Db
      OBVIOUS
    <2>2. d.task = task /\ d.flow = flow /\ (Quiet(d, i) \/ i \in hand)
      BY <2>1, FlowsFields DEF Flows!Db
    <2>3. ~ Idles(task[i])
      BY DEF FlowLeases
    <2>4. ~ Driven(d, i)
      BY <2>2 DEF Driven
    <2>. QED BY <2>2, <2>3, <2>4 DEF Quiet, Settled
  <1>4. FlowsInv /\ [Flows!Next]_(Flows!vars) => FlowsInv' /\ FlowLeases
    BY FlowsKeeps
  <1>5. (\A i \in 1 .. Len(task) : Flows!OverIsOver(i)) /\ Flows!PassedIsChecked' => Flows!WorkflowsStep
    BY DEF Flows!WorkflowsStep
  <1>. QED BY <1>1, <1>2, <1>3, <1>4, <1>5, PTL DEF Flows!Spec, Flows!WorkflowsSafe

\* Beside everything else, a review workflow shows as passed only when the check of that
\* very code passed, within the corrections its owner allowed, and what it leaves when it
\* stops no computer starts on its behalf.
THEOREM HubReviews == Spec => WorkflowsSafe
  <1>1. Init => Flows!Init
    BY DEF Init
  <1>2. [Next]_vars => [Flows!Next]_(Flows!vars)
    <2>1. UNCHANGED flowsVars => UNCHANGED Flows!vars
      BY DEF flowsVars, Flows!vars
    <2>2. Next => Flows!Next \/ UNCHANGED flowsVars
      BY DEF Next
    <2>3. UNCHANGED vars => UNCHANGED flowsVars
      BY DEF vars
    <2>. QED BY <2>1, <2>2, <2>3
  <1>3. [Flows!WorkflowsStep]_(Flows!vars) => [moving = "flows" => Flows!WorkflowsStep]_flowsVars
    <2>1. UNCHANGED Flows!vars => UNCHANGED flowsVars
      BY DEF flowsVars, Flows!vars
    <2>. QED BY <2>1
  <1>. QED BY <1>1, <1>2, FlowsAssumed, <1>3, WorkflowsHold, PTL DEF Spec, Flows!Spec, WorkflowsSafe, Flows!WorkflowsSafe

(***************************************************************************)
(* The store a computer works on.  What holds the gate was begun on the    *)
(* store that is chosen, and keeps others from choosing; a call that does  *)
(* not has seen every choice there was since it was made.                  *)
(***************************************************************************)
ChoicePlaces == Choice!Place
OpRecord == [kind : Choice!Gated \cup Choice!Free \cup {"none"},
             phase : {"idle", "entered", "ready", "told", "confirmed", "acting", "closing"},
             place : ChoicePlaces, about : Worker \cup Choice!Pairing \cup {None}]

\* the type invariant in parts
SavedTypes ==
    /\ selected \in Choice!Pairing \cup {None} /\ account \in 1 .. (ChoiceMaxChanges + 1) /\ enrolled \in BOOLEAN
    /\ made \in 0 .. ChoiceMaxChanges /\ joined \subseteq Choice!Pairing /\ revoked \subseteq Choice!Pairing

AppTypes ==
    /\ server \in {"off", "on", "ended"} /\ pending \in Choice!Pairing \cup {None}
    /\ gate \in Op \cup {None} /\ session \in ChoicePlaces \cup {None}

AskedType == asked \in BOOLEAN

WorkerTypes ==
    /\ worker \in [Worker -> ChoicePlaces \cup {None}] /\ stopped \subseteq Worker /\ off \subseteq Worker
    /\ report \in [Worker -> {"none", "ready", "off"}]

OpTypes == op \in [Op -> OpRecord] /\ seen \in [Op -> SUBSET ChoicePlaces]

\* the store a task acts on
TheStore(place) ==
    IF selected # None THEN place = [on |-> "primary", as |-> selected]
                       ELSE place = Choice!Private /\ enrolled

\* what is so of a call
AtGate(o) == op[o].kind \in Choice!Gated => gate = o
JoinHonest(o) ==
    op[o].kind = "join" => /\ op[o].about \in Choice!Pairing /\ op[o].phase \in {"told", "confirmed"} /\ server # "on"
                           /\ op[o].phase = "confirmed" => op[o].about \in joined
OnTheStore(o) == op[o].kind \in {"run", "stage", "tick"} => TheStore(op[o].place)
SeenAll(o) == op[o].kind \in Choice!Watched => Choice!Chosen \subseteq seen[o]
SeenOwn(o) == (op[o].kind = "ask" \/ (op[o].kind \in Choice!Free /\ op[o].phase = "acting")) => op[o].place \in seen[o]
ReportShape(o) ==
    op[o].kind = "report" => /\ op[o].about \in Worker /\ op[o].phase \in {"acting", "closing"}
                             /\ op[o].phase = "closing" => op[o].about \in stopped
NeverActs(o) == op[o].kind \in {"none", "open"} => op[o].phase # "acting"

CallOk(o) ==
    AtGate(o) /\ JoinHonest(o) /\ OnTheStore(o) /\ SeenAll(o) /\ SeenOwn(o) /\ ReportShape(o) /\ NeverActs(o)

Reporting(o, w) == op[o].kind = "report" /\ op[o].about = w

ReportsApart == \A x, y \in Op : \A w \in Worker : Reporting(x, w) /\ Reporting(y, w) => x = y

OffWorkers ==
    \A w \in off : /\ w \in stopped /\ report[w] = "off"
                   /\ \A o \in Op : Reporting(o, w) => op[o].phase = "closing"

WorkersAway == \A w \in Worker : worker[w] # None => worker[w].on = "primary"

SelectedOk == (server = "on" => selected = None) /\ (selected # None => selected \in joined)

ChoiceInv ==
    /\ SavedTypes /\ AppTypes /\ AskedType /\ WorkerTypes /\ OpTypes /\ SelectedOk
    /\ \A o \in Op : CallOk(o)
    /\ ReportsApart /\ OffWorkers /\ WorkersAway

\* what is chosen
LEMMA ChosenIs ==
    ASSUME Choice!SelectionAssumption, SavedTypes
    PROVE  /\ Choice!Chosen \subseteq ChoicePlaces
           /\ selected # None => Choice!Chosen = {[on |-> "primary", as |-> selected]}
           /\ selected = None => /\ [on |-> "here", as |-> account] \in Choice!Chosen
                                 /\ enrolled => Choice!Private \in Choice!Chosen
                                 /\ \A p \in Choice!Chosen : p.on = "here"
  <1>1. CASE selected # None
    BY <1>1 DEF Choice!Chosen, Choice!ChosenBy, SavedTypes, ChoicePlaces, Choice!Place, Choice!Pairing
  <1>2. CASE selected = None
    <2>1. Choice!Chosen = {[on |-> "here", as |-> account]} \cup (IF enrolled THEN {Choice!Private} ELSE {})
      BY <1>2 DEF Choice!Chosen, Choice!ChosenBy
    <2>2. [on |-> "here", as |-> account] \in ChoicePlaces /\ Choice!Private \in ChoicePlaces
      BY DEF SavedTypes, ChoicePlaces, Choice!Place, Choice!Private, Choice!SelectionAssumption
    <2>3. Choice!Private.on = "here"
      BY DEF Choice!Private
    <2>. QED BY <1>2, <2>1, <2>2, <2>3
  <1>. QED BY <1>1, <1>2

LEMMA StoreIsChosen ==
    ASSUME Choice!SelectionAssumption, SavedTypes, NEW p, TheStore(p)
    PROVE  p \in Choice!Chosen /\ p \in ChoicePlaces
  BY ChosenIs DEF TheStore

\* A call that others do not touch stays what it was while the choice stays.
LEMMA CallStays ==
    ASSUME NEW o \in Op, CallOk(o), op'[o] = op[o], seen'[o] = seen[o], gate = o => gate' = o,
           UNCHANGED <<selected, account, enrolled>>, server' = server \/ server' # "on" \/ op[o].kind # "join",
           joined \subseteq joined', stopped \subseteq stopped'
    PROVE  CallOk(o)'
  BY DEF CallOk, AtGate, JoinHonest, OnTheStore, TheStore, SeenAll, Choice!Chosen, SeenOwn, ReportShape, NeverActs

\* One call changes, and with it neither the choice nor the workers.
LEMMA OneCall ==
    ASSUME Choice!SelectionAssumption, ChoiceInv, NEW o \in Op, NEW r \in OpRecord, NEW s \in SUBSET ChoicePlaces,
           op' = [op EXCEPT ![o] = r], seen' = [seen EXCEPT ![o] = s], CallOk(o)',
           gate' \in Op \cup {None}, \A x \in Op \ {o} : gate = x => gate' = x,
           UNCHANGED <<selected, account, enrolled, made, revoked, server, worker, stopped>>,
           joined \subseteq joined', joined' \subseteq Choice!Pairing,
           pending' \in Choice!Pairing \cup {None}, session' \in ChoicePlaces \cup {None}, asked' \in BOOLEAN,
           report' \in [Worker -> {"none", "ready", "off"}], off' \subseteq Worker,
           r.kind # "report" \/ (r = op[o]) \/ \A x \in Op \ {o} : ~ Reporting(x, r.about), OffWorkers'
    PROVE  ChoiceInv'
  <1>1. op'[o] = r /\ seen'[o] = s /\ \A x \in Op \ {o} : op'[x] = op[x] /\ seen'[x] = seen[x]
    BY DEF ChoiceInv, OpTypes
  <1>2. SavedTypes' /\ AppTypes' /\ WorkerTypes' /\ SelectedOk'
    BY DEF ChoiceInv, SavedTypes, AppTypes, WorkerTypes, SelectedOk
  <1>3. OpTypes'
    BY DEF ChoiceInv, OpTypes
  <1>4. ASSUME NEW x \in Op PROVE CallOk(x)'
    <2>1. CASE x = o
      BY <2>1
    <2>2. CASE x # o
      BY <1>1, <2>2, CallStays DEF ChoiceInv
    <2>. QED BY <2>1, <2>2
  <1>5. ReportsApart'
    BY <1>1 DEF ChoiceInv, ReportsApart, Reporting
  <1>6. WorkersAway'
    BY DEF ChoiceInv, WorkersAway
  <1>. QED BY <1>2, <1>3, <1>4, <1>5, <1>6 DEF ChoiceInv, AskedType

\* a call begins
LEMMA BeginStep ==
    ASSUME Choice!SelectionAssumption, ChoiceInv, NEW o \in Op, NEW kind \in Choice!Gated \cup Choice!Free,
           NEW about \in Worker \cup Choice!Pairing \cup {None},
           NEW phase \in {"entered", "ready", "told", "acting", "closing"}, NEW place \in ChoicePlaces,
           Choice!Begins(o, kind, about, phase, place),
           UNCHANGED <<selected, account, enrolled, made, revoked, server, pending, asked, session, worker, stopped,
                       off, report>>,
           joined \subseteq joined', joined' \subseteq Choice!Pairing,
           kind = "join" => about \in Choice!Pairing /\ phase = "told" /\ server # "on",
           kind = "open" => phase = "ready", kind \in {"run", "stage", "tick"} => TheStore(place),
           kind = "ask" \/ (kind \in Choice!Free /\ phase = "acting") => place \in Choice!Chosen,
           kind = "report" => /\ about \in Worker /\ \A x \in Op : ~ Reporting(x, about)
                              /\ phase = IF about \in stopped THEN "closing" ELSE "acting"
    PROVE  ChoiceInv'
  <1> DEFINE r == [kind |-> kind, phase |-> phase, place |-> place, about |-> about]
  <1>1. r \in OpRecord /\ r.kind = kind /\ r.phase = phase /\ r.place = place /\ r.about = about
    BY DEF OpRecord
  <1>2. /\ op' = [op EXCEPT ![o] = r] /\ (kind \in Choice!Gated => gate = None)
        /\ gate' = IF kind \in Choice!Gated THEN o ELSE gate
        /\ seen' = IF kind \in Choice!Watched THEN [seen EXCEPT ![o] = Choice!Chosen] ELSE seen
    BY DEF Choice!Begins
  <1> HIDE DEF r
  <1>3. PICK s \in SUBSET ChoicePlaces : s = IF kind \in Choice!Watched THEN Choice!Chosen ELSE seen[o]
    BY ChosenIs DEF ChoiceInv, OpTypes
  <1>4. seen' = [seen EXCEPT ![o] = s] /\ op'[o] = r /\ seen'[o] = s
    BY <1>2, <1>3 DEF ChoiceInv, OpTypes
  <1>5. \A x \in Op \ {o} : gate = x => gate' = x
    BY <1>2 DEF Choice!SelectionAssumption
  <1>6. gate' \in Op \cup {None}
    BY <1>2 DEF ChoiceInv, AppTypes
  <1>7. CallOk(o)'
    <2>1. Choice!Chosen' = Choice!Chosen
      BY DEF Choice!Chosen
    <2>2. AtGate(o)' /\ NeverActs(o)' /\ ReportShape(o)'
      BY <1>1, <1>2, <1>4 DEF AtGate, NeverActs, ReportShape, Choice!Gated, Choice!Free
    <2>3. JoinHonest(o)' /\ OnTheStore(o)'
      BY <1>1, <1>4 DEF JoinHonest, OnTheStore, TheStore
    <2>4. SeenAll(o)' /\ SeenOwn(o)'
      BY <1>1, <1>3, <1>4, <2>1 DEF SeenAll, SeenOwn, Choice!Watched, Choice!Free
    <2>. QED BY <2>2, <2>3, <2>4 DEF CallOk
  <1>8. r.kind # "report" \/ \A x \in Op \ {o} : ~ Reporting(x, r.about)
    BY <1>1
  <1>9. OffWorkers'
    <2>1. \A x \in Op \ {o} : op'[x] = op[x]
      BY <1>2 DEF ChoiceInv, OpTypes
    <2>2. \A w \in off : Reporting(o, w)' => op'[o].phase = "closing"
      BY <1>1, <1>4 DEF ChoiceInv, OffWorkers, Reporting
    <2>. QED BY <2>1, <2>2 DEF ChoiceInv, OffWorkers, Reporting
  <1>10. asked' \in BOOLEAN /\ pending' \in Choice!Pairing \cup {None} /\ session' \in ChoicePlaces \cup {None}
         /\ report' \in [Worker -> {"none", "ready", "off"}] /\ off' \subseteq Worker
    BY DEF ChoiceInv, AskedType, AppTypes, WorkerTypes
  <1>. QED BY <1>1, <1>2, <1>4, <1>5, <1>6, <1>7, <1>8, <1>9, <1>10, OneCall

LEMMA IdleCall ==
    ASSUME Choice!SelectionAssumption, NEW o \in Op, op'[o] = Choice!idle
    PROVE  CallOk(o)' /\ Choice!idle \in OpRecord /\ Choice!idle.kind = "none"
  <1>1. Choice!idle.kind = "none" /\ Choice!idle.phase = "idle" /\ "none" \notin Choice!Gated \cup Choice!Free
    BY DEF Choice!idle, Choice!Gated, Choice!Free
  <1>2. Choice!Private \in ChoicePlaces
    BY DEF ChoicePlaces, Choice!Place, Choice!Private, Choice!SelectionAssumption
  <1>3. Choice!idle \in OpRecord
    BY <1>2 DEF Choice!idle, OpRecord
  <1>4. "none" \notin {"join", "run", "stage", "tick", "ask", "report"} /\ "none" \notin Choice!Watched
    BY <1>1 DEF Choice!Watched
  <1>. QED BY <1>1, <1>3, <1>4 DEF CallOk, AtGate, JoinHonest, OnTheStore, SeenAll, SeenOwn, ReportShape, NeverActs

\* a call returns
LEMMA ReturnStep ==
    ASSUME Choice!SelectionAssumption, ChoiceInv, NEW o \in Op, Choice!Returns(o),
           UNCHANGED <<selected, account, enrolled, made, joined, revoked, server, pending, worker, stopped>>,
           session' \in ChoicePlaces \cup {None}, asked' \in BOOLEAN,
           report' \in [Worker -> {"none", "ready", "off"}], off' \subseteq Worker,
           \A w \in off' : w \in stopped /\ report'[w] = "off"
                           /\ \A x \in Op \ {o} : Reporting(x, w) => op[x].phase = "closing"
    PROVE  ChoiceInv'
  <1>1. op' = [op EXCEPT ![o] = Choice!idle] /\ seen' = [seen EXCEPT ![o] = {}]
        /\ gate' = IF gate = o THEN None ELSE gate
    BY DEF Choice!Returns
  <1>2. op'[o] = Choice!idle /\ \A x \in Op \ {o} : op'[x] = op[x]
    BY <1>1 DEF ChoiceInv, OpTypes
  <1>3. CallOk(o)' /\ Choice!idle \in OpRecord /\ Choice!idle.kind = "none"
    BY <1>2, IdleCall
  <1>4. gate' \in Op \cup {None} /\ \A x \in Op \ {o} : gate = x => gate' = x
    BY <1>1 DEF ChoiceInv, AppTypes
  <1>5. OffWorkers'
    BY <1>2, <1>3 DEF OffWorkers, Reporting
  <1>6. joined' \subseteq Choice!Pairing /\ pending' \in Choice!Pairing \cup {None}
    BY DEF ChoiceInv, SavedTypes, AppTypes
  <1>7. {} \in SUBSET ChoicePlaces /\ Choice!idle.kind # "report" /\ joined \subseteq joined'
    BY <1>3
  <1>8. UNCHANGED <<selected, account, enrolled, made, revoked, server, worker, stopped>>
    OBVIOUS
  <1>. QED BY <1>1, <1>3, <1>4, <1>5, <1>6, <1>7, <1>8, OneCall

\* a call goes on
LEMMA GoStep ==
    ASSUME Choice!SelectionAssumption, ChoiceInv, NEW o \in Op, NEW phase \in {"confirmed", "acting"},
           Choice!Goes(o, phase), op[o].kind \notin {"report", "none", "open"},
           UNCHANGED <<selected, account, enrolled, made, joined, revoked, server, pending, session, asked, worker,
                       stopped, off, report>>,
           op[o].kind = "join" => phase = "confirmed" /\ op[o].about \in joined,
           (op[o].kind \in Choice!Free /\ phase = "acting") => op[o].place \in seen[o]
    PROVE  ChoiceInv'
  <1>1. PICK old \in OpRecord : old = op[o]
    BY DEF ChoiceInv, OpTypes
  <1> DEFINE r == [old EXCEPT !.phase = phase]
  <1>2. r \in OpRecord /\ r.kind = old.kind /\ r.place = old.place /\ r.about = old.about /\ r.phase = phase
    BY DEF OpRecord
  <1>3. op' = [op EXCEPT ![o] = r] /\ UNCHANGED <<gate, seen>>
    BY <1>1 DEF Choice!Goes, ChoiceInv, OpTypes
  <1> HIDE DEF r
  <1>4. op'[o] = r /\ \A x \in Op \ {o} : op'[x] = op[x]
    BY <1>3 DEF ChoiceInv, OpTypes
  <1>5. CallOk(o)
    BY DEF ChoiceInv
  <1>6. CallOk(o)'
    <2>1. AtGate(o)' /\ NeverActs(o)' /\ ReportShape(o)'
      BY <1>1, <1>2, <1>3, <1>4, <1>5 DEF CallOk, AtGate, NeverActs, ReportShape
    <2>2. JoinHonest(o)' /\ OnTheStore(o)'
      BY <1>1, <1>2, <1>3, <1>4, <1>5 DEF CallOk, JoinHonest, OnTheStore, TheStore
    <2>3. SeenAll(o)'
      BY <1>1, <1>2, <1>3, <1>4, <1>5 DEF CallOk, SeenAll, Choice!Chosen
    <2>4. SeenOwn(o)'
      BY <1>1, <1>2, <1>3, <1>4, <1>5 DEF CallOk, SeenOwn
    <2>. QED BY <2>1, <2>2, <2>3, <2>4 DEF CallOk
  <1>7. PICK s \in SUBSET ChoicePlaces : s = seen[o]
    BY DEF ChoiceInv, OpTypes
  <1>8. seen' = [seen EXCEPT ![o] = s]
    BY <1>3, <1>7 DEF ChoiceInv, OpTypes
  <1>9. OffWorkers'
    BY <1>1, <1>2, <1>4 DEF ChoiceInv, OffWorkers, Reporting
  <1>10. asked' \in BOOLEAN /\ pending' \in Choice!Pairing \cup {None} /\ session' \in ChoicePlaces \cup {None}
         /\ report' \in [Worker -> {"none", "ready", "off"}] /\ off' \subseteq Worker
         /\ gate' \in Op \cup {None} /\ joined' \subseteq Choice!Pairing
    BY <1>3 DEF ChoiceInv, AskedType, AppTypes, WorkerTypes, SavedTypes
  <1>. QED BY <1>1, <1>2, <1>3, <1>6, <1>8, <1>9, <1>10, OneCall

\* the choice changes: each call that is watched sees the new one
LEMMA ChoiceChanges ==
    ASSUME Choice!SelectionAssumption, ChoiceInv, SavedTypes', Choice!Sees(selected', account', enrolled'),
           NEW o \in Op, op'[o] = op[o], gate = o => gate' = o, UNCHANGED <<server, joined, stopped>>,
           op[o].kind \notin {"run", "stage", "tick"} \/ (selected' = selected /\ (enrolled => enrolled'))
    PROVE  CallOk(o)'
  <1>1. CallOk(o)
    BY DEF ChoiceInv
  <1>2. Choice!Chosen' = Choice!ChosenBy(selected', account', enrolled')
    BY DEF Choice!Chosen
  <1>3. op[o].kind \in Choice!Watched => seen'[o] = seen[o] \cup Choice!Chosen'
    BY <1>2 DEF Choice!Sees
  <1>4. AtGate(o)' /\ JoinHonest(o)' /\ ReportShape(o)' /\ NeverActs(o)'
    BY <1>1 DEF CallOk, AtGate, JoinHonest, ReportShape, NeverActs
  <1>5. OnTheStore(o)'
    BY <1>1 DEF CallOk, OnTheStore, TheStore
  <1>6. SeenAll(o)'
    BY <1>3 DEF SeenAll
  <1>7. op[o].kind = "open" => op[o].phase # "acting"
    BY <1>1 DEF CallOk, NeverActs
  <1>8. SeenOwn(o)'
    BY <1>1, <1>3, <1>7 DEF CallOk, SeenOwn, Choice!Watched, Choice!Free
  <1>. QED BY <1>4, <1>5, <1>6, <1>8 DEF CallOk

\* what can be chosen is a place
LEMMA ChosenPlaces ==
    ASSUME Choice!SelectionAssumption, NEW s \in Choice!Pairing \cup {None}, NEW a \in 1 .. (ChoiceMaxChanges + 1),
           NEW e \in BOOLEAN
    PROVE  Choice!ChosenBy(s, a, e) \subseteq ChoicePlaces
  <1> DEFINE here == [on |-> "here", as |-> a]
             there == [on |-> "primary", as |-> s]
  <1>1. Choice!Private \in ChoicePlaces /\ here \in ChoicePlaces
    BY DEF Choice!SelectionAssumption, ChoicePlaces, Choice!Place, Choice!Private
  <1>2. CASE s # None
    <2>1. Choice!ChosenBy(s, a, e) = {there}
      BY <1>2 DEF Choice!ChosenBy
    <2>2. there \in ChoicePlaces
      BY <1>2 DEF ChoicePlaces, Choice!Place
    <2>. QED BY <2>1, <2>2
  <1>3. CASE s = None
    <2>1. Choice!ChosenBy(s, a, e) \subseteq {here, Choice!Private}
      BY <1>3 DEF Choice!ChosenBy
    <2>. QED BY <1>1, <2>1
  <1>. QED BY <1>2, <1>3

\* the computer gets an identity, or another account
LEMMA IdentityStep ==
    ASSUME Choice!SelectionAssumption, ChoiceInv, Choice!Enrolls \/ Choice!ChangesAccount
    PROVE  ChoiceInv'
  <1> USE DEF Choice!SelectionAssumption, Choice!saved, Choice!remotes, Choice!app, Choice!workers
  <1>1. UNCHANGED <<selected, made, joined, revoked, server, pending, asked, session, gate, worker, stopped, off,
                    report, op>>
    BY DEF Choice!Enrolls, Choice!ChangesAccount
  <1>2. SavedTypes' /\ (enrolled => enrolled')
    <2>1. account' \in 1 .. (ChoiceMaxChanges + 1)
      <3>1. account \in 1 .. (ChoiceMaxChanges + 1) /\ made \in 0 .. ChoiceMaxChanges
        BY DEF ChoiceInv, SavedTypes
      <3>2. account' = account \/ (account' = account + 1 /\ made + account <= ChoiceMaxChanges)
        BY DEF Choice!Enrolls, Choice!ChangesAccount
      <3>. QED BY <3>1, <3>2
    <2>2. enrolled' \in BOOLEAN /\ (enrolled => enrolled')
      <3>1. enrolled' = TRUE \/ enrolled' = enrolled
        BY DEF Choice!Enrolls, Choice!ChangesAccount
      <3>. QED BY <3>1, Zenon DEF ChoiceInv, SavedTypes
    <2>. QED BY <1>1, <2>1, <2>2 DEF ChoiceInv, SavedTypes
  <1>3. Choice!Sees(selected', account', enrolled')
    BY <1>2 DEF Choice!Enrolls, Choice!ChangesAccount, ChoiceInv, SavedTypes
  <1>4. \A o \in Op : CallOk(o)'
    BY <1>1, <1>2, <1>3, ChoiceChanges
  <1>5. seen' \in [Op -> SUBSET ChoicePlaces]
    <2>1. Choice!ChosenBy(selected', account', enrolled') \subseteq ChoicePlaces
      <3>1. PICK s \in Choice!Pairing \cup {None}, a \in 1 .. (ChoiceMaxChanges + 1), e \in BOOLEAN :
               s = selected' /\ a = account' /\ e = enrolled'
        BY <1>2, Zenon DEF SavedTypes
      <3>2. Choice!ChosenBy(s, a, e) \subseteq ChoicePlaces
        BY ChosenPlaces
      <3>. QED BY <3>1, <3>2 DEF Choice!ChosenBy
    <2>. QED BY <1>3, <2>1 DEF Choice!Sees, ChoiceInv, OpTypes
  <1>6. AppTypes' /\ AskedType' /\ WorkerTypes' /\ OpTypes'
    BY <1>1, <1>5 DEF ChoiceInv, AppTypes, AskedType, WorkerTypes, OpTypes
  <1>7. SelectedOk' /\ ReportsApart' /\ OffWorkers' /\ WorkersAway'
    BY <1>1 DEF ChoiceInv, SelectedOk, ReportsApart, Reporting, OffWorkers, WorkersAway
  <1>. QED BY <1>2, <1>4, <1>6, <1>7 DEF ChoiceInv

\* a selection is saved, by the one call that holds the gate
LEMMA SavedStep ==
    ASSUME Choice!SelectionAssumption, ChoiceInv, NEW o \in Op, Choice!JoinSaved(o)
    PROVE  ChoiceInv'
  <1> USE DEF Choice!SelectionAssumption, Choice!saved, Choice!remotes, Choice!app, Choice!workers
  <1>1. /\ UNCHANGED <<account, enrolled, made, joined, revoked, server, asked, session, worker, stopped, off, report>>
        /\ op[o].kind = "join" /\ op[o].phase = "confirmed" /\ selected' = op[o].about /\ pending' = None
        /\ op' = [op EXCEPT ![o] = Choice!idle] /\ gate' = IF gate = o THEN None ELSE gate
        /\ Choice!Sees(selected', account', enrolled')
    BY DEF Choice!JoinSaved, Choice!In
  <1>2. gate = o /\ selected' \in Choice!Pairing /\ server # "on" /\ selected' \in joined
    BY <1>1 DEF ChoiceInv, CallOk, AtGate, JoinHonest, Choice!Gated
  <1>3. SavedTypes' /\ SelectedOk'
    BY <1>1, <1>2 DEF ChoiceInv, SavedTypes, SelectedOk
  <1>4. op'[o] = Choice!idle /\ \A x \in Op \ {o} : op'[x] = op[x]
    BY <1>1 DEF ChoiceInv, OpTypes
  <1>5. CallOk(o)' /\ Choice!idle \in OpRecord /\ Choice!idle.kind = "none"
    BY <1>4, IdleCall
  <1>6. ASSUME NEW x \in Op PROVE CallOk(x)'
    <2>1. CASE x = o
      BY <1>5, <2>1
    <2>2. CASE x # o
      <3>1. op[x].kind \notin {"run", "stage", "tick"} /\ gate # x
        BY <1>2, <2>2 DEF ChoiceInv, CallOk, AtGate, Choice!Gated
      <3>. QED BY <1>1, <1>3, <1>4, <2>2, <3>1, ChoiceChanges
    <2>. QED BY <2>1, <2>2
  <1>7. seen' \in [Op -> SUBSET ChoicePlaces]
    <2>1. Choice!ChosenBy(selected', account', enrolled') \subseteq ChoicePlaces
      <3>1. PICK s \in Choice!Pairing \cup {None}, a \in 1 .. (ChoiceMaxChanges + 1), e \in BOOLEAN :
               s = selected' /\ a = account' /\ e = enrolled'
        BY <1>3, Zenon DEF SavedTypes
      <3>2. Choice!ChosenBy(s, a, e) \subseteq ChoicePlaces
        BY ChosenPlaces
      <3>. QED BY <3>1, <3>2 DEF Choice!ChosenBy
    <2>. QED BY <1>1, <2>1 DEF Choice!Sees, ChoiceInv, OpTypes
  <1>8. AppTypes' /\ AskedType' /\ WorkerTypes' /\ OpTypes'
    BY <1>1, <1>5, <1>7 DEF ChoiceInv, AppTypes, AskedType, WorkerTypes, OpTypes
  <1>9. ReportsApart' /\ OffWorkers' /\ WorkersAway'
    BY <1>1, <1>4, <1>5 DEF ChoiceInv, ReportsApart, Reporting, OffWorkers, WorkersAway
  <1>. QED BY <1>3, <1>6, <1>8, <1>9 DEF ChoiceInv

\* steps that are part of no call and choose nothing
LEMMA AsideStep ==
    ASSUME Choice!SelectionAssumption, ChoiceInv,
           \/ Choice!ShareStarts \/ Choice!ShareEnds \/ Choice!ShareStops \/ Choice!JoinBegins \/ Choice!StopsRun
           \/ \E p \in Choice!Pairing : Choice!Revokes(p)
           \/ \E w \in Worker : Choice!WorkerOpens(w) \/ Choice!WorkerStops(w)
           \/ UNCHANGED Choice!vars
    PROVE  ChoiceInv'
  <1> USE DEF Choice!SelectionAssumption, Choice!saved, Choice!remotes, Choice!app, Choice!workers
  <1>1. UNCHANGED <<selected, account, enrolled, joined, session, gate, off, report, op, seen>>
        /\ stopped \subseteq stopped'
    BY DEF Choice!ShareStarts, Choice!ShareEnds, Choice!ShareStops, Choice!JoinBegins, Choice!StopsRun, Choice!Revokes,
           Choice!WorkerOpens, Choice!WorkerStops, Choice!vars
  <1>2. server' = server \/ server' # "on" \/ (Choice!ShareStarts /\ gate = None)
    BY DEF Choice!ShareStarts, Choice!ShareEnds, Choice!ShareStops, Choice!JoinBegins, Choice!StopsRun, Choice!Revokes,
           Choice!WorkerOpens, Choice!WorkerStops, Choice!vars
  <1>3. ASSUME NEW o \in Op PROVE CallOk(o)'
    <2>1. op[o].kind = "join" => gate = o
      BY DEF ChoiceInv, CallOk, AtGate, Choice!Gated
    <2>2. server' = server \/ server' # "on" \/ op[o].kind # "join"
      BY <1>2, <2>1
    <2>. QED BY <1>1, <2>2, CallStays DEF ChoiceInv
  <1>4. SavedTypes'
    <2>1. made' \in 0 .. ChoiceMaxChanges
      BY DEF Choice!ShareStarts, Choice!ShareEnds, Choice!ShareStops, Choice!JoinBegins, Choice!StopsRun,
             Choice!Revokes, Choice!WorkerOpens, Choice!WorkerStops, Choice!vars, ChoiceInv, SavedTypes
    <2>2. revoked' \subseteq Choice!Pairing
      <3>1. revoked' = revoked \/ \E p \in Choice!Pairing : revoked' = revoked \cup {p}
        BY DEF Choice!ShareStarts, Choice!ShareEnds, Choice!ShareStops, Choice!JoinBegins, Choice!StopsRun,
               Choice!Revokes, Choice!WorkerOpens, Choice!WorkerStops, Choice!vars
      <3>. QED BY <3>1 DEF ChoiceInv, SavedTypes
    <2>3. UNCHANGED <<selected, account, enrolled, joined>>
      BY DEF Choice!ShareStarts, Choice!ShareEnds, Choice!ShareStops, Choice!JoinBegins, Choice!StopsRun,
             Choice!Revokes, Choice!WorkerOpens, Choice!WorkerStops, Choice!vars
    <2>. QED BY <2>1, <2>2, <2>3 DEF ChoiceInv, SavedTypes
  <1>5. AppTypes'
    BY <1>1 DEF Choice!ShareStarts, Choice!ShareEnds, Choice!ShareStops, Choice!JoinBegins, Choice!StopsRun,
           Choice!Revokes, Choice!WorkerOpens, Choice!WorkerStops, Choice!vars, ChoiceInv, AppTypes, SavedTypes,
           Choice!Pairing
  <1>6. AskedType'
    <2>1. asked' = asked \/ asked' = TRUE
      BY DEF Choice!ShareStarts, Choice!ShareEnds, Choice!ShareStops, Choice!JoinBegins, Choice!StopsRun,
             Choice!Revokes, Choice!WorkerOpens, Choice!WorkerStops, Choice!vars
    <2>. QED BY <2>1, Zenon DEF ChoiceInv, AskedType
  <1>7. OpTypes'
    BY <1>1 DEF ChoiceInv, OpTypes
  <1>8. SelectedOk'
    <2>1. Choice!ShareStarts => selected = None
      BY DEF Choice!ShareStarts
    <2>2. server' = "on" => selected = None
      BY <1>2, <2>1 DEF ChoiceInv, SelectedOk
    <2>. QED BY <1>1, <2>2 DEF ChoiceInv, SelectedOk
  <1>9. CASE UNCHANGED <<worker, stopped>>
    <2>1. WorkerTypes' /\ ReportsApart' /\ OffWorkers' /\ WorkersAway'
      BY <1>1, <1>9 DEF ChoiceInv, WorkerTypes, ReportsApart, Reporting, OffWorkers, WorkersAway
    <2>. QED BY <1>3, <1>4, <1>5, <1>6, <1>7, <1>8, <2>1 DEF ChoiceInv
  <1>10. CASE \E w \in Worker : Choice!WorkerOpens(w) \/ Choice!WorkerStops(w)
    <2>1. PICK w \in Worker : Choice!WorkerOpens(w) \/ Choice!WorkerStops(w)
      BY <1>10
    <2>2. ReportsApart' /\ OffWorkers'
      BY <1>1 DEF ChoiceInv, ReportsApart, Reporting, OffWorkers
    <2>3. WorkerTypes' /\ WorkersAway'
      <3>1. CASE Choice!WorkerStops(w)
        BY <1>1, <3>1 DEF Choice!WorkerStops, ChoiceInv, WorkerTypes, WorkersAway
      <3>2. CASE Choice!WorkerOpens(w)
        <4>1. PICK p \in Choice!Pairing : p = selected
          BY <3>2 DEF Choice!WorkerOpens, ChoiceInv, SavedTypes
        <4>2. PICK q \in ChoicePlaces : q = [on |-> "primary", as |-> p] /\ q.on = "primary"
          <5>1. [on |-> "primary", as |-> p] \in ChoicePlaces
            BY DEF ChoicePlaces, Choice!Place
          <5>2. [on |-> "primary", as |-> p].on = "primary"
            OBVIOUS
          <5>. QED BY <5>1, <5>2
        <4>3. worker' = [worker EXCEPT ![w] = q] /\ UNCHANGED stopped
          BY <3>2, <4>1, <4>2 DEF Choice!WorkerOpens
        <4>. QED BY <1>1, <4>2, <4>3 DEF ChoiceInv, WorkerTypes, WorkersAway
      <3>. QED BY <2>1, <3>1, <3>2
    <2>. QED BY <1>3, <1>4, <1>5, <1>6, <1>7, <1>8, <2>2, <2>3 DEF ChoiceInv
  <1>. QED BY <1>9, <1>10 DEF Choice!ShareStarts, Choice!ShareEnds, Choice!ShareStops, Choice!JoinBegins,
              Choice!StopsRun, Choice!Revokes, Choice!vars

LEMMA RestartStep ==
    ASSUME Choice!SelectionAssumption, ChoiceInv, Choice!Restart
    PROVE  ChoiceInv'
  <1> USE DEF Choice!SelectionAssumption
  <1>1. /\ server' = "off" /\ pending' = None /\ gate' = None /\ asked' = FALSE /\ session' = None
        /\ worker' = [w \in Worker |-> None] /\ stopped' = {} /\ off' = {} /\ report' = [w \in Worker |-> "none"]
        /\ op' = [o \in Op |-> Choice!idle] /\ seen' = [o \in Op |-> {}]
        /\ UNCHANGED <<selected, account, enrolled, made, joined, revoked>>
    BY DEF Choice!Restart, Choice!saved, Choice!remotes
  <1>2. \A o \in Op : op'[o] = Choice!idle
    BY <1>1
  <1>3. \A o \in Op : CallOk(o)' /\ Choice!idle \in OpRecord /\ Choice!idle.kind = "none"
    BY <1>2, IdleCall
  <1>4. SavedTypes' /\ AppTypes' /\ WorkerTypes' /\ SelectedOk' /\ WorkersAway'
    BY <1>1 DEF ChoiceInv, SavedTypes, AppTypes, WorkerTypes, SelectedOk, WorkersAway
  <1>5. OpTypes'
    BY <1>1, <1>3 DEF OpTypes
  <1>6. ReportsApart' /\ OffWorkers'
    BY <1>1, <1>2, <1>3 DEF ReportsApart, OffWorkers, Reporting
  <1>7. AskedType'
    BY <1>1, Zenon DEF AskedType
  <1>. QED BY <1>3, <1>4, <1>5, <1>6, <1>7 DEF ChoiceInv

\* the connection to a primary, and the session
LEMMA JoinAndSessionStep ==
    ASSUME Choice!SelectionAssumption, ChoiceInv, NEW o \in Op,
           \/ Choice!JoinCompletes(o) \/ Choice!JoinGivesUp(o) \/ Choice!JoinConfirmed(o) \/ Choice!JoinUnsaved(o)
           \/ Choice!Opens(o) \/ Choice!Opened(o) \/ Choice!SessionCalled(o, "call") \/ Choice!SessionCalled(o, "drain")
           \/ Choice!SessionActs(o)
    PROVE  ChoiceInv'
  <1> USE DEF Choice!SelectionAssumption, Choice!saved, Choice!remotes, Choice!app, Choice!workers
  <1>1. Choice!Private \in ChoicePlaces /\ asked \in BOOLEAN /\ session \in ChoicePlaces \cup {None}
        /\ report \in [Worker -> {"none", "ready", "off"}] /\ off \subseteq Worker
    BY DEF ChoicePlaces, Choice!Place, Choice!Private, ChoiceInv, AskedType, AppTypes, WorkerTypes
  <1>2. \A w \in off : w \in stopped /\ report[w] = "off" /\ \A x \in Op \ {o} : Reporting(x, w) => op[x].phase = "closing"
    BY DEF ChoiceInv, OffWorkers
  <1>3. CASE Choice!JoinCompletes(o)
    <2>1. PICK p \in Choice!Pairing : p = pending
      BY <1>3 DEF Choice!JoinCompletes, ChoiceInv, AppTypes
    <2>2. Choice!Begins(o, "join", p, "told", Choice!Private) /\ server # "on"
          /\ UNCHANGED <<selected, account, enrolled, made, revoked, server, pending, asked, session, worker, stopped,
                         off, report>>
      BY <1>3, <2>1 DEF Choice!JoinCompletes
    <2>3. joined \subseteq joined' /\ joined' \subseteq Choice!Pairing
      BY <1>3, <2>1 DEF Choice!JoinCompletes, ChoiceInv, SavedTypes
    <2>4. "join" \in Choice!Gated \cup Choice!Free /\ "join" \notin Choice!Free
      BY DEF Choice!Gated, Choice!Free
    <2>. QED BY <1>1, <2>1, <2>2, <2>3, <2>4, BeginStep
  <1>4. CASE Choice!JoinGivesUp(o) \/ Choice!JoinUnsaved(o)
    BY <1>1, <1>2, <1>4, ReturnStep DEF Choice!JoinGivesUp, Choice!JoinUnsaved
  <1>5. CASE Choice!JoinConfirmed(o)
    <2>1. op[o].kind = "join" /\ op[o].about \in joined /\ Choice!Goes(o, "confirmed") /\ "join" \notin Choice!Free
          /\ UNCHANGED <<selected, account, enrolled, made, joined, revoked, server, pending, session, asked, worker,
                         stopped, off, report>>
      BY <1>5 DEF Choice!JoinConfirmed, Choice!In, Choice!Connects, Choice!Free
    <2>. QED BY <2>1, GoStep
  <1>6. CASE Choice!Opens(o)
    <2>1. PICK place \in ChoicePlaces : Choice!Begins(o, "open", None, "ready", place)
      <3>1. CASE selected # None
        <4>1. [on |-> "primary", as |-> selected] \in ChoicePlaces
          BY <3>1 DEF ChoiceInv, SavedTypes, ChoicePlaces, Choice!Place
        <4>. QED BY <1>6, <3>1, <4>1 DEF Choice!Opens
      <3>2. CASE selected = None
        <4>1. [on |-> "here", as |-> account] \in ChoicePlaces
          BY <3>2, ChosenIs DEF ChoiceInv
        <4>. QED BY <1>1, <1>6, <3>2, <4>1 DEF Choice!Opens
      <3>. QED BY <3>1, <3>2
    <2>2. UNCHANGED <<selected, account, enrolled, made, revoked, server, pending, asked, session, worker, stopped,
                      off, report, joined>>
      BY <1>6 DEF Choice!Opens
    <2>3. "open" \in Choice!Gated \cup Choice!Free /\ joined' \subseteq Choice!Pairing
      BY <2>2 DEF Choice!Gated, Choice!Free, ChoiceInv, SavedTypes
    <2>. QED BY <2>1, <2>2, <2>3, BeginStep
  <1>7. CASE Choice!Opened(o)
    <2>1. op[o].place \in ChoicePlaces
      BY DEF ChoiceInv, OpTypes, OpRecord
    <2>2. session' \in ChoicePlaces \cup {None}
      BY <1>1, <1>7, <2>1 DEF Choice!Opened
    <2>. QED BY <1>1, <1>2, <1>7, <2>2, ReturnStep DEF Choice!Opened
  <1>8. ASSUME NEW kind \in {"call", "drain"}, Choice!SessionCalled(o, kind) PROVE ChoiceInv'
    <2>1. PICK place \in ChoicePlaces : place = session
      BY <1>1, <1>8 DEF Choice!SessionCalled
    <2>2. Choice!Begins(o, kind, None, "entered", place)
          /\ UNCHANGED <<selected, account, enrolled, made, revoked, server, pending, asked, session, worker, stopped,
                         off, report, joined>>
      BY <1>8, <2>1 DEF Choice!SessionCalled
    <2>3. kind \in Choice!Gated \cup Choice!Free /\ joined' \subseteq Choice!Pairing
      BY <2>2 DEF Choice!Gated, Choice!Free, ChoiceInv, SavedTypes
    <2>. QED BY <2>2, <2>3, BeginStep
  <1>9. CASE Choice!SessionActs(o)
    <2>1. op[o].kind \in {"call", "drain"}
          /\ UNCHANGED <<selected, account, enrolled, made, joined, revoked, server, pending, session, asked, worker,
                         stopped, off, report>>
      BY <1>9 DEF Choice!SessionActs
    <2>2. CASE Choice!Returns(o)
      BY <1>1, <1>2, <2>1, <2>2, ReturnStep
    <2>3. CASE op[o].place \in Choice!Chosen /\ Choice!Goes(o, "acting")
      <3>1. op[o].place \in seen[o]
        BY <2>1, <2>3 DEF ChoiceInv, CallOk, SeenAll, Choice!Watched, Choice!Free
      <3>. QED BY <2>1, <2>3, <3>1, GoStep
    <2>. QED BY <1>9, <2>2, <2>3 DEF Choice!SessionActs, Choice!Valid
  <1>. QED BY <1>3, <1>4, <1>5, <1>6, <1>7, <1>8, <1>9

\* tasks, questions, ticks and reports
LEMMA TaskStep ==
    ASSUME Choice!SelectionAssumption, ChoiceInv, NEW o \in Op,
           \/ Choice!Done(o) \/ Choice!RunStarts(o) \/ Choice!RunGoes(o)
           \/ Choice!OnChosenStore(o) \/ Choice!Asks(o) \/ Choice!AskActs(o)
           \/ \E w \in Worker : Choice!Tick(o, w) \/ Choice!ReportStarts(o, w)
           \/ Choice!ReportEnds(o)
    PROVE  ChoiceInv'
  <1> USE DEF Choice!SelectionAssumption, Choice!saved, Choice!remotes, Choice!app, Choice!workers
  <1>1. Choice!Private \in ChoicePlaces /\ asked \in BOOLEAN /\ session \in ChoicePlaces \cup {None}
        /\ report \in [Worker -> {"none", "ready", "off"}] /\ off \subseteq Worker
        /\ joined \subseteq Choice!Pairing
    BY DEF ChoicePlaces, Choice!Place, Choice!Private, ChoiceInv, AskedType, AppTypes, WorkerTypes, SavedTypes
  <1>2. \A w \in off : w \in stopped /\ report[w] = "off" /\ \A x \in Op \ {o} : Reporting(x, w) => op[x].phase = "closing"
    BY DEF ChoiceInv, OffWorkers
  <1>3. CASE Choice!Done(o)
    <2>1. asked' \in BOOLEAN
      <3>1. asked' = (asked /\ op[o].kind # "run")
        BY <1>3 DEF Choice!Done
      <3>. QED BY <3>1, Zenon
    <2>. QED BY <1>1, <1>2, <1>3, <2>1, ReturnStep DEF Choice!Done
  <1>4. CASE Choice!RunStarts(o)
    <2>1. /\ TheStore(Choice!Private) /\ Choice!Begins(o, "run", None, "entered", Choice!Private)
          /\ UNCHANGED <<selected, account, enrolled, made, revoked, server, pending, asked, session, worker, stopped,
                         off, report, joined>>
      BY <1>4 DEF Choice!RunStarts, TheStore
    <2>2. "run" \in Choice!Gated \cup Choice!Free /\ "run" \notin Choice!Free
      BY DEF Choice!Gated, Choice!Free
    <2>. QED BY <1>1, <2>1, <2>2, BeginStep
  <1>5. CASE Choice!RunGoes(o)
    <2>1. op[o].kind = "run" /\ "run" \notin Choice!Free
          /\ UNCHANGED <<selected, account, enrolled, made, joined, revoked, server, pending, session, worker,
                         stopped, off, report>>
      BY <1>5 DEF Choice!RunGoes, Choice!In, Choice!Free
    <2>2. CASE Choice!Goes(o, "acting") /\ UNCHANGED asked
      BY <2>1, <2>2, GoStep
    <2>3. CASE Choice!Returns(o) /\ asked' = FALSE
      BY <1>1, <1>2, <2>1, <2>3, ReturnStep
    <2>. QED BY <1>5, <2>2, <2>3 DEF Choice!RunGoes
  <1>6. ASSUME Choice!OnChosenStore(o) \/ Choice!Asks(o)
        PROVE  \E place \in ChoicePlaces : TheStore(place) /\
                  \/ Choice!Begins(o, "stage", None, "acting", place)
                  \/ Choice!Begins(o, "ask", None, "entered", place)
    <2>1. CASE selected # None
      <3>1. [on |-> "primary", as |-> selected] \in ChoicePlaces
        BY <2>1 DEF ChoiceInv, SavedTypes, ChoicePlaces, Choice!Place
      <3>. QED BY <1>6, <2>1, <3>1 DEF Choice!OnChosenStore, Choice!Asks, TheStore
    <2>2. CASE selected = None
      BY <1>1, <1>6, <2>2 DEF Choice!OnChosenStore, Choice!Asks, TheStore
    <2>. QED BY <2>1, <2>2
  <1>7. CASE Choice!OnChosenStore(o) \/ Choice!Asks(o)
    <2>1. PICK place \in ChoicePlaces : TheStore(place) /\
                  \/ Choice!Begins(o, "stage", None, "acting", place)
                  \/ Choice!Begins(o, "ask", None, "entered", place)
      BY <1>6, <1>7
    <2>2. UNCHANGED <<selected, account, enrolled, made, revoked, server, pending, asked, session, worker, stopped,
                      off, report, joined>>
      BY <1>7 DEF Choice!OnChosenStore, Choice!Asks
    <2>3. {"stage", "ask"} \subseteq Choice!Gated \cup Choice!Free /\ "stage" \notin Choice!Free
      BY DEF Choice!Gated, Choice!Free
    <2>4. place \in Choice!Chosen
      BY <2>1, StoreIsChosen DEF ChoiceInv
    <2>. QED BY <1>1, <2>1, <2>2, <2>3, <2>4, BeginStep
  <1>8. CASE Choice!AskActs(o)
    <2>1. op[o].kind = "ask" /\ op[o].place \in seen[o]
          /\ UNCHANGED <<selected, account, enrolled, made, joined, revoked, server, pending, session, asked, worker,
                         stopped, off, report>>
      BY <1>8 DEF Choice!AskActs, Choice!In, ChoiceInv, CallOk, SeenOwn
    <2>2. CASE Choice!Goes(o, "acting")
      BY <2>1, <2>2, GoStep
    <2>3. CASE Choice!Returns(o)
      BY <1>1, <1>2, <2>1, <2>3, ReturnStep
    <2>. QED BY <1>8, <2>2, <2>3 DEF Choice!AskActs
  <1>9. ASSUME NEW w \in Worker, Choice!Tick(o, w) PROVE ChoiceInv'
    <2>1. PICK place \in ChoicePlaces : place = worker[w] /\ place.on = "primary" /\ place \in Choice!Chosen
      BY <1>9 DEF Choice!Tick, Choice!WorkerValid, Choice!Valid, ChoiceInv, WorkerTypes, WorkersAway
    <2>2. TheStore(place)
      BY <2>1, ChosenIs DEF TheStore, ChoiceInv
    <2>3. Choice!Begins(o, "tick", w, "acting", place)
          /\ UNCHANGED <<selected, account, enrolled, made, revoked, server, pending, asked, session, worker, stopped,
                         off, report, joined>>
      BY <1>9, <2>1 DEF Choice!Tick
    <2>4. "tick" \in Choice!Gated \cup Choice!Free /\ "tick" \notin Choice!Free
      BY DEF Choice!Gated, Choice!Free
    <2>. QED BY <1>1, <2>1, <2>2, <2>3, <2>4, BeginStep
  <1>10. ASSUME NEW w \in Worker, Choice!ReportStarts(o, w) PROVE ChoiceInv'
    <2>1. PICK place \in ChoicePlaces : place = worker[w] /\ (w \notin stopped => place \in Choice!Chosen)
      BY <1>10 DEF Choice!ReportStarts, Choice!WorkerValid, Choice!Valid, ChoiceInv, WorkerTypes
    <2>2. PICK phase \in {"acting", "closing"} : phase = IF w \in stopped THEN "closing" ELSE "acting"
      OBVIOUS
    <2>3. Choice!Begins(o, "report", w, phase, place) /\ (\A x \in Op : ~ Reporting(x, w))
          /\ UNCHANGED <<selected, account, enrolled, made, revoked, server, pending, asked, session, worker, stopped,
                         off, report, joined>>
      BY <1>10, <2>1, <2>2 DEF Choice!ReportStarts, Reporting
    <2>4. "report" \in Choice!Gated \cup Choice!Free
      BY DEF Choice!Gated, Choice!Free
    <2>. QED BY <1>1, <2>1, <2>2, <2>3, <2>4, BeginStep
  <1>11. CASE Choice!ReportEnds(o)
    <2>1. PICK w \in Worker : w = op[o].about /\ Reporting(o, w)
      BY <1>11 DEF Choice!ReportEnds, ChoiceInv, CallOk, ReportShape, Reporting
    <2>2. op[o].phase = "closing" => w \in stopped
      BY <2>1 DEF ChoiceInv, CallOk, ReportShape, Reporting
    <2>3. \A x \in Op \ {o} : ~ Reporting(x, w)
      BY <2>1 DEF ChoiceInv, ReportsApart
    <2>4. op[o].phase # "closing" => w \notin off
      BY <2>1 DEF ChoiceInv, OffWorkers
    <2>5. \/ UNCHANGED <<report, off>>
          \/ /\ report' = [report EXCEPT ![w] = IF op[o].phase = "closing" THEN "off" ELSE "ready"]
             /\ off' = IF op[o].phase = "closing" THEN off \cup {w} ELSE off
      BY <1>11, <2>1 DEF Choice!ReportEnds
    <2>6. report' \in [Worker -> {"none", "ready", "off"}] /\ off' \subseteq Worker
      BY <1>1, <2>5
    <2>7. \A v \in off' : v \in stopped /\ report'[v] = "off" /\ \A x \in Op \ {o} : Reporting(x, v) => op[x].phase = "closing"
      BY <1>1, <1>2, <2>2, <2>3, <2>4, <2>5
    <2>. QED BY <1>1, <1>11, <2>6, <2>7, ReturnStep DEF Choice!ReportEnds
  <1>. QED BY <1>3, <1>4, <1>5, <1>7, <1>8, <1>9, <1>10, <1>11

LEMMA ChoiceStep ==
    ASSUME Choice!SelectionAssumption, ChoiceInv, [Choice!Next]_(Choice!vars)
    PROVE  ChoiceInv'
  BY IdentityStep, SavedStep, AsideStep, RestartStep, JoinAndSessionStep, TaskStep
     DEF Choice!Next, Choice!StageCodingRequest, Choice!RemoteCodingCommand, Choice!RepositoryProject,
         Choice!PrivateJob, Choice!WorkflowStart, Choice!CorrectionStage, Choice!ProfileCall,
         Choice!AgentsCall, Choice!RoomsCall, Choice!Drains

\* The store a computer acts on is the one its member chose, whatever calls run at a time and
\* are overtaken by a selection, and whatever is lost on the way to the primaries.
THEOREM SelectionHolds ==
    ASSUME Choice!SelectionAssumption
    PROVE  Choice!Spec => [](Choice!TypeOK /\ Choice!SelectionSafe)
  <1>1. Choice!Init => ChoiceInv
    <2> SUFFICES ASSUME Choice!Init PROVE ChoiceInv
      OBVIOUS
    <2> USE DEF Choice!SelectionAssumption, Choice!Init
    <2>1. SavedTypes
      <3>1. account \in 1 .. (ChoiceMaxChanges + 1) /\ made \in 0 .. ChoiceMaxChanges
        OBVIOUS
      <3>2. enrolled \in BOOLEAN
        BY Zenon
      <3>. QED BY <3>1, <3>2 DEF SavedTypes
    <2>10. AppTypes /\ WorkerTypes /\ SelectedOk /\ WorkersAway
      BY DEF AppTypes, WorkerTypes, SelectedOk, WorkersAway
    <2>2. AskedType
      BY Zenon DEF AskedType
    <2>3. Choice!idle.kind = "none" /\ Choice!idle.phase = "idle" /\ "none" \notin Choice!Gated \cup Choice!Free
      BY DEF Choice!idle, Choice!Gated, Choice!Free
    <2>4. Choice!idle \in OpRecord
      BY DEF Choice!idle, OpRecord, ChoicePlaces, Choice!Place, Choice!Private
    <2>5. OpTypes /\ \A o \in Op : op[o] = Choice!idle
      BY <2>4 DEF OpTypes
    <2>6. "none" \notin {"join", "run", "stage", "tick", "ask", "report"} /\ "none" \notin Choice!Watched
      BY <2>3 DEF Choice!Watched
    <2>7. \A o \in Op : CallOk(o)
      BY <2>3, <2>5, <2>6 DEF CallOk, AtGate, JoinHonest, OnTheStore, SeenAll, SeenOwn, ReportShape, NeverActs
    <2>8. ReportsApart /\ OffWorkers
      BY <2>3, <2>5 DEF ReportsApart, OffWorkers, Reporting
    <2>. QED BY <2>1, <2>2, <2>10, <2>5, <2>7, <2>8 DEF ChoiceInv
  <1>2. ChoiceInv /\ [Choice!Next]_(Choice!vars) => ChoiceInv'
    BY ChoiceStep
  <1>3. ChoiceInv => Choice!TypeOK
    <2>1. AskedType => asked \in BOOLEAN
      BY DEF AskedType
    <2>. QED BY <2>1 DEF ChoiceInv, SavedTypes, AppTypes, WorkerTypes, OpTypes, OpRecord, ChoicePlaces, Choice!TypeOK
  <1>4. ChoiceInv => Choice!SelectionSafe
    <2> SUFFICES ASSUME ChoiceInv PROVE Choice!SelectionSafe
      OBVIOUS
    <2>1. Choice!NeverBoth /\ Choice!SelectionIsEnrolled /\ Choice!OffStaysOff
      BY DEF ChoiceInv, SelectedOk, OffWorkers, Choice!NeverBoth, Choice!SelectionIsEnrolled, Choice!OffStaysOff
    <2>2. ASSUME NEW o \in Op, op[o].phase = "acting"
          PROVE  op[o].place \in (IF op[o].kind \in Choice!Gated THEN Choice!Chosen ELSE seen[o])
      <3>1. CASE op[o].kind \in Choice!Gated
        <4>1. op[o].kind # "join"
          BY <2>2 DEF ChoiceInv, CallOk, JoinHonest
        <4>2. TheStore(op[o].place)
          BY <3>1, <4>1 DEF ChoiceInv, CallOk, OnTheStore, Choice!Gated
        <4>3. PICK p : p = op[o].place
          OBVIOUS
        <4>. QED BY <3>1, <4>2, <4>3, StoreIsChosen DEF ChoiceInv
      <3>2. CASE op[o].kind \notin Choice!Gated
        <4>1. op[o].kind \in Choice!Free
          BY <2>2, <3>2 DEF ChoiceInv, OpTypes, OpRecord, CallOk, NeverActs
        <4>. QED BY <2>2, <3>2, <4>1 DEF ChoiceInv, CallOk, SeenOwn
      <3>. QED BY <3>1, <3>2
    <2>3. Choice!ActsWhereChosen
      BY <2>2 DEF Choice!ActsWhereChosen
    <2>. QED BY <2>1, <2>3 DEF Choice!SelectionSafe
  <1>. QED BY <1>1, <1>2, <1>3, <1>4, PTL DEF Choice!Spec

\* Beside everything else, a call of the desktop acts on the store that PrimarySelection
\* says its member chose, and a computer does not serve its own store while it has selected
\* another.
THEOREM HubIsChosen == Spec => []SelectionSafe
  <1>1. Init => Choice!Init
    BY DEF Init
  <1>2. [Next]_vars => [Choice!Next]_(Choice!vars)
    <2>1. UNCHANGED choiceVars => UNCHANGED Choice!vars
      BY DEF choiceVars, Choice!vars, Choice!saved, Choice!remotes, Choice!app, Choice!workers
    <2>2. Next => Choice!Next \/ UNCHANGED choiceVars
      BY DEF Next
    <2>3. UNCHANGED vars => UNCHANGED choiceVars
      BY DEF vars
    <2>. QED BY <2>1, <2>2, <2>3
  <1>. QED BY <1>1, <1>2, ChoiceAssumed, SelectionHolds, PTL DEF Spec, Choice!Spec, SelectionSafe

(***************************************************************************)
(* Enrollment.  A code and a challenge are numbers that are given out      *)
(* once, and what was answered is no challenge any more.                   *)
(***************************************************************************)
Assertions == [id : Nat, account : Account, device : EnrollmentDevice, nonce : Nat \ {0}]
NodeRecords == [owner : Account \cup {None}, key : {"none", "good", "revoked"}]
Challenges == [nonce : Nat, over : BOOLEAN]

EnrollmentTypes ==
    /\ nodes \in [EnrollmentDevice -> NodeRecords] /\ challenge \in [EnrollmentDevice -> Challenges]
    /\ signed \subseteq Assertions /\ verified \subseteq Assertions /\ enrollments \subseteq Assertions
    /\ authority \in Account \cup {None} /\ nonces \in Nat /\ codes \in Nat
    /\ minted \in [EnrollmentDevice -> Nat] /\ pairing.code \in Nat /\ DOMAIN pairing = {"code", "missed", "over"}

CodesOnce ==
    /\ pairing.code <= codes
    /\ \A d \in EnrollmentDevice : minted[d] <= codes /\ (minted[d] # 0 => minted[d] # pairing.code)

NoncesOnce ==
    /\ \A d \in EnrollmentDevice : challenge[d].nonce <= nonces
    /\ \A d, e \in EnrollmentDevice : challenge[d].nonce = challenge[e].nonce /\ challenge[d].nonce # 0 => d = e
    /\ \A e \in enrollments : e.nonce <= nonces /\ \A d \in EnrollmentDevice : challenge[d].nonce # e.nonce

EnrollmentInv ==
    /\ EnrollmentTypes /\ CodesOnce /\ NoncesOnce
    /\ authority = None => enrollments = {}
    /\ \A d \in EnrollmentDevice : nodes[d].key = "none" => nodes[d].owner = None
    /\ Enrollment!EnrolledProperly

\* A device that gets its first key.
LEMMA MintKeeps ==
    ASSUME Enrollment!EnrollmentAssumption, EnrollmentInv, NEW d \in EnrollmentDevice, NEW code \in Nat,
           Enrollment!Mint(d, code), code = pairing.code \/ code = 0,
           pairing' \in {pairing, Enrollment!NoCode}, code # 0 => pairing' = Enrollment!NoCode,
           UNCHANGED <<codes, authority, challenge, nonces, signed, verified, enrollments>>
    PROVE  EnrollmentInv' /\ Enrollment!EnrollmentStep
  <1> DEFINE node == [owner |-> None, key |-> "good"]
  <1>1. nodes[d].key = "none" /\ nodes' = [nodes EXCEPT ![d] = node] /\ minted' = [minted EXCEPT ![d] = code]
    BY DEF Enrollment!Mint, Enrollment!Known
  <1>2. node \in NodeRecords /\ node.owner = None /\ node.key = "good"
    BY DEF NodeRecords
  <1> HIDE DEF node
  <1>3. /\ nodes'[d] = node /\ nodes' \in [EnrollmentDevice -> NodeRecords] /\ \A e \in EnrollmentDevice \ {d} : nodes'[e] = nodes[e]
        /\ minted'[d] = code /\ minted' \in [EnrollmentDevice -> Nat] /\ \A e \in EnrollmentDevice \ {d} : minted'[e] = minted[e]
    BY <1>1, <1>2 DEF EnrollmentInv, EnrollmentTypes
  <1>4. Enrollment!NoCode.code = 0 /\ DOMAIN Enrollment!NoCode = {"code", "missed", "over"}
    BY DEF Enrollment!NoCode
  <1>5. nodes[d].owner = None
    BY <1>1 DEF EnrollmentInv
  <1>6. EnrollmentTypes'
    BY <1>3, <1>4 DEF EnrollmentInv, EnrollmentTypes
  <1>7. CodesOnce'
    BY <1>3, <1>4 DEF EnrollmentInv, EnrollmentTypes, CodesOnce
  <1>8. NoncesOnce'
    BY DEF EnrollmentInv, NoncesOnce
  <1>9. \A e \in enrollments : e.device # d
    BY <1>5 DEF EnrollmentInv, EnrollmentTypes, Enrollment!EnrolledProperly, Assertions, Enrollment!EnrollmentAssumption
  <1>10. Enrollment!EnrolledProperly'
    <2>1. \A e \in enrollments' :
             /\ authority' = e.account /\ nodes'[e.device].owner = e.account
             /\ \A f \in enrollments' : e.nonce = f.nonce \/ e.id = f.id => e = f
      BY <1>3, <1>9 DEF EnrollmentInv, EnrollmentTypes, Assertions, Enrollment!EnrolledProperly
    <2>2. \A a, b \in EnrollmentDevice : minted'[a] = minted'[b] /\ minted'[a] # 0 => a = b
      BY <1>3 DEF EnrollmentInv, EnrollmentTypes, CodesOnce, Enrollment!EnrolledProperly
    <2>. QED BY <2>1, <2>2 DEF Enrollment!EnrolledProperly
  <1>11. Enrollment!BoundForGood
    BY <1>1, <1>2, <1>3, <1>5 DEF EnrollmentInv, Enrollment!BoundForGood
  <1>12. \A e \in EnrollmentDevice : nodes'[e].key = "none" => nodes'[e].owner = None
    BY <1>2, <1>3 DEF EnrollmentInv
  <1>. QED BY <1>6, <1>7, <1>8, <1>10, <1>11, <1>12 DEF EnrollmentInv, Enrollment!EnrollmentStep

\* Codes, challenges and signatures come and go; nobody is enrolled.
LEMMA PaperKeeps ==
    ASSUME EnrollmentInv, EnrollmentTypes', CodesOnce', NoncesOnce', UNCHANGED <<nodes, minted, authority, enrollments>>
    PROVE  EnrollmentInv' /\ Enrollment!EnrollmentStep
  <1>1. Enrollment!EnrolledProperly'
    BY DEF EnrollmentInv, Enrollment!EnrolledProperly
  <1>2. Enrollment!BoundForGood
    BY DEF Enrollment!BoundForGood
  <1>. QED BY <1>1, <1>2 DEF EnrollmentInv, Enrollment!EnrollmentStep

LEMMA EnrollmentRespects ==
    ASSUME Enrollment!EnrollmentAssumption, EnrollmentInv, [Enrollment!Next]_(Enrollment!vars)
    PROVE  EnrollmentInv' /\ [Enrollment!EnrollmentStep]_(Enrollment!vars)
  <1>1. CASE Enrollment!PairingCode
    <2>1. pairing' = [code |-> codes + 1, missed |-> 0, over |-> FALSE] /\ codes' = codes + 1
          /\ UNCHANGED <<minted, nodes, authority, challenge, nonces, signed, verified, enrollments>>
      BY <1>1 DEF Enrollment!PairingCode, Enrollment!enrolling
    <2>2. EnrollmentTypes' /\ CodesOnce' /\ NoncesOnce'
      BY <2>1 DEF EnrollmentInv, EnrollmentTypes, CodesOnce, NoncesOnce
    <2>. QED BY <2>1, <2>2, PaperKeeps
  <1>2. CASE Enrollment!PairingExpires \/ Enrollment!RedeemMissed
    <2>1. pairing'.code = pairing.code /\ DOMAIN pairing' = DOMAIN pairing
          /\ UNCHANGED <<codes, minted, nodes, authority, challenge, nonces, signed, verified, enrollments>>
      BY <1>2 DEF Enrollment!PairingExpires, Enrollment!RedeemMissed, Enrollment!enrolling, EnrollmentInv, EnrollmentTypes
    <2>2. EnrollmentTypes' /\ CodesOnce' /\ NoncesOnce'
      BY <2>1 DEF EnrollmentInv, EnrollmentTypes, CodesOnce, NoncesOnce
    <2>. QED BY <2>1, <2>2, PaperKeeps
  <1>3. ASSUME NEW d \in EnrollmentDevice, Enrollment!Redeem(d) PROVE EnrollmentInv' /\ Enrollment!EnrollmentStep
    <2>1. Enrollment!Mint(d, pairing.code) /\ pairing' = Enrollment!NoCode
          /\ UNCHANGED <<codes, authority, challenge, nonces, signed, verified, enrollments>>
      BY <1>3 DEF Enrollment!Redeem, Enrollment!enrolling
    <2>. QED BY <2>1, MintKeeps DEF EnrollmentInv, EnrollmentTypes
  <1>4. ASSUME NEW d \in EnrollmentDevice, NEW p \in Process, Enrollment!EnrollOwner(d) \/ Enrollment!SelfMints(p, d)
        PROVE  EnrollmentInv' /\ Enrollment!EnrollmentStep
    <2>1. Enrollment!Mint(d, 0) /\ UNCHANGED <<pairing, codes, authority, challenge, nonces, signed, verified, enrollments>>
      BY <1>4 DEF Enrollment!EnrollOwner, Enrollment!SelfMints, Enrollment!enrolling
    <2>. QED BY <2>1, MintKeeps
  <1>5. ASSUME NEW d \in EnrollmentDevice, Enrollment!Revoke(d) PROVE EnrollmentInv' /\ Enrollment!EnrollmentStep
    <2> DEFINE node == [nodes[d] EXCEPT !.key = "revoked"]
    <2>1. nodes[d].key = "good" /\ nodes' = [nodes EXCEPT ![d] = node]
          /\ UNCHANGED <<pairing, codes, minted, authority, challenge, nonces, signed, verified, enrollments>>
      BY <1>5 DEF Enrollment!Revoke, Enrollment!HasKey, Enrollment!enrolling
    <2>2. node \in NodeRecords /\ node.owner = nodes[d].owner /\ node.key = "revoked"
      BY DEF NodeRecords, EnrollmentInv, EnrollmentTypes
    <2> HIDE DEF node
    <2>3. nodes'[d] = node /\ nodes' \in [EnrollmentDevice -> NodeRecords] /\ \A e \in EnrollmentDevice \ {d} : nodes'[e] = nodes[e]
      BY <2>1, <2>2 DEF EnrollmentInv, EnrollmentTypes
    <2>4. \A e \in EnrollmentDevice : nodes'[e].owner = nodes[e].owner
      BY <2>2, <2>3
    <2>5. EnrollmentTypes' /\ CodesOnce' /\ NoncesOnce'
      BY <2>1, <2>3 DEF EnrollmentInv, EnrollmentTypes, CodesOnce, NoncesOnce
    <2>6. Enrollment!EnrolledProperly'
      BY <2>1, <2>4 DEF EnrollmentInv, EnrollmentTypes, Assertions, Enrollment!EnrolledProperly
    <2>7. Enrollment!BoundForGood
      BY <2>1, <2>2, <2>3, <2>4 DEF Enrollment!BoundForGood
    <2>. QED BY <2>1, <2>2, <2>3, <2>5, <2>6, <2>7 DEF EnrollmentInv, Enrollment!EnrollmentStep
  <1>6. ASSUME NEW d \in EnrollmentDevice, NEW a \in Account, Enrollment!SetNodeOwner(d, a) PROVE EnrollmentInv' /\ Enrollment!EnrollmentStep
    <2> DEFINE node == [nodes[d] EXCEPT !.owner = a]
    <2>1. nodes[d].key # "none" /\ nodes[d].owner \in {None, a} /\ nodes' = [nodes EXCEPT ![d] = node]
          /\ UNCHANGED <<pairing, codes, minted, authority, challenge, nonces, signed, verified, enrollments>>
      BY <1>6 DEF Enrollment!SetNodeOwner, Enrollment!MayBind, Enrollment!Known, Enrollment!enrolling
    <2>2. node \in NodeRecords /\ node.owner = a /\ node.key = nodes[d].key
      BY DEF NodeRecords, EnrollmentInv, EnrollmentTypes
    <2> HIDE DEF node
    <2>3. nodes'[d] = node /\ nodes' \in [EnrollmentDevice -> NodeRecords] /\ \A e \in EnrollmentDevice \ {d} : nodes'[e] = nodes[e]
      BY <2>1, <2>2 DEF EnrollmentInv, EnrollmentTypes
    <2>4. \A e \in EnrollmentDevice : nodes[e].owner # None => nodes'[e].owner = nodes[e].owner
      BY <2>1, <2>2, <2>3
    <2>5. EnrollmentTypes' /\ CodesOnce' /\ NoncesOnce'
      BY <2>1, <2>3 DEF EnrollmentInv, EnrollmentTypes, CodesOnce, NoncesOnce
    <2>6. Enrollment!EnrolledProperly'
      BY <2>1, <2>4 DEF EnrollmentInv, EnrollmentTypes, Assertions, Enrollment!EnrolledProperly, Enrollment!EnrollmentAssumption
    <2>7. Enrollment!BoundForGood
      BY <2>1, <2>2, <2>3, <2>4 DEF Enrollment!BoundForGood
    <2>. QED BY <2>1, <2>2, <2>3, <2>5, <2>6, <2>7 DEF EnrollmentInv, Enrollment!EnrollmentStep
  <1>7. ASSUME NEW d \in EnrollmentDevice, Enrollment!EnrollmentChallenge(d) PROVE EnrollmentInv' /\ Enrollment!EnrollmentStep
    <2> DEFINE new == [nonce |-> nonces + 1, over |-> FALSE]
    <2>1. nonces' = nonces + 1 /\ challenge' = [challenge EXCEPT ![d] = new]
          /\ UNCHANGED <<pairing, codes, minted, nodes, authority, signed, verified, enrollments>>
      BY <1>7 DEF Enrollment!EnrollmentChallenge, Enrollment!keys
    <2>2. new \in Challenges /\ new.nonce = nonces + 1
      BY DEF Challenges, EnrollmentInv, EnrollmentTypes
    <2> HIDE DEF new
    <2>3. challenge'[d] = new /\ challenge' \in [EnrollmentDevice -> Challenges] /\ \A e \in EnrollmentDevice \ {d} : challenge'[e] = challenge[e]
      BY <2>1, <2>2 DEF EnrollmentInv, EnrollmentTypes
    <2>4. EnrollmentTypes' /\ CodesOnce'
      BY <2>1, <2>3 DEF EnrollmentInv, EnrollmentTypes, CodesOnce
    <2>5. NoncesOnce'
      BY <2>1, <2>2, <2>3 DEF EnrollmentInv, EnrollmentTypes, NoncesOnce, Challenges, Assertions
    <2>. QED BY <2>1, <2>4, <2>5, PaperKeeps
  <1>8. ASSUME NEW d \in EnrollmentDevice, Enrollment!ChallengeExpires(d) PROVE EnrollmentInv' /\ Enrollment!EnrollmentStep
    <2> DEFINE new == [challenge[d] EXCEPT !.over = TRUE]
    <2>1. challenge' = [challenge EXCEPT ![d] = new]
          /\ UNCHANGED <<pairing, codes, minted, nodes, authority, nonces, signed, verified, enrollments>>
      BY <1>8 DEF Enrollment!ChallengeExpires, Enrollment!keys
    <2>2. new \in Challenges /\ new.nonce = challenge[d].nonce
      BY DEF Challenges, EnrollmentInv, EnrollmentTypes
    <2> HIDE DEF new
    <2>3. challenge' \in [EnrollmentDevice -> Challenges] /\ \A e \in EnrollmentDevice : challenge'[e].nonce = challenge[e].nonce
      BY <2>1, <2>2 DEF EnrollmentInv, EnrollmentTypes
    <2>4. EnrollmentTypes' /\ CodesOnce'
      BY <2>1, <2>3 DEF EnrollmentInv, EnrollmentTypes, CodesOnce
    <2>5. NoncesOnce'
      BY <2>1, <2>3 DEF EnrollmentInv, NoncesOnce
    <2>. QED BY <2>1, <2>4, <2>5, PaperKeeps
  <1>9. ASSUME NEW d \in EnrollmentDevice, NEW a \in Account, Enrollment!Sign(a, d) PROVE EnrollmentInv' /\ Enrollment!EnrollmentStep
    <2>1. challenge[d].nonce # 0 /\ UNCHANGED <<pairing, codes, minted, nodes, authority, challenge, nonces, verified, enrollments>>
      BY <1>9 DEF Enrollment!Sign, Enrollment!keys
    <2>2. PICK id \in 1 .. MaxSigned :
             signed' = signed \cup {[id |-> id, account |-> a, device |-> d, nonce |-> challenge[d].nonce]}
      BY <1>9 DEF Enrollment!Sign
    <2>3. challenge[d].nonce \in Nat \ {0} /\ id \in Nat
      BY <2>1 DEF EnrollmentInv, EnrollmentTypes, Challenges, Enrollment!EnrollmentAssumption
    <2>4. [id |-> id, account |-> a, device |-> d, nonce |-> challenge[d].nonce] \in Assertions
      BY <2>3 DEF Assertions
    <2>5. EnrollmentTypes' /\ CodesOnce' /\ NoncesOnce'
      BY <2>1, <2>2, <2>4 DEF EnrollmentInv, EnrollmentTypes, CodesOnce, NoncesOnce
    <2>. QED BY <2>1, <2>5, PaperKeeps
  <1>10. ASSUME NEW s \in signed, Enrollment!AssertionExpires(s) \/ Enrollment!CompleteVerifies(s)
         PROVE  EnrollmentInv' /\ Enrollment!EnrollmentStep
    <2>1. signed' \subseteq signed /\ verified' \subseteq verified \cup signed
          /\ UNCHANGED <<pairing, codes, minted, nodes, authority, challenge, nonces, enrollments>>
      BY <1>10 DEF Enrollment!AssertionExpires, Enrollment!CompleteVerifies, Enrollment!keys
    <2>2. EnrollmentTypes' /\ CodesOnce' /\ NoncesOnce'
      BY <2>1 DEF EnrollmentInv, EnrollmentTypes, CodesOnce, NoncesOnce
    <2>. QED BY <2>1, <2>2, PaperKeeps
  <1>11. ASSUME NEW s \in signed \cup verified, NEW first \in BOOLEAN, Enrollment!AcceptEnrollment(s, first)
         PROVE  EnrollmentInv' /\ Enrollment!EnrollmentStep
    <2> DEFINE d == s.device  a == s.account
               node == [nodes[d] EXCEPT !.owner = a]
    <2>0. s \in Assertions /\ d \in EnrollmentDevice /\ a \in Account /\ a # None /\ s.nonce # 0
      BY DEF EnrollmentInv, EnrollmentTypes, Assertions, Enrollment!EnrollmentAssumption
    <2>1. /\ nodes[d].key = "good" /\ authority \in {None, a} /\ challenge[d].nonce = s.nonce
          /\ nodes[d].owner \in {None, a} /\ \A e \in enrollments : e.id # s.id
          /\ enrollments' = enrollments \cup {s} /\ nodes' = [nodes EXCEPT ![d] = node] /\ authority' = a
          /\ challenge' = [challenge EXCEPT ![d] = Enrollment!NoChallenge] /\ verified' \subseteq verified
          /\ UNCHANGED <<pairing, codes, minted, nonces, signed>>
      BY <1>11 DEF Enrollment!AcceptEnrollment, Enrollment!HasKey, Enrollment!RightFleet, Enrollment!Answers,
                   Enrollment!MayBind, Enrollment!UsedUp
    <2>2. node \in NodeRecords /\ node.owner = a /\ node.key = "good"
      BY <2>0, <2>1 DEF NodeRecords, EnrollmentInv, EnrollmentTypes
    <2>3. Enrollment!NoChallenge \in Challenges /\ Enrollment!NoChallenge.nonce = 0
      BY DEF Enrollment!NoChallenge, Challenges
    <2> HIDE DEF node
    <2>4. nodes'[d] = node /\ nodes' \in [EnrollmentDevice -> NodeRecords] /\ \A e \in EnrollmentDevice \ {d} : nodes'[e] = nodes[e]
      BY <2>0, <2>1, <2>2 DEF EnrollmentInv, EnrollmentTypes
    <2>5. challenge'[d].nonce = 0 /\ challenge' \in [EnrollmentDevice -> Challenges] /\ \A e \in EnrollmentDevice \ {d} : challenge'[e] = challenge[e]
      BY <2>0, <2>1, <2>3 DEF EnrollmentInv, EnrollmentTypes
    <2> HIDE DEF d, a
    <2>6. \A e \in EnrollmentDevice : nodes[e].owner # None => nodes'[e].owner = nodes[e].owner
      BY <2>1, <2>2, <2>4
    <2>7. \A e \in enrollments : e.nonce # s.nonce /\ e.account = a /\ e.device \in EnrollmentDevice /\ nodes[e.device].owner = e.account
                                 /\ e.account # None
      BY <2>0, <2>1 DEF EnrollmentInv, EnrollmentTypes, NoncesOnce, Assertions, Enrollment!EnrolledProperly, Enrollment!EnrollmentAssumption
    <2>8. EnrollmentTypes' /\ CodesOnce'
      BY <2>0, <2>1, <2>4, <2>5 DEF EnrollmentInv, EnrollmentTypes, CodesOnce
    <2>9. NoncesOnce'
      <3>1. \A e, f \in EnrollmentDevice : challenge'[e].nonce = challenge'[f].nonce /\ challenge'[e].nonce # 0 => e = f
        BY <2>5 DEF EnrollmentInv, EnrollmentTypes, NoncesOnce
      <3>2. \A e \in EnrollmentDevice : challenge'[e].nonce <= nonces'
        BY <2>1, <2>5 DEF EnrollmentInv, EnrollmentTypes, NoncesOnce
      <3>3. s.nonce <= nonces' /\ \A e \in EnrollmentDevice : challenge'[e].nonce # s.nonce
        BY <2>0, <2>1, <2>5 DEF EnrollmentInv, EnrollmentTypes, NoncesOnce
      <3>4. \A e \in enrollments : e.nonce <= nonces' /\ \A f \in EnrollmentDevice : challenge'[f].nonce # e.nonce
        BY <2>1, <2>5 DEF EnrollmentInv, EnrollmentTypes, NoncesOnce, Assertions
      <3>. QED BY <2>1, <3>1, <3>2, <3>3, <3>4 DEF NoncesOnce
    <2>10. Enrollment!EnrolledProperly'
      <3>1. nodes'[s.device].owner = s.account /\ authority' = s.account
        BY <2>1, <2>2, <2>4 DEF d, a
      <3>2. \A e \in enrollments : authority' = e.account /\ nodes'[e.device].owner = e.account
        BY <2>1, <2>6, <2>7
      <3>3. \A e, f \in enrollments : e.nonce = f.nonce \/ e.id = f.id => e = f
        BY DEF EnrollmentInv, Enrollment!EnrolledProperly
      <3>4. \A e, f \in enrollments' : e.nonce = f.nonce \/ e.id = f.id => e = f
        BY <2>1, <2>7, <3>3
      <3>5. \A e, f \in EnrollmentDevice : minted'[e] = minted'[f] /\ minted'[e] # 0 => e = f
        BY <2>1 DEF EnrollmentInv, Enrollment!EnrolledProperly
      <3>. QED BY <2>1, <3>1, <3>2, <3>4, <3>5 DEF Enrollment!EnrolledProperly
    <2>11. Enrollment!BoundForGood
      <3>1. authority # None => authority' = authority
        BY <2>1
      <3>2. \A e \in EnrollmentDevice : nodes[e].key = "revoked" => nodes'[e].key = "revoked" /\ e # d
        BY <2>1, <2>4
      <3>3. \A e \in enrollments' : e.device # d => e \in enrollments
        BY <2>1 DEF d
      <3>. QED BY <2>6, <3>1, <3>2, <3>3 DEF Enrollment!BoundForGood
    <2>12. authority' # None /\ \A e \in EnrollmentDevice : nodes'[e].key = "none" => nodes'[e].owner = None
      BY <2>0, <2>1, <2>2, <2>4 DEF EnrollmentInv
    <2>. QED BY <2>8, <2>9, <2>10, <2>11, <2>12 DEF EnrollmentInv, Enrollment!EnrollmentStep
  <1>12. ASSUME NEW p \in Process, Enrollment!SelfSaves(p) PROVE EnrollmentInv' /\ Enrollment!EnrollmentStep
    <2>1. UNCHANGED <<pairing, codes, minted, nodes, authority, challenge, nonces, signed, verified, enrollments>>
      BY <1>12 DEF Enrollment!SelfSaves, Enrollment!enrolling
    <2>2. EnrollmentTypes' /\ CodesOnce' /\ NoncesOnce'
      BY <2>1 DEF EnrollmentInv, EnrollmentTypes, CodesOnce, NoncesOnce
    <2>. QED BY <2>1, <2>2, PaperKeeps
  <1>13. CASE UNCHANGED Enrollment!vars
    <2>1. UNCHANGED <<pairing, codes, minted, nodes, authority, challenge, nonces, signed, verified, enrollments>>
      BY <1>13 DEF Enrollment!vars, Enrollment!keys, Enrollment!enrolling
    <2>2. EnrollmentTypes' /\ CodesOnce' /\ NoncesOnce'
      BY <2>1 DEF EnrollmentInv, EnrollmentTypes, CodesOnce, NoncesOnce
    <2>. QED BY <2>1, <2>2, PaperKeeps
  <1>14. CASE Enrollment!Configure \/ Enrollment!CompleteAccepts
    BY <1>11, <1>14 DEF Enrollment!Configure, Enrollment!CompleteAccepts
  <1>15. CASE \E d \in EnrollmentDevice : Enrollment!EnrollOwner(d)
    <2>1. PICK d \in EnrollmentDevice : Enrollment!EnrollOwner(d)
      BY <1>15
    <2>2. Enrollment!Mint(d, 0) /\ UNCHANGED <<pairing, codes, authority, challenge, nonces, signed, verified, enrollments>>
      BY <2>1 DEF Enrollment!EnrollOwner, Enrollment!enrolling
    <2>. QED BY <2>2, MintKeeps
  <1>. QED
    BY <1>1, <1>2, <1>3, <1>4, <1>5, <1>6, <1>7, <1>8, <1>9, <1>10, <1>12, <1>13, <1>14, <1>15 DEF Enrollment!Next

\* Whoever is enrolled answered a challenge of its own that nobody answered before, and belongs
\* to the account the authority was configured for; a code made one device; a device stays with
\* its account, and a key that was revoked enrolls nothing more: for any devices, accounts,
\* processes, codes and assertions, whatever is verified while something else is accepted.
THEOREM EnrolledOnce ==
    ASSUME Enrollment!EnrollmentAssumption
    PROVE  Enrollment!Spec => Enrollment!EnrollmentSafe
  <1>1. Enrollment!Init => EnrollmentInv
    <2>. SUFFICES ASSUME Enrollment!Init PROVE EnrollmentInv
      OBVIOUS
    <2>1. Enrollment!NoNode \in NodeRecords /\ Enrollment!NoNode.owner = None
      BY DEF Enrollment!NoNode, NodeRecords
    <2>2. Enrollment!NoChallenge \in Challenges /\ Enrollment!NoChallenge.nonce = 0
      BY DEF Enrollment!NoChallenge, Challenges
    <2>3. Enrollment!NoCode.code = 0 /\ DOMAIN Enrollment!NoCode = {"code", "missed", "over"}
      BY DEF Enrollment!NoCode
    <2>. QED
      BY <2>1, <2>2, <2>3 DEF Enrollment!Init, EnrollmentInv, EnrollmentTypes, CodesOnce, NoncesOnce, Enrollment!EnrolledProperly
  <1>2. EnrollmentInv /\ [Enrollment!Next]_(Enrollment!vars) => EnrollmentInv' /\ [Enrollment!EnrollmentStep]_(Enrollment!vars)
    BY EnrollmentRespects
  <1>. QED BY <1>1, <1>2, PTL DEF Enrollment!Spec, Enrollment!EnrollmentSafe

\* Beside everything else, a device enrolls only by an assertion for the open challenge of
\* its own authority or by a code that it redeemed first, and keeps the account it was
\* enrolled for.
THEOREM HubEnrolls == Spec => EnrollmentSafe
  <1>1. Init => Enrollment!Init
    BY DEF Init
  <1>2. [Next]_vars => [Enrollment!Next]_(Enrollment!vars)
    <2>1. UNCHANGED enrollVars => UNCHANGED Enrollment!vars
      BY DEF enrollVars, Enrollment!vars, Enrollment!keys, Enrollment!enrolling
    <2>2. Next => Enrollment!Next \/ UNCHANGED enrollVars
      BY DEF Next
    <2>3. UNCHANGED vars => UNCHANGED enrollVars
      BY DEF vars
    <2>. QED BY <2>1, <2>2, <2>3
  <1>3. [Enrollment!EnrollmentStep]_(Enrollment!vars) => [moving = "enroll" => Enrollment!EnrollmentStep]_enrollVars
    <2>1. UNCHANGED Enrollment!vars => UNCHANGED enrollVars
      BY DEF enrollVars, Enrollment!vars, Enrollment!keys, Enrollment!enrolling
    <2>. QED BY <2>1
  <1>. QED BY <1>1, <1>2, EnrollmentAssumed, <1>3, EnrolledOnce, PTL DEF Spec, Enrollment!Spec, EnrollmentSafe, Enrollment!EnrollmentSafe
=============================================================================
