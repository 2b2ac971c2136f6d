---------------------------- MODULE Fleet_proofs ----------------------------
(*****************************************************************************)
(* Theorems about the fleet: first those about each part, for every value    *)
(* of its parameters, then, from the fact that a behaviour of the whole is   *)
(* one of each part, what the whole keeps.                                   *)
(*****************************************************************************)
EXTENDS Fleet, Integers, FiniteSetTheorems, SequenceTheorems, WellFoundedInduction, TLAPS

(***************************************************************************)
(* The natural numbers are well ordered.                                   *)
(***************************************************************************)
LEMMA LessIsRelated == \A x, y \in Nat : x < y => <<x, y>> \in OpToRel(<, Nat)
  BY DEF OpToRel

\* A set of natural numbers that is not empty has a least element.
LEMMA NatLeast ==
    ASSUME NEW S \in SUBSET Nat, S # {}
    PROVE  \E m \in S : \A n \in S : m <= n
  <1>1. IsWellFoundedOn(OpToRel(<, Nat), Nat)
    BY NatLessThanWellFounded
  <1>2. PICK m \in S : \A n \in S : ~ (<<n, m>> \in OpToRel(<, Nat))
    BY <1>1, WFMin
  <1>3. \A n \in S : ~ (n < m)
    BY <1>2, LessIsRelated, Zenon
  <1>. QED BY <1>3

\* One that is bounded has a greatest one.
LEMMA NatGreatest ==
    ASSUME NEW b \in Nat, NEW S \in SUBSET (0 .. b), S # {}
    PROVE  \E m \in S : \A n \in S : n <= m
  <1> DEFINE T == {b - n : n \in S}
  <1>1. T \in SUBSET Nat /\ T # {}
    <2>1. \A n \in S : b - n \in Nat
      OBVIOUS
    <2>2. PICK n \in S : TRUE
      OBVIOUS
    <2>. QED BY <2>1, <2>2
  <1>2. PICK t \in T : \A u \in T : t <= u
    BY <1>1, NatLeast
  <1>3. PICK m \in S : t = b - m
    BY <1>2
  <1>4. \A n \in S : b - m <= b - n
    BY <1>2, <1>3
  <1>. QED BY <1>4

(***************************************************************************)
(* Sums as MapThenSumSet makes them: a recursive function on the subsets   *)
(* of a finite set.                                                        *)
(***************************************************************************)
SumStep(h, S, r) ==
    r = [s \in SUBSET S |-> IF s = {} THEN 0 ELSE h[CHOOSE x \in s : TRUE] + r[s \ {CHOOSE x \in s : TRUE}]]

\* A set of subsets of a finite set that with every member has the one without some element of it is empty.
LEMMA Descent ==
    ASSUME NEW S, IsFiniteSet(S), NEW B \in SUBSET (SUBSET S), {} \notin B,
           \A s \in B : s \ {CHOOSE x \in s : TRUE} \in B
    PROVE  B = {}
  <1>. SUFFICES ASSUME B # {} PROVE FALSE
    OBVIOUS
  <1>1. \A s \in B : IsFiniteSet(s) /\ Cardinality(s) \in Nat
    BY FS_Subset, FS_CardinalityType
  <1> DEFINE sizes == {Cardinality(s) : s \in B}
  <1>2. sizes \in SUBSET Nat /\ sizes # {}
    BY <1>1
  <1>3. PICK m \in sizes : \A n \in sizes : m <= n
    <2>. HIDE DEF sizes
    <2>. QED BY <1>2, NatLeast
  <1>4. PICK s \in B : m = Cardinality(s)
    BY <1>3
  <1>5. PICK c : c = CHOOSE x \in s : TRUE
    OBVIOUS
  <1>6. c \in s
    BY <1>4, <1>5
  <1>7. Cardinality(s \ {c}) = Cardinality(s) - 1
    BY <1>1, <1>4, <1>6, FS_RemoveElement
  <1>8. s \ {c} \in B
    BY <1>4, <1>5
  <1>9. m <= Cardinality(s \ {c})
    BY <1>3, <1>8
  <1>. QED BY <1>1, <1>4, <1>7, <1>9

LEMMA SumStepExists ==
    ASSUME NEW h, NEW S, IsFiniteSet(S)
    PROVE  \E r : SumStep(h, S, r)
  <1> DEFINE Small(n) == {s \in SUBSET S : Cardinality(s) <= n}
             Sums(n, r) == r = [s \in Small(n) |-> IF s = {} THEN 0 ELSE h[CHOOSE x \in s : TRUE] + r[s \ {CHOOSE x \in s : TRUE}]]
             missing == {n \in Nat : ~ \E r : Sums(n, r)}
  <1>1. \A s \in SUBSET S : IsFiniteSet(s) /\ Cardinality(s) \in Nat /\ Cardinality(s) <= Cardinality(S)
    BY FS_Subset, FS_CardinalityType
  <1>2. Cardinality(S) \in Nat
    BY FS_CardinalityType
  <1>3. ASSUME missing # {} PROVE FALSE
    <2>1. PICK m \in missing : \A n \in missing : m <= n
      <3>1. missing \in SUBSET Nat
        OBVIOUS
      <3>. HIDE DEF missing
      <3>. QED BY <1>3, <3>1, NatLeast
    <2>2. m \in Nat /\ ~ \E r : Sums(m, r)
      BY <2>1
    <2>3. CASE m = 0
      <3>1. \A s \in Small(0) : s = {}
        BY <1>1, FS_EmptySet
      <3>2. PICK r : r = [s \in Small(0) |-> 0]
        OBVIOUS
      <3>3. Sums(0, r)
        BY <3>1, <3>2
      <3> HIDE DEF Sums
      <3>4. \E x : Sums(0, x)
        BY <3>3
      <3>. QED BY <2>2, <2>3, <3>4
    <2>4. CASE m # 0
      <3>1. PICK k \in Nat : k = m - 1
        BY <2>2, <2>4
      <3>2. k \notin missing
        <4>1. ~ (m <= k)
          BY <2>2, <3>1
        <4>. QED BY <2>1, <4>1
      <3>3. PICK r : Sums(k, r)
        BY <3>2
      <3>4. PICK q : q = [s \in Small(m) |-> IF s = {} THEN 0 ELSE h[CHOOSE x \in s : TRUE] + r[s \ {CHOOSE x \in s : TRUE}]]
        OBVIOUS
      <3>5. ASSUME NEW s \in Small(m), s # {} PROVE s \ {CHOOSE x \in s : TRUE} \in Small(k)
        <4>1. PICK c : c = CHOOSE x \in s : TRUE
          OBVIOUS
        <4>2. c \in s /\ s \in SUBSET S
          BY <3>5, <4>1
        <4>3. Cardinality(s \ {c}) = Cardinality(s) - 1
          BY <1>1, <4>2, FS_RemoveElement
        <4>4. Cardinality(s \ {c}) <= k /\ s \ {c} \in SUBSET S
          BY <1>1, <2>2, <3>1, <4>2, <4>3
        <4>. QED BY <4>1, <4>4
      <3>6. \A s \in Small(k) : s \in Small(m)
        BY <1>1, <2>2, <3>1
      <3>7. \A s \in Small(k) : q[s] = r[s]
        <4>1. \A s \in Small(k) : r[s] = IF s = {} THEN 0 ELSE h[CHOOSE x \in s : TRUE] + r[s \ {CHOOSE x \in s : TRUE}]
          BY <3>3
        <4>. QED BY <3>4, <3>6, <4>1
      <3>8. Sums(m, q)
        <4>1. \A s \in Small(m) : s # {} => q[s \ {CHOOSE x \in s : TRUE}] = r[s \ {CHOOSE x \in s : TRUE}]
          BY <3>5, <3>7
        <4>. HIDE DEF Small
        <4>2. ASSUME NEW s \in Small(m)
              PROVE  q[s] = IF s = {} THEN 0 ELSE h[CHOOSE x \in s : TRUE] + q[s \ {CHOOSE x \in s : TRUE}]
          <5>1. q[s] = IF s = {} THEN 0 ELSE h[CHOOSE x \in s : TRUE] + r[s \ {CHOOSE x \in s : TRUE}]
            BY <3>4
          <5>2. s # {} => q[s \ {CHOOSE x \in s : TRUE}] = r[s \ {CHOOSE x \in s : TRUE}]
            BY <4>1
          <5>. QED BY <5>1, <5>2
        <4>3. q = [s \in Small(m) |-> q[s]]
          BY <3>4
        <4>4. q = [s \in Small(m) |-> IF s = {} THEN 0 ELSE h[CHOOSE x \in s : TRUE] + q[s \ {CHOOSE x \in s : TRUE}]]
          BY <4>2, <4>3
        <4>. QED BY <4>4
      <3>. QED BY <2>2, <3>8
    <2>. QED BY <2>3, <2>4
  <1>4. PICK r : Sums(Cardinality(S), r)
    BY <1>2, <1>3
  <1>5. Small(Cardinality(S)) = SUBSET S
    BY <1>1
  <1>6. SumStep(h, S, r)
    BY <1>4, <1>5 DEF SumStep
  <1>. QED BY <1>6

\* What such a function is, without its domain.
SumTable(h, S, r) ==
    /\ r[{}] = 0
    /\ \A s \in SUBSET S : s # {} => r[s] = h[CHOOSE x \in s : TRUE] + r[s \ {CHOOSE x \in s : TRUE}]

LEMMA TableExists ==
    ASSUME NEW h, NEW S, NEW r, SumStep(h, S, r)
    PROVE  SumTable(h, S, r)
  BY DEF SumStep, SumTable

\* It adds up integers, and any element may be added last.
TableAdds(h, S, r) == \A s \in SUBSET S : r[s] \in Int /\ \A x \in s : r[s] = h[x] + r[s \ {x}]

LEMMA TableAny ==
    ASSUME NEW S, IsFiniteSet(S), NEW h \in [S -> Int], NEW r, SumTable(h, S, r)
    PROVE  TableAdds(h, S, r)
  <1> DEFINE Fine(s) == r[s] \in Int /\ \A x \in s : r[s] = h[x] + r[s \ {x}]
             sizes == {n \in Nat : \E s \in SUBSET S : Cardinality(s) = n /\ ~ Fine(s)}
  <1>1. \A s \in SUBSET S : IsFiniteSet(s) /\ Cardinality(s) \in Nat
    BY FS_Subset, FS_CardinalityType
  <1>2. ASSUME sizes # {} PROVE FALSE
    <2>1. PICK m \in sizes : \A n \in sizes : m <= n
      <3>1. sizes \in SUBSET Nat
        OBVIOUS
      <3>. HIDE DEF sizes
      <3>. QED BY <1>2, <3>1, NatLeast
    <2>2. PICK s \in SUBSET S : Cardinality(s) = m /\ ~ Fine(s)
      BY <2>1
    <2>3. ASSUME NEW x \in s PROVE Fine(s \ {x})
      <3>1. s \ {x} \in SUBSET S /\ Cardinality(s \ {x}) = Cardinality(s) - 1 /\ Cardinality(s \ {x}) \in Nat
        BY <1>1, FS_RemoveElement
      <3>2. ~ (m <= Cardinality(s \ {x}))
        BY <1>1, <2>2, <3>1
      <3>. QED BY <2>1, <3>1, <3>2
    <2>4. CASE s = {}
      BY <2>2, <2>4 DEF SumTable
    <2>5. CASE s # {}
      <3>1. PICK c : c = CHOOSE x \in s : TRUE
        OBVIOUS
      <3>2. c \in s /\ r[s] = h[c] + r[s \ {c}] /\ h[c] \in Int
        BY <2>5, <3>1 DEF SumTable
      <3>3. r[s \ {c}] \in Int /\ r[s] \in Int
        BY <2>3, <3>2
      <3>4. ASSUME NEW x \in s, x # c PROVE r[s] = h[x] + r[s \ {x}]
        <4>1. x \in s \ {c} /\ c \in s \ {x} /\ h[x] \in Int
          BY <3>2, <3>4
        <4>2. r[s \ {c}] = h[x] + r[(s \ {c}) \ {x}]
          BY <2>3, <3>2, <4>1
        <4>3. r[s \ {x}] = h[c] + r[(s \ {x}) \ {c}] /\ r[s \ {x}] \in Int
          BY <2>3, <4>1
        <4>4. (s \ {c}) \ {x} = (s \ {x}) \ {c}
          OBVIOUS
        <4>5. PICK y : y = r[(s \ {x}) \ {c}]
          OBVIOUS
        <4>6. y \in Int
          <5>1. (s \ {x}) \ {c} \in SUBSET S /\ Cardinality((s \ {x}) \ {c}) \in Nat
            BY <1>1
          <5>2. Cardinality(s \ {x}) = Cardinality(s) - 1 /\ Cardinality((s \ {x}) \ {c}) = Cardinality(s) - 1 - 1
            <6>1. IsFiniteSet(s) /\ IsFiniteSet(s \ {x}) /\ x \in s
              BY <1>1
            <6>2. Cardinality(s \ {x}) = Cardinality(s) - 1
              BY <6>1, FS_RemoveElement
            <6>3. Cardinality((s \ {x}) \ {c}) = Cardinality(s \ {x}) - 1
              BY <4>1, <6>1, FS_RemoveElement
            <6>. QED BY <6>2, <6>3
          <5>3. ~ (m <= Cardinality((s \ {x}) \ {c}))
            BY <1>1, <2>2, <5>2
          <5>. QED BY <2>1, <4>5, <5>1, <5>3
        <4>7. r[s \ {c}] = h[x] + y /\ r[s \ {x}] = h[c] + y
          BY <4>2, <4>3, <4>4, <4>5
        <4>. QED BY <3>2, <4>1, <4>6, <4>7
      <3>5. Fine(s)
        BY <3>2, <3>3, <3>4
      <3>. QED BY <2>2, <3>5
    <2>. QED BY <2>4, <2>5
  <1>. QED BY <1>1, <1>2 DEF TableAdds

LEMMA TableUnion ==
    ASSUME NEW S, IsFiniteSet(S), NEW h \in [S -> Int], NEW r, SumTable(h, S, r),
           NEW D \in SUBSET S, NEW E \in SUBSET S, D \cap E = {}
    PROVE  r[D \cup E] = r[D] + r[E]
  <1> DEFINE B == {s \in SUBSET E : ~ (r[D \cup s] = r[D] + r[s])}
  <1>1. \A s \in SUBSET S : r[s] \in Int /\ \A x \in s : r[s] = h[x] + r[s \ {x}]
    <2>1. TableAdds(h, S, r)
      BY TableAny
    <2>. QED BY <2>1 DEF TableAdds
  <1>2. {} \notin B
    <2>1. r[{}] = 0 /\ D \cup {} = D /\ r[D] \in Int
      BY <1>1 DEF SumTable
    <2>. QED BY <2>1
  <1>3. ASSUME NEW s \in B PROVE s \ {CHOOSE x \in s : TRUE} \in B
    <2>1. PICK c : c = CHOOSE x \in s : TRUE
      OBVIOUS
    <2>2. c \in s /\ s \in SUBSET E /\ s \in SUBSET S /\ D \cup s \in SUBSET S /\ c \in D \cup s /\ h[c] \in Int
      BY <1>2, <2>1
    <2>3. (D \cup s) \ {c} = D \cup (s \ {c})
      BY <2>2
    <2>4. r[D \cup s] = h[c] + r[D \cup (s \ {c})] /\ r[s] = h[c] + r[s \ {c}]
      BY <1>1, <2>2, <2>3
    <2>5. r[D] \in Int /\ r[s \ {c}] \in Int /\ r[D \cup (s \ {c})] \in Int
      BY <1>1, <2>2
    <2>6. CASE r[D \cup (s \ {c})] = r[D] + r[s \ {c}]
      <3>1. r[D \cup s] = r[D] + r[s]
        BY <2>2, <2>4, <2>5, <2>6
      <3>. QED BY <3>1
    <2>. QED BY <2>1, <2>2, <2>6
  <1>4. B = {}
    <2>1. IsFiniteSet(E) /\ B \in SUBSET (SUBSET E)
      BY FS_Subset
    <2>. HIDE DEF B
    <2>. QED BY <1>2, <1>3, <2>1, Descent
  <1>. QED BY <1>4

\* Over a smaller set it is the same function.
LEMMA TableSame ==
    ASSUME NEW S, NEW h, NEW r, SumTable(h, S, r), NEW T \in SUBSET S, IsFiniteSet(T),
           NEW k, NEW q, SumTable(k, T, q), \A x \in T : k[x] = h[x]
    PROVE  q[T] = r[T]
  <1> DEFINE B == {s \in SUBSET T : q[s] # r[s]}
  <1>1. {} \notin B
    BY DEF SumTable
  <1>2. ASSUME NEW s \in B PROVE s \ {CHOOSE x \in s : TRUE} \in B
    <2>1. PICK c : c = CHOOSE x \in s : TRUE
      OBVIOUS
    <2>2. c \in s /\ s \in SUBSET T /\ s \in SUBSET S /\ s # {}
      BY <1>1, <2>1
    <2>3. r[s] = h[c] + r[s \ {c}] /\ q[s] = k[c] + q[s \ {c}] /\ k[c] = h[c]
      BY <2>1, <2>2 DEF SumTable
    <2>. QED BY <2>1, <2>2, <2>3
  <1>3. B = {}
    <2>. HIDE DEF B
    <2>. QED BY <1>1, <1>2, Descent
  <1>. QED BY <1>3

(***************************************************************************)
(* Dispatch and money.  Sums come from MapThenSumSet; that changing one    *)
(* amount changes a sum by as much is shown by induction on the size of    *)
(* the sets summed over (NatLeast).                                        *)
(***************************************************************************)
SumOf(h, S) == Dispatch!MapThenSumSet(LAMBDA x : h[x], S)

LEMMA SumIs ==
    ASSUME NEW h, NEW S
    PROVE  SumOf(h, S) = (CHOOSE r : SumStep(h, S, r))[S]
  BY DEF SumOf, Dispatch!MapThenSumSet, Dispatch!MapThenFoldSet, SumStep

\* The sum over S is what its recursive function has for S.
LEMMA SumBy ==
    ASSUME NEW h, NEW S, IsFiniteSet(S)
    PROVE  \E r : SumOf(h, S) = r[S] /\ SumTable(h, S, r)
  <1>1. PICK r : r = CHOOSE q : SumStep(h, S, q)
    OBVIOUS
  <1>2. SumStep(h, S, r)
    BY <1>1, SumStepExists
  <1>3. SumOf(h, S) = r[S]
    BY <1>1, SumIs
  <1>4. SumTable(h, S, r)
    BY <1>2 DEF SumStep, SumTable
  <1>. QED BY <1>3, <1>4

LEMMA SumNat ==
    ASSUME NEW S, IsFiniteSet(S), NEW h \in [S -> Nat]
    PROVE  SumOf(h, S) \in Nat /\ ((\A x \in S : h[x] = 0) => SumOf(h, S) = 0)
  <1>1. PICK r : SumOf(h, S) = r[S] /\ SumTable(h, S, r)
    BY SumBy
  <1> DEFINE B == {s \in SUBSET S : ~ (r[s] \in Nat /\ ((\A x \in S : h[x] = 0) => r[s] = 0))}
  <1>2. {} \notin B
    BY <1>1 DEF SumTable
  <1>3. ASSUME NEW s \in B PROVE s \ {CHOOSE x \in s : TRUE} \in B
    <2>1. PICK c : c = CHOOSE x \in s : TRUE
      OBVIOUS
    <2>2. s # {} /\ c \in s /\ s \in SUBSET S /\ c \in S /\ s \ {c} \in SUBSET S
      BY <1>2, <2>1
    <2>3. r[s] = h[c] + r[s \ {c}] /\ h[c] \in Nat
      BY <1>1, <2>1, <2>2 DEF SumTable
    <2>4. CASE r[s \ {c}] \in Nat /\ ((\A x \in S : h[x] = 0) => r[s \ {c}] = 0)
      <3>1. r[s] \in Nat /\ ((\A x \in S : h[x] = 0) => r[s] = 0)
        BY <2>2, <2>3, <2>4
      <3>. QED BY <3>1
    <2>. QED BY <2>1, <2>2, <2>4
  <1>4. B = {}
    <2>. HIDE DEF B
    <2>. QED BY <1>2, <1>3, Descent
  <1>5. S \notin B
    BY <1>4
  <1>. QED BY <1>1, <1>5

\* Smaller amounts give a smaller sum.
LEMMA SumLess ==
    ASSUME NEW S, IsFiniteSet(S), NEW h \in [S -> Nat], NEW k \in [S -> Nat], \A x \in S : k[x] <= h[x]
    PROVE  SumOf(k, S) <= SumOf(h, S)
  <1>1. PICK r : SumOf(h, S) = r[S] /\ SumTable(h, S, r)
    BY SumBy
  <1>2. PICK q : SumOf(k, S) = q[S] /\ SumTable(k, S, q)
    BY SumBy
  <1> DEFINE B == {s \in SUBSET S : ~ (r[s] \in Nat /\ q[s] \in Nat /\ q[s] <= r[s])}
  <1>3. {} \notin B
    BY <1>1, <1>2 DEF SumTable
  <1>4. ASSUME NEW s \in B PROVE s \ {CHOOSE x \in s : TRUE} \in B
    <2>1. PICK c : c = CHOOSE x \in s : TRUE
      OBVIOUS
    <2>2. s # {} /\ c \in s /\ s \in SUBSET S /\ c \in S /\ s \ {c} \in SUBSET S
      BY <1>3, <2>1
    <2>3. r[s] = h[c] + r[s \ {c}] /\ h[c] \in Nat /\ q[s] = k[c] + q[s \ {c}] /\ k[c] \in Nat /\ k[c] <= h[c]
      BY <1>1, <1>2, <2>1, <2>2 DEF SumTable
    <2>4. CASE r[s \ {c}] \in Nat /\ q[s \ {c}] \in Nat /\ q[s \ {c}] <= r[s \ {c}]
      <3>1. r[s] \in Nat /\ q[s] \in Nat /\ q[s] <= r[s]
        BY <2>2, <2>3, <2>4
      <3>. QED BY <3>1
    <2>. QED BY <2>1, <2>2, <2>4
  <1>5. B = {}
    <2>. HIDE DEF B
    <2>. QED BY <1>3, <1>4, Descent
  <1>6. S \notin B
    BY <1>5
  <1>. QED BY <1>1, <1>2, <1>6

\* Changing one amount changes the sum by as much.
LEMMA SumOne ==
    ASSUME NEW S, IsFiniteSet(S), NEW h \in [S -> Nat], NEW k \in [S -> Nat], NEW d \in S, \A x \in S : x # d => k[x] = h[x]
    PROVE  SumOf(k, S) + h[d] = SumOf(h, S) + k[d]
  <1>1. PICK r : SumOf(h, S) = r[S] /\ SumTable(h, S, r)
    BY SumBy
  <1>2. PICK q : SumOf(k, S) = q[S] /\ SumTable(k, S, q)
    BY SumBy
  <1> DEFINE Fine(s) == r[s] \in Nat /\ q[s] \in Nat /\ (IF d \in s THEN q[s] + h[d] = r[s] + k[d] ELSE q[s] = r[s])
             B == {s \in SUBSET S : ~ Fine(s)}
  <1>3. {} \notin B
    BY <1>1, <1>2 DEF SumTable
  <1>4. ASSUME NEW s \in B PROVE s \ {CHOOSE x \in s : TRUE} \in B
    <2>1. PICK c : c = CHOOSE x \in s : TRUE
      OBVIOUS
    <2>2. s # {} /\ c \in s /\ s \in SUBSET S /\ c \in S /\ s \ {c} \in SUBSET S
      BY <1>3, <2>1
    <2>3. /\ r[s] = h[c] + r[s \ {c}] /\ h[c] \in Nat /\ q[s] = k[c] + q[s \ {c}] /\ k[c] \in Nat
          /\ h[d] \in Nat /\ k[d] \in Nat
      BY <1>1, <1>2, <2>1, <2>2 DEF SumTable
    <2>4. CASE Fine(s \ {c})
      <3>1. CASE c = d
        BY <2>2, <2>3, <2>4, <3>1
      <3>2. CASE c # d
        <4>1. k[c] = h[c] /\ (d \in s <=> d \in s \ {c})
          BY <2>2, <3>2
        <4>. QED BY <2>2, <2>3, <2>4, <4>1
      <3>. QED BY <3>1, <3>2
    <2>. QED BY <2>1, <2>2, <2>4
  <1>5. B = {}
    <2>. HIDE DEF B
    <2>. QED BY <1>3, <1>4, Descent
  <1>6. Fine(S)
    BY <1>5
  <1>. QED BY <1>1, <1>2, <1>6

LEMMA DispatchFinite == \A S : Dispatch!IsFiniteSet(S) = IsFiniteSet(S)
  BY Zenon DEF Dispatch!IsFiniteSet, IsFiniteSet

LEMMA HoldsAre == Dispatch!Holds = SumOf(hold, DispatchCard)
  BY DEF Dispatch!Holds, SumOf

LEMMA ConservedIs == Dispatch!HoneyConserved <=> fund + purse + SumOf(wallet, DispatchNode) = Purse
  BY DEF Dispatch!HoneyConserved, SumOf

BudgetLeft(b, x) == IF b > x THEN b - x ELSE 0

MoneyTypes ==
    /\ dispatchStatus \in [DispatchCard -> Dispatch!Status] /\ lease \in [DispatchCard -> DispatchNode \cup {None}]
    /\ budget \in [DispatchCard -> Nat] /\ hold \in [DispatchCard -> Nat] /\ spent \in [DispatchCard -> Nat]
    /\ fund \in Nat /\ purse \in Nat /\ wallet \in [DispatchNode -> Nat]

MoneyInv ==
    /\ MoneyTypes
    /\ \A c \in DispatchCard : dispatchStatus[c] = "running" => lease[c] # None
    /\ \A c \in DispatchCard : hold[c] > 0 => lease[c] # None /\ hold[c] = BudgetLeft(budget[c], spent[c])
    /\ SumOf(hold, DispatchCard) <= fund
    /\ \A c \in DispatchCard : spent[c] <= budget[c]
    /\ fund + purse + SumOf(wallet, DispatchNode) = Purse

LEMMA MoneyConstants ==
    ASSUME Dispatch!FleetAssumption
    PROVE  /\ IsFiniteSet(DispatchNode) /\ IsFiniteSet(DispatchCard) /\ None \notin DispatchNode /\ None \notin DispatchCard
           /\ Budgets \subseteq Nat /\ Costs \subseteq Nat /\ Purse \in Nat
  BY DispatchFinite DEF Dispatch!FleetAssumption

\* A change of a card moves no other one to running.
LEMMA CascadeMoves ==
    ASSUME MoneyTypes, NEW c \in DispatchCard, NEW x \in Dispatch!Status
    PROVE  /\ Dispatch!Cascade(c, x) \in [DispatchCard -> Dispatch!Status]
           /\ Dispatch!Cascade(c, x)[c] = x
           /\ \A d \in DispatchCard : d # c /\ Dispatch!Cascade(c, x)[d] = "running" => dispatchStatus[d] = "running"
  BY DEF Dispatch!Cascade, MoneyTypes, Dispatch!Status

\* Steps that change the cards alone.
LEMMA MoneyStill ==
    ASSUME MoneyInv, UNCHANGED <<lease, budget, hold, spent, fund, purse, wallet>>,
           dispatchStatus' \in [DispatchCard -> Dispatch!Status],
           \A c \in DispatchCard : dispatchStatus'[c] = "running" => dispatchStatus[c] = "running"
    PROVE  MoneyInv' /\ Dispatch!PaidForOwnLease
  <1>1. MoneyInv'
    BY DEF MoneyInv, MoneyTypes
  <1>2. \A n \in DispatchNode : ~ (wallet'[n] > wallet[n])
    BY DEF MoneyInv, MoneyTypes
  <1>. QED BY <1>1, <1>2 DEF Dispatch!PaidForOwnLease

\* Steps that end leases.
LEMMA MoneyFrees ==
    ASSUME Dispatch!FleetAssumption, MoneyInv, NEW S \in SUBSET DispatchCard, Dispatch!Unlease(S),
           UNCHANGED <<budget, spent, fund, purse, wallet>>,
           dispatchStatus' \in [DispatchCard -> Dispatch!Status],
           \A c \in DispatchCard : dispatchStatus'[c] = "running" => dispatchStatus[c] = "running" /\ c \notin S
    PROVE  MoneyInv' /\ Dispatch!PaidForOwnLease
  <1>1. /\ lease' \in [DispatchCard -> DispatchNode \cup {None}] /\ hold' \in [DispatchCard -> Nat]
        /\ \A c \in DispatchCard : /\ c \in S => lease'[c] = None /\ hold'[c] = 0
                                   /\ c \notin S => lease'[c] = lease[c] /\ hold'[c] = hold[c]
    BY DEF Dispatch!Unlease, MoneyInv, MoneyTypes
  <1>2. SumOf(hold', DispatchCard) <= fund
    <2>1. \A c \in DispatchCard : hold'[c] <= hold[c]
      BY <1>1 DEF MoneyInv, MoneyTypes
    <2>2. hold \in [DispatchCard -> Nat] /\ IsFiniteSet(DispatchCard) /\ fund \in Nat /\ SumOf(hold, DispatchCard) <= fund
      BY MoneyConstants DEF MoneyInv, MoneyTypes
    <2>3. SumOf(hold', DispatchCard) <= SumOf(hold, DispatchCard)
      BY <1>1, <2>1, <2>2, SumLess
    <2>4. SumOf(hold', DispatchCard) \in Nat /\ SumOf(hold, DispatchCard) \in Nat
      BY <1>1, <2>2, SumNat
    <2>. QED BY <2>2, <2>3, <2>4
  <1>3. MoneyTypes'
    BY <1>1 DEF MoneyInv, MoneyTypes
  <1>4. \A c \in DispatchCard : dispatchStatus'[c] = "running" => lease'[c] # None
    BY <1>1 DEF MoneyInv
  <1>5. \A c \in DispatchCard : hold'[c] > 0 => lease'[c] # None /\ hold'[c] = BudgetLeft(budget[c], spent[c])
    BY <1>1 DEF MoneyInv
  <1>6. MoneyInv'
    BY <1>2, <1>3, <1>4, <1>5 DEF MoneyInv
  <1>7. \A n \in DispatchNode : ~ (wallet'[n] > wallet[n])
    BY DEF MoneyInv, MoneyTypes
  <1>. QED BY <1>6, <1>7 DEF Dispatch!PaidForOwnLease

LEMMA MoneyClaim ==
    ASSUME Dispatch!FleetAssumption, MoneyInv, NEW n \in DispatchNode, Dispatch!Claim(n)
    PROVE  MoneyInv' /\ Dispatch!PaidForOwnLease
  <1>1. PICK c \in DispatchCard : /\ Dispatch!Claimable(c, n) /\ lease' = [lease EXCEPT ![c] = n]
                                  /\ dispatchStatus' = Dispatch!Cascade(c, "running")
                                  /\ hold' = [hold EXCEPT ![c] = IF shared THEN Dispatch!Remaining(c) ELSE 0]
    BY DEF Dispatch!Claim
  <1>2. UNCHANGED <<shared, budget, spent, fund, purse, wallet>>
    BY DEF Dispatch!Claim
  <1>3. PICK r : r = BudgetLeft(budget[c], spent[c])
    OBVIOUS
  <1>4. Dispatch!Remaining(c) = r
    BY <1>3 DEF Dispatch!Remaining, BudgetLeft
  <1>5. MoneyTypes /\ budget[c] \in Nat /\ spent[c] \in Nat /\ r \in Nat /\ fund \in Nat /\ SumOf(hold, DispatchCard) <= fund
    BY <1>3 DEF MoneyInv, MoneyTypes, BudgetLeft
  <1>6. /\ hold \in [DispatchCard -> Nat] /\ hold' \in [DispatchCard -> Nat] /\ hold'[c] = (IF shared THEN r ELSE 0)
        /\ \A d \in DispatchCard : d # c => hold'[d] = hold[d]
    BY <1>1, <1>4, <1>5 DEF MoneyTypes
  <1>7. hold[c] = 0 /\ (shared => SumOf(hold, DispatchCard) + r <= fund)
    <2>1. lease[c] = None /\ (shared => fund >= Dispatch!Holds + r)
      BY <1>1, <1>4 DEF Dispatch!Claimable, Dispatch!Covered
    <2>2. hold[c] = 0
      BY <1>6, <2>1 DEF MoneyInv
    <2>3. SumOf(hold, DispatchCard) \in Nat
      BY <1>6, MoneyConstants, SumNat
    <2>. QED BY <1>5, <2>1, <2>2, <2>3, HoldsAre
  <1>8. SumOf(hold', DispatchCard) <= fund
    <2>1. SumOf(hold', DispatchCard) + hold[c] = SumOf(hold, DispatchCard) + hold'[c]
      BY <1>6, MoneyConstants, SumOne
    <2>2. SumOf(hold', DispatchCard) \in Nat /\ SumOf(hold, DispatchCard) \in Nat
      BY <1>6, MoneyConstants, SumNat
    <2>. QED BY <1>5, <1>6, <1>7, <2>1, <2>2
  <1>9. /\ dispatchStatus' \in [DispatchCard -> Dispatch!Status] /\ lease' \in [DispatchCard -> DispatchNode \cup {None}] /\ lease'[c] = n
        /\ \A d \in DispatchCard : d # c => lease'[d] = lease[d] /\ (dispatchStatus'[d] = "running" => dispatchStatus[d] = "running")
    <2>1. "running" \in Dispatch!Status
      BY DEF Dispatch!Status
    <2>. QED BY <1>1, <1>5, <2>1, CascadeMoves DEF MoneyTypes
  <1>10. n # None
    BY MoneyConstants
  <1>11. MoneyTypes'
    BY <1>2, <1>6, <1>9 DEF MoneyInv, MoneyTypes
  <1>12. \A d \in DispatchCard : dispatchStatus'[d] = "running" => lease'[d] # None
    BY <1>9, <1>10 DEF MoneyInv
  <1>13. \A d \in DispatchCard : hold'[d] > 0 => lease'[d] # None /\ hold'[d] = BudgetLeft(budget[d], spent[d])
    BY <1>3, <1>6, <1>9, <1>10 DEF MoneyInv
  <1>14. MoneyInv'
    BY <1>2, <1>8, <1>11, <1>12, <1>13 DEF MoneyInv
  <1>15. \A m \in DispatchNode : ~ (wallet'[m] > wallet[m])
    BY <1>2, <1>5 DEF MoneyTypes
  <1>. QED BY <1>14, <1>15 DEF Dispatch!PaidForOwnLease

LEMMA MoneyComplete ==
    ASSUME Dispatch!FleetAssumption, MoneyInv, NEW n \in DispatchNode, NEW c \in DispatchCard, Dispatch!Complete(n, c)
    PROVE  MoneyInv' /\ Dispatch!PaidForOwnLease
  <1>1. MoneyTypes /\ "review" \in Dispatch!Status
    BY DEF MoneyInv, Dispatch!Status
  <1>2. Dispatch!Unlease({c}) /\ dispatchStatus' = Dispatch!Cascade(c, "review") /\ lease[c] = n /\ UNCHANGED <<budget, purse>>
    BY DEF Dispatch!Complete
  <1>3. /\ dispatchStatus' \in [DispatchCard -> Dispatch!Status]
        /\ \A d \in DispatchCard : dispatchStatus'[d] = "running" => dispatchStatus[d] = "running" /\ d \notin {c}
    BY <1>1, <1>2, CascadeMoves
  <1>4. CASE UNCHANGED <<spent, fund, wallet>>
    BY <1>2, <1>3, <1>4, MoneyFrees
  <1>5. ASSUME NEW amount \in Costs, amount <= Dispatch!Remaining(c), dispatchLife[c] > 0, hold[c] = Dispatch!Remaining(c),
               spent' = [spent EXCEPT ![c] = @ + amount], fund' = fund - amount, wallet' = [wallet EXCEPT ![n] = @ + amount]
        PROVE  MoneyInv' /\ Dispatch!PaidForOwnLease
    <2>1. PICK r : r = BudgetLeft(budget[c], spent[c])
      OBVIOUS
    <2>2. Dispatch!Remaining(c) = r
      BY <2>1 DEF Dispatch!Remaining, BudgetLeft
    <2>3. amount \in Nat /\ amount <= r /\ hold[c] = r /\ r \in Nat /\ fund \in Nat /\ purse \in Nat
          /\ budget[c] \in Nat /\ spent[c] \in Nat /\ wallet[n] \in Nat /\ SumOf(hold, DispatchCard) <= fund
          /\ spent[c] <= budget[c] /\ r = budget[c] - spent[c]
      BY <1>5, <2>1, <2>2, MoneyConstants DEF MoneyInv, MoneyTypes, BudgetLeft
    <2>4. /\ lease' \in [DispatchCard -> DispatchNode \cup {None}] /\ hold' \in [DispatchCard -> Nat] /\ lease'[c] = None /\ hold'[c] = 0
          /\ \A d \in DispatchCard : d # c => lease'[d] = lease[d] /\ hold'[d] = hold[d]
      BY <1>1, <1>2 DEF Dispatch!Unlease, MoneyTypes
    <2>5. /\ spent' \in [DispatchCard -> Nat] /\ spent'[c] = spent[c] + amount /\ \A d \in DispatchCard : d # c => spent'[d] = spent[d]
      BY <1>1, <1>5, <2>3 DEF MoneyTypes
    <2>6. /\ wallet' \in [DispatchNode -> Nat] /\ wallet'[n] = wallet[n] + amount /\ \A m \in DispatchNode : m # n => wallet'[m] = wallet[m]
      BY <1>1, <1>5, <2>3 DEF MoneyTypes
    <2>7. hold \in [DispatchCard -> Nat] /\ wallet \in [DispatchNode -> Nat] /\ IsFiniteSet(DispatchCard) /\ IsFiniteSet(DispatchNode)
      BY <1>1, MoneyConstants DEF MoneyTypes
    <2>8. SumOf(hold', DispatchCard) + r = SumOf(hold, DispatchCard)
      <3>1. SumOf(hold', DispatchCard) + hold[c] = SumOf(hold, DispatchCard) + hold'[c]
        BY <2>4, <2>7, SumOne
      <3>2. SumOf(hold', DispatchCard) \in Nat /\ SumOf(hold, DispatchCard) \in Nat
        BY <2>4, <2>7, SumNat
      <3>. QED BY <2>3, <2>4, <3>1, <3>2
    <2>9. SumOf(hold', DispatchCard) <= fund' /\ fund' \in Nat
      <3>1. SumOf(hold', DispatchCard) \in Nat /\ SumOf(hold, DispatchCard) \in Nat
        BY <2>4, <2>7, SumNat
      <3>. QED BY <1>5, <2>3, <2>8, <3>1
    <2>10. fund' + purse + SumOf(wallet', DispatchNode) = Purse
      <3>1. SumOf(wallet', DispatchNode) + wallet[n] = SumOf(wallet, DispatchNode) + wallet'[n]
        BY <2>6, <2>7, SumOne
      <3>2. SumOf(wallet', DispatchNode) \in Nat /\ SumOf(wallet, DispatchNode) \in Nat
        BY <2>6, <2>7, SumNat
      <3>3. fund + purse + SumOf(wallet, DispatchNode) = Purse
        BY DEF MoneyInv
      <3>. QED BY <1>5, <2>3, <2>6, <2>9, <3>1, <3>2, <3>3
    <2>11. MoneyTypes'
      BY <1>1, <1>2, <1>3, <2>4, <2>5, <2>6, <2>9 DEF MoneyTypes
    <2>12. \A d \in DispatchCard : dispatchStatus'[d] = "running" => lease'[d] # None
      BY <1>3, <2>4 DEF MoneyInv
    <2>13. \A d \in DispatchCard : hold'[d] > 0 => lease'[d] # None /\ hold'[d] = BudgetLeft(budget'[d], spent'[d])
      BY <1>2, <2>4, <2>5 DEF MoneyInv
    <2>14. \A d \in DispatchCard : spent'[d] <= budget'[d]
      BY <1>2, <2>3, <2>5 DEF MoneyInv
    <2>15. MoneyInv'
      BY <1>2, <2>9, <2>10, <2>11, <2>12, <2>13, <2>14 DEF MoneyInv
    <2>16. \A m \in DispatchNode : wallet'[m] > wallet[m] => m = n
      BY <2>6, <2>7
    <2>. QED BY <1>2, <1>5, <2>4, <2>15, <2>16 DEF Dispatch!PaidForOwnLease
  <1>. QED BY <1>4, <1>5 DEF Dispatch!Complete

LEMMA MoneyNodes ==
    ASSUME Dispatch!FleetAssumption, MoneyInv, NEW n \in DispatchNode, Dispatch!Calls(n)
    PROVE  MoneyInv' /\ Dispatch!PaidForOwnLease
  <1>1. MoneyTypes /\ {"blocked", "ready", "waiting_on_child"} \subseteq Dispatch!Status
    BY DEF MoneyInv, Dispatch!Status
  <1>2. CASE Dispatch!CheckIn(n) \/ Dispatch!Heartbeat(n) \/ Dispatch!CheckOut(n)
    <2>1. UNCHANGED <<dispatchStatus, lease, budget, hold, spent, fund, purse, wallet>>
      BY <1>2 DEF Dispatch!CheckIn, Dispatch!Heartbeat, Dispatch!CheckOut, Dispatch!board, Dispatch!money
    <2>. QED BY <1>1, <2>1, MoneyStill DEF MoneyTypes
  <1>3. CASE Dispatch!Claim(n)
    BY <1>3, MoneyClaim
  <1>4. ASSUME NEW c \in DispatchCard, Dispatch!Checkpoint(n, c) PROVE MoneyInv' /\ Dispatch!PaidForOwnLease
    <2>1. UNCHANGED <<dispatchStatus, lease, budget, hold, spent, fund, purse, wallet>>
      BY <1>4 DEF Dispatch!Checkpoint, Dispatch!money
    <2>. QED BY <1>1, <2>1, MoneyStill DEF MoneyTypes
  <1>5. ASSUME NEW c \in DispatchCard, Dispatch!Complete(n, c) PROVE MoneyInv' /\ Dispatch!PaidForOwnLease
    BY <1>5, MoneyComplete
  <1>6. ASSUME NEW c \in DispatchCard, Dispatch!Fail(n, c) PROVE MoneyInv' /\ Dispatch!PaidForOwnLease
    <2>1. Dispatch!Unlease({c}) /\ dispatchStatus' = Dispatch!Cascade(c, "blocked") /\ UNCHANGED <<budget, spent, fund, purse, wallet>>
      BY <1>6 DEF Dispatch!Fail
    <2>2. /\ dispatchStatus' \in [DispatchCard -> Dispatch!Status]
          /\ \A d \in DispatchCard : dispatchStatus'[d] = "running" => dispatchStatus[d] = "running" /\ d \notin {c}
      BY <1>1, <2>1, CascadeMoves
    <2>. QED BY <2>1, <2>2, MoneyFrees
  <1>7. ASSUME NEW c \in DispatchCard, Dispatch!Release(n, c) PROVE MoneyInv' /\ Dispatch!PaidForOwnLease
    <2>1. /\ Dispatch!Unlease({c}) /\ dispatchStatus' = (IF dispatchStatus[c] = "running" THEN Dispatch!Cascade(c, "ready") ELSE dispatchStatus)
          /\ UNCHANGED <<budget, spent, fund, purse, wallet>>
      BY <1>7 DEF Dispatch!Release
    <2>2. /\ dispatchStatus' \in [DispatchCard -> Dispatch!Status]
          /\ \A d \in DispatchCard : dispatchStatus'[d] = "running" => dispatchStatus[d] = "running" /\ d \notin {c}
      <3>1. CASE dispatchStatus[c] = "running"
        BY <1>1, <2>1, <3>1, CascadeMoves
      <3>2. CASE dispatchStatus[c] # "running"
        BY <1>1, <2>1, <3>2 DEF MoneyTypes
      <3>. QED BY <3>1, <3>2
    <2>. QED BY <2>1, <2>2, MoneyFrees
  <1>8. ASSUME NEW c \in DispatchCard, NEW d \in DispatchCard, Dispatch!SpawnChild(n, c, d) PROVE MoneyInv' /\ Dispatch!PaidForOwnLease
    <2>1. dispatchStatus' = [dispatchStatus EXCEPT ![d] = "ready"] /\ UNCHANGED <<lease, budget, hold, spent, fund, purse, wallet>>
      BY <1>8 DEF Dispatch!SpawnChild, Dispatch!money
    <2>2. /\ dispatchStatus' \in [DispatchCard -> Dispatch!Status]
          /\ \A e \in DispatchCard : dispatchStatus'[e] = "running" => dispatchStatus[e] = "running"
      BY <1>1, <2>1 DEF MoneyTypes
    <2>. QED BY <2>1, <2>2, MoneyStill
  <1>9. ASSUME NEW c \in DispatchCard, NEW d \in DispatchCard, Dispatch!WaitOnChild(n, c, d) PROVE MoneyInv' /\ Dispatch!PaidForOwnLease
    <2>1. Dispatch!Unlease({c}) /\ dispatchStatus' = Dispatch!Cascade(c, "waiting_on_child") /\ UNCHANGED <<budget, spent, fund, purse, wallet>>
      BY <1>9 DEF Dispatch!WaitOnChild
    <2>2. /\ dispatchStatus' \in [DispatchCard -> Dispatch!Status]
          /\ \A e \in DispatchCard : dispatchStatus'[e] = "running" => dispatchStatus[e] = "running" /\ e \notin {c}
      <3>1. "waiting_on_child" \in Dispatch!Status /\ "waiting_on_child" # "running"
        BY <1>1
      <3>. QED BY <1>1, <2>1, <3>1, CascadeMoves
    <2>. QED BY <2>1, <2>2, MoneyFrees
  <1>. QED BY <1>2, <1>3, <1>4, <1>5, <1>6, <1>7, <1>8, <1>9 DEF Dispatch!Calls

LEMMA MoneyMembers ==
    ASSUME Dispatch!FleetAssumption, MoneyInv, Dispatch!Members
    PROVE  MoneyInv' /\ Dispatch!PaidForOwnLease
  <1>1. MoneyTypes /\ {"done", "ready"} \subseteq Dispatch!Status
    BY DEF MoneyInv, Dispatch!Status
  <1>2. ASSUME NEW c \in DispatchCard, NEW x \in {"done", "ready"}, dispatchStatus' = Dispatch!Cascade(c, x), UNCHANGED <<lease, Dispatch!money>>
        PROVE  MoneyInv' /\ Dispatch!PaidForOwnLease
    <2>1. /\ dispatchStatus' \in [DispatchCard -> Dispatch!Status]
          /\ \A e \in DispatchCard : dispatchStatus'[e] = "running" => dispatchStatus[e] = "running"
      BY <1>1, <1>2, CascadeMoves
    <2>2. UNCHANGED <<lease, budget, hold, spent, fund, purse, wallet>>
      BY <1>2 DEF Dispatch!money
    <2>. QED BY <2>1, <2>2, MoneyStill
  <1>3. ASSUME NEW c \in DispatchCard, Dispatch!Accept(c) \/ Dispatch!Promote(c) PROVE MoneyInv' /\ Dispatch!PaidForOwnLease
    BY <1>2, <1>3 DEF Dispatch!Accept, Dispatch!Promote
  <1>4. ASSUME NEW c \in DispatchCard, Dispatch!SendBack(c) PROVE MoneyInv' /\ Dispatch!PaidForOwnLease
    <2>1. Dispatch!Unlease({c}) /\ dispatchStatus' = Dispatch!Cascade(c, "ready") /\ UNCHANGED <<budget, spent, fund, purse, wallet>>
      BY <1>4 DEF Dispatch!SendBack
    <2>2. /\ dispatchStatus' \in [DispatchCard -> Dispatch!Status]
          /\ \A d \in DispatchCard : dispatchStatus'[d] = "running" => dispatchStatus[d] = "running" /\ d \notin {c}
      <3>1. "ready" \in Dispatch!Status /\ "ready" # "running"
        BY <1>1
      <3>. QED BY <1>1, <2>1, <3>1, CascadeMoves
    <2>. QED BY <2>1, <2>2, MoneyFrees
  <1>5. ASSUME NEW c \in DispatchCard, Dispatch!Approve(c) PROVE MoneyInv' /\ Dispatch!PaidForOwnLease
    <2>1. PICK limit \in Budgets : (budget[c] = 0 \/ limit > spent[c]) /\ budget' = [budget EXCEPT ![c] = limit]
      BY <1>5 DEF Dispatch!Approve
    <2>2. hold[c] = 0 /\ UNCHANGED <<dispatchStatus, lease, hold, spent, fund, purse, wallet>>
      BY <1>5 DEF Dispatch!Approve, Dispatch!board
    <2>3. limit \in Nat /\ spent[c] \in Nat /\ spent[c] <= budget[c]
      BY <1>1, MoneyConstants DEF MoneyInv, MoneyTypes
    <2>4. budget' \in [DispatchCard -> Nat] /\ budget'[c] = limit /\ \A d \in DispatchCard : d # c => budget'[d] = budget[d]
      BY <1>1, <2>1, <2>3 DEF MoneyTypes
    <2>5. \A d \in DispatchCard : spent[d] <= budget'[d]
      BY <2>1, <2>3, <2>4 DEF MoneyInv
    <2>6. \A d \in DispatchCard : hold[d] > 0 => lease[d] # None /\ hold[d] = BudgetLeft(budget'[d], spent[d])
      BY <2>2, <2>4 DEF MoneyInv
    <2>7. MoneyInv'
      BY <1>1, <2>2, <2>4, <2>5, <2>6 DEF MoneyInv, MoneyTypes
    <2>8. \A m \in DispatchNode : ~ (wallet'[m] > wallet[m])
      BY <1>1, <2>2 DEF MoneyTypes
    <2>. QED BY <2>7, <2>8 DEF Dispatch!PaidForOwnLease
  <1>6. ASSUME (\E n \in DispatchNode : Dispatch!MemberCheckOut(n)) \/ Dispatch!SetExecutionMode PROVE MoneyInv' /\ Dispatch!PaidForOwnLease
    <2>1. UNCHANGED <<dispatchStatus, lease, budget, hold, spent, fund, purse, wallet>>
      BY <1>6 DEF Dispatch!MemberCheckOut, Dispatch!SetExecutionMode, Dispatch!board, Dispatch!money
    <2>. QED BY <1>1, <2>1, MoneyStill DEF MoneyTypes
  <1>7. CASE Dispatch!Fund
    <2>1. PICK amount \in 1 .. purse : purse' = purse - amount /\ fund' = fund + amount
      BY <1>7 DEF Dispatch!Fund
    <2>2. UNCHANGED <<dispatchStatus, lease, budget, hold, spent, wallet>>
      BY <1>7 DEF Dispatch!Fund, Dispatch!board
    <2>3. fund \in Nat /\ purse \in Nat /\ amount \in Nat /\ amount <= purse
      BY <1>1, <2>1 DEF MoneyTypes
    <2>4. SumOf(wallet, DispatchNode) \in Nat /\ SumOf(hold, DispatchCard) \in Nat
      BY <1>1, MoneyConstants, SumNat DEF MoneyTypes
    <2>5. fund' \in Nat /\ purse' \in Nat /\ fund' + purse' = fund + purse /\ fund <= fund'
      BY <2>1, <2>3
    <2>6. SumOf(hold, DispatchCard) <= fund' /\ fund' + purse' + SumOf(wallet, DispatchNode) = Purse
      <3>1. SumOf(hold, DispatchCard) <= fund /\ fund + purse + SumOf(wallet, DispatchNode) = Purse
        BY DEF MoneyInv
      <3>2. SumOf(hold, DispatchCard) <= fund'
        BY <2>3, <2>4, <2>5, <3>1
      <3>3. fund' + purse' + SumOf(wallet, DispatchNode) = Purse
        <4>1. PICK w : w = SumOf(wallet, DispatchNode)
          OBVIOUS
        <4>2. w \in Nat /\ fund + purse + w = Purse
          BY <2>4, <3>1, <4>1
        <4>3. fund' + purse' + w = Purse
          BY <2>3, <2>5, <4>2
        <4>. QED BY <4>1, <4>3
      <3>. QED BY <3>2, <3>3
    <2>7. MoneyInv'
      BY <1>1, <2>2, <2>5, <2>6 DEF MoneyInv, MoneyTypes
    <2>8. \A m \in DispatchNode : ~ (wallet'[m] > wallet[m])
      BY <1>1, <2>2 DEF MoneyTypes
    <2>. QED BY <2>7, <2>8 DEF Dispatch!PaidForOwnLease
  <1>. QED BY <1>3, <1>4, <1>5, <1>6, <1>7 DEF Dispatch!Members

LEMMA MoneyKeeps ==
    ASSUME Dispatch!FleetAssumption, MoneyInv, [Dispatch!Next]_(Dispatch!vars)
    PROVE  MoneyInv' /\ Dispatch!PaidForOwnLease
  <1>1. MoneyTypes /\ "ready" \in Dispatch!Status
    BY DEF MoneyInv, Dispatch!Status
  <1>2. ASSUME NEW n \in DispatchNode, Dispatch!Calls(n) PROVE MoneyInv' /\ Dispatch!PaidForOwnLease
    BY <1>2, MoneyNodes
  <1>3. CASE Dispatch!Members
    BY <1>3, MoneyMembers
  <1>4. CASE (\E n \in DispatchNode : Dispatch!Crash(n)) \/ Dispatch!Tick \/ UNCHANGED Dispatch!vars
    <2>1. UNCHANGED <<dispatchStatus, lease, budget, hold, spent, fund, purse, wallet>>
      BY <1>4 DEF Dispatch!Crash, Dispatch!Tick, Dispatch!board, Dispatch!money, Dispatch!vars
    <2>. QED BY <1>1, <2>1, MoneyStill DEF MoneyTypes
  <1>5. CASE Dispatch!Housekeeping
    <2>1. PICK S : S = Dispatch!Expired \cup Dispatch!Orphaned
      OBVIOUS
    <2>2. S \in SUBSET DispatchCard
      BY <2>1 DEF Dispatch!Expired, Dispatch!Orphaned
    <2>3. /\ Dispatch!Unlease(S) /\ UNCHANGED <<budget, spent, fund, purse, wallet>>
          /\ dispatchStatus' = [c \in DispatchCard |-> IF c \in S /\ dispatchStatus[c] = "running" THEN "ready" ELSE dispatchStatus[c]]
      BY <1>5, <2>1 DEF Dispatch!Housekeeping
    <2>4. /\ dispatchStatus' \in [DispatchCard -> Dispatch!Status]
          /\ \A c \in DispatchCard : dispatchStatus'[c] = "running" => dispatchStatus[c] = "running" /\ c \notin S
      BY <1>1, <2>3 DEF MoneyTypes
    <2>. QED BY <2>2, <2>3, <2>4, MoneyFrees
  <1>. QED BY <1>2, <1>3, <1>4, <1>5 DEF Dispatch!Next

\* Honey is reserved exactly while a card is leased and within what its budget has left, none appears or
\* disappears, and a node is paid once per lease of its own: for any number of nodes and cards, any
\* budgets and charges, and every order of claims, crashes, expiries, reviews and new approvals.
THEOREM MoneyHolds ==
    ASSUME Dispatch!FleetAssumption
    PROVE  Dispatch!Spec => Dispatch!MoneySafe
  <1>1. Dispatch!Init => MoneyInv
    <2>. SUFFICES ASSUME Dispatch!Init PROVE MoneyInv
      OBVIOUS
    <2>1. /\ dispatchStatus \in [DispatchCard -> {"suggested", "absent"}] /\ lease = [c \in DispatchCard |-> None]
          /\ budget = [c \in DispatchCard |-> 0] /\ hold = [c \in DispatchCard |-> 0] /\ spent = [c \in DispatchCard |-> 0]
          /\ fund = 0 /\ purse = Purse /\ wallet = [n \in DispatchNode |-> 0]
      BY DEF Dispatch!Init
    <2>2. MoneyTypes
      BY <2>1, MoneyConstants DEF MoneyTypes, Dispatch!Status
    <2>3. SumOf(hold, DispatchCard) = 0 /\ SumOf(wallet, DispatchNode) = 0
      BY <2>1, <2>2, MoneyConstants, SumNat DEF MoneyTypes
    <2>. QED BY <2>1, <2>2, <2>3, MoneyConstants DEF MoneyInv
  <1>2. MoneyInv => Dispatch!Balanced
    <2>. SUFFICES ASSUME MoneyInv PROVE Dispatch!Balanced
      OBVIOUS
    <2>1. Dispatch!RunningIsLeased /\ Dispatch!WithinLimit
      BY DEF MoneyInv, Dispatch!RunningIsLeased, Dispatch!WithinLimit
    <2>2. Dispatch!HoneyConserved
      BY ConservedIs DEF MoneyInv
    <2>3. \A c \in DispatchCard : hold[c] > 0 => lease[c] # None /\ hold[c] = Dispatch!Remaining(c)
      BY DEF MoneyInv, Dispatch!Remaining, BudgetLeft
    <2>4. fund >= Dispatch!Holds
      BY HoldsAre DEF MoneyInv, MoneyTypes
    <2>. QED BY <2>1, <2>2, <2>3, <2>4 DEF Dispatch!Balanced, Dispatch!ReservedWhileLeased
  <1>3. MoneyInv /\ [Dispatch!Next]_(Dispatch!vars) => MoneyInv' /\ Dispatch!PaidForOwnLease
    BY MoneyKeeps
  <1>4. Dispatch!Balanced' /\ Dispatch!PaidForOwnLease => Dispatch!MoneyStep
    BY DEF Dispatch!MoneyStep
  <1>. QED BY <1>1, <1>2, <1>3, <1>4, PTL DEF Dispatch!Spec, Dispatch!MoneySafe

\* Beside everything else, the community hub reserves honey exactly while a card is leased,
\* charges no card more than its approved limit, loses and makes no honey, and pays a node
\* once for a lease of its own.
THEOREM FleetPays == Spec => MoneySafe
  <1>1. Init => Dispatch!Init
    BY DEF Init
  <1>2. [Next]_vars => [Dispatch!Next]_(Dispatch!vars)
    <2>1. UNCHANGED dispatchVars => UNCHANGED Dispatch!vars
      BY DEF dispatchVars, Dispatch!vars, Dispatch!nodes, Dispatch!board, Dispatch!money
    <2>2. Next => Dispatch!Next \/ UNCHANGED dispatchVars
      BY DEF Next
    <2>3. UNCHANGED vars => UNCHANGED dispatchVars
      BY DEF vars
    <2>. QED BY <2>1, <2>2, <2>3
  <1>3. [Dispatch!MoneyStep]_(Dispatch!vars) => [moving = "dispatch" => Dispatch!MoneyStep]_dispatchVars
    <2>1. UNCHANGED Dispatch!vars => UNCHANGED dispatchVars
      BY DEF dispatchVars, Dispatch!vars, Dispatch!nodes, Dispatch!board, Dispatch!money
    <2>. QED BY <2>1
  <1>. QED BY <1>1, <1>2, DispatchAssumed, <1>3, MoneyHolds, PTL DEF Spec, Dispatch!Spec, MoneySafe, Dispatch!MoneySafe

(***************************************************************************)
(* The ledger of a desktop session.                                        *)
(***************************************************************************)
\* An open reservation is still to be charged.
BillInv ==
    /\ cost \in Nat /\ pending \in Nat /\ billed \in Nat /\ unseen \in Nat /\ overrun \in Nat
    /\ pending <= cost
    /\ billed <= cost + unseen
    /\ asking => billed + pending <= cost + unseen
    /\ cost <= Limit.cost + overrun
    /\ overrun > 0 => failed
    /\ failed \in BOOLEAN

LEMMA BillStep ==
    ASSUME Spending!SpendingAssumption, BillInv, [Spending!Next]_(Spending!vars)
    PROVE  BillInv'
  <1>0. Limit.cost \in Nat /\ \A q \in Quote \cup Charge : q \in Nat
    BY DEF Spending!SpendingAssumption
  <1>1. ASSUME NEW q \in Quote, Spending!Asks(q) PROVE BillInv'
    BY <1>0, <1>1 DEF Spending!Asks, Spending!ProviderAllowed, Spending!Ready, Spending!InTime, BillInv, Spending!history
  <1>2. ASSUME NEW c \in Charge, Spending!Answered(c) PROVE BillInv'
    <2>1. /\ c \in Nat /\ asking' = FALSE /\ pending' = 0 /\ billed' = billed + c
          /\ cost' = (cost - pending) + c /\ unseen' = unseen
          /\ overrun' = IF c > pending THEN overrun + (c - pending) ELSE overrun
      BY <1>0, <1>2 DEF Spending!Answered
    <2>2. /\ cost' \in Nat /\ pending' \in Nat /\ billed' \in Nat /\ unseen' \in Nat /\ overrun' \in Nat
          /\ pending' <= cost' /\ billed' <= cost' + unseen' /\ cost' <= Limit.cost + overrun'
      <3>1. asking /\ billed + pending <= cost + unseen
        BY <1>2 DEF Spending!Answered, BillInv
      <3>. QED BY <1>0, <2>1, <3>1 DEF BillInv
    <2>3. (overrun' > 0 => failed') /\ failed' \in BOOLEAN
      <3>1. CASE c > pending
        BY <1>2, <3>1 DEF Spending!Answered
      <3>2. CASE ~ (c > pending)
        BY <1>2, <3>2 DEF Spending!Answered, BillInv
      <3>. QED BY <3>1, <3>2
    <2>. QED BY <2>1, <2>2, <2>3 DEF BillInv
  <1>3. ASSUME NEW c \in Charge, Spending!Lost(c) \/ Spending!Abandoned(c) PROVE BillInv'
    <2>1. CASE c > pending
      BY <1>0, <1>3, <2>1 DEF Spending!Lost, Spending!Abandoned, BillInv, Spending!ledger
    <2>2. CASE ~ (c > pending)
      BY <1>0, <1>3, <2>2 DEF Spending!Lost, Spending!Abandoned, BillInv, Spending!ledger
    <2>. QED BY <2>1, <2>2
  <1>4. ASSUME Spending!Refused \/ Spending!Observes \/ Spending!Inputs \/ Spending!NewBatch \/ Spending!Interrupted \/ Spending!Tick
               \/ UNCHANGED Spending!vars
        PROVE BillInv'
    <2>1. UNCHANGED <<cost, pending, billed, unseen, overrun, failed, asking>>
      BY <1>4 DEF Spending!Refused, Spending!Observes, Spending!Inputs, Spending!NewBatch, Spending!Interrupted, Spending!Tick, Spending!vars, Spending!ledger, Spending!history
    <2>. QED BY <2>1 DEF BillInv
  <1>. QED BY <1>1, <1>2, <1>3, <1>4 DEF Spending!Next

Window == Len(inputs) - Len(times)
Dropped(i) == inputs[i] + Second <= spendingNow
RateInv ==
    /\ spendingNow \in Nat /\ actions \in Nat /\ times \in Seq(Nat) /\ inputs \in Seq(Nat)
    /\ Len(inputs) = actions /\ actions <= Limit.actions
    /\ Len(times) <= Len(inputs)
    /\ \A i \in 1 .. Len(times) : times[i] = inputs[Window + i]
    /\ \A i \in 1 .. Window : Dropped(i)
    /\ \A i, j \in 1 .. Len(inputs) :
         i < j /\ j - i >= Limit.perSecond => inputs[i] + Second <= inputs[j]


LEMMA RateStep ==
    ASSUME Spending!SpendingAssumption, RateInv, [Spending!Next]_(Spending!vars)
    PROVE  RateInv'
  <1>0. Second \in Nat /\ Limit.perSecond \in Nat /\ Limit.actions \in Nat
    BY DEF Spending!SpendingAssumption
  <1>1. ASSUME NEW k \in 0 .. Len(times), Spending!Old(k), Spending!InputAllowed(k),
               times' = Append(SubSeq(times, k + 1, Len(times)), spendingNow), actions' = actions + 1,
               inputs' = Append(inputs, spendingNow), spendingNow' = spendingNow
        PROVE  RateInv'
    <2> DEFINE n == Len(inputs)
               m == Len(times)
               kept == SubSeq(times, k + 1, m)
               w == Window
    <2>1. /\ n \in Nat /\ m \in Nat /\ k \in Nat /\ k <= m /\ m <= n /\ spendingNow \in Nat
          /\ times \in Seq(Nat) /\ inputs \in Seq(Nat)
          /\ \A i \in 1 .. m : times[i] \in Nat
      BY ElementOfSeq DEF RateInv
    <2>2. kept \in Seq(Nat) /\ Len(kept) = m - k /\ \A i \in 1 .. m - k : kept[i] = times[k + i]
      BY <2>1
    <2>3. times' \in Seq(Nat) /\ Len(times') = m - k + 1 /\ times'[m - k + 1] = spendingNow
          /\ \A i \in 1 .. m - k : times'[i] = times[k + i]
      BY <1>1, <2>1, <2>2
    <2>4. inputs' \in Seq(Nat) /\ Len(inputs') = n + 1 /\ inputs'[n + 1] = spendingNow
          /\ \A i \in 1 .. n : inputs'[i] = inputs[i]
      BY <1>1, <2>1
    <2>5. Window \in Nat /\ Window = n - m /\ Window' = Window + k
      BY <2>1, <2>3, <2>4 DEF Window
    <2> HIDE DEF n, m, kept
    <2>6. \A i \in 1 .. Window + k : inputs[i] + Second <= spendingNow
      <3> TAKE i \in 1 .. Window + k
      <3>1. CASE i <= Window
        BY <3>1, <2>5 DEF RateInv, Dropped
      <3>2. CASE i > Window
        <4>1. i - Window \in 1 .. k /\ i - Window \in 1 .. m
          BY <2>1, <2>5, <3>2
        <4>2. times[i - Window] = inputs[Window + (i - Window)]
          BY <4>1 DEF RateInv
        <4>3. Window + (i - Window) = i
          BY <2>5
        <4>. QED BY <1>1, <4>1, <4>2, <4>3 DEF Spending!Old
      <3>. QED BY <3>1, <3>2, <2>5
    <2>7. \A i \in 1 .. Len(times') : times'[i] = inputs'[Window' + i]
      <3> TAKE i \in 1 .. Len(times')
      <3>1. CASE i = m - k + 1
        BY <3>1, <2>1, <2>3, <2>4, <2>5
      <3>2. CASE i # m - k + 1
        <4>1. i \in 1 .. m - k /\ k + i \in 1 .. m /\ Window' + i = Window + (k + i)
              /\ Window' + i \in 1 .. n
          BY <3>2, <2>1, <2>3, <2>5
        <4>2. times[k + i] = inputs[Window + (k + i)]
          BY <4>1 DEF RateInv, m
        <4>. QED BY <2>3, <2>4, <4>1, <4>2
      <3>. QED BY <3>1, <3>2
    <2>8. \A i \in 1 .. Window' : Dropped(i)'
      BY <1>1, <2>1, <2>4, <2>5, <2>6 DEF Dropped
    <2>9. ASSUME NEW i \in 1 .. n + 1, NEW j \in 1 .. n + 1, i < j, j - i >= Limit.perSecond
          PROVE  inputs'[i] + Second <= inputs'[j]
      <3>1. CASE j = n + 1
        <4>1. m - k < Limit.perSecond
          BY <1>1 DEF Spending!InputAllowed, m
        <4>2. i \in 1 .. Window + k /\ i \in 1 .. n
          BY <1>0, <2>1, <2>5, <2>9, <3>1, <4>1
        <4>. QED BY <2>4, <2>6, <3>1, <4>2
      <3>2. CASE j # n + 1
        <4>1. i \in 1 .. n /\ j \in 1 .. n
          BY <2>1, <2>9, <3>2
        <4>. QED BY <2>4, <2>9, <4>1 DEF RateInv, n
      <3>. QED BY <3>1, <3>2
    <2>10. spendingNow' \in Nat /\ actions' \in Nat /\ Len(inputs') = actions' /\ actions' <= Limit.actions
           /\ Len(times') <= Len(inputs')
      <3>1. actions \in Nat /\ n = actions /\ actions < Limit.actions
        BY <1>1 DEF RateInv, Spending!InputAllowed, n
      <3>2. Len(times') = m - k + 1 /\ Len(inputs') = n + 1
        BY <2>3, <2>4
      <3>3. spendingNow' \in Nat /\ actions' = actions + 1
        BY <1>1 DEF RateInv
      <3>4. m - k + 1 <= n + 1
        BY <1>0, <2>1
      <3> HIDE DEF n, m
      <3>. QED BY <1>0, <3>1, <3>2, <3>3, <3>4
    <2>. QED BY <2>3, <2>4, <2>7, <2>8, <2>9, <2>10 DEF RateInv
  <1>2. ASSUME UNCHANGED <<times, actions, inputs>>, spendingNow' \in Nat, spendingNow <= spendingNow' PROVE RateInv'
    <2>1. \A i \in 1 .. Window : inputs[i] \in Nat
      BY ElementOfSeq DEF RateInv, Window
    <2>2. Window' = Window
      BY <1>2 DEF Window
    <2>3. \A i \in 1 .. Window' : Dropped(i)'
      BY <1>0, <1>2, <2>1, <2>2 DEF RateInv, Dropped
    <2>. QED BY <1>2, <2>2, <2>3 DEF RateInv
  <1>3. CASE Spending!Inputs
    <2>1. spendingNow' = spendingNow /\ spendingNow \in Nat
      BY <1>3 DEF Spending!Inputs, RateInv
    <2>2. PICK k \in 0 .. Len(times) : Spending!Old(k) /\
             IF Spending!InputAllowed(k)
               THEN /\ times' = Append(SubSeq(times, k + 1, Len(times)), spendingNow)
                    /\ actions' = actions + 1 /\ inputs' = Append(inputs, spendingNow)
               ELSE UNCHANGED <<times, actions, inputs>>
      BY <1>3 DEF Spending!Inputs
    <2>. QED BY <1>1, <1>2, <2>1, <2>2
  <1>4. CASE Spending!Tick
    BY <1>2, <1>4 DEF Spending!Tick, Spending!ledger, Spending!history, RateInv
  <1>5. CASE ~ Spending!Inputs /\ ~ Spending!Tick
    <2>1. UNCHANGED <<spendingNow, times, actions, inputs>>
      BY <1>5 DEF Spending!Next, Spending!Asks, Spending!Answered, Spending!Lost, Spending!Abandoned,
           Spending!Refused, Spending!Observes, Spending!NewBatch, Spending!Interrupted, Spending!vars,
           Spending!ledger, Spending!history
    <2>. QED BY <1>2, <2>1 DEF RateInv
  <1>. QED BY <1>3, <1>4, <1>5

\* However answers, prices and whole calls get lost, a session costs and sends
\* no more than it was given.
THEOREM SpendingHolds ==
    ASSUME Spending!SpendingAssumption PROVE Spending!Spec => []Spending!SpendingSafe
  <1>1. Spending!Init => BillInv /\ RateInv
    <2> SUFFICES ASSUME Spending!Init PROVE BillInv /\ RateInv
      OBVIOUS
    <2>1. BillInv
      <3>1. failed \in BOOLEAN
        BY Zenon DEF Spending!Init
      <3>. QED BY <3>1 DEF Spending!Init, BillInv, Spending!SpendingAssumption
    <2>2. Window = 0 /\ Len(inputs) = 0 /\ Len(times) = 0
      BY DEF Spending!Init, Window
    <2>3. RateInv
      BY <2>2 DEF Spending!Init, RateInv, Spending!SpendingAssumption
    <2>. QED BY <2>1, <2>3
  <1>2. BillInv /\ RateInv /\ [Spending!Next]_(Spending!vars) => (BillInv /\ RateInv)'
    BY BillStep, RateStep
  <1>3. BillInv /\ RateInv => Spending!SpendingSafe
    BY DEF BillInv, RateInv, Spending!SpendingSafe, Spending!BillIsCovered, Spending!RateHolds
  <1>. QED BY <1>1, <1>2, <1>3, PTL DEF Spending!Spec

\* Beside everything else the fleet does, the ledger that LedgerCharge keeps in
\* desktop_session.rs charges a session no more than its limit and what a refused answer
\* has hidden, and lets no more inputs through in a second than it was given.
THEOREM FleetSpends == Spec => []SpendingSafe
  <1>1. Init => Spending!Init
    BY DEF Init
  <1>2. [Next]_vars => [Spending!Next]_(Spending!vars)
    <2>1. UNCHANGED spendingVars => UNCHANGED Spending!vars
      BY DEF spendingVars, Spending!vars, Spending!ledger, Spending!history
    <2>2. Next => Spending!Next \/ UNCHANGED spendingVars
      BY DEF Next
    <2>3. UNCHANGED vars => UNCHANGED spendingVars
      BY DEF vars
    <2>. QED BY <2>1, <2>2, <2>3
  <1>. QED BY <1>1, <1>2, SpendingAssumed, SpendingHolds, PTL DEF Spec, Spending!Spec, SpendingSafe

(***************************************************************************)
(* The native app.  What it shows is inductive as it stands.               *)
(***************************************************************************)
LEMMA NativeStep ==
    ASSUME Native!ShellAssumption, Native!TypeOK, Native!ShownIsSo, [Native!Next]_(Native!vars)
    PROVE  Native!TypeOK' /\ Native!ShownIsSo'
  <1> USE DEF Native!ShellAssumption, Native!TypeOK, Native!ShownIsSo, Native!pairs, Native!setups, Native!serves
  <1>1. ASSUME NEW c \in Codes, Native!PairBegin(c) PROVE Native!TypeOK' /\ Native!ShownIsSo'
    BY <1>1 DEF Native!PairBegin
  <1>2. ASSUME NEW c \in Codes, Native!PairShown(c) PROVE Native!TypeOK' /\ Native!ShownIsSo'
    BY <1>2 DEF Native!PairShown
  <1>3. ASSUME NEW c \in Codes, Native!MemberClaims(c) PROVE Native!TypeOK' /\ Native!ShownIsSo'
    BY <1>3 DEF Native!MemberClaims
  <1>4. ASSUME NEW c \in Codes, Native!PollClaimed(c) PROVE Native!TypeOK' /\ Native!ShownIsSo'
    BY <1>4 DEF Native!PollClaimed
  <1>5. ASSUME NEW c \in Codes, Native!PollEnds(c) \/ Native!PollClears(c)
        PROVE  Native!TypeOK' /\ Native!ShownIsSo'
    BY <1>5 DEF Native!PollEnds, Native!PollClears
  <1>6. CASE Native!PairCancel
    BY <1>6 DEF Native!PairCancel
  <1>14. CASE Native!SetupEnds
    BY <1>14 DEF Native!SetupEnds
  <1>15. ASSUME NEW what \in {"install", "pull"}, Native!SetupBegin(what)
         PROVE  Native!TypeOK' /\ Native!ShownIsSo'
    BY <1>15 DEF Native!SetupBegin
  <1>7. ASSUME NEW s \in Servers, Native!ServerStart(s) \/ Native!ServerRefused(s)
        PROVE  Native!TypeOK' /\ Native!ShownIsSo'
    BY <1>7 DEF Native!ServerStart, Native!ServerRefused
  <1>8. ASSUME NEW s \in Servers, Native!ServerGoes(s) PROVE Native!TypeOK' /\ Native!ShownIsSo'
    BY <1>8 DEF Native!ServerGoes
  <1>9. ASSUME NEW s \in Servers, Native!ServeRegisters(s) PROVE Native!TypeOK' /\ Native!ShownIsSo'
    BY <1>9 DEF Native!ServeRegisters
  <1>10. ASSUME NEW s \in Servers, Native!ServeReturns(s) PROVE Native!TypeOK' /\ Native!ShownIsSo'
    BY <1>10 DEF Native!ServeReturns
  <1>11. ASSUME NEW s \in Servers, Native!ServeClears(s) PROVE Native!TypeOK' /\ Native!ShownIsSo'
    BY <1>11 DEF Native!ServeClears
  <1>12. ASSUME NEW forget \in BOOLEAN, Native!ServerStop(forget) PROVE Native!TypeOK' /\ Native!ShownIsSo'
    BY <1>12 DEF Native!ServerStop
  <1>13. CASE UNCHANGED Native!vars
    BY <1>13 DEF Native!vars
  <1>. QED BY <1>1, <1>2, <1>3, <1>4, <1>5, <1>6, <1>7, <1>8, <1>9, <1>10, <1>11, <1>12, <1>13, <1>14, <1>15
          DEF Native!Next

\* Whatever calls of the native app overlap, what it shows is so.
THEOREM NativeShowsWhatIs ==
    ASSUME Native!ShellAssumption PROVE Native!Spec => [](Native!TypeOK /\ Native!ShownIsSo)
  <1>1. Native!Init => Native!TypeOK /\ Native!ShownIsSo
    <2> SUFFICES ASSUME Native!Init PROVE Native!TypeOK /\ Native!ShownIsSo
      OBVIOUS
    <2>1. Native!TypeOK
      <3>1. busy \in BOOLEAN /\ tunnel \in BOOLEAN /\ shellEnabled \in BOOLEAN /\ registered \in BOOLEAN
        BY Zenon DEF Native!Init
      <3>2. /\ poll \in [Codes -> {"none", "asking", "polling", "ending", "done"}]
            /\ serve \in [Servers -> {"none", "checking", "starting", "serving", "ending", "done"}]
        BY DEF Native!Init
      <3>3. steps \in 0 .. MaxSteps
        BY DEF Native!Init, Native!ShellAssumption
      <3>. QED BY <3>1, <3>2, <3>3 DEF Native!Init, Native!TypeOK
    <2>2. Native!ShownIsSo
      BY DEF Native!Init, Native!ShownIsSo
    <2>. QED BY <2>1, <2>2
  <1>. QED BY <1>1, NativeStep, PTL DEF Native!Spec

\* Beside everything else, the codes, the server role and the setup that the window of the
\* native app shows are the ones its state and the environment hold.
THEOREM FleetShows == Spec => []ShownIsSo
  <1>1. Init => Native!Init
    BY DEF Init
  <1>2. [Next]_vars => [Native!Next]_(Native!vars)
    <2>1. UNCHANGED shellVars => UNCHANGED Native!vars
      BY DEF shellVars, Native!vars, Native!pairs, Native!setups, Native!serves
    <2>2. Next => Native!Next \/ UNCHANGED shellVars
      BY DEF Next
    <2>3. UNCHANGED vars => UNCHANGED shellVars
      BY DEF vars
    <2>. QED BY <2>1, <2>2, <2>3
  <1>. QED BY <1>1, <1>2, NativeAssumed, NativeShowsWhatIs, PTL DEF Spec, Native!Spec, ShownIsSo

(***************************************************************************)
(* The other app.                                                          *)
(***************************************************************************)
TauriInv ==
    /\ Tauri!TypeOK
    /\ tauriPresence = "in" /\ ~ unheard => \E w \in TauriStarts : worker[w] \in Tauri!Alive \ {"clearing"}
    /\ worker_stop # None => worker[worker_stop] \in Tauri!Alive

LEMMA TauriStep ==
    ASSUME Tauri!TauriAssumption, TauriInv, [Tauri!Next]_(Tauri!vars)
    PROVE  TauriInv'
  <1> USE DEF Tauri!TauriAssumption, TauriInv, Tauri!TypeOK, Tauri!Alive, Tauri!tasks, Tauri!node,
          Tauri!Moves, Tauri!Up, Tauri!Outside, Tauri!Stopped
  <1>1. ASSUME NEW w \in TauriStarts, Tauri!StartLooks(w) \/ Tauri!StartRefused(w) PROVE TauriInv'
    BY <1>1 DEF Tauri!StartLooks, Tauri!StartRefused
  <1>2. ASSUME NEW w \in TauriStarts, Tauri!StartGoes(w) PROVE TauriInv'
    BY <1>2 DEF Tauri!StartGoes
  <1>3. ASSUME NEW w \in TauriStarts, Tauri!CheckIn(w) PROVE TauriInv'
    BY <1>3 DEF Tauri!CheckIn
  <1>4. ASSUME NEW w \in TauriStarts, Tauri!Claims(w) PROVE TauriInv'
    BY <1>4 DEF Tauri!Claims
  <1>5. ASSUME NEW w \in TauriStarts, Tauri!CardEnds(w) \/ Tauri!Leaves(w) PROVE TauriInv'
    BY <1>5 DEF Tauri!CardEnds, Tauri!Leaves
  <1>6. ASSUME NEW w \in TauriStarts, Tauri!ChecksOut(w) PROVE TauriInv'
    BY <1>6 DEF Tauri!ChecksOut, Tauri!Out
  <1>7. ASSUME NEW w \in TauriStarts, Tauri!Fails(w) PROVE TauriInv'
    <2>1. CASE tauriPresence' = Tauri!Out /\ UNCHANGED <<tauriLost, unheard>>
      BY <1>7, <2>1 DEF Tauri!Fails, Tauri!Out
    <2>2. CASE tauriLost < TauriMaxLost /\ tauriLost' = tauriLost + 1 /\ unheard' = TRUE /\ UNCHANGED tauriPresence
      BY <1>7, <2>2 DEF Tauri!Fails
    <2>. QED BY <1>7, <2>1, <2>2 DEF Tauri!Fails
  <1>8. ASSUME NEW w \in TauriStarts, Tauri!Clears(w) PROVE TauriInv'
    BY <1>8 DEF Tauri!Clears
  <1>9. ASSUME NEW forget \in BOOLEAN, Tauri!StopWorker(forget) PROVE TauriInv'
    BY <1>9 DEF Tauri!StopWorker
  <1>10. CASE Tauri!Quit
    BY <1>10 DEF Tauri!Quit
  <1>11. CASE Tauri!Exit
    BY <1>11 DEF Tauri!Exit
  <1>12. CASE Tauri!Launch
    BY <1>12 DEF Tauri!Launch
  <1>13. CASE Tauri!Reaped
    BY <1>13 DEF Tauri!Reaped
  <1>14. CASE UNCHANGED Tauri!vars
    BY <1>14 DEF Tauri!vars
  <1>. QED BY <1>1, <1>2, <1>3, <1>4, <1>5, <1>6, <1>7, <1>8, <1>9, <1>10, <1>11, <1>12, <1>13, <1>14
          DEF Tauri!Next

\* However its starts, stops and launches overlap, the app leaves no presence
\* behind that nobody will end.
THEOREM TauriLeavesNothing ==
    ASSUME Tauri!TauriAssumption PROVE Tauri!Spec => []Tauri!NothingLeftBehind
  <1>1. Tauri!Init => TauriInv
    <2> SUFFICES ASSUME Tauri!Init PROVE TauriInv
      OBVIOUS
    <2>1. Tauri!TypeOK
      <3>1. tauriEnabled \in BOOLEAN /\ unheard \in BOOLEAN
        BY Zenon DEF Tauri!Init
      <3>2. worker \in [TauriStarts -> Tauri!Alive \cup {"none", "checking", "done"}]
        BY DEF Tauri!Init
      <3>3. launches \in 1 .. MaxLaunches + 1 /\ tauriLost \in 0 .. TauriMaxLost
        BY DEF Tauri!Init, Tauri!TauriAssumption
      <3>. QED BY <3>1, <3>2, <3>3 DEF Tauri!Init, Tauri!TypeOK
    <2>. QED BY <2>1 DEF Tauri!Init, TauriInv
  <1>2. TauriInv => Tauri!NothingLeftBehind
    BY DEF TauriInv, Tauri!TypeOK, Tauri!NothingLeftBehind
  <1>. QED BY <1>1, <1>2, TauriStep, PTL DEF Tauri!Spec

\* Beside everything else, no launch of the Tauri app ends with a presence or a worker that
\* no command of it would end.
THEOREM FleetLeavesNothing == Spec => []NothingLeftBehind
  <1>1. Init => Tauri!Init
    BY DEF Init
  <1>2. [Next]_vars => [Tauri!Next]_(Tauri!vars)
    <2>1. UNCHANGED tauriVars => UNCHANGED Tauri!vars
      BY DEF tauriVars, Tauri!vars, Tauri!tasks, Tauri!node
    <2>2. Next => Tauri!Next \/ UNCHANGED tauriVars
      BY DEF Next
    <2>3. UNCHANGED vars => UNCHANGED tauriVars
      BY DEF vars
    <2>. QED BY <2>1, <2>2, <2>3
  <1>. QED BY <1>1, <1>2, TauriAssumed, TauriLeavesNothing, PTL DEF Spec, Tauri!Spec, NothingLeftBehind

(***************************************************************************)
(* The worker of one machine.  While no call is lost a card is leased only *)
(* while it runs, so that none is left when a run ends as asked; and a run *)
(* that goes on is one the supervisor waits for and shows.                 *)
(***************************************************************************)
RunIsWatched == (Worker!Up => sup = "running") /\ (sup = "running" => shown = "Working")

\* what the type invariant says of the flags, and of the rest
Flags ==
    /\ news \in BOOLEAN /\ owner \in BOOLEAN /\ stop \in BOOLEAN /\ beats \in BOOLEAN
    /\ leased \in BOOLEAN /\ workerReady \in BOOLEAN /\ usable \in BOOLEAN /\ asked \in BOOLEAN

Places ==
    /\ intent \in {"Work", "Rest"}
    /\ sup \in {"decide", "resting", "running", "retrying", "blocked", "gone"}
    /\ shown \in {"Resting", "Working", "Retrying", "Blocked"}
    /\ wk \in {"none", "start", "poll", "tick", "card", "check_out", "ended"}
    /\ workerResult \in {"none", "requested", "error", "terminal"}
    /\ permit \in {"free", "worker", "bots"}
    /\ workerPresence \in {"checked_in", "draining", "checked_out"}
    /\ permit = "worker" <=> wk = "card"

Counts ==
    /\ age \in 0 .. 2 /\ presses \in 0 .. MaxPresses /\ unblocked \in 0 .. MaxPresses
    /\ workerLost \in 0 .. WorkerMaxLost /\ breaks \in 0 .. MaxBreaks

LeasedWhileRun == (workerLost = 0 /\ leased) => wk = "card"

CheckedOutAfter == (workerLost = 0 /\ wk = "ended" /\ workerResult = "requested") => workerPresence # "checked_in"

WorkerInv ==
    Flags /\ Places /\ Counts /\ RunIsWatched /\ Worker!BlockedNeedsMember /\ LeasedWhileRun /\ CheckedOutAfter

\* the supervisor changes none of what the hub knows
LEMMA SupervisionStep ==
    ASSUME Worker!WorkerAssumption, WorkerInv, Worker!Supervision
    PROVE  WorkerInv'
  <1> USE DEF WorkerInv, Worker!WorkerAssumption, Worker!intents, Worker!hub, Worker!ghosts
  <1>1. CASE Worker!Decide
    <2>1. ~ Worker!Up
      BY <1>1 DEF Worker!Decide, RunIsWatched
    <2>2. RunIsWatched'
      BY <1>1, <2>1 DEF Worker!Decide, RunIsWatched, Worker!Up
    <2>3. Flags'
      BY <1>1, Zenon DEF Worker!Decide, Flags
    <2>6. Places'
      BY <1>1, <2>1 DEF Worker!Decide, Places, Worker!Up
    <2>7. Counts'
      BY <1>1 DEF Worker!Decide, Counts
    <2>4. (LeasedWhileRun /\ CheckedOutAfter)'
      BY <1>1, <2>1 DEF Worker!Decide, LeasedWhileRun, CheckedOutAfter, Worker!Up
    <2>5. Worker!BlockedNeedsMember'
      BY <1>1 DEF Worker!Decide, Worker!BlockedNeedsMember
    <2>. QED BY <2>2, <2>3, <2>4, <2>5, <2>6, <2>7
  <1>2. CASE Worker!Notices
    <2>1. Flags'
      BY <1>2, Zenon DEF Worker!Notices, Flags
    <2>2. Places'
      BY <1>2 DEF Worker!Notices, Places
    <2>3. Counts'
      BY <1>2 DEF Worker!Notices, Counts, Worker!BlockedNeedsMember
    <2>4. (LeasedWhileRun /\ CheckedOutAfter)'
      BY <1>2 DEF Worker!Notices, Counts, LeasedWhileRun, CheckedOutAfter
    <2>5. (RunIsWatched /\ Worker!BlockedNeedsMember)'
      BY <1>2 DEF Worker!Notices, Counts, RunIsWatched, Worker!Up, Worker!BlockedNeedsMember
    <2>. QED BY <2>1, <2>2, <2>3, <2>4, <2>5
  <1>3. CASE Worker!Joined
    <2>1. Flags'
      BY <1>3, Zenon DEF Worker!Joined, Flags
    <2>2. Places'
      BY <1>3 DEF Worker!Joined, Places
    <2>3. Counts'
      BY <1>3 DEF Worker!Joined, Counts, Worker!BlockedNeedsMember
    <2>4. (LeasedWhileRun /\ CheckedOutAfter)'
      BY <1>3 DEF Worker!Joined, Counts, LeasedWhileRun, CheckedOutAfter
    <2>5. (RunIsWatched /\ Worker!BlockedNeedsMember)'
      BY <1>3 DEF Worker!Joined, Counts, RunIsWatched, Worker!Up, Worker!BlockedNeedsMember
    <2>. QED BY <2>1, <2>2, <2>3, <2>4, <2>5
  <1>4. CASE Worker!Wakes
    <2>1. Flags'
      BY <1>4, Zenon DEF Worker!Wakes, Flags
    <2>2. Places'
      BY <1>4 DEF Worker!Wakes, Places
    <2>3. Counts'
      BY <1>4 DEF Worker!Wakes, Counts, Worker!BlockedNeedsMember
    <2>4. (LeasedWhileRun /\ CheckedOutAfter)'
      BY <1>4 DEF Worker!Wakes, Counts, LeasedWhileRun, CheckedOutAfter
    <2>5. (RunIsWatched /\ Worker!BlockedNeedsMember)'
      BY <1>4 DEF Worker!Wakes, Counts, RunIsWatched, Worker!Up, Worker!BlockedNeedsMember
    <2>. QED BY <2>1, <2>2, <2>3, <2>4, <2>5
  <1>5. CASE Worker!RetryDue
    <2>1. Flags'
      BY <1>5, Zenon DEF Worker!RetryDue, Flags
    <2>2. Places'
      BY <1>5 DEF Worker!RetryDue, Places
    <2>3. Counts'
      BY <1>5 DEF Worker!RetryDue, Counts, Worker!BlockedNeedsMember
    <2>4. (LeasedWhileRun /\ CheckedOutAfter)'
      BY <1>5 DEF Worker!RetryDue, Counts, LeasedWhileRun, CheckedOutAfter
    <2>5. (RunIsWatched /\ Worker!BlockedNeedsMember)'
      BY <1>5 DEF Worker!RetryDue, Counts, RunIsWatched, Worker!Up, Worker!BlockedNeedsMember
    <2>. QED BY <2>1, <2>2, <2>3, <2>4, <2>5
  <1>. QED BY <1>1, <1>2, <1>3, <1>4, <1>5 DEF Worker!Supervision

\* a run takes a card only when the supervisor waits for it, and gives it back before it checks out
LEMMA RunStep ==
    ASSUME Worker!WorkerAssumption, WorkerInv, Worker!Run \/ Worker!Panics
    PROVE  WorkerInv'
  <1> USE DEF WorkerInv, Worker!WorkerAssumption, Worker!intents, Worker!hub, Worker!ghosts,
              Worker!Stays, Worker!Fails, Worker!EndsRun
  <1>1. UNCHANGED <<intent, news, owner, presses, sup, shown, stop, usable, breaks, unblocked, asked>>
    BY DEF Worker!Run, Worker!Starts, Worker!Polls, Worker!Ticks, Worker!CardEnds, Worker!StopsCard,
           Worker!ChecksOut, Worker!Panics
  <1>2. Worker!Up /\ sup = "running"
    BY DEF Worker!Run, Worker!Starts, Worker!Polls, Worker!Ticks, Worker!CardEnds, Worker!StopsCard,
           Worker!ChecksOut, Worker!Panics, RunIsWatched, Worker!Up
  <1>3. RunIsWatched' /\ Worker!BlockedNeedsMember'
    BY <1>1, <1>2 DEF RunIsWatched, Worker!BlockedNeedsMember
  <1>4. CASE Worker!Starts
    <2>1. Flags'
      BY <1>1, <1>3, <1>4, Zenon DEF Worker!Starts, Flags
    <2>2. Places'
      BY <1>1, <1>3, <1>4 DEF Worker!Starts, Places
    <2>3. Counts'
      BY <1>1, <1>3, <1>4 DEF Worker!Starts, Counts, Worker!BlockedNeedsMember
    <2>4. (LeasedWhileRun /\ CheckedOutAfter)'
      BY <1>1, <1>3, <1>4 DEF Worker!Starts, Counts, LeasedWhileRun, CheckedOutAfter
    <2>5. (RunIsWatched /\ Worker!BlockedNeedsMember)'
      BY <1>1, <1>3, <1>4 DEF Worker!Starts, Counts, RunIsWatched, Worker!Up, Worker!BlockedNeedsMember
    <2>. QED BY <2>1, <2>2, <2>3, <2>4, <2>5
  <1>5. CASE Worker!Polls
    <2>1. Flags'
      BY <1>1, <1>3, <1>5, Zenon DEF Worker!Polls, Flags
    <2>2. Places'
      BY <1>1, <1>3, <1>5 DEF Worker!Polls, Places
    <2>3. Counts'
      BY <1>1, <1>3, <1>5 DEF Worker!Polls, Counts, Worker!BlockedNeedsMember
    <2>4. (LeasedWhileRun /\ CheckedOutAfter)'
      BY <1>1, <1>3, <1>5 DEF Worker!Polls, Counts, LeasedWhileRun, CheckedOutAfter
    <2>5. (RunIsWatched /\ Worker!BlockedNeedsMember)'
      BY <1>1, <1>3, <1>5 DEF Worker!Polls, Counts, RunIsWatched, Worker!Up, Worker!BlockedNeedsMember
    <2>. QED BY <2>1, <2>2, <2>3, <2>4, <2>5
  <1>6. CASE Worker!Ticks
    <2>1. Flags'
      BY <1>1, <1>3, <1>6, Zenon DEF Worker!Ticks, Flags
    <2>2. Places'
      BY <1>1, <1>3, <1>6 DEF Worker!Ticks, Places
    <2>3. Counts'
      BY <1>1, <1>3, <1>6 DEF Worker!Ticks, Counts, Worker!BlockedNeedsMember
    <2>4. (LeasedWhileRun /\ CheckedOutAfter)'
      BY <1>1, <1>3, <1>6 DEF Worker!Ticks, Counts, LeasedWhileRun, CheckedOutAfter
    <2>5. (RunIsWatched /\ Worker!BlockedNeedsMember)'
      BY <1>1, <1>3, <1>6 DEF Worker!Ticks, Counts, RunIsWatched, Worker!Up, Worker!BlockedNeedsMember
    <2>. QED BY <2>1, <2>2, <2>3, <2>4, <2>5
  <1>7. CASE Worker!CardEnds
    <2>1. Flags'
      BY <1>1, <1>3, <1>7, Zenon DEF Worker!CardEnds, Flags
    <2>2. Places'
      BY <1>1, <1>3, <1>7 DEF Worker!CardEnds, Places
    <2>3. Counts'
      BY <1>1, <1>3, <1>7 DEF Worker!CardEnds, Counts, Worker!BlockedNeedsMember
    <2>4. (LeasedWhileRun /\ CheckedOutAfter)'
      BY <1>1, <1>3, <1>7 DEF Worker!CardEnds, Counts, LeasedWhileRun, CheckedOutAfter
    <2>5. (RunIsWatched /\ Worker!BlockedNeedsMember)'
      BY <1>1, <1>3, <1>7 DEF Worker!CardEnds, Counts, RunIsWatched, Worker!Up, Worker!BlockedNeedsMember
    <2>. QED BY <2>1, <2>2, <2>3, <2>4, <2>5
  <1>8. CASE Worker!StopsCard
    <2>1. Flags'
      BY <1>1, <1>3, <1>8, Zenon DEF Worker!StopsCard, Flags
    <2>2. Places'
      BY <1>1, <1>3, <1>8 DEF Worker!StopsCard, Places
    <2>3. Counts'
      BY <1>1, <1>3, <1>8 DEF Worker!StopsCard, Counts, Worker!BlockedNeedsMember
    <2>4. (LeasedWhileRun /\ CheckedOutAfter)'
      BY <1>1, <1>3, <1>8 DEF Worker!StopsCard, Counts, LeasedWhileRun, CheckedOutAfter
    <2>5. (RunIsWatched /\ Worker!BlockedNeedsMember)'
      BY <1>1, <1>3, <1>8 DEF Worker!StopsCard, Counts, RunIsWatched, Worker!Up, Worker!BlockedNeedsMember
    <2>. QED BY <2>1, <2>2, <2>3, <2>4, <2>5
  <1>9. CASE Worker!ChecksOut
    <2>1. Flags'
      BY <1>1, <1>3, <1>9, Zenon DEF Worker!ChecksOut, Flags
    <2>2. Places'
      BY <1>1, <1>3, <1>9 DEF Worker!ChecksOut, Places
    <2>3. Counts'
      BY <1>1, <1>3, <1>9 DEF Worker!ChecksOut, Counts, Worker!BlockedNeedsMember
    <2>4. (LeasedWhileRun /\ CheckedOutAfter)'
      BY <1>1, <1>3, <1>9 DEF Worker!ChecksOut, Counts, LeasedWhileRun, CheckedOutAfter
    <2>5. (RunIsWatched /\ Worker!BlockedNeedsMember)'
      BY <1>1, <1>3, <1>9 DEF Worker!ChecksOut, Counts, RunIsWatched, Worker!Up, Worker!BlockedNeedsMember
    <2>. QED BY <2>1, <2>2, <2>3, <2>4, <2>5
  <1>10. CASE Worker!Panics
    <2>1. Flags'
      BY <1>1, <1>3, <1>10, Zenon DEF Worker!Panics, Flags
    <2>2. Places'
      BY <1>1, <1>3, <1>10 DEF Worker!Panics, Places, Worker!Up
    <2>3. Counts'
      BY <1>1, <1>3, <1>10 DEF Worker!Panics, Counts, Worker!BlockedNeedsMember
    <2>4. (LeasedWhileRun /\ CheckedOutAfter)'
      BY <1>1, <1>3, <1>10 DEF Worker!Panics, Counts, LeasedWhileRun, CheckedOutAfter
    <2>5. (RunIsWatched /\ Worker!BlockedNeedsMember)'
      BY <1>1, <1>3, <1>10 DEF Worker!Panics, Counts, RunIsWatched, Worker!Up, Worker!BlockedNeedsMember
    <2>. QED BY <2>1, <2>2, <2>3, <2>4, <2>5
  <1>. QED BY <1>4, <1>5, <1>6, <1>7, <1>8, <1>9, <1>10 DEF Worker!Run

\* nobody else leases a card to the machine or ends a run of it
LEMMA OthersStep ==
    ASSUME Worker!WorkerAssumption, WorkerInv,
           \/ Worker!Heartbeat \/ \E i \in {"Work", "Rest"} : Worker!Presses(i)
           \/ Worker!AppGoesAway \/ Worker!ModelServer \/ Worker!BotsTurn \/ Worker!CardArrives
           \/ Worker!Time \/ Worker!Reaped
    PROVE  WorkerInv'
  <1> USE DEF WorkerInv, Worker!WorkerAssumption, Worker!intents, Worker!hub, Worker!ghosts,
              Worker!Stays, Worker!Elsewhere
  <1>1. UNCHANGED <<sup, shown, wk, workerResult, workerLost, unblocked>>
    BY DEF Worker!Heartbeat, Worker!Presses, Worker!AppGoesAway, Worker!ModelServer, Worker!BotsTurn,
           Worker!CardArrives, Worker!Time, Worker!Reaped
  <1>2. RunIsWatched'
    BY <1>1 DEF RunIsWatched, Worker!Up
  <1>3. CASE \E i \in {"Work", "Rest"} : Worker!Presses(i)
    <2>1. Flags'
      BY <1>1, <1>2, <1>3, Zenon DEF Worker!Presses, Flags
    <2>2. Places'
      BY <1>1, <1>2, <1>3 DEF Worker!Presses, Places
    <2>3. Counts'
      BY <1>1, <1>2, <1>3 DEF Worker!Presses, Counts, Worker!BlockedNeedsMember
    <2>4. (LeasedWhileRun /\ CheckedOutAfter)'
      BY <1>1, <1>2, <1>3 DEF Worker!Presses, Counts, LeasedWhileRun, CheckedOutAfter
    <2>5. (RunIsWatched /\ Worker!BlockedNeedsMember)'
      BY <1>1, <1>2, <1>3 DEF Worker!Presses, Counts, RunIsWatched, Worker!Up, Worker!BlockedNeedsMember
    <2>. QED BY <2>1, <2>2, <2>3, <2>4, <2>5
  <1>4. CASE Worker!Heartbeat
    <2>1. Flags'
      BY <1>1, <1>2, <1>4, Zenon DEF Worker!Heartbeat, Flags
    <2>2. Places'
      BY <1>1, <1>2, <1>4 DEF Worker!Heartbeat, Places
    <2>3. Counts'
      BY <1>1, <1>2, <1>4 DEF Worker!Heartbeat, Counts, Worker!BlockedNeedsMember
    <2>4. (LeasedWhileRun /\ CheckedOutAfter)'
      BY <1>1, <1>2, <1>4 DEF Worker!Heartbeat, Counts, LeasedWhileRun, CheckedOutAfter
    <2>5. (RunIsWatched /\ Worker!BlockedNeedsMember)'
      BY <1>1, <1>2, <1>4 DEF Worker!Heartbeat, Counts, RunIsWatched, Worker!Up, Worker!BlockedNeedsMember
    <2>. QED BY <2>1, <2>2, <2>3, <2>4, <2>5
  <1>5. CASE Worker!AppGoesAway \/ Worker!ModelServer
    <2>1. Flags'
      BY <1>1, <1>2, <1>5, Zenon DEF Worker!AppGoesAway, Worker!ModelServer, Flags
    <2>2. Places'
      BY <1>1, <1>2, <1>5 DEF Worker!AppGoesAway, Worker!ModelServer, Places
    <2>3. Counts'
      BY <1>1, <1>2, <1>5 DEF Worker!AppGoesAway, Worker!ModelServer, Counts, Worker!BlockedNeedsMember
    <2>4. (LeasedWhileRun /\ CheckedOutAfter)'
      BY <1>1, <1>2, <1>5 DEF Worker!AppGoesAway, Worker!ModelServer, Counts, LeasedWhileRun, CheckedOutAfter
    <2>5. (RunIsWatched /\ Worker!BlockedNeedsMember)'
      BY <1>1, <1>2, <1>5 DEF Worker!AppGoesAway, Worker!ModelServer, Counts, RunIsWatched, Worker!Up, Worker!BlockedNeedsMember
    <2>. QED BY <2>1, <2>2, <2>3, <2>4, <2>5
  <1>6. CASE Worker!BotsTurn \/ Worker!CardArrives
    <2>1. Flags'
      BY <1>1, <1>2, <1>6, Zenon DEF Worker!BotsTurn, Worker!CardArrives, Flags
    <2>2. Places'
      BY <1>1, <1>2, <1>6 DEF Worker!BotsTurn, Worker!CardArrives, Places
    <2>3. Counts'
      BY <1>1, <1>2, <1>6 DEF Worker!BotsTurn, Worker!CardArrives, Counts, Worker!BlockedNeedsMember
    <2>4. (LeasedWhileRun /\ CheckedOutAfter)'
      BY <1>1, <1>2, <1>6 DEF Worker!BotsTurn, Worker!CardArrives, Counts, LeasedWhileRun, CheckedOutAfter
    <2>5. (RunIsWatched /\ Worker!BlockedNeedsMember)'
      BY <1>1, <1>2, <1>6 DEF Worker!BotsTurn, Worker!CardArrives, Counts, RunIsWatched, Worker!Up, Worker!BlockedNeedsMember
    <2>. QED BY <2>1, <2>2, <2>3, <2>4, <2>5
  <1>7. CASE Worker!Time \/ Worker!Reaped
    <2>1. Flags'
      BY <1>1, <1>2, <1>7, Zenon DEF Worker!Time, Worker!Reaped, Flags
    <2>2. Places'
      BY <1>1, <1>2, <1>7 DEF Worker!Time, Worker!Reaped, Places
    <2>3. Counts'
      BY <1>1, <1>2, <1>7 DEF Worker!Time, Worker!Reaped, Counts, Worker!BlockedNeedsMember
    <2>4. (LeasedWhileRun /\ CheckedOutAfter)'
      BY <1>1, <1>2, <1>7 DEF Worker!Time, Worker!Reaped, Counts, LeasedWhileRun, CheckedOutAfter
    <2>5. (RunIsWatched /\ Worker!BlockedNeedsMember)'
      BY <1>1, <1>2, <1>7 DEF Worker!Time, Worker!Reaped, Counts, RunIsWatched, Worker!Up, Worker!BlockedNeedsMember
    <2>. QED BY <2>1, <2>2, <2>3, <2>4, <2>5
  <1>. QED BY <1>3, <1>4, <1>5, <1>6, <1>7

\* Whatever is lost, panics or is pressed, the machine shows what it does, bothers its member no
\* more than once for a change, and a run that ended as asked, with every call answered, leaves
\* neither a lease nor a node that is checked in behind.
THEOREM WorkerHolds ==
    ASSUME Worker!WorkerAssumption
    PROVE  Worker!Spec => [](Worker!TypeOK /\ Worker!WorkerSafe)
  <1>1. Worker!Init => WorkerInv
    <2>1. Worker!Init => Flags
      BY Zenon DEF Worker!Init, Flags
    <2>2. Worker!Init => Places
      BY DEF Worker!Init, Places
    <2>3. Worker!Init => Counts
      BY DEF Worker!Init, Counts, Worker!WorkerAssumption
    <2>4. Worker!Init => RunIsWatched /\ LeasedWhileRun /\ CheckedOutAfter
      BY DEF Worker!Init, RunIsWatched, Worker!Up, LeasedWhileRun, CheckedOutAfter
    <2>5. Worker!Init => Worker!BlockedNeedsMember
      BY DEF Worker!Init, Worker!BlockedNeedsMember
    <2>. QED BY <2>1, <2>2, <2>3, <2>4, <2>5 DEF WorkerInv
  <1>2. WorkerInv /\ [Worker!Next]_(Worker!vars) => WorkerInv'
    <2>1. CASE UNCHANGED Worker!vars
      BY <2>1 DEF Worker!vars, Worker!intents, Worker!hub, Worker!ghosts, WorkerInv, Flags, Places, Counts, RunIsWatched,
                  Worker!Up, Worker!BlockedNeedsMember, LeasedWhileRun, CheckedOutAfter
    <2>. QED BY <2>1, SupervisionStep, RunStep, OthersStep DEF Worker!Next
  <1>3. WorkerInv => Worker!TypeOK /\ Worker!WorkerSafe
    BY DEF WorkerInv, Flags, Places, Counts, Worker!TypeOK, Worker!WorkerSafe, Worker!ShownIsTrue, RunIsWatched, Worker!CleanExit, LeasedWhileRun,
           CheckedOutAfter
  <1>. QED BY <1>1, <1>2, <1>3, PTL DEF Worker!Spec

\* Beside everything else, the supervisor of a machine shows what its worker does, tells
\* its member of a change once, and leaves no lease and no node that is checked in behind a
\* run that ended as asked.
THEOREM FleetWorks == Spec => []WorkerSafe
  <1>1. Init => Worker!Init
    BY DEF Init
  <1>2. [Next]_vars => [Worker!Next]_(Worker!vars)
    <2>1. UNCHANGED workerVars => UNCHANGED Worker!vars
      BY DEF workerVars, Worker!vars, Worker!intents, Worker!hub, Worker!ghosts
    <2>2. Next => Worker!Next \/ UNCHANGED workerVars
      BY DEF Next
    <2>3. UNCHANGED vars => UNCHANGED workerVars
      BY DEF vars
    <2>. QED BY <2>1, <2>2, <2>3
  <1>. QED BY <1>1, <1>2, WorkerAssumed, WorkerHolds, PTL DEF Spec, Worker!Spec, WorkerSafe

(***************************************************************************)
(* Checkouts.  A session holds the lock of its card from the first check   *)
(* to the last edit, and the lock of the repository while it touches the   *)
(* shared clone; whatever a session relies on is changed under the lock it *)
(* holds, and an edited checkout is a complete one.                        *)
(***************************************************************************)
CheckoutCounts == \A S : Checkout!Cardinality(S) = Cardinality(S)

LEMMA CheckoutCardinality == CheckoutCounts
  BY Zenon DEF CheckoutCounts, Checkout!Cardinality, Cardinality

Shared == {"cache", "cloning", "mark", "worktree", "adding"}

\* what a session holds where it is
CardLocked(p) == checkoutPc[p] \notin {"idle", "refused"} => cardLock[CardOf[p]] = p
RepoLocked(p) == checkoutPc[p] \in Shared => repoLock = p

\* what it relies on
CheckoutMade(p) == checkoutPc[p] \in {"publish", "working"} => dest[CardOf[p]] = "complete"
CacheUnmarked(p) == checkoutPc[p] = "cloning" => ~ checkoutReady
CacheMade(p) == checkoutPc[p] = "mark" => cache = "complete"

CacheVouched == checkoutReady => cache = "complete"
ReceiptVouched(c) == receipt[c] => dest[c] = "complete"
EditedIsMade(c) == work[c] > 0 => dest[c] = "complete"

SessionsHold ==
    \A p \in Process : CardLocked(p) /\ RepoLocked(p) /\ CheckoutMade(p) /\ CacheUnmarked(p) /\ CacheMade(p)

CheckoutInv ==
    /\ Checkout!TypeOK /\ SessionsHold /\ CacheVouched
    /\ \A c \in CheckoutCard : ReceiptVouched(c) /\ EditedIsMade(c)

\* a session that lets go takes no lock from another one
LEMMA ReleaseLeavesOthers ==
    ASSUME Checkout!WorkspacesAssumption, Checkout!TypeOK, NEW p \in Process, Checkout!Released(p)
    PROVE  /\ cardLock' \in [CheckoutCard -> Process \cup {None}] /\ repoLock' \in Process \cup {None}
           /\ \A q \in Process \ {p} : CardLocked(q) /\ checkoutPc'[q] = checkoutPc[q] => CardLocked(q)'
           /\ \A q \in Process \ {p} : RepoLocked(q) /\ checkoutPc'[q] = checkoutPc[q] => RepoLocked(q)'
  BY DEF Checkout!WorkspacesAssumption, Checkout!TypeOK, Checkout!Released, CardLocked, RepoLocked

\* a session at a step that has no lock has none to lose, and one at rest relies on nothing
LEMMA RestingRelies ==
    ASSUME NEW p \in Process, checkoutPc'[p] \in {"idle", "refused"}
    PROVE  (CardLocked(p) /\ RepoLocked(p) /\ CheckoutMade(p) /\ CacheUnmarked(p) /\ CacheMade(p))'
  BY DEF CardLocked, RepoLocked, Shared, CheckoutMade, CacheUnmarked, CacheMade

\* steps of a session that leave the files alone
LEMMA LetsGo ==
    ASSUME Checkout!WorkspacesAssumption, CheckoutInv, NEW p \in Process, NEW s \in {"idle", "refused"},
           Checkout!Go(p, s), Checkout!Released(p), UNCHANGED <<checkoutReady, dest, receipt, work, branch>>,
           cache' = cache \/ (cache' \in Checkout!Stage /\ checkoutPc[p] = "cloning"), checkoutFaults' \in 0 .. CheckoutMaxFaults
    PROVE  CheckoutInv'
  <1>1. checkoutPc' \in [Process -> Checkout!Step] /\ checkoutPc'[p] = s /\ \A q \in Process \ {p} : checkoutPc'[q] = checkoutPc[q]
    BY DEF Checkout!Go, CheckoutInv, Checkout!TypeOK, Checkout!Step
  <1>2. Checkout!TypeOK'
    BY <1>1, ReleaseLeavesOthers DEF CheckoutInv, Checkout!TypeOK
  <1>3. ASSUME NEW q \in Process
        PROVE  (CardLocked(q) /\ RepoLocked(q) /\ CheckoutMade(q) /\ CacheUnmarked(q) /\ CacheMade(q))'
    <2>1. CASE q = p
      BY <1>1, <2>1, RestingRelies
    <2>2. CASE q # p
      <3>1. (CardLocked(q) /\ RepoLocked(q))'
        BY <1>1, <2>2, ReleaseLeavesOthers DEF CheckoutInv, SessionsHold
      <3>2. (CheckoutMade(q) /\ CacheUnmarked(q))'
        BY <1>1, <2>2 DEF CheckoutInv, SessionsHold, CheckoutMade, CacheUnmarked
      <3>3. checkoutPc[p] = "cloning" /\ checkoutPc[q] = "mark" => FALSE
        BY <2>2 DEF CheckoutInv, SessionsHold, RepoLocked, Shared
      <3>4. CacheMade(q)'
        BY <1>1, <2>2, <3>3 DEF CheckoutInv, SessionsHold, CacheMade
      <3>. QED BY <3>1, <3>2, <3>4
    <2>. QED BY <2>1, <2>2
  <1>4. CacheVouched'
    BY DEF CheckoutInv, SessionsHold, CacheVouched, CacheUnmarked
  <1>5. ASSUME NEW c \in CheckoutCard PROVE (ReceiptVouched(c) /\ EditedIsMade(c))'
    BY DEF CheckoutInv, ReceiptVouched, EditedIsMade
  <1>. QED BY <1>2, <1>3, <1>4, <1>5 DEF CheckoutInv, SessionsHold

LEMMA LocksStep ==
    ASSUME Checkout!WorkspacesAssumption, CheckoutInv, NEW p \in Process,
           \/ Checkout!Lock(p) \/ Checkout!Check(p) \/ Checkout!LockRepository(p) \/ Checkout!Leave(p)
           \/ Checkout!Retry(p) \/ Checkout!Fault(p)
    PROVE  CheckoutInv'
  <1> USE DEF Checkout!WorkspacesAssumption, Checkout!files, Checkout!locks
  <1>1. CASE Checkout!Lock(p)
    <2>1. UNCHANGED <<cache, checkoutReady, branch, dest, receipt, work, checkoutFaults, repoLock>> /\ checkoutPc[p] = "idle"
      BY <1>1 DEF Checkout!Lock
    <2>2. CASE cardLock[CardOf[p]] = None
      <3>1. cardLock' = [cardLock EXCEPT ![CardOf[p]] = p] /\ checkoutPc' = [checkoutPc EXCEPT ![p] = "check"]
        BY <1>1, <2>2 DEF Checkout!Lock, Checkout!Go
      <3>2. Checkout!TypeOK'
        BY <2>1, <3>1 DEF CheckoutInv, Checkout!TypeOK, Checkout!Step
      <3>3. SessionsHold'
        BY <2>1, <2>2, <3>1 DEF CheckoutInv, Checkout!TypeOK, SessionsHold, CardLocked, RepoLocked, Shared,
                                CheckoutMade, CacheUnmarked, CacheMade
      <3>. QED BY <2>1, <3>2, <3>3 DEF CheckoutInv, CacheVouched, ReceiptVouched, EditedIsMade
    <2>3. CASE cardLock[CardOf[p]] # None
      <3>1. UNCHANGED cardLock /\ checkoutPc' = [checkoutPc EXCEPT ![p] = "refused"]
        BY <1>1, <2>3 DEF Checkout!Lock, Checkout!Go
      <3>2. Checkout!TypeOK'
        BY <2>1, <3>1 DEF CheckoutInv, Checkout!TypeOK, Checkout!Step
      <3>3. SessionsHold'
        BY <2>1, <3>1 DEF CheckoutInv, Checkout!TypeOK, SessionsHold, CardLocked, RepoLocked, Shared,
                          CheckoutMade, CacheUnmarked, CacheMade
      <3>. QED BY <2>1, <3>2, <3>3 DEF CheckoutInv, CacheVouched, ReceiptVouched, EditedIsMade
    <2>. QED BY <2>2, <2>3
  <1>2. CASE Checkout!Check(p)
    <2>1. UNCHANGED <<cache, checkoutReady, branch, dest, receipt, work, checkoutFaults>> /\ checkoutPc[p] = "check"
      BY <1>2 DEF Checkout!Check
    <2>2. CASE Checkout!Refuse(p)
      BY <2>1, <2>2, LetsGo DEF Checkout!Refuse, CheckoutInv, Checkout!TypeOK
    <2>3. CASE UNCHANGED <<cardLock, repoLock>> /\ \E s \in {"working", "clone", "repo"} :
                    checkoutPc' = [checkoutPc EXCEPT ![p] = s] /\ (s = "working" => receipt[CardOf[p]])
      <3>1. PICK s \in {"working", "clone", "repo"} :
                checkoutPc' = [checkoutPc EXCEPT ![p] = s] /\ (s = "working" => receipt[CardOf[p]])
        BY <2>3
      <3>2. Checkout!TypeOK'
        BY <2>1, <2>3, <3>1 DEF CheckoutInv, Checkout!TypeOK, Checkout!Step
      <3>3. receipt[CardOf[p]] => dest[CardOf[p]] = "complete"
        BY DEF CheckoutInv, ReceiptVouched
      <3>4. SessionsHold'
        BY <2>1, <2>3, <3>1, <3>3 DEF CheckoutInv, Checkout!TypeOK, SessionsHold, CardLocked, RepoLocked, Shared,
                                      CheckoutMade, CacheUnmarked, CacheMade
      <3>. QED BY <2>1, <3>2, <3>4 DEF CheckoutInv, CacheVouched, ReceiptVouched, EditedIsMade
    <2>. QED BY <1>2, <2>2, <2>3 DEF Checkout!Check, Checkout!Go
  <1>3. CASE Checkout!LockRepository(p)
    <2>1. UNCHANGED <<cache, checkoutReady, branch, dest, receipt, work, checkoutFaults>> /\ checkoutPc[p] = "repo"
      BY <1>3 DEF Checkout!LockRepository
    <2>2. CASE Checkout!Refuse(p)
      BY <2>1, <2>2, LetsGo DEF Checkout!Refuse, CheckoutInv, Checkout!TypeOK
    <2>3. CASE repoLock = None /\ repoLock' = p /\ UNCHANGED cardLock /\ checkoutPc' = [checkoutPc EXCEPT ![p] = "cache"]
      <3>1. Checkout!TypeOK'
        BY <2>1, <2>3 DEF CheckoutInv, Checkout!TypeOK, Checkout!Step
      <3>2. SessionsHold'
        BY <2>1, <2>3 DEF CheckoutInv, Checkout!TypeOK, SessionsHold, CardLocked, RepoLocked, Shared,
                          CheckoutMade, CacheUnmarked, CacheMade
      <3>. QED BY <2>1, <3>1, <3>2 DEF CheckoutInv, CacheVouched, ReceiptVouched, EditedIsMade
    <2>. QED BY <1>3, <2>2, <2>3 DEF Checkout!LockRepository, Checkout!Go
  <1>4. CASE Checkout!Leave(p)
    BY <1>4, LetsGo DEF Checkout!Leave, CheckoutInv, Checkout!TypeOK
  <1>5. CASE Checkout!Retry(p)
    <2>1. UNCHANGED <<cardLock, repoLock, cache, checkoutReady, branch, dest, receipt, work, checkoutFaults>>
          /\ checkoutPc' = [checkoutPc EXCEPT ![p] = "idle"]
      BY <1>5 DEF Checkout!Retry, Checkout!Go
    <2>2. Checkout!TypeOK'
      BY <2>1 DEF CheckoutInv, Checkout!TypeOK, Checkout!Step
    <2>3. SessionsHold'
      BY <2>1 DEF CheckoutInv, Checkout!TypeOK, SessionsHold, CardLocked, RepoLocked, Shared,
                  CheckoutMade, CacheUnmarked, CacheMade
    <2>. QED BY <2>1, <2>2, <2>3 DEF CheckoutInv, CacheVouched, ReceiptVouched, EditedIsMade
  <1>6. CASE Checkout!Fault(p)
    <2>1. checkoutFaults' \in 0 .. CheckoutMaxFaults
      BY <1>6 DEF Checkout!Fault, CheckoutInv, Checkout!TypeOK
    <2>2. cache' = cache \/ (cache' \in Checkout!Stage /\ checkoutPc[p] = "cloning")
      BY <1>6 DEF Checkout!Fault, Checkout!Stage
    <2>. QED BY <1>6, <2>1, <2>2, LetsGo DEF Checkout!Fault, Checkout!Refuse
  <1>. QED BY <1>1, <1>2, <1>3, <1>4, <1>5, <1>6

\* the shared clone is changed under the lock of the repository
LEMMA CacheStep ==
    ASSUME Checkout!WorkspacesAssumption, CheckoutInv, NEW p \in Process,
           Checkout!Cache(p) \/ Checkout!CloneCache(p) \/ Checkout!MarkReady(p)
    PROVE  CheckoutInv'
  <1> USE DEF Checkout!WorkspacesAssumption, Checkout!locks
  <1>1. UNCHANGED <<branch, dest, receipt, work, checkoutFaults>> /\ checkoutPc[p] \in Shared
    BY DEF Checkout!Cache, Checkout!CloneCache, Checkout!MarkReady, Shared
  <1>2. \A c \in CheckoutCard : (ReceiptVouched(c) /\ EditedIsMade(c))'
    BY <1>1 DEF CheckoutInv, ReceiptVouched, EditedIsMade
  <1>3. \A q \in Process \ {p} : checkoutPc[q] \notin Shared
    BY <1>1 DEF CheckoutInv, SessionsHold, RepoLocked
  <1>4. CASE Checkout!Refuse(p) /\ UNCHANGED <<cache, checkoutReady>>
    BY <1>1, <1>4, LetsGo DEF Checkout!Refuse, CheckoutInv, Checkout!TypeOK
  <1>5. CASE UNCHANGED <<cardLock, repoLock>> /\
             \/ checkoutPc[p] = "cache" /\ checkoutPc' = [checkoutPc EXCEPT ![p] = "worktree"] /\ UNCHANGED <<cache, checkoutReady>>
             \/ checkoutPc[p] = "cache" /\ checkoutPc' = [checkoutPc EXCEPT ![p] = "cloning"] /\ ~ checkoutReady /\ cache' = "partial" /\ UNCHANGED checkoutReady
             \/ checkoutPc[p] = "cloning" /\ checkoutPc' = [checkoutPc EXCEPT ![p] = "mark"] /\ cache' = "complete" /\ UNCHANGED checkoutReady
             \/ checkoutPc[p] = "mark" /\ checkoutPc' = [checkoutPc EXCEPT ![p] = "worktree"] /\ checkoutReady' = TRUE /\ UNCHANGED cache
    <2>1. checkoutReady' \in BOOLEAN /\ cache' \in Checkout!Stage
      BY <1>5 DEF CheckoutInv, Checkout!TypeOK, Checkout!Stage
    <2>2. Checkout!TypeOK'
      BY <1>1, <1>5, <2>1 DEF CheckoutInv, Checkout!TypeOK, Checkout!Step
    <2>3. \A q \in Process : (CardLocked(q) /\ RepoLocked(q) /\ CheckoutMade(q))'
      BY <1>1, <1>5 DEF CheckoutInv, Checkout!TypeOK, SessionsHold, CardLocked, RepoLocked, Shared, CheckoutMade
    <2>4. \A q \in Process : (CacheUnmarked(q) /\ CacheMade(q))'
      BY <1>3, <1>5 DEF CheckoutInv, Checkout!TypeOK, SessionsHold, Shared, CacheUnmarked, CacheMade
    <2>5. CacheVouched'
      BY <1>5 DEF CheckoutInv, SessionsHold, CacheVouched, CacheMade
    <2>. QED BY <1>2, <2>2, <2>3, <2>4, <2>5 DEF CheckoutInv, SessionsHold
  <1>. QED BY <1>4, <1>5 DEF Checkout!Cache, Checkout!CloneCache, Checkout!MarkReady, Checkout!Go

\* a checkout is made by the session that holds its card
LEMMA MakingStep ==
    ASSUME Checkout!WorkspacesAssumption, CheckoutInv, NEW p \in Process,
           \/ Checkout!CloneFresh(p) \/ Checkout!AddWorktree(p) \/ Checkout!FinishWorktree(p)
           \/ Checkout!Publish(p) \/ Checkout!Edit(p)
    PROVE  CheckoutInv'
  <1> USE DEF Checkout!WorkspacesAssumption, Checkout!locks
  <1> DEFINE c == CardOf[p]
  <1>1. c \in CheckoutCard /\ (UNCHANGED <<checkoutReady, cache, checkoutFaults>> \/ Checkout!Refuse(p))
    BY DEF Checkout!CloneFresh, Checkout!AddWorktree, Checkout!FinishWorktree, Checkout!Publish, Checkout!Edit
  <1>2. checkoutPc[p] \notin {"idle", "refused"} /\ cardLock[c] = p
    BY DEF Checkout!CloneFresh, Checkout!AddWorktree, Checkout!FinishWorktree, Checkout!Publish, Checkout!Edit,
           CheckoutInv, SessionsHold, CardLocked
  <1>3. \A q \in Process \ {p} : CardOf[q] = c => checkoutPc[q] \in {"idle", "refused"}
    BY <1>2 DEF CheckoutInv, SessionsHold, CardLocked
  <1>4. CASE Checkout!AddWorktree(p) /\ Checkout!Refuse(p)
    <2>1. checkoutPc'[p] = "refused"
      BY <1>4 DEF Checkout!Refuse, Checkout!Go, CheckoutInv, Checkout!TypeOK
    <2>2. UNCHANGED <<branch, dest, cache, checkoutReady, receipt, work, checkoutFaults>>
      BY <1>4, <2>1 DEF Checkout!AddWorktree, Checkout!Go, CheckoutInv, Checkout!TypeOK
    <2>3. checkoutFaults' \in 0 .. CheckoutMaxFaults
      BY <2>2 DEF CheckoutInv, Checkout!TypeOK
    <2>. QED BY <1>4, <2>2, <2>3, LetsGo DEF Checkout!Refuse
  <1>5. CASE Checkout!Publish(p)
    <2>1. checkoutPc[p] = "publish" /\ checkoutPc' = [checkoutPc EXCEPT ![p] = "working"] /\ receipt' = [receipt EXCEPT ![c] = TRUE]
          /\ UNCHANGED <<cardLock, repoLock, cache, checkoutReady, branch, dest, work, checkoutFaults>>
      BY <1>5 DEF Checkout!Publish, Checkout!Go
    <2>2. dest[c] = "complete"
      BY <2>1 DEF CheckoutInv, SessionsHold, CheckoutMade
    <2>3. Checkout!TypeOK'
      BY <2>1 DEF CheckoutInv, Checkout!TypeOK, Checkout!Step
    <2>4. SessionsHold'
      BY <2>1, <2>2 DEF CheckoutInv, Checkout!TypeOK, SessionsHold, CardLocked, RepoLocked, Shared,
                        CheckoutMade, CacheUnmarked, CacheMade
    <2>5. \A d \in CheckoutCard : (ReceiptVouched(d) /\ EditedIsMade(d))'
      BY <2>1, <2>2 DEF CheckoutInv, Checkout!TypeOK, ReceiptVouched, EditedIsMade
    <2>. QED BY <2>1, <2>3, <2>4, <2>5 DEF CheckoutInv, CacheVouched
  <1>6. CASE Checkout!Edit(p)
    <2>1. checkoutPc[p] = "working" /\ work[c] < MaxWork /\ work' = [work EXCEPT ![c] = work[c] + 1]
          /\ UNCHANGED <<checkoutPc, cardLock, repoLock, cache, checkoutReady, branch, dest, receipt, checkoutFaults>>
      BY <1>6 DEF Checkout!Edit
    <2>2. dest[c] = "complete"
      BY <2>1 DEF CheckoutInv, SessionsHold, CheckoutMade
    <2>3. Checkout!TypeOK'
      BY <2>1 DEF CheckoutInv, Checkout!TypeOK
    <2>4. SessionsHold'
      BY <2>1 DEF CheckoutInv, SessionsHold, CardLocked, RepoLocked, CheckoutMade, CacheUnmarked, CacheMade
    <2>5. \A d \in CheckoutCard : (ReceiptVouched(d) /\ EditedIsMade(d))'
      BY <2>1, <2>2 DEF CheckoutInv, Checkout!TypeOK, ReceiptVouched, EditedIsMade
    <2>. QED BY <2>1, <2>3, <2>4, <2>5 DEF CheckoutInv, CacheVouched
  <1>7. CASE /\ \/ Checkout!CloneFresh(p) \/ Checkout!FinishWorktree(p)
                \/ Checkout!AddWorktree(p) /\ ~ Checkout!Refuse(p)
    <2>1. PICK s \in {"clone", "publish", "adding"}, t \in {"partial", "complete"} :
              /\ checkoutPc' = [checkoutPc EXCEPT ![p] = s] /\ dest' = [dest EXCEPT ![c] = t]
              /\ s = "publish" => t = "complete"
              /\ t = "partial" => dest[c] = "none"
              /\ s = "adding" => checkoutPc[p] \in Shared
      BY <1>7 DEF Checkout!CloneFresh, Checkout!FinishWorktree, Checkout!AddWorktree, Checkout!Go, CheckoutInv,
                  Checkout!TypeOK, Shared
    <2>2. UNCHANGED <<cardLock, cache, checkoutReady, receipt, work, checkoutFaults>> /\ branch' \subseteq CheckoutCard
          /\ (repoLock' = repoLock \/ (repoLock' = None /\ checkoutPc[p] \in Shared /\ checkoutPc'[p] = "publish"))
      BY <1>7 DEF Checkout!CloneFresh, Checkout!FinishWorktree, Checkout!AddWorktree, Checkout!Go, CheckoutInv,
                  Checkout!TypeOK, Shared
    <2>3. Checkout!TypeOK'
      <3>1. checkoutPc' \in [Process -> Checkout!Step] /\ dest' \in [CheckoutCard -> Checkout!Stage]
        BY <2>1 DEF CheckoutInv, Checkout!TypeOK, Checkout!Step, Checkout!Stage
      <3>. QED BY <2>2, <3>1 DEF CheckoutInv, Checkout!TypeOK
    <2>4. ASSUME NEW q \in Process
          PROVE  (CardLocked(q) /\ RepoLocked(q) /\ CheckoutMade(q) /\ CacheUnmarked(q) /\ CacheMade(q))'
      <3>1. CASE q = p
        <4>1. checkoutPc'[p] \in {"clone", "publish", "adding"} /\ (checkoutPc'[p] = "publish" => dest'[c] = "complete")
          BY <1>1, <2>1 DEF CheckoutInv, Checkout!TypeOK
        <4>2. checkoutPc'[p] = "adding" => repoLock' = p
          BY <2>1, <2>2 DEF CheckoutInv, Checkout!TypeOK, SessionsHold, RepoLocked, Shared
        <4>. QED BY <1>2, <2>2, <3>1, <4>1, <4>2 DEF CardLocked, RepoLocked, Shared, CheckoutMade, CacheUnmarked,
                                                     CacheMade
      <3>2. CASE q # p
        <4>1. checkoutPc'[q] = checkoutPc[q] /\ (checkoutPc[q] \notin {"idle", "refused"} => dest'[CardOf[q]] = dest[CardOf[q]])
          BY <1>3, <2>1, <3>2 DEF CheckoutInv, Checkout!TypeOK
        <4>2. checkoutPc[q] \in Shared => repoLock' = repoLock
          BY <2>2, <3>2 DEF CheckoutInv, SessionsHold, RepoLocked
        <4>. QED BY <2>2, <4>1, <4>2 DEF CheckoutInv, SessionsHold, CardLocked, RepoLocked, CheckoutMade,
                                         CacheUnmarked, CacheMade
      <3>. QED BY <3>1, <3>2
    <2>5. \A d \in CheckoutCard : (ReceiptVouched(d) /\ EditedIsMade(d))'
      BY <2>1, <2>2 DEF CheckoutInv, Checkout!TypeOK, ReceiptVouched, EditedIsMade
    <2>. QED BY <2>2, <2>3, <2>4, <2>5 DEF CheckoutInv, SessionsHold, CacheVouched
  <1>. QED BY <1>4, <1>5, <1>6, <1>7

LEMMA CheckoutStep ==
    ASSUME Checkout!WorkspacesAssumption, CheckoutInv, [Checkout!Next]_(Checkout!vars)
    PROVE  CheckoutInv'
  <1>1. CASE UNCHANGED Checkout!vars
    BY <1>1 DEF Checkout!vars, Checkout!locks, Checkout!files, CheckoutInv, Checkout!TypeOK, SessionsHold, CardLocked,
                RepoLocked, CheckoutMade, CacheUnmarked, CacheMade, CacheVouched, ReceiptVouched, EditedIsMade
  <1>. QED BY <1>1, LocksStep, CacheStep, MakingStep DEF Checkout!Next, Checkout!Prepare

\* the locks keep sessions apart
LEMMA SessionsApart ==
    ASSUME Checkout!WorkspacesAssumption, CheckoutInv
    PROVE  Checkout!Apart
  <1>1. \A p, q \in Process : p # q /\ CardOf[p] = CardOf[q] =>
            ~ (checkoutPc[p] \in Checkout!Making /\ checkoutPc[q] \in Checkout!Making)
    BY DEF CheckoutInv, SessionsHold, CardLocked, Checkout!Making
  <1> DEFINE S == {p \in Process : checkoutPc[p] \in Shared}
  <1>2. Cardinality(S) <= 1
    <2>1. CASE S = {}
      BY <2>1, FS_EmptySet
    <2>2. CASE S # {}
      <3>1. S = {repoLock}
        BY <2>2 DEF CheckoutInv, SessionsHold, RepoLocked
      <3>. QED BY <3>1, FS_Singleton
    <2>. QED BY <2>1, <2>2
  <1>3. Checkout!Cardinality(S) = Cardinality(S)
    BY CheckoutCardinality DEF CheckoutCounts
  <1>4. Checkout!OneSessionPerCheckout
    BY <1>1, <1>2, <1>3 DEF Checkout!OneSessionPerCheckout, Shared
  <1>. QED BY <1>4 DEF CheckoutInv, SessionsHold, CheckoutMade, CacheVouched, ReceiptVouched,
                       Checkout!Apart, Checkout!WorkInCompleteCheckouts, Checkout!MarkersAreTrue

\* nothing is made anew where there is work
LEMMA WorkStays ==
    ASSUME Checkout!WorkspacesAssumption, CheckoutInv, [Checkout!Next]_(Checkout!vars)
    PROVE  Checkout!WorkIsKept
  <1> SUFFICES ASSUME NEW c \in CheckoutCard, work[c] > 0 PROVE work'[c] >= work[c] /\ dest'[c] = dest[c]
    BY DEF Checkout!WorkIsKept
  <1>1. dest[c] = "complete" /\ work[c] \in 0 .. MaxWork
    BY DEF CheckoutInv, EditedIsMade, Checkout!TypeOK
  <1>2. CASE UNCHANGED <<work, dest>>
    BY <1>1, <1>2
  <1>3. ASSUME NEW p \in Process, Checkout!Edit(p) PROVE work'[c] >= work[c] /\ dest'[c] = dest[c]
    BY <1>1, <1>3 DEF Checkout!Edit, CheckoutInv, Checkout!TypeOK, Checkout!WorkspacesAssumption
  <1>4. ASSUME NEW p \in Process, Checkout!CloneFresh(p) \/ Checkout!AddWorktree(p) \/ Checkout!FinishWorktree(p)
        PROVE  work'[c] >= work[c] /\ dest'[c] = dest[c]
    BY <1>1, <1>4 DEF Checkout!CloneFresh, Checkout!AddWorktree, Checkout!FinishWorktree, CheckoutInv, Checkout!TypeOK,
                      Checkout!WorkspacesAssumption
  <1>5. ASSUME NEW p \in Process,
               \/ Checkout!Lock(p) \/ Checkout!Check(p) \/ Checkout!LockRepository(p) \/ Checkout!Cache(p)
               \/ Checkout!CloneCache(p) \/ Checkout!MarkReady(p) \/ Checkout!Publish(p) \/ Checkout!Leave(p)
               \/ Checkout!Retry(p) \/ Checkout!Fault(p)
        PROVE  UNCHANGED <<work, dest>>
    BY <1>5 DEF Checkout!Lock, Checkout!Check, Checkout!LockRepository, Checkout!Cache, Checkout!CloneCache,
                Checkout!MarkReady, Checkout!Publish, Checkout!Leave, Checkout!Retry, Checkout!Fault, Checkout!files
  <1>6. CASE UNCHANGED Checkout!vars
    BY <1>2, <1>6 DEF Checkout!vars, Checkout!files
  <1>. QED BY <1>2, <1>3, <1>4, <1>5, <1>6 DEF Checkout!Next, Checkout!Prepare

\* Sessions and crashes of others do not show in the checkout a session works in, the markers
\* that later sessions trust are true, and no work is lost, for any cards, sessions and faults.
THEOREM CheckoutsHold ==
    ASSUME Checkout!WorkspacesAssumption
    PROVE  Checkout!Spec => []Checkout!TypeOK /\ Checkout!CheckoutsSafe
  <1>1. Checkout!Init => CheckoutInv
    <2>1. Checkout!Init => Checkout!TypeOK
      <3>1. 0 \in 0 .. CheckoutMaxFaults /\ 0 \in 0 .. MaxWork
        BY DEF Checkout!WorkspacesAssumption
      <3>. SUFFICES ASSUME Checkout!Init PROVE Checkout!TypeOK
        OBVIOUS
      <3>2. checkoutPc \in [Process -> Checkout!Step] /\ cardLock \in [CheckoutCard -> Process \cup {None}]
            /\ repoLock \in Process \cup {None}
        BY DEF Checkout!Init, Checkout!Step
      <3>3. cache \in Checkout!Stage /\ branch \subseteq CheckoutCard /\ dest \in [CheckoutCard -> Checkout!Stage]
        BY DEF Checkout!Init, Checkout!Stage
      <3>4. checkoutReady \in BOOLEAN /\ receipt \in [CheckoutCard -> BOOLEAN]
        BY DEF Checkout!Init
      <3>5. work \in [CheckoutCard -> 0 .. MaxWork] /\ checkoutFaults \in 0 .. CheckoutMaxFaults
        BY <3>1 DEF Checkout!Init
      <3>. QED BY <3>2, <3>3, <3>4, <3>5 DEF Checkout!TypeOK
    <2>2. Checkout!Init => SessionsHold /\ CacheVouched
      BY DEF Checkout!Init, SessionsHold, CardLocked, RepoLocked, Shared, CheckoutMade, CacheUnmarked, CacheMade,
             CacheVouched
    <2>3. Checkout!Init => \A c \in CheckoutCard : ReceiptVouched(c) /\ EditedIsMade(c)
      BY DEF Checkout!Init, ReceiptVouched, EditedIsMade
    <2>. QED BY <2>1, <2>2, <2>3 DEF CheckoutInv
  <1>2. CheckoutInv /\ [Checkout!Next]_(Checkout!vars) => CheckoutInv'
    BY CheckoutStep
  <1>3. CheckoutInv /\ CheckoutInv' /\ [Checkout!Next]_(Checkout!vars) => [Checkout!CheckoutsStep]_(Checkout!vars)
    <2>1. CheckoutInv' => Checkout!Apart'
      BY SessionsApart, PTL
    <2>. QED BY <2>1, WorkStays DEF Checkout!CheckoutsStep
  <1>4. CheckoutInv => Checkout!TypeOK
    BY DEF CheckoutInv
  <1>. QED BY <1>1, <1>2, <1>3, <1>4, PTL DEF Checkout!Spec, Checkout!CheckoutsSafe

\* Beside everything else, CodeWorkspaces::prepare trusts only checkouts that a session
\* finished, changes no checkout that another one works in, and makes none that holds work
\* anew.
THEOREM FleetChecksOut == Spec => CheckoutsSafe
  <1>1. Init => Checkout!Init
    BY DEF Init
  <1>2. [Next]_vars => [Checkout!Next]_(Checkout!vars)
    <2>1. UNCHANGED checkoutVars => UNCHANGED Checkout!vars
      BY DEF checkoutVars, Checkout!vars, Checkout!locks, Checkout!files
    <2>2. Next => Checkout!Next \/ UNCHANGED checkoutVars
      BY DEF Next
    <2>3. UNCHANGED vars => UNCHANGED checkoutVars
      BY DEF vars
    <2>. QED BY <2>1, <2>2, <2>3
  <1>3. [Checkout!CheckoutsStep]_(Checkout!vars) => [moving = "checkout" => Checkout!CheckoutsStep]_checkoutVars
    <2>1. UNCHANGED Checkout!vars => UNCHANGED checkoutVars
      BY DEF checkoutVars, Checkout!vars, Checkout!locks, Checkout!files
    <2>. QED BY <2>1
  <1>. QED BY <1>1, <1>2, CheckoutAssumed, <1>3, CheckoutsHold, PTL DEF Spec, Checkout!Spec, CheckoutsSafe, Checkout!CheckoutsSafe

(***************************************************************************)
(* A coding session.  A success is one that the last run of the checks     *)
(* found, on a workspace that nothing has touched since; a run of the      *)
(* checks is one the agent may ask for, one before a repair, or the last.  *)
(***************************************************************************)
EndPoint == {"capture", "finish", "done"}

SessionFlags == spawned \in BOOLEAN /\ good \in BOOLEAN /\ package \in BOOLEAN

SessionPlaces ==
    /\ sessionPc \in {"top", "brain", "batch", "verify", "answer", "final", "capture", "finish", "done"}
    /\ context \in {"none", "childless", "pending", "complete"}
    /\ outcome \in Session!Outcome \cup {None}
    /\ outcome = None <=> sessionPc \notin EndPoint
    /\ sessionPc = "capture" => outcome.end = "text"
    /\ sessionPc = "finish" => /\ outcome.end \in {"turn_limit", "lease"} /\ outcome.gate = "skipped"
                               /\ outcome.end = "lease" => outcome.expired

SessionCounts ==
    /\ sessionLeft \in 0 .. Lease /\ sessionCalls \in 0 .. MaxBatch
    /\ sessionTurns \in 0 .. MaxTurns /\ repairs \in 0 .. MaxRepairs /\ verifyRuns \in 0 .. MaxVerifyRuns
    /\ execs \in Nat /\ execs <= verifyRuns + repairs + (IF sessionPc \in EndPoint \cup {"final"} THEN 1 ELSE 0)

\* what is remembered of runs of the checks: only what stops the session, or failed
GatesKept ==
    /\ terminal \in {None, "errored", "skipped"} /\ {failure, lastGate} \subseteq Session!Gate \cup {None}
    /\ terminal = "skipped" => sessionLeft = 0
    /\ failure # None => lastGate # None /\ Session!Blocks(failure)
    /\ lastGate # None => Session!Blocks(lastGate)

SuccessVerified ==
    (sessionPc \in EndPoint /\ outcome.end = "text" /\ Declared /\ ~ outcome.expired /\ ~ Session!Blocks(outcome.gate)) =>
        good /\ outcome.gate \in {"passed", "passed_advisory"}

ChildrenSeen ==
    (sessionPc \in {"answer", "final"} \/ (sessionPc \in EndPoint /\ outcome.end = "text")) => ~ spawned /\ context # "pending"

PackageOfSuccess == package => sessionPc = "done" /\ outcome.end = "text" /\ ~ Session!Blocks(outcome.gate)

FailureTold ==
    (sessionPc = "done" /\ outcome.end \in {"turn_limit", "lease"} /\ failure # None) => Session!Blocks(outcome.gate)

SessionInv ==
    /\ SessionFlags /\ SessionPlaces /\ SessionCounts /\ GatesKept
    /\ SuccessVerified /\ ChildrenSeen /\ PackageOfSuccess /\ FailureTold

\* an ending as the code builds it
LEMMA EndedIs ==
    ASSUME NEW end \in {"text", "turn_limit", "lease", "waiting", "error"}, NEW gate \in Session!Gate, NEW e \in BOOLEAN
    PROVE  /\ Session!Ended(end, gate, e) \in Session!Outcome
           /\ Session!Ended(end, gate, e).end = end /\ Session!Ended(end, gate, e).gate = gate
           /\ Session!Ended(end, gate, e).expired = e
  BY DEF Session!Ended, Session!Outcome

\* Steps in the middle of the session.
LEMMA MiddleStep ==
    ASSUME Session!SessionAssumption, SessionInv,
           \/ Session!NextTurn \/ Session!AnswerText \/ Session!AnswerCalls \/ Session!BatchEnd
           \/ Session!ToolCall \/ Session!SpawnCard \/ Session!VerifyRefused \/ Session!VerifyTask
           \/ Session!VerifyDone \/ Session!FinalChecks \/ Session!Repair
    PROVE  SessionInv'
  <1> USE DEF Session!SessionAssumption, Session!MayRun, Session!Ran, Session!budget, Session!gates
  <1>1. /\ sessionPc \notin EndPoint /\ sessionPc' \notin EndPoint /\ outcome = None /\ UNCHANGED <<outcome, package>>
        /\ sessionPc' \in {"top", "brain", "batch", "verify", "answer", "final"}
    BY DEF Session!NextTurn, Session!AnswerText, Session!AnswerCalls, Session!BatchEnd, Session!ToolCall,
           Session!SpawnCard, Session!VerifyRefused, Session!VerifyTask, Session!VerifyDone, Session!FinalChecks,
           Session!Repair, SessionInv, SessionPlaces, EndPoint
  <1>2. ~ package /\ package \in BOOLEAN
    BY <1>1 DEF SessionInv, PackageOfSuccess, SessionFlags, EndPoint
  <1>3. context' = context
    BY DEF Session!NextTurn, Session!AnswerText, Session!AnswerCalls, Session!BatchEnd, Session!ToolCall,
           Session!SpawnCard, Session!VerifyRefused, Session!VerifyTask, Session!VerifyDone, Session!FinalChecks,
           Session!Repair
  <1>4. SessionPlaces'
    BY <1>1, <1>3 DEF SessionInv, SessionPlaces, EndPoint
  <1>5. SessionFlags'
    <2>1. good' = good \/ good' \in BOOLEAN
      BY DEF Session!NextTurn, Session!AnswerText, Session!AnswerCalls, Session!BatchEnd, Session!ToolCall,
             Session!SpawnCard, Session!VerifyRefused, Session!VerifyTask, Session!VerifyDone, Session!FinalChecks,
             Session!Repair
    <2>2. spawned' = spawned \/ spawned' = TRUE
      BY DEF Session!NextTurn, Session!AnswerText, Session!AnswerCalls, Session!BatchEnd, Session!ToolCall,
             Session!SpawnCard, Session!VerifyRefused, Session!VerifyTask, Session!VerifyDone, Session!FinalChecks,
             Session!Repair
    <2>. QED BY <1>1, <2>1, <2>2, Zenon DEF SessionInv, SessionFlags
  <1>6. SuccessVerified' /\ PackageOfSuccess' /\ FailureTold'
    <2>1. ~ package'
      BY <1>1, <1>2
    <2>. QED BY <1>1, <2>1 DEF SuccessVerified, PackageOfSuccess, FailureTold, EndPoint
  <1>7. ChildrenSeen'
    BY <1>1, <1>3 DEF Session!NextTurn, Session!AnswerText, Session!AnswerCalls, Session!BatchEnd, Session!ToolCall,
           Session!SpawnCard, Session!VerifyRefused, Session!VerifyTask, Session!VerifyDone, Session!FinalChecks,
           Session!Repair, SessionInv, ChildrenSeen, EndPoint
  <1>8. SessionCounts'
    <2>1. CASE Session!NextTurn \/ Session!AnswerText \/ Session!AnswerCalls \/ Session!BatchEnd
      BY <1>1, <2>1 DEF Session!NextTurn, Session!AnswerText, Session!AnswerCalls, Session!BatchEnd, SessionInv,
                        SessionCounts, EndPoint
    <2>2. CASE Session!ToolCall \/ Session!SpawnCard \/ Session!VerifyRefused
      BY <1>1, <2>2 DEF Session!ToolCall, Session!SpawnCard, Session!VerifyRefused, SessionInv, SessionCounts, EndPoint
    <2>3. CASE Session!VerifyTask
      BY <1>1, <2>3 DEF Session!VerifyTask, Session!Refused, SessionInv, SessionCounts, EndPoint
    <2>4. CASE Session!VerifyDone \/ Session!FinalChecks
      BY <1>1, <2>4 DEF Session!VerifyDone, Session!FinalChecks, SessionInv, SessionCounts, EndPoint
    <2>5. CASE Session!Repair
      BY <1>1, <2>5 DEF Session!Repair, Session!MayRepair, SessionInv, SessionCounts, EndPoint
    <2>. QED BY <2>1, <2>2, <2>3, <2>4, <2>5
  <1>9. GatesKept'
    <2>1. CASE UNCHANGED <<sessionLeft, terminal, failure, lastGate>>
      BY <2>1 DEF SessionInv, GatesKept
    <2>2. CASE Session!VerifyRefused
      BY <2>2 DEF Session!VerifyRefused, Session!AfterVerify, SessionInv, GatesKept
    <2>3. CASE Session!Repair
      BY <2>3 DEF Session!Repair, Session!MayRepair, SessionInv, GatesKept, Session!Blocks, Session!Gate
    <2>4. CASE Session!VerifyDone
      <3>1. PICK gate \in Session!CheckResults :
                LET fatal == gate \notin {"passed", "failed"}
                    kept == IF fatal /\ gate # "skipped" THEN "errored" ELSE gate
                IN /\ terminal' = IF fatal THEN kept ELSE None
                   /\ failure' = IF Session!Blocks(kept) THEN kept ELSE failure
                   /\ Session!AfterVerify
        BY <2>4 DEF Session!VerifyDone
      <3>2. gate \in Session!Gate /\ (gate = "skipped" => sessionLeft = 0) /\ sessionLeft' = sessionLeft
        BY <2>4 DEF Session!CheckResults, Session!Gate, Session!Expired, Session!VerifyDone
      <3>3. /\ terminal' \in {None, "errored", "skipped"} /\ (terminal' = "skipped" => sessionLeft = 0)
            /\ failure' = failure \/ failure' \in {"errored", "failed"}
        BY <3>1, <3>2 DEF Session!Blocks, Session!Gate
      <3>4. lastGate' = IF failure' # None THEN failure' ELSE lastGate
        BY <3>1 DEF Session!AfterVerify
      <3>5. failure # None => Session!Blocks(failure)
        BY DEF SessionInv, GatesKept
      <3>. QED BY <3>2, <3>3, <3>4, <3>5 DEF SessionInv, GatesKept, Session!Blocks, Session!Gate
    <2>. QED BY <2>1, <2>2, <2>3, <2>4 DEF Session!NextTurn, Session!AnswerText, Session!AnswerCalls, Session!BatchEnd,
             Session!ToolCall, Session!SpawnCard, Session!VerifyTask, Session!FinalChecks
  <1>. QED BY <1>4, <1>5, <1>6, <1>7, <1>8, <1>9 DEF SessionInv

\* The session ends: what it reports is what it knows.
LEMMA Ends ==
    ASSUME Session!SessionAssumption, SessionInv, sessionPc \notin EndPoint, sessionPc' \in EndPoint,
           NEW end \in {"text", "turn_limit", "lease", "waiting", "error"}, NEW gate \in Session!Gate, NEW e \in BOOLEAN,
           outcome' = Session!Ended(end, gate, e),
           sessionPc' = "capture" <=> end = "text",
           sessionPc' = "finish" => end \in {"turn_limit", "lease"} /\ gate = "skipped" /\ (end = "lease" => e),
           sessionPc' = "done" => end \in {"waiting", "error"},
           (end = "text" /\ Declared /\ ~ e /\ ~ Session!Blocks(gate)) => good /\ gate \in {"passed", "passed_advisory"},
           end = "text" => ~ spawned /\ context # "pending",
           UNCHANGED <<spawned, good, package, context, sessionLeft, sessionTurns, repairs, verifyRuns, execs, failure, lastGate>>,
           sessionCalls' \in 0 .. MaxBatch, terminal' \in {None, terminal}
    PROVE  SessionInv'
  <1> USE DEF Session!SessionAssumption
  <1>1. outcome' \in Session!Outcome /\ outcome'.end = end /\ outcome'.gate = gate /\ outcome'.expired = e
    BY EndedIs
  <1>2. ~ package /\ package \in BOOLEAN
    BY DEF SessionInv, PackageOfSuccess, SessionFlags, EndPoint
  <1>3. SessionFlags'
    BY Zenon DEF SessionInv, SessionFlags
  <1>4. SessionPlaces'
    BY <1>1 DEF SessionInv, SessionPlaces, EndPoint
  <1>5. SessionCounts'
    BY DEF SessionInv, SessionCounts, EndPoint
  <1>6. GatesKept'
    BY DEF SessionInv, GatesKept, Session!Gate
  <1>7. SuccessVerified' /\ ChildrenSeen' /\ FailureTold'
    BY <1>1 DEF SuccessVerified, ChildrenSeen, FailureTold, EndPoint
  <1>8. PackageOfSuccess'
    BY <1>2 DEF PackageOfSuccess
  <1>. QED BY <1>3, <1>4, <1>5, <1>6, <1>7, <1>8 DEF SessionInv

LEMMA EndStep ==
    ASSUME Session!SessionAssumption, SessionInv,
           \/ Session!TurnLimit \/ Session!LeaseExpired \/ Session!BatchLeaseExpired \/ Session!BrainFails
           \/ Session!CompletionBlocked \/ Session!WaitForChild
           \/ Session!KeepTerminal \/ Session!NoChecks \/ Session!Accept
    PROVE  SessionInv'
  <1> USE DEF Session!SessionAssumption, Session!budget, Session!gates, EndPoint
  <1>1. UNCHANGED <<spawned, good, package, context, sessionLeft, sessionTurns, repairs, verifyRuns, execs, failure, lastGate>>
        /\ sessionPc \in {"top", "brain", "batch", "answer", "final"}
    <2>1. CASE Session!TurnLimit \/ Session!LeaseExpired \/ Session!BatchLeaseExpired
      BY <2>1 DEF Session!TurnLimit, Session!LeaseExpired, Session!BatchLeaseExpired
    <2>2. CASE Session!BrainFails \/ Session!CompletionBlocked \/ Session!WaitForChild
      BY <2>2 DEF Session!BrainFails, Session!Stop, Session!CompletionBlocked, Session!WaitForChild, Session!MayRun
    <2>3. CASE Session!KeepTerminal \/ Session!NoChecks \/ Session!Accept
      BY <2>3 DEF Session!KeepTerminal, Session!NoChecks, Session!Accept
    <2>. QED BY <2>1, <2>2, <2>3
  <1>2. sessionCalls' \in 0 .. MaxBatch /\ terminal' \in {None, terminal}
    <2>1. sessionCalls \in 0 .. MaxBatch
      BY DEF SessionInv, SessionCounts
    <2>2. CASE Session!WaitForChild
      BY <2>1, <2>2 DEF Session!WaitForChild, Session!MayRun, Session!Ran
    <2>3. CASE Session!KeepTerminal
      BY <2>1, <2>3 DEF Session!KeepTerminal
    <2>4. CASE UNCHANGED <<sessionCalls, terminal>>
      BY <2>1, <2>4
    <2>. QED BY <2>2, <2>3, <2>4 DEF Session!TurnLimit, Session!LeaseExpired, Session!BatchLeaseExpired,
             Session!BrainFails, Session!Stop, Session!CompletionBlocked, Session!NoChecks, Session!Accept
  <1>3. {"skipped", "unverified", "errored"} \subseteq Session!Gate
    BY DEF Session!Gate
  <1>4. CASE Session!TurnLimit
    BY <1>1, <1>2, <1>3, <1>4, Ends DEF Session!TurnLimit
  <1>5. CASE Session!LeaseExpired \/ Session!BatchLeaseExpired
    BY <1>1, <1>2, <1>3, <1>5, Ends DEF Session!LeaseExpired, Session!BatchLeaseExpired
  <1>6. CASE Session!BrainFails \/ Session!CompletionBlocked
    BY <1>1, <1>2, <1>3, <1>6, Ends DEF Session!BrainFails, Session!CompletionBlocked, Session!Stop
  <1>7. CASE Session!WaitForChild
    BY <1>1, <1>2, <1>3, <1>7, Ends DEF Session!WaitForChild
  <1>8. PICK e \in BOOLEAN : e = Session!Expired
    BY DEF Session!Expired
  <1>9. sessionPc \in {"answer", "final"} => ~ spawned /\ context # "pending"
    BY DEF SessionInv, ChildrenSeen
  <1>10. CASE Session!KeepTerminal
    <2>1. PICK gate \in {"errored", "skipped"} : gate = terminal
      BY <1>10 DEF Session!KeepTerminal, SessionInv, GatesKept
    <2>2. sessionPc = "answer" /\ sessionPc' = "capture" /\ outcome' = Session!Ended("text", gate, e)
      BY <1>8, <1>10, <2>1 DEF Session!KeepTerminal
    <2>3. gate = "skipped" => e
      BY <1>8, <2>1 DEF SessionInv, GatesKept, Session!Expired
    <2>4. gate = "errored" => Session!Blocks(gate)
      BY DEF Session!Blocks
    <2>. QED BY <1>1, <1>2, <1>3, <1>9, <2>1, <2>2, <2>3, <2>4, Ends
  <1>11. CASE Session!NoChecks
    <2>1. PICK gate \in {"unverified", "skipped"} : gate = IF Declared THEN "skipped" ELSE "unverified"
      OBVIOUS
    <2>2. sessionPc = "answer" /\ sessionPc' = "capture" /\ outcome' = Session!Ended("text", gate, e) /\ (Declared => e)
      BY <1>8, <1>11, <2>1 DEF Session!NoChecks
    <2>. QED BY <1>1, <1>2, <1>3, <1>9, <2>1, <2>2, Ends
  <1>12. CASE Session!Accept
    <2>1. PICK gate \in Session!CheckResults : outcome' = Session!Ended("text", gate, Session!Expired)
      BY <1>12 DEF Session!Accept
    <2>2. gate \in Session!Gate /\ (gate \in {"passed", "passed_advisory"} => good) /\ (gate = "skipped" => e)
      BY <1>8 DEF Session!CheckResults, Session!Gate
    <2>3. (~ e /\ ~ Session!Blocks(gate)) => good /\ gate \in {"passed", "passed_advisory"}
      BY <1>8, <2>2 DEF Session!CheckResults, Session!Blocks
    <2>4. sessionPc = "final" /\ sessionPc' = "capture" /\ outcome' = Session!Ended("text", gate, e)
      BY <1>8, <1>12, <2>1 DEF Session!Accept
    <2>. QED BY <1>1, <1>2, <1>9, <2>2, <2>3, <2>4, Ends
  <1>. QED BY <1>4, <1>5, <1>6, <1>7, <1>10, <1>11, <1>12

\* a skipped gate gives way to one that failed, and no other does
LEMMA CaptureStep ==
    ASSUME Session!SessionAssumption, SessionInv, Session!Capture
    PROVE  SessionInv'
  <1> USE DEF Session!SessionAssumption, Session!budget, Session!gates
  <1>1. /\ sessionPc \in {"capture", "finish"} /\ sessionPc' = "done"
        /\ UNCHANGED <<sessionLeft, sessionCalls, context, spawned, good, sessionTurns, repairs, verifyRuns, terminal, failure, lastGate, execs>>
    BY DEF Session!Capture
  <1>2. PICK o \in Session!Outcome : o = outcome
    BY <1>1 DEF SessionInv, SessionPlaces, EndPoint
  <1>3. PICK gate \in Session!Gate : gate = Session!Preserved
    BY <1>2 DEF Session!Preserved, SessionInv, GatesKept, Session!Outcome
  <1>4. PICK e \in BOOLEAN : e = (o.expired \/ Session!Expired)
    OBVIOUS
  <1>5. outcome' = [o EXCEPT !.gate = gate, !.expired = e]
    BY <1>2, <1>3, <1>4 DEF Session!Capture
  <1>6. outcome' \in Session!Outcome /\ outcome'.end = o.end /\ outcome'.gate = gate /\ outcome'.expired = e
    BY <1>5 DEF Session!Outcome
  <1>7. gate = o.gate \/ (o.gate = "skipped" /\ lastGate # None /\ gate = lastGate /\ Session!Blocks(gate))
    BY <1>2, <1>3 DEF Session!Preserved, SessionInv, GatesKept
  <1>8. package' => o.end # "turn_limit" /\ ~ o.expired /\ ~ Session!Blocks(gate)
    BY <1>2, <1>3 DEF Session!Capture
  <1>9. o.end \in {"text", "turn_limit", "lease"} /\ (o.end = "lease" => o.expired) /\ (sessionPc = "capture" <=> o.end = "text")
        /\ (sessionPc = "finish" => o.gate = "skipped")
    BY <1>1, <1>2 DEF SessionInv, SessionPlaces
  <1>10. SessionFlags'
    <2>1. package' \in BOOLEAN
      <3>1. package' \in {FALSE, outcome.end # "turn_limit" /\ ~ outcome.expired /\ ~ Session!Blocks(Session!Preserved)}
        BY DEF Session!Capture
      <3>. QED BY <3>1, Zenon
    <2>. QED BY <1>1, <2>1, Zenon DEF SessionInv, SessionFlags
  <1>11. SessionPlaces'
    BY <1>1, <1>6 DEF SessionInv, SessionPlaces, EndPoint
  <1>12. SessionCounts' /\ GatesKept'
    BY <1>1 DEF SessionInv, SessionCounts, GatesKept, EndPoint
  <1>13. SuccessVerified'
    <2>1. (o.end = "text" /\ Declared /\ ~ o.expired /\ ~ Session!Blocks(o.gate)) =>
              good /\ o.gate \in {"passed", "passed_advisory"}
      BY <1>1, <1>2 DEF SessionInv, SuccessVerified, EndPoint
    <2>2. ~ e => ~ o.expired
      BY <1>4
    <2>3. ~ Session!Blocks(gate) => gate = o.gate
      BY <1>7
    <2>. QED BY <1>1, <1>6, <2>1, <2>2, <2>3 DEF SuccessVerified
  <1>14. ChildrenSeen'
    BY <1>1, <1>2, <1>6 DEF SessionInv, ChildrenSeen, EndPoint
  <1>15. PackageOfSuccess'
    BY <1>1, <1>6, <1>8, <1>9 DEF PackageOfSuccess
  <1>16. FailureTold'
    <2>1. (o.end # "text" /\ failure # None) => Session!Blocks(gate)
      BY <1>1, <1>2, <1>3, <1>9 DEF Session!Preserved, SessionInv, GatesKept
    <2>. QED BY <1>1, <1>6, <2>1 DEF FailureTold
  <1>. QED BY <1>10, <1>11, <1>12, <1>13, <1>14, <1>15, <1>16 DEF SessionInv

LEMMA SessionInvStep ==
    ASSUME Session!SessionAssumption, SessionInv, [Session!Next]_(Session!vars)
    PROVE  SessionInv'
  <1> USE DEF Session!SessionAssumption
  <1>1. CASE Session!Elapse \/ UNCHANGED Session!vars
    <2>1. /\ UNCHANGED <<sessionPc, sessionCalls, context, spawned, good, outcome, package, sessionTurns, repairs, verifyRuns, terminal,
                         failure, lastGate, execs>>
          /\ sessionLeft' = sessionLeft \/ (sessionLeft > 0 /\ sessionLeft' = sessionLeft - 1)
      BY <1>1 DEF Session!Elapse, Session!vars, Session!budget, Session!gates
    <2>2. sessionLeft' \in 0 .. Lease /\ (sessionLeft = 0 => sessionLeft' = 0)
      BY <2>1 DEF SessionInv, SessionCounts
    <2>3. SessionFlags'
      BY <2>1, Zenon DEF SessionInv, SessionFlags
    <2>4. SessionPlaces' /\ SessionCounts' /\ GatesKept'
      BY <2>1, <2>2 DEF SessionInv, SessionPlaces, SessionCounts, GatesKept
    <2>5. SuccessVerified' /\ ChildrenSeen' /\ PackageOfSuccess' /\ FailureTold'
      BY <2>1 DEF SessionInv, SuccessVerified, ChildrenSeen, PackageOfSuccess, FailureTold
    <2>. QED BY <2>3, <2>4, <2>5 DEF SessionInv
  <1>. QED BY <1>1, MiddleStep, EndStep, CaptureStep DEF Session!Next, Session!SessionStep

LEMMA SessionStarts ==
    ASSUME Session!SessionAssumption PROVE Session!Init => SessionInv
  <1> SUFFICES ASSUME Session!Init PROVE SessionInv
    OBVIOUS
  <1> USE DEF Session!Init, Session!SessionAssumption, EndPoint
  <1>1. SessionFlags
    BY Zenon DEF SessionFlags
  <1>2. ~ package /\ sessionPc = "top" /\ outcome = None
    OBVIOUS
  <1>3. SessionPlaces /\ SessionCounts /\ GatesKept
    BY DEF SessionPlaces, SessionCounts, GatesKept, Session!Gate
  <1>4. SuccessVerified /\ ChildrenSeen /\ PackageOfSuccess /\ FailureTold
    BY <1>2 DEF SuccessVerified, ChildrenSeen, PackageOfSuccess, FailureTold
  <1>. QED BY <1>1, <1>3, <1>4 DEF SessionInv

\* Whatever the model answers and however the time of the lease falls: a session that is taken for
\* a success was verified, with no children left, no failed run of the checks is lost, and the
\* checks run no more often than the limits allow, for any limits.
THEOREM SessionHolds ==
    ASSUME Session!SessionAssumption
    PROVE  Session!Spec => [](Session!TypeOK /\ Session!SessionSafe)
  <1>1. Session!Init => SessionInv
    BY SessionStarts
  <1>2. SessionInv /\ [Session!Next]_(Session!vars) => SessionInv'
    BY SessionInvStep
  <1>3. SessionInv => Session!TypeOK
    <2>1. GatesKept => {terminal, failure, lastGate} \subseteq Session!Gate \cup {None}
      BY DEF GatesKept, Session!Gate
    <2>2. SessionFlags => spawned \in BOOLEAN /\ good \in BOOLEAN /\ package \in BOOLEAN
      BY DEF SessionFlags
    <2>. QED BY <2>1, <2>2 DEF SessionInv, SessionPlaces, SessionCounts, Session!TypeOK
  <1>4. SessionInv => Session!SessionSafe
    <2> SUFFICES ASSUME SessionInv PROVE Session!SessionSafe
      OBVIOUS
    <2>1. Session!OkMeansVerified /\ Session!ChildrenAreAwaited
      BY DEF SessionInv, SuccessVerified, ChildrenSeen, EndPoint, Session!Ok, Session!OkMeansVerified,
             Session!ChildrenAreAwaited
    <2>2. Session!ChecksWithinBudget
      BY DEF SessionInv, SessionCounts, EndPoint, Session!ChecksWithinBudget, Session!SessionAssumption
    <2>3. Session!PackagesComeFromSuccess /\ Session!FailureIsReported
      BY DEF SessionInv, PackageOfSuccess, FailureTold, Session!PackagesComeFromSuccess, Session!FailureIsReported
    <2>. QED BY <2>1, <2>2, <2>3 DEF Session!SessionSafe
  <1>. QED BY <1>1, <1>2, <1>3, <1>4, PTL DEF Session!Spec

(***************************************************************************)
(* The tool calls of a batch are over when the loop is anywhere else, so   *)
(* that a new answer of the brain is never taken for a call that ran.      *)
(***************************************************************************)
BatchOver == sessionPc \in {"top", "brain", "answer", "final"} => sessionCalls = 0

LEMMA BatchOverStep ==
    ASSUME BatchOver, [Session!Next]_(Session!vars)
    PROVE  BatchOver'
  <1>1. CASE Session!TurnLimit \/ Session!LeaseExpired \/ Session!NextTurn \/ Session!BrainFails
             \/ Session!CompletionBlocked \/ Session!AnswerText \/ Session!AnswerCalls
    BY <1>1 DEF BatchOver, Session!TurnLimit, Session!LeaseExpired, Session!NextTurn, Session!BrainFails,
                Session!CompletionBlocked, Session!AnswerText, Session!AnswerCalls, Session!Stop
  <1>2. CASE Session!BatchEnd \/ Session!BatchLeaseExpired \/ Session!ToolCall \/ Session!SpawnCard
             \/ Session!WaitForChild \/ Session!VerifyRefused \/ Session!VerifyTask \/ Session!VerifyDone
    BY <1>2 DEF BatchOver, Session!BatchEnd, Session!BatchLeaseExpired, Session!ToolCall, Session!SpawnCard,
                Session!WaitForChild, Session!VerifyRefused, Session!VerifyTask, Session!VerifyDone, Session!MayRun
  <1>3. CASE Session!KeepTerminal \/ Session!NoChecks \/ Session!FinalChecks \/ Session!Repair \/ Session!Accept
             \/ Session!Capture
    BY <1>3 DEF BatchOver, Session!KeepTerminal, Session!NoChecks, Session!FinalChecks, Session!Repair,
                Session!Accept, Session!Capture
  <1>4. CASE Session!Elapse \/ UNCHANGED Session!vars
    BY <1>4 DEF BatchOver, Session!Elapse, Session!vars
  <1>. QED BY <1>1, <1>2, <1>3, <1>4 DEF Session!Next, Session!SessionStep

\* No tool call and no run of the checks starts once the lease has run out, and after a check that
\* stopped the session no check runs again, for any limits and any length of the lease.
THEOREM LimitsAreKept ==
    ASSUME Session!SessionAssumption
    PROVE  Session!Spec => Session!NothingStartsAfterLease /\ Session!FatalChecksStand
  <1> DEFINE Timely == sessionCalls' < sessionCalls \/ execs' # execs => sessionLeft > 0
             Stands == terminal # None => execs' = execs
  <1>1. Session!Init => SessionInv /\ BatchOver
    <2>1. Session!Init => BatchOver
      BY DEF Session!Init, BatchOver
    <2>. QED BY <2>1, SessionStarts
  <1>2. SessionInv /\ BatchOver /\ [Session!Next]_(Session!vars) => SessionInv' /\ BatchOver'
    BY SessionInvStep, BatchOverStep
  <1>3. ASSUME SessionInv, BatchOver, [Session!Next]_(Session!vars) PROVE Timely /\ Stands
    <2>1. sessionLeft \in Nat /\ sessionCalls \in Nat /\ (~ Session!Expired => sessionLeft > 0)
      BY <1>3 DEF SessionInv, SessionCounts, Session!SessionAssumption, Session!Expired
    <2>2. CASE sessionCalls' = sessionCalls /\ execs' = execs
      BY <2>1, <2>2
    <2>3. CASE Session!AnswerCalls
      BY <1>3, <2>1, <2>3 DEF Session!AnswerCalls, BatchOver, Session!SessionAssumption
    <2>4. CASE Session!ToolCall \/ Session!SpawnCard \/ Session!WaitForChild \/ Session!VerifyRefused
      BY <2>1, <2>4 DEF Session!ToolCall, Session!SpawnCard, Session!WaitForChild, Session!VerifyRefused, Session!MayRun
    <2>5. CASE Session!VerifyTask
      BY <2>1, <2>5 DEF Session!VerifyTask, Session!MayRun, Session!Refused
    <2>6. CASE Session!FinalChecks
      BY <2>1, <2>6 DEF Session!FinalChecks
    <2>. QED BY <1>3, <2>2, <2>3, <2>4, <2>5, <2>6 DEF Session!Next, Session!SessionStep, Session!vars,
             Session!TurnLimit, Session!LeaseExpired, Session!NextTurn, Session!BrainFails, Session!CompletionBlocked,
             Session!Stop, Session!AnswerText, Session!BatchEnd, Session!BatchLeaseExpired, Session!VerifyDone,
             Session!KeepTerminal, Session!NoChecks, Session!Repair, Session!Accept, Session!Capture, Session!Elapse
  <1>. QED BY <1>1, <1>2, <1>3, PTL DEF Session!Spec, Session!NothingStartsAfterLease, Session!FatalChecksStand

\* Beside everything else, run_with_verify reports a session as verified only after the
\* required checks ran in the checkout it hands in, with no child left, and runs them as
\* often as the limits allow.
THEOREM FleetCodes == Spec => []SessionSafe
  <1>1. Init => Session!Init
    BY DEF Init
  <1>2. [Next]_vars => [Session!Next]_(Session!vars)
    <2>1. UNCHANGED sessionVars => UNCHANGED Session!vars
      BY DEF sessionVars, Session!vars, Session!budget, Session!gates
    <2>2. Next => Session!Next \/ UNCHANGED sessionVars
      BY DEF Next
    <2>3. UNCHANGED vars => UNCHANGED sessionVars
      BY DEF vars
    <2>. QED BY <2>1, <2>2, <2>3
  <1>. QED BY <1>1, <1>2, SessionAssumed, SessionHolds, PTL DEF Spec, Session!Spec, SessionSafe

(***************************************************************************)
(* The agent loop.  A state of it, with a node or in a checkpoint, is of a *)
(* draft that was written after as many revisions as the state says; one   *)
(* that is done is of a draft that was reviewed.  What is known of a draft *)
(* is never taken back, so a state that is resumed late still tells the    *)
(* truth.                                                                  *)
(***************************************************************************)
LoopStates == Loop!LoopState \cup {Loop!NoState}
RunState == [at : Loop!Point, st : LoopStates]
Kinds == [single : BOOLEAN, child : BOOLEAN]

\* the type invariant in parts
LoopHub ==
    /\ loopStatus \in {"ready", "running", "waiting_on_child", "review", "blocked"}
    /\ loopHolder \in LoopNode \cup {None} /\ loopLife \in 0 .. LoopTTL /\ ckpt \in LoopStates
    /\ child \in {"none", "open", "done", "failed"} /\ output \in 0 .. MaxDrafts
    /\ loopStatus = "running" <=> loopHolder # None

LoopRuns == run \in [LoopNode -> RunState] /\ deadline \in [LoopNode -> 0 .. LoopTTL]

LoopHistory ==
    /\ kind \in Kinds /\ rejected \subseteq 1 .. MaxDrafts /\ drafts \in 0 .. MaxDrafts
    /\ verdict \in [1 .. MaxDrafts -> SUBSET {"pass", "fail"}]
    /\ round \in [1 .. MaxDrafts -> 0 .. MaxRevisions]
    /\ loopFaults \in 0 .. LoopMaxFaults /\ sentBack \in 0 .. MaxSendBacks

\* a draft was passed, or its revisions were used up
Reviewed(d) == "pass" \in verdict[d] \/ ("fail" \in verdict[d] /\ round[d] = MaxRevisions)

\* what a state of the loop says of its draft is so
Sound(st) ==
    /\ st.draft <= drafts
    /\ st.phase \in {"critique", "revise", "done"} => st.draft # 0 /\ round[st.draft] = st.revisions
    /\ st.phase = "revise" => st.revisions < MaxRevisions
    /\ (st.phase = "done" /\ ~ kind.single) => Reviewed(st.draft)

\* a node that is busy has a state, and hands in only what is done
Busy(r) == (r.at # "idle" => r.st \in Loop!LoopState) /\ (r.at = "finish" => r.st.phase = "done")

OutputSound == output <= drafts /\ (output # 0 /\ ~ kind.single => Reviewed(output))

LoopInv ==
    /\ LoopHub /\ LoopRuns /\ LoopHistory /\ Sound(ckpt) /\ OutputSound
    /\ \A n \in LoopNode : Sound(run[n].st) /\ Busy(run[n])

\* what is known of drafts is kept
Grows ==
    /\ kind' = kind /\ drafts <= drafts'
    /\ \A d \in 1 .. drafts : round'[d] = round[d] /\ verdict[d] \subseteq verdict'[d]

LEMMA SoundStays ==
    ASSUME Loop!LoopAssumption, LoopHistory, LoopHistory', Grows, NEW st \in LoopStates, Sound(st)
    PROVE  Sound(st)'
  <1>1. st.draft \in 0 .. MaxDrafts /\ (st = Loop!NoState => st.phase = "none")
    BY DEF LoopStates, Loop!LoopState, Loop!NoState, Loop!LoopAssumption
  <1>2. st.draft <= drafts'
    BY <1>1 DEF Sound, Grows, LoopHistory, Loop!LoopAssumption
  <1>3. st.draft # 0 => round'[st.draft] = round[st.draft] /\ verdict[st.draft] \subseteq verdict'[st.draft]
    BY <1>1 DEF Sound, Grows, LoopHistory, Loop!LoopAssumption
  <1>. QED BY <1>2, <1>3 DEF Sound, Reviewed, Grows

LEMMA OutputStays ==
    ASSUME Loop!LoopAssumption, LoopHistory, LoopHistory', LoopHub, Grows, OutputSound, output' = output
    PROVE  OutputSound'
  <1>1. output \in 0 .. MaxDrafts /\ output <= drafts'
    BY DEF OutputSound, Grows, LoopHub, LoopHistory, Loop!LoopAssumption
  <1>2. output # 0 => round'[output] = round[output] /\ verdict[output] \subseteq verdict'[output]
    BY <1>1 DEF OutputSound, Grows, LoopHistory, Loop!LoopAssumption
  <1>. QED BY <1>1, <1>2 DEF OutputSound, Reviewed, Grows

\* A step of one node, to a sound state: the checkpoint is that of the node or the old one, the
\* output what it had or the old one.
LEMMA NodeMoves ==
    ASSUME Loop!LoopAssumption, LoopInv, NEW n \in LoopNode, NEW r \in RunState,
           run' = [run EXCEPT ![n] = r], Sound(r.st)', Busy(r), Grows,
           LoopHub', LoopHistory', UNCHANGED deadline \/ deadline' \in [LoopNode -> 0 .. LoopTTL],
           ckpt' = ckpt \/ ckpt' = run[n].st,
           output' = output \/ (run[n].at = "finish" /\ output' = run[n].st.draft)
    PROVE  LoopInv'
  <1>1. LoopRuns'
    BY DEF LoopInv, LoopRuns
  <1>2. \A m \in LoopNode : run[m] \in RunState /\ run[m].st \in LoopStates
    BY DEF LoopInv, LoopRuns, RunState
  <1>3. \A m \in LoopNode : run'[m] = IF m = n THEN r ELSE run[m]
    BY DEF LoopInv, LoopRuns
  <1>4. ASSUME NEW m \in LoopNode PROVE Sound(run[m].st)' /\ Busy(run'[m])
    <2>1. CASE m = n
      BY <1>3, <2>1 DEF Sound
    <2>2. CASE m # n
      <3>1. PICK s \in LoopStates : s = run[m].st
        BY <1>2
      <3>2. Sound(s)'
        BY <3>1, SoundStays DEF LoopInv
      <3>3. run'[m].st = s
        BY <1>3, <2>2, <3>1
      <3>. QED BY <1>3, <2>2, <3>2, <3>3 DEF Sound, LoopInv
    <2>. QED BY <2>1, <2>2
  <1>5. PICK s \in LoopStates : s = run[n].st
    BY <1>2
  <1>6. Sound(s)'
    BY <1>5, SoundStays DEF LoopInv
  <1>7. Sound(ckpt)'
    <2>1. CASE ckpt' = ckpt
      <3>1. PICK c \in LoopStates : c = ckpt
        BY DEF LoopInv, LoopHub
      <3>2. Sound(c)'
        BY <3>1, SoundStays DEF LoopInv
      <3>. QED BY <2>1, <3>1, <3>2 DEF Sound
    <2>2. CASE ckpt' = run[n].st
      BY <1>5, <1>6, <2>2 DEF Sound
    <2>. QED BY <2>1, <2>2
  <1>8. OutputSound'
    <2>1. CASE output' = output
      BY <2>1, OutputStays DEF LoopInv
    <2>2. CASE run[n].at = "finish" /\ output' = run[n].st.draft
      <3>1. s.phase = "done" /\ output' = s.draft
        BY <1>5, <2>2 DEF LoopInv, Busy
      <3>. QED BY <1>6, <3>1 DEF Sound, OutputSound
    <2>. QED BY <2>1, <2>2
  <1>. QED BY <1>1, <1>4, <1>7, <1>8 DEF LoopInv, Busy

\* A step that leaves the nodes where they are.
LEMMA NodesStay ==
    ASSUME Loop!LoopAssumption, LoopInv, UNCHANGED <<run, ckpt, kind, drafts, verdict, round>>,
           LoopHub', LoopHistory', deadline' \in [LoopNode -> 0 .. LoopTTL], output' \in {output, 0}
    PROVE  LoopInv'
  <1>1. LoopRuns'
    BY DEF LoopInv, LoopRuns
  <1>2. Sound(ckpt)' /\ \A n \in LoopNode : Sound(run[n].st)' /\ Busy(run'[n])
    BY DEF LoopInv, Sound, Reviewed
  <1>3. OutputSound'
    BY DEF LoopInv, OutputSound, Reviewed, LoopHistory
  <1>. QED BY <1>1, <1>2, <1>3 DEF LoopInv, Busy

\* a node whose work ends is as it was before it began
LEMMA IdleIsSound ==
    ASSUME Loop!LoopAssumption, LoopHistory'
    PROVE  Loop!Idle \in RunState /\ Busy(Loop!Idle) /\ Sound(Loop!Idle.st)'
  BY DEF Loop!Idle, Loop!NoState, LoopStates, RunState, Loop!Point, Busy, Sound, LoopHistory

\* a node that ends: the card is handed in, handed back, failed, or left to its lease
LEMMA EndingStep ==
    ASSUME Loop!LoopAssumption, LoopInv, NEW n \in LoopNode,
           \/ Loop!LeaseRanOut(n) \/ Loop!InferenceFails(n) \/ Loop!Complete(n) \/ Loop!Stop(n) \/ Loop!Dies(n)
           \/ Loop!WaitOnChild(n) /\ Loop!Ends(n)
    PROVE  LoopInv'
  <1> USE DEF Loop!LoopAssumption, Loop!At, Loop!Ends, Loop!Unlease
  <1>1. UNCHANGED <<kind, ckpt, child, deadline, drafts, verdict, round, rejected, sentBack>>
        /\ run' = [run EXCEPT ![n] = Loop!Idle] /\ loopFaults' \in 0 .. LoopMaxFaults
    BY DEF Loop!LeaseRanOut, Loop!InferenceFails, Loop!Complete, Loop!Stop, Loop!Dies, Loop!WaitOnChild,
           Loop!hub, Loop!history, LoopInv, LoopHistory
  <1>2. output' = output \/ (run[n].at = "finish" /\ output' = run[n].st.draft)
    BY DEF Loop!LeaseRanOut, Loop!InferenceFails, Loop!Complete, Loop!Stop, Loop!Dies, Loop!WaitOnChild, Loop!hub
  <1>3. output' \in 0 .. MaxDrafts
    BY <1>2 DEF LoopInv, LoopHub, LoopRuns, RunState, LoopStates, Loop!LoopState, Loop!NoState
  <1>4. \/ UNCHANGED <<loopStatus, loopHolder, loopLife>>
        \/ loopHolder = n /\ loopHolder' = None /\ loopLife' = 0 /\ loopStatus' \in {"ready", "blocked", "review", "waiting_on_child"}
    <2>1. CASE Loop!LeaseRanOut(n) \/ Loop!Stop(n)
      BY <2>1 DEF Loop!LeaseRanOut, Loop!Stop, Loop!ReleasedBy
    <2>2. CASE Loop!InferenceFails(n) \/ Loop!Complete(n) \/ Loop!Dies(n)
      BY <2>2 DEF Loop!InferenceFails, Loop!Complete, Loop!Dies, Loop!Fail, Loop!hub
    <2>3. CASE Loop!WaitOnChild(n)
      BY <2>3 DEF Loop!WaitOnChild
    <2>. QED BY <2>1, <2>2, <2>3
  <1>5. LoopHub'
    BY <1>1, <1>3, <1>4 DEF LoopInv, LoopHub
  <1>6. LoopHistory' /\ Grows
    BY <1>1 DEF LoopInv, LoopHistory, Grows
  <1>. QED BY <1>1, <1>2, <1>5, <1>6, IdleIsSound, NodeMoves

\* a state as good as another one, in a phase that says nothing
LEMMA Rephrased ==
    ASSUME Loop!LoopAssumption, LoopHistory, NEW st \in Loop!LoopState, Sound(st),
           NEW ph \in {"draft", "waiting_on_child"}
    PROVE  [st EXCEPT !.phase = ph] \in Loop!LoopState /\ Sound([st EXCEPT !.phase = ph])
  BY DEF Loop!LoopState, Loop!Phase, Sound

\* a node that goes on from a sound state to a sound state, drafts unchanged
LEMMA MovesOn ==
    ASSUME Loop!LoopAssumption, LoopInv, NEW n \in LoopNode, NEW at \in Loop!Point \ {"finish"}, NEW st \in Loop!LoopState,
           Sound(st), Loop!Moves(n, at, st), UNCHANGED <<kind, drafts, verdict, round, rejected, sentBack, output>>,
           loopFaults' \in 0 .. LoopMaxFaults, LoopHub',
           UNCHANGED deadline \/ deadline' \in [LoopNode -> 0 .. LoopTTL],
           ckpt' = ckpt \/ ckpt' = run[n].st
    PROVE  LoopInv'
  <1> DEFINE r == [at |-> at, st |-> st]
  <1>1. r \in RunState /\ Busy(r) /\ run' = [run EXCEPT ![n] = r] /\ r.st = st
    BY DEF RunState, LoopStates, Busy, Loop!Moves
  <1>2. LoopHistory' /\ Grows
    BY DEF LoopInv, LoopHistory, Grows
  <1>3. Sound(st)'
    BY <1>2, SoundStays DEF LoopInv, LoopStates
  <1>. QED BY <1>1, <1>2, <1>3, NodeMoves

LEMMA ClaimStep ==
    ASSUME Loop!LoopAssumption, LoopInv, NEW n \in LoopNode, Loop!Claim(n)
    PROVE  LoopInv'
  <1> USE DEF Loop!LoopAssumption
  <1>1. LoopHub'
    BY DEF Loop!Claim, LoopInv, LoopHub
  <1>2. UNCHANGED <<kind, drafts, verdict, round, rejected, sentBack, output, ckpt, loopFaults>>
        /\ deadline' \in [LoopNode -> 0 .. LoopTTL] /\ loopFaults' \in 0 .. LoopMaxFaults
    BY DEF Loop!Claim, Loop!history, LoopInv, LoopRuns, LoopHistory
  <1>3. CASE ckpt = Loop!NoState
    <2>1. Loop!NewState \in Loop!LoopState /\ Sound(Loop!NewState)
      BY DEF Loop!NewState, Loop!LoopState, Loop!Phase, Sound, LoopInv, LoopHistory
    <2>2. Loop!Moves(n, "tool", Loop!NewState)
      BY <1>3 DEF Loop!Claim
    <2>. QED BY <1>1, <1>2, <2>1, <2>2, MovesOn DEF Loop!Point
  <1>4. CASE ckpt # Loop!NoState
    <2>1. PICK st \in Loop!LoopState : Sound(st) /\ Loop!Moves(n, "top", st)
      <3>1. ckpt \in Loop!LoopState /\ Sound(ckpt)
        BY <1>4 DEF LoopInv, LoopHub, LoopStates
      <3>2. [ckpt EXCEPT !.phase = "draft"] \in Loop!LoopState /\ Sound([ckpt EXCEPT !.phase = "draft"])
        BY <3>1, Rephrased DEF LoopInv
      <3>. QED BY <1>4, <3>1, <3>2 DEF Loop!Claim
    <2>. QED BY <1>1, <1>2, <2>1, MovesOn DEF Loop!Point
  <1>. QED BY <1>3, <1>4

\* the steps around a child and a checkpoint, and the start of a call
LEMMA TalkingStep ==
    ASSUME Loop!LoopAssumption, LoopInv, NEW n \in LoopNode,
           \/ Loop!RunTool(n) \/ Loop!Checkpoint(n) \/ Loop!StartInference(n)
           \/ Loop!WaitOnChild(n) /\ ~ Loop!Ends(n)
    PROVE  LoopInv'
  <1> USE DEF Loop!LoopAssumption, Loop!At
  <1>1. run[n].at # "idle"
    BY DEF Loop!RunTool, Loop!Checkpoint, Loop!StartInference, Loop!WaitOnChild
  <1>2. run[n].st \in Loop!LoopState /\ Sound(run[n].st)
    BY <1>1 DEF LoopInv, Busy
  <1>3. \A ph \in {"draft", "waiting_on_child"} :
            [run[n].st EXCEPT !.phase = ph] \in Loop!LoopState /\ Sound([run[n].st EXCEPT !.phase = ph])
    BY <1>2, Rephrased DEF LoopInv
  <1>4. PICK at \in Loop!Point \ {"finish"}, st \in Loop!LoopState : Sound(st) /\ Loop!Moves(n, at, st)
    BY <1>2, <1>3 DEF Loop!RunTool, Loop!Checkpoint, Loop!StartInference, Loop!WaitOnChild, Loop!Point
  <1>5. UNCHANGED <<kind, drafts, verdict, round, rejected, sentBack, output, deadline>> /\ loopFaults' \in 0 .. LoopMaxFaults
    BY DEF Loop!RunTool, Loop!Checkpoint, Loop!StartInference, Loop!WaitOnChild, Loop!history, Loop!hub,
           LoopInv, LoopHistory
  <1>6. ckpt' = ckpt \/ ckpt' = run[n].st
    BY DEF Loop!RunTool, Loop!Checkpoint, Loop!Stored, Loop!StartInference, Loop!WaitOnChild, Loop!hub
  <1>7. LoopHub'
    <2>1. CASE Loop!RunTool(n) \/ Loop!StartInference(n) \/ (Loop!WaitOnChild(n) /\ ~ Loop!Ends(n))
      BY <2>1 DEF Loop!RunTool, Loop!StartInference, Loop!WaitOnChild, Loop!hub, LoopInv, LoopHub
    <2>2. CASE Loop!Checkpoint(n)
      <3>1. UNCHANGED <<loopStatus, loopHolder, child, output>> /\ loopLife' \in 0 .. LoopTTL /\ ckpt' \in LoopStates
        BY <1>2, <2>2 DEF Loop!Checkpoint, Loop!Stored, LoopInv, LoopHub, LoopStates
      <3>. QED BY <3>1 DEF LoopInv, LoopHub
    <2>. QED BY <2>1, <2>2
  <1>. QED BY <1>4, <1>5, <1>6, <1>7, MovesOn

\* a node that goes on with a state of new drafts
LEMMA Continues ==
    ASSUME Loop!LoopAssumption, LoopInv, NEW n \in LoopNode, NEW st \in Loop!LoopState, Loop!Continue(n, st), Sound(st)',
           Grows, LoopHub', LoopHistory', UNCHANGED <<deadline, ckpt, output>>
    PROVE  LoopInv'
  <1>1. PICK at \in {"finish", "save"} :
            run' = [run EXCEPT ![n] = [at |-> at, st |-> st]] /\ (at = "finish" => st.phase = "done")
    BY DEF Loop!Continue, Loop!Moves
  <1> DEFINE r == [at |-> at, st |-> st]
  <1>2. r.at = at /\ r.st = st /\ run' = [run EXCEPT ![n] = r]
    BY <1>1
  <1>3. r \in RunState
    BY DEF RunState, LoopStates, Loop!Point
  <1>4. Busy(r)
    BY <1>1, <1>2 DEF Busy
  <1>. QED BY <1>2, <1>3, <1>4, NodeMoves

LEMMA WriteStep ==
    ASSUME Loop!LoopAssumption, LoopInv, NEW n \in LoopNode, Loop!Write(n)
    PROVE  LoopInv'
  <1> USE DEF Loop!LoopAssumption
  <1>1. PICK old \in Loop!LoopState, new \in 1 .. MaxDrafts : old = run[n].st /\ Sound(old) /\ new = drafts + 1
    BY DEF Loop!Write, Loop!At, LoopInv, Busy, LoopHistory
  <1> DEFINE revs == IF old.phase = "revise" THEN old.revisions + 1 ELSE old.revisions
             ph == IF old.phase = "revise" THEN "critique" ELSE Loop!AfterDraft
  <1>2. revs \in 0 .. MaxRevisions
    BY <1>1 DEF Sound, Loop!LoopState
  <1>3. PICK rv \in 0 .. MaxRevisions, p \in {"critique", "done"} : rv = revs /\ p = ph
    BY <1>2 DEF Loop!AfterDraft
  <1> DEFINE st == [phase |-> p, draft |-> new, revisions |-> rv]
  <1>4. /\ drafts' = new /\ round' = [round EXCEPT ![new] = rv]
        /\ UNCHANGED <<verdict, kind, loopStatus, loopHolder, loopLife, ckpt, child, output, deadline, rejected, loopFaults, sentBack>>
        /\ Loop!Continue(n, st)
    BY <1>1, <1>3 DEF Loop!Write, Loop!hub, Loop!AfterDraft
  <1>5. LoopHistory' /\ round'[new] = rv
    BY <1>4 DEF LoopInv, LoopHistory
  <1>6. Grows
    BY <1>1, <1>4 DEF LoopInv, LoopHistory, Grows
  <1>7. LoopHub'
    BY <1>4 DEF LoopInv, LoopHub
  <1>8. p = "done" => kind.single
    BY <1>3 DEF Loop!AfterDraft, LoopInv, LoopHistory, Kinds
  <1>9. st \in Loop!LoopState /\ st.phase = p /\ st.draft = new /\ st.revisions = rv
    BY DEF Loop!LoopState, Loop!Phase
  <1> HIDE DEF st
  <1>10. Sound(st)'
    BY <1>4, <1>5, <1>8, <1>9 DEF Sound
  <1>. QED BY <1>4, <1>5, <1>6, <1>7, <1>9, <1>10, Continues

LEMMA JudgeStep ==
    ASSUME Loop!LoopAssumption, LoopInv, NEW n \in LoopNode, Loop!Judge(n)
    PROVE  LoopInv'
  <1> USE DEF Loop!LoopAssumption
  <1>1. PICK old \in Loop!LoopState, said \in {"pass", "fail"} :
            /\ old = run[n].st /\ Sound(old) /\ old.phase = "critique"
            /\ verdict' = [verdict EXCEPT ![old.draft] = @ \cup {said}]
            /\ Loop!Continue(n, [old EXCEPT !.phase = IF said = "pass" \/ old.revisions >= MaxRevisions THEN "done" ELSE "revise"])
    BY DEF Loop!Judge, Loop!At, LoopInv, Busy
  <1>2. UNCHANGED <<round, drafts, kind, loopStatus, loopHolder, loopLife, ckpt, child, output, deadline, rejected, loopFaults, sentBack>>
    BY DEF Loop!Judge, Loop!hub
  <1> DEFINE d == old.draft
             ph == IF said = "pass" \/ old.revisions >= MaxRevisions THEN "done" ELSE "revise"
             st == [old EXCEPT !.phase = ph]
  <1>3. d \in 1 .. MaxDrafts /\ d <= drafts /\ round[d] = old.revisions /\ old.revisions \in 0 .. MaxRevisions
    BY <1>1 DEF Sound, Loop!LoopState
  <1>4. LoopHistory' /\ verdict'[d] = verdict[d] \cup {said}
    BY <1>1, <1>2, <1>3 DEF LoopInv, LoopHistory
  <1>5. Grows
    BY <1>1, <1>2, <1>3, SMTT(30) DEF LoopInv, LoopHistory, Grows
  <1>6. LoopHub'
    BY <1>2 DEF LoopInv, LoopHub
  <1>7. st \in Loop!LoopState /\ st.draft = d /\ st.phase = ph /\ st.revisions = old.revisions
    BY DEF Loop!LoopState, Loop!Phase
  <1>8. Sound(st)'
    BY <1>2, <1>3, <1>4, <1>7 DEF Sound, Reviewed
  <1>9. Loop!Continue(n, st)
    BY <1>1
  <1> HIDE DEF st
  <1>. QED BY <1>2, <1>4, <1>5, <1>6, <1>7, <1>8, <1>9, Continues

\* everybody else
LEMMA ElseStep ==
    ASSUME Loop!LoopAssumption, LoopInv, Loop!Tick \/ Loop!Reap \/ Loop!ChildEnds \/ Loop!SendBack
    PROVE  LoopInv'
  <1> USE DEF Loop!LoopAssumption, Loop!Unlease
  <1>1. UNCHANGED <<run, ckpt, kind, drafts, verdict, round, loopFaults>> /\ output' \in {output, 0}
    BY DEF Loop!Tick, Loop!Reap, Loop!ChildEnds, Loop!SendBack, Loop!history
  <1>2. deadline' \in [LoopNode -> 0 .. LoopTTL]
    BY DEF Loop!Tick, Loop!Reap, Loop!ChildEnds, Loop!SendBack, LoopInv, LoopRuns
  <1>3. LoopHub'
    BY <1>1 DEF Loop!Tick, Loop!Reap, Loop!ChildEnds, Loop!SendBack, LoopInv, LoopHub
  <1>4. LoopHistory'
    <2>1. CASE Loop!Tick \/ Loop!Reap \/ Loop!ChildEnds
      BY <1>1, <2>1 DEF Loop!Tick, Loop!Reap, Loop!ChildEnds, LoopInv, LoopHistory
    <2>2. CASE Loop!SendBack
      <3>1. sentBack' \in 0 .. MaxSendBacks
        BY <2>2 DEF Loop!SendBack, LoopInv, LoopHistory
      <3>2. rejected' \subseteq 1 .. MaxDrafts
        BY <2>2 DEF Loop!SendBack, LoopInv, LoopHistory, LoopHub
      <3>. QED BY <1>1, <3>1, <3>2 DEF LoopInv, LoopHistory
    <2>. QED BY <2>1, <2>2
  <1>. QED BY <1>1, <1>2, <1>3, <1>4, NodesStay

LEMMA LoopInvStep ==
    ASSUME Loop!LoopAssumption, LoopInv, [Loop!Next]_(Loop!vars)
    PROVE  LoopInv'
  <1>1. CASE UNCHANGED Loop!vars
    <2>1. UNCHANGED <<run, ckpt, kind, drafts, verdict, round, loopFaults, output, deadline>>
      BY <1>1 DEF Loop!vars, Loop!hub, Loop!history
    <2>2. LoopHub' /\ LoopHistory'
      BY <1>1 DEF Loop!vars, Loop!hub, Loop!history, LoopInv, LoopHub, LoopHistory
    <2>3. deadline' \in [LoopNode -> 0 .. LoopTTL]
      BY <2>1 DEF LoopInv, LoopRuns
    <2>. QED BY <2>1, <2>2, <2>3, NodesStay
  <1>. QED BY <1>1, EndingStep, ClaimStep, TalkingStep, WriteStep, JudgeStep, ElseStep DEF Loop!Next

\* a card in review has no node that could do anything to it
LEMMA ReviewStays ==
    ASSUME Loop!LoopAssumption, LoopInv, [Loop!Next]_(Loop!vars), loopStatus = "review"
    PROVE  (loopStatus' = "review" /\ output' = output) \/ sentBack' # sentBack
  <1> USE DEF Loop!LoopAssumption
  <1>1. \A n \in LoopNode : loopHolder # n
    BY DEF LoopInv, LoopHub
  <1>2. loopHolder = None
    BY DEF LoopInv, LoopHub
  <1>3. ASSUME NEW n \in LoopNode,
               \/ Loop!Claim(n) \/ Loop!RunTool(n) \/ Loop!Checkpoint(n) \/ Loop!WaitOnChild(n)
               \/ Loop!LeaseRanOut(n) \/ Loop!StartInference(n) \/ Loop!InferenceFails(n)
               \/ Loop!Write(n) \/ Loop!Judge(n) \/ Loop!Complete(n) \/ Loop!Stop(n) \/ Loop!Dies(n)
        PROVE  UNCHANGED <<loopStatus, output>>
    BY <1>1, <1>3 DEF Loop!Claim, Loop!RunTool, Loop!Checkpoint, Loop!WaitOnChild, Loop!LeaseRanOut, Loop!StartInference,
           Loop!InferenceFails, Loop!Write, Loop!Judge, Loop!Complete, Loop!Stop, Loop!Dies, Loop!ReleasedBy, Loop!Fail,
           Loop!hub
  <1>4. CASE Loop!Tick \/ Loop!Reap \/ Loop!ChildEnds
    BY <1>2, <1>4 DEF Loop!Tick, Loop!Reap, Loop!ChildEnds
  <1>5. CASE Loop!SendBack
    BY <1>5 DEF Loop!SendBack, LoopInv, LoopHistory
  <1>6. CASE UNCHANGED Loop!vars
    BY <1>6 DEF Loop!vars, Loop!hub
  <1>. QED BY <1>3, <1>4, <1>5, <1>6 DEF Loop!Next

\* A card that is handed in was reviewed, and stays handed in, whichever nodes held it, lost it
\* and resumed it, and however many revisions there may be.
THEOREM LoopHolds ==
    ASSUME Loop!LoopAssumption
    PROVE  Loop!Spec => []Loop!TypeOK /\ Loop!LoopSafe
  <1>1. Loop!Init => LoopInv
    <2> SUFFICES ASSUME Loop!Init PROVE LoopInv
      OBVIOUS
    <2> USE DEF Loop!LoopAssumption
    <2>1. LoopHub
      BY DEF Loop!Init, LoopHub, LoopStates
    <2>2. LoopHistory
      BY DEF Loop!Init, LoopHistory, Kinds
    <2>3. LoopHistory /\ drafts = 0
      BY <2>2 DEF Loop!Init
    <2>4. Loop!Idle \in RunState /\ Busy(Loop!Idle) /\ Sound(Loop!Idle.st) /\ Sound(Loop!NoState)
      BY <2>3 DEF Loop!Idle, Loop!NoState, LoopStates, RunState, Loop!Point, Busy, Sound, LoopHistory
    <2>5. LoopRuns /\ \A n \in LoopNode : run[n] = Loop!Idle
      BY <2>4 DEF Loop!Init, LoopRuns
    <2>. QED BY <2>1, <2>2, <2>4, <2>5 DEF LoopInv, OutputSound, Loop!Init
  <1>2. LoopInv /\ [Loop!Next]_(Loop!vars) => LoopInv'
    BY LoopInvStep
  <1>3. LoopInv /\ LoopInv' /\ [Loop!Next]_(Loop!vars) => [Loop!LoopStep]_(Loop!vars)
    <2>1. LoopInv' => Loop!OutputReviewed'
      BY DEF LoopInv, OutputSound, Reviewed, Loop!OutputReviewed
    <2>. QED BY <2>1, ReviewStays DEF Loop!LoopStep
  <1>4. LoopInv => Loop!TypeOK
    BY DEF LoopInv, LoopHub, LoopRuns, LoopHistory, LoopStates, RunState, Kinds, Loop!TypeOK
  <1>. QED BY <1>1, <1>2, <1>3, <1>4, PTL DEF Loop!Spec, Loop!LoopSafe

\* Beside everything else, a card the agent loop hands in was reviewed by a fresh session,
\* whoever started it, and its draft stays the one that was reviewed until a member sends
\* it back.
THEOREM FleetHandsIn == Spec => LoopSafe
  <1>1. Init => Loop!Init
    BY DEF Init
  <1>2. [Next]_vars => [Loop!Next]_(Loop!vars)
    <2>1. UNCHANGED loopVars => UNCHANGED Loop!vars
      BY DEF loopVars, Loop!vars, Loop!hub, Loop!history
    <2>2. Next => Loop!Next \/ UNCHANGED loopVars
      BY DEF Next
    <2>3. UNCHANGED vars => UNCHANGED loopVars
      BY DEF vars
    <2>. QED BY <2>1, <2>2, <2>3
  <1>3. [Loop!LoopStep]_(Loop!vars) => [moving = "loop" => Loop!LoopStep]_loopVars
    <2>1. UNCHANGED Loop!vars => UNCHANGED loopVars
      BY DEF loopVars, Loop!vars, Loop!hub, Loop!history
    <2>. QED BY <2>1
  <1>. QED BY <1>1, <1>2, LoopAssumed, <1>3, LoopHolds, PTL DEF Spec, Loop!Spec, LoopSafe, Loop!LoopSafe

(***************************************************************************)
(* The election.  Whoever got through to the hub less than a lease ago and *)
(* was told that it is the coordinator has a lease that lasts at least for *)
(* the rest of that time, and nobody takes a lease that lasts.             *)
(***************************************************************************)
Leased ==
    \A s \in flag : heard[s] < ElectionTTL => electionHolder = s /\ electionLeft + heard[s] >= ElectionTTL

ElectionInv == Election!TypeOK /\ Leased

LEMMA ElectionStep ==
    ASSUME Election!ElectionAssumption, ElectionInv, [Election!Next]_(Election!vars)
    PROVE  ElectionInv'
  <1> USE DEF ElectionInv, Election!ElectionAssumption
  <1>1. ASSUME NEW s \in ElectionServer, Election!Heartbeat(s)
        PROVE  ElectionInv'
    <2>1. heard' = [heard EXCEPT ![s] = 0] /\ url' = [url EXCEPT ![s] = electionHolder'] /\ due' = due \ {s} /\ s \in electionUp
          /\ UNCHANGED <<electionUp, board, snapshot, electionFaults>>
      BY <1>1 DEF Election!Heartbeat, Election!TypeOK
    <2>2. CASE Election!Wins(s)
      <3>1. electionHolder' = s /\ electionLeft' = ElectionTTL /\ electionLate' = FALSE /\ flag' = flag \cup {s}
        BY <1>1, <2>2 DEF Election!Heartbeat
      <3>5. ElectionTTL \in 0 .. ElectionTTL /\ 0 \in 0 .. ElectionTTL
        OBVIOUS
      <3>6. url' \in [ElectionServer -> ElectionServer \cup {None}] /\ heard' \in [ElectionServer -> 0 .. ElectionTTL]
        BY <2>1, <3>1, <3>5 DEF Election!TypeOK
      <3>2. Election!TypeOK'
        BY <2>1, <3>1, <3>5, <3>6 DEF Election!TypeOK
      <3>3. ASSUME NEW t \in flag, t # s PROVE ~ (heard[t] < ElectionTTL)
        BY <2>2, <3>3 DEF Election!Wins, Leased, Election!TypeOK
      <3>4. Leased'
        BY <2>1, <3>1, <3>3 DEF Leased, Election!TypeOK
      <3>. QED BY <3>2, <3>4
    <2>3. CASE ~ Election!Wins(s)
      <3>1. flag' = flag \ {s} /\ UNCHANGED <<electionHolder, electionLeft, electionLate>>
        BY <1>1, <2>3 DEF Election!Heartbeat
      <3>2. Election!TypeOK'
        BY <2>1, <3>1 DEF Election!TypeOK
      <3>3. Leased'
        BY <2>1, <3>1 DEF Leased, Election!TypeOK
      <3>. QED BY <3>2, <3>3
    <2>. QED BY <2>2, <2>3
  <1>2. ASSUME NEW s \in ElectionServer, Election!HeartbeatFails(s)
        PROVE  ElectionInv'
    BY <1>2 DEF Election!HeartbeatFails, Election!TypeOK, Leased
  <1>3. ASSUME NEW s \in ElectionServer, Election!Refresh(s)
        PROVE  ElectionInv'
    <2>1. UNCHANGED <<electionHolder, electionLeft, electionLate, electionUp, flag, url, heard, due, board, electionFaults>>
      BY <1>3 DEF Election!Refresh
    <2>2. snapshot' \in [ElectionServer -> 0 .. MaxVersion]
      BY <1>3 DEF Election!Refresh, Election!TypeOK
    <2>. QED BY <2>1, <2>2 DEF Election!TypeOK, Leased
  <1>4. ASSUME NEW s \in ElectionServer, Election!ShutDown(s) \/ Election!Crash(s)
        PROVE  ElectionInv'
    <2>1. /\ flag' = flag \ {s} /\ electionUp' = electionUp \ {s} /\ due' = due \ {s} /\ electionFaults' \in 0 .. ElectionMaxFaults
          /\ UNCHANGED <<electionHolder, electionLate, url, heard, board, snapshot>>
          /\ electionLeft' \in {0, electionLeft} /\ (electionHolder # s => electionLeft' = electionLeft)
      BY <1>4 DEF Election!ShutDown, Election!Crash, Election!TypeOK
    <2>2. Election!TypeOK'
      BY <2>1 DEF Election!TypeOK
    <2>3. Leased'
      BY <2>1 DEF Leased
    <2>. QED BY <2>2, <2>3
  <1>5. ASSUME NEW s \in ElectionServer, Election!Start(s)
        PROVE  ElectionInv'
    <2>1. s \notin flag
      BY <1>5 DEF Election!Start, Election!TypeOK
    <2>2. Election!TypeOK'
      BY <1>5 DEF Election!Start, Election!TypeOK
    <2>3. Leased'
      BY <1>5, <2>1 DEF Election!Start, Election!TypeOK, Leased
    <2>. QED BY <2>2, <2>3
  <1>6. CASE Election!Tick
    <2>1. Election!TypeOK'
      BY <1>6 DEF Election!Tick, Election!TypeOK
    <2>2. ASSUME NEW s \in flag, heard'[s] < ElectionTTL
          PROVE  electionHolder' = s /\ electionLeft' + heard'[s] >= ElectionTTL
      <3>1. s \in ElectionServer /\ heard[s] \in 0 .. ElectionTTL /\ electionLeft \in 0 .. ElectionTTL /\ ElectionTTL \in Nat
        BY DEF Election!TypeOK
      <3>2. heard'[s] = IF heard[s] < ElectionTTL THEN heard[s] + 1 ELSE ElectionTTL
        BY <1>6, <3>1 DEF Election!Tick
      <3>3. heard[s] < ElectionTTL /\ heard'[s] = heard[s] + 1
        BY <2>2, <3>1, <3>2
      <3>4. electionHolder = s /\ electionLeft + heard[s] >= ElectionTTL
        BY <3>3 DEF Leased
      <3>5. electionHolder' = electionHolder /\ electionLeft' = IF electionLeft > 0 THEN electionLeft - 1 ELSE 0
        BY <1>6 DEF Election!Tick
      <3>. QED BY <3>1, <3>3, <3>4, <3>5
    <2>3. Leased'
      BY <1>6, <2>2 DEF Election!Tick, Leased
    <2>. QED BY <2>1, <2>3
  <1>7. CASE Election!BoardChanges
    BY <1>7 DEF Election!BoardChanges, Election!TypeOK, Leased
  <1>8. CASE UNCHANGED Election!vars
    BY <1>8 DEF Election!vars, Election!TypeOK, Leased
  <1>. QED BY <1>1, <1>2, <1>3, <1>4, <1>5, <1>6, <1>7, <1>8 DEF Election!Next

\* A server that got through to the hub less than a lease ago is not mistaken about being the
\* coordinator, whatever calls fail and servers stop, die and start: two act as coordinator only
\* while one of them is cut off for longer than a lease lasts.
THEOREM BeliefsAreTrue ==
    ASSUME Election!ElectionAssumption
    PROVE  Election!Spec => [](Election!TypeOK /\ Election!BeliefIsTrueWhileFresh)
  <1>1. Election!Init => ElectionInv
    BY DEF Election!Init, ElectionInv, Election!TypeOK, Leased, Election!ElectionAssumption
  <1>2. ElectionInv /\ [Election!Next]_(Election!vars) => ElectionInv'
    BY ElectionStep
  <1>3. ElectionInv => Election!TypeOK /\ Election!BeliefIsTrueWhileFresh
    BY DEF ElectionInv, Leased, Election!BeliefIsTrueWhileFresh
  <1>. QED BY <1>1, <1>2, <1>3, PTL DEF Election!Spec

\* A server that steps down on an outdated belief does not end the lease of whoever took over: a
\* lease runs out by time alone, or its holder stops.
THEOREM LeaseEndsByTime ==
    ASSUME Election!ElectionAssumption
    PROVE  Election!Spec => Election!NobodyElseStepsDown
  <1> DEFINE Stays == \A s \in ElectionServer : (electionHolder = s /\ s \in electionUp /\ s \in electionUp' /\ electionLeft > 0 /\ electionLeft' = 0) => electionLeft = 1
  <1>1. Election!Init => ElectionInv
    BY DEF Election!Init, ElectionInv, Election!TypeOK, Leased, Election!ElectionAssumption
  <1>2. ElectionInv /\ [Election!Next]_(Election!vars) => ElectionInv'
    BY ElectionStep
  <1>3. ASSUME ElectionInv, [Election!Next]_(Election!vars) PROVE Stays
    <2>. SUFFICES ASSUME NEW s \in ElectionServer, electionHolder = s, s \in electionUp, s \in electionUp', electionLeft > 0, electionLeft' = 0 PROVE electionLeft = 1
      OBVIOUS
    <2>1. electionLeft \in Nat /\ ElectionTTL \in Nat \ {0} /\ electionLeft' # electionLeft
      BY <1>3 DEF ElectionInv, Election!TypeOK, Election!ElectionAssumption
    <2>2. ASSUME NEW t \in ElectionServer, Election!Heartbeat(t) \/ Election!HeartbeatFails(t) \/ Election!Refresh(t)
          PROVE  FALSE
      BY <2>1, <2>2 DEF Election!Heartbeat, Election!HeartbeatFails, Election!Refresh
    <2>3. ASSUME NEW t \in ElectionServer, Election!ShutDown(t) \/ Election!Crash(t) \/ Election!Start(t)
          PROVE  FALSE
      BY <2>1, <2>3 DEF Election!ShutDown, Election!Crash, Election!Start
    <2>4. ~ Election!BoardChanges /\ ~ UNCHANGED Election!vars
      BY <2>1 DEF Election!BoardChanges, Election!vars
    <2>5. Election!Tick
      BY <1>3, <2>2, <2>3, <2>4 DEF Election!Next
    <2>. QED BY <2>1, <2>5 DEF Election!Tick
  <1>. QED BY <1>1, <1>2, <1>3, PTL DEF Election!Spec, Election!NobodyElseStepsDown

\* Beside everything else, a server that got through to the hub less than a lease ago knows
\* whether it is the coordinator.
THEOREM FleetElects == Spec => []BeliefIsTrueWhileFresh
  <1>1. Init => Election!Init
    BY DEF Init
  <1>2. [Next]_vars => [Election!Next]_(Election!vars)
    <2>1. UNCHANGED electionVars => UNCHANGED Election!vars
      BY DEF electionVars, Election!vars
    <2>2. Next => Election!Next \/ UNCHANGED electionVars
      BY DEF Next
    <2>3. UNCHANGED vars => UNCHANGED electionVars
      BY DEF vars
    <2>. QED BY <2>1, <2>2, <2>3
  <1>. QED BY <1>1, <1>2, ElectionAssumed, BeliefsAreTrue, PTL DEF Spec, Election!Spec, BeliefIsTrueWhileFresh

(***************************************************************************)
(* The store.  While an upload is under way its address is empty, and the  *)
(* file it renames is the one it wrote.                                    *)
(***************************************************************************)
Uploading == {"create", "write", "rename"}

BlobInv ==
    /\ blobsPc \in [Writer -> Uploading \cup {"idle", "ok", "error"}] /\ DOMAIN fd = Writer
    /\ blob # None => blob \in full
    /\ \A w \in Writer :
          /\ blobsPc[w] \in Uploading => blob = None
          /\ blobsPc[w] = "write" => fd[w] = part
          /\ blobsPc[w] = "rename" /\ part # None => part \in full

LEMMA BlobStep ==
    ASSUME \A v, w \in Writer : v = w, BlobInv, [Blob!Next]_(Blob!vars)
    PROVE  BlobInv'
  <1> USE DEF BlobInv, Uploading
  <1>1. ASSUME NEW w \in Writer, Blob!PutExists(w) PROVE BlobInv'
    BY <1>1 DEF Blob!PutExists
  <1>2. ASSUME NEW w \in Writer, Blob!PutCreate(w) PROVE BlobInv'
    BY <1>2 DEF Blob!PutCreate
  <1>3. ASSUME NEW w \in Writer, Blob!PutWrite(w) PROVE BlobInv'
    BY <1>3 DEF Blob!PutWrite
  <1>4. ASSUME NEW w \in Writer, Blob!PutRename(w) PROVE BlobInv'
    BY <1>4 DEF Blob!PutRename
  <1>5. ASSUME NEW w \in Writer, Blob!Retry(w) PROVE BlobInv'
    BY <1>5 DEF Blob!Retry
  <1>6. CASE Blob!RemoveLook \/ Blob!RemoveFile \/ UNCHANGED Blob!vars
    BY <1>6 DEF Blob!RemoveLook, Blob!RemoveFile, Blob!vars
  <1>7. CASE Blob!Crash
    BY <1>7 DEF Blob!Crash
  <1>. QED BY <1>1, <1>2, <1>3, <1>4, <1>5, <1>6, <1>7 DEF Blob!Next

\* As long as uploads of the same content come one after the other, what lies at its address is
\* a whole blob at every moment, however often the server dies and the blob is collected: the
\* temporary file is renamed only when it is written, and written only while the address is empty.
THEOREM BlobsAreWhole ==
    ASSUME \A v, w \in Writer : v = w
    PROVE  Blob!Spec => []Blob!NoHalfBlob
  <1>1. Blob!Init => BlobInv
    BY DEF Blob!Init, BlobInv, Uploading
  <1>2. BlobInv /\ [Blob!Next]_(Blob!vars) => BlobInv'
    BY BlobStep
  <1>3. BlobInv => Blob!NoHalfBlob
    BY DEF BlobInv, Blob!NoHalfBlob
  <1>. QED BY <1>1, <1>2, <1>3, PTL DEF Blob!Spec

\* Beside everything else, and while uploads of the same content come one after the other,
\* the file at the address of a blob is whole at every moment.
THEOREM FleetStores ==
    ASSUME \A v, w \in Writer : v = w PROVE Spec => []NoHalfBlob
  <1>1. Init => Blob!Init
    BY DEF Init
  <1>2. [Next]_vars => [Blob!Next]_(Blob!vars)
    <2>1. UNCHANGED blobsVars => UNCHANGED Blob!vars
      BY DEF blobsVars, Blob!vars
    <2>2. Next => Blob!Next \/ UNCHANGED blobsVars
      BY DEF Next
    <2>3. UNCHANGED vars => UNCHANGED blobsVars
      BY DEF vars
    <2>. QED BY <2>1, <2>2, <2>3
  <1>. QED BY <1>1, <1>2, BlobAssumed, BlobsAreWhole, PTL DEF Spec, Blob!Spec, NoHalfBlob

(***************************************************************************)
(* The archive of the ledger.  New entries carry the time they are posted  *)
(* at, so the rows of an old month only change when it is archived, and    *)
(* what a pass exported still holds all of them when it applies.           *)
(***************************************************************************)
ArchiveTypes ==
    /\ ledgerNow \in Nat /\ hot \subseteq history
    /\ \A e \in history : e.at \in 0 .. ledgerNow
    /\ DOMAIN pass = ArchiveServer /\ DOMAIN stored = ArchiveServer

\* an entry of the log: its month is over, its rows are of that month and lie in a store
Logged(l) ==
    /\ l.month \in Nat /\ l.rows \subseteq Archive!OfMonth(history, l.month)
    /\ \E s \in ArchiveServer : l.rows \in stored[s]
LogHolds ==
    /\ \A l \in log : Logged(l)
    /\ \A k, l \in log : k.month = l.month => k = l

\* what a pass holds covers the month, unless somebody archived it meanwhile
Covers(s) ==
    pass[s].step # "idle" =>
        /\ pass[s].month \in Nat /\ Archive!EndOf(pass[s].month) <= ledgerNow
        /\ pass[s].rows \subseteq Archive!OfMonth(history, pass[s].month)
        /\ pass[s].month \notin Archive!Archived =>
              Archive!OfMonth(hot, pass[s].month) \subseteq pass[s].rows
        /\ pass[s].step = "stored" => pass[s].rows \in stored[s]

ArchiveInv ==
    /\ ArchiveTypes /\ LogHolds /\ \A s \in ArchiveServer : Covers(s)
    /\ \A e \in history \ hot : \E l \in log : e \in l.rows

\* An instant lies in one month.
LEMMA OneMonth ==
    ASSUME NEW t \in Nat, NEW k \in Nat, NEW m \in Nat,
           Archive!StartOf(k) <= t, t < Archive!EndOf(k), Archive!StartOf(m) <= t, t < Archive!EndOf(m)
    PROVE  k = m
  BY DEF Archive!StartOf, Archive!EndOf

\* The oldest month to archive.
LEMMA ReadyFirst ==
    ASSUME ArchiveInv, Archive!Ready # {}, NEW m, m = Archive!Min(Archive!Ready)
    PROVE  m \in Archive!Ready /\ m \in Nat /\ \A n \in Archive!Ready : n \in Nat /\ m <= n
  <1>1. ASSUME NEW e \in history PROVE Archive!MonthOf(e.at) \in Nat
    BY DEF ArchiveInv, ArchiveTypes, Archive!MonthOf
  <1>2. Archive!Ready \in SUBSET Nat
    BY <1>1 DEF ArchiveInv, ArchiveTypes, Archive!Ready
  <1>3. PICK k \in Archive!Ready : \A n \in Archive!Ready : k <= n
    BY <1>2, NatLeast
  <1>. QED BY <1>2, <1>3 DEF Archive!Min

\* The months that may be archived are over.
LEMMA OldIsOver ==
    ASSUME Archive!LedgerAssumption, ArchiveInv, NEW m, m = Archive!Min(Archive!Ready), Archive!Ready # {},
           Archive!EndOf(m) <= Archive!Horizon
    PROVE  m \in Nat /\ Archive!EndOf(m) < ledgerNow
  <1>4. m \in Nat
    BY ReadyFirst
  <1>5. Archive!MonthOf(ledgerNow) \in Nat /\ 2 * Archive!MonthOf(ledgerNow) <= ledgerNow /\ ledgerNow \in Nat /\ Keep \in Nat /\ Keep >= 1
    BY DEF ArchiveInv, ArchiveTypes, Archive!MonthOf, Archive!LedgerAssumption
  <1>6. Archive!Horizon < ledgerNow
    BY <1>5 DEF Archive!Horizon, Archive!StartOf
  <1>7. m \in Nat /\ Archive!EndOf(m) \in Nat /\ Archive!Horizon \in Int
    BY <1>4, <1>5 DEF Archive!EndOf, Archive!Horizon, Archive!StartOf
  <1>. QED BY <1>5, <1>6, <1>7

LEMMA ArchiveStep ==
    ASSUME Archive!LedgerAssumption, ArchiveInv, [Archive!Next]_(Archive!vars)
    PROVE  ArchiveInv'
  <1> USE DEF ArchiveInv
  \* a transaction
  <1>1. ASSUME NEW from, NEW to, NEW x, Archive!PostTxn(from, to, x) PROVE ArchiveInv'
    <2> DEFINE E == {[txn |-> posted, account |-> from, source |-> x, amount |-> -1, at |-> ledgerNow],
                     [txn |-> posted, account |-> to, source |-> x, amount |-> 1, at |-> ledgerNow]}
    <2>1. hot' = hot \cup E /\ history' = history \cup E /\ UNCHANGED <<ledgerNow, log, pass, stored>>
      BY <1>1 DEF Archive!PostTxn
    <2>2. \A e \in E : e.at = ledgerNow
      OBVIOUS
    <2> HIDE DEF E
    <2>3. ArchiveTypes'
      BY <2>1, <2>2 DEF ArchiveTypes
    <2>4. ASSUME NEW l \in log PROVE Logged(l)'
      BY <2>1 DEF LogHolds, Logged, Archive!OfMonth
    <2>5. LogHolds'
      BY <2>1, <2>4 DEF LogHolds
    <2>6. ASSUME NEW s \in ArchiveServer PROVE Covers(s)'
      <3>. SUFFICES ASSUME pass[s].step # "idle" PROVE Covers(s)'
        BY <2>1 DEF Covers
      <3> DEFINE m == pass[s].month
      <3>1. m \in Nat /\ Archive!EndOf(m) <= ledgerNow /\ Archive!EndOf(m) \in Nat
        BY DEF Covers, Archive!EndOf
      <3>2. Archive!OfMonth(E, m) = {}
        BY <2>2, <3>1 DEF Archive!OfMonth, ArchiveTypes
      <3>3. Archive!OfMonth(hot, m)' = Archive!OfMonth(hot, m) /\ Archive!OfMonth(history, m)' = Archive!OfMonth(history, m)
        BY <2>1, <3>2 DEF Archive!OfMonth
      <3>. QED BY <2>1, <3>3 DEF Covers, Archive!Archived
    <2>. QED BY <2>1, <2>3, <2>5, <2>6
  \* a pass moves: nothing is archived
  <1>2. ASSUME NEW s \in ArchiveServer, UNCHANGED <<ledgerNow, hot, log, history>>, DOMAIN pass' = ArchiveServer, DOMAIN stored' = ArchiveServer,
               \A t \in ArchiveServer : stored[t] \subseteq stored'[t],
               \A t \in ArchiveServer \ {s} : pass'[t] = pass[t], Covers(s)'
        PROVE  ArchiveInv'
    <2>1. ArchiveTypes'
      BY <1>2 DEF ArchiveTypes
    <2>2. ASSUME NEW l \in log PROVE Logged(l)'
      BY <1>2 DEF LogHolds, Logged, Archive!OfMonth
    <2>3. ASSUME NEW t \in ArchiveServer \ {s} PROVE Covers(t)'
      BY <1>2 DEF Covers, Archive!OfMonth, Archive!Archived
    <2>. QED BY <1>2, <2>1, <2>2, <2>3 DEF LogHolds
  <1>3. ASSUME NEW s \in ArchiveServer, Archive!Export(s) PROVE ArchiveInv'
    <2> DEFINE m == Archive!Min(Archive!Ready)
               next == [step |-> "exported", month |-> m, rows |-> Archive!OfMonth(hot, m)]
    <2>1. /\ pass' = [pass EXCEPT ![s] = next] /\ UNCHANGED <<ledgerNow, hot, log, stored, history>>
          /\ Archive!Ready # {} /\ Archive!EndOf(m) <= Archive!Horizon
      BY <1>3 DEF Archive!Export
    <2>2. m \in Nat /\ Archive!EndOf(m) < ledgerNow
      BY <2>1, OldIsOver
    <2>3. next.step = "exported" /\ next.month = m /\ next.rows = Archive!OfMonth(hot, m)
      OBVIOUS
    <2> HIDE DEF m, next
    <2>4. pass'[s] = next /\ DOMAIN pass' = ArchiveServer /\ \A t \in ArchiveServer \ {s} : pass'[t] = pass[t]
      BY <2>1 DEF ArchiveTypes
    <2>5. Covers(s)'
      BY <2>1, <2>2, <2>3, <2>4 DEF Covers, Archive!OfMonth, ArchiveTypes, Archive!EndOf
    <2>. QED BY <1>2, <2>1, <2>4, <2>5 DEF ArchiveTypes
  <1>4. ASSUME NEW s \in ArchiveServer, Archive!StorePut(s) PROVE ArchiveInv'
    <2> DEFINE next == [pass[s] EXCEPT !.step = "stored"]
    <2>1. /\ pass[s].step = "exported" /\ pass' = [pass EXCEPT ![s] = next]
          /\ stored' = [stored EXCEPT ![s] = @ \cup {pass[s].rows}] /\ UNCHANGED <<ledgerNow, hot, log, history>>
      BY <1>4 DEF Archive!StorePut
    <2>2. next.month = pass[s].month /\ next.rows = pass[s].rows
      OBVIOUS
    <2> HIDE DEF next
    <2>3. pass'[s] = next /\ DOMAIN pass' = ArchiveServer /\ \A t \in ArchiveServer \ {s} : pass'[t] = pass[t]
      BY <2>1 DEF ArchiveTypes
    <2>4. DOMAIN stored' = ArchiveServer /\ pass[s].rows \in stored'[s] /\ \A t \in ArchiveServer : stored[t] \subseteq stored'[t]
      BY <2>1 DEF ArchiveTypes
    <2>5. Covers(s)'
      BY <2>1, <2>2, <2>3, <2>4 DEF Covers, Archive!OfMonth, Archive!EndOf, Archive!Archived
    <2>. QED BY <1>2, <2>1, <2>3, <2>4, <2>5
  <1>5. ASSUME NEW s \in ArchiveServer, Archive!Abandon(s) PROVE ArchiveInv'
    <2>1. pass' = [pass EXCEPT ![s] = Archive!Idle] /\ UNCHANGED <<ledgerNow, hot, log, stored, history>>
      BY <1>5 DEF Archive!Abandon
    <2>2. pass'[s].step = "idle" /\ DOMAIN pass' = ArchiveServer /\ \A t \in ArchiveServer \ {s} : pass'[t] = pass[t]
      BY <2>1 DEF ArchiveTypes, Archive!Idle
    <2>3. Covers(s)'
      BY <2>2 DEF Covers
    <2>. QED BY <1>2, <2>1, <2>2, <2>3 DEF ArchiveTypes
  <1>6. ASSUME NEW s \in ArchiveServer, Archive!Apply(s) PROVE ArchiveInv'
    <2> DEFINE m == pass[s].month
               gone == Archive!OfMonth(hot, m)
               entry == [month |-> m, rows |-> pass[s].rows, by |-> s]
    <2>1. pass[s].step = "stored" /\ pass' = [pass EXCEPT ![s] = Archive!Idle] /\ UNCHANGED <<ledgerNow, stored, history>>
      BY <1>6 DEF Archive!Apply
    <2>2. pass'[s].step = "idle" /\ DOMAIN pass' = ArchiveServer /\ \A t \in ArchiveServer \ {s} : pass'[t] = pass[t]
      BY <2>1 DEF ArchiveTypes, Archive!Idle
    <2>3. Covers(s)'
      BY <2>2 DEF Covers
    <2>4. CASE UNCHANGED <<hot, log>>
      BY <1>2, <2>1, <2>2, <2>3, <2>4 DEF ArchiveTypes
    <2>5. CASE m \notin Archive!Archived /\ hot' = hot \ gone /\ log' = log \cup {entry}
      <3>1. /\ m \in Nat /\ pass[s].rows \subseteq Archive!OfMonth(history, m) /\ gone \subseteq pass[s].rows
            /\ pass[s].rows \in stored[s]
        BY <2>1, <2>5 DEF Covers
      <3>2. entry.month = m /\ entry.rows = pass[s].rows
        OBVIOUS
      <3>3. \A l \in log : l.month # m
        BY <2>5 DEF Archive!Archived
      <3> HIDE DEF m, gone, entry
      <3>4. ArchiveTypes'
        BY <2>1, <2>2, <2>5 DEF ArchiveTypes
      <3>5. ASSUME NEW l \in log' PROVE Logged(l)'
        <4>1. CASE l \in log
          BY <2>1, <4>1 DEF LogHolds, Logged, Archive!OfMonth
        <4>2. CASE l = entry
          BY <2>1, <3>1, <3>2, <4>2 DEF Logged, Archive!OfMonth
        <4>. QED BY <2>5, <4>1, <4>2
      <3>6. \A k, l \in log' : k.month = l.month => k = l
        BY <2>5, <3>2, <3>3 DEF LogHolds
      <3>7. ASSUME NEW t \in ArchiveServer \ {s} PROVE Covers(t)'
        <4>1. Archive!Archived \subseteq Archive!Archived'
          BY <2>5 DEF Archive!Archived
        <4>2. pass'[t] = pass[t]
          BY <2>2
        <4>3. ASSUME NEW n PROVE Archive!OfMonth(hot, n)' \subseteq Archive!OfMonth(hot, n)
          BY <2>5 DEF Archive!OfMonth
        <4>4. ASSUME NEW n PROVE Archive!OfMonth(history, n)' = Archive!OfMonth(history, n)
          BY <2>1 DEF Archive!OfMonth
        <4>5. Archive!EndOf(pass[t].month)' = Archive!EndOf(pass[t].month)
          BY <4>2 DEF Archive!EndOf
        <4>. QED BY <2>1, <4>1, <4>2, <4>3, <4>4 DEF Covers, Archive!EndOf
      <3>8. ASSUME NEW e \in history' \ hot' PROVE \E l \in log' : e \in l.rows
        <4>1. CASE e \in history \ hot
          BY <2>5, <4>1
        <4>2. CASE e \in gone
          BY <2>5, <3>1, <3>2, <4>2
        <4>. QED BY <2>1, <2>5, <4>1, <4>2
      <3>. QED BY <2>3, <3>4, <3>5, <3>6, <3>7, <3>8 DEF LogHolds
    <2>. QED BY <1>6, <2>4, <2>5 DEF Archive!Apply
  <1>7. CASE Archive!Tick
    <2>1. ledgerNow' = ledgerNow + 1 /\ UNCHANGED <<hot, log, pass, stored, history>>
      BY <1>7 DEF Archive!Tick
    <2>2. ArchiveTypes'
      BY <2>1 DEF ArchiveTypes
    <2>3. LogHolds'
      BY <2>1 DEF LogHolds, Logged, Archive!OfMonth
    <2>4. ASSUME NEW s \in ArchiveServer PROVE Covers(s)'
      BY <2>1 DEF Covers, Archive!OfMonth, Archive!Archived, Archive!EndOf, ArchiveTypes
    <2>. QED BY <2>1, <2>2, <2>3, <2>4
  <1>8. CASE UNCHANGED Archive!vars
    <2>1. UNCHANGED <<ledgerNow, hot, log, pass, stored, history>>
      BY <1>8 DEF Archive!vars
    <2>2. LogHolds'
      BY <2>1 DEF LogHolds, Logged, Archive!OfMonth
    <2>3. ASSUME NEW s \in ArchiveServer PROVE Covers(s)'
      BY <2>1 DEF Covers, Archive!OfMonth, Archive!Archived, Archive!EndOf, ArchiveTypes
    <2>. QED BY <2>1, <2>2, <2>3 DEF ArchiveTypes
  <1>. QED
    BY <1>1, <1>3, <1>4, <1>5, <1>6, <1>7, <1>8 DEF Archive!Next, Archive!Grant, Archive!FundProject

(***************************************************************************)
(* Balances.  A checkpoint is what was posted to its account up to its     *)
(* instant, which has passed, and covers all that was deleted from the     *)
(* account; months are archived from the oldest on.                        *)
(***************************************************************************)
Amounts(S) == [e \in S |-> e.amount]
Owned(a, t) == Archive!Sum({e \in history : e.account = a /\ e.at <= t})
OfTxn(n) == {h \in hot : h.txn = n}

Entries ==
    /\ IsFiniteSet(history) /\ posted \in Nat
    /\ \A e \in history : e.amount \in Int /\ e.txn \in Nat /\ e.txn < posted
    /\ \A e, f \in history : e.txn = f.txn => e.at = f.at
    /\ \A e \in hot : Archive!Sum(OfTxn(e.txn)) = 0

LogOver == \A l \in log : Archive!EndOf(l.month) < ledgerNow /\ \A e \in hot : Archive!EndOf(l.month) <= e.at

\* the month a pass holds is the oldest with rows, unless somebody archived it meanwhile
Oldest(s) ==
    pass[s].step # "idle" =>
        /\ Archive!EndOf(pass[s].month) < ledgerNow
        /\ pass[s].month \notin Archive!Archived =>
              /\ Archive!OfMonth(hot, pass[s].month) # {}
              /\ \A e \in hot : Archive!StartOf(pass[s].month) <= e.at

Checkpointed ==
    /\ \A c \in checkpoints : c.balance = Owned(c.account, c.asof) /\ \E l \in log : c.asof = Archive!EndOf(l.month)
    /\ \A e \in history \ hot : \E c \in checkpoints : c.account = e.account /\ e.at < c.asof

BalanceInv == Entries /\ LogOver /\ (\A s \in ArchiveServer : Oldest(s)) /\ Checkpointed

\* The sums of entries, over one recursive function.
LEMMA ArchiveSumIs ==
    ASSUME NEW E, IsFiniteSet(E)
    PROVE  \E q : Archive!Sum(E) = q[E] /\ SumTable(Amounts(E), E, q)
  <1> DEFINE Step(q) == q = [s \in SUBSET E |-> IF s = {} THEN 0 ELSE (CHOOSE x \in s : TRUE).amount + q[s \ {CHOOSE x \in s : TRUE}]]
  <1>1. Archive!Sum(E) = (CHOOSE q : Step(q))[E]
    BY DEF Archive!Sum, Archive!MapThenSumSet, Archive!MapThenFoldSet
  <1>2. PICK p : SumStep(Amounts(E), E, p)
    BY SumStepExists
  <1>3. \A s \in SUBSET E : s # {} => Amounts(E)[CHOOSE x \in s : TRUE] = (CHOOSE x \in s : TRUE).amount
    BY DEF Amounts
  <1>4. Step(p)
    <2>1. ASSUME NEW s \in SUBSET E
          PROVE  p[s] = IF s = {} THEN 0 ELSE (CHOOSE x \in s : TRUE).amount + p[s \ {CHOOSE x \in s : TRUE}]
      BY <1>2, <1>3 DEF SumStep
    <2>2. p = [s \in SUBSET E |-> p[s]]
      BY <1>2 DEF SumStep
    <2>. QED BY <2>1, <2>2
  <1>5. PICK q : q = CHOOSE x : Step(x)
    OBVIOUS
  <1>6. Step(q)
    <2> HIDE DEF Step
    <2>. QED BY <1>4, <1>5
  <1>7. SumTable(Amounts(E), E, q)
    BY <1>3, <1>6 DEF SumTable
  <1>. QED BY <1>1, <1>5, <1>7

LEMMA ArchiveSums ==
    ASSUME NEW S, IsFiniteSet(S), \A e \in S : e.amount \in Int
    PROVE  \E r : SumTable(Amounts(S), S, r) /\ Amounts(S) \in [S -> Int] /\ \A E \in SUBSET S : Archive!Sum(E) = r[E]
  <1>1. PICK r : SumTable(Amounts(S), S, r)
    BY ArchiveSumIs
  <1>2. ASSUME NEW E \in SUBSET S PROVE Archive!Sum(E) = r[E]
    <2>1. IsFiniteSet(E)
      BY FS_Subset
    <2>2. PICK q : Archive!Sum(E) = q[E] /\ SumTable(Amounts(E), E, q)
      BY <2>1, ArchiveSumIs
    <2>3. \A x \in E : Amounts(E)[x] = Amounts(S)[x]
      BY DEF Amounts
    <2>. QED BY <1>1, <2>1, <2>2, <2>3, TableSame
  <1>3. Amounts(S) \in [S -> Int]
    BY DEF Amounts
  <1>. QED BY <1>1, <1>2, <1>3

LEMMA ArchiveUnion ==
    ASSUME NEW S, IsFiniteSet(S), \A e \in S : e.amount \in Int, NEW D \in SUBSET S, NEW E \in SUBSET S, D \cap E = {}
    PROVE  Archive!Sum(D \cup E) = Archive!Sum(D) + Archive!Sum(E)
  <1>1. PICK r : SumTable(Amounts(S), S, r) /\ Amounts(S) \in [S -> Int] /\ \A F \in SUBSET S : Archive!Sum(F) = r[F]
    BY ArchiveSums
  <1>2. r[D \cup E] = r[D] + r[E]
    BY <1>1, TableUnion
  <1>. QED BY <1>1, <1>2

\* Both sides of a transaction cancel out.
LEMMA ArchivePair ==
    ASSUME NEW d, NEW e, d.amount = -1, e.amount = 1
    PROVE  Archive!Sum({d, e}) = 0 /\ IsFiniteSet({d, e})
  <1> DEFINE S == {d, e}
  <1>1. IsFiniteSet(S) /\ d # e /\ \A x \in S : x.amount \in Int
    <2>1. IsFiniteSet({d}) /\ S = {d} \cup {e}
      BY FS_Singleton
    <2>2. IsFiniteSet({d} \cup {e})
      BY <2>1, FS_AddElement
    <2>. QED BY <2>1, <2>2
  <1>2. PICK r : SumTable(Amounts(S), S, r) /\ Amounts(S) \in [S -> Int] /\ \A F \in SUBSET S : Archive!Sum(F) = r[F]
    BY <1>1, ArchiveSums
  <1>3. TableAdds(Amounts(S), S, r)
    BY <1>1, <1>2, TableAny
  <1>4. r[S] = Amounts(S)[d] + r[{e}] /\ r[{e}] = Amounts(S)[e] + r[{}] /\ r[{}] = 0
    <2>1. S \ {d} = {e} /\ {e} \ {e} = {} /\ {e} \in SUBSET S /\ S \in SUBSET S
      BY <1>1
    <2>2. r[S] = Amounts(S)[d] + r[S \ {d}] /\ r[{e}] = Amounts(S)[e] + r[{e} \ {e}]
      BY <1>3, <2>1 DEF TableAdds
    <2>. QED BY <1>2, <2>1, <2>2 DEF SumTable
  <1>5. Amounts(S)[d] = -1 /\ Amounts(S)[e] = 1
    BY DEF Amounts
  <1>. QED BY <1>1, <1>2, <1>4, <1>5

\* What the ledger answers for an instant after the archived months is what was posted.
LEMMA BalanceRight ==
    ASSUME ArchiveInv, BalanceInv, NEW a, NEW t \in Nat, \A l \in log : Archive!EndOf(l.month) <= t
    PROVE  Archive!AccountBalanceAsOf(a, t) = Owned(a, t)
  <1>1. PICK C : C = {c \in checkpoints : c.account = a /\ c.asof <= t}
    OBVIOUS
  <1>2. PICK H : H = {e \in hot : e.account = a /\ e.at <= t}
    OBVIOUS
  <1>3. PICK last : last = CHOOSE c \in C : \A d \in C : d.asof <= c.asof
    OBVIOUS
  <1>4. PICK Y : Y = {e \in H : e.at > last.asof}
    OBVIOUS
  <1>5. Archive!AccountBalanceAsOf(a, t) = IF C = {} THEN Archive!Sum(H) ELSE last.balance + Archive!Sum(Y)
    BY <1>1, <1>2, <1>3, <1>4 DEF Archive!AccountBalanceAsOf
  <1>6. /\ hot \subseteq history /\ \A e \in history : e.at \in Nat
        /\ \A e \in history : e.amount \in Int
        /\ IsFiniteSet(history)
    BY DEF ArchiveInv, ArchiveTypes, BalanceInv, Entries
  <1>7. \A c \in checkpoints : c.asof \in Nat /\ c.asof <= t /\ c.balance = Owned(c.account, c.asof)
    <2>1. \A l \in log : l.month \in Nat /\ Archive!EndOf(l.month) \in Nat
      BY DEF ArchiveInv, LogHolds, Logged, Archive!EndOf
    <2>. QED BY <2>1 DEF BalanceInv, Checkpointed
  <1>8. CASE C = {}
    <2>1. H = {e \in history : e.account = a /\ e.at <= t}
      <3>1. ASSUME NEW e \in history, e.account = a PROVE e \in hot
        <4>1. e \in history \ hot => \E c \in checkpoints : c.account = a
          BY <3>1 DEF BalanceInv, Checkpointed
        <4>. QED BY <1>1, <1>7, <1>8, <4>1
      <3>. QED BY <1>2, <1>6, <3>1
    <2>. QED BY <1>5, <1>8, <2>1 DEF Owned
  <1>9. CASE C # {}
    <2>1. last \in C /\ \A d \in C : d.asof <= last.asof
      <3> DEFINE T == {c.asof : c \in C}
      <3>1. T \in SUBSET (0 .. t) /\ T # {}
        BY <1>1, <1>7, <1>9
      <3>2. PICK m \in T : \A n \in T : n <= m
        <4>. HIDE DEF T
        <4>. QED BY <3>1, NatGreatest
      <3>3. PICK c \in C : c.asof = m
        BY <3>2
      <3>4. \A d \in C : d.asof <= c.asof
        BY <3>2, <3>3
      <3>. QED BY <1>3, <3>4
    <2>2. last.asof \in Nat /\ last.asof <= t /\ last.balance = Owned(a, last.asof)
      BY <1>1, <1>7, <2>1
    <2>3. PICK X : X = {e \in history : e.account = a /\ e.at <= last.asof}
      OBVIOUS
    <2>4. ASSUME NEW e \in history, e.account = a, e.at > last.asof PROVE e \in hot
      <3>1. CASE e \in history \ hot
        <4>1. PICK c \in checkpoints : c.account = a /\ e.at < c.asof
          BY <2>4, <3>1 DEF BalanceInv, Checkpointed
        <4>2. c \in C
          BY <1>1, <1>7, <4>1
        <4>3. c.asof <= last.asof /\ c.asof \in Nat /\ e.at \in Nat
          BY <1>6, <1>7, <2>1, <4>2
        <4>. QED BY <2>2, <2>4, <4>1, <4>3
      <3>. QED BY <3>1
    <2>5. X \in SUBSET history /\ Y \in SUBSET history /\ X \cap Y = {}
      BY <1>2, <1>4, <1>6, <2>2, <2>3
    <2>6. X \cup Y = {e \in history : e.account = a /\ e.at <= t}
      <3>1. \A e \in history : e.account = a /\ e.at <= t => e \in X \/ e \in Y
        BY <1>2, <1>4, <1>6, <2>2, <2>3, <2>4
      <3>2. \A e \in X \cup Y : e \in history /\ e.account = a /\ e.at <= t
        BY <1>2, <1>4, <1>6, <2>2, <2>3
      <3>. QED BY <3>1, <3>2
    <2>7. Archive!Sum(X \cup Y) = Archive!Sum(X) + Archive!Sum(Y)
      BY <1>6, <2>5, ArchiveUnion
    <2>. QED BY <1>5, <1>9, <2>2, <2>3, <2>6, <2>7 DEF Owned
  <1>. QED BY <1>8, <1>9

\* Nothing that is hot is older than the oldest month to archive.
LEMMA OldestReady ==
    ASSUME Archive!LedgerAssumption, ArchiveInv, BalanceInv, Archive!Ready # {}, NEW m, m = Archive!Min(Archive!Ready),
           Archive!EndOf(m) <= Archive!Horizon
    PROVE  Archive!OfMonth(hot, m) # {} /\ \A e \in hot : Archive!StartOf(m) <= e.at
  <1>1. m \in Archive!Ready /\ m \in Nat /\ \A n \in Archive!Ready : n \in Nat /\ m <= n
    BY ReadyFirst
  <1>2. \A e \in hot : e.at \in Nat
    BY DEF ArchiveInv, ArchiveTypes
  <1>3. \A t \in Nat : /\ Archive!MonthOf(t) \in Nat
                       /\ Archive!StartOf(Archive!MonthOf(t)) <= t /\ t < Archive!EndOf(Archive!MonthOf(t))
    BY DEF Archive!MonthOf, Archive!StartOf, Archive!EndOf
  <1>4. Archive!OfMonth(hot, m) # {}
    BY <1>1, <1>2, <1>3 DEF Archive!Ready, Archive!OfMonth
  <1>5. ASSUME NEW e \in hot, ~ Archive!StartOf(m) <= e.at PROVE FALSE
    <2>1. PICK k : k = Archive!MonthOf(e.at)
      OBVIOUS
    <2>2. e.at \in Nat /\ k \in Nat /\ 2 * k <= e.at /\ e.at < 2 * (k + 1) /\ e.at < 2 * m
      <3>1. e.at \in Nat
        BY <1>2
      <3>2. k \in Nat /\ Archive!StartOf(k) <= e.at /\ e.at < Archive!EndOf(k)
        BY <1>3, <2>1, <3>1
      <3>3. m \in Nat /\ ~ 2 * m <= e.at
        BY <1>1, <1>5 DEF Archive!StartOf
      <3>. QED BY <3>1, <3>2, <3>3 DEF Archive!StartOf, Archive!EndOf
    <2>3. k < m
      BY <1>1, <2>2
    <2>4. Archive!Horizon \in Int /\ 2 * (m + 1) <= Archive!Horizon
      BY DEF Archive!Horizon, Archive!StartOf, Archive!MonthOf, Archive!EndOf, Archive!LedgerAssumption, ArchiveInv, ArchiveTypes
    <2>5. e.at < Archive!Horizon
      BY <1>1, <2>2, <2>4
    <2>6. k \notin Archive!Archived
      <3>. SUFFICES ASSUME NEW l \in log, l.month = k PROVE FALSE
        BY DEF Archive!Archived
      <3>1. Archive!EndOf(k) <= e.at
        BY DEF BalanceInv, LogOver
      <3>. QED BY <2>2, <3>1 DEF Archive!EndOf
    <2>7. k \in Archive!Ready
      BY <2>1, <2>5, <2>6 DEF Archive!Ready
    <2>. QED BY <1>1, <2>2, <2>3, <2>7
  <1>. QED BY <1>4, <1>5

\* A transaction is posted now, after all checkpoints.
LEMMA BalancePost ==
    ASSUME Archive!LedgerAssumption, ArchiveInv, BalanceInv, NEW from, NEW to, NEW x, Archive!PostTxn(from, to, x)
    PROVE  BalanceInv'
  <1>1. PICK d : d = [txn |-> posted, account |-> from, source |-> x, amount |-> -1, at |-> ledgerNow]
    OBVIOUS
  <1>2. PICK e : e = [txn |-> posted, account |-> to, source |-> x, amount |-> 1, at |-> ledgerNow]
    OBVIOUS
  <1>3. /\ d.txn = posted /\ d.amount = -1 /\ d.at = ledgerNow /\ e.txn = posted /\ e.amount = 1 /\ e.at = ledgerNow
    BY <1>1, <1>2
  <1>4. /\ hot' = hot \cup {d, e} /\ history' = history \cup {d, e} /\ posted' = posted + 1
        /\ UNCHANGED <<ledgerNow, checkpoints, log, pass, stored>>
    BY <1>1, <1>2 DEF Archive!PostTxn
  <1>5. hot \subseteq history /\ ledgerNow \in Nat /\ posted \in Nat /\ \A f \in history : f.txn \in Nat /\ f.txn < posted
    BY DEF ArchiveInv, ArchiveTypes, BalanceInv, Entries
  <1>6. Archive!Sum({d, e}) = 0 /\ IsFiniteSet({d, e})
    BY <1>3, ArchivePair
  <1>7. IsFiniteSet(history')
    BY <1>4, <1>6, FS_Union DEF BalanceInv, Entries
  <1>8. ASSUME NEW f \in hot' PROVE Archive!Sum(OfTxn(f.txn))' = 0
    <2>1. CASE f \in hot
      <3>1. OfTxn(f.txn)' = OfTxn(f.txn)
        BY <1>3, <1>4, <1>5, <2>1 DEF OfTxn
      <3>. QED BY <2>1, <3>1 DEF BalanceInv, Entries
    <2>2. CASE f \in {d, e}
      <3>1. OfTxn(f.txn)' = {d, e}
        BY <1>3, <1>4, <1>5, <2>2 DEF OfTxn
      <3>. QED BY <1>6, <3>1
    <2>. QED BY <1>4, <2>1, <2>2
  <1>9. Entries'
    <2>1. \A f \in history' : f.amount \in Int /\ f.txn \in Nat /\ f.txn < posted'
      BY <1>3, <1>4, <1>5 DEF BalanceInv, Entries
    <2>2. \A f, g \in history' : f.txn = g.txn => f.at = g.at
      BY <1>3, <1>4, <1>5 DEF BalanceInv, Entries
    <2>. QED BY <1>4, <1>5, <1>7, <1>8, <2>1, <2>2 DEF Entries
  <1>10. LogOver'
    <2>1. \A l \in log : Archive!EndOf(l.month) \in Nat
      BY DEF ArchiveInv, LogHolds, Logged, Archive!EndOf
    <2>. QED BY <1>3, <1>4, <1>5, <2>1 DEF BalanceInv, LogOver, Archive!EndOf
  <1>11. ASSUME NEW s \in ArchiveServer PROVE Oldest(s)'
    <2>. SUFFICES ASSUME pass[s].step # "idle" PROVE Oldest(s)'
      BY <1>4 DEF Oldest
    <2>1. PICK m : m = pass[s].month
      OBVIOUS
    <2>2. m \in Nat /\ 2 * (m + 1) < ledgerNow
      BY <2>1 DEF BalanceInv, Oldest, ArchiveInv, Covers, Archive!EndOf
    <2>3. 2 * m <= ledgerNow
      BY <1>5, <2>2
    <2>4. Archive!OfMonth(hot, m) \subseteq Archive!OfMonth(hot', m)
      BY <1>4 DEF Archive!OfMonth
    <2>5. ASSUME m \notin Archive!Archived
          PROVE  Archive!OfMonth(hot', m) # {} /\ \A f \in hot' : Archive!StartOf(m) <= f.at
      BY <1>3, <1>4, <2>1, <2>3, <2>4, <2>5 DEF BalanceInv, Oldest, Archive!StartOf
    <2>. QED BY <1>4, <2>1, <2>2, <2>5 DEF Oldest, Archive!EndOf, Archive!Archived
  <1>12. Checkpointed'
    <2>1. ASSUME NEW c \in checkpoints PROVE Owned(c.account, c.asof)' = Owned(c.account, c.asof)
      <3>1. PICK l \in log : c.asof = Archive!EndOf(l.month)
        BY DEF BalanceInv, Checkpointed
      <3>2. c.asof \in Nat /\ c.asof < ledgerNow
        BY <3>1 DEF BalanceInv, LogOver, ArchiveInv, LogHolds, Logged, Archive!EndOf
      <3>3. ~ d.at <= c.asof /\ ~ e.at <= c.asof
        BY <1>3, <1>5, <3>2
      <3>4. {f \in history' : f.account = c.account /\ f.at <= c.asof} = {f \in history : f.account = c.account /\ f.at <= c.asof}
        BY <1>4, <3>3
      <3>. QED BY <3>4 DEF Owned
    <2>2. \A f \in history' \ hot' : f \in history \ hot
      BY <1>4
    <2>. QED BY <1>4, <2>1, <2>2 DEF BalanceInv, Checkpointed, Archive!EndOf
  <1>. QED BY <1>9, <1>10, <1>11, <1>12 DEF BalanceInv

\* The checkpoints once month m is archived.
CheckpointsAt(touched, m) ==
    {c \in checkpoints : ~ (c.account \in touched /\ c.asof = Archive!EndOf(m))}
       \cup {[account |-> a, asof |-> Archive!EndOf(m), balance |-> Archive!AccountBalanceAsOf(a, Archive!EndOf(m))] : a \in touched}

\* Archiving the oldest month checkpoints the accounts it touched with what they own.
LEMMA BalanceApply ==
    ASSUME Archive!LedgerAssumption, ArchiveInv, BalanceInv, NEW s \in ArchiveServer, NEW m, m = pass[s].month, m \notin Archive!Archived,
           pass[s].step = "stored", NEW gone, gone = Archive!OfMonth(hot, m), NEW touched, touched = {e.account : e \in gone},
           NEW entry, entry.month = m, UNCHANGED <<ledgerNow, posted, history>>, hot' = hot \ gone, log' = log \cup {entry},
           checkpoints' = CheckpointsAt(touched, m),
           pass'[s].step = "idle", \A t \in ArchiveServer \ {s} : pass'[t] = pass[t]
    PROVE  BalanceInv'
  <1>1. /\ m \in Nat /\ Archive!EndOf(m) < ledgerNow /\ gone # {} /\ (\A e \in hot : Archive!StartOf(m) <= e.at)
        /\ ledgerNow \in Nat /\ Archive!EndOf(m) \in Nat
    BY DEF BalanceInv, Oldest, ArchiveInv, ArchiveTypes, Covers, Archive!EndOf
  <1>2. \A e \in gone : e \in hot /\ e.at \in Nat /\ 2 * m <= e.at /\ e.at < 2 * (m + 1)
    BY DEF ArchiveInv, ArchiveTypes, Archive!OfMonth, Archive!StartOf, Archive!EndOf
  <1>3. PICK g : g \in gone
    BY <1>1
  <1>4. ASSUME NEW l \in log PROVE l.month \in Nat /\ l.month < m /\ Archive!EndOf(l.month) <= Archive!EndOf(m)
    <2>1. l.month \in Nat /\ 2 * (l.month + 1) <= g.at
      BY <1>2, <1>3 DEF ArchiveInv, LogHolds, Logged, BalanceInv, LogOver, Archive!EndOf
    <2>2. g.at \in Nat /\ g.at < 2 * (m + 1)
      BY <1>2, <1>3
    <2>3. l.month < m
      BY <1>1, <2>1, <2>2
    <2>. QED BY <1>1, <2>1, <2>3 DEF Archive!EndOf
  <1>5. ASSUME NEW a PROVE Archive!AccountBalanceAsOf(a, Archive!EndOf(m)) = Owned(a, Archive!EndOf(m))
    BY <1>1, <1>4, BalanceRight
  <1>6. ASSUME NEW a, NEW t PROVE Owned(a, t)' = Owned(a, t)
    BY DEF Owned
  <1>7. Entries'
    <2>1. ASSUME NEW e \in hot' PROVE Archive!Sum(OfTxn(e.txn))' = 0
      <3>1. e \in hot /\ e \notin gone
        BY <2>1
      <3>2. \A h \in hot : h.txn = e.txn => h.at = e.at
        BY <3>1 DEF BalanceInv, Entries, ArchiveInv, ArchiveTypes
      <3>3. \A h \in hot : h.txn = e.txn => h \notin gone
        BY <3>1, <3>2 DEF Archive!OfMonth
      <3>4. OfTxn(e.txn)' = OfTxn(e.txn)
        BY <3>3 DEF OfTxn
      <3>. QED BY <3>1, <3>4 DEF BalanceInv, Entries
    <2>. QED BY <2>1 DEF BalanceInv, Entries
  <1>8. \A e \in hot' : Archive!EndOf(m) <= e.at
    <2>. SUFFICES ASSUME NEW e \in hot' PROVE Archive!EndOf(m) <= e.at
      OBVIOUS
    <2>1. e \in hot /\ e.at \in Nat /\ Archive!StartOf(m) <= e.at /\ e \notin gone
      BY <1>1 DEF ArchiveInv, ArchiveTypes
    <2>. QED BY <1>1, <2>1 DEF Archive!OfMonth
  <1>9. LogOver'
    BY <1>1, <1>8 DEF BalanceInv, LogOver, Archive!EndOf
  <1>10. Oldest(s)'
    BY DEF Oldest
  <1>11. ASSUME NEW t \in ArchiveServer \ {s} PROVE Oldest(t)'
    <2>. SUFFICES ASSUME pass[t].step # "idle" PROVE Oldest(t)'
      BY DEF Oldest
    <2>1. PICK k : k = pass[t].month
      OBVIOUS
    <2>2. Archive!EndOf(k) < ledgerNow /\ k \in Nat
      BY <2>1 DEF BalanceInv, Oldest, ArchiveInv, Covers
    <2>3. k \in Archive!Archived'
      <3>1. CASE k \in Archive!Archived
        BY <3>1 DEF Archive!Archived
      <3>2. CASE k \notin Archive!Archived
        <4>1. Archive!OfMonth(hot, k) # {} /\ \A e \in hot : Archive!StartOf(k) <= e.at
          BY <2>1, <3>2 DEF BalanceInv, Oldest
        <4>2. PICK f \in hot : f.at \in Nat /\ 2 * m <= f.at /\ f.at < 2 * (k + 1)
          BY <1>1, <4>1 DEF Archive!OfMonth, Archive!EndOf, Archive!StartOf, ArchiveInv, ArchiveTypes
        <4>3. 2 * k <= g.at /\ g.at \in Nat /\ g.at < 2 * (m + 1)
          BY <1>2, <1>3, <4>1 DEF Archive!StartOf
        <4>4. k = m
          <5>1. k \in Nat /\ m \in Nat
            BY <1>1, <2>2
          <5>2. m <= k
            BY <4>2, <5>1
          <5>3. k <= m
            BY <4>3, <5>1
          <5>. QED BY <5>1, <5>2, <5>3
        <4>. QED BY <4>4 DEF Archive!Archived
      <3>. QED BY <3>1, <3>2
    <2>. QED BY <2>1, <2>2, <2>3 DEF Oldest, Archive!EndOf
  <1>12. ASSUME NEW c \in checkpoints'
         PROVE  c.balance = Owned(c.account, c.asof) /\ \E l \in log' : c.asof = Archive!EndOf(l.month)
    <2>1. CASE c \in checkpoints
      BY <2>1 DEF BalanceInv, Checkpointed
    <2>2. CASE c \notin checkpoints
      <3>1. PICK a \in touched : c = [account |-> a, asof |-> Archive!EndOf(m), balance |-> Archive!AccountBalanceAsOf(a, Archive!EndOf(m))]
        BY <2>2 DEF CheckpointsAt
      <3>2. c.account = a /\ c.asof = Archive!EndOf(m) /\ c.balance = Archive!AccountBalanceAsOf(a, Archive!EndOf(m))
        BY <3>1
      <3>. QED BY <1>5, <3>2
    <2>. QED BY <2>1, <2>2
  <1>13. ASSUME NEW a \in touched PROVE \E c \in checkpoints' : c.account = a /\ c.asof = Archive!EndOf(m)
    <2>1. PICK c : c = [account |-> a, asof |-> Archive!EndOf(m), balance |-> Archive!AccountBalanceAsOf(a, Archive!EndOf(m))]
      OBVIOUS
    <2>2. c \in checkpoints'
      BY <2>1 DEF CheckpointsAt
    <2>3. c.account = a /\ c.asof = Archive!EndOf(m)
      BY <2>1
    <2>. QED BY <2>2, <2>3
  <1>14. ASSUME NEW e \in history' \ hot' PROVE \E c \in checkpoints' : c.account = e.account /\ e.at < c.asof
    <2>1. CASE e \in gone
      <3>1. e.account \in touched /\ e.at < Archive!EndOf(m)
        BY <2>1 DEF Archive!OfMonth
      <3>2. PICK a \in touched : a = e.account
        BY <3>1
      <3>3. PICK c \in checkpoints' : c.account = a /\ c.asof = Archive!EndOf(m)
        BY <1>13
      <3>. QED BY <3>1, <3>2, <3>3
    <2>2. CASE e \in history \ hot
      <3>1. PICK c \in checkpoints : c.account = e.account /\ e.at < c.asof
        BY <2>2 DEF BalanceInv, Checkpointed
      <3>2. CASE c.account \in touched /\ c.asof = Archive!EndOf(m)
        <4>1. PICK a \in touched : a = c.account
          BY <3>2
        <4>2. PICK d \in checkpoints' : d.account = a /\ d.asof = Archive!EndOf(m)
          BY <1>13
        <4>. QED BY <3>1, <3>2, <4>1, <4>2
      <3>3. CASE ~ (c.account \in touched /\ c.asof = Archive!EndOf(m))
        BY <3>1, <3>3 DEF CheckpointsAt
      <3>. QED BY <3>2, <3>3
    <2>. QED BY <2>1, <2>2
  <1>15. Checkpointed'
    BY <1>6, <1>12, <1>14 DEF Checkpointed, Archive!EndOf
  <1>. QED BY <1>7, <1>9, <1>10, <1>11, <1>15 DEF BalanceInv

\* A pass that does not archive moves no entry.
LEMMA BalanceStill ==
    ASSUME ArchiveInv, BalanceInv, ledgerNow' \in Nat, ledgerNow <= ledgerNow', UNCHANGED <<hot, checkpoints, log, posted, history>>,
           \A s \in ArchiveServer : Oldest(s)'
    PROVE  BalanceInv'
  <1>1. \A l \in log : Archive!EndOf(l.month) \in Nat
    BY DEF ArchiveInv, LogHolds, Logged, Archive!EndOf
  <1>2. LogOver'
    BY <1>1 DEF BalanceInv, LogOver, Archive!EndOf, ArchiveInv, ArchiveTypes
  <1>3. \A a, t : Owned(a, t)' = Owned(a, t)
    BY DEF Owned
  <1>4. Checkpointed'
    BY <1>3 DEF BalanceInv, Checkpointed, Archive!EndOf
  <1>5. \A n : OfTxn(n)' = OfTxn(n)
    BY DEF OfTxn
  <1>6. Entries'
    BY <1>5 DEF BalanceInv, Entries
  <1>. QED BY <1>2, <1>4, <1>6 DEF BalanceInv

LEMMA BalanceStep ==
    ASSUME Archive!LedgerAssumption, ArchiveInv, BalanceInv, [Archive!Next]_(Archive!vars)
    PROVE  BalanceInv'
  <1>1. ledgerNow \in Nat /\ DOMAIN pass = ArchiveServer
    BY DEF ArchiveInv, ArchiveTypes
  <1>2. ASSUME NEW from, NEW to, NEW x, Archive!PostTxn(from, to, x) PROVE BalanceInv'
    BY <1>2, BalancePost
  \* a pass that only changes what it holds
  <1>3. ASSUME NEW s \in ArchiveServer, UNCHANGED <<ledgerNow, hot, checkpoints, log, posted, history>>,
               \A t \in ArchiveServer \ {s} : pass'[t] = pass[t], Oldest(s)'
        PROVE  BalanceInv'
    <2>1. ASSUME NEW t \in ArchiveServer \ {s} PROVE Oldest(t)'
      BY <1>3 DEF BalanceInv, Oldest, Archive!OfMonth, Archive!Archived, Archive!EndOf, Archive!StartOf
    <2>2. \A t \in ArchiveServer : Oldest(t)'
      BY <1>3, <2>1
    <2>. QED BY <1>1, <1>3, <2>2, BalanceStill
  <1>4. ASSUME NEW s \in ArchiveServer, Archive!Export(s) PROVE BalanceInv'
    <2> DEFINE m == Archive!Min(Archive!Ready)
               grip == [step |-> "exported", month |-> m, rows |-> Archive!OfMonth(hot, m)]
    <2>1. /\ pass' = [pass EXCEPT ![s] = grip] /\ UNCHANGED <<ledgerNow, hot, checkpoints, log, posted, history>>
          /\ Archive!Ready # {} /\ Archive!EndOf(m) <= Archive!Horizon
      BY <1>4 DEF Archive!Export
    <2>2. m \in Nat /\ Archive!EndOf(m) < ledgerNow
      BY <2>1, OldIsOver
    <2>3. Archive!OfMonth(hot, m) # {} /\ \A e \in hot : Archive!StartOf(m) <= e.at
      BY <2>1, OldestReady
    <2>4. grip.month = m
      OBVIOUS
    <2> HIDE DEF m, grip
    <2>5. pass'[s] = grip /\ \A t \in ArchiveServer \ {s} : pass'[t] = pass[t]
      BY <1>1, <2>1
    <2>6. Oldest(s)'
      BY <2>1, <2>2, <2>3, <2>4, <2>5 DEF Oldest, Archive!OfMonth, Archive!EndOf, Archive!StartOf
    <2>. QED BY <1>3, <2>1, <2>5, <2>6
  <1>5. ASSUME NEW s \in ArchiveServer, Archive!StorePut(s) PROVE BalanceInv'
    <2> DEFINE grip == [pass[s] EXCEPT !.step = "stored"]
    <2>1. /\ pass[s].step = "exported" /\ pass' = [pass EXCEPT ![s] = grip]
          /\ UNCHANGED <<ledgerNow, hot, checkpoints, log, posted, history>>
      BY <1>5 DEF Archive!StorePut
    <2>2. grip.month = pass[s].month
      OBVIOUS
    <2> HIDE DEF grip
    <2>3. pass'[s] = grip /\ \A t \in ArchiveServer \ {s} : pass'[t] = pass[t]
      BY <1>1, <2>1
    <2>4. pass[s].step # "idle" /\ pass'[s].month = pass[s].month
      BY <2>1, <2>2, <2>3
    <2>5. Oldest(s)'
      BY <2>1, <2>4 DEF BalanceInv, Oldest, Archive!OfMonth, Archive!Archived, Archive!EndOf, Archive!StartOf
    <2>. QED BY <1>3, <2>1, <2>3, <2>5
  <1>6. ASSUME NEW s \in ArchiveServer, pass' = [pass EXCEPT ![s] = Archive!Idle] PROVE pass'[s].step = "idle" /\ \A t \in ArchiveServer \ {s} : pass'[t] = pass[t]
    BY <1>1, <1>6 DEF Archive!Idle
  <1>7. ASSUME NEW s \in ArchiveServer, Archive!Abandon(s) PROVE BalanceInv'
    <2>1. pass' = [pass EXCEPT ![s] = Archive!Idle] /\ UNCHANGED <<ledgerNow, hot, checkpoints, log, posted, history>>
      BY <1>7 DEF Archive!Abandon
    <2>2. Oldest(s)'
      BY <1>6, <2>1 DEF Oldest
    <2>. QED BY <1>3, <1>6, <2>1, <2>2
  <1>8. ASSUME NEW s \in ArchiveServer, Archive!Apply(s) PROVE BalanceInv'
    <2>1. PICK m : m = pass[s].month
      OBVIOUS
    <2>2. PICK gone : gone = Archive!OfMonth(hot, m)
      OBVIOUS
    <2>3. PICK touched : touched = {e.account : e \in gone}
      OBVIOUS
    <2>4. PICK entry : entry = [month |-> m, rows |-> pass[s].rows, by |-> s]
      OBVIOUS
    <2>5. pass[s].step = "stored" /\ pass' = [pass EXCEPT ![s] = Archive!Idle] /\ UNCHANGED <<ledgerNow, posted, stored, history>>
      BY <1>8 DEF Archive!Apply
    <2>6. pass'[s].step = "idle" /\ \A t \in ArchiveServer \ {s} : pass'[t] = pass[t]
      BY <1>6, <2>5
    <2>7. CASE UNCHANGED <<hot, checkpoints, log>>
      <3>1. Oldest(s)'
        BY <2>6 DEF Oldest
      <3>. QED BY <1>3, <2>5, <2>6, <2>7, <3>1
    <2>8. CASE /\ m \notin Archive!Archived /\ hot' = hot \ gone /\ log' = log \cup {entry}
               /\ checkpoints' = CheckpointsAt(touched, m)
      <3>1. entry.month = m
        BY <2>4
      <3>. QED BY <2>1, <2>2, <2>3, <2>5, <2>6, <2>8, <3>1, BalanceApply
    <2>. QED BY <1>8, <2>1, <2>2, <2>3, <2>4, <2>7, <2>8 DEF Archive!Apply, CheckpointsAt
  <1>9. CASE Archive!Tick
    <2>1. ledgerNow' = ledgerNow + 1 /\ UNCHANGED <<hot, checkpoints, log, posted, pass, stored, history>>
      BY <1>9 DEF Archive!Tick
    <2>2. ASSUME NEW s \in ArchiveServer PROVE Oldest(s)'
      <3>. SUFFICES ASSUME pass[s].step # "idle" PROVE Oldest(s)'
        BY <2>1 DEF Oldest
      <3>1. Archive!EndOf(pass[s].month) < ledgerNow /\ Archive!EndOf(pass[s].month) \in Nat
        BY DEF BalanceInv, Oldest, ArchiveInv, Covers, Archive!EndOf
      <3>2. Archive!EndOf(pass[s].month) < ledgerNow'
        BY <1>1, <2>1, <3>1
      <3>. QED BY <2>1, <3>2 DEF BalanceInv, Oldest, Archive!OfMonth, Archive!Archived, Archive!EndOf, Archive!StartOf
    <2>. QED BY <1>1, <2>1, <2>2, BalanceStill
  <1>10. CASE UNCHANGED Archive!vars
    <2>1. UNCHANGED <<ledgerNow, hot, checkpoints, log, posted, pass, stored, history>>
      BY <1>10 DEF Archive!vars
    <2>2. ASSUME NEW s \in ArchiveServer PROVE Oldest(s)'
      BY <2>1 DEF BalanceInv, Oldest, Archive!OfMonth, Archive!Archived, Archive!EndOf, Archive!StartOf
    <2>. QED BY <1>1, <2>1, <2>2, BalanceStill
  <1>. QED BY <1>2, <1>4, <1>5, <1>7, <1>8, <1>9, <1>10 DEF Archive!Next, Archive!Grant, Archive!FundProject

\* Archiving moves no honey: the balance of an account, at every instant after the archived months,
\* is what was posted to it; what was deleted from the ledger is in exactly one archived month, and
\* that artifact lies in the store of a server; no transaction is cut in two by a month's end.  All
\* that however the passes of the servers overlap, crash or lose answers.
THEOREM ArchiveHolds ==
    ASSUME Archive!LedgerAssumption
    PROVE  Archive!Spec => []Archive!ArchiveSafe
  <1>1. Archive!Init => ArchiveInv /\ BalanceInv
    <2>. SUFFICES ASSUME Archive!Init PROVE ArchiveInv /\ BalanceInv
      OBVIOUS
    <2>1. ArchiveInv
      BY DEF Archive!Init, ArchiveInv, ArchiveTypes, LogHolds, Covers, Archive!Idle
    <2>2. IsFiniteSet(history)
      BY FS_EmptySet DEF Archive!Init
    <2>3. BalanceInv
      BY <2>2 DEF Archive!Init, BalanceInv, Entries, LogOver, Oldest, Checkpointed, Archive!Idle
    <2>. QED BY <2>1, <2>3
  <1>2. ArchiveInv /\ BalanceInv /\ [Archive!Next]_(Archive!vars) => ArchiveInv' /\ BalanceInv'
    BY ArchiveStep, BalanceStep
  <1>3. ArchiveInv => Archive!DeletedIsArchived
    <2>. SUFFICES ASSUME ArchiveInv, NEW e \in history \ hot
                  PROVE  /\ \E l \in log : e \in l.rows /\ \E s \in ArchiveServer : l.rows \in stored[s]
                         /\ \A k, l \in log : e \in k.rows \cap l.rows => k = l
      BY DEF Archive!DeletedIsArchived
    <2>1. \E l \in log : e \in l.rows /\ \E s \in ArchiveServer : l.rows \in stored[s]
      BY DEF ArchiveInv, LogHolds, Logged
    <2>2. ASSUME NEW k \in log, NEW l \in log, e \in k.rows \cap l.rows PROVE k = l
      <3>1. e.at \in Nat /\ k.month \in Nat /\ l.month \in Nat
            /\ e \in Archive!OfMonth(history, k.month) /\ e \in Archive!OfMonth(history, l.month)
        BY <2>2 DEF ArchiveInv, ArchiveTypes, LogHolds, Logged
      <3>2. k.month = l.month
        BY <3>1, OneMonth DEF Archive!OfMonth
      <3>. QED BY <3>2 DEF ArchiveInv, LogHolds
    <2>. QED BY <2>1, <2>2
  <1>4. ArchiveInv /\ BalanceInv => Archive!BalancesSurvive
    <2>. SUFFICES ASSUME ArchiveInv, BalanceInv, NEW a \in Archive!Account, NEW t \in 0 .. ledgerNow,
                         \A l \in log : Archive!EndOf(l.month) <= t
                  PROVE  Archive!AccountBalanceAsOf(a, t) = Archive!Sum({e \in history : e.account = a /\ e.at <= t})
      BY DEF Archive!BalancesSurvive
    <2>1. t \in Nat
      BY DEF ArchiveInv, ArchiveTypes
    <2>. QED BY <2>1, BalanceRight DEF Owned
  <1>5. BalanceInv => Archive!WholeTxns
    BY DEF BalanceInv, Entries, OfTxn, Archive!WholeTxns
  <1>6. ArchiveInv /\ BalanceInv => Archive!ArchiveSafe
    BY <1>3, <1>4, <1>5 DEF Archive!ArchiveSafe
  <1>. QED BY <1>1, <1>2, <1>6, PTL DEF Archive!Spec

\* Beside everything else, the archive of the ledger changes no balance, loses no entry and
\* cuts no transaction in two, whichever servers make it and wherever they crash.
THEOREM FleetArchives == Spec => []ArchiveSafe
  <1>1. Init => Archive!Init
    BY DEF Init
  <1>2. [Next]_vars => [Archive!Next]_(Archive!vars)
    <2>1. UNCHANGED ledgerVars => UNCHANGED Archive!vars
      BY DEF ledgerVars, Archive!vars
    <2>2. Next => Archive!Next \/ UNCHANGED ledgerVars
      BY DEF Next
    <2>3. UNCHANGED vars => UNCHANGED ledgerVars
      BY DEF vars
    <2>. QED BY <2>1, <2>2, <2>3
  <1>. QED BY <1>1, <1>2, ArchiveAssumed, ArchiveHolds, PTL DEF Spec, Archive!Spec, ArchiveSafe

(***************************************************************************)
(* The control pilot.  One token is live, the newest; what a call that     *)
(* carries it was sent about is what the node holds, or the node has let   *)
(* go of it: a lease that the node was given since came with a newer one.  *)
(***************************************************************************)
ControlStages == {"sent", "working", "did", "ok", "refused", "unauthorized", "over"}
ControlCalls ==
    [m : Control!Method, cards : SUBSET ControlCard, token : Nat, at : ControlStages, held : Nat, n : {0, 1}]
OnLease == {"checkpoint", "settle"}

ControlTypes ==
    /\ controlCalls \in Seq(ControlCalls) /\ cur \in 0 .. Len(controlCalls)
    /\ held \in [ControlCard -> Nat] /\ epoch \in [ControlCard -> Nat] /\ DOMAIN controlHolder = ControlCard
    /\ granted \in Seq(SUBSET ControlCard) /\ live = {Len(granted)}
    /\ bearer \in 0 .. Len(granted) /\ acked \in 0 .. Len(granted)
    /\ \A c \in ControlCard : controlHolder[c] = "me" => epoch[c] > 0

\* a call has counted what it did
Counted(r) ==
    /\ r.at \in {"sent", "working", "unauthorized", "over"} => r.n = 0
    /\ r.at \in {"did", "ok"} /\ r.m \in OnLease => r.n = 1

\* the call that is waited for has the bearer of the node, or the next one if it was answered
Carries(i) ==
    /\ controlCalls[i].token <= Len(granted)
    /\ i # cur => controlCalls[i].token <= bearer
    /\ i = cur /\ controlCalls[i].at # "ok" => controlCalls[i].token = bearer
    /\ i = cur /\ controlCalls[i].at = "ok" =>
          controlCalls[i].token >= bearer /\ (controlCalls[i].m \in Control!ChangesLeases => controlCalls[i].token > bearer)

About(i) ==
    controlCalls[i].m \in OnLease => \A c \in controlCalls[i].cards :
       /\ i = cur => held[c] = controlCalls[i].held
       /\ i # cur /\ controlCalls[i].token = Len(granted) => held[c] \in {0, controlCalls[i].held}

ControlInv ==
    ControlTypes /\ \A i \in 1 .. Len(controlCalls) : Counted(controlCalls[i]) /\ Carries(i) /\ About(i)

\* no call counts more than it did
NothingNew == \A i \in 1 .. Len(controlCalls) : ~ (controlCalls'[i].n > controlCalls[i].n)

LEMMA OverIsCall == Control!Over \in ControlCalls /\ Counted(Control!Over) /\ Control!Over.n = 0 /\ Control!Over.token = 0
                    /\ Control!Over.cards = {} /\ Control!Over.at = "over"
  BY DEF Control!Over, ControlCalls, Counted, Control!Method, ControlStages

LEMMA CallFields ==
    ASSUME NEW r \in ControlCalls
    PROVE  /\ r.m \in Control!Method /\ r.cards \subseteq ControlCard /\ r.token \in Nat /\ r.at \in ControlStages
           /\ r.held \in Nat /\ r.n \in {0, 1}
  BY DEF ControlCalls

LEMMA EachIsCall ==
    ASSUME ControlInv, NEW i \in 1 .. Len(controlCalls)
    PROVE  /\ controlCalls[i] \in ControlCalls /\ Counted(controlCalls[i]) /\ Carries(i) /\ About(i)
           /\ controlCalls[i].m \in Control!Method /\ controlCalls[i].cards \subseteq ControlCard /\ controlCalls[i].token \in Nat
           /\ controlCalls[i].at \in ControlStages /\ controlCalls[i].held \in Nat /\ controlCalls[i].n \in {0, 1}
  <1>1. controlCalls[i] \in ControlCalls
    BY DEF ControlInv, ControlTypes
  <1>. QED BY <1>1, CallFields DEF ControlInv

\* what the updates of a call leave alone
SameCall(q, r) == q \in ControlCalls /\ q.m = r.m /\ q.held = r.held

Answered(r, a, t) == [r EXCEPT !.at = a, !.token = t]
Moved(r, a) == [r EXCEPT !.at = a]
Did(r) == [r EXCEPT !.at = "did", !.n = 1]
DidOn(r, cs) == [r EXCEPT !.cards = cs, !.at = "did", !.n = 1]

LEMMA Answering ==
    ASSUME NEW r \in ControlCalls, NEW a \in ControlStages, NEW t \in Nat
    PROVE  /\ SameCall(Answered(r, a, t), r) /\ Answered(r, a, t).at = a /\ Answered(r, a, t).token = t
           /\ Answered(r, a, t).cards = r.cards /\ Answered(r, a, t).n = r.n
  BY DEF ControlCalls, SameCall, Answered

LEMMA Moving ==
    ASSUME NEW r \in ControlCalls, NEW a \in ControlStages
    PROVE  /\ SameCall(Moved(r, a), r) /\ Moved(r, a).at = a /\ Moved(r, a).token = r.token
           /\ Moved(r, a).cards = r.cards /\ Moved(r, a).n = r.n
  BY DEF ControlCalls, SameCall, Moved

LEMMA Counting ==
    ASSUME NEW r \in ControlCalls
    PROVE  /\ SameCall(Did(r), r) /\ Did(r).at = "did" /\ Did(r).token = r.token
           /\ Did(r).cards = r.cards /\ Did(r).n = 1
  BY DEF ControlCalls, SameCall, Did, ControlStages

LEMMA Claiming ==
    ASSUME NEW r \in ControlCalls, NEW cs \in SUBSET ControlCard
    PROVE  /\ SameCall(DidOn(r, cs), r) /\ DidOn(r, cs).at = "did" /\ DidOn(r, cs).token = r.token
           /\ DidOn(r, cs).n = 1
  BY DEF ControlCalls, SameCall, DidOn, ControlStages

LEMMA NothingNewFrom ==
    ASSUME ControlInv, \A i \in 1 .. Len(controlCalls) : controlCalls'[i].n \in {0, controlCalls[i].n}
    PROVE  NothingNew
  <1>1. ASSUME NEW i \in 1 .. Len(controlCalls) PROVE ~ (controlCalls'[i].n > controlCalls[i].n)
    <2>1. controlCalls[i].n \in {0, 1} /\ controlCalls'[i].n \in {0, controlCalls[i].n}
      BY EachIsCall
    <2>. QED BY <2>1
  <1>. QED BY <1>1 DEF NothingNew

LEMMA CallSet ==
    ASSUME ControlTypes, NEW i \in 1 .. Len(controlCalls), NEW r \in ControlCalls, controlCalls' = [controlCalls EXCEPT ![i] = r]
    PROVE  /\ controlCalls' \in Seq(ControlCalls) /\ Len(controlCalls') = Len(controlCalls) /\ controlCalls'[i] = r
           /\ \A j \in 1 .. Len(controlCalls) : j # i => controlCalls'[j] = controlCalls[j]
  BY DEF ControlTypes

\* One call moves on; a token may have been granted.
LEMMA CallMoves ==
    ASSUME ControlInv, NEW i \in 1 .. Len(controlCalls), NEW r \in ControlCalls, controlCalls' = [controlCalls EXCEPT ![i] = r],
           UNCHANGED <<held, cur, bearer, acked>>, epoch' \in [ControlCard -> Nat], DOMAIN controlHolder' = ControlCard,
           \A c \in ControlCard : controlHolder'[c] = "me" => epoch'[c] > 0,
           granted' \in Seq(SUBSET ControlCard), Len(granted') \in {Len(granted), Len(granted) + 1}, live' = {Len(granted')},
           Counted(r), Carries(i)', About(i)'
    PROVE  ControlInv'
  <1>1. /\ controlCalls' \in Seq(ControlCalls) /\ Len(controlCalls') = Len(controlCalls) /\ controlCalls'[i] = r
        /\ \A j \in 1 .. Len(controlCalls) : j # i => controlCalls'[j] = controlCalls[j]
    BY CallSet DEF ControlInv
  <1>2. Len(granted) \in Nat /\ bearer \in Nat /\ bearer <= Len(granted) /\ Len(granted') \in Nat /\ Len(granted') >= Len(granted)
    BY DEF ControlInv, ControlTypes
  <1>3. ControlTypes'
    BY <1>1, <1>2 DEF ControlInv, ControlTypes
  <1>4. ASSUME NEW j \in 1 .. Len(controlCalls), j # i PROVE Counted(controlCalls'[j]) /\ Carries(j)' /\ About(j)'
    <2>1. controlCalls'[j] = controlCalls[j] /\ controlCalls[j].token \in Nat /\ Counted(controlCalls[j]) /\ Carries(j) /\ About(j)
      BY <1>1, <1>4, EachIsCall DEF ControlInv, ControlTypes
    <2>2. Carries(j)'
      BY <1>2, <2>1 DEF Carries
    <2>3. About(j)'
      <3>1. j # cur => controlCalls[j].token <= bearer
        BY <2>1 DEF Carries
      <3>. QED BY <1>2, <2>1, <3>1 DEF About
    <2>. QED BY <2>1, <2>2, <2>3
  <1>. QED BY <1>1, <1>3, <1>4 DEF ControlInv

LEMMA GoesKeeps ==
    ASSUME ControlInv, NEW i \in 1 .. Len(controlCalls),
           NEW to \in {"working", "unauthorized", "refused", "did", "ok"}, Control!Goes(i, to),
           UNCHANGED <<held, cur, bearer, acked, live, granted, epoch, controlHolder>>, controlCalls[i].at # "ok",
           to \in {"working", "unauthorized"} => controlCalls[i].n = 0,
           to = "did" => controlCalls[i].m \notin OnLease,
           to = "ok" => controlCalls[i].at = "did" /\ controlCalls[i].m \notin Control!ChangesLeases
    PROVE  ControlInv' /\ NothingNew
  <1> DEFINE moved == [controlCalls[i] EXCEPT !.at = to]
  <1>1. controlCalls[i] \in ControlCalls /\ Counted(controlCalls[i]) /\ Carries(i) /\ About(i) /\ controlCalls \in Seq(ControlCalls)
    BY DEF ControlInv, ControlTypes
  <1>2. /\ moved \in ControlCalls /\ moved.at = to /\ moved.m = controlCalls[i].m /\ moved.cards = controlCalls[i].cards
        /\ moved.token = controlCalls[i].token /\ moved.held = controlCalls[i].held /\ moved.n = controlCalls[i].n
    BY <1>1 DEF ControlCalls, ControlStages
  <1>3. Counted(moved)
    BY <1>1, <1>2 DEF Counted
  <1> HIDE DEF moved
  <1>4. (controlCalls' = [controlCalls EXCEPT ![i] = moved]) \/ (i # cur /\ controlCalls' = [controlCalls EXCEPT ![i] = Control!Over])
    BY DEF Control!Goes, moved
  <1>5. CASE controlCalls' = [controlCalls EXCEPT ![i] = moved]
    <2>1. controlCalls'[i] = moved /\ \A j \in 1 .. Len(controlCalls) : j # i => controlCalls'[j] = controlCalls[j]
      BY <1>1, <1>2, <1>5, CallSet DEF ControlInv
    <2>2. controlCalls[i].token \in Nat /\ bearer \in Nat
      BY <1>1, EachIsCall DEF ControlInv, ControlTypes
    <2>3. Carries(i)'
      BY <1>1, <1>2, <2>1, <2>2 DEF Carries
    <2>4. About(i)'
      BY <1>1, <1>2, <2>1 DEF About
    <2>5. NothingNew
      BY <1>2, <2>1, NothingNewFrom
    <2>6. /\ epoch' \in [ControlCard -> Nat] /\ DOMAIN controlHolder' = ControlCard /\ (\A c \in ControlCard : controlHolder'[c] = "me" => epoch'[c] > 0)
          /\ granted' \in Seq(SUBSET ControlCard) /\ Len(granted') = Len(granted) /\ live' = {Len(granted')}
      BY DEF ControlInv, ControlTypes
    <2>. QED BY <1>2, <1>3, <1>5, <2>3, <2>4, <2>5, <2>6, CallMoves
  <1>6. CASE i # cur /\ controlCalls' = [controlCalls EXCEPT ![i] = Control!Over]
    <2>1. controlCalls'[i] = Control!Over /\ \A j \in 1 .. Len(controlCalls) : j # i => controlCalls'[j] = controlCalls[j]
      BY <1>6, OverIsCall, CallSet DEF ControlInv
    <2>2. bearer \in Nat /\ Len(granted) \in Nat
      BY DEF ControlInv, ControlTypes
    <2>3. Carries(i)' /\ About(i)'
      BY <1>6, <2>1, <2>2, OverIsCall DEF Carries, About
    <2>5. NothingNew
      BY <2>1, OverIsCall, NothingNewFrom
    <2>6. /\ epoch' \in [ControlCard -> Nat] /\ DOMAIN controlHolder' = ControlCard /\ (\A c \in ControlCard : controlHolder'[c] = "me" => epoch'[c] > 0)
          /\ granted' \in Seq(SUBSET ControlCard) /\ Len(granted') = Len(granted) /\ live' = {Len(granted')}
      BY DEF ControlInv, ControlTypes
    <2>. QED BY <1>6, <2>3, <2>5, <2>6, OverIsCall, CallMoves
  <1>. QED BY <1>4, <1>5, <1>6

\* The calls stay as they are, and so does what the node knows.
LEMMA CallsStay ==
    ASSUME ControlInv, UNCHANGED <<controlCalls, held, cur, bearer, acked, live, granted>>,
           epoch' \in [ControlCard -> Nat], DOMAIN controlHolder' = ControlCard,
           \A c \in ControlCard : controlHolder'[c] = "me" => epoch'[c] > 0
    PROVE  ControlInv' /\ NothingNew
  <1>1. ControlTypes'
    BY DEF ControlInv, ControlTypes
  <1>2. \A i \in 1 .. Len(controlCalls) : Carries(i)' /\ About(i)'
    BY DEF ControlInv, Carries, About
  <1>3. NothingNew
    BY NothingNewFrom
  <1>. QED BY <1>1, <1>2, <1>3 DEF ControlInv

LEMMA SendsCall ==
    ASSUME ControlInv, NEW m \in Control!Method, NEW c \in ControlCard, Control!Call(m, c)
    PROVE  ControlInv' /\ NothingNew
  <1> DEFINE new == [m |-> m, cards |-> IF m \in OnLease THEN {c} ELSE {},
                     token |-> bearer, at |-> "sent", held |-> held[c], n |-> 0]
  <1>1. /\ cur = 0 /\ controlCalls' = Append(controlCalls, new) /\ cur' = Len(controlCalls) + 1
        /\ UNCHANGED <<epoch, controlHolder, live, granted, bearer, held, acked>>
    BY DEF Control!Call, Control!db, OnLease
  <1>2. /\ new \in ControlCalls /\ new.token = bearer /\ new.at = "sent" /\ new.n = 0 /\ new.held = held[c]
        /\ new.cards \subseteq {c}
    BY DEF ControlInv, ControlTypes, ControlCalls, ControlStages, Control!Method
  <1>3. Counted(new)
    BY <1>2 DEF Counted
  <1> HIDE DEF new
  <1>4. /\ controlCalls \in Seq(ControlCalls) /\ Len(controlCalls) \in Nat /\ controlCalls' \in Seq(ControlCalls)
        /\ Len(controlCalls') = Len(controlCalls) + 1 /\ controlCalls'[Len(controlCalls) + 1] = new
        /\ \A i \in 1 .. Len(controlCalls) : controlCalls'[i] = controlCalls[i]
    BY <1>1, <1>2 DEF ControlInv, ControlTypes
  <1>5. ControlTypes'
    BY <1>1, <1>4 DEF ControlInv, ControlTypes
  <1>6. bearer \in Nat /\ bearer <= Len(granted) /\ Len(granted) \in Nat
    BY DEF ControlInv, ControlTypes
  <1>7. ASSUME NEW i, i = Len(controlCalls) + 1 PROVE Counted(controlCalls'[i]) /\ Carries(i)' /\ About(i)'
    <2>1. controlCalls'[i] = new /\ i = cur'
      BY <1>1, <1>4, <1>7
    <2>2. Carries(i)'
      BY <1>1, <1>2, <1>6, <2>1 DEF Carries
    <2>3. About(i)'
      BY <1>1, <1>2, <2>1 DEF About
    <2>. QED BY <1>3, <2>1, <2>2, <2>3
  <1>8. ASSUME NEW i \in 1 .. Len(controlCalls) PROVE Counted(controlCalls'[i]) /\ Carries(i)' /\ About(i)'
    <2>1. controlCalls'[i] = controlCalls[i] /\ i # cur /\ i # cur' /\ Counted(controlCalls[i]) /\ Carries(i) /\ About(i)
      BY <1>1, <1>4 DEF ControlInv
    <2>. QED BY <1>1, <2>1 DEF Carries, About
  <1>9. NothingNew
    BY <1>4, NothingNewFrom
  <1>10. ASSUME NEW i \in 1 .. Len(controlCalls') PROVE Counted(controlCalls'[i]) /\ Carries(i)' /\ About(i)'
    <2>1. i \in 1 .. Len(controlCalls) \/ i = Len(controlCalls) + 1
      BY <1>4
    <2>. QED BY <1>7, <1>8, <2>1
  <1>. QED BY <1>5, <1>9, <1>10 DEF ControlInv

\* The node stops waiting; it keeps what it holds or lets go of it.  After the answer of a claim,
\* whose token is newer than that of any other call, it may hold more.
LEMMA NodeGoesOn ==
    ASSUME ControlInv, NEW k \in 1 .. Len(controlCalls), k = cur, cur' = 0,
           NEW r \in ControlCalls, controlCalls' = [controlCalls EXCEPT ![k] = r],
           (r = controlCalls[k] /\ controlCalls[k].at # "ok") \/ r = Control!Over,
           held' \in [ControlCard -> Nat], UNCHANGED <<epoch, controlHolder, acked>>,
           granted' \in Seq(SUBSET ControlCard), live' = {Len(granted')},
           bearer' \in bearer .. Len(granted'), Len(granted') >= Len(granted),
           \/ \A c \in ControlCard : held'[c] \in {0, held[c]}
           \/ bearer' > bearer /\ r = Control!Over
    PROVE  ControlInv' /\ NothingNew
  <1>1. k \in 1 .. Len(controlCalls) /\ k # cur'
    OBVIOUS
  <1>2. /\ controlCalls' \in Seq(ControlCalls) /\ Len(controlCalls') = Len(controlCalls) /\ controlCalls'[k] = r
        /\ \A j \in 1 .. Len(controlCalls) : j # k => controlCalls'[j] = controlCalls[j]
    BY <1>1, CallSet DEF ControlInv
  <1>3. Len(granted) \in Nat /\ bearer \in Nat /\ bearer <= Len(granted) /\ Len(granted') \in Nat /\ bearer' \in Nat /\ bearer' >= bearer
        /\ bearer' <= Len(granted')
    BY DEF ControlInv, ControlTypes
  <1>4. ControlTypes'
    BY <1>2, <1>3 DEF ControlInv, ControlTypes
  <1>5. ASSUME NEW j \in 1 .. Len(controlCalls), j # k PROVE Counted(controlCalls'[j]) /\ Carries(j)' /\ About(j)'
    <2>1. /\ controlCalls'[j] = controlCalls[j] /\ controlCalls[j].token \in Nat /\ controlCalls[j].cards \subseteq ControlCard
          /\ Counted(controlCalls[j]) /\ Carries(j) /\ About(j)
      BY <1>2, <1>5, EachIsCall DEF ControlInv, ControlTypes
    <2>2. controlCalls[j].token <= bearer
      BY <1>5, <2>1 DEF Carries
    <2>3. Carries(j)'
      BY <1>3, <1>5, <2>1, <2>2 DEF Carries
    <2>4. About(j)'
      <3>1. CASE \A c \in ControlCard : held'[c] \in {0, held[c]}
        BY <1>3, <1>5, <2>1, <2>2, <3>1 DEF About
      <3>2. CASE bearer' > bearer
        BY <1>3, <1>5, <2>1, <2>2, <3>2 DEF About
      <3>. QED BY <3>1, <3>2
    <2>. QED BY <2>1, <2>3, <2>4
  <1>6. Counted(controlCalls'[k]) /\ Carries(k)' /\ About(k)'
    <2>1. CASE r = Control!Over
      BY <1>1, <1>2, <1>3, <2>1, OverIsCall DEF Carries, About
    <2>2. CASE r = controlCalls[k] /\ controlCalls[k].at # "ok" /\ r # Control!Over
      <3>1. /\ controlCalls[k].token \in Nat /\ controlCalls[k].cards \subseteq ControlCard /\ Counted(controlCalls[k]) /\ Carries(k) /\ About(k)
        BY <1>1, EachIsCall DEF ControlInv, ControlTypes
      <3>2. Carries(k)'
        BY <1>1, <1>2, <1>3, <2>2, <3>1 DEF Carries
      <3>3. About(k)'
        BY <1>1, <1>2, <2>2, <3>1 DEF About
      <3>. QED BY <1>2, <2>2, <3>1, <3>2, <3>3
    <2>. QED BY <2>1, <2>2
  <1>7. NothingNew
    BY <1>1, <1>2, OverIsCall, NothingNewFrom
  <1>. QED BY <1>2, <1>4, <1>5, <1>6, <1>7 DEF ControlInv

LEMMA DroppedLess ==
    ASSUME ControlInv, cur > 0, held' = Control!Dropped(cur)
    PROVE  held' \in [ControlCard -> Nat] /\ \A c \in ControlCard : held'[c] \in {0, held[c]}
  BY DEF Control!Dropped, ControlInv, ControlTypes

\* A token is granted: the only live one, and newer than any before.
LEMMA AuthGrants ==
    ASSUME ControlInv, Control!Auth
    PROVE  /\ granted' \in Seq(SUBSET ControlCard) /\ Len(granted') = Len(granted) + 1 /\ live' = {Len(granted')}
           /\ Len(granted) \in Nat /\ UNCHANGED <<epoch, controlHolder>>
  <1>1. Control!Leased \in SUBSET ControlCard
    BY DEF Control!Leased
  <1>. QED BY <1>1 DEF Control!Auth, ControlInv, ControlTypes

LEMMA GivesUp ==
    ASSUME ControlInv, Control!GiveUp
    PROVE  ControlInv' /\ NothingNew
  <1>1. /\ cur > 0 /\ cur' = 0 /\ held' = Control!Dropped(cur) /\ controlCalls[cur].at # "ok"
        /\ UNCHANGED <<epoch, controlHolder, live, granted, bearer, acked, controlCalls>>
    BY DEF Control!GiveUp, Control!db
  <1>2. cur \in 1 .. Len(controlCalls) /\ controlCalls \in Seq(ControlCalls) /\ controlCalls[cur] \in ControlCalls
    BY <1>1 DEF ControlInv, ControlTypes
  <1>3. controlCalls' = [controlCalls EXCEPT ![cur] = controlCalls[cur]]
    BY <1>1, <1>2
  <1>5. held' \in [ControlCard -> Nat] /\ \A c \in ControlCard : held'[c] \in {0, held[c]}
    BY <1>1, DroppedLess
  <1>4. /\ granted' \in Seq(SUBSET ControlCard) /\ live' = {Len(granted')} /\ Len(granted') >= Len(granted)
        /\ bearer' \in bearer .. Len(granted')
    BY <1>1 DEF ControlInv, ControlTypes
  <1>. QED BY <1>1, <1>2, <1>3, <1>4, <1>5, NodeGoesOn

LEMMA Receives ==
    ASSUME ControlInv, Control!Receive
    PROVE  ControlInv' /\ NothingNew
  <1>1. /\ cur > 0 /\ cur' = 0 /\ controlCalls' = [controlCalls EXCEPT ![cur] = Control!Over]
        /\ controlCalls[cur].at \in {"ok", "refused"} /\ UNCHANGED <<epoch, controlHolder, live, granted, acked>>
    BY DEF Control!Receive, Control!db
  <1>2. /\ cur \in 1 .. Len(controlCalls) /\ controlCalls[cur].token \in Nat /\ Carries(cur) /\ controlCalls[cur].m \in Control!Method
        /\ Len(granted) \in Nat /\ bearer \in 0 .. Len(granted) /\ held \in [ControlCard -> Nat] /\ epoch \in [ControlCard -> Nat]
        /\ granted' \in Seq(SUBSET ControlCard) /\ live' = {Len(granted')} /\ Len(granted') = Len(granted)
    BY <1>1, EachIsCall DEF ControlInv, ControlTypes
  <1>3. CASE controlCalls[cur].at = "refused"
    <2>1. held' = Control!Dropped(cur) /\ bearer' = bearer
      BY <1>3 DEF Control!Receive
    <2>2. held' \in [ControlCard -> Nat] /\ \A c \in ControlCard : held'[c] \in {0, held[c]}
      BY <1>1, <2>1, DroppedLess
    <2>3. bearer' \in bearer .. Len(granted')
      BY <1>2, <2>1
    <2>4. Control!Over \in ControlCalls /\ Len(granted') >= Len(granted)
      BY <1>2, OverIsCall
    <2>. QED BY <1>1, <1>2, <2>2, <2>3, <2>4, NodeGoesOn
  <1>4. CASE controlCalls[cur].at = "ok"
    <2>1. /\ bearer' = controlCalls[cur].token
          /\ held' = CASE controlCalls[cur].m = "claim" ->
                               [c \in ControlCard |-> IF c \in controlCalls[cur].cards THEN epoch[c] ELSE held[c]]
                        [] controlCalls[cur].m = "settle" -> [c \in ControlCard |-> IF c \in controlCalls[cur].cards THEN 0 ELSE held[c]]
                        [] OTHER -> held
      BY <1>4 DEF Control!Receive
    <2>2. bearer' \in bearer .. Len(granted') /\ (controlCalls[cur].m = "claim" => bearer' > bearer)
      BY <1>2, <1>4, <2>1 DEF Carries, Control!ChangesLeases
    <2>3. held' \in [ControlCard -> Nat] /\ (controlCalls[cur].m # "claim" => \A c \in ControlCard : held'[c] \in {0, held[c]})
      <3>1. CASE controlCalls[cur].m = "claim"
        BY <1>2, <2>1, <3>1
      <3>2. CASE controlCalls[cur].m = "settle"
        BY <1>2, <2>1, <3>2
      <3>3. CASE controlCalls[cur].m \notin {"claim", "settle"}
        BY <1>2, <2>1, <3>3
      <3>. QED BY <3>1, <3>2, <3>3
    <2>4. Control!Over \in ControlCalls /\ Len(granted') >= Len(granted)
      BY <1>2, OverIsCall
    <2>5. (\A c \in ControlCard : held'[c] \in {0, held[c]}) \/ bearer' > bearer
      BY <2>2, <2>3
    <2>. QED BY <1>1, <1>2, <2>2, <2>3, <2>4, <2>5, NodeGoesOn
  <1>. QED BY <1>1, <1>3, <1>4

LEMMA Reauthenticates ==
    ASSUME ControlInv, Control!Reauthenticate
    PROVE  ControlInv' /\ NothingNew
  <1> DEFINE t == Len(granted) + 1
  <1> DEFINE r == Answered(controlCalls[cur], "sent", t)
  <1>1. /\ cur > 0 /\ controlCalls[cur].at = "unauthorized" /\ bearer' = t /\ acked' = t /\ UNCHANGED <<cur, held>>
        /\ controlCalls' = [controlCalls EXCEPT ![cur].at = "sent", ![cur].token = t]
    BY DEF Control!Reauthenticate
  <1>2. /\ granted' \in Seq(SUBSET ControlCard) /\ Len(granted') = t /\ live' = {Len(granted')}
        /\ Len(granted) \in Nat /\ UNCHANGED <<epoch, controlHolder>>
    BY AuthGrants DEF Control!Reauthenticate
  <1>3. cur \in 1 .. Len(controlCalls) /\ controlCalls \in Seq(ControlCalls) /\ controlCalls[cur] \in ControlCalls /\ Counted(controlCalls[cur]) /\ About(cur)
    BY <1>1 DEF ControlInv, ControlTypes
  <1>4. controlCalls' = [controlCalls EXCEPT ![cur] = r]
    BY <1>1, <1>3 DEF ControlCalls, Answered
  <1>5. /\ r \in ControlCalls /\ r.at = "sent" /\ r.token = t /\ r.m = controlCalls[cur].m /\ r.cards = controlCalls[cur].cards
        /\ r.held = controlCalls[cur].held /\ r.n = controlCalls[cur].n /\ r.n = 0
    <2>1. SameCall(r, controlCalls[cur]) /\ r.at = "sent" /\ r.token = t /\ r.cards = controlCalls[cur].cards /\ r.n = controlCalls[cur].n
      <3>1. t \in Nat /\ "sent" \in ControlStages
        BY <1>2 DEF ControlStages
      <3>. QED BY <1>3, <3>1, Answering
    <2>2. controlCalls[cur].n = 0
      BY <1>1, <1>3 DEF Counted
    <2>. QED BY <2>1, <2>2 DEF SameCall
  <1>6. Counted(r)
    BY <1>5 DEF Counted
  <1> HIDE DEF r
  <1>7. /\ controlCalls' \in Seq(ControlCalls) /\ Len(controlCalls') = Len(controlCalls) /\ controlCalls'[cur] = r
        /\ \A j \in 1 .. Len(controlCalls) : j # cur => controlCalls'[j] = controlCalls[j]
    BY <1>3, <1>4, <1>5, CallSet DEF ControlInv
  <1>8. ControlTypes'
    BY <1>1, <1>2, <1>7 DEF ControlInv, ControlTypes
  <1>9. ASSUME NEW j \in 1 .. Len(controlCalls), j # cur PROVE Counted(controlCalls'[j]) /\ Carries(j)' /\ About(j)'
    <2>1. controlCalls'[j] = controlCalls[j] /\ controlCalls[j].token \in Nat /\ Counted(controlCalls[j]) /\ Carries(j)
      BY <1>7, <1>9, EachIsCall DEF ControlInv, ControlTypes
    <2>2. controlCalls[j].token <= Len(granted)
      BY <2>1 DEF Carries
    <2>. QED BY <1>1, <1>2, <1>9, <2>1, <2>2 DEF Carries, About
  <1>10. Counted(controlCalls'[cur]) /\ Carries(cur)' /\ About(cur)'
    <2>1. Carries(cur)'
      BY <1>1, <1>2, <1>5, <1>7 DEF Carries
    <2>2. About(cur)'
      BY <1>1, <1>3, <1>5, <1>7 DEF About
    <2>. QED BY <1>6, <1>7, <2>1, <2>2
  <1>11. NothingNew
    BY <1>3, <1>5, <1>7, NothingNewFrom
  <1>. QED BY <1>1, <1>7, <1>8, <1>9, <1>10, <1>11 DEF ControlInv

LEMMA AuthenticationFails ==
    ASSUME ControlInv, Control!AuthFails
    PROVE  ControlInv' /\ NothingNew
  <1>1. /\ cur > 0 /\ cur' = 0 /\ held' = Control!Dropped(cur) /\ controlCalls' = [controlCalls EXCEPT ![cur] = Control!Over]
        /\ UNCHANGED <<bearer, acked>>
    BY DEF Control!AuthFails
  <1>2. bearer \in 0 .. Len(granted) /\ Len(granted) \in Nat
    BY DEF ControlInv, ControlTypes
  <1>3. /\ granted' \in Seq(SUBSET ControlCard) /\ live' = {Len(granted')} /\ Len(granted') >= Len(granted)
        /\ UNCHANGED <<epoch, controlHolder>>
    <2>1. CASE Control!Auth
      BY <2>1, AuthGrants
    <2>2. CASE UNCHANGED Control!db
      BY <2>2 DEF Control!db, ControlInv, ControlTypes
    <2>. QED BY <2>1, <2>2 DEF Control!AuthFails
  <1>4. bearer' \in bearer .. Len(granted')
    BY <1>1, <1>2, <1>3
  <1>5. held' \in [ControlCard -> Nat] /\ \A c \in ControlCard : held'[c] \in {0, held[c]}
    BY <1>1, DroppedLess
  <1>6. cur \in 1 .. Len(controlCalls) /\ Control!Over \in ControlCalls
    BY <1>1, OverIsCall DEF ControlInv, ControlTypes
  <1>. QED BY <1>1, <1>3, <1>4, <1>5, <1>6, NodeGoesOn

LEMMA Finishes ==
    ASSUME ControlInv, NEW i \in 1 .. Len(controlCalls), Control!Finish(i)
    PROVE  ControlInv' /\ NothingNew
  <1>1. controlCalls[i].at = "did" /\ UNCHANGED <<epoch, controlHolder, held, cur, bearer, acked>>
    BY DEF Control!Finish, Control!node
  <1>2. /\ controlCalls[i] \in ControlCalls /\ Counted(controlCalls[i]) /\ Carries(i) /\ About(i)
        /\ epoch' \in [ControlCard -> Nat] /\ DOMAIN controlHolder' = ControlCard /\ (\A c \in ControlCard : controlHolder'[c] = "me" => epoch'[c] > 0)
        /\ bearer \in Nat /\ bearer <= Len(granted) /\ Len(granted) \in Nat
    BY <1>1 DEF ControlInv, ControlTypes
  <1>3. CASE controlCalls[i].m \notin Control!ChangesLeases /\ Control!Goes(i, "ok") /\ UNCHANGED <<live, granted>>
    BY <1>1, <1>3, GoesKeeps
  <1>4. CASE Control!Goes(i, "refused") /\ UNCHANGED <<live, granted>>
    BY <1>1, <1>4, GoesKeeps
  \* a new token, whatever becomes of the answer
  <1>5. ASSUME granted' = Append(granted, Control!Leased), Control!Valid(controlCalls[i].token),
               live' = (live \ {controlCalls[i].token}) \cup {Len(granted) + 1},
               NEW r \in ControlCalls, controlCalls' = [controlCalls EXCEPT ![i] = r], Counted(r), r.n \in {0, controlCalls[i].n},
               \/ r = Control!Over /\ i # cur
               \/ i = cur /\ r.at = "ok" /\ r.token = Len(granted) + 1 /\ r.cards = controlCalls[i].cards /\ r.held = controlCalls[i].held /\ r.m = controlCalls[i].m
               \/ i = cur /\ r.at # "ok" /\ r.token = controlCalls[i].token /\ r.cards = controlCalls[i].cards /\ r.held = controlCalls[i].held /\ r.m = controlCalls[i].m
        PROVE  ControlInv' /\ NothingNew
    <2>1. Control!Leased \in SUBSET ControlCard /\ granted \in Seq(SUBSET ControlCard)
      BY DEF Control!Leased, ControlInv, ControlTypes
    <2>2. granted' \in Seq(SUBSET ControlCard) /\ Len(granted') = Len(granted) + 1
      BY <1>5, <2>1
    <2>3. live' = {Len(granted')}
      BY <1>5, <2>2 DEF Control!Valid, ControlInv, ControlTypes
    <2>4. controlCalls'[i] = r /\ \A j \in 1 .. Len(controlCalls) : j # i => controlCalls'[j] = controlCalls[j]
      BY <1>5, CallSet DEF ControlInv
    <2>5. Carries(i)'
      BY <1>1, <1>2, <1>5, <2>2, <2>4, OverIsCall DEF Carries
    <2>6. About(i)'
      BY <1>1, <1>2, <1>5, <2>2, <2>4, OverIsCall DEF About
    <2>7. NothingNew
      BY <1>5, <2>4, NothingNewFrom
    <2>. QED BY <1>1, <1>2, <1>5, <2>2, <2>3, <2>5, <2>6, <2>7, CallMoves
  <1>6. ASSUME granted' = Append(granted, Control!Leased), Control!Valid(controlCalls[i].token),
               live' = (live \ {controlCalls[i].token}) \cup {Len(granted) + 1},
               NEW r, r = Answered(controlCalls[i], "ok", Len(granted) + 1), i = cur, controlCalls' = [controlCalls EXCEPT ![i] = r]
        PROVE  ControlInv' /\ NothingNew
    <2>1. /\ r \in ControlCalls /\ r.at = "ok" /\ r.token = Len(granted) + 1 /\ r.cards = controlCalls[i].cards
          /\ r.held = controlCalls[i].held /\ r.m = controlCalls[i].m /\ r.n = controlCalls[i].n
      <3>1. "ok" \in ControlStages /\ "refused" \in ControlStages /\ Len(granted) + 1 \in Nat
        BY <1>2 DEF ControlStages
      <3>2. SameCall(r, controlCalls[i]) /\ r.at = "ok" /\ r.token = Len(granted) + 1 /\ r.cards = controlCalls[i].cards /\ r.n = controlCalls[i].n
        BY <1>2, <1>6, <3>1, Answering
      <3>. QED BY <3>2 DEF SameCall
    <2>2. Counted(r)
      BY <1>1, <1>2, <2>1 DEF Counted
    <2>. QED BY <1>5, <1>6, <2>1, <2>2
  <1>7. ASSUME granted' = Append(granted, Control!Leased), Control!Valid(controlCalls[i].token),
               live' = (live \ {controlCalls[i].token}) \cup {Len(granted) + 1},
               NEW r, r = Moved(controlCalls[i], "refused"), i = cur, controlCalls' = [controlCalls EXCEPT ![i] = r]
        PROVE  ControlInv' /\ NothingNew
    <2>1. /\ r \in ControlCalls /\ r.at = "refused" /\ r.token = controlCalls[i].token /\ r.cards = controlCalls[i].cards
          /\ r.held = controlCalls[i].held /\ r.m = controlCalls[i].m /\ r.n = controlCalls[i].n
      <3>1. "ok" \in ControlStages /\ "refused" \in ControlStages /\ Len(granted) + 1 \in Nat
        BY <1>2 DEF ControlStages
      <3>. QED BY <1>2, <1>7, <3>1, Moving DEF SameCall
    <2>2. Counted(r)
      BY <2>1 DEF Counted
    <2>. QED BY <1>5, <1>7, <2>1, <2>2
  <1>8. ASSUME granted' = Append(granted, Control!Leased), Control!Valid(controlCalls[i].token),
               live' = (live \ {controlCalls[i].token}) \cup {Len(granted) + 1},
               i # cur, controlCalls' = [controlCalls EXCEPT ![i] = Control!Over]
        PROVE  ControlInv' /\ NothingNew
    BY <1>5, <1>8, OverIsCall
  <1>9. CASE /\ granted' = Append(granted, Control!Leased) /\ Control!Valid(controlCalls[i].token)
             /\ live' = (live \ {controlCalls[i].token}) \cup {Len(granted) + 1}
             /\ \/ controlCalls' = [controlCalls EXCEPT ![i] = IF i = cur THEN [@ EXCEPT !.at = "ok", !.token = Len(granted) + 1] ELSE Control!Over]
                \/ Control!Goes(i, "refused")
    <2>1. controlCalls \in Seq(ControlCalls)
      BY DEF ControlInv, ControlTypes
    <2>2. CASE controlCalls' = [controlCalls EXCEPT ![i] = IF i = cur THEN [@ EXCEPT !.at = "ok", !.token = Len(granted) + 1] ELSE Control!Over]
      <3>1. CASE i = cur
        <4>1. controlCalls' = [controlCalls EXCEPT ![i] = Answered(controlCalls[i], "ok", Len(granted) + 1)]
          BY <2>1, <2>2, <3>1 DEF Answered
        <4>. QED BY <1>6, <1>9, <3>1, <4>1
      <3>2. CASE i # cur
        <4>1. controlCalls' = [controlCalls EXCEPT ![i] = Control!Over]
          BY <2>2, <3>2
        <4>. QED BY <1>8, <1>9, <3>2, <4>1
      <3>. QED BY <3>1, <3>2
    <2>3. CASE Control!Goes(i, "refused")
      <3>1. CASE i = cur
        <4>1. controlCalls' = [controlCalls EXCEPT ![i] = Moved(controlCalls[i], "refused")]
          BY <2>1, <2>3, <3>1 DEF Control!Goes, Moved
        <4>. QED BY <1>7, <1>9, <3>1, <4>1
      <3>2. CASE i # cur
        <4>1. controlCalls' = [controlCalls EXCEPT ![i] = Control!Over]
          BY <2>3, <3>2 DEF Control!Goes
        <4>. QED BY <1>8, <1>9, <3>2, <4>1
      <3>. QED BY <3>1, <3>2
    <2>. QED BY <1>9, <2>2, <2>3
  <1>. QED BY <1>3, <1>4, <1>9 DEF Control!Finish

\* A call takes effect: the gateway accepts the one live token only.
LEMMA TakesEffect ==
    ASSUME ControlInv, NEW i \in 1 .. Len(controlCalls), Control!Do(i)
    PROVE  ControlInv' /\ \A j \in 1 .. Len(controlCalls) : controlCalls'[j].n > controlCalls[j].n => Control!Timely(j)
  <1>1. /\ controlCalls[i].at = "working" /\ Control!Valid(controlCalls[i].token)
        /\ UNCHANGED <<live, granted, held, cur, bearer, acked, keyOk, controlLate>>
    BY DEF Control!Do, Control!node
  <1>2. /\ controlCalls[i] \in ControlCalls /\ Counted(controlCalls[i]) /\ Carries(i) /\ About(i) /\ controlCalls \in Seq(ControlCalls)
        /\ epoch \in [ControlCard -> Nat] /\ DOMAIN controlHolder = ControlCard /\ held \in [ControlCard -> Nat]
        /\ granted' \in Seq(SUBSET ControlCard) /\ Len(granted') = Len(granted) /\ live' = {Len(granted')}
        /\ controlCalls[i].token = Len(granted) /\ keyOk /\ acked <= Len(granted)
        /\ \A c \in ControlCard : controlHolder[c] = "me" => epoch[c] > 0
    BY <1>1 DEF ControlInv, ControlTypes, Control!Valid
  <1>3. CASE Control!Goes(i, "did") /\ controlCalls[i].m \notin OnLease /\ UNCHANGED <<epoch, controlHolder>>
    <2>1. ControlInv' /\ NothingNew
      BY <1>1, <1>3, GoesKeeps
    <2>. QED BY <2>1 DEF NothingNew
  <1>4. ASSUME NEW r \in ControlCalls, controlCalls' = [controlCalls EXCEPT ![i] = r], r.at = "did", r.n = 1,
               r.m = controlCalls[i].m, r.token = controlCalls[i].token, r.held = controlCalls[i].held,
               r.m \in OnLease => r.cards = controlCalls[i].cards,
               epoch' \in [ControlCard -> Nat], DOMAIN controlHolder' = ControlCard,
               \A c \in ControlCard : controlHolder'[c] = "me" => epoch'[c] > 0, Control!Timely(i)
        PROVE  ControlInv' /\ \A j \in 1 .. Len(controlCalls) : controlCalls'[j].n > controlCalls[j].n => Control!Timely(j)
    <2>1. controlCalls'[i] = r /\ \A j \in 1 .. Len(controlCalls) : j # i => controlCalls'[j] = controlCalls[j]
      BY <1>4, CallSet DEF ControlInv
    <2>2. Counted(r)
      BY <1>4 DEF Counted
    <2>3. Carries(i)' /\ About(i)'
      BY <1>1, <1>2, <1>4, <2>1 DEF Carries, About
    <2>4. ControlInv'
      BY <1>1, <1>2, <1>4, <2>2, <2>3, CallMoves
    <2>5. \A j \in 1 .. Len(controlCalls) : controlCalls[j].n \in Int
      BY EachIsCall
    <2>. QED BY <1>4, <2>1, <2>4, <2>5
  <1>5. CASE Control!Claims(i) /\ ~ Control!Goes(i, "did")
    <2>1. PICK c \in ControlCard :
            /\ epoch' = [epoch EXCEPT ![c] = @ + 1] /\ controlHolder' = [controlHolder EXCEPT ![c] = "me"]
            /\ controlCalls' = [controlCalls EXCEPT ![i].cards = {c}, ![i].at = "did", ![i].n = @ + 1]
      BY <1>5 DEF Control!Claims
    <2> DEFINE r == DidOn(controlCalls[i], {c})
    <2>2. controlCalls[i].n = 0 /\ controlCalls[i].m = "claim"
      BY <1>1, <1>2, <1>5 DEF Counted, Control!Claims
    <2>3. controlCalls' = [controlCalls EXCEPT ![i] = r]
      <3>1. controlCalls' = [controlCalls EXCEPT ![i] = [controlCalls[i] EXCEPT !.cards = {c}, !.at = "did", !.n = controlCalls[i].n + 1]]
        BY <1>2, <2>1 DEF ControlCalls
      <3>2. controlCalls[i].n + 1 = 1
        BY <2>2
      <3>. QED BY <3>1, <3>2 DEF DidOn
    <2>4. /\ r \in ControlCalls /\ r.at = "did" /\ r.n = 1 /\ r.m = controlCalls[i].m /\ r.token = controlCalls[i].token
          /\ r.held = controlCalls[i].held /\ r.m \notin OnLease
      <3>1. SameCall(r, controlCalls[i]) /\ r.at = "did" /\ r.token = controlCalls[i].token /\ r.n = 1
        BY <1>2, Claiming
      <3>. QED BY <2>2, <3>1 DEF SameCall, OnLease
    <2>5. Control!Timely(i)
      BY <1>2, <2>2 DEF Control!Timely, ControlInv, ControlTypes
    <2>6. epoch' \in [ControlCard -> Nat] /\ DOMAIN controlHolder' = ControlCard /\ \A d \in ControlCard : controlHolder'[d] = "me" => epoch'[d] > 0
      BY <1>2, <2>1
    <2> HIDE DEF r
    <2>. QED BY <1>4, <2>3, <2>4, <2>5, <2>6
  <1>6. CASE Control!Checkpoints(i) \/ Control!Settles(i)
    <2>1. /\ controlCalls[i].m \in OnLease /\ (\A c \in controlCalls[i].cards : Control!Owns(controlCalls[i].token, c))
          /\ controlCalls' = [controlCalls EXCEPT ![i].at = "did", ![i].n = @ + 1] /\ epoch' = epoch
          /\ (controlHolder' = controlHolder \/ controlHolder' = [c \in ControlCard |-> IF c \in controlCalls[i].cards THEN "nobody" ELSE controlHolder[c]])
      BY <1>6 DEF Control!Checkpoints, Control!Settles, Control!Counts, OnLease
    <2> DEFINE r == Did(controlCalls[i])
    <2>2. controlCalls[i].n = 0
      BY <1>1, <1>2 DEF Counted
    <2>3. controlCalls' = [controlCalls EXCEPT ![i] = r]
      BY <1>2, <2>1, <2>2 DEF ControlCalls, Did
    <2>4. /\ r \in ControlCalls /\ r.at = "did" /\ r.n = 1 /\ r.m = controlCalls[i].m /\ r.token = controlCalls[i].token
          /\ r.held = controlCalls[i].held /\ r.cards = controlCalls[i].cards
      <3>1. SameCall(r, controlCalls[i]) /\ r.at = "did" /\ r.token = controlCalls[i].token /\ r.cards = controlCalls[i].cards /\ r.n = 1
        BY <1>2, Counting
      <3>. QED BY <3>1 DEF SameCall
    <2>5. epoch' \in [ControlCard -> Nat] /\ DOMAIN controlHolder' = ControlCard /\ \A d \in ControlCard : controlHolder'[d] = "me" => epoch'[d] > 0
      BY <1>2, <2>1
    <2>6. ASSUME NEW c \in controlCalls[i].cards
          PROVE  c \in Control!Leased /\ (held[c] = epoch[c] => controlCalls[i].held = epoch[c])
      <3>1. c \in Control!Leased /\ c \in ControlCard /\ controlHolder[c] = "me"
        BY <2>1 DEF Control!Owns, Control!Leased
      <3>2. held[c] \in {0, controlCalls[i].held}
        BY <1>2, <2>1 DEF About
      <3>3. epoch[c] > 0 /\ epoch[c] \in Nat
        BY <1>2, <3>1
      <3>. QED BY <3>1, <3>2, <3>3
    <2>7. Control!Timely(i)
      BY <1>2, <2>6 DEF Control!Timely, ControlInv, ControlTypes
    <2> HIDE DEF r
    <2>. QED BY <1>4, <2>3, <2>4, <2>5, <2>7
  <1>7. Control!Claims(i) \/ Control!Checkpoints(i) \/ Control!Settles(i) \/ Control!Reads(i)
    BY DEF Control!Do
  <1>8. CASE Control!Reads(i)
    BY <1>3, <1>8 DEF Control!Reads, OnLease
  <1>9. CASE Control!Claims(i) /\ Control!Goes(i, "did")
    <2>1. controlCalls[i].m = "claim" /\ controlCalls[i].n = 0
      BY <1>1, <1>2, <1>9 DEF Control!Claims, Counted
    <2>2. UNCHANGED <<epoch, controlHolder>>
      <3>1. ASSUME NEW c \in ControlCard, controlCalls' = [controlCalls EXCEPT ![i].cards = {c}, ![i].at = "did", ![i].n = @ + 1] PROVE FALSE
        <4>1. controlCalls'[i].n = 1
          BY <1>2, <2>1, <3>1 DEF ControlCalls
        <4>2. controlCalls'[i].n = 0
          BY <1>2, <1>9, <2>1, OverIsCall DEF Control!Goes, ControlCalls
        <4>. QED BY <4>1, <4>2
      <3>. QED BY <1>9, <3>1 DEF Control!Claims
    <2>. QED BY <1>3, <1>9, <2>1, <2>2 DEF OnLease
  <1>. QED BY <1>5, <1>6, <1>7, <1>8, <1>9

LEMMA Restarts ==
    ASSUME ControlInv, Control!Restart
    PROVE  ControlInv' /\ NothingNew
  <1>1. /\ UNCHANGED <<epoch, controlHolder, live, granted, held, cur, bearer, acked>>
        /\ controlCalls' = [i \in 1 .. Len(controlCalls) |->
                        IF i \in Control!Underway THEN IF i = cur THEN [controlCalls[i] EXCEPT !.at = "refused"] ELSE Control!Over
                        ELSE controlCalls[i]]
    BY DEF Control!Restart, Control!db, Control!node
  <1>6. UNCHANGED <<granted, held, cur, bearer>>
    BY <1>1
  <1>2. controlCalls \in Seq(ControlCalls) /\ Len(controlCalls) \in Nat /\ \A i \in 1 .. Len(controlCalls) : controlCalls[i] \in ControlCalls
    BY DEF ControlInv, ControlTypes
  <1>3. ASSUME NEW i \in 1 .. Len(controlCalls)
        PROVE  controlCalls'[i] \in ControlCalls /\ controlCalls'[i].n \in {0, controlCalls[i].n} /\ Counted(controlCalls'[i]) /\ Carries(i)' /\ About(i)'
    <2>1. /\ controlCalls[i] \in ControlCalls /\ Counted(controlCalls[i]) /\ Carries(i) /\ About(i) /\ controlCalls[i].token \in Nat /\ controlCalls[i].n \in {0, 1}
          /\ bearer \in Nat /\ Len(granted) \in Nat
      BY <1>2, EachIsCall DEF ControlInv, ControlTypes
    <2>2. CASE i \notin Control!Underway
      <3>1. controlCalls'[i] = controlCalls[i]
        BY <1>1, <2>2
      <3>2. Carries(i)' /\ About(i)'
        BY <1>6, <2>1, <3>1 DEF Carries, About
      <3>. QED BY <2>1, <3>1, <3>2
    <2>3. CASE i \in Control!Underway /\ i # cur
      <3>1. controlCalls'[i] = Control!Over
        BY <1>1, <2>3
      <3>2. Carries(i)' /\ About(i)'
        BY <1>6, <2>1, <2>3, <3>1, OverIsCall DEF Carries, About
      <3>. QED BY <2>1, <3>1, <3>2, OverIsCall
    <2>4. CASE i \in Control!Underway /\ i = cur
      <3>1. controlCalls'[i] = Moved(controlCalls[i], "refused") /\ controlCalls[i].at # "ok"
        BY <1>1, <2>4 DEF Control!Underway, Moved
      <3>2. /\ controlCalls'[i] \in ControlCalls /\ controlCalls'[i].at = "refused" /\ controlCalls'[i].m = controlCalls[i].m /\ controlCalls'[i].cards = controlCalls[i].cards
            /\ controlCalls'[i].token = controlCalls[i].token /\ controlCalls'[i].held = controlCalls[i].held /\ controlCalls'[i].n = controlCalls[i].n
        BY <2>1, <3>1, Moving DEF SameCall, ControlStages
      <3>3. Counted(controlCalls'[i])
        BY <3>2 DEF Counted
      <3>4. Carries(i)' /\ About(i)'
        BY <1>6, <2>1, <3>1, <3>2 DEF Carries, About
      <3>. QED BY <2>1, <3>2, <3>3, <3>4
    <2>. QED BY <2>2, <2>3, <2>4
  <1>4. controlCalls' \in Seq(ControlCalls) /\ Len(controlCalls') = Len(controlCalls)
    <2> DEFINE f == [i \in 1 .. Len(controlCalls) |-> controlCalls'[i]]
    <2>1. controlCalls' = f
      BY <1>1
    <2>2. f \in Seq(ControlCalls) /\ Len(f) = Len(controlCalls)
      BY <1>2, <1>3
    <2> HIDE DEF f
    <2>. QED BY <2>1, <2>2
  <1>5. ControlTypes'
    BY <1>1, <1>4 DEF ControlInv, ControlTypes
  <1>7. NothingNew
    BY <1>3, NothingNewFrom
  <1>. QED BY <1>3, <1>4, <1>5, <1>7 DEF ControlInv

LEMMA ControlKeeps ==
    ASSUME ControlInv, [Control!Next]_(Control!vars)
    PROVE  ControlInv' /\ \A i \in 1 .. Len(controlCalls) : controlCalls'[i].n > controlCalls[i].n => Control!Timely(i)
  <1>1. ASSUME NothingNew PROVE \A i \in 1 .. Len(controlCalls) : controlCalls'[i].n > controlCalls[i].n => Control!Timely(i)
    BY <1>1 DEF NothingNew
  <1>2. CASE UNCHANGED Control!vars
    <2>1. UNCHANGED <<controlCalls, held, cur, bearer, acked, live, granted, epoch, controlHolder>>
      BY <1>2 DEF Control!vars, Control!db, Control!node
    <2>2. epoch' \in [ControlCard -> Nat] /\ DOMAIN controlHolder' = ControlCard /\ \A c \in ControlCard : controlHolder'[c] = "me" => epoch'[c] > 0
      BY <2>1 DEF ControlInv, ControlTypes
    <2>. QED BY <1>1, <2>1, <2>2, CallsStay
  <1>3. ASSUME NEW m \in Control!Method, NEW c \in ControlCard, Control!Call(m, c)
        PROVE  ControlInv' /\ NothingNew
    BY <1>3, SendsCall
  <1>4. CASE Control!GiveUp \/ Control!Receive \/ Control!Reauthenticate \/ Control!AuthFails \/ Control!Restart
    BY <1>1, <1>4, GivesUp, Receives, Reauthenticates, AuthenticationFails, Restarts
  <1>5. ASSUME NEW i \in 1 .. Len(controlCalls), Control!Begin(i)
        PROVE  ControlInv' /\ NothingNew
    <2>1. /\ controlCalls[i].at = "sent" /\ (Control!Goes(i, "working") \/ Control!Goes(i, "unauthorized"))
          /\ UNCHANGED <<held, cur, bearer, acked, live, granted, epoch, controlHolder>>
      BY <1>5 DEF Control!Begin, Control!db, Control!node
    <2>2. controlCalls[i].n = 0
      BY <2>1 DEF ControlInv, Counted
    <2>. QED BY <2>1, <2>2, GoesKeeps
  <1>6. ASSUME NEW i \in 1 .. Len(controlCalls), Control!Refused(i) \/ Control!Broken(i)
        PROVE  ControlInv' /\ NothingNew
    <2>1. /\ controlCalls[i].at # "ok" /\ Control!Goes(i, "refused")
          /\ UNCHANGED <<held, cur, bearer, acked, live, granted, epoch, controlHolder>>
      BY <1>6 DEF Control!Refused, Control!Broken, Control!db, Control!node
    <2>. QED BY <2>1, GoesKeeps
  \* time, and what others do to the cards
  <1>7. CASE Control!Expire \/ Control!RevokeKey \/ \E c \in ControlCard : Control!Sweep(c) \/ Control!Others(c)
    <2>1. UNCHANGED <<controlCalls, held, cur, bearer, acked, live, granted>>
      BY <1>7 DEF Control!Expire, Control!RevokeKey, Control!Sweep, Control!Others, Control!node
    <2>2. /\ epoch \in [ControlCard -> Nat] /\ DOMAIN controlHolder = ControlCard /\ \A c \in ControlCard : controlHolder[c] = "me" => epoch[c] > 0
      BY DEF ControlInv, ControlTypes
    <2>3. epoch' \in [ControlCard -> Nat] /\ DOMAIN controlHolder' = ControlCard /\ \A c \in ControlCard : controlHolder'[c] = "me" => epoch'[c] > 0
      <3>1. CASE UNCHANGED <<epoch, controlHolder>>
        BY <2>2, <3>1
      <3>2. ASSUME NEW c \in ControlCard, NEW to \in {"nobody", "other"}, controlHolder' = [controlHolder EXCEPT ![c] = to],
                   epoch' = epoch \/ epoch' = [epoch EXCEPT ![c] = @ + 1]
            PROVE  epoch' \in [ControlCard -> Nat] /\ DOMAIN controlHolder' = ControlCard /\ \A d \in ControlCard : controlHolder'[d] = "me" => epoch'[d] > 0
        BY <2>2, <3>2
      <3>3. UNCHANGED <<epoch, controlHolder>> \/ \E c \in ControlCard, to \in {"nobody", "other"} :
               controlHolder' = [controlHolder EXCEPT ![c] = to] /\ (epoch' = epoch \/ epoch' = [epoch EXCEPT ![c] = @ + 1])
        BY <1>7 DEF Control!Expire, Control!RevokeKey, Control!Sweep, Control!Others
      <3>. QED BY <3>1, <3>2, <3>3
    <2>. QED BY <1>1, <2>1, <2>3, CallsStay
  <1>8. ASSUME NEW i \in 1 .. Len(controlCalls), Control!Finish(i)
        PROVE  ControlInv' /\ NothingNew
    BY <1>8, Finishes
  <1>9. ASSUME NEW i \in 1 .. Len(controlCalls), Control!Do(i)
        PROVE  ControlInv' /\ \A j \in 1 .. Len(controlCalls) : controlCalls'[j].n > controlCalls[j].n => Control!Timely(j)
    BY <1>9, TakesEffect
  <1>. QED BY <1>1, <1>2, <1>3, <1>4, <1>5, <1>6, <1>7, <1>8, <1>9 DEF Control!Next

\* A call takes effect at most once and has when the node is told so, only for a key that is good,
\* not behind a session opened after it was sent, and on a lease the node holds only when it was
\* sent about that lease: for any cards and bounds, whatever calls, answers and sessions are lost.
THEOREM ControlHolds == Control!Spec => Control!ControlSafe
  <1>1. Control!Init => ControlInv
    <2>. SUFFICES ASSUME Control!Init PROVE ControlInv
      OBVIOUS
    <2>1. controlCalls \in Seq(ControlCalls) /\ Len(controlCalls) = 0
      BY DEF Control!Init
    <2>2. granted \in Seq(SUBSET ControlCard) /\ Len(granted) = 1
      BY DEF Control!Init
    <2>. QED BY <2>1, <2>2 DEF Control!Init, ControlInv, ControlTypes
  <1>2. ControlInv => Control!OnceAtMost
    <2>. SUFFICES ASSUME ControlInv, NEW i \in 1 .. Len(controlCalls)
                  PROVE  /\ controlCalls[i].n <= 1
                         /\ controlCalls[i].at \in {"sent", "unauthorized"} => controlCalls[i].n = 0
                         /\ controlCalls[i].at = "ok" /\ controlCalls[i].m \in {"checkpoint", "settle"} => controlCalls[i].n = 1
      BY DEF Control!OnceAtMost
    <2>1. controlCalls[i].n \in {0, 1} /\ Counted(controlCalls[i])
      BY EachIsCall DEF ControlInv, ControlTypes
    <2>. QED BY <2>1 DEF Counted, OnLease
  <1>3. ControlInv /\ [Control!Next]_(Control!vars) =>
           ControlInv' /\ \A i \in 1 .. Len(controlCalls) : controlCalls'[i].n > controlCalls[i].n => Control!Timely(i)
    BY ControlKeeps
  <1>4. Control!OnceAtMost' /\ (\A i \in 1 .. Len(controlCalls) : controlCalls'[i].n > controlCalls[i].n => Control!Timely(i)) =>
           Control!ControlStep
    BY DEF Control!ControlStep
  <1>. QED BY <1>1, <1>2, <1>3, <1>4, PTL DEF Control!Spec, Control!ControlSafe

\* Beside everything else, a call of the regional pilot takes effect at most once, only for
\* a good key and the newest session, and on a lease the node holds only when it was sent
\* about it.
THEOREM FleetControls == Spec => ControlSafe
  <1>1. Init => Control!Init
    BY DEF Init
  <1>2. [Next]_vars => [Control!Next]_(Control!vars)
    <2>1. UNCHANGED controlVars => UNCHANGED Control!vars
      BY DEF controlVars, Control!vars, Control!db, Control!node
    <2>2. Next => Control!Next \/ UNCHANGED controlVars
      BY DEF Next
    <2>3. UNCHANGED vars => UNCHANGED controlVars
      BY DEF vars
    <2>. QED BY <2>1, <2>2, <2>3
  <1>3. [Control!ControlStep]_(Control!vars) => [moving = "control" => Control!ControlStep]_controlVars
    <2>1. UNCHANGED Control!vars => UNCHANGED controlVars
      BY DEF controlVars, Control!vars, Control!db, Control!node
    <2>. QED BY <2>1
  <1>. QED BY <1>1, <1>2, ControlAssumed, <1>3, ControlHolds, PTL DEF Spec, Control!Spec, ControlSafe, Control!ControlSafe

(***************************************************************************)
(* Calls to a hub.                                                         *)
(***************************************************************************)
\* what was done for a call, if it was told so
CallDone(c) ==
    method[c] \notin Remote!Reading =>
        effects[c] = 1 \/ (method[c] \in Remote!Once /\ done[id[c]] = 1)

\* the caller: until it sends, nothing has happened
CallUnsent(c) ==
    /\ agent[c] \in Remote!Actors(method[c])
    /\ callsPc[c] \in {"idle", "dialing", "again"} =>
           stage[c] = "none" /\ effects[c] = 0 /\ answer[c] = "none" /\ ~ callsLate[c]
    /\ callsPc[c] = "waiting" => stage[c] # "none" /\ answer[c] = "none"
    /\ callsPc[c] = "idle" => method[c] \in Remote!Reading

\* the hub: until it answers, nothing has happened either
CallPending(c) ==
    /\ effects[c] <= 1
    /\ stage[c] \in Remote!InFlight => effects[c] = 0
    /\ stage[c] = "answered" /\ callsResult[c] # "ok" => effects[c] = 0
    /\ stage[c] = "answered" /\ callsResult[c] = "ok" => CallDone(c)
    /\ answer[c] = "ok" => CallDone(c) /\ callsPc[c] = "over" /\ stage[c] \notin Remote!InFlight
    /\ answer[c] \in {"badKey", "unsupported"} =>
           effects[c] = 0 /\ callsPc[c] = "over" /\ stage[c] \notin Remote!InFlight

\* the key: it was valid when the request had arrived
CallKeyed(c) ==
    /\ callsLate[c] => revoked
    /\ stage[c] \in Remote!InFlight \ {"received"} => ~ callsLate[c]
    /\ effects[c] > 0 /\ Remote!PathOf(c) # "open" => ~ callsLate[c]

\* the agent: its computer was the one that calls
CallHosted(c) ==
    /\ stage[c] \in {"hosted", "cleared", "granted"} => served[c]
    /\ stage[c] # "none" /\ Remote!Serves(agent[c]) => served[c]
    /\ effects[c] > 0 /\ agent[c] # None => served[c]

CallsInv ==
    /\ Remote!TypeOK
    /\ Remote!TypeOKBooleans
    /\ \A c \in RemoteCall : CallUnsent(c)
    /\ \A c \in RemoteCall : CallPending(c)
    /\ \A c \in RemoteCall : CallKeyed(c)
    /\ \A c \in RemoteCall : CallHosted(c)
    /\ \A i \in Id : done[i] <= 1

\* who acts for an agent is asked for its computer
LEMMA CallPaths ==
    ASSUME NEW m, NEW a \in Remote!Actors(m)
    PROVE  /\ Remote!Path(m, a) \in {"granted", "host", "sender", "owner", "named", "open",
                                     "function", "sql", "together"}
           /\ a # None => Remote!Path(m, a) \in {"granted", "host", "sender"}
           /\ a \in Agent \cup {None}
  BY DEF Remote!Actors, Remote!Path, Remote!AgentPath, Remote!OwnPath

\* and a method is reached on its path only
LEMMA CallStages ==
    ASSUME NEW p \in {"granted", "host", "sender", "owner", "named", "open", "function", "sql",
                      "together"}
    PROVE  /\ Remote!ActsFrom[p] \in Remote!InFlight
           /\ p \in {"granted", "host", "sender"} =>
                  Remote!ActsFrom[p] \in {"granted", "hosted", "cleared"}
           /\ Remote!ActsFrom[p] = "received" => p \in {"open", "sql"}
  BY DEF Remote!ActsFrom, Remote!InFlight

LEMMA CallsKeepType ==
    ASSUME Remote!CallsAssumption, CallsInv, Remote!Next
    PROVE  Remote!TypeOK'
  <1> USE DEF CallsInv, Remote!TypeOK, Remote!hubVars
  <1>1. ASSUME NEW c \in RemoteCall, NEW n, NEW a \in Agent \cup {None},
               Remote!Ask(c, n, a)
        PROVE  Remote!TypeOK'
    BY <1>1 DEF Remote!Ask
  <1>2. ASSUME NEW c \in RemoteCall, NEW n, NEW a \in Agent \cup {None}, Remote!Inside(c, n, a)
        PROVE  Remote!TypeOK'
    <2>1. effects' \in [RemoteCall -> Nat] /\ done' \in [Id -> Nat]
      BY <1>2 DEF Remote!Inside, Remote!Effect
    <2>2. callsPc' \in [RemoteCall -> {"idle", "dialing", "again", "waiting", "over"}]
          /\ answer' \in [RemoteCall -> Remote!Answers]
      BY <1>2 DEF Remote!Inside, Remote!Ends, Remote!Answers
    <2>. QED BY <1>2, <2>1, <2>2 DEF Remote!Inside
  <1>3. ASSUME NEW c \in RemoteCall, NEW n, Remote!Unsent(c, n) PROVE Remote!TypeOK'
    BY <1>3 DEF Remote!Unsent, Remote!Ends, Remote!Answers
  <1>4. ASSUME NEW c \in RemoteCall, Remote!NoConnection(c) \/ Remote!GiveUp(c) PROVE Remote!TypeOK'
    BY <1>4 DEF Remote!NoConnection, Remote!GiveUp, Remote!Ends, Remote!Answers
  <1>5. ASSUME NEW c \in RemoteCall, Remote!Send(c) PROVE Remote!TypeOK'
    BY <1>5 DEF Remote!Send, Remote!Stages
  <1>6. ASSUME NEW c \in RemoteCall,
               Remote!Admit(c) \/ Remote!Own(c) \/ Remote!Name(c) \/ Remote!Hosts(c)
                   \/ Remote!Grant(c)
        PROVE  Remote!TypeOK'
    BY <1>6 DEF Remote!Admit, Remote!Own, Remote!Name, Remote!Hosts, Remote!Grant, Remote!To,
            Remote!Refuse, Remote!Answered, Remote!Stages, Remote!Outcomes
  <1>7. ASSUME NEW c \in RemoteCall, Remote!Act(c) PROVE Remote!TypeOK'
    <2>1. effects' \in [RemoteCall -> Nat] /\ done' \in [Id -> Nat]
      BY <1>7 DEF Remote!Act, Remote!Effect, Remote!Refuse
    <2>2. stage' \in [RemoteCall -> Remote!Stages] /\ callsResult' \in [RemoteCall -> Remote!Outcomes]
      BY <1>7 DEF Remote!Act, Remote!Refuse, Remote!Answered, Remote!Stages, Remote!Outcomes
    <2>. QED BY <1>7, <2>1, <2>2 DEF Remote!Act, Remote!Refuse
  <1>8. ASSUME NEW c \in RemoteCall, Remote!Hear(c) PROVE Remote!TypeOK'
    <2>1. PICK word : Remote!Ends(c, word) /\ word \in Remote!Answers
      BY <1>8 DEF Remote!Hear, Remote!LocalHears, Remote!LocalMisses, Remote!CommunityHears,
              Remote!CommunityMisses, Remote!Outcomes, Remote!Answers
    <2>. QED BY <1>8, <2>1 DEF Remote!Hear, Remote!Ends
  <1>9. CASE Remote!Stops \/ Remote!Starts \/ Remote!Revoke
    BY <1>9 DEF Remote!Stops, Remote!Starts, Remote!Revoke
  <1>10. CASE Remote!Dies
    BY <1>10 DEF Remote!Dies, Remote!Stages
  <1>11. ASSUME NEW a \in Agent, NEW h \in {"here", "elsewhere", "any"}, Remote!Move(a, h)
         PROVE  Remote!TypeOK'
    BY <1>11 DEF Remote!Move
  <1>. QED BY <1>1, <1>2, <1>3, <1>4, <1>5, <1>6, <1>7, <1>8, <1>9, <1>10, <1>11
          DEF Remote!Next, Remote!HubStep

LEMMA CallsKeepBooleans ==
    ASSUME Remote!CallsAssumption, CallsInv, Remote!Next
    PROVE  Remote!TypeOKBooleans'
  <1> USE DEF CallsInv, Remote!TypeOKBooleans, Remote!hubVars
  <1>1. ASSUME NEW c \in RemoteCall, Remote!Send(c) PROVE Remote!TypeOKBooleans'
    <2>1. Remote!Serves(agent[c]) \in BOOLEAN
      BY Zenon DEF Remote!Serves
    <2>. QED BY <1>1, <2>1, Zenon DEF Remote!Send
  <1>2. ASSUME NEW a \in Agent, NEW h \in {"here", "elsewhere", "any"}, Remote!Move(a, h)
        PROVE  Remote!TypeOKBooleans'
    <2>1. \A c \in RemoteCall : (served[c] \/ (agent[c] = a /\ h # "elsewhere")) \in BOOLEAN
      BY Zenon
    <2>. QED BY <1>2, <2>1, Zenon DEF Remote!Move
  <1>3. CASE Remote!Stops \/ Remote!Starts \/ Remote!Revoke \/ Remote!Dies
    BY <1>3, Zenon DEF Remote!Stops, Remote!Starts, Remote!Revoke, Remote!Dies
  <1>4. ASSUME NEW c \in RemoteCall, NEW n, NEW a, Remote!Inside(c, n, a) PROVE Remote!TypeOKBooleans'
    BY <1>4, Zenon DEF Remote!Inside
  <1>5. ASSUME NEW c \in RemoteCall, NEW n, NEW a, Remote!Ask(c, n, a) \/ Remote!Unsent(c, n)
        PROVE  Remote!TypeOKBooleans'
    BY <1>5, Zenon DEF Remote!Ask, Remote!Unsent
  <1>6. ASSUME NEW c \in RemoteCall, Remote!NoConnection(c) \/ Remote!Hear(c) \/ Remote!GiveUp(c)
        PROVE  Remote!TypeOKBooleans'
    BY <1>6, Zenon DEF Remote!NoConnection, Remote!Hear, Remote!GiveUp
  <1>7. ASSUME NEW c \in RemoteCall, Remote!HubStep(c) PROVE Remote!TypeOKBooleans'
    <2>1. UNCHANGED <<callsLate, served, revoked, callsUp>>
      BY <1>7, Zenon DEF Remote!HubStep, Remote!Admit, Remote!Own, Remote!Name, Remote!Hosts,
         Remote!Grant, Remote!Act, Remote!To, Remote!Refuse
    <2>. QED BY <2>1, Zenon
  <1>. QED BY <1>1, <1>2, <1>3, <1>4, <1>5, <1>6, <1>7 DEF Remote!Next

CallKept(d) ==
    /\ callsPc'[d] = callsPc[d] /\ method'[d] = method[d] /\ agent'[d] = agent[d] /\ id'[d] = id[d]
    /\ answer'[d] = answer[d] /\ stage'[d] = stage[d] /\ callsResult'[d] = callsResult[d]
    /\ effects'[d] = effects[d] /\ callsLate'[d] = callsLate[d] /\ served'[d] = served[d]
CallHolds(d) == CallUnsent(d) /\ CallPending(d) /\ CallKeyed(d) /\ CallHosted(d)

\* A call keeps its promises while another one moves.
LEMMA CallElsewhere ==
    ASSUME CallsInv, NEW d \in RemoteCall, CallKept(d), revoked => revoked', host' = host,
           \A i \in Id : done[i] = 1 => done'[i] = 1
    PROVE  CallHolds(d)'
  <1>1. CallDone(d) => CallDone(d)'
    BY DEF CallDone, CallKept, CallsInv, Remote!TypeOK
  <1>2. CallUnsent(d)'
    BY DEF CallUnsent, CallKept, CallsInv
  <1>3. CallPending(d)'
    BY <1>1 DEF CallPending, CallKept, CallsInv
  <1>4. CallKeyed(d)'
    BY DEF CallKeyed, CallKept, CallsInv, Remote!PathOf
  <1>5. CallHosted(d)'
    BY DEF CallHosted, CallKept, CallsInv, Remote!Serves
  <1>. QED BY <1>2, <1>3, <1>4, <1>5 DEF CallHolds

\* what the caller does
LEMMA CallerSteps ==
    ASSUME CallsInv, NEW c \in RemoteCall,
           \/ \E n, a : a \in Agent \cup {None} /\ Remote!Ask(c, n, a)
           \/ \E n : Remote!Unsent(c, n)
           \/ Remote!NoConnection(c) \/ Remote!Send(c) \/ Remote!Hear(c) \/ Remote!GiveUp(c)
    PROVE  (\A d \in RemoteCall : CallHolds(d)) /\ Remote!TypeOK' => \A d \in RemoteCall : CallHolds(d)'
  <1> USE DEF CallsInv, Remote!TypeOK, Remote!hubVars
  <1> SUFFICES ASSUME NEW d \in RemoteCall, CallHolds(c) PROVE CallHolds(d)'
    BY DEF CallHolds
  <1>1. UNCHANGED <<id, callsResult, effects, revoked, host, done>>
    BY DEF Remote!Ask, Remote!Unsent, Remote!NoConnection, Remote!Send, Remote!Hear, Remote!GiveUp
  <1>2. CASE d # c
    <2>1. CallKept(d)
      <3>1. CASE \E n, a : Remote!Ask(c, n, a)
        BY <1>1, <1>2, <3>1 DEF CallKept, Remote!Ask
      <3>2. CASE \E n : Remote!Unsent(c, n)
        BY <1>1, <1>2, <3>2 DEF CallKept, Remote!Unsent, Remote!Ends
      <3>3. CASE Remote!NoConnection(c) \/ Remote!GiveUp(c)
        BY <1>1, <1>2, <3>3 DEF CallKept, Remote!NoConnection, Remote!GiveUp, Remote!Ends
      <3>4. CASE Remote!Send(c)
        BY <1>1, <1>2, <3>4 DEF CallKept, Remote!Send, Remote!TypeOKBooleans
      <3>5. CASE Remote!Hear(c)
        BY <1>1, <1>2, <3>5 DEF CallKept, Remote!Hear, Remote!Ends
      <3>. QED BY <3>1, <3>2, <3>3, <3>4, <3>5
    <2>. QED BY <1>1, <2>1, CallElsewhere
  <1>3. CASE d = c
    <2>1. CASE \E n, a : a \in Agent \cup {None} /\ Remote!Ask(c, n, a)
      <3>1. PICK n, a : Remote!Ask(c, n, a)
        BY <2>1
      <3>2. /\ callsPc[c] = "idle" /\ callsPc'[c] = "dialing" /\ method'[c] = Remote!Wire(n)
            /\ agent'[c] = a /\ a \in Remote!Actors(Remote!Wire(n))
            /\ UNCHANGED <<stage, effects, answer, callsLate>>
        BY <3>1 DEF Remote!Ask
      <3>4. agent'[c] \in Remote!Actors(method'[c])
        BY <3>2
      <3>5. /\ stage'[c] = "none" /\ effects'[c] = 0 /\ answer'[c] = "none" /\ ~ callsLate'[c]
        BY <3>2 DEF CallHolds, CallUnsent
      <3>. QED BY <1>3, <3>2, <3>4, <3>5 DEF CallHolds, CallUnsent, CallPending, CallKeyed, CallHosted,
              Remote!InFlight
    <2>2. CASE \E n : Remote!Unsent(c, n)
      <3>1. /\ callsPc'[c] = "over" /\ stage'[c] = "none" /\ effects'[c] = 0 /\ callsLate'[c] = callsLate[c]
            /\ ~ callsLate[c] /\ agent'[c] = agent[c] /\ method'[c] = method[c]
            /\ method[c] \in Remote!Reading
            /\ answer'[c] \in {"ok", "unsupported"}
        BY <2>2 DEF Remote!Unsent, Remote!Ends, CallHolds, CallUnsent
      <3>. QED BY <1>3, <3>1 DEF CallHolds, CallUnsent, CallPending, CallKeyed, CallHosted,
              CallDone, Remote!InFlight
    <2>3. CASE Remote!NoConnection(c)
      <3>1. /\ callsPc'[c] \in {"again", "over"} /\ stage'[c] = "none" /\ effects'[c] = 0
            /\ callsLate'[c] = callsLate[c] /\ ~ callsLate[c] /\ agent'[c] = agent[c] /\ method'[c] = method[c]
            /\ agent[c] \in Remote!Actors(method[c])
            /\ answer'[c] = "none" \/ (answer'[c] \in {"rejected", "transport"} /\ callsPc'[c] = "over")
        BY <2>3 DEF Remote!NoConnection, Remote!Ends, CallHolds, CallUnsent
      <3>2. CallUnsent(c)' /\ CallPending(c)'
        BY <3>1 DEF CallUnsent, CallPending, Remote!InFlight
      <3>3. CallKeyed(c)' /\ CallHosted(c)'
        BY <3>1 DEF CallKeyed, CallHosted, Remote!InFlight
      <3>. QED BY <1>3, <3>2, <3>3 DEF CallHolds
    <2>4. CASE Remote!Send(c)
      <3>1. /\ callsPc'[c] = "waiting" /\ stage'[c] = "received" /\ effects'[c] = 0
            /\ agent'[c] = agent[c] /\ method'[c] = method[c] /\ answer'[c] = "none"
            /\ callsLate'[c] = revoked /\ served'[c] = Remote!Serves(agent[c])
        BY <2>4 DEF Remote!Send, CallHolds, CallUnsent, Remote!TypeOKBooleans
      <3>2. CallUnsent(c)' /\ CallPending(c)'
        BY <3>1 DEF CallHolds, CallUnsent, CallPending, Remote!InFlight
      <3>3. CallKeyed(c)'
        BY <1>1, <3>1 DEF CallKeyed, Remote!InFlight
      <3>4. Remote!Serves(agent[c])' = Remote!Serves(agent[c])
        BY <1>1, <3>1 DEF Remote!Serves
      <3>5. CallHosted(c)'
        BY <3>1, <3>4 DEF CallHosted
      <3>. QED BY <1>3, <3>2, <3>3, <3>5 DEF CallHolds
    <2>5. CASE Remote!Hear(c)
      <3>1. PICK word :
                /\ Remote!Ends(c, word)
                /\ word = "ok" => callsResult[c] = "ok"
                /\ word = "badKey" => callsResult[c] = "badKey"
                /\ word # "unsupported"
        BY <2>5 DEF Remote!Hear, Remote!LocalHears, Remote!LocalMisses, Remote!CommunityHears,
                Remote!CommunityMisses, Remote!Outcomes
      <3>2. /\ callsPc[c] = "waiting" /\ stage[c] = "answered"
            /\ callsPc'[c] = "over" /\ answer'[c] = word /\ stage'[c] = stage[c]
            /\ agent'[c] = agent[c] /\ method'[c] = method[c] /\ callsLate'[c] = callsLate[c]
            /\ served'[c] = served[c]
        BY <2>5, <3>1 DEF Remote!Hear, Remote!Ends
      <3>3. CallDone(c) => CallDone(c)'
        BY <1>1, <3>2 DEF CallDone
      <3>. QED BY <1>1, <1>3, <3>1, <3>2, <3>3 DEF CallHolds, CallUnsent, CallPending, CallKeyed,
              CallHosted, Remote!InFlight, Remote!Serves, Remote!PathOf
    <2>6. CASE Remote!GiveUp(c)
      <3>1. /\ callsPc[c] = "waiting" /\ callsPc'[c] = "over" /\ answer'[c] \in {"rejected", "transport"}
            /\ stage'[c] = stage[c] /\ agent'[c] = agent[c] /\ method'[c] = method[c]
            /\ callsLate'[c] = callsLate[c] /\ served'[c] = served[c]
        BY <2>6 DEF Remote!GiveUp, Remote!Ends
      <3>2. CallDone(c) => CallDone(c)'
        BY <1>1, <3>1 DEF CallDone
      <3>. QED BY <1>1, <1>3, <3>1, <3>2 DEF CallHolds, CallUnsent, CallPending, CallKeyed,
              CallHosted, Remote!InFlight, Remote!Serves, Remote!PathOf
    <2>. QED BY <2>1, <2>2, <2>3, <2>4, <2>5, <2>6
  <1>. QED BY <1>2, <1>3

\* what the hub does for a call, except the method itself
LEMMA HubChecks ==
    ASSUME Remote!CallsAssumption, CallsInv, NEW c \in RemoteCall,
           Remote!Admit(c) \/ Remote!Own(c) \/ Remote!Name(c) \/ Remote!Hosts(c)
               \/ Remote!Grant(c)
    PROVE  (\A d \in RemoteCall : CallHolds(d)) => \A d \in RemoteCall : CallHolds(d)'
  <1> USE DEF CallsInv, Remote!TypeOK, Remote!hubVars
  <1> SUFFICES ASSUME NEW d \in RemoteCall, CallHolds(c) PROVE CallHolds(d)'
    BY DEF CallHolds
  <1>1. /\ UNCHANGED <<callsPc, method, agent, id, answer, effects, callsLate, served, done, revoked, host>>
        /\ \A x \in RemoteCall \ {c} : stage'[x] = stage[x] /\ callsResult'[x] = callsResult[x]
        /\ stage[c] \in Remote!InFlight
    BY DEF Remote!Admit, Remote!Own, Remote!Name, Remote!Hosts, Remote!Grant, Remote!To,
       Remote!Refuse, Remote!Answered, Remote!InFlight
  <1>2. CASE d # c
    <2>1. CallKept(d)
      BY <1>1, <1>2 DEF CallKept
    <2>. QED BY <1>1, <2>1, CallElsewhere
  <1>3. CASE d = c
    <2>1. agent[c] \in Remote!Actors(method[c])
      BY DEF CallHolds, CallUnsent
    <2>2. \/ stage'[c] = "answered" /\ callsResult'[c] # "ok"
          \/ stage'[c] \in {"known", "mine", "named"} /\ ~ revoked /\ callsResult'[c] = callsResult[c]
          \/ stage'[c] = "hosted" /\ Remote!Serves(agent[c]) /\ stage[c] = "named"
                 /\ callsResult'[c] = callsResult[c]
          \/ stage'[c] = "cleared" /\ stage[c] = "hosted" /\ callsResult'[c] = callsResult[c]
          \/ stage'[c] = "granted" /\ stage[c] = "known" /\ Remote!PathOf(c) = "granted"
                 /\ host[agent[c]] = "here" /\ callsResult'[c] = callsResult[c]
      <3>1. CASE Remote!Admit(c)
        BY <3>1 DEF Remote!Admit, Remote!To, Remote!Refuse, Remote!Answered
      <3>2. CASE Remote!Own(c)
        BY <3>2 DEF Remote!Own, Remote!To, Remote!Refuse, Remote!Answered
      <3>3. CASE Remote!Name(c)
        BY <3>3 DEF Remote!Name, Remote!To, Remote!Refuse, Remote!Answered
      <3>4. CASE Remote!Hosts(c)
        BY <3>4 DEF Remote!Hosts, Remote!To, Remote!Refuse, Remote!Answered
      <3>5. CASE Remote!Grant(c)
        BY <3>5 DEF Remote!Grant, Remote!To, Remote!Refuse, Remote!Answered
      <3>. QED BY <3>1, <3>2, <3>3, <3>4, <3>5
    <2>3. stage'[c] = "granted" => Remote!Serves(agent[c])
      <3>1. Remote!PathOf(c) = "granted" => agent[c] # None
        BY DEF Remote!PathOf, Remote!Path, Remote!OwnPath
      <3>. QED BY <2>2, <3>1 DEF Remote!Serves
    <2>4. effects[c] = 0 /\ callsPc[c] # "idle" /\ answer[c] \notin {"ok", "badKey", "unsupported"}
      BY <1>1 DEF CallHolds, CallUnsent, CallPending, Remote!InFlight
    <2>5. CallUnsent(c)'
      BY <1>1, <2>2 DEF CallHolds, CallUnsent, CallPending, Remote!InFlight
    <2>6. CallPending(c)'
      BY <1>1, <2>2, <2>4 DEF CallPending
    <2>7. CallKeyed(c)'
      BY <1>1, <2>2, <2>4 DEF CallHolds, CallKeyed, Remote!InFlight
    <2>8. CallHosted(c)'
      BY <1>1, <2>2, <2>3, <2>4 DEF CallHolds, CallHosted, Remote!Serves, Remote!InFlight
    <2>. QED BY <1>3, <2>5, <2>6, <2>7, <2>8 DEF CallHolds
  <1>. QED BY <1>2, <1>3

\* the method itself
LEMMA HubActs ==
    ASSUME CallsInv, NEW c \in RemoteCall, Remote!Act(c)
    PROVE  (\A d \in RemoteCall : CallHolds(d)) =>
               (\A d \in RemoteCall : CallHolds(d)') /\ \A i \in Id : done'[i] <= 1
  <1> USE DEF CallsInv, Remote!TypeOK, Remote!hubVars
  <1> SUFFICES ASSUME CallHolds(c)
               PROVE  (\A d \in RemoteCall : CallHolds(d)') /\ \A i \in Id : done'[i] <= 1
    BY DEF CallHolds
  <1> DEFINE p == Remote!PathOf(c)
  <1>1. agent[c] \in Remote!Actors(method[c])
    BY DEF CallHolds, CallUnsent
  <1>2. /\ stage[c] \in Remote!InFlight
        /\ agent[c] # None => stage[c] \in {"granted", "hosted", "cleared"}
        /\ stage[c] = "received" => p \in {"open", "sql"}
    BY <1>1, CallPaths, CallStages DEF Remote!Act, Remote!PathOf
  <1>3. effects[c] = 0 /\ callsPc[c] # "idle" /\ answer[c] \notin {"ok", "badKey", "unsupported"}
    BY <1>2 DEF CallHolds, CallUnsent, CallPending, Remote!InFlight
  <1>4. /\ UNCHANGED <<callsPc, method, agent, id, answer, callsLate, served, revoked, host>>
        /\ \A x \in RemoteCall \ {c} : stage'[x] = stage[x] /\ callsResult'[x] = callsResult[x]
        /\ stage'[c] = "answered"
    BY DEF Remote!Act, Remote!Refuse, Remote!Answered
  <1>5. \/ callsResult'[c] # "ok" /\ UNCHANGED <<effects, done>>
        \/ /\ callsResult'[c] = "ok"
           /\ Remote!KeyInside(p) => ~ revoked
           /\ Remote!Effect(c, method[c])
    BY DEF Remote!Act, Remote!Refuse, Remote!Answered
  <1>6. /\ \A x \in RemoteCall \ {c} : effects'[x] = effects[x]
        /\ effects'[c] \in {0, 1}
        /\ \A i \in Id : done'[i] = done[i] \/ (done[i] = 0 /\ done'[i] = 1)
        /\ callsResult'[c] # "ok" => effects'[c] = 0
    <2>1. CASE callsResult'[c] # "ok" /\ UNCHANGED <<effects, done>>
      BY <1>3, <2>1
    <2>2. CASE callsResult'[c] = "ok" /\ Remote!Effect(c, method[c])
      <3>1. id[c] \in Id
        OBVIOUS
      <3>2. CASE method[c] \in Remote!Reading \/ (method[c] \in Remote!Once /\ done[id[c]] > 0)
        BY <1>3, <2>2, <3>2 DEF Remote!Effect
      <3>3. CASE ~ (method[c] \in Remote!Reading \/ (method[c] \in Remote!Once /\ done[id[c]] > 0))
        <4>1. /\ effects' = [effects EXCEPT ![c] = @ + 1]
              /\ done' = done \/ (done[id[c]] = 0 /\ done' = [done EXCEPT ![id[c]] = @ + 1])
          BY <2>2, <3>1, <3>3 DEF Remote!Effect
        <4>2. effects'[c] = 1 /\ \A x \in RemoteCall \ {c} : effects'[x] = effects[x]
          BY <1>3, <4>1
        <4>3. \A i \in Id : done'[i] = done[i] \/ (done[i] = 0 /\ done'[i] = 1)
          BY <3>1, <4>1
        <4>4. callsResult'[c] # "ok" => effects'[c] = 0
          BY <2>2
        <4>. QED BY <4>2, <4>3, <4>4
      <3>. QED BY <3>2, <3>3
    <2>. QED BY <1>5, <2>1, <2>2
  <1>7. callsResult'[c] = "ok" => CallDone(c)'
    <2> SUFFICES ASSUME callsResult'[c] = "ok", method[c] \notin Remote!Reading
                 PROVE  effects'[c] = 1 \/ (method[c] \in Remote!Once /\ done'[id[c]] = 1)
      BY <1>4 DEF CallDone
    <2>1. Remote!Effect(c, method[c]) /\ id[c] \in Id
      BY <1>5
    <2>2. CASE method[c] \in Remote!Once /\ done[id[c]] > 0
      BY <2>1, <2>2 DEF Remote!Effect
    <2>3. CASE ~ (method[c] \in Remote!Once /\ done[id[c]] > 0)
      BY <1>3, <2>1, <2>3 DEF Remote!Effect
    <2>. QED BY <2>2, <2>3
  <1>8. ASSUME NEW d \in RemoteCall, d # c PROVE CallHolds(d)'
    <2>1. CallKept(d)
      BY <1>4, <1>6, <1>8 DEF CallKept
    <2>. QED BY <1>4, <1>6, <2>1, CallElsewhere
  <1>9. CallHolds(c)'
    <2>1. CallUnsent(c)'
      BY <1>2, <1>4 DEF CallHolds, CallUnsent, Remote!InFlight
    <2>2. CallPending(c)'
      BY <1>3, <1>4, <1>6, <1>7 DEF CallPending, Remote!InFlight
    <2>3. CallKeyed(c)'
      <3>1. p # "open" /\ effects'[c] > 0 => ~ callsLate[c]
        BY <1>2, <1>5, <1>6 DEF CallHolds, CallKeyed, Remote!KeyInside
      <3>. QED BY <1>4, <3>1 DEF CallHolds, CallKeyed, Remote!PathOf, Remote!InFlight
    <2>4. CallHosted(c)'
      BY <1>2, <1>4 DEF CallHolds, CallHosted, Remote!Serves, Remote!InFlight
    <2>. QED BY <2>1, <2>2, <2>3, <2>4 DEF CallHolds
  <1>10. \A i \in Id : done'[i] <= 1
    BY <1>6
  <1>. QED BY <1>8, <1>9, <1>10

\* a caller beside the hub's own database
LEMMA InsideActs ==
    ASSUME CallsInv, NEW c \in RemoteCall, NEW n, NEW a \in Agent \cup {None}, Remote!Inside(c, n, a)
    PROVE  (\A d \in RemoteCall : CallHolds(d)) =>
               (\A d \in RemoteCall : CallHolds(d)') /\ \A i \in Id : done'[i] <= 1
  <1> USE DEF CallsInv, Remote!TypeOK, Remote!hubVars
  <1> SUFFICES ASSUME CallHolds(c)
               PROVE  (\A d \in RemoteCall : CallHolds(d)') /\ \A i \in Id : done'[i] <= 1
    BY DEF CallHolds
  <1>1. effects[c] = 0 /\ stage[c] = "none" /\ ~ callsLate[c]
    BY DEF CallHolds, CallUnsent, Remote!Inside
  <1>2. /\ UNCHANGED <<id, stage, callsResult, callsLate, revoked, host>>
        /\ callsPc'[c] = "over" /\ served'[c] = TRUE
        /\ method'[c] = Remote!Wire(n) /\ agent'[c] = a /\ a \in Remote!Actors(Remote!Wire(n))
        /\ \A x \in RemoteCall \ {c} : /\ callsPc'[x] = callsPc[x] /\ method'[x] = method[x]
                                       /\ agent'[x] = agent[x] /\ answer'[x] = answer[x]
    <2>1. \E word : Remote!Ends(c, word)
      BY DEF Remote!Inside
    <2>2. /\ callsPc'[c] = "over"
          /\ \A x \in RemoteCall \ {c} : callsPc'[x] = callsPc[x] /\ answer'[x] = answer[x]
      BY <2>1 DEF Remote!Ends
    <2>3. served'[c] = TRUE
      BY DEF Remote!Inside, Remote!TypeOKBooleans
    <2>4. /\ method'[c] = Remote!Wire(n) /\ agent'[c] = a
          /\ a \in Remote!Actors(Remote!Wire(n))
          /\ \A x \in RemoteCall \ {c} : method'[x] = method[x] /\ agent'[x] = agent[x]
      BY DEF Remote!Inside
    <2>5. UNCHANGED <<id, stage, callsResult, callsLate, revoked, host>>
      BY DEF Remote!Inside
    <2>. QED BY <2>2, <2>3, <2>4, <2>5
  <1>3. \A x \in RemoteCall \ {c} : served'[x] = served[x]
    BY DEF Remote!Inside, Remote!TypeOKBooleans
  <1>4. \/ answer'[c] = "rejected" /\ UNCHANGED <<effects, done>>
        \/ answer'[c] = "ok" /\ Remote!Effect(c, Remote!Wire(n))
    <2>1. CASE Remote!Ends(c, "rejected") /\ UNCHANGED <<effects, done>>
      BY <2>1 DEF Remote!Ends
    <2>2. CASE Remote!Ends(c, "ok") /\ Remote!Effect(c, Remote!Wire(n))
      BY <2>2 DEF Remote!Ends
    <2>. QED BY <2>1, <2>2, Zenon DEF Remote!Inside
  <1>5. /\ \A x \in RemoteCall \ {c} : effects'[x] = effects[x]
        /\ effects'[c] \in {0, 1}
        /\ \A i \in Id : done'[i] = done[i] \/ (done[i] = 0 /\ done'[i] = 1)
    BY <1>1, <1>4 DEF Remote!Effect
  <1>6. answer'[c] = "ok" => CallDone(c)'
    BY <1>1, <1>2, <1>4, <1>5 DEF CallDone, Remote!Effect
  <1>7. ASSUME NEW d \in RemoteCall, d # c PROVE CallHolds(d)'
    <2>1. CallKept(d)
      BY <1>2, <1>3, <1>5, <1>7 DEF CallKept
    <2>. QED BY <1>2, <1>5, <2>1, CallElsewhere
  <1>8. CallHolds(c)'
    BY <1>1, <1>2, <1>4, <1>5, <1>6
       DEF CallHolds, CallUnsent, CallPending, CallKeyed, CallHosted, Remote!InFlight
  <1>9. \A i \in Id : done'[i] <= 1
    BY <1>5
  <1>. QED BY <1>7, <1>8, <1>9

\* what happens to the hub
LEMMA HubEvents ==
    ASSUME Remote!CallsAssumption, CallsInv,
           \/ Remote!Stops \/ Remote!Starts \/ Remote!Revoke \/ Remote!Dies
           \/ \E a \in Agent, h \in {"here", "elsewhere", "any"} : Remote!Move(a, h)
    PROVE  (\A d \in RemoteCall : CallHolds(d)) => \A d \in RemoteCall : CallHolds(d)'
  <1> USE DEF CallsInv, Remote!TypeOK, Remote!hubVars
  <1> SUFFICES ASSUME NEW d \in RemoteCall, CallHolds(d) PROVE CallHolds(d)'
    OBVIOUS
  <1>1. CASE Remote!Stops \/ Remote!Starts \/ Remote!Revoke
    <2>1. CallKept(d) /\ (revoked => revoked') /\ UNCHANGED <<host, done>>
      BY <1>1 DEF CallKept, Remote!Stops, Remote!Starts, Remote!Revoke
    <2>. QED BY <2>1, CallElsewhere
  <1>2. CASE Remote!Dies
    <2>1. /\ UNCHANGED <<callsPc, method, agent, id, answer, callsResult, effects, callsLate, served, done,
                         revoked, host>>
          /\ stage'[d] = stage[d] \/ (stage'[d] = "gone" /\ stage[d] # "none")
      BY <1>2 DEF Remote!Dies
    <2>2. CallDone(d) => CallDone(d)'
      BY <2>1 DEF CallDone
    <2>3. CallUnsent(d)'
      BY <2>1 DEF CallHolds, CallUnsent
    <2>4. CallPending(d)'
      BY <2>1, <2>2 DEF CallHolds, CallPending, Remote!InFlight
    <2>5. CallKeyed(d)'
      BY <2>1 DEF CallHolds, CallKeyed, Remote!PathOf, Remote!InFlight
    <2>6. CallHosted(d)'
      BY <2>1 DEF CallHolds, CallHosted, Remote!Serves
    <2>. QED BY <2>3, <2>4, <2>5, <2>6 DEF CallHolds
  <1>3. ASSUME NEW a \in Agent, NEW h \in {"here", "elsewhere", "any"}, Remote!Move(a, h)
        PROVE  CallHolds(d)'
    <2>1. /\ UNCHANGED <<callsPc, method, agent, id, answer, stage, callsResult, effects, callsLate, done, revoked>>
          /\ host' = [host EXCEPT ![a] = h]
          /\ served'[d] = (served[d] \/ (agent[d] = a /\ h # "elsewhere"))
      BY <1>3 DEF Remote!Move
    <2>2. CallDone(d) => CallDone(d)'
      BY <2>1 DEF CallDone
    <2>3. CallUnsent(d)'
      BY <2>1 DEF CallHolds, CallUnsent
    <2>4. CallPending(d)'
      BY <2>1, <2>2 DEF CallHolds, CallPending
    <2>5. CallKeyed(d)'
      BY <2>1 DEF CallHolds, CallKeyed, Remote!PathOf
    <2>6. CallHosted(d)'
      BY <2>1 DEF CallHolds, CallHosted, Remote!Serves, Remote!CallsAssumption
    <2>. QED BY <2>3, <2>4, <2>5, <2>6 DEF CallHolds
  <1>. QED BY <1>1, <1>2, <1>3

LEMMA CallsStep ==
    ASSUME Remote!CallsAssumption, CallsInv, [Remote!Next]_(Remote!vars)
    PROVE  CallsInv'
  <1>1. CASE UNCHANGED Remote!vars
    BY <1>1 DEF Remote!vars, Remote!hubVars, CallsInv, Remote!TypeOK, Remote!TypeOKBooleans,
       CallUnsent, CallPending, CallKeyed, CallHosted, CallDone, Remote!Serves, Remote!PathOf
  <1>2. CASE Remote!Next
    <2>1. Remote!TypeOK' /\ Remote!TypeOKBooleans'
      BY <1>2, CallsKeepType, CallsKeepBooleans
    <2>2. \A d \in RemoteCall : CallHolds(d)
      BY DEF CallsInv, CallHolds
    <2>3. (\A d \in RemoteCall : CallHolds(d)') /\ \A i \in Id : done'[i] <= 1
      <3>1. ASSUME NEW c \in RemoteCall,
                   \/ \E n, a : a \in Agent \cup {None} /\ Remote!Ask(c, n, a)
                   \/ \E n : Remote!Unsent(c, n)
                   \/ Remote!NoConnection(c) \/ Remote!Send(c) \/ Remote!Hear(c)
                   \/ Remote!GiveUp(c)
            PROVE  (\A d \in RemoteCall : CallHolds(d)') /\ UNCHANGED done
        <4>1. UNCHANGED done
          BY <3>1 DEF Remote!Ask, Remote!Unsent, Remote!NoConnection, Remote!Send, Remote!Hear,
             Remote!GiveUp, Remote!hubVars
        <4>. QED BY <2>1, <2>2, <3>1, <4>1, CallerSteps
      <3>2. ASSUME NEW c \in RemoteCall, Remote!HubStep(c)
            PROVE  (\A d \in RemoteCall : CallHolds(d)') /\ \A i \in Id : done'[i] <= 1
        <4>1. CASE Remote!Act(c)
          BY <2>2, <4>1, HubActs
        <4>2. CASE Remote!Admit(c) \/ Remote!Own(c) \/ Remote!Name(c) \/ Remote!Hosts(c)
                       \/ Remote!Grant(c)
          <5>1. UNCHANGED done
            BY <4>2 DEF Remote!Admit, Remote!Own, Remote!Name, Remote!Hosts, Remote!Grant,
               Remote!To, Remote!Refuse, Remote!hubVars
          <5>. QED BY <2>2, <4>2, <5>1, HubChecks DEF CallsInv
        <4>. QED BY <3>2, <4>1, <4>2 DEF Remote!HubStep
      <3>3. ASSUME NEW c \in RemoteCall, NEW n, NEW a \in Agent \cup {None}, Remote!Inside(c, n, a)
            PROVE  (\A d \in RemoteCall : CallHolds(d)') /\ \A i \in Id : done'[i] <= 1
        BY <2>2, <3>3, InsideActs
      <3>4. ASSUME \/ Remote!Stops \/ Remote!Starts \/ Remote!Revoke \/ Remote!Dies
                   \/ \E a \in Agent, h \in {"here", "elsewhere", "any"} : Remote!Move(a, h)
            PROVE  (\A d \in RemoteCall : CallHolds(d)') /\ UNCHANGED done
        <4>1. UNCHANGED done
          BY <3>4 DEF Remote!Stops, Remote!Starts, Remote!Revoke, Remote!Dies, Remote!Move
        <4>. QED BY <2>2, <3>4, <4>1, HubEvents
      <3>5. \A i \in Id : done[i] <= 1
        BY DEF CallsInv
      <3>. QED BY <1>2, <3>1, <3>2, <3>3, <3>4, <3>5 DEF Remote!Next
    <2>. QED BY <2>1, <2>3 DEF CallsInv, CallHolds
  <1>. QED BY <1>1, <1>2

\* Whatever gets lost on the way, a call does what its caller is told, once.
THEOREM CallsHold ==
    ASSUME Remote!CallsAssumption PROVE Remote!Spec => []Remote!CallsSafe
  <1>1. Remote!Init => CallsInv
    <2> SUFFICES ASSUME Remote!Init PROVE CallsInv
      OBVIOUS
    <2>1. Remote!TypeOK
      BY DEF Remote!Init, Remote!TypeOK, Remote!Answers, Remote!Stages, Remote!Outcomes
    <2>2. Remote!TypeOKBooleans
      BY Zenon DEF Remote!Init, Remote!TypeOKBooleans
    <2>3. ASSUME NEW c \in RemoteCall
          PROVE  CallUnsent(c) /\ CallPending(c) /\ CallKeyed(c) /\ CallHosted(c)
      <3>1. None \in Remote!Actors("hub_name")
        BY DEF Remote!Actors, Remote!ForHost, Remote!Granted
      <3>2. "hub_name" \in Remote!Reading
        <4>1. Remote!ToolCalls \in Remote!Areas
          BY DEF Remote!Areas, Remote!LocalAreas
        <4>2. "hub_name" \in Remote!ToolCalls.reads
          BY DEF Remote!ToolCalls
        <4>. QED BY <4>1, <4>2 DEF Remote!Reading
      <3>. QED BY <3>1, <3>2 DEF Remote!Init, CallUnsent, CallPending, CallKeyed, CallHosted,
              Remote!InFlight
    <2>. QED BY <2>1, <2>2, <2>3 DEF Remote!Init, CallsInv
  <1>2. CallsInv => Remote!CallsSafe
    <2> SUFFICES ASSUME CallsInv PROVE Remote!CallsSafe
      OBVIOUS
    <2>1. Remote!OnceOnly
      BY DEF CallsInv, CallPending, Remote!OnceOnly
    <2>2. Remote!AnswersTrue
      BY DEF CallsInv, CallPending, CallDone, Remote!AnswersTrue
    <2>3. Remote!LateKeysOut
      <3>1. ASSUME NEW c \in RemoteCall PROVE effects[c] > 0 \/ effects[c] = 0
        BY DEF CallsInv, Remote!TypeOK
      <3>. QED BY <3>1 DEF CallsInv, CallKeyed, Remote!LateKeysOut
    <2>4. Remote!OnlyHostsAct
      BY DEF CallsInv, CallHosted, Remote!OnlyHostsAct
    <2>. QED BY <2>1, <2>2, <2>3, <2>4 DEF Remote!CallsSafe
  <1>. QED BY <1>1, <1>2, CallsStep, PTL DEF Remote!Spec

\* Beside everything else, a call that RemoteLocalHub or HubClient sends takes effect at
\* most once, also when its request id is sent again, only for a key that was valid and an
\* agent that its computer ran, and whoever is told of success can rely on it.
THEOREM FleetAnswers == Spec => []CallsSafe
  <1>1. Init => Remote!Init
    BY DEF Init
  <1>2. [Next]_vars => [Remote!Next]_(Remote!vars)
    <2>1. UNCHANGED callsVars => UNCHANGED Remote!vars
      BY DEF callsVars, Remote!vars
    <2>2. Next => Remote!Next \/ UNCHANGED callsVars
      BY DEF Next
    <2>3. UNCHANGED vars => UNCHANGED callsVars
      BY DEF vars
    <2>. QED BY <2>1, <2>2, <2>3
  <1>. QED BY <1>1, <1>2, RemoteAssumed, CallsHold, PTL DEF Spec, Remote!Spec, CallsSafe
=============================================================================
