-------------------------- MODULE SourceSyncPlans --------------------------
(***************************************************************************)
(* What a plan of SourceSync holds and in which order: lemmas about the    *)
(* operators that write plans, for any number of sources, names, versions  *)
(* and revisions and any cap.                                              *)
(***************************************************************************)
EXTENDS SourceSync, FiniteSetTheorems, SequenceTheorems, WellFoundedInduction, TLAPS

----------------------------------------------------------------------------
(* Least elements                                                          *)

Below == {ss \in Nat \X Nat : ss[1] < ss[2]}

LEMMA BelowWellFounded == IsWellFoundedOn(Below, Nat)
  BY NatLessThanWellFounded DEF OpToRel, Below

LEMMA LeastNumber ==
  ASSUME NEW T, T \subseteq Nat, T # {}
  PROVE  \E n \in T : \A m \in T : n <= m
  <1>1. PICK n \in T : \A m \in T : ~(<<m, n>> \in Below)
    <2>1. T \subseteq Nat
      OBVIOUS
    <2> QED BY <2>1, BelowWellFounded, WFMin
  <1>2. ASSUME NEW m \in T PROVE n <= m
    <2>1. n \in Nat /\ m \in Nat
      OBVIOUS
    <2>2. ~(m < n)
      BY <1>1, <1>2, <2>1 DEF Below
    <2> QED BY <2>1, <2>2
  <1> QED BY <1>2

----------------------------------------------------------------------------
(* Sets of numbers in their order                                          *)

Upto(S, n) == {m \in S : m <= n}

LEMMA Counted ==
  ASSUME NEW S, IsFiniteSet(S)
  PROVE  Cardinality(S) \in Nat
  BY FS_CardinalityType

LEMMA UptoFinite ==
  ASSUME NEW S, IsFiniteSet(S), NEW n
  PROVE  /\ IsFiniteSet(Upto(S, n)) /\ Cardinality(Upto(S, n)) \in Nat
         /\ Cardinality(Upto(S, n)) <= Cardinality(S)
  <1>1. Upto(S, n) \in SUBSET S
    BY DEF Upto
  <1>2. IsFiniteSet(Upto(S, n)) /\ Cardinality(Upto(S, n)) <= Cardinality(S)
    BY <1>1, FS_Subset
  <1> QED BY <1>2, Counted

\* Taking the largest member out takes one member out.
LEMMA UptoPrevious ==
  ASSUME NEW S, S \subseteq Nat, IsFiniteSet(S), NEW n \in S, NEW k \in Nat,
         \A m \in S : m < n => m <= k, k < n
  PROVE  Cardinality(Upto(S, k)) = Cardinality(Upto(S, n)) - 1
  <1>1. ASSUME NEW m \in S PROVE m <= k <=> m <= n /\ m # n
    <2>1. m \in Nat /\ n \in Nat
      OBVIOUS
    <2>2. m < n => m <= k
      OBVIOUS
    <2> QED BY <2>1, <2>2
  <1>2. n \in Upto(S, n)
    <2>1. n \in Nat
      OBVIOUS
    <2> QED BY <2>1 DEF Upto
  <1>4. Upto(S, k) = Upto(S, n) \ {n}
    BY <1>1, Zenon DEF Upto
  <1>3. IsFiniteSet(Upto(S, n))
    BY UptoFinite
  <1> QED BY <1>2, <1>3, <1>4, FS_RemoveElement

\* Some number has all of a finite set of numbers below it.
LEMMA FiniteBounded ==
  ASSUME NEW S, S \subseteq Nat, IsFiniteSet(S)
  PROVE  \E b \in Nat : \A m \in S : m <= b
  <1> DEFINE Unbounded(Q) == \A b \in Nat : \E m \in Q : b < m
             T == {k \in Nat : \E Q : /\ Q \subseteq Nat /\ IsFiniteSet(Q) /\ Unbounded(Q)
                               /\ Cardinality(Q) = k}
  <1>1. SUFFICES ASSUME T # {} PROVE FALSE
    <2>1. Cardinality(S) \in Nat
      BY Counted
    <2>2. ~Unbounded(S)
      BY <1>1, <2>1
    <2> QED BY <2>2
  <1>2. PICK k \in T : \A m \in T : k <= m
    <2> HIDE DEF T
    <2>1. T \subseteq Nat
      BY DEF T
    <2> QED BY <1>1, <2>1, LeastNumber
  <1>3. PICK Q : Q \subseteq Nat /\ IsFiniteSet(Q) /\ Unbounded(Q) /\ Cardinality(Q) = k
    BY <1>2
  <1>4. PICK q \in Q : TRUE
    BY <1>3
  <1>5. IsFiniteSet(Q \ {q}) /\ Cardinality(Q \ {q}) = k - 1
    BY <1>3, <1>4, FS_RemoveElement
  <1>6. Unbounded(Q \ {q})
    <2> SUFFICES ASSUME NEW b \in Nat PROVE \E m \in Q \ {q} : b < m
      OBVIOUS
    <2>1. q \in Nat
      BY <1>3
    <2>2. PICK c \in Nat : b <= c /\ q <= c
      BY <2>1
    <2>3. PICK m \in Q : c < m
      BY <1>3
    <2>4. m \in Nat
      BY <1>3
    <2> QED BY <2>1, <2>2, <2>3, <2>4
  <1>7. k - 1 \in Nat
    BY <1>3, <1>4, FS_EmptySet, Counted
  <1>8. k - 1 \in T
    <2>1. Q \ {q} \subseteq Nat
      BY <1>3
    <2> QED BY <1>5, <1>6, <1>7, <2>1
  <1>9. k \in Nat /\ k <= k - 1
    <2> HIDE DEF T
    <2>1. k \in Nat
      BY DEF T
    <2> QED BY <1>2, <1>8, <2>1
  <1> QED BY <1>9

\* The i-th member of a set is a member, with i members up to it.
LEMMA InOrderMember ==
  ASSUME NEW S, S \subseteq Nat, IsFiniteSet(S), NEW i \in 1..Cardinality(S)
  PROVE  InOrder(S)[i] \in S /\ Cardinality(Upto(S, InOrder(S)[i])) = i
  <1> DEFINE T == {n \in Nat : i <= Cardinality(Upto(S, n))}
  <1>1. T # {}
    <2>1. PICK b \in Nat : \A m \in S : m <= b
      BY FiniteBounded
    <2>2. Upto(S, b) = S
      BY <2>1 DEF Upto
    <2>3. Cardinality(S) \in Nat /\ i <= Cardinality(S)
      BY Counted
    <2> QED BY <2>1, <2>2, <2>3
  <1>0. i \in Nat /\ 1 <= i
    BY Counted
  <1>2. PICK n \in T : \A m \in T : n <= m
    <2> HIDE DEF T
    <2>1. T \subseteq Nat
      BY DEF T
    <2> QED BY <1>1, <2>1, LeastNumber
  <1>7. n \in Nat /\ i <= Cardinality(Upto(S, n))
    BY <1>2
  <1>8. ASSUME NEW m \in Nat, m < n
        PROVE  ~(i <= Cardinality(Upto(S, m)))
    <2>1. m \in T => n <= m
      BY <1>2
    <2> QED BY <1>7, <1>8, <2>1
  <1> HIDE DEF T
  <1>3. n \in S
    <2> SUFFICES ASSUME n \notin S PROVE FALSE
      OBVIOUS
    <2>1. CASE n = 0
      <3>1. ASSUME NEW m \in S PROVE ~(m <= n)
        <4>1. m \in Nat /\ m # 0
          BY <2>1
        <4> QED BY <2>1, <4>1
      <3>2. Upto(S, n) = {}
        BY <3>1, Zenon DEF Upto
      <3>3. Cardinality(Upto(S, n)) = 0
        BY <3>2, FS_EmptySet
      <3> QED BY <1>0, <1>7, <3>3
    <2>2. CASE n # 0
      <3>1. n - 1 \in Nat /\ n - 1 < n
        BY <1>7, <2>2
      <3>2. ASSUME NEW m \in S PROVE m <= n - 1 <=> m <= n
        <4>1. m \in Nat /\ m # n
          OBVIOUS
        <4> QED BY <1>7, <4>1
      <3>3. Upto(S, n - 1) = Upto(S, n)
        BY <3>2, Zenon DEF Upto
      <3> QED BY <1>7, <1>8, <3>1, <3>3
    <2> QED BY <2>1, <2>2
  <1>4. Cardinality(Upto(S, n)) = i
    <2>1. CASE n = 0
      <3>1. ASSUME NEW m \in S PROVE m <= n <=> m = n
        <4>1. m \in Nat
          OBVIOUS
        <4> QED BY <2>1, <4>1
      <3>2. Upto(S, n) = {n}
        BY <1>3, <3>1, Zenon DEF Upto
      <3>3. Cardinality(Upto(S, n)) = 1
        BY <3>2, FS_Singleton
      <3> QED BY <1>0, <1>7, <3>3
    <2>2. CASE n # 0
      <3>1. n - 1 \in Nat /\ n - 1 < n
        BY <1>7, <2>2
      <3>2. ASSUME NEW m \in S, m < n PROVE m <= n - 1
        <4>1. m \in Nat
          OBVIOUS
        <4> QED BY <1>7, <3>2, <4>1
      <3>3. Cardinality(Upto(S, n - 1)) = Cardinality(Upto(S, n)) - 1
        BY <1>3, <3>1, <3>2, UptoPrevious
      <3>4. ~(i <= Cardinality(Upto(S, n - 1)))
        BY <1>8, <3>1
      <3>5. Cardinality(Upto(S, n)) \in Nat
        BY UptoFinite
      <3> QED BY <1>0, <1>7, <3>3, <3>4, <3>5
    <2> QED BY <2>1, <2>2
  <1>5. InOrder(S)[i] = CHOOSE m \in S : Cardinality(Upto(S, m)) = i
    BY DEF InOrder, Upto
  <1> QED BY <1>3, <1>4, <1>5

\* More members lie up to a larger member.
LEMMA UptoGrows ==
  ASSUME NEW S, S \subseteq Nat, IsFiniteSet(S), NEW m \in S, NEW n \in S, m < n
  PROVE  Cardinality(Upto(S, m)) < Cardinality(Upto(S, n))
  <1>0. m \in Nat /\ n \in Nat
    OBVIOUS
  <1>4. ASSUME NEW x \in S, x <= m PROVE x <= n /\ x # n
    <2>1. x \in Nat
      OBVIOUS
    <2> QED BY <1>0, <1>4, <2>1
  <1>5. n \in Upto(S, n)
    BY <1>0 DEF Upto
  <1>1. Upto(S, m) \subseteq Upto(S, n) \ {n} /\ n \in Upto(S, n)
    BY <1>4, <1>5, Zenon DEF Upto
  <1>2. /\ IsFiniteSet(Upto(S, n) \ {n})
        /\ Cardinality(Upto(S, n) \ {n}) = Cardinality(Upto(S, n)) - 1
    BY <1>1, UptoFinite, FS_RemoveElement
  <1>3. Cardinality(Upto(S, m)) <= Cardinality(Upto(S, n) \ {n})
    BY <1>1, <1>2, FS_Subset
  <1> QED BY <1>2, <1>3, UptoFinite

\* Members are placed by how many there are up to them.
LEMMA UptoOrder ==
  ASSUME NEW S, S \subseteq Nat, IsFiniteSet(S), NEW m \in S, NEW n \in S
  PROVE  m < n <=> Cardinality(Upto(S, m)) < Cardinality(Upto(S, n))
  <1>1. m \in Nat /\ n \in Nat
    OBVIOUS
  <1>2. Cardinality(Upto(S, m)) \in Nat /\ Cardinality(Upto(S, n)) \in Nat
    BY UptoFinite
  <1>3. n < m => Cardinality(Upto(S, n)) < Cardinality(Upto(S, m))
    BY UptoGrows
  <1>4. m < n => Cardinality(Upto(S, m)) < Cardinality(Upto(S, n))
    BY UptoGrows
  <1> QED BY <1>1, <1>2, <1>3, <1>4

LEMMA InOrderRises ==
  ASSUME NEW S, S \subseteq Nat, IsFiniteSet(S),
         NEW i \in 1..Cardinality(S), NEW j \in 1..Cardinality(S), i < j
  PROVE  InOrder(S)[i] < InOrder(S)[j]
  <1>1. /\ InOrder(S)[i] \in S /\ Cardinality(Upto(S, InOrder(S)[i])) = i
        /\ InOrder(S)[j] \in S /\ Cardinality(Upto(S, InOrder(S)[j])) = j
    BY InOrderMember
  <1>2. ASSUME NEW m \in S, NEW n \in S, Cardinality(Upto(S, m)) = i,
               Cardinality(Upto(S, n)) = j
        PROVE  m < n
    BY <1>2, UptoOrder
  <1> QED BY <1>1, <1>2

\* Every member has its place in the order.
LEMMA InOrderOnto ==
  ASSUME NEW S, S \subseteq Nat, IsFiniteSet(S), NEW n \in S
  PROVE  \E i \in 1..Cardinality(S) : InOrder(S)[i] = n
  <1>0. n \in Nat
    OBVIOUS
  <1>1. Cardinality(Upto(S, n)) \in 1..Cardinality(S)
    <2>1. n \in Upto(S, n)
      BY <1>0 DEF Upto
    <2>2. /\ IsFiniteSet(Upto(S, n)) /\ Cardinality(Upto(S, n)) \in Nat
          /\ Cardinality(Upto(S, n)) <= Cardinality(S) /\ Cardinality(S) \in Nat
      BY UptoFinite, Counted
    <2>3. Cardinality(Upto(S, n)) # 0
      BY <2>1, <2>2, FS_EmptySet
    <2> QED BY <2>2, <2>3
  <1>2. PICK i \in 1..Cardinality(S) : i = Cardinality(Upto(S, n))
    BY <1>1
  <1>3. InOrder(S)[i] \in S /\ Cardinality(Upto(S, InOrder(S)[i])) = i
    BY InOrderMember
  <1>4. ASSUME NEW m \in S, Cardinality(Upto(S, m)) = i
        PROVE  m = n
    <2>1. m \in Nat
      OBVIOUS
    <2>2. ~(m < n) /\ ~(n < m)
      <3>1. i \in Nat /\ Cardinality(Upto(S, m)) = Cardinality(Upto(S, n))
        BY <1>2, <1>4, UptoFinite
      <3>2. m < n <=> Cardinality(Upto(S, m)) < Cardinality(Upto(S, n))
        BY UptoOrder
      <3>3. n < m <=> Cardinality(Upto(S, n)) < Cardinality(Upto(S, m))
        BY UptoOrder
      <3>4. ~(i < i)
        BY <3>1
      <3> QED BY <1>2, <1>4, <3>2, <3>3, <3>4
    <2> QED BY <1>0, <2>1, <2>2
  <1> QED BY <1>3, <1>4

----------------------------------------------------------------------------
(* Recursive functions                                                     *)

\* f gives what each step makes of the last value, from a first one on.
Iterates(f, V, a, step, k) ==
    f \in [0..k -> V] /\ f[0] = a /\ \A i \in 1..k : f[i] = step[i][f[i - 1]]

LEMMA Iterated ==
  ASSUME NEW V, NEW a, a \in V, NEW step, step \in [Nat -> [V -> V]], NEW N, N \in Nat
  PROVE  \E f : Iterates(f, V, a, step, N)
  <1> DEFINE Makes(f, k) == Iterates(f, V, a, step, k)
             T == {k \in Nat : ~\E f : Makes(f, k)}
  <1> USE DEF Iterates
  <1>1. SUFFICES ASSUME T # {} PROVE FALSE
    <2>1. \E f : Makes(f, N)
      BY <1>1
    <2> QED BY <2>1
  <1>2. PICK k \in T : \A m \in T : k <= m
    <2> HIDE DEF T
    <2>1. T \subseteq Nat
      BY DEF T
    <2> QED BY <1>1, <2>1, LeastNumber
  <1>3. k \in Nat /\ ~\E f : Makes(f, k)
    BY <1>2
  <1>4. CASE k = 0
    <2>1. Makes([i \in 0..0 |-> a], 0)
      OBVIOUS
    <2> QED BY <1>3, <1>4, <2>1
  <1>5. CASE k # 0
    <2>1. k - 1 \in Nat /\ k - 1 < k
      BY <1>3, <1>5
    <2>2. k - 1 \notin T
      <3>1. ~(k <= k - 1)
        BY <1>3
      <3> HIDE DEF T
      <3> QED BY <1>2, <3>1
    <2>3. PICK f : Makes(f, k - 1)
      <3> HIDE DEF Makes
      <3> QED BY <2>1, <2>2
    <2> DEFINE g == [i \in 0..k |-> IF i < k THEN f[i] ELSE step[k][f[k - 1]]]
    <2>4. ASSUME NEW i \in 0..k PROVE g[i] \in V
      <3>1. f[k - 1] \in V
        BY <2>1, <2>3
      <3>2. step[k][f[k - 1]] \in V
        BY <1>3, <3>1
      <3>3. i < k => f[i] \in V
        BY <1>3, <2>3
      <3> QED BY <3>2, <3>3
    <2>5. g[0] = a
      BY <1>3, <1>5, <2>3
    <2>6. ASSUME NEW i \in 1..k PROVE g[i] = step[i][g[i - 1]]
      <3>0. i \in Nat /\ i - 1 \in 0..k /\ i - 1 < k /\ i \in 0..k /\ i <= k
        BY <1>3
      <3>1. g[i - 1] = f[i - 1]
        BY <3>0
      <3>2. CASE i = k
        BY <1>3, <3>0, <3>1, <3>2
      <3>3. CASE i < k
        <4>1. i \in 1..(k - 1)
          BY <1>3, <3>0, <3>3
        <4>2. f[i] = step[i][f[i - 1]]
          BY <2>3, <4>1
        <4>3. g[i] = f[i]
          BY <3>0, <3>3
        <4> QED BY <3>1, <4>2, <4>3
      <3> QED BY <1>3, <3>0, <3>2, <3>3
    <2>7. g \in [0..k -> V]
      BY <2>4
    <2> HIDE DEF g
    <2>8. Makes(g, k)
      BY <2>5, <2>6, <2>7
    <2> QED BY <1>3, <2>8
  <1> QED BY <1>4, <1>5

----------------------------------------------------------------------------
(* Sequences of changes                                                    *)

\* The sequence holds the members of the set and nothing else.
Lists(t, S) == t \in Seq(S) /\ \A x \in S : \E i \in 1..Len(t) : t[i] = x

LEMMA CountedSeq ==
  ASSUME NEW n \in Nat, NEW S, NEW t \in [1..n -> S]
  PROVE  t \in Seq(S) /\ Len(t) = n
  <1>1. t \in Seq(S)
    BY SeqDef
  <1>2. Len(t) \in Nat /\ 1..n = 1..Len(t)
    BY <1>1, LenProperties
  <1>3. Len(t) # 0 => Len(t) \in 1..n
    BY <1>2
  <1>4. n # 0 => n \in 1..Len(t)
    BY <1>2
  <1> QED BY <1>1, <1>2, <1>3, <1>4

LEMMA ListsNone == Lists(<<>>, {})
  BY DEF Lists

LEMMA ListsOne ==
  ASSUME NEW x
  PROVE  Lists(<<x>>, {x})
  BY DEF Lists

LEMMA ListsConcat ==
  ASSUME NEW A, NEW B, NEW s, NEW t, Lists(s, A), Lists(t, B)
  PROVE  Lists(s \o t, A \union B)
  <1>1. s \in Seq(A \union B) /\ t \in Seq(A \union B)
    BY SeqMonotonic DEF Lists
  <1>2. /\ s \o t \in Seq(A \union B) /\ Len(s \o t) = Len(s) + Len(t)
        /\ \A i \in 1..Len(s) + Len(t) :
              (s \o t)[i] = IF i <= Len(s) THEN s[i] ELSE t[i - Len(s)]
    BY <1>1, ConcatProperties
  <1>3. Len(s) \in Nat /\ Len(t) \in Nat
    BY <1>1, LenProperties
  <1>4. ASSUME NEW x \in A PROVE \E i \in 1..Len(s \o t) : (s \o t)[i] = x
    <2>1. PICK i \in 1..Len(s) : s[i] = x
      BY DEF Lists
    <2>2. i \in 1..Len(s) + Len(t) /\ i <= Len(s)
      BY <1>3
    <2> QED BY <1>2, <2>1, <2>2
  <1>5. ASSUME NEW x \in B PROVE \E i \in 1..Len(s \o t) : (s \o t)[i] = x
    <2>1. PICK i \in 1..Len(t) : t[i] = x
      BY DEF Lists
    <2>2. /\ i + Len(s) \in 1..Len(s) + Len(t) /\ ~(i + Len(s) <= Len(s))
          /\ (i + Len(s)) - Len(s) = i
      BY <1>3
    <2> QED BY <1>2, <2>1, <2>2
  <1> QED BY <1>2, <1>4, <1>5 DEF Lists

\* A list of what a function gives for the members of a set, in their order.
LEMMA ListsEach ==
  ASSUME NEW S, S \subseteq Nat, IsFiniteSet(S), NEW g, DOMAIN g = S, NEW t,
         t = [i \in 1..Cardinality(S) |-> g[InOrder(S)[i]]]
  PROVE  Lists(t, {g[n] : n \in S}) /\ Len(t) = Cardinality(S)
  <1>1. Cardinality(S) \in Nat
    BY Counted
  <1>2. \A i \in 1..Cardinality(S) : InOrder(S)[i] \in S
    BY InOrderMember
  <1>3. t \in [1..Cardinality(S) -> {g[n] : n \in S}]
    BY <1>2
  <1>4. t \in Seq({g[n] : n \in S}) /\ Len(t) = Cardinality(S)
    BY <1>1, <1>3, IsASeq, LenProperties
  <1>5. ASSUME NEW n \in S PROVE \E i \in 1..Len(t) : t[i] = g[n]
    <2>1. PICK i \in 1..Cardinality(S) : InOrder(S)[i] = n
      BY InOrderOnto
    <2>2. t[i] = g[n]
      BY <2>1
    <2>3. i \in 1..Len(t)
      BY <1>4, <2>1
    <2> QED BY <2>2, <2>3
  <1>6. ASSUME NEW x \in {g[n] : n \in S} PROVE \E i \in 1..Len(t) : t[i] = x
    <2>1. PICK n \in S : x = g[n]
      OBVIOUS
    <2>2. PICK i \in 1..Len(t) : t[i] = g[n]
      BY <1>5
    <2> QED BY <2>1, <2>2, Zenon
  <1> QED BY <1>4, <1>6 DEF Lists

\* FlattenSeq is the last of the concatenations of the first few sequences.
Flattens(f, seqs, C) ==
    /\ f \in [0..Len(seqs) -> Seq(C)] /\ f[0] = <<>> /\ FlattenSeq(seqs) = f[Len(seqs)]
    /\ \A i \in 1..Len(seqs) : seqs[i] \in Seq(C) /\ f[i] = f[i - 1] \o seqs[i]

LEMMA Flattening ==
  ASSUME NEW C, NEW seqs \in Seq(Seq(C))
  PROVE  \E f : Flattens(f, seqs, C)
  <1> DEFINE N == Len(seqs)
             step == [i \in Nat |-> [t \in Seq(C) |-> IF i \in 1..N THEN t \o seqs[i] ELSE t]]
  <1>1. N \in Nat /\ \A i \in 1..N : seqs[i] \in Seq(C)
    OBVIOUS
  <1>2. step \in [Nat -> [Seq(C) -> Seq(C)]]
    <2>1. ASSUME NEW i \in Nat, NEW t \in Seq(C)
          PROVE  (IF i \in 1..N THEN t \o seqs[i] ELSE t) \in Seq(C)
      BY <1>1, ConcatProperties
    <2> QED BY <2>1
  <1>3. <<>> \in Seq(C)
    OBVIOUS
  <1>4. PICK f : Iterates(f, Seq(C), <<>>, step, N)
    <2> HIDE DEF step, N
    <2>1. N \in Nat
      BY <1>1
    <2> QED BY <1>2, <1>3, <2>1, Iterated
  <1> USE DEF Iterates
  <1>5. ASSUME NEW i \in 1..N PROVE f[i] = f[i - 1] \o seqs[i]
    <2>1. i \in Nat /\ i - 1 \in 0..N
      BY <1>1
    <2>2. f[i - 1] \in Seq(C)
      BY <1>4, <2>1
    <2>4. step[i][f[i - 1]] = f[i - 1] \o seqs[i]
      BY <2>1, <2>2
    <2> QED BY <1>4, <2>4
  <1>8. 1 - 1 = 0 /\ (N # 0 => N \in 1..N)
    BY <1>1
  <1>6. FlattenSeq(seqs) = f[N]
    <2>1. CASE N = 0
      <3>1. seqs = <<>>
        BY <2>1, EmptySeq
      <3> QED BY <1>4, <2>1, <3>1 DEF FlattenSeq
    <2>2. CASE N # 0
      <3> DEFINE Flat(h) == h = [i \in 1..N |-> IF i = 1 THEN seqs[i] ELSE h[i - 1] \o seqs[i]]
                 h0 == [i \in 1..N |-> f[i]]
      <3>1. Flat(h0)
        <4>1. ASSUME NEW i \in 1..N
              PROVE  f[i] = IF i = 1 THEN seqs[i] ELSE h0[i - 1] \o seqs[i]
          <5>1. CASE i = 1
            <6>1. i - 1 = 0
              BY <5>1
            <6>3. f[i] = f[i - 1] \o seqs[i]
              BY <1>5
            <6>4. f[i] = <<>> \o seqs[i]
              BY <1>4, <6>1, <6>3, Zenon
            <6>2. <<>> \o seqs[1] = seqs[1]
              BY <1>1, <5>1, ConcatEmptySeq
            <6> QED BY <5>1, <6>2, <6>4
          <5>2. CASE i # 1
            <6>1. i - 1 \in 1..N
              BY <1>1, <5>2
            <6> QED BY <1>5, <5>2, <6>1
          <5> QED BY <5>1, <5>2
        <4> QED BY <4>1
      <3>2. FlattenSeq(seqs) = (CHOOSE h : Flat(h))[N]
        BY <2>2 DEF FlattenSeq
      <3> DEFINE h1 == CHOOSE h : Flat(h)
      <3>3. Flat(h1)
        BY <3>1
      <3> HIDE DEF h1
      <3>4. ASSUME NEW i \in 1..N PROVE h1[i] = IF i = 1 THEN seqs[i] ELSE h1[i - 1] \o seqs[i]
        BY <3>3
      <3> HIDE DEF Flat, h0
      <3> DEFINE T == {k \in Nat : k \in 1..N /\ h1[k] # f[k]}
      <3>5. ASSUME T # {} PROVE FALSE
        <4>1. PICK k \in T : \A m \in T : k <= m
          <5> HIDE DEF T
          <5>1. T \subseteq Nat
            BY DEF T
          <5> QED BY <3>5, <5>1, LeastNumber
        <4>2. k \in Nat /\ k \in 1..N /\ h1[k] # f[k]
          BY <4>1
        <4>3. CASE k = 1
          <5>1. k - 1 = 0
            BY <4>3
          <5>3. f[k] = f[k - 1] \o seqs[k]
            BY <1>5, <4>2
          <5>4. f[k] = <<>> \o seqs[k]
            BY <1>4, <5>1, <5>3, Zenon
          <5>5. h1[k] = seqs[k]
            BY <3>4, <4>2, <4>3
          <5>2. <<>> \o seqs[1] = seqs[1]
            BY <1>1, <4>2, <4>3, ConcatEmptySeq
          <5> QED BY <4>2, <4>3, <5>2, <5>4, <5>5
        <4>4. CASE k # 1
          <5>1. k - 1 \in 1..N /\ k - 1 \in Nat /\ k - 1 < k
            BY <1>1, <4>2, <4>4
          <5>2. h1[k - 1] = f[k - 1]
            BY <4>1, <5>1
          <5>3. f[k] = f[k - 1] \o seqs[k] /\ h1[k] = h1[k - 1] \o seqs[k]
            BY <1>5, <3>4, <4>2, <4>4
          <5> QED BY <4>2, <5>2, <5>3
        <4> QED BY <4>3, <4>4
      <3>6. h1[N] = f[N]
        <4>1. N \in Nat /\ N \in 1..N /\ N \notin T
          BY <1>1, <1>8, <2>2, <3>5
        <4> QED BY <4>1
      <3> QED BY <3>2, <3>6 DEF h1
    <2> QED BY <2>1, <2>2
  <1>7. \A i \in 1..N : seqs[i] \in Seq(C) /\ f[i] = f[i - 1] \o seqs[i]
    BY <1>1, <1>5
  <1> QED BY <1>4, <1>6, <1>7 DEF Flattens

\* What may come before what: nothing after the state write, no link behind a rule
\* file or an unlink, no rule file behind an unlink, no delete of a directory behind
\* what makes or fills it, and no mkdir behind what fills it.
May(a, b) ==
    /\ a.kind # "state"
    /\ b.kind = "link" => a.kind \notin {"rules", "unlink"}
    /\ b.kind = "rules" => a.kind # "unlink"
    /\ b.kind = "delete-store" /\ a.kind \in {"mkdir-store", "write-store"} =>
           a.source # b.source
    /\ b.kind = "delete-pending" /\ a.kind \in {"mkdir-pending", "write-pending"} =>
           a.source # b.source
    /\ b.kind = "mkdir-store" /\ a.kind = "write-store" => a.source # b.source
    /\ b.kind = "mkdir-pending" /\ a.kind = "write-pending" => a.source # b.source

InTurn(t) == \A i \in 1..Len(t), j \in 1..Len(t) : i < j => May(t[i], t[j])

LEMMA InTurnConcat ==
  ASSUME NEW A, NEW B, NEW s, NEW t, s \in Seq(A), t \in Seq(B), InTurn(s), InTurn(t),
         \A a \in A, b \in B : May(a, b)
  PROVE  InTurn(s \o t)
  <1>1. s \in Seq(A \union B) /\ t \in Seq(A \union B)
    BY SeqMonotonic
  <1>2. /\ Len(s \o t) = Len(s) + Len(t)
        /\ \A i \in 1..Len(s) + Len(t) :
              (s \o t)[i] = IF i <= Len(s) THEN s[i] ELSE t[i - Len(s)]
    BY <1>1, ConcatProperties
  <1>3. Len(s) \in Nat /\ Len(t) \in Nat
    BY <1>1, LenProperties
  <1>4. \A i \in 1..Len(s) : s[i] \in A
    BY ElementOfSeq
  <1>5. \A i \in 1..Len(t) : t[i] \in B
    BY ElementOfSeq
  <1>6. ASSUME NEW i \in 1..Len(s) + Len(t), NEW j \in 1..Len(s) + Len(t), i < j
        PROVE  May((s \o t)[i], (s \o t)[j])
    <2>0. i \in Nat /\ j \in Nat
      BY <1>3
    <2>1. CASE j <= Len(s)
      <3>1. i \in 1..Len(s) /\ j \in 1..Len(s) /\ i <= Len(s)
        BY <1>3, <1>6, <2>0, <2>1
      <3>2. (s \o t)[i] = s[i] /\ (s \o t)[j] = s[j]
        BY <1>2, <2>1, <3>1
      <3> QED BY <1>6, <3>1, <3>2 DEF InTurn
    <2>2. CASE i <= Len(s) /\ ~(j <= Len(s))
      <3>1. i \in 1..Len(s) /\ j - Len(s) \in 1..Len(t)
        BY <1>3, <2>0, <2>2
      <3>2. (s \o t)[i] = s[i] /\ (s \o t)[j] = t[j - Len(s)]
        BY <1>2, <2>2
      <3>3. s[i] \in A /\ t[j - Len(s)] \in B
        BY <1>4, <1>5, <3>1
      <3> QED BY <3>2, <3>3
    <2>3. CASE ~(i <= Len(s))
      <3>1. /\ i - Len(s) \in 1..Len(t) /\ j - Len(s) \in 1..Len(t)
            /\ i - Len(s) < j - Len(s) /\ ~(j <= Len(s))
        BY <1>3, <1>6, <2>0, <2>3
      <3>2. (s \o t)[i] = t[i - Len(s)] /\ (s \o t)[j] = t[j - Len(s)]
        BY <1>2, <2>3, <3>1
      <3> QED BY <3>1, <3>2 DEF InTurn
    <2> QED BY <1>3, <2>0, <2>1, <2>2, <2>3
  <1> QED BY <1>2, <1>6 DEF InTurn

\* A list in which every change is in turn.
Placed(t, S) == Lists(t, S) /\ InTurn(t)

LEMMA PlacedConcat ==
  ASSUME NEW A, NEW B, NEW s, NEW t, Placed(s, A), Placed(t, B),
         \A a \in A, b \in B : May(a, b)
  PROVE  Placed(s \o t, A \union B)
  <1>1. Lists(s \o t, A \union B)
    BY ListsConcat DEF Placed
  <1>2. s \in Seq(A) /\ t \in Seq(B)
    BY DEF Placed, Lists
  <1>3. InTurn(s \o t)
    BY <1>2, InTurnConcat DEF Placed
  <1> QED BY <1>1, <1>3 DEF Placed

\* Changes any two of which may come in either order are in turn.
LEMMA InTurnLoose ==
  ASSUME NEW A, NEW t \in Seq(A), \A a \in A, b \in A : May(a, b)
  PROVE  InTurn(t)
  <1>1. \A i \in 1..Len(t) : t[i] \in A
    BY ElementOfSeq
  <1> QED BY <1>1 DEF InTurn

LEMMA InTurnTail ==
  ASSUME NEW A, NEW t \in Seq(A), t # <<>>, InTurn(t)
  PROVE  /\ InTurn(Tail(t)) /\ Tail(t) \in Seq(A)
         /\ \A i \in 1..Len(Tail(t)) : May(Head(t), Tail(t)[i])
  <1>1. /\ Tail(t) \in Seq(A) /\ Len(Tail(t)) = Len(t) - 1
        /\ \A i \in 1..Len(Tail(t)) : Tail(t)[i] = t[i + 1]
    BY HeadTailProperties
  <1>2. Len(t) \in Nat /\ Len(t) # 0 /\ Head(t) = t[1]
    BY LenProperties, EmptySeq
  <1>3. ASSUME NEW i \in 1..Len(Tail(t)), NEW j \in 1..Len(Tail(t)), i < j
        PROVE  May(Tail(t)[i], Tail(t)[j])
    <2>1. i + 1 \in 1..Len(t) /\ j + 1 \in 1..Len(t) /\ i + 1 < j + 1
      BY <1>1, <1>2, <1>3
    <2>2. May(t[i + 1], t[j + 1])
      BY <2>1 DEF InTurn
    <2> QED BY <1>1, <2>2
  <1>4. ASSUME NEW i \in 1..Len(Tail(t)) PROVE May(Head(t), Tail(t)[i])
    <2>1. 1 \in 1..Len(t) /\ i + 1 \in 1..Len(t) /\ 1 < i + 1
      BY <1>1, <1>2
    <2>2. May(t[1], t[i + 1])
      BY <2>1 DEF InTurn
    <2> QED BY <1>1, <1>2, <2>2
  <1> QED BY <1>1, <1>3, <1>4 DEF InTurn

\* The sequences a function gives for the members of a set, one behind the other.
Joining(seqs, S, g, G) ==
    /\ S \subseteq Nat /\ IsFiniteSet(S) /\ DOMAIN g = S /\ DOMAIN G = S
    /\ \A s \in S : Placed(g[s], G[s])
    /\ \A s \in S, r \in S : s # r => \A a \in G[s], b \in G[r] : May(a, b)
    /\ seqs = [i \in 1..Cardinality(S) |-> g[InOrder(S)[i]]]

LEMMA PlacedJoined ==
  ASSUME NEW S, NEW g, NEW G, NEW seqs, Joining(seqs, S, g, G)
  PROVE  Placed(FlattenSeq(seqs), UNION {G[s] : s \in S})
  <1> USE DEF Joining
  <1> DEFINE C == UNION {G[s] : s \in S}
             N == Cardinality(S)
             At(i) == InOrder(S)[i]
             First(k) == UNION {G[At(i)] : i \in 1..k}
  <1>1. N \in Nat /\ \A i \in 1..N : At(i) \in S
    BY Counted, InOrderMember
  <1>2. \A i \in 1..N, j \in 1..N : i < j => At(i) # At(j)
    <2>1. ASSUME NEW i \in 1..N, NEW j \in 1..N, i < j PROVE At(i) # At(j)
      <3>1. At(i) < At(j) /\ At(i) \in S /\ At(j) \in S
        BY <1>1, <2>1, InOrderRises
      <3>2. At(i) \in Nat /\ At(j) \in Nat
        BY <3>1
      <3> QED BY <3>1, <3>2
    <2> QED BY <2>1
  <1>3. \A s \in S : g[s] \in Seq(C)
    <2>1. ASSUME NEW s \in S PROVE g[s] \in Seq(C)
      <3>1. G[s] \subseteq C /\ g[s] \in Seq(G[s])
        BY DEF Placed, Lists
      <3> QED BY <3>1, SeqMonotonic
    <2> QED BY <2>1
  <1>4. seqs \in Seq(Seq(C)) /\ Len(seqs) = N /\ \A i \in 1..N : seqs[i] = g[At(i)]
    <2>1. seqs \in [1..N -> Seq(C)]
      BY <1>1, <1>3
    <2>2. seqs \in Seq(Seq(C)) /\ Len(seqs) = N
      <3> DEFINE D == Seq(C)
      <3>1. N \in Nat /\ seqs \in [1..N -> D]
        BY <1>1, <2>1
      <3> HIDE DEF D, N
      <3>2. seqs \in Seq(D)
        BY <3>1, CountedSeq
      <3>3. Len(seqs) = N
        BY <3>1, CountedSeq
      <3> QED BY <3>2, <3>3 DEF D
    <2> QED BY <2>2
  <1> HIDE DEF At
  <1>9. PICK f : Flattens(f, seqs, C)
    <2> HIDE DEF C
    <2> QED BY <1>4, Flattening
  <1>5. /\ f \in [0..N -> Seq(C)] /\ f[0] = <<>> /\ FlattenSeq(seqs) = f[N]
        /\ \A i \in 1..N : seqs[i] \in Seq(C) /\ f[i] = f[i - 1] \o seqs[i]
    BY <1>4, <1>9 DEF Flattens
  <1> DEFINE Good(k) == Lists(f[k], First(k)) /\ InTurn(f[k])
             T == {k \in 0..N : ~Good(k)}
  <1>6. ASSUME T # {} PROVE FALSE
    <2>1. PICK k \in T : \A m \in T : k <= m
      <3> HIDE DEF T
      <3>1. T \subseteq Nat
        BY DEF T
      <3> QED BY <1>6, <3>1, LeastNumber
    <2>2. k \in 0..N /\ ~Good(k) /\ k \in Nat
      BY <2>1
    <2>3. CASE k = 0
      <3>1. First(0) = {}
        OBVIOUS
      <3>2. f[0] = <<>> /\ InTurn(<<>>)
        BY <1>5 DEF InTurn
      <3> QED BY <2>2, <2>3, <3>1, <3>2, ListsNone
    <2>4. CASE k # 0
      <3>1. k - 1 \in 0..N /\ k - 1 < k /\ k \in 1..N
        BY <1>1, <2>2, <2>4
      <3>2. Good(k - 1)
        <4> HIDE DEF Good
        <4>1. k - 1 \notin T
          <5>1. ~(k <= k - 1)
            BY <2>2
          <5> HIDE DEF T
          <5> QED BY <2>1, <5>1
        <4> QED BY <3>1, <4>1
      <3>3. f[k] = f[k - 1] \o g[At(k)] /\ At(k) \in S
        BY <1>1, <1>4, <1>5, <3>1
      <3>4. First(k) = First(k - 1) \union G[At(k)]
        <4>1. \A i \in 1..k : i \in 1..(k - 1) \/ i = k
          BY <2>2
        <4>2. \A i \in 1..(k - 1) : i \in 1..k
          BY <2>2
        <4> QED BY <3>1, <4>1, <4>2
      <3>5. Lists(f[k], First(k))
        <4> HIDE DEF First
        <4>1. Lists(f[k - 1], First(k - 1))
          BY <3>2
        <4>2. Lists(g[At(k)], G[At(k)])
          BY <3>3 DEF Placed
        <4>3. Lists(f[k - 1] \o g[At(k)], First(k - 1) \union G[At(k)])
          BY <4>1, <4>2, ListsConcat
        <4> QED BY <3>3, <3>4, <4>3
      <3>6. \A a \in First(k - 1), b \in G[At(k)] : May(a, b)
        <4>1. ASSUME NEW i \in 1..(k - 1), NEW a \in G[At(i)], NEW b \in G[At(k)]
              PROVE  May(a, b)
          <5>1. i \in 1..N /\ i < k
            BY <1>1, <2>2
          <5>2. At(i) \in S /\ At(i) # At(k)
            BY <1>1, <1>2, <3>1, <5>1
          <5> QED BY <3>3, <5>2
        <4> QED BY <4>1
      <3>7. InTurn(f[k])
        <4> HIDE DEF First
        <4>1. f[k - 1] \in Seq(First(k - 1)) /\ InTurn(f[k - 1])
          BY <3>2 DEF Lists
        <4>2. g[At(k)] \in Seq(G[At(k)]) /\ InTurn(g[At(k)])
          BY <3>3 DEF Placed, Lists
        <4> QED BY <3>3, <3>6, <4>1, <4>2, InTurnConcat
      <3> QED BY <2>2, <3>5, <3>7
    <2> QED BY <2>3, <2>4
  <1>7. Good(N)
    <2> HIDE DEF Good
    <2>1. N \in 0..N
      BY <1>1
    <2> QED BY <1>6, <2>1
  <1>8. First(N) = C
    <2>1. ASSUME NEW s \in S PROVE \E i \in 1..N : At(i) = s
      BY InOrderOnto DEF At
    <2> QED BY <1>1, <2>1
  <1> QED BY <1>5, <1>7, <1>8 DEF Placed

----------------------------------------------------------------------------
(* Types                                                                   *)

Trees == [Names -> Versions \union {0}]

Dirs == [there : BOOLEAN, files : Trees]

Entries == [added : BOOLEAN, review : BOOLEAN, due : BOOLEAN, select : SUBSET Names,
            fetched : Trees, pending : Trees, elders : SUBSET Sources]

Docs == [Sources -> Entries]

\* The disk, the state file and what upstreams publish.
Typed ==
    /\ published \in [Sources -> 1..Len(Revisions)]
    /\ state \in Docs
    /\ off \in SUBSET Names
    /\ store \in [Sources -> Dirs] /\ pending \in [Sources -> Dirs]
    /\ rules \in [Sources -> Trees]
    /\ bodies \in [Names -> Sources \union {0}]

LEMMA FiniteNumbers ==
  ASSUME NEW S, S \subseteq Names \/ S \subseteq Sources
  PROVE  S \subseteq Nat /\ IsFiniteSet(S)
  BY SyncAssumption, FS_Subset DEF SyncAssumption

----------------------------------------------------------------------------
(* What the pieces of a plan hold                                          *)

LinkSet(s, wanted) ==
    {Change("destination", "link", s, n, 0) : n \in {m \in wanted : bodies[m] # s}}

LEMMA LinksList ==
  ASSUME NEW s, NEW wanted, wanted \subseteq Names
  PROVE  Lists(Links(s, wanted), LinkSet(s, wanted))
  <1> DEFINE S == {n \in wanted : bodies[n] # s}
             g == [n \in S |-> Change("destination", "link", s, n, 0)]
             t == Links(s, wanted)
  <1>1. S \subseteq Nat /\ IsFiniteSet(S)
    BY FiniteNumbers
  <1>2. t = [i \in 1..Cardinality(S) |-> g[InOrder(S)[i]]]
    <2>1. \A i \in 1..Cardinality(S) : InOrder(S)[i] \in S
      BY <1>1, InOrderMember
    <2> QED BY <2>1 DEF Links, Each
  <1>3. {g[n] : n \in S} = LinkSet(s, wanted)
    BY DEF LinkSet
  <1> HIDE DEF S, g, t
  <1>4. DOMAIN g = S
    BY DEF g
  <1>5. Lists(t, {g[n] : n \in S})
    BY <1>1, <1>2, <1>4, ListsEach
  <1> QED BY <1>3, <1>5 DEF t

UnlinkSet(blocks, doc) ==
    {Change("removal", "unlink", 0, n, 0) :
        n \in {m \in Names \ Wanted(blocks) : Sweepable(DOMAIN blocks, doc) /\ bodies[m] # 0}}

LEMMA UnlinksList ==
  ASSUME NEW blocks, NEW doc
  PROVE  Lists(SweepBodies(blocks, doc), UnlinkSet(blocks, doc))
  <1> DEFINE S == {n \in Names \ Wanted(blocks) : Sweepable(DOMAIN blocks, doc) /\ bodies[n] # 0}
             g == [n \in S |-> Change("removal", "unlink", 0, n, 0)]
             t == SweepBodies(blocks, doc)
  <1>1. S \subseteq Nat /\ IsFiniteSet(S)
    BY FiniteNumbers
  <1>2. t = [i \in 1..Cardinality(S) |-> g[InOrder(S)[i]]]
    <2>1. \A i \in 1..Cardinality(S) : InOrder(S)[i] \in S
      BY <1>1, InOrderMember
    <2> QED BY <2>1 DEF SweepBodies, Each
  <1>3. {g[n] : n \in S} = UnlinkSet(blocks, doc)
    BY DEF UnlinkSet
  <1> HIDE DEF S, g, t
  <1>4. DOMAIN g = S
    BY DEF g
  <1>5. Lists(t, {g[n] : n \in S})
    BY <1>1, <1>2, <1>4, ListsEach
  <1> QED BY <1>3, <1>5 DEF t

StoreSweepSet(doc) ==
    {Change("orphan", "delete-store", s, 0, 0) : s \in {r \in Sources \ Added(doc) : store[r].there}}

LEMMA StoreSweepList ==
  ASSUME NEW doc
  PROVE  Lists(SweepStore(doc), StoreSweepSet(doc))
  <1> DEFINE S == {s \in Sources \ Added(doc) : store[s].there}
             g == [s \in S |-> Change("orphan", "delete-store", s, 0, 0)]
             t == SweepStore(doc)
  <1>1. S \subseteq Nat /\ IsFiniteSet(S)
    BY FiniteNumbers
  <1>2. t = [i \in 1..Cardinality(S) |-> g[InOrder(S)[i]]]
    <2>1. \A i \in 1..Cardinality(S) : InOrder(S)[i] \in S
      BY <1>1, InOrderMember
    <2> QED BY <2>1 DEF SweepStore, Each
  <1>3. {g[s] : s \in S} = StoreSweepSet(doc)
    BY DEF StoreSweepSet
  <1> HIDE DEF S, g, t
  <1>4. DOMAIN g = S
    BY DEF g
  <1>5. Lists(t, {g[s] : s \in S})
    BY <1>1, <1>2, <1>4, ListsEach
  <1> QED BY <1>3, <1>5 DEF t

PendingSweepSet(doc) ==
    {Change("orphan", "delete-pending", s, 0, 0) :
        s \in {r \in Sources : pending[r].there /\ doc[r].pending = Empty}}

LEMMA PendingSweepList ==
  ASSUME NEW doc
  PROVE  Lists(SweepPending(doc), PendingSweepSet(doc))
  <1> DEFINE S == {s \in Sources : pending[s].there /\ doc[s].pending = Empty}
             g == [s \in S |-> Change("orphan", "delete-pending", s, 0, 0)]
             t == SweepPending(doc)
  <1>1. S \subseteq Nat /\ IsFiniteSet(S)
    BY FiniteNumbers
  <1>2. t = [i \in 1..Cardinality(S) |-> g[InOrder(S)[i]]]
    <2>1. \A i \in 1..Cardinality(S) : InOrder(S)[i] \in S
      BY <1>1, InOrderMember
    <2> QED BY <2>1 DEF SweepPending, Each
  <1>3. {g[s] : s \in S} = PendingSweepSet(doc)
    BY DEF PendingSweepSet
  <1> HIDE DEF S, g, t
  <1>4. DOMAIN g = S
    BY DEF g
  <1>5. Lists(t, {g[s] : s \in S})
    BY <1>1, <1>2, <1>4, ListsEach
  <1> QED BY <1>3, <1>5 DEF t

RuleSweepSet(doc) ==
    {RuleFile("removal", s, Empty) : s \in {r \in Sources \ Added(doc) : rules[r] # Empty}}

LEMMA RuleSweepList ==
  ASSUME NEW doc
  PROVE  Lists(SweepRules(doc), RuleSweepSet(doc))
  <1> DEFINE S == {s \in Sources \ Added(doc) : rules[s] # Empty}
             g == [s \in S |-> RuleFile("removal", s, Empty)]
             t == SweepRules(doc)
  <1>1. S \subseteq Nat /\ IsFiniteSet(S)
    BY FiniteNumbers
  <1>2. t = [i \in 1..Cardinality(S) |-> g[InOrder(S)[i]]]
    <2>1. \A i \in 1..Cardinality(S) : InOrder(S)[i] \in S
      BY <1>1, InOrderMember
    <2> QED BY <2>1 DEF SweepRules, Each
  <1>3. {g[s] : s \in S} = RuleSweepSet(doc)
    BY DEF RuleSweepSet
  <1> HIDE DEF S, g, t
  <1>4. DOMAIN g = S
    BY DEF g
  <1>5. Lists(t, {g[s] : s \in S})
    BY <1>1, <1>2, <1>4, ListsEach
  <1> QED BY <1>3, <1>5 DEF t

\* The rule files that are written, and those that lose their last line.
WrittenSet(blocks) ==
    {RuleFile("destination", s, blocks[s]) :
        s \in {r \in DOMAIN blocks : rules[r] # blocks[r] /\ blocks[r] # Empty}}

EmptiedRuleSet(blocks) ==
    {RuleFile("removal", s, Empty) :
        s \in {r \in DOMAIN blocks : rules[r] # blocks[r] /\ blocks[r] = Empty}}

LEMMA RuleFilesList ==
  ASSUME NEW blocks, DOMAIN blocks \subseteq Sources
  PROVE  Lists(RuleFiles(blocks), WrittenSet(blocks) \union EmptiedRuleSet(blocks))
  <1> DEFINE differing == {s \in DOMAIN blocks : rules[s] # blocks[s]}
             D == {s \in differing : blocks[s] = Empty}
             S == differing \ D
             g == [s \in S |-> RuleFile("destination", s, blocks[s])]
             h == [s \in D |-> RuleFile("removal", s, Empty)]
             t == [i \in 1..Cardinality(S) |-> g[InOrder(S)[i]]]
             u == [i \in 1..Cardinality(D) |-> h[InOrder(D)[i]]]
  <1>1. S \subseteq Nat /\ IsFiniteSet(S) /\ D \subseteq Nat /\ IsFiniteSet(D)
    <2>1. S \subseteq Sources /\ D \subseteq Sources
      OBVIOUS
    <2> HIDE DEF S, D
    <2> QED BY <2>1, FiniteNumbers
  <1>2. RuleFiles(blocks) = t \o u
    <2>1. \A i \in 1..Cardinality(S) : InOrder(S)[i] \in S
      BY <1>1, InOrderMember
    <2>2. \A i \in 1..Cardinality(D) : InOrder(D)[i] \in D
      BY <1>1, InOrderMember
    <2>3. t = Each(S, LAMBDA s : RuleFile("destination", s, blocks[s]))
      BY <2>1 DEF Each
    <2>4. u = Each(D, LAMBDA s : RuleFile("removal", s, Empty))
      BY <2>2 DEF Each
    <2>5. RuleFiles(blocks) = Each(S, LAMBDA s : RuleFile("destination", s, blocks[s]))
                                 \o Each(D, LAMBDA s : RuleFile("removal", s, Empty))
      BY Zenon DEF RuleFiles
    <2> HIDE DEF t, u
    <2> QED BY <2>3, <2>4, <2>5, Zenon
  <1>3. {g[s] : s \in S} = WrittenSet(blocks) /\ {h[s] : s \in D} = EmptiedRuleSet(blocks)
    BY DEF WrittenSet, EmptiedRuleSet
  <1>4. DOMAIN g = S /\ DOMAIN h = D
    OBVIOUS
  <1> HIDE DEF S, D, g, h
  <1>5. Lists(t, {g[s] : s \in S}) /\ Lists(u, {h[s] : s \in D})
    BY <1>1, <1>4, ListsEach
  <1> HIDE DEF t, u
  <1> QED BY <1>2, <1>3, <1>5, ListsConcat

SwapSet(root, dir, s, tree) ==
    (IF dir[s].there THEN {Change("store", root.delete, s, 0, 0)} ELSE {})
        \union {Change("store", root.mkdir, s, 0, 0)}
        \union {Change("store", root.write, s, n, tree[n]) : n \in NamesIn(tree)}

LEMMA SwapSetKinds ==
  ASSUME NEW root, NEW dir, NEW s, NEW tree, NEW c \in SwapSet(root, dir, s, tree)
  PROVE  /\ c.kind \in {root.delete, root.mkdir, root.write}
         /\ c.source = s /\ c.category = "store"
  BY DEF SwapSet, Change

LEMMA StoreKinds ==
    /\ AtStore.delete = "delete-store" /\ AtStore.mkdir = "mkdir-store"
    /\ AtStore.write = "write-store"
    /\ AtPending.delete = "delete-pending" /\ AtPending.mkdir = "mkdir-pending"
    /\ AtPending.write = "write-pending"
  BY DEF AtStore, AtPending

\* A swap deletes, then makes, then fills.
LEMMA SwapList ==
  ASSUME NEW root \in {AtStore, AtPending}, NEW dir, NEW s, NEW tree
  PROVE  Placed(Swap(root, dir, s, tree), SwapSet(root, dir, s, tree))
  <1> DEFINE S == NamesIn(tree)
             g == [n \in S |-> Change("store", root.write, s, n, tree[n])]
             t == [i \in 1..Cardinality(S) |-> g[InOrder(S)[i]]]
             E == IF dir[s].there THEN {Change("store", root.delete, s, 0, 0)} ELSE {}
             M == {Change("store", root.mkdir, s, 0, 0)}
             W == {Change("store", root.write, s, n, tree[n]) : n \in NamesIn(tree)}
             m == <<Change("store", root.mkdir, s, 0, 0)>>
  <1>1. S \subseteq Nat /\ IsFiniteSet(S)
    BY FiniteNumbers DEF NamesIn
  <1>2. t = Each(S, LAMBDA n : Change("store", root.write, s, n, tree[n]))
    <2>1. \A i \in 1..Cardinality(S) : InOrder(S)[i] \in S
      BY <1>1, InOrderMember
    <2> QED BY <2>1 DEF Each
  <1>3. Swap(root, dir, s, tree) = (Emptied(root, dir, s) \o m) \o t
    <2> HIDE DEF t
    <2> QED BY <1>2, Zenon DEF Swap
  <1>4. Lists(Emptied(root, dir, s), E) /\ InTurn(Emptied(root, dir, s))
    <2>1. CASE dir[s].there
      BY <2>1, ListsOne DEF Emptied, When, InTurn
    <2>2. CASE ~dir[s].there
      BY <2>2, ListsNone DEF Emptied, When, InTurn
    <2> QED BY <2>1, <2>2
  <1>5. Lists(m, M) /\ InTurn(m)
    BY ListsOne DEF InTurn
  <1>6. Lists(t, W)
    <2>1. {g[n] : n \in S} = W /\ DOMAIN g = S
      OBVIOUS
    <2> HIDE DEF S, g, W
    <2> QED BY <1>1, <2>1, ListsEach
  <1>7. /\ \A a \in E, b \in M : May(a, b)
        /\ \A a \in E \union M, b \in W : May(a, b)
        /\ \A a \in W, b \in W : May(a, b)
    <2>1. /\ root.delete \in {"delete-store", "delete-pending"}
          /\ root.mkdir \in {"mkdir-store", "mkdir-pending"}
          /\ root.write \in {"write-store", "write-pending"}
      <3>1. CASE root = AtStore
        BY <3>1 DEF AtStore
      <3>2. CASE root = AtPending
        BY <3>2 DEF AtPending
      <3> QED BY <3>1, <3>2
    <2>2. \A a \in E : a.kind = root.delete
      BY DEF Change
    <2>3. \A a \in M : a.kind = root.mkdir
      BY DEF Change
    <2>4. \A a \in W : a.kind = root.write
      BY DEF Change
    <2> HIDE DEF E, M, W
    <2>5. \A a \in E, b \in M \union W : May(a, b)
      BY <2>1, <2>2, <2>3, <2>4 DEF May
    <2>6. \A a \in M \union W, b \in W : May(a, b)
      BY <2>1, <2>3, <2>4 DEF May
    <2> QED BY <2>5, <2>6
  <1> HIDE DEF E, M, W, m, t
  <1>8. InTurn(t)
    BY <1>6, <1>7, InTurnLoose DEF Lists
  <1>9. Placed(Emptied(root, dir, s) \o m, E \union M)
    BY <1>4, <1>5, <1>7, PlacedConcat DEF Placed
  <1>10. Placed((Emptied(root, dir, s) \o m) \o t, (E \union M) \union W)
    BY <1>6, <1>7, <1>8, <1>9, PlacedConcat DEF Placed
  <1> QED BY <1>3, <1>10 DEF SwapSet, E, M, W

BodySet(s, fresh, tree, lines) ==
    (IF s \in fresh THEN SwapSet(AtStore, store, s, tree) ELSE {})
        \union LinkSet(s, NamesIn(lines))

LEMMA BodySetKinds ==
  ASSUME NEW s, NEW fresh, NEW tree, NEW lines, NEW c \in BodySet(s, fresh, tree, lines)
  PROVE  c.kind \in {"delete-store", "mkdir-store", "write-store", "link"} /\ c.source = s
  <1>1. CASE c \in SwapSet(AtStore, store, s, tree)
    <2>1. c.source = s
      BY <1>1, SwapSetKinds
    <2>2. c.kind \in {"delete-store", "mkdir-store", "write-store"}
      BY <1>1, SwapSetKinds, StoreKinds
    <2> QED BY <2>1, <2>2
  <1>2. CASE c \in LinkSet(s, NamesIn(lines))
    <2>1. c.source = s
      BY <1>2 DEF LinkSet, Change
    <2>2. c.kind = "link"
      BY <1>2 DEF LinkSet, Change
    <2> QED BY <2>1, <2>2
  <1> QED BY <1>1, <1>2 DEF BodySet

LEMMA BodiesPlaced ==
  ASSUME NEW s, NEW fresh, NEW tree, NEW lines
  PROVE  Placed(Bodies(s, fresh, tree, lines), BodySet(s, fresh, tree, lines))
  <1> DEFINE A == IF s \in fresh THEN SwapSet(AtStore, store, s, tree) ELSE {}
             B == LinkSet(s, NamesIn(lines))
             t == When(s \in fresh, Swap(AtStore, store, s, tree))
  <1>1. Placed(t, A)
    <2>1. CASE s \in fresh
      BY <2>1, SwapList DEF When
    <2>2. CASE s \notin fresh
      BY <2>2, ListsNone DEF When, Placed, InTurn
    <2> QED BY <2>1, <2>2
  <1>2. \A b \in B : b.kind = "link"
    BY DEF LinkSet, Change
  <1>3. \A a \in A : a.kind \in {"delete-store", "mkdir-store", "write-store"}
    BY SwapSetKinds, StoreKinds
  <1> HIDE DEF A, B, t
  <1>4. \A a \in A \union B, b \in B : May(a, b)
    BY <1>2, <1>3 DEF May
  <1>5. Placed(Links(s, NamesIn(lines)), B)
    <2>1. Lists(Links(s, NamesIn(lines)), B)
      BY LinksList DEF B, NamesIn
    <2> QED BY <1>4, <2>1, InTurnLoose DEF Placed, Lists
  <1>6. Placed(t \o Links(s, NamesIn(lines)), A \union B)
    BY <1>1, <1>4, <1>5, PlacedConcat
  <1> QED BY <1>6 DEF Bodies, BodySet, t, A, B

AllBodies(works, blocks, fresh, trees) ==
    UNION {BodySet(s, fresh, trees[s], blocks[s]) : s \in works}

LEMMA JoinedBodies ==
  ASSUME NEW S, S \subseteq Sources, NEW blocks, NEW fresh, NEW trees
  PROVE  Placed(Joined(S, LAMBDA s : Bodies(s, fresh, trees[s], blocks[s])),
                AllBodies(S, blocks, fresh, trees))
  <1> DEFINE g == [s \in S |-> Bodies(s, fresh, trees[s], blocks[s])]
             G == [s \in S |-> BodySet(s, fresh, trees[s], blocks[s])]
             seqs == [i \in 1..Cardinality(S) |-> g[InOrder(S)[i]]]
  <1>1. S \subseteq Nat /\ IsFiniteSet(S)
    BY FiniteNumbers
  <1>2. seqs = Each(S, LAMBDA s : Bodies(s, fresh, trees[s], blocks[s]))
    <2>1. \A i \in 1..Cardinality(S) : InOrder(S)[i] \in S
      BY <1>1, InOrderMember
    <2> QED BY <2>1 DEF Each
  <1>3. \A s \in S : Placed(g[s], G[s])
    BY BodiesPlaced
  <1>4. ASSUME NEW s \in S, NEW r \in S, s # r, NEW a \in G[s], NEW b \in G[r]
        PROVE  May(a, b)
    <2>1. /\ a.kind \in {"delete-store", "mkdir-store", "write-store", "link"} /\ a.source = s
          /\ b.kind \in {"delete-store", "mkdir-store", "write-store", "link"} /\ b.source = r
      <3>1. a \in BodySet(s, fresh, trees[s], blocks[s])
        BY <1>4
      <3>2. b \in BodySet(r, fresh, trees[r], blocks[r])
        BY <1>4
      <3> HIDE DEF g, G, seqs
      <3> QED BY <3>1, <3>2, BodySetKinds
    <2> QED BY <1>4, <2>1 DEF May
  <1>5. UNION {G[s] : s \in S} = AllBodies(S, blocks, fresh, trees)
    BY DEF AllBodies
  <1>6. DOMAIN g = S /\ DOMAIN G = S
    OBVIOUS
  <1>7. Placed(FlattenSeq(seqs), UNION {G[s] : s \in S})
    <2> HIDE DEF g, G
    <2>1. \A s \in S, r \in S : s # r => \A a \in G[s], b \in G[r] : May(a, b)
      BY <1>4
    <2>2. \A s \in S : Placed(g[s], G[s])
      BY <1>3
    <2>3. seqs = [i \in 1..Cardinality(S) |-> g[InOrder(S)[i]]]
      OBVIOUS
    <2> HIDE DEF seqs
    <2>4. Joining(seqs, S, g, G)
      BY <1>1, <1>6, <2>1, <2>2, <2>3 DEF Joining
    <2> QED BY <2>4, PlacedJoined
  <1>8. FlattenSeq(seqs) = Joined(S, LAMBDA s : Bodies(s, fresh, trees[s], blocks[s]))
    BY <1>2, Zenon DEF Joined
  <1> HIDE DEF seqs, g, G
  <1> QED BY <1>5, <1>7, <1>8

AllParked(heldNow) == UNION {SwapSet(AtPending, pending, s, Upstream(s)) : s \in heldNow}

LEMMA ParkedKinds ==
  ASSUME NEW s, NEW tree, NEW c \in SwapSet(AtPending, pending, s, tree)
  PROVE  c.kind \in {"delete-pending", "mkdir-pending", "write-pending"} /\ c.source = s
  <1>1. c.source = s
    BY SwapSetKinds
  <1>2. c.kind \in {"delete-pending", "mkdir-pending", "write-pending"}
    BY SwapSetKinds, StoreKinds
  <1> QED BY <1>1, <1>2

LEMMA JoinedParked ==
  ASSUME NEW heldNow, heldNow \subseteq Sources
  PROVE  Placed(Joined(heldNow, LAMBDA s : Swap(AtPending, pending, s, Upstream(s))),
                AllParked(heldNow))
  <1> DEFINE S == heldNow
             g == [s \in S |-> Swap(AtPending, pending, s, Upstream(s))]
             G == [s \in S |-> SwapSet(AtPending, pending, s, Upstream(s))]
             seqs == [i \in 1..Cardinality(S) |-> g[InOrder(S)[i]]]
  <1>1. S \subseteq Nat /\ IsFiniteSet(S)
    BY FiniteNumbers
  <1>2. seqs = Each(S, LAMBDA s : Swap(AtPending, pending, s, Upstream(s)))
    <2>1. \A i \in 1..Cardinality(S) : InOrder(S)[i] \in S
      BY <1>1, InOrderMember
    <2> HIDE DEF S
    <2> QED BY <2>1 DEF Each
  <1>3. \A s \in S : Placed(g[s], G[s])
    BY SwapList
  <1>4. ASSUME NEW s \in S, NEW r \in S, s # r, NEW a \in G[s], NEW b \in G[r]
        PROVE  May(a, b)
    <2>1. /\ a.kind \in {"delete-pending", "mkdir-pending", "write-pending"} /\ a.source = s
          /\ b.kind \in {"delete-pending", "mkdir-pending", "write-pending"} /\ b.source = r
      BY ParkedKinds
    <2> QED BY <1>4, <2>1 DEF May
  <1>5. UNION {G[s] : s \in S} = AllParked(heldNow)
    BY DEF AllParked
  <1>6. DOMAIN g = S /\ DOMAIN G = S
    OBVIOUS
  <1>7. Placed(FlattenSeq(seqs), UNION {G[s] : s \in S})
    <2> HIDE DEF g, G, S
    <2>1. Joining(seqs, S, g, G)
      BY <1>1, <1>3, <1>4, <1>6 DEF Joining
    <2> HIDE DEF seqs
    <2> QED BY <2>1, PlacedJoined
  <1>8. FlattenSeq(seqs) = Joined(S, LAMBDA s : Swap(AtPending, pending, s, Upstream(s)))
    BY <1>2, Zenon DEF Joined
  <1> HIDE DEF seqs, g, G
  <1> QED BY <1>5, <1>7, <1>8

Works(doc, held, trees) == Readable(trees, doc) \ held

BlocksOf(doc, held, trees) == Blocks(Works(doc, held, trees), trees, doc)

\* What an installation holds, in the order of its stages.
InstallSet(doc, fresh, held, heldNow, trees) ==
    LET works  == Works(doc, held, trees)
        blocks == BlocksOf(doc, held, trees)
    IN (((((AllBodies(works, blocks, fresh, trees)
        \union (WrittenSet(blocks) \union EmptiedRuleSet(blocks)))
        \union RuleSweepSet(doc))
        \union UnlinkSet(blocks, doc))
        \union StoreSweepSet(doc))
        \union AllParked(heldNow))
        \union PendingSweepSet(doc)

LEMMA InstallPlaced ==
  ASSUME NEW doc, NEW fresh, NEW held, NEW heldNow, heldNow \subseteq Sources, NEW trees,
         \A s \in heldNow : doc[s].pending # Empty
  PROVE  Placed(Install(doc, fresh, held, heldNow, trees),
                InstallSet(doc, fresh, held, heldNow, trees))
  <1> DEFINE works == Works(doc, held, trees)
             blocks == BlocksOf(doc, held, trees)
             A == AllBodies(works, blocks, fresh, trees)
             B == WrittenSet(blocks) \union EmptiedRuleSet(blocks)
             C == RuleSweepSet(doc)
             D == UnlinkSet(blocks, doc)
             E == StoreSweepSet(doc)
             F == AllParked(heldNow)
             H == PendingSweepSet(doc)
             a == Joined(works, LAMBDA s : Bodies(s, fresh, trees[s], blocks[s]))
             f == Joined(heldNow, LAMBDA s : Swap(AtPending, pending, s, Upstream(s)))
  <1>1. works \subseteq Sources /\ works \subseteq Added(doc) /\ DOMAIN blocks = works
    BY DEF Works, Readable, Added, BlocksOf, Blocks
  <1>2. \A c \in A : /\ c.kind \in {"delete-store", "mkdir-store", "write-store", "link"}
                     /\ c.source \in Added(doc)
    BY <1>1, BodySetKinds DEF AllBodies
  <1>3. \A c \in B \union C : c.kind = "rules"
    BY DEF WrittenSet, EmptiedRuleSet, RuleSweepSet, RuleFile
  <1>4. \A c \in D : c.kind = "unlink"
    BY DEF UnlinkSet, Change
  <1>5. \A c \in E : c.kind = "delete-store" /\ c.source \notin Added(doc)
    BY DEF StoreSweepSet, Change
  <1>6. \A c \in F : /\ c.kind \in {"delete-pending", "mkdir-pending", "write-pending"}
                     /\ c.source \in heldNow
    BY ParkedKinds DEF AllParked
  <1>7. \A c \in H : c.kind = "delete-pending" /\ c.source \notin heldNow
    BY DEF PendingSweepSet, Change
  <1>10. Placed(a, A)
    BY <1>1, JoinedBodies
  <1>11. Lists(RuleFiles(blocks), B)
    BY <1>1, RuleFilesList
  <1>12. Lists(SweepRules(doc), C)
    BY RuleSweepList
  <1>13. Lists(SweepBodies(blocks, doc), D)
    BY UnlinksList
  <1>14. Lists(SweepStore(doc), E)
    BY StoreSweepList
  <1>15. Placed(f, F)
    BY JoinedParked
  <1>16. Lists(SweepPending(doc), H)
    BY PendingSweepList
  <1>17. Install(doc, fresh, held, heldNow, trees) =
            (((((a \o RuleFiles(blocks)) \o SweepRules(doc)) \o SweepBodies(blocks, doc))
               \o SweepStore(doc)) \o f) \o SweepPending(doc)
    BY Zenon DEF Install, Works, BlocksOf
  <1>18. InstallSet(doc, fresh, held, heldNow, trees) =
            (((((A \union B) \union C) \union D) \union E) \union F) \union H
    BY Zenon DEF InstallSet
  <1> HIDE DEF works, blocks, A, B, C, D, E, F, H, a, f
  <1>20. Placed(RuleFiles(blocks), B)
    <2>1. \A x \in B, y \in B : May(x, y)
      BY <1>3 DEF May
    <2> QED BY <1>11, <2>1, InTurnLoose DEF Placed, Lists
  <1>21. Placed(SweepRules(doc), C)
    <2>1. \A x \in C, y \in C : May(x, y)
      BY <1>3 DEF May
    <2> QED BY <1>12, <2>1, InTurnLoose DEF Placed, Lists
  <1>22. Placed(SweepBodies(blocks, doc), D)
    <2>1. \A x \in D, y \in D : May(x, y)
      BY <1>4 DEF May
    <2> QED BY <1>13, <2>1, InTurnLoose DEF Placed, Lists
  <1>23. Placed(SweepStore(doc), E)
    <2>1. \A x \in E, y \in E : May(x, y)
      BY <1>5 DEF May
    <2> QED BY <1>14, <2>1, InTurnLoose DEF Placed, Lists
  <1>24. Placed(SweepPending(doc), H)
    <2>1. \A x \in H, y \in H : May(x, y)
      BY <1>7 DEF May
    <2> QED BY <1>16, <2>1, InTurnLoose DEF Placed, Lists
  <1>31. Placed(a \o RuleFiles(blocks), A \union B)
    <2>1. \A x \in A, y \in B : May(x, y)
      BY <1>2, <1>3 DEF May
    <2> QED BY <1>10, <1>20, <2>1, PlacedConcat
  <1>32. Placed((a \o RuleFiles(blocks)) \o SweepRules(doc), (A \union B) \union C)
    <2>1. \A x \in A \union B, y \in C : May(x, y)
      BY <1>2, <1>3 DEF May
    <2> QED BY <1>31, <1>21, <2>1, PlacedConcat
  <1>33. Placed(((a \o RuleFiles(blocks)) \o SweepRules(doc)) \o SweepBodies(blocks, doc),
                ((A \union B) \union C) \union D)
    <2>1. \A x \in (A \union B) \union C, y \in D : May(x, y)
      BY <1>2, <1>3, <1>4 DEF May
    <2> QED BY <1>32, <1>22, <2>1, PlacedConcat
  <1>34. Placed((((a \o RuleFiles(blocks)) \o SweepRules(doc)) \o SweepBodies(blocks, doc))
                    \o SweepStore(doc),
                (((A \union B) \union C) \union D) \union E)
    <2>1. \A x \in ((A \union B) \union C) \union D, y \in E : May(x, y)
      BY <1>2, <1>3, <1>4, <1>5 DEF May
    <2> QED BY <1>33, <1>23, <2>1, PlacedConcat
  <1>35. Placed(((((a \o RuleFiles(blocks)) \o SweepRules(doc)) \o SweepBodies(blocks, doc))
                    \o SweepStore(doc)) \o f,
                ((((A \union B) \union C) \union D) \union E) \union F)
    <2>1. \A x \in (((A \union B) \union C) \union D) \union E, y \in F : May(x, y)
      BY <1>2, <1>3, <1>4, <1>5, <1>6 DEF May
    <2> QED BY <1>34, <1>15, <2>1, PlacedConcat
  <1>36. Placed((((((a \o RuleFiles(blocks)) \o SweepRules(doc)) \o SweepBodies(blocks, doc))
                    \o SweepStore(doc)) \o f) \o SweepPending(doc),
                (((((A \union B) \union C) \union D) \union E) \union F) \union H)
    <2>1. \A x \in ((((A \union B) \union C) \union D) \union E) \union F, y \in H : May(x, y)
      BY <1>2, <1>3, <1>4, <1>5, <1>6, <1>7 DEF May
    <2> QED BY <1>35, <1>24, <2>1, PlacedConcat
  <1> QED BY <1>17, <1>18, <1>36, Zenon

\* What a hook run is left of a plan.
Keepable(A) == {c \in A : c.category \notin {"removal", "orphan"}}

LEMMA BuildPlaced ==
  ASSUME NEW A, NEW t, Placed(t, A), NEW hook
  PROVE  Placed(Build(t, hook), IF hook THEN Keepable(A) ELSE A)
  <1>1. CASE ~hook
    BY <1>1 DEF Build
  <1>2. CASE hook
    <2> DEFINE S == {i \in DOMAIN t : t[i].category \notin {"removal", "orphan"}}
               g == [i \in S |-> t[i]]
               u == [i \in 1..Cardinality(S) |-> g[InOrder(S)[i]]]
    <2>1. /\ t \in Seq(A) /\ Len(t) \in Nat /\ DOMAIN t = 1..Len(t)
          /\ \A i \in DOMAIN t : t[i] \in A
      BY LenProperties, ElementOfSeq DEF Placed, Lists
    <2>2. S \subseteq Nat /\ IsFiniteSet(S) /\ S \subseteq DOMAIN t
      <3>1. S \subseteq 1..Len(t)
        BY <2>1
      <3>2. IsFiniteSet(1..Len(t))
        BY <2>1, FS_Interval
      <3>3. 1..Len(t) \subseteq Nat
        BY <2>1
      <3> QED BY <2>1, <3>1, <3>2, <3>3, FS_Subset
    <2>3. u = Each(S, LAMBDA i : t[i])
      <3>1. \A i \in 1..Cardinality(S) : InOrder(S)[i] \in S
        BY <2>2, InOrderMember
      <3> QED BY <3>1 DEF Each
    <2>4. Build(t, hook) = u
      BY <1>2, <2>3, Zenon DEF Build
    <2>5. {g[i] : i \in S} = Keepable(A)
      <3>1. \A x \in A : \E i \in DOMAIN t : t[i] = x
        BY <2>1 DEF Placed, Lists
      <3> QED BY <2>1, <3>1 DEF Keepable
    <2>6. DOMAIN g = S
      OBVIOUS
    <2>7. Lists(u, {g[i] : i \in S}) /\ Len(u) = Cardinality(S)
      <3> HIDE DEF g, S
      <3> QED BY <2>2, <2>6, ListsEach
    <2>8. InTurn(u)
      <3> SUFFICES ASSUME NEW i \in 1..Cardinality(S), NEW j \in 1..Cardinality(S), i < j
                   PROVE  May(u[i], u[j])
        BY <2>7 DEF InTurn
      <3>1. /\ InOrder(S)[i] \in S /\ InOrder(S)[j] \in S
            /\ InOrder(S)[i] < InOrder(S)[j]
        <4> HIDE DEF S
        <4> QED BY <2>2, InOrderMember, InOrderRises
      <3>2. u[i] = t[InOrder(S)[i]] /\ u[j] = t[InOrder(S)[j]]
        BY <3>1
      <3>3. InOrder(S)[i] \in 1..Len(t) /\ InOrder(S)[j] \in 1..Len(t)
        BY <2>1, <2>2, <3>1
      <3> QED BY <3>1, <3>2, <3>3 DEF Placed, InTurn
    <2> HIDE DEF u, g, S
    <2> QED BY <1>2, <2>4, <2>5, <2>7, <2>8 DEF Placed
  <1> QED BY <1>1, <1>2

\* The state write ends a plan.
StateChange(doc, names) ==
    [category |-> "state", kind |-> "state", doc |-> doc, off |-> names]

LEMMA WithStateWrite ==
  ASSUME NEW A, NEW t, Placed(t, A), \A c \in A : c.kind # "state", NEW doc, NEW names
  PROVE  Placed(t \o StateWrite(doc, names), A \union {StateChange(doc, names)})
  <1>1. Placed(StateWrite(doc, names), {StateChange(doc, names)})
    BY ListsOne DEF StateWrite, StateChange, Placed, InTurn
  <1>2. \A a \in A, b \in {StateChange(doc, names)} : May(a, b)
    BY DEF May, StateChange
  <1> QED BY <1>1, <1>2, PlacedConcat

----------------------------------------------------------------------------
(* Admission                                                               *)

\* What an attempt refuses, and what that leaves for the next one.
Refusing(v, doc, was) ==
    RefusedIn(Readable(TreesOf(v.fresh), doc) \ v.held, TreesOf(v.fresh), doc, was)

Again(v, doc, was) == Refuse(v, Refusing(v, doc, was))

\* What an attempt refuses a source for that it plans as it stands.
Stood(s, doc, was) ==
    LET lines == NamesIn(Selected(doc[s], InstalledTree(s)))
    IN \/ OverCap(lines)
       \/ \E works \in SUBSET Added(doc) : \E trees : Collides(s, lines, works, trees, doc, was)

\* However often all is planned again, what stays fresh was fetched, and what is
\* held back is not fresh, and was refused as it stood.
Verdicts(fetched, doc, was) ==
    {v \in [fresh : SUBSET fetched, held : SUBSET Added(doc)] :
        v.fresh \intersect v.held = {} /\ \A s \in v.held : Stood(s, doc, was)}

LEMMA AgainKept ==
  ASSUME NEW fetched, fetched \subseteq Sources, NEW doc, NEW was,
         NEW v \in Verdicts(fetched, doc, was)
  PROVE  /\ Again(v, doc, was) \in Verdicts(fetched, doc, was)
         /\ Again(v, doc, was) = [fresh |-> v.fresh \ Refusing(v, doc, was),
                                  held |-> v.held \union (Refusing(v, doc, was) \ v.fresh)]
         /\ Refusing(v, doc, was) \subseteq Added(doc) \ v.held
         /\ v.fresh \subseteq fetched /\ v.held \subseteq Added(doc)
         /\ v = [fresh |-> v.fresh, held |-> v.held]
  <1> DEFINE works == Readable(TreesOf(v.fresh), doc) \ v.held
             refused == Refusing(v, doc, was)
  <1>1. refused \subseteq works /\ works \subseteq Added(doc) \ v.held
    BY DEF Refusing, RefusedIn, Readable
  <1>2. Again(v, doc, was) = Refuse(v, refused)
    BY DEF Again
  <1>3. ASSUME NEW s \in refused \ v.fresh
        PROVE  Stood(s, doc, was)
    <2> DEFINE lines == NamesIn(Selected(doc[s], TreesOf(v.fresh)[s]))
    <2>1. Collides(s, lines, works, TreesOf(v.fresh), doc, was) \/ OverCap(lines)
      BY <1>3 DEF Refusing, RefusedIn
    <2>2. TreesOf(v.fresh)[s] = InstalledTree(s)
      <3>1. s \in Sources /\ s \notin v.fresh
        BY <1>1, <1>3 DEF Added
      <3> QED BY <3>1 DEF TreesOf
    <2>3. works \in SUBSET Added(doc)
      BY <1>1
    <2> HIDE DEF works
    <2> QED BY <2>1, <2>2, <2>3 DEF Stood
  <1> HIDE DEF works, refused
  <1>4. /\ v.fresh \subseteq fetched /\ v.held \subseteq Added(doc)
        /\ v.fresh \intersect v.held = {} /\ \A s \in v.held : Stood(s, doc, was)
        /\ v = [fresh |-> v.fresh, held |-> v.held]
    BY DEF Verdicts
  <1>5. Refuse(v, refused) = [fresh |-> v.fresh \ refused,
                              held |-> v.held \union (refused \ v.fresh)]
    BY DEF Refuse
  <1>6. (v.fresh \ refused) \intersect (v.held \union (refused \ v.fresh)) = {}
    BY <1>4
  <1>7. \A s \in v.held \union (refused \ v.fresh) : Stood(s, doc, was)
    BY <1>3, <1>4
  <1>8. Again(v, doc, was) \in Verdicts(fetched, doc, was)
    BY <1>1, <1>2, <1>4, <1>5, <1>6, <1>7 DEF Verdicts
  <1> QED BY <1>1, <1>2, <1>4, <1>5, <1>8 DEF works, refused

\* The attempts, one after the other.
Rounds == 2 * Cardinality(Sources)

Tried(h, fetched, doc, was) ==
    /\ h[0] = [fresh |-> fetched, held |-> {}]
    /\ \A i \in 1..Rounds : h[i] = Again(h[i - 1], doc, was)
    /\ \A i \in 0..Rounds : h[i] \in Verdicts(fetched, doc, was)

LEMMA AttemptsTried ==
  ASSUME NEW fetched, fetched \subseteq Sources, NEW doc, NEW was
  PROVE  /\ Rounds \in Nat
         /\ \E h : Tried(h, fetched, doc, was) /\ Attempts(fetched, doc, was) = h[Rounds]
  <1> DEFINE N == Rounds
             V == Verdicts(fetched, doc, was)
             a == [fresh |-> fetched, held |-> {}]
             step == [i \in Nat |-> [v \in V |-> Again(v, doc, was)]]
             Tries(h) == h = [i \in 0..N |-> IF i = 0 THEN a ELSE Again(h[i - 1], doc, was)]
             h1 == CHOOSE h : Tries(h)
  <1>1. N \in Nat
    BY FiniteNumbers, Counted DEF Rounds
  <1>2. a \in V
    BY DEF Verdicts
  <1>3. step \in [Nat -> [V -> V]]
    <2> HIDE DEF V
    <2>1. \A v \in V : Again(v, doc, was) \in V
      BY AgainKept DEF V
    <2> QED BY <2>1
  <1>4. Attempts(fetched, doc, was) = h1[N]
    BY DEF Attempts, Again, Refusing, Rounds
  <1>5. \E h : Tries(h)
    <2> HIDE DEF V, a, N, step
    <2>1. PICK f : Iterates(f, V, a, step, N)
      BY <1>1, <1>2, <1>3, Iterated
    <2>2. f \in [0..N -> V] /\ f[0] = a /\ \A i \in 1..N : f[i] = step[i][f[i - 1]]
      BY <2>1 DEF Iterates
    <2>3. ASSUME NEW i \in 0..N
          PROVE  f[i] = IF i = 0 THEN a ELSE Again(f[i - 1], doc, was)
      <3>1. CASE i = 0
        BY <2>2, <3>1
      <3>2. CASE i # 0
        <4>1. i \in 1..N /\ i - 1 \in 0..N /\ i \in Nat
          BY <1>1, <3>2
        <4>2. f[i] = step[i][f[i - 1]] /\ f[i - 1] \in V
          BY <2>2, <4>1
        <4>3. step[i][f[i - 1]] = Again(f[i - 1], doc, was)
          BY <4>1, <4>2 DEF step
        <4> QED BY <3>2, <4>2, <4>3
      <3> QED BY <3>1, <3>2
    <2>4. Tries(f)
      BY <2>2, <2>3
    <2> QED BY <2>4
  <1>6. Tries(h1)
    <2> HIDE DEF Tries
    <2> QED BY <1>5
  <1> HIDE DEF h1
  <1>7. \A i \in 0..N : h1[i] = IF i = 0 THEN a ELSE Again(h1[i - 1], doc, was)
    <2> HIDE DEF N, a
    <2> QED BY <1>6
  <1> DEFINE T == {k \in 0..N : h1[k] \notin V}
  <1>8. ASSUME T # {} PROVE FALSE
    <2> HIDE DEF N, a, V, Tries
    <2>1. PICK k \in T : \A m \in T : k <= m
      <3> HIDE DEF T
      <3>1. T \subseteq Nat
        BY <1>1 DEF T
      <3> QED BY <1>8, <3>1, LeastNumber
    <2>2. k \in 0..N /\ h1[k] \notin V /\ k \in Nat
      BY <1>1, <2>1
    <2>3. CASE k = 0
      BY <1>2, <1>7, <2>2, <2>3
    <2>4. CASE k # 0
      <3>1. k - 1 \in 0..N /\ ~(k <= k - 1)
        BY <1>1, <2>2, <2>4
      <3>2. h1[k - 1] \in V
        BY <2>1, <3>1
      <3>3. h1[k] = Again(h1[k - 1], doc, was)
        BY <1>7, <2>2, <2>4
      <3>4. Again(h1[k - 1], doc, was) \in V
        BY <3>2, AgainKept DEF V
      <3> QED BY <2>2, <3>3, <3>4
    <2> QED BY <2>3, <2>4
  <1>9. Tried(h1, fetched, doc, was)
    <2>1. 0 \in 0..N /\ \A i \in 1..N : i \in 0..N /\ i # 0
      BY <1>1
    <2> HIDE DEF a
    <2>2. h1[0] = a /\ \A i \in 1..N : h1[i] = Again(h1[i - 1], doc, was)
      BY <1>7, <2>1
    <2> QED BY <1>8, <2>2 DEF Tried, a
  <1> QED BY <1>1, <1>4, <1>9

LEMMA AttemptsKept ==
  ASSUME NEW fetched, fetched \subseteq Sources, NEW doc, NEW was
  PROVE  Attempts(fetched, doc, was) \in Verdicts(fetched, doc, was)
  <1>1. Rounds \in 0..Rounds
    BY AttemptsTried
  <1> QED BY <1>1, AttemptsTried DEF Tried

\* What an attempt has left to refuse: the fresh sources, and those not held back.
Left(v) == Cardinality(v.fresh) + Cardinality(Sources \ v.held)

LEMMA AgainShrinks ==
  ASSUME NEW fetched, fetched \subseteq Sources, NEW doc, NEW was,
         NEW v \in Verdicts(fetched, doc, was)
  PROVE  /\ Left(v) \in Nat /\ Left(v) <= Rounds
         /\ Left(v) = 0 => Refusing(v, doc, was) = {}
         /\ Refusing(v, doc, was) = {} => Again(v, doc, was) = v
         /\ Refusing(v, doc, was) # {} => Left(Again(v, doc, was)) < Left(v)
  <1> DEFINE refused == Refusing(v, doc, was)
             w == Again(v, doc, was)
  <1>1. /\ w = [fresh |-> v.fresh \ refused, held |-> v.held \union (refused \ v.fresh)]
        /\ refused \subseteq Added(doc) \ v.held
        /\ v.fresh \subseteq fetched /\ v.held \subseteq Added(doc)
        /\ v = [fresh |-> v.fresh, held |-> v.held]
    BY AgainKept
  <1> HIDE DEF refused, w
  <1>2. /\ v.fresh \subseteq Sources /\ Sources \ v.held \subseteq Sources
        /\ w.fresh \subseteq v.fresh /\ Sources \ w.held \subseteq Sources \ v.held
        /\ w.fresh \subseteq Sources /\ Sources \ w.held \subseteq Sources
    BY <1>1
  <1>3. ASSUME NEW S, S \subseteq Sources
        PROVE  /\ Cardinality(S) \in Nat /\ Cardinality(S) <= Cardinality(Sources)
               /\ Cardinality(S) = 0 => S = {}
               /\ \A T \in SUBSET S : Cardinality(T) <= Cardinality(S)
                                     /\ (T # S => Cardinality(T) < Cardinality(S))
    BY <1>3, FiniteNumbers, FS_Subset, FS_CardinalityType, FS_EmptySet
  <1>4. /\ Cardinality(v.fresh) \in Nat /\ Cardinality(Sources \ v.held) \in Nat
        /\ Cardinality(v.fresh) <= Cardinality(Sources)
        /\ Cardinality(Sources \ v.held) <= Cardinality(Sources)
        /\ Cardinality(Sources) \in Nat
        /\ Cardinality(w.fresh) \in Nat /\ Cardinality(Sources \ w.held) \in Nat
        /\ Cardinality(w.fresh) <= Cardinality(v.fresh)
        /\ Cardinality(Sources \ w.held) <= Cardinality(Sources \ v.held)
    BY <1>2, <1>3
  <1>5. Left(v) \in Nat /\ Left(v) <= Rounds
    BY <1>4 DEF Left, Rounds
  <1>6. ASSUME Left(v) = 0 PROVE refused = {}
    <2>1. Cardinality(Sources \ v.held) = 0
      BY <1>4, <1>6 DEF Left
    <2>2. Sources \ v.held = {}
      BY <1>2, <1>3, <2>1
    <2> QED BY <1>1, <2>2 DEF Added
  <1>7. refused = {} => w = v
    BY <1>1
  <1>8. ASSUME refused # {} PROVE Left(w) < Left(v)
    <2>1. PICK s \in refused : s \in Sources /\ s \notin v.held
      BY <1>1, <1>8 DEF Added
    <2>2. w.fresh # v.fresh \/ Sources \ w.held # Sources \ v.held
      BY <1>1, <2>1
    <2>3. \/ Cardinality(w.fresh) < Cardinality(v.fresh)
          \/ Cardinality(Sources \ w.held) < Cardinality(Sources \ v.held)
      BY <1>2, <1>3, <2>2
    <2> QED BY <1>4, <2>3 DEF Left
  <1> QED BY <1>5, <1>6, <1>7, <1>8 DEF refused, w

\* planSync plans again until an attempt refuses nothing.  It comes to that, and
\* within two attempts for each source: each one that refuses something takes a
\* source back to last-good, or holds one back, and neither is undone.
THEOREM AttemptsSettle ==
  ASSUME NEW fetched, fetched \subseteq Sources, NEW doc, NEW was
  PROVE  Refusing(Attempts(fetched, doc, was), doc, was) = {}
  <1> DEFINE N == Rounds
             V == Verdicts(fetched, doc, was)
             None(v) == Refusing(v, doc, was) = {}
  <1>1. N \in Nat
    BY AttemptsTried
  <1>2. PICK h : Tried(h, fetched, doc, was) /\ Attempts(fetched, doc, was) = h[N]
    BY AttemptsTried
  <1>3. ASSUME NEW v \in V
        PROVE  /\ Left(v) \in Nat /\ Left(v) <= N
               /\ Left(v) = 0 => None(v)
               /\ None(v) => Again(v, doc, was) = v
               /\ ~None(v) => Left(Again(v, doc, was)) < Left(v)
    BY AgainShrinks
  <1>4. /\ \A i \in 1..N : h[i] = Again(h[i - 1], doc, was)
        /\ \A i \in 0..N : h[i] \in V
    BY <1>2 DEF Tried
  <1> HIDE DEF V, None, N
  <1> DEFINE T == {k \in 0..N : ~(None(h[k]) \/ Left(h[k]) <= N - k)}
  <1>5. ASSUME T # {} PROVE FALSE
    <2>1. PICK k \in T : \A m \in T : k <= m
      <3>1. T \subseteq Nat
        BY <1>1
      <3> HIDE DEF T
      <3> QED BY <1>5, <3>1, LeastNumber
    <2>2. /\ k \in 0..N /\ k \in Nat /\ ~None(h[k]) /\ ~(Left(h[k]) <= N - k)
          /\ h[k] \in V
      BY <1>1, <1>4, <2>1
    <2>3. CASE k = 0
      BY <1>1, <1>3, <2>2, <2>3
    <2>4. CASE k # 0
      <3>1. k - 1 \in 0..N /\ ~(k <= k - 1) /\ k \in 1..N
        BY <1>1, <2>2, <2>4
      <3>2. None(h[k - 1]) \/ Left(h[k - 1]) <= N - (k - 1)
        BY <2>1, <3>1
      <3>3. h[k] = Again(h[k - 1], doc, was) /\ h[k - 1] \in V
        BY <1>4, <3>1
      <3>4. CASE None(h[k - 1])
        BY <1>3, <2>2, <3>3, <3>4
      <3>5. CASE ~None(h[k - 1])
        <4>1. Left(h[k]) < Left(h[k - 1]) /\ Left(h[k]) \in Nat /\ Left(h[k - 1]) \in Nat
          BY <1>3, <2>2, <3>3, <3>5
        <4> QED BY <1>1, <2>2, <3>2, <3>5, <4>1
      <3> QED BY <3>4, <3>5
    <2> QED BY <2>3, <2>4
  <1>6. N \in 0..N /\ N - N = 0
    BY <1>1
  <1>7. None(h[N]) \/ Left(h[N]) <= 0
    BY <1>5, <1>6
  <1>8. None(h[N])
    BY <1>3, <1>4, <1>6, <1>7
  <1> QED BY <1>2, <1>8 DEF None

============================================================================
