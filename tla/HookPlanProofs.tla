--------------------------- MODULE HookPlanProofs ---------------------------
(***************************************************************************)
(* Proofs about HookPlan, for any machine, any harnesses, handlers and     *)
(* files, any declarations and any disks of the user's that parse.         *)
(*                                                                         *)
(* The splices come first: each keeps the user's part of a registry or of  *)
(* a patch file. A plan is then a set of answers, each of which some       *)
(* declared artifact gave, and one edit a file: folds over the answers     *)
(* keep what each of them keeps (Folding). What is left of a run's plan is *)
(* what the invariants speak of:                                           *)
(*   HookTyped    it is made of changes that fit their files,              *)
(*   HookKept     it keeps the user's part of what the disk holds now,     *)
(*   HookWrites   a hook run's writes maxims's own files and deletes none, *)
(*   HookBacked   a bridge row in it stands behind the write of the file   *)
(*                it names, and no edit of one file is unlike another.     *)
(***************************************************************************)
EXTENDS HookPlan, FiniteSetTheorems, SequenceTheorems, WellFoundedInduction, TLAPS

----------------------------------------------------------------------------
(* Counting up                                                             *)

Below == {ss \in Nat \X Nat : ss[1] < ss[2]}

LEMMA BelowWellFounded == IsWellFoundedOn(Below, Nat)
  BY NatLessThanWellFounded DEF OpToRel, Below

LEMMA LeastNumber ==
  ASSUME NEW T, T \subseteq Nat, T # {}
  PROVE  \E n \in T : \A m \in T : n <= m
  <1>1. PICK n \in T : \A m \in T : ~(<<m, n>> \in Below)
    <2>1. T \subseteq Nat
      OBVIOUS
    <2> QED BY <2>1, BelowWellFounded, WFMin
  <1>2. ASSUME NEW m \in T PROVE n <= m
    <2>1. n \in Nat /\ m \in Nat
      OBVIOUS
    <2>2. ~(m < n)
      BY <1>1, <1>2, <2>1 DEF Below
    <2> QED BY <2>1, <2>2
  <1> QED BY <1>2

\* What holds of nothing, and of each number once it holds of the one before.
LEMMA Upward ==
  ASSUME NEW N \in Nat, NEW T, 0 \in T, \A i \in 1..N : i - 1 \in T => i \in T
  PROVE  \A i \in 0..N : i \in T
  <1> DEFINE Out == {i \in 0..N : i \notin T}
  <1>1. SUFFICES ASSUME Out # {} PROVE FALSE
    OBVIOUS
  <1>2. PICK n \in Out : \A m \in Out : n <= m
    <2> HIDE DEF Out
    <2>1. Out \subseteq Nat
      BY DEF Out
    <2> QED BY <1>1, <2>1, LeastNumber
  <1>3. n \in 1..N /\ n - 1 \in 0..N /\ ~(n <= n - 1)
    BY <1>2
  <1>4. n - 1 \in T
    BY <1>2, <1>3
  <1> QED BY <1>2, <1>3, <1>4

----------------------------------------------------------------------------
(* Folds                                                                   *)

\* The numbers up to k, without the last one.
LEMMA Prefix ==
  ASSUME NEW N \in Nat, NEW k \in 1..N
  PROVE  /\ 1..k \in SUBSET (1..N) /\ 1..k # {} /\ Max(1..k) = k
         /\ (1..k) \ {k} = 1..(k - 1) /\ k - 1 \in 0..N
  <1>1. k \in 1..k /\ \A y \in 1..k : k >= y
    OBVIOUS
  <1>2. ASSUME NEW x \in 1..k, \A y \in 1..k : x >= y PROVE x = k
    BY <1>1, <1>2
  <1>3. Max(1..k) = k
    BY <1>1, <1>2 DEF Max
  <1> QED BY <1>1, <1>3

LEMMA MaxIn ==
  ASSUME NEW N \in Nat, NEW S \in SUBSET (1..N), S # {}
  PROVE  Max(S) \in S
  <1> DEFINE D == {d \in 0..N : N - d \in S}
  <1>1. D \subseteq Nat
    OBVIOUS
  <1>2. D # {}
    <2>1. PICK x \in S : x \in 1..N
      OBVIOUS
    <2>2. N - x \in 0..N /\ N - (N - x) = x
      BY <2>1
    <2>3. N - x \in D
      BY <2>2
    <2> QED BY <2>3
  <1>3. PICK d \in D : \A c \in D : d <= c
    <2> HIDE DEF D
    <2> QED BY <1>1, <1>2, LeastNumber
  <1>4. N - d \in S
    BY <1>3
  <1>5. ASSUME NEW y \in S PROVE N - d >= y
    <2>1. y \in 1..N
      OBVIOUS
    <2>2. N - y \in 0..N /\ N - (N - y) = y
      BY <2>1
    <2>3. N - y \in D
      BY <2>2
    <2>4. d <= N - y /\ d \in 0..N
      BY <1>3, <2>3
    <2> QED BY <2>1, <2>4
  <1> QED BY <1>4, <1>5 DEF Max

\* Folds are functions of the sets of places still to be folded.
Folding(g, V, base, step, N) ==
    /\ g \in [SUBSET (1..N) -> V]
    /\ \A S \in SUBSET (1..N) :
          g[S] = IF S = {} THEN base ELSE step[Max(S)][g[S \ {Max(S)}]]

LEMMA Folded ==
  ASSUME NEW V, NEW base \in V, NEW N \in Nat, NEW step \in [1..N -> [V -> V]]
  PROVE  \E g : Folding(g, V, base, step, N)
  <1> DEFINE Has(k) == \E g : Folding(g, V, base, step, k)
             T == {k \in 0..N : Has(k)}
  <1>1. 0 \in T
    <2>1. 1..0 = {}
      OBVIOUS
    <2>2. Folding([S \in SUBSET (1..0) |-> base], V, base, step, 0)
      BY <2>1 DEF Folding
    <2> QED BY <2>2
  <1>2. ASSUME NEW k \in 1..N, k - 1 \in T PROVE k \in T
    <2>1. PICK f : Folding(f, V, base, step, k - 1)
      BY <1>2
    <2> DEFINE g == [S \in SUBSET (1..k) |-> IF k \in S THEN step[k][f[S \ {k}]] ELSE f[S]]
    <2>2. ASSUME NEW S \in SUBSET (1..k) PROVE S \ {k} \in SUBSET (1..(k - 1))
      OBVIOUS
    <2>3. f \in [SUBSET (1..(k - 1)) -> V]
      BY <2>1 DEF Folding
    <2>4. ASSUME NEW S \in SUBSET (1..k), k \notin S PROVE S \in SUBSET (1..(k - 1))
      BY <2>4
    <2>5. g \in [SUBSET (1..k) -> V]
      <3>1. ASSUME NEW S \in SUBSET (1..k)
            PROVE  (IF k \in S THEN step[k][f[S \ {k}]] ELSE f[S]) \in V
        <4>1. f[S \ {k}] \in V
          BY <2>2, <2>3
        <4>2. k \notin S => f[S] \in V
          BY <2>3, <2>4
        <4>3. step[k] \in [V -> V]
          OBVIOUS
        <4> QED BY <4>1, <4>2, <4>3
      <3> QED BY <3>1
    <2>6. ASSUME NEW S \in SUBSET (1..k)
          PROVE  g[S] = IF S = {} THEN base ELSE step[Max(S)][g[S \ {Max(S)}]]
      <3>1. CASE k \in S
        <4>1. k \in S /\ \A y \in S : k >= y
          BY <3>1
        <4>2. ASSUME NEW x \in S, \A y \in S : x >= y PROVE x = k
          BY <4>1, <4>2
        <4>3. Max(S) = k
          BY <4>1, <4>2 DEF Max
        <4>4. g[S \ {k}] = f[S \ {k}]
          BY <2>2
        <4> QED BY <3>1, <4>3, <4>4
      <3>2. CASE k \notin S
        <4>0. S \in SUBSET (1..(k - 1))
          BY <2>4, <3>2
        <4>1. g[S] = f[S]
          BY <3>2
        <4>2. k \notin S \ {Max(S)} /\ S \ {Max(S)} \in SUBSET (1..k)
          BY <3>2
        <4>3. g[S \ {Max(S)}] = f[S \ {Max(S)}]
          BY <4>2
        <4> HIDE DEF g
        <4> QED BY <2>1, <4>0, <4>1, <4>3 DEF Folding
      <3> QED BY <3>1, <3>2
    <2> HIDE DEF g
    <2>7. Folding(g, V, base, step, k)
      BY <2>5, <2>6 DEF Folding
    <2> QED BY <2>7
  <1> HIDE DEF T
  <1>3. \A i \in 0..N : i \in T
    BY <1>1, <1>2, Upward
  <1>4. N \in T
    BY <1>3
  <1> QED BY <1>4 DEF T

\* What a fold's steps do not leave, its result does not leave.
LEMMA Stays ==
  ASSUME NEW V, NEW base \in V, NEW N \in Nat, NEW h, h[{}] = base,
         \A k \in 1..N : h[1..(k - 1)] \in V => h[1..k] \in V
  PROVE  h[1..N] \in V
  <1> DEFINE T == {k \in 0..N : h[1..k] \in V}
  <1>1. 0 \in T
    <2>1. 1..0 = {}
      OBVIOUS
    <2> QED BY <2>1
  <1>2. \A k \in 1..N : k - 1 \in T => k \in T
    OBVIOUS
  <1> HIDE DEF T
  <1>3. \A k \in 0..N : k \in T
    BY <1>1, <1>2, Upward
  <1>4. N \in T
    BY <1>3
  <1> QED BY <1>4 DEF T

----------------------------------------------------------------------------
(* Concatenations                                                          *)

\* f gives the concatenations of the first few sequences.
Flattens(f, seqs, C) ==
    /\ f \in [0..Len(seqs) -> Seq(C)] /\ f[0] = <<>> /\ FlattenSeq(seqs) = f[Len(seqs)]
    /\ \A i \in 1..Len(seqs) : f[i] = f[i - 1] \o seqs[i]

LEMMA EmptyIn == ASSUME NEW C PROVE <<>> \in Seq(C)
  OBVIOUS

LEMMA Concatenated ==
  ASSUME NEW C, NEW seqs \in Seq(Seq(C))
  PROVE  \E f : f \in [0..Len(seqs) -> Seq(C)] /\ f[0] = <<>>
            /\ \A i \in 1..Len(seqs) : f[i] = f[i - 1] \o seqs[i]
  <1> DEFINE Makes(f, k) == f \in [0..k -> Seq(C)] /\ f[0] = <<>>
                            /\ \A i \in 1..k : f[i] = f[i - 1] \o seqs[i]
             T == {k \in 0..Len(seqs) : \E f : Makes(f, k)}
  <1>0. Len(seqs) \in Nat /\ \A i \in 1..Len(seqs) : seqs[i] \in Seq(C)
    OBVIOUS
  <1>1. 0 \in T
    <2>1. Makes([i \in 0..0 |-> <<>>], 0)
      BY EmptyIn
    <2> HIDE DEF Makes
    <2> QED BY <1>0, <2>1
  <1>2. ASSUME NEW k \in 1..Len(seqs), k - 1 \in T PROVE k \in T
    <2>0. k \in Nat /\ k - 1 \in 0..(k - 1) /\ seqs[k] \in Seq(C)
      BY <1>0
    <2>1. PICK f : Makes(f, k - 1)
      BY <1>2
    <2> DEFINE g == [i \in 0..k |-> IF i < k THEN f[i] ELSE f[k - 1] \o seqs[k]]
    <2>2. f[k - 1] \in Seq(C)
      BY <2>0, <2>1
    <2>3. f[k - 1] \o seqs[k] \in Seq(C)
      BY <2>0, <2>2, ConcatProperties
    <2>4. g \in [0..k -> Seq(C)]
      <3>1. ASSUME NEW i \in 0..k PROVE (IF i < k THEN f[i] ELSE f[k - 1] \o seqs[k]) \in Seq(C)
        BY <2>0, <2>1, <2>3
      <3> QED BY <3>1
    <2>5. g[0] = <<>>
      BY <2>0, <2>1, SMTT(30)
    <2>6. ASSUME NEW i \in 1..k PROVE g[i] = g[i - 1] \o seqs[i]
      <3>1. g[i - 1] = f[i - 1]
        BY <2>0
      <3>2. CASE i = k
        <4>1. i \in 0..k /\ ~(i < k)
          BY <2>0, <3>2
        <4>2. g[i] = f[k - 1] \o seqs[k]
          BY <4>1
        <4> QED BY <3>1, <3>2, <4>2
      <3>3. CASE i # k
        <4>1. i \in 1..(k - 1) /\ i \in 0..k /\ i < k
          BY <2>0, <3>3
        <4>2. g[i] = f[i] /\ f[i] = f[i - 1] \o seqs[i]
          BY <2>1, <4>1
        <4> QED BY <3>1, <4>2
      <3> QED BY <3>2, <3>3
    <2> HIDE DEF g
    <2>7. Makes(g, k)
      BY <2>4, <2>5, <2>6
    <2>8. k \in 0..Len(seqs)
      BY <1>0
    <2> HIDE DEF Makes
    <2> QED BY <2>7, <2>8
  <1> HIDE DEF T
  <1>3. \A i \in 0..Len(seqs) : i \in T
    BY <1>0, <1>1, <1>2, Upward
  <1>4. Len(seqs) \in T
    BY <1>0, <1>3
  <1> QED BY <1>4 DEF T

LEMMA Flattening ==
  ASSUME NEW C, NEW seqs \in Seq(Seq(C))
  PROVE  \E f : Flattens(f, seqs, C)
  <1> DEFINE N == Len(seqs)
  <1>1. N \in Nat /\ \A i \in 1..N : seqs[i] \in Seq(C)
    OBVIOUS
  <1>2. PICK f : /\ f \in [0..N -> Seq(C)] /\ f[0] = <<>>
                 /\ \A i \in 1..N : f[i] = f[i - 1] \o seqs[i]
    BY Concatenated
  <1>3. FlattenSeq(seqs) = f[N]
    <2>1. CASE N = 0
      <3>1. seqs = <<>>
        BY <2>1, EmptySeq
      <3> QED BY <1>2, <2>1, <3>1 DEF FlattenSeq
    <2>2. CASE N # 0
      <3> DEFINE Flat(h) == h = [i \in 1..N |-> IF i = 1 THEN seqs[i] ELSE h[i - 1] \o seqs[i]]
                 h0 == [i \in 1..N |-> f[i]]
                 h1 == CHOOSE h : Flat(h)
      <3>0. ASSUME NEW i \in 1..N, i = 1 PROVE f[i] = seqs[i]
        <4>0. i - 1 = 0
          BY <3>0
        <4>4. f[i] = f[i - 1] \o seqs[i]
          BY <1>2
        <4>1. f[i] = f[0] \o seqs[i]
          BY <4>0, <4>4, Zenon
        <4>2. f[i] = <<>> \o seqs[i]
          BY <1>2, <4>1, Zenon
        <4>3. <<>> \o seqs[i] = seqs[i]
          BY <1>1, ConcatEmptySeq
        <4> QED BY <4>2, <4>3
      <3>1. Flat(h0)
        <4>1. ASSUME NEW i \in 1..N
              PROVE  f[i] = IF i = 1 THEN seqs[i] ELSE h0[i - 1] \o seqs[i]
          <5>1. CASE i # 1
            <6>1. i - 1 \in 1..N
              BY <1>1, <5>1
            <6> QED BY <1>2, <5>1, <6>1
          <5> QED BY <3>0, <5>1
        <4> QED BY <4>1
      <3>2. FlattenSeq(seqs) = h1[N]
        BY <2>2 DEF FlattenSeq
      <3>3. Flat(h1)
        BY <3>1
      <3> HIDE DEF h1
      <3>4. \A i \in 1..N : h1[i] = IF i = 1 THEN seqs[i] ELSE h1[i - 1] \o seqs[i]
        BY <3>3
      <3> HIDE DEF Flat, h0
      <3> DEFINE T == {k \in 0..N : k = 0 \/ h1[k] = f[k]}
      <3>5. ASSUME NEW k \in 1..N, k - 1 \in T PROVE k \in T
        <4>1. CASE k = 1
          BY <1>1, <3>0, <3>4, <4>1
        <4>2. CASE k # 1
          <5>1. k - 1 # 0 /\ h1[k - 1] = f[k - 1]
            BY <1>1, <3>5, <4>2
          <5>2. h1[k] = h1[k - 1] \o seqs[k] /\ f[k] = f[k - 1] \o seqs[k]
            BY <1>2, <3>4, <4>2
          <5>3. h1[k] = f[k] /\ k \in 0..N
            BY <1>1, <5>1, <5>2
          <5> QED BY <5>3
        <4> QED BY <4>1, <4>2
      <3>6. 0 \in T
        BY <1>1
      <3> HIDE DEF T
      <3>7. \A i \in 0..N : i \in T
        BY <1>1, <3>5, <3>6, Upward
      <3>8. N \in T
        BY <1>1, <3>7
      <3> QED BY <2>2, <3>2, <3>8 DEF T
    <2> QED BY <2>1, <2>2
  <1> QED BY <1>2, <1>3 DEF Flattens

LEMMA FlattenType ==
  ASSUME NEW C, NEW seqs \in Seq(Seq(C))
  PROVE  FlattenSeq(seqs) \in Seq(C)
  <1>1. PICK f : Flattens(f, seqs, C)
    BY Flattening
  <1>2. Len(seqs) \in 0..Len(seqs)
    OBVIOUS
  <1> QED BY <1>1, <1>2 DEF Flattens

\* What an element of one sequence is to two put together.
LEMMA ConcatHolds ==
  ASSUME NEW C, NEW s \in Seq(C), NEW t \in Seq(C)
  PROVE  /\ s \o t \in Seq(C) /\ Len(s \o t) = Len(s) + Len(t)
         /\ \A i \in 1..Len(s) : i \in 1..Len(s \o t) /\ (s \o t)[i] = s[i]
         /\ \A i \in 1..Len(t) : Len(s) + i \in 1..Len(s \o t) /\ (s \o t)[Len(s) + i] = t[i]
         /\ \A i \in 1..Len(s \o t) : \/ i \in 1..Len(s) /\ (s \o t)[i] = s[i]
                                      \/ i - Len(s) \in 1..Len(t) /\ (s \o t)[i] = t[i - Len(s)]
  <1>1. /\ s \o t \in Seq(C) /\ Len(s \o t) = Len(s) + Len(t)
        /\ \A i \in 1..Len(s) + Len(t) :
              (s \o t)[i] = IF i <= Len(s) THEN s[i] ELSE t[i - Len(s)]
    BY ConcatProperties
  <1>2. Len(s) \in Nat /\ Len(t) \in Nat
    OBVIOUS
  <1> QED BY <1>1, <1>2

\* x is somewhere in the sequence.
Within(x, s) == \E i \in 1..Len(s) : s[i] = x

LEMMA ConcatWithin ==
  ASSUME NEW C, NEW s \in Seq(C), NEW t \in Seq(C), NEW x
  PROVE  Within(x, s \o t) <=> Within(x, s) \/ Within(x, t)
  <1>1. ASSUME NEW j \in 1..Len(s), s[j] = x PROVE Within(x, s \o t)
    BY <1>1, ConcatHolds DEF Within
  <1>2. ASSUME NEW j \in 1..Len(t), t[j] = x PROVE Within(x, s \o t)
    <2>1. \A i \in 1..Len(t) :
             Len(s) + i \in 1..Len(s \o t) /\ (s \o t)[Len(s) + i] = t[i]
      BY ConcatHolds
    <2> QED BY <1>2, <2>1 DEF Within
  <1>3. ASSUME NEW j \in 1..Len(s \o t), (s \o t)[j] = x
        PROVE  Within(x, s) \/ Within(x, t)
    BY <1>3, ConcatHolds DEF Within
  <1> QED BY <1>1, <1>2, <1>3 DEF Within

\* Nothing gets lost, and nothing comes in.
LEMMA FlattensHold ==
  ASSUME NEW C, NEW seqs \in Seq(Seq(C)), NEW f, Flattens(f, seqs, C), NEW x
  PROVE  \A k \in 0..Len(seqs) : Within(x, f[k]) <=> \E i \in 1..k : Within(x, seqs[i])
  <1>1. Flattens(f, seqs, C)
    OBVIOUS
  <1> DEFINE Held(k) == Within(x, f[k]) <=> \E i \in 1..k : Within(x, seqs[i])
             T == {k \in 0..Len(seqs) : Held(k)}
  <1>0. Len(seqs) \in Nat /\ \A i \in 1..Len(seqs) : seqs[i] \in Seq(C)
    OBVIOUS
  <1>2. 0 \in T
    <2>1. Held(0)
      <3>1. f[0] = <<>> /\ 1..0 = {} /\ Len(<<>>) = 0
        BY <1>1 DEF Flattens
      <3> QED BY <3>1 DEF Within
    <2> QED BY <1>0, <2>1
  <1>3. ASSUME NEW k \in 1..Len(seqs), k - 1 \in T PROVE k \in T
    <2>0. k \in Nat /\ k - 1 \in 0..Len(seqs) /\ k \in 0..Len(seqs) /\ seqs[k] \in Seq(C)
      BY <1>0
    <2>1. f[k] = f[k - 1] \o seqs[k] /\ f[k - 1] \in Seq(C)
      BY <1>1, <2>0 DEF Flattens
    <2>2. Held(k - 1)
      BY <1>3
    <2>3. Within(x, f[k]) <=> Within(x, f[k - 1]) \/ Within(x, seqs[k])
      BY <2>0, <2>1, ConcatWithin
    <2>4. 1..k = 1..(k - 1) \union {k}
      BY <2>0
    <2>6. Held(k)
      BY <2>2, <2>3, <2>4
    <2> QED BY <2>0, <2>6
  <1> HIDE DEF T
  <1>4. \A i \in 0..Len(seqs) : i \in T
    BY <1>0, <1>2, <1>3, Upward
  <1> QED BY <1>4 DEF T

LEMMA FlattenHolds ==
  ASSUME NEW C, NEW seqs \in Seq(Seq(C)), NEW x
  PROVE  Within(x, FlattenSeq(seqs)) <=> \E i \in 1..Len(seqs) : Within(x, seqs[i])
  <1>1. PICK f : Flattens(f, seqs, C)
    BY Flattening
  <1>2. Len(seqs) \in 0..Len(seqs)
    OBVIOUS
  <1>3. Within(x, f[Len(seqs)]) <=> \E i \in 1..Len(seqs) : Within(x, seqs[i])
    BY <1>1, <1>2, FlattensHold, ZenonT(40)
  <1> QED BY <1>1, <1>3 DEF Flattens

Distinct(s) == \A i, j \in 1..Len(s) : s[i] = s[j] => i = j

LEMMA ConcatDistinct ==
  ASSUME NEW C, NEW s \in Seq(C), NEW t \in Seq(C), Distinct(s), Distinct(t),
         \A x : ~(Within(x, s) /\ Within(x, t))
  PROVE  Distinct(s \o t)
  <1>0. Len(s) \in Nat /\ Len(t) \in Nat
    OBVIOUS
  <1>1. \A i \in 1..Len(s \o t) :
           \/ i \in 1..Len(s) /\ (s \o t)[i] = s[i]
           \/ i - Len(s) \in 1..Len(t) /\ (s \o t)[i] = t[i - Len(s)]
    BY ConcatHolds
  <1>2. SUFFICES ASSUME NEW i \in 1..Len(s \o t), NEW j \in 1..Len(s \o t),
                        (s \o t)[i] = (s \o t)[j]
                 PROVE  i = j
    BY DEF Distinct
  <1>3. CASE i \in 1..Len(s) /\ (s \o t)[i] = s[i] /\ j \in 1..Len(s) /\ (s \o t)[j] = s[j]
    BY <1>2, <1>3 DEF Distinct
  <1>4. CASE /\ i - Len(s) \in 1..Len(t) /\ (s \o t)[i] = t[i - Len(s)]
             /\ j - Len(s) \in 1..Len(t) /\ (s \o t)[j] = t[j - Len(s)]
    <2>1. i - Len(s) = j - Len(s)
      BY <1>2, <1>4 DEF Distinct
    <2>2. i \in Int /\ j \in Int
      OBVIOUS
    <2> QED BY <1>0, <2>1, <2>2
  <1>5. CASE /\ i \in 1..Len(s) /\ (s \o t)[i] = s[i]
             /\ j - Len(s) \in 1..Len(t) /\ (s \o t)[j] = t[j - Len(s)]
    <2>1. Within(s[i], s) /\ Within(t[j - Len(s)], t) /\ s[i] = t[j - Len(s)]
      BY <1>2, <1>5 DEF Within
    <2> QED BY <2>1
  <1>6. CASE /\ j \in 1..Len(s) /\ (s \o t)[j] = s[j]
             /\ i - Len(s) \in 1..Len(t) /\ (s \o t)[i] = t[i - Len(s)]
    <2>1. Within(s[j], s) /\ Within(t[i - Len(s)], t) /\ s[j] = t[i - Len(s)]
      BY <1>2, <1>6 DEF Within
    <2> QED BY <2>1
  <1> QED BY <1>1, <1>3, <1>4, <1>5, <1>6

LEMMA FlattenDistinct ==
  ASSUME NEW C, NEW seqs \in Seq(Seq(C)), \A i \in 1..Len(seqs) : Distinct(seqs[i]),
         \A i, j \in 1..Len(seqs) : \A x : Within(x, seqs[i]) /\ Within(x, seqs[j]) => i = j
  PROVE  Distinct(FlattenSeq(seqs))
  <1>1. PICK f : Flattens(f, seqs, C)
    BY Flattening
  <1>0. Len(seqs) \in Nat /\ \A i \in 1..Len(seqs) : seqs[i] \in Seq(C)
    OBVIOUS
  <1>7. seqs \in Seq(Seq(C))
    OBVIOUS
  <1>6. ASSUME NEW x
        PROVE  \A k \in 0..Len(seqs) : Within(x, f[k]) <=> \E i \in 1..k : Within(x, seqs[i])
    BY ONLY <1>1, <1>7, FlattensHold
  <1> DEFINE T == {k \in 0..Len(seqs) : Distinct(f[k])}
  <1>2. 0 \in T
    <2>1. f[0] = <<>>
      BY <1>1 DEF Flattens
    <2>2. Distinct(<<>>)
      BY DEF Distinct
    <2> QED BY <1>0, <2>1, <2>2
  <1>3. ASSUME NEW k \in 1..Len(seqs), k - 1 \in T PROVE k \in T
    <2>0. k \in Nat /\ k - 1 \in 0..Len(seqs) /\ k \in 0..Len(seqs) /\ seqs[k] \in Seq(C)
      BY <1>0
    <2>1. f[k] = f[k - 1] \o seqs[k] /\ f[k - 1] \in Seq(C)
      BY <1>1, <2>0 DEF Flattens
    <2>2. Distinct(f[k - 1]) /\ Distinct(seqs[k])
      BY <1>3
    <2>3. ASSUME NEW x, Within(x, f[k - 1]), Within(x, seqs[k]) PROVE FALSE
      <3>2. PICK i \in 1..(k - 1) : Within(x, seqs[i])
        BY <1>6, <2>0, <2>3
      <3>3. i \in 1..Len(seqs) /\ i # k
        BY <2>0
      <3> QED BY <2>3, <3>2, <3>3
    <2>4. Distinct(f[k - 1] \o seqs[k])
      BY <2>0, <2>1, <2>2, <2>3, ConcatDistinct
    <2> QED BY <2>0, <2>1, <2>4
  <1> HIDE DEF T
  <1>4. \A i \in 0..Len(seqs) : i \in T
    BY <1>0, <1>2, <1>3, Upward
  <1>5. Len(seqs) \in T
    BY <1>0, <1>4
  <1> QED BY <1>1, <1>5 DEF T, Flattens

LEMMA FlattenConcat ==
  ASSUME NEW C, NEW a \in Seq(Seq(C)), NEW b \in Seq(Seq(C))
  PROVE  FlattenSeq(a \o b) = FlattenSeq(a) \o FlattenSeq(b)
  <1>0. /\ a \o b \in Seq(Seq(C)) /\ Len(a \o b) = Len(a) + Len(b)
        /\ Len(a) \in Nat /\ Len(b) \in Nat
        /\ \A i \in 1..Len(a) : (a \o b)[i] = a[i]
    BY ConcatHolds
  <1>1. \A i \in 1..Len(b) : (a \o b)[Len(a) + i] = b[i]
    BY ConcatHolds
  <1>2. PICK f : Flattens(f, a \o b, C)
    BY <1>0, Flattening
  <1>3. PICK g : Flattens(g, a, C)
    BY Flattening
  <1>4. PICK h : Flattens(h, b, C)
    BY Flattening
  <1> USE DEF Flattens
  <1> DEFINE T == {k \in 0..Len(a) : f[k] = g[k]}
             U == {k \in 0..Len(b) : f[Len(a) + k] = g[Len(a)] \o h[k]}
  <1>5. 0 \in T
    BY <1>0, <1>2, <1>3
  <1>6. ASSUME NEW k \in 1..Len(a), k - 1 \in T PROVE k \in T
    <2>1. k \in 1..Len(a \o b) /\ f[k - 1] = g[k - 1]
      BY <1>0, <1>6
    <2>2. f[k] = f[k - 1] \o (a \o b)[k]
      BY <1>2, <2>1
    <2>3. g[k] = g[k - 1] \o a[k]
      BY <1>3
    <2>4. f[k] = g[k]
      BY <1>0, <2>1, <2>2, <2>3, Zenon
    <2> QED BY <2>4
  <1>7. f[Len(a)] = g[Len(a)]
    <2> HIDE DEF T
    <2>1. \A i \in 0..Len(a) : i \in T
      BY <1>0, <1>5, <1>6, Upward
    <2>2. Len(a) \in T
      BY <1>0, <2>1
    <2> QED BY <2>2 DEF T
  <1>8. g[Len(a)] \in Seq(C) /\ \A k \in 0..Len(b) : h[k] \in Seq(C)
    <2>1. Len(a) \in 0..Len(a)
      BY <1>0
    <2>2. g \in [0..Len(a) -> Seq(C)] /\ h \in [0..Len(b) -> Seq(C)]
      BY <1>3, <1>4
    <2> QED BY <2>1, <2>2
  <1>9. 0 \in U
    <2>1. g[Len(a)] \o <<>> = g[Len(a)]
      BY <1>8, ConcatEmptySeq
    <2>2. Len(a) + 0 = Len(a) /\ h[0] = <<>>
      BY <1>0, <1>4
    <2>3. f[Len(a) + 0] = g[Len(a)] \o h[0]
      BY <1>7, <2>1, <2>2, Zenon
    <2>4. 0 \in 0..Len(b)
      BY <1>0
    <2> QED BY <2>3, <2>4
  <1>10. ASSUME NEW k \in 1..Len(b), k - 1 \in U PROVE k \in U
    <2>1. Len(a) + k \in 1..Len(a \o b) /\ (Len(a) + k) - 1 = Len(a) + (k - 1)
      BY <1>0
    <2>2. f[Len(a) + k] = f[(Len(a) + k) - 1] \o (a \o b)[Len(a) + k]
      BY <1>2, <2>1
    <2>3. f[Len(a) + k] = f[Len(a) + (k - 1)] \o b[k]
      BY <1>1, <2>1, <2>2, Zenon
    <2>4. f[Len(a) + (k - 1)] = g[Len(a)] \o h[k - 1]
      BY <1>10
    <2>5. h[k] = h[k - 1] \o b[k]
      BY <1>4
    <2>6. h[k - 1] \in Seq(C) /\ b[k] \in Seq(C)
      BY <1>0, <1>8
    <2>7. \A s \in Seq(C), t \in Seq(C), u \in Seq(C) : (s \o t) \o u = s \o (t \o u)
      <3>1. ASSUME NEW s \in Seq(C), NEW t \in Seq(C), NEW u \in Seq(C)
            PROVE  (s \o t) \o u = s \o (t \o u)
        BY ONLY <3>1, ConcatAssociative, SMTT(30)
      <3> QED BY ONLY <3>1
    <2>9. (g[Len(a)] \o h[k - 1]) \o b[k] = g[Len(a)] \o (h[k - 1] \o b[k])
      BY <1>8, <2>6, <2>7
    <2>10. f[Len(a) + k] = (g[Len(a)] \o h[k - 1]) \o b[k]
      BY <2>3, <2>4, Zenon
    <2>11. f[Len(a) + k] = g[Len(a)] \o (h[k - 1] \o b[k])
      BY <2>9, <2>10, Zenon
    <2>8. f[Len(a) + k] = g[Len(a)] \o h[k]
      BY <2>5, <2>11, Zenon
    <2>12. k \in 0..Len(b)
      BY <1>0
    <2> QED BY <2>8, <2>12
  <1>11. f[Len(a) + Len(b)] = g[Len(a)] \o h[Len(b)]
    <2> HIDE DEF U
    <2>1. \A i \in 0..Len(b) : i \in U
      BY <1>0, <1>9, <1>10, Upward
    <2>2. Len(b) \in U
      BY <1>0, <2>1
    <2> QED BY <2>2 DEF U
  <1>12. FlattenSeq(a \o b) = f[Len(a) + Len(b)]
    BY <1>0, <1>2
  <1> QED BY <1>3, <1>4, <1>11, <1>12

LEMMA FlattenOne ==
  ASSUME NEW C, NEW s \in Seq(C)
  PROVE  FlattenSeq(<<s>>) = s
  <1>1. <<s>> \in Seq(Seq(C)) /\ Len(<<s>>) = 1 /\ <<s>>[1] = s
    OBVIOUS
  <1>2. PICK f : Flattens(f, <<s>>, C)
    BY <1>1, Flattening
  <1>3. 1 - 1 = 0 /\ 1 \in 1..1
    OBVIOUS
  <1>4. FlattenSeq(<<s>>) = f[1] /\ f[1] = f[1 - 1] \o <<s>>[1] /\ f[0] = <<>>
    BY <1>1, <1>2, <1>3 DEF Flattens
  <1>5. f[1] = <<>> \o s
    BY <1>1, <1>3, <1>4, Zenon
  <1> QED BY <1>4, <1>5, ConcatEmptySeq

----------------------------------------------------------------------------
(* What Keep keeps                                                         *)

Pieces(s, S) == [i \in DOMAIN s |-> IF s[i] \in S THEN <<s[i]>> ELSE <<>>]

LEMMA PiecesType ==
  ASSUME NEW C, NEW S, NEW s \in Seq(C)
  PROVE  /\ Pieces(s, S) \in Seq(Seq(C)) /\ Len(Pieces(s, S)) = Len(s)
         /\ \A i \in 1..Len(s) : Pieces(s, S)[i] = IF s[i] \in S THEN <<s[i]>> ELSE <<>>
         /\ Keep(s, S) = FlattenSeq(Pieces(s, S))
  <1>1. DOMAIN s = 1..Len(s) /\ Len(s) \in Nat
    OBVIOUS
  <1>2. Pieces(s, S) \in [1..Len(s) -> Seq(C)]
    <2>1. ASSUME NEW i \in 1..Len(s)
          PROVE  (IF s[i] \in S THEN <<s[i]>> ELSE <<>>) \in Seq(C)
      <3>1. s[i] \in C
        OBVIOUS
      <3>2. CASE s[i] \in S
        BY <3>1, <3>2
      <3>3. CASE s[i] \notin S
        BY <3>3, EmptyIn
      <3> QED BY <3>2, <3>3
    <2> QED BY <1>1, <2>1 DEF Pieces
  <1>3. Pieces(s, S) \in Seq(Seq(C)) /\ Len(Pieces(s, S)) = Len(s)
    BY <1>1, <1>2, SeqDef, LenProperties
  <1> QED BY <1>1, <1>3 DEF Pieces, Keep

LEMMA KeepType ==
  ASSUME NEW C, NEW S, NEW s \in Seq(C)
  PROVE  Keep(s, S) \in Seq(C) /\ Len(Keep(s, S)) \in Nat
  <1>1. Pieces(s, S) \in Seq(Seq(C)) /\ Keep(s, S) = FlattenSeq(Pieces(s, S))
    BY PiecesType
  <1>2. FlattenSeq(Pieces(s, S)) \in Seq(C)
    BY <1>1, FlattenType
  <1> QED BY <1>1, <1>2

LEMMA KeepHolds ==
  ASSUME NEW C, NEW S, NEW s \in Seq(C), NEW x
  PROVE  Within(x, Keep(s, S)) <=> x \in S /\ Within(x, s)
  <1> DEFINE p == Pieces(s, S)
  <1>1. /\ p \in Seq(Seq(C)) /\ Len(p) = Len(s) /\ Keep(s, S) = FlattenSeq(p)
        /\ \A i \in 1..Len(s) : p[i] = IF s[i] \in S THEN <<s[i]>> ELSE <<>>
    BY PiecesType
  <1> HIDE DEF p
  <1>2. Within(x, Keep(s, S)) <=> \E i \in 1..Len(p) : Within(x, p[i])
    <2>1. Within(x, FlattenSeq(p)) <=> \E i \in 1..Len(p) : Within(x, p[i])
      BY <1>1, FlattenHolds
    <2> QED BY <1>1, <2>1
  <1>3. ASSUME NEW i \in 1..Len(s) PROVE Within(x, p[i]) <=> s[i] \in S /\ s[i] = x
    <2>1. CASE s[i] \in S
      <3>1. p[i] = <<s[i]>>
        BY <1>1, <2>1
      <3> QED BY <2>1, <3>1 DEF Within
    <2>2. CASE s[i] \notin S
      <3>1. p[i] = <<>>
        BY <1>1, <2>2
      <3> QED BY <2>2, <3>1 DEF Within
    <2> QED BY <2>1, <2>2
  <1>4. Within(x, s) <=> \E i \in 1..Len(s) : s[i] = x
    BY DEF Within
  <1> QED BY <1>1, <1>2, <1>3, <1>4

LEMMA KeepDistinct ==
  ASSUME NEW C, NEW S, NEW s \in Seq(C), Distinct(s)
  PROVE  Distinct(Keep(s, S))
  <1> DEFINE p == Pieces(s, S)
  <1>1. /\ p \in Seq(Seq(C)) /\ Len(p) = Len(s) /\ Keep(s, S) = FlattenSeq(p)
        /\ \A i \in 1..Len(s) : p[i] = IF s[i] \in S THEN <<s[i]>> ELSE <<>>
    BY PiecesType
  <1> HIDE DEF p
  <1>2. ASSUME NEW i \in 1..Len(p)
        PROVE  Distinct(p[i]) /\ \A x : Within(x, p[i]) => x = s[i]
    <2>1. p[i] = <<s[i]>> \/ p[i] = <<>>
      BY <1>1
    <2> QED BY <2>1 DEF Distinct, Within
  <1>3. \A i, j \in 1..Len(p) : \A x : Within(x, p[i]) /\ Within(x, p[j]) => i = j
    BY <1>1, <1>2 DEF Distinct
  <1>4. Distinct(FlattenSeq(p))
    BY <1>1, <1>2, <1>3, FlattenDistinct
  <1> QED BY <1>1, <1>4

LEMMA KeepNone ==
  ASSUME NEW C, NEW S, NEW s \in Seq(C)
  PROVE  Keep(s, S) = <<>> <=> \A i \in 1..Len(s) : s[i] \notin S
  <1>0. Keep(s, S) \in Seq(C) /\ Len(Keep(s, S)) \in Nat
    BY KeepType
  <1>1. ASSUME Keep(s, S) = <<>>, NEW i \in 1..Len(s), s[i] \in S PROVE FALSE
    <2>1. Within(s[i], s)
      BY DEF Within
    <2>2. Within(s[i], Keep(s, S))
      BY <1>1, <2>1, KeepHolds
    <2> QED BY <1>1, <2>2 DEF Within
  <1>2. ASSUME Keep(s, S) # <<>> PROVE \E i \in 1..Len(s) : s[i] \in S
    <2>1. Len(Keep(s, S)) # 0
      BY <1>0, <1>2, EmptySeq
    <2>2. Within(Keep(s, S)[1], Keep(s, S))
      BY <1>0, <2>1 DEF Within
    <2>3. Keep(s, S)[1] \in S /\ Within(Keep(s, S)[1], s)
      BY <2>2, KeepHolds
    <2> QED BY <2>3 DEF Within
  <1> QED BY <1>1, <1>2

LEMMA KeepSame ==
  ASSUME NEW S, NEW T, NEW s, \A i \in DOMAIN s : s[i] \in S <=> s[i] \in T
  PROVE  Keep(s, S) = Keep(s, T)
  BY DEF Keep

LEMMA KeepConcat ==
  ASSUME NEW C, NEW S, NEW s \in Seq(C), NEW t \in Seq(C)
  PROVE  Keep(s \o t, S) = Keep(s, S) \o Keep(t, S)
  <1>1. s \o t \in Seq(C) /\ Len(s \o t) = Len(s) + Len(t) /\ Len(s) \in Nat /\ Len(t) \in Nat
    BY ConcatHolds
  <1> DEFINE p == Pieces(s, S)
             q == Pieces(t, S)
             r == Pieces(s \o t, S)
  <1>2. /\ p \in Seq(Seq(C)) /\ Len(p) = Len(s) /\ Keep(s, S) = FlattenSeq(p)
        /\ \A i \in 1..Len(s) : p[i] = IF s[i] \in S THEN <<s[i]>> ELSE <<>>
    BY PiecesType
  <1>3. /\ q \in Seq(Seq(C)) /\ Len(q) = Len(t) /\ Keep(t, S) = FlattenSeq(q)
        /\ \A i \in 1..Len(t) : q[i] = IF t[i] \in S THEN <<t[i]>> ELSE <<>>
    BY PiecesType
  <1>4. /\ r \in Seq(Seq(C)) /\ Len(r) = Len(s \o t)
        /\ Keep(s \o t, S) = FlattenSeq(r)
        /\ \A i \in 1..Len(s \o t) : r[i] = IF (s \o t)[i] \in S THEN <<(s \o t)[i]>> ELSE <<>>
    <2> DEFINE u == s \o t
    <2>1. u \in Seq(C)
      BY <1>1
    <2> HIDE DEF u
    <2>2. /\ Pieces(u, S) \in Seq(Seq(C)) /\ Len(Pieces(u, S)) = Len(u)
          /\ Keep(u, S) = FlattenSeq(Pieces(u, S))
          /\ \A i \in 1..Len(u) : Pieces(u, S)[i] = IF u[i] \in S THEN <<u[i]>> ELSE <<>>
      BY <2>1, PiecesType
    <2> QED BY <2>2 DEF u
  <1> HIDE DEF p, q, r
  <1>5. r = p \o q
    <2>0. p \o q \in Seq(Seq(C)) /\ Len(p \o q) = Len(p) + Len(q)
      BY <1>2, <1>3, ConcatProperties
    <2>1. p \o q \in Seq(Seq(C)) /\ Len(p \o q) = Len(r)
      BY <1>1, <1>2, <1>3, <1>4, <2>0
    <2>2. ASSUME NEW i \in 1..Len(r) PROVE r[i] = (p \o q)[i]
      <3>1. CASE i \in 1..Len(s)
        <4>1. (p \o q)[i] = p[i]
          BY <1>2, <1>3, <3>1, ConcatHolds
        <4>2. (s \o t)[i] = s[i]
          BY <3>1, ConcatHolds
        <4> QED BY <1>2, <1>4, <3>1, <4>1, <4>2
      <3>2. CASE i \notin 1..Len(s)
        <4>0. i \in 1..Len(p \o q) /\ i \notin 1..Len(p)
          BY <1>2, <2>1, <3>2
        <4>1. i - Len(p) \in 1..Len(q) /\ (p \o q)[i] = q[i - Len(p)]
          BY <1>2, <1>3, <4>0, ConcatHolds
        <4>2. i - Len(s) \in 1..Len(t) /\ (s \o t)[i] = t[i - Len(s)]
          BY <1>4, <3>2, ConcatHolds
        <4> QED BY <1>2, <1>3, <1>4, <4>1, <4>2
      <3> QED BY <3>1, <3>2
    <2> QED BY <1>4, <2>1, <2>2, SeqEqual
  <1> QED BY <1>2, <1>3, <1>4, <1>5, FlattenConcat

LEMMA KeepOne ==
  ASSUME NEW S, NEW x
  PROVE  Keep(<<x>>, S) = IF x \in S THEN <<x>> ELSE <<>>
  <1>1. <<x>> \in Seq({x}) /\ Len(<<x>>) = 1 /\ <<x>>[1] = x
    OBVIOUS
  <1> DEFINE y == IF x \in S THEN <<x>> ELSE <<>>
  <1>2. y \in Seq({x})
    <2>1. <<x>> \in Seq({x}) /\ <<>> \in Seq({x})
      BY <1>1, EmptyIn
    <2> QED BY <2>1
  <1>3. Pieces(<<x>>, S) = <<y>>
    BY DEF Pieces
  <1>4. Keep(<<x>>, S) = FlattenSeq(<<y>>)
    <2> HIDE DEF y
    <2>1. Keep(<<x>>, S) = FlattenSeq(Pieces(<<x>>, S))
      BY <1>1, PiecesType
    <2> QED BY <1>3, <2>1
  <1> HIDE DEF y
  <1>5. FlattenSeq(<<y>>) = y
    BY <1>2, FlattenOne
  <1> QED BY <1>4, <1>5 DEF y

LEMMA KeepAll ==
  ASSUME NEW C, NEW S, NEW s \in Seq(C), \A i \in 1..Len(s) : s[i] \in S
  PROVE  Keep(s, S) = s
  <1> DEFINE p == Pieces(s, S)
  <1>1. /\ p \in Seq(Seq(C)) /\ Len(p) = Len(s) /\ Keep(s, S) = FlattenSeq(p)
        /\ \A i \in 1..Len(s) : p[i] = IF s[i] \in S THEN <<s[i]>> ELSE <<>>
    BY PiecesType
  <1> HIDE DEF p
  <1>2. PICK f : Flattens(f, p, C)
    BY <1>1, Flattening
  <1> DEFINE T == {k \in 0..Len(s) : Len(f[k]) = k /\ \A i \in 1..k : f[k][i] = s[i]}
  <1>0. Len(s) \in Nat /\ \A i \in 1..Len(s) : s[i] \in C
    OBVIOUS
  <1>3. 0 \in T
    <2>1. f[0] = <<>>
      BY <1>2 DEF Flattens
    <2> QED BY <1>0, <2>1
  <1>4. ASSUME NEW k \in 1..Len(s), k - 1 \in T PROVE k \in T
    <2>1. f[k] = f[k - 1] \o <<s[k]>> /\ f[k - 1] \in Seq(C) /\ <<s[k]>> \in Seq(C)
      <3>0. k \in 1..Len(p) /\ k - 1 \in 0..Len(p)
        BY <1>0, <1>1
      <3>3. s[k] \in S
        OBVIOUS
      <3>1. k \in 1..Len(p) /\ k - 1 \in 0..Len(p) /\ p[k] = <<s[k]>>
        BY <1>1, <3>0, <3>3
      <3>2. f[k] = f[k - 1] \o p[k] /\ f[k - 1] \in Seq(C)
        BY <1>2, <3>1 DEF Flattens
      <3> QED BY <1>0, <3>1, <3>2
    <2>2. Len(f[k - 1]) = k - 1 /\ \A i \in 1..(k - 1) : f[k - 1][i] = s[i]
      BY <1>4
    <2>3. /\ Len(f[k]) = Len(f[k - 1]) + 1
          /\ \A i \in 1..(Len(f[k - 1]) + 1) :
                f[k][i] = IF i <= Len(f[k - 1]) THEN f[k - 1][i] ELSE <<s[k]>>[i - Len(f[k - 1])]
      BY <2>1, ConcatProperties
    <2>4. Len(f[k]) = k
      BY <2>2, <2>3
    <2>5. ASSUME NEW i \in 1..k PROVE f[k][i] = s[i]
      <3>1. CASE i = k
        <4>1. i \in 1..(Len(f[k - 1]) + 1) /\ ~(i <= Len(f[k - 1])) /\ i - Len(f[k - 1]) = 1
          BY <2>2, <3>1
        <4> QED BY <2>3, <3>1, <4>1
      <3>2. CASE i # k
        <4>1. i \in 1..(k - 1)
          BY <3>2
        <4> QED BY <2>2, <2>3, <4>1
      <3> QED BY <3>1, <3>2
    <2>6. k \in 0..Len(s)
      BY <1>0
    <2> QED BY <2>4, <2>5, <2>6
  <1> HIDE DEF T
  <1>5. \A i \in 0..Len(s) : i \in T
    BY <1>0, <1>3, <1>4, Upward
  <1>6. Len(s) \in T
    BY <1>0, <1>5
  <1>7. Keep(s, S) = f[Len(s)]
    BY <1>1, <1>2 DEF Flattens
  <1>8. Keep(s, S) \in Seq(C) /\ Len(Keep(s, S)) = Len(s) /\ \A i \in 1..Len(s) : Keep(s, S)[i] = s[i]
    BY <1>6, <1>7, KeepType DEF T
  <1> QED BY <1>8, SeqEqual

\* a is what is in front of a place, and b what is behind it.
Parts(s, i, a, b) ==
    /\ Len(a) = i - 1 /\ \A j \in 1..(i - 1) : a[j] = s[j]
    /\ Len(b) = Len(s) - i /\ \A j \in 1..(Len(s) - i) : b[j] = s[i + j]

LEMMA PartsAt ==
  ASSUME NEW C, NEW s \in Seq(C), NEW i \in 1..Len(s)
  PROVE  /\ SubSeq(s, 1, i - 1) \in Seq(C) /\ SubSeq(s, i + 1, Len(s)) \in Seq(C)
         /\ Parts(s, i, SubSeq(s, 1, i - 1), SubSeq(s, i + 1, Len(s)))
  <1> DEFINE a == SubSeq(s, 1, i - 1)
             b == SubSeq(s, i + 1, Len(s))
  <1>1. a \in Seq(C) /\ Len(a) = i - 1 /\ \A j \in 1..(i - 1) : a[j] = s[j]
    OBVIOUS
  <1>2. b \in Seq(C) /\ Len(b) = Len(s) - i /\ \A j \in 1..(Len(s) - i) : b[j] = s[i + j]
    OBVIOUS
  <1> HIDE DEF a, b
  <1>3. Parts(s, i, a, b)
    BY <1>1, <1>2 DEF Parts
  <1> QED BY <1>1, <1>2, <1>3 DEF a, b

\* A sequence is the parts with what is between them.
LEMMA SplitAt ==
  ASSUME NEW C, NEW s \in Seq(C), NEW i \in 1..Len(s), NEW a \in Seq(C), NEW b \in Seq(C),
         Parts(s, i, a, b),
         NEW t \in Seq(C), Len(t) = Len(s), \A j \in 1..Len(s) : j # i => t[j] = s[j]
  PROVE  t = (a \o <<t[i]>>) \o b
  <1>0. Len(s) \in Nat /\ i \in Nat /\ s[i] \in C
    OBVIOUS
  <1> DEFINE x == t[i]
  <1>4. x \in C
    OBVIOUS
  <1>5. x = t[i]
    OBVIOUS
  <1> HIDE DEF x
  <1>1. Len(a) = i - 1 /\ \A j \in 1..(i - 1) : a[j] = s[j]
    BY DEF Parts
  <1>2. Len(b) = Len(s) - i /\ \A j \in 1..(Len(s) - i) : b[j] = s[i + j]
    BY DEF Parts
  <1>3. t = (a \o <<x>>) \o b
    <2>1. <<x>> \in Seq(C) /\ Len(<<x>>) = 1 /\ <<x>>[1] = x
      BY <1>4
    <2>2. /\ a \o <<x>> \in Seq(C) /\ Len(a \o <<x>>) = i
          /\ \A j \in 1..i : (a \o <<x>>)[j] = IF j <= i - 1 THEN s[j] ELSE x
      <3>1. /\ a \o <<x>> \in Seq(C) /\ Len(a \o <<x>>) = Len(a) + Len(<<x>>)
            /\ \A j \in 1..Len(a) + Len(<<x>>) :
                  (a \o <<x>>)[j] = IF j <= Len(a) THEN a[j] ELSE <<x>>[j - Len(a)]
        BY <1>1, <2>1, ConcatProperties
      <3>2. ASSUME NEW j \in 1..i, ~(j <= i - 1) PROVE j - Len(a) = 1
        BY <1>0, <1>1, <3>2
      <3> QED BY <1>0, <1>1, <2>1, <3>1, <3>2
    <2>3. /\ (a \o <<x>>) \o b \in Seq(C) /\ Len((a \o <<x>>) \o b) = Len(s)
          /\ \A j \in 1..Len(s) : ((a \o <<x>>) \o b)[j] =
                IF j <= i THEN (a \o <<x>>)[j] ELSE b[j - i]
      <3> DEFINE c == a \o <<x>>
      <3>1. c \in Seq(C) /\ Len(c) = i
        BY <2>2
      <3> HIDE DEF c
      <3>2. /\ c \o b \in Seq(C) /\ Len(c \o b) = Len(c) + Len(b)
            /\ \A j \in 1..Len(c) + Len(b) : (c \o b)[j] = IF j <= Len(c) THEN c[j] ELSE b[j - Len(c)]
        BY <1>2, <3>1, ConcatProperties
      <3>3. Len(c) + Len(b) = Len(s)
        BY <1>0, <1>2, <3>1
      <3>4. /\ c \o b \in Seq(C) /\ Len(c \o b) = Len(s)
            /\ \A j \in 1..Len(s) : (c \o b)[j] = IF j <= i THEN c[j] ELSE b[j - i]
        BY <3>1, <3>2, <3>3
      <3> QED BY <3>4 DEF c
    <2>4. ASSUME NEW j \in 1..Len(s) PROVE t[j] = ((a \o <<x>>) \o b)[j]
      <3>1. CASE j < i
        <4>1. j \in 1..i /\ j <= i - 1 /\ j <= i /\ j # i
          BY <1>0, <3>1
        <4>2. t[j] = s[j]
          BY <4>1
        <4> QED BY <2>2, <2>3, <4>1, <4>2
      <3>2. CASE j = i
        BY <1>0, <1>5, <2>2, <2>3, <3>2
      <3>3. CASE j > i
        <4>1. j - i \in 1..(Len(s) - i) /\ i + (j - i) = j
          BY <1>0, <3>3
        <4>2. b[j - i] = s[i + (j - i)]
          BY <1>2, <4>1
        <4>3. b[j - i] = s[j]
          BY <4>1, <4>2, Zenon
        <4>4. j # i /\ ~(j <= i)
          BY <1>0, <3>3
        <4>5. t[j] = s[j] /\ ((a \o <<x>>) \o b)[j] = b[j - i]
          BY <2>3, <4>4
        <4> QED BY <4>3, <4>5
      <3>4. j < i \/ j = i \/ j > i
        BY <1>0
      <3> QED BY <3>1, <3>2, <3>3, <3>4
    <2> QED BY <2>3, <2>4, SeqEqual
  <1> QED BY <1>3, <1>5

\* What a change of one element is to what is kept.
LEMMA KeepChanged ==
  ASSUME NEW C, NEW S, NEW s \in Seq(C), NEW i \in 1..Len(s), s[i] \notin S
  PROVE  /\ Keep(RemoveAt(s, i), S) = Keep(s, S) /\ RemoveAt(s, i) \in Seq(C)
         /\ \A y \in C : y \notin S => Keep([s EXCEPT ![i] = y], S) = Keep(s, S)
  <1> DEFINE a == SubSeq(s, 1, i - 1)
             b == SubSeq(s, i + 1, Len(s))
  <1>0. s[i] \in C
    OBVIOUS
  <1>1. a \in Seq(C) /\ b \in Seq(C) /\ Parts(s, i, a, b)
    BY PartsAt
  <1>3. RemoveAt(s, i) = a \o b
    BY DEF RemoveAt
  <1> HIDE DEF a, b
  <1>2. s = (a \o <<s[i]>>) \o b
    BY <1>1, SplitAt
  <1>4. ASSUME NEW x \in C, x \notin S PROVE Keep((a \o <<x>>) \o b, S) = Keep(a, S) \o Keep(b, S)
    <2>1. <<x>> \in Seq(C) /\ a \o <<x>> \in Seq(C)
      BY <1>1, ConcatProperties
    <2> DEFINE c == a \o <<x>>
    <2>2. Keep(c \o b, S) = Keep(c, S) \o Keep(b, S)
      <3> HIDE DEF c
      <3>1. c \in Seq(C)
        BY <2>1 DEF c
      <3> QED BY <1>1, <3>1, KeepConcat
    <2>3. Keep(a \o <<x>>, S) = Keep(a, S) \o Keep(<<x>>, S)
      BY <1>1, <2>1, KeepConcat
    <2>4. Keep(<<x>>, S) = <<>>
      BY <1>4, KeepOne
    <2>5. Keep(a, S) \o <<>> = Keep(a, S)
      BY <1>1, KeepType, ConcatEmptySeq
    <2> QED BY <2>2, <2>3, <2>4, <2>5, Zenon
  <1>5. Keep(a \o b, S) = Keep(a, S) \o Keep(b, S)
    BY <1>1, KeepConcat
  <1>6. Keep(s, S) = Keep(a, S) \o Keep(b, S)
    <2>1. Keep((a \o <<s[i]>>) \o b, S) = Keep(a, S) \o Keep(b, S)
      BY <1>0, <1>4
    <2> QED BY <1>2, <2>1, Zenon
  <1>7. ASSUME NEW y \in C, y \notin S PROVE Keep([s EXCEPT ![i] = y], S) = Keep(s, S)
    <2> DEFINE t == [s EXCEPT ![i] = y]
    <2>1. t \in Seq(C) /\ Len(t) = Len(s)
      BY ExceptSeq
    <2>2. t[i] = y /\ \A j \in 1..Len(s) : j # i => t[j] = s[j]
      OBVIOUS
    <2> HIDE DEF t
    <2>3. t = (a \o <<y>>) \o b
      BY <1>1, <2>1, <2>2, SplitAt
    <2>4. Keep((a \o <<y>>) \o b, S) = Keep(a, S) \o Keep(b, S)
      BY <1>4, <1>7
    <2>5. Keep(t, S) = Keep(s, S)
      BY <1>6, <2>3, <2>4, Zenon
    <2> QED BY <2>5 DEF t
  <1>8. a \o b \in Seq(C)
    BY <1>1, ConcatProperties
  <1>9. Keep(RemoveAt(s, i), S) = Keep(s, S)
    BY <1>3, <1>5, <1>6, Zenon
  <1> QED BY <1>3, <1>7, <1>8, <1>9

----------------------------------------------------------------------------
(* Removals                                                                *)

LEMMA RemoveFromStays ==
  ASSUME NEW V, NEW doc \in V, NEW e, NEW n, NEW N \in Nat, DOMAIN LocateOurs(doc, e) = 1..N,
         \A d \in V : ~(Len(LocateOurs(d, e)) < n) => RemoveOne(d, e, LocateOurs(d, e)[n]) \in V
  PROVE  RemoveFrom(doc, e, n) \in V
  <1> DEFINE op(d) == IF Len(LocateOurs(d, e)) < n THEN d ELSE RemoveOne(d, e, LocateOurs(d, e)[n])
             step == [i \in 1..N |-> [d \in V |-> op(d)]]
             F(h) == h = [S \in SUBSET (1..N) |->
                            IF S = {} THEN doc ELSE op(h[S \ {Max(S)}])]
             h0 == CHOOSE h : F(h)
  <1>1. \A d \in V : op(d) \in V
    OBVIOUS
  <1>2. RemoveFrom(doc, e, n) = h0[1..N]
    BY DEF RemoveFrom, FoldLeft, MapThenFoldSet
  <1> HIDE DEF op
  <1>3. step \in [1..N -> [V -> V]]
    BY <1>1
  <1>4. PICK g : Folding(g, V, doc, step, N)
    <2> HIDE DEF step
    <2> QED BY <1>3, Folded
  <1>5. F(g)
    <2>1. ASSUME NEW S \in SUBSET (1..N)
          PROVE  g[S] = IF S = {} THEN doc ELSE op(g[S \ {Max(S)}])
      <3>1. CASE S = {}
        BY <1>4, <3>1 DEF Folding
      <3>2. CASE S # {}
        <4>1. Max(S) \in 1..N
          BY <3>2, MaxIn
        <4>2. g[S \ {Max(S)}] \in V
          BY <1>4 DEF Folding
        <4>3. g[S] = step[Max(S)][g[S \ {Max(S)}]]
          BY <1>4, <3>2 DEF Folding
        <4> QED BY <3>2, <4>1, <4>2, <4>3
      <3> QED BY <3>1, <3>2
    <2>2. g \in [SUBSET (1..N) -> V]
      BY <1>4 DEF Folding
    <2> HIDE DEF step
    <2> QED BY <2>1, <2>2
  <1>6. F(h0)
    BY <1>5
  <1> HIDE DEF h0
  <1>7. \A S \in SUBSET (1..N) : h0[S] = IF S = {} THEN doc ELSE op(h0[S \ {Max(S)}])
    BY <1>6
  <1> HIDE DEF F
  <1>8. ASSUME NEW k \in 1..N, h0[1..(k - 1)] \in V PROVE h0[1..k] \in V
    <2>2. /\ 1..k \in SUBSET (1..N) /\ 1..k # {} /\ Max(1..k) = k
          /\ (1..k) \ {k} = 1..(k - 1)
      BY Prefix
    <2>3. h0[1..k] = op(h0[(1..k) \ {Max(1..k)}])
      BY <1>7, <2>2
    <2>1. h0[1..k] = op(h0[1..(k - 1)])
      BY <2>2, <2>3, Zenon
    <2> QED BY <1>1, <1>8, <2>1
  <1>9. h0[{}] = doc
    BY <1>7
  <1>10. h0[1..N] \in V
    BY <1>8, <1>9, Stays
  <1> QED BY <1>2, <1>10
----------------------------------------------------------------------------
(* Documents                                                               *)

Forms == Handlers \union {User, Outdated}

LEMMA NotMissing ==
  /\ Missing \notin Lists /\ Missing \notin Tables
  /\ Missing \notin ServerTables /\ Missing \notin Docs
  <1>1. ASSUME NEW x, x = Missing PROVE DOMAIN x = {}
    BY <1>1 DEF Missing
  <1>2. \A x \in Lists : "note" \in DOMAIN x
    BY DEF Lists
  <1>3. \A x \in Tables : "note" \in DOMAIN x
    BY DEF Tables
  <1>4. \A x \in ServerTables : "user" \in DOMAIN x
    BY DEF ServerTables
  <1>5. \A x \in Docs : "note" \in DOMAIN x
    BY DEF Docs
  <1> QED BY <1>1, <1>2, <1>3, <1>4, <1>5

LEMMA FreshTypes ==
  /\ EmptyRoot \in Docs /\ NoEvents \in Tables
  /\ \A h \in Forms : Group(<<h>>) \in Groups
  <1>1. EmptyRoot \in Docs
    BY DEF EmptyRoot, Docs
  <1>2. NoEvents \in Tables
    BY DEF NoEvents, Tables
  <1>3. ASSUME NEW h \in Forms PROVE Group(<<h>>) \in Groups
    BY DEF Group, Groups, Forms
  <1> QED BY <1>1, <1>2, <1>3

\* A list put in place of an event's.
LEMMA SetListType ==
  ASSUME NEW doc \in Docs, doc.hooks # Missing, NEW e \in Events, NEW list \in {Missing} \union Lists
  PROVE  /\ SetList(doc, e, list) \in Docs
         /\ SetList(doc, e, list).hooks \in Tables
         /\ SetList(doc, e, list).hooks.note = doc.hooks.note
         /\ SetList(doc, e, list).hooks.lists[e] = list
         /\ \A o \in Events \ {e} : SetList(doc, e, list).hooks.lists[o] = doc.hooks.lists[o]
         /\ SetList(doc, e, list).bom = doc.bom /\ SetList(doc, e, list).note = doc.note
         /\ SetList(doc, e, list).keys = doc.keys /\ SetList(doc, e, list).servers = doc.servers
  <1>1. doc.hooks \in Tables
    BY DEF Docs
  <1> DEFINE lists == [doc.hooks.lists EXCEPT ![e] = list]
             table == [doc.hooks EXCEPT !.lists[e] = list]
  <1>2. /\ lists \in [Events -> {Missing} \union Lists] /\ lists[e] = list
        /\ \A o \in Events \ {e} : lists[o] = doc.hooks.lists[o]
    BY <1>1 DEF Tables
  <1>3. table = [doc.hooks EXCEPT !.lists = lists]
    OBVIOUS
  <1> HIDE DEF lists
  <1>4. table \in Tables /\ table.note = doc.hooks.note /\ table.lists = lists
    BY <1>1, <1>2, <1>3 DEF Tables
  <1>5. SetList(doc, e, list) = [doc EXCEPT !.hooks = table]
    BY DEF SetList
  <1> HIDE DEF table
  <1>6. /\ SetList(doc, e, list) \in Docs /\ SetList(doc, e, list).hooks = table
        /\ SetList(doc, e, list).bom = doc.bom /\ SetList(doc, e, list).note = doc.note
        /\ SetList(doc, e, list).keys = doc.keys /\ SetList(doc, e, list).servers = doc.servers
    BY <1>4, <1>5 DEF Docs
  <1> QED BY <1>2, <1>4, <1>6

ListPart(list) ==
    [note |-> list # Missing /\ list.note,
     groups |-> UserGroups(IF list = Missing THEN <<>> ELSE list.groups)]
HooksNote(doc) == doc.hooks # Missing /\ doc.hooks.note
ServersUser(doc) == doc.servers # Missing /\ doc.servers.user

LEMMA SamePart ==
  ASSUME NEW doc \in Docs, NEW new \in Docs,
         new.note = doc.note, new.keys \ WrapperKeys = doc.keys \ WrapperKeys,
         HooksNote(new) = HooksNote(doc), ServersUser(new) = ServersUser(doc),
         \A e \in Events : ListPart(EventList(new, e)) = ListPart(EventList(doc, e))
  PROVE  UserPart(new) = UserPart(doc)
  <1>1. ASSUME NEW d \in Docs
        PROVE  UserPart(d) = [note |-> d.note, keys |-> d.keys \ WrapperKeys,
                              hooksNote |-> HooksNote(d),
                              lists |-> [e \in Events |-> ListPart(EventList(d, e))],
                              servers |-> ServersUser(d)]
    <2>1. d # Missing
      BY NotMissing
    <2> QED BY <2>1 DEF UserPart, HooksNote, ServersUser, ListPart, GroupsOf
  <1>2. [e \in Events |-> ListPart(EventList(new, e))] = [e \in Events |-> ListPart(EventList(doc, e))]
    OBVIOUS
  <1> QED BY <1>1, <1>2

LEMMA SetListPart ==
  ASSUME NEW doc \in Docs, doc.hooks # Missing, NEW e \in Events,
         NEW list \in {Missing} \union Lists, ListPart(list) = ListPart(doc.hooks.lists[e])
  PROVE  UserPart(SetList(doc, e, list)) = UserPart(doc)
  <1> DEFINE new == SetList(doc, e, list)
  <1>1. /\ new \in Docs /\ new.hooks \in Tables
        /\ new.hooks.note = doc.hooks.note
        /\ new.hooks.lists[e] = list
        /\ \A o \in Events \ {e} : new.hooks.lists[o] = doc.hooks.lists[o]
        /\ new.note = doc.note
        /\ new.keys = doc.keys /\ new.servers = doc.servers
    BY SetListType
  <1> HIDE DEF new
  <1>2. doc # Missing /\ new # Missing /\ new.hooks # Missing
    BY <1>1, NotMissing
  <1>3. HooksNote(new) = HooksNote(doc) /\ ServersUser(new) = ServersUser(doc)
    BY <1>1, <1>2 DEF HooksNote, ServersUser
  <1>4. ASSUME NEW o \in Events PROVE ListPart(EventList(new, o)) = ListPart(EventList(doc, o))
    <2>1. EventList(new, o) = new.hooks.lists[o] /\ EventList(doc, o) = doc.hooks.lists[o]
      BY <1>2 DEF EventList
    <2>2. CASE o = e
      BY <1>1, <2>1, <2>2
    <2>3. CASE o # e
      BY <1>1, <2>1, <2>3
    <2> QED BY <2>2, <2>3
  <1>5. UserPart(new) = UserPart(doc)
    BY <1>1, <1>3, <1>4, SamePart
  <1> QED BY <1>5 DEF new

----------------------------------------------------------------------------
(* What is the user's in a list of groups                                  *)

UserGroup(group) == [group EXCEPT !.handlers = Keep(@, {User})]
Users(groups) == [g \in DOMAIN groups |-> UserGroup(groups[g])]

LEMMA UsersType ==
  ASSUME NEW groups \in Seq(Groups)
  PROVE  /\ Users(groups) \in Seq(Groups) /\ Len(Users(groups)) = Len(groups)
         /\ \A g \in 1..Len(groups) : Users(groups)[g] = UserGroup(groups[g])
  <1>1. DOMAIN groups = 1..Len(groups) /\ Len(groups) \in Nat
    OBVIOUS
  <1>2. ASSUME NEW g \in 1..Len(groups) PROVE UserGroup(groups[g]) \in Groups
    <2>0. groups[g] \in Groups
      OBVIOUS
    <2>1. groups[g] \in Groups /\ groups[g].handlers \in Seq(Forms)
      BY <2>0 DEF Groups, Forms
    <2>2. Keep(groups[g].handlers, {User}) \in Seq(Forms)
      BY <2>1, KeepType
    <2> QED BY <2>1, <2>2 DEF UserGroup, Groups, Forms
  <1>3. Users(groups) \in [1..Len(groups) -> Groups]
    BY <1>1, <1>2 DEF Users
  <1>4. Users(groups) \in Seq(Groups) /\ Len(Users(groups)) = Len(groups)
    BY <1>1, <1>3, SeqDef, LenProperties
  <1> QED BY <1>1, <1>4 DEF Users

LEMMA UserGroupsAs ==
  ASSUME NEW groups \in Seq(Groups)
  PROVE  UserGroups(groups) = Keep(Users(groups), Groups \ {Group(<<>>)})
  <1> DEFINE users == Users(groups)
  <1>1. users \in Seq(Groups)
    BY UsersType
  <1>2. UserGroups(groups) = Keep(users, Range(users) \ {Group(<<>>)})
    BY DEF UserGroups, Users, UserGroup
  <1> HIDE DEF users
  <1>3. \A i \in DOMAIN users :
           users[i] \in Range(users) \ {Group(<<>>)} <=> users[i] \in Groups \ {Group(<<>>)}
    BY <1>1 DEF Range
  <1>4. Keep(users, Range(users) \ {Group(<<>>)}) = Keep(users, Groups \ {Group(<<>>)})
    <2> DEFINE S == Range(users) \ {Group(<<>>)}
               T == Groups \ {Group(<<>>)}
    <2>1. \A i \in DOMAIN users : users[i] \in S <=> users[i] \in T
      BY <1>3
    <2> HIDE DEF S, T
    <2>2. Keep(users, S) = Keep(users, T)
      BY <2>1, KeepSame
    <2> QED BY <2>2 DEF S, T
  <1> QED BY <1>2, <1>4 DEF users

\* A group with other handlers, the user's as they are.
LEMMA OtherHandlers ==
  ASSUME NEW group \in Groups, NEW hs \in Seq(Forms),
         Keep(hs, {User}) = Keep(group.handlers, {User})
  PROVE  /\ [group EXCEPT !.handlers = hs] \in Groups
         /\ UserGroup([group EXCEPT !.handlers = hs]) = UserGroup(group)
  <1> DEFINE new == [group EXCEPT !.handlers = hs]
  <1>1. new \in Groups /\ new.handlers = hs
    BY DEF Groups, Forms
  <1>2. UserGroup(new) = [group EXCEPT !.handlers = Keep(hs, {User})]
    BY <1>1 DEF UserGroup
  <1> QED BY <1>1, <1>2 DEF UserGroup

\* Groups of which one has changed, and nothing of the user's in it.
LEMMA OtherGroup ==
  ASSUME NEW groups \in Seq(Groups), NEW new \in Seq(Groups), Len(new) = Len(groups),
         \A k \in 1..Len(groups) : UserGroup(new[k]) = UserGroup(groups[k])
  PROVE  UserGroups(new) = UserGroups(groups)
  <1>1. DOMAIN new = DOMAIN groups /\ DOMAIN groups = 1..Len(groups)
    OBVIOUS
  <1>2. Users(new) = Users(groups)
    BY <1>1 DEF Users
  <1> QED BY <1>2, UserGroupsAs

LEMMA RemovedAt ==
  ASSUME NEW C, NEW s \in Seq(C), NEW i \in 1..Len(s)
  PROVE  /\ RemoveAt(s, i) \in Seq(C) /\ Len(RemoveAt(s, i)) = Len(s) - 1
         /\ \A j \in 1..(Len(s) - 1) : RemoveAt(s, i)[j] = IF j < i THEN s[j] ELSE s[j + 1]
  <1> DEFINE a == SubSeq(s, 1, i - 1)
             b == SubSeq(s, i + 1, Len(s))
  <1>1. a \in Seq(C) /\ b \in Seq(C) /\ Parts(s, i, a, b)
    BY PartsAt
  <1>2. RemoveAt(s, i) = a \o b
    BY DEF RemoveAt
  <1> HIDE DEF a, b
  <1>0. Len(s) \in Nat /\ i \in Nat
    OBVIOUS
  <1>3. Len(a) = i - 1 /\ \A j \in 1..(i - 1) : a[j] = s[j]
    BY <1>1 DEF Parts
  <1>4. Len(b) = Len(s) - i /\ \A j \in 1..(Len(s) - i) : b[j] = s[i + j]
    BY <1>1 DEF Parts
  <1>5. /\ a \o b \in Seq(C) /\ Len(a \o b) = Len(s) - 1
        /\ \A j \in 1..(Len(s) - 1) : (a \o b)[j] = IF j <= i - 1 THEN a[j] ELSE b[j - (i - 1)]
    <2>1. /\ a \o b \in Seq(C) /\ Len(a \o b) = Len(a) + Len(b)
          /\ \A j \in 1..Len(a) + Len(b) : (a \o b)[j] = IF j <= Len(a) THEN a[j] ELSE b[j - Len(a)]
      BY <1>1, ConcatProperties
    <2>2. Len(a) + Len(b) = Len(s) - 1
      BY <1>0, <1>3, <1>4
    <2> QED BY <1>3, <2>1, <2>2
  <1>6. ASSUME NEW j \in 1..(Len(s) - 1) PROVE (a \o b)[j] = IF j < i THEN s[j] ELSE s[j + 1]
    <2>1. CASE j < i
      <3>1. j <= i - 1 /\ j \in 1..(i - 1)
        BY <1>0, <2>1
      <3> QED BY <1>3, <1>5, <2>1, <3>1
    <2>2. CASE ~(j < i)
      <3>1. ~(j <= i - 1) /\ j - (i - 1) \in 1..(Len(s) - i) /\ i + (j - (i - 1)) = j + 1
        BY <1>0, <2>2
      <3>2. b[j - (i - 1)] = s[i + (j - (i - 1))]
        BY <1>4, <3>1
      <3>3. b[j - (i - 1)] = s[j + 1]
        BY <3>1, <3>2, Zenon
      <3> QED BY <1>5, <2>2, <3>1, <3>3
    <2> QED BY <2>1, <2>2
  <1> QED BY <1>2, <1>5, <1>6

\* The groups without one that holds nothing but a handler of ours.
LEMMA CutGroupGroups ==
  ASSUME NEW groups \in Seq(Groups), NEW g \in 1..Len(groups),
         Len(groups[g].handlers) = 1, groups[g].handlers[1] # User,
         ~groups[g].note, ~groups[g].listNote
  PROVE  /\ RemoveAt(groups, g) \in Seq(Groups)
         /\ UserGroups(RemoveAt(groups, g)) = UserGroups(groups)
  <1> DEFINE new == RemoveAt(groups, g)
  <1>0. groups[g] \in Groups /\ Len(groups) \in Nat
    OBVIOUS
  <1>1. /\ new \in Seq(Groups) /\ Len(new) = Len(groups) - 1
        /\ \A j \in 1..(Len(groups) - 1) : new[j] = IF j < g THEN groups[j] ELSE groups[j + 1]
    BY RemovedAt
  <1> HIDE DEF new
  <1>2. UserGroup(groups[g]) = Group(<<>>)
    <2>1. groups[g].handlers \in Seq(Forms) /\ \A i \in 1..Len(groups[g].handlers) :
             groups[g].handlers[i] \notin {User}
      BY <1>0 DEF Groups, Forms
    <2>2. Keep(groups[g].handlers, {User}) = <<>>
      BY <2>1, KeepNone
    <2>3. UserGroup(groups[g]) = [groups[g] EXCEPT !.handlers = <<>>]
      BY <2>2 DEF UserGroup
    <2> QED BY <1>0, <2>3 DEF Groups, Group
  <1> DEFINE users == Users(groups)
  <1>3. /\ users \in Seq(Groups) /\ Len(users) = Len(groups)
        /\ \A k \in 1..Len(groups) : users[k] = UserGroup(groups[k])
    BY UsersType
  <1>4. /\ Users(new) \in Seq(Groups) /\ Len(Users(new)) = Len(new)
        /\ \A k \in 1..Len(new) : Users(new)[k] = UserGroup(new[k])
    BY <1>1, UsersType
  <1> HIDE DEF users
  <1>5. /\ RemoveAt(users, g) \in Seq(Groups) /\ Len(RemoveAt(users, g)) = Len(users) - 1
        /\ \A j \in 1..(Len(users) - 1) :
              RemoveAt(users, g)[j] = IF j < g THEN users[j] ELSE users[j + 1]
    BY <1>3, RemovedAt
  <1>6. Users(new) = RemoveAt(users, g)
    <2>1. ASSUME NEW j \in 1..Len(new) PROVE Users(new)[j] = RemoveAt(users, g)[j]
      <3>1. j \in 1..(Len(groups) - 1) /\ j \in 1..Len(groups) /\ j + 1 \in 1..Len(groups)
        BY <1>0, <1>1
      <3>2. CASE j < g
        BY <1>1, <1>3, <1>4, <1>5, <3>1, <3>2
      <3>3. CASE ~(j < g)
        BY <1>1, <1>3, <1>4, <1>5, <3>1, <3>3
      <3> QED BY <3>2, <3>3
    <2>2. Len(Users(new)) = Len(RemoveAt(users, g)) /\ Len(new) = Len(Users(new))
      BY <1>1, <1>3, <1>4, <1>5
    <2> QED BY <1>4, <1>5, <2>1, <2>2, SeqEqual
  <1> DEFINE S == Groups \ {Group(<<>>)}
  <1>7. g \in 1..Len(users) /\ users[g] \notin S
    BY <1>2, <1>3
  <1>8. UserGroups(new) = Keep(Users(new), S) /\ UserGroups(groups) = Keep(users, S)
    BY <1>1, UserGroupsAs DEF users
  <1> HIDE DEF S
  <1>9. Keep(RemoveAt(users, g), S) = Keep(users, S)
    BY <1>3, <1>7, KeepChanged
  <1> QED BY <1>1, <1>6, <1>8, <1>9 DEF new

\* The groups with one behind them that holds nothing but a handler of ours.
LEMMA AppendGroups ==
  ASSUME NEW groups \in Seq(Groups), NEW h \in Forms, h # User
  PROVE  /\ Append(groups, Group(<<h>>)) \in Seq(Groups)
         /\ UserGroups(Append(groups, Group(<<h>>))) = UserGroups(groups)
  <1> DEFINE group == Group(<<h>>)
             new == Append(groups, group)
  <1>1. group \in Groups /\ UserGroup(group) = Group(<<>>) /\ Group(<<>>) \in Groups
    <2>1. group \in Groups
      BY FreshTypes
    <2>2. Keep(<<h>>, {User}) = <<>>
      BY KeepOne
    <2>3. UserGroup(group) = [group EXCEPT !.handlers = Keep(<<h>>, {User})]
      BY DEF UserGroup, Group
    <2>4. UserGroup(group) = Group(<<>>)
      BY <2>2, <2>3 DEF Group
    <2>5. Group(<<>>) \in Groups
      BY DEF Group, Groups
    <2> QED BY <2>1, <2>4, <2>5
  <1> HIDE DEF group
  <1>2. /\ new \in Seq(Groups) /\ Len(new) = Len(groups) + 1
        /\ \A j \in 1..Len(groups) : new[j] = groups[j]
        /\ new[Len(groups) + 1] = group
    BY <1>1, AppendProperties
  <1> HIDE DEF new
  <1> DEFINE users == Users(groups)
  <1>3. /\ users \in Seq(Groups) /\ Len(users) = Len(groups)
        /\ \A k \in 1..Len(groups) : users[k] = UserGroup(groups[k])
    BY UsersType
  <1>4. /\ Users(new) \in Seq(Groups) /\ Len(Users(new)) = Len(new)
        /\ \A k \in 1..Len(new) : Users(new)[k] = UserGroup(new[k])
    BY <1>2, UsersType
  <1> HIDE DEF users
  <1>0. Len(groups) \in Nat /\ <<Group(<<>>)>> \in Seq(Groups) /\ Len(<<Group(<<>>)>>) = 1
    BY <1>1
  <1>5. /\ users \o <<Group(<<>>)>> \in Seq(Groups)
        /\ Len(users \o <<Group(<<>>)>>) = Len(users) + 1
        /\ \A j \in 1..(Len(users) + 1) : (users \o <<Group(<<>>)>>)[j] =
              IF j <= Len(users) THEN users[j] ELSE <<Group(<<>>)>>[j - Len(users)]
    BY <1>0, <1>3, ConcatProperties
  <1>6. Users(new) = users \o <<Group(<<>>)>>
    <2>1. ASSUME NEW j \in 1..Len(new) PROVE Users(new)[j] = (users \o <<Group(<<>>)>>)[j]
      <3>1. CASE j \in 1..Len(groups)
        <4>1. j <= Len(users) /\ j \in 1..(Len(users) + 1)
          BY <1>0, <1>3, <3>1
        <4> QED BY <1>2, <1>3, <1>4, <1>5, <3>1, <4>1
      <3>2. CASE j \notin 1..Len(groups)
        <4>1. j = Len(groups) + 1
          BY <1>0, <1>2, <3>2
        <4>2. ~(j <= Len(users)) /\ j \in 1..(Len(users) + 1) /\ j - Len(users) = 1
          BY <1>0, <1>3, <4>1
        <4>3. Users(new)[j] = Group(<<>>)
          BY <1>1, <1>2, <1>4, <4>1
        <4> QED BY <1>5, <4>2, <4>3
      <3> QED BY <3>1, <3>2
    <2>2. Len(Users(new)) = Len(users \o <<Group(<<>>)>>) /\ Len(new) = Len(Users(new))
      BY <1>2, <1>3, <1>4, <1>5
    <2> QED BY <1>4, <1>5, <2>1, <2>2, SeqEqual
  <1> DEFINE S == Groups \ {Group(<<>>)}
  <1>7. UserGroups(new) = Keep(Users(new), S) /\ UserGroups(groups) = Keep(users, S)
    BY <1>2, UserGroupsAs DEF users
  <1>8. Group(<<>>) \notin S
    OBVIOUS
  <1> HIDE DEF S
  <1>9. Keep(users \o <<Group(<<>>)>>, S) = Keep(users, S) \o Keep(<<Group(<<>>)>>, S)
    BY <1>0, <1>3, KeepConcat
  <1>10. Keep(<<Group(<<>>)>>, S) = <<>>
    BY <1>8, KeepOne
  <1>11. Keep(users, S) \o <<>> = Keep(users, S)
    BY <1>3, KeepType, ConcatEmptySeq
  <1>12. UserGroups(new) = UserGroups(groups)
    BY <1>6, <1>7, <1>9, <1>10, <1>11, Zenon
  <1> QED BY <1>2, <1>12 DEF new, group

----------------------------------------------------------------------------
(* The handlers of ours                                                    *)

\* A handler of ours stands there.
Located(doc, e, at) ==
    /\ at \in Nat \X Nat /\ at[1] \in 1..Len(GroupsOf(doc, e))
    /\ at[2] \in 1..Len(GroupsOf(doc, e)[at[1]].handlers)
    /\ HandlerAt(doc, e, at) # User

LEMMA GroupsType ==
  ASSUME NEW doc \in {Missing} \union Docs, NEW e \in Events
  PROVE  /\ GroupsOf(doc, e) \in Seq(Groups) /\ EventList(doc, e) \in {Missing} \union Lists
         /\ doc # Missing /\ doc.hooks # Missing => EventList(doc, e) = doc.hooks.lists[e]
         /\ EventList(doc, e) # Missing => /\ doc \in Docs /\ doc.hooks \in Tables
                                           /\ doc.hooks # Missing
                                           /\ GroupsOf(doc, e) = EventList(doc, e).groups
  <1>1. ASSUME doc # Missing, doc.hooks # Missing
        PROVE  /\ doc \in Docs /\ doc.hooks \in Tables /\ EventList(doc, e) = doc.hooks.lists[e]
               /\ EventList(doc, e) \in {Missing} \union Lists
    <2>1. doc \in Docs /\ doc.hooks \in Tables
      BY <1>1 DEF Docs
    <2> QED BY <1>1, <2>1 DEF EventList, Tables
  <1>2. CASE doc = Missing \/ doc.hooks = Missing
    <2>1. EventList(doc, e) = Missing
      BY <1>2 DEF EventList
    <2>2. GroupsOf(doc, e) = <<>>
      BY <2>1 DEF GroupsOf
    <2> QED BY <1>2, <2>1, <2>2, EmptyIn
  <1>3. CASE doc # Missing /\ doc.hooks # Missing
    <2>1. CASE EventList(doc, e) = Missing
      <3>1. GroupsOf(doc, e) = <<>>
        BY <2>1 DEF GroupsOf
      <3> QED BY <1>1, <1>3, <2>1, <3>1, EmptyIn
    <2>2. CASE EventList(doc, e) # Missing
      <3>1. EventList(doc, e) \in Lists /\ GroupsOf(doc, e) = EventList(doc, e).groups
        BY <1>1, <1>3, <2>2, SMTT(30) DEF GroupsOf
      <3> QED BY <1>1, <1>3, <3>1 DEF Lists
    <2> QED BY <2>1, <2>2
  <1> QED BY <1>2, <1>3

LEMMA LocatedList ==
  ASSUME NEW doc \in {Missing} \union Docs, NEW e \in Events, NEW at, Located(doc, e, at)
  PROVE  /\ doc \in Docs /\ doc.hooks \in Tables /\ doc.hooks # Missing
         /\ EventList(doc, e) \in Lists /\ EventList(doc, e) = doc.hooks.lists[e]
         /\ EventList(doc, e) # Missing
         /\ GroupsOf(doc, e) = EventList(doc, e).groups /\ EventList(doc, e).groups \in Seq(Groups)
         /\ at[1] \in 1..Len(EventList(doc, e).groups)
         /\ at[2] \in 1..Len(EventList(doc, e).groups[at[1]].handlers)
         /\ EventList(doc, e).groups[at[1]].handlers[at[2]] # User
  <1>1. EventList(doc, e) # Missing
    <2>1. SUFFICES ASSUME EventList(doc, e) = Missing PROVE FALSE
      OBVIOUS
    <2>2. GroupsOf(doc, e) = <<>> /\ Len(<<>>) = 0
      BY <2>1 DEF GroupsOf
    <2>3. at[1] \in 1..0
      BY <2>2 DEF Located
    <2> QED BY <2>3
  <1>2. /\ doc \in Docs /\ doc.hooks \in Tables /\ doc.hooks # Missing
        /\ GroupsOf(doc, e) = EventList(doc, e).groups /\ GroupsOf(doc, e) \in Seq(Groups)
        /\ EventList(doc, e) \in {Missing} \union Lists
    BY <1>1, GroupsType
  <1>3. doc # Missing
    BY <1>2, NotMissing
  <1>4. EventList(doc, e) = doc.hooks.lists[e]
    BY <1>2, <1>3, GroupsType
  <1> QED BY <1>1, <1>2, <1>4 DEF Located, HandlerAt

LEMMA RemoveOnePart ==
  ASSUME NEW doc \in Docs, NEW e \in Events, NEW at, Located(doc, e, at)
  PROVE  /\ RemoveOne(doc, e, at) \in Docs /\ RemoveOne(doc, e, at).bom = doc.bom
         /\ UserPart(RemoveOne(doc, e, at)) = UserPart(doc)
  <1> DEFINE list == EventList(doc, e)
             g == at[1]
             i == at[2]
  <1>1. /\ doc.hooks \in Tables /\ doc.hooks # Missing
        /\ list \in Lists /\ list = doc.hooks.lists[e] /\ list # Missing
        /\ list.groups \in Seq(Groups) /\ g \in 1..Len(list.groups)
        /\ i \in 1..Len(list.groups[g].handlers) /\ list.groups[g].handlers[i] # User
    BY LocatedList
  <1> HIDE DEF g, i
  <1>2. CASE RemoveOne(doc, e, at) = CutHandler(doc, e, at)
    <2> DEFINE hs == list.groups[g].handlers
               hs2 == RemoveAt(hs, i)
               group == [list.groups[g] EXCEPT !.handlers = hs2]
               groups == [list.groups EXCEPT ![g] = group]
               new == [list EXCEPT !.groups = groups]
    <2>1. CutHandler(doc, e, at) = SetList(doc, e, new)
      BY DEF CutHandler, g, i
    <2> HIDE DEF list
    <2>7. list.groups[g] \in Groups
      BY <1>1
    <2>8. hs \in Seq(Forms) /\ i \in 1..Len(hs) /\ hs[i] \notin {User}
      BY <1>1, <2>7 DEF Groups, Forms
    <2> HIDE DEF hs
    <2>9. RemoveAt(hs, i) \in Seq(Forms) /\ Keep(RemoveAt(hs, i), {User}) = Keep(hs, {User})
      BY <2>8, KeepChanged
    <2>10. Keep(RemoveAt(hs, i), {User}) = Keep(list.groups[g].handlers, {User})
      BY <2>9 DEF hs
    <2>11. hs2 \in Seq(Forms) /\ Keep(hs2, {User}) = Keep(list.groups[g].handlers, {User})
      BY <2>9, <2>10
    <2> HIDE DEF hs2
    <2>12. group \in Groups /\ UserGroup(group) = UserGroup(list.groups[g])
      BY <2>7, <2>11, OtherHandlers
    <2> HIDE DEF group
    <2>13. groups \in Seq(Groups) /\ Len(groups) = Len(list.groups)
      BY <1>1, <2>12, ExceptSeq
    <2>14. \A k \in 1..Len(list.groups) : UserGroup(groups[k]) = UserGroup(list.groups[k])
      BY <1>1, <2>12
    <2> HIDE DEF groups
    <2>2. groups \in Seq(Groups) /\ UserGroups(groups) = UserGroups(list.groups)
      BY <1>1, <2>13, <2>14, OtherGroup
    <2>3. new \in Lists /\ new.groups = groups /\ new.note = list.note
      BY <1>1, <2>2 DEF Lists
    <2> HIDE DEF new
    <2>4. ListPart(new) = ListPart(doc.hooks.lists[e])
      BY <1>1, <2>2, <2>3, NotMissing DEF ListPart
    <2>5. SetList(doc, e, new) \in Docs /\ SetList(doc, e, new).bom = doc.bom
      BY <1>1, <2>3, SetListType
    <2>6. UserPart(SetList(doc, e, new)) = UserPart(doc)
      BY <1>1, <2>3, <2>4, SetListPart
    <2> QED BY <1>2, <2>1, <2>5, <2>6
  <1>3. CASE /\ RemoveOne(doc, e, at) = CutGroup(doc, e, g)
             /\ Len(list.groups[g].handlers) = 1 /\ ~list.groups[g].listNote /\ ~list.groups[g].note
    <2> DEFINE groups == RemoveAt(list.groups, g)
               new == [list EXCEPT !.groups = groups]
    <2>1. CutGroup(doc, e, g) = SetList(doc, e, new)
      BY DEF CutGroup
    <2> HIDE DEF list
    <2>2. groups \in Seq(Groups) /\ UserGroups(groups) = UserGroups(list.groups)
      BY <1>1, <1>3, CutGroupGroups
    <2> HIDE DEF groups
    <2>3. new \in Lists /\ new.groups = groups /\ new.note = list.note
      BY <1>1, <2>2 DEF Lists
    <2> HIDE DEF new
    <2>4. ListPart(new) = ListPart(doc.hooks.lists[e])
      BY <1>1, <2>2, <2>3, NotMissing DEF ListPart
    <2>5. SetList(doc, e, new) \in Docs /\ SetList(doc, e, new).bom = doc.bom
      BY <1>1, <2>3, SetListType
    <2>6. UserPart(SetList(doc, e, new)) = UserPart(doc)
      BY <1>1, <2>3, <2>4, SetListPart
    <2> QED BY <1>3, <2>1, <2>5, <2>6
  <1>4. CASE /\ RemoveOne(doc, e, at) = CutEvent(doc, e)
             /\ Len(list.groups[g].handlers) = 1 /\ ~list.groups[g].listNote /\ ~list.groups[g].note
             /\ ~(Len(list.groups) > 1) /\ ~list.note
    <2>1. ListPart(Missing) = ListPart(doc.hooks.lists[e])
      <3> HIDE DEF list
      <3>0. Len(list.groups) \in Nat
        BY <1>1
      <3>6. g \in 1..Len(list.groups) /\ ~(Len(list.groups) > 1)
        BY <1>1, <1>4
      <3>7. \A l \in Nat : \A k \in 1..l : ~(l > 1) => l = 1 /\ k = 1
        OBVIOUS
      <3>1. Len(list.groups) = 1 /\ g = 1
        BY <3>0, <3>6, <3>7
      <3>2. UserGroups(list.groups) = UserGroups(RemoveAt(list.groups, g)) /\ RemoveAt(list.groups, g) \in Seq(Groups)
        BY <1>1, <1>4, CutGroupGroups
      <3>5. Len(RemoveAt(list.groups, g)) = Len(list.groups) - 1
        BY <1>1, RemovedAt
      <3>3. Len(RemoveAt(list.groups, g)) = 0
        BY <3>1, <3>5
      <3>4. RemoveAt(list.groups, g) = <<>>
        BY <3>2, <3>3, EmptySeq
      <3> QED BY <1>1, <1>4, <3>2, <3>4 DEF ListPart
    <2>2. CASE ~OnlyChild(doc, e)
      <3>1. CutEvent(doc, e) = SetList(doc, e, Missing)
        BY <2>2 DEF CutEvent
      <3>2. SetList(doc, e, Missing) \in Docs /\ SetList(doc, e, Missing).bom = doc.bom
        BY <1>1, SetListType
      <3>3. UserPart(SetList(doc, e, Missing)) = UserPart(doc)
        BY <1>1, <2>1, SetListPart
      <3> QED BY <1>4, <3>1, <3>2, <3>3
    <2>3. CASE OnlyChild(doc, e)
      <3> DEFINE new == [doc EXCEPT !.hooks = Missing]
      <3>1. CutEvent(doc, e) = new
        BY <2>3 DEF CutEvent
      <3>2. /\ new \in Docs /\ new.bom = doc.bom /\ new.note = doc.note /\ new.keys = doc.keys
            /\ new.servers = doc.servers /\ new.hooks = Missing
        BY DEF Docs
      <3> HIDE DEF new
      <3>3. new # Missing /\ doc # Missing
        BY <3>2, NotMissing
      <3>4. HooksNote(new) = HooksNote(doc) /\ ServersUser(new) = ServersUser(doc)
        BY <2>3, <3>2 DEF HooksNote, ServersUser, OnlyChild
      <3>5. ASSUME NEW o \in Events PROVE ListPart(EventList(new, o)) = ListPart(EventList(doc, o))
        <4>1. EventList(new, o) = Missing /\ EventList(doc, o) = doc.hooks.lists[o]
          BY <1>1, <3>2, <3>3 DEF EventList
        <4>2. CASE o = e
          BY <2>1, <4>1, <4>2
        <4>3. CASE o # e
          BY <2>3, <4>1, <4>3 DEF OnlyChild
        <4> QED BY <4>2, <4>3
      <3>6. UserPart(new) = UserPart(doc)
        BY <3>2, <3>4, <3>5, SamePart
      <3> QED BY <1>4, <3>1, <3>2, <3>6
    <2> QED BY <2>2, <2>3
  <1>5. \/ RemoveOne(doc, e, at) = CutHandler(doc, e, at)
        \/ /\ RemoveOne(doc, e, at) = CutGroup(doc, e, g)
           /\ Len(list.groups[g].handlers) = 1 /\ ~list.groups[g].listNote /\ ~list.groups[g].note
        \/ /\ RemoveOne(doc, e, at) = CutEvent(doc, e)
           /\ Len(list.groups[g].handlers) = 1 /\ ~list.groups[g].listNote /\ ~list.groups[g].note
           /\ ~(Len(list.groups) > 1) /\ ~list.note
    BY DEF RemoveOne, g
  <1> QED BY <1>2, <1>3, <1>4, <1>5

LEMMA LocateOursIs ==
  ASSUME NEW doc \in {Missing} \union Docs, NEW e \in Events
  PROVE  /\ LocateOurs(doc, e) \in Seq(Nat \X Nat)
         /\ \A at : Within(at, LocateOurs(doc, e)) <=> Located(doc, e, at)
         /\ Distinct(LocateOurs(doc, e))
  <1> DEFINE groups == GroupsOf(doc, e)
             hs(g) == groups[g].handlers
             Ours(g) == {i \in DOMAIN groups[g].handlers : groups[g].handlers[i] # User}
             Ats(g) == [i \in DOMAIN groups[g].handlers |-> <<g, i>>]
             At(g) == Keep(Ats(g), {g} \X Ours(g))
             ats == [g \in DOMAIN groups |-> At(g)]
  <1>1. groups \in Seq(Groups) /\ DOMAIN groups = 1..Len(groups) /\ Len(groups) \in Nat
    BY GroupsType
  <1>2. LocateOurs(doc, e) = FlattenSeq(ats)
    BY DEF LocateOurs
  <1>3. ASSUME NEW g \in 1..Len(groups)
        PROVE  hs(g) \in Seq(Forms) /\ DOMAIN hs(g) = 1..Len(hs(g)) /\ Len(hs(g)) \in Nat
    <2>1. groups[g] \in Groups
      BY <1>1
    <2>2. groups[g].handlers \in Seq(Forms)
      BY <2>1 DEF Groups, Forms
    <2> QED BY <2>2
  <1>4. ASSUME NEW g \in 1..Len(groups)
        PROVE  /\ Ats(g) \in Seq(Nat \X Nat) /\ Len(Ats(g)) = Len(hs(g))
               /\ \A i \in 1..Len(hs(g)) : Ats(g)[i] = <<g, i>>
    <2>1. Ats(g) = [i \in 1..Len(hs(g)) |-> <<g, i>>]
      BY <1>3
    <2>2. \A i \in 1..Len(hs(g)) : <<g, i>> \in Nat \X Nat
      OBVIOUS
    <2>3. [i \in 1..Len(hs(g)) |-> <<g, i>>] \in [1..Len(hs(g)) -> Nat \X Nat]
      BY <2>2
    <2>4. Ats(g) \in Seq(Nat \X Nat) /\ Len(Ats(g)) = Len(hs(g))
      <3> DEFINE x == [i \in 1..Len(hs(g)) |-> <<g, i>>]
      <3>1. x \in [1..Len(hs(g)) -> Nat \X Nat] /\ Len(hs(g)) \in Nat
        BY <1>3, <2>3
      <3>2. x \in Seq(Nat \X Nat)
        BY <3>1, SeqDef
      <3>3. Len(x) = Len(hs(g))
        BY <3>1, <3>2, LenProperties
      <3> QED BY <2>1, <3>2, <3>3
    <2> QED BY <2>1, <2>4
  <1> HIDE DEF Ats
  <1>5. ASSUME NEW g \in 1..Len(groups)
        PROVE  /\ At(g) \in Seq(Nat \X Nat) /\ Distinct(At(g))
               /\ \A at : Within(at, At(g)) <=> Located(doc, e, at) /\ at[1] = g
    <2> DEFINE S == {g} \X Ours(g)
    <2>1. Ats(g) \in Seq(Nat \X Nat)
      BY <1>4
    <2>2. Keep(Ats(g), S) \in Seq(Nat \X Nat)
      BY <2>1, KeepType
    <2>3. Distinct(Ats(g))
      <3>1. ASSUME NEW i \in 1..Len(Ats(g)), NEW j \in 1..Len(Ats(g)), Ats(g)[i] = Ats(g)[j]
            PROVE  i = j
        <4>1. Ats(g)[i] = <<g, i>> /\ Ats(g)[j] = <<g, j>>
          BY <1>4
        <4>2. <<g, i>> = <<g, j>>
          BY <3>1, <4>1
        <4> QED BY ONLY <4>2
      <3> QED BY ONLY <3>1 DEF Distinct
    <2>4. Distinct(Keep(Ats(g), S))
      BY <2>1, <2>3, KeepDistinct
    <2>5. ASSUME NEW at PROVE Within(at, At(g)) <=> Located(doc, e, at) /\ at[1] = g
      <3>1. Within(at, Keep(Ats(g), S)) <=> at \in S /\ Within(at, Ats(g))
        <4> HIDE DEF S
        <4> QED BY <2>1, KeepHolds
      <3>2. Within(at, Ats(g)) <=> \E i \in 1..Len(hs(g)) : at = <<g, i>>
        BY <1>4 DEF Within
      <3>3. at \in S <=> \E i \in Ours(g) : at = <<g, i>>
        OBVIOUS
      <3>4. ASSUME NEW i, at = <<g, i>>
            PROVE  Located(doc, e, at) /\ at[1] = g <=> i \in 1..Len(hs(g)) /\ i \in Ours(g)
        <4>1. at[1] = g /\ at[2] = i
          BY <3>4
        <4>2. i \in 1..Len(hs(g)) => i \in Nat
          BY <1>3
        <4>3. i \in 1..Len(hs(g)) => <<g, i>> \in Nat \X Nat
          BY <4>2
        <4> QED BY <1>3, <3>4, <4>1, <4>3 DEF Located, HandlerAt
      <3>5. Located(doc, e, at) /\ at[1] = g => at = <<g, at[2]>>
        BY DEF Located
      <3> QED BY <3>1, <3>2, <3>3, <3>4, <3>5
    <2> QED BY <2>2, <2>4, <2>5
  <1> HIDE DEF At
  <1>6. /\ ats \in Seq(Seq(Nat \X Nat)) /\ Len(ats) = Len(groups)
        /\ \A g \in 1..Len(groups) : ats[g] = At(g)
    <2>1. ats \in [1..Len(groups) -> Seq(Nat \X Nat)]
      BY <1>1, <1>5
    <2> QED BY <1>1, <2>1, SeqDef, LenProperties
  <1> HIDE DEF ats
  <1>7. LocateOurs(doc, e) \in Seq(Nat \X Nat)
    BY <1>2, <1>6, FlattenType
  <1>8. ASSUME NEW at PROVE Within(at, LocateOurs(doc, e)) <=> Located(doc, e, at)
    <2>1. Within(at, FlattenSeq(ats)) <=> \E g \in 1..Len(ats) : Within(at, ats[g])
      BY <1>6, FlattenHolds
    <2>3. ASSUME NEW g \in 1..Len(ats)
          PROVE  Within(at, ats[g]) <=> Located(doc, e, at) /\ at[1] = g
      BY <1>5, <1>6
    <2>4. Located(doc, e, at) => at[1] \in 1..Len(ats)
      BY <1>6 DEF Located
    <2>2. (\E g \in 1..Len(ats) : Within(at, ats[g])) <=> Located(doc, e, at)
      BY <2>3, <2>4
    <2> QED BY <1>2, <2>1, <2>2
  <1>9. Distinct(LocateOurs(doc, e))
    <2>3. ASSUME NEW g \in 1..Len(ats)
          PROVE  Distinct(ats[g]) /\ \A at : Within(at, ats[g]) => at[1] = g
      BY <1>5, <1>6
    <2>1. \A g, g2 \in 1..Len(ats) : \A at : Within(at, ats[g]) /\ Within(at, ats[g2]) => g = g2
      BY <2>3
    <2>2. Distinct(FlattenSeq(ats))
      BY <1>6, <2>1, <2>3, FlattenDistinct
    <2> QED BY <1>2, <2>2
  <1> QED BY <1>7, <1>8, <1>9

LEMMA SetListGroups ==
  ASSUME NEW doc \in Docs, doc.hooks # Missing, NEW e \in Events, NEW list \in Lists
  PROVE  /\ EventList(SetList(doc, e, list), e) = list
         /\ GroupsOf(SetList(doc, e, list), e) = list.groups
  <1> DEFINE new == SetList(doc, e, list)
  <1>1. new \in Docs /\ new.hooks \in Tables /\ new.hooks.lists[e] = list
    BY SetListType
  <1> HIDE DEF new
  <1>2. new # Missing /\ new.hooks # Missing /\ list # Missing
    BY <1>1, NotMissing
  <1>3. EventList(new, e) = list /\ GroupsOf(new, e) = list.groups
    BY <1>1, <1>2 DEF EventList, GroupsOf
  <1> QED BY <1>3 DEF new

\* The removal of one handler of ours leaves the others.
LEMMA RemoveOneLeaves ==
  ASSUME NEW doc \in Docs, NEW e \in Events, NEW at, Located(doc, e, at),
         NEW other, Located(doc, e, other), other # at
  PROVE  \E left : Located(RemoveOne(doc, e, at), e, left)
  <1> DEFINE list == EventList(doc, e)
             gs == list.groups
             g == at[1]
             i == at[2]
             h == other[1]
             j == other[2]
  <1>1. /\ doc.hooks \in Tables /\ doc.hooks # Missing
        /\ list \in Lists /\ list = doc.hooks.lists[e] /\ list # Missing
        /\ gs \in Seq(Groups) /\ g \in 1..Len(gs)
        /\ i \in 1..Len(gs[g].handlers) /\ gs[g].handlers[i] # User
    BY LocatedList
  <1>2. /\ h \in 1..Len(gs) /\ j \in 1..Len(gs[h].handlers)
        /\ gs[h].handlers[j] # User
    BY LocatedList
  <1>3. h # g \/ j # i
    <2>1. at = <<g, i>> /\ other = <<h, j>>
      BY DEF Located
    <2> QED BY <2>1
  <1>4. gs[g] \in Groups /\ gs[h] \in Groups /\ Len(gs) \in Nat
    <2> HIDE DEF list, gs, g, h
    <2> QED BY <1>1, <1>2
  <1>5. /\ gs[g].handlers \in Seq(Forms) /\ gs[h].handlers \in Seq(Forms)
        /\ Len(gs[g].handlers) \in Nat /\ Len(gs[h].handlers) \in Nat
    BY <1>4 DEF Groups, Forms
  <1>6. ASSUME NEW new \in Lists, NEW k \in 1..Len(new.groups),
               NEW l \in 1..Len(new.groups[k].handlers), new.groups[k].handlers[l] # User
        PROVE  Located(SetList(doc, e, new), e, <<k, l>>)
    <2>1. GroupsOf(SetList(doc, e, new), e) = new.groups
      BY <1>1, SetListGroups
    <2>2. new.groups \in Seq(Groups)
      BY DEF Lists
    <2>3. Len(new.groups) \in Nat /\ new.groups[k] \in Groups
      BY <2>2
    <2>4. new.groups[k].handlers \in Seq(Forms)
      BY <2>3 DEF Groups, Forms
    <2>5. k \in Nat /\ l \in Nat
      BY <2>3, <2>4
    <2> QED BY <1>6, <2>1, <2>5 DEF Located, HandlerAt
  <1>7. CASE RemoveOne(doc, e, at) = CutHandler(doc, e, at)
    <2> DEFINE hs == gs[g].handlers
               hs2 == RemoveAt(hs, i)
               group == [gs[g] EXCEPT !.handlers = hs2]
               groups == [gs EXCEPT ![g] = group]
               new == [list EXCEPT !.groups = groups]
    <2>1. CutHandler(doc, e, at) = SetList(doc, e, new)
      BY DEF CutHandler
    <2> HIDE DEF list, gs, g, i, h, j
    <2>2. /\ hs2 \in Seq(Forms) /\ Len(hs2) = Len(hs) - 1
          /\ \A k \in 1..(Len(hs) - 1) : hs2[k] = IF k < i THEN hs[k] ELSE hs[k + 1]
      <3> HIDE DEF hs
      <3>1. hs \in Seq(Forms) /\ i \in 1..Len(hs)
        BY <1>1, <1>5 DEF hs
      <3> QED BY <3>1, RemovedAt
    <2> HIDE DEF hs2
    <2>3. group \in Groups /\ group.handlers = hs2
      BY <1>4, <2>2 DEF Groups, Forms
    <2> HIDE DEF group
    <2>4. /\ groups \in Seq(Groups) /\ Len(groups) = Len(gs) /\ groups[g] = group
          /\ \A k \in 1..Len(gs) : k # g => groups[k] = gs[k]
      BY <1>1, <2>3, ExceptSeq
    <2> HIDE DEF groups
    <2>5. new \in Lists /\ new.groups = groups
      BY <1>1, <2>4 DEF Lists
    <2> HIDE DEF new
    <2>6. CASE h # g
      <3>1. groups[h].handlers = gs[h].handlers
        BY <1>2, <2>4, <2>6
      <3>2. Located(SetList(doc, e, new), e, <<h, j>>)
        BY <1>2, <1>6, <2>4, <2>5, <3>1
      <3> QED BY <1>7, <2>1, <3>2
    <2>7. CASE h = g /\ j < i
      <3>1. j \in 1..(Len(hs) - 1)
        BY <1>1, <1>2, <1>5, <2>7
      <3>2. hs2[j] # User /\ j \in 1..Len(hs2)
        BY <1>2, <2>2, <2>7, <3>1
      <3>3. Located(SetList(doc, e, new), e, <<g, j>>)
        BY <1>1, <1>6, <2>3, <2>4, <2>5, <3>2
      <3> QED BY <1>7, <2>1, <3>3
    <2>8. CASE h = g /\ j > i
      <3>1. j - 1 \in 1..(Len(hs) - 1) /\ ~(j - 1 < i) /\ (j - 1) + 1 = j
        BY <1>1, <1>2, <1>5, <2>8
      <3>2. hs2[j - 1] # User /\ j - 1 \in 1..Len(hs2)
        <4>1. hs2[j - 1] = hs[(j - 1) + 1]
          BY <2>2, <3>1
        <4>2. hs2[j - 1] = hs[j]
          BY <3>1, <4>1, Zenon
        <4> QED BY <1>2, <2>2, <2>8, <3>1, <4>2
      <3>3. Located(SetList(doc, e, new), e, <<g, j - 1>>)
        BY <1>1, <1>6, <2>3, <2>4, <2>5, <3>2
      <3> QED BY <1>7, <2>1, <3>3
    <2>9. j < i \/ j = i \/ j > i
      BY <1>1, <1>2, <1>5
    <2> QED BY <1>3, <2>6, <2>7, <2>8, <2>9
  <1>8. CASE RemoveOne(doc, e, at) = CutGroup(doc, e, g) /\ Len(gs[g].handlers) = 1
    <2> DEFINE groups == RemoveAt(gs, g)
               new == [list EXCEPT !.groups = groups]
    <2>1. CutGroup(doc, e, g) = SetList(doc, e, new)
      BY DEF CutGroup
    <2> HIDE DEF list, gs, g, i, h, j
    <2>2. h # g
      BY <1>1, <1>2, <1>3, <1>8
    <2>3. /\ groups \in Seq(Groups) /\ Len(groups) = Len(gs) - 1
          /\ \A k \in 1..(Len(gs) - 1) : groups[k] = IF k < g THEN gs[k] ELSE gs[k + 1]
      BY <1>1, RemovedAt
    <2> HIDE DEF groups
    <2>4. new \in Lists /\ new.groups = groups
      BY <1>1, <2>3 DEF Lists
    <2> HIDE DEF new
    <2>5. CASE h < g
      <3>1. h \in 1..(Len(gs) - 1)
        BY <1>1, <1>2, <1>4, <2>5
      <3>2. groups[h] = gs[h] /\ h \in 1..Len(groups)
        BY <2>3, <2>5, <3>1
      <3>3. Located(SetList(doc, e, new), e, <<h, j>>)
        BY <1>2, <1>6, <2>4, <3>2
      <3> QED BY <1>8, <2>1, <3>3
    <2>6. CASE h > g
      <3>1. h - 1 \in 1..(Len(gs) - 1) /\ ~(h - 1 < g) /\ (h - 1) + 1 = h
        BY <1>1, <1>2, <1>4, <2>6
      <3>2. groups[h - 1] = gs[h] /\ h - 1 \in 1..Len(groups)
        <4>1. groups[h - 1] = gs[(h - 1) + 1]
          BY <2>3, <3>1
        <4>2. groups[h - 1] = gs[h]
          BY <3>1, <4>1, Zenon
        <4> QED BY <2>3, <3>1, <4>2
      <3>3. Located(SetList(doc, e, new), e, <<h - 1, j>>)
        BY <1>2, <1>6, <2>4, <3>2
      <3> QED BY <1>8, <2>1, <3>3
    <2>7. h < g \/ h > g
      BY <1>1, <1>2, <1>4, <2>2
    <2> QED BY <2>5, <2>6, <2>7
  <1>9. CASE Len(gs[g].handlers) = 1 /\ ~(Len(gs) > 1)
    <2> HIDE DEF list, gs, g, i, h, j
    <2>1. h = g
      BY <1>1, <1>2, <1>4, <1>9
    <2> QED BY <1>1, <1>2, <1>3, <1>9, <2>1
  <1>10. \/ RemoveOne(doc, e, at) = CutHandler(doc, e, at)
         \/ RemoveOne(doc, e, at) = CutGroup(doc, e, g) /\ Len(gs[g].handlers) = 1
         \/ Len(gs[g].handlers) = 1 /\ ~(Len(gs) > 1)
    BY DEF RemoveOne
  <1> QED BY <1>7, <1>8, <1>9, <1>10

\* Some handler of ours is left.
HasOurs(doc, e) == \E at : Located(doc, e, at)

LEMMA HasOursMeans ==
  ASSUME NEW doc \in {Missing} \union Docs, NEW e \in Events
  PROVE  HasOurs(doc, e) <=> LocateOurs(doc, e) # <<>>
  <1> DEFINE ours == LocateOurs(doc, e)
  <1>1. ours \in Seq(Nat \X Nat) /\ \A at : Within(at, ours) <=> Located(doc, e, at)
    BY LocateOursIs
  <1> HIDE DEF ours
  <1>2. ASSUME ours # <<>> PROVE Within(ours[1], ours)
    <2>1. Len(ours) \in Nat /\ Len(ours) # 0
      BY <1>1, <1>2, EmptySeq
    <2>2. 1 \in 1..Len(ours)
      BY <2>1
    <2> QED BY <2>2 DEF Within
  <1>3. ASSUME ours = <<>>, NEW at, Within(at, ours) PROVE FALSE
    BY <1>3 DEF Within
  <1> QED BY <1>1, <1>2, <1>3 DEF HasOurs, ours

LEMMA RemoveFromPart ==
  ASSUME NEW doc \in Docs, NEW e \in Events, NEW n \in {1, 2}
  PROVE  /\ RemoveFrom(doc, e, n) \in Docs /\ RemoveFrom(doc, e, n).bom = doc.bom
         /\ UserPart(RemoveFrom(doc, e, n)) = UserPart(doc)
         /\ n = 2 /\ HasOurs(doc, e) => HasOurs(RemoveFrom(doc, e, n), e)
  <1> DEFINE V == {d \in Docs : /\ UserPart(d) = UserPart(doc) /\ d.bom = doc.bom
                                /\ n = 2 /\ HasOurs(doc, e) => HasOurs(d, e)}
  <1>1. doc \in V
    OBVIOUS
  <1>2. ASSUME NEW d \in V, ~(Len(LocateOurs(d, e)) < n)
        PROVE  RemoveOne(d, e, LocateOurs(d, e)[n]) \in V
    <2> DEFINE ours == LocateOurs(d, e)
    <2>1. /\ ours \in Seq(Nat \X Nat) /\ \A at : Within(at, ours) <=> Located(d, e, at)
          /\ Distinct(ours)
      BY LocateOursIs
    <2>2. ~(Len(ours) < n)
      BY <1>2
    <2> HIDE DEF ours
    <2>3. Len(ours) \in Nat /\ n \in 1..Len(ours)
      BY <2>1, <2>2
    <2>4. Located(d, e, ours[n])
      BY <2>1, <2>3 DEF Within
    <2>5. RemoveOne(d, e, ours[n]) \in Docs /\ RemoveOne(d, e, ours[n]).bom = d.bom
          /\ UserPart(RemoveOne(d, e, ours[n])) = UserPart(d)
      BY <2>4, RemoveOnePart
    <2>6. ASSUME n = 2 PROVE HasOurs(RemoveOne(d, e, ours[n]), e)
      <3>1. 1 \in 1..Len(ours) /\ 1 # n
        BY <2>3, <2>6
      <3>2. Located(d, e, ours[1]) /\ ours[1] # ours[n]
        BY <2>1, <2>3, <3>1 DEF Within, Distinct
      <3>3. d \in Docs
        OBVIOUS
      <3> HIDE DEF V
      <3> QED BY <2>4, <3>2, <3>3, RemoveOneLeaves DEF HasOurs
    <2>7. RemoveOne(d, e, ours[n]) \in V
      BY <2>5, <2>6
    <2> QED BY <2>7 DEF ours
  <1>3. LocateOurs(doc, e) \in Seq(Nat \X Nat)
    BY LocateOursIs
  <1>4. Len(LocateOurs(doc, e)) \in Nat /\ DOMAIN LocateOurs(doc, e) = 1..Len(LocateOurs(doc, e))
    BY <1>3
  <1>5. RemoveFrom(doc, e, n) \in V
    <2> HIDE DEF V
    <2> QED BY <1>1, <1>2, <1>4, RemoveFromStays
  <1> QED BY <1>5

----------------------------------------------------------------------------
(* The rewriting of a registry                                             *)

LEMMA ReplacePart ==
  ASSUME NEW doc \in Docs, NEW e \in Events, NEW at, Located(doc, e, at), NEW handler \in Handlers
  PROVE  /\ Replace(doc, e, at, handler) \in Docs
         /\ UserPart(Replace(doc, e, at, handler)) = UserPart(doc)
  <1> DEFINE list == EventList(doc, e)
             g == at[1]
             i == at[2]
             hs == list.groups[g].handlers
             hs2 == [hs EXCEPT ![i] = handler]
             group == [list.groups[g] EXCEPT !.handlers = hs2]
             groups == [list.groups EXCEPT ![g] = group]
             new == [list EXCEPT !.groups = groups]
  <1>1. /\ doc.hooks \in Tables /\ doc.hooks # Missing
        /\ list \in Lists /\ list = doc.hooks.lists[e] /\ list # Missing
        /\ list.groups \in Seq(Groups) /\ g \in 1..Len(list.groups)
        /\ i \in 1..Len(list.groups[g].handlers) /\ list.groups[g].handlers[i] # User
    BY LocatedList
  <1>2. Replace(doc, e, at, handler) = SetList(doc, e, new)
    BY DEF Replace
  <1> HIDE DEF list, g, i
  <1>3. list.groups[g] \in Groups
    BY <1>1, SMTT(30)
  <1>4. hs \in Seq(Forms) /\ i \in 1..Len(hs) /\ hs[i] \notin {User}
    BY <1>1, <1>3 DEF Groups, Forms
  <1>5. handler \in Forms /\ handler \notin {User}
    BY RegistryConstants DEF Forms
  <1> HIDE DEF hs
  <1>6. hs2 \in Seq(Forms)
    BY <1>4, <1>5, ExceptSeq
  <1>7. Keep(hs2, {User}) = Keep(hs, {User})
    <2> DEFINE S == {User}
    <2>1. hs[i] \notin S /\ handler \notin S
      BY <1>4, <1>5
    <2> HIDE DEF S
    <2>2. \A y \in Forms : y \notin S => Keep([hs EXCEPT ![i] = y], S) = Keep(hs, S)
      BY <1>4, <2>1, KeepChanged
    <2> QED BY <1>5, <2>1, <2>2 DEF S
  <1> HIDE DEF hs2
  <1>8. Keep(hs2, {User}) = Keep(list.groups[g].handlers, {User})
    BY <1>7 DEF hs
  <1>9. group \in Groups /\ UserGroup(group) = UserGroup(list.groups[g])
    BY <1>3, <1>6, <1>8, OtherHandlers
  <1> HIDE DEF group
  <1>10. groups \in Seq(Groups) /\ Len(groups) = Len(list.groups)
    BY <1>1, <1>9, ExceptSeq
  <1>11. \A k \in 1..Len(list.groups) : UserGroup(groups[k]) = UserGroup(list.groups[k])
    BY <1>1, <1>9
  <1> HIDE DEF groups
  <1>12. UserGroups(groups) = UserGroups(list.groups)
    BY <1>1, <1>10, <1>11, OtherGroup
  <1>13. new \in Lists /\ new.groups = groups /\ new.note = list.note
    BY <1>1, <1>10 DEF Lists
  <1> HIDE DEF new
  <1>14. ListPart(new) = ListPart(doc.hooks.lists[e])
    BY <1>1, <1>12, <1>13, NotMissing DEF ListPart
  <1>15. SetList(doc, e, new) \in Docs
    BY <1>1, <1>13, SetListType
  <1>16. UserPart(SetList(doc, e, new)) = UserPart(doc)
    BY <1>1, <1>13, <1>14, SetListPart
  <1> QED BY <1>2, <1>15, <1>16

LEMMA RegisterPart ==
  ASSUME NEW doc \in Docs, NEW e \in Events, NEW handler \in Handlers
  PROVE  /\ Register(doc, e, handler) \in Docs
         /\ UserPart(Register(doc, e, handler)) = UserPart(doc)
  <1> DEFINE hooked == IF doc.hooks = Missing THEN NoEvents ELSE doc.hooks
             wrapped == [doc EXCEPT !.keys = doc.keys \union WrapperKeys, !.hooks = hooked]
             list == EventList(wrapped, e)
             new == AppendChild(list, Group(<<handler>>))
  <1>1. Register(doc, e, handler) = SetList(wrapped, e, new)
    BY DEF Register
  <1>2. /\ hooked \in Tables /\ hooked # Missing
        /\ hooked.note = HooksNote(doc)
        /\ \A o \in Events : hooked.lists[o] = EventList(doc, o)
    <2>0. doc # Missing
      BY NotMissing
    <2>1. CASE doc.hooks = Missing
      <3>1. hooked = NoEvents
        BY <2>1
      <3>2. NoEvents.note = FALSE /\ \A o \in Events : NoEvents.lists[o] = Missing
        BY DEF NoEvents
      <3>3. HooksNote(doc) = FALSE /\ \A o \in Events : EventList(doc, o) = Missing
        BY <2>1 DEF HooksNote, EventList
      <3>4. NoEvents \in Tables /\ NoEvents # Missing
        BY FreshTypes, NotMissing
      <3> QED BY <3>1, <3>2, <3>3, <3>4
    <2>2. CASE doc.hooks # Missing
      <3>1. hooked = doc.hooks /\ doc.hooks \in Tables
        BY <2>2 DEF Docs
      <3>2. doc.hooks.note \in BOOLEAN
        BY <3>1 DEF Tables
      <3> QED BY <2>0, <2>2, <3>1, <3>2 DEF HooksNote, EventList
    <2> QED BY <2>1, <2>2
  <1> HIDE DEF hooked
  <1>3. /\ wrapped \in Docs /\ wrapped.hooks = hooked /\ wrapped.note = doc.note
        /\ wrapped.keys = doc.keys \union WrapperKeys /\ wrapped.servers = doc.servers
    BY <1>2, RegistryConstants DEF Docs
  <1> HIDE DEF wrapped
  <1>4. wrapped # Missing
    BY <1>3, NotMissing
  <1>5. \A o \in Events : EventList(wrapped, o) = EventList(doc, o)
    BY <1>2, <1>3, <1>4 DEF EventList
  <1>6. UserPart(wrapped) = UserPart(doc)
    <2>1. HooksNote(wrapped) = HooksNote(doc)
      BY <1>2, <1>3 DEF HooksNote, Tables
    <2>2. ServersUser(wrapped) = ServersUser(doc)
      BY <1>3 DEF ServersUser
    <2>3. wrapped.keys \ WrapperKeys = doc.keys \ WrapperKeys
      BY <1>3
    <2>4. \A o \in Events : ListPart(EventList(wrapped, o)) = ListPart(EventList(doc, o))
      BY <1>5
    <2> QED BY <1>3, <2>1, <2>2, <2>3, <2>4, SamePart
  <1>7. list \in {Missing} \union Lists /\ list = wrapped.hooks.lists[e]
    BY <1>2, <1>3, <1>4, GroupsType
  <1> HIDE DEF list
  <1>8. handler \in Forms /\ handler # User
    BY RegistryConstants DEF Forms
  <1>9. new \in Lists /\ ListPart(new) = ListPart(list)
    <2> DEFINE group == Group(<<handler>>)
    <2>1. CASE list = Missing
      <3>1. new = [note |-> FALSE, groups |-> <<group>>]
        BY <2>1 DEF AppendChild
      <3>2. Append(<<>>, group) \in Seq(Groups) /\ UserGroups(Append(<<>>, group)) = UserGroups(<<>>)
        BY <1>8, EmptyIn, AppendGroups
      <3>3. <<group>> = Append(<<>>, group)
        OBVIOUS
      <3> HIDE DEF group, new
      <3>6. new = [note |-> FALSE, groups |-> Append(<<>>, group)]
        BY <3>1, <3>3
      <3>4. new \in Lists /\ new.note = FALSE /\ new.groups = Append(<<>>, group)
        BY <3>2, <3>6 DEF Lists
      <3>5. new # Missing
        BY <3>4, NotMissing
      <3> QED BY <2>1, <3>2, <3>4, <3>5 DEF ListPart
    <2>2. CASE list # Missing
      <3>1. list \in Lists /\ list.groups \in Seq(Groups)
        BY <1>7, <2>2 DEF Lists
      <3>2. /\ Append(list.groups, group) \in Seq(Groups)
            /\ UserGroups(Append(list.groups, group)) = UserGroups(list.groups)
        BY <1>8, <3>1, AppendGroups
      <3> DEFINE groups == Append(list.groups, group)
      <3>3. new = [list EXCEPT !.groups = groups]
        BY <2>2 DEF AppendChild
      <3> HIDE DEF groups, group
      <3>4. new \in Lists /\ new.note = list.note /\ new.groups = groups
        BY <3>1, <3>2, <3>3 DEF Lists, groups
      <3> HIDE DEF new
      <3>5. new # Missing
        BY <3>4, NotMissing
      <3> QED BY <2>2, <3>2, <3>4, <3>5 DEF ListPart, groups
    <2> QED BY <2>1, <2>2
  <1> HIDE DEF new
  <1>10. ListPart(new) = ListPart(wrapped.hooks.lists[e])
    BY <1>7, <1>9
  <1>11. SetList(wrapped, e, new) \in Docs
    BY <1>2, <1>3, <1>9, SetListType
  <1>12. UserPart(SetList(wrapped, e, new)) = UserPart(wrapped)
    BY <1>2, <1>3, <1>9, <1>10, SetListPart
  <1> QED BY <1>1, <1>6, <1>11, <1>12

LEMMA FreshParts ==
  /\ UserPart(EmptyRoot) = UserPart(Missing)
  /\ \A doc \in Docs : /\ WithoutBom(doc) \in Docs /\ UserPart(WithoutBom(doc)) = UserPart(doc)
                       /\ \A e \in Events : GroupsOf(WithoutBom(doc), e) = GroupsOf(doc, e)
                       /\ Finished(doc) \in Docs /\ UserPart(Finished(doc)) = UserPart(doc)
  <1>1. UserPart(EmptyRoot) = UserPart(Missing)
    <2>1. EmptyRoot # Missing
      BY FreshTypes, NotMissing
    <2>2. EmptyRoot.hooks = Missing
      BY DEF EmptyRoot
    <2>3. \A e : EventList(EmptyRoot, e) = Missing /\ EventList(Missing, e) = Missing
      BY <2>2 DEF EventList
    <2>4. \A e : GroupsOf(EmptyRoot, e) = <<>> /\ GroupsOf(Missing, e) = <<>>
      BY <2>3 DEF GroupsOf
    <2> QED BY <2>1, <2>3, <2>4 DEF UserPart
  <1>2. ASSUME NEW doc \in Docs
        PROVE  /\ WithoutBom(doc) \in Docs /\ UserPart(WithoutBom(doc)) = UserPart(doc)
               /\ \A e \in Events : GroupsOf(WithoutBom(doc), e) = GroupsOf(doc, e)
    <2> DEFINE new == WithoutBom(doc)
    <2>1. /\ new \in Docs /\ new.note = doc.note /\ new.keys = doc.keys
          /\ new.hooks = doc.hooks /\ new.servers = doc.servers
      BY DEF WithoutBom, Docs
    <2> HIDE DEF new
    <2>2. new # Missing /\ doc # Missing
      BY <2>1, NotMissing
    <2>3. \A e \in Events : EventList(new, e) = EventList(doc, e)
      BY <2>1, <2>2 DEF EventList
    <2>4. HooksNote(new) = HooksNote(doc) /\ ServersUser(new) = ServersUser(doc)
      BY <2>1 DEF HooksNote, ServersUser
    <2>5. UserPart(new) = UserPart(doc)
      BY <2>1, <2>3, <2>4, SamePart
    <2>6. \A e \in Events : GroupsOf(new, e) = GroupsOf(doc, e)
      BY <2>3 DEF GroupsOf
    <2> QED BY <2>1, <2>5, <2>6 DEF new
  <1>3. ASSUME NEW doc \in Docs
        PROVE  Finished(doc) \in Docs /\ UserPart(Finished(doc)) = UserPart(doc)
    <2>1. CASE doc = [EmptyRoot EXCEPT !.keys = WrapperKeys]
      <3>1. Finished(doc) = EmptyRoot
        BY <2>1 DEF Finished
      <3>2. /\ doc.note = EmptyRoot.note /\ doc.hooks = EmptyRoot.hooks /\ doc.servers = EmptyRoot.servers
            /\ doc.keys = WrapperKeys /\ EmptyRoot.keys = {}
        BY <2>1 DEF EmptyRoot
      <3>3. doc # Missing /\ EmptyRoot # Missing /\ EmptyRoot \in Docs
        BY FreshTypes, NotMissing
      <3>4. \A e \in Events : EventList(EmptyRoot, e) = EventList(doc, e)
        BY <3>2, <3>3 DEF EventList
      <3>5. HooksNote(EmptyRoot) = HooksNote(doc) /\ ServersUser(EmptyRoot) = ServersUser(doc)
        BY <3>2 DEF HooksNote, ServersUser
      <3>6. EmptyRoot.keys \ WrapperKeys = doc.keys \ WrapperKeys
        BY <3>2
      <3>7. UserPart(EmptyRoot) = UserPart(doc)
        BY <3>2, <3>3, <3>4, <3>5, <3>6, SamePart
      <3> QED BY <3>1, <3>3, <3>7
    <2>2. CASE doc # [EmptyRoot EXCEPT !.keys = WrapperKeys]
      BY <2>2 DEF Finished
    <2> QED BY <2>1, <2>2
  <1> QED BY <1>1, <1>2, <1>3

\* An edit of a registry that a vendor would load leaves what is the user's.
LEMMA RegistryPart ==
  ASSUME NEW doc \in {Missing} \union Docs, NEW e \in Events, NEW handler \in Handlers,
         NEW wanted \in BOOLEAN
  PROVE  /\ RewriteHookRegistry(doc, e, handler, wanted) \in {Missing} \union Docs
         /\ UserPart(RewriteHookRegistry(doc, e, handler, wanted)) = UserPart(doc)
  <1> DEFINE new == RewriteHookRegistry(doc, e, handler, wanted)
             bare == WithoutBom(doc)
             single == DropDuplicates(bare, e)
  <1>1. ASSUME doc # Missing
        PROVE  /\ doc \in Docs /\ bare \in Docs /\ UserPart(bare) = UserPart(doc)
               /\ HasOurs(bare, e) <=> HasOurs(doc, e)
    <2>1. doc \in Docs
      BY <1>1
    <2>2. bare \in Docs /\ UserPart(bare) = UserPart(doc) /\ GroupsOf(bare, e) = GroupsOf(doc, e)
      BY <2>1, FreshParts
    <2> HIDE DEF bare
    <2>3. \A at : Located(bare, e, at) <=> Located(doc, e, at)
      BY <2>2 DEF Located, HandlerAt
    <2> QED BY <2>1, <2>2, <2>3 DEF HasOurs
  <1>2. LocateOurs(doc, e) # <<>> => doc # Missing /\ HasOurs(doc, e)
    <2>1. ASSUME HasOurs(doc, e) PROVE doc # Missing
      <3>1. PICK at : Located(doc, e, at)
        BY <2>1 DEF HasOurs
      <3>2. doc \in Docs
        BY <3>1, LocatedList
      <3> QED BY <3>2, NotMissing
    <2> QED BY <2>1, HasOursMeans
  <1> HIDE DEF bare
  <1>3. CASE wanted /\ doc = Missing
    <2>1. new = Register(EmptyRoot, e, handler)
      BY <1>2, <1>3 DEF RewriteHookRegistry
    <2> HIDE DEF new
    <2>2. Register(EmptyRoot, e, handler) \in Docs
          /\ UserPart(Register(EmptyRoot, e, handler)) = UserPart(EmptyRoot)
      BY FreshTypes, RegisterPart
    <2>3. new \in {Missing} \union Docs /\ UserPart(new) = UserPart(doc)
      BY <1>3, <2>1, <2>2, FreshParts
    <2> QED BY <2>3 DEF new
  <1>4. CASE wanted /\ doc # Missing /\ LocateOurs(doc, e) = <<>>
    <2>1. new = Register(bare, e, handler)
      BY <1>4 DEF RewriteHookRegistry, bare
    <2> HIDE DEF new
    <2>2. Register(bare, e, handler) \in Docs /\ UserPart(Register(bare, e, handler)) = UserPart(bare)
      BY <1>1, <1>4, RegisterPart
    <2>3. new \in {Missing} \union Docs /\ UserPart(new) = UserPart(doc)
      BY <1>1, <1>4, <2>1, <2>2
    <2> QED BY <2>3 DEF new
  <1>5. CASE wanted /\ LocateOurs(doc, e) # <<>>
    <2>1. new = Replace(single, e, LocateOurs(single, e)[1], handler)
      BY <1>5 DEF RewriteHookRegistry, bare
    <2>2. single \in Docs /\ UserPart(single) = UserPart(bare) /\ HasOurs(single, e)
      <3>1. bare \in Docs /\ HasOurs(bare, e) /\ 2 \in {1, 2}
        BY <1>1, <1>2, <1>5
      <3>2. /\ RemoveFrom(bare, e, 2) \in Docs /\ UserPart(RemoveFrom(bare, e, 2)) = UserPart(bare)
            /\ HasOurs(RemoveFrom(bare, e, 2), e)
        BY <3>1, RemoveFromPart
      <3> QED BY <3>2 DEF DropDuplicates
    <2> DEFINE ours == LocateOurs(single, e)
    <2> HIDE DEF single, new
    <2>3. /\ ours \in Seq(Nat \X Nat) /\ ours # <<>>
          /\ \A at : Within(at, ours) <=> Located(single, e, at)
      BY <2>2, LocateOursIs, HasOursMeans
    <2> HIDE DEF ours
    <2>4. 1 \in 1..Len(ours)
      <3>1. Len(ours) \in Nat /\ Len(ours) # 0
        BY <2>3, EmptySeq
      <3> QED BY <3>1
    <2>5. Located(single, e, ours[1])
      BY <2>3, <2>4 DEF Within
    <2>6. /\ Replace(single, e, ours[1], handler) \in Docs
          /\ UserPart(Replace(single, e, ours[1], handler)) = UserPart(single)
      BY <2>2, <2>5, ReplacePart
    <2>7. new \in {Missing} \union Docs /\ UserPart(new) = UserPart(doc)
      BY <1>1, <1>2, <1>5, <2>1, <2>2, <2>6 DEF ours
    <2> QED BY <2>7 DEF new
  <1>6. CASE ~wanted /\ LocateOurs(doc, e) # <<>>
    <2>1. new = Finished(RemoveAll(bare, e))
      BY <1>6 DEF RewriteHookRegistry, bare
    <2> HIDE DEF new
    <2>2. bare \in Docs /\ UserPart(bare) = UserPart(doc) /\ 1 \in {1, 2}
      BY <1>1, <1>2, <1>6
    <2>3. RemoveFrom(bare, e, 1) \in Docs /\ UserPart(RemoveFrom(bare, e, 1)) = UserPart(bare)
      BY <2>2, RemoveFromPart
    <2>4. new \in Docs /\ UserPart(new) = UserPart(bare)
      BY <2>1, <2>3, FreshParts DEF RemoveAll
    <2>5. new \in {Missing} \union Docs /\ UserPart(new) = UserPart(doc)
      BY <2>2, <2>4
    <2> QED BY <2>5 DEF new
  <1>7. CASE ~wanted /\ LocateOurs(doc, e) = <<>>
    <2>1. new = doc
      BY <1>7 DEF RewriteHookRegistry
    <2> QED BY <2>1
  <1> QED BY <1>3, <1>4, <1>5, <1>6, <1>7

LEMMA ServersPart ==
  ASSUME NEW doc \in {Missing} \union Docs, NEW wanted \in BOOLEAN
  PROVE  /\ RewriteServers(doc, wanted) \in {Missing} \union Docs
         /\ UserPart(RewriteServers(doc, wanted)) = UserPart(doc)
  <1> DEFINE new == RewriteServers(doc, wanted)
             held == IF doc = Missing THEN EmptyRoot ELSE WithoutBom(doc)
  <1>1. held \in Docs /\ UserPart(held) = UserPart(doc)
    BY FreshTypes, FreshParts
  <1>2. doc # Missing => held.servers = doc.servers
    BY DEF WithoutBom, Docs
  <1>3. ASSUME NEW servers \in ServerTables, NEW next, next = [held EXCEPT !.servers = servers],
               servers.user = ServersUser(held)
        PROVE  next \in {Missing} \union Docs /\ UserPart(next) = UserPart(doc)
    <2> HIDE DEF held
    <2>1. /\ next \in Docs /\ next.note = held.note /\ next.keys = held.keys
          /\ next.hooks = held.hooks /\ next.servers = servers
      BY <1>1, <1>3 DEF Docs
    <2>2. next # Missing /\ held # Missing /\ servers # Missing
      BY <1>1, <2>1, NotMissing
    <2>3. \A e \in Events : EventList(next, e) = EventList(held, e)
      BY <2>1, <2>2 DEF EventList
    <2>4. HooksNote(next) = HooksNote(held)
      BY <2>1 DEF HooksNote
    <2>5. ServersUser(next) = ServersUser(held)
      BY <1>3, <2>1, <2>2 DEF ServersUser, ServerTables
    <2>6. UserPart(next) = UserPart(held)
      BY <1>1, <2>1, <2>3, <2>4, <2>5, SamePart
    <2> QED BY <1>1, <2>1, <2>6
  <1>4. held.servers \in {Missing} \union ServerTables
    BY <1>1 DEF Docs
  <1>5. CASE wanted /\ held.servers = Missing
    <2>1. new = [held EXCEPT !.servers = Servers("current")]
      BY <1>5 DEF RewriteServers
    <2> HIDE DEF held, new
    <2>2. Servers("current") \in ServerTables /\ Servers("current").user = ServersUser(held)
      BY <1>5 DEF Servers, ServerTables, ServersUser
    <2>3. new \in {Missing} \union Docs /\ UserPart(new) = UserPart(doc)
      BY <1>3, <2>1, <2>2
    <2> QED BY <2>3 DEF new
  <1>6. CASE wanted /\ held.servers # Missing
    <2> DEFINE servers == [held.servers EXCEPT !.ours = "current"]
    <2>1. new = [held EXCEPT !.servers = servers]
      BY <1>6 DEF RewriteServers
    <2> HIDE DEF held, new
    <2>2. servers \in ServerTables /\ servers.user = ServersUser(held)
      BY <1>4, <1>6 DEF ServerTables, ServersUser
    <2> HIDE DEF servers
    <2>3. new \in {Missing} \union Docs /\ UserPart(new) = UserPart(doc)
      BY <1>3, <2>1, <2>2
    <2> QED BY <2>3 DEF new
  <1>7. CASE ~wanted /\ doc # Missing /\ doc.servers # Missing /\ doc.servers.ours # "none"
    <2> DEFINE servers == [held.servers EXCEPT !.ours = "none"]
    <2>1. new = [held EXCEPT !.servers = servers]
      BY <1>7 DEF RewriteServers
    <2>0. held.servers # Missing
      BY <1>2, <1>7
    <2> HIDE DEF held, new
    <2>2. servers \in ServerTables /\ servers.user = ServersUser(held)
      BY <1>4, <2>0 DEF ServerTables, ServersUser
    <2> HIDE DEF servers
    <2>3. new \in {Missing} \union Docs /\ UserPart(new) = UserPart(doc)
      BY <1>3, <2>1, <2>2
    <2> QED BY <2>3 DEF new
  <1>8. CASE new = doc
    BY <1>8
  <1>9. \/ wanted \/ new = doc
        \/ ~wanted /\ doc # Missing /\ doc.servers # Missing /\ doc.servers.ours # "none"
    BY DEF RewriteServers
  <1> QED BY <1>5, <1>6, <1>7, <1>8, <1>9

----------------------------------------------------------------------------
(* The rewriting of a patch file                                           *)

RowForms == {User, Outdated, Bridge}
OursForms == {Outdated, Bridge}

LEMMA RowsAs ==
  ASSUME NEW rows \in PatchRows
  PROVE  /\ rows \in Seq(RowForms) /\ OurRows(rows) = Keep(rows, OursForms)
         /\ UserRows(rows) = Keep(rows, {User})
         /\ UserRows(rows) \in PatchRows /\ Keep(UserRows(rows), {User}) = UserRows(rows)
         /\ Keep(UserRows(rows), OursForms) = <<>>
  <1>1. rows \in Seq(RowForms)
    BY DEF PatchRows, RowForms
  <1>2. OurRows(rows) = Keep(rows, OursForms)
    <2> DEFINE S == Range(rows) \ {User}
    <2>1. \A i \in DOMAIN rows : rows[i] \in S <=> rows[i] \in OursForms
      BY <1>1 DEF RowForms, OursForms, Range, User, Outdated, Bridge
    <2> HIDE DEF S
    <2>2. Keep(rows, S) = Keep(rows, OursForms)
      BY <2>1, KeepSame
    <2> QED BY <2>2 DEF OurRows, S
  <1> DEFINE us == Keep(rows, {User})
  <1>3. us \in Seq(RowForms)
    BY <1>1, KeepType
  <1>4. \A i \in 1..Len(us) : us[i] \in {User}
    <2>1. ASSUME NEW x, Within(x, us) PROVE x \in {User}
      BY <1>1, <2>1, KeepHolds
    <2> HIDE DEF us
    <2> QED BY <2>1 DEF Within
  <1> HIDE DEF us
  <1>5. Keep(us, {User}) = us
    <2> DEFINE S == {User}
    <2>1. \A i \in 1..Len(us) : us[i] \in S
      BY <1>4
    <2> HIDE DEF S
    <2>2. Keep(us, S) = us
      BY <1>3, <2>1, KeepAll
    <2> QED BY <2>2 DEF S
  <1>6. Keep(us, OursForms) = <<>>
    <2>1. \A i \in 1..Len(us) : us[i] \notin OursForms
      BY <1>4 DEF OursForms, User, Outdated, Bridge
    <2> QED BY <1>3, <2>1, KeepNone
  <1> QED BY <1>1, <1>2, <1>3, <1>5, <1>6 DEF us, UserRows, PatchRows, RowForms

\* What is kept of three sequences put together.
LEMMA KeepThree ==
  ASSUME NEW S, NEW a \in Seq(RowForms), NEW b \in Seq(RowForms), NEW c \in Seq(RowForms)
  PROVE  /\ (a \o b) \o c \in Seq(RowForms)
         /\ Keep((a \o b) \o c, S) = (Keep(a, S) \o Keep(b, S)) \o Keep(c, S)
  <1> DEFINE d == a \o b
  <1>1. d \in Seq(RowForms)
    BY ConcatProperties
  <1>2. Keep(d, S) = Keep(a, S) \o Keep(b, S)
    BY KeepConcat
  <1> HIDE DEF d
  <1>3. Keep(d \o c, S) = Keep(d, S) \o Keep(c, S)
    BY <1>1, KeepConcat
  <1>4. d \o c \in Seq(RowForms)
    BY <1>1, ConcatProperties
  <1> QED BY <1>2, <1>3, <1>4 DEF d

LEMMA KeepEmpty ==
  ASSUME NEW S
  PROVE  Keep(<<>>, S) = <<>>
  <1>1. <<>> \in Seq(RowForms)
    BY EmptyIn
  <1>2. \A i \in 1..Len(<<>>) : <<>>[i] \notin S
    <2>1. Len(<<>>) = 0
      OBVIOUS
    <2> QED BY <2>1
  <1> DEFINE none == <<>>
  <1>3. none \in Seq(RowForms) /\ \A i \in 1..Len(none) : none[i] \notin S
    BY <1>1, <1>2
  <1> HIDE DEF none
  <1>4. Keep(none, S) = <<>>
    BY <1>3, KeepNone
  <1> QED BY <1>4 DEF none

\* Rows in front of the first of ours, that row, and those behind it.
LEMMA FirstOurs ==
  ASSUME NEW rows \in PatchRows, OurRows(rows) # <<>>
  PROVE  \E a, b \in PatchRows, x \in OursForms :
            /\ rows = (a \o <<x>>) \o b /\ Keep(a, {User}) = a /\ Keep(a, OursForms) = <<>>
            /\ \A wanted \in BOOLEAN :
                  EditPatch(rows, wanted) =
                     (a \o (IF wanted THEN <<Bridge>> ELSE <<>>)) \o UserRows(b)
  <1> DEFINE mine == {i \in DOMAIN rows : rows[i] # User}
             first == CHOOSE i \in mine : \A j \in mine : i <= j
             a == SubSeq(rows, 1, first - 1)
             b == SubSeq(rows, first + 1, Len(rows))
  <1>0. rows \in Seq(RowForms) /\ DOMAIN rows = 1..Len(rows) /\ Len(rows) \in Nat
    BY RowsAs
  <1>1. mine # {}
    <2>1. Keep(rows, OursForms) # <<>>
      BY RowsAs
    <2>2. PICK i \in 1..Len(rows) : rows[i] \in OursForms
      BY <1>0, <2>1, KeepNone
    <2>3. i \in mine
      BY <1>0, <2>2 DEF OursForms, User, Outdated, Bridge
    <2> QED BY <2>3
  <1>2. first \in mine /\ \A j \in mine : first <= j
    <2>1. mine \subseteq Nat
      BY <1>0
    <2> HIDE DEF mine
    <2>2. \E i \in mine : \A j \in mine : i <= j
      BY <1>1, <2>1, LeastNumber
    <2> QED BY <2>2
  <1>3. \A wanted \in BOOLEAN :
           EditPatch(rows, wanted) = (a \o (IF wanted THEN <<Bridge>> ELSE <<>>)) \o UserRows(b)
    BY <1>1 DEF EditPatch
  <1> HIDE DEF first
  <1>4. first \in 1..Len(rows) /\ rows[first] \in OursForms
    BY <1>0, <1>2 DEF RowForms, OursForms
  <1>5. a \in Seq(RowForms) /\ b \in Seq(RowForms) /\ Parts(rows, first, a, b)
    BY <1>0, <1>4, PartsAt
  <1>6. rows = (a \o <<rows[first]>>) \o b
    <2> HIDE DEF a, b
    <2> QED BY <1>0, <1>4, <1>5, SplitAt
  <1>7. ASSUME NEW i \in 1..Len(a) PROVE a[i] \in {User} /\ a[i] \notin OursForms
    <2> HIDE DEF a, b
    <2>1. Len(a) = first - 1 /\ \A j \in 1..(first - 1) : a[j] = rows[j]
      BY <1>5 DEF Parts
    <2>2. i \in 1..(first - 1) /\ i \in 1..Len(rows) /\ ~(first <= i)
      BY <1>0, <1>4, <2>1
    <2>3. a[i] = User
      BY <1>0, <1>2, <2>1, <2>2
    <2> QED BY <2>3 DEF OursForms, User, Outdated, Bridge
  <1> HIDE DEF a, b, mine
  <1>8. Keep(a, {User}) = a
    <2> DEFINE S == {User}
    <2>1. \A i \in 1..Len(a) : a[i] \in S
      BY <1>7
    <2> HIDE DEF S
    <2>2. Keep(a, S) = a
      BY <1>5, <2>1, KeepAll
    <2> QED BY <2>2 DEF S
  <1>9. Keep(a, OursForms) = <<>>
    BY <1>5, <1>7, KeepNone
  <1>10. a \in PatchRows /\ b \in PatchRows
    BY <1>5 DEF PatchRows, RowForms
  <1> QED BY <1>3, <1>4, <1>6, <1>8, <1>9, <1>10

\* An edit of the patch file leaves the user's rows; it takes every row of ours
\* away or puts one, and changes nothing where that is how things are.
LEMMA PatchPart ==
  ASSUME NEW rows \in PatchRows, NEW wanted \in BOOLEAN
  PROVE  /\ EditPatch(rows, wanted) \in PatchRows
         /\ UserRows(EditPatch(rows, wanted)) = UserRows(rows)
         /\ ~wanted => OurRows(EditPatch(rows, wanted)) = <<>>
         /\ ~wanted /\ OurRows(rows) = <<>> => EditPatch(rows, wanted) = rows
         /\ wanted /\ OurRows(rows) = <<Bridge>> => EditPatch(rows, wanted) = rows
  <1> DEFINE row == IF wanted THEN <<Bridge>> ELSE <<>>
             new == EditPatch(rows, wanted)
  <1>0. rows \in Seq(RowForms) /\ UserRows(rows) = Keep(rows, {User}) /\ OurRows(rows) = Keep(rows, OursForms)
    BY RowsAs
  <1>1. /\ row \in Seq(RowForms) /\ Keep(row, {User}) = <<>>
        /\ ~wanted => row = <<>>
        /\ wanted => row = <<Bridge>> /\ Keep(row, OursForms) = <<Bridge>>
    <2>1. CASE wanted
      <3>1. row = <<Bridge>> /\ <<Bridge>> \in Seq(RowForms)
        BY <2>1 DEF RowForms
      <3>2. Keep(<<Bridge>>, {User}) = <<>> /\ Keep(<<Bridge>>, OursForms) = <<Bridge>>
        BY KeepOne DEF OursForms, User, Bridge
      <3> QED BY <2>1, <3>1, <3>2
    <2>2. CASE ~wanted
      <3>1. row = <<>> /\ <<>> \in Seq(RowForms)
        BY <2>2, EmptyIn
      <3>2. Keep(<<>>, {User}) = <<>>
        BY KeepEmpty
      <3> QED BY <2>2, <3>1, <3>2
    <2> QED BY <2>1, <2>2
  <1> HIDE DEF row
  <1>2. CASE OurRows(rows) = <<>>
    <2>1. new = rows \o row
      <3>1. \A i \in 1..Len(rows) : rows[i] \notin OursForms
        BY <1>0, <1>2, KeepNone
      <3>2. {i \in DOMAIN rows : rows[i] # User} = {}
        BY <1>0, <3>1 DEF RowForms, OursForms
      <3> QED BY <3>2 DEF EditPatch, row
    <2> HIDE DEF new
    <2>2. new \in Seq(RowForms)
      BY <1>0, <1>1, <2>1, ConcatProperties
    <2>3. Keep(new, {User}) = Keep(rows, {User})
      <3>1. Keep(rows \o row, {User}) = Keep(rows, {User}) \o Keep(row, {User})
        BY <1>0, <1>1, KeepConcat
      <3>2. Keep(rows, {User}) \o <<>> = Keep(rows, {User})
        BY <1>0, KeepType, ConcatEmptySeq
      <3> QED BY <1>1, <2>1, <3>1, <3>2, Zenon
    <2>4. ~wanted => new = rows
      BY <1>0, <1>1, <2>1, ConcatEmptySeq
    <2>5. <<Bridge>> # <<>>
      OBVIOUS
    <2>6. new \in PatchRows
      BY <2>2 DEF PatchRows, RowForms
    <2>7. UserRows(new) = UserRows(rows)
      BY <2>3 DEF UserRows
    <2>8. /\ ~wanted => OurRows(new) = <<>> /\ new = rows
          /\ OurRows(rows) # <<Bridge>>
      BY <1>2, <2>4, <2>5
    <2> QED BY <2>6, <2>7, <2>8 DEF new
  <1>3. CASE OurRows(rows) # <<>>
    <2>1. PICK a \in PatchRows, b \in PatchRows, x \in OursForms :
            /\ rows = (a \o <<x>>) \o b /\ Keep(a, {User}) = a /\ Keep(a, OursForms) = <<>>
            /\ new = (a \o row) \o UserRows(b)
      BY <1>3, FirstOurs DEF row
    <2> HIDE DEF new
    <2>2. /\ a \in Seq(RowForms) /\ b \in Seq(RowForms) /\ <<x>> \in Seq(RowForms)
          /\ Keep(<<x>>, {User}) = <<>> /\ Keep(<<x>>, OursForms) = <<x>>
      <3>1. a \in Seq(RowForms) /\ b \in Seq(RowForms)
        BY RowsAs
      <3>2. <<x>> \in Seq(RowForms) /\ x \notin {User} /\ x \in OursForms
        BY DEF RowForms, OursForms, User, Outdated, Bridge
      <3>3. Keep(<<x>>, {User}) = <<>> /\ Keep(<<x>>, OursForms) = <<x>>
        BY <3>2, KeepOne
      <3> QED BY <3>1, <3>2, <3>3
    <2> DEFINE us == UserRows(b)
    <2>3. /\ us = Keep(b, {User}) /\ us \in Seq(RowForms) /\ Keep(us, {User}) = us
          /\ Keep(us, OursForms) = <<>>
      <3>1. us = Keep(b, {User}) /\ us \in PatchRows /\ Keep(us, {User}) = us /\ Keep(us, OursForms) = <<>>
        BY RowsAs
      <3> QED BY <3>1 DEF PatchRows, RowForms
    <2> HIDE DEF us
    <2>4. new = (a \o row) \o us
      BY <2>1 DEF us
    <2>5. new \in Seq(RowForms) /\ \A S : Keep(new, S) = (Keep(a, S) \o Keep(row, S)) \o Keep(us, S)
      <3>1. a \in Seq(RowForms) /\ row \in Seq(RowForms) /\ us \in Seq(RowForms)
        BY <1>1, <2>2, <2>3
      <3>2. (a \o row) \o us \in Seq(RowForms)
        BY ONLY <3>1, KeepThree
      <3>3. \A S : Keep((a \o row) \o us, S) = (Keep(a, S) \o Keep(row, S)) \o Keep(us, S)
        BY ONLY <3>1, KeepThree, SMTT(30)
      <3> QED BY ONLY <2>4, <3>2, <3>3, Zenon
    <2>6. \A S : Keep(rows, S) = (Keep(a, S) \o Keep(<<x>>, S)) \o Keep(b, S)
      <3> DEFINE one == <<x>>
      <3>1. a \in Seq(RowForms) /\ one \in Seq(RowForms) /\ b \in Seq(RowForms)
        BY <2>2
      <3>2. rows = (a \o one) \o b
        BY <2>1
      <3> HIDE DEF one
      <3>3. ASSUME NEW S
            PROVE  Keep((a \o one) \o b, S) = (Keep(a, S) \o Keep(one, S)) \o Keep(b, S)
        BY ONLY <3>1, KeepThree, SMTT(30)
      <3>4. \A S : Keep(rows, S) = (Keep(a, S) \o Keep(one, S)) \o Keep(b, S)
        BY ONLY <3>2, <3>3, Zenon
      <3> QED BY <3>4 DEF one
    <2>7. a \o <<>> = a /\ us \o <<>> = us /\ <<>> \o us = us /\ <<>> \o <<>> = <<>>
      BY <2>2, <2>3, ConcatEmptySeq
    <2>8. Keep(new, {User}) = a \o us
      BY <1>1, <2>1, <2>3, <2>5, <2>7
    <2>9. Keep(rows, {User}) = a \o us
      BY <2>1, <2>2, <2>3, <2>6, <2>7
    <2>10. ASSUME ~wanted PROVE Keep(new, OursForms) = <<>>
      <3>1. Keep(row, OursForms) = <<>>
        BY <1>1, <2>10, KeepEmpty
      <3> QED BY <2>1, <2>3, <2>5, <2>7, <3>1
    <2>11. ASSUME wanted, OurRows(rows) = <<Bridge>> PROVE new = rows
      <3> DEFINE k == Keep(b, OursForms)
      <3>1. k \in Seq(RowForms) /\ Len(k) \in Nat
        BY <2>2, KeepType
      <3>2. Keep(rows, OursForms) = (<<>> \o <<x>>) \o k
        BY <2>1, <2>2, <2>6
      <3> HIDE DEF k
      <3>3. <<>> \o <<x>> = <<x>>
        BY <2>2, ConcatEmptySeq
      <3>4. <<x>> \o k = <<Bridge>>
        BY <1>0, <2>11, <3>2, <3>3
      <3>5. Len(<<x>> \o k) = 1 + Len(k) /\ (<<x>> \o k)[1] = x
        BY <2>2, <3>1
      <3>6. Len(<<Bridge>>) = 1 /\ <<Bridge>>[1] = Bridge
        OBVIOUS
      <3>7. Len(k) = 0 /\ x = Bridge
        <4>1. 1 + Len(k) = 1
          BY <3>4, <3>5, <3>6, Zenon
        <4>2. x = Bridge
          BY <3>4, <3>5, <3>6, Zenon
        <4> QED BY <3>1, <4>1, <4>2
      <3>8. k = <<>>
        BY <3>1, <3>7, EmptySeq
      <3>9. \A i \in 1..Len(b) : b[i] \notin OursForms
        BY <2>2, <3>8, KeepNone DEF k
      <3>10. us = b
        <4> DEFINE S == {User}
        <4>1. \A i \in 1..Len(b) : b[i] \in S
          BY <2>2, <3>9 DEF RowForms, OursForms
        <4> HIDE DEF S
        <4>2. Keep(b, S) = b
          BY <2>2, <4>1, KeepAll
        <4> QED BY <2>3, <4>2 DEF S
      <3>11. row = <<x>>
        BY <1>1, <2>11, <3>7
      <3> QED BY <2>1, <2>4, <3>10, <3>11, Zenon
    <2>12. new \in PatchRows
      BY <2>5 DEF PatchRows, RowForms
    <2>13. UserRows(new) = UserRows(rows)
      BY <2>8, <2>9 DEF UserRows
    <2>14. ~wanted => OurRows(new) = <<>>
      BY <2>10, <2>12, RowsAs
    <2> QED BY <1>3, <2>11, <2>12, <2>13, <2>14 DEF new
  <1> QED BY <1>2, <1>3

----------------------------------------------------------------------------
(* Types                                                                   *)

Contents(f) == IF f \in PatchFiles THEN PatchRows ELSE {Missing} \union Docs
AnyContents == PatchRows \union {Missing} \union Docs
SameUser(f, new, old) ==
    IF f \in PatchFiles THEN UserRows(new) = UserRows(old) ELSE UserPart(new) = UserPart(old)
Keeps(f, new, old) == new \in Contents(f) /\ SameUser(f, new, old)

ChangeForms ==
    [target : OwnFiles, value : {Written, Missing}] \union
    {c \in [target : Files, value : AnyContents] : c.value \in Contents(c.target)}

Holds(d) == DOMAIN d = Files \union OwnFiles /\ \A f \in Files : d[f] \in Contents(f)
Declares == \E world \in Worlds : artifacts = world.artifacts

HookTyped ==
    /\ Declares /\ Holds(disk)
    /\ access \in [Files -> {"ok", "broken", "locked"}]
    /\ todo \in Seq(ChangeForms)

\* What the declarations of a machine say of one artifact.
LEMMA Artifact ==
  ASSUME Declares, NEW a \in ArtifactsOf(artifacts)
  PROVE  /\ a.kind \in {"registry", "servers", "bridge", "file"}
         /\ a.kind # "file" => a.file \in Files
         /\ a.kind \in {"bridge", "file"} => a.own \in OwnFiles
         /\ a.kind = "registry" => a.event \in Events /\ a.handler \in Handlers
         /\ a.kind = "bridge" => a.file \in PatchFiles
         /\ a.kind \in {"registry", "servers"} => a.file \notin PatchFiles
  <1>1. PICK world \in Worlds : artifacts = world.artifacts
    BY DEF Declares
  <1>2. /\ a.kind \in {"registry", "servers", "bridge", "file"}
        /\ a.file \in Files \union {None} /\ a.own \in OwnFiles \union {None}
        /\ (a.file = None) <=> (a.kind = "file")
        /\ (a.own = None) <=> (a.kind \in {"registry", "servers"})
        /\ a.kind = "registry" => a.event \in Events /\ a.handler \in Handlers
    BY <1>1, WorldsDeclared
  <1>3. a.kind = "bridge" => a.file \in PatchFiles
    BY DEF PatchFiles, PatchFilesOf
  <1>4. ASSUME a.kind \in {"registry", "servers"}, a.file \in PatchFiles PROVE FALSE
    <2>1. PICK b \in ArtifactsOf(artifacts) : b.kind = "bridge" /\ a.file = b.file
      BY <1>4 DEF PatchFiles, PatchFilesOf
    <2>2. PICK p \in DOMAIN artifacts, q \in DOMAIN artifacts :
             a \in Range(artifacts[p]) /\ b \in Range(artifacts[q])
      BY DEF ArtifactsOf
    <2>3. a.kind = "bridge"
      BY <1>1, <2>1, <2>2, BridgesDeclared
    <2> QED BY <1>4, <2>3
  <1> QED BY <1>2, <1>3, <1>4

LEMMA KeepsSteps ==
  ASSUME NEW f, NEW x, NEW y, NEW z
  PROVE  /\ x \in Contents(f) => Keeps(f, x, x)
         /\ Keeps(f, x, y) /\ Keeps(f, y, z) => Keeps(f, x, z)
  BY DEF Keeps, SameUser

\* A rewrite for an artifact keeps what in its file is the user's.
LEMMA RewrittenKeeps ==
  ASSUME Declares, NEW a \in ArtifactsOf(artifacts), a.kind # "file",
         NEW text \in Contents(a.file), NEW wanted \in BOOLEAN
  PROVE  Keeps(a.file, Rewritten(a, text, wanted), text)
  <1>1. CASE a.kind = "registry"
    <2>1. a.event \in Events /\ a.handler \in Handlers /\ a.file \notin PatchFiles
      BY <1>1, Artifact
    <2>2. text \in {Missing} \union Docs
      BY <2>1 DEF Contents
    <2>3. Rewritten(a, text, wanted) = RewriteHookRegistry(text, a.event, a.handler, wanted)
      BY <1>1 DEF Rewritten
    <2> QED BY <2>1, <2>2, <2>3, RegistryPart DEF Keeps, SameUser, Contents
  <1>2. CASE a.kind = "servers"
    <2>1. a.file \notin PatchFiles
      BY <1>2, Artifact
    <2>2. text \in {Missing} \union Docs
      BY <2>1 DEF Contents
    <2>3. Rewritten(a, text, wanted) = RewriteServers(text, wanted)
      BY <1>2 DEF Rewritten
    <2> QED BY <2>1, <2>2, <2>3, ServersPart DEF Keeps, SameUser, Contents
  <1>3. CASE a.kind = "bridge"
    <2>1. a.file \in PatchFiles
      BY <1>3, Artifact
    <2>2. text \in PatchRows
      BY <2>1 DEF Contents
    <2>3. Rewritten(a, text, wanted) = EditPatch(text, wanted)
      BY <1>3 DEF Rewritten
    <2> QED BY <2>1, <2>2, <2>3, PatchPart DEF Keeps, SameUser, Contents
  <1> QED BY <1>1, <1>2, <1>3, Artifact

----------------------------------------------------------------------------
(* Answers                                                                 *)

LEMMA KeepIn ==
  ASSUME NEW C, NEW D, NEW S, NEW s \in Seq(C), \A x \in C : x \in S => x \in D
  PROVE  Keep(s, S) \in Seq(D)
  <1>1. Keep(s, S) \in Seq(C) /\ Len(Keep(s, S)) \in Nat
    BY KeepType
  <1>2. ASSUME NEW i \in 1..Len(Keep(s, S)) PROVE Keep(s, S)[i] \in D
    <2>1. Within(Keep(s, S)[i], Keep(s, S))
      BY DEF Within
    <2>2. Keep(s, S)[i] \in S
      BY <2>1, KeepHolds
    <2>3. Keep(s, S)[i] \in C
      BY <1>1
    <2> QED BY <2>2, <2>3
  <1> DEFINE k == Keep(s, S)
  <1>3. k \in Seq(C) /\ Len(k) \in Nat /\ \A i \in 1..Len(k) : k[i] \in D
    BY <1>1, <1>2
  <1> HIDE DEF k
  <1>4. k \in Seq(D)
    BY <1>3
  <1> QED BY <1>4 DEF k

LEMMA OneIn == ASSUME NEW C, NEW x \in C PROVE <<x>> \in Seq(C)
  OBVIOUS

LEMMA SetToSeqType ==
  ASSUME NEW S, IsFiniteSet(S)
  PROVE  SetToSeq(S) \in Seq(S)
  <1> DEFINE n == Cardinality(S)
  <1>1. n \in Nat /\ ExistsBijection(1..n, S)
    BY FS_CardinalityType
  <1>2. \E f \in [1..n -> S] : IsInjective(f)
    BY <1>1 DEF ExistsBijection, Bijection, Injection
  <1>3. SetToSeq(S) \in [1..n -> S]
    BY <1>2 DEF SetToSeq
  <1> HIDE DEF n
  <1> QED BY <1>1, <1>3

\* What each answer of a run over the disk d says.
Sound(d, answer) ==
    /\ answer.rewrite => answer.art.kind # "file"
    /\ answer.own # None => answer.art.kind \in {"bridge", "file"}
    /\ answer.wanted => answer.own # "delete"
    /\ ~answer.wanted => answer.own # "write"
    /\ answer.art.kind = "bridge" /\ answer.wanted => answer.own = "write"
    /\ answer.art.kind = "bridge" /\ answer.rewrite =>
          Rewritten(answer.art, d[answer.art.file], answer.wanted) # d[answer.art.file]
    /\ answer.art.kind = "file" /\ answer.own = "write" => d[answer.art.own] # Written
    /\ answer.wanted => \E pair \in hooks \intersect listed :
                           pair \in Pairs /\ answer.art \in Range(artifacts[pair])
Answers(d) ==
    {answer \in [harness : Harnesses, place : Places, art : ArtifactsOf(artifacts),
                 wanted : BOOLEAN, own : {None, "write", "delete"}, rewrite : BOOLEAN] :
        Sound(d, answer)}

LEMMA ArtifactsAtType ==
  ASSUME Declares, NEW h, NEW p
  PROVE  /\ ArtifactsAt(h, p) \in Seq(ArtifactsOf(artifacts))
         /\ ArtifactsAt(h, p) # <<>> => /\ <<h, p>> \in Pairs /\ p \in Places
                                        /\ ArtifactsAt(h, p) = artifacts[<<h, p>>]
  <1>1. PICK world \in Worlds : artifacts = world.artifacts
    BY DEF Declares
  <1>2. CASE <<h, p>> \in Pairs
    <2> DEFINE pair == <<h, p>>
    <2>1. artifacts[pair] \in Seq(ArtifactsOf(artifacts))
      BY <1>1, <1>2, WorldsDeclared DEF Pairs
    <2>2. pair[2] \in Places
      <3> DEFINE at == {q[2] : q \in DOMAIN world.artifacts}
      <3>1. pair[2] \in at
        BY <1>1, <1>2 DEF Pairs
      <3> HIDE DEF pair
      <3>2. \E w \in Worlds : pair[2] \in {q[2] : q \in DOMAIN w.artifacts}
        BY <3>1
      <3> QED BY <3>2 DEF Places
    <2>3. ArtifactsAt(h, p) = artifacts[pair]
      BY <1>2, Zenon DEF ArtifactsAt
    <2> QED BY <1>2, <2>1, <2>2, <2>3
  <1>3. CASE <<h, p>> \notin Pairs
    <2>1. ArtifactsAt(h, p) = <<>>
      BY <1>3 DEF ArtifactsAt
    <2> QED BY <2>1, EmptyIn
  <1> QED BY <1>2, <1>3

LEMMA AnswersOfType ==
  ASSUME Declares, NEW d, NEW h \in Harnesses, NEW p \in Places, NEW wanted \in BOOLEAN,
         wanted => Wants(h, p), <<h, p>> \in Pairs, NEW a \in Range(artifacts[<<h, p>>]),
         a \in ArtifactsOf(artifacts)
  PROVE  AnswersOf(d, h, p, a, wanted) \in Seq(Answers(d))
  <1>1. a.kind \in {"registry", "servers", "bridge", "file"}
    BY Artifact
  <1>2. wanted => \E pair \in hooks \intersect listed :
                     pair \in Pairs /\ a \in Range(artifacts[pair])
    BY DEF Wants
  <1>3. ASSUME NEW own \in {None, "write", "delete"}, NEW rewrite \in BOOLEAN,
               Sound(d, Answer(h, p, a, wanted, own, rewrite))
        PROVE  Answer(h, p, a, wanted, own, rewrite) \in Answers(d)
    BY <1>3 DEF Answers, Answer
  <1>4. CASE a.kind = "bridge"
    <2> DEFINE moves == Rewritten(a, d[a.file], wanted) # d[a.file]
               own == IF wanted THEN "write"
                      ELSE IF moves \/ d[a.own] # Missing THEN "delete" ELSE None
    <2>1. Answer(h, p, a, wanted, own, moves) \in Answers(d)
      <3>1. own \in {None, "write", "delete"} /\ moves \in BOOLEAN
        OBVIOUS
      <3>2. Sound(d, Answer(h, p, a, wanted, own, moves))
        BY <1>2, <1>4 DEF Sound, Answer, None
      <3> QED BY <1>3, <3>1, <3>2
    <2>2. \/ AnswersOf(d, h, p, a, wanted) = <<>>
          \/ AnswersOf(d, h, p, a, wanted) = <<Answer(h, p, a, wanted, own, moves)>>
      BY <1>4 DEF AnswersOf, BridgeAnswers
    <2> HIDE DEF own, moves
    <2>3. <<Answer(h, p, a, wanted, own, moves)>> \in Seq(Answers(d))
      BY <2>1, OneIn
    <2>4. <<>> \in Seq(Answers(d))
      BY EmptyIn
    <2> QED BY <2>2, <2>3, <2>4
  <1>5. CASE a.kind = "file"
    <2> DEFINE own == IF wanted THEN IF d[a.own] = Written THEN None ELSE "write"
                      ELSE IF d[a.own] = Missing THEN None ELSE "delete"
    <2>1. Answer(h, p, a, wanted, own, FALSE) \in Answers(d)
      <3>1. own \in {None, "write", "delete"} /\ FALSE \in BOOLEAN
        OBVIOUS
      <3>2. Sound(d, Answer(h, p, a, wanted, own, FALSE))
        BY <1>2, <1>5 DEF Sound, Answer, None
      <3> QED BY <1>3, <3>1, <3>2
    <2>2. AnswersOf(d, h, p, a, wanted) = <<Answer(h, p, a, wanted, own, FALSE)>>
      BY <1>5 DEF AnswersOf, FileHook
    <2> HIDE DEF own
    <2>3. <<Answer(h, p, a, wanted, own, FALSE)>> \in Seq(Answers(d))
      BY <2>1, OneIn
    <2> QED BY <2>2, <2>3
  <1>6. CASE a.kind \in {"registry", "servers"}
    <2>1. Answer(h, p, a, wanted, None, TRUE) \in Answers(d)
      <3>1. Sound(d, Answer(h, p, a, wanted, None, TRUE))
        BY <1>2, <1>6 DEF Sound, Answer, None
      <3> QED BY <1>3, <3>1
    <2>2. AnswersOf(d, h, p, a, wanted) = <<Answer(h, p, a, wanted, None, TRUE)>>
      BY <1>6 DEF AnswersOf
    <2>3. <<Answer(h, p, a, wanted, None, TRUE)>> \in Seq(Answers(d))
      BY <2>1, OneIn
    <2> QED BY <2>2, <2>3
  <1> QED BY <1>1, <1>4, <1>5, <1>6

LEMMA AnswersAtType ==
  ASSUME Declares, NEW d, NEW h \in Harnesses, NEW p, NEW wanted \in BOOLEAN, wanted => Wants(h, p)
  PROVE  AnswersAt(d, h, p, wanted) \in Seq(Answers(d))
  <1> DEFINE arts == ArtifactsAt(h, p)
             seqs == [i \in DOMAIN arts |-> AnswersOf(d, h, p, arts[i], wanted)]
  <1>0. arts \in Seq(ArtifactsOf(artifacts))
    BY ArtifactsAtType
  <1>1. arts \in Seq(ArtifactsOf(artifacts)) /\ DOMAIN arts = 1..Len(arts) /\ Len(arts) \in Nat
    <2> HIDE DEF arts
    <2> QED BY <1>0
  <1>2. ASSUME NEW i \in 1..Len(arts)
        PROVE  AnswersOf(d, h, p, arts[i], wanted) \in Seq(Answers(d))
    <2>1. arts # <<>>
      <3> HIDE DEF arts
      <3> QED BY <1>1, <1>2
    <2>2. <<h, p>> \in Pairs /\ p \in Places /\ arts = artifacts[<<h, p>>]
      BY <2>1, ArtifactsAtType
    <2> HIDE DEF arts
    <2>3. arts[i] \in Range(artifacts[<<h, p>>]) /\ arts[i] \in ArtifactsOf(artifacts)
      <3>1. arts[i] \in Range(arts) /\ arts[i] \in ArtifactsOf(artifacts)
        BY <1>1, <1>2 DEF Range
      <3> QED BY <2>2, <3>1, Zenon
    <2> QED BY <2>2, <2>3, AnswersOfType
  <1> HIDE DEF arts
  <1>3. seqs \in Seq(Seq(Answers(d)))
    BY <1>1, <1>2
  <1>4. AnswersAt(d, h, p, wanted) = FlattenSeq(seqs)
    BY DEF AnswersAt, arts
  <1> HIDE DEF seqs
  <1> QED BY <1>3, <1>4, FlattenType

LEMMA HarnessAnswersType ==
  ASSUME Declares, NEW d, NEW h \in Harnesses, NEW root
  PROVE  HarnessAnswers(d, h, root) \in Seq(Answers(d))
  <1> DEFINE places == PlacesOf(root)
             own == OwnScopes(d, h, places)
             others == SetToSeq({p \in Places \ Range(PlacesOf(root)) : Wants(h, p)})
             here == [i \in DOMAIN places |-> AnswersAt(d, h, places[i], Wants(h, places[i]))]
             there == [i \in DOMAIN others |-> AnswersAt(d, h, others[i], TRUE)]
             all == FlattenSeq(there)
  <1>1. own \in Seq(Answers(d))
    <2>1. Len(places) \in Nat /\ DOMAIN places = 1..Len(places)
      <3>1. places = <<Global>> \/ places = <<Global, root>>
        BY DEF PlacesOf
      <3> HIDE DEF places
      <3> QED BY <3>1
    <2> HIDE DEF places
    <2>2. \A i \in 1..Len(places) : here[i] \in Seq(Answers(d))
      <3>1. ASSUME NEW p PROVE AnswersAt(d, h, p, Wants(h, p)) \in Seq(Answers(d))
        <4>1. Wants(h, p) \in BOOLEAN
          BY DEF Wants
        <4> QED BY <4>1, AnswersAtType
      <3> QED BY <2>1, <3>1
    <2>3. here \in Seq(Seq(Answers(d)))
      BY <2>1, <2>2
    <2>4. own = FlattenSeq(here)
      BY DEF OwnScopes
    <2> HIDE DEF here
    <2> QED BY <2>3, <2>4, FlattenType
  <1>2. all \in Seq(Answers(d))
    <2> DEFINE P == {p \in Places \ Range(PlacesOf(root)) : Wants(h, p)}
    <2>1. IsFiniteSet(P)
      BY NamesDeclared, FS_Subset
    <2>2. others \in Seq(P)
      <3> HIDE DEF P
      <3>1. SetToSeq(P) \in Seq(P)
        BY <2>1, SetToSeqType
      <3> QED BY <3>1 DEF P
    <2> HIDE DEF others
    <2>3. Len(others) \in Nat /\ DOMAIN others = 1..Len(others)
          /\ \A i \in 1..Len(others) : Wants(h, others[i])
      BY <2>2
    <2>4. \A i \in 1..Len(others) : there[i] \in Seq(Answers(d))
      <3> SUFFICES ASSUME NEW i \in 1..Len(others) PROVE there[i] \in Seq(Answers(d))
        OBVIOUS
      <3>1. there[i] = AnswersAt(d, h, others[i], TRUE)
        BY <2>3
      <3>2. Wants(h, others[i]) /\ TRUE \in BOOLEAN
        BY <2>3
      <3> HIDE DEF there
      <3>3. AnswersAt(d, h, others[i], TRUE) \in Seq(Answers(d))
        BY <3>2, AnswersAtType
      <3> QED BY <3>1, <3>3
    <2>5. there \in Seq(Seq(Answers(d)))
      <3>1. there = [i \in 1..Len(others) |-> there[i]] /\ Len(others) \in Nat
        BY <2>3
      <3> HIDE DEF there
      <3>2. there \in [1..Len(others) -> Seq(Answers(d))]
        BY <2>4, <3>1
      <3> QED BY <3>1, <3>2
    <2> HIDE DEF there
    <2> QED BY <2>5, FlattenType
  <1>3. Elsewhere(d, h, others, Reach(own)) \in Seq(Answers(d))
    <2>1. Elsewhere(d, h, others, Reach(own)) =
             Keep(all, {answer \in Range(all) : Claims(answer) \intersect Reach(own) # {}})
      BY DEF Elsewhere
    <2> HIDE DEF all, others, own
    <2> QED BY <1>2, <2>1, KeepType
  <1>4. HarnessAnswers(d, h, root) = own \o Elsewhere(d, h, others, Reach(own))
    BY DEF HarnessAnswers, WithElsewhere
  <1> HIDE DEF own, others
  <1> QED BY <1>1, <1>3, <1>4, ConcatProperties

\* What a run plans, in terms of what its fold over the answers makes.
LEMMA PlanIs ==
  ASSUME Declares, NEW d, NEW root, NEW agents
  PROVE  \E all, admitted \in Seq(Answers(d)) : \E wanted, landed :
              /\ wanted = LandWanted(Untouched(d), all)
              /\ landed = LandUnwanted(wanted, admitted)
              /\ \A answer : Within(answer, admitted) =>
                    /\ Within(answer, all)
                    /\ answer.wanted => answer \in wanted.applied
              /\ PlanHooks(d, root, agents) = Finish(d, agents, admitted, landed)
  <1> DEFINE defs == Keep(Order, agents)
             answers == [i \in DOMAIN defs |-> HarnessAnswers(d, defs[i], root)]
             all == FlattenSeq(answers)
             wanted == LandWanted(Untouched(d), all)
             S(own) == {answer \in Range(own) : answer.wanted => answer \in wanted.applied}
             Standing(own) == Keep(own, S(own))
             T(own) == LET w == {answer \in Range(own) : answer.wanted}
                           kept == UNION {Claims(answer) : answer \in w}
                           held == UNION {Claims(answer) : answer \in {v \in w : ~v.rewrite}}
                       IN  w \union {answer \in Range(own) :
                              /\ answer.own # None => answer.art.own \notin kept
                              /\ answer.rewrite => answer.art.file \notin held}
             stand == [i \in DOMAIN answers |-> Admitted(Standing(answers[i]))]
             admitted == FlattenSeq(stand)
  <1>1. defs \in Seq(Harnesses) /\ DOMAIN defs = 1..Len(defs) /\ Len(defs) \in Nat
    BY NamesDeclared, KeepType
  <1> HIDE DEF defs
  <1>2. answers \in Seq(Seq(Answers(d))) /\ DOMAIN answers = 1..Len(answers) /\ Len(answers) \in Nat
    <2>1. \A i \in 1..Len(defs) : HarnessAnswers(d, defs[i], root) \in Seq(Answers(d))
      BY <1>1, HarnessAnswersType
    <2> QED BY <1>1, <2>1
  <1>3. PlanHooks(d, root, agents) = Finish(d, agents, admitted, LandUnwanted(wanted, admitted))
    BY DEF PlanHooks, Planned, LandAll, defs
  <1> HIDE DEF answers
  <1>4. all \in Seq(Answers(d))
    BY <1>2, FlattenType
  <1> HIDE DEF wanted
  <1>5. ASSUME NEW own \in Seq(Answers(d))
        PROVE  /\ Admitted(Standing(own)) \in Seq(Answers(d))
               /\ \A answer : Within(answer, Admitted(Standing(own))) =>
                     Within(answer, own) /\ (answer.wanted => answer \in wanted.applied)
    <2> DEFINE s == Standing(own)
    <2>1. s \in Seq(Answers(d)) /\ \A answer : Within(answer, s) <=> answer \in S(own) /\ Within(answer, own)
      <3> DEFINE Q == S(own)
      <3> HIDE DEF Q
      <3>1. Keep(own, Q) \in Seq(Answers(d))
        BY KeepType
      <3>2. \A answer : Within(answer, Keep(own, Q)) <=> answer \in Q /\ Within(answer, own)
        BY KeepHolds
      <3> QED BY <3>1, <3>2 DEF Q
    <2> DEFINE P == T(s)
    <2>2. Admitted(s) = Keep(s, P)
      BY DEF Admitted
    <2> HIDE DEF s, P
    <2>3. Keep(s, P) \in Seq(Answers(d))
      BY <2>1, KeepType
    <2>4. \A answer : Within(answer, Keep(s, P)) => Within(answer, s)
      BY <2>1, KeepHolds
    <2> QED BY <2>1, <2>2, <2>3, <2>4 DEF s
  <1> HIDE DEF Standing
  <1>6. stand \in Seq(Seq(Answers(d))) /\ Len(stand) = Len(answers)
        /\ \A i \in 1..Len(stand) : stand[i] = Admitted(Standing(answers[i]))
    BY <1>2, <1>5
  <1> HIDE DEF stand
  <1>7. admitted \in Seq(Answers(d))
    BY <1>6, FlattenType
  <1>8. ASSUME NEW answer, Within(answer, admitted)
        PROVE  Within(answer, all) /\ (answer.wanted => answer \in wanted.applied)
    <2>1. PICK i \in 1..Len(stand) : Within(answer, stand[i])
      BY <1>6, <1>8, FlattenHolds
    <2>2. i \in 1..Len(answers) /\ answers[i] \in Seq(Answers(d))
      BY <1>2, <1>6
    <2>3. Within(answer, answers[i]) /\ (answer.wanted => answer \in wanted.applied)
      BY <1>5, <1>6, <2>1, <2>2
    <2>4. Within(answer, all)
      BY <1>2, <2>2, <2>3, FlattenHolds
    <2> QED BY <2>3, <2>4
  <1>9. wanted = LandWanted(Untouched(d), all)
    BY DEF wanted
  <1> HIDE DEF admitted, all
  <1> QED BY <1>3, <1>4, <1>7, <1>8, <1>9

----------------------------------------------------------------------------
(* The folds of a plan: what each of their steps keeps, they keep.         *)

LEMMA LandWantedStays ==
  ASSUME NEW d, NEW V, NEW base \in V, NEW answers \in Seq(Answers(d)),
         \A at \in V : \A answer \in Answers(d) : answer.wanted => Land(at, answer) \in V
  PROVE  LandWanted(base, answers) \in V
  <1> DEFINE Q == {answer \in Range(answers) : answer.wanted}
             some == Keep(answers, Q)
             op(answer, at) == Land(at, answer)
  <1>0. some \in Seq({answer \in Answers(d) : answer.wanted}) /\ LandWanted(base, answers) = FoldLeft(Land, base, some)
    <2>1. LandWanted(base, answers) = FoldLeft(Land, base, some)
      BY DEF LandWanted
    <2>2. \A x \in Answers(d) : x \in Q => x \in {answer \in Answers(d) : answer.wanted}
      OBVIOUS
    <2> HIDE DEF Q
    <2>3. some \in Seq({answer \in Answers(d) : answer.wanted})
      BY <2>2, KeepIn
    <2> QED BY <2>1, <2>3
  <1> HIDE DEF some
  <1> DEFINE N == Len(some)
             F(h) == h = [S \in SUBSET (1..N) |->
                            IF S = {} THEN base ELSE op(some[Max(S)], h[S \ {Max(S)}])]
             h0 == CHOOSE h : F(h)
             step == [i \in 1..N |-> [at \in V |-> op(some[i], at)]]
  <1>1. N \in Nat /\ DOMAIN some = 1..N /\ \A i \in 1..N : \A at \in V : op(some[i], at) \in V
    BY <1>0
  <1>2. FoldLeft(Land, base, some) = h0[1..N]
    BY <1>1 DEF op, FoldLeft, MapThenFoldSet
  <1> HIDE DEF op, N
  <1>3. step \in [1..N -> [V -> V]]
    BY <1>1
  <1>4. PICK g : Folding(g, V, base, step, N)
    <2> HIDE DEF step
    <2> QED BY <1>1, <1>3, Folded
  <1>5. F(g)
    <2>1. ASSUME NEW S \in SUBSET (1..N)
          PROVE  g[S] = IF S = {} THEN base ELSE op(some[Max(S)], g[S \ {Max(S)}])
      <3>1. CASE S = {}
        BY <1>4, <3>1 DEF Folding
      <3>2. CASE S # {}
        <4>1. Max(S) \in 1..N
          BY <1>1, <3>2, MaxIn
        <4>2. g[S \ {Max(S)}] \in V
          BY <1>4 DEF Folding
        <4>3. g[S] = step[Max(S)][g[S \ {Max(S)}]]
          BY <1>4, <3>2 DEF Folding
        <4> QED BY <3>2, <4>1, <4>2, <4>3
      <3> QED BY <3>1, <3>2
    <2>2. g \in [SUBSET (1..N) -> V]
      BY <1>4 DEF Folding
    <2> HIDE DEF step
    <2> QED BY <2>1, <2>2
  <1>6. F(h0)
    BY <1>5
  <1> HIDE DEF h0
  <1>7. \A S \in SUBSET (1..N) : h0[S] = IF S = {} THEN base ELSE op(some[Max(S)], h0[S \ {Max(S)}])
    BY <1>6
  <1> HIDE DEF F
  <1>8. ASSUME NEW k \in 1..N, h0[1..(k - 1)] \in V PROVE h0[1..k] \in V
    <2>1. /\ 1..k \in SUBSET (1..N) /\ 1..k # {} /\ Max(1..k) = k
          /\ (1..k) \ {k} = 1..(k - 1)
      BY <1>1, Prefix
    <2>2. h0[1..k] = op(some[Max(1..k)], h0[(1..k) \ {Max(1..k)}])
      BY <1>7, <2>1
    <2>3. h0[1..k] = op(some[k], h0[1..(k - 1)])
      BY <2>1, <2>2, Zenon
    <2> QED BY <1>1, <1>8, <2>3
  <1>9. h0[{}] = base
    BY <1>7
  <1>10. h0[1..N] \in V
    BY <1>1, <1>8, <1>9, Stays
  <1> QED BY <1>0, <1>2, <1>10

LEMMA LandUnwantedStays ==
  ASSUME NEW d, NEW V, NEW base \in V, NEW answers \in Seq(Answers(d)),
         \A at \in V : \A answer \in Answers(d) :
            ~answer.wanted /\ ~(answer.rewrite /\ Entry(answer.art) \in base.owned) =>
               Land(at, answer) \in V
  PROVE  LandUnwanted(base, answers) \in V
  <1> DEFINE op(answer, at) ==
                IF answer.wanted \/ (answer.rewrite /\ Entry(answer.art) \in base.owned) THEN at
                ELSE Land(at, answer)
  <1> DEFINE N == Len(answers)
             F(h) == h = [S \in SUBSET (1..N) |->
                            IF S = {} THEN base ELSE op(answers[Max(S)], h[S \ {Max(S)}])]
             h0 == CHOOSE h : F(h)
             step == [i \in 1..N |-> [at \in V |-> op(answers[i], at)]]
  <1>1. N \in Nat /\ DOMAIN answers = 1..N /\ \A i \in 1..N : \A at \in V : op(answers[i], at) \in V
    OBVIOUS
  <1>2. LandUnwanted(base, answers) = h0[1..N]
    BY <1>1 DEF LandUnwanted, FoldLeft, MapThenFoldSet
  <1> HIDE DEF op, N
  <1>3. step \in [1..N -> [V -> V]]
    BY <1>1
  <1>4. PICK g : Folding(g, V, base, step, N)
    <2> HIDE DEF step
    <2> QED BY <1>1, <1>3, Folded
  <1>5. F(g)
    <2>1. ASSUME NEW S \in SUBSET (1..N)
          PROVE  g[S] = IF S = {} THEN base ELSE op(answers[Max(S)], g[S \ {Max(S)}])
      <3>1. CASE S = {}
        BY <1>4, <3>1 DEF Folding
      <3>2. CASE S # {}
        <4>1. Max(S) \in 1..N
          BY <1>1, <3>2, MaxIn
        <4>2. g[S \ {Max(S)}] \in V
          BY <1>4 DEF Folding
        <4>3. g[S] = step[Max(S)][g[S \ {Max(S)}]]
          BY <1>4, <3>2 DEF Folding
        <4> QED BY <3>2, <4>1, <4>2, <4>3
      <3> QED BY <3>1, <3>2
    <2>2. g \in [SUBSET (1..N) -> V]
      BY <1>4 DEF Folding
    <2> HIDE DEF step
    <2> QED BY <2>1, <2>2
  <1>6. F(h0)
    BY <1>5
  <1> HIDE DEF h0
  <1>7. \A S \in SUBSET (1..N) : h0[S] = IF S = {} THEN base ELSE op(answers[Max(S)], h0[S \ {Max(S)}])
    BY <1>6
  <1> HIDE DEF F
  <1>8. ASSUME NEW k \in 1..N, h0[1..(k - 1)] \in V PROVE h0[1..k] \in V
    <2>1. /\ 1..k \in SUBSET (1..N) /\ 1..k # {} /\ Max(1..k) = k
          /\ (1..k) \ {k} = 1..(k - 1)
      BY <1>1, Prefix
    <2>2. h0[1..k] = op(answers[Max(1..k)], h0[(1..k) \ {Max(1..k)}])
      BY <1>7, <2>1
    <2>3. h0[1..k] = op(answers[k], h0[1..(k - 1)])
      BY <2>1, <2>2, Zenon
    <2> QED BY <1>1, <1>8, <2>3
  <1>9. h0[{}] = base
    BY <1>7
  <1>10. h0[1..N] \in V
    BY <1>1, <1>8, <1>9, Stays
  <1> QED BY <1>2, <1>10

LEMMA PlannedStays ==
  ASSUME NEW d, NEW landed, NEW V, NEW A, NEW answers \in Seq(A),
         [changes |-> <<>>, removals |-> <<>>, files |-> {}, failures |-> {}] \in V,
         \A plan \in V : \A answer \in A :
            Within(answer, answers) => Emit(plan, d, landed, answer) \in V
  PROVE  PlannedChanges(d, landed, answers) \in V
  <1> DEFINE base == [changes |-> <<>>, removals |-> <<>>, files |-> {}, failures |-> {}]
             op(answer, plan) == Emit(plan, d, landed, answer)
  <1>0. base \in V
    OBVIOUS
  <1> DEFINE N == Len(answers)
             F(h) == h = [S \in SUBSET (1..N) |->
                            IF S = {} THEN base ELSE op(answers[Max(S)], h[S \ {Max(S)}])]
             h0 == CHOOSE h : F(h)
             step == [i \in 1..N |-> [at \in V |-> op(answers[i], at)]]
  <1>1. N \in Nat /\ DOMAIN answers = 1..N /\ \A i \in 1..N : \A at \in V : op(answers[i], at) \in V
    <2>1. \A i \in 1..Len(answers) : Within(answers[i], answers)
      BY DEF Within
    <2> QED BY <2>1
  <1>2. PlannedChanges(d, landed, answers) = h0[1..N]
    BY <1>1 DEF PlannedChanges, FoldLeft, MapThenFoldSet
  <1> HIDE DEF op, N
  <1> HIDE DEF base
  <1>3. step \in [1..N -> [V -> V]]
    BY <1>1
  <1>4. PICK g : Folding(g, V, base, step, N)
    <2> HIDE DEF step
    <2> QED BY <1>0, <1>1, <1>3, Folded
  <1>5. F(g)
    <2>1. ASSUME NEW S \in SUBSET (1..N)
          PROVE  g[S] = IF S = {} THEN base ELSE op(answers[Max(S)], g[S \ {Max(S)}])
      <3>1. CASE S = {}
        BY <1>4, <3>1 DEF Folding
      <3>2. CASE S # {}
        <4>1. Max(S) \in 1..N
          BY <1>1, <3>2, MaxIn
        <4>2. g[S \ {Max(S)}] \in V
          BY <1>4 DEF Folding
        <4>3. g[S] = step[Max(S)][g[S \ {Max(S)}]]
          BY <1>4, <3>2 DEF Folding
        <4> QED BY <3>2, <4>1, <4>2, <4>3
      <3> QED BY <3>1, <3>2
    <2>2. g \in [SUBSET (1..N) -> V]
      BY <1>4 DEF Folding
    <2> HIDE DEF step
    <2> QED BY <2>1, <2>2
  <1>6. F(h0)
    BY <1>5
  <1> HIDE DEF h0
  <1>7. \A S \in SUBSET (1..N) : h0[S] = IF S = {} THEN base ELSE op(answers[Max(S)], h0[S \ {Max(S)}])
    BY <1>6
  <1> HIDE DEF F
  <1>8. ASSUME NEW k \in 1..N, h0[1..(k - 1)] \in V PROVE h0[1..k] \in V
    <2>1. /\ 1..k \in SUBSET (1..N) /\ 1..k # {} /\ Max(1..k) = k
          /\ (1..k) \ {k} = 1..(k - 1)
      BY <1>1, Prefix
    <2>2. h0[1..k] = op(answers[Max(1..k)], h0[(1..k) \ {Max(1..k)}])
      BY <1>7, <2>1
    <2>3. h0[1..k] = op(answers[k], h0[1..(k - 1)])
      BY <2>1, <2>2, Zenon
    <2> QED BY <1>1, <1>8, <2>3
  <1>9. h0[{}] = base
    BY <1>7
  <1>10. h0[1..N] \in V
    BY <1>0, <1>1, <1>8, <1>9, Stays
  <1> QED BY <1>2, <1>10

----------------------------------------------------------------------------
(* Landing                                                                 *)

Accs(d) ==
    {at \in [text : [Files -> AnyContents], waited : SUBSET Files,
             owned : SUBSET {Entry(a) : a \in ArtifactsOf(artifacts)},
             applied : SUBSET Answers(d), failures : SUBSET Files] :
        \A f \in Files : Keeps(f, at.text[f], d[f])}

Ready(d) == Declares /\ Holds(d) /\ access \in [Files -> {"ok", "broken", "locked"}]

LEMMA AnswerIs ==
  ASSUME Declares, NEW d, NEW answer \in Answers(d)
  PROVE  /\ answer.art \in ArtifactsOf(artifacts) /\ answer.wanted \in BOOLEAN
         /\ answer.rewrite \in BOOLEAN /\ answer.own \in {None, "write", "delete"}
         /\ answer.rewrite => answer.art.file \in Files /\ answer.art.kind # "file"
         /\ answer.own # None => answer.art.own \in OwnFiles
         /\ Sound(d, answer)
  <1>1. /\ answer.art \in ArtifactsOf(artifacts) /\ answer.wanted \in BOOLEAN
        /\ answer.rewrite \in BOOLEAN /\ answer.own \in {None, "write", "delete"}
        /\ Sound(d, answer)
    BY DEF Answers
  <1>2. /\ answer.rewrite => answer.art.kind # "file"
        /\ answer.own # None => answer.art.kind \in {"bridge", "file"}
    BY <1>1 DEF Sound
  <1> QED BY <1>1, <1>2, Artifact

LEMMA LandedSays ==
  ASSUME NEW d, NEW at \in Accs(d), NEW answer \in Answers(d), Declares
  PROVE  /\ Landed(at, answer) \in Accs(d)
         /\ Landed(at, answer).text = at.text /\ Landed(at, answer).waited = at.waited
         /\ Landed(at, answer).applied = at.applied \union {answer}
  <1>1. answer.art \in ArtifactsOf(artifacts)
    BY AnswerIs
  <1>2. Entry(answer.art) \in {Entry(a) : a \in ArtifactsOf(artifacts)}
    BY <1>1
  <1> DEFINE E == {Entry(a) : a \in ArtifactsOf(artifacts)}
             e == Entry(answer.art)
             owned == IF answer.wanted /\ answer.rewrite THEN at.owned \union {e} ELSE at.owned
  <1>3. e \in E
    BY <1>2
  <1>4. Landed(at, answer) = [at EXCEPT !.applied = at.applied \union {answer}, !.owned = owned]
    BY DEF Landed
  <1>5. at \in [text : [Files -> AnyContents], waited : SUBSET Files, owned : SUBSET E,
                applied : SUBSET Answers(d), failures : SUBSET Files]
        /\ \A f \in Files : Keeps(f, at.text[f], d[f])
    BY DEF Accs
  <1> HIDE DEF E, e
  <1>6. owned \in SUBSET E /\ at.applied \union {answer} \in SUBSET Answers(d)
    BY <1>3, <1>5
  <1> HIDE DEF owned
  <1> DEFINE new == Landed(at, answer)
  <1>7. new \in [text : [Files -> AnyContents], waited : SUBSET Files, owned : SUBSET E,
                 applied : SUBSET Answers(d), failures : SUBSET Files]
        /\ new.text = at.text /\ new.waited = at.waited /\ new.applied = at.applied \union {answer}
    BY <1>4, <1>5, <1>6
  <1> HIDE DEF new
  <1>8. new \in Accs(d)
    BY <1>5, <1>7 DEF Accs, E
  <1> QED BY <1>7, <1>8 DEF new

\* What one answer may do to what has landed.
Unmoved(at, to) == to.text = at.text /\ to.waited = at.waited
Moved(at, to, answer) ==
    LET f == answer.art.file
        new == Rewritten(answer.art, at.text[f], answer.wanted)
    IN  /\ answer.rewrite /\ f \in Files /\ answer \in to.applied
        /\ new # at.text[f] /\ to.text = [at.text EXCEPT ![f] = new]
        /\ to.waited = IF answer.wanted THEN at.waited \union {f} ELSE at.waited

LEMMA LandSays ==
  ASSUME NEW d, Ready(d), NEW at \in Accs(d), NEW answer \in Answers(d)
  PROVE  /\ Land(at, answer) \in Accs(d)
         /\ at.applied \subseteq Land(at, answer).applied
         /\ Land(at, answer).applied \subseteq at.applied \union {answer}
         /\ Unmoved(at, Land(at, answer)) \/ Moved(at, Land(at, answer), answer)
         /\ answer.rewrite /\ answer \in Land(at, answer).applied /\ answer \notin at.applied =>
               Land(at, answer).text[answer.art.file] =
                  Rewritten(answer.art, at.text[answer.art.file], answer.wanted)
  <1> DEFINE f == answer.art.file
             new == Rewritten(answer.art, at.text[f], answer.wanted)
             failed == [at EXCEPT !.failures = @ \union {f}]
             waited == IF answer.wanted THEN at.waited \union {f} ELSE at.waited
             put == [at EXCEPT !.text[f] = new, !.waited = waited]
             to == Land(at, answer)
  <1>0. Declares
    BY DEF Ready
  <1>1. CASE ~answer.rewrite
    <2>1. to = Landed(at, answer)
      BY <1>1 DEF Land
    <2> HIDE DEF to
    <2> QED BY <1>0, <1>1, <2>1, LandedSays DEF Unmoved, to
  <1>2. CASE answer.rewrite
    <2>1. /\ answer.art \in ArtifactsOf(artifacts) /\ answer.wanted \in BOOLEAN
          /\ f \in Files /\ answer.art.kind # "file"
      BY <1>0, <1>2, AnswerIs
    <2>2. Keeps(f, at.text[f], d[f]) /\ at.text[f] \in Contents(f)
      BY <2>1 DEF Accs, Keeps
    <2>3. Keeps(f, new, at.text[f])
      BY <1>0, <2>1, <2>2, RewrittenKeeps
    <2>4. Keeps(f, new, d[f]) /\ new \in AnyContents
      BY <2>2, <2>3, KeepsSteps DEF Keeps, Contents, AnyContents
    <2>5. failed \in Accs(d) /\ failed.text = at.text /\ failed.waited = at.waited
          /\ failed.applied = at.applied
      BY <2>1 DEF Accs
    <2> HIDE DEF new
    <2>6. put \in Accs(d) /\ put.text = [at.text EXCEPT ![f] = new] /\ put.waited = waited
          /\ put.applied = at.applied
      <3>1. waited \in SUBSET Files /\ [at.text EXCEPT ![f] = new] \in [Files -> AnyContents]
        BY <2>1, <2>4 DEF Accs
      <3>2. \A g \in Files : Keeps(g, [at.text EXCEPT ![f] = new][g], d[g])
        BY <2>1, <2>4 DEF Accs
      <3> DEFINE text == [at.text EXCEPT ![f] = new]
      <3>3. put = [at EXCEPT !.text = text, !.waited = waited]
        BY DEF Accs
      <3> HIDE DEF text, waited
      <3>4. put \in Accs(d) /\ put.text = text /\ put.waited = waited /\ put.applied = at.applied
        BY <3>1, <3>2, <3>3 DEF Accs, text
      <3> QED BY <3>4 DEF text
    <2>7. access[f] \in {"ok", "broken", "locked"}
      BY <2>1 DEF Ready
    <2>8. to = LandRewrite(at, answer)
      BY <1>2 DEF Land
    <2>9. CASE ~Parses(f)
      <3>1. to = failed \/ to = at
        BY <2>8, <2>9 DEF LandRewrite
      <3> HIDE DEF to, failed
      <3> QED BY <2>5, <3>1 DEF Unmoved, to
    <2>10. CASE Parses(f) /\ new = at.text[f]
      <3>1. to = Landed(at, answer)
        BY <2>8, <2>10 DEF LandRewrite, new
      <3>2. /\ to \in Accs(d) /\ to.text = at.text /\ to.waited = at.waited
            /\ to.applied = at.applied \union {answer}
        BY <1>0, <3>1, LandedSays
      <3> HIDE DEF to
      <3> QED BY <2>10, <3>2 DEF Unmoved, to, new
    <2>11. CASE Parses(f) /\ access[f] = "locked" /\ new # at.text[f]
      <3>1. to = failed
        BY <2>8, <2>11 DEF LandRewrite, new
      <3> HIDE DEF to, failed
      <3> QED BY <2>5, <3>1 DEF Unmoved, to
    <2>12. CASE Parses(f) /\ access[f] = "ok" /\ new # at.text[f]
      <3>1. to = Landed(put, answer)
        BY <2>8, <2>12 DEF LandRewrite, new
      <3> HIDE DEF put
      <3>2. /\ to \in Accs(d) /\ to.text = put.text /\ to.waited = put.waited
            /\ to.applied = put.applied \union {answer}
        BY <1>0, <2>6, <3>1, LandedSays
      <3> HIDE DEF to
      <3>3. to.text[f] = new
        BY <2>1, <2>6, <3>2 DEF Accs
      <3>4. Moved(at, to, answer)
        BY <1>2, <2>1, <2>6, <2>12, <3>2 DEF Moved, new
      <3> QED BY <2>6, <3>2, <3>3, <3>4 DEF to, new
    <2> QED BY <2>7, <2>9, <2>10, <2>11, <2>12 DEF Parses
  <1> QED BY <1>1, <1>2, <1>0, AnswerIs

LEMMA LandedAll ==
  ASSUME NEW d, Ready(d), NEW all \in Seq(Answers(d)), NEW admitted \in Seq(Answers(d))
  PROVE  /\ Untouched(d) \in Accs(d) /\ LandWanted(Untouched(d), all) \in Accs(d)
         /\ LandUnwanted(LandWanted(Untouched(d), all), admitted) \in Accs(d)
         /\ LandWanted(Untouched(d), all).applied \subseteq
               LandUnwanted(LandWanted(Untouched(d), all), admitted).applied
  <1> DEFINE wanted == LandWanted(Untouched(d), all)
             landed == LandUnwanted(wanted, admitted)
  <1>1. Untouched(d) \in Accs(d)
    <2>1. \A f \in Files : d[f] \in Contents(f) /\ Keeps(f, d[f], d[f])
      BY KeepsSteps DEF Ready, Holds
    <2>2. \A f \in Files : d[f] \in AnyContents
      BY <2>1 DEF Contents, AnyContents
    <2> DEFINE text == [f \in Files |-> d[f]]
    <2>3. text \in [Files -> AnyContents] /\ \A f \in Files : Keeps(f, text[f], d[f])
      BY <2>1, <2>2
    <2>4. Untouched(d) = [text |-> text, waited |-> {}, owned |-> {}, applied |-> {}, failures |-> {}]
      BY DEF Untouched
    <2> HIDE DEF text
    <2> QED BY <2>3, <2>4 DEF Accs
  <1>2. wanted \in Accs(d)
    <2>1. \A at \in Accs(d) : \A answer \in Answers(d) : answer.wanted => Land(at, answer) \in Accs(d)
      BY LandSays
    <2> QED BY <1>1, <2>1, LandWantedStays
  <1> HIDE DEF wanted
  <1> DEFINE V == {at \in Accs(d) : wanted.applied \subseteq at.applied}
  <1>3. landed \in V
    <2>1. ASSUME NEW at \in V, NEW answer \in Answers(d) PROVE Land(at, answer) \in V
      <3>1. at \in Accs(d) /\ wanted.applied \subseteq at.applied
        OBVIOUS
      <3>2. Land(at, answer) \in Accs(d) /\ at.applied \subseteq Land(at, answer).applied
        BY <3>1, LandSays
      <3> QED BY <3>1, <3>2
    <2>2. wanted \in V
      BY <1>2
    <2> HIDE DEF V
    <2> QED BY <2>1, <2>2, LandUnwantedStays
  <1> QED BY <1>1, <1>2, <1>3 DEF wanted

----------------------------------------------------------------------------
(* Changes                                                                 *)

OwnValue(answer) == IF answer.own = "write" THEN Written ELSE Missing
Plans(C, R) == [changes : Seq(C), removals : Seq(R), files : SUBSET Files, failures : {{}}]

\* The changes one answer may give are in C where something wants them, else in R.
Gives(d, landed, answer, C, R) ==
    /\ answer \in landed.applied /\ answer.own # None =>
          Change(answer.art.own, OwnValue(answer)) \in (IF answer.wanted THEN C ELSE R)
    /\ answer.rewrite /\ landed.text[answer.art.file] # d[answer.art.file] =>
          Change(answer.art.file, landed.text[answer.art.file]) \in
             (IF answer.art.file \in landed.waited THEN C ELSE R)

LEMMA EmitType ==
  ASSUME NEW d, NEW landed, NEW C, NEW R, NEW plan \in Plans(C, R), NEW answer \in Answers(d),
         Declares, Gives(d, landed, answer, C, R)
  PROVE  Emit(plan, d, landed, answer) \in Plans(C, R)
  <1> DEFINE f == answer.art.file
             own == IF answer \in landed.applied THEN OwnChange(answer) ELSE <<>>
             edit == IF answer.rewrite /\ f \notin plan.files /\ landed.text[f] # d[f]
                     THEN <<Change(f, landed.text[f])>> ELSE <<>>
             wantedOwn == IF answer.wanted THEN own ELSE <<>>
             wantedEdit == IF f \in landed.waited THEN edit ELSE <<>>
             otherOwn == IF answer.wanted THEN <<>> ELSE own
             otherEdit == IF f \in landed.waited THEN <<>> ELSE edit
             files == IF answer.rewrite THEN plan.files \union {f} ELSE plan.files
  <1>1. own = <<>> \/ (/\ own = <<Change(answer.art.own, OwnValue(answer))>>
                       /\ answer \in landed.applied /\ answer.own # None)
    BY DEF OwnChange, OwnValue
  <1>2. edit = <<>> \/ (/\ edit = <<Change(f, landed.text[f])>>
                        /\ answer.rewrite /\ landed.text[f] # d[f])
    OBVIOUS
  <1>3. Emit(plan, d, landed, answer) =
           [changes |-> (plan.changes \o wantedOwn) \o wantedEdit,
            removals |-> (plan.removals \o otherOwn) \o otherEdit,
            files |-> files, failures |-> {}]
    BY DEF Emit
  <1>4. files \in SUBSET Files
    BY AnswerIs DEF Plans
  <1> DEFINE o == Change(answer.art.own, OwnValue(answer))
             e == Change(f, landed.text[f])
  <1>5. /\ own # <<>> => o \in (IF answer.wanted THEN C ELSE R)
        /\ edit # <<>> => e \in (IF f \in landed.waited THEN C ELSE R)
        /\ own \in {<<>>, <<o>>} /\ edit \in {<<>>, <<e>>}
    BY <1>1, <1>2 DEF Gives
  <1> HIDE DEF own, edit, files, o, e
  <1>6. wantedOwn \in Seq(C) /\ otherOwn \in Seq(R)
    <2>1. CASE own = <<>>
      BY <2>1, EmptyIn
    <2>2. CASE own # <<>> /\ answer.wanted
      BY <1>5, <2>2, EmptyIn, OneIn
    <2>3. CASE own # <<>> /\ ~answer.wanted
      BY <1>5, <2>3, EmptyIn, OneIn
    <2> QED BY <2>1, <2>2, <2>3
  <1>7. wantedEdit \in Seq(C) /\ otherEdit \in Seq(R)
    <2>1. CASE edit = <<>>
      BY <2>1, EmptyIn
    <2>2. CASE edit # <<>> /\ f \in landed.waited
      BY <1>5, <2>2, EmptyIn, OneIn
    <2>3. CASE edit # <<>> /\ f \notin landed.waited
      BY <1>5, <2>3, EmptyIn, OneIn
    <2> QED BY <2>1, <2>2, <2>3
  <1> HIDE DEF wantedOwn, wantedEdit, otherOwn, otherEdit
  <1>8. plan.changes \in Seq(C) /\ plan.removals \in Seq(R)
    BY DEF Plans
  <1>9. (plan.changes \o wantedOwn) \o wantedEdit \in Seq(C)
    BY <1>6, <1>7, <1>8, ConcatProperties
  <1>10. (plan.removals \o otherOwn) \o otherEdit \in Seq(R)
    BY <1>6, <1>7, <1>8, ConcatProperties
  <1> QED BY <1>3, <1>4, <1>9, <1>10 DEF Plans

LEMMA PlannedType ==
  ASSUME NEW d, NEW landed, NEW C, NEW R, NEW answers \in Seq(Answers(d)), Declares,
         \A answer \in Answers(d) : Within(answer, answers) => Gives(d, landed, answer, C, R)
  PROVE  PlannedChanges(d, landed, answers) \in Plans(C, R)
  <1>1. [changes |-> <<>>, removals |-> <<>>, files |-> {}, failures |-> {}] \in Plans(C, R)
    BY EmptyIn DEF Plans
  <1>2. \A plan \in Plans(C, R) : \A answer \in Answers(d) :
           Within(answer, answers) => Emit(plan, d, landed, answer) \in Plans(C, R)
    BY EmitType
  <1> QED BY <1>1, <1>2, PlannedStays

LEMMA FinishIs ==
  ASSUME NEW d, NEW agents, NEW admitted, NEW landed, NEW C, NEW R,
         PlannedChanges(d, landed, admitted) \in Plans(C, R)
  PROVE  /\ Finish(d, agents, admitted, landed).changes = PlannedChanges(d, landed, admitted).changes
         /\ Finish(d, agents, admitted, landed).removals = PlannedChanges(d, landed, admitted).removals
  <1> DEFINE p == PlannedChanges(d, landed, admitted)
  <1>1. Finish(d, agents, admitted, landed) =
           [p EXCEPT !.failures = landed.failures \union BridgeFailures(agents)]
    BY DEF Finish
  <1> HIDE DEF p
  <1> QED BY <1>1 DEF Plans, p

----------------------------------------------------------------------------
(* The invariants                                                          *)

KeptChanges(d) ==
    {c \in ChangeForms : c.target \in Files => Keeps(c.target, c.value, d[c.target])}

LEMMA PlanKeeps ==
  ASSUME NEW d, Ready(d), NEW root, NEW agents, NEW hook \in BOOLEAN
  PROVE  /\ PlanHooks(d, root, agents).changes \in Seq(KeptChanges(d))
         /\ Changes(PlanHooks(d, root, agents), hook) \in Seq(KeptChanges(d))
  <1> DEFINE C == KeptChanges(d)
             plan == PlanHooks(d, root, agents)
  <1>0. Declares
    BY DEF Ready
  <1>1. PICK all \in Seq(Answers(d)), admitted \in Seq(Answers(d)) : \E wanted, landed :
              /\ wanted = LandWanted(Untouched(d), all)
              /\ landed = LandUnwanted(wanted, admitted)
              /\ plan = Finish(d, agents, admitted, landed)
    BY <1>0, PlanIs, SMTT(30)
  <1>2. PICK landed : /\ landed = LandUnwanted(LandWanted(Untouched(d), all), admitted)
                      /\ plan = Finish(d, agents, admitted, landed)
    BY <1>1
  <1>3. landed \in Accs(d)
    BY <1>2, LandedAll
  <1>4. ASSUME NEW answer \in Answers(d) PROVE Gives(d, landed, answer, C, C)
    <2>1. ASSUME answer.own # None PROVE Change(answer.art.own, OwnValue(answer)) \in C
      <3>1. answer.art.own \in OwnFiles /\ answer.art.own \notin Files
        BY <1>0, <2>1, AnswerIs, NamesDeclared
      <3>2. OwnValue(answer) \in {Written, Missing}
        BY DEF OwnValue
      <3> QED BY <3>1, <3>2 DEF Change, KeptChanges, ChangeForms
    <2>2. ASSUME answer.rewrite PROVE Change(answer.art.file, landed.text[answer.art.file]) \in C
      <3> DEFINE f == answer.art.file
                 v == landed.text[f]
      <3>1. f \in Files
        BY <1>0, <2>2, AnswerIs
      <3>2. Keeps(f, v, d[f]) /\ v \in AnyContents
        BY <1>3, <3>1 DEF Accs
      <3>3. v \in Contents(f)
        BY <3>2 DEF Keeps
      <3> HIDE DEF v, f
      <3>4. Change(f, v) \in KeptChanges(d)
        BY <3>1, <3>2, <3>3 DEF Change, KeptChanges, ChangeForms
      <3> QED BY <3>4 DEF f, v
    <2> HIDE DEF C
    <2> QED BY <2>1, <2>2 DEF Gives
  <1> HIDE DEF C
  <1>5. PlannedChanges(d, landed, admitted) \in Plans(C, C)
    BY <1>0, <1>4, PlannedType
  <1> DEFINE p == PlannedChanges(d, landed, admitted)
  <1>6. plan.changes = p.changes /\ plan.removals = p.removals
    BY <1>2, <1>5, FinishIs
  <1> HIDE DEF plan, p
  <1>7. plan.changes \in Seq(C) /\ plan.removals \in Seq(C)
    BY <1>5, <1>6 DEF Plans, p
  <1>8. Changes(plan, hook) \in Seq(C)
    <2>1. <<>> \in Seq(C)
      BY EmptyIn
    <2> QED BY <1>7, <2>1, ConcatProperties DEF Changes
  <1> QED BY <1>7, <1>8 DEF plan, C

LEMMA SameForms ==
  ASSUME artifacts' = artifacts
  PROVE  /\ \A f : Contents(f)' = Contents(f) /\ ChangeForms' = ChangeForms
         /\ \A f, x, y : Keeps(f, x, y)' = Keeps(f, x, y)
  <1>1. PatchFiles' = PatchFiles
    BY DEF PatchFiles
  <1>2. \A f : Contents(f)' = Contents(f)
    BY <1>1 DEF Contents
  <1>3. ChangeForms' = ChangeForms
    BY <1>2 DEF ChangeForms
  <1>4. \A f, x, y : Keeps(f, x, y)' = Keeps(f, x, y)
    BY <1>1, <1>2 DEF Keeps, SameUser
  <1> QED BY <1>2, <1>3, <1>4

LEMMA HookTypedInit == Init => HookTyped
  <1> SUFFICES ASSUME Init PROVE HookTyped
    OBVIOUS
  <1>1. PICK world \in Worlds : artifacts = world.artifacts /\ disk = world.disk
    BY DEF Init
  <1>2. Declares
    BY <1>1 DEF Declares
  <1>3. Holds(disk)
    BY <1>1, DisksDeclared DEF Holds, Contents, PatchFiles
  <1>4. access \in [Files -> {"ok", "broken", "locked"}] /\ todo \in Seq(ChangeForms)
    BY EmptyIn DEF Init
  <1> QED BY <1>2, <1>3, <1>4 DEF HookTyped

\* Carrying out a change.
LEMMA ApplyIs ==
  ASSUME HookTyped, Apply
  PROVE  /\ Head(todo) \in ChangeForms /\ Head(todo) = todo[1] /\ Len(todo) \in Nat \ {0}
         /\ Holds(disk)'
         /\ disk'[Head(todo).target] = Head(todo).value
         /\ \A f \in Files \union OwnFiles : f # Head(todo).target => disk'[f] = disk[f]
         /\ todo' \in Seq(ChangeForms) /\ Len(todo') = Len(todo) - 1
         /\ \A i \in 1..Len(todo') : todo'[i] = todo[i + 1] /\ i + 1 \in 1..Len(todo)
         /\ artifacts' = artifacts /\ access' = access
  <1>1. /\ Head(todo) \in ChangeForms /\ Head(todo) = todo[1] /\ Len(todo) \in Nat \ {0}
        /\ todo' \in Seq(ChangeForms) /\ Len(todo') = Len(todo) - 1
        /\ \A i \in 1..Len(todo') : todo'[i] = todo[i + 1] /\ i + 1 \in 1..Len(todo)
    <2>1. todo \in Seq(ChangeForms) /\ todo # <<>> /\ todo' = Tail(todo)
      BY DEF HookTyped, Apply
    <2> QED BY <2>1, HeadTailProperties
  <1> DEFINE c == Head(todo)
  <1>2. disk' = [disk EXCEPT ![c.target] = c.value] /\ artifacts' = artifacts /\ access' = access
    BY DEF Apply
  <1>3. /\ c.target \in Files \union OwnFiles
        /\ c.target \in Files => c.value \in Contents(c.target)
    BY <1>1, NamesDeclared DEF ChangeForms
  <1> HIDE DEF c
  <1>4. DOMAIN disk = Files \union OwnFiles /\ \A f \in Files : disk[f] \in Contents(f)
    BY DEF HookTyped, Holds
  <1>5. /\ DOMAIN disk' = Files \union OwnFiles /\ disk'[c.target] = c.value
        /\ \A f \in Files \union OwnFiles : f # c.target => disk'[f] = disk[f]
    BY <1>2, <1>3, <1>4
  <1>6. \A f \in Files : disk'[f] \in Contents(f)
    BY <1>3, <1>4, <1>5
  <1>7. \A f : Contents(f)' = Contents(f)
    BY <1>2 DEF Contents, PatchFiles
  <1>8. Holds(disk)'
    BY <1>5, <1>6, <1>7 DEF Holds
  <1> QED BY <1>1, <1>2, <1>5, <1>8 DEF c

LEMMA HookTypedStep == HookTyped /\ [Next]_vars => HookTyped'
  <1> SUFFICES ASSUME HookTyped, [Next]_vars PROVE HookTyped'
    OBVIOUS
  <1>0. Declares /\ Holds(disk) /\ access \in [Files -> {"ok", "broken", "locked"}]
        /\ todo \in Seq(ChangeForms)
    BY DEF HookTyped
  <1>1. ASSUME artifacts' = artifacts, disk' = disk, access' \in [Files -> {"ok", "broken", "locked"}],
               todo' \in Seq(ChangeForms)
        PROVE  HookTyped'
    <2>1. Declares' /\ Holds(disk)' /\ ChangeForms' = ChangeForms
      BY <1>0, <1>1, SameForms DEF Declares, Holds
    <2> QED BY <1>1, <2>1 DEF HookTyped
  <1>2. CASE UNCHANGED vars
    BY <1>0, <1>1, <1>2 DEF vars
  <1>3. CASE \E pair \in Pairs : RemoveLast(pair) \/ \E withHook \in BOOLEAN : Add(pair, withHook)
    BY <1>0, <1>1, <1>3 DEF RemoveLast, Add
  <1>4. CASE \E root \in Roots, agents \in Filters \union {Harnesses} : Sync(root, agents)
    <2>1. PICK root \in Roots, agents \in Filters \union {Harnesses} : Sync(root, agents)
      BY <1>4
    <2>2. PICK hook \in BOOLEAN : todo' = Changes(PlanHooks(disk, root, agents), hook)
      BY <2>1 DEF Sync
    <2>3. Ready(disk)
      BY <1>0 DEF Ready
    <2>4. todo' \in Seq(KeptChanges(disk))
      BY <2>2, <2>3, PlanKeeps
    <2>5. todo' \in Seq(ChangeForms)
      <3>1. KeptChanges(disk) \subseteq ChangeForms
        BY DEF KeptChanges
      <3> QED BY <2>4, <3>1
    <2>6. UNCHANGED <<artifacts, disk, access>>
      BY <2>1 DEF Sync
    <2> QED BY <1>0, <1>1, <2>5, <2>6
  <1>5. CASE Apply
    <2>1. /\ Holds(disk)' /\ todo' \in Seq(ChangeForms) /\ artifacts' = artifacts /\ access' = access
      BY <1>5, ApplyIs
    <2>2. Declares'
      BY <1>0, <2>1 DEF Declares
    <2>3. ChangeForms' = ChangeForms
      BY <2>1, SameForms
    <2> QED BY <1>0, <2>1, <2>2, <2>3 DEF HookTyped
  <1>6. CASE Abandon
    BY <1>0, <1>1, <1>6, EmptyIn DEF Abandon
  <1>7. CASE \E f \in Files, how \in {"ok", "broken", "locked"} : SetAccess(f, how)
    BY <1>0, <1>1, <1>7 DEF SetAccess
  <1> QED BY <1>2, <1>3, <1>4, <1>5, <1>6, <1>7 DEF Next

\* Every file of the user's holds what its kind of file may hold, whatever runs,
\* kills and refused edits there were, and what is left of a plan fits it.
THEOREM HookTypes == HookSpec => []HookTyped
  <1> QED BY HookTypedInit, HookTypedStep, PTL DEF HookSpec

\* What is left of a plan keeps what is the user's as the disk has it.
HookKept ==
    \A i \in 1..Len(todo) : todo[i].target \in Files =>
        Keeps(todo[i].target, todo[i].value, disk[todo[i].target])

LEMMA HookKeptStep == HookTyped /\ HookKept /\ [Next]_vars => HookKept'
  <1> SUFFICES ASSUME HookTyped, HookKept, [Next]_vars PROVE HookKept'
    OBVIOUS
  <1>1. ASSUME artifacts' = artifacts, disk' = disk, todo' \in {todo, <<>>} PROVE HookKept'
    <2>1. \A f, x, y : Keeps(f, x, y)' = Keeps(f, x, y)
      BY <1>1, SameForms
    <2>2. CASE todo' = todo
      BY <1>1, <2>1, <2>2 DEF HookKept
    <2>3. CASE todo' = <<>>
      BY <2>3 DEF HookKept
    <2> QED BY <1>1, <2>2, <2>3
  <1>2. CASE UNCHANGED vars
    BY <1>1, <1>2 DEF vars
  <1>3. CASE \E pair \in Pairs : RemoveLast(pair) \/ \E withHook \in BOOLEAN : Add(pair, withHook)
    BY <1>1, <1>3 DEF RemoveLast, Add
  <1>4. CASE \E root \in Roots, agents \in Filters \union {Harnesses} : Sync(root, agents)
    <2>1. PICK root \in Roots, agents \in Filters \union {Harnesses} : Sync(root, agents)
      BY <1>4
    <2>2. PICK hook \in BOOLEAN : todo' = Changes(PlanHooks(disk, root, agents), hook)
      BY <2>1 DEF Sync
    <2>3. Ready(disk)
      BY DEF HookTyped, Ready
    <2>4. todo' \in Seq(KeptChanges(disk))
      BY <2>2, <2>3, PlanKeeps
    <2>5. \A i \in 1..Len(todo') : todo'[i].target \in Files =>
             Keeps(todo'[i].target, todo'[i].value, disk[todo'[i].target])
      <3>1. \A c \in KeptChanges(disk) : c.target \in Files => Keeps(c.target, c.value, disk[c.target])
        BY DEF KeptChanges
      <3> QED BY <2>4, <3>1
    <2>6. disk' = disk /\ \A f, x, y : Keeps(f, x, y)' = Keeps(f, x, y)
      BY <2>1, SameForms DEF Sync
    <2> QED BY <2>5, <2>6 DEF HookKept
  <1>5. CASE Apply
    <2> DEFINE c == Head(todo)
    <2>1. /\ c = todo[1] /\ Len(todo) \in Nat \ {0} /\ disk'[c.target] = c.value
          /\ \A f \in Files \union OwnFiles : f # c.target => disk'[f] = disk[f]
          /\ \A i \in 1..Len(todo') : todo'[i] = todo[i + 1] /\ i + 1 \in 1..Len(todo)
          /\ artifacts' = artifacts
      BY <1>5, ApplyIs
    <2>2. \A f, x, y : Keeps(f, x, y)' = Keeps(f, x, y)
      BY <2>1, SameForms
    <2> HIDE DEF c
    <2>3. ASSUME NEW i \in 1..Len(todo'), todo'[i].target \in Files
          PROVE  Keeps(todo'[i].target, todo'[i].value, disk'[todo'[i].target])
      <3> DEFINE f == todo'[i].target
      <3>1. f \in Files /\ Keeps(f, todo'[i].value, disk[f])
        BY <2>1, <2>3 DEF HookKept
      <3>2. CASE f = c.target
        <4>1. Keeps(f, c.value, disk[f])
          BY <2>1, <3>1, <3>2 DEF HookKept
        <4>2. disk'[f] = c.value
          BY <2>1, <3>2
        <4> QED BY <3>1, <4>1, <4>2 DEF Keeps, SameUser
      <3>3. CASE f # c.target
        BY <2>1, <3>1, <3>3
      <3> QED BY <3>2, <3>3
    <2> QED BY <2>2, <2>3 DEF HookKept
  <1>6. CASE Abandon
    BY <1>1, <1>6 DEF Abandon
  <1>7. CASE \E f \in Files, how \in {"ok", "broken", "locked"} : SetAccess(f, how)
    BY <1>1, <1>7 DEF SetAccess
  <1> QED BY <1>2, <1>3, <1>4, <1>5, <1>6, <1>7 DEF Next

LEMMA UserKeptStep ==
  HookTyped /\ HookKept /\ [Next]_vars =>
     [todo # <<>> =>
        /\ \A f \in Documents : UserPart(disk'[f]) = UserPart(disk[f])
        /\ \A f \in PatchFiles : UserRows(disk'[f]) = UserRows(disk[f])]_vars
  <1> SUFFICES ASSUME HookTyped, HookKept, Next
               PROVE  /\ \A f \in Documents : UserPart(disk'[f]) = UserPart(disk[f])
                      /\ \A f \in PatchFiles : UserRows(disk'[f]) = UserRows(disk[f])
    OBVIOUS
  <1>1. CASE disk' = disk
    BY <1>1
  <1>2. CASE Apply
    <2> DEFINE c == Head(todo)
    <2>1. /\ c = todo[1] /\ Len(todo) \in Nat \ {0} /\ disk'[c.target] = c.value
          /\ \A f \in Files \union OwnFiles : f # c.target => disk'[f] = disk[f]
      BY <1>2, ApplyIs
    <2> HIDE DEF c
    <2>2. \A f \in Files : disk'[f] = disk[f] \/ Keeps(f, disk'[f], disk[f])
      BY <2>1 DEF HookKept
    <2>3. PatchFiles \subseteq Files
      <3>1. ASSUME NEW f \in PatchFiles PROVE f \in Files
        <4>1. PICK b \in ArtifactsOf(artifacts) : b.kind = "bridge" /\ f = b.file
          BY <3>1 DEF PatchFiles, PatchFilesOf
        <4> QED BY <4>1, Artifact DEF HookTyped
      <3> QED BY <3>1
    <2>4. \A f \in Documents : f \in Files /\ f \notin PatchFiles
      BY DEF Documents
    <2> QED BY <2>2, <2>3, <2>4 DEF Keeps, SameUser
  <1>3. Apply \/ disk' = disk
    BY DEF Next, RemoveLast, Add, Sync, Abandon, SetAccess
  <1> QED BY <1>1, <1>2, <1>3

\* What is left of a plan keeps the user's part of each file as the disk has it:
\* nobody changes it behind a plan, and no change of the same plan does.
THEOREM PlansKeep == HookSpec => [](HookTyped /\ HookKept)
  <1>1. Init => HookKept
    BY DEF Init, HookKept
  <1> QED BY <1>1, HookTypedInit, HookTypedStep, HookKeptStep, PTL DEF HookSpec

\* No write of a run touches what the user wrote: in a registry every comment,
\* handler and key of the user's stays in its place, and in dsh's patch file
\* every row of the user's.
THEOREM UserStays == HookSpec => UserKept
  <1> QED BY PlansKeep, UserKeptStep, PTL DEF HookSpec, UserKept

----------------------------------------------------------------------------
(* What a run finds in its place it leaves alone                           *)

LEMMA ReplaceSame ==
  ASSUME NEW doc \in Docs, NEW e \in Events, NEW at, Located(doc, e, at),
         NEW handler, handler = HandlerAt(doc, e, at)
  PROVE  Replace(doc, e, at, handler) = doc
  <1> DEFINE list == EventList(doc, e)
             g == at[1]
             i == at[2]
             hs == list.groups[g].handlers
             group == [list.groups[g] EXCEPT !.handlers = [hs EXCEPT ![i] = handler]]
             new == [list EXCEPT !.groups = [list.groups EXCEPT ![g] = group]]
  <1>1. /\ doc.hooks \in Tables /\ doc.hooks # Missing
        /\ list \in Lists /\ list = doc.hooks.lists[e] /\ list # Missing
        /\ list.groups \in Seq(Groups) /\ g \in 1..Len(list.groups)
        /\ i \in 1..Len(list.groups[g].handlers)
    BY LocatedList
  <1>2. hs[i] = handler
    BY LocatedList DEF HandlerAt
  <1>3. Replace(doc, e, at, handler) = SetList(doc, e, new)
    BY DEF Replace
  <1> HIDE DEF list, g, i
  <1>4. list.groups[g] \in Groups
    BY <1>1
  <1>5. hs \in Seq(Handlers \union {User, Outdated}) /\ i \in 1..Len(hs)
    BY <1>1, <1>4 DEF Groups
  <1> HIDE DEF hs
  <1>6. [hs EXCEPT ![i] = handler] = hs
    BY <1>2, <1>5
  <1>7. group = list.groups[g]
    <2>1. group = [list.groups[g] EXCEPT !.handlers = hs]
      BY <1>6
    <2> HIDE DEF group
    <2> QED BY <1>4, <2>1 DEF Groups, hs
  <1> HIDE DEF group
  <1>8. [list.groups EXCEPT ![g] = group] = list.groups
    BY <1>1, <1>7
  <1>9. new = list
    <2>1. new = [list EXCEPT !.groups = list.groups]
      BY <1>8
    <2> HIDE DEF new
    <2> QED BY <1>1, <2>1 DEF Lists
  <1> HIDE DEF new
  <1>10. SetList(doc, e, list) = doc
    <2> DEFINE lists == [doc.hooks.lists EXCEPT ![e] = list]
               hooked == [doc.hooks EXCEPT !.lists = lists]
    <2>1. SetList(doc, e, list) = [doc EXCEPT !.hooks = hooked]
      BY <1>1 DEF SetList, Docs
    <2>2. lists = doc.hooks.lists
      BY <1>1 DEF Tables
    <2> HIDE DEF lists
    <2>3. hooked = doc.hooks
      BY <1>1, <2>2 DEF Tables
    <2> HIDE DEF hooked
    <2> QED BY <2>1, <2>3 DEF Docs
  <1> QED BY <1>3, <1>9, <1>10

LEMMA RegistryCurrent ==
  ASSUME NEW doc \in {Missing} \union Docs, NEW e \in Events, NEW handler,
         doc \in Docs => ~doc.bom,
         [i \in DOMAIN LocateOurs(doc, e) |-> HandlerAt(doc, e, LocateOurs(doc, e)[i])] = <<handler>>
  PROVE  RewriteHookRegistry(doc, e, handler, TRUE) = doc
  <1> DEFINE ours == LocateOurs(doc, e)
             single == DropDuplicates(WithoutBom(doc), e)
  <1>1. /\ ours \in Seq(Nat \X Nat) /\ \A at : Within(at, ours) <=> Located(doc, e, at)
    BY LocateOursIs
  <1>2. Len(ours) = 1 /\ HandlerAt(doc, e, ours[1]) = handler /\ DOMAIN ours = 1..1
    <2> DEFINE hs == [i \in DOMAIN ours |-> HandlerAt(doc, e, ours[i])]
    <2>1. hs = <<handler>>
      OBVIOUS
    <2>2. DOMAIN hs = 1..1 /\ hs[1] = handler
      <3> HIDE DEF hs
      <3> QED BY <2>1
    <2>3. DOMAIN ours = 1..1
      BY <2>2
    <2> HIDE DEF ours
    <2>4. Len(ours) \in Nat /\ DOMAIN ours = 1..Len(ours)
      BY <1>1
    <2>5. Len(ours) = 1
      BY <2>3, <2>4
    <2> QED BY <2>2, <2>3, <2>5
  <1>3. Within(ours[1], ours)
    BY <1>2 DEF Within
  <1>4. Located(doc, e, ours[1])
    BY <1>1, <1>3
  <1>5. doc \in Docs /\ doc # Missing
    BY <1>4, LocatedList, NotMissing
  <1>6. WithoutBom(doc) = doc
    BY <1>5 DEF WithoutBom, Docs
  <1>7. single = doc
    <2> DEFINE V == {doc}
    <2>1. \A d \in V : ~(Len(LocateOurs(d, e)) < 2) => RemoveOne(d, e, LocateOurs(d, e)[2]) \in V
      <3>1. Len(LocateOurs(doc, e)) < 2
        <4>1. Len(ours) < 2
          BY <1>2
        <4> QED BY <4>1
      <3>2. \A d \in V : d = doc
        OBVIOUS
      <3> QED BY ONLY <3>1, <3>2
    <2>2. doc \in V
      OBVIOUS
    <2> HIDE DEF V
    <2>3. RemoveFrom(doc, e, 2) \in V
      <3>1. DOMAIN LocateOurs(doc, e) = 1..1
        BY <1>2
      <3> QED BY <2>1, <2>2, <3>1, RemoveFromStays
    <2> QED BY <1>6, <2>3 DEF V, DropDuplicates
  <1>8. ours # <<>>
    BY <1>2
  <1>9. RewriteHookRegistry(doc, e, handler, TRUE) = Replace(single, e, LocateOurs(single, e)[1], handler)
    BY <1>5, <1>8 DEF RewriteHookRegistry
  <1> HIDE DEF single
  <1>10. RewriteHookRegistry(doc, e, handler, TRUE) = Replace(doc, e, ours[1], handler)
    BY <1>7, <1>9
  <1> HIDE DEF ours
  <1> QED BY <1>2, <1>4, <1>5, <1>10, ReplaceSame

LEMMA ServersCurrent ==
  ASSUME NEW doc \in Docs, ~doc.bom, doc.servers # Missing, doc.servers.ours = "current"
  PROVE  RewriteServers(doc, TRUE) = doc
  <1>1. doc # Missing
    BY NotMissing
  <1>2. WithoutBom(doc) = doc
    BY DEF WithoutBom, Docs
  <1>3. RewriteServers(doc, TRUE) = [doc EXCEPT !.servers.ours = "current"]
    BY <1>1, <1>2 DEF RewriteServers
  <1>4. doc.servers \in ServerTables
    BY DEF Docs
  <1>5. [doc.servers EXCEPT !.ours = "current"] = doc.servers
    BY <1>4 DEF ServerTables
  <1>6. RewriteServers(doc, TRUE) = [doc EXCEPT !.servers = [doc.servers EXCEPT !.ours = "current"]]
    BY <1>3 DEF Docs
  <1> QED BY <1>5, <1>6 DEF Docs

\* An artifact that is in its place.
Placed(d, a) ==
    /\ OursAt(d, a) = <<Canonical(a)>> /\ (a.own # None => d[a.own] = Written)
    /\ ~(a.file \in Documents /\ d[a.file].bom)

LEMMA RewrittenPlaced ==
  ASSUME NEW d, Ready(d), NEW a \in ArtifactsOf(artifacts), a.kind # "file", Placed(d, a)
  PROVE  Rewritten(a, d[a.file], TRUE) = d[a.file]
  <1> DEFINE doc == d[a.file]
  <1>0. Declares /\ a.file \in Files /\ doc \in Contents(a.file)
    BY Artifact DEF Ready, Holds
  <1>1. CASE a.kind = "registry"
    <2>1. /\ a.event \in Events /\ a.handler \in Handlers /\ a.file \in Documents
          /\ doc \in {Missing} \union Docs /\ ~doc.bom
      BY <1>0, <1>1, Artifact DEF Contents, Documents, Placed
    <2>2. [i \in DOMAIN LocateOurs(doc, a.event) |->
              HandlerAt(doc, a.event, LocateOurs(doc, a.event)[i])] = <<a.handler>>
      BY <1>1 DEF Placed, OursAt, Canonical
    <2>3. Rewritten(a, doc, TRUE) = RewriteHookRegistry(doc, a.event, a.handler, TRUE)
      BY <1>1 DEF Rewritten
    <2> HIDE DEF doc
    <2>4. RewriteHookRegistry(doc, a.event, a.handler, TRUE) = doc
      BY <2>1, <2>2, RegistryCurrent
    <2> QED BY <2>3, <2>4 DEF doc
  <1>2. CASE a.kind = "servers"
    <2>1. a.file \in Documents /\ doc \in {Missing} \union Docs /\ ~doc.bom
      BY <1>0, <1>2, Artifact DEF Contents, Documents, Placed
    <2>2. IF doc = Missing \/ doc.servers = Missing \/ doc.servers.ours = "none"
          THEN <<>> = <<"current">> ELSE <<doc.servers.ours>> = <<"current">>
      BY <1>2 DEF Placed, OursAt, Canonical
    <2>3. Rewritten(a, doc, TRUE) = RewriteServers(doc, TRUE)
      BY <1>2 DEF Rewritten
    <2> HIDE DEF doc
    <2>4. <<>> # <<"current">>
      OBVIOUS
    <2>5. doc # Missing /\ doc.servers # Missing /\ doc.servers.ours = "current"
      BY <2>2, <2>4
    <2>6. RewriteServers(doc, TRUE) = doc
      BY <2>1, <2>5, ServersCurrent
    <2> QED BY <2>3, <2>6 DEF doc
  <1>3. CASE a.kind = "bridge"
    <2>1. doc \in PatchRows
      BY <1>0, <1>3, Artifact DEF Contents
    <2>2. OurRows(doc) = <<Bridge>>
      BY <1>3 DEF Placed, OursAt, Canonical
    <2>3. Rewritten(a, doc, TRUE) = EditPatch(doc, TRUE)
      BY <1>3 DEF Rewritten
    <2> HIDE DEF doc
    <2>4. EditPatch(doc, TRUE) = doc
      BY <2>1, <2>2, PatchPart
    <2> QED BY <2>3, <2>4 DEF doc
  <1> QED BY <1>0, <1>1, <1>2, <1>3, Artifact

----------------------------------------------------------------------------
(* A hook run                                                              *)

\* Where everything wanted is in its place, landing the wanted answers moves
\* nothing, and landing the others makes no file's edit a wanted one.
LEMMA NothingWaits ==
  ASSUME NEW d, Ready(d), NEW all \in Seq(Answers(d)), NEW admitted \in Seq(Answers(d)),
         \A pair \in hooks \intersect listed : \A a \in Range(artifacts[pair]) : Placed(d, a)
  PROVE  LandUnwanted(LandWanted(Untouched(d), all), admitted).waited = {}
  <1> DEFINE wanted == LandWanted(Untouched(d), all)
             V == {at \in Accs(d) : at.waited = {} /\ \A f \in Files : at.text[f] = d[f]}
             W == {at \in Accs(d) : at.waited = {}}
  <1>0. Declares
    BY DEF Ready
  <1>1. wanted \in V
    <2>1. Untouched(d) \in V
      BY LandedAll DEF Untouched
    <2>2. ASSUME NEW at \in V, NEW answer \in Answers(d), answer.wanted
          PROVE  Land(at, answer) \in V
      <3>1. at \in Accs(d) /\ at.waited = {} /\ \A f \in Files : at.text[f] = d[f]
        OBVIOUS
      <3>2. /\ Land(at, answer) \in Accs(d)
            /\ Unmoved(at, Land(at, answer)) \/ Moved(at, Land(at, answer), answer)
        BY <3>1, LandSays
      <3>3. ASSUME Moved(at, Land(at, answer), answer) PROVE FALSE
        <4> DEFINE a == answer.art
        <4>1. /\ answer.rewrite /\ a.file \in Files
              /\ Rewritten(a, at.text[a.file], answer.wanted) # at.text[a.file]
          BY <3>3 DEF Moved
        <4>2. a \in ArtifactsOf(artifacts) /\ a.kind # "file" /\ Sound(d, answer) /\ answer.wanted = TRUE
          BY <1>0, <2>2, <4>1, AnswerIs
        <4>3. Placed(d, a)
          BY <2>2, <4>2 DEF Sound
        <4> HIDE DEF a
        <4>4. Rewritten(a, d[a.file], TRUE) = d[a.file]
          BY <4>2, <4>3, RewrittenPlaced
        <4> QED BY <3>1, <4>1, <4>2, <4>4
      <3>4. Unmoved(at, Land(at, answer))
        BY <3>2, <3>3
      <3> QED BY <3>1, <3>2, <3>4 DEF Unmoved
    <2> HIDE DEF V
    <2> QED BY <2>1, <2>2, LandWantedStays
  <1>2. wanted \in W
    BY <1>1
  <1> HIDE DEF wanted, V
  <1>3. LandUnwanted(wanted, admitted) \in W
    <2>1. ASSUME NEW at \in W, NEW answer \in Answers(d), ~answer.wanted
          PROVE  Land(at, answer) \in W
      <3>1. at \in Accs(d) /\ at.waited = {}
        OBVIOUS
      <3>2. /\ Land(at, answer) \in Accs(d)
            /\ Unmoved(at, Land(at, answer)) \/ Moved(at, Land(at, answer), answer)
        BY <3>1, LandSays
      <3>3. Land(at, answer).waited = {}
        BY <2>1, <3>1, <3>2 DEF Unmoved, Moved
      <3> QED BY <3>2, <3>3
    <2> HIDE DEF W
    <2> QED BY <1>2, <2>1, LandUnwantedStays
  <1> QED BY <1>3 DEF wanted

\* A hook run writes the files that are maxims's own and deletes none, and it
\* has nothing effective to write where everything wanted is in its place.
LEMMA HookRunPlan ==
  ASSUME NEW d, Ready(d), NEW root, NEW agents
  PROVE  /\ \A i \in 1..Len(PlanHooks(d, root, agents).changes) :
               PlanHooks(d, root, agents).changes[i].target \in OwnFiles =>
                  PlanHooks(d, root, agents).changes[i].value = Written
         /\ (\A pair \in hooks \intersect listed : \A a \in Range(artifacts[pair]) : Placed(d, a))
               => ~Effective(d, PlanHooks(d, root, agents).changes)
  <1> DEFINE plan == PlanHooks(d, root, agents)
  <1> DEFINE OwnWritten == {c \in [target : Files \union OwnFiles, value : AnyContents \union {Written}] :
                               c.target \in OwnFiles => c.value = Written}
             Idles == {c \in [target : OwnFiles, value : {Written}] : d[c.target] = c.value}
             All == [target : Files \union OwnFiles, value : AnyContents \union {Written, Missing}]
  <1>0. Declares /\ Files \intersect OwnFiles = {} /\ None \notin OwnFiles
    BY NamesDeclared DEF Ready
  <1>1. PICK all \in Seq(Answers(d)), admitted \in Seq(Answers(d)) : \E wanted, landed :
              /\ wanted = LandWanted(Untouched(d), all)
              /\ landed = LandUnwanted(wanted, admitted)
              /\ plan = Finish(d, agents, admitted, landed)
    <2> HIDE DEF OwnWritten, Idles, All
    <2>1. Declares
      BY <1>0
    <2>2. \E every, kept \in Seq(Answers(d)) : \E wanted, landed :
              /\ wanted = LandWanted(Untouched(d), every)
              /\ landed = LandUnwanted(wanted, kept)
              /\ \A answer : Within(answer, kept) =>
                    /\ Within(answer, every)
                    /\ answer.wanted => answer \in wanted.applied
              /\ PlanHooks(d, root, agents) = Finish(d, agents, kept, landed)
      BY <2>1, PlanIs
    <2> QED BY <2>2
  <1>2. PICK landed : /\ landed = LandUnwanted(LandWanted(Untouched(d), all), admitted)
                      /\ plan = Finish(d, agents, admitted, landed)
    BY <1>1
  <1> HIDE DEF plan
  <1>3. landed \in Accs(d)
    BY <1>2, LandedAll
  <1>4. ASSUME NEW answer \in Answers(d)
        PROVE  /\ answer.own # None =>
                     /\ answer.art.own \in OwnFiles /\ answer.art.own \notin Files
                     /\ Change(answer.art.own, OwnValue(answer)) \in All
                     /\ answer.wanted => OwnValue(answer) = Written
               /\ answer.rewrite =>
                     /\ answer.art.file \in Files /\ answer.art.file \notin OwnFiles
                     /\ landed.text[answer.art.file] \in AnyContents
                     /\ Change(answer.art.file, landed.text[answer.art.file]) \in All
    <2>1. ASSUME answer.own # None
          PROVE  /\ answer.art.own \in OwnFiles /\ answer.art.own \notin Files
                 /\ OwnValue(answer) \in {Written, Missing}
                 /\ answer.wanted => OwnValue(answer) = Written
      BY <1>0, <2>1, AnswerIs DEF OwnValue, Sound
    <2>2. ASSUME answer.rewrite
          PROVE  /\ answer.art.file \in Files /\ answer.art.file \notin OwnFiles
                 /\ landed.text[answer.art.file] \in AnyContents
      BY <1>0, <1>3, <2>2, AnswerIs DEF Accs
    <2> QED BY <2>1, <2>2 DEF Change
  <1>5. \A i \in 1..Len(plan.changes) : plan.changes[i].target \in OwnFiles => plan.changes[i].value = Written
    <2>1. ASSUME NEW answer \in Answers(d) PROVE Gives(d, landed, answer, OwnWritten, All)
      <3>1. ASSUME answer.own # None, answer.wanted
            PROVE  Change(answer.art.own, OwnValue(answer)) \in OwnWritten
        BY <1>4, <3>1 DEF Change
      <3>2. ASSUME answer.rewrite
            PROVE  Change(answer.art.file, landed.text[answer.art.file]) \in OwnWritten
        BY <1>4, <3>2 DEF Change
      <3> HIDE DEF OwnWritten, All
      <3> QED BY <1>4, <3>1, <3>2 DEF Gives
    <2>2. \A c \in OwnWritten : c.target \in OwnFiles => c.value = Written
      OBVIOUS
    <2> HIDE DEF OwnWritten, All
    <2>3. PlannedChanges(d, landed, admitted) \in Plans(OwnWritten, All)
      BY <1>0, <2>1, PlannedType
    <2>4. plan.changes = PlannedChanges(d, landed, admitted).changes
      BY <1>2, <2>3, FinishIs
    <2>5. plan.changes \in Seq(OwnWritten)
      BY <2>3, <2>4 DEF Plans
    <2> QED BY <2>2, <2>5
  <1>6. ASSUME \A pair \in hooks \intersect listed : \A a \in Range(artifacts[pair]) : Placed(d, a)
        PROVE  ~Effective(d, plan.changes)
    <2>1. landed.waited = {}
      BY <1>2, <1>6, NothingWaits
    <2>2. ASSUME NEW answer \in Answers(d) PROVE Gives(d, landed, answer, Idles, All)
      <3>1. ASSUME answer.own # None, answer.wanted
            PROVE  Change(answer.art.own, OwnValue(answer)) \in Idles
        <4>1. answer.art.own \in OwnFiles /\ OwnValue(answer) = Written
          BY <1>4, <3>1
        <4>2. PICK pair \in hooks \intersect listed : answer.art \in Range(artifacts[pair])
          BY <1>0, <3>1, AnswerIs DEF Sound
        <4>3. d[answer.art.own] = Written
          BY <1>0, <1>6, <4>1, <4>2 DEF Placed
        <4> QED BY <4>1, <4>3 DEF Change
      <3> HIDE DEF Idles, All
      <3> QED BY <1>4, <2>1, <3>1 DEF Gives
    <2>3. \A c \in Idles : d[c.target] = c.value
      OBVIOUS
    <2> HIDE DEF Idles, All
    <2>4. PlannedChanges(d, landed, admitted) \in Plans(Idles, All)
      BY <1>0, <2>2, PlannedType
    <2>5. plan.changes = PlannedChanges(d, landed, admitted).changes
      BY <1>2, <2>4, FinishIs
    <2>6. plan.changes \in Seq(Idles)
      BY <2>4, <2>5 DEF Plans
    <2> QED BY <2>3, <2>6 DEF Effective
  <1> QED BY <1>5, <1>6 DEF plan

\* What is left of a hook run's plan deletes nothing.
HookWrites ==
    run.hook => \A i \in 1..Len(todo) : todo[i].target \in OwnFiles => todo[i].value = Written

LEMMA HookWritesStep == HookTyped /\ HookWrites /\ [Next]_vars => HookWrites'
  <1> SUFFICES ASSUME HookTyped, HookWrites, [Next]_vars PROVE HookWrites'
    OBVIOUS
  <1>1. CASE run' = run /\ todo' = todo
    BY <1>1 DEF HookWrites
  <1>2. CASE Abandon
    BY <1>2 DEF Abandon, HookWrites, NoRun
  <1>3. CASE Apply
    <2>1. CASE run' = NoRun
      BY <2>1 DEF HookWrites, NoRun
    <2>2. CASE run' = run
      <3>1. \A i \in 1..Len(todo') : todo'[i] = todo[i + 1] /\ i + 1 \in 1..Len(todo)
        BY <1>3, ApplyIs
      <3> QED BY <2>2, <3>1 DEF HookWrites
    <2> QED BY <1>3, <2>1, <2>2 DEF Apply
  <1>4. CASE \E root \in Roots, agents \in Filters \union {Harnesses} : Sync(root, agents)
    <2>1. PICK root \in Roots, agents \in Filters \union {Harnesses} : Sync(root, agents)
      BY <1>4
    <2> DEFINE plan == PlanHooks(disk, root, agents)
    <2>2. PICK hook \in BOOLEAN : /\ todo' = Changes(plan, hook)
                                  /\ run' = [root |-> root, agents |-> agents, hook |-> hook]
      BY <2>1 DEF Sync
    <2>3. Ready(disk)
      BY DEF HookTyped, Ready
    <2>4. \A i \in 1..Len(plan.changes) : plan.changes[i].target \in OwnFiles =>
             plan.changes[i].value = Written
      BY <2>3, HookRunPlan
    <2>5. plan.changes \in Seq(KeptChanges(disk)) /\ Changes(plan, TRUE) = plan.changes \o <<>>
      BY <2>3, PlanKeeps DEF Changes
    <2> HIDE DEF plan
    <2>6. CASE hook
      <3>1. todo' = plan.changes \o <<>>
        BY <2>2, <2>5, <2>6
      <3>2. todo' = plan.changes
        BY <2>5, <3>1, ConcatEmptySeq
      <3> QED BY <2>4, <3>2 DEF HookWrites
    <2>7. CASE ~hook
      BY <2>2, <2>7 DEF HookWrites
    <2> QED BY <2>6, <2>7
  <1> QED BY <1>1, <1>2, <1>3, <1>4 DEF Next, vars, RemoveLast, Add, SetAccess

LEMMA HookDefersStep ==
  HookTyped /\ HookWrites /\ [Next]_vars =>
     [/\ run.hook => \A f \in OwnFiles : disk[f] # Missing => disk'[f] # Missing
      /\ (Idle /\ run'.hook) => \E pair \in hooks \intersect listed : \E a \in Range(artifacts[pair]) :
              \/ OursAt(disk, a) # <<Canonical(a)>> \/ (a.own # None /\ disk[a.own] # Written)
              \/ (a.file \in Documents /\ disk[a.file].bom)]_vars
  <1> SUFFICES ASSUME HookTyped, HookWrites, Next
               PROVE  /\ run.hook => \A f \in OwnFiles : disk[f] # Missing => disk'[f] # Missing
                      /\ (Idle /\ run'.hook) =>
                            \E pair \in hooks \intersect listed : \E a \in Range(artifacts[pair]) :
                               \/ OursAt(disk, a) # <<Canonical(a)>>
                               \/ (a.own # None /\ disk[a.own] # Written)
                               \/ (a.file \in Documents /\ disk[a.file].bom)
    OBVIOUS
  <1>1. ASSUME run.hook, NEW f \in OwnFiles, disk[f] # Missing PROVE disk'[f] # Missing
    <2>1. CASE disk' = disk
      BY <1>1, <2>1
    <2>2. CASE Apply
      <3> DEFINE c == Head(todo)
      <3>1. /\ c = todo[1] /\ Len(todo) \in Nat \ {0} /\ disk'[c.target] = c.value
            /\ \A g \in Files \union OwnFiles : g # c.target => disk'[g] = disk[g]
        BY <2>2, ApplyIs
      <3> HIDE DEF c
      <3>2. c.target = f => c.value = Written
        BY <1>1, <3>1 DEF HookWrites
      <3>3. Written # Missing
        BY DEF Written, Missing
      <3> QED BY <1>1, <3>1, <3>2, <3>3
    <2> QED BY <2>1, <2>2 DEF Next, RemoveLast, Add, Sync, Abandon, SetAccess
  <1>2. ASSUME Idle, run'.hook, \A pair \in hooks \intersect listed :
                  \A a \in Range(artifacts[pair]) : Placed(disk, a)
        PROVE  FALSE
    <2>1. run' # NoRun /\ run' # run
      BY <1>2 DEF Idle, NoRun
    <2>2. \E root \in Roots, agents \in Filters \union {Harnesses} : Sync(root, agents)
      BY <2>1, <1>2 DEF Next, RemoveLast, Add, Apply, Abandon, SetAccess
    <2>3. PICK root \in Roots, agents \in Filters \union {Harnesses} : Sync(root, agents)
      BY <2>2
    <2> DEFINE plan == PlanHooks(disk, root, agents)
    <2>4. Effective(disk, Changes(plan, TRUE))
      <3>1. PICK hook \in BOOLEAN : /\ Effective(disk, Changes(plan, hook))
                                    /\ run' = [root |-> root, agents |-> agents, hook |-> hook]
        BY <2>3 DEF Sync
      <3>2. hook = TRUE
        BY <1>2, <3>1
      <3> QED BY <3>1, <3>2
    <2>5. Ready(disk)
      BY DEF HookTyped, Ready
    <2>6. ~Effective(disk, plan.changes)
      BY <1>2, <2>5, HookRunPlan
    <2>7. plan.changes \in Seq(KeptChanges(disk))
      BY <2>5, PlanKeeps
    <2>8. Changes(plan, TRUE) = plan.changes
      <3> HIDE DEF plan
      <3> QED BY <2>7, ConcatEmptySeq DEF Changes
    <2> QED BY <2>4, <2>6, <2>8
  <1> QED BY <1>1, <1>2 DEF Placed

\* A hook run takes nothing away on its own account: of a file that is maxims's
\* own it leaves nothing deleted, and it starts only where an artifact that is
\* wanted is not in its place.
THEOREM HookRunsDefer == HookSpec => HookDefers
  <1>1. Init => HookWrites
    BY DEF Init, HookWrites
  <1>2. HookTyped /\ HookWrites /\ [Next]_vars => HookWrites'
    BY HookWritesStep
  <1> QED BY <1>1, <1>2, HookTypes, HookDefersStep, PTL DEF HookSpec, HookDefers

----------------------------------------------------------------------------
(* The bridge                                                              *)

\* Nothing but the bridge is registered in a patch file, over one file beside it.
LEMMA BridgeShare ==
  ASSUME Declares, NEW b \in ArtifactsOf(artifacts), b.kind = "bridge",
         NEW a \in ArtifactsOf(artifacts), a.file = b.file
  PROVE  a.kind = "bridge" /\ a.own = b.own
  <1>1. PICK world \in Worlds : artifacts = world.artifacts
    BY DEF Declares
  <1>2. PICK p \in DOMAIN artifacts, q \in DOMAIN artifacts :
           a \in Range(artifacts[p]) /\ b \in Range(artifacts[q])
    BY DEF ArtifactsOf
  <1> QED BY <1>1, <1>2, BridgesDeclared

\* Over a patch file without a row of ours only a wanted edit puts one in.
LEMMA RowsWait ==
  ASSUME NEW d, Ready(d), NEW all \in Seq(Answers(d)), NEW admitted \in Seq(Answers(d)),
         NEW b \in ArtifactsOf(artifacts), b.kind = "bridge", OurRows(d[b.file]) = <<>>,
         NEW landed, landed = LandUnwanted(LandWanted(Untouched(d), all), admitted)
  PROVE  OurRows(landed.text[b.file]) # <<>> => b.file \in landed.waited
  <1> DEFINE f == b.file
             V == {at \in Accs(d) : OurRows(at.text[f]) = <<>> \/ f \in at.waited}
  <1>0. Declares /\ f \in Files /\ f \in PatchFiles
    BY Artifact DEF Ready
  <1>1. ASSUME NEW at \in V, NEW answer \in Answers(d) PROVE Land(at, answer) \in V
    <2> DEFINE g == answer.art.file
               to == Land(at, answer)
               new == Rewritten(answer.art, at.text[g], answer.wanted)
    <2>1. at \in Accs(d) /\ (OurRows(at.text[f]) = <<>> \/ f \in at.waited)
      OBVIOUS
    <2>2. to \in Accs(d) /\ (Unmoved(at, to) \/ Moved(at, to, answer))
      BY <2>1, LandSays
    <2> HIDE DEF to
    <2>3. CASE Unmoved(at, to)
      BY <2>1, <2>2, <2>3 DEF Unmoved, to
    <2>4. CASE Moved(at, to, answer)
      <3>1. /\ answer.rewrite /\ g \in Files /\ to.text = [at.text EXCEPT ![g] = new]
            /\ to.waited = IF answer.wanted THEN at.waited \union {g} ELSE at.waited
        BY <2>4 DEF Moved
      <3>2. at.text \in [Files -> AnyContents] /\ at.text[f] \in PatchRows
        BY <1>0, <2>1 DEF Accs, Keeps, Contents
      <3>3. CASE g # f
        <4>1. to.text[f] = at.text[f]
          BY <1>0, <3>1, <3>2, <3>3
        <4>2. f \in at.waited => f \in to.waited
          BY <3>1
        <4> QED BY <2>1, <2>2, <4>1, <4>2 DEF to
      <3>4. CASE g = f /\ answer.wanted
        <4>1. f \in to.waited
          BY <3>1, <3>4
        <4> QED BY <2>2, <4>1 DEF to
      <3>5. CASE g = f /\ ~answer.wanted
        <4>1. answer.art \in ArtifactsOf(artifacts) /\ answer.wanted = FALSE
          BY <1>0, <3>5, AnswerIs
        <4>2. answer.art.kind = "bridge"
          BY <1>0, <3>5, <4>1, BridgeShare
        <4>3. new = EditPatch(at.text[f], FALSE)
          <5>1. new = EditPatch(at.text[g], answer.wanted)
            BY <4>2 DEF Rewritten
          <5> QED BY <3>5, <4>1, <5>1
        <4>4. OurRows(new) = <<>>
          <5>1. \A rows \in PatchRows : OurRows(EditPatch(rows, FALSE)) = <<>>
            BY PatchPart
          <5> HIDE DEF new
          <5> QED BY <3>2, <4>3, <5>1
        <4> HIDE DEF new
        <4>5. to.text[f] = new
          BY <1>0, <3>1, <3>2, <3>5
        <4> QED BY <2>2, <4>4, <4>5 DEF to
      <3> QED BY <3>3, <3>4, <3>5
    <2> QED BY <2>2, <2>3, <2>4
  <1>2. Untouched(d) \in V
    <2>1. Untouched(d).text[f] = d[f]
      BY <1>0 DEF Untouched
    <2> QED BY <2>1, LandedAll
  <1> HIDE DEF V
  <1>3. LandWanted(Untouched(d), all) \in V
    BY <1>1, <1>2, LandWantedStays
  <1>4. landed \in V
    BY <1>1, <1>3, LandUnwantedStays
  <1> QED BY <1>4 DEF V

\* Each change of x comes behind one of y.
Led(s, x, y) == \A i \in 1..Len(s) : s[i].target = x => \E j \in 1..(i - 1) : s[j].target = y

LEMMA LedConcat ==
  ASSUME NEW C, NEW s \in Seq(C), NEW t \in Seq(C), NEW x, NEW y, Led(s, x, y),
         \A i \in 1..Len(t) : t[i].target # x
  PROVE  Led(s \o t, x, y)
  <1> DEFINE u == s \o t
  <1>1. /\ u \in Seq(C) /\ Len(u) = Len(s) + Len(t)
        /\ \A i \in 1..Len(s) : i \in 1..Len(u) /\ u[i] = s[i]
        /\ \A i \in 1..Len(u) : \/ i \in 1..Len(s) /\ u[i] = s[i]
                                \/ i - Len(s) \in 1..Len(t) /\ u[i] = t[i - Len(s)]
    BY ConcatHolds
  <1> HIDE DEF u
  <1>2. ASSUME NEW i \in 1..Len(u), u[i].target = x
        PROVE  \E j \in 1..(i - 1) : u[j].target = y
    <2>1. i \in 1..Len(s) /\ u[i] = s[i]
      BY <1>1, <1>2
    <2>2. PICK j \in 1..(i - 1) : s[j].target = y
      BY <1>2, <2>1 DEF Led
    <2>3. j \in 1..Len(s)
      BY <2>1, <2>2
    <2> QED BY <1>1, <2>2, <2>3
  <1>3. Led(u, x, y)
    BY <1>2 DEF Led
  <1> QED BY <1>3 DEF u

LEMMA LedPair ==
  ASSUME NEW C, NEW s \in Seq(C), NEW p \in C, NEW q \in C, NEW x, NEW y, Led(s, x, y),
         p.target = y, y # x
  PROVE  Led((s \o <<p>>) \o <<q>>, x, y)
  <1> DEFINE one == <<p>>
             two == <<q>>
             r == s \o one
             u == r \o two
  <1>1. one \in Seq(C) /\ two \in Seq(C) /\ Len(one) = 1 /\ Len(two) = 1 /\ one[1] = p
    OBVIOUS
  <1> HIDE DEF one, two
  <1>2. \A i \in 1..Len(one) : one[i].target # x
    BY <1>1
  <1>0. s \in Seq(C) /\ one \in Seq(C) /\ two \in Seq(C)
    BY <1>1
  <1>3. r \in Seq(C) /\ Len(r) = Len(s) + 1 /\ Led(r, x, y)
    <2>1. r \in Seq(C) /\ Len(r) = Len(s) + Len(one)
      BY ONLY <1>0, ConcatHolds
    <2>2. Led(r, x, y)
      BY <1>0, <1>2, LedConcat
    <2> QED BY <1>1, <2>1, <2>2
  <1>4. Len(s) + 1 \in 1..Len(r) /\ r[Len(s) + 1] = p
    <2>1. \A i \in 1..Len(one) : Len(s) + i \in 1..Len(r) /\ r[Len(s) + i] = one[i]
      BY ONLY <1>0, ConcatHolds
    <2> QED BY <1>1, <2>1
  <1> HIDE DEF r
  <1>5. /\ u \in Seq(C) /\ Len(u) = Len(r) + 1
        /\ \A i \in 1..Len(r) : i \in 1..Len(u) /\ u[i] = r[i]
        /\ \A i \in 1..Len(u) : \/ i \in 1..Len(r) /\ u[i] = r[i]
                                \/ i - Len(r) \in 1..Len(two) /\ u[i] = two[i - Len(r)]
    <2>1. r \in Seq(C)
      BY <1>3
    <2>2. /\ u \in Seq(C) /\ Len(u) = Len(r) + Len(two)
          /\ \A i \in 1..Len(r) : i \in 1..Len(u) /\ u[i] = r[i]
          /\ \A i \in 1..Len(u) : \/ i \in 1..Len(r) /\ u[i] = r[i]
                                  \/ i - Len(r) \in 1..Len(two) /\ u[i] = two[i - Len(r)]
      BY ONLY <1>0, <2>1, ConcatHolds
    <2> QED BY <1>1, <2>2
  <1> HIDE DEF u
  <1>6. Len(r) \in Nat /\ Len(s) \in Nat
    BY <1>3
  <1>7. ASSUME NEW i \in 1..Len(u), u[i].target = x
        PROVE  \E j \in 1..(i - 1) : u[j].target = y
    <2>1. CASE i \in 1..Len(r)
      <3>1. u[i] = r[i]
        BY <1>5, <2>1
      <3>2. PICK j \in 1..(i - 1) : r[j].target = y
        BY <1>3, <1>7, <2>1, <3>1 DEF Led
      <3>3. j \in 1..Len(r)
        BY <2>1, <3>2
      <3> QED BY <1>5, <3>2, <3>3
    <2>2. CASE i \notin 1..Len(r)
      <3>1. i = Len(r) + 1
        BY <1>5, <1>6, <2>2
      <3>2. Len(s) + 1 \in 1..(i - 1)
        BY <1>3, <1>6, <3>1
      <3> QED BY <1>4, <1>5, <3>2
    <2> QED BY <2>1, <2>2
  <1>8. Led(u, x, y)
    BY <1>7 DEF Led
  <1> QED BY <1>8 DEF u, r, one, two

\* What an answer emits where b has no row yet: the edit of b's patch file goes
\* right behind the write of b's own file.
LEMMA EmitLed ==
  ASSUME NEW d, Ready(d), NEW b \in ArtifactsOf(artifacts), b.kind = "bridge",
         OurRows(d[b.file]) = <<>>, NEW landed, NEW C, NEW R, NEW plan \in Plans(C, R),
         Led(plan.changes, b.file, b.own),
         NEW answer \in Answers(d), Gives(d, landed, answer, C, R),
         answer.wanted => answer \in landed.applied
  PROVE  Led(Emit(plan, d, landed, answer).changes, b.file, b.own)
  <1> DEFINE f == answer.art.file
             own == IF answer \in landed.applied THEN OwnChange(answer) ELSE <<>>
             edit == IF answer.rewrite /\ f \notin plan.files /\ landed.text[f] # d[f]
                     THEN <<Change(f, landed.text[f])>> ELSE <<>>
             o == Change(answer.art.own, OwnValue(answer))
             e == Change(f, landed.text[f])
             wantedOwn == IF answer.wanted THEN own ELSE <<>>
             wantedEdit == IF f \in landed.waited THEN edit ELSE <<>>
             s == plan.changes
  <1>0. /\ Declares /\ b.file \in Files /\ b.own \in OwnFiles /\ Files \intersect OwnFiles = {}
        /\ d[b.file] \in PatchRows
    <2>1. Declares /\ Holds(d)
      BY DEF Ready
    <2>2. b.file \in Files /\ b.own \in OwnFiles /\ b.file \in PatchFiles
      BY <2>1, Artifact
    <2> QED BY <2>1, <2>2, NamesDeclared DEF Holds, Contents
  <1>1. s \in Seq(C) /\ Led(s, b.file, b.own)
    BY DEF Plans
  <1>2. Emit(plan, d, landed, answer).changes = (s \o wantedOwn) \o wantedEdit
    BY DEF Emit
  <1>3. \/ wantedOwn = <<>>
        \/ /\ wantedOwn = <<o>> /\ answer.wanted /\ answer.own # None /\ answer \in landed.applied
    BY DEF OwnChange, OwnValue
  <1>4. \/ wantedEdit = <<>>
        \/ /\ wantedEdit = <<e>> /\ answer.rewrite /\ landed.text[f] # d[f] /\ f \in landed.waited
    OBVIOUS
  <1>5. wantedOwn # <<>> => o \in C
    BY <1>3 DEF Gives
  <1>6. wantedEdit # <<>> => e \in C
    BY <1>4 DEF Gives
  <1>7. answer.own # None => o.target \in OwnFiles /\ o.target = answer.art.own
    BY <1>0, AnswerIs DEF Change
  <1>8. e.target = f
    BY DEF Change
  <1>9. ASSUME wantedEdit # <<>>, f = b.file
        PROVE  wantedOwn = <<o>> /\ o.target = b.own
    <2>1. answer.rewrite /\ answer.art \in ArtifactsOf(artifacts) /\ Sound(d, answer)
          /\ answer.wanted \in BOOLEAN
      BY <1>0, <1>4, <1>9, AnswerIs
    <2>2. answer.art.kind = "bridge" /\ answer.art.own = b.own
      BY <1>0, <1>9, <2>1, BridgeShare
    <2>3. Rewritten(answer.art, d[f], answer.wanted) # d[f]
      BY <2>1, <2>2 DEF Sound
    <2>4. ASSUME answer.wanted = FALSE PROVE FALSE
      <3>1. Rewritten(answer.art, d[f], answer.wanted) = EditPatch(d[f], FALSE)
        BY <2>2, <2>4 DEF Rewritten
      <3>2. \A rows \in PatchRows : OurRows(rows) = <<>> => EditPatch(rows, FALSE) = rows
        BY PatchPart
      <3> QED BY <1>0, <1>9, <2>3, <3>1, <3>2
    <2>5. answer.wanted /\ answer.own = "write" /\ answer \in landed.applied
      BY <2>1, <2>2, <2>4 DEF Sound
    <2>6. answer.own # None
      BY <2>5 DEF None
    <2>7. wantedOwn = <<o>>
      BY <2>5, <2>6 DEF OwnChange, OwnValue
    <2> QED BY <1>7, <2>2, <2>6, <2>7
  <1> HIDE DEF own, edit, o, e, wantedOwn, wantedEdit, s
  <1>10. CASE wantedEdit # <<>> /\ f = b.file
    <2>1. wantedOwn = <<o>> /\ o.target = b.own /\ o \in C /\ b.own # b.file
      <3>1. wantedOwn = <<o>> /\ o.target = b.own
        BY <1>9, <1>10
      <3>2. <<o>> # <<>> /\ b.own # b.file
        BY <1>0
      <3> QED BY <1>5, <3>1, <3>2
    <2>2. wantedEdit = <<e>> /\ e \in C
      BY <1>4, <1>6, <1>10
    <2>3. Led((s \o <<o>>) \o <<e>>, b.file, b.own)
      BY <1>1, <2>1, <2>2, LedPair
    <2> QED BY <1>2, <2>1, <2>2, <2>3
  <1>11. CASE ~(wantedEdit # <<>> /\ f = b.file)
    <2>1. wantedOwn \in Seq(C) /\ \A i \in 1..Len(wantedOwn) : wantedOwn[i].target # b.file
      <3>1. CASE wantedOwn = <<>>
        BY <3>1
      <3>2. CASE wantedOwn # <<>>
        <4>1. wantedOwn = <<o>> /\ o \in C /\ o.target # b.file
          BY <1>0, <1>3, <1>5, <1>7, <3>2
        <4> QED BY <4>1
      <3> QED BY <3>1, <3>2
    <2>2. wantedEdit \in Seq(C) /\ \A i \in 1..Len(wantedEdit) : wantedEdit[i].target # b.file
      <3>1. CASE wantedEdit = <<>>
        BY <3>1
      <3>2. CASE wantedEdit # <<>>
        <4>1. wantedEdit = <<e>> /\ e \in C /\ e.target # b.file
          BY <1>4, <1>6, <1>8, <1>11, <3>2
        <4> QED BY <4>1
      <3> QED BY <3>1, <3>2
    <2>3. Led(s \o wantedOwn, b.file, b.own) /\ s \o wantedOwn \in Seq(C)
      BY <1>1, <2>1, LedConcat, ConcatProperties
    <2> DEFINE r == s \o wantedOwn
    <2>4. r \in Seq(C) /\ Led(r, b.file, b.own)
      BY <2>3
    <2> HIDE DEF r
    <2>5. Led(r \o wantedEdit, b.file, b.own)
      BY <2>2, <2>4, LedConcat
    <2> QED BY <1>2, <2>5 DEF r
  <1> QED BY <1>10, <1>11

\* What is left of a plan puts a row of ours in a patch file only where one is,
\* or behind the file it leads to, which nothing before it takes away; and two
\* changes of one file of the user's write the same.
Covered(a, i) ==
    \/ OurRows(disk[a.file]) # <<>>
    \/ /\ disk[a.own] # Missing \/ \E j \in 1..(i - 1) : todo[j].target = a.own
       /\ \A j \in 1..(i - 1) : todo[j].target = a.own => todo[j].value = Written
HookBacked ==
    /\ \A i, j \in 1..Len(todo) :
          todo[i].target \in Files /\ todo[i].target = todo[j].target => todo[i].value = todo[j].value
    /\ \A a \in ArtifactsOf(artifacts) : \A i \in 1..Len(todo) :
          a.kind = "bridge" /\ todo[i].target = a.file /\ OurRows(todo[i].value) # <<>> => Covered(a, i)

LEMMA PlanBacked ==
  ASSUME NEW d, Ready(d), NEW root, NEW agents, NEW hook \in BOOLEAN, NEW s,
         s = Changes(PlanHooks(d, root, agents), hook)
  PROVE  /\ \A i, j \in 1..Len(s) :
               s[i].target \in Files /\ s[i].target = s[j].target => s[i].value = s[j].value
         /\ \A a \in ArtifactsOf(artifacts) : \A i \in 1..Len(s) :
               a.kind = "bridge" /\ s[i].target = a.file /\ OurRows(s[i].value) # <<>> =>
                  \/ OurRows(d[a.file]) # <<>>
                  \/ /\ \E j \in 1..(i - 1) : s[j].target = a.own
                     /\ \A j \in 1..(i - 1) : s[j].target = a.own => s[j].value = Written
  <1> DEFINE plan == PlanHooks(d, root, agents)
  <1>0. Declares
    BY DEF Ready
  <1>1. PICK all \in Seq(Answers(d)), admitted \in Seq(Answers(d)) : \E wanted, landed :
              /\ wanted = LandWanted(Untouched(d), all)
              /\ landed = LandUnwanted(wanted, admitted)
              /\ \A answer : Within(answer, admitted) =>
                    /\ Within(answer, all)
                    /\ answer.wanted => answer \in wanted.applied
              /\ plan = Finish(d, agents, admitted, landed)
    BY <1>0, PlanIs
  <1>2. PICK wanted, landed :
              /\ wanted = LandWanted(Untouched(d), all)
              /\ landed = LandUnwanted(wanted, admitted)
              /\ \A answer : Within(answer, admitted) => (answer.wanted => answer \in wanted.applied)
              /\ plan = Finish(d, agents, admitted, landed)
    BY <1>1
  <1> HIDE DEF plan
  <1> DEFINE C == {c \in ChangeForms : /\ c.target \in OwnFiles => c.value = Written
                                       /\ c.target \in Files => c.value = landed.text[c.target]}
             R == {c \in ChangeForms : c.target \in Files =>
                      c.value = landed.text[c.target] /\ c.target \notin landed.waited}
             p == PlannedChanges(d, landed, admitted)
  <1>3. landed \in Accs(d) /\ wanted.applied \subseteq landed.applied
    BY <1>2, LandedAll
  <1>4. ASSUME NEW answer \in Answers(d) PROVE Gives(d, landed, answer, C, R)
    <2>1. ASSUME answer.own # None
          PROVE  Change(answer.art.own, OwnValue(answer)) \in (IF answer.wanted THEN C ELSE R)
      <3>1. answer.art.own \in OwnFiles /\ answer.art.own \notin Files
        BY <1>0, <2>1, AnswerIs, NamesDeclared
      <3>2. OwnValue(answer) \in {Written, Missing} /\ (answer.wanted => OwnValue(answer) = Written)
        BY <1>0, <2>1, AnswerIs DEF OwnValue, Sound
      <3> QED BY <3>1, <3>2 DEF Change, ChangeForms
    <2>2. ASSUME answer.rewrite
          PROVE  Change(answer.art.file, landed.text[answer.art.file]) \in
                    (IF answer.art.file \in landed.waited THEN C ELSE R)
      <3> DEFINE f == answer.art.file
                 v == landed.text[f]
                 c == Change(f, v)
      <3>1. f \in Files /\ f \notin OwnFiles
        BY <1>0, <2>2, AnswerIs, NamesDeclared
      <3>2. Keeps(f, v, d[f]) /\ v \in AnyContents
        BY <1>3, <3>1 DEF Accs
      <3>3. v \in Contents(f)
        BY <3>2 DEF Keeps
      <3>4. c.target = f /\ c.value = v
        BY DEF Change
      <3>5. c \in ChangeForms
        <4> HIDE DEF v, f
        <4> QED BY <3>1, <3>2, <3>3 DEF Change, ChangeForms
      <3> HIDE DEF c
      <3>6. c \in (IF f \in landed.waited THEN C ELSE R)
        BY <3>1, <3>4, <3>5
      <3> QED BY <3>6 DEF c
    <2> HIDE DEF C, R
    <2> QED BY <2>1, <2>2 DEF Gives
  <1>5. /\ C \subseteq ChangeForms /\ R \subseteq ChangeForms
        /\ \A c \in C : /\ c.target \in OwnFiles => c.value = Written
                        /\ c.target \in Files => c.value = landed.text[c.target]
        /\ \A c \in R : c.target \in Files =>
                           c.value = landed.text[c.target] /\ c.target \notin landed.waited
    OBVIOUS
  <1> HIDE DEF C, R
  <1>6. p \in Plans(C, R)
    BY <1>0, <1>4, PlannedType
  <1>7. plan.changes = p.changes /\ plan.removals = p.removals
    BY <1>2, <1>6, FinishIs
  <1> DEFINE tail == IF hook THEN <<>> ELSE plan.removals
  <1>8. plan.changes \in Seq(C) /\ tail \in Seq(R)
    BY <1>6, <1>7, EmptyIn DEF Plans
  <1>9. s = plan.changes \o tail
    BY DEF Changes, plan
  <1>10. ASSUME NEW b \in ArtifactsOf(artifacts), b.kind = "bridge", OurRows(d[b.file]) = <<>>
         PROVE  Led(plan.changes, b.file, b.own)
    <2> DEFINE V == {q \in Plans(C, R) : Led(q.changes, b.file, b.own)}
               none == [changes |-> <<>>, removals |-> <<>>, files |-> {}, failures |-> {}]
    <2>1. none \in V
      BY EmptyIn DEF Plans, Led
    <2>2. ASSUME NEW q \in V, NEW answer \in Answers(d), Within(answer, admitted)
          PROVE  Emit(q, d, landed, answer) \in V
      <3>1. q \in Plans(C, R) /\ Led(q.changes, b.file, b.own)
        OBVIOUS
      <3>2. answer.wanted => answer \in landed.applied
        BY <1>2, <1>3, <2>2
      <3>3. Gives(d, landed, answer, C, R)
        BY <1>4
      <3>4. Emit(q, d, landed, answer) \in Plans(C, R)
        BY <1>0, <3>1, <3>3, EmitType
      <3>5. Led(Emit(q, d, landed, answer).changes, b.file, b.own)
        BY <1>10, <3>1, <3>2, <3>3, EmitLed
      <3> QED BY <3>4, <3>5
    <2> HIDE DEF V
    <2>3. p \in V
      BY <2>1, <2>2, PlannedStays
    <2> QED BY <1>7, <2>3 DEF V
  <1> HIDE DEF p, tail
  <1>11. /\ Len(plan.changes) \in Nat /\ Len(s) \in Nat
         /\ \A i \in 1..Len(plan.changes) : i \in 1..Len(s) /\ s[i] = plan.changes[i] /\ s[i] \in C
         /\ \A i \in 1..Len(s) : \/ i \in 1..Len(plan.changes) /\ s[i] \in C
                                 \/ s[i] \in R
    <2> DEFINE c == plan.changes
    <2>1. c \in Seq(C \union R) /\ tail \in Seq(C \union R)
      BY <1>8
    <2>2. \A i \in 1..Len(c) : c[i] \in C
      BY <1>8
    <2>3. \A i \in 1..Len(tail) : tail[i] \in R
      BY <1>8
    <2>4. s = c \o tail
      BY <1>9
    <2> HIDE DEF c
    <2>5. /\ c \o tail \in Seq(C \union R)
          /\ \A i \in 1..Len(c) : i \in 1..Len(c \o tail) /\ (c \o tail)[i] = c[i]
          /\ \A i \in 1..Len(c \o tail) : \/ i \in 1..Len(c) /\ (c \o tail)[i] = c[i]
                                          \/ i - Len(c) \in 1..Len(tail) /\ (c \o tail)[i] = tail[i - Len(c)]
      BY ONLY <2>1, ConcatHolds
    <2>6. /\ s \in Seq(C \union R)
          /\ \A i \in 1..Len(c) : i \in 1..Len(s) /\ s[i] = c[i]
          /\ \A i \in 1..Len(s) : \/ i \in 1..Len(c) /\ s[i] = c[i]
                                  \/ i - Len(c) \in 1..Len(tail) /\ s[i] = tail[i - Len(c)]
      BY <2>4, <2>5
    <2>7. Len(c) \in Nat /\ Len(s) \in Nat
      BY <2>1, <2>6
    <2>8. \A i \in 1..Len(s) : \/ i \in 1..Len(c) /\ s[i] \in C
                               \/ s[i] \in R
      BY <2>2, <2>3, <2>6
    <2>9. \A i \in 1..Len(c) : i \in 1..Len(s) /\ s[i] = c[i] /\ s[i] \in C
      BY <2>2, <2>6
    <2> QED BY <2>7, <2>8, <2>9 DEF c
  <1>12. \A i \in 1..Len(s) : s[i].target \in Files => s[i].value = landed.text[s[i].target]
    BY <1>5, <1>11
  <1>13. ASSUME NEW a \in ArtifactsOf(artifacts), NEW i \in 1..Len(s), a.kind = "bridge",
                s[i].target = a.file, OurRows(s[i].value) # <<>>, OurRows(d[a.file]) = <<>>
         PROVE  /\ \E j \in 1..(i - 1) : s[j].target = a.own
                /\ \A j \in 1..(i - 1) : s[j].target = a.own => s[j].value = Written
    <2>1. a.file \in Files /\ a.own \in OwnFiles
      BY <1>0, <1>13, Artifact
    <2>2. a.file \in landed.waited
      <3>1. s[i].value = landed.text[a.file]
        BY <1>12, <1>13, <2>1
      <3>2. landed = LandUnwanted(LandWanted(Untouched(d), all), admitted)
        BY <1>2
      <3>3. OurRows(landed.text[a.file]) # <<>> => a.file \in landed.waited
        BY <1>13, <3>2, RowsWait
      <3> QED BY <1>13, <3>1, <3>3
    <2>3. i \in 1..Len(plan.changes)
      BY <1>5, <1>11, <1>13, <2>1, <2>2
    <2>4. Led(plan.changes, a.file, a.own)
      BY <1>10, <1>13
    <2>5. plan.changes[i].target = a.file
      BY <1>11, <1>13, <2>3
    <2>6. PICK j \in 1..(i - 1) : plan.changes[j].target = a.own
      BY <2>3, <2>4, <2>5 DEF Led
    <2>7. \A k \in 1..(i - 1) : k \in 1..Len(plan.changes)
      BY <1>11, <2>3
    <2> QED BY <1>5, <1>11, <2>1, <2>6, <2>7
  <1>14. \A i, j \in 1..Len(s) :
            s[i].target \in Files /\ s[i].target = s[j].target => s[i].value = s[j].value
    BY <1>12
  <1> QED BY <1>13, <1>14

LEMMA HookBackedStep == HookTyped /\ HookBacked /\ [Next]_vars => HookBacked'
  <1> SUFFICES ASSUME HookTyped, HookBacked, [Next]_vars PROVE HookBacked'
    OBVIOUS
  <1>1. CASE artifacts' = artifacts /\ disk' = disk /\ todo' = todo
    BY <1>1 DEF HookBacked, Covered
  <1>2. CASE Abandon
    <2>1. todo' = <<>> /\ Len(<<>>) = 0
      BY <1>2 DEF Abandon
    <2> QED BY <2>1 DEF HookBacked
  <1>3. CASE \E root \in Roots, agents \in Filters \union {Harnesses} : Sync(root, agents)
    <2>1. PICK root \in Roots, agents \in Filters \union {Harnesses} : Sync(root, agents)
      BY <1>3
    <2>2. PICK hook \in BOOLEAN : todo' = Changes(PlanHooks(disk, root, agents), hook)
      BY <2>1 DEF Sync
    <2>3. Ready(disk) /\ artifacts' = artifacts /\ disk' = disk
      BY <2>1 DEF HookTyped, Ready, Sync
    <2> DEFINE s == todo'
    <2>4. s = Changes(PlanHooks(disk, root, agents), hook)
      BY <2>2
    <2> HIDE DEF s
    <2>5. /\ \A i, j \in 1..Len(s) :
                s[i].target \in Files /\ s[i].target = s[j].target => s[i].value = s[j].value
          /\ \A a \in ArtifactsOf(artifacts) : \A i \in 1..Len(s) :
                a.kind = "bridge" /\ s[i].target = a.file /\ OurRows(s[i].value) # <<>> =>
                   \/ OurRows(disk[a.file]) # <<>>
                   \/ /\ \E j \in 1..(i - 1) : s[j].target = a.own
                      /\ \A j \in 1..(i - 1) : s[j].target = a.own => s[j].value = Written
      BY <2>3, <2>4, PlanBacked
    <2>6. ASSUME NEW a \in ArtifactsOf(artifacts), NEW i \in 1..Len(s),
                 a.kind = "bridge", s[i].target = a.file, OurRows(s[i].value) # <<>>
          PROVE  Covered(a, i)'
      <3>1. \/ OurRows(disk[a.file]) # <<>>
            \/ /\ \E j \in 1..(i - 1) : s[j].target = a.own
               /\ \A j \in 1..(i - 1) : s[j].target = a.own => s[j].value = Written
        BY <2>5, <2>6
      <3> QED BY <2>3, <3>1 DEF Covered, s
    <2> QED BY <2>3, <2>5, <2>6 DEF HookBacked, s
  <1>4. CASE Apply
    <2> DEFINE c == Head(todo)
    <2>1. /\ c \in ChangeForms /\ c = todo[1] /\ Len(todo) \in Nat \ {0} /\ disk'[c.target] = c.value
          /\ \A f \in Files \union OwnFiles : f # c.target => disk'[f] = disk[f]
          /\ \A i \in 1..Len(todo') : todo'[i] = todo[i + 1] /\ i + 1 \in 1..Len(todo)
          /\ artifacts' = artifacts
      BY <1>4, ApplyIs
    <2> HIDE DEF c
    <2>2. \A i, j \in 1..Len(todo') :
             todo'[i].target \in Files /\ todo'[i].target = todo'[j].target => todo'[i].value = todo'[j].value
      BY <2>1, SMTT(30) DEF HookBacked
    <2>3. ASSUME NEW a \in ArtifactsOf(artifacts), NEW i \in 1..Len(todo'),
                 a.kind = "bridge", todo'[i].target = a.file, OurRows(todo'[i].value) # <<>>
          PROVE  Covered(a, i)'
      <3>0. /\ a.file \in Files /\ a.own \in OwnFiles /\ a.file # a.own
            /\ i \in Nat \ {0} /\ (i + 1) - 1 = i
        <4>1. Declares /\ todo' \in Seq(ChangeForms)
          BY <1>4, ApplyIs DEF HookTyped
        <4>2. a.file \in Files /\ a.own \in OwnFiles
          BY <2>3, <4>1, Artifact
        <4>3. Len(todo') \in Nat
          BY <4>1
        <4> QED BY <4>2, <4>3, NamesDeclared
      <3>1. Covered(a, i + 1)
        BY <2>1, <2>3 DEF HookBacked
      <3>2. CASE c.target = a.file
        <4>1. c.value = todo'[i].value
          <5>1. /\ 1 \in 1..Len(todo) /\ i + 1 \in 1..Len(todo) /\ todo[i + 1] = todo'[i]
                /\ todo[1] = c /\ c.target = todo[i + 1].target /\ c.target \in Files
            BY <2>1, <2>3, <3>0, <3>2
          <5> QED BY <5>1 DEF HookBacked
        <4>2. OurRows(disk'[a.file]) # <<>>
          BY <2>1, <2>3, <3>2, <4>1
        <4> QED BY <4>2 DEF Covered
      <3>3. CASE c.target # a.file
        <4>1. disk'[a.file] = disk[a.file]
          BY <2>1, <3>0, <3>3
        <4>2. CASE OurRows(disk[a.file]) # <<>>
          BY <4>1, <4>2 DEF Covered
        <4>3. CASE OurRows(disk[a.file]) = <<>>
          <5>1. /\ disk[a.own] # Missing \/ \E j \in 1..i : todo[j].target = a.own
                /\ \A j \in 1..i : todo[j].target = a.own => todo[j].value = Written
            BY <3>0, <3>1, <4>3 DEF Covered
          <5>2. \A j \in 1..(i - 1) : j + 1 \in 1..i /\ j \in 1..Len(todo') /\ todo'[j] = todo[j + 1]
            BY <2>1, <3>0
          <5>3. \A j \in 1..(i - 1) : todo'[j].target = a.own => todo'[j].value = Written
            BY <5>1, <5>2
          <5>4. CASE c.target = a.own
            <6>1. c.value = Written
              <7>1. 1 \in 1..i
                BY <3>0
              <7> QED BY <2>1, <5>1, <5>4, <7>1
            <6>2. disk'[a.own] # Missing
              <7>1. Written # Missing
                BY DEF Written, Missing
              <7> QED BY <2>1, <5>4, <6>1, <7>1
            <6> QED BY <5>3, <6>2 DEF Covered
          <5>5. CASE c.target # a.own
            <6>1. disk'[a.own] = disk[a.own]
              BY <2>1, <3>0, <5>5
            <6>2. CASE disk[a.own] # Missing
              BY <5>3, <6>1, <6>2 DEF Covered
            <6>3. CASE disk[a.own] = Missing
              <7>1. PICK j \in 1..i : todo[j].target = a.own
                BY <5>1, <6>3
              <7>2. j # 1
                BY <2>1, <5>5, <7>1
              <7>3. j - 1 \in 1..(i - 1) /\ (j - 1) + 1 = j
                BY <3>0, <7>2
              <7>4. todo'[j - 1] = todo[j]
                BY <5>2, <7>3
              <7> QED BY <5>3, <7>1, <7>3, <7>4 DEF Covered
            <6> QED BY <6>2, <6>3
          <5> QED BY <5>4, <5>5
        <4> QED BY <4>2, <4>3
      <3> QED BY <3>2, <3>3
    <2> QED BY <2>1, <2>2, <2>3 DEF HookBacked
  <1> QED BY <1>1, <1>2, <1>3, <1>4 DEF Next, vars, RemoveLast, Add, SetAccess

LEMMA RowBackedStep ==
  HookTyped /\ HookBacked /\ [Next]_vars =>
     [\A a \in ArtifactsOf(artifacts) :
         (a.kind = "bridge" /\ OursAt(disk, a) = <<>> /\ OursAt(disk', a) # <<>>) =>
            disk'[a.own] # Missing]_vars
  <1> SUFFICES ASSUME HookTyped, HookBacked, Next, NEW a \in ArtifactsOf(artifacts),
                      a.kind = "bridge", OursAt(disk, a) = <<>>, OursAt(disk', a) # <<>>
               PROVE  disk'[a.own] # Missing
    OBVIOUS
  <1>1. OurRows(disk[a.file]) = <<>> /\ OurRows(disk'[a.file]) # <<>>
    BY DEF OursAt
  <1>2. disk' # disk
    BY <1>1
  <1>3. Apply
    BY <1>2 DEF Next, RemoveLast, Add, Sync, Abandon, SetAccess
  <1> DEFINE c == Head(todo)
  <1>4. /\ c = todo[1] /\ Len(todo) \in Nat \ {0} /\ disk'[c.target] = c.value
        /\ \A f \in Files \union OwnFiles : f # c.target => disk'[f] = disk[f]
    BY <1>3, ApplyIs
  <1> HIDE DEF c
  <1>5. a.file \in Files /\ a.own \in OwnFiles /\ a.file # a.own
    BY Artifact, NamesDeclared DEF HookTyped
  <1>6. c.target = a.file
    BY <1>1, <1>4, <1>5
  <1>7. Covered(a, 1)
    BY <1>1, <1>4, <1>6 DEF HookBacked
  <1>8. disk[a.own] # Missing
    BY <1>1, <1>7 DEF Covered
  <1> QED BY <1>4, <1>5, <1>6, <1>8

\* A bridge row appears over a hooks file that is there: every plan writes that
\* file right before the row, a kill may fall between the two, and nothing that
\* is still to be carried out before the row takes the file away.
THEOREM RowsBacked == HookSpec => RowBacked
  <1>1. Init => HookBacked
    BY DEF Init, HookBacked
  <1>2. HookTyped /\ HookBacked /\ [Next]_vars => HookBacked'
    BY HookBackedStep
  <1> QED BY <1>1, <1>2, HookTypes, RowBackedStep, PTL DEF HookSpec, RowBacked

=============================================================================
