--------------------------- MODULE SequenceLemmas ---------------------------
(***************************************************************************)
(* What Keep, FirstOf and MergeUnique of BuildPlan return for every sequence.*)
(* Both are recursive over a sequence; the induction is over sets, as a least*)
(* counterexample that a well-founded order gives.                          *)
(***************************************************************************)
EXTENDS BuildPlan, TLAPS, WellFoundedInduction, SequenceTheorems

\* Induction, over the numbers and over the sequences, as statements about sets.
LEMMA NatSetInduction ==
    ASSUME NEW G, 0 \in G, \A n \in Nat : n \in G => n + 1 \in G
    PROVE  Nat \subseteq G
<1> DEFINE Bad == Nat \ G
           R   == {p \in Nat \X Nat : p[1] < p[2]}
<1>1. SUFFICES ASSUME Bad # {} PROVE FALSE
  OBVIOUS
<1>2. IsWellFoundedOn(R, Nat)
  BY NatLessThanWellFounded DEF OpToRel
<1> HIDE DEF R
<1>3. PICK m \in Bad : \A n \in Bad : ~(<<n, m>> \in R)
  BY <1>1, <1>2, WFMin
<1>4. m \in Nat \ {0} /\ m - 1 \in Nat /\ m - 1 < m
  <2>1. m \in Nat /\ m # 0
    OBVIOUS
  <2>. QED  BY <2>1
<1>5. <<m - 1, m>> \in R
  BY <1>4 DEF R
<1>6. m - 1 \in G
  BY <1>3, <1>4, <1>5
<1>7. (m - 1) + 1 = m
  BY <1>4
<1>. QED  BY <1>4, <1>6, <1>7

LEMMA SeqSetInduction ==
    ASSUME NEW T, NEW G, <<>> \in G, \A s \in Seq(T) \intersect G, e \in T : Append(s, e) \in G
    PROVE  Seq(T) \subseteq G
<1> DEFINE H == {n \in Nat : \A s \in Seq(T) : Len(s) = n => s \in G}
<1>1. 0 \in H
  BY EmptySeq
<1>2. ASSUME NEW n \in Nat, n \in H PROVE n + 1 \in H
  <2>1. ASSUME NEW s \in Seq(T), Len(s) = n + 1 PROVE s \in G
    <3>1. s # <<>>
      BY <2>1
    <3>2. PICK t \in Seq(T), e \in T : s = Append(t, e)
      BY <3>1, SequenceEmptyOrAppend
    <3>3. Len(t) = n
      BY <2>1, <3>2, AppendProperties, LenProperties
    <3>. QED  BY <1>2, <3>2, <3>3
  <2>. QED  BY <2>1
<1> HIDE DEF H
<1>3. Nat \subseteq H
  BY <1>1, <1>2, NatSetInduction
<1>. QED  BY <1>3, LenProperties DEF H

\* A function on 0..n that is given by its first value and by each value's successor.
Grown(f, n, base, step) ==
    f = [i \in 0..n |-> IF i = 0 THEN base ELSE step[i][f[i - 1]]]

LEMMA GrownExists ==
    ASSUME NEW V, NEW base \in V, NEW step, \A i \in Nat \ {0} : step[i] \in [V -> V], NEW n \in Nat
    PROVE  \E f \in [0..n -> V] : Grown(f, n, base, step)
<1> DEFINE G == {m \in Nat : \E f \in [0..m -> V] : Grown(f, m, base, step)}
<1>1. 0 \in G
  <2> DEFINE f == [i \in 0..0 |-> base]
  <2>1. f \in [0..0 -> V]
    OBVIOUS
  <2>2. Grown(f, 0, base, step)
    BY DEF Grown
  <2>. QED  BY <2>1, <2>2
<1>2. ASSUME NEW m \in Nat, m \in G PROVE m + 1 \in G
  <2>1. PICK f \in [0..m -> V] : Grown(f, m, base, step)
    BY <1>2
  <2> DEFINE g == [i \in 0..(m + 1) |-> IF i = m + 1 THEN step[m + 1][f[m]] ELSE f[i]]
  <2>2. step[m + 1][f[m]] \in V
    OBVIOUS
  <2>3. g \in [0..(m + 1) -> V]
    BY <2>2
  <2>4. ASSUME NEW i \in 0..(m + 1)
        PROVE  g[i] = IF i = 0 THEN base ELSE step[i][g[i - 1]]
    <3>1. CASE i = m + 1
      BY <3>1
    <3>2. CASE i \in 0..m
      <4>1. f[i] = IF i = 0 THEN base ELSE step[i][f[i - 1]]
        BY <2>1, <3>2 DEF Grown
      <4>2. g[i] = f[i] /\ (i # 0 => g[i - 1] = f[i - 1])
        BY <3>2
      <4>. QED  BY <4>1, <4>2
    <3>. QED  BY <3>1, <3>2
  <2>5. Grown(g, m + 1, base, step)
    BY <2>4 DEF Grown
  <2>. QED  BY <2>3, <2>5
<1> HIDE DEF G
<1>3. Nat \subseteq G
  BY <1>1, <1>2, NatSetInduction
<1>. QED  BY <1>3 DEF G

\* One that goes on for longer begins with the same values.
LEMMA GrownFurther ==
    ASSUME NEW m \in Nat, NEW base, NEW f, NEW g, NEW s1, NEW s2,
           Grown(f, m, base, s1), Grown(g, m + 1, base, s2),
           \A i \in 1..m : s1[i] = s2[i]
    PROVE  g[m + 1] = s2[m + 1][f[m]]
<1>1. ASSUME NEW i \in 1..m PROVE f[i] = s1[i][f[i - 1]] /\ g[i] = s2[i][g[i - 1]]
  <2>1. i \in 0..m /\ i \in 0..(m + 1) /\ i # 0
    OBVIOUS
  <2>2. f[i] = s1[i][f[i - 1]]
    BY <2>1 DEF Grown
  <2>3. g[i] = s2[i][g[i - 1]]
    BY <2>1 DEF Grown
  <2>. QED  BY <2>2, <2>3
<1> DEFINE G == {i \in Nat : i <= m => f[i] = g[i]}
<1>2. 0 \in G
  BY DEF Grown
<1>3. ASSUME NEW i \in Nat, i \in G PROVE i + 1 \in G
  <2>1. ASSUME i + 1 <= m PROVE f[i + 1] = g[i + 1]
    <3>1. f[i] = g[i] /\ i + 1 \in 1..m /\ (i + 1) - 1 = i
      BY <1>3, <2>1
    <3>. QED  BY <1>1, <3>1
  <2>. QED  BY <2>1
<1> HIDE DEF G
<1>4. Nat \subseteq G
  BY <1>2, <1>3, NatSetInduction
<1>5. f[m] = g[m]
  BY <1>4 DEF G
<1>6. m + 1 \in 0..(m + 1) /\ m + 1 # 0 /\ (m + 1) - 1 = m
  OBVIOUS
<1>7. g[m + 1] = s2[m + 1][g[(m + 1) - 1]]
  BY <1>6 DEF Grown
<1>. QED  BY <1>5, <1>6, <1>7

-----------------------------------------------------------------------------
(* Keep. *)

KeepSteps(s, S, T) ==
    [i \in Nat \ {0} |-> [v \in Seq(T) |->
        IF i \in 1..Len(s) THEN AppendIf(v, s[i], S) ELSE v]]

LEMMA AppendIfType ==
    ASSUME NEW T, NEW S, NEW s \in Seq(T), NEW e \in T
    PROVE  AppendIf(s, e, S) \in Seq(T)
  BY AppendProperties DEF AppendIf

LEMMA KeepIsGrown ==
    ASSUME NEW T, NEW S, NEW s \in Seq(T)
    PROVE  \E f \in [0..Len(s) -> Seq(T)] :
              Grown(f, Len(s), <<>>, KeepSteps(s, S, T)) /\ Keep(s, S) = f[Len(s)]
<1> DEFINE n == Len(s)
<1>1. n \in Nat /\ \A i \in 1..n : s[i] \in T
  BY LenProperties, ElementOfSeq
<1>2. \A i \in Nat \ {0} : KeepSteps(s, S, T)[i] \in [Seq(T) -> Seq(T)]
  BY <1>1, AppendIfType DEF KeepSteps
<1> HIDE DEF n
<1> DEFINE Kept(f) == f = [i \in 0..n |-> IF i = 0 THEN <<>> ELSE AppendIf(f[i - 1], s[i], S)]
<1>3. PICK g \in [0..n -> Seq(T)] : Grown(g, n, <<>>, KeepSteps(s, S, T))
  BY <1>1, <1>2, EmptySeq, GrownExists
<1>4. ASSUME NEW i \in 1..n PROVE g[i] = AppendIf(g[i - 1], s[i], S)
  <2>1. i \in 0..n /\ i - 1 \in 0..n /\ g[i - 1] \in Seq(T) /\ i \in Nat \ {0}
    BY <1>1
  <2>2. g[i] = KeepSteps(s, S, T)[i][g[i - 1]]
    BY <1>3, <2>1 DEF Grown
  <2>. QED  BY <2>1, <2>2 DEF KeepSteps, n
<1>5. g[0] = <<>>
  BY <1>1, <1>3 DEF Grown
<1>6. Kept(g)
  BY <1>1, <1>4, <1>5
<1>7. ASSUME NEW f, Kept(f) PROVE f[n] = g[n]
  <2> DEFINE G == {i \in Nat : i <= n => f[i] = g[i]}
  <2>1. 0 \in G
    BY <1>1, <1>5, <1>7
  <2>2. ASSUME NEW i \in Nat, i \in G PROVE i + 1 \in G
    <3>1. ASSUME i + 1 <= n PROVE f[i + 1] = g[i + 1]
      <4>1. i + 1 \in 1..n /\ i + 1 \in 0..n /\ i + 1 # 0 /\ (i + 1) - 1 = i /\ f[i] = g[i]
        BY <1>1, <2>2, <3>1
      <4>2. f[i + 1] = AppendIf(f[i], s[i + 1], S)
        BY <1>7, <4>1
      <4>3. g[i + 1] = AppendIf(g[i], s[i + 1], S)
        BY <1>4, <4>1
      <4>. QED  BY <4>1, <4>2, <4>3
    <3>. QED  BY <3>1
  <2> HIDE DEF G
  <2>3. Nat \subseteq G
    BY <2>1, <2>2, NatSetInduction
  <2>. QED  BY <1>1, <2>3 DEF G
<1> DEFINE k == CHOOSE f : Kept(f)
<1>8. Keep(s, S) = k[n]
  BY DEF Keep, n
<1>9. Kept(k)
  BY <1>6
<1> HIDE DEF k, Kept
<1>. QED  BY <1>3, <1>7, <1>8, <1>9 DEF n

LEMMA KeepAppend ==
    ASSUME NEW T, NEW S, NEW s \in Seq(T), NEW e \in T
    PROVE  /\ Keep(s, S) \in Seq(T)
           /\ Keep(Append(s, e), S) = AppendIf(Keep(s, S), e, S)
<1> DEFINE n == Len(s)
           t == Append(s, e)
           A == KeepSteps(s, S, T)
           B == KeepSteps(t, S, T)
<1>1. /\ n \in Nat /\ t \in Seq(T) /\ Len(t) = n + 1 /\ t[n + 1] = e
      /\ \A i \in 1..n : t[i] = s[i]
  BY AppendProperties, LenProperties
<1>2. PICK f : f \in [0..n -> Seq(T)] /\ Grown(f, n, <<>>, A) /\ Keep(s, S) = f[n]
  BY KeepIsGrown
<1> HIDE DEF t
<1>3. PICK g : g \in [0..(n + 1) -> Seq(T)] /\ Grown(g, n + 1, <<>>, B) /\ Keep(t, S) = g[n + 1]
  BY <1>1, KeepIsGrown
<1>4. ASSUME NEW i \in 1..n PROVE A[i] = B[i]
  <2>1. /\ i \in Nat \ {0} /\ i \in 1..Len(s) /\ i \in 1..Len(t) /\ t[i] = s[i]
    BY <1>1
  <2>. QED  BY <2>1 DEF KeepSteps
<1> HIDE DEF n, A, B
<1>5. g[n + 1] = B[n + 1][f[n]]
  <2>1. n \in Nat /\ Grown(f, n, <<>>, A) /\ Grown(g, n + 1, <<>>, B)
    BY <1>1, <1>2, <1>3
  <2>2. \A i \in 1..n : A[i] = B[i]
    BY <1>4
  <2>. QED  BY ONLY <2>1, <2>2, GrownFurther
<1>6. f[n] \in Seq(T) /\ n + 1 \in Nat \ {0} /\ n + 1 \in 1..Len(t)
  BY <1>1, <1>2
<1>7. B[n + 1][f[n]] = AppendIf(f[n], e, S)
  BY <1>1, <1>6 DEF KeepSteps, B
<1>. QED  BY <1>2, <1>3, <1>5, <1>6, <1>7 DEF t

LEMMA KeepEmpty == \A S : Keep(<<>>, S) = <<>>
<1>1. ASSUME NEW S PROVE Keep(<<>>, S) = <<>>
  <2>1. <<>> \in Seq({}) /\ Len(<<>>) = 0
    BY EmptySeq
  <2>2. PICK f \in [0..Len(<<>>) -> Seq({})] :
           Grown(f, Len(<<>>), <<>>, KeepSteps(<<>>, S, {})) /\ Keep(<<>>, S) = f[Len(<<>>)]
    BY <2>1, KeepIsGrown
  <2>. QED  BY <2>1, <2>2 DEF Grown
<1>. QED  BY <1>1
-----------------------------------------------------------------------------
(* MergeUnique. *)

MergeSteps(t, T) ==
    [i \in Nat \ {0} |-> [v \in Seq(T) |->
        IF i \in 1..Len(t) THEN AppendUnique(v, t[i]) ELSE v]]

LEMMA AppendUniqueType ==
    ASSUME NEW T, NEW s \in Seq(T), NEW e \in T
    PROVE  AppendUnique(s, e) \in Seq(T)
  BY AppendProperties DEF AppendUnique

LEMMA MergeIsGrown ==
    ASSUME NEW T, NEW s \in Seq(T), NEW t \in Seq(T)
    PROVE  \E f \in [0..Len(t) -> Seq(T)] :
              Grown(f, Len(t), s, MergeSteps(t, T)) /\ MergeUnique(s, t) = f[Len(t)]
<1> DEFINE n == Len(t)
<1>1. n \in Nat /\ \A i \in 1..n : t[i] \in T
  BY LenProperties, ElementOfSeq
<1>2. \A i \in Nat \ {0} : MergeSteps(t, T)[i] \in [Seq(T) -> Seq(T)]
  BY <1>1, AppendUniqueType DEF MergeSteps
<1> HIDE DEF n
<1> DEFINE Merged(f) == f = [i \in 0..n |-> IF i = 0 THEN s ELSE AppendUnique(f[i - 1], t[i])]
<1>3. PICK g \in [0..n -> Seq(T)] : Grown(g, n, s, MergeSteps(t, T))
  BY <1>1, <1>2, GrownExists
<1>4. ASSUME NEW i \in 1..n PROVE g[i] = AppendUnique(g[i - 1], t[i])
  <2>1. i \in 0..n /\ i - 1 \in 0..n /\ g[i - 1] \in Seq(T) /\ i \in Nat \ {0}
    BY <1>1
  <2>2. g[i] = MergeSteps(t, T)[i][g[i - 1]]
    BY <1>3, <2>1 DEF Grown
  <2>. QED  BY <2>1, <2>2 DEF MergeSteps, n
<1>5. g[0] = s
  BY <1>1, <1>3 DEF Grown
<1>6. Merged(g)
  BY <1>1, <1>4, <1>5
<1>7. ASSUME NEW f, Merged(f) PROVE f[n] = g[n]
  <2> DEFINE G == {i \in Nat : i <= n => f[i] = g[i]}
  <2>1. 0 \in G
    BY <1>1, <1>5, <1>7
  <2>2. ASSUME NEW i \in Nat, i \in G PROVE i + 1 \in G
    <3>1. ASSUME i + 1 <= n PROVE f[i + 1] = g[i + 1]
      <4>1. i + 1 \in 1..n /\ i + 1 \in 0..n /\ i + 1 # 0 /\ (i + 1) - 1 = i /\ f[i] = g[i]
        BY <1>1, <2>2, <3>1
      <4>2. f[i + 1] = AppendUnique(f[i], t[i + 1])
        BY <1>7, <4>1
      <4>3. g[i + 1] = AppendUnique(g[i], t[i + 1])
        BY <1>4, <4>1
      <4>. QED  BY <4>1, <4>2, <4>3
    <3>. QED  BY <3>1
  <2> HIDE DEF G
  <2>3. Nat \subseteq G
    BY <2>1, <2>2, NatSetInduction
  <2>. QED  BY <1>1, <2>3 DEF G
<1> DEFINE k == CHOOSE f : Merged(f)
<1>8. MergeUnique(s, t) = k[n]
  BY DEF MergeUnique, n
<1>9. Merged(k)
  BY <1>6
<1> HIDE DEF k, Merged
<1>. QED  BY <1>3, <1>7, <1>8, <1>9 DEF n

\* One command more to merge; nothing to merge.
LEMMA MergeAppend ==
    ASSUME NEW T, NEW s \in Seq(T), NEW u \in Seq(T), NEW e \in T
    PROVE  /\ MergeUnique(s, u) \in Seq(T)
           /\ MergeUnique(s, Append(u, e)) = AppendUnique(MergeUnique(s, u), e)
<1> DEFINE n == Len(u)
           t == Append(u, e)
           A == MergeSteps(u, T)
           B == MergeSteps(t, T)
<1>1. /\ n \in Nat /\ t \in Seq(T) /\ Len(t) = n + 1 /\ t[n + 1] = e
      /\ \A i \in 1..n : t[i] = u[i]
  BY AppendProperties, LenProperties
<1>2. PICK f : f \in [0..n -> Seq(T)] /\ Grown(f, n, s, A) /\ MergeUnique(s, u) = f[n]
  BY MergeIsGrown
<1> HIDE DEF t
<1>3. PICK g : g \in [0..(n + 1) -> Seq(T)] /\ Grown(g, n + 1, s, B) /\ MergeUnique(s, t) = g[n + 1]
  BY <1>1, MergeIsGrown
<1>4. ASSUME NEW i \in 1..n PROVE A[i] = B[i]
  <2>1. /\ i \in Nat \ {0} /\ i \in 1..Len(u) /\ i \in 1..Len(t) /\ t[i] = u[i]
    BY <1>1
  <2>. QED  BY <2>1 DEF MergeSteps
<1> HIDE DEF n, A, B
<1>5. g[n + 1] = B[n + 1][f[n]]
  <2>1. n \in Nat /\ Grown(f, n, s, A) /\ Grown(g, n + 1, s, B)
    BY <1>1, <1>2, <1>3
  <2>2. \A i \in 1..n : A[i] = B[i]
    BY <1>4
  <2>. QED  BY ONLY <2>1, <2>2, GrownFurther
<1>6. f[n] \in Seq(T) /\ n + 1 \in Nat \ {0} /\ n + 1 \in 1..Len(t)
  BY <1>1, <1>2
<1>7. B[n + 1][f[n]] = AppendUnique(f[n], e)
  BY <1>1, <1>6 DEF MergeSteps, B
<1>. QED  BY <1>2, <1>3, <1>5, <1>6, <1>7 DEF t

LEMMA MergeNothing == ASSUME NEW T, NEW s \in Seq(T) PROVE MergeUnique(s, <<>>) = s
<1>1. <<>> \in Seq(T) /\ Len(<<>>) = 0
  BY EmptySeq
<1>2. PICK f \in [0..Len(<<>>) -> Seq(T)] :
         Grown(f, Len(<<>>), s, MergeSteps(<<>>, T)) /\ MergeUnique(s, <<>>) = f[Len(<<>>)]
  BY <1>1, MergeIsGrown
<1>. QED  BY <1>1, <1>2 DEF Grown
-----------------------------------------------------------------------------
(* What Keep and MergeUnique return, by induction over their sequences. *)

LEMMA ToSetFacts ==
    ASSUME NEW T, NEW s \in Seq(T)
    PROVE  /\ ToSet(<<>>) = {} /\ ToSet(s) \subseteq T
           /\ \A e \in T : ToSet(Append(s, e)) = ToSet(s) \union {e}
<1>1. ToSet(<<>>) = {}
  BY DEF ToSet
<1>2. ToSet(s) \subseteq T
  BY LenProperties, ElementOfSeq DEF ToSet
<1>3. ASSUME NEW e \in T PROVE ToSet(Append(s, e)) = ToSet(s) \union {e}
  <2> DEFINE t == Append(s, e)
             n == Len(s)
  <2>1. /\ n \in Nat /\ DOMAIN s = 1..n /\ DOMAIN t = 1..(n + 1) /\ t[n + 1] = e
        /\ \A i \in 1..n : t[i] = s[i]
    BY AppendProperties, LenProperties
  <2> HIDE DEF t, n
  <2>2. 1..(n + 1) = 1..n \union {n + 1}
    BY <2>1
  <2>3. ToSet(t) = {t[i] : i \in 1..(n + 1)} /\ ToSet(s) = {s[i] : i \in 1..n}
    BY <2>1 DEF ToSet
  <2>4. ToSet(t) = {t[i] : i \in 1..n} \union {e}
    BY <2>1, <2>2, <2>3
  <2>. QED  BY <2>1, <2>3, <2>4 DEF t
<1>. QED  BY <1>1, <1>2, <1>3

LEMMA KeepType ==
    ASSUME NEW T, NEW S, NEW s \in Seq(T)
    PROVE  Keep(s, S) \in Seq(T) /\ ToSet(Keep(s, S)) \subseteq S
<1> DEFINE G == {u \in Seq(T) : Keep(u, S) \in Seq(T) /\ ToSet(Keep(u, S)) \subseteq S}
<1>1. <<>> \in G
  <2>1. <<>> \in Seq(T) /\ ToSet(<<>>) = {}
    BY EmptySeq, ToSetFacts
  <2>2. Keep(<<>>, S) = <<>>
    BY KeepEmpty
  <2>. QED  BY <2>1, <2>2
<1>2. ASSUME NEW u \in Seq(T) \intersect G, NEW e \in T PROVE Append(u, e) \in G
  <2>1. Append(u, e) \in Seq(T)
    BY AppendProperties
  <2>2. Keep(u, S) \in Seq(T) /\ Keep(Append(u, e), S) = AppendIf(Keep(u, S), e, S)
    BY KeepAppend
  <2>3. AppendIf(Keep(u, S), e, S) \in Seq(T)
    BY <2>2, AppendIfType
  <2>4. ToSet(AppendIf(Keep(u, S), e, S)) \subseteq S
    BY <2>2, ToSetFacts DEF AppendIf
  <2>. QED  BY <2>1, <2>2, <2>3, <2>4
<1> HIDE DEF G
<1>3. Seq(T) \subseteq G
  BY <1>1, <1>2, SeqSetInduction
<1>. QED  BY <1>3 DEF G

\* Only the elements that the sequence has make a difference.
LEMMA KeepSame ==
    ASSUME NEW T, NEW R, NEW S, NEW s \in Seq(T), \A e \in ToSet(s) : e \in R <=> e \in S
    PROVE  Keep(s, R) = Keep(s, S)
<1> DEFINE G == {u \in Seq(T) : (\A e \in ToSet(u) : e \in R <=> e \in S) => Keep(u, R) = Keep(u, S)}
<1>1. <<>> \in G
  BY EmptySeq, KeepEmpty
<1>2. ASSUME NEW u \in Seq(T) \intersect G, NEW e \in T PROVE Append(u, e) \in G
  <2>1. Append(u, e) \in Seq(T)
    BY AppendProperties
  <2>2. /\ Keep(Append(u, e), R) = AppendIf(Keep(u, R), e, R)
        /\ Keep(Append(u, e), S) = AppendIf(Keep(u, S), e, S)
    BY KeepAppend
  <2>3. ToSet(Append(u, e)) = ToSet(u) \union {e}
    BY ToSetFacts
  <2>. QED  BY <2>1, <2>2, <2>3 DEF AppendIf
<1> HIDE DEF G
<1>3. Seq(T) \subseteq G
  BY <1>1, <1>2, SeqSetInduction
<1>. QED  BY <1>3 DEF G

LEMMA KeepAll ==
    ASSUME NEW T, NEW S, NEW s \in Seq(T)
    PROVE  /\ ToSet(s) \subseteq S => Keep(s, S) = s
           /\ ToSet(s) \intersect S = {} => Keep(s, S) = <<>>
<1> DEFINE G == {u \in Seq(T) : /\ ToSet(u) \subseteq S => Keep(u, S) = u
                                /\ ToSet(u) \intersect S = {} => Keep(u, S) = <<>>}
<1>1. <<>> \in G
  BY EmptySeq, KeepEmpty
<1>2. ASSUME NEW u \in Seq(T) \intersect G, NEW e \in T PROVE Append(u, e) \in G
  <2>1. Append(u, e) \in Seq(T)
    BY AppendProperties
  <2>2. Keep(Append(u, e), S) = AppendIf(Keep(u, S), e, S)
    BY KeepAppend
  <2>3. ToSet(Append(u, e)) = ToSet(u) \union {e}
    BY ToSetFacts
  <2>. QED  BY <2>1, <2>2, <2>3 DEF AppendIf
<1> HIDE DEF G
<1>3. Seq(T) \subseteq G
  BY <1>1, <1>2, SeqSetInduction
<1>. QED  BY <1>3 DEF G

LEMMA ConcatAppend ==
    ASSUME NEW T, NEW s \in Seq(T), NEW t \in Seq(T), NEW e \in T
    PROVE  s \o Append(t, e) = Append(s \o t, e)
<1>1. <<e>> \in Seq(T) /\ s \o t \in Seq(T)
  BY ConcatProperties
<1>2. Append(t, e) = t \o <<e>> /\ Append(s \o t, e) = (s \o t) \o <<e>>
  BY <1>1, AppendIsConcat
<1>. QED  BY <1>1, <1>2, ConcatAssociative

LEMMA KeepConcat ==
    ASSUME NEW T, NEW S, NEW s \in Seq(T), NEW t \in Seq(T)
    PROVE  Keep(s \o t, S) = Keep(s, S) \o Keep(t, S)
<1> DEFINE G == {u \in Seq(T) : Keep(s \o u, S) = Keep(s, S) \o Keep(u, S)}
<1>1. <<>> \in G
  BY EmptySeq, KeepEmpty, KeepType, ConcatEmptySeq
<1>2. ASSUME NEW u \in Seq(T) \intersect G, NEW e \in T PROVE Append(u, e) \in G
  <2>1. Append(u, e) \in Seq(T) /\ s \o u \in Seq(T)
    BY AppendProperties, ConcatProperties
  <2>2. s \o Append(u, e) = Append(s \o u, e)
    BY ConcatAppend
  <2>3. Keep(s \o Append(u, e), S) = AppendIf(Keep(s \o u, S), e, S)
    BY <2>1, <2>2, KeepAppend
  <2>4. Keep(Append(u, e), S) = AppendIf(Keep(u, S), e, S)
    BY KeepAppend
  <2>5. Keep(s, S) \in Seq(T) /\ Keep(u, S) \in Seq(T)
    BY KeepType
  <2>6. Keep(s, S) \o Append(Keep(u, S), e) = Append(Keep(s, S) \o Keep(u, S), e)
    BY <2>5, ConcatAppend
  <2>7. Keep(s, S) \o AppendIf(Keep(u, S), e, S) = AppendIf(Keep(s, S) \o Keep(u, S), e, S)
    BY <2>6 DEF AppendIf
  <2>. QED  BY <2>1, <2>3, <2>4, <2>7
<1> HIDE DEF G
<1>3. Seq(T) \subseteq G
  BY <1>1, <1>2, SeqSetInduction
<1>. QED  BY <1>3 DEF G

\* The merged list has the commands of both.
LEMMA MergeType ==
    ASSUME NEW T, NEW s \in Seq(T), NEW t \in Seq(T)
    PROVE  /\ MergeUnique(s, t) \in Seq(T)
           /\ ToSet(MergeUnique(s, t)) = ToSet(s) \union ToSet(t)
<1> DEFINE G == {u \in Seq(T) : /\ MergeUnique(s, u) \in Seq(T)
                                /\ ToSet(MergeUnique(s, u)) = ToSet(s) \union ToSet(u)}
<1>1. <<>> \in G
  BY EmptySeq, MergeNothing, ToSetFacts
<1>2. ASSUME NEW u \in Seq(T) \intersect G, NEW e \in T PROVE Append(u, e) \in G
  <2>1. Append(u, e) \in Seq(T)
    BY AppendProperties
  <2>2. MergeUnique(s, u) \in Seq(T) /\ MergeUnique(s, Append(u, e)) = AppendUnique(MergeUnique(s, u), e)
    BY MergeAppend
  <2>3. ToSet(Append(u, e)) = ToSet(u) \union {e}
    BY ToSetFacts
  <2>4. AppendUnique(MergeUnique(s, u), e) \in Seq(T)
    BY <2>2, AppendUniqueType
  <2>5. ToSet(AppendUnique(MergeUnique(s, u), e)) = ToSet(MergeUnique(s, u)) \union {e}
    BY <2>2, ToSetFacts DEF AppendUnique
  <2>. QED  BY <2>1, <2>2, <2>3, <2>4, <2>5
<1> HIDE DEF G
<1>3. Seq(T) \subseteq G
  BY <1>1, <1>2, SeqSetInduction
<1>. QED  BY <1>3 DEF G

LEMMA MergeKnown ==
    ASSUME NEW T, NEW s \in Seq(T), NEW t \in Seq(T), ToSet(t) \subseteq ToSet(s)
    PROVE  MergeUnique(s, t) = s
<1> DEFINE G == {u \in Seq(T) : ToSet(u) \subseteq ToSet(s) => MergeUnique(s, u) = s}
<1>1. <<>> \in G
  BY EmptySeq, MergeNothing
<1>2. ASSUME NEW u \in Seq(T) \intersect G, NEW e \in T PROVE Append(u, e) \in G
  <2>1. Append(u, e) \in Seq(T)
    BY AppendProperties
  <2>2. MergeUnique(s, Append(u, e)) = AppendUnique(MergeUnique(s, u), e)
    BY MergeAppend
  <2>3. ToSet(Append(u, e)) = ToSet(u) \union {e}
    BY ToSetFacts
  <2>. QED  BY <2>1, <2>2, <2>3 DEF AppendUnique
<1> HIDE DEF G
<1>3. Seq(T) \subseteq G
  BY <1>1, <1>2, SeqSetInduction
<1>. QED  BY <1>3 DEF G

LEMMA MergeConcat ==
    ASSUME NEW T, NEW s \in Seq(T), NEW t \in Seq(T), NEW w \in Seq(T)
    PROVE  MergeUnique(MergeUnique(s, t), w) = MergeUnique(s, t \o w)
<1> DEFINE G == {u \in Seq(T) : MergeUnique(MergeUnique(s, t), u) = MergeUnique(s, t \o u)}
<1>0. MergeUnique(s, t) \in Seq(T)
  BY MergeType
<1>1. <<>> \in G
  BY <1>0, EmptySeq, MergeNothing, ConcatEmptySeq
<1>2. ASSUME NEW u \in Seq(T) \intersect G, NEW e \in T PROVE Append(u, e) \in G
  <2>1. Append(u, e) \in Seq(T) /\ t \o u \in Seq(T)
    BY AppendProperties, ConcatProperties
  <2>2. t \o Append(u, e) = Append(t \o u, e)
    BY ConcatAppend
  <2>3. MergeUnique(s, t \o Append(u, e)) = AppendUnique(MergeUnique(s, t \o u), e)
    <3> DEFINE x == t \o u
    <3>1. x \in Seq(T)
      BY <2>1
    <3> HIDE DEF x
    <3>2. MergeUnique(s, Append(x, e)) = AppendUnique(MergeUnique(s, x), e)
      BY <3>1, MergeAppend
    <3>. QED  BY <2>2, <3>2 DEF x
  <2>4. MergeUnique(MergeUnique(s, t), Append(u, e)) = AppendUnique(MergeUnique(MergeUnique(s, t), u), e)
    BY <1>0, MergeAppend
  <2>. QED  BY <2>1, <2>3, <2>4
<1> HIDE DEF G
<1>3. Seq(T) \subseteq G
  BY <1>1, <1>2, SeqSetInduction
<1>. QED  BY <1>3 DEF G

\* Merging what was merged already changes nothing.
LEMMA MergeAgain ==
    ASSUME NEW T, NEW s \in Seq(T), NEW t \in Seq(T)
    PROVE  MergeUnique(s, MergeUnique(s, t)) = MergeUnique(s, t)
<1> DEFINE G == {u \in Seq(T) : MergeUnique(s, MergeUnique(s, u)) = MergeUnique(s, u)}
<1>1. <<>> \in G
  BY EmptySeq, MergeNothing, MergeKnown
<1>2. ASSUME NEW u \in Seq(T) \intersect G, NEW e \in T PROVE Append(u, e) \in G
  <2> DEFINE v == MergeUnique(s, u)
  <2>1. Append(u, e) \in Seq(T) /\ v \in Seq(T)
    BY AppendProperties, MergeType
  <2>2. MergeUnique(s, Append(u, e)) = AppendUnique(v, e)
    BY MergeAppend
  <2>3. MergeUnique(s, v) = v
    OBVIOUS
  <2> HIDE DEF v
  <2>4. MergeUnique(s, Append(v, e)) = AppendUnique(v, e)
    BY <2>1, <2>3, MergeAppend
  <2>5. MergeUnique(s, AppendUnique(v, e)) = AppendUnique(v, e)
    BY <2>3, <2>4 DEF AppendUnique
  <2>. QED  BY <2>1, <2>2, <2>5
<1> HIDE DEF G
<1>3. Seq(T) \subseteq G
  BY <1>1, <1>2, SeqSetInduction
<1>. QED  BY <1>3 DEF G

\* manualJavaScriptBuildPlan's two merges, carried out again on their result.
LEMMA MergeBetween ==
    ASSUME NEW T, NEW s \in Seq(T), NEW t \in Seq(T), NEW w \in Seq(T)
    PROVE  LET v == MergeUnique(MergeUnique(s, t), w)
           IN  MergeUnique(MergeUnique(s, v), w) = v
<1> DEFINE v == MergeUnique(MergeUnique(s, t), w)
<1>1. t \o w \in Seq(T) /\ MergeUnique(s, t) \in Seq(T)
  BY ConcatProperties, MergeType
<1>2. v = MergeUnique(s, t \o w)
  BY MergeConcat
<1>3. MergeUnique(s, v) = v
  BY <1>1, <1>2, MergeAgain
<1>4. v \in Seq(T) /\ ToSet(w) \subseteq ToSet(v)
  BY <1>1, MergeType
<1> HIDE DEF v
<1>5. MergeUnique(v, w) = v
  BY <1>4, MergeKnown
<1>. QED  BY <1>3, <1>5 DEF v

-----------------------------------------------------------------------------
(* Short sequences. *)

LEMMA HeadOfConcat ==
    ASSUME NEW T, NEW s \in Seq(T), NEW e \in T
    PROVE  Head(s \o <<e>>) = IF s = <<>> THEN e ELSE s[1]
<1>1. <<e>> \in Seq(T) /\ Len(<<e>>) = 1 /\ <<e>>[1] = e
  OBVIOUS
<1>2. CASE s = <<>>
  BY <1>1, <1>2, ConcatEmptySeq
<1>3. CASE s # <<>>
  <2>1. Len(s) \in Nat \ {0}
    BY <1>3, EmptySeq
  <2>2. (s \o <<e>>)[1] = s[1]
    BY <1>1, <2>1, ConcatProperties
  <2>. QED  BY <1>3, <2>2
<1>. QED  BY <1>2, <1>3

LEMMA OneAndTwo ==
    ASSUME NEW a, NEW b, NEW T, a \in T, b \in T
    PROVE  /\ <<>> \in Seq(T) /\ <<a>> \in Seq(T) /\ <<a, b>> \in Seq(T)
           /\ Append(<<>>, a) = <<a>> /\ Append(<<a>>, b) = <<a, b>>
           /\ <<a>> # <<>> /\ <<a, b>> # <<>> /\ <<a>>[1] = a /\ <<a, b>>[1] = a
<1>1. <<>> \in Seq(T) /\ <<a>> \in Seq(T) /\ <<a, b>> \in Seq(T)
  OBVIOUS
<1>2. Append(<<>>, a) = <<a>>
  OBVIOUS
<1>3. Append(<<a>>, b) = <<a, b>>
  <2>1. Len(<<a>>) = 1 /\ <<a>>[1] = a /\ Len(<<a, b>>) = 2 /\ <<a, b>>[1] = a /\ <<a, b>>[2] = b
    OBVIOUS
  <2> DEFINE t == Append(<<a>>, b)
  <2>2. t \in Seq(T) /\ Len(t) = 2 /\ t[1] = a /\ t[2] = b
    BY <1>1, <2>1, AppendProperties
  <2> HIDE DEF t
  <2>3. \A i \in 1..Len(t) : t[i] = <<a, b>>[i]
    BY <2>1, <2>2
  <2>. QED  BY <1>1, <2>1, <2>2, <2>3, SeqEqual DEF t
<1>4. <<a>> # <<>> /\ <<a, b>> # <<>>
  OBVIOUS
<1>5. <<a>>[1] = a /\ <<a, b>>[1] = a
  OBVIOUS
<1>. QED  BY <1>1, <1>2, <1>3, <1>4, <1>5

=============================================================================
