------------------------ MODULE OutputTransport_proof ------------------------
(***************************************************************************)
(* What a suite's output is read as, proved for any number of tests.       *)
(***************************************************************************)
EXTENDS OutputTransport, FiniteSetTheorems, WellFoundedInduction, SequenceTheorems, TLAPS

-----------------------------------------------------------------------------
(* Numbers: a set of them has a least one, and holds them all if it holds  *)
(* 0 and, with any, the next.                                              *)
LEMMA Least ==
    ASSUME NEW S \in SUBSET Nat, S # {}
    PROVE  \E m \in S : \A k \in S : m <= k
<1> DEFINE Below == {1 .. k : k \in S}
<1>1. Below \subseteq FiniteSubsetsOf(Nat) /\ Below # {}
  <2>1. ASSUME NEW k \in S PROVE 1 .. k \subseteq Nat /\ IsFiniteSet(1 .. k)
    BY FS_Interval
  <2> QED
    BY <2>1 DEF FiniteSubsetsOf
<1>2. PICK B \in Below : \A C \in Below : ~(<<C, B>> \in StrictSubsetOrdering(Nat))
  <2> HIDE DEF Below
  <2> QED
    BY <1>1, FS_StrictSubsetOrderingWellFounded, WFMin
<1>3. PICK m \in S : B = 1 .. m
  OBVIOUS
<1>4. ASSUME NEW k \in S, k < m PROVE FALSE
  <2>1. /\ 1 .. k \subseteq 1 .. m /\ 1 .. m \subseteq Nat /\ 1 .. k \subseteq Nat
        /\ m \in 1 .. m /\ m \notin 1 .. k
    BY <1>4
  <2>2. <<1 .. k, 1 .. m>> \in StrictSubsetOrdering(Nat)
    BY <2>1 DEF StrictSubsetOrdering
  <2> QED
    BY <1>2, <1>3, <2>2
<1> QED
  BY <1>4

LEMMA NatSetInduction ==
    ASSUME NEW S, 0 \in S, \A n \in S \cap Nat : n + 1 \in S
    PROVE  Nat \subseteq S
<1> SUFFICES ASSUME Nat \ S # {} PROVE FALSE
  OBVIOUS
<1>1. PICK m \in Nat \ S : \A k \in Nat \ S : m <= k
  BY Least
<1>2. m - 1 \in Nat /\ m - 1 \notin Nat \ S
  BY <1>1
<1> QED
  BY <1>1, <1>2

\* A bounded set of numbers has a greatest.
LEMMA Greatest ==
    ASSUME NEW n \in Nat, NEW S \in SUBSET (0 .. n), S # {}
    PROVE  /\ Max(S) \in S
           /\ \A k \in S : k <= Max(S)
<1> DEFINE Rest == {n - k : k \in S}
<1>1. Rest \in SUBSET Nat /\ Rest # {}
  <2>1. \A k \in S : n - k \in Nat
    OBVIOUS
  <2> QED
    BY <2>1
<1>2. PICK r \in Rest : \A k \in Rest : r <= k
  <2> HIDE DEF Rest
  <2> QED
    BY <1>1, Least
<1>3. PICK m \in S : r = n - m
  OBVIOUS
<1>4. \A k \in S : m >= k
  <2> TAKE k \in S
  <2>1. r <= n - k
    BY <1>2
  <2> QED
    BY <2>1, <1>3
<1>5. \E x \in S : \A y \in S : x >= y
  BY <1>4
<1>6. Max(S) \in S /\ \A y \in S : Max(S) >= y
  BY <1>5 DEF Max
<1> QED
  BY <1>6

(* The rank of an element among the numbers of a set: ranks follow the     *)
(* order, and every number up to the set's cardinality is one.             *)
Rank(S, e) == Cardinality({x \in S : x <= e})

LEMMA Ranks ==
    ASSUME NEW n \in Nat, NEW S \in SUBSET (1 .. n)
    PROVE  /\ IsFiniteSet(S) /\ Cardinality(S) \in Nat
           /\ \A e \in S : Rank(S, e) \in 1 .. Cardinality(S)
           /\ \A e, f \in S : e < f => Rank(S, e) < Rank(S, f)
           /\ \A k \in 1 .. Cardinality(S) : \E e \in S : Rank(S, e) = k
<1>1. IsFiniteSet(S) /\ Cardinality(S) \in Nat
  <2>1. IsFiniteSet(1 .. n)
    BY FS_Interval
  <2> QED
    BY <2>1, FS_Subset, FS_CardinalityType
<1> DEFINE U(e) == {x \in S : x <= e}
<1>2. ASSUME NEW e \in S
      PROVE  IsFiniteSet(U(e)) /\ Cardinality(U(e)) \in 1 .. Cardinality(S)
  <2>1. IsFiniteSet(U(e)) /\ Cardinality(U(e)) <= Cardinality(S)
    BY <1>1, FS_Subset
  <2>2. U(e) # {} /\ Cardinality(U(e)) \in Nat
    BY <2>1, FS_CardinalityType
  <2>3. Cardinality(U(e)) # 0
    BY <2>1, <2>2, FS_EmptySet
  <2> QED
    BY <2>1, <2>2, <2>3, <1>1
<1>3. ASSUME NEW e \in S, NEW f \in S, e < f
      PROVE  Cardinality(U(e)) < Cardinality(U(f))
  <2>1. U(e) \subseteq U(f) /\ U(e) # U(f)
    <3>1. f \in U(f) /\ f \notin U(e)
      BY <1>3
    <3>2. \A x \in S : x <= e => x <= f
      BY <1>3
    <3> QED
      BY <3>1, <3>2
  <2>2. Cardinality(U(e)) <= Cardinality(U(f)) /\ Cardinality(U(e)) # Cardinality(U(f))
    BY <2>1, <1>2, FS_Subset
  <2> QED
    BY <2>2, <1>1, <1>2
<1> DEFINE r == [e \in S |-> Cardinality(U(e))]
<1>4. r \in Injection(S, 1 .. Cardinality(S))
  <2>1. r \in [S -> 1 .. Cardinality(S)]
    BY <1>2
  <2>2. ASSUME NEW e \in S, NEW f \in S, r[e] = r[f] PROVE e = f
    <3>1. ~(e < f) /\ ~(f < e)
      BY <1>1, <1>2, <1>3, <2>2
    <3> QED
      BY <3>1
  <2> QED
    BY <2>1, <2>2 DEF Injection, IsInjective
<1>5. r \in Surjection(S, 1 .. Cardinality(S))
  <2>1. IsFiniteSet(1 .. Cardinality(S)) /\ Cardinality(1 .. Cardinality(S)) = Cardinality(S)
    BY <1>1, FS_Interval
  <2> HIDE DEF r
  <2> QED
    BY <2>1, <1>4, FS_Injection
<1>6. \A k \in 1 .. Cardinality(S) : \E e \in S : Cardinality(U(e)) = k
  BY <1>5 DEF Surjection
<1> QED
  BY <1>1, <1>2, <1>3, <1>6 DEF Rank

-----------------------------------------------------------------------------
(* Flattening: every element of the flat sequence comes from one place of  *)
(* the first n sequences, places keep their order, and none is left out.   *)
Traces(s, seqs, n, o, q) ==
    /\ o \in [1 .. Len(s) -> 1 .. n] /\ q \in [1 .. Len(s) -> Nat]
    /\ \A k \in 1 .. Len(s) : q[k] \in 1 .. Len(seqs[o[k]]) /\ s[k] = seqs[o[k]][q[k]]
    /\ \A k, l \in 1 .. Len(s) : k < l => o[k] < o[l] \/ (o[k] = o[l] /\ q[k] < q[l])
    /\ \A i \in 1 .. n : \A r \in 1 .. Len(seqs[i]) :
          \E k \in 1 .. Len(s) : o[k] = i /\ q[k] = r

LEMMA TracesExtend ==
    ASSUME NEW X, NEW n \in Nat, NEW seqs \in Seq(Seq(X)), n + 1 <= Len(seqs),
           NEW s \in Seq(X), NEW o, NEW q, Traces(s, seqs, n, o, q)
    PROVE  \E oo, qq : Traces(s \o seqs[n + 1], seqs, n + 1, oo, qq)
<1> DEFINE t == seqs[n + 1]
           u == s \o t
           oo == [k \in 1 .. Len(u) |-> IF k <= Len(s) THEN o[k] ELSE n + 1]
           qq == [k \in 1 .. Len(u) |-> IF k <= Len(s) THEN q[k] ELSE k - Len(s)]
<1>1. t \in Seq(X) /\ Len(s) \in Nat /\ Len(t) \in Nat
  OBVIOUS
<1>d. DOMAIN s = 1 .. Len(s)
  OBVIOUS
<1>2. /\ Len(u) = Len(s) + Len(t) /\ DOMAIN s = 1 .. Len(s)
      /\ \A k \in 1 .. Len(s) + Len(t) : u[k] = IF k <= Len(s) THEN s[k] ELSE t[k - Len(s)]
  <2> HIDE DEF t
  <2> QED
    BY <1>1
<1> HIDE DEF u
<1>3. /\ o \in [1 .. Len(s) -> 1 .. n] /\ q \in [1 .. Len(s) -> Nat]
      /\ \A k \in 1 .. Len(s) : q[k] \in 1 .. Len(seqs[o[k]]) /\ s[k] = seqs[o[k]][q[k]]
      /\ \A k, l \in 1 .. Len(s) : k < l => o[k] < o[l] \/ (o[k] = o[l] /\ q[k] < q[l])
      /\ \A i \in 1 .. n : \A r \in 1 .. Len(seqs[i]) : \E k \in 1 .. Len(s) : o[k] = i /\ q[k] = r
  BY DEF Traces
<1>4. \A k \in 1 .. Len(u) : \/ k \in 1 .. Len(s) /\ k <= Len(s) /\ oo[k] = o[k] /\ qq[k] = q[k]
                          \/ /\ k - Len(s) \in 1 .. Len(t) /\ ~(k <= Len(s))
                             /\ oo[k] = n + 1 /\ qq[k] = k - Len(s)
  BY <1>1, <1>2
<1>5. oo \in [1 .. Len(u) -> 1 .. n + 1] /\ qq \in [1 .. Len(u) -> Nat]
  <2>1. \A k \in 1 .. Len(u) : oo[k] \in 1 .. n + 1 /\ qq[k] \in Nat
    <3> HIDE DEF oo, qq, t
    <3> TAKE k \in 1 .. Len(u)
    <3>1. CASE k \in 1 .. Len(s) /\ oo[k] = o[k] /\ qq[k] = q[k]
      <4>1. o[k] \in 1 .. n /\ q[k] \in Nat
        BY <3>1, <1>3
      <4> QED
        BY <3>1, <4>1
    <3>2. CASE k - Len(s) \in 1 .. Len(t) /\ oo[k] = n + 1 /\ qq[k] = k - Len(s)
      BY <3>2
    <3> QED
      BY <3>1, <3>2, <1>4
  <2> QED
    BY <2>1
<1>6. ASSUME NEW k \in 1 .. Len(u)
      PROVE  qq[k] \in 1 .. Len(seqs[oo[k]]) /\ u[k] = seqs[oo[k]][qq[k]]
  <2>1. k \in 1 .. Len(s) + Len(t)
    BY <1>2
  <2> HIDE DEF oo, qq
  <2>2. CASE k <= Len(s)
    <3>1. k \in 1 .. Len(s) /\ oo[k] = o[k] /\ qq[k] = q[k] /\ u[k] = s[k]
      BY <2>1, <2>2, <1>1, <1>2, <1>4
    <3> QED
      BY <3>1, <1>3
  <2>3. CASE ~(k <= Len(s))
    <3>1. /\ k - Len(s) \in 1 .. Len(t) /\ u[k] = t[k - Len(s)]
          /\ oo[k] = n + 1 /\ qq[k] = k - Len(s)
      BY <2>1, <2>3, <1>2, <1>4
    <3> QED
      BY <3>1
  <2> QED
    BY <2>2, <2>3
<1>7. ASSUME NEW k \in 1 .. Len(u), NEW l \in 1 .. Len(u), k < l
      PROVE  oo[k] < oo[l] \/ (oo[k] = oo[l] /\ qq[k] < qq[l])
  <2>1. k \in 1 .. Len(s) + Len(t) /\ l \in 1 .. Len(s) + Len(t)
    BY <1>2
  <2> HIDE DEF oo, qq, t
  <2>2. CASE l <= Len(s)
    <3>1. /\ k \in 1 .. Len(s) /\ l \in 1 .. Len(s)
          /\ oo[k] = o[k] /\ oo[l] = o[l] /\ qq[k] = q[k] /\ qq[l] = q[l]
      BY <2>1, <2>2, <1>1, <1>4, <1>7
    <3> QED
      BY <3>1, <1>3, <1>7
  <2>3. CASE ~(l <= Len(s)) /\ k <= Len(s)
    <3>1. k \in 1 .. Len(s) /\ oo[k] = o[k] /\ oo[l] = n + 1
      BY <2>1, <2>3, <1>1, <1>2, <1>4
    <3>2. o[k] \in 1 .. n
      BY <3>1, <1>3
    <3> QED
      BY <3>1, <3>2
  <2>4. CASE ~(l <= Len(s)) /\ ~(k <= Len(s))
    BY <2>1, <2>4, <1>1, <1>4, <1>7
  <2> QED
    BY <2>2, <2>3, <2>4
<1>8. ASSUME NEW i \in 1 .. n + 1, NEW r \in 1 .. Len(seqs[i])
      PROVE  \E k \in 1 .. Len(u) : oo[k] = i /\ qq[k] = r
  <2>1. CASE i \in 1 .. n
    <3>1. PICK k \in 1 .. Len(s) : o[k] = i /\ q[k] = r
      BY <2>1, <1>3
    <3>2. k \in 1 .. Len(u) /\ k <= Len(s)
      BY <1>1, <1>2
    <3> QED
      BY <3>1, <3>2
  <2>2. CASE i = n + 1
    <3>1. Len(s) + r \in 1 .. Len(u) /\ ~(Len(s) + r <= Len(s)) /\ Len(s) + r - Len(s) = r
      BY <2>2, <1>1, <1>2
    <3> QED
      BY <3>1, <2>2
  <2> QED
    BY <2>1, <2>2
<1>9. Len(u) = Len(s) + Len(t)
  BY <1>1, <1>2
<1>10. Traces(u, seqs, n + 1, oo, qq)
  <2> HIDE DEF oo, qq
  <2> QED
    BY <1>5, <1>6, <1>7, <1>8 DEF Traces
<1> HIDE DEF t, oo, qq
<1> QED
  BY <1>10 DEF u, t

\* The function FlattenSeq names exists: it adds one sequence after another.
Flattening(seqs, n, F, X) ==
    /\ F \in [1 .. n -> Seq(X)]
    /\ \A i \in 1 .. n : F[i] = IF i = 1 THEN seqs[i] ELSE F[i - 1] \o seqs[i]

LEMMA FlatteningExists ==
    ASSUME NEW X, NEW seqs \in Seq(Seq(X)), NEW n \in Nat, n <= Len(seqs)
    PROVE  \E F : Flattening(seqs, n, F, X)
<1> DEFINE S == {m \in Nat : m <= Len(seqs) => \E F : Flattening(seqs, m, F, X)}
<1>1. 0 \in S
  <2>1. Flattening(seqs, 0, [i \in 1 .. 0 |-> <<>>], X)
    BY DEF Flattening
  <2> QED
    BY <2>1
<1>2. ASSUME NEW m \in S \cap Nat, m + 1 <= Len(seqs)
      PROVE  \E F : Flattening(seqs, m + 1, F, X)
  <2>1. PICK F : Flattening(seqs, m, F, X)
    BY <1>2
  <2> DEFINE last == IF m = 0 THEN seqs[1] ELSE F[m] \o seqs[m + 1]
             G == [i \in 1 .. m + 1 |-> IF i = m + 1 THEN last ELSE F[i]]
  <2>2. seqs[m + 1] \in Seq(X) /\ (m # 0 => F[m] \in Seq(X))
    BY <1>2, <2>1 DEF Flattening
  <2>3. last \in Seq(X)
    BY <2>2
  <2>4. \A i \in 1 .. m + 1 : i # m + 1 => i \in 1 .. m /\ (i # 1 => i - 1 \in 1 .. m)
    OBVIOUS
  <2>5. G \in [1 .. m + 1 -> Seq(X)]
    <3> HIDE DEF last
    <3> QED
      BY <2>1, <2>3, <2>4 DEF Flattening
  <2>6. ASSUME NEW i \in 1 .. m + 1
        PROVE  G[i] = IF i = 1 THEN seqs[i] ELSE G[i - 1] \o seqs[i]
    <3>1. CASE i = m + 1
      <4>1. CASE m = 0
        BY <3>1, <4>1
      <4>2. CASE m # 0
        <5>1. m \in 1 .. m + 1 /\ m # m + 1 /\ i - 1 = m /\ i # 1
          BY <3>1, <4>2
        <5>2. G[m] = F[m] /\ G[i] = F[m] \o seqs[m + 1]
          BY <5>1, <3>1, <4>2
        <5> QED
          BY <5>1, <5>2, <3>1
      <4> QED
        BY <4>1, <4>2
    <3>2. CASE i # m + 1
      <4>1. i \in 1 .. m /\ G[i] = F[i]
        BY <3>2, <2>4
      <4>2. i # 1 => G[i - 1] = F[i - 1]
        BY <3>2
      <4> HIDE DEF G
      <4> QED
        BY <4>1, <4>2, <2>1 DEF Flattening
    <3> QED
      BY <3>1, <3>2
  <2>7. Flattening(seqs, m + 1, G, X)
    <3> HIDE DEF G
    <3> QED
      BY <2>5, <2>6 DEF Flattening
  <2> QED
    BY <2>7
<1>3. \A m \in S \cap Nat : m + 1 \in S
  <2> TAKE m \in S \cap Nat
  <2>1. m + 1 <= Len(seqs) => \E F : Flattening(seqs, m + 1, F, X)
    BY <1>2
  <2> QED
    BY <2>1
<1>4. Nat \subseteq S
  <2> HIDE DEF S
  <2> QED
    BY <1>1, <1>3, NatSetInduction
<1> QED
  BY <1>4

LEMMA FlattenSeqIs ==
    ASSUME NEW X, NEW seqs \in Seq(Seq(X)), seqs # <<>>
    PROVE  \E F : Flattening(seqs, Len(seqs), F, X) /\ FlattenSeq(seqs) = F[Len(seqs)]
<1>1. Len(seqs) \in Nat /\ Len(seqs) # 0
  OBVIOUS
<1> DEFINE Rec(f) == f = [i \in 1 .. Len(seqs) |-> IF i = 1 THEN seqs[i] ELSE f[i - 1] \o seqs[i]]
<1>2. PICK F : Flattening(seqs, Len(seqs), F, X)
  BY <1>1, FlatteningExists
<1>3. Rec(F)
  BY <1>2 DEF Flattening
<1> DEFINE flatten == CHOOSE f : Rec(f)
<1>4. Rec(flatten)
  <2> HIDE DEF Rec
  <2> QED
    BY <1>3
<1>5. FlattenSeq(seqs) = flatten[Len(seqs)]
  BY <1>1 DEF FlattenSeq
<1> HIDE DEF flatten
<1>8. \A i \in 1 .. Len(seqs) : i # 1 => flatten[i] = flatten[i - 1] \o seqs[i]
  BY <1>4
<1>7. \A i \in 1 .. Len(seqs) : flatten[i] = IF i = 1 THEN seqs[i] ELSE flatten[i - 1] \o seqs[i]
  BY <1>4
<1>6. Flattening(seqs, Len(seqs), flatten, X)
  <2> DEFINE S == {m \in Nat : m \in 1 .. Len(seqs) => flatten[m] \in Seq(X)}
  <2>s. \A i \in 1 .. Len(seqs) : i # 1 /\ flatten[i - 1] \in Seq(X) => flatten[i] \in Seq(X)
    <3> SUFFICES ASSUME NEW i \in 1 .. Len(seqs), i # 1, flatten[i - 1] \in Seq(X)
                 PROVE  flatten[i] \in Seq(X)
      OBVIOUS
    <3>1. seqs[i] \in Seq(X)
      OBVIOUS
    <3>2. flatten[i] = flatten[i - 1] \o seqs[i]
      BY ONLY <1>8, i \in 1 .. Len(seqs), i # 1, Zenon
    <3> QED
      BY <3>1, <3>2
  <2>1. 0 \in S
    OBVIOUS
  <2>2. ASSUME NEW m \in S \cap Nat, m + 1 \in 1 .. Len(seqs) PROVE flatten[m + 1] \in Seq(X)
    <3>1. seqs[m + 1] \in Seq(X)
      BY <2>2
    <3>2. CASE m = 0
      BY <3>1, <3>2, <2>2, <1>7
    <3>3. CASE m # 0
      <4>1. m \in 1 .. Len(seqs) /\ m + 1 \in 1 .. Len(seqs) /\ m + 1 # 1 /\ m + 1 - 1 = m
        BY <3>3, <2>2, <1>1
      <4>2. flatten[m + 1 - 1] \in Seq(X)
        BY <4>1
      <4> QED
        BY ONLY <4>1, <4>2, <2>s
    <3> QED
      BY <3>2, <3>3
  <2>3. \A m \in S \cap Nat : m + 1 \in S
    BY <2>2
  <2>4. Nat \subseteq S
    <3> HIDE DEF S
    <3> QED
      BY <2>1, <2>3, NatSetInduction
  <2>5. \A m \in 1 .. Len(seqs) : flatten[m] \in Seq(X)
    BY <2>4
  <2> QED
    BY <2>5, <1>4, <1>7 DEF Flattening
<1> QED
  BY <1>5, <1>6

LEMMA FlattenTraces ==
    ASSUME NEW X, NEW seqs \in Seq(Seq(X))
    PROVE  /\ FlattenSeq(seqs) \in Seq(X)
           /\ \E o, q : Traces(FlattenSeq(seqs), seqs, Len(seqs), o, q)
<1>1. CASE seqs = <<>>
  <2>1. FlattenSeq(seqs) = <<>>
    BY <1>1 DEF FlattenSeq
  <2>2. Traces(<<>>, seqs, Len(seqs), [i \in {} |-> 0], [i \in {} |-> 0])
    BY <1>1 DEF Traces
  <2> QED
    BY <2>1, <2>2
<1>2. CASE seqs # <<>>
  <2>1. Len(seqs) \in Nat /\ Len(seqs) # 0
    BY <1>2
  <2>2. PICK F : Flattening(seqs, Len(seqs), F, X) /\ FlattenSeq(seqs) = F[Len(seqs)]
    BY <1>2, FlattenSeqIs
  <2>e. \A i \in 1 .. Len(seqs) : F[i] \in Seq(X)
    BY <2>2 DEF Flattening
  <2>f. \A i \in 1 .. Len(seqs) : F[i] = IF i = 1 THEN seqs[i] ELSE F[i - 1] \o seqs[i]
    BY <2>2 DEF Flattening
  <2> DEFINE T(m) == \E o, q : Traces(F[m], seqs, m, o, q)
             S == {m \in Nat : m \in 1 .. Len(seqs) => T(m)}
  <2>3. 0 \in S
    OBVIOUS
  <2>4. ASSUME NEW m \in S \cap Nat, m + 1 \in 1 .. Len(seqs) PROVE T(m + 1)
    <3>1. CASE m = 0
      <4>1. Traces(<<>>, seqs, 0, [i \in {} |-> 0], [i \in {} |-> 0])
        BY DEF Traces
      <4>2. PICK o, q : Traces(<<>> \o seqs[1], seqs, 0 + 1, o, q)
        <5>1. <<>> \in Seq(X) /\ 0 \in Nat /\ 0 + 1 <= Len(seqs) /\ 0 + 1 = 1
          BY <2>1
        <5>2. \E oo, qq : Traces(<<>> \o seqs[0 + 1], seqs, 0 + 1, oo, qq)
          BY ONLY <4>1, <5>1, seqs \in Seq(Seq(X)), TracesExtend
        <5> QED
          BY <5>2
      <4>3. F[1] = <<>> \o seqs[1]
        <5>1. F[1] = seqs[1] /\ seqs[1] \in Seq(X)
          BY <2>1, <2>f
        <5> QED
          BY <5>1
      <4> QED
        BY <4>2, <4>3, <3>1
    <3>2. CASE m # 0
      <4>1. m \in 1 .. Len(seqs) /\ m + 1 <= Len(seqs) /\ F[m] \in Seq(X)
            /\ F[m + 1] = F[m] \o seqs[m + 1]
        <5>1. m \in 1 .. Len(seqs) /\ m + 1 \in 1 .. Len(seqs) /\ m + 1 <= Len(seqs)
              /\ m + 1 # 1 /\ m + 1 - 1 = m
          BY <3>2, <2>4, <2>1
        <5>2. \A i \in 1 .. Len(seqs) : i # 1 => F[i] = F[i - 1] \o seqs[i]
          BY <2>f
        <5> DEFINE i == m + 1
        <5>5. i \in 1 .. Len(seqs) /\ i # 1
          BY ONLY <5>1
        <5> HIDE DEF i, S, T
        <5>6. F[i] = F[i - 1] \o seqs[i]
          BY ONLY <5>5, <5>2, Zenon
        <5>3. i = m + 1 /\ i - 1 = m
          BY ONLY <5>1 DEF i
        <5>4. F[m + 1] = F[m] \o seqs[m + 1]
          BY ONLY <5>6, <5>3, Zenon
        <5> QED
          BY ONLY <5>1, <5>4, <2>e, Zenon
      <4>2. PICK o, q : Traces(F[m], seqs, m, o, q)
        BY <4>1, <2>4
      <4> QED
        BY <4>1, <4>2, TracesExtend
    <3> QED
      BY <3>1, <3>2
  <2>5. \A m \in S \cap Nat : m + 1 \in S
    <3> HIDE DEF T
    <3> TAKE m \in S \cap Nat
    <3>1. m + 1 \in 1 .. Len(seqs) => T(m + 1)
      BY <2>4
    <3> QED
      BY <3>1
  <2>6. Nat \subseteq S
    <3> HIDE DEF S
    <3> QED
      BY <2>3, <2>5, NatSetInduction
  <2>7. T(Len(seqs))
    BY <2>1, <2>6
  <2>8. F[Len(seqs)] \in Seq(X)
    BY <2>1, <2>e
  <2> QED
    BY <2>2, <2>7, <2>8
<1> QED
  BY <1>1, <1>2

-----------------------------------------------------------------------------
(* The rows of L's lines: line n is rows b[n] to e[n], the lines follow    *)
(* each other and cover the rows, and a line goes on after a full row only.*)
Joined(rows, L, b, e) ==
    /\ \A n \in 1 .. Len(L) :
          /\ b[n] \in 1 .. Len(rows) /\ e[n] \in 1 .. Len(rows) /\ b[n] <= e[n]
          /\ Len(L[n]) = e[n] - b[n] + 1
          /\ \A j \in 1 .. Len(L[n]) : L[n][j] = rows[b[n] + j - 1].piece
          /\ ~rows[e[n]].full \/ e[n] = Len(rows)
          /\ \A p \in 1 .. Len(rows) : b[n] <= p /\ p < e[n] => rows[p].full
    /\ \A n, m \in 1 .. Len(L) : n < m => e[n] < b[m]
    /\ \A p \in 1 .. Len(rows) : \E n \in 1 .. Len(L) : b[n] <= p /\ p <= e[n]

\* Where the segments begin and end that a set of ends cuts numbers into.
BeginOf(ends, f) == 1 + Max({0} \cup {x \in ends : x < f})
EndOf(ends, n) == CHOOSE f \in ends : Cardinality({x \in ends : x <= f}) = n

LEMMA SegmentBegins ==
    ASSUME NEW N \in Nat, NEW ends \in SUBSET (1 .. N), NEW f \in ends
    PROVE  /\ BeginOf(ends, f) \in 1 .. f
           /\ \A x \in ends : x < f => x < BeginOf(ends, f)
           /\ BeginOf(ends, f) # 1 => BeginOf(ends, f) - 1 \in ends
<1> DEFINE S == {0} \cup {x \in ends : x < f}
<1>1. f \in 1 .. N /\ \A x \in ends : x \in 1 .. N
  OBVIOUS
<1>2. \A x \in S : x = 0 \/ (x \in ends /\ x < f)
  OBVIOUS
<1>3. \A x \in ends : x < f => x \in S
  OBVIOUS
<1>4. 0 \in S
  OBVIOUS
<1>b. BeginOf(ends, f) = 1 + Max(S)
  BY DEF BeginOf
<1> HIDE DEF S
<1>5. S \in SUBSET (0 .. N) /\ S # {}
  <2>1. ASSUME NEW x \in S PROVE x \in 0 .. N
    <3>1. CASE x = 0
      BY <3>1
    <3>2. CASE x \in ends
      BY <3>2
    <3> QED
      BY <3>1, <3>2, <1>2
  <2> QED
    BY <2>1, <1>4
<1>6. Max(S) \in S /\ \A x \in S : x <= Max(S)
  BY <1>5, Greatest
<1>7. Max(S) \in 0 .. N
  BY <1>5, <1>6
<1>8. Max(S) = 0 \/ (Max(S) \in ends /\ Max(S) < f)
  BY <1>6, <1>2
<1>9. BeginOf(ends, f) \in 1 .. f
  BY <1>1, <1>7, <1>8, <1>b
<1>10. ASSUME NEW x \in ends, x < f PROVE x < BeginOf(ends, f)
  <2>1. x <= Max(S)
    BY <1>3, <1>6, <1>10
  <2> QED
    BY <2>1, <1>1, <1>7, <1>b
<1>11. BeginOf(ends, f) # 1 => BeginOf(ends, f) - 1 \in ends
  <2>1. BeginOf(ends, f) - 1 = Max(S)
    BY <1>7, <1>b
  <2> QED
    BY <2>1, <1>8, <1>b
<1> QED
  BY <1>9, <1>10, <1>11

LEMMA SegmentEnds ==
    ASSUME NEW N \in Nat, NEW ends \in SUBSET (1 .. N)
    PROVE  /\ Cardinality(ends) \in Nat
           /\ \A n \in 1 .. Cardinality(ends) : EndOf(ends, n) \in ends
           /\ \A n, m \in 1 .. Cardinality(ends) : n < m => EndOf(ends, n) < EndOf(ends, m)
           /\ \A f \in ends : \E n \in 1 .. Cardinality(ends) : EndOf(ends, n) = f
<1> DEFINE K == Cardinality(ends)
<1>1. /\ K \in Nat
      /\ \A f \in ends : Rank(ends, f) \in 1 .. K
      /\ \A n \in 1 .. K : \E f \in ends : Rank(ends, f) = n
  BY Ranks
<1>2. \A f, g \in ends : f < g => Rank(ends, f) < Rank(ends, g)
  BY Ranks
<1>3. \A n \in 1 .. K : EndOf(ends, n) \in ends /\ Rank(ends, EndOf(ends, n)) = n
  <2> TAKE n \in 1 .. K
  <2>1. \E f \in ends : Rank(ends, f) = n
    BY <1>1
  <2> QED
    BY <2>1 DEF Rank, EndOf
<1> HIDE DEF K
<1>4. \A x \in ends : x \in Nat
  OBVIOUS
<1>5. ASSUME NEW f \in ends, NEW g \in ends, Rank(ends, f) <= Rank(ends, g) PROVE f <= g
  <2>1. CASE g < f
    <3>1. Rank(ends, g) < Rank(ends, f)
      BY <2>1, <1>2
    <3>2. Rank(ends, g) \in Nat /\ Rank(ends, f) \in Nat
      BY <1>1
    <3> QED
      BY <3>1, <3>2, <1>5
  <2>2. CASE ~(g < f)
    BY <2>2, <1>4
  <2> QED
    BY <2>1, <2>2
<1>6. ASSUME NEW n \in 1 .. K, NEW m \in 1 .. K, n < m PROVE EndOf(ends, n) < EndOf(ends, m)
  <2> DEFINE f == EndOf(ends, n)
             g == EndOf(ends, m)
  <2>1. f \in ends /\ g \in ends /\ Rank(ends, f) = n /\ Rank(ends, g) = m
    BY <1>3
  <2> HIDE DEF f, g
  <2>2. f <= g
    BY <2>1, <1>5, <1>6
  <2>3. f # g
    BY <2>1, <1>6
  <2>4. f < g
    BY <2>1, <2>2, <2>3, <1>4
  <2> QED
    BY <2>4 DEF f, g
<1>7. ASSUME NEW f \in ends PROVE \E n \in 1 .. K : EndOf(ends, n) = f
  <2> DEFINE n == Rank(ends, f)
             g == EndOf(ends, n)
  <2>1. n \in 1 .. K
    BY <1>1
  <2>2. g \in ends /\ Rank(ends, g) = Rank(ends, f)
    BY <2>1, <1>3
  <2> HIDE DEF g
  <2>3. Rank(ends, f) <= Rank(ends, g) /\ Rank(ends, g) <= Rank(ends, f)
    BY <2>1, <2>2
  <2>4. f <= g /\ g <= f
    BY <2>2, <2>3, <1>5
  <2>5. f = g
    BY <2>2, <2>4, <1>4
  <2> QED
    BY <2>1, <2>5 DEF g
<1> QED
  BY <1>1, <1>3, <1>6, <1>7 DEF K

LEMMA SegmentsCover ==
    ASSUME NEW N \in Nat, NEW ends \in SUBSET (1 .. N), NEW p \in 1 .. N, N \in ends
    PROVE  \E f \in ends : BeginOf(ends, f) <= p /\ p <= f
<1> DEFINE S == {x \in ends : p <= x}
<1>1. S \in SUBSET Nat /\ S # {}
  <2>1. p <= N /\ \A x \in ends : x \in Nat
    OBVIOUS
  <2> QED
    BY <2>1
<1>2. PICK f \in S : \A x \in S : f <= x
  <2> HIDE DEF S
  <2> QED
    BY <1>1, Least
<1>3. f \in ends /\ p <= f /\ f \in 1 .. N
  OBVIOUS
<1> DEFINE c == BeginOf(ends, f)
<1>4. c \in 1 .. f /\ (c # 1 => c - 1 \in ends)
  BY <1>3, SegmentBegins
<1> HIDE DEF c
<1>5. CASE p < c
  <2>1. c # 1 /\ p <= c - 1
    BY <1>4, <1>5
  <2>2. c - 1 \in S
    BY <2>1, <1>4
  <2>3. f <= c - 1
    BY <2>2, <1>2
  <2> QED
    BY <2>3, <1>4, <1>3
<1>6. CASE ~(p < c)
  <2>1. c <= p
    BY <1>6, <1>4, <1>3
  <2> QED
    BY <2>1, <1>3 DEF c
<1> QED
  BY <1>5, <1>6

LEMMA LogicalLinesAreJoined ==
    ASSUME NEW X, NEW rows \in Seq([piece : X, full : BOOLEAN])
    PROVE  /\ LogicalLines(rows) \in Seq(Seq(X))
           /\ \E b, e : Joined(rows, LogicalLines(rows), b, e)
<1> DEFINE ends == {i \in DOMAIN rows : ~rows[i].full \/ i = Len(rows)}
           N == Len(rows)
           K == Cardinality(ends)
           b == [n \in 1 .. K |-> BeginOf(ends, EndOf(ends, n))]
           e == [n \in 1 .. K |-> EndOf(ends, n)]
           L == [n \in 1 .. K |-> [j \in 1 .. e[n] - b[n] + 1 |-> rows[b[n] + j - 1].piece]]
<1>0. LogicalLines(rows) =
        [n \in 1 .. K |->
            [j \in 1 .. EndOf(ends, n) - BeginOf(ends, EndOf(ends, n)) + 1 |->
                rows[BeginOf(ends, EndOf(ends, n)) + j - 1].piece]]
  BY DEF LogicalLines, BeginOf, EndOf
<1>1. LogicalLines(rows) = L
  <2> HIDE DEF ends, K
  <2> QED
    BY <1>0
<1>2. N \in Nat /\ DOMAIN rows = 1 .. N
  OBVIOUS
<1>3. \A p \in 1 .. N : rows[p].piece \in X
  <2> TAKE p \in 1 .. N
  <2>1. rows[p] \in [piece : X, full : BOOLEAN]
    BY ElementOfSeq
  <2> QED
    BY <2>1
<1>4. ends \in SUBSET (1 .. N)
  BY <1>2
<1>5. \A p \in 1 .. N : p \notin ends => rows[p].full
  BY <1>2
<1>6. \A p \in ends : ~rows[p].full \/ p = N
  OBVIOUS
<1>7. N # 0 => N \in ends
  BY <1>2
<1> HIDE DEF ends, N
<1>8. K \in Nat /\ \A n \in 1 .. K : e[n] \in ends /\ e[n] = EndOf(ends, n)
  BY <1>2, <1>4, SegmentEnds
<1>9. \A n, m \in 1 .. K : n < m => e[n] < e[m]
  BY <1>2, <1>4, SegmentEnds
<1>10. \A f \in ends : \E n \in 1 .. K : e[n] = f /\ b[n] = BeginOf(ends, f)
  BY <1>2, <1>4, SegmentEnds
<1>11. ASSUME NEW n \in 1 .. K
       PROVE  /\ b[n] \in 1 .. N /\ e[n] \in 1 .. N /\ b[n] <= e[n]
              /\ \A x \in ends : x < e[n] => x < b[n]
  <2> DEFINE f == EndOf(ends, n)
  <2>1. f \in ends /\ e[n] = f /\ b[n] = BeginOf(ends, f)
    BY <1>8
  <2> HIDE DEF f, b, e
  <2>2. b[n] \in 1 .. f /\ \A x \in ends : x < f => x < b[n]
    BY <2>1, <1>2, <1>4, SegmentBegins
  <2>3. f \in 1 .. N
    BY <2>1, <1>4
  <2> QED
    BY <2>1, <2>2, <2>3, <1>2
<1> HIDE DEF K, b, e
<1>12. ASSUME NEW n \in 1 .. K
       PROVE  /\ L[n] \in Seq(X) /\ Len(L[n]) = e[n] - b[n] + 1
              /\ \A j \in 1 .. Len(L[n]) : L[n][j] = rows[b[n] + j - 1].piece
  <2>1. L[n] = [j \in 1 .. e[n] - b[n] + 1 |-> rows[b[n] + j - 1].piece]
    OBVIOUS
  <2>2. e[n] - b[n] + 1 \in Nat
    BY <1>2, <1>11
  <2>3. \A j \in 1 .. e[n] - b[n] + 1 : b[n] + j - 1 \in 1 .. N
    BY <1>2, <1>11
  <2>4. \A j \in 1 .. e[n] - b[n] + 1 : rows[b[n] + j - 1].piece \in X
    BY <1>3, <2>3
  <2> HIDE DEF L
  <2> QED
    BY <2>1, <2>2, <2>4
<1>13. L \in Seq(Seq(X)) /\ Len(L) = K
  <2> DEFINE line(n) == [j \in 1 .. e[n] - b[n] + 1 |-> rows[b[n] + j - 1].piece]
  <2>1. \A n \in 1 .. K : line(n) \in Seq(X)
    BY <1>12
  <2> HIDE DEF line
  <2>2. [n \in 1 .. K |-> line(n)] \in Seq(Seq(X)) /\ Len([n \in 1 .. K |-> line(n)]) = K
    BY <2>1, <1>8
  <2> QED
    BY <2>2 DEF line
<1>14. ASSUME NEW n \in 1 .. K
       PROVE  /\ ~rows[e[n]].full \/ e[n] = N
              /\ \A p \in 1 .. N : b[n] <= p /\ p < e[n] => rows[p].full
  <2>1. ~rows[e[n]].full \/ e[n] = N
    BY <1>6, <1>8
  <2>2. ASSUME NEW p \in 1 .. N, b[n] <= p, p < e[n] PROVE rows[p].full
    <3>1. p \notin ends
      <4> SUFFICES ASSUME p \in ends PROVE FALSE
        OBVIOUS
      <4>1. p < b[n]
        BY <2>2, <1>11
      <4> QED
        BY <4>1, <2>2, <1>11, <1>2
    <3> QED
      BY <3>1, <1>5
  <2> QED
    BY <2>1, <2>2
<1>15. ASSUME NEW n \in 1 .. K, NEW m \in 1 .. K, n < m
       PROVE  e[n] < b[m]
  <2>1. e[n] \in ends /\ e[n] < e[m]
    BY <1>8, <1>9, <1>15
  <2> QED
    BY <2>1, <1>11
<1>16. ASSUME NEW p \in 1 .. N
       PROVE  \E n \in 1 .. K : b[n] <= p /\ p <= e[n]
  <2>1. N \in ends
    BY <1>2, <1>7
  <2>2. PICK f \in ends : BeginOf(ends, f) <= p /\ p <= f
    BY <2>1, <1>2, <1>4, SegmentsCover
  <2> QED
    BY <2>2, <1>10
<1> HIDE DEF L
<1>17. Joined(rows, L, b, e)
  BY <1>11, <1>12, <1>13, <1>14, <1>15, <1>16 DEF Joined, N
<1> QED
  BY <1>1, <1>13, <1>17

-----------------------------------------------------------------------------
(* The rows a console makes of a line, and the lines a suite prints.       *)
Kinds == {"ran", "timing", "header", "location", "message", "blank", "summary"}

LayoutsOf(k) == IF k \in {"ran", "header", "message", "summary"} THEN Layouts(k) ELSE {Plain(k)}

TextLine == UNION {[reads : {k}, layout : LayoutsOf(k), feed : BOOLEAN] : k \in Kinds}
PrintedLine == UNION {[reads : {k}, layout : LayoutsOf(k), feed : BOOLEAN, of : 0 .. Count] : k \in Kinds}

RowKinds == Kinds \cup {"tail", "other"}
Row == [reads : RowKinds, full : BOOLEAN]

LEMMA Pair ==
    ASSUME NEW X, NEW u \in X, NEW v \in X
    PROVE  <<u>> \o <<v>> = <<u, v>>
<1> DEFINE s == <<u>>
           t == <<v>>
<1>1. s \in Seq(X) /\ t \in Seq(X) /\ Len(s) = 1 /\ Len(t) = 1 /\ s[1] = u /\ t[1] = v
  OBVIOUS
<1> HIDE DEF s, t
<1>2. s \o t \in Seq(X) /\ Len(s \o t) = 2 /\ (s \o t)[1] = u /\ (s \o t)[2] = v
  BY <1>1, ConcatProperties
<1> DEFINE w == s \o t
           z == <<u, v>>
<1>4. z \in Seq(X) /\ Len(z) = 2 /\ z[1] = u /\ z[2] = v
  OBVIOUS
<1>5. w \in Seq(X) /\ Len(w) = 2 /\ w[1] = u /\ w[2] = v
  BY <1>2
<1> HIDE DEF w, z
<1>6. \A i \in 1 .. Len(w) : w[i] = z[i]
  <2>1. \A i \in 1 .. Len(w) : i = 1 \/ i = 2
    BY <1>5
  <2> QED
    BY <2>1, <1>4, <1>5
<1>7. w = z
  BY <1>4, <1>5, <1>6, SeqEqual
<1>3. s \o t = <<u, v>>
  BY <1>7 DEF w, z
<1> QED
  BY <1>3 DEF s, t

\* One row or two.  A row read as a header, a summary or the first line of a
\* test is of such a line, except where a header is cut before the test's
\* name, which leaves it no row read as a header.
LEMMA LayoutRows ==
    ASSUME NEW k \in Kinds, NEW l \in LayoutsOf(k)
    PROVE  /\ l \in Seq(Row) /\ Len(l) \in {1, 2}
           /\ \A r \in 1 .. Len(l) : l[r].reads = "header" =>
                 k = "header" /\ \A x \in 1 .. Len(l) : l[x].reads = "header" => x = r
           /\ \A r \in 1 .. Len(l) : l[r].reads = "summary" => k = "summary" /\ r = 1
           /\ \A r \in 1 .. Len(l) : l[r].reads = "ran" =>
                 \/ k = "ran" /\ r = 1
                 \/ k = "header" /\ \A x \in 1 .. Len(l) : l[x].reads # "header"
           /\ \A r \in 1 .. Len(l) : l[r].reads = "location" => k \in {"location", "header"}
           /\ \A r \in 1 .. Len(l) : l[r].reads = "tail" => k \notin {"location", "timing"} /\ r = 2 /\ l[1].reads = k
           /\ k = "message" => l[1].reads = "message"
<1> DEFINE F(m) ==
           /\ m \in Seq(Row) /\ Len(m) \in {1, 2}
           /\ \A r \in 1 .. Len(m) : m[r].reads = "header" =>
                 k = "header" /\ \A x \in 1 .. Len(m) : m[x].reads = "header" => x = r
           /\ \A r \in 1 .. Len(m) : m[r].reads = "summary" => k = "summary" /\ r = 1
           /\ \A r \in 1 .. Len(m) : m[r].reads = "ran" =>
                 \/ k = "ran" /\ r = 1
                 \/ k = "header" /\ \A x \in 1 .. Len(m) : m[x].reads # "header"
           /\ \A r \in 1 .. Len(m) : m[r].reads = "location" => k \in {"location", "header"}
           /\ \A r \in 1 .. Len(m) : m[r].reads = "tail" => k \notin {"location", "timing"} /\ r = 2 /\ m[1].reads = k
           /\ k = "message" => m[1].reads = "message"
<1>1. F(Plain(k))
  <2>1. [reads |-> k, full |-> FALSE] \in Row /\ k # "tail"
    BY DEF Kinds, Row, RowKinds
  <2> QED
    BY <2>1 DEF Plain
<1>2. ASSUME k \in {"ran", "header", "message", "summary"} PROVE F(Exact(k)) /\ F(Wrapped(k))
  <2>1. /\ [reads |-> k, full |-> TRUE] \in Row /\ [reads |-> "tail", full |-> FALSE] \in Row
        /\ k # "tail"
    BY DEF Kinds, Row, RowKinds
  <2>2. F(Exact(k))
    BY <2>1 DEF Exact
  <2>3. F(Wrapped(k))
    BY <2>1, <1>2 DEF Wrapped
  <2> QED
    BY <2>2, <2>3
<1>3. ASSUME k \in {"ran", "header", "message", "summary"}, NEW c \in Cuts(k)
      PROVE  F(Plain(c[1]) \o Plain(c[2]))
  <2> DEFINE a(x) == [reads |-> x, full |-> FALSE]
  <2>2. \/ k = "ran" /\ c \in {<<"ran", "other">>, <<"other", "other">>}
        \/ k = "header" /\ c \in {<<"location", "other">>, <<"other", "ran">>, <<"other", "header">>}
        \/ k = "message" /\ c = <<"message", "message">>
        \/ k = "summary" /\ c = <<"other", "other">>
    BY <1>3 DEF Cuts
  <2>3. c[1] \in RowKinds /\ c[2] \in RowKinds
    BY <2>2 DEF RowKinds, Kinds
  <2>6. a(c[1]) \in Row /\ a(c[2]) \in Row
    BY <2>3 DEF Row
  <2>4. <<a(c[1]), a(c[2])>> \in Seq(Row)
    BY <2>6
  <2>1. Plain(c[1]) \o Plain(c[2]) = <<a(c[1]), a(c[2])>>
    BY <2>6, Pair DEF Plain
  <2>5. F(<<a(c[1]), a(c[2])>>)
    BY <2>2, <2>4
  <2> QED
    BY ZenonT(30), <2>1, <2>5
<1>4. F(l)
  <2> HIDE DEF F
  <2> QED
    BY <1>1, <1>2, <1>3 DEF LayoutsOf, Layouts
<1> QED
  BY <1>4

LEMMA LinesRead ==
    ASSUME NEW k \in Kinds
    PROVE  /\ Line(k) \in TextLine /\ Line(k).reads = k
           /\ \A f \in BOOLEAN : /\ [Line(k) EXCEPT !.feed = f] \in TextLine
                                 /\ [Line(k) EXCEPT !.feed = f].reads = k
           /\ k \in {"ran", "header", "message", "summary"} =>
                 \A x \in OddLine(k) : x \in TextLine /\ x.reads = k
<1>1. Plain(k) \in LayoutsOf(k)
  BY DEF LayoutsOf, Layouts
<1>2. \A l \in LayoutsOf(k), f \in BOOLEAN : [reads |-> k, layout |-> l, feed |-> f] \in TextLine
  BY DEF TextLine
<1>3. Line(k) \in TextLine /\ Line(k).reads = k
  BY <1>1, <1>2 DEF Line
<1>4. \A f \in BOOLEAN : /\ [Line(k) EXCEPT !.feed = f] \in TextLine
                         /\ [Line(k) EXCEPT !.feed = f].reads = k
  BY <1>1, <1>2 DEF Line
<1>5. ASSUME k \in {"ran", "header", "message", "summary"}, NEW x \in OddLine(k)
      PROVE  x \in TextLine /\ x.reads = k
  <2>1. PICK l \in Layouts(k) : x = [reads |-> k, layout |-> l, feed |-> FALSE]
    BY DEF OddLine, Line
  <2> QED
    BY <2>1, <1>5, <1>2 DEF LayoutsOf
<1> QED
  BY <1>3, <1>4, <1>5

-----------------------------------------------------------------------------
(* What every test prints: its own line first, then lines among which each *)
(* header is followed by a message, a location between them perhaps.       *)
Leads(s, i) ==
    \/ i + 1 <= Len(s) /\ s[i + 1].reads = "message"
    \/ i + 2 <= Len(s) /\ s[i + 1].reads = "location" /\ s[i + 2].reads = "message"

Fails(s) == \E i \in 1 .. Len(s) : s[i].reads = "header"

Rest(g) ==
    /\ g \in Seq(TextLine)
    /\ \A i \in 1 .. Len(g) : g[i].reads \notin {"ran", "summary"}
    /\ \A i \in 1 .. Len(g) : g[i].reads = "header" => Leads(g, i)

Text(s) ==
    /\ s \in Seq(TextLine) /\ s # <<>> /\ s[1].reads = "ran"
    /\ \A i \in 1 .. Len(s) : i # 1 => s[i].reads \notin {"ran", "summary"}
    /\ \A i \in 1 .. Len(s) : s[i].reads = "header" => Leads(s, i)

LEMMA Concatenated ==
    ASSUME NEW X, NEW s \in Seq(X), NEW g \in Seq(X)
    PROVE  /\ s \o g \in Seq(X) /\ Len(s \o g) = Len(s) + Len(g)
           /\ Len(s) \in Nat /\ Len(g) \in Nat
           /\ \A i \in 1 .. Len(s) : i \in 1 .. Len(s \o g) /\ (s \o g)[i] = s[i]
           /\ \A i \in 1 .. Len(g) : i + Len(s) \in 1 .. Len(s \o g) /\ (s \o g)[i + Len(s)] = g[i]
           /\ \A i \in 1 .. Len(s \o g) : i \in 1 .. Len(s) \/ \E j \in 1 .. Len(g) : i = j + Len(s)
<1>1. Len(s) \in Nat /\ Len(g) \in Nat
  OBVIOUS
<1>2. /\ s \o g \in Seq(X) /\ Len(s \o g) = Len(s) + Len(g)
      /\ \A i \in 1 .. Len(s) + Len(g) :
            (s \o g)[i] = IF i <= Len(s) THEN s[i] ELSE g[i - Len(s)]
  BY ConcatProperties
<1> DEFINE u == s \o g
<1> HIDE DEF u
<1>3. Len(u) = Len(s) + Len(g) /\ \A i \in 1 .. Len(s) + Len(g) :
            u[i] = IF i <= Len(s) THEN s[i] ELSE g[i - Len(s)]
  BY <1>2 DEF u
<1>4. \A i \in 1 .. Len(s) : i \in 1 .. Len(u) /\ u[i] = s[i]
  BY <1>1, <1>3
<1>5. ASSUME NEW i \in 1 .. Len(g) PROVE i + Len(s) \in 1 .. Len(u) /\ u[i + Len(s)] = g[i]
  <2>1. i + Len(s) \in 1 .. Len(s) + Len(g) /\ ~(i + Len(s) <= Len(s)) /\ i + Len(s) - Len(s) = i
    BY <1>1
  <2>2. u[i + Len(s)] = g[i + Len(s) - Len(s)]
    BY <2>1, <1>3
  <2> QED
    BY <2>1, <2>2, <1>3
<1>6. \A i \in 1 .. Len(u) : i \in 1 .. Len(s) \/ \E j \in 1 .. Len(g) : i = j + Len(s)
  <2> TAKE i \in 1 .. Len(u)
  <2>1. i \in 1 .. Len(s) \/ (i - Len(s) \in 1 .. Len(g) /\ i = (i - Len(s)) + Len(s))
    BY <1>1, <1>3
  <2> QED
    BY <2>1
<1> QED
  BY <1>1, <1>2, <1>4, <1>5, <1>6 DEF u

LEMMA LeadsOn ==
    ASSUME NEW X, NEW s \in Seq(X), NEW g \in Seq(X)
    PROVE  /\ \A i \in 1 .. Len(s) : Leads(s, i) => Leads(s \o g, i)
           /\ \A i \in 1 .. Len(g) : Leads(g, i) => Leads(s \o g, i + Len(s))
<1> DEFINE u == s \o g
<1>1. /\ Len(u) = Len(s) + Len(g) /\ Len(s) \in Nat /\ Len(g) \in Nat
      /\ \A i \in 1 .. Len(s) : u[i] = s[i]
      /\ \A i \in 1 .. Len(g) : u[i + Len(s)] = g[i]
  BY Concatenated
<1> HIDE DEF u
<1>2. ASSUME NEW i \in 1 .. Len(s), Leads(s, i) PROVE Leads(u, i)
  <2>1. i + 1 <= Len(s) => i + 1 \in 1 .. Len(s) /\ i + 1 <= Len(u)
    BY <1>1
  <2>2. i + 2 <= Len(s) => i + 2 \in 1 .. Len(s) /\ i + 2 <= Len(u) /\ i + 1 \in 1 .. Len(s)
    BY <1>1
  <2> QED
    BY <2>1, <2>2, <1>1, <1>2 DEF Leads
<1>3. ASSUME NEW i \in 1 .. Len(g), Leads(g, i) PROVE Leads(u, i + Len(s))
  <2> DEFINE j == i + Len(s)
  <2>1. i + 1 <= Len(g) => i + 1 \in 1 .. Len(g) /\ j + 1 <= Len(u) /\ j + 1 = (i + 1) + Len(s)
    BY SMTT(20), <1>1
  <2>2. i + 2 <= Len(g) => /\ i + 2 \in 1 .. Len(g) /\ j + 2 <= Len(u) /\ j + 2 = (i + 2) + Len(s)
                           /\ i + 1 \in 1 .. Len(g) /\ j + 1 = (i + 1) + Len(s)
    BY <1>1
  <2> HIDE DEF j
  <2>3. CASE i + 1 <= Len(g) /\ g[i + 1].reads = "message"
    BY <2>1, <2>3, <1>1 DEF Leads, j
  <2>4. CASE i + 2 <= Len(g) /\ g[i + 1].reads = "location" /\ g[i + 2].reads = "message"
    BY <2>2, <2>4, <1>1 DEF Leads, j
  <2> QED
    BY <2>3, <2>4, <1>3 DEF Leads
<1> QED
  BY <1>2, <1>3 DEF u

LEMMA TextExtends ==
    ASSUME NEW s, NEW g, Text(s), Rest(g)
    PROVE  Text(s \o g) /\ (Fails(s \o g) <=> Fails(s) \/ Fails(g))
<1>1. s \in Seq(TextLine) /\ g \in Seq(TextLine) /\ Len(s) # 0
  BY DEF Text, Rest
<1> DEFINE u == s \o g
<1>2. /\ u \in Seq(TextLine) /\ Len(u) = Len(s) + Len(g)
      /\ Len(s) \in Nat /\ Len(g) \in Nat
  BY <1>1, Concatenated
<1>3. \A i \in 1 .. Len(s) : i \in 1 .. Len(u) /\ u[i] = s[i]
  BY <1>1, Concatenated
<1>4. \A i \in 1 .. Len(g) : i + Len(s) \in 1 .. Len(u) /\ u[i + Len(s)] = g[i]
  BY <1>1, Concatenated
<1>5. \A i \in 1 .. Len(u) : i \in 1 .. Len(s) \/ \E j \in 1 .. Len(g) : i = j + Len(s)
  BY <1>1, <1>2, Concatenated
<1>6. /\ \A i \in 1 .. Len(s) : Leads(s, i) => Leads(u, i)
      /\ \A i \in 1 .. Len(g) : Leads(g, i) => Leads(u, i + Len(s))
  BY <1>1, LeadsOn
<1> HIDE DEF u
<1>7. u # <<>> /\ u[1].reads = "ran"
  <2>1. 1 \in 1 .. Len(s)
    BY <1>1, <1>2
  <2> QED
    BY <2>1, <1>1, <1>2, <1>3 DEF Text
<1>8. ASSUME NEW i \in 1 .. Len(u), i # 1 PROVE u[i].reads \notin {"ran", "summary"}
  <2>1. CASE i \in 1 .. Len(s)
    BY <2>1, <1>3, <1>8 DEF Text
  <2>2. ASSUME NEW j \in 1 .. Len(g), i = j + Len(s) PROVE u[i].reads \notin {"ran", "summary"}
    BY <2>2, <1>4 DEF Rest
  <2> QED
    BY <2>1, <2>2, <1>5
<1>9. ASSUME NEW i \in 1 .. Len(u), u[i].reads = "header" PROVE Leads(u, i)
  <2>1. CASE i \in 1 .. Len(s)
    BY <2>1, <1>3, <1>6, <1>9 DEF Text
  <2>2. ASSUME NEW j \in 1 .. Len(g), i = j + Len(s) PROVE Leads(u, i)
    BY <2>2, <1>4, <1>6, <1>9 DEF Rest
  <2> QED
    BY <2>1, <2>2, <1>5
<1>10. Fails(u) <=> Fails(s) \/ Fails(g)
  <2>1. ASSUME NEW i \in 1 .. Len(u), u[i].reads = "header" PROVE Fails(s) \/ Fails(g)
    <3>1. CASE i \in 1 .. Len(s)
      BY <3>1, <2>1, <1>3 DEF Fails
    <3>2. ASSUME NEW j \in 1 .. Len(g), i = j + Len(s) PROVE Fails(g)
      BY <3>2, <2>1, <1>4 DEF Fails
    <3> QED
      BY <3>1, <3>2, <1>5
  <2>2. Fails(s) => Fails(u)
    BY <1>3 DEF Fails
  <2>3. Fails(g) => Fails(u)
    BY <1>4 DEF Fails
  <2> QED
    BY <2>1, <2>2, <2>3 DEF Fails
<1>11. Text(u)
  BY <1>2, <1>7, <1>8, <1>9 DEF Text
<1> QED
  BY <1>10, <1>11 DEF u

LEMMA RestExtends ==
    ASSUME NEW s, NEW g, Rest(s), Rest(g)
    PROVE  Rest(s \o g) /\ (Fails(s) => Fails(s \o g))
<1>1. s \in Seq(TextLine) /\ g \in Seq(TextLine)
  BY DEF Rest
<1> DEFINE u == s \o g
<1>2. u \in Seq(TextLine) /\ Len(s) \in Nat /\ Len(g) \in Nat
  BY <1>1, Concatenated
<1>3. \A i \in 1 .. Len(s) : i \in 1 .. Len(u) /\ u[i] = s[i]
  BY <1>1, Concatenated
<1>4. \A i \in 1 .. Len(g) : i + Len(s) \in 1 .. Len(u) /\ u[i + Len(s)] = g[i]
  BY <1>1, Concatenated
<1>5. \A i \in 1 .. Len(u) : i \in 1 .. Len(s) \/ \E j \in 1 .. Len(g) : i = j + Len(s)
  BY <1>1, <1>2, Concatenated
<1>6. /\ \A i \in 1 .. Len(s) : Leads(s, i) => Leads(u, i)
      /\ \A i \in 1 .. Len(g) : Leads(g, i) => Leads(u, i + Len(s))
  BY <1>1, LeadsOn
<1> HIDE DEF u
<1>7. ASSUME NEW i \in 1 .. Len(u)
      PROVE  u[i].reads \notin {"ran", "summary"} /\ (u[i].reads = "header" => Leads(u, i))
  <2>1. CASE i \in 1 .. Len(s)
    BY <2>1, <1>3, <1>6 DEF Rest
  <2>2. ASSUME NEW j \in 1 .. Len(g), i = j + Len(s)
        PROVE  u[i].reads \notin {"ran", "summary"} /\ (u[i].reads = "header" => Leads(u, i))
    BY <2>2, <1>4, <1>6 DEF Rest
  <2> QED
    BY <2>1, <2>2, <1>5
<1>8. Rest(u) /\ (Fails(s) => Fails(u))
  BY <1>2, <1>3, <1>7 DEF Rest, Fails
<1> QED
  BY <1>8 DEF u

LEMMA FailureTexts ==
    /\ Rest(PlainFailure) /\ Fails(PlainFailure)
    /\ \A f \in Failures : Rest(f) /\ Fails(f)
    /\ Rest(<<Line("timing")>>) /\ ~Fails(<<Line("timing")>>)
<1>1. \A k \in Kinds : Line(k) \in TextLine /\ Line(k).reads = k
  BY LinesRead
<1>2. /\ \A x \in OddLine("header") : x \in TextLine /\ x.reads = "header"
      /\ \A x \in OddLine("message") : x \in TextLine /\ x.reads = "message"
  BY LinesRead DEF Kinds
<1>3. ASSUME NEW h \in TextLine, NEW m \in TextLine, h.reads = "header", m.reads = "message"
      PROVE  Rest(<<h, m, Line("blank")>>) /\ Fails(<<h, m, Line("blank")>>)
  <2>1. Line("blank") \in TextLine /\ Line("blank").reads = "blank"
    BY <1>1 DEF Kinds
  <2> DEFINE f == <<h, m, Line("blank")>>
  <2>2. /\ f \in Seq(TextLine) /\ Len(f) = 3
        /\ f[1].reads = "header" /\ f[2].reads = "message" /\ f[3].reads = "blank"
    BY <2>1, <1>3
  <2> HIDE DEF f
  <2>3. Leads(f, 1)
    BY <2>2 DEF Leads
  <2>4. \A i \in 1 .. Len(f) : i = 1 \/ i = 2 \/ i = 3
    BY <2>2
  <2>5. Rest(f) /\ Fails(f)
    BY <2>2, <2>3, <2>4 DEF Rest, Fails
  <2> QED
    BY <2>5 DEF f
<1>4. Rest(PlainFailure) /\ Fails(PlainFailure)
  BY <1>1, <1>3 DEF PlainFailure, Kinds
<1>5. /\ Rest(<<Line("header"), Line("location"), Line("message"), Line("blank")>>)
      /\ Fails(<<Line("header"), Line("location"), Line("message"), Line("blank")>>)
  <2> DEFINE f == <<Line("header"), Line("location"), Line("message"), Line("blank")>>
  <2>1. /\ Line("header") \in TextLine /\ Line("header").reads = "header"
        /\ Line("location") \in TextLine /\ Line("location").reads = "location"
        /\ Line("message") \in TextLine /\ Line("message").reads = "message"
        /\ Line("blank") \in TextLine /\ Line("blank").reads = "blank"
    BY <1>1 DEF Kinds
  <2>2. /\ f \in Seq(TextLine) /\ Len(f) = 4
        /\ f[1].reads = "header" /\ f[2].reads = "location" /\ f[3].reads = "message"
        /\ f[4].reads = "blank"
    BY <2>1
  <2> HIDE DEF f
  <2>3. Leads(f, 1)
    BY <2>2 DEF Leads
  <2>4. \A i \in 1 .. Len(f) : i = 1 \/ i = 2 \/ i = 3 \/ i = 4
    BY <2>2
  <2>5. Rest(f) /\ Fails(f)
    BY <2>2, <2>3, <2>4 DEF Rest, Fails
  <2> QED
    BY <2>5 DEF f
<1>6. Rest(<<Line("message"), Line("blank")>>)
  <2> DEFINE f == <<Line("message"), Line("blank")>>
  <2>1. f \in Seq(TextLine) /\ Len(f) = 2 /\ f[1].reads = "message" /\ f[2].reads = "blank"
    BY <1>1 DEF Kinds
  <2> HIDE DEF f
  <2>2. \A i \in 1 .. Len(f) : i = 1 \/ i = 2
    BY <2>1
  <2>3. Rest(f)
    BY <2>1, <2>2 DEF Rest
  <2> QED
    BY <2>3 DEF f
<1>7. ASSUME NEW f \in Failures PROVE Rest(f) /\ Fails(f)
  <2>1. CASE \E h \in OddLine("header") : f = <<h, Line("message"), Line("blank")>>
    BY <2>1, <1>1, <1>2, <1>3 DEF Kinds
  <2>2. CASE \E m \in OddLine("message") : f = <<Line("header"), m, Line("blank")>>
    BY <2>2, <1>1, <1>2, <1>3 DEF Kinds
  <2>3. CASE f = <<Line("header"), Line("location"), Line("message"), Line("blank")>>
    BY <2>3, <1>5
  <2>4. CASE f = PlainFailure \o <<Line("message"), Line("blank")>>
    BY <2>4, <1>4, <1>6, RestExtends
  <2> QED
    BY <2>1, <2>2, <2>3, <2>4 DEF Failures
<1>8. Rest(<<Line("timing")>>) /\ ~Fails(<<Line("timing")>>)
  <2> DEFINE f == <<Line("timing")>>
  <2>1. f \in Seq(TextLine) /\ Len(f) = 1 /\ f[1].reads = "timing"
    BY <1>1 DEF Kinds
  <2> HIDE DEF f
  <2>2. \A i \in 1 .. Len(f) : i = 1
    BY <2>1
  <2>3. Rest(f) /\ ~Fails(f)
    BY <2>1, <2>2 DEF Rest, Fails
  <2> QED
    BY <2>3 DEF f
<1> QED
  BY <1>4, <1>7, <1>8

\* A test prints a text, with a header in it just if it fails.
LEMMA TestTexts ==
    /\ \A s \in PassingTexts : Text(s) /\ ~Fails(s)
    /\ \A s \in FailingTexts : Text(s) /\ Fails(s)
    /\ Text(<<Line("ran")>>) /\ ~Fails(<<Line("ran")>>)
<1>1. ASSUME NEW r \in TextLine, r.reads = "ran" PROVE Text(<<r>>) /\ ~Fails(<<r>>)
  <2> DEFINE s == <<r>>
  <2>1. s \in Seq(TextLine) /\ s # <<>> /\ Len(s) = 1 /\ s[1].reads = "ran"
    BY <1>1
  <2> HIDE DEF s
  <2>2. \A i \in 1 .. Len(s) : i = 1
    BY <2>1
  <2>3. Text(s) /\ ~Fails(s)
    BY <2>1, <2>2 DEF Text, Fails
  <2> QED
    BY <2>3 DEF s
<1>2. /\ Line("ran") \in TextLine /\ Line("ran").reads = "ran"
      /\ \A f \in BOOLEAN : /\ [Line("ran") EXCEPT !.feed = f] \in TextLine
                            /\ [Line("ran") EXCEPT !.feed = f].reads = "ran"
      /\ \A x \in OddLine("ran") : x \in TextLine /\ x.reads = "ran"
  BY LinesRead DEF Kinds
<1>3. Line("timing") \in TextLine /\ Line("timing").reads = "timing"
  BY LinesRead DEF Kinds
<1>4. ASSUME NEW f \in BOOLEAN
      PROVE  /\ Text(<<[Line("ran") EXCEPT !.feed = f], Line("timing")>>)
             /\ ~Fails(<<[Line("ran") EXCEPT !.feed = f], Line("timing")>>)
  <2> DEFINE r == [Line("ran") EXCEPT !.feed = f]
             s == <<r, Line("timing")>>
  <2>1. r \in TextLine /\ r.reads = "ran"
    BY <1>2
  <2> HIDE DEF r
  <2>2. s \in Seq(TextLine) /\ s # <<>> /\ Len(s) = 2 /\ s[1].reads = "ran" /\ s[2].reads = "timing"
    BY <2>1, <1>3
  <2> HIDE DEF s
  <2>3. \A i \in 1 .. Len(s) : i = 1 \/ i = 2
    BY <2>2
  <2>4. Text(s) /\ ~Fails(s)
    BY <2>2, <2>3 DEF Text, Fails
  <2> QED
    BY <2>4 DEF s, r
<1>5. ASSUME NEW s \in PassingTexts PROVE Text(s) /\ ~Fails(s)
  BY <1>1, <1>2, <1>4 DEF PassingTexts
<1>6. ASSUME NEW r \in TextLine, r.reads = "ran", NEW f, Rest(f), Fails(f)
      PROVE  Text(<<r>> \o f) /\ Fails(<<r>> \o f)
  <2> DEFINE s == <<r>>
  <2>1. Text(s)
    BY <1>1, <1>6
  <2> HIDE DEF s
  <2>2. Text(s \o f) /\ Fails(s \o f)
    BY <2>1, <1>6, TextExtends
  <2> QED
    BY <2>2 DEF s
<1>7. ASSUME NEW s, Text(s), Fails(s) PROVE Text(s \o <<Line("timing")>>) /\ Fails(s \o <<Line("timing")>>)
  BY <1>7, TextExtends, FailureTexts
<1>8. ASSUME NEW s, Text(s), Fails(s) PROVE Text(s \o PlainFailure) /\ Fails(s \o PlainFailure)
  BY <1>8, TextExtends, FailureTexts
<1>9. ASSUME NEW s \in FailingTexts PROVE Text(s) /\ Fails(s)
  <2>1. ASSUME NEW r \in OddLine("ran"), s = <<r>> \o PlainFailure \o <<Line("timing")>>
        PROVE  Text(s) /\ Fails(s)
    <3>1. Text(<<r>> \o PlainFailure) /\ Fails(<<r>> \o PlainFailure)
      BY <1>2, <1>6, FailureTexts
    <3> QED
      BY <3>1, <2>1, <1>7
  <2>2. ASSUME NEW f \in Failures
        PROVE  Text(<<Line("ran")>> \o f) /\ Fails(<<Line("ran")>> \o f)
    BY <1>2, <1>6, FailureTexts
  <2>3. ASSUME NEW f \in Failures, s = <<Line("ran")>> \o f \o <<Line("timing")>>
        PROVE  Text(s) /\ Fails(s)
    BY <2>2, <2>3, <1>7
  <2>4. ASSUME NEW f \in Failures, s = <<Line("ran")>> \o f \o PlainFailure \o <<Line("timing")>>
        PROVE  Text(s) /\ Fails(s)
    <3>1. Text(<<Line("ran")>> \o f \o PlainFailure) /\ Fails(<<Line("ran")>> \o f \o PlainFailure)
      BY <2>2, <1>8
    <3> QED
      BY <3>1, <2>4, <1>7
  <2> QED
    BY <2>1, <2>3, <2>4 DEF FailingTexts
<1> QED
  BY <1>1, <1>2, <1>5, <1>9

-----------------------------------------------------------------------------
(* The inductive invariant: what has been printed so far, what the host    *)
(* got of it, and what was read of that.                                   *)
Over == \A t \in Tests : fate[t] \in {"passed", "failed"}

\* The message of a header is on the next line of the test, or after the
\* location that is.
Led(i) ==
    \/ /\ i + 1 \in 1 .. Len(printed) /\ printed[i + 1].reads = "message"
       /\ printed[i + 1].of = printed[i].of
    \/ /\ i + 1 \in 1 .. Len(printed) /\ printed[i + 1].reads = "location"
       /\ printed[i + 1].of = printed[i].of
       /\ i + 2 \in 1 .. Len(printed) /\ printed[i + 2].reads = "message"
       /\ printed[i + 2].of = printed[i].of

RunInOrder == \A t, u \in Tests : u < t /\ fate[t] # "unrun" => fate[u] # "unrun"

LinesOfTests ==
    \A i \in 1 .. Len(printed) : printed[i].of # 0 =>
        fate[printed[i].of] # "unrun" /\ printed[i].reads # "summary"

LinesOfTheEnd ==
    \A i \in 1 .. Len(printed) : printed[i].of = 0 =>
        /\ printed[i].reads \in {"blank", "summary"} /\ phase # "printing" /\ Over
        /\ printed[i].reads = "summary" => i = Len(printed)

PrintedInOrder ==
    \A i, j \in 1 .. Len(printed) : i < j =>
        printed[j].of = 0 \/ (printed[i].of # 0 /\ printed[i].of <= printed[j].of)

OwnLineFirst ==
    \A i, j \in 1 .. Len(printed) :
        printed[i].reads = "ran" /\ printed[j].of = printed[i].of => i <= j

HeadersAreOfFailures ==
    \A i \in 1 .. Len(printed) : printed[i].reads = "header" =>
        printed[i].of # 0 /\ fate[printed[i].of] = "failed" /\ Led(i)

FatesArePrinted ==
    \A t \in Tests :
        /\ fate[t] # "unrun" => \E i \in 1 .. Len(printed) : printed[i].reads = "ran" /\ printed[i].of = t
        /\ fate[t] = "failed" => \E i \in 1 .. Len(printed) : printed[i].reads = "header" /\ printed[i].of = t

EndIsPrinted ==
    phase # "printing" /\ Over => \E i \in 1 .. Len(printed) : printed[i].reads = "summary"

PrintedInv ==
    /\ printed \in Seq(PrintedLine)
    /\ RunInOrder /\ LinesOfTests /\ LinesOfTheEnd /\ PrintedInOrder
    /\ OwnLineFirst /\ HeadersAreOfFailures /\ FatesArePrinted /\ EndIsPrinted

Got == phase \in {"delivered", "parsed"} \/ (phase = "refused" /\ lines # <<>>)

LinesInv ==
    /\ phase \in {"printing", "printed"} => lines = <<>>
    /\ Got /\ transport = "screen" =>
          \E first \in 1 .. Len(Captured) + 1 :
              lines = LogicalLines(SubSeq(Captured, first, Len(Captured)))
    /\ Got /\ transport = "file" =>
          lines = [i \in DOMAIN printed |->
                      <<[reads |-> printed[i].reads, of |-> printed[i].of, feed |-> printed[i].feed]>>]

ReadInv ==
    /\ phase # "parsed" => /\ verdict = [t \in Tests |-> "missing"]
                           /\ message = [t \in Tests |-> <<>>]
    /\ phase = "parsed" => /\ Readable
                           /\ verdict = [t \in Tests |-> Outcome(t)]
                           /\ message = [t \in Tests |-> Reported(t)]
    /\ phase = "refused" /\ lines # <<>> => ~Readable

IInv == TypeOK /\ PrintedInv /\ LinesInv /\ ReadInv

LEMMA OwnedLines ==
    ASSUME NEW s \in Seq(TextLine), NEW t \in 0 .. Count
    PROVE  /\ Owned(s, t) \in Seq(PrintedLine) /\ Len(Owned(s, t)) = Len(s)
           /\ \A i \in 1 .. Len(s) : /\ Owned(s, t)[i].reads = s[i].reads
                                     /\ Owned(s, t)[i].of = t
<1> DEFINE o(i) == [reads |-> s[i].reads, layout |-> s[i].layout, feed |-> s[i].feed, of |-> t]
<1>1. ASSUME NEW i \in 1 .. Len(s) PROVE o(i) \in PrintedLine
  <2>1. s[i] \in TextLine
    BY ElementOfSeq
  <2> QED
    BY <2>1 DEF TextLine, PrintedLine
<1>2. Owned(s, t) = [i \in 1 .. Len(s) |-> o(i)] /\ Len(s) \in Nat
  BY DEF Owned
<1>3. \A i \in 1 .. Len(s) : o(i).reads = s[i].reads /\ o(i).of = t
  OBVIOUS
<1> HIDE DEF o
<1> QED
  BY <1>1, <1>2, <1>3

\* What the lines of a test add to those before.
LEMMA Emitted ==
    ASSUME printed \in Seq(PrintedLine), NEW s \in Seq(TextLine), NEW t \in 0 .. Count,
           printed' = printed \o Owned(s, t)
    PROVE  /\ printed' \in Seq(PrintedLine) /\ Len(printed) \in Nat /\ Len(s) \in Nat
           /\ Len(printed') = Len(printed) + Len(s)
           /\ \A i \in 1 .. Len(printed) : i \in 1 .. Len(printed') /\ printed'[i] = printed[i]
           /\ \A i \in 1 .. Len(s) : /\ i + Len(printed) \in 1 .. Len(printed')
                                     /\ printed'[i + Len(printed)].reads = s[i].reads
                                     /\ printed'[i + Len(printed)].of = t
           /\ \A i \in 1 .. Len(printed') :
                 i \in 1 .. Len(printed) \/ \E j \in 1 .. Len(s) : i = j + Len(printed)
<1> DEFINE g == Owned(s, t)
<1>1. g \in Seq(PrintedLine) /\ Len(g) = Len(s) /\ \A i \in 1 .. Len(s) : g[i].reads = s[i].reads /\ g[i].of = t
  BY OwnedLines
<1> HIDE DEF g
<1>2. /\ printed \o g \in Seq(PrintedLine) /\ Len(printed \o g) = Len(printed) + Len(g)
      /\ Len(printed) \in Nat /\ Len(g) \in Nat
      /\ \A i \in 1 .. Len(printed) : i \in 1 .. Len(printed \o g) /\ (printed \o g)[i] = printed[i]
      /\ \A i \in 1 .. Len(g) : /\ i + Len(printed) \in 1 .. Len(printed \o g)
                                /\ (printed \o g)[i + Len(printed)] = g[i]
      /\ \A i \in 1 .. Len(printed \o g) :
            i \in 1 .. Len(printed) \/ \E j \in 1 .. Len(g) : i = j + Len(printed)
  <2>1. printed \in Seq(PrintedLine)
    OBVIOUS
  <2>2. g \in Seq(PrintedLine)
    BY <1>1
  <2> QED
    BY ONLY <2>1, <2>2, Concatenated
<1>3. printed' = printed \o g
  BY DEF g
<1> QED
  BY <1>1, <1>2, <1>3

LEMMA EmitKeepsPrinted ==
    ASSUME TypeOK, PrintedInv, NEW t \in Tests, NEW text, NEW end, Turn(t), Text(text),
           end \in {"passed", "failed", "died"}, end = "failed" <=> Fails(text),
           Emit(t, text, end), phase' \in {"printing", "printed"},
           phase' = "printed" => end = "died"
    PROVE  PrintedInv'
<1> DEFINE S == printed
           U == printed'
<1>1. /\ U \in Seq(PrintedLine) /\ Len(S) \in Nat /\ Len(text) \in Nat
      /\ Len(U) = Len(S) + Len(text)
      /\ \A i \in 1 .. Len(S) : i \in 1 .. Len(U) /\ U[i] = S[i]
      /\ \A i \in 1 .. Len(text) : /\ i + Len(S) \in 1 .. Len(U)
                                   /\ U[i + Len(S)].reads = text[i].reads
                                   /\ U[i + Len(S)].of = t
      /\ \A i \in 1 .. Len(U) : i \in 1 .. Len(S) \/ \E j \in 1 .. Len(text) : i = j + Len(S)
  <2>1. printed \in Seq(PrintedLine) /\ text \in Seq(TextLine) /\ t \in 0 .. Count
        /\ printed' = printed \o Owned(text, t)
    BY DEF PrintedInv, Emit, Text, Tests
  <2> QED
    BY <2>1, Emitted
<1>2. /\ fate \in [Tests -> {"unrun", "passed", "failed", "died"}]
      /\ fate' = [fate EXCEPT ![t] = end] /\ fate[t] = "unrun" /\ phase = "printing"
      /\ \A u \in 1 .. t - 1 : fate[u] # "unrun"
  BY DEF TypeOK, Emit, Turn
<1>3. /\ fate'[t] = end /\ \A u \in Tests : u # t => fate'[u] = fate[u]
  BY <1>2
<1>4. t \in 1 .. Count /\ Count \in Nat
  BY OutputTransportAssumption DEF Tests
<1>5. ASSUME NEW i \in 1 .. Len(S)
      PROVE  /\ S[i].of \in Tests /\ S[i].of < t /\ fate[S[i].of] # "unrun"
             /\ fate'[S[i].of] = fate[S[i].of]
  <2>1. S[i] \in PrintedLine
    BY <1>1, ElementOfSeq DEF PrintedInv
  <2>2. S[i].of \in 0 .. Count
    BY <2>1 DEF PrintedLine
  <2>3. S[i].of # 0
    BY <1>2 DEF PrintedInv, LinesOfTheEnd
  <2>4. S[i].of \in Tests
    BY <2>2, <2>3 DEF Tests
  <2>5. fate[S[i].of] # "unrun"
    BY <2>3 DEF PrintedInv, LinesOfTests
  <2>6. S[i].of # t /\ ~(t < S[i].of)
    BY <2>4, <2>5, <1>2 DEF PrintedInv, RunInOrder
  <2> QED
    BY <2>2, <2>4, <2>5, <2>6, <1>3, <1>4
<1>6. /\ text[1].reads = "ran" /\ Len(text) # 0
      /\ \A i \in 1 .. Len(text) : text[i].reads # "summary"
      /\ \A i \in 1 .. Len(text) : i # 1 => text[i].reads # "ran"
      /\ \A i \in 1 .. Len(text) : text[i].reads = "header" => Leads(text, i)
  BY DEF Text
<1>7. RunInOrder'
  <2> SUFFICES ASSUME NEW v \in Tests, NEW u \in Tests, u < v, fate'[v] # "unrun"
               PROVE  fate'[u] # "unrun"
    BY DEF RunInOrder
  <2>1. CASE v = t
    <3>1. u \in 1 .. t - 1 /\ u # t
      BY <2>1, <1>4 DEF Tests
    <3> QED
      BY <3>1, <1>2, <1>3
  <2>2. CASE v # t
    BY <2>2, <1>2, <1>3 DEF PrintedInv, RunInOrder
  <2> QED
    BY <2>1, <2>2
<1>8. LinesOfTests'
  <2> SUFFICES ASSUME NEW i \in 1 .. Len(U), U[i].of # 0
               PROVE  fate'[U[i].of] # "unrun" /\ U[i].reads # "summary"
    BY DEF LinesOfTests
  <2>1. CASE i \in 1 .. Len(S)
    BY <2>1, <1>1, <1>5 DEF PrintedInv, LinesOfTests
  <2>2. ASSUME NEW j \in 1 .. Len(text), i = j + Len(S)
        PROVE  fate'[U[i].of] # "unrun" /\ U[i].reads # "summary"
    BY <2>2, <1>1, <1>3, <1>6
  <2> QED
    BY <2>1, <2>2, <1>1
<1>9. ASSUME NEW i \in 1 .. Len(U) PROVE U[i].of \in Tests /\ U[i].of # 0
  <2>1. CASE i \in 1 .. Len(S)
    BY <2>1, <1>1, <1>5 DEF Tests
  <2>2. ASSUME NEW j \in 1 .. Len(text), i = j + Len(S) PROVE U[i].of = t
    BY <2>2, <1>1
  <2> QED
    <3>1. U[i].of = t => U[i].of \in Tests /\ U[i].of # 0
      BY <1>4
    <3> QED
      BY <2>1, <2>2, <3>1, <1>1
<1>10. LinesOfTheEnd'
  BY <1>9 DEF LinesOfTheEnd
<1>11. ASSUME NEW i \in 1 .. Len(U)
       PROVE  \/ i \in 1 .. Len(S) /\ U[i].of < t /\ U[i] = S[i]
              \/ i > Len(S) /\ U[i].of = t
  <2>1. CASE i \in 1 .. Len(S)
    BY <2>1, <1>1, <1>5
  <2>2. ASSUME NEW j \in 1 .. Len(text), i = j + Len(S) PROVE i > Len(S) /\ U[i].of = t
    BY <2>2, <1>1
  <2> QED
    BY <2>1, <2>2, <1>1
<1>12. PrintedInOrder'
  <2> SUFFICES ASSUME NEW i \in 1 .. Len(U), NEW j \in 1 .. Len(U), i < j
               PROVE  U[i].of # 0 /\ U[i].of <= U[j].of
    BY DEF PrintedInOrder
  <2>1. U[i].of # 0 /\ U[i].of \in Nat /\ U[j].of \in Nat
    BY <1>9, <1>4 DEF Tests
  <2>2. CASE j \in 1 .. Len(S) /\ U[j] = S[j]
    <3>1. i \in 1 .. Len(S) /\ U[i] = S[i]
      BY <2>2, <1>1
    <3>2. S[j].of # 0
      BY <2>2, <1>5, <1>4 DEF Tests
    <3> QED
      BY <2>1, <2>2, <3>1, <3>2 DEF PrintedInv, PrintedInOrder
  <2>3. CASE j > Len(S) /\ U[j].of = t
    BY <2>1, <2>3, <1>4, <1>11
  <2> QED
    BY <2>2, <2>3, <1>11
<1>13. OwnLineFirst'
  <2> SUFFICES ASSUME NEW i \in 1 .. Len(U), NEW j \in 1 .. Len(U), U[i].reads = "ran",
                      U[j].of = U[i].of
               PROVE  i <= j
    BY DEF OwnLineFirst
  <2>1. CASE i \in 1 .. Len(S) /\ U[i].of < t /\ U[i] = S[i]
    <3>1. U[j].of \in Nat /\ t \in Nat
      BY <1>9, <1>4 DEF Tests
    <3>2. j \in 1 .. Len(S) /\ U[j] = S[j]
      BY <2>1, <3>1, <1>11
    <3> QED
      BY <2>1, <3>2 DEF PrintedInv, OwnLineFirst
  <2>2. CASE i > Len(S) /\ U[i].of = t
    <3>1. PICK k \in 1 .. Len(text) : i = k + Len(S)
      BY <2>2, <1>1
    <3>2. k = 1
      BY <3>1, <1>1, <1>6
    <3>3. j > Len(S)
      BY <2>2, <1>4, <1>11
    <3> QED
      BY <3>1, <3>2, <3>3, <1>1
  <2> QED
    BY <2>1, <2>2, <1>11
<1>14. ASSUME NEW i \in 1 .. Len(S), Led(i) PROVE Led(i)'
  BY <1>1, <1>14 DEF Led
<1>15. ASSUME NEW k \in 1 .. Len(text), Leads(text, k), NEW i, i = k + Len(S) PROVE Led(i)'
  <2>1. U[i].of = t
    BY <1>1, <1>15
  <2>2. CASE k + 1 <= Len(text) /\ text[k + 1].reads = "message"
    <3>1. k + 1 \in 1 .. Len(text) /\ i + 1 = (k + 1) + Len(S)
      BY <2>2, <1>1, <1>15
    <3>2. i + 1 \in 1 .. Len(U) /\ U[i + 1].reads = "message" /\ U[i + 1].of = t
      BY <2>2, <3>1, <1>1
    <3> QED
      BY <2>1, <3>2 DEF Led
  <2>3. CASE k + 2 <= Len(text) /\ text[k + 1].reads = "location" /\ text[k + 2].reads = "message"
    <3>1. k + 1 \in 1 .. Len(text) /\ i + 1 = (k + 1) + Len(S)
      BY <2>3, <1>1, <1>15
    <3>2. i + 1 \in 1 .. Len(U) /\ U[i + 1].reads = "location" /\ U[i + 1].of = t
      BY <2>3, <3>1, <1>1
    <3>3. k + 2 \in 1 .. Len(text) /\ i + 2 = (k + 2) + Len(S)
      BY <2>3, <1>1, <1>15
    <3>4. i + 2 \in 1 .. Len(U) /\ U[i + 2].reads = "message" /\ U[i + 2].of = t
      BY <2>3, <3>3, <1>1
    <3> QED
      BY <2>1, <3>2, <3>4 DEF Led
  <2> QED
    BY <2>2, <2>3, <1>15 DEF Leads
<1>16. HeadersAreOfFailures'
  <2> SUFFICES ASSUME NEW i \in 1 .. Len(U), U[i].reads = "header"
               PROVE  U[i].of # 0 /\ fate'[U[i].of] = "failed" /\ Led(i)'
    BY DEF HeadersAreOfFailures
  <2>1. CASE i \in 1 .. Len(S)
    <3>1. U[i] = S[i] /\ fate'[S[i].of] = fate[S[i].of]
      BY <2>1, <1>1, <1>5
    <3>2. S[i].of # 0 /\ fate[S[i].of] = "failed" /\ Led(i)
      BY <2>1, <3>1 DEF PrintedInv, HeadersAreOfFailures
    <3> QED
      BY <2>1, <3>1, <3>2, <1>14
  <2>2. ASSUME NEW k \in 1 .. Len(text), i = k + Len(S)
        PROVE  U[i].of # 0 /\ fate'[U[i].of] = "failed" /\ Led(i)'
    <3>1. text[k].reads = "header" /\ U[i].of = t
      BY <2>2, <1>1
    <3>2. end = "failed"
      BY <3>1 DEF Fails
    <3>3. Led(i)'
      BY <2>2, <3>1, <1>6, <1>15
    <3> QED
      BY <3>1, <3>2, <3>3, <1>3, <1>4
  <2> QED
    BY <2>1, <2>2, <1>1
<1>17. FatesArePrinted'
  <2> SUFFICES ASSUME NEW u \in Tests
               PROVE  /\ fate'[u] # "unrun" => \E i \in 1 .. Len(U) : U[i].reads = "ran" /\ U[i].of = u
                      /\ fate'[u] = "failed" => \E i \in 1 .. Len(U) : U[i].reads = "header" /\ U[i].of = u
    BY DEF FatesArePrinted
  <2>1. CASE u # t
    <3>1. /\ fate[u] # "unrun" => \E i \in 1 .. Len(S) : S[i].reads = "ran" /\ S[i].of = u
          /\ fate[u] = "failed" => \E i \in 1 .. Len(S) : S[i].reads = "header" /\ S[i].of = u
      BY DEF PrintedInv, FatesArePrinted
    <3> QED
      BY <2>1, <3>1, <1>1, <1>3
  <2>2. CASE u = t
    <3>1. \E i \in 1 .. Len(U) : U[i].reads = "ran" /\ U[i].of = t
      <4> DEFINE i == 1 + Len(S)
      <4>1. 1 \in 1 .. Len(text) /\ text[1].reads = "ran"
        BY <1>1, <1>6
      <4>2. \A j \in 1 .. Len(text) : /\ j + Len(S) \in 1 .. Len(U)
                                      /\ U[j + Len(S)].reads = text[j].reads
                                      /\ U[j + Len(S)].of = t
        BY <1>1
      <4>3. i \in 1 .. Len(U) /\ U[i].reads = text[1].reads /\ U[i].of = t
        BY ONLY <4>1, <4>2
      <4> HIDE DEF i, S, U
      <4> QED
        BY ONLY <4>1, <4>3
    <3>2. end = "failed" => \E i \in 1 .. Len(U) : U[i].reads = "header" /\ U[i].of = t
      BY <1>1 DEF Fails
    <3> QED
      BY <2>2, <3>1, <3>2, <1>3
  <2> QED
    BY <2>1, <2>2
<1>18. EndIsPrinted'
  <2>1. phase' # "printing" => ~Over'
    BY <1>3 DEF Over
  <2> QED
    BY <2>1 DEF EndIsPrinted
<1> QED
  BY <1>1, <1>7, <1>8, <1>10, <1>12, <1>13, <1>16, <1>17, <1>18 DEF PrintedInv

LEMMA SummaryKeepsPrinted ==
    ASSUME TypeOK, PrintedInv, PrintSummary
    PROVE  PrintedInv'
<1>1. /\ phase = "printing" /\ phase' = "printed" /\ fate' = fate
      /\ \A t \in Tests : fate[t] \in {"passed", "failed"}
  BY DEF PrintSummary, TypeOK
<1>2. PICK x \in OddLine("summary") : printed' = printed \o Owned(<<Line("blank"), x>>, 0)
  BY DEF PrintSummary
<1> DEFINE s == <<Line("blank"), x>>
           S == printed
           U == printed'
<1>3. s \in Seq(TextLine) /\ Len(s) = 2 /\ s[1].reads = "blank" /\ s[2].reads = "summary"
  <2>1. x \in TextLine /\ x.reads = "summary" /\ Line("blank") \in TextLine /\ Line("blank").reads = "blank"
    BY LinesRead DEF Kinds
  <2> QED
    BY <2>1
<1> HIDE DEF s
<1>4. /\ U \in Seq(PrintedLine) /\ Len(S) \in Nat /\ Len(s) \in Nat
      /\ Len(U) = Len(S) + Len(s)
      /\ \A i \in 1 .. Len(S) : i \in 1 .. Len(U) /\ U[i] = S[i]
      /\ \A i \in 1 .. Len(s) : /\ i + Len(S) \in 1 .. Len(U)
                                /\ U[i + Len(S)].reads = s[i].reads
                                /\ U[i + Len(S)].of = 0
      /\ \A i \in 1 .. Len(U) : i \in 1 .. Len(S) \/ \E j \in 1 .. Len(s) : i = j + Len(S)
  <2>1. printed \in Seq(PrintedLine) /\ 0 \in 0 .. Count /\ printed' = printed \o Owned(s, 0)
    BY <1>2, OutputTransportAssumption DEF PrintedInv, s
  <2> QED
    BY ONLY <2>1, <1>3, Emitted
<1>5. ASSUME NEW i \in 1 .. Len(U)
      PROVE  \/ i \in 1 .. Len(S) /\ U[i] = S[i] /\ S[i].of # 0
             \/ /\ i > Len(S) /\ U[i].of = 0 /\ U[i].reads \in {"blank", "summary"}
                /\ U[i].reads = "summary" => i = Len(U)
  <2>1. CASE i \in 1 .. Len(S)
    BY <2>1, <1>1, <1>4 DEF PrintedInv, LinesOfTheEnd
  <2>2. ASSUME NEW j \in 1 .. Len(s), i = j + Len(S)
        PROVE  /\ i > Len(S) /\ U[i].of = 0 /\ U[i].reads \in {"blank", "summary"}
               /\ U[i].reads = "summary" => i = Len(U)
    <3>1. j = 1 \/ j = 2
      BY <1>3
    <3> QED
      BY <2>2, <3>1, <1>3, <1>4
  <2> QED
    BY <2>1, <2>2, <1>4
<1>6. RunInOrder'
  BY <1>1 DEF PrintedInv, RunInOrder
<1>7. LinesOfTests' /\ LinesOfTheEnd'
  BY <1>1, <1>5 DEF PrintedInv, LinesOfTests, LinesOfTheEnd, Over
<1>8. PrintedInOrder'
  <2> SUFFICES ASSUME NEW i \in 1 .. Len(U), NEW j \in 1 .. Len(U), i < j, U[j].of # 0
               PROVE  U[i].of # 0 /\ U[i].of <= U[j].of
    BY DEF PrintedInOrder
  <2>1. j \in 1 .. Len(S) /\ U[j] = S[j]
    BY <1>5
  <2>2. i \in 1 .. Len(S) /\ U[i] = S[i]
    BY <2>1, <1>4
  <2> QED
    BY <2>1, <2>2 DEF PrintedInv, PrintedInOrder
<1>9. OwnLineFirst'
  <2> SUFFICES ASSUME NEW i \in 1 .. Len(U), NEW j \in 1 .. Len(U), U[i].reads = "ran",
                      U[j].of = U[i].of
               PROVE  i <= j
    BY DEF OwnLineFirst
  <2>1. i \in 1 .. Len(S) /\ U[i] = S[i] /\ S[i].of # 0
    BY <1>5
  <2>2. j \in 1 .. Len(S) /\ U[j] = S[j]
    BY <2>1, <1>5
  <2> QED
    BY <2>1, <2>2 DEF PrintedInv, OwnLineFirst
<1>10. ASSUME NEW i \in 1 .. Len(S), Led(i) PROVE Led(i)'
  BY <1>4, <1>10 DEF Led
<1>11. HeadersAreOfFailures'
  <2> SUFFICES ASSUME NEW i \in 1 .. Len(U), U[i].reads = "header"
               PROVE  U[i].of # 0 /\ fate[U[i].of] = "failed" /\ Led(i)'
    BY <1>1 DEF HeadersAreOfFailures
  <2>1. i \in 1 .. Len(S) /\ U[i] = S[i]
    BY <1>5
  <2>2. S[i].of # 0 /\ fate[S[i].of] = "failed" /\ Led(i)
    BY <2>1 DEF PrintedInv, HeadersAreOfFailures
  <2> QED
    BY <2>1, <2>2, <1>10
<1>12. FatesArePrinted'
  <2> SUFFICES ASSUME NEW u \in Tests
               PROVE  /\ fate[u] # "unrun" => \E i \in 1 .. Len(U) : U[i].reads = "ran" /\ U[i].of = u
                      /\ fate[u] = "failed" => \E i \in 1 .. Len(U) : U[i].reads = "header" /\ U[i].of = u
    BY <1>1 DEF FatesArePrinted
  <2>1. /\ fate[u] # "unrun" => \E i \in 1 .. Len(S) : S[i].reads = "ran" /\ S[i].of = u
        /\ fate[u] = "failed" => \E i \in 1 .. Len(S) : S[i].reads = "header" /\ S[i].of = u
    BY DEF PrintedInv, FatesArePrinted
  <2> QED
    BY <2>1, <1>4
<1>13. EndIsPrinted'
  <2>1. 2 \in 1 .. Len(s)
    BY <1>3
  <2> QED
    BY <2>1, <1>3, <1>4 DEF EndIsPrinted
<1> QED
  BY <1>4, <1>6, <1>7, <1>8, <1>9, <1>11, <1>12, <1>13 DEF PrintedInv

-----------------------------------------------------------------------------
THEOREM InitIInv == Init => IInv
<1> SUFFICES ASSUME Init PROVE IInv
  OBVIOUS
<1> USE DEF Init
<1>1. TypeOK
  BY DEF TypeOK
<1>2. printed \in Seq(PrintedLine) /\ Len(printed) = 0 /\ \A i \in 1 .. Len(printed) : FALSE
  OBVIOUS
<1>3. PrintedInv
  <2>1. \A t \in Tests : fate[t] = "unrun"
    OBVIOUS
  <2> QED
    BY <1>2, <2>1 DEF PrintedInv, RunInOrder, LinesOfTests, LinesOfTheEnd, PrintedInOrder,
                      OwnLineFirst, HeadersAreOfFailures, FatesArePrinted, EndIsPrinted
<1>4. LinesInv /\ ReadInv
  BY DEF LinesInv, ReadInv, Got
<1> QED
  BY <1>1, <1>3, <1>4 DEF IInv

LEMMA StillPrinted ==
    ASSUME PrintedInv, printed' = printed, fate' = fate,
           phase' # "printing", phase = "printing" => FALSE
    PROVE  PrintedInv'
BY DEF PrintedInv, RunInOrder, LinesOfTests, LinesOfTheEnd, PrintedInOrder, OwnLineFirst,
       HeadersAreOfFailures, FatesArePrinted, EndIsPrinted, Over, Led

LEMMA OutcomeType ==
    \A t \in Tests : Outcome(t) \in {"missing", "passed", "failed"}
BY DEF Outcome

LEMMA SameReading ==
    ASSUME lines' = lines, printed' = printed
    PROVE  /\ Captured' = Captured /\ Readable' = Readable
           /\ \A t \in Tests : Outcome(t)' = Outcome(t) /\ Reported(t)' = Reported(t)
<1>1. Captured' = Captured
  BY DEF Captured, Piece
<1>2. Headers' = Headers
  BY DEF Headers
<1>3. Readable' = Readable
  BY <1>2 DEF Readable
<1>4. SplitLines' = SplitLines
  BY DEF SplitLines
<1>5. ASSUME NEW t \in Tests PROVE Outcome(t)' = Outcome(t) /\ Reported(t)' = Reported(t)
  <2>1. HeadersOf(t)' = HeadersOf(t)
    BY <1>2 DEF HeadersOf
  <2>2. Outcome(t)' = Outcome(t)
    BY <2>1 DEF Outcome
  <2>3. MessageAfter(Max(HeadersOf(t)))' = MessageAfter(Max(HeadersOf(t)))
    BY <2>1, <1>4 DEF MessageAfter
  <2> QED
    BY <2>2, <2>3 DEF Reported
<1> QED
  BY <1>1, <1>3, <1>5

LEMMA NextIInv == IInv /\ [Next]_vars => IInv'
<1> SUFFICES ASSUME IInv, [Next]_vars PROVE IInv'
  OBVIOUS
<1> USE DEF IInv
<1>1. ASSUME NEW t \in Tests, NEW text, NEW end, Turn(t), Text(text),
             end \in {"passed", "failed", "died"}, end = "failed" <=> Fails(text),
             Emit(t, text, end), phase' \in {"printing", "printed"},
             phase' = "printing" <=> end # "died"
      PROVE  IInv'
  <2>1. PrintedInv'
    BY <1>1, EmitKeepsPrinted
  <2>2. /\ phase = "printing" /\ phase' # "parsed" /\ phase' # "refused" /\ phase' # "delivered"
        /\ lines' = lines /\ verdict' = verdict /\ message' = message /\ transport' = transport
        /\ fate' = [fate EXCEPT ![t] = end]
    BY <1>1 DEF Emit, Turn
  <2>3. TypeOK'
    BY <1>1, <2>2 DEF TypeOK
  <2>4. LinesInv' /\ ReadInv'
    BY <1>1, <2>2 DEF LinesInv, ReadInv, Got
  <2> QED
    BY <2>1, <2>3, <2>4
<1>2. ASSUME NEW t \in Tests, TestPasses(t) PROVE IInv'
  <2>1. PICK text \in PassingTexts : Emit(t, text, "passed")
    BY <1>2 DEF TestPasses
  <2>2. Text(text) /\ ~Fails(text) /\ Turn(t) /\ phase' = "printing"
    BY <1>2, TestTexts DEF TestPasses, Turn
  <2> QED
    BY <2>1, <2>2, <1>1
<1>3. ASSUME NEW t \in Tests, TestFails(t) PROVE IInv'
  <2>1. PICK text \in FailingTexts : Emit(t, text, "failed")
    BY <1>3 DEF TestFails
  <2>2. Text(text) /\ Fails(text) /\ Turn(t) /\ phase' = "printing"
    BY <1>3, TestTexts DEF TestFails, Turn
  <2> QED
    BY <2>1, <2>2, <1>1
<1>4. ASSUME NEW t \in Tests, TestDies(t) PROVE IInv'
  <2>1. /\ Emit(t, <<Line("ran")>>, "died") /\ Turn(t) /\ phase' = "printed"
        /\ Text(<<Line("ran")>>) /\ ~Fails(<<Line("ran")>>)
    BY <1>4, TestTexts DEF TestDies
  <2> QED
    BY <2>1, <1>1
<1>5. CASE PrintSummary
  <2>1. PrintedInv'
    BY <1>5, SummaryKeepsPrinted
  <2>2. TypeOK'
    BY <1>5 DEF PrintSummary, TypeOK
  <2>3. LinesInv' /\ ReadInv'
    BY <1>5 DEF PrintSummary, LinesInv, ReadInv, Got
  <2> QED
    BY <2>1, <2>2, <2>3
<1>6. CASE DeliverScreen
  <2>1. PrintedInv'
    BY <1>6, StillPrinted DEF DeliverScreen
  <2>2. TypeOK'
    BY <1>6 DEF DeliverScreen, TypeOK
  <2>3. Captured' = Captured
    BY <1>6 DEF DeliverScreen, Captured, Piece
  <2>4. LinesInv'
    BY <1>6, <2>3 DEF DeliverScreen, LinesInv, Got
  <2>5. ReadInv'
    BY <1>6 DEF DeliverScreen, ReadInv
  <2> QED
    BY <2>1, <2>2, <2>4, <2>5
<1>7. CASE DeliverFile
  <2>1. PrintedInv'
    BY <1>7, StillPrinted DEF DeliverFile
  <2>2. TypeOK'
    BY <1>7 DEF DeliverFile, TypeOK
  <2>3. LinesInv'
    BY <1>7 DEF DeliverFile, LinesInv, Got
  <2>4. ReadInv'
    BY <1>7 DEF DeliverFile, ReadInv, LinesInv
  <2> QED
    BY <2>1, <2>2, <2>3, <2>4
<1>8. CASE Parse
  <2>1. PrintedInv'
    BY <1>8, StillPrinted DEF Parse
  <2>2. /\ phase = "delivered" /\ phase' = "parsed" /\ printed' = printed /\ lines' = lines
        /\ transport' = transport /\ fate' = fate /\ Readable
        /\ verdict' = [t \in Tests |-> Outcome(t)] /\ message' = [t \in Tests |-> Reported(t)]
    BY <1>8 DEF Parse
  <2>3. TypeOK'
    BY <2>2, OutcomeType DEF TypeOK
  <2>4. Captured' = Captured
    BY <2>2 DEF Captured, Piece
  <2>5. LinesInv'
    BY <2>2, <2>4 DEF LinesInv, Got
  <2>6. Readable' /\ \A t \in Tests : Outcome(t)' = Outcome(t) /\ Reported(t)' = Reported(t)
    BY <2>2, SameReading
  <2>7. ReadInv'
    BY <2>2, <2>6 DEF ReadInv
  <2> QED
    BY <2>1, <2>3, <2>5, <2>7
<1>9. CASE Refuse
  <2>1. PrintedInv'
    BY <1>9, StillPrinted DEF Refuse
  <2>2. /\ phase = "delivered" /\ phase' = "refused" /\ printed' = printed /\ lines' = lines
        /\ transport' = transport /\ fate' = fate /\ ~Readable
        /\ verdict' = verdict /\ message' = message
    BY <1>9 DEF Refuse
  <2>3. TypeOK'
    BY <2>2 DEF TypeOK
  <2>4. Captured' = Captured
    BY <2>2 DEF Captured, Piece
  <2>5. LinesInv'
    BY <2>2, <2>4 DEF LinesInv, Got
  <2>6. ~Readable'
    BY <2>2 DEF Readable, Headers
  <2>7. ReadInv'
    BY <2>2, <2>6 DEF ReadInv
  <2> QED
    BY <2>1, <2>3, <2>5, <2>7
<1>10. CASE UNCHANGED vars
  <2>1. TypeOK'
    BY <1>10 DEF vars, TypeOK
  <2>2. PrintedInv'
    BY <1>10 DEF vars, PrintedInv, RunInOrder, LinesOfTests, LinesOfTheEnd, PrintedInOrder,
       OwnLineFirst, HeadersAreOfFailures, FatesArePrinted, EndIsPrinted, Over, Led
  <2>3. /\ Captured' = Captured /\ Readable' = Readable
        /\ \A t \in Tests : Outcome(t)' = Outcome(t) /\ Reported(t)' = Reported(t)
    BY <1>10, SameReading DEF vars
  <2>4. LinesInv' /\ ReadInv'
    BY <1>10, <2>3 DEF vars, LinesInv, ReadInv, Got
  <2> QED
    BY <2>1, <2>2, <2>4
<1> QED
  BY <1>2, <1>3, <1>4, <1>5, <1>6, <1>7, <1>8, <1>9, <1>10 DEF Next

THEOREM AlwaysIInv == Spec => []IInv
BY InitIInv, NextIInv, PTL DEF Spec

-----------------------------------------------------------------------------
(* Where the host's rows come from: the o[p]-th line printed, and of its   *)
(* rows the q[p]-th.  They are in the order they were printed in, and from *)
(* the first of them on no line is lost, the blank ones on screen apart.   *)
PieceSet == [reads : RowKinds, of : 0 .. Count, feed : BOOLEAN]

RowOf(row, x, j) ==
    \/ transport = "file" /\ j = 1 /\ row.piece.reads = x.reads /\ ~row.full
    \/ /\ transport = "screen" /\ x.reads # "blank" /\ j \in 1 .. Len(x.layout)
       /\ row.piece.reads = x.layout[j].reads /\ row.full = x.layout[j].full

Origin(rows, o, q) ==
    /\ rows \in Seq([piece : PieceSet, full : BOOLEAN])
    /\ o \in [1 .. Len(rows) -> 1 .. Len(printed)] /\ q \in [1 .. Len(rows) -> Nat]
    /\ \A p \in 1 .. Len(rows) :
          /\ rows[p].piece.of = printed[o[p]].of
          /\ Unfed => ~rows[p].piece.feed
          /\ RowOf(rows[p], printed[o[p]], q[p])
    /\ \A p, r \in 1 .. Len(rows) : p < r => o[p] < o[r] \/ (o[p] = o[r] /\ q[p] < q[r])
    /\ \A p \in 1 .. Len(rows), i \in 1 .. Len(printed) :
          o[p] < i /\ (transport = "screen" => printed[i].reads # "blank") =>
              \E r \in 1 .. Len(rows) : o[r] = i /\ q[r] = 1

LEMMA PrintedLines ==
    ASSUME PrintedInv, NEW i \in 1 .. Len(printed)
    PROVE  /\ printed[i].reads \in Kinds /\ printed[i].of \in 0 .. Count
           /\ printed[i].feed \in BOOLEAN /\ printed[i].layout \in LayoutsOf(printed[i].reads)
           /\ printed[i].layout \in Seq(Row) /\ Len(printed[i].layout) \in {1, 2}
<1>1. printed[i] \in PrintedLine
  BY ElementOfSeq DEF PrintedInv
<1>2. /\ printed[i].reads \in Kinds /\ printed[i].of \in 0 .. Count
      /\ printed[i].feed \in BOOLEAN /\ printed[i].layout \in LayoutsOf(printed[i].reads)
  BY <1>1 DEF PrintedLine
<1> QED
  BY <1>2, LayoutRows

\* The rows a screen shows, and all of them: Captured's.
RowsOf(i) ==
    IF printed[i].reads = "blank" THEN <<>>
    ELSE [j \in DOMAIN printed[i].layout |->
             [piece |-> Piece(printed[i].layout[j], printed[i].of),
              full  |-> printed[i].layout[j].full]]

LEMMA RowsOfType ==
    ASSUME PrintedInv, NEW i \in 1 .. Len(printed)
    PROVE  /\ RowsOf(i) \in Seq([piece : PieceSet, full : BOOLEAN])
           /\ printed[i].reads = "blank" => Len(RowsOf(i)) = 0
           /\ printed[i].reads # "blank" => Len(RowsOf(i)) = Len(printed[i].layout)
           /\ \A j \in 1 .. Len(RowsOf(i)) :
                 /\ j \in 1 .. Len(printed[i].layout)
                 /\ RowsOf(i)[j].piece.reads = printed[i].layout[j].reads
                 /\ RowsOf(i)[j].piece.of = printed[i].of
                 /\ RowsOf(i)[j].piece.feed = FALSE
                 /\ RowsOf(i)[j].full = printed[i].layout[j].full
<1>1. /\ printed[i].of \in 0 .. Count /\ printed[i].layout \in Seq(Row)
      /\ Len(printed[i].layout) \in {1, 2}
  BY PrintedLines
<1> DEFINE l == printed[i].layout
           row(j) == [piece |-> Piece(l[j], printed[i].of), full |-> l[j].full]
<1>2. CASE printed[i].reads = "blank"
  <2>1. RowsOf(i) = <<>>
    BY <1>2 DEF RowsOf
  <2> QED
    BY <2>1, <1>2
<1>3. CASE printed[i].reads # "blank"
  <2>1. RowsOf(i) = [j \in 1 .. Len(l) |-> row(j)] /\ Len(l) \in Nat
    BY <1>1, <1>3 DEF RowsOf
  <2>2. ASSUME NEW j \in 1 .. Len(l)
        PROVE  /\ row(j) \in [piece : PieceSet, full : BOOLEAN]
               /\ row(j).piece.reads = l[j].reads /\ row(j).piece.of = printed[i].of
               /\ row(j).piece.feed = FALSE /\ row(j).full = l[j].full
    <3>1. l[j] \in Row
      BY <1>1, ElementOfSeq
    <3> QED
      BY <3>1, <1>1 DEF Row, Piece, PieceSet
  <2> DEFINE X == [piece : PieceSet, full : BOOLEAN]
  <2>5. \A j \in 1 .. Len(l) : row(j) \in X
    BY <2>2
  <2>6. \A j \in 1 .. Len(l) : row(j).piece.reads = l[j].reads /\ row(j).piece.of = printed[i].of
                              /\ row(j).piece.feed = FALSE /\ row(j).full = l[j].full
    BY <2>2
  <2> HIDE DEF row, l, X
  <2>3. RowsOf(i) \in Seq(X) /\ Len(RowsOf(i)) = Len(l)
    BY <2>1, <2>5
  <2>4. \A j \in 1 .. Len(l) : RowsOf(i)[j] = row(j)
    BY <2>1
  <2> QED
    BY <2>6, <2>3, <2>4, <1>3 DEF l, X
<1> QED
  BY <1>2, <1>3

LEMMA CapturedOrigin ==
    ASSUME PrintedInv, transport = "screen"
    PROVE  \E o, q :
              /\ Origin(Captured, o, q)
              /\ \A i \in 1 .. Len(printed) : \A j \in 1 .. Len(RowsOf(i)) :
                    \E p \in 1 .. Len(Captured) : o[p] = i /\ q[p] = j
<1> DEFINE X == [piece : PieceSet, full : BOOLEAN]
           S == [i \in 1 .. Len(printed) |-> RowsOf(i)]
<1>1. Len(printed) \in Nat /\ DOMAIN printed = 1 .. Len(printed)
  BY DEF PrintedInv
<1>2. Captured = FlattenSeq(S)
  BY <1>1 DEF Captured, RowsOf
<1>3. \A i \in 1 .. Len(printed) : RowsOf(i) \in Seq(X)
  BY RowsOfType
<1>4. S \in Seq(Seq(X)) /\ Len(S) = Len(printed) /\ \A i \in 1 .. Len(printed) : S[i] = RowsOf(i)
  <2> HIDE DEF X
  <2> QED
    BY <1>1, <1>3
<1> HIDE DEF S, X
<1>5. /\ FlattenSeq(S) \in Seq(X)
      /\ \E o, q : Traces(FlattenSeq(S), S, Len(S), o, q)
  BY <1>4, FlattenTraces
<1>6. PICK o, q : Traces(Captured, S, Len(printed), o, q)
  BY <1>2, <1>4, <1>5
<1>7. Captured \in Seq(X)
  BY <1>2, <1>5
<1>8. o \in [1 .. Len(Captured) -> 1 .. Len(printed)] /\ q \in [1 .. Len(Captured) -> Nat]
  BY <1>6 DEF Traces
<1>9. \A p \in 1 .. Len(Captured) :
          q[p] \in 1 .. Len(RowsOf(o[p])) /\ Captured[p] = RowsOf(o[p])[q[p]]
  <2> TAKE p \in 1 .. Len(Captured)
  <2>1. q[p] \in 1 .. Len(S[o[p]]) /\ Captured[p] = S[o[p]][q[p]]
    BY <1>6 DEF Traces
  <2>2. S[o[p]] = RowsOf(o[p])
    BY <1>4, <1>8
  <2> QED
    BY <2>1, <2>2
<1>10. \A p, r \in 1 .. Len(Captured) : p < r => o[p] < o[r] \/ (o[p] = o[r] /\ q[p] < q[r])
  BY <1>6 DEF Traces
<1>11. \A i \in 1 .. Len(printed) : \A j \in 1 .. Len(RowsOf(i)) :
          \E p \in 1 .. Len(Captured) : o[p] = i /\ q[p] = j
  <2> TAKE i \in 1 .. Len(printed)
  <2>1. \A j \in 1 .. Len(S[i]) : \E p \in 1 .. Len(Captured) : o[p] = i /\ q[p] = j
    BY <1>6 DEF Traces
  <2> QED
    BY <2>1, <1>4
<1>12. ASSUME NEW p \in 1 .. Len(Captured)
       PROVE  /\ Captured[p].piece.of = printed[o[p]].of
              /\ ~Captured[p].piece.feed
              /\ RowOf(Captured[p], printed[o[p]], q[p])
  <2>1. o[p] \in 1 .. Len(printed) /\ q[p] \in 1 .. Len(RowsOf(o[p])) /\ Captured[p] = RowsOf(o[p])[q[p]]
    BY <1>8, <1>9
  <2> DEFINE i == o[p]
             j == q[p]
  <2>2. i \in 1 .. Len(printed) /\ j \in 1 .. Len(RowsOf(i)) /\ Captured[p] = RowsOf(i)[j]
    BY <2>1
  <2> HIDE DEF i, j
  <2>3. /\ printed[i].reads = "blank" => Len(RowsOf(i)) = 0
        /\ j \in 1 .. Len(printed[i].layout)
        /\ RowsOf(i)[j].piece.reads = printed[i].layout[j].reads
        /\ RowsOf(i)[j].piece.of = printed[i].of
        /\ RowsOf(i)[j].piece.feed = FALSE
        /\ RowsOf(i)[j].full = printed[i].layout[j].full
    BY <2>2, RowsOfType
  <2>4. printed[i].reads # "blank"
    BY <2>2, <2>3
  <2>5. RowOf(Captured[p], printed[i], j)
    BY <2>2, <2>3, <2>4 DEF RowOf
  <2> QED
    BY <2>2, <2>3, <2>5 DEF i, j
<1>13. ASSUME NEW i \in 1 .. Len(printed), printed[i].reads # "blank"
       PROVE  \E r \in 1 .. Len(Captured) : o[r] = i /\ q[r] = 1
  <2>1. 1 \in 1 .. Len(RowsOf(i))
    <3>1. Len(RowsOf(i)) = Len(printed[i].layout)
      BY <1>13, RowsOfType
    <3>2. Len(printed[i].layout) \in {1, 2}
      BY PrintedLines
    <3> QED
      BY SMTT(20), <3>1, <3>2
  <2> QED
    BY <2>1, <1>11
<1>14. Origin(Captured, o, q)
  BY <1>7, <1>8, <1>10, <1>12, <1>13 DEF Origin, X
<1> QED
  BY <1>11, <1>14

\* Losing the first rows keeps the others' origins.
LEMMA OriginOfRest ==
    ASSUME NEW all, NEW o, NEW q, Origin(all, o, q), NEW first \in 1 .. Len(all) + 1
    PROVE  \E oo, qq : Origin(SubSeq(all, first, Len(all)), oo, qq)
<1> DEFINE X == [piece : PieceSet, full : BOOLEAN]
           rows == SubSeq(all, first, Len(all))
           N == Len(all) - first + 1
           oo == [p \in 1 .. N |-> o[p + first - 1]]
           qq == [p \in 1 .. N |-> q[p + first - 1]]
<1>1. all \in Seq(X) /\ Len(all) \in Nat
  BY DEF Origin
<1>2. N \in Nat /\ \A p \in 1 .. N : p + first - 1 \in 1 .. Len(all)
  BY <1>1
<1>3. rows \in Seq(X) /\ Len(rows) = N /\ \A p \in 1 .. N : rows[p] = all[p + first - 1]
  <2>1. \A i \in first .. Len(all) : all[i] \in X
    <3> HIDE DEF X
    <3> QED
      BY <1>1, ElementOfSeq
  <2> HIDE DEF X
  <2>2. /\ SubSeq(all, first, Len(all)) \in Seq(X)
        /\ Len(SubSeq(all, first, Len(all))) = IF first <= Len(all) THEN Len(all) - first + 1 ELSE 0
        /\ \A i \in 1 .. Len(all) - first + 1 : SubSeq(all, first, Len(all))[i] = all[first + i - 1]
    BY <1>1, <2>1, SubSeqProperties
  <2>3. \A p \in 1 .. N : first + p - 1 = p + first - 1
    OBVIOUS
  <2> QED
    BY <1>1, <2>2, <2>3
<1> HIDE DEF rows, X
<1>4. /\ o \in [1 .. Len(all) -> 1 .. Len(printed)] /\ q \in [1 .. Len(all) -> Nat]
      /\ \A p \in 1 .. Len(all) :
            /\ all[p].piece.of = printed[o[p]].of
            /\ Unfed => ~all[p].piece.feed
            /\ RowOf(all[p], printed[o[p]], q[p])
  BY DEF Origin
<1>5. \A p, r \in 1 .. Len(all) : p < r => o[p] < o[r] \/ (o[p] = o[r] /\ q[p] < q[r])
  BY DEF Origin
<1>6. oo \in [1 .. N -> 1 .. Len(printed)] /\ qq \in [1 .. N -> Nat]
  BY <1>2, <1>4
<1>7. ASSUME NEW p \in 1 .. N
      PROVE  /\ oo[p] = o[p + first - 1] /\ qq[p] = q[p + first - 1]
             /\ p + first - 1 \in 1 .. Len(all) /\ rows[p] = all[p + first - 1]
  BY <1>2, <1>3
<1> HIDE DEF N, oo, qq
<1>8. \A p \in 1 .. N : /\ rows[p].piece.of = printed[oo[p]].of
                        /\ Unfed => ~rows[p].piece.feed
                        /\ RowOf(rows[p], printed[oo[p]], qq[p])
  BY <1>4, <1>7
<1>9. ASSUME NEW p \in 1 .. N, NEW r \in 1 .. N, p < r
      PROVE  oo[p] < oo[r] \/ (oo[p] = oo[r] /\ qq[p] < qq[r])
  <2>1. p + first - 1 < r + first - 1
    BY <1>9, <1>1
  <2> QED
    BY <2>1, <1>5, <1>7
<1>10. ASSUME NEW p \in 1 .. N, NEW i \in 1 .. Len(printed), oo[p] < i,
              transport = "screen" => printed[i].reads # "blank"
       PROVE  \E r \in 1 .. N : oo[r] = i /\ qq[r] = 1
  <2>1. PICK s \in 1 .. Len(all) : o[s] = i /\ q[s] = 1
    BY <1>7, <1>10 DEF Origin
  <2>2. s > p + first - 1
    <3>1. s # p + first - 1 /\ ~(s < p + first - 1)
      <4>1. o[p + first - 1] < o[s] /\ o[p + first - 1] \in Int /\ o[s] \in Int
        <5>1. o[s] = i /\ o[p + first - 1] = oo[p] /\ p + first - 1 \in 1 .. Len(all)
          BY <2>1, <1>7
        <5>2. o[p + first - 1] \in 1 .. Len(printed)
          BY <5>1, <1>4
        <5> QED
          BY <5>1, <5>2, <1>10
      <4>2. s # p + first - 1
        BY <4>1
      <4>3. ~(s < p + first - 1)
        BY <4>1, <1>5, <1>7
      <4> QED
        BY <4>2, <4>3
    <3> QED
      BY <3>1, <1>1
  <2>3. s - first + 1 \in 1 .. N /\ (s - first + 1) + first - 1 = s
    BY <2>2, <1>1 DEF N
  <2> QED
    BY <2>1, <2>3, <1>7
<1>11. Origin(rows, oo, qq)
  BY <1>3, <1>6, <1>8, <1>9, <1>10 DEF Origin, X
<1> QED
  BY <1>11 DEF rows

-----------------------------------------------------------------------------
(* What the host has got: rows with an origin, joined into its lines.      *)
Read(rows, o, q, b, e) ==
    /\ Origin(rows, o, q) /\ Joined(rows, lines, b, e)
    /\ lines \in Seq(Seq(PieceSet))

LEMMA FileRead ==
    ASSUME PrintedInv, LinesInv, Got, transport = "file"
    PROVE  /\ Len(lines) = Len(printed)
           /\ \E rows, o, q, b, e :
                 /\ Read(rows, o, q, b, e) /\ Len(rows) = Len(printed)
                 /\ \A i \in 1 .. Len(printed) : o[i] = i /\ b[i] = i /\ e[i] = i
<1> DEFINE N == Len(printed)
           piece(i) == [reads |-> printed[i].reads, of |-> printed[i].of, feed |-> printed[i].feed]
           row(i) == [piece |-> piece(i), full |-> FALSE]
           X == [piece : PieceSet, full : BOOLEAN]
           rows == [i \in 1 .. N |-> row(i)]
           id == [i \in 1 .. N |-> i]
           q == [i \in 1 .. N |-> 1]
<1>1. N \in Nat /\ DOMAIN printed = 1 .. N
  BY DEF PrintedInv
<1>2. lines = [i \in 1 .. N |-> <<piece(i)>>]
  BY <1>1 DEF LinesInv
<1>3. ASSUME NEW i \in 1 .. N
      PROVE  /\ piece(i) \in PieceSet /\ row(i) \in X
             /\ piece(i).reads = printed[i].reads /\ piece(i).of = printed[i].of
             /\ piece(i).feed = printed[i].feed /\ row(i).piece = piece(i) /\ ~row(i).full
  <2>1. printed[i].reads \in Kinds /\ printed[i].of \in 0 .. Count /\ printed[i].feed \in BOOLEAN
    BY PrintedLines
  <2>2. piece(i) \in PieceSet
    BY <2>1 DEF PieceSet, RowKinds
  <2> QED
    BY <2>2
<1>4. \A i \in 1 .. N : Unfed => ~printed[i].feed
  BY <1>1 DEF Unfed
<1>5. \A i \in 1 .. N : piece(i) \in PieceSet /\ row(i) \in X
  BY <1>3
<1>6. \A i \in 1 .. N : /\ piece(i).reads = printed[i].reads /\ piece(i).of = printed[i].of
                        /\ piece(i).feed = printed[i].feed
                        /\ row(i).piece = piece(i) /\ ~row(i).full
  BY <1>3
<1> HIDE DEF piece, row, X
<1>7. rows \in Seq(X) /\ Len(rows) = N /\ \A i \in 1 .. N : rows[i] = row(i)
  BY <1>1, <1>5
<1>8. \A i \in 1 .. N : <<piece(i)>> \in Seq(PieceSet)
  BY <1>5
<1>9. lines \in Seq(Seq(PieceSet)) /\ Len(lines) = N
  BY <1>1, <1>2, <1>8
<1>10. \A i \in 1 .. N : Len(lines[i]) = 1 /\ lines[i][1] = piece(i)
  BY <1>2
<1>11. id \in [1 .. N -> 1 .. N] /\ q \in [1 .. N -> Nat] /\ \A i \in 1 .. N : id[i] = i /\ q[i] = 1
  OBVIOUS
<1> HIDE DEF rows, id, q, N
<1>12. Origin(rows, id, q)
  <2>1. \A p \in 1 .. N : /\ rows[p].piece.of = printed[id[p]].of
                          /\ Unfed => ~rows[p].piece.feed
                          /\ RowOf(rows[p], printed[id[p]], q[p])
    BY <1>4, <1>6, <1>7, <1>11 DEF RowOf
  <2>2. \A p, r \in 1 .. N : p < r => id[p] < id[r] \/ (id[p] = id[r] /\ q[p] < q[r])
    BY <1>11
  <2>3. \A p \in 1 .. N, i \in 1 .. N : \E r \in 1 .. N : id[r] = i /\ q[r] = 1
    BY <1>11
  <2> QED
    BY <1>7, <1>11, <2>1, <2>2, <2>3 DEF Origin, X, N
<1>13. Joined(rows, lines, id, id)
  <2>1. ASSUME NEW n \in 1 .. N
        PROVE  /\ id[n] \in 1 .. N /\ id[n] <= id[n] /\ Len(lines[n]) = id[n] - id[n] + 1
               /\ \A j \in 1 .. Len(lines[n]) : lines[n][j] = rows[id[n] + j - 1].piece
               /\ ~rows[id[n]].full
               /\ \A p \in 1 .. N : id[n] <= p /\ p < id[n] => rows[p].full
    <3>1. id[n] = n /\ rows[n].piece = piece(n) /\ ~rows[n].full
      BY <1>6, <1>7, <1>11
    <3>2. \A j \in 1 .. Len(lines[n]) : j = 1
      <4>1. Len(lines[n]) = 1
        BY <1>10
      <4> QED
        BY ONLY <4>1
    <3>3. n + 1 - 1 = n /\ n - n + 1 = 1
      BY <1>1
    <3> QED
      BY <3>1, <3>2, <3>3, <1>10
  <2>2. \A n, m \in 1 .. N : n < m => id[n] < id[m]
    BY <1>11
  <2>3. \A p \in 1 .. N : \E n \in 1 .. N : id[n] <= p /\ p <= id[n]
    BY <1>11
  <2> QED
    BY <1>7, <1>9, <2>1, <2>2, <2>3 DEF Joined
<1>14. Read(rows, id, q, id, id) /\ \A i \in 1 .. N : id[i] = i
  BY <1>9, <1>11, <1>12, <1>13 DEF Read
<1> QED
  BY <1>7, <1>9, <1>14 DEF N

LEMMA Reading ==
    ASSUME PrintedInv, LinesInv, Got, transport \in {"screen", "file"}
    PROVE  \E rows, o, q, b, e : Read(rows, o, q, b, e)
<1>1. CASE transport = "file"
  BY <1>1, FileRead
<1>2. CASE transport = "screen"
  <2>1. PICK o, q : Origin(Captured, o, q)
    BY <1>2, CapturedOrigin
  <2>2. PICK first \in 1 .. Len(Captured) + 1 :
            lines = LogicalLines(SubSeq(Captured, first, Len(Captured)))
    BY <1>2 DEF LinesInv
  <2> DEFINE rows == SubSeq(Captured, first, Len(Captured))
  <2>3. PICK oo, qq : Origin(rows, oo, qq)
    BY <2>1, OriginOfRest
  <2>4. rows \in Seq([piece : PieceSet, full : BOOLEAN])
    BY <2>3 DEF Origin
  <2>5. lines \in Seq(Seq(PieceSet)) /\ \E b, e : Joined(rows, lines, b, e)
    <3> HIDE DEF rows
    <3>1. lines = LogicalLines(rows)
      BY <2>2 DEF rows
    <3> QED
      BY <3>1, <2>4, LogicalLinesAreJoined
  <2> QED
    BY <2>3, <2>5 DEF Read
<1> QED
  BY <1>1, <1>2

\* What is known of a row from what its line reads as.
LEMMA RowsAreOf ==
    ASSUME PrintedInv, NEW rows, NEW o, NEW q, Origin(rows, o, q), NEW p \in 1 .. Len(rows)
    PROVE  /\ o[p] \in 1 .. Len(printed) /\ rows[p].piece \in PieceSet
           /\ rows[p].piece.of = printed[o[p]].of
           /\ \A r \in 1 .. Len(rows) : o[r] = o[p] /\ q[r] = q[p] => r = p
           /\ \A r \in 1 .. Len(rows) :
                 rows[p].piece.reads = "header" /\ rows[r].piece.reads = "header" /\ o[r] = o[p] => r = p
           /\ rows[p].piece.reads = "header" => printed[o[p]].reads = "header"
           /\ rows[p].piece.reads = "summary" => printed[o[p]].reads = "summary" /\ q[p] = 1
           /\ rows[p].piece.reads = "ran" =>
                 \/ printed[o[p]].reads = "ran" /\ q[p] = 1
                 \/ /\ printed[o[p]].reads = "header"
                    /\ \A r \in 1 .. Len(rows) : o[r] = o[p] => rows[r].piece.reads # "header"
           /\ rows[p].piece.reads = "location" => printed[o[p]].reads \in {"location", "header"}
           /\ rows[p].piece.reads = "tail" =>
                 q[p] = 2 /\ transport = "screen" /\ printed[o[p]].reads \notin {"location", "timing"}
           /\ printed[o[p]].reads = "message" /\ q[p] = 1 => rows[p].piece.reads = "message"
<1> DEFINE i == o[p]
           l == printed[i].layout
           k == printed[i].reads
<1>1. /\ rows \in Seq([piece : PieceSet, full : BOOLEAN])
      /\ o \in [1 .. Len(rows) -> 1 .. Len(printed)] /\ q \in [1 .. Len(rows) -> Nat]
      /\ \A r \in 1 .. Len(rows) :
            /\ rows[r].piece.of = printed[o[r]].of
            /\ RowOf(rows[r], printed[o[r]], q[r])
      /\ \A s, r \in 1 .. Len(rows) : s < r => o[s] < o[r] \/ (o[s] = o[r] /\ q[s] < q[r])
  BY DEF Origin
<1>2. i \in 1 .. Len(printed)
  BY <1>1
<1>3. rows[p] \in [piece : PieceSet, full : BOOLEAN]
  BY <1>1, ElementOfSeq
<1>4. rows[p].piece \in PieceSet /\ rows[p].piece.reads \in RowKinds
  BY <1>3 DEF PieceSet
<1>5. k \in Kinds /\ l \in LayoutsOf(k) /\ l \in Seq(Row) /\ Len(l) \in {1, 2}
  <2> HIDE DEF i
  <2> QED
    BY <1>2, PrintedLines
<1>6. \A r \in 1 .. Len(rows) : o[r] = i /\ q[r] = q[p] => r = p
  <2> SUFFICES ASSUME NEW r \in 1 .. Len(rows), o[r] = i, q[r] = q[p] PROVE ~(r < p) /\ ~(p < r)
    OBVIOUS
  <2> QED
    BY <1>1
<1>7. \A r \in 1 .. Len(rows) : o[r] = i => RowOf(rows[r], printed[i], q[r])
  BY <1>1
<1>8. RowOf(rows[p], printed[i], q[p]) /\ q[p] \in Nat
  BY <1>1
<1>9. rows[p].piece.of = printed[i].of
  BY <1>1
<1>10. /\ \A r \in 1 .. Len(l) : l[r].reads = "header" =>
             k = "header" /\ \A x \in 1 .. Len(l) : l[x].reads = "header" => x = r
       /\ \A r \in 1 .. Len(l) : l[r].reads = "summary" => k = "summary" /\ r = 1
       /\ \A r \in 1 .. Len(l) : l[r].reads = "ran" =>
             \/ k = "ran" /\ r = 1
             \/ k = "header" /\ \A x \in 1 .. Len(l) : l[x].reads # "header"
       /\ \A r \in 1 .. Len(l) : l[r].reads = "location" => k \in {"location", "header"}
       /\ \A r \in 1 .. Len(l) : l[r].reads = "tail" => k \notin {"location", "timing"} /\ r = 2 /\ l[1].reads = k
       /\ k = "message" => l[1].reads = "message"
  <2> HIDE DEF k, l
  <2> QED
    BY <1>5, LayoutRows
<1>11. CASE transport = "file"
  <2>1. q[p] = 1 /\ rows[p].piece.reads = k
    BY <1>8, <1>11 DEF RowOf
  <2>2. \A r \in 1 .. Len(rows) : o[r] = i => q[r] = 1
    BY <1>7, <1>11 DEF RowOf
  <2>3. k # "tail"
    BY <1>5 DEF Kinds
  <2> HIDE DEF k, l
  <2>4. \A r \in 1 .. Len(rows) : o[r] = i => r = p
    BY <2>1, <2>2, <1>6
  <2> QED
    BY <1>2, <1>4, <1>6, <1>9, <2>1, <2>3, <2>4 DEF k
<1>12. CASE transport = "screen"
  <2>1. q[p] \in 1 .. Len(l) /\ rows[p].piece.reads = l[q[p]].reads
    BY <1>8, <1>12 DEF RowOf
  <2>2. \A r \in 1 .. Len(rows) : o[r] = i => q[r] \in 1 .. Len(l) /\ rows[r].piece.reads = l[q[r]].reads
    BY <1>7, <1>12 DEF RowOf
  <2> HIDE DEF k, l
  <2>3. ASSUME rows[p].piece.reads = "header"
        PROVE  k = "header" /\ \A r \in 1 .. Len(rows) : o[r] = i /\ rows[r].piece.reads = "header" => r = p
    BY <2>1, <2>2, <2>3, <1>6, <1>10
  <2>4. ASSUME rows[p].piece.reads = "ran"
        PROVE  \/ k = "ran" /\ q[p] = 1
               \/ k = "header" /\ \A r \in 1 .. Len(rows) : o[r] = i => rows[r].piece.reads # "header"
    BY <2>1, <2>2, <2>4, <1>10
  <2>5. /\ rows[p].piece.reads = "summary" => k = "summary" /\ q[p] = 1
        /\ rows[p].piece.reads = "location" => k \in {"location", "header"}
        /\ rows[p].piece.reads = "tail" => q[p] = 2 /\ k \notin {"location", "timing"}
        /\ k = "message" /\ q[p] = 1 => rows[p].piece.reads = "message"
    BY <2>1, <1>10
  <2> QED
    BY <1>2, <1>4, <1>6, <1>9, <1>12, <2>3, <2>4, <2>5 DEF k
<1>13. transport \in {"file", "screen"}
  BY <1>8 DEF RowOf
<1> QED
  BY <1>11, <1>12, <1>13

\* The pieces of a line, and the rows they are; lines follow each other.
LEMMA PiecesAreRows ==
    ASSUME NEW rows, NEW o, NEW q, NEW b, NEW e, Read(rows, o, q, b, e), NEW n \in 1 .. Len(lines)
    PROVE  /\ lines[n] \in Seq(PieceSet) /\ Len(lines[n]) \in Nat \ {0}
           /\ Len(lines[n]) = e[n] - b[n] + 1
           /\ b[n] \in 1 .. Len(rows) /\ e[n] \in 1 .. Len(rows) /\ b[n] <= e[n]
           /\ lines[n][1] = rows[b[n]].piece
           /\ lines[n][Len(lines[n])] = rows[e[n]].piece
           /\ Len(lines[n]) > 1 =>
                 lines[n][Len(lines[n]) - 1] = rows[e[n] - 1].piece /\ e[n] - 1 \in 1 .. Len(rows)
           /\ \A j \in 1 .. Len(lines[n]) :
                 b[n] + j - 1 \in 1 .. Len(rows) /\ b[n] + j - 1 <= e[n] /\ lines[n][j] = rows[b[n] + j - 1].piece
           /\ \A m \in 1 .. Len(lines) : n < m => e[n] < b[m]
<1>1. lines[n] \in Seq(PieceSet)
  <2> DEFINE Y == Seq(PieceSet)
  <2>1. lines \in Seq(Y)
    BY DEF Read
  <2> HIDE DEF Y
  <2>2. lines[n] \in Y
    BY <2>1, ElementOfSeq
  <2> QED
    BY <2>2 DEF Y
<1>2. Len(rows) \in Nat
  BY DEF Read, Origin
<1>3. /\ b[n] \in 1 .. Len(rows) /\ e[n] \in 1 .. Len(rows) /\ b[n] <= e[n]
      /\ Len(lines[n]) = e[n] - b[n] + 1
      /\ \A j \in 1 .. Len(lines[n]) : lines[n][j] = rows[b[n] + j - 1].piece
      /\ \A m \in 1 .. Len(lines) : n < m => e[n] < b[m]
  BY DEF Read, Joined
<1> DEFINE f == b[n]
           g == e[n]
           z == Len(lines[n])
<1>4. f \in 1 .. Len(rows) /\ g \in 1 .. Len(rows) /\ f <= g /\ z = g - f + 1
  BY <1>3
<1>5. \A j \in 1 .. z : lines[n][j] = rows[f + j - 1].piece
  BY <1>3
<1>6. \A m \in 1 .. Len(lines) : n < m => g < b[m]
  BY <1>3
<1> HIDE DEF f, g, z
<1>7. z \in Nat \ {0} /\ f + 1 - 1 = f /\ f + z - 1 = g /\ 1 \in 1 .. z /\ z \in 1 .. z
  BY <1>2, <1>4
<1>8. lines[n][1] = rows[f].piece /\ lines[n][z] = rows[g].piece
  BY <1>5, <1>7
<1>9. z > 1 => lines[n][z - 1] = rows[g - 1].piece /\ g - 1 \in 1 .. Len(rows)
  <2> SUFFICES ASSUME z > 1 PROVE lines[n][z - 1] = rows[g - 1].piece /\ g - 1 \in 1 .. Len(rows)
    OBVIOUS
  <2>1. z - 1 \in 1 .. z /\ f + (z - 1) - 1 = g - 1 /\ g - 1 \in 1 .. Len(rows)
    BY <1>2, <1>4, <1>7
  <2> QED
    BY <2>1, <1>5
<1>10. \A j \in 1 .. z : f + j - 1 \in 1 .. Len(rows) /\ f + j - 1 <= g
  BY <1>2, <1>4
<1> QED
  BY <1>1, <1>4, <1>5, <1>6, <1>7, <1>8, <1>9, <1>10 DEF f, g, z

\* The row a header line's header is.
HeadRow(n, e) == IF lines[n][Len(lines[n])].reads = "header" THEN e[n] ELSE e[n] - 1

LEMMA EndsRow ==
    ASSUME NEW rows, NEW o, NEW q, NEW b, NEW e, Read(rows, o, q, b, e), NEW n \in 1 .. Len(lines),
           NEW k, Ends(lines[n], k)
    PROVE  \/ rows[e[n]].piece.reads = k
           \/ /\ e[n] - 1 \in 1 .. Len(rows) /\ rows[e[n] - 1].piece.reads = k
              /\ rows[e[n]].piece.reads = "tail" /\ b[n] <= e[n] - 1
<1>1. /\ Len(lines[n]) \in Nat \ {0} /\ Len(lines[n]) = e[n] - b[n] + 1
      /\ b[n] \in 1 .. Len(rows) /\ e[n] \in 1 .. Len(rows)
      /\ lines[n][Len(lines[n])] = rows[e[n]].piece
      /\ Len(lines[n]) > 1 =>
            lines[n][Len(lines[n]) - 1] = rows[e[n] - 1].piece /\ e[n] - 1 \in 1 .. Len(rows)
  BY PiecesAreRows
<1>2. Len(lines[n]) > 1 => b[n] <= e[n] - 1
  BY <1>1
<1> QED
  BY <1>1, <1>2 DEF Ends

LEMMA HeadRows ==
    ASSUME PrintedInv, NEW rows, NEW o, NEW q, NEW b, NEW e, Read(rows, o, q, b, e), NEW n \in Headers
    PROVE  /\ n \in 1 .. Len(lines) /\ HeadRow(n, e) \in 1 .. Len(rows)
           /\ HeadRow(n, e) \in {e[n], e[n] - 1} /\ b[n] <= HeadRow(n, e)
           /\ HeadRow(n, e) # e[n] => rows[e[n]].piece.reads = "tail"
           /\ rows[HeadRow(n, e)].piece = Header(lines[n])
           /\ rows[HeadRow(n, e)].piece.reads = "header"
           /\ o[HeadRow(n, e)] \in 1 .. Len(printed)
           /\ printed[o[HeadRow(n, e)]].reads = "header"
           /\ Header(lines[n]).of = printed[o[HeadRow(n, e)]].of
<1>1. n \in 1 .. Len(lines) /\ Ends(lines[n], "header")
  BY DEF Headers, Read
<1>2. /\ Len(lines[n]) \in Nat \ {0} /\ Len(lines[n]) = e[n] - b[n] + 1
      /\ b[n] \in 1 .. Len(rows) /\ e[n] \in 1 .. Len(rows) /\ b[n] <= e[n]
      /\ lines[n][Len(lines[n])] = rows[e[n]].piece
      /\ Len(lines[n]) > 1 =>
            lines[n][Len(lines[n]) - 1] = rows[e[n] - 1].piece /\ e[n] - 1 \in 1 .. Len(rows)
  BY <1>1, PiecesAreRows
<1>3. /\ HeadRow(n, e) \in 1 .. Len(rows) /\ HeadRow(n, e) \in {e[n], e[n] - 1} /\ b[n] <= HeadRow(n, e)
      /\ HeadRow(n, e) # e[n] => rows[e[n]].piece.reads = "tail"
      /\ rows[HeadRow(n, e)].piece = Header(lines[n])
      /\ rows[HeadRow(n, e)].piece.reads = "header"
  <2>1. CASE lines[n][Len(lines[n])].reads = "header"
    BY <2>1, <1>2 DEF HeadRow, Header
  <2>2. CASE lines[n][Len(lines[n])].reads # "header"
    <3>1. /\ Len(lines[n]) > 1 /\ lines[n][Len(lines[n])].reads = "tail"
          /\ lines[n][Len(lines[n]) - 1].reads = "header"
      BY <2>2, <1>1 DEF Ends
    <3>2. b[n] <= e[n] - 1
      BY <3>1, <1>2
    <3> QED
      BY <2>2, <3>1, <3>2, <1>2 DEF HeadRow, Header
  <2> QED
    BY <2>1, <2>2
<1> DEFINE p == HeadRow(n, e)
<1> HIDE DEF p
<1>4. p \in 1 .. Len(rows) /\ rows[p].piece.reads = "header" /\ Origin(rows, o, q)
  BY <1>3 DEF p, Read
<1>5. o[p] \in 1 .. Len(printed) /\ printed[o[p]].reads = "header" /\ rows[p].piece.of = printed[o[p]].of
  BY <1>4, RowsAreOf
<1> QED
  BY <1>1, <1>3, <1>5 DEF p

\* A text that is read has lost no failure's header: as many are in it as
\* were printed, and no two are of the same line.
LEMMA HeadersFound ==
    ASSUME PrintedInv, Readable, NEW rows, NEW o, NEW q, NEW b, NEW e, Read(rows, o, q, b, e),
           NEW i \in 1 .. Len(printed), printed[i].reads = "header"
    PROVE  \E n \in Headers : o[HeadRow(n, e)] = i
<1> DEFINE P == {x \in 1 .. Len(printed) : printed[x].reads = "header"}
           h == [n \in Headers |-> o[HeadRow(n, e)]]
<1>1. IsFiniteSet(P) /\ IsFiniteSet(Headers)
  <2>1. IsFiniteSet(1 .. Len(printed)) /\ IsFiniteSet(1 .. Len(lines))
    BY FS_Interval DEF PrintedInv, Read
  <2>2. P \subseteq 1 .. Len(printed) /\ Headers \subseteq 1 .. Len(lines)
    BY DEF Headers, Read
  <2> QED
    BY <2>1, <2>2, FS_Subset
<1>2. Cardinality(Headers) = Cardinality(P)
  <2>1. DOMAIN printed = 1 .. Len(printed)
    BY DEF PrintedInv
  <2> QED
    BY <2>1 DEF Readable
<1>3. \A n \in Headers : o[HeadRow(n, e)] \in P
  BY HeadRows
<1>4. ASSUME NEW n \in Headers, NEW m \in Headers, h[n] = h[m] PROVE n = m
  <2> DEFINE p == HeadRow(n, e)
             r == HeadRow(m, e)
  <2>1. /\ p \in 1 .. Len(rows) /\ r \in 1 .. Len(rows) /\ Origin(rows, o, q)
        /\ rows[p].piece.reads = "header" /\ rows[r].piece.reads = "header" /\ o[r] = o[p]
    BY <1>4, HeadRows DEF Read
  <2> HIDE DEF p, r
  <2>2. r = p
    BY <2>1, RowsAreOf
  <2>3. /\ n \in 1 .. Len(lines) /\ m \in 1 .. Len(lines)
        /\ b[n] <= p /\ p <= e[n] /\ b[m] <= r /\ r <= e[m]
        /\ b[n] \in Int /\ e[n] \in Int /\ b[m] \in Int /\ e[m] \in Int
    <3>1. /\ n \in 1 .. Len(lines) /\ m \in 1 .. Len(lines)
          /\ b[n] <= p /\ p \in {e[n], e[n] - 1} /\ b[m] <= r /\ r \in {e[m], e[m] - 1}
      BY HeadRows DEF p, r
    <3>2. b[n] \in Int /\ e[n] \in Int /\ b[m] \in Int /\ e[m] \in Int
      <4>1. \A x \in 1 .. Len(lines) : b[x] \in 1 .. Len(rows) /\ e[x] \in 1 .. Len(rows)
        BY PiecesAreRows
      <4> QED
        BY <3>1, <4>1
    <3> QED
      BY <3>1, <3>2
  <2>4. ~(n < m) /\ ~(m < n)
    <3>1. /\ n < m => e[n] < b[m]
          /\ m < n => e[m] < b[n]
      BY <2>3, PiecesAreRows
    <3> QED
      BY <3>1, <2>1, <2>2, <2>3
  <2> QED
    BY <2>3, <2>4
<1>5. h \in Injection(Headers, P)
  <2>1. h \in [Headers -> P]
    BY <1>3
  <2> HIDE DEF h
  <2> QED
    BY <2>1, <1>4 DEF Injection, IsInjective
<1>6. h \in Surjection(Headers, P)
  <2> HIDE DEF h, P
  <2> QED
    BY <1>1, <1>2, <1>5, FS_Injection
<1>7. i \in P
  OBVIOUS
<1> QED
  BY <1>6, <1>7 DEF Surjection

-----------------------------------------------------------------------------
(* The types, and that a verdict is never wrong.                           *)

(* The shape of the state, for any number of tests.                        *)
THEOREM Types == Spec => []TypeOK
BY AlwaysIInv, PTL DEF IInv

\* A summary is printed once every test has come to its end.
LEMMA SummaryIsLast ==
    ASSUME PrintedInv, Readable, NEW rows, NEW o, NEW q, NEW b, NEW e, Read(rows, o, q, b, e)
    PROVE  Over
<1>1. PICK n \in 1 .. Len(lines) : Starts(lines[n], "summary")
  BY DEF Readable, Read
<1> DEFINE p == b[n]
<1>2. p \in 1 .. Len(rows) /\ rows[p].piece.reads = "summary" /\ Origin(rows, o, q)
  <2>1. p \in 1 .. Len(rows) /\ lines[n][1] = rows[p].piece
    BY <1>1, PiecesAreRows
  <2>2. lines[n][1].reads = "summary"
    BY <1>1 DEF Starts
  <2>3. Origin(rows, o, q)
    BY DEF Read
  <2> QED
    BY ONLY <2>1, <2>2, <2>3
<1> HIDE DEF p
<1>3. o[p] \in 1 .. Len(printed) /\ printed[o[p]].reads = "summary"
  BY <1>2, RowsAreOf
<1>4. printed[o[p]].of = 0
  BY <1>3 DEF PrintedInv, LinesOfTests
<1> QED
  BY <1>3, <1>4 DEF PrintedInv, LinesOfTheEnd

LEMMA FailuresHaveHeaders ==
    ASSUME PrintedInv, Readable, NEW rows, NEW o, NEW q, NEW b, NEW e, Read(rows, o, q, b, e),
           NEW t \in Tests
    PROVE  HeadersOf(t) # {} <=> fate[t] = "failed"
<1>1. ASSUME NEW n \in HeadersOf(t) PROVE fate[t] = "failed"
  <2>1. n \in Headers /\ Header(lines[n]).of = t
    BY DEF HeadersOf
  <2>2. /\ o[HeadRow(n, e)] \in 1 .. Len(printed) /\ printed[o[HeadRow(n, e)]].reads = "header"
        /\ printed[o[HeadRow(n, e)]].of = t
    BY <2>1, HeadRows
  <2> QED
    BY <2>2 DEF PrintedInv, HeadersAreOfFailures
<1>2. ASSUME fate[t] = "failed" PROVE HeadersOf(t) # {}
  <2>1. PICK i \in 1 .. Len(printed) : printed[i].reads = "header" /\ printed[i].of = t
    BY <1>2 DEF PrintedInv, FatesArePrinted
  <2>2. PICK n \in Headers : o[HeadRow(n, e)] = i
    BY <2>1, HeadersFound
  <2>3. Header(lines[n]).of = t
    BY <2>1, <2>2, HeadRows
  <2> QED
    BY <2>3 DEF HeadersOf
<1> QED
  BY <1>1, <1>2

LEMMA ReadIsTrue == IInv => VerdictsAreTrue
<1> SUFFICES ASSUME IInv, NEW t \in Tests, verdict[t] # "missing"
             PROVE  verdict[t] = fate[t] /\ \A u \in Tests : fate[u] \notin {"unrun", "died"}
  BY DEF VerdictsAreTrue
<1>1. phase = "parsed" /\ Got /\ transport \in {"screen", "file"}
  BY DEF IInv, TypeOK, Got
<1>2. PrintedInv /\ Readable /\ verdict[t] = Outcome(t)
  BY <1>1 DEF IInv, ReadInv
<1>3. PICK rows, o, q, b, e : Read(rows, o, q, b, e)
  BY <1>1, <1>2, Reading DEF IInv
<1>4. Over
  BY <1>2, <1>3, SummaryIsLast
<1>5. HeadersOf(t) # {} <=> fate[t] = "failed"
  BY <1>2, <1>3, FailuresHaveHeaders
<1>6. verdict[t] = IF HeadersOf(t) # {} THEN "failed" ELSE "passed"
  BY <1>2 DEF Outcome
<1> QED
  BY <1>4, <1>5, <1>6 DEF Over

(* "refusing rather than reporting a mangled failure as a pass": a test    *)
(* read as passed did pass, one read as failed did fail, and nothing is    *)
(* read of a run that did not come to its end; for any number of tests.    *)
THEOREM VerdictsAreTheTests == Spec => []VerdictsAreTrue
BY AlwaysIInv, ReadIsTrue, PTL

-----------------------------------------------------------------------------
(* What follows a header: its message, before anything of a later test.    *)
LEMMA MessageOfHeader ==
    ASSUME PrintedInv, NEW rows, NEW o, NEW q, NEW b, NEW e, Read(rows, o, q, b, e), NEW n \in Headers
    PROVE  \E r \in 1 .. Len(rows) :
              /\ e[n] < r /\ rows[r].piece.reads = "message" /\ q[r] = 1
              /\ printed[o[r]].reads = "message"
              /\ printed[o[r]].of = printed[o[HeadRow(n, e)]].of
              /\ \/ o[r] = o[HeadRow(n, e)] + 1
                 \/ o[r] = o[HeadRow(n, e)] + 2 /\ printed[o[HeadRow(n, e)] + 1].reads = "location"
<1> DEFINE p == HeadRow(n, e)
           i == o[HeadRow(n, e)]
<1>1. /\ p \in 1 .. Len(rows) /\ p \in {e[n], e[n] - 1}
      /\ p # e[n] => rows[e[n]].piece.reads = "tail"
      /\ i \in 1 .. Len(printed) /\ printed[i].reads = "header"
      /\ n \in 1 .. Len(lines)
  BY HeadRows
<1>2. i = o[p]
  OBVIOUS
<1> HIDE DEF p, i
<1>3. Origin(rows, o, q) /\ e[n] \in 1 .. Len(rows) /\ Len(rows) \in Nat
  <2>1. n \in 1 .. Len(lines) /\ Origin(rows, o, q) /\ Len(rows) \in Nat
    <3>1. Origin(rows, o, q)
      BY DEF Read
    <3>2. Len(rows) \in Nat
      BY <3>1 DEF Origin
    <3> QED
      BY ONLY <1>1, <3>1, <3>2
  <2>2. e[n] \in 1 .. Len(rows)
    BY <2>1, PiecesAreRows
  <2> QED
    BY <2>1, <2>2
<1>4. Led(i)
  BY <1>1 DEF PrintedInv, HeadersAreOfFailures
<1>5. PICK x \in 1 .. Len(printed) :
          /\ x = i + 1 \/ (x = i + 2 /\ printed[i + 1].reads = "location")
          /\ printed[x].reads = "message" /\ printed[x].of = printed[i].of
  BY <1>4 DEF Led
<1>6. i < x
  BY <1>1, <1>5
<1>7. PICK r \in 1 .. Len(rows) : o[r] = x /\ q[r] = 1
  BY <1>1, <1>2, <1>3, <1>5, <1>6 DEF Origin
<1>8. rows[r].piece.reads = "message"
  BY <1>3, <1>5, <1>7, RowsAreOf
<1>9. ~(r < p) /\ r # p
  BY <1>1, <1>2, <1>3, <1>5, <1>6, <1>7 DEF Origin
<1>10. e[n] < r
  BY <1>1, <1>3, <1>8, <1>9
<1> QED
  BY <1>5, <1>7, <1>8, <1>10 DEF i

\* A line begun by a row of a later test, or of the end, is not the next one.
LEMMA LaterLines ==
    ASSUME PrintedInv, NEW rows, NEW o, NEW q, NEW b, NEW e, Read(rows, o, q, b, e), NEW n \in Headers,
           NEW m \in 1 .. Len(lines), o[HeadRow(n, e)] < o[b[m]],
           printed[o[b[m]]].of # printed[o[HeadRow(n, e)]].of
    PROVE  n + 1 < m
<1> DEFINE i == o[HeadRow(n, e)]
           p == b[m]
<1>1. PICK r \in 1 .. Len(rows) :
          /\ e[n] < r /\ q[r] = 1 /\ printed[o[r]].of = printed[i].of
          /\ o[r] = i + 1 \/ o[r] = i + 2
  BY MessageOfHeader
<1>2. /\ i \in 1 .. Len(printed) /\ printed[i].reads = "header" /\ n \in 1 .. Len(lines)
  BY HeadRows
<1>3. p \in 1 .. Len(rows) /\ Origin(rows, o, q)
  BY PiecesAreRows DEF Read
<1>4. i < o[p] /\ printed[o[p]].of # printed[i].of
  OBVIOUS
<1> HIDE DEF p, i
<1>5. printed[i].of # 0
  BY <1>2 DEF PrintedInv, HeadersAreOfFailures
<1>6. o[p] \in 1 .. Len(printed) /\ o[r] \in 1 .. Len(printed)
  BY <1>1, <1>3 DEF Origin
<1>7. ~(o[p] < o[r]) /\ o[p] # o[r]
  <2>1. o[p] # o[r]
    BY <1>1, <1>4
  <2>2. ASSUME o[p] < o[r] PROVE FALSE
    <3>1. printed[o[p]].of # 0 /\ printed[o[p]].of <= printed[i].of
      BY <2>2, <1>1, <1>5, <1>6 DEF PrintedInv, PrintedInOrder
    <3>2. printed[i].of <= printed[o[p]].of
      BY <3>1, <1>2, <1>4, <1>6 DEF PrintedInv, PrintedInOrder
    <3>3. printed[i].of \in 0 .. Count /\ printed[o[p]].of \in 0 .. Count
      <4> DEFINE x == o[p]
      <4>1. x \in 1 .. Len(printed)
        BY <1>6
      <4> HIDE DEF x
      <4>2. printed[x].of \in 0 .. Count
        BY <4>1, PrintedLines
      <4> QED
        BY <4>2, <1>2, PrintedLines DEF x
    <3> QED
      BY <3>1, <3>2, <3>3, <1>4, OutputTransportAssumption
  <2> QED
    BY <2>1, <2>2
<1>8. r < p
  <2>1. ~(p < r) /\ p # r
    BY <1>1, <1>3, <1>6, <1>7 DEF Origin
  <2> QED
    BY <2>1, <1>3
<1>9. PICK k \in 1 .. Len(lines) : b[k] <= r /\ r <= e[k]
  BY <1>1 DEF Read, Joined
<1>10. \A x \in 1 .. Len(lines) : b[x] \in Int /\ e[x] \in Int /\ b[x] <= e[x]
  BY PiecesAreRows
<1>11. \A x, y \in 1 .. Len(lines) : x < y => e[x] < b[y]
  BY PiecesAreRows
<1>12. n < k
  <2>1. n \in 1 .. Len(lines) /\ k \in 1 .. Len(lines) /\ n \in Int /\ k \in Int
    BY <1>2, <1>9
  <2>2. e[n] < r /\ r <= e[k] /\ e[n] \in Int /\ e[k] \in Int /\ r \in Int
    BY <1>1, <1>9, <1>10, <2>1
  <2>3. ASSUME k < n PROVE e[k] < e[n]
    <3>1. e[k] < b[n] /\ b[n] <= e[n] /\ b[n] \in Int
      BY <1>10, <1>11, <2>1, <2>3
    <3> QED
      BY <2>2, <3>1
  <2>4. k # n
    BY <2>2
  <2> QED
    BY ONLY <2>1, <2>2, <2>3, <2>4
<1>13. k < m
  BY <1>8, <1>9, <1>10, <1>11 DEF p
<1> QED
  BY <1>2, <1>12, <1>13

-----------------------------------------------------------------------------
(* What is taken for a failure's message: whole lines, in a row, none of   *)
(* which ends the message.                                                 *)
LEMMA FlattenSingletons ==
    ASSUME NEW X, NEW s \in Seq(X)
    PROVE  FlattenSeq([i \in DOMAIN s |-> <<s[i]>>]) = s
<1> DEFINE t == [i \in 1 .. Len(s) |-> <<s[i]>>]
<1>1. Len(s) \in Nat /\ DOMAIN s = 1 .. Len(s) /\ \A i \in 1 .. Len(s) : s[i] \in X
  OBVIOUS
<1>2. t \in Seq(Seq(X)) /\ Len(t) = Len(s) /\ \A i \in 1 .. Len(s) : t[i] = <<s[i]>>
  <2>1. \A i \in 1 .. Len(s) : <<s[i]>> \in Seq(X)
    BY <1>1
  <2> QED
    BY <2>1, <1>1
<1> HIDE DEF t
<1>3. CASE Len(s) = 0
  <2>1. t = <<>> /\ s = <<>>
    BY <1>2, <1>3
  <2>2. FlattenSeq(<<>>) = <<>>
    BY DEF FlattenSeq
  <2> QED
    BY <1>1, <2>1, <2>2 DEF t
<1>4. CASE Len(s) # 0
  <2>1. t # <<>>
    BY <1>2, <1>4
  <2>2. PICK F : Flattening(t, Len(t), F, X) /\ FlattenSeq(t) = F[Len(t)]
    BY <1>2, <2>1, FlattenSeqIs
  <2>3. \A i \in 1 .. Len(s) : F[i] \in Seq(X) /\ F[i] = IF i = 1 THEN t[i] ELSE F[i - 1] \o t[i]
    BY <1>2, <2>2 DEF Flattening
  <2> DEFINE Good(i) == Len(F[i]) = i /\ \A j \in 1 .. i : F[i][j] = s[j]
             S == {i \in Nat : i + 1 <= Len(s) => Good(i + 1)}
  <2>4. 0 \in S
    <3> SUFFICES ASSUME 1 <= Len(s) PROVE Good(1)
      OBVIOUS
    <3>1. F[1] = <<s[1]>>
      BY <1>1, <1>2, <2>3
    <3> QED
      BY <3>1
  <2>5. ASSUME NEW i \in S PROVE i + 1 \in S
    <3> DEFINE k == i + 1
    <3>1. k \in Nat /\ k # 0 /\ (k <= Len(s) => Good(k)) /\ i \in Nat
      OBVIOUS
    <3> SUFFICES ASSUME k + 1 <= Len(s) PROVE Good(k + 1)
      BY <3>1
    <3> HIDE DEF k, Good, S
    <3>2. Good(k) /\ k \in 1 .. Len(s) /\ k + 1 \in 1 .. Len(s) /\ k + 1 # 1 /\ k + 1 - 1 = k
      BY <1>1, <3>1
    <3> DEFINE m == k + 1
               f == F[k]
               g == F[m]
    <3>3. g = f \o <<s[m]>> /\ f \in Seq(X) /\ g \in Seq(X) /\ s[m] \in X
      <4>1. m \in 1 .. Len(s) /\ m # 1 /\ m - 1 = k /\ k \in 1 .. Len(s)
        BY <3>2
      <4>2. t[m] = <<s[m]>> /\ s[m] \in X
        BY <4>1, <1>1, <1>2
      <4> HIDE DEF m
      <4>3. F[m] = F[m - 1] \o t[m] /\ F[m] \in Seq(X) /\ F[k] \in Seq(X)
        BY <4>1, <2>3
      <4> QED
        BY <4>1, <4>2, <4>3
    <3>4. Len(f) = k /\ \A j \in 1 .. k : f[j] = s[j]
      BY <3>2 DEF Good
    <3>6. m = k + 1 /\ k \in Nat
      BY <3>1
    <3> HIDE DEF f, g, m
    <3>5. Len(g) = m /\ \A j \in 1 .. m : g[j] = s[j]
      <4>1. Len(f \o <<s[m]>>) = Len(f) + 1 /\ \A j \in 1 .. Len(f) + 1 :
                (f \o <<s[m]>>)[j] = IF j <= Len(f) THEN f[j] ELSE s[m]
        BY <3>3
      <4> QED
        BY <3>3, <3>4, <3>6, <4>1
    <3> QED
      BY <3>5 DEF Good, g, m
  <2>6. Nat \subseteq S
    <3> HIDE DEF S
    <3> QED
      BY <2>4, <2>5, NatSetInduction
  <2>7. Good(Len(s))
    <3>1. Len(s) - 1 \in Nat /\ Len(s) - 1 + 1 = Len(s)
      BY <1>1, <1>4
    <3>2. Len(s) - 1 \in S
      BY <2>6, <3>1
    <3> HIDE DEF Good
    <3> QED
      BY <3>1, <3>2
  <2> DEFINE u == F[Len(s)]
  <2>8. u \in Seq(X) /\ Len(u) = Len(s) /\ \A j \in 1 .. Len(s) : u[j] = s[j]
    BY <1>1, <1>4, <2>3, <2>7
  <2>9. u = FlattenSeq(t)
    BY <1>2, <2>2
  <2> HIDE DEF u
  <2>10. u = s
    BY <2>8, SeqEqual
  <2> QED
    BY <1>1, <2>9, <2>10 DEF t
<1> QED
  BY <1>1, <1>3, <1>4

\* With no form feed in them, the lines are the lines splitlines makes.
LEMMA NothingIsSplit ==
    ASSUME Unfed, NEW rows, NEW o, NEW q, NEW b, NEW e, Read(rows, o, q, b, e)
    PROVE  SplitLines = lines
<1> DEFINE X == Seq(PieceSet)
<1>1. lines \in Seq(X) /\ DOMAIN lines = 1 .. Len(lines)
  BY DEF Read
<1>2. ASSUME NEW n \in 1 .. Len(lines) PROVE ~lines[n][1].feed
  <2> DEFINE p == b[n]
  <2>1. p \in 1 .. Len(rows) /\ lines[n][1] = rows[p].piece
    BY PiecesAreRows
  <2> HIDE DEF p
  <2> QED
    BY <2>1 DEF Read, Origin
<1>3. SplitLines = FlattenSeq([i \in DOMAIN lines |-> <<lines[i]>>])
  <2>1. [i \in DOMAIN lines |->
            IF lines[i][1].feed
              THEN <<lines[i], <<[reads |-> "other", of |-> lines[i][1].of, feed |-> FALSE]>>>>
              ELSE <<lines[i]>>] = [i \in DOMAIN lines |-> <<lines[i]>>]
    BY <1>1, <1>2
  <2> QED
    BY <2>1 DEF SplitLines
<1> HIDE DEF X
<1> QED
  BY <1>1, <1>3, FlattenSingletons

LEMMA SliceIs ==
    ASSUME NEW X, NEW s \in Seq(X), NEW m \in Nat \ {0}, NEW n \in Nat, m <= n + 1, n <= Len(s)
    PROVE  /\ SubSeq(s, m, n) \in Seq(X) /\ Len(SubSeq(s, m, n)) = n - m + 1
           /\ \A j \in 1 .. Len(SubSeq(s, m, n)) : SubSeq(s, m, n)[j] = s[m + j - 1]
<1>1. \A i \in m .. n : s[i] \in X
  BY ElementOfSeq
<1>2. /\ SubSeq(s, m, n) \in Seq(X)
      /\ Len(SubSeq(s, m, n)) = IF m <= n THEN n - m + 1 ELSE 0
      /\ \A i \in 1 .. n - m + 1 : SubSeq(s, m, n)[i] = s[m + i - 1]
  BY <1>1, SubSeqProperties
<1> QED
  BY <1>2

\* The numbers of a prefix before the first of a set are as many as they say.
LEMMA PrefixBefore ==
    ASSUME NEW n \in Nat, NEW S \in SUBSET (1 .. n)
    PROVE  LET T == {j \in 1 .. n : \A s \in S : j < s}
           IN  /\ Cardinality(T) \in 0 .. n /\ T = 1 .. Cardinality(T)
               /\ Cardinality(T) < n => Cardinality(T) + 1 \in S
<1> DEFINE T == {j \in 1 .. n : \A s \in S : j < s}
<1>1. \E c \in 0 .. n : T = 1 .. c /\ (c < n => c + 1 \in S)
  <2>1. CASE S = {}
    BY <2>1
  <2>2. CASE S # {}
    <3>1. PICK s \in S : \A x \in S : s <= x
      BY <2>2, Least
    <3>2. s - 1 \in 0 .. n /\ s - 1 + 1 = s
      OBVIOUS
    <3>3. \A j \in 1 .. n : (\A x \in S : j < x) <=> j \in 1 .. s - 1
      BY <3>1
    <3>4. 1 .. s - 1 \subseteq 1 .. n
      BY <3>2
    <3>5. T = 1 .. s - 1
      BY <3>3, <3>4
    <3> QED
      BY <3>2, <3>5
  <2> QED
    BY <2>1, <2>2
<1>2. PICK c \in 0 .. n : T = 1 .. c /\ (c < n => c + 1 \in S)
  BY <1>1
<1>3. Cardinality(1 .. c) = c
  BY FS_Interval
<1> HIDE DEF T
<1>4. Cardinality(T) = c
  BY <1>2, <1>3
<1> QED
  BY <1>2, <1>4 DEF T

LEMMA MessageIsLines ==
    ASSUME lines \in Seq(Seq(PieceSet)), SplitLines = lines, NEW i \in 1 .. Len(lines)
    PROVE  \E k \in {0, 1}, c \in Nat :
              /\ k = 1 <=> i + 1 <= Len(lines) /\ Ends(lines[i + 1], "location")
              /\ i + k + c <= Len(lines)
              /\ \A m \in i + k + 1 .. i + k + c : ~EndsMessage(lines[m])
              /\ c = 0 => i + k = Len(lines) \/ EndsMessage(lines[i + k + 1])
              /\ MessageAfter(i) \in Seq(PieceSet)
              /\ \A x \in 1 .. Len(MessageAfter(i)) :
                    \E m \in i + k + 1 .. i + k + c : \E j \in 1 .. Len(lines[m]) :
                        MessageAfter(i)[x] = lines[m][j]
              /\ c # 0 /\ Len(lines[i + k + 1]) # 0 =>
                    MessageAfter(i) # <<>> /\ MessageAfter(i)[1] = lines[i + k + 1][1]
<1> DEFINE X == Seq(PieceSet)
           N == Len(lines)
           after == SubSeq(lines, i + 1, N)
           rest == IF after # <<>> /\ Ends(after[1], "location") THEN Tail(after) ELSE after
           stops == {j \in DOMAIN rest : EndsMessage(rest[j])}
           taken == {j \in DOMAIN rest : \A s \in stops : j < s}
           c == Cardinality(taken)
           k == IF i + 1 <= N /\ Ends(lines[i + 1], "location") THEN 1 ELSE 0
           text == SubSeq(rest, 1, c)
<1>1. MessageAfter(i) = FlattenSeq(text)
  BY DEF MessageAfter
<1>2. lines \in Seq(X) /\ N \in Nat /\ i \in 1 .. N
  OBVIOUS
<1> HIDE DEF X
<1>3. /\ after \in Seq(X) /\ Len(after) = N - i
      /\ \A j \in 1 .. Len(after) : after[j] = lines[i + j]
  <2>1. i + 1 \in Nat \ {0} /\ i + 1 <= N + 1 /\ N - (i + 1) + 1 = N - i
    BY <1>2
  <2>2. /\ after \in Seq(X) /\ Len(after) = N - (i + 1) + 1
        /\ \A j \in 1 .. Len(after) : after[j] = lines[i + 1 + j - 1]
    <3> DEFINE a == i + 1
    <3>1. a \in Nat \ {0} /\ a <= N + 1 /\ N \in Nat /\ N <= Len(lines)
      BY <1>2, <2>1
    <3> HIDE DEF a, N
    <3>2. /\ SubSeq(lines, a, N) \in Seq(X) /\ Len(SubSeq(lines, a, N)) = N - a + 1
          /\ \A j \in 1 .. Len(SubSeq(lines, a, N)) : SubSeq(lines, a, N)[j] = lines[a + j - 1]
      BY <1>2, <3>1, SliceIs
    <3> QED
      BY <3>2 DEF a
  <2>3. \A j \in 1 .. Len(after) : i + 1 + j - 1 = i + j
    BY <1>2
  <2> QED
    BY <2>1, <2>2, <2>3
<1> HIDE DEF after, N
<1>4. after # <<>> <=> i + 1 <= N
  BY <1>2, <1>3
<1>5. i + 1 <= N => after[1] = lines[i + 1]
  BY <1>2, <1>3
<1>6. /\ k \in {0, 1}
      /\ k = 1 => i + 1 <= N
      /\ k = 1 <=> i + 1 <= N /\ Ends(lines[i + 1], "location")
  OBVIOUS
<1>7. rest = IF k = 1 THEN Tail(after) ELSE after
  BY <1>4, <1>5
<1> HIDE DEF k, rest
<1>8. /\ rest \in Seq(X) /\ Len(rest) = N - i - k
      /\ \A j \in 1 .. Len(rest) : rest[j] = lines[i + k + j]
  <2>1. CASE k = 0
    <3>1. i + k = i /\ N - i - k = N - i
      BY <1>2, <2>1
    <3> QED
      BY <3>1, <2>1, <1>3, <1>7
  <2>2. CASE k = 1
    <3>1. after # <<>> /\ rest = Tail(after)
      BY <2>2, <1>4, <1>6, <1>7
    <3>2. /\ rest \in Seq(X) /\ Len(rest) = Len(after) - 1
          /\ \A j \in 1 .. Len(rest) : rest[j] = after[j + 1]
      BY <3>1, <1>3, HeadTailProperties
    <3>3. ASSUME NEW j \in 1 .. Len(rest) PROVE rest[j] = lines[i + k + j]
      <4>1. j + 1 \in 1 .. Len(after) /\ i + (j + 1) = i + k + j
        BY <1>2, <1>3, <3>2, <2>2
      <4>2. after[j + 1] = lines[i + (j + 1)]
        BY <4>1, <1>3
      <4> QED
        BY <4>1, <4>2, <3>2
    <3> QED
      BY <1>2, <1>3, <2>2, <3>2, <3>3
  <2> QED
    BY <2>1, <2>2, <1>6
<1>9. DOMAIN rest = 1 .. Len(rest) /\ Len(rest) \in Nat
  BY <1>8
<1>10. stops \in SUBSET (1 .. Len(rest))
  BY <1>9
<1>11. /\ c \in 0 .. Len(rest) /\ taken = 1 .. c
       /\ c < Len(rest) => c + 1 \in stops
  <2> HIDE DEF stops
  <2>1. taken = {j \in 1 .. Len(rest) : \A s \in stops : j < s}
    BY <1>9
  <2> HIDE DEF taken
  <2> QED
    BY <2>1, <1>9, <1>10, PrefixBefore
<1>12. \A j \in 1 .. c : ~EndsMessage(rest[j])
  <2> TAKE j \in 1 .. c
  <2>1. j \in taken /\ j \in DOMAIN rest
    BY <1>9, <1>11
  <2>2. \A s \in stops : j < s
    BY <2>1
  <2>3. j \notin stops
    <3> HIDE DEF stops
    <3> QED
      BY <2>2, <1>9, <1>10, <1>11
  <2> QED
    BY <2>1, <2>3
<1>13. c < Len(rest) => EndsMessage(rest[c + 1])
  BY <1>11
<1> HIDE DEF c, taken, stops
<1>14. /\ text \in Seq(X) /\ Len(text) = c
       /\ \A j \in 1 .. c : text[j] = rest[j]
  <2>1. 1 \in Nat \ {0} /\ c \in Nat /\ 1 <= c + 1 /\ c <= Len(rest) /\ c - 1 + 1 = c
    BY <1>9, <1>11
  <2>2. /\ text \in Seq(X) /\ Len(text) = c - 1 + 1
        /\ \A j \in 1 .. Len(text) : text[j] = rest[1 + j - 1]
    BY <1>8, <2>1, SliceIs
  <2>3. \A j \in 1 .. c : 1 + j - 1 = j
    BY <2>1
  <2> QED
    BY <2>1, <2>2, <2>3
<1> HIDE DEF text
<1> DEFINE M == MessageAfter(i)
<1>15. text \in Seq(Seq(PieceSet))
  BY <1>14 DEF X
<1>16. PICK o, q : Traces(FlattenSeq(text), text, Len(text), o, q)
  BY <1>15, FlattenTraces
<1>17. M \in Seq(PieceSet) /\ M = FlattenSeq(text)
  BY <1>1, <1>15, FlattenTraces
<1> HIDE DEF M
<1>18. Traces(M, text, c, o, q) /\ c \in Nat
  BY <1>9, <1>11, <1>14, <1>16, <1>17
<1>19. \A j \in 1 .. c : i + k + j \in i + k + 1 .. i + k + c /\ text[j] = lines[i + k + j]
  <2> TAKE j \in 1 .. c
  <2>1. j \in 1 .. Len(rest) /\ i + k + j \in i + k + 1 .. i + k + c
    BY <1>2, <1>6, <1>9, <1>11
  <2> QED
    BY <2>1, <1>8, <1>14
<1>20. ASSUME NEW x \in 1 .. Len(M)
       PROVE  \E m \in i + k + 1 .. i + k + c : \E j \in 1 .. Len(lines[m]) : M[x] = lines[m][j]
  <2> DEFINE y == o[x]
             m == i + k + y
  <2>1. y \in 1 .. c /\ q[x] \in 1 .. Len(text[y]) /\ M[x] = text[y][q[x]]
    BY <1>18 DEF Traces
  <2> HIDE DEF y
  <2>2. m \in i + k + 1 .. i + k + c /\ text[y] = lines[m]
    BY <2>1, <1>19
  <2> QED
    BY <2>1, <2>2
<1>21. ASSUME c # 0, Len(lines[i + k + 1]) # 0
       PROVE  M # <<>> /\ M[1] = lines[i + k + 1][1]
  <2>1. 1 \in 1 .. c /\ text[1] = lines[i + k + 1]
    BY <1>18, <1>19, <1>21
  <2>2. text[1] \in Seq(PieceSet)
    BY <1>14, <1>15, <2>1, ElementOfSeq DEF X
  <2>3. 1 \in 1 .. Len(text[1])
    BY <2>1, <2>2, <1>21
  <2>4. PICK x \in 1 .. Len(M) : o[x] = 1 /\ q[x] = 1
    BY <1>18, <2>1, <2>3 DEF Traces
  <2>5. 1 \in 1 .. Len(M) /\ o[1] \in 1 .. c /\ q[1] \in 1 .. Len(text[o[1]])
    BY <1>17, <1>18, <2>4 DEF Traces
  <2>6. x = 1
    <3>1. 1 < x => o[1] < 1 \/ (o[1] = 1 /\ q[1] < 1)
      BY <1>18, <2>4, <2>5 DEF Traces
    <3>2. o[1] >= 1 /\ q[1] >= 1 /\ o[1] \in Int /\ q[1] \in Int
      <4> DEFINE y == text[o[1]]
      <4>1. o[1] \in 1 .. c /\ q[1] \in 1 .. Len(y) /\ c \in Nat
        BY <2>5, <1>18
      <4> HIDE DEF y
      <4> QED
        BY <4>1
    <3> QED
      BY <3>1, <3>2, <1>17, <2>4
  <2>7. M[1] = text[1][1]
    BY <1>18, <2>4, <2>5, <2>6 DEF Traces
  <2> QED
    BY <1>17, <2>1, <2>5, <2>7
<1>22. ASSUME NEW m \in i + k + 1 .. i + k + c PROVE ~EndsMessage(lines[m])
  <2>1. m - i - k \in 1 .. c /\ i + k + (m - i - k) = m
    BY <1>2, <1>6, <1>18
  <2>2. text[m - i - k] = lines[m] /\ text[m - i - k] = rest[m - i - k]
    BY <2>1, <1>14, <1>19
  <2> QED
    BY <2>1, <2>2, <1>12
<1>23. ASSUME c = 0 PROVE i + k = N \/ EndsMessage(lines[i + k + 1])
  <2>1. Len(rest) = 0 => i + k = N
    <3>1. Len(rest) = N - i - k
      BY <1>8
    <3>2. N \in Int /\ i \in Int /\ k \in Int
      BY <1>2, <1>6
    <3> QED
      BY ONLY <3>1, <3>2
  <2>2. Len(rest) # 0 => 1 \in 1 .. Len(rest) /\ c + 1 = 1 /\ c < Len(rest)
    BY <1>9, <1>23
  <2> QED
    BY <2>1, <2>2, <1>8, <1>13
<1>24. i + k + c <= N
  BY <1>2, <1>6, <1>8, <1>11
<1> QED
  BY <1>6, <1>17, <1>18, <1>20, <1>21, <1>22, <1>23, <1>24 DEF M, N

-----------------------------------------------------------------------------
(* Whose message it is.                                                    *)

\* A line at which a later test is told of, or the summary, ends the message
\* of a header before it.
LEMMA MessageStops ==
    ASSUME PrintedInv, NEW rows, NEW o, NEW q, NEW b, NEW e, Read(rows, o, q, b, e), NEW n \in Headers,
           NEW m \in 1 .. Len(lines), NEW p \in 1 .. Len(rows), b[m] <= p,
           NEW k \in {0, 1}, NEW c \in Nat, n + k + c <= Len(lines),
           \A x \in n + k + 1 .. n + k + c : ~EndsMessage(lines[x]),
           NEW l \in n + k + 1 .. n + k + c, p <= e[l],
           o[HeadRow(n, e)] < o[b[m]],
           printed[o[b[m]]].of # printed[o[HeadRow(n, e)]].of
    PROVE  ~EndsMessage(lines[m])
<1>1. n + 1 < m
  BY LaterLines
<1>2. n \in 1 .. Len(lines)
  BY HeadRows
<1>3. l \in 1 .. Len(lines) /\ Len(lines) \in Nat
  BY <1>2 DEF Read
<1>4. \A x \in 1 .. Len(lines) : b[x] \in Int /\ e[x] \in Int
  BY PiecesAreRows
<1>5. \A x, y \in 1 .. Len(lines) : x < y => e[x] < b[y]
  BY PiecesAreRows
<1>6. p \in Int
  BY DEF Read, Origin
<1>7. m <= l
  BY <1>3, <1>4, <1>5, <1>6
<1>8. m \in n + k + 1 .. n + k + c
  BY <1>1, <1>2, <1>3, <1>7
<1> QED
  BY <1>8

\* A test whose own line is read has it begin a line, before all it printed.
LEMMA OwnLineRead ==
    ASSUME PrintedInv, Readable, NEW rows, NEW o, NEW q, NEW b, NEW e, Read(rows, o, q, b, e),
           NEW m \in 1 .. Len(lines), Starts(lines[m], "ran"), NEW p \in 1 .. Len(rows),
           rows[p].piece.of = lines[m][1].of
    PROVE  b[m] <= p /\ printed[o[b[m]]].of = rows[p].piece.of
<1> DEFINE s == b[m]
<1>1. s \in 1 .. Len(rows) /\ lines[m][1] = rows[s].piece
  BY PiecesAreRows
<1>2. rows[s].piece.reads = "ran" /\ rows[s].piece.of = rows[p].piece.of
  BY <1>1 DEF Starts
<1> HIDE DEF s
<1>3. Origin(rows, o, q) /\ Len(rows) \in Nat
  BY DEF Read, Origin
<1>4. o[s] \in 1 .. Len(printed) /\ rows[s].piece.of = printed[o[s]].of
  BY <1>1, <1>3, RowsAreOf
<1>5. \/ printed[o[s]].reads = "ran" /\ q[s] = 1
      \/ /\ printed[o[s]].reads = "header"
         /\ \A r \in 1 .. Len(rows) : o[r] = o[s] => rows[r].piece.reads # "header"
  BY <1>1, <1>2, <1>3, RowsAreOf
<1>6. ASSUME printed[o[s]].reads = "header" PROVE \E r \in 1 .. Len(rows) : o[r] = o[s] /\ rows[r].piece.reads = "header"
  <2>1. PICK n \in Headers : o[HeadRow(n, e)] = o[s]
    BY <1>4, <1>6, HeadersFound
  <2> QED
    BY <2>1, HeadRows
<1>7. printed[o[s]].reads = "ran" /\ q[s] = 1
  BY <1>5, <1>6
<1>8. o[p] \in 1 .. Len(printed) /\ rows[p].piece.of = printed[o[p]].of /\ q[p] \in Nat /\ RowOf(rows[p], printed[o[p]], q[p])
  BY <1>3 DEF Origin
<1>9. o[s] <= o[p]
  BY <1>2, <1>4, <1>7, <1>8 DEF PrintedInv, OwnLineFirst
<1>10. q[p] # 0
  BY <1>8 DEF RowOf
<1>11. ~(p < s)
  <2>1. p < s => o[p] < o[s] \/ (o[p] = o[s] /\ q[p] < q[s])
    BY <1>1, <1>3 DEF Origin
  <2> QED
    BY <2>1, <1>4, <1>7, <1>8, <1>9, <1>10
<1>12. s <= p
  BY <1>1, <1>3, <1>11
<1> QED
  BY <1>2, <1>4, <1>12 DEF s

\* The line the summary begins comes before all the console made of it.
LEMMA SummaryRead ==
    ASSUME PrintedInv, NEW rows, NEW o, NEW q, NEW b, NEW e, Read(rows, o, q, b, e),
           NEW m \in 1 .. Len(lines), Starts(lines[m], "summary"), NEW p \in 1 .. Len(rows),
           printed[o[p]].reads = "summary"
    PROVE  b[m] <= p /\ o[b[m]] = o[p] /\ printed[o[p]].of = 0
<1> DEFINE s == b[m]
<1>1. s \in 1 .. Len(rows) /\ rows[s].piece.reads = "summary"
  BY PiecesAreRows DEF Starts
<1> HIDE DEF s
<1>2. Origin(rows, o, q) /\ Len(rows) \in Nat
  BY DEF Read, Origin
<1>3. o[s] \in 1 .. Len(printed) /\ printed[o[s]].reads = "summary" /\ q[s] = 1
  BY <1>1, <1>2, RowsAreOf
<1>4. o[p] \in 1 .. Len(printed) /\ q[p] \in Nat /\ RowOf(rows[p], printed[o[p]], q[p])
  BY <1>2 DEF Origin
<1>5. printed[o[p]].of = 0 /\ o[p] = Len(printed) /\ o[s] = Len(printed)
  BY <1>3, <1>4 DEF PrintedInv, LinesOfTests, LinesOfTheEnd
<1>6. q[p] # 0
  BY <1>4 DEF RowOf
<1>7. ~(p < s)
  <2>1. p < s => o[p] < o[s] \/ (o[p] = o[s] /\ q[p] < q[s])
    BY <1>1, <1>2 DEF Origin
  <2>2. Len(printed) \in Nat
    BY DEF PrintedInv
  <2> QED
    BY <2>1, <2>2, <1>3, <1>4, <1>5, <1>6
<1>8. s <= p
  BY <1>1, <1>2, <1>7
<1> QED
  BY <1>5, <1>8 DEF s

LEMMA ReadIsTheirOwn == IInv => MessagesAreTheirOwn
<1> SUFFICES ASSUME IInv, Unfed, NEW t \in Tests, NEW x \in DOMAIN message[t],
                    message[t][x].of # t
             PROVE  message[t][x].of \in Tests /\ verdict[message[t][x].of] = "missing"
  BY DEF MessagesAreTheirOwn
<1>1. phase = "parsed"
  <2>1. ASSUME phase # "parsed" PROVE FALSE
    <3>1. message[t] = <<>>
      BY <2>1 DEF IInv, ReadInv
    <3> QED
      BY <3>1
  <2> QED
    BY <2>1
<1>2. /\ Got /\ transport \in {"screen", "file"} /\ PrintedInv /\ Readable
      /\ verdict = [u \in Tests |-> Outcome(u)] /\ message[t] = Reported(t)
  BY <1>1 DEF IInv, TypeOK, Got, ReadInv
<1>3. Outcome(t) = "failed"
  BY <1>2 DEF Reported
<1> DEFINE n == Max(HeadersOf(t))
<1>4. message[t] = MessageAfter(n)
  BY <1>2, <1>3 DEF Reported
<1>5. PICK rows, o, q, b, e : Read(rows, o, q, b, e)
  BY <1>2, Reading DEF IInv
<1>0. DOMAIN lines = 1 .. Len(lines) /\ Len(lines) \in Nat
  BY <1>5 DEF Read
<1>6. n \in HeadersOf(t)
  <2>1. HeadersOf(t) # {}
    BY <1>3 DEF Outcome
  <2>2. HeadersOf(t) \in SUBSET (0 .. Len(lines)) /\ Len(lines) \in Nat
    BY <1>5 DEF HeadersOf, Headers, Read
  <2> QED
    BY <2>1, <2>2, Greatest
<1> HIDE DEF n
<1> DEFINE h == HeadRow(n, e)
           i == o[HeadRow(n, e)]
<1>7. n \in Headers /\ Header(lines[n]).of = t
  BY <1>6 DEF HeadersOf
<1>8. /\ n \in 1 .. Len(lines) /\ h \in 1 .. Len(rows) /\ h \in {e[n], e[n] - 1}
      /\ i \in 1 .. Len(printed) /\ printed[i].reads = "header" /\ printed[i].of = t
  BY <1>2, <1>5, <1>7, HeadRows
<1>9. PICK k \in {0, 1}, c \in Nat :
          /\ n + k + c <= Len(lines)
          /\ \A m \in n + k + 1 .. n + k + c : ~EndsMessage(lines[m])
          /\ \A y \in 1 .. Len(MessageAfter(n)) :
                \E m \in n + k + 1 .. n + k + c : \E j \in 1 .. Len(lines[m]) :
                    MessageAfter(n)[y] = lines[m][j]
          /\ MessageAfter(n) \in Seq(PieceSet)
  <2>1. SplitLines = lines /\ lines \in Seq(Seq(PieceSet))
    BY <1>5, NothingIsSplit DEF Read
  <2> QED
    BY <2>1, <1>8, MessageIsLines
<1>10. PICK l \in n + k + 1 .. n + k + c : \E j \in 1 .. Len(lines[l]) : message[t][x] = lines[l][j]
  <2>1. x \in 1 .. Len(MessageAfter(n))
    BY <1>4, <1>9
  <2> QED
    BY <2>1, <1>4, <1>9
<1>11. l \in 1 .. Len(lines) /\ n < l
  <2>1. n + k + c <= Len(lines) /\ n \in 1 .. Len(lines)
    BY <1>8, <1>9
  <2> QED
    BY ONLY <2>1, <1>0, k \in {0, 1}, c \in Nat, l \in n + k + 1 .. n + k + c
<1>12. PICK p \in 1 .. Len(rows) : b[l] <= p /\ p <= e[l] /\ message[t][x] = rows[p].piece
  <2>1. PICK j \in 1 .. Len(lines[l]) : message[t][x] = lines[l][j]
    BY <1>10
  <2>2. /\ b[l] + j - 1 \in 1 .. Len(rows) /\ b[l] + j - 1 <= e[l]
        /\ lines[l][j] = rows[b[l] + j - 1].piece /\ b[l] \in Int
    BY <1>5, <1>11, PiecesAreRows
  <2>3. b[l] <= b[l] + j - 1
    BY <2>2
  <2> QED
    BY <2>1, <2>2, <2>3
<1> DEFINE u == message[t][x].of
<1>13. Origin(rows, o, q) /\ Len(rows) \in Nat
  BY <1>5 DEF Read, Origin
<1>14. o[p] \in 1 .. Len(printed) /\ printed[o[p]].of = u /\ RowOf(rows[p], printed[o[p]], q[p])
  BY <1>12, <1>13 DEF Origin
<1>15. h < p
  <2>1. e[n] < b[l] /\ b[l] \in Int /\ e[n] \in Int
    <3>1. \A y \in 1 .. Len(lines) : b[y] \in 1 .. Len(rows) /\ e[y] \in 1 .. Len(rows)
      BY <1>5, PiecesAreRows
    <3>2. e[n] < b[l]
      BY <1>5, <1>8, <1>11, PiecesAreRows
    <3> QED
      BY <3>1, <3>2, <1>8, <1>11
  <2> QED
    BY <2>1, <1>8, <1>12
<1>16. i < o[p]
  <2>1. o[h] < o[p] \/ o[h] = o[p]
    BY <1>8, <1>13, <1>15 DEF Origin
  <2>2. o[h] # o[p]
    BY <1>8, <1>14
  <2> QED
    BY <2>1, <2>2
<1>17. t \in 1 .. Count /\ u \in 0 .. Count /\ Count \in Nat
  <2> DEFINE y == o[p]
  <2>1. y \in 1 .. Len(printed) /\ printed[y].of = u
    BY <1>14
  <2> HIDE DEF y, u
  <2>2. printed[y].of \in 0 .. Count
    BY <2>1, <1>2, PrintedLines
  <2> QED
    BY <2>1, <2>2, OutputTransportAssumption DEF Tests
<1>18. ASSUME NEW m \in 1 .. Len(lines), b[m] <= p, i < o[b[m]], printed[o[b[m]]].of # t
       PROVE  ~EndsMessage(lines[m])
  BY <1>2, <1>5, <1>7, <1>8, <1>9, <1>10, <1>12, <1>18, MessageStops
<1> HIDE DEF h, i, u
<1>19. CASE u = 0
  <2>1. printed[o[p]].reads \in {"blank", "summary"}
    BY <1>2, <1>14, <1>19 DEF PrintedInv, LinesOfTheEnd
  <2>2. CASE printed[o[p]].reads = "blank"
    <3>1. transport = "file" /\ rows[p].piece.reads = "blank" /\ ~rows[p].full
      BY <1>14, <2>2 DEF RowOf
    <3>2. b[l] = e[l]
      <4>1. \A r \in 1 .. Len(rows) : ~rows[r].full
        <5> TAKE r \in 1 .. Len(rows)
        <5>1. RowOf(rows[r], printed[o[r]], q[r])
          BY <1>13 DEF Origin
        <5> QED
          BY <5>1, <3>1 DEF RowOf
      <4>2. b[l] \in 1 .. Len(rows) /\ b[l] <= e[l] /\ e[l] \in 1 .. Len(rows)
        BY <1>5, <1>11, PiecesAreRows
      <4>3. \A y \in 1 .. Len(rows) : b[l] <= y /\ y < e[l] => rows[y].full
        BY <1>5, <1>11 DEF Read, Joined
      <4> QED
        BY <4>1, <4>2, <4>3, <1>13
    <3>3. Len(lines[l]) = e[l] - b[l] + 1 /\ b[l] \in 1 .. Len(rows) /\ lines[l][1] = rows[b[l]].piece
      BY <1>5, <1>11, PiecesAreRows
    <3>4. b[l] = p
      BY <3>2, <3>3, <1>12, <1>13
    <3>5. EndsMessage(lines[l])
      BY <3>1, <3>2, <3>3, <3>4, <1>13 DEF EndsMessage
    <3> QED
      BY <3>5, <1>9, <1>10
  <2>3. CASE printed[o[p]].reads = "summary"
    <3>1. PICK m \in 1 .. Len(lines) : Starts(lines[m], "summary")
      BY <1>0, <1>2 DEF Readable
    <3>2. b[m] <= p /\ o[b[m]] = o[p]
      BY <3>1, <2>3, <1>2, <1>5, SummaryRead
    <3>3. i < o[b[m]] /\ printed[o[b[m]]].of # t
      BY <3>2, <1>14, <1>16, <1>17, <1>19
    <3>4. EndsMessage(lines[m])
      BY <3>1 DEF EndsMessage
    <3> QED
      BY <3>2, <3>3, <3>4, <1>18
  <2> QED
    BY <2>1, <2>2, <2>3
<1>20. CASE u # 0
  <2>1. u \in Tests /\ t < u
    <3>1. t <= u
      BY <1>2, <1>8, <1>14, <1>16, <1>20 DEF PrintedInv, PrintedInOrder
    <3> QED
      BY <3>1, <1>17, <1>20 DEF u, Tests
  <2>2. ASSUME verdict[u] # "missing" PROVE FALSE
    <3>1. PICK m \in 1 .. Len(lines) : Starts(lines[m], "ran") /\ lines[m][1].of = u
      <4>1. Outcome(u) # "missing"
        BY <2>1, <2>2, <1>2
      <4> QED
        BY <4>1, <1>0 DEF Outcome
    <3>2. rows[p].piece.of = lines[m][1].of
      <4>1. message[t][x] = rows[p].piece
        BY <1>12
      <4> QED
        BY ONLY <3>1, <4>1 DEF u
    <3>3. b[m] <= p /\ printed[o[b[m]]].of = u
      BY <3>1, <3>2, <1>2, <1>5, OwnLineRead
    <3>4. o[b[m]] \in 1 .. Len(printed)
      BY <1>5, <1>13, <3>1, PiecesAreRows DEF Origin
    <3>5. i < o[b[m]]
      <4>1. o[b[m]] # i /\ u # 0 /\ ~(u <= t)
        BY <1>8, <1>17, <1>20, <2>1, <3>3
      <4>2. ~(o[b[m]] < i)
        BY SMTT(20), <4>1, <3>3, <3>4, <1>2, <1>8, <1>17 DEF PrintedInv, PrintedInOrder
      <4>3. i \in Int /\ o[b[m]] \in Int
        BY <3>4, <1>8
      <4> QED
        BY <4>1, <4>2, <4>3
    <3>6. printed[o[b[m]]].of # t
      BY <3>3, <2>1, <1>17
    <3>7. EndsMessage(lines[m])
      BY <3>1 DEF EndsMessage
    <3> QED
      BY <3>3, <3>5, <3>6, <3>7, <1>18
  <2> QED
    BY <2>1, <2>2 DEF u
<1> QED
  BY <1>19, <1>20

(* A message never runs into the summary, nor into another test that is    *)
(* reported, whatever the console makes of the lines and however many of   *)
(* them the capture drops; for any number of tests.                        *)
THEOREM MessagesAreOfTheirTests == Spec => []MessagesAreTheirOwn
BY AlwaysIInv, ReadIsTheirOwn, PTL

-----------------------------------------------------------------------------
(* Clean output: every line is one that was printed, whole or wrapped at   *)
(* the width, in the order they were printed, none but blank ones left out.*)
Whole(h) ==
    /\ lines \in Seq(Seq(PieceSet))
    /\ h \in [1 .. Len(lines) -> 1 .. Len(printed)]
    /\ \A n, m \in 1 .. Len(lines) : n < m => h[n] < h[m]
    /\ \A n \in 1 .. Len(lines) :
          /\ lines[n][1].reads = printed[h[n]].reads /\ lines[n][1].of = printed[h[n]].of
          /\ Len(lines[n]) = 1 \/ (Len(lines[n]) = 2 /\ lines[n][2].reads = "tail")
    /\ \A i \in 1 .. Len(printed) :
          printed[i].reads # "blank" => \E n \in 1 .. Len(lines) : h[n] = i

LEMMA FileIsWhole ==
    ASSUME PrintedInv, LinesInv, Got, transport = "file"
    PROVE  \E h : Whole(h)
<1>1. Len(lines) = Len(printed) /\ lines \in Seq(Seq(PieceSet)) /\ Len(printed) \in Nat
  BY FileRead DEF Read, PrintedInv
<1>2. DOMAIN printed = 1 .. Len(printed)
  BY DEF PrintedInv
<1>3. lines = [i \in 1 .. Len(printed) |->
                  <<[reads |-> printed[i].reads, of |-> printed[i].of, feed |-> printed[i].feed]>>]
  BY <1>2 DEF LinesInv
<1> DEFINE h == [i \in 1 .. Len(printed) |-> i]
<1>4. \A n \in 1 .. Len(printed) :
         /\ lines[n][1].reads = printed[n].reads /\ lines[n][1].of = printed[n].of /\ Len(lines[n]) = 1
  BY <1>3
<1>5. h \in [1 .. Len(printed) -> 1 .. Len(printed)] /\ \A n \in 1 .. Len(printed) : h[n] = n
  OBVIOUS
<1> HIDE DEF h
<1>6. Whole(h)
  BY <1>1, <1>4, <1>5 DEF Whole
<1> QED
  BY <1>6

\* A line that is clean makes one row that is not full, or a full one and the
\* rest.
CleanRows(rows, o, q) ==
    \A p \in 1 .. Len(rows) :
        \/ q[p] = 1 /\ ~rows[p].full /\ rows[p].piece.reads = printed[o[p]].reads
        \/ /\ q[p] = 1 /\ rows[p].full /\ rows[p].piece.reads = printed[o[p]].reads
           /\ \E r \in 1 .. Len(rows) : o[r] = o[p] /\ q[r] = 2
        \/ /\ q[p] = 2 /\ ~rows[p].full /\ rows[p].piece.reads = "tail"
           /\ \E r \in 1 .. Len(rows) : o[r] = o[p] /\ q[r] = 1 /\ rows[r].full

LEMMA CleanRowsCaptured ==
    ASSUME PrintedInv, transport = "screen",
           \A i \in 1 .. Len(printed) :
              printed[i].layout \in {Plain(printed[i].reads), Wrapped(printed[i].reads)}
    PROVE  \E o, q : /\ Origin(Captured, o, q) /\ CleanRows(Captured, o, q)
                     /\ \A i \in 1 .. Len(printed) : printed[i].reads # "blank" =>
                           \E p \in 1 .. Len(Captured) : o[p] = i /\ q[p] = 1
<1>1. PICK o, q : /\ Origin(Captured, o, q)
                  /\ \A i \in 1 .. Len(printed) : \A j \in 1 .. Len(RowsOf(i)) :
                        \E p \in 1 .. Len(Captured) : o[p] = i /\ q[p] = j
  BY CapturedOrigin
<1>2. ASSUME NEW i \in 1 .. Len(printed), NEW j \in 1 .. Len(printed[i].layout), printed[i].reads # "blank"
      PROVE  \E p \in 1 .. Len(Captured) : o[p] = i /\ q[p] = j
  <2>1. Len(RowsOf(i)) = Len(printed[i].layout)
    BY <1>2, RowsOfType
  <2>2. \A y \in 1 .. Len(RowsOf(i)) : \E p \in 1 .. Len(Captured) : o[p] = i /\ q[p] = y
    BY <1>1
  <2> QED
    BY <2>1, <2>2
<1>3. ASSUME NEW i \in 1 .. Len(printed)
      PROVE  /\ 1 \in 1 .. Len(printed[i].layout)
             /\ printed[i].layout[1].reads = printed[i].reads
             /\ \A j \in 1 .. Len(printed[i].layout) :
                   \/ j = 1 /\ ~printed[i].layout[1].full
                   \/ j = 1 /\ printed[i].layout[1].full /\ 2 \in 1 .. Len(printed[i].layout)
                   \/ /\ j = 2 /\ ~printed[i].layout[2].full /\ printed[i].layout[2].reads = "tail"
                      /\ printed[i].layout[1].full
  <2> DEFINE k == printed[i].reads
             l == printed[i].layout
  <2>1. l = Plain(k) \/ l = Wrapped(k)
    OBVIOUS
  <2> HIDE DEF k, l
  <2>2. CASE l = Plain(k)
    <3>1. Len(l) = 1 /\ l[1].reads = k /\ ~l[1].full
      BY <2>2 DEF Plain
    <3> QED
      BY <3>1 DEF k, l
  <2>3. CASE l = Wrapped(k)
    <3>1. Len(l) = 2 /\ l[1].reads = k /\ l[1].full /\ ~l[2].full /\ l[2].reads = "tail"
      BY <2>3 DEF Wrapped
    <3>2. 1 \in 1 .. Len(l) /\ 2 \in 1 .. Len(l) /\ \A j \in 1 .. Len(l) : j = 1 \/ j = 2
      BY <3>1
    <3> QED
      BY <3>1, <3>2 DEF k, l
  <2> QED
    BY <2>1, <2>2, <2>3
<1>4. \A i \in 1 .. Len(printed) : printed[i].reads # "blank" =>
          \E p \in 1 .. Len(Captured) : o[p] = i /\ q[p] = 1
  BY <1>2, <1>3
<1>5. ASSUME NEW p \in 1 .. Len(Captured)
      PROVE  \/ q[p] = 1 /\ ~Captured[p].full /\ Captured[p].piece.reads = printed[o[p]].reads
             \/ /\ q[p] = 1 /\ Captured[p].full /\ Captured[p].piece.reads = printed[o[p]].reads
                /\ \E r \in 1 .. Len(Captured) : o[r] = o[p] /\ q[r] = 2
             \/ /\ q[p] = 2 /\ ~Captured[p].full /\ Captured[p].piece.reads = "tail"
                /\ \E r \in 1 .. Len(Captured) : o[r] = o[p] /\ q[r] = 1 /\ Captured[r].full
  <2> DEFINE i == o[p]
             j == q[p]
             l == printed[i].layout
  <2>1. /\ i \in 1 .. Len(printed) /\ printed[i].reads # "blank" /\ j \in 1 .. Len(l)
        /\ Captured[p].piece.reads = l[j].reads /\ Captured[p].full = l[j].full
    BY <1>1 DEF Origin, RowOf
  <2> HIDE DEF i, j
  <2>2. /\ 1 \in 1 .. Len(l) /\ l[1].reads = printed[i].reads
        /\ \/ j = 1 /\ ~l[1].full
           \/ j = 1 /\ l[1].full /\ 2 \in 1 .. Len(l)
           \/ j = 2 /\ ~l[2].full /\ l[2].reads = "tail" /\ l[1].full
    BY <2>1, <1>3
  <2>3. 2 \in 1 .. Len(l) => \E r \in 1 .. Len(Captured) : o[r] = i /\ q[r] = 2
    BY <2>1, <1>2
  <2>4. \E r \in 1 .. Len(Captured) : o[r] = i /\ q[r] = 1
    BY <2>1, <1>4
  <2>5. \A r \in 1 .. Len(Captured) : o[r] = i /\ q[r] = 1 => Captured[r].full = l[1].full
    BY <1>1 DEF Origin, RowOf
  <2> HIDE DEF l
  <2> QED
    BY <2>1, <2>2, <2>3, <2>4, <2>5 DEF i, j
<1>6. CleanRows(Captured, o, q)
  BY <1>5 DEF CleanRows
<1> QED
  BY <1>1, <1>4, <1>6

LEMMA CleanSegments ==
    ASSUME PrintedInv, NEW rows, NEW o, NEW q, NEW b, NEW e, Read(rows, o, q, b, e),
           CleanRows(rows, o, q), NEW n \in 1 .. Len(lines)
    PROVE  /\ q[b[n]] = 1 /\ rows[b[n]].piece.reads = printed[o[b[n]]].reads
           /\ e[n] = b[n] \/ (e[n] = b[n] + 1 /\ q[e[n]] = 2 /\ rows[e[n]].piece.reads = "tail")
           /\ o[e[n]] = o[b[n]]
<1> DEFINE p == b[n]
           f == e[n]
<1>1. /\ p \in 1 .. Len(rows) /\ f \in 1 .. Len(rows) /\ p <= f
      /\ ~rows[f].full \/ f = Len(rows)
      /\ \A r \in 1 .. Len(rows) : p <= r /\ r < f => rows[r].full
  BY DEF Read, Joined
<1>2. Len(rows) \in Nat
  BY DEF Read, Origin
<1>3. \A x, y \in 1 .. Len(rows) : x < y => o[x] < o[y] \/ (o[x] = o[y] /\ q[x] < q[y])
  BY DEF Read, Origin
<1>4. \A x \in 1 .. Len(rows) : o[x] \in Int /\ q[x] \in Nat
  <2>1. o \in [1 .. Len(rows) -> 1 .. Len(printed)] /\ q \in [1 .. Len(rows) -> Nat]
    BY DEF Read, Origin
  <2> QED
    BY <2>1
\* Between the first and the second row of a line that wraps is none.
<1>5. ASSUME NEW x \in 1 .. Len(rows), NEW y \in 1 .. Len(rows), o[x] = o[y], q[x] = 1, q[y] = 2
      PROVE  y = x + 1
  <2>1. x < y
    <3>1. y < x => o[y] < o[x] \/ (o[y] = o[x] /\ q[y] < q[x])
      BY <1>3
    <3>2. o[x] \in Int /\ x # y
      BY <1>4, <1>5
    <3> QED
      BY <3>1, <3>2, <1>2, <1>5
  <2>2. ASSUME x + 1 # y PROVE FALSE
    <3> DEFINE z == x + 1
    <3>1. z \in 1 .. Len(rows) /\ x < z /\ z < y
      BY <2>1, <2>2, <1>2
    <3> HIDE DEF z
    <3>2. o[x] < o[z] \/ (o[x] = o[z] /\ q[x] < q[z])
      BY <3>1, <1>3
    <3>3. o[z] < o[y] \/ (o[z] = o[y] /\ q[z] < q[y])
      BY <3>1, <1>3
    <3>4. o[x] \in Int /\ o[z] \in Int /\ q[z] \in Int
      BY <3>1, <1>4
    <3> QED
      BY <3>2, <3>3, <3>4, <1>5
  <2> QED
    BY <2>2
<1>6. \A x \in 1 .. Len(rows) :
        \/ q[x] = 1 /\ ~rows[x].full /\ rows[x].piece.reads = printed[o[x]].reads
        \/ /\ q[x] = 1 /\ rows[x].full /\ rows[x].piece.reads = printed[o[x]].reads
           /\ \E r \in 1 .. Len(rows) : o[r] = o[x] /\ q[r] = 2
        \/ /\ q[x] = 2 /\ ~rows[x].full /\ rows[x].piece.reads = "tail"
           /\ \E r \in 1 .. Len(rows) : o[r] = o[x] /\ q[r] = 1 /\ rows[r].full
  BY DEF CleanRows
<1> HIDE DEF p, f
<1>7. q[p] = 1
  <2>1. ASSUME NEW r \in 1 .. Len(rows), o[r] = o[p], q[r] = 1, rows[r].full, q[p] = 2 PROVE FALSE
    <3>1. p = r + 1
      BY <1>1, <1>5, <2>1
    <3>2. PICK m \in 1 .. Len(lines) : b[m] <= r /\ r <= e[m]
      BY DEF Read, Joined
    <3>3. /\ b[m] \in 1 .. Len(rows) /\ e[m] \in 1 .. Len(rows)
          /\ ~rows[e[m]].full \/ e[m] = Len(rows)
      BY DEF Read, Joined
    <3>4. /\ n < m => e[n] < b[m]
          /\ m < n => e[m] < b[n]
          /\ Len(lines) \in Nat
      <4>1. Len(lines) \in Nat
        BY DEF Read
      <4>2. \A x, y \in 1 .. Len(lines) : x < y => e[x] < b[y]
        BY DEF Read, Joined
      <4> QED
        BY <4>1, <4>2
    <3>5. m < n
      <4>1. ~(n < m)
        BY <3>1, <3>2, <3>3, <3>4, <1>1, <1>2 DEF f
      <4>2. m # n
        BY <3>1, <3>2, <1>1, <1>2 DEF p
      <4> QED
        BY <4>1, <4>2, <3>4
    <3>6. e[m] = r
      BY <3>1, <3>2, <3>3, <3>4, <3>5, <1>1, <1>2 DEF p
    <3> QED
      BY <3>1, <3>3, <3>6, <2>1, <1>1, <1>2
  <2> QED
    BY <2>1, <1>1, <1>6
<1>8. rows[p].piece.reads = printed[o[p]].reads
  BY <1>1, <1>6, <1>7
<1>9. CASE ~rows[p].full
  <2>1. f = p
    BY <1>1, <1>2, <1>9
  <2> QED
    BY <2>1, <1>7, <1>8 DEF p, f
<1>10. CASE rows[p].full
  <2>1. PICK r \in 1 .. Len(rows) : o[r] = o[p] /\ q[r] = 2
    BY <1>1, <1>6, <1>7, <1>10
  <2>2. r = p + 1
    BY <1>1, <1>5, <1>7, <2>1
  <2>3. ~rows[r].full /\ rows[r].piece.reads = "tail"
    BY <1>6, <2>1
  <2>4. f = r
    BY <1>1, <1>2, <1>10, <2>2, <2>3
  <2> QED
    BY <1>7, <1>8, <2>1, <2>2, <2>3, <2>4 DEF p, f
<1> QED
  BY <1>9, <1>10

LEMMA ScreenIsWhole ==
    ASSUME PrintedInv, transport = "screen", lines = LogicalLines(Captured),
           \A i \in 1 .. Len(printed) :
              printed[i].layout \in {Plain(printed[i].reads), Wrapped(printed[i].reads)}
    PROVE  \E h : Whole(h)
<1>1. PICK o, q : /\ Origin(Captured, o, q) /\ CleanRows(Captured, o, q)
                  /\ \A i \in 1 .. Len(printed) : printed[i].reads # "blank" =>
                        \E p \in 1 .. Len(Captured) : o[p] = i /\ q[p] = 1
  BY CleanRowsCaptured
<1> DEFINE rows == Captured
<1>2. rows \in Seq([piece : PieceSet, full : BOOLEAN])
  BY <1>1 DEF Origin
<1>3. PICK b, e : Read(rows, o, q, b, e)
  <2> HIDE DEF rows
  <2>1. lines = LogicalLines(rows) /\ Origin(rows, o, q)
    BY <1>1 DEF rows
  <2>2. lines \in Seq(Seq(PieceSet)) /\ \E b, e : Joined(rows, lines, b, e)
    BY <1>2, <2>1, LogicalLinesAreJoined
  <2> QED
    BY <2>1, <2>2 DEF Read
<1>4. /\ Origin(rows, o, q) /\ CleanRows(rows, o, q)
      /\ \A i \in 1 .. Len(printed) : printed[i].reads # "blank" =>
            \E p \in 1 .. Len(rows) : o[p] = i /\ q[p] = 1
  BY <1>1
<1> HIDE DEF rows
<1> DEFINE h == [n \in 1 .. Len(lines) |-> o[b[n]]]
<1>5. lines \in Seq(Seq(PieceSet)) /\ DOMAIN lines = 1 .. Len(lines) /\ Len(lines) \in Nat
  BY <1>3 DEF Read
<1>6. ASSUME NEW n \in 1 .. Len(lines)
      PROVE  /\ q[b[n]] = 1 /\ rows[b[n]].piece.reads = printed[o[b[n]]].reads
             /\ e[n] = b[n] \/ (e[n] = b[n] + 1 /\ q[e[n]] = 2 /\ rows[e[n]].piece.reads = "tail")
             /\ o[e[n]] = o[b[n]]
  BY <1>3, <1>4, CleanSegments
<1>7. ASSUME NEW n \in 1 .. Len(lines)
      PROVE  /\ Len(lines[n]) = e[n] - b[n] + 1 /\ b[n] \in 1 .. Len(rows) /\ e[n] \in 1 .. Len(rows)
             /\ lines[n][1] = rows[b[n]].piece /\ lines[n][Len(lines[n])] = rows[e[n]].piece
             /\ \A m \in 1 .. Len(lines) : n < m => e[n] < b[m]
             /\ b[n] <= e[n]
  BY <1>3, PiecesAreRows
<1>8. \A p \in 1 .. Len(rows) : o[p] \in 1 .. Len(printed) /\ rows[p].piece.of = printed[o[p]].of
  BY <1>4 DEF Origin
<1>9. ASSUME NEW n \in 1 .. Len(lines)
      PROVE  /\ lines[n][1].reads = printed[o[b[n]]].reads /\ lines[n][1].of = printed[o[b[n]]].of
             /\ o[b[n]] \in 1 .. Len(printed)
             /\ Len(lines[n]) = 1 \/ (Len(lines[n]) = 2 /\ lines[n][2].reads = "tail")
  <2>1. lines[n][1].reads = printed[o[b[n]]].reads
    BY <1>6, <1>7
  <2>2. o[b[n]] \in 1 .. Len(printed) /\ rows[b[n]].piece.of = printed[o[b[n]]].of
    BY <1>7, <1>8
  <2>3. CASE e[n] = b[n]
    <3>1. Len(lines[n]) = 1
      <4>1. Len(lines[n]) = e[n] - b[n] + 1 /\ b[n] \in 1 .. Len(rows)
        BY <1>7
      <4> QED
        BY ONLY <4>1, <2>3
    <3> QED
      BY <2>1, <2>2, <3>1, <1>7
  <2>4. CASE e[n] = b[n] + 1 /\ rows[e[n]].piece.reads = "tail"
    <3>1. Len(lines[n]) = 2
      <4>1. Len(lines[n]) = e[n] - b[n] + 1 /\ b[n] \in 1 .. Len(rows)
        BY <1>7
      <4> QED
        BY ONLY <4>1, <2>4
    <3> QED
      BY <2>1, <2>2, <2>4, <3>1, <1>7
  <2> QED
    BY <2>3, <2>4, <1>6
<1>10. ASSUME NEW n \in 1 .. Len(lines), NEW m \in 1 .. Len(lines), n < m
       PROVE  o[b[n]] < o[b[m]]
  <2>1. b[n] < b[m] /\ b[n] \in 1 .. Len(rows) /\ b[m] \in 1 .. Len(rows)
    <3>1. /\ b[n] <= e[n] /\ e[n] < b[m] /\ b[n] \in 1 .. Len(rows) /\ e[n] \in 1 .. Len(rows)
          /\ b[m] \in 1 .. Len(rows)
      BY <1>7, <1>10
    <3> QED
      BY <3>1
  <2>2. o[b[n]] < o[b[m]] \/ (o[b[n]] = o[b[m]] /\ q[b[n]] < q[b[m]])
    BY <2>1, <1>4 DEF Origin
  <2>3. q[b[n]] = 1 /\ q[b[m]] = 1
    BY <1>6
  <2> QED
    BY <2>2, <2>3
<1>11. ASSUME NEW i \in 1 .. Len(printed), printed[i].reads # "blank"
       PROVE  \E n \in 1 .. Len(lines) : o[b[n]] = i
  <2>1. PICK p \in 1 .. Len(rows) : o[p] = i /\ q[p] = 1
    BY <1>4, <1>11
  <2>2. PICK n \in 1 .. Len(lines) : b[n] <= p /\ p <= e[n]
    BY <1>3 DEF Read, Joined
  <2>3. p = b[n] \/ p = e[n]
    <3>1. b[n] \in 1 .. Len(rows) /\ (e[n] = b[n] \/ e[n] = b[n] + 1)
      BY <1>6, <1>7
    <3> QED
      BY ONLY <3>1, <2>2, p \in 1 .. Len(rows)
  <2> QED
    BY <2>1, <2>3, <1>6
<1>12. h \in [1 .. Len(lines) -> 1 .. Len(printed)] /\ \A n \in 1 .. Len(lines) : h[n] = o[b[n]]
  BY <1>9
<1> HIDE DEF h
<1>13. \A n \in 1 .. Len(lines) :
          /\ lines[n][1].reads = printed[h[n]].reads /\ lines[n][1].of = printed[h[n]].of
          /\ Len(lines[n]) = 1 \/ (Len(lines[n]) = 2 /\ lines[n][2].reads = "tail")
  BY <1>9, <1>12, Zenon
<1>14. \A n, m \in 1 .. Len(lines) : n < m => h[n] < h[m]
  BY <1>10, <1>12
<1>15. \A i \in 1 .. Len(printed) :
          printed[i].reads # "blank" => \E n \in 1 .. Len(lines) : h[n] = i
  BY <1>11, <1>12
<1>16. Whole(h)
  BY <1>5, <1>12, <1>13, <1>14, <1>15, Zenon DEF Whole
<1> QED
  BY <1>16

LEMMA WholeReads ==
    ASSUME PrintedInv, NEW h, Whole(h), NEW n \in 1 .. Len(lines)
    PROVE  /\ \A k : Starts(lines[n], k) <=> printed[h[n]].reads = k
           /\ \A k \in Kinds : Ends(lines[n], k) <=> printed[h[n]].reads = k
           /\ lines[n][1].of = printed[h[n]].of
           /\ Ends(lines[n], "header") => Header(lines[n]) = lines[n][1]
           /\ Len(lines[n]) # 0 /\ h[n] \in 1 .. Len(printed) /\ printed[h[n]].reads \in Kinds
<1> DEFINE s == lines[n]
           x == h[n]
<1>1. /\ s[1].reads = printed[x].reads /\ s[1].of = printed[x].of
      /\ Len(s) = 1 \/ (Len(s) = 2 /\ s[2].reads = "tail")
      /\ x \in 1 .. Len(printed)
  BY Zenon DEF Whole
<1> HIDE DEF s, x
<1>2. printed[x].reads \in Kinds
  BY <1>1, PrintedLines
<1>3. printed[x].reads # "tail" /\ "header" \in Kinds /\ "tail" \notin Kinds
  BY <1>2 DEF Kinds
<1>4. \A k \in Kinds : Ends(s, k) <=> printed[x].reads = k
  <2> TAKE k \in Kinds
  <2>1. CASE Len(s) = 1
    BY <2>1, <1>1 DEF Ends
  <2>2. CASE Len(s) = 2 /\ s[2].reads = "tail"
    BY <2>2, <1>1, <1>3 DEF Ends
  <2> QED
    BY <2>1, <2>2, <1>1
<1>5. ASSUME Ends(s, "header") PROVE Header(s) = s[1]
  <2>1. s[1].reads = "header"
    BY <1>1, <1>3, <1>4, <1>5
  <2>2. CASE Len(s) = 1
    BY <2>1, <2>2 DEF Header
  <2>3. CASE Len(s) = 2 /\ s[2].reads = "tail"
    BY <2>3 DEF Header
  <2> QED
    BY <2>2, <2>3, <1>1
<1>6. \A k : Starts(s, k) <=> printed[x].reads = k
  BY <1>1 DEF Starts
<1>7. Len(s) # 0
  BY <1>1
<1> QED
  BY <1>1, <1>2, <1>4, <1>5, <1>6, <1>7 DEF s, x

LEMMA WholeIsReadable ==
    ASSUME PrintedInv, NEW h, Whole(h), Over, phase # "printing"
    PROVE  Readable
<1>0. DOMAIN lines = 1 .. Len(lines) /\ Len(lines) \in Nat /\ DOMAIN printed = 1 .. Len(printed) /\ Len(printed) \in Nat
  BY DEF Whole, PrintedInv
<1>1. \E n \in DOMAIN lines : Starts(lines[n], "summary")
  <2>1. PICK i \in 1 .. Len(printed) : printed[i].reads = "summary"
    BY DEF PrintedInv, EndIsPrinted
  <2>2. PICK n \in 1 .. Len(lines) : h[n] = i
    BY <2>1 DEF Whole
  <2> QED
    BY <1>0, <2>1, <2>2, WholeReads
<1> DEFINE P == {i \in DOMAIN printed : printed[i].reads = "header"}
           g == [n \in Headers |-> h[n]]
<1>2. \A n \in Headers : n \in 1 .. Len(lines) /\ h[n] \in P
  <2> TAKE n \in Headers
  <2>1. n \in 1 .. Len(lines) /\ Ends(lines[n], "header")
    BY <1>0 DEF Headers
  <2>2. printed[h[n]].reads = "header" /\ h[n] \in 1 .. Len(printed)
    BY <2>1, WholeReads DEF Kinds
  <2> QED
    BY <1>0, <2>1, <2>2
<1>3. g \in [Headers -> P] /\ \A n \in Headers : g[n] = h[n]
  BY <1>2
<1>4. ASSUME NEW n \in Headers, NEW m \in Headers, g[n] = g[m] PROVE n = m
  <2>1. n \in 1 .. Len(lines) /\ m \in 1 .. Len(lines) /\ h[n] = h[m]
    BY <1>2, <1>3, <1>4
  <2>2. h[n] \in Int /\ h[m] \in Int
    BY <2>1, WholeReads
  <2>3. ~(n < m) /\ ~(m < n)
    BY <2>1, <2>2 DEF Whole
  <2> QED
    BY <2>1, <2>3, <1>0
<1>5. ASSUME NEW i \in P PROVE \E n \in Headers : g[n] = i
  <2>1. i \in 1 .. Len(printed) /\ printed[i].reads = "header"
    BY <1>0
  <2>2. PICK n \in 1 .. Len(lines) : h[n] = i
    BY <2>1 DEF Whole
  <2>3. Ends(lines[n], "header")
    BY <2>1, <2>2, WholeReads DEF Kinds
  <2> QED
    BY <1>0, <1>3, <2>2, <2>3 DEF Headers
<1>6. g \in Bijection(Headers, P)
  <2> HIDE DEF g, P
  <2> QED
    BY <1>3, <1>4, <1>5 DEF Bijection, Injection, Surjection, IsInjective
<1>7. IsFiniteSet(Headers)
  <2>1. IsFiniteSet(1 .. Len(lines)) /\ Headers \subseteq 1 .. Len(lines)
    BY <1>0, FS_Interval DEF Headers
  <2> QED
    BY <2>1, FS_Subset
<1>8. Cardinality(P) = Cardinality(Headers)
  <2> HIDE DEF g, P
  <2> QED
    BY <1>6, <1>7, FS_Bijection DEF ExistsBijection
<1> QED
  BY <1>1, <1>8 DEF Readable

\* The next line of a test, if it is not blank, is the next one got.
LEMMA WholeFollows ==
    ASSUME PrintedInv, NEW h, Whole(h), NEW n \in 1 .. Len(lines),
           NEW i \in 1 .. Len(printed), i = h[n] + 1, printed[i].reads # "blank"
    PROVE  n + 1 \in 1 .. Len(lines) /\ h[n + 1] = i
<1>1. PICK m \in 1 .. Len(lines) : h[m] = i
  BY DEF Whole
<1>2. Len(lines) \in Nat /\ \A x \in 1 .. Len(lines) : h[x] \in Int
  <2>1. /\ h \in [1 .. Len(lines) -> 1 .. Len(printed)] /\ Len(lines) \in Nat
        /\ Len(printed) \in Nat
    BY DEF Whole, PrintedInv
  <2> QED
    BY ONLY <2>1
<1>3. \A x, y \in 1 .. Len(lines) : x < y => h[x] < h[y]
  BY DEF Whole
<1>4. n < m
  <2>1. ~(m < n) /\ m # n
    BY <1>1, <1>2, <1>3
  <2> QED
    BY <2>1, <1>2
<1>5. m = n + 1
  <2> DEFINE y == n + 1
  <2>1. y \in 1 .. Len(lines) /\ n < y /\ (y = m \/ y < m)
    BY <1>2, <1>4
  <2> HIDE DEF y
  <2>2. h[n] < h[y] /\ (y < m => h[y] < h[m]) /\ h[y] \in Int
    BY <2>1, <1>2, <1>3
  <2>3. ~(y < m)
    BY <2>2, <1>1, <1>2
  <2> QED
    BY <2>1, <2>3 DEF y
<1> QED
  BY <1>1, <1>5

LEMMA CleanIsRead == IInv => CleanOutputIsRead
<1> SUFFICES ASSUME IInv, Got, Clean
             PROVE  /\ Readable
                    /\ phase = "parsed" =>
                          \A t \in Tests :
                              /\ verdict[t] = fate[t]
                              /\ verdict[t] = "failed" =>
                                    message[t] # <<>> /\ message[t][1].reads = "message"
  BY DEF CleanOutputIsRead, Got, IInv, ReadInv
<1>1. /\ PrintedInv /\ LinesInv /\ transport \in {"screen", "file"} /\ Over /\ Unfed
      /\ phase # "printing"
      /\ DOMAIN printed = 1 .. Len(printed)
  BY DEF IInv, TypeOK, Clean, Over, PrintedInv, Got
<1>2. PICK h : Whole(h)
  <2>1. CASE transport = "file"
    BY <2>1, <1>1, FileIsWhole
  <2>2. CASE transport = "screen"
    <3>1. lines = LogicalLines(Captured)
      BY <2>2 DEF Clean
    <3>2. \A i \in 1 .. Len(printed) :
              printed[i].layout \in {Plain(printed[i].reads), Wrapped(printed[i].reads)}
      BY <1>1, <2>2 DEF Clean
    <3> QED
      BY <2>2, <3>1, <3>2, <1>1, ScreenIsWhole
  <2> QED
    BY <1>1, <2>1, <2>2
<1>3. Readable
  BY <1>1, <1>2, WholeIsReadable
<1>4. DOMAIN lines = 1 .. Len(lines) /\ Len(lines) \in Nat /\ lines \in Seq(Seq(PieceSet))
  BY <1>2 DEF Whole
<1>5. ASSUME phase = "parsed", NEW t \in Tests PROVE verdict[t] = fate[t]
  <2>1. verdict[t] = Outcome(t)
    BY <1>5 DEF IInv, ReadInv
  <2>2. fate[t] # "unrun"
    BY <1>1 DEF Over
  <2>3. PICK i \in 1 .. Len(printed) : printed[i].reads = "ran" /\ printed[i].of = t
    BY <1>1, <2>2 DEF PrintedInv, FatesArePrinted
  <2>4. PICK n \in 1 .. Len(lines) : h[n] = i
    BY <2>3, <1>2 DEF Whole
  <2>5. Starts(lines[n], "ran") /\ lines[n][1].of = t
    <3>1. /\ \A k : Starts(lines[n], k) <=> printed[h[n]].reads = k
          /\ lines[n][1].of = printed[h[n]].of
      BY ZenonT(30), <1>1, <1>2, WholeReads
    <3> QED
      BY <3>1, <2>3, <2>4
  <2>6. verdict[t] # "missing"
    BY <2>1, <2>5, <1>4 DEF Outcome
  <2> QED
    BY <2>6, ReadIsTrue DEF VerdictsAreTrue
<1>6. ASSUME phase = "parsed", NEW t \in Tests, verdict[t] = "failed"
      PROVE  message[t] # <<>> /\ message[t][1].reads = "message"
  <2> DEFINE n == Max(HeadersOf(t))
  <2>1. Outcome(t) = "failed" /\ message[t] = MessageAfter(n)
    <3>1. Outcome(t) = "failed" /\ message[t] = Reported(t)
      BY <1>6 DEF IInv, ReadInv
    <3> QED
      BY <3>1 DEF Reported
  <2>2. n \in HeadersOf(t)
    <3>1. HeadersOf(t) # {}
      BY <2>1 DEF Outcome
    <3>2. HeadersOf(t) \in SUBSET (0 .. Len(lines))
      BY <1>4 DEF HeadersOf, Headers
    <3> QED
      BY <3>1, <3>2, <1>4, Greatest
  <2> HIDE DEF n
  <2>3. n \in 1 .. Len(lines) /\ Ends(lines[n], "header")
    BY <2>2, <1>4 DEF HeadersOf, Headers
  <2> DEFINE i == h[n]
  <2>4. i \in 1 .. Len(printed) /\ printed[i].reads = "header"
    BY <2>3, <1>1, <1>2, WholeReads DEF Kinds
  <2>5. i = h[n]
    OBVIOUS
  <2> HIDE DEF i
  <2>6. Led(i)
    BY <2>4, <1>1 DEF PrintedInv, HeadersAreOfFailures
  <2>7. SplitLines = lines
    <3>1. PICK rows, o, q, b, e : Read(rows, o, q, b, e)
      BY <1>1, Reading
    <3> QED
      BY <3>1, <1>1, NothingIsSplit
  <2>8. PICK k \in {0, 1}, c \in Nat :
              /\ k = 1 <=> n + 1 <= Len(lines) /\ Ends(lines[n + 1], "location")
              /\ n + k + c <= Len(lines)
              /\ c = 0 => n + k = Len(lines) \/ EndsMessage(lines[n + k + 1])
              /\ c # 0 /\ Len(lines[n + k + 1]) # 0 =>
                    MessageAfter(n) # <<>> /\ MessageAfter(n)[1] = lines[n + k + 1][1]
    BY ZenonT(30), <2>3, <2>7, <1>4, MessageIsLines
  \* The line after the header, or after the location, reads as a message.
  <2>9. ASSUME NEW m \in 1 .. Len(lines), m = n + k + 1, printed[h[m]].reads = "message"
        PROVE  message[t] # <<>> /\ message[t][1].reads = "message"
    <3>1. /\ \A y : Starts(lines[m], y) <=> y = "message"
          /\ \A y \in Kinds : Ends(lines[m], y) <=> y = "message"
          /\ Len(lines[m]) # 0
      BY ZenonT(30), <2>9, <1>1, <1>2, WholeReads
    <3>2. ~EndsMessage(lines[m]) /\ lines[m][1].reads = "message"
      BY <3>1 DEF EndsMessage, Kinds, Starts
    <3>3. c # 0
      BY <2>3, <2>8, <2>9, <3>2, <1>4
    <3> QED
      BY <2>1, <2>8, <2>9, <3>1, <3>2, <3>3
  <2>10. CASE i + 1 \in 1 .. Len(printed) /\ printed[i + 1].reads = "message"
    <3>1. n + 1 \in 1 .. Len(lines) /\ h[n + 1] = i + 1
      BY <2>10, <2>3, <2>5, <1>1, <1>2, WholeFollows
    <3>2. ~Ends(lines[n + 1], "location")
      BY <3>1, <2>10, <1>1, <1>2, WholeReads DEF Kinds
    <3>3. k = 0 /\ n + k + 1 = n + 1
      BY <3>1, <3>2, <2>3, <2>8
    <3> QED
      BY <3>1, <3>3, <2>9, <2>10
  <2>11. CASE /\ i + 1 \in 1 .. Len(printed) /\ printed[i + 1].reads = "location"
              /\ i + 2 \in 1 .. Len(printed) /\ printed[i + 2].reads = "message"
    <3>1. n + 1 \in 1 .. Len(lines) /\ h[n + 1] = i + 1
      BY <2>11, <2>3, <2>5, <1>1, <1>2, WholeFollows
    <3>2. Ends(lines[n + 1], "location")
      BY <3>1, <2>11, <1>1, <1>2, WholeReads DEF Kinds
    <3>3. k = 1 /\ n + k + 1 = (n + 1) + 1 /\ i + 2 = (i + 1) + 1
      BY <3>1, <3>2, <2>3, <2>4, <2>8, <1>4
    <3> DEFINE m == n + 1
               y == i + 1
    <3>4. m \in 1 .. Len(lines) /\ h[m] = y
      BY <3>1
    <3>5. y + 1 \in 1 .. Len(printed) /\ printed[y + 1].reads = "message"
      BY <2>11, <3>3
    <3>6. n + k + 1 = m + 1
      BY <3>3
    <3> HIDE DEF m, y
    <3>7. m + 1 \in 1 .. Len(lines) /\ h[m + 1] = y + 1
      BY <3>4, <3>5, <1>1, <1>2, WholeFollows
    <3> QED
      BY <3>5, <3>6, <3>7, <2>9
  <2> QED
    BY <2>6, <2>10, <2>11 DEF Led
<1> QED
  BY <1>3, <1>5, <1>6

(* A run that ended, and of which nothing was lost, nothing is exactly as  *)
(* wide as the console, is wrapped on a space or holds a form feed, is     *)
(* read: every outcome, and the message of the last failure of each test;  *)
(* for any number of tests.                                                *)
THEOREM CleanIsAlwaysRead == Spec => []CleanOutputIsRead
BY AlwaysIInv, CleanIsRead, PTL

=============================================================================
