-------------------------- MODULE SuiteChunks_proof -------------------------
(* Proofs about SuiteChunks, for any names of any length, any command and  *)
(* any list of names.                                                      *)
EXTENDS SuiteChunks, FiniteSetTheorems, WellFoundedInduction, SequenceTheorems, TLAPS

-----------------------------------------------------------------------------
(* Numbers: a set of them has a least one, and holds them all if it holds  *)
(* 0 and, with any, the next.                                              *)
LEMMA Least ==
    ASSUME NEW S \in SUBSET Nat, S # {}
    PROVE  \E m \in S : \A k \in S : m <= k
<1> DEFINE Below == {1 .. k : k \in S}
<1>1. Below \subseteq FiniteSubsetsOf(Nat) /\ Below # {}
  <2>1. ASSUME NEW k \in S PROVE 1 .. k \subseteq Nat /\ IsFiniteSet(1 .. k)
    BY FS_Interval
  <2> QED
    BY <2>1 DEF FiniteSubsetsOf
<1>2. PICK B \in Below : \A C \in Below : ~(<<C, B>> \in StrictSubsetOrdering(Nat))
  <2> HIDE DEF Below
  <2> QED
    BY <1>1, FS_StrictSubsetOrderingWellFounded, WFMin
<1>3. PICK m \in S : B = 1 .. m
  OBVIOUS
<1>4. ASSUME NEW k \in S, k < m PROVE FALSE
  <2>1. /\ 1 .. k \subseteq 1 .. m /\ 1 .. m \subseteq Nat /\ 1 .. k \subseteq Nat
        /\ m \in 1 .. m /\ m \notin 1 .. k
    BY <1>4
  <2>2. <<1 .. k, 1 .. m>> \in StrictSubsetOrdering(Nat)
    BY <2>1 DEF StrictSubsetOrdering
  <2> QED
    BY <1>2, <1>3, <2>2
<1> QED
  BY <1>4

LEMMA NatSetInduction ==
    ASSUME NEW S, 0 \in S, \A n \in S \cap Nat : n + 1 \in S
    PROVE  Nat \subseteq S
<1> SUFFICES ASSUME Nat \ S # {} PROVE FALSE
  OBVIOUS
<1>1. PICK m \in Nat \ S : \A k \in Nat \ S : m <= k
  BY Least
<1>2. m - 1 \in Nat /\ m - 1 \notin Nat \ S
  BY <1>1
<1> QED
  BY <1>1, <1>2

\* A bounded set of numbers has a greatest.
LEMMA Greatest ==
    ASSUME NEW n \in Nat, NEW S \in SUBSET (0 .. n), S # {}
    PROVE  /\ Max(S) \in S
           /\ \A k \in S : k <= Max(S)
<1> DEFINE Rest == {n - k : k \in S}
<1>1. Rest \in SUBSET Nat /\ Rest # {}
  <2>1. \A k \in S : n - k \in Nat
    OBVIOUS
  <2> QED
    BY <2>1
<1>2. PICK r \in Rest : \A k \in Rest : r <= k
  <2> HIDE DEF Rest
  <2> QED
    BY <1>1, Least
<1>3. PICK m \in S : r = n - m
  OBVIOUS
<1>4. \A k \in S : m >= k
  <2> TAKE k \in S
  <2>1. r <= n - k
    BY <1>2
  <2> QED
    BY <2>1, <1>3
<1>5. \E x \in S : \A y \in S : x >= y
  BY <1>4
<1>6. Max(S) \in S /\ \A y \in S : Max(S) >= y
  BY <1>5 DEF Max
<1> QED
  BY <1>6

-----------------------------------------------------------------------------
(* What a fold of numbers from the left is: its partial sums exist and end *)
(* in it.  The library's fold peels off the greatest index of a set, which *)
(* is a recursion on sets of indices.                                      *)
Peeled(s, T, f) == IF T = {} THEN 0 ELSE f[T \ {Max(T)}] + s[Max(T)]

LEMMA TopIsMax ==
    ASSUME NEW n \in Nat, NEW T \in SUBSET (1 .. n + 1), n + 1 \in T
    PROVE  Max(T) = n + 1
<1>1. T \in SUBSET (0 .. n + 1) /\ T # {} /\ n + 1 \in Nat
  OBVIOUS
<1> DEFINE N == n + 1
<1>2. Max(T) \in T /\ \A k \in T : k <= Max(T)
  <2>1. T \in SUBSET (0 .. N) /\ T # {} /\ N \in Nat
    BY <1>1
  <2> HIDE DEF N
  <2> QED
    BY <2>1, Greatest
<1>3. Max(T) \in 1 .. n + 1 /\ n + 1 <= Max(T)
  BY <1>2
<1> QED
  BY <1>3

LEMMA PeelingExists ==
    ASSUME NEW s, NEW n \in Nat
    PROVE  \E f : f = [T \in SUBSET (1 .. n) |-> Peeled(s, T, f)]
<1> DEFINE S == {m \in Nat : \E f : f = [T \in SUBSET (1 .. m) |-> Peeled(s, T, f)]}
<1>1. 0 \in S
  <2> DEFINE f == [T \in SUBSET (1 .. 0) |-> 0]
  <2>1. \A T \in SUBSET (1 .. 0) : Peeled(s, T, f) = 0
    BY DEF Peeled
  <2>2. f = [T \in SUBSET (1 .. 0) |-> Peeled(s, T, f)]
    BY <2>1
  <2> QED
    BY <2>2
<1>2. ASSUME NEW m \in S PROVE m + 1 \in S
  <2>1. PICK f : f = [T \in SUBSET (1 .. m) |-> Peeled(s, T, f)]
    OBVIOUS
  <2> DEFINE N == m + 1
             g == [T \in SUBSET (1 .. N) |-> IF N \in T THEN f[T \ {N}] + s[N] ELSE f[T]]
  <2>2. ASSUME NEW T \in SUBSET (1 .. N) PROVE g[T] = Peeled(s, T, g)
    <3>1. CASE N \in T
      <4>1. Max(T) = N /\ T # {}
        BY <3>1, TopIsMax
      <4>2. T \ {N} \in SUBSET (1 .. N) /\ N \notin T \ {N}
        OBVIOUS
      <4>3. g[T \ {N}] = f[T \ {N}] /\ g[T] = f[T \ {N}] + s[N]
        BY <3>1, <4>2
      <4> HIDE DEF g, N
      <4> QED
        BY <4>1, <4>3 DEF Peeled
    <3>2. CASE N \notin T
      <4>1. T \in SUBSET (1 .. m) /\ g[T] = f[T]
        BY <3>2
      <4>2. f[T] = Peeled(s, T, f)
        BY <2>1, <4>1
      <4>3. CASE T = {}
        BY <4>1, <4>2, <4>3 DEF Peeled
      <4>4. CASE T # {}
        <5>1. T \ {Max(T)} \in SUBSET (1 .. N) /\ N \notin T \ {Max(T)}
          BY <3>2
        <5>2. g[T \ {Max(T)}] = f[T \ {Max(T)}]
          BY <5>1
        <5> HIDE DEF g, N
        <5> QED
          BY <4>1, <4>2, <5>2 DEF Peeled
      <4> QED
        BY <4>3, <4>4
    <3> QED
      BY <3>1, <3>2
  <2>3. g = [T \in SUBSET (1 .. N) |-> Peeled(s, T, g)]
    <3> DEFINE h == [T \in SUBSET (1 .. N) |-> Peeled(s, T, g)]
    <3>1. \A T \in SUBSET (1 .. N) : g[T] = h[T]
      BY <2>2
    <3> QED
      BY <3>1
  <2> HIDE DEF g
  <2> QED
    BY <2>3
<1> HIDE DEF S
<1>3. Nat \subseteq S
  BY <1>1, <1>2, NatSetInduction
<1> QED
  BY <1>3 DEF S

LEMMA FoldIsPeeling ==
    ASSUME NEW s, NEW n \in Nat, DOMAIN s = 1 .. n
    PROVE  \E f : /\ f = [T \in SUBSET (1 .. n) |-> Peeled(s, T, f)]
                  /\ FoldLeft(+, 0, s) = f[1 .. n]
<1> DEFINE f == CHOOSE f : f = [T \in SUBSET (1 .. n) |-> Peeled(s, T, f)]
<1>1. f = [T \in SUBSET (1 .. n) |-> Peeled(s, T, f)]
  BY PeelingExists
<1>2. FoldLeft(+, 0, s) = f[1 .. n]
  BY DEF FoldLeft, MapThenFoldSet, Peeled
<1> QED
  BY <1>1, <1>2

LEMMA FoldSums ==
    ASSUME NEW n \in Nat, NEW s \in [1 .. n -> Int]
    PROVE  \E F \in [0 .. n -> Int] :
              /\ F[0] = 0
              /\ \A k \in 1 .. n : F[k] = F[k - 1] + s[k]
              /\ FoldLeft(+, 0, s) = F[n]
<1>1. PICK f : /\ f = [T \in SUBSET (1 .. n) |-> Peeled(s, T, f)]
               /\ FoldLeft(+, 0, s) = f[1 .. n]
  BY FoldIsPeeling
<1> DEFINE F == [k \in 0 .. n |-> f[1 .. k]]
<1>2. F[0] = 0
  <2>1. 1 .. 0 = {}
    OBVIOUS
  <2>2. f[{}] = Peeled(s, {}, f)
    BY <1>1
  <2> QED
    BY <2>1, <2>2 DEF Peeled
<1>3. ASSUME NEW k \in 1 .. n PROVE F[k] = F[k - 1] + s[k]
  <2>1. k - 1 \in Nat /\ 1 .. k \in SUBSET (1 .. n) /\ 1 .. k # {}
    OBVIOUS
  <2>2. Max(1 .. k) = k
    <3> DEFINE m == k - 1
    <3>1. m \in Nat /\ 1 .. k \in SUBSET (1 .. m + 1) /\ m + 1 \in 1 .. k /\ m + 1 = k
      OBVIOUS
    <3> HIDE DEF m
    <3> QED
      BY <3>1, TopIsMax
  <2>3. (1 .. k) \ {k} = 1 .. k - 1
    OBVIOUS
  <2>4. f[1 .. k] = f[1 .. k - 1] + s[k]
    BY <1>1, <2>1, <2>2, <2>3 DEF Peeled
  <2>5. F[k] = f[1 .. k] /\ F[k - 1] = f[1 .. k - 1]
    OBVIOUS
  <2> HIDE DEF F
  <2> QED
    BY <2>4, <2>5
<1>4. FoldLeft(+, 0, s) = F[n]
  <2>1. n \in 0 .. n
    OBVIOUS
  <2> QED
    BY <1>1, <2>1
<1>5. F \in [0 .. n -> Int]
  <2> DEFINE S == {k \in Nat : k <= n => F[k] \in Int}
  <2>1. 0 \in S
    BY <1>2
  <2>2. ASSUME NEW k \in S PROVE k + 1 \in S
    <3> DEFINE j == k + 1
    <3>1. SUFFICES ASSUME j <= n PROVE F[j] \in Int
      OBVIOUS
    <3>2. j \in 1 .. n /\ j - 1 = k /\ F[k] \in Int
      BY <3>1
    <3>3. F[j] = F[k] + s[j] /\ s[j] \in Int
      BY <1>3, <3>2
    <3> QED
      BY <3>2, <3>3
  <2>3. Nat \subseteq S
    <3> HIDE DEF S
    <3> QED
      BY <2>1, <2>2, NatSetInduction
  <2>4. \A k \in 0 .. n : F[k] \in Int
    <3> HIDE DEF F
    <3> QED
      BY <2>3
  <2>5. F = [k \in 0 .. n |-> F[k]]
    OBVIOUS
  <2> HIDE DEF F
  <2> QED
    BY <2>4, <2>5
<1> HIDE DEF F
<1> QED
  BY <1>2, <1>3, <1>4, <1>5

-----------------------------------------------------------------------------
(* An exchange's line, token by token, and what each name adds to it.      *)
LEMMA ArgvTokens ==
    ASSUME NEW c \in Seq(Tests)
    PROVE  /\ Len(Argv(c)) = 3 + 2 * Len(c)
           /\ Argv(c) \in [1 .. 3 + 2 * Len(c) -> Int]
           /\ Argv(c)[1] = 2 /\ Argv(c)[2] = 3 /\ Argv(c)[3] = GroupLen
           /\ \A j \in 1 .. Len(c) : /\ Argv(c)[2 + 2 * j] = 3
                                     /\ Argv(c)[3 + 2 * j] = NameLen[c[j]]
<1> DEFINE n == Len(c)
           t == [k \in 1 .. 2 * n |-> IF k % 2 = 1 THEN 3 ELSE NameLen[c[k \div 2]]]
<1>1. n \in Nat /\ \A j \in 1 .. n : c[j] \in Tests
  OBVIOUS
<1> HIDE DEF n
<1>2. \A k \in 1 .. 2 * n : k % 2 # 1 => k \div 2 \in 1 .. n /\ k = 2 * (k \div 2)
  BY <1>1
<1>3. \A k \in 1 .. 2 * n : t[k] \in Int
  BY <1>1, <1>2, SuiteArgvAssumption
<1>4. t \in Seq(Int) /\ Len(t) = 2 * n
  BY <1>1, <1>3
<1>5. \A j \in 1 .. n : t[2 * j - 1] = 3 /\ t[2 * j] = NameLen[c[j]]
  <2> TAKE j \in 1 .. n
  <2>1. /\ 2 * j - 1 \in 1 .. 2 * n /\ (2 * j - 1) % 2 = 1
        /\ 2 * j \in 1 .. 2 * n /\ (2 * j) % 2 = 0 /\ (2 * j) \div 2 = j
    BY <1>1
  <2> QED
    BY <2>1
<1>6. Argv(c) = <<2, 3, GroupLen>> \o t
  BY DEF Argv, n
<1> DEFINE h == <<2, 3, GroupLen>>
<1>7. h \in Seq(Int) /\ Len(h) = 3 /\ h[1] = 2 /\ h[2] = 3 /\ h[3] = GroupLen
  BY SuiteArgvAssumption
<1> HIDE DEF h, t
<1>8. /\ h \o t \in Seq(Int) /\ Len(h \o t) = 3 + 2 * n
      /\ \A k \in 1 .. 3 : (h \o t)[k] = h[k]
      /\ \A k \in 1 .. 2 * n : (h \o t)[3 + k] = t[k]
  <2>1. /\ Len(h \o t) = Len(h) + Len(t)
        /\ \A i \in 1 .. Len(h) + Len(t) :
              (h \o t)[i] = IF i <= Len(h) THEN h[i] ELSE t[i - Len(h)]
    BY <1>4, <1>7, ConcatProperties
  <2>2. h \o t \in Seq(Int)
    BY <1>4, <1>7, ConcatProperties
  <2>3. \A k \in 1 .. 2 * n : (h \o t)[3 + k] = t[k]
    <3> TAKE k \in 1 .. 2 * n
    <3>1. 3 + k \in 1 .. 3 + 2 * n /\ ~(3 + k <= 3) /\ (3 + k) - 3 = k
      BY <1>1
    <3> QED
      BY <1>4, <1>7, <2>1, <3>1
  <2>4. \A k \in 1 .. 3 : (h \o t)[k] = h[k]
    BY <1>1, <1>4, <1>7, <2>1
  <2> QED
    BY <1>4, <1>7, <2>1, <2>2, <2>3, <2>4
<1>9. h \o t \in [1 .. 3 + 2 * n -> Int]
  <2> DEFINE u == h \o t
  <2>1. u \in Seq(Int) /\ Len(u) = 3 + 2 * n
    BY <1>8
  <2> HIDE DEF u
  <2>2. u \in [1 .. 3 + 2 * n -> Int]
    BY <1>1, <2>1
  <2> QED
    BY <2>2 DEF u
<1>10. ASSUME NEW j \in 1 .. n
       PROVE  (h \o t)[2 + 2 * j] = 3 /\ (h \o t)[3 + 2 * j] = NameLen[c[j]]
  <2>1. /\ 2 * j - 1 \in 1 .. 2 * n /\ 3 + (2 * j - 1) = 2 + 2 * j /\ 2 * j \in 1 .. 2 * n
    BY <1>1
  <2>2. (h \o t)[3 + (2 * j - 1)] = t[2 * j - 1] /\ (h \o t)[3 + 2 * j] = t[2 * j]
    BY <1>8, <2>1
  <2> QED
    BY <1>5, <2>1, <2>2
<1>11. (h \o t)[1] = 2 /\ (h \o t)[2] = 3 /\ (h \o t)[3] = GroupLen
  <2>1. 1 \in 1 .. 3 /\ 2 \in 1 .. 3 /\ 3 \in 1 .. 3
    OBVIOUS
  <2>2. \A k \in 1 .. 3 : (h \o t)[k] = h[k]
    BY <1>8
  <2> QED
    BY ONLY <1>7, <2>1, <2>2
<1>12. Argv(c) = h \o t
  BY <1>6 DEF h
<1> QED
  BY ONLY <1>8, <1>9, <1>10, <1>11, <1>12 DEF n

(* The weight of a prefix of a list of names: each costs its own length, a *)
(* -sn and two spaces.                                                     *)
IsWeight(W, line) ==
    /\ W \in [0 .. Len(line) -> Int]
    /\ \A j \in 1 .. Len(line) : W[j] = W[j - 1] + 5 + NameLen[line[j]]

LEMMA WeightExists ==
    ASSUME NEW line \in Seq(Tests)
    PROVE  \E W : IsWeight(W, line)
<1> DEFINE n == Len(line)
           s == [j \in 1 .. n |-> 5 + NameLen[line[j]]]
<1>1. n \in Nat /\ s \in [1 .. n -> Int]
  BY SuiteArgvAssumption
<1>2. PICK W \in [0 .. n -> Int] : \A k \in 1 .. n : W[k] = W[k - 1] + s[k]
  <2> HIDE DEF n, s
  <2> QED
    BY <1>1, FoldSums
<1>3. \A j \in 1 .. n : W[j] = W[j - 1] + 5 + NameLen[line[j]]
  <2> TAKE j \in 1 .. n
  <2>1. j \in 0 .. n /\ j - 1 \in 0 .. n /\ line[j] \in Tests
    OBVIOUS
  <2>2. W[j] = W[j - 1] + s[j] /\ s[j] = 5 + NameLen[line[j]] /\ NameLen[line[j]] \in Int
    BY <1>2, <2>1, SuiteArgvAssumption
  <2>3. W[j - 1] \in Int
    <3> HIDE DEF n, s
    <3> QED
      BY <1>1, <1>2, <2>1
  <2> DEFINE u == W[j - 1]
             l == NameLen[line[j]]
  <2>4. W[j] = u + (5 + l) /\ u \in Int /\ l \in Int
    BY <2>2, <2>3
  <2> HIDE DEF n, s, u, l
  <2>5. W[j] = u + 5 + l
    BY ONLY <2>4
  <2> QED
    BY <2>5 DEF u, l
<1> QED
  BY <1>2, <1>3 DEF IsWeight

LEMMA WeightGrows ==
    ASSUME NEW line \in Seq(Tests), NEW W, IsWeight(W, line),
           NEW i \in 0 .. Len(line), NEW j \in i .. Len(line)
    PROVE  W[i] \in Int /\ W[j] \in Int /\ W[i] <= W[j]
<1> DEFINE n == Len(line)
<1>1. n \in Nat /\ W \in [0 .. n -> Int]
  BY DEF IsWeight
<1>2. \A k \in 0 .. n : W[k] \in Int
  BY <1>1
<1>3. \A k \in 1 .. n : W[k - 1] <= W[k]
  <2> TAKE k \in 1 .. n
  <2>1. line[k] \in Tests /\ k - 1 \in 0 .. n
    OBVIOUS
  <2>2. W[k] = W[k - 1] + 5 + NameLen[line[k]] /\ NameLen[line[k]] \in Nat /\ W[k - 1] \in Int
    BY <1>2, <2>1, SuiteArgvAssumption DEF IsWeight
  <2> QED
    BY <2>2
<1> HIDE DEF n
<1> DEFINE S == {d \in Nat : i + d <= n => W[i] <= W[i + d]}
<1>4. 0 \in S
  <2>1. i \in 0 .. n /\ i + 0 = i
    BY DEF n
  <2>2. W[i] <= W[i + 0]
    BY <1>2, <2>1
  <2> QED
    BY <2>2
<1>5. ASSUME NEW d \in S PROVE d + 1 \in S
  <2> DEFINE k == i + (d + 1)
  <2>1. SUFFICES ASSUME k <= n PROVE W[i] <= W[k]
    OBVIOUS
  <2>2. i \in 0 .. n /\ k \in 1 .. n /\ k - 1 = i + d /\ k - 1 \in 0 .. n /\ k \in 0 .. n
    BY <1>1, <2>1 DEF n
  <2>3. W[i] <= W[k - 1]
    BY <2>2
  <2>4. W[k - 1] <= W[k]
    BY <1>3, <2>2
  <2> HIDE DEF k, S
  <2> QED
    BY <1>2, <2>2, <2>3, <2>4
<1>6. Nat \subseteq S
  <2> HIDE DEF S
  <2> QED
    BY <1>4, <1>5, NatSetInduction
<1>7. j - i \in Nat /\ i + (j - i) = j /\ j <= n /\ i \in 0 .. n /\ j \in 0 .. n
  BY DEF n
<1> DEFINE d == j - i
<1>8. d \in S /\ i + d = j /\ i + d <= n
  <2> HIDE DEF S
  <2> QED
    BY <1>6, <1>7
<1> HIDE DEF d
<1> QED
  BY <1>2, <1>7, <1>8

LEMMA PartOf ==
    ASSUME NEW line \in Seq(Tests), NEW a \in 1 .. Len(line) + 1, NEW b \in a - 1 .. Len(line)
    PROVE  /\ SubSeq(line, a, b) \in Seq(Tests)
           /\ Len(SubSeq(line, a, b)) = b - a + 1
           /\ \A j \in 1 .. b - a + 1 : SubSeq(line, a, b)[j] = line[a + j - 1]
  OBVIOUS

\* What the argv for a part of a list costs: the program's fixed tokens and
\* the weight of the part.
LEMMA SpentOnPart ==
    ASSUME NEW line \in Seq(Tests), NEW W, IsWeight(W, line),
           NEW a \in 1 .. Len(line) + 1, NEW b \in a - 1 .. Len(line)
    PROVE  Spent(SubSeq(line, a, b)) = 7 + GroupLen + W[b] - W[a - 1]
<1> DEFINE c == SubSeq(line, a, b)
           m == Len(c)
           s == Argv(c)
           n == 3 + 2 * m
<1>1. c \in Seq(Tests) /\ m = b - a + 1 /\ m \in Nat /\ \A j \in 1 .. m : c[j] = line[a + j - 1]
  BY PartOf
<1>2. /\ Len(s) = n /\ s \in [1 .. n -> Int] /\ n \in Nat
      /\ s[1] = 2 /\ s[2] = 3 /\ s[3] = GroupLen
      /\ \A j \in 1 .. m : s[2 + 2 * j] = 3 /\ s[3 + 2 * j] = NameLen[c[j]]
  <2>1. n \in Nat
    <3> HIDE DEF m
    <3> QED
      BY <1>1
  <2> HIDE DEF c
  <2> QED
    BY <1>1, <2>1, ArgvTokens
<1>3. PICK F \in [0 .. n -> Int] :
          /\ F[0] = 0
          /\ \A k \in 1 .. n : F[k] = F[k - 1] + s[k]
          /\ FoldLeft(+, 0, s) = F[n]
  <2> HIDE DEF s, n
  <2> QED
    BY <1>2, FoldSums
<1>4. Spent(c) = F[n] + n - 1
  BY <1>2, <1>3 DEF Spent
<1>5. /\ GroupLen \in Nat /\ \A t \in Tests : NameLen[t] \in Nat
  BY SuiteArgvAssumption
<1>6. \A k \in 0 .. Len(line) : W[k] \in Int
  BY DEF IsWeight
<1>7. \A k \in 0 .. n : F[k] \in Int
  BY <1>3
<1>8. F[3] = 5 + GroupLen
  <2>1. 1 \in 1 .. n /\ 2 \in 1 .. n /\ 3 \in 1 .. n /\ 1 - 1 = 0 /\ 2 - 1 = 1 /\ 3 - 1 = 2
    BY <1>1
  <2> HIDE DEF s, n
  <2>2. F[1] = F[0] + s[1] /\ F[2] = F[1] + s[2] /\ F[3] = F[2] + s[3]
    BY ONLY <1>3, <2>1
  <2>3. s[1] = 2 /\ s[2] = 3 /\ s[3] = GroupLen /\ GroupLen \in Nat /\ F[0] = 0
    BY <1>2, <1>3, <1>5
  <2> QED
    BY ONLY <2>2, <2>3
<1> DEFINE S == {j \in Nat : j <= m => F[3 + 2 * j] = 5 + GroupLen + W[a - 1 + j] - W[a - 1] - 2 * j}
<1>9. 0 \in S
  <2>1. a - 1 \in 0 .. Len(line) /\ 3 + 2 * 0 = 3 /\ a - 1 + 0 = a - 1
    OBVIOUS
  <2>2. W[a - 1] \in Int
    BY <1>6, <2>1
  <2> HIDE DEF m, n, s, c
  <2> QED
    BY <1>5, <1>8, <2>1, <2>2
<1>10. ASSUME NEW j \in S PROVE j + 1 \in S
  <2> DEFINE k == j + 1
             x == 3 + 2 * j
             y == a - 1 + j
  <2>1. SUFFICES ASSUME k <= m PROVE F[3 + 2 * k] = 5 + GroupLen + W[a - 1 + k] - W[a - 1] - 2 * k
    OBVIOUS
  <2>2. /\ j \in Nat /\ k \in 1 .. m /\ x \in 0 .. n /\ x + 1 \in 1 .. n /\ x + 2 \in 1 .. n
        /\ x + 1 = 2 + 2 * k /\ x + 2 = 3 + 2 * k
        /\ y \in 0 .. Len(line) /\ y + 1 \in 1 .. Len(line) /\ y + 1 = a + k - 1 /\ a - 1 + k = y + 1
        /\ (x + 1) - 1 = x /\ (x + 2) - 1 = x + 1 /\ (y + 1) - 1 = y /\ a - 1 \in 0 .. Len(line)
    BY SMTT(20), <1>1, <2>1
  <2>3. F[x] = 5 + GroupLen + W[y] - W[a - 1] - 2 * j
    BY <2>1, <2>2
  <2> HIDE DEF S, s, n, m, c, x, y, k
  <2>4. F[x + 1] = F[x] + s[x + 1] /\ F[x + 2] = F[x + 1] + s[x + 2]
    BY <1>3, <2>2
  <2>5. s[x + 1] = 3 /\ s[x + 2] = NameLen[c[k]] /\ c[k] = line[y + 1]
    BY <1>1, <1>2, <2>2
  <2>6. W[y + 1] = W[y] + 5 + NameLen[line[y + 1]]
    BY <2>2 DEF IsWeight
  <2>7. line[y + 1] \in Tests
    BY <2>2
  <2>8. NameLen[line[y + 1]] \in Nat /\ W[y] \in Int /\ W[a - 1] \in Int /\ F[x] \in Int
    BY <1>5, <1>6, <1>7, <2>2, <2>7
  <2>9. F[x + 2] = 5 + GroupLen + W[y + 1] - W[a - 1] - 2 * k
    <3> DEFINE p == F[x]
               q == F[x + 1]
               r == F[x + 2]
               u == W[y]
               v == W[y + 1]
               w == W[a - 1]
               l == NameLen[line[y + 1]]
    <3>1. /\ p = 5 + GroupLen + u - w - 2 * j /\ q = p + 3 /\ r = q + l /\ v = u + 5 + l
          /\ l \in Nat /\ u \in Int /\ w \in Int /\ p \in Int /\ j \in Nat /\ GroupLen \in Nat
      BY <1>5, <2>2, <2>3, <2>4, <2>5, <2>6, <2>8
    <3> HIDE DEF p, q, r, u, v, w, l
    <3>2. r = 5 + GroupLen + v - w - 2 * (j + 1)
      BY ONLY <3>1
    <3> QED
      BY <3>2 DEF r, v, w, k
  <2> QED
    BY <2>2, <2>9
<1>11. m \in S
  <2>1. Nat \subseteq S
    <3> HIDE DEF S
    <3> QED
      BY <1>9, <1>10, NatSetInduction
  <2> HIDE DEF S, m
  <2> QED
    BY <1>1, <2>1
<1>12. F[n] = 5 + GroupLen + W[b] - W[a - 1] - 2 * m
  <2>1. a - 1 + m = b
    BY <1>1
  <2> HIDE DEF s, c
  <2> QED
    BY <1>1, <1>11, <2>1
<1>13. W[b] \in Int /\ W[a - 1] \in Int
  BY <1>6
<1>14. Spent(c) = F[n] + (3 + 2 * m) - 1
  BY <1>4
<1> HIDE DEF S, s, n, m
<1> DEFINE p == W[b]
           q == W[a - 1]
           r == F[n]
<1>15. /\ r = 5 + GroupLen + p - q - 2 * m /\ Spent(c) = r + (3 + 2 * m) - 1
       /\ p \in Int /\ q \in Int /\ m \in Nat /\ GroupLen \in Nat
  BY <1>1, <1>5, <1>12, <1>13, <1>14
<1> HIDE DEF p, q, r, c
<1>16. Spent(c) = 7 + GroupLen + p - q
  BY ONLY <1>15
<1> QED
  BY <1>16 DEF p, q, c

LEMMA SpentIsNumber ==
    ASSUME NEW line \in Seq(Tests)
    PROVE  Spent(line) \in Int
<1>1. PICK W : IsWeight(W, line)
  BY WeightExists
<1> DEFINE n == Len(line)
<1>2. /\ n \in Nat /\ 1 \in 1 .. n + 1 /\ n \in 1 - 1 .. n /\ 1 - 1 = 0 /\ 0 \in 0 .. n /\ n \in 0 .. n
      /\ SubSeq(line, 1, n) = line
  OBVIOUS
<1>3. Spent(SubSeq(line, 1, n)) = 7 + GroupLen + W[n] - W[1 - 1]
  BY <1>1, <1>2, SpentOnPart
<1>4. W[n] \in Int /\ W[0] \in Int
  BY <1>1, <1>2 DEF IsWeight
<1>5. Spent(line) = 7 + GroupLen + W[n] - W[0]
  BY ONLY <1>2, <1>3
<1> HIDE DEF n
<1> QED
  BY <1>4, <1>5, SuiteArgvAssumption

\* A part of a part that fits, fits.
LEMMA FitsShrinks ==
    ASSUME NEW line \in Seq(Tests), NEW who \in Sides,
           NEW a \in 1 .. Len(line), NEW b \in a .. Len(line), Fits(SubSeq(line, a, b), who),
           NEW c \in a .. b, NEW d \in c .. b
    PROVE  Fits(SubSeq(line, c, d), who)
<1>1. PICK W : IsWeight(W, line)
  BY WeightExists
<1>2. Spent(SubSeq(line, a, b)) = 7 + GroupLen + W[b] - W[a - 1]
  BY <1>1, SpentOnPart
<1>3. Spent(SubSeq(line, c, d)) = 7 + GroupLen + W[d] - W[c - 1]
  <2>1. c \in 1 .. Len(line) + 1 /\ d \in c - 1 .. Len(line)
    OBVIOUS
  <2> QED
    BY <1>1, <2>1, SpentOnPart
<1>4. W[d] \in Int /\ W[b] \in Int /\ W[d] <= W[b]
  <2>1. d \in 0 .. Len(line) /\ b \in d .. Len(line)
    OBVIOUS
  <2> QED
    BY <1>1, <2>1, WeightGrows
<1>5. W[a - 1] \in Int /\ W[c - 1] \in Int /\ W[a - 1] <= W[c - 1]
  <2> DEFINE i == a - 1
             j == c - 1
  <2>1. i \in 0 .. Len(line) /\ j \in i .. Len(line)
    OBVIOUS
  <2> HIDE DEF i, j
  <2>2. W[i] \in Int /\ W[j] \in Int /\ W[i] <= W[j]
    BY <1>1, <2>1, WeightGrows
  <2> QED
    BY <2>2 DEF i, j
<1>6. Budget(who) \in Int
  BY SuiteArgvAssumption DEF Budget, ArgumentTailLimit, DosCommandLineLimit
<1> DEFINE p == W[b]
           q == W[a - 1]
           r == W[d]
           t == W[c - 1]
           x == Spent(SubSeq(line, a, b))
           y == Spent(SubSeq(line, c, d))
<1>7. x <= Budget(who)
  BY DEF Fits
<1>8. /\ p \in Int /\ q \in Int /\ r \in Int /\ t \in Int /\ r <= p /\ q <= t
      /\ x = 7 + GroupLen + p - q /\ y = 7 + GroupLen + r - t
  BY <1>2, <1>3, <1>4, <1>5
<1> HIDE DEF p, q, r, t, x, y
<1>9. y <= Budget(who)
  BY ONLY <1>6, <1>7, <1>8, SuiteArgvAssumption
<1> QED
  BY <1>9 DEF Fits, y

-----------------------------------------------------------------------------
(* The chunks.                                                             *)
USE DEF Limited

(* The chunk being filled is one name, or fits; so is every one that was   *)
(* closed.                                                                 *)
ChunksFit ==
    /\ Limited /\ at - from > 1 => Fits(Chunk(from, at - 1), side)
    /\ \A k \in 1 .. Len(out) :
          Limited /\ out[k].from < out[k].to => Fits(Chunk(out[k].from, out[k].to), side)

(* A chunk is closed by the name that no longer fits; without a budget     *)
(* there is but one.                                                       *)
ChunksAreFull ==
    /\ ~Limited => from = at /\ Len(out) <= 1
    /\ \A k \in 1 .. Len(out) :
          Limited /\ out[k].to < Len(names) => ~Fits(Chunk(out[k].from, out[k].to + 1), side)

ChunksInv == TypeOK /\ EveryNameOnce /\ ChunksFit /\ ChunksAreFull

LEMMA NamesAreFinite ==
  ASSUME TypeOK
  PROVE  /\ names \in Seq(Tests) /\ Len(names) \in Nat \ {0}
         /\ at \in Int /\ from \in Int /\ Len(out) \in Nat
  BY SuiteChunksAssumption DEF TypeOK

LEMMA ElementOf ==
  ASSUME NEW S, NEW s \in Seq(S), NEW i \in 1 .. Len(s)
  PROVE  s[i] \in S
  OBVIOUS

LEMMA ChunksInvInit == Init => ChunksInv
<1> SUFFICES ASSUME Init PROVE ChunksInv
  OBVIOUS
<1>1. names \in Seq(Tests) /\ Len(names) \in Nat \ {0}
  BY SuiteChunksAssumption DEF Init
<1> QED
  BY <1>1 DEF Init, ChunksInv, TypeOK, EveryNameOnce, ChunksFit, ChunksAreFull

(* What closing a chunk at index b does to the list of chunks.             *)
LEMMA CloseChunk ==
  ASSUME ChunksInv, NEW b \in Int, from <= b, b <= Len(names),
         out' = Append(out, [from |-> from, to |-> b]),
         from' = b + 1, names' = names, side' = side, at' \in b + 1 .. Len(names) + 1,
         Limited /\ from < b => Fits(Chunk(from, b), side),
         at' - from' <= 1,
         Limited /\ b < Len(names) => ~Fits(Chunk(from, b + 1), side),
         ~Limited => from' = at' /\ out = <<>>
  PROVE  ChunksInv'
<1> USE DEF ChunksInv
<1>0. /\ names \in Seq(Tests) /\ Len(names) \in Nat \ {0}
      /\ at \in Int /\ from \in Int /\ Len(out) \in Nat
  BY NamesAreFinite
<1> USE <1>0
<1>1. /\ Len(out') = Len(out) + 1
      /\ out'[Len(out) + 1] = [from |-> from, to |-> b]
      /\ \A k \in 1 .. Len(out) : out'[k] = out[k]
  BY DEF TypeOK
<1>2. TypeOK'
  <2>1. [from |-> from, to |-> b] \in [from : 1 .. Len(names) + 1, to : 0 .. Len(names)]
    BY DEF TypeOK
  <2>2. out' \in Seq([from : 1 .. Len(names) + 1, to : 0 .. Len(names)])
    BY <2>1 DEF TypeOK
  <2>3. at' \in 1 .. Len(names) + 1 /\ from' \in 1 .. at'
    BY DEF TypeOK
  <2> QED
    BY <2>2, <2>3 DEF TypeOK
<1>3. EveryNameOnce'
  <2>1. out' # <<>> /\ out'[Len(out')].to = from' - 1 /\ Len(out') \in Nat
    BY <1>1
  <2>2. CASE out = <<>>
    <3>1. Len(out) = 0 /\ Len(out') = 1 /\ from = 1
      BY <1>1, <2>2 DEF EveryNameOnce
    <3> QED
      BY <1>1, <2>1, <3>1 DEF EveryNameOnce
  <2>3. CASE out # <<>>
    <3>1. Len(out) \in Nat \ {0} /\ out'[1].from = 1
      BY <1>1, <2>3 DEF EveryNameOnce, TypeOK
    <3>2. out'[Len(out) + 1].from = out'[Len(out)].to + 1
      <4>1. out[Len(out)].to = from - 1 /\ Len(out) \in 1 .. Len(out)
        BY <2>3, <3>1 DEF EveryNameOnce
      <4>2. out'[Len(out)].to + 1 = from
        BY <1>1, <4>1
      <4> QED
        BY <1>1, <3>1, <4>2
    <3>3. \A k \in 1 .. Len(out') - 1 : out'[k + 1].from = out'[k].to + 1
      <4>1. SUFFICES ASSUME NEW k \in 1 .. Len(out') - 1
                     PROVE  out'[k + 1].from = out'[k].to + 1
        OBVIOUS
      <4>2. CASE k = Len(out)
        BY <3>2, <4>2
      <4>3. CASE k # Len(out)
        <5>1. k \in 1 .. Len(out) - 1 /\ k \in 1 .. Len(out) /\ k + 1 \in 1 .. Len(out)
          BY <1>1, <4>3
        <5> QED
          BY <1>1, <5>1 DEF EveryNameOnce
      <4> QED
        BY <4>2, <4>3
    <3>4. \A k \in 1 .. Len(out') : out'[k].from <= out'[k].to
      BY SMTT(20), <1>1 DEF EveryNameOnce
    <3> QED
      BY <2>1, <3>1, <3>3, <3>4 DEF EveryNameOnce
  <2> QED
    BY <2>2, <2>3
<1>4. ChunksFit'
  <2>1. \A k \in 1 .. Len(out') :
          Limited /\ out'[k].from < out'[k].to =>
              Fits(SubSeq(names, out'[k].from, out'[k].to), side)
    BY <1>1 DEF ChunksFit, Chunk
  <2>2. at' \in Int /\ from' \in Int
    <3>1. \A x, y \in Int : \A z \in x .. y : z \in Int
      OBVIOUS
    <3> QED
      BY <3>1
  <2>3. ASSUME at' - from' > 1 PROVE FALSE
    <3>1. \A x, y \in Int : x - y <= 1 => ~(x - y > 1)
      OBVIOUS
    <3>2. at' - from' <= 1
      OBVIOUS
    <3> QED
      BY ONLY <2>2, <2>3, <3>1, <3>2
  <2> QED
    BY <2>1, <2>3 DEF ChunksFit, Chunk
<1>5. ChunksAreFull'
  <2>1. \A k \in 1 .. Len(out') :
          Limited /\ out'[k].to < Len(names) =>
              ~Fits(SubSeq(names, out'[k].from, out'[k].to + 1), side)
    BY <1>1 DEF ChunksAreFull, Chunk
  <2>2. ~Limited => from' = at' /\ Len(out') <= 1
    BY <1>1
  <2> QED
    BY <2>1, <2>2 DEF ChunksAreFull, Chunk
<1> QED
  BY <1>2, <1>3, <1>4, <1>5

LEMMA ChunksInvStep == ChunksInv /\ [Next]_vars => ChunksInv'
<1> SUFFICES ASSUME ChunksInv, [Next]_vars PROVE ChunksInv'
  OBVIOUS
<1> USE NamesAreFinite DEF ChunksInv
<1>1. CASE YieldAll
  <2>1. at = 1 /\ from = 1 /\ out = <<>>
    <3>1. at = 1 /\ from = 1
      BY <1>1 DEF YieldAll, TypeOK
    <3>2. ASSUME out # <<>> PROVE FALSE
      <4>1. /\ 1 \in 1 .. Len(out) /\ Len(out) \in 1 .. Len(out)
            /\ out[1].from = 1 /\ out[Len(out)].to = 0
        <5>1. Len(out) \in Nat \ {0}
          BY <3>2 DEF TypeOK
        <5> QED
          BY <3>1, <3>2, <5>1 DEF EveryNameOnce
      <4>2. out[Len(out)] \in [from : 1 .. Len(names) + 1, to : 0 .. Len(names)]
        <5>1. out \in Seq([from : 1 .. Len(names) + 1, to : 0 .. Len(names)])
          BY DEF TypeOK
        <5> QED
          BY <4>1, <5>1, ElementOf
      <4>3. out[Len(out)].from <= out[Len(out)].to
        BY <4>1 DEF EveryNameOnce
      <4> QED
        BY <4>1, <4>2, <4>3
    <3> QED
      BY <3>1, <3>2
  <2>2. out' = Append(out, [from |-> from, to |-> Len(names)])
    BY <1>1, <2>1 DEF YieldAll
  <2> QED
    BY <1>1, <2>1, <2>2, CloseChunk DEF YieldAll
<1>2. CASE Place
  <2>1. CASE from < at /\ ~Fits(Chunk(from, at), side)
    <3>1. /\ out' = Append(out, [from |-> from, to |-> at - 1])
          /\ from' = at /\ at' = at + 1 /\ names' = names /\ side' = side /\ at <= Len(names)
      BY <1>2, <2>1 DEF Place
    <3>2. Limited /\ from < at - 1 => Fits(Chunk(from, at - 1), side)
      BY DEF ChunksFit
    <3>3. /\ at - 1 \in Int /\ from <= at - 1 /\ at - 1 <= Len(names)
          /\ from' = (at - 1) + 1 /\ at' \in (at - 1) + 1 .. Len(names) + 1
          /\ at' - from' <= 1
      BY <2>1, <3>1 DEF TypeOK
    <3>4. ~Fits(Chunk(from, (at - 1) + 1), side)
      BY <2>1
    <3>5. Limited
      BY <1>2 DEF Place
    <3> QED
      BY <3>1, <3>2, <3>3, <3>4, <3>5, CloseChunk
  <2>2. CASE ~(from < at /\ ~Fits(Chunk(from, at), side))
    <3>1. /\ UNCHANGED <<names, side, from, out>>
          /\ at' = at + 1 /\ at <= Len(names)
          /\ from = at \/ Fits(Chunk(from, at), side)
      BY <1>2, <2>2 DEF Place
    <3>2. TypeOK' /\ EveryNameOnce'
      BY SMTT(20), <3>1 DEF TypeOK, EveryNameOnce
    <3>3. at' - 1 = at
      BY <3>1
    <3>4. Limited /\ at' - from' > 1 => Fits(Chunk(from, at), side)
      BY <3>1
    <3>5. ChunksFit'
      BY <3>1, <3>3, <3>4 DEF ChunksFit, Chunk
    <3>6. ChunksAreFull'
      BY <1>2, <3>1 DEF Place, ChunksAreFull, Chunk
    <3> QED
      BY <3>2, <3>5, <3>6
  <2> QED
    BY <2>1, <2>2
<1>3. CASE YieldLast
  <2>1. /\ at = Len(names) + 1 /\ from < at
        /\ out' = Append(out, [from |-> from, to |-> Len(names)])
        /\ from' = Len(names) + 1 /\ UNCHANGED <<names, side, at>>
    BY <1>3 DEF YieldLast
  <2>2. Limited /\ from < Len(names) => Fits(Chunk(from, Len(names)), side)
    <3>1. at - 1 = Len(names)
      BY <2>1
    <3> QED
      BY <2>1, <3>1 DEF ChunksFit
  <2>3. Limited
    BY <2>1 DEF ChunksAreFull
  <2> QED
    BY <2>1, <2>2, <2>3, CloseChunk
<1>4. CASE UNCHANGED vars
  BY <1>4 DEF vars, TypeOK, EveryNameOnce, ChunksFit, ChunksAreFull, Chunk
<1> QED
  BY <1>1, <1>2, <1>3, <1>4 DEF Next

(* No name is lost and none asked for twice, whatever their lengths.       *)
THEOREM NoNameIsLost == Spec => []EveryNameOnce
<1>1. ChunksInv => EveryNameOnce
  BY DEF ChunksInv
<1> QED
  BY <1>1, ChunksInvInit, ChunksInvStep, PTL DEF Spec

\* Chunks that fit the budget fit the two limits it is made of.
LEMMA ChunksFitTheLine ==
  ASSUME ChunksInv
  PROVE  EveryLineFits
<1> SUFFICES ASSUME ChunksInv, NEW k \in 1 .. Len(out), out[k].from < out[k].to, Limited
             PROVE  /\ Spent(Chunk(out[k].from, out[k].to)) <= ArgumentTailLimit
                    /\ side = "typed" =>
                         CommandLen + 1 + Spent(Chunk(out[k].from, out[k].to)) <= DosCommandLineLimit
  BY DEF EveryLineFits
<1>1. Spent(Chunk(out[k].from, out[k].to)) <= Budget(side)
  BY DEF ChunksInv, ChunksFit, Fits
<1>2. Chunk(out[k].from, out[k].to) \in Seq(Tests)
  <2>1. out[k] \in [from : 1 .. Len(names) + 1, to : 0 .. Len(names)]
    <3>1. out \in Seq([from : 1 .. Len(names) + 1, to : 0 .. Len(names)])
      BY DEF ChunksInv, TypeOK
    <3> QED
      BY <3>1, ElementOf
  <2>2. out[k].from \in 1 .. Len(names) + 1 /\ out[k].to \in 0 .. Len(names)
    BY <2>1
  <2> QED
    BY SMTT(20), <2>2, NamesAreFinite DEF ChunksInv, Chunk
<1>3. Spent(Chunk(out[k].from, out[k].to)) \in Int
  BY <1>2, SpentIsNumber
<1> QED
  BY <1>1, <1>2, <1>3, SuiteArgvAssumption DEF Budget, ArgumentTailLimit, DosCommandLineLimit

(* Both of DOS's limits hold for every exchange of more than one name: the *)
(* program's argument tail and, where the command is typed at COMMAND.COM, *)
(* the line.                                                               *)
THEOREM NoLineIsTooLong == Spec => []EveryLineFits
<1>1. ChunksInv => EveryLineFits
  BY ChunksFitTheLine
<1> QED
  BY <1>1, ChunksInvInit, ChunksInvStep, PTL DEF Spec

-----------------------------------------------------------------------------
(* The chunks are few: each is the longest its first name can open, and no *)
(* cutting can skip one.                                                   *)
LEMMA ChunkIsWithin ==
    ASSUME ChunksInv, NEW k \in 1 .. Len(out)
    PROVE  /\ out[k].from \in 1 .. Len(names) /\ out[k].to \in out[k].from .. Len(names)
           /\ side \in Sides
<1>1. out[k] \in [from : 1 .. Len(names) + 1, to : 0 .. Len(names)]
  <2>1. out \in Seq([from : 1 .. Len(names) + 1, to : 0 .. Len(names)])
    BY DEF ChunksInv, TypeOK
  <2> QED
    BY <2>1, ElementOf
<1>2. out[k].from \in 1 .. Len(names) + 1 /\ out[k].to \in 0 .. Len(names)
  BY <1>1
<1>3. out[k].from <= out[k].to
  BY DEF ChunksInv, EveryNameOnce
<1>4. Len(names) \in Nat
  BY NamesAreFinite DEF ChunksInv
<1> QED
  BY SMTT(20), <1>2, <1>3, <1>4 DEF ChunksInv, TypeOK

LEMMA ChunkIsLongest ==
    ASSUME ChunksInv, NEW k \in 1 .. Len(out), Limited
    PROVE  out[k].to - out[k].from + 1 = ChunkLen(Chunk(out[k].from, Len(names)), side)
<1> DEFINE L == Len(names)
           a == out[k].from
           b == out[k].to
           w == b - a + 1
           c == Chunk(a, L)
           m == L - a + 1
           fitting == {n \in 1 .. Len(c) : \A j \in 2 .. n : Fits(SubSeq(c, 1, j), side)}
<1>1. names \in Seq(Tests) /\ L \in Nat
  BY NamesAreFinite DEF ChunksInv
<1>2. a \in 1 .. L /\ b \in a .. L /\ side \in Sides
  BY ChunkIsWithin
<1>3. /\ a < b => Fits(Chunk(a, b), side)
      /\ b < L => ~Fits(Chunk(a, b + 1), side)
  BY DEF ChunksInv, ChunksFit, ChunksAreFull
<1> HIDE DEF a, b
<1>4. c \in Seq(Tests) /\ Len(c) = m /\ m \in Nat /\ w \in 1 .. m
  <2>1. a \in 1 .. L + 1 /\ L \in a - 1 .. L
    BY <1>1, <1>2
  <2>2. c \in Seq(Tests) /\ Len(c) = L - a + 1
    <3> HIDE DEF L
    <3>1. Len(names) = L
      BY DEF L
    <3> QED
      BY <1>1, <2>1, <3>1, PartOf DEF Chunk
  <2> HIDE DEF c, L
  <2> QED
    BY <1>1, <1>2, <2>2
<1>5. ASSUME NEW j \in 1 .. m PROVE SubSeq(c, 1, j) = Chunk(a, a + j - 1)
  <2>1. 1 \in 1 .. L - a + 1 /\ j \in 1 .. L - a + 1 /\ L \in 1 .. Len(names) /\ a + 1 - 1 = a
    BY <1>1, <1>2
  <2>2. SubSeq(SubSeq(names, a, L), 1, j) = SubSeq(names, a + 1 - 1, a + j - 1)
    <3> HIDE DEF L
    <3> QED
      BY <1>1, <1>2, <2>1, SubSeqOfSubSeq DEF L
  <2> QED
    BY <2>1, <2>2 DEF Chunk
<1>6. w \in fitting
  <2>1. ASSUME NEW j \in 2 .. w PROVE Fits(SubSeq(c, 1, j), side)
    <3> DEFINE d == a + j - 1
    <3>1. a < b /\ j \in 1 .. m /\ d \in a .. b /\ a \in a .. b
      <4> HIDE DEF L, c
      <4> QED
        BY <1>1, <1>2, <1>4
    <3> HIDE DEF d
    <3>2. Fits(SubSeq(names, a, d), side)
      BY <1>1, <1>2, <1>3, <3>1, FitsShrinks DEF Chunk
    <3> QED
      BY <1>5, <3>1, <3>2 DEF Chunk, d
  <2> HIDE DEF w, c, m
  <2> QED
    BY <1>4, <2>1
<1>7. ASSUME NEW n \in fitting PROVE n <= w
  <2>1. SUFFICES ASSUME n > w PROVE FALSE
    <3> HIDE DEF c, L
    <3> QED
      BY <1>1, <1>2, <1>4
  <2> DEFINE j == w + 1
  <2>2. /\ n \in 1 .. m /\ j \in 2 .. n /\ j \in 1 .. m /\ a + j - 1 = b + 1 /\ b < L
    <3>1. n \in 1 .. m
      BY <1>4
    <3> HIDE DEF c, L, fitting
    <3> QED
      BY <1>1, <1>2, <2>1, <3>1
  <2> HIDE DEF j, c, L, m, w
  <2>3. Fits(SubSeq(c, 1, j), side)
    BY <2>2
  <2> QED
    BY <1>3, <1>5, <2>2, <2>3
<1>8. w \in Nat /\ \A n \in fitting : n \in Nat
  BY <1>4
<1> HIDE DEF w, c, m
<1>9. \A n \in fitting : (\A i \in fitting : i <= n) => n = w
  BY <1>6, <1>7, <1>8
<1>10. ChunkLen(c, side) = w
  <2>1. ChunkLen(c, side) = CHOOSE n \in fitting : \A i \in fitting : i <= n
    BY DEF ChunkLen
  <2> HIDE DEF fitting
  <2> QED
    BY <1>6, <1>7, <1>9, <2>1
<1> QED
  BY <1>10 DEF w, c, a, b

(* A cutting has a part begin within every stretch from a chunk's second   *)
(* name to the next chunk's first: otherwise one of its parts would hold   *)
(* more than that chunk could.                                             *)
LEMMA NextStart ==
    ASSUME ChunksInv, Limited, NEW starts \in Cuttings, NEW k \in 1 .. Len(out) - 1
    PROVE  \E x \in starts : out[k].from < x /\ x <= out[k].to + 1
<1> DEFINE L == Len(names)
           i == out[k].from
           j == out[k].to + 1
<1>1. names \in Seq(Tests) /\ L \in Nat /\ Len(out) \in Nat
  BY NamesAreFinite DEF ChunksInv
<1>2. k \in 1 .. Len(out) /\ k + 1 \in 1 .. Len(out)
  BY <1>1
<1>3. i \in 1 .. L /\ j \in i + 1 .. L /\ side \in Sides /\ out[k].to < L
  <2>1. i \in 1 .. L /\ out[k].to \in i .. L /\ side \in Sides
    BY <1>2, ChunkIsWithin
  <2>2. out[k + 1].from = j
    BY DEF ChunksInv, EveryNameOnce
  <2>3. out[k + 1].from \in 1 .. L
    BY <1>2, ChunkIsWithin
  <2> HIDE DEF L
  <2> QED
    BY <1>1, <2>1, <2>2, <2>3
<1>4. ~Fits(Chunk(i, j), side)
  BY <1>2, <1>3 DEF ChunksInv, ChunksAreFull
<1> HIDE DEF i, j
<1>5. SUFFICES ASSUME \A x \in starts : ~(i < x /\ x <= j) PROVE FALSE
  BY DEF i, j
<1>6. /\ starts \in SUBSET (1 .. L) /\ 1 \in starts
      /\ \A a \in starts :
            LET b == CHOOSE b \in a .. L :
                        /\ b = L \/ b + 1 \in starts
                        /\ \A c \in a + 1 .. b : c \notin starts
            IN  a = b \/ Fits(Chunk(a, b), side)
  BY DEF Cuttings
<1> HIDE DEF L
<1>n. i \in Nat /\ j \in Nat /\ L \in Nat /\ 1 <= i /\ i < j /\ j <= L
  BY ONLY <1>1, <1>3
<1> DEFINE earlier == {x \in starts : x <= i}
           a == Max(earlier)
<1>7. a \in starts /\ a <= i /\ \A x \in starts : x <= i => x <= a
  <2>1. i \in Nat /\ earlier \in SUBSET (0 .. i) /\ earlier # {}
    <3>1. \A x \in 1 .. L : x <= i => x \in 0 .. i
      BY ONLY <1>n
    <3>2. 1 \in earlier
      BY <1>n, <1>6
    <3>3. earlier \subseteq 0 .. i
      BY <1>6, <3>1
    <3> HIDE DEF earlier
    <3> QED
      BY <1>n, <3>2, <3>3
  <2>2. a \in earlier /\ \A x \in earlier : x <= a
    <3> HIDE DEF earlier
    <3> QED
      BY <2>1, Greatest
  <2> QED
    BY <2>2
<1> HIDE DEF a
<1>8. a \in 1 .. L
  BY <1>6, <1>7
<1>9. \E b \in a .. L : /\ b = L \/ b + 1 \in starts
                        /\ \A c \in a + 1 .. b : c \notin starts
  <2> DEFINE ends == {b \in a .. L : b = L \/ b + 1 \in starts}
  <2>1. ends \in SUBSET Nat /\ L \in ends
    BY <1>1, <1>8
  <2>2. PICK b \in ends : \A e \in ends : b <= e
    <3> HIDE DEF ends
    <3> QED
      BY <2>1, Least
  <2>3. ASSUME NEW c \in a + 1 .. b, c \in starts PROVE FALSE
    <3>1. (c - 1) + 1 \in starts /\ c - 1 \in a .. L /\ c - 1 < b
      BY <1>1, <1>8, <2>3
    <3> QED
      BY <2>2, <3>1
  <2> QED
    BY <2>2, <2>3
<1> DEFINE b == CHOOSE b \in a .. L : /\ b = L \/ b + 1 \in starts
                                      /\ \A c \in a + 1 .. b : c \notin starts
<1>10. /\ b \in a .. L
       /\ b = L \/ b + 1 \in starts
       /\ \A c \in a + 1 .. b : c \notin starts
  BY <1>9
<1>11. a = b \/ Fits(Chunk(a, b), side)
  BY <1>6, <1>7
<1> HIDE DEF b
<1>m. a \in Nat /\ b \in Nat /\ 1 <= a /\ a <= b /\ b <= L
  BY <1>n, <1>8, <1>10
<1>12. j <= b
  <2>1. SUFFICES ASSUME b < j PROVE FALSE
    BY <1>n, <1>m
  <2>2. b + 1 \in starts /\ b + 1 <= j
    BY ONLY <1>n, <1>m, <1>10, <2>1
  <2>3. b + 1 > a
    BY ONLY <1>m
  <2>4. CASE b + 1 <= i
    BY ONLY <1>7, <1>m, <2>2, <2>3, <2>4
  <2>5. CASE ~(b + 1 <= i)
    <3>1. i < b + 1
      BY ONLY <1>n, <1>m, <2>5
    <3> QED
      BY <1>5, <2>2, <3>1
  <2> QED
    BY <2>4, <2>5
<1>13. a # b /\ i \in a .. b /\ j \in i .. b
  BY ONLY <1>n, <1>m, <1>7, <1>12
<1>14. Fits(SubSeq(names, i, j), side)
  <2>1. Fits(SubSeq(names, a, b), side)
    BY <1>11, <1>13 DEF Chunk
  <2>2. a \in 1 .. Len(names) /\ b \in a .. Len(names)
    BY ONLY <1>n, <1>m DEF L
  <2> QED
    BY <1>1, <1>3, <1>13, <2>1, <2>2, FitsShrinks
<1> QED
  BY <1>4, <1>14 DEF Chunk

\* So there are at least as many parts as chunks.
LEMMA NoCuttingIsShorter ==
    ASSUME ChunksInv, Finished, NEW starts \in Cuttings
    PROVE  Len(out) <= Cardinality(starts)
<1> DEFINE L == Len(names)
           P(k) == {x \in starts : x <= out[k].from}
<1>1. L \in Nat \ {0} /\ Len(out) \in Nat
  BY NamesAreFinite DEF ChunksInv
<1>2. starts \in SUBSET (1 .. L) /\ 1 \in starts
  BY DEF Cuttings
<1>3. /\ IsFiniteSet(starts) /\ Cardinality(starts) \in Nat
      /\ \A T \in SUBSET starts : /\ IsFiniteSet(T) /\ Cardinality(T) \in Nat
                                  /\ Cardinality(T) <= Cardinality(starts)
  <2>1. IsFiniteSet(1 .. L)
    BY <1>1, FS_Interval
  <2>2. IsFiniteSet(starts)
    BY <1>2, <2>1, FS_Subset
  <2>3. \A T \in SUBSET starts : IsFiniteSet(T) /\ Cardinality(T) <= Cardinality(starts)
    BY <2>2, FS_Subset
  <2> QED
    BY <2>2, <2>3, FS_CardinalityType
<1>4. Cardinality({1}) = 1 /\ {1} \in SUBSET starts
  BY <1>2, FS_Singleton
<1>5. out # <<>> /\ Len(out) \in Nat \ {0} /\ out[1].from = 1
  <2>1. from # 1
    BY <1>1 DEF Finished
  <2>2. out # <<>>
    BY <2>1 DEF ChunksInv, EveryNameOnce
  <2>3. out[1].from = 1
    BY <2>2 DEF ChunksInv, EveryNameOnce
  <2> QED
    BY <2>2, <2>3 DEF ChunksInv, TypeOK
<1>6. CASE ~Limited
  <2>1. Len(out) <= 1
    BY <1>6 DEF ChunksInv, ChunksAreFull
  <2>2. 1 <= Cardinality(starts)
    BY <1>3, <1>4
  <2> QED
    BY <1>1, <1>3, <2>1, <2>2
<1>7. CASE Limited
  <2> DEFINE S == {d \in Nat : d + 1 <= Len(out) => d + 1 <= Cardinality(P(d + 1))}
  <2>1. 0 \in S
    <3>1. P(1) = {1}
      <4>1. \A x \in 1 .. L : x <= 1 <=> x = 1
        <5> HIDE DEF L
        <5> QED
          BY <1>1
      <4>2. P(1) = {x \in starts : x <= 1}
        BY <1>5
      <4>3. \A x : x \in {y \in starts : y <= 1} <=> x = 1
        BY <1>2, <4>1
      <4> QED
        BY <4>2, <4>3
    <3>2. 0 + 1 = 1
      OBVIOUS
    <3> HIDE DEF P
    <3> QED
      BY <1>4, <3>1, <3>2
  <2>2. ASSUME NEW d \in S PROVE d + 1 \in S
    <3> DEFINE k == d + 1
               n == k + 1
    <3>1. SUFFICES ASSUME n <= Len(out) PROVE n <= Cardinality(P(n))
      OBVIOUS
    <3>2. /\ d \in Nat /\ k \in Nat /\ n \in Nat /\ k <= Len(out) /\ k \in 1 .. Len(out) - 1
          /\ k \in 1 .. Len(out) /\ n \in 1 .. Len(out)
      BY <1>1, <3>1
    <3>3. k <= Cardinality(P(k))
      <4> HIDE DEF P
      <4> QED
        BY <3>2
    <3> HIDE DEF S, n, k
    <3>4. PICK x \in starts : out[k].from < x /\ x <= out[k].to + 1
      BY <1>7, <3>2, NextStart
    <3>5. out[n].from = out[k].to + 1
      BY <3>2 DEF ChunksInv, EveryNameOnce, n
    <3>6. out[k].from \in 1 .. L /\ out[n].from \in 1 .. L /\ x \in 1 .. L /\ out[k].to \in Int
      BY <1>2, <3>2, ChunkIsWithin
    <3>7. P(k) \cup {x} \subseteq P(n) /\ x \notin P(k)
      <4> HIDE DEF L
      <4> QED
        <5>1. x \notin P(k)
          BY <3>4, <3>6
        <5>2. x \in P(n)
          BY <3>4, <3>5
        <5>3. \A y \in 1 .. L : y <= out[k].from => y <= out[n].from
          <6>1. out[k].from <= out[n].from
            BY <1>1, <3>4, <3>5, <3>6
          <6> QED
            BY <1>1, <3>6, <6>1
        <5>4. P(k) \subseteq P(n)
          BY <1>2, <5>3
        <5> HIDE DEF P
        <5> QED
          BY <5>1, <5>2, <5>4
    <3>8. P(k) \in SUBSET starts /\ P(n) \in SUBSET starts
      OBVIOUS
    <3> HIDE DEF P
    <3>9. Cardinality(P(k) \cup {x}) = Cardinality(P(k)) + 1
      <4>1. IsFiniteSet(P(k))
        BY <1>3, <3>8
      <4> QED
        BY <3>7, <4>1, FS_AddElement
    <3>10. Cardinality(P(k) \cup {x}) <= Cardinality(P(n))
      <4>1. IsFiniteSet(P(n))
        BY <1>3, <3>8
      <4> QED
        BY <3>7, <4>1, FS_Subset
    <3> QED
      BY <1>3, <3>2, <3>3, <3>8, <3>9, <3>10 DEF n
  <2> DEFINE d == Len(out) - 1
  <2>3. d \in S /\ d + 1 = Len(out)
    <3>1. d \in Nat /\ d + 1 = Len(out)
      BY <1>5
    <3> HIDE DEF S, d
    <3> QED
      BY <2>1, <2>2, <3>1, NatSetInduction
  <2>4. P(d + 1) \in SUBSET starts
    OBVIOUS
  <2> HIDE DEF P, d
  <2>5. d + 1 <= Cardinality(P(d + 1))
    BY <1>1, <2>3
  <2> QED
    BY <1>1, <1>3, <2>3, <2>4, <2>5
<1> QED
  BY <1>6, <1>7

LEMMA ChunksAreFewest == ChunksInv => FewestChunks
  BY ChunkIsLongest, NoCuttingIsShorter DEF FewestChunks

(* "A few exchanges": whatever the names' lengths, with a budget every     *)
(* chunk is the longest that could be taken of what was left, and no other *)
(* cutting of the list into parts that fit has fewer of them.              *)
THEOREM NoFewerExchanges == Spec => []FewestChunks
  BY ChunksAreFewest, ChunksInvInit, ChunksInvStep, PTL DEF Spec

=============================================================================
