------------------------------ MODULE Recursion ------------------------------
(***************************************************************************)
(* Induction and recursion over the naturals, stated about sets and        *)
(* functions so that a proof can cite them: a property to be proved by     *)
(* induction is the set of the numbers that have it, and a function        *)
(* defined by recursion is a function equal to its right-hand side.        *)
(***************************************************************************)
EXTENDS Integers, Sequences, WellFoundedInduction, TLAPS
-----------------------------------------------------------------------------
IsFirst(S, i) == i \in S /\ \A j \in S : i <= j

\* A set of numbers has a least one.
LEMMA SomeFirst ==
    ASSUME NEW S \in SUBSET Nat, S # {}
    PROVE  \E i \in S : IsFirst(S, i)
<1>. DEFINE R == {ss \in Nat \X Nat : ss[1] < ss[2]}
<1>1. IsWellFoundedOn(R, Nat)
  BY NatLessThanWellFounded DEF OpToRel
<1>2. PICK i \in S : \A j \in S : <<j, i>> \notin R
  BY <1>1, WFMin
<1>3. \A j \in S : i <= j
  <2>. SUFFICES ASSUME NEW j \in S PROVE i <= j
    OBVIOUS
  <2>1. <<j, i>> \in R <=> j < i
    OBVIOUS
  <2>. QED
    BY <1>2, <2>1
<1>. QED
  BY <1>2, <1>3 DEF IsFirst

\* What holds of 0 and of the successor of each number it holds of.
LEMMA Induction ==
    ASSUME NEW P, 0 \in P, \A n \in Nat : n \in P => n + 1 \in P
    PROVE  Nat \subseteq P
<1>. SUFFICES ASSUME Nat \ P # {} PROVE FALSE
  OBVIOUS
<1>1. PICK i \in Nat \ P : IsFirst(Nat \ P, i)
  BY SomeFirst
<1>2. i # 0 /\ i - 1 \in Nat
  OBVIOUS
<1>3. i - 1 \in P
  BY <1>1, <1>2 DEF IsFirst
<1>4. (i - 1) + 1 \in P /\ (i - 1) + 1 = i
  BY <1>2, <1>3
<1>. QED
  BY <1>1, <1>4

\* The same up to a bound.
LEMMA InductionUpTo ==
    ASSUME NEW N \in Nat, NEW P, 0 \in P, \A n \in 0..N - 1 : n \in P => n + 1 \in P
    PROVE  0..N \subseteq P
<1>. DEFINE Q == {n \in Nat : n <= N => n \in P}
<1>1. Nat \subseteq Q
  <2>1. 0 \in Q
    OBVIOUS
  <2>2. \A n \in Nat : n \in Q => n + 1 \in Q
    OBVIOUS
  <2>. HIDE DEF Q
  <2>. QED
    BY <2>1, <2>2, Induction
<1>. QED
  BY <1>1

-----------------------------------------------------------------------------
(* f[0] is a, and f[n] is what step makes of f[n - 1].                     *)
Unrolls(f, N, a, step) == f = [n \in 0..N |-> IF n = 0 THEN a ELSE step[n][f[n - 1]]]

\* There is such a function, and its values are those of step.
LEMMA RecursionExists ==
    ASSUME NEW N \in Nat, NEW S, NEW a \in S, NEW step \in [1..N -> [S -> S]]
    PROVE  \E f \in [0..N -> S] : Unrolls(f, N, a, step)
<1>. DEFINE P == {n \in Nat : \E f \in [0..n -> S] : Unrolls(f, n, a, step)}
<1>1. 0 \in P
  <2>. DEFINE f == [n \in 0..0 |-> a]
  <2>1. f \in [0..0 -> S] /\ \A n \in 0..0 : n = 0 /\ f[n] = a
    OBVIOUS
  <2>2. f = [n \in 0..0 |-> IF n = 0 THEN a ELSE step[n][f[n - 1]]]
    BY <2>1
  <2>. QED
    BY <2>1, <2>2 DEF Unrolls
<1>2. \A n \in 0..N - 1 : n \in P => n + 1 \in P
  <2>. SUFFICES ASSUME NEW n \in 0..N - 1, n \in P PROVE n + 1 \in P
    OBVIOUS
  <2>1. PICK f \in [0..n -> S] : Unrolls(f, n, a, step)
    OBVIOUS
  <2>. DEFINE g == [m \in 0..n + 1 |-> IF m <= n THEN f[m] ELSE step[n + 1][f[n]]]
  <2>2. f[n] \in S /\ n + 1 \in 1..N
    OBVIOUS
  <2>3. g \in [0..n + 1 -> S]
    <3>1. \A m \in 0..n + 1 : m <= n => m \in 0..n
      OBVIOUS
    <3>2. step[n + 1][f[n]] \in S
      BY <2>2
    <3>. QED
      BY <3>1, <3>2
  <2>4. \A m \in 0..n + 1 : g[m] = IF m = 0 THEN a ELSE step[m][g[m - 1]]
    <3>. SUFFICES ASSUME NEW m \in 0..n + 1
                  PROVE  g[m] = IF m = 0 THEN a ELSE step[m][g[m - 1]]
      OBVIOUS
    <3>1. CASE m <= n
      <4>1. m \in 0..n /\ g[m] = f[m] /\ (m # 0 => m - 1 \in 0..n + 1 /\ g[m - 1] = f[m - 1])
        BY <3>1
      <4>2. f[m] = IF m = 0 THEN a ELSE step[m][f[m - 1]]
        BY <2>1, <4>1 DEF Unrolls
      <4>. QED
        BY <4>1, <4>2
    <3>2. CASE m = n + 1
      <4>1. m - 1 = n /\ ~(m <= n) /\ m # 0 /\ n <= n /\ n \in 0..n + 1
        BY <3>2
      <4>2. g[m] = step[n + 1][f[n]] /\ g[n] = f[n]
        BY <4>1
      <4>. HIDE DEF g
      <4>. QED
        BY <4>1, <4>2, <3>2
    <3>. QED
      BY <3>1, <3>2
  <2>5. g = [m \in 0..n + 1 |-> IF m = 0 THEN a ELSE step[m][g[m - 1]]]
    BY <2>4
  <2>. HIDE DEF g
  <2>6. Unrolls(g, n + 1, a, step)
    BY <2>5 DEF Unrolls
  <2>7. n + 1 \in Nat
    OBVIOUS
  <2>. QED
    BY <2>3, <2>6, <2>7
<1>. HIDE DEF P
<1>3. 0..N \subseteq P
  BY <1>1, <1>2, InductionUpTo
<1>4. N \in P
  BY <1>3
<1>. QED
  BY <1>4 DEF P

\* There is only one.
LEMMA RecursionUnique ==
    ASSUME NEW N \in Nat, NEW a, NEW step, NEW f, NEW g, Unrolls(f, N, a, step), Unrolls(g, N, a, step)
    PROVE  f = g
<1>. DEFINE P == {n \in Nat : n \in 0..N => f[n] = g[n]}
<1>1. \A n \in 0..N : f[n] = (IF n = 0 THEN a ELSE step[n][f[n - 1]]) /\ g[n] = (IF n = 0 THEN a ELSE step[n][g[n - 1]])
  BY DEF Unrolls
<1>2. 0 \in P
  BY <1>1
<1>3. ASSUME NEW n \in Nat, n \in P PROVE n + 1 \in P
  <2>. SUFFICES ASSUME n + 1 \in 0..N PROVE f[n + 1] = g[n + 1]
    OBVIOUS
  <2>1. n \in 0..N /\ n + 1 # 0 /\ (n + 1) - 1 = n
    OBVIOUS
  <2>2. f[n] = g[n]
    BY <1>3, <2>1
  <2>3. f[n + 1] = step[n + 1][f[n]] /\ g[n + 1] = step[n + 1][g[n]]
    BY <1>1, <2>1
  <2>. QED
    BY <2>2, <2>3
<1>. HIDE DEF P
<1>4. Nat \subseteq P
  BY <1>2, <1>3, Induction
<1>5. \A n \in 0..N : f[n] = g[n]
  BY <1>4 DEF P
<1>6. f = [n \in 0..N |-> f[n]] /\ g = [n \in 0..N |-> g[n]]
  BY DEF Unrolls
<1>. QED
  BY <1>5, <1>6

\* f begins with a, and goes on by step as long as its values are in S.
GoesOn(f, N, S, a, step) ==
    /\ f = [n \in 0..N |-> f[n]] /\ f[0] = a
    /\ \A n \in 1..N : f[n - 1] \in S => f[n] = step[n][f[n - 1]]

\* Then it does so throughout.
LEMMA RecursionTyped ==
    ASSUME NEW N \in Nat, NEW S, NEW a \in S, NEW step \in [1..N -> [S -> S]], NEW f, GoesOn(f, N, S, a, step)
    PROVE  f \in [0..N -> S] /\ Unrolls(f, N, a, step)
<1>0. /\ f = [n \in 0..N |-> f[n]] /\ f[0] = a
      /\ \A n \in 1..N : f[n - 1] \in S => f[n] = step[n][f[n - 1]]
  BY DEF GoesOn
<1>. DEFINE P == {n \in Nat : f[n] \in S}
<1>1. ASSUME NEW n \in 0..N - 1, n \in P
      PROVE  n + 1 \in P
  <2>1. n + 1 \in 1..N /\ (n + 1) - 1 = n /\ f[n] \in S /\ n + 1 \in Nat
    BY <1>1
  <2>2. f[n + 1] = step[n + 1][f[n]]
    BY <1>0, <2>1
  <2>4. step[n + 1][f[n]] \in S
    BY <2>1
  <2>. QED
    BY <2>1, <2>2, <2>4
<1>2. 0 \in P
  BY <1>0
<1>. HIDE DEF P
<1>3. 0..N \subseteq P
  BY <1>1, <1>2, InductionUpTo
<1>4. \A n \in 0..N : f[n] \in S
  BY <1>3 DEF P
<1>5. \A n \in 0..N : f[n] = IF n = 0 THEN a ELSE step[n][f[n - 1]]
  <2>. SUFFICES ASSUME NEW n \in 0..N, n # 0 PROVE f[n] = step[n][f[n - 1]]
    BY <1>0
  <2>1. n \in 1..N /\ n - 1 \in 0..N
    OBVIOUS
  <2>. QED
    BY <1>0, <2>1, <1>4
<1>6. f = [n \in 0..N |-> IF n = 0 THEN a ELSE step[n][f[n - 1]]]
  BY <1>0, <1>5
<1>. QED
  BY <1>4, <1>6 DEF Unrolls

\* A value of a function by recursion.
LEMMA RecursionStep ==
    ASSUME NEW N \in Nat, NEW a, NEW step, NEW f, Unrolls(f, N, a, step)
    PROVE  f[0] = a /\ \A n \in 1..N : f[n] = step[n][f[n - 1]]
<1>1. \A n \in 0..N : f[n] = IF n = 0 THEN a ELSE step[n][f[n - 1]]
  BY DEF Unrolls
<1>2. f[0] = a
  <2>1. 0 \in 0..N
    OBVIOUS
  <2>. QED
    BY <1>1, <2>1, Zenon
<1>3. ASSUME NEW n \in 1..N PROVE f[n] = step[n][f[n - 1]]
  <2>1. n \in 0..N /\ n # 0
    OBVIOUS
  <2>. QED
    BY <1>1, <2>1, Zenon
<1>. QED
  BY <1>2, <1>3

\* The value of a function that goes one step further than another.
LEMMA RecursionExtends ==
    ASSUME NEW N \in Nat, NEW a, NEW S, NEW f \in [0..N -> S], NEW g, NEW stepF, NEW stepG,
           Unrolls(f, N, a, stepF), Unrolls(g, N + 1, a, stepG),
           \A n \in 1..N, x \in S : stepF[n][x] = stepG[n][x]
    PROVE  f[N] \in S /\ g[N + 1] = stepG[N + 1][f[N]]
<1>. DEFINE P == {n \in Nat : f[n] = g[n]}
<1>1. /\ f[0] = a /\ \A n \in 1..N : f[n] = stepF[n][f[n - 1]]
      /\ g[0] = a /\ \A n \in 1..N + 1 : g[n] = stepG[n][g[n - 1]]
  BY RecursionStep
<1>2. ASSUME NEW n \in 0..N - 1, n \in P
      PROVE  n + 1 \in P
  <2>1. /\ n + 1 \in 1..N /\ n + 1 \in 1..N + 1
        /\ (n + 1) - 1 = n /\ n \in 0..N /\ n + 1 \in Nat
    OBVIOUS
  <2>2. f[n + 1] = stepF[n + 1][f[n]] /\ g[n + 1] = stepG[n + 1][g[n]]
    BY <1>1, <2>1
  <2>3. f[n] \in S /\ f[n] = g[n]
    BY <2>1, <1>2
  <2>. QED
    BY <2>1, <2>2, <2>3
<1>3. 0 \in P
  BY <1>1
<1>. HIDE DEF P
<1>4. 0..N \subseteq P
  BY <1>2, <1>3, InductionUpTo
<1>5. N \in P
  BY <1>4
<1>6. f[N] = g[N] /\ f[N] \in S /\ N + 1 \in 1..N + 1 /\ (N + 1) - 1 = N
  BY <1>5 DEF P
<1>. QED
  BY <1>1, <1>6

\* What the equation of a function by recursion says, value by value, h being its
\* right-hand side behind 0.
LEMMA RecursionValues ==
    ASSUME NEW N \in Nat, NEW a, NEW h, NEW f, f = [n \in 0..N |-> IF n = 0 THEN a ELSE h[n]]
    PROVE  f = [n \in 0..N |-> f[n]] /\ f[0] = a /\ \A n \in 1..N : f[n] = h[n]
OBVIOUS

-----------------------------------------------------------------------------
(* What holds of the empty sequence and of each longer one holds of all.     *)

LEMMA SequenceInduction ==
    ASSUME NEW T, NEW P, <<>> \in P, \A w \in Seq(T), x \in T : w \in P => Append(w, x) \in P
    PROVE  Seq(T) \subseteq P
<1>. DEFINE Q == {n \in Nat : \A w \in Seq(T) : Len(w) = n => w \in P}
<1>1. 0 \in Q
  <2>1. \A w \in Seq(T) : Len(w) = 0 => w = <<>>
    OBVIOUS
  <2>. QED
    BY <2>1
<1>2. ASSUME NEW n \in Nat, n \in Q PROVE n + 1 \in Q
  <2>1. ASSUME NEW w \in Seq(T), Len(w) = n + 1 PROVE w \in P
    <3>. DEFINE v == SubSeq(w, 1, n)
    <3>1. v \in Seq(T) /\ Len(v) = n /\ w[n + 1] \in T
      BY <2>1
    <3>2. Append(v, w[n + 1]) = w
      BY <2>1
    <3>3. v \in P
      BY <1>2, <3>1
    <3>. HIDE DEF v
    <3>. QED
      BY <3>1, <3>2, <3>3
  <2>. QED
    BY <2>1
<1>. HIDE DEF Q
<1>3. Nat \subseteq Q
  BY <1>1, <1>2, Induction
<1>. SUFFICES ASSUME NEW w \in Seq(T) PROVE w \in P
  OBVIOUS
<1>4. Len(w) \in Nat
  OBVIOUS
<1>. QED
  BY <1>3, <1>4 DEF Q

-----------------------------------------------------------------------------
(* The same over a set whose elements have ranks, such as the conditions of a  *)
(* program, which are made of conditions with fewer operators.                 *)

\* What holds of an element when it holds of all of lower rank holds of all.
LEMMA RankInduction ==
    ASSUME NEW D, NEW rank \in [D -> Nat], NEW P,
           \A d \in D : (\A e \in D : rank[e] < rank[d] => e \in P) => d \in P
    PROVE  D \subseteq P
<1>. SUFFICES ASSUME D \ P # {} PROVE FALSE
  OBVIOUS
<1>. DEFINE R == {rank[d] : d \in D \ P}
<1>1. R \in SUBSET Nat /\ R # {}
  OBVIOUS
<1>. HIDE DEF R
<1>2. PICK i \in R : IsFirst(R, i)
  BY <1>1, SomeFirst
<1>3. PICK d \in D \ P : rank[d] = i
  BY DEF R
<1>4. \A e \in D : rank[e] < rank[d] => e \in P
  <2>. SUFFICES ASSUME NEW e \in D, rank[e] < rank[d], e \notin P PROVE FALSE
    OBVIOUS
  <2>1. rank[e] \in R
    BY DEF R
  <2>2. i <= rank[e]
    BY <1>2, <2>1 DEF IsFirst
  <2>. QED
    BY <1>3, <2>2
<1>. QED
  BY <1>3, <1>4

\* The values of g below a rank are those of step.
Determined(D, rank, step, g, n) == \A d \in D : rank[d] < n => g[d] = step[d][g]

\* step, at an element, only looks at elements of lower rank.
LooksBelow(D, S, rank, step) ==
    /\ rank \in [D -> Nat] /\ step \in [D -> [[D -> S] -> S]]
    /\ \A d \in D : \A g, h \in [D -> S] :
        (\A e \in D : rank[e] < rank[d] => g[e] = h[e]) => step[d][g] = step[d][h]

LEMMA DeterminedIsUnique ==
    ASSUME NEW D, NEW S, NEW rank, NEW step, LooksBelow(D, S, rank, step), NEW m \in Nat, NEW n \in Nat, m <= n,
           NEW g \in [D -> S], NEW h \in [D -> S],
           Determined(D, rank, step, g, m), Determined(D, rank, step, h, n)
    PROVE  \A d \in D : rank[d] < m => g[d] = h[d]
<1>. USE DEF LooksBelow
<1>. DEFINE P == {d \in D : rank[d] < m => g[d] = h[d]}
<1>1. ASSUME NEW d \in D, \A e \in D : rank[e] < rank[d] => e \in P
      PROVE  d \in P
  <2>. SUFFICES ASSUME rank[d] < m PROVE g[d] = h[d]
    OBVIOUS
  <2>1. \A e \in D : rank[e] < rank[d] => g[e] = h[e]
    BY <1>1
  <2>2. step[d][g] = step[d][h]
    BY <2>1 DEF LooksBelow
  <2>3. rank[d] < n
    OBVIOUS
  <2>. QED
    BY <2>2, <2>3 DEF Determined
<1>. HIDE DEF P
<1>2. D \subseteq P
  BY <1>1, RankInduction DEF LooksBelow
<1>. QED
  BY <1>2 DEF P

LEMMA DeterminedExists ==
    ASSUME NEW D, NEW S, S # {}, NEW rank, NEW step, LooksBelow(D, S, rank, step)
    PROVE  \A n \in Nat : \E g \in [D -> S] : Determined(D, rank, step, g, n)
<1>. USE DEF LooksBelow
<1>. DEFINE P == {n \in Nat : \E g \in [D -> S] : Determined(D, rank, step, g, n)}
<1>1. 0 \in P
  <2>1. PICK a \in S : TRUE
    OBVIOUS
  <2>2. [d \in D |-> a] \in [D -> S] /\ Determined(D, rank, step, [d \in D |-> a], 0)
    BY DEF Determined
  <2>. QED
    BY <2>2
<1>2. ASSUME NEW n \in Nat, n \in P PROVE n + 1 \in P
  <2>1. PICK g \in [D -> S] : Determined(D, rank, step, g, n)
    BY <1>2
  <2>. DEFINE h == [d \in D |-> step[d][g]]
  <2>2. h \in [D -> S] /\ \A d \in D : h[d] = step[d][g]
    OBVIOUS
  <2>. HIDE DEF h
  <2>3. ASSUME NEW d \in D, rank[d] < n + 1 PROVE h[d] = step[d][h]
    <3>1. \A e \in D : rank[e] < rank[d] => rank[e] < n
      BY <2>3
    <3>2. \A e \in D : rank[e] < rank[d] => g[e] = h[e]
      BY <2>1, <2>2, <3>1 DEF Determined
    <3>3. step[d][g] = step[d][h]
      BY <2>2, <3>2 DEF LooksBelow
    <3>. QED
      BY <2>2, <3>3
  <2>4. Determined(D, rank, step, h, n + 1) /\ n + 1 \in Nat
    BY <2>3 DEF Determined
  <2>. QED
    BY <2>2, <2>4
<1>. HIDE DEF P
<1>3. Nat \subseteq P
  BY <1>1, <1>2, Induction
<1>. QED
  BY <1>3 DEF P

\* There is a function whose values are those of step.
LEMMA RankRecursion ==
    ASSUME NEW D, NEW S, S # {}, NEW rank, NEW step, LooksBelow(D, S, rank, step)
    PROVE  \E g \in [D -> S] : g = [d \in D |-> step[d][g]]
<1>0. ASSUME NEW i \in Nat, NEW j \in Nat, i <= j, NEW g \in [D -> S], NEW h \in [D -> S],
             Determined(D, rank, step, g, i), Determined(D, rank, step, h, j)
      PROVE  \A d \in D : rank[d] < i => g[d] = h[d]
  BY <1>0, DeterminedIsUnique
<1>. USE DEF LooksBelow
<1>1. \A n \in Nat : \E g \in [D -> S] : Determined(D, rank, step, g, n)
  BY DeterminedExists
<1>. DEFINE upTo == [n \in Nat |-> CHOOSE g \in [D -> S] : Determined(D, rank, step, g, n)]
<1>2. \A n \in Nat : upTo[n] \in [D -> S] /\ Determined(D, rank, step, upTo[n], n)
  BY <1>1
<1>. HIDE DEF upTo
<1>. DEFINE g == [d \in D |-> upTo[rank[d] + 1][d]]
<1>3. g \in [D -> S] /\ \A d \in D : g[d] = upTo[rank[d] + 1][d]
  BY <1>2
<1>. HIDE DEF g
<1>4. ASSUME NEW d \in D PROVE g[d] = step[d][g]
  <2>. DEFINE n == rank[d] + 1
  <2>1. n \in Nat /\ rank[d] < n /\ upTo[n] \in [D -> S] /\ Determined(D, rank, step, upTo[n], n)
    BY <1>2
  <2>2. ASSUME NEW e \in D, rank[e] < rank[d] PROVE upTo[n][e] = g[e]
    <3>. DEFINE m == rank[e] + 1
    <3>1. /\ m \in Nat /\ m <= n /\ rank[e] < m
          /\ upTo[m] \in [D -> S] /\ Determined(D, rank, step, upTo[m], m)
      BY <1>2, <2>2
    <3>2. g[e] = upTo[m][e]
      BY <1>3
    <3>. HIDE DEF m, n
    <3>3. \A c \in D : rank[c] < m => upTo[m][c] = upTo[n][c]
      BY <1>0, <2>1, <3>1
    <3>4. upTo[m][e] = upTo[n][e]
      BY <3>1, <3>3
    <3>. QED
      BY <3>2, <3>4
  <2>3. g[d] = upTo[n][d]
    BY <1>3
  <2>. HIDE DEF n
  <2>4. step[d][upTo[n]] = step[d][g]
    BY <1>3, <2>1, <2>2 DEF LooksBelow
  <2>5. upTo[n][d] = step[d][upTo[n]]
    BY <2>1 DEF Determined
  <2>. QED
    BY <2>3, <2>4, <2>5
<1>5. g = [d \in D |-> step[d][g]]
  BY <1>3, <1>4
<1>. QED
  BY <1>3, <1>5
=============================================================================
