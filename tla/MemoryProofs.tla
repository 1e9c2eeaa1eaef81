---------------------------- MODULE MemoryProofs ----------------------------
(***************************************************************************)
(* Lemmas about expressions, their values, canonical paths and conditions: *)
(* when what a scope knows is true of a memory, and what keeps it so.      *)
(***************************************************************************)
EXTENDS Memory, Recursion

-----------------------------------------------------------------------------
(* Values: reading an expression from left to right.                       *)

\* What reading from v in m can come across.
Seen(v, m) == {v, Nil} \cup {m.heap[o][s] : o \in Objects, s \in Slots}

DerefStep(v, w, m) == [n \in 1..Len(w) |-> [x \in Seen(v, m) |-> Deref(x, w[n], m)]]

LEMMA DerefStepTyped ==
    ASSUME NEW v, NEW w \in Seq(Slots), NEW m
    PROVE  /\ Len(w) \in Nat /\ v \in Seen(v, m)
           /\ DerefStep(v, w, m) \in [1..Len(w) -> [Seen(v, m) -> Seen(v, m)]]
           /\ \A n \in 1..Len(w), x \in Seen(v, m) :
                 DerefStep(v, w, m)[n][x] = Deref(x, w[n], m)
           /\ \A n \in 0..Len(w) : n = 0 \/ n \in 1..Len(w)
           /\ \A n \in 1..Len(w) : n - 1 \in 0..Len(w)
<1>1. ASSUME NEW n \in 1..Len(w), NEW x \in Seen(v, m) PROVE Deref(x, w[n], m) \in Seen(v, m)
  <2>1. w[n] \in Slots
    OBVIOUS
  <2>. QED
    BY <2>1 DEF Seen, Deref
<1>2. v \in Seen(v, m)
  BY DEF Seen
<1>. QED
  BY <1>1, <1>2 DEF DerefStep

LEMMA EvalFromUnrolls ==
    ASSUME NEW v, NEW w \in Seq(Slots), NEW m
    PROVE  \E f \in [0..Len(w) -> Seen(v, m)] :
              Unrolls(f, Len(w), v, DerefStep(v, w, m)) /\ EvalFrom(v, w, m) = f[Len(w)]
<1>. DEFINE Is(f) == f = [n \in 0..Len(w) |-> IF n = 0 THEN v ELSE Deref(f[n - 1], w[n], m)]
            g == CHOOSE f : Is(f)
<1>1. EvalFrom(v, w, m) = g[Len(w)]
  BY DEF EvalFrom
<1>2. \E f : Is(f)
  <2>. HIDE DEF g
  <2>1. PICK f \in [0..Len(w) -> Seen(v, m)] : Unrolls(f, Len(w), v, DerefStep(v, w, m))
    BY DerefStepTyped, RecursionExists
  <2>2. ASSUME NEW n \in 1..Len(w) PROVE DerefStep(v, w, m)[n][f[n - 1]] = Deref(f[n - 1], w[n], m)
    <3>1. n - 1 \in 0..Len(w)
      BY DerefStepTyped
    <3>2. f[n - 1] \in Seen(v, m)
      BY <3>1
    <3>. QED
      BY <3>2, DerefStepTyped
  <2>3. f = [n \in 0..Len(w) |-> IF n = 0 THEN v ELSE DerefStep(v, w, m)[n][f[n - 1]]]
    BY <2>1 DEF Unrolls
  <2>4. \A n \in 0..Len(w) : (IF n = 0 THEN v ELSE DerefStep(v, w, m)[n][f[n - 1]])
                               = IF n = 0 THEN v ELSE Deref(f[n - 1], w[n], m)
    <3>1. \A n \in 0..Len(w) : n = 0 \/ n \in 1..Len(w)
      BY DerefStepTyped
    <3>. QED
      BY <2>2, <3>1, Zenon
  <2>5. Is(f)
    BY <2>3, <2>4
  <2>. QED
    BY <2>5
<1>3. Is(g)
  BY <1>2
<1>4. g \in [0..Len(w) -> Seen(v, m)] /\ Unrolls(g, Len(w), v, DerefStep(v, w, m))
  <2>. DEFINE h == [n \in 1..Len(w) |-> Deref(g[n - 1], w[n], m)]
  <2>. HIDE DEF g
  <2>1. g = [n \in 0..Len(w) |-> IF n = 0 THEN v ELSE h[n]]
    <3>1. \A n \in 0..Len(w) : n = 0 \/ n \in 1..Len(w)
      BY DerefStepTyped
    <3>2. \A n \in 1..Len(w) : Deref(g[n - 1], w[n], m) = h[n]
      OBVIOUS
    <3>. HIDE DEF h
    <3>3. \A n \in 0..Len(w) : (IF n = 0 THEN v ELSE Deref(g[n - 1], w[n], m))
                                 = IF n = 0 THEN v ELSE h[n]
      BY <3>1, <3>2, Zenon
    <3>. QED
      BY <1>3, <3>3, Zenon
  <2>2. g = [n \in 0..Len(w) |-> g[n]] /\ g[0] = v /\ \A n \in 1..Len(w) : g[n] = h[n]
    <3>. HIDE DEF h
    <3>. QED
      BY <2>1, DerefStepTyped, RecursionValues
  <2>3. \A n \in 1..Len(w) : g[n - 1] \in Seen(v, m) => g[n] = DerefStep(v, w, m)[n][g[n - 1]]
    <3>1. \A n \in 1..Len(w), x \in Seen(v, m) : DerefStep(v, w, m)[n][x] = Deref(x, w[n], m)
      BY DerefStepTyped
    <3>2. \A n \in 1..Len(w) : h[n] = Deref(g[n - 1], w[n], m)
      OBVIOUS
    <3>. HIDE DEF h
    <3>. QED
      BY <2>2, <3>1, <3>2
  <2>. QED
    <3>1. GoesOn(g, Len(w), Seen(v, m), v, DerefStep(v, w, m))
      BY <2>2, <2>3 DEF GoesOn
    <3>. QED
      BY <3>1, DerefStepTyped, RecursionTyped
<1>. QED
  BY <1>1, <1>4

LEMMA EvalFromEmpty ==
    ASSUME NEW v, NEW m
    PROVE  EvalFrom(v, <<>>, m) = v
<1>1. PICK f \in [0..Len(<<>>) -> Seen(v, m)] :
          Unrolls(f, Len(<<>>), v, DerefStep(v, <<>>, m)) /\ EvalFrom(v, <<>>, m) = f[Len(<<>>)]
  <2>1. <<>> \in Seq(Slots)
    OBVIOUS
  <2>. QED
    BY <2>1, EvalFromUnrolls
<1>2. Len(<<>>) = 0
  OBVIOUS
<1>3. f[0] = v
  BY <1>1, <1>2, RecursionStep
<1>. QED
  BY <1>1, <1>2, <1>3

LEMMA EvalFromAppend ==
    ASSUME NEW v, NEW w \in Seq(Slots), NEW s \in Slots, NEW m
    PROVE  EvalFrom(v, Append(w, s), m) = Deref(EvalFrom(v, w, m), s, m)
<1>. DEFINE u == Append(w, s)  N == Len(w)  S == Seen(v, m)
<1>1. /\ u \in Seq(Slots) /\ N \in Nat /\ Len(u) = N + 1 /\ u[N + 1] = s /\ N + 1 \in 1..N + 1
      /\ \A n \in 1..N : n \in 1..N + 1 /\ u[n] = w[n]
  OBVIOUS
<1>. HIDE DEF u, S
<1>2. PICK f \in [0..N -> S] : Unrolls(f, N, v, DerefStep(v, w, m)) /\ EvalFrom(v, w, m) = f[N]
  BY EvalFromUnrolls DEF S
<1>3. PICK g \in [0..N + 1 -> S] : Unrolls(g, N + 1, v, DerefStep(v, u, m)) /\ EvalFrom(v, u, m) = g[N + 1]
  BY <1>1, EvalFromUnrolls DEF S
<1>4. /\ \A n \in 1..N, x \in S : DerefStep(v, w, m)[n][x] = Deref(x, w[n], m)
      /\ \A n \in 1..N + 1, x \in S : DerefStep(v, u, m)[n][x] = Deref(x, u[n], m)
  <2>1. \A y \in Seq(Slots) : \A n \in 1..Len(y), x \in S : DerefStep(v, y, m)[n][x] = Deref(x, y[n], m)
    BY DerefStepTyped DEF S
  <2>. QED
    BY <1>1, <2>1
<1>5. \A n \in 1..N, x \in S : DerefStep(v, w, m)[n][x] = DerefStep(v, u, m)[n][x]
  BY <1>1, <1>4
<1>. HIDE DEF N
<1>6. f[N] \in S /\ g[N + 1] = DerefStep(v, u, m)[N + 1][f[N]]
  BY <1>1, <1>2, <1>3, <1>5, RecursionExtends
<1>. QED
  BY <1>1, <1>2, <1>3, <1>4, <1>6 DEF u

LEMMA EvalFromConcat ==
    ASSUME NEW v, NEW w \in Seq(Slots), NEW u \in Seq(Slots), NEW m
    PROVE  EvalFrom(v, w \o u, m) = EvalFrom(EvalFrom(v, w, m), u, m)
<1>. DEFINE P == {x \in Seq(Slots) : EvalFrom(v, w \o x, m) = EvalFrom(EvalFrom(v, w, m), x, m)}
<1>1. <<>> \in P
  <2>1. w \o <<>> = w /\ <<>> \in Seq(Slots)
    OBVIOUS
  <2>. QED
    BY <2>1, EvalFromEmpty
<1>2. ASSUME NEW x \in Seq(Slots), NEW s \in Slots, x \in P PROVE Append(x, s) \in P
  <2>1. w \o Append(x, s) = Append(w \o x, s) /\ w \o x \in Seq(Slots) /\ Append(x, s) \in Seq(Slots)
    OBVIOUS
  <2>2. EvalFrom(v, w \o Append(x, s), m) = Deref(EvalFrom(v, w \o x, m), s, m)
    <3>1. EvalFrom(v, Append(w \o x, s), m) = Deref(EvalFrom(v, w \o x, m), s, m)
      BY <2>1, EvalFromAppend
    <3>. QED
      BY <2>1, <3>1
  <2>3. EvalFrom(EvalFrom(v, w, m), Append(x, s), m) = Deref(EvalFrom(EvalFrom(v, w, m), x, m), s, m)
    BY EvalFromAppend
  <2>. QED
    BY <1>2, <2>1, <2>2, <2>3
<1>. HIDE DEF P
<1>3. Seq(Slots) \subseteq P
  BY <1>1, <1>2, SequenceInduction
<1>. QED
  BY <1>3 DEF P

-----------------------------------------------------------------------------
(* Values in two memories.                                                 *)

\* Reading w from v in m comes across no slot that n has changed.
Untouched(v, w, m, n) ==
    \A i \in 1..Len(w) :
        EvalFrom(v, SubSeq(w, 1, i - 1), m) \in Objects =>
            n.heap[EvalFrom(v, SubSeq(w, 1, i - 1), m)][w[i]]
              = m.heap[EvalFrom(v, SubSeq(w, 1, i - 1), m)][w[i]]

LEMMA PrefixOfAppend ==
    ASSUME NEW T, NEW w \in Seq(T), NEW x \in T
    PROVE  /\ Append(w, x) \in Seq(T) /\ Len(Append(w, x)) = Len(w) + 1 /\ Len(w) \in Nat
           /\ Append(w, x)[Len(w) + 1] = x
           /\ \A i \in 1..Len(w) : /\ Append(w, x)[i] = w[i]
                                  /\ SubSeq(Append(w, x), 1, i - 1) = SubSeq(w, 1, i - 1)
           /\ SubSeq(Append(w, x), 1, Len(w)) = w
<1>1. ASSUME NEW i \in 1..Len(w) PROVE SubSeq(Append(w, x), 1, i - 1) = SubSeq(w, 1, i - 1)
  OBVIOUS
<1>2. SubSeq(Append(w, x), 1, Len(w)) = w
  OBVIOUS
<1>. QED
  BY <1>1, <1>2

LEMMA EvalUntouched ==
    ASSUME NEW v, NEW w \in Seq(Slots), NEW m, NEW n, Untouched(v, w, m, n)
    PROVE  EvalFrom(v, w, n) = EvalFrom(v, w, m)
<1>. DEFINE P == {x \in Seq(Slots) : Untouched(v, x, m, n) => EvalFrom(v, x, n) = EvalFrom(v, x, m)}
<1>1. <<>> \in P
  BY EvalFromEmpty
<1>2. ASSUME NEW x \in Seq(Slots), NEW s \in Slots, x \in P PROVE Append(x, s) \in P
  <2>. DEFINE y == Append(x, s)
  <2>1. /\ y \in Seq(Slots) /\ Len(y) = Len(x) + 1 /\ Len(x) \in Nat /\ y[Len(x) + 1] = s
        /\ \A i \in 1..Len(x) : y[i] = x[i] /\ SubSeq(y, 1, i - 1) = SubSeq(x, 1, i - 1)
        /\ SubSeq(y, 1, Len(x)) = x
    BY PrefixOfAppend
  <2>2. EvalFrom(v, y, n) = Deref(EvalFrom(v, x, n), s, n) /\ EvalFrom(v, y, m) = Deref(EvalFrom(v, x, m), s, m)
    BY EvalFromAppend
  <2>. HIDE DEF y
  <2>. SUFFICES ASSUME Untouched(v, y, m, n) PROVE EvalFrom(v, y, n) = EvalFrom(v, y, m)
    BY <2>1 DEF y
  <2>3. Untouched(v, x, m, n)
    <3>. SUFFICES ASSUME NEW i \in 1..Len(x), EvalFrom(v, SubSeq(x, 1, i - 1), m) \in Objects
                  PROVE  n.heap[EvalFrom(v, SubSeq(x, 1, i - 1), m)][x[i]]
                           = m.heap[EvalFrom(v, SubSeq(x, 1, i - 1), m)][x[i]]
      BY DEF Untouched
    <3>1. i \in 1..Len(y) /\ y[i] = x[i] /\ SubSeq(y, 1, i - 1) = SubSeq(x, 1, i - 1)
      BY <2>1
    <3>2. EvalFrom(v, SubSeq(y, 1, i - 1), m) \in Objects
      BY <3>1, Zenon
    <3>3. n.heap[EvalFrom(v, SubSeq(y, 1, i - 1), m)][y[i]] = m.heap[EvalFrom(v, SubSeq(y, 1, i - 1), m)][y[i]]
      BY <3>1, <3>2, Zenon DEF Untouched
    <3>. QED
      BY <3>1, <3>3, Zenon
  <2>4. EvalFrom(v, x, n) = EvalFrom(v, x, m)
    BY <1>2, <2>3
  <2>5. EvalFrom(v, x, m) \in Objects => n.heap[EvalFrom(v, x, m)][s] = m.heap[EvalFrom(v, x, m)][s]
    <3>1. Len(x) + 1 \in 1..Len(y) /\ (Len(x) + 1) - 1 = Len(x)
      BY <2>1
    <3>. QED
      BY <2>1, <3>1 DEF Untouched
  <2>. QED
    BY <2>2, <2>4, <2>5 DEF Deref
<1>. HIDE DEF P
<1>3. Seq(Slots) \subseteq P
  BY <1>1, <1>2, SequenceInduction
<1>. QED
  BY <1>3 DEF P

-----------------------------------------------------------------------------
(* Reachable objects, and memories that agree on them.                     *)

Closed(K, m) == \A o \in K, s \in Slots : m.heap[o][s] \in Objects => m.heap[o][s] \in K

Kept(m) == Reachable(m.env, m.heap)

LEMMA KeptIsClosed ==
    ASSUME NEW m
    PROVE  /\ Kept(m) \in SUBSET Objects /\ Closed(Kept(m), m)
           /\ \A l \in Locals : m.env[l] \in Objects => m.env[l] \in Kept(m)
<1>. DEFINE closed == {kept \in SUBSET Objects :
                         /\ {m.env[l] : l \in Locals} \cap Objects \subseteq kept
                         /\ \A o \in kept, s \in Slots : m.heap[o][s] \in Objects => m.heap[o][s] \in kept}
<1>1. Kept(m) = {o \in Objects : \A kept \in closed : o \in kept}
  BY DEF Kept, Reachable
<1>2. \A kept \in closed : /\ \A l \in Locals : m.env[l] \in Objects => m.env[l] \in kept
                           /\ \A o \in kept, s \in Slots : m.heap[o][s] \in Objects => m.heap[o][s] \in kept
  OBVIOUS
<1>. HIDE DEF closed
<1>3. \A l \in Locals : m.env[l] \in Objects => m.env[l] \in Kept(m)
  BY <1>1, <1>2
<1>4. ASSUME NEW o \in Kept(m), NEW s \in Slots, m.heap[o][s] \in Objects PROVE m.heap[o][s] \in Kept(m)
  <2>1. \A kept \in closed : m.heap[o][s] \in kept
    BY <1>1, <1>2, <1>4
  <2>. QED
    BY <1>1, <1>4, <2>1
<1>. QED
  BY <1>1, <1>3, <1>4 DEF Closed

LEMMA EvalStays ==
    ASSUME NEW K \in SUBSET Objects, NEW m, Closed(K, m), NEW v, v \in Objects => v \in K,
           NEW w \in Seq(Slots)
    PROVE  EvalFrom(v, w, m) \in Objects => EvalFrom(v, w, m) \in K
<1>. DEFINE P == {x \in Seq(Slots) : EvalFrom(v, x, m) \in Objects => EvalFrom(v, x, m) \in K}
<1>1. <<>> \in P
  BY EvalFromEmpty
<1>2. ASSUME NEW x \in Seq(Slots), NEW s \in Slots, x \in P PROVE Append(x, s) \in P
  <2>1. EvalFrom(v, Append(x, s), m) = Deref(EvalFrom(v, x, m), s, m)
    BY EvalFromAppend
  <2>2. Nil \notin Objects /\ Append(x, s) \in Seq(Slots)
    BY MemoryAssumption
  <2>. QED
    BY <1>2, <2>1, <2>2 DEF Deref, Closed
<1>. HIDE DEF P
<1>3. Seq(Slots) \subseteq P
  BY <1>1, <1>2, SequenceInduction
<1>. QED
  BY <1>3 DEF P

\* n has the locals of m, and the objects they lead to are as in m.
Agrees(m, n) == n.env = m.env /\ \A o \in Kept(m) : n.heap[o] = m.heap[o]

LEMMA EvalAgrees ==
    ASSUME NEW m, NEW n, Agrees(m, n), NEW v, v \in Objects => v \in Kept(m), NEW w \in Seq(Slots)
    PROVE  EvalFrom(v, w, n) = EvalFrom(v, w, m)
<1>1. ASSUME NEW i \in 1..Len(w)
      PROVE  EvalFrom(v, SubSeq(w, 1, i - 1), m) \in Objects => EvalFrom(v, SubSeq(w, 1, i - 1), m) \in Kept(m)
  <2>1. SubSeq(w, 1, i - 1) \in Seq(Slots)
    OBVIOUS
  <2>. QED
    BY <2>1, KeptIsClosed, EvalStays
<1>2. Untouched(v, w, m, n)
  BY <1>1 DEF Untouched, Agrees
<1>. QED
  BY <1>2, EvalUntouched

Envs  == [Locals -> Value]
Heaps == [Objects -> [Slots -> Objects \cup {Nil}]]

\* Memories with other parts.
LEMMA WithHeap ==
    ASSUME NEW m \in MemoryType, NEW h \in Heaps, NEW n, n = [m EXCEPT !.heap = h]
    PROVE  n \in MemoryType /\ n.env = m.env /\ n.heap = h /\ n.origin = m.origin
<1>. DEFINE X == Envs  Y == Heaps  Z == SUBSET Locals
<1>1. MemoryType = [env : X, heap : Y, origin : Z]
  BY DEF MemoryType, Envs, Heaps
<1>. HIDE DEF X, Y, Z
<1>2. m \in [env : X, heap : Y, origin : Z]
  BY <1>1
<1>. QED
  BY <1>1, <1>2 DEF X, Y, Z

LEMMA WithOrigin ==
    ASSUME NEW m \in MemoryType, NEW q, q \subseteq Locals, NEW n, n = [m EXCEPT !.origin = q]
    PROVE  n \in MemoryType /\ n.env = m.env /\ n.heap = m.heap /\ n.origin = q
<1>. DEFINE X == Envs  Y == Heaps  Z == SUBSET Locals
<1>1. MemoryType = [env : X, heap : Y, origin : Z]
  BY DEF MemoryType, Envs, Heaps
<1>. HIDE DEF X, Y, Z
<1>2. m \in [env : X, heap : Y, origin : Z]
  BY <1>1
<1>. QED
  BY <1>1, <1>2 DEF X, Y, Z

LEMMA WithLocals ==
    ASSUME NEW m \in MemoryType, NEW e \in Envs, NEW n, n = [m EXCEPT !.env = e]
    PROVE  n \in MemoryType /\ n.env = e /\ n.heap = m.heap /\ n.origin = m.origin
<1>. DEFINE X == Envs  Y == Heaps  Z == SUBSET Locals
<1>1. MemoryType = [env : X, heap : Y, origin : Z]
  BY DEF MemoryType, Envs, Heaps
<1>. HIDE DEF X, Y, Z
<1>2. m \in [env : X, heap : Y, origin : Z]
  BY <1>1
<1>. QED
  BY <1>1, <1>2 DEF X, Y, Z

LEMMA CollectAgrees ==
    ASSUME NEW m \in MemoryType
    PROVE  Collect(m) \in MemoryType /\ Agrees(m, Collect(m))
<1>. DEFINE h == [o \in Objects |-> IF o \in Kept(m) THEN m.heap[o] ELSE Blank]
            q == {l \in m.origin : m.env[l] \in {Nil, TypedNil}}
<1>1. Collect(m) = [[m EXCEPT !.heap = h] EXCEPT !.origin = q]
  BY DEF Collect, Kept
<1>2. h \in Heaps
  BY DEF Blank, MemoryType, Heaps
<1>5. q \subseteq Locals
  BY DEF MemoryType
<1>3. \A o \in Kept(m) : h[o] = m.heap[o]
  BY KeptIsClosed
<1>. HIDE DEF h, q
<1>4. Collect(m) \in MemoryType /\ Collect(m).env = m.env /\ Collect(m).heap = h
  <2>. DEFINE n == [m EXCEPT !.heap = h]
  <2>1. n \in MemoryType /\ n.env = m.env /\ n.heap = h
    BY <1>2, WithHeap
  <2>2. Collect(m) = [n EXCEPT !.origin = q]
    BY <1>1
  <2>. HIDE DEF n
  <2>. QED
    BY <1>5, <2>1, <2>2, WithOrigin
<1>. QED
  BY <1>3, <1>4 DEF Agrees

\* What is read through a selector is an object or nil.
LEMMA SelectedValue ==
    ASSUME NEW m \in MemoryType, NEW v, NEW w \in Seq(Slots), w # <<>>
    PROVE  EvalFrom(v, w, m) \in Objects \cup {Nil}
<1>. DEFINE u == SubSeq(w, 1, Len(w) - 1)
<1>1. u \in Seq(Slots) /\ w[Len(w)] \in Slots /\ w = Append(u, w[Len(w)])
  OBVIOUS
<1>. HIDE DEF u
<1>2. EvalFrom(v, Append(u, w[Len(w)]), m) = Deref(EvalFrom(v, u, m), w[Len(w)], m)
  BY <1>1, EvalFromAppend
<1>3. EvalFrom(v, w, m) = Deref(EvalFrom(v, u, m), w[Len(w)], m)
  BY <1>1, <1>2, Zenon
<1>. QED
  BY <1>1, <1>3 DEF Deref, MemoryType

-----------------------------------------------------------------------------
(* Expressions and canonical paths.                                        *)

Word == Locals \cup Fields \cup {Star}

LEMMA ConcatFacts ==
    ASSUME NEW T, NEW r \in Seq(T), NEW w \in Seq(T), r # <<>>
    PROVE  /\ r \o w \in Seq(T) /\ r \o w # <<>> /\ (r \o w)[1] = r[1]
           /\ Len(r \o w) = Len(r) + Len(w) /\ Len(r) \in Nat /\ Len(w) \in Nat /\ Len(r) > 0
           /\ SubSeq(r \o w, 1, Len(r)) = r
           /\ SubSeq(r \o w, Len(r) + 1, Len(r \o w)) = w
           /\ \A i \in 1..Len(r) : (r \o w)[i] = r[i]
           /\ \A i \in Len(r) + 1..Len(r) + Len(w) : i - Len(r) \in 1..Len(w) /\ (r \o w)[i] = w[i - Len(r)]
<1>1. r \o w \in Seq(T) /\ Len(r \o w) = Len(r) + Len(w) /\ Len(r) \in Nat /\ Len(w) \in Nat /\ Len(r) > 0
  OBVIOUS
<1>2. SubSeq(r \o w, 1, Len(r)) = r
  OBVIOUS
<1>3. SubSeq(r \o w, Len(r) + 1, Len(r \o w)) = w
  OBVIOUS
<1>4. (r \o w)[1] = r[1] /\ r \o w # <<>>
  OBVIOUS
<1>5. \A i \in Len(r) + 1..Len(r) + Len(w) : i - Len(r) \in 1..Len(w) /\ (r \o w)[i] = w[i - Len(r)]
  OBVIOUS
<1>. QED
  BY <1>1, <1>2, <1>3, <1>4, <1>5

LEMMA SlotsAreWords ==
    Seq(Slots) \subseteq Seq(Word) /\ Slots \subseteq Word /\ Slots \cap Locals = {}
  BY NamesAssumption, MemoryAssumption DEF Word

LEMMA ExprParts ==
    ASSUME NEW e \in Expr
    PROVE  /\ e \in Seq(Word) /\ e # <<>> /\ e[1] \in Locals /\ Len(e) \in Nat /\ Len(e) >= 1
           /\ Tail(e) \in Seq(Slots) /\ Len(Tail(e)) = Len(e) - 1
           /\ e = <<e[1]>> \o Tail(e) /\ <<e[1]>> \in Seq(Word)
           /\ \A i \in 2..Len(e) : Tail(e)[i - 1] = e[i] /\ e[i] \in Slots
<1>1. e \in Seq(Word) /\ e # <<>> /\ e[1] \in Locals /\ \A i \in 2..Len(e) : e[i] \in Slots
  BY DEF Expr, Path, Word
<1>2. Len(e) \in Nat /\ Len(e) >= 1 /\ Tail(e) \in Seq(Word) /\ Len(Tail(e)) = Len(e) - 1
  BY <1>1
<1>3. \A i \in 1..Len(Tail(e)) : Tail(e)[i] = e[i + 1] /\ i + 1 \in 2..Len(e)
  BY <1>1
<1>4. Tail(e) \in Seq(Slots)
  <2>1. \A i \in 1..Len(Tail(e)) : Tail(e)[i] \in Slots
    BY <1>1, <1>2, <1>3
  <2>. DEFINE w == Tail(e)
  <2>2. w \in Seq(Word) /\ \A i \in 1..Len(w) : w[i] \in Slots
    BY <1>2, <2>1
  <2>. HIDE DEF w
  <2>3. w \in Seq(Slots)
    BY <2>2
  <2>. QED
    BY <2>3 DEF w
<1>5. \A i \in 2..Len(e) : Tail(e)[i - 1] = e[i]
  BY <1>1
<1>6. e = <<e[1]>> \o Tail(e)
  BY <1>1
<1>7. <<e[1]>> \in Seq(Word)
  BY <1>1 DEF Word
<1>. QED
  BY <1>1, <1>2, <1>4, <1>5, <1>6, <1>7

LEMMA ExprConcat ==
    ASSUME NEW e \in Expr, NEW w \in Seq(Slots)
    PROVE  e \o w \in Expr /\ (e \o w)[1] = e[1] /\ Tail(e \o w) = Tail(e) \o w
<1>1. /\ e \in Seq(Word) /\ e # <<>> /\ e[1] \in Locals /\ w \in Seq(Word)
      /\ \A i \in 2..Len(e) : e[i] \in Slots
  BY ExprParts, SlotsAreWords
<1>2. /\ e \o w \in Seq(Word) /\ e \o w # <<>> /\ (e \o w)[1] = e[1]
      /\ Len(e \o w) = Len(e) + Len(w) /\ Len(e) \in Nat /\ Len(w) \in Nat /\ Len(e) > 0
      /\ \A i \in 1..Len(e) : (e \o w)[i] = e[i]
      /\ \A i \in Len(e) + 1..Len(e) + Len(w) : i - Len(e) \in 1..Len(w) /\ (e \o w)[i] = w[i - Len(e)]
  BY <1>1, ConcatFacts
<1>3. \A i \in 2..Len(e \o w) : (e \o w)[i] \in Slots
  <2>. SUFFICES ASSUME NEW i \in 2..Len(e \o w) PROVE (e \o w)[i] \in Slots
    OBVIOUS
  <2>1. i \in 1..Len(e) \/ i \in Len(e) + 1..Len(e) + Len(w)
    BY <1>2
  <2>2. CASE i \in 1..Len(e)
    <3>1. i \in 2..Len(e)
      BY <1>2, <2>2
    <3>. QED
      BY <1>1, <1>2, <2>2, <3>1
  <2>3. CASE i \in Len(e) + 1..Len(e) + Len(w)
    <3>1. w[i - Len(e)] \in Slots
      BY <1>2, <2>3
    <3>. QED
      BY <1>2, <2>3, <3>1
  <2>. QED
    BY <2>1, <2>2, <2>3
<1>4. e \o w \in Expr
  BY <1>1, <1>2, <1>3 DEF Expr, Path, Word
<1>5. Tail(e \o w) = Tail(e) \o w
  BY <1>1
<1>. QED
  BY <1>2, <1>4, <1>5

LEMMA LocalIsExpr ==
    ASSUME NEW l \in Locals
    PROVE  <<l>> \in Expr /\ Tail(<<l>>) = <<>> /\ <<l>>[1] = l /\ Len(<<l>>) = 1
  BY DEF Expr, Path

\* The canonical path of a local.
Root(l, s) == IF s.alias[l] = NoPath THEN <<l>> ELSE s.alias[l]

\* What a path adds to that of the local it begins with.
Rest(k, s) == SubSeq(k, Len(Root(k[1], s)) + 1, Len(k))

\* A path with one meaning: it begins with the canonical path of its own root.
Clear(k, s) == k \in Expr /\ Root(k[1], s)[1] = k[1] /\ k = Root(k[1], s) \o Rest(k, s)

Meaning(k, s, m) == EvalFrom(m.env[k[1]], Rest(k, s), m)

AliasesClear(s) == \A l \in Locals : s.alias[l] # NoPath => Clear(s.alias[l], s)

LEMMA RootIsExpr ==
    ASSUME NEW s, AliasesClear(s), NEW l \in Locals
    PROVE  Root(l, s) \in Expr /\ Root(l, s)[1] \in Locals
<1>1. Root(l, s) \in Expr
  BY LocalIsExpr DEF AliasesClear, Clear, Root
<1>. QED
  BY <1>1, ExprParts

\* A path made of a canonical root and selectors.
LEMMA ClearConcat ==
    ASSUME NEW s, AliasesClear(s), NEW l \in Locals, Root(l, s)[1] = l, NEW w \in Seq(Slots)
    PROVE  /\ Clear(Root(l, s) \o w, s) /\ (Root(l, s) \o w)[1] = l
           /\ Rest(Root(l, s) \o w, s) = w
<1>. DEFINE r == Root(l, s)  k == r \o w
<1>1. r \in Expr
  BY RootIsExpr
<1>. HIDE DEF r
<1>2. k \in Expr /\ k[1] = r[1]
  BY <1>1, ExprConcat
<1>3. r \in Seq(Word) /\ r # <<>> /\ w \in Seq(Word)
  BY <1>1, ExprParts, SlotsAreWords
<1>4. SubSeq(k, Len(r) + 1, Len(k)) = w
  BY <1>3, ConcatFacts
<1>. HIDE DEF k
<1>5. k[1] = l /\ Root(k[1], s) = r
  BY <1>2 DEF r
<1>6. Rest(k, s) = w
  BY <1>4, <1>5 DEF Rest
<1>7. Clear(k, s)
  BY <1>2, <1>5, <1>6 DEF Clear, k
<1>. QED
  BY <1>5, <1>6, <1>7 DEF k, r

LEMMA ClearParts ==
    ASSUME NEW s, AliasesClear(s), NEW k, Clear(k, s)
    PROVE  /\ k \in Expr /\ k[1] \in Locals /\ Root(k[1], s)[1] = k[1]
           /\ Rest(k, s) \in Seq(Slots) /\ k = Root(k[1], s) \o Rest(k, s)
           /\ Root(k[1], s) \in Expr
<1>1. k \in Expr /\ k[1] \in Locals
  BY ExprParts DEF Clear
<1>2. Root(k[1], s) \in Expr
  BY <1>1, RootIsExpr
<1>3. Rest(k, s) \in Seq(Slots)
  <2>1. \A i \in 2..Len(k) : k[i] \in Slots
    BY <1>1, ExprParts
  <2>2. Len(Root(k[1], s)) \in Nat /\ Len(Root(k[1], s)) >= 1 /\ k \in Seq(Word) /\ Len(k) \in Nat
    BY <1>1, <1>2, ExprParts
  <2>3. Len(Root(k[1], s)) + 1 \in Nat /\ Len(Root(k[1], s)) + 1 >= 2
    BY <2>2
  <2>4. \A a \in Nat : a >= 2 => SubSeq(k, a, Len(k)) \in Seq(Slots)
    BY <2>1, <2>2
  <2>. QED
    BY <2>3, <2>4 DEF Rest
<1>. QED
  BY <1>1, <1>2, <1>3 DEF Clear

\* The canonical path of an expression is a path with one meaning.
LEMMA CanonicalIsClear ==
    ASSUME NEW s, AliasesClear(s), NEW e \in Expr
    PROVE  /\ Canonical(e, s.alias) = Root(e[1], s) \o Tail(e)
           /\ Clear(Canonical(e, s.alias), s)
<1>1. e[1] \in Locals /\ Tail(e) \in Seq(Slots) /\ e = <<e[1]>> \o Tail(e)
  BY ExprParts
<1>2. Canonical(e, s.alias) = Root(e[1], s) \o Tail(e)
  BY <1>1 DEF Canonical, Root
<1>. DEFINE r == Root(e[1], s)
<1>3. CASE r[1] = e[1]
  BY <1>1, <1>2, <1>3, ClearConcat
<1>4. CASE r[1] # e[1]
  <2>1. s.alias[e[1]] # NoPath /\ r = s.alias[e[1]]
    BY <1>4 DEF Root
  <2>2. Clear(r, s)
    BY <1>1, <2>1 DEF AliasesClear
  <2>. HIDE DEF r
  <2>3. /\ r[1] \in Locals /\ Root(r[1], s)[1] = r[1] /\ Rest(r, s) \in Seq(Slots)
        /\ r = Root(r[1], s) \o Rest(r, s) /\ Root(r[1], s) \in Expr
    BY <2>2, ClearParts
  <2>. DEFINE q == Root(r[1], s)  w == Rest(r, s)
  <2>4. (q \o w) \o Tail(e) = q \o (w \o Tail(e)) /\ w \o Tail(e) \in Seq(Slots)
    <3>1. q \in Seq(Word)
      BY <2>3, ExprParts
    <3>2. w \in Seq(Slots) /\ Tail(e) \in Seq(Slots) /\ w \in Seq(Word) /\ Tail(e) \in Seq(Word)
      BY <1>1, <2>3, SlotsAreWords
    <3>. HIDE DEF q, w
    <3>. QED
      BY <3>1, <3>2
  <2>5. Clear(q \o (w \o Tail(e)), s)
    BY <2>3, <2>4, ClearConcat
  <2>6. r \o Tail(e) = q \o (w \o Tail(e))
    BY <2>3, <2>4, Zenon
  <2>. QED
    BY <1>2, <2>5, <2>6 DEF r
<1>. QED
  BY <1>2, <1>3, <1>4

\* The canonical path of an expression means what the expression does.
LEMMA CanonicalMeaning ==
    ASSUME NEW s, AliasesClear(s), NEW m, \A l \in Locals : s.alias[l] # NoPath => m.env[l] = Meaning(s.alias[l], s, m),
           NEW e \in Expr
    PROVE  Meaning(Canonical(e, s.alias), s, m) = Eval(e, m)
<1>1. e[1] \in Locals /\ Tail(e) \in Seq(Slots)
  BY ExprParts
<1>. DEFINE r == Root(e[1], s)
<1>2. Canonical(e, s.alias) = r \o Tail(e)
  BY CanonicalIsClear
<1>3. CASE r[1] = e[1]
  <2>. DEFINE l == e[1]  u == Tail(e)
  <2>0. l \in Locals /\ u \in Seq(Slots) /\ Root(l, s)[1] = l
    BY <1>1, <1>3
  <2>1. (r \o Tail(e))[1] = e[1] /\ Rest(r \o Tail(e), s) = Tail(e)
    <3>. HIDE DEF l, u
    <3>1. (Root(l, s) \o u)[1] = l /\ Rest(Root(l, s) \o u, s) = u
      BY <2>0, ClearConcat
    <3>. QED
      BY <3>1 DEF l, u
  <2>. QED
    BY <1>2, <2>1, Zenon DEF Meaning, Eval
<1>4. CASE r[1] # e[1]
  <2>1. s.alias[e[1]] # NoPath /\ r = s.alias[e[1]]
    BY <1>4 DEF Root
  <2>2. Clear(r, s) /\ m.env[e[1]] = Meaning(r, s, m)
    BY <1>1, <2>1 DEF AliasesClear
  <2>. HIDE DEF r
  <2>3. /\ r[1] \in Locals /\ Root(r[1], s)[1] = r[1] /\ Rest(r, s) \in Seq(Slots)
        /\ r = Root(r[1], s) \o Rest(r, s) /\ Root(r[1], s) \in Expr
    BY <2>2, ClearParts
  <2>. DEFINE q == Root(r[1], s)  w == Rest(r, s)
  <2>4. (q \o w) \o Tail(e) = q \o (w \o Tail(e)) /\ w \o Tail(e) \in Seq(Slots)
    <3>1. q \in Seq(Word)
      BY <2>3, ExprParts
    <3>2. w \in Seq(Slots) /\ Tail(e) \in Seq(Slots) /\ w \in Seq(Word) /\ Tail(e) \in Seq(Word)
      BY <1>1, <2>3, SlotsAreWords
    <3>. HIDE DEF q, w
    <3>. QED
      BY <3>1, <3>2
  <2>5. /\ (q \o (w \o Tail(e)))[1] = r[1]
        /\ Rest(q \o (w \o Tail(e)), s) = w \o Tail(e)
    BY <2>3, <2>4, ClearConcat
  <2>6. r \o Tail(e) = q \o (w \o Tail(e))
    BY <2>3, <2>4, Zenon
  <2>7. Meaning(r \o Tail(e), s, m) = EvalFrom(m.env[r[1]], w \o Tail(e), m)
    BY <2>5, <2>6, Zenon DEF Meaning
  <2>8. EvalFrom(m.env[r[1]], w \o Tail(e), m) = EvalFrom(EvalFrom(m.env[r[1]], w, m), Tail(e), m)
    <3>. DEFINE v == m.env[r[1]]  u == Tail(e)
    <3>1. w \in Seq(Slots) /\ u \in Seq(Slots)
      BY <1>1, <2>3
    <3>. HIDE DEF v, w, u
    <3>2. EvalFrom(v, w \o u, m) = EvalFrom(EvalFrom(v, w, m), u, m)
      BY <3>1, EvalFromConcat
    <3>. QED
      BY <3>2 DEF v, u
  <2>. QED
    BY <1>2, <2>2, <2>7, <2>8, Zenon DEF r, Meaning, Eval
<1>. QED
  BY <1>3, <1>4

-----------------------------------------------------------------------------
(* Writes.                                                                 *)

\* What happens to objects nobody refers to is not seen.
LEMMA FreshIsUnseen ==
    ASSUME NEW m \in MemoryType, NEW h \in Heaps, \A o \in Kept(m) : h[o] = m.heap[o],
           NEW n, n = [m EXCEPT !.heap = h]
    PROVE  n \in MemoryType /\ Agrees(m, n) /\ n.heap = h
<1>1. n \in MemoryType /\ n.env = m.env /\ n.heap = h
  BY WithHeap
<1>. QED
  BY <1>1 DEF Agrees

\* Reading a local of a memory before and after the garbage is collected.
LEMMA LocalsAgree ==
    ASSUME NEW m, NEW n, Agrees(m, n), NEW l \in Locals, NEW w \in Seq(Slots)
    PROVE  EvalFrom(m.env[l], w, n) = EvalFrom(m.env[l], w, m)
<1>1. m.env[l] \in Objects => m.env[l] \in Kept(m)
  BY KeptIsClosed
<1>. QED
  BY <1>1, EvalAgrees

LEMMA SameHeap ==
    ASSUME NEW m, NEW n, n.heap = m.heap, NEW v, NEW w \in Seq(Slots)
    PROVE  EvalFrom(v, w, n) = EvalFrom(v, w, m)
<1>1. Untouched(v, w, m, n)
  BY DEF Untouched
<1>. QED
  BY <1>1, EvalUntouched

\* A local is written: reading the others gives what it did.
LEMMA StoreLocal ==
    ASSUME NEW m \in MemoryType, NEW x \in Locals, NEW v \in Value, NEW visible \in BOOLEAN,
           NEW n, n = Store(<<x>>, v, visible, m)
    PROVE  /\ n \in MemoryType /\ n.env = [m.env EXCEPT ![x] = v]
           /\ \A l \in Locals, w \in Seq(Slots) : EvalFrom(n.env[l], w, n) = EvalFrom(n.env[l], w, m)
<1>. DEFINE e == [m.env EXCEPT ![x] = v]
            q == IF visible THEN m.origin \cup {x} ELSE m.origin \ {x}
            a == [m EXCEPT !.env = e]
            b == [a EXCEPT !.origin = q]
<1>1. n = Collect(b)
  <2>1. Len(<<x>>) = 1 /\ <<x>>[1] = x
    OBVIOUS
  <2>. QED
    BY <2>1 DEF Store, IsBare
<1>2. e \in Envs /\ m.origin \subseteq Locals
  BY DEF MemoryType, Envs
<1>3. q \subseteq Locals
  BY <1>2
<1>. HIDE DEF e, q
<1>4. a \in MemoryType /\ a.env = e /\ a.heap = m.heap
  BY <1>2, WithLocals
<1>. HIDE DEF a
<1>5. b \in MemoryType /\ b.env = a.env /\ b.heap = a.heap
  BY <1>3, <1>4, WithOrigin
<1>. HIDE DEF b
<1>6. n \in MemoryType /\ Agrees(b, n)
  BY <1>1, <1>5, CollectAgrees
<1>7. n.env = e
  BY <1>4, <1>5, <1>6 DEF Agrees
<1>8. ASSUME NEW l \in Locals, NEW w \in Seq(Slots)
      PROVE  EvalFrom(n.env[l], w, n) = EvalFrom(n.env[l], w, m)
  <2>1. EvalFrom(b.env[l], w, n) = EvalFrom(b.env[l], w, b)
    BY <1>6, LocalsAgree
  <2>2. b.heap = m.heap
    BY <1>4, <1>5
  <2>3. \A u : EvalFrom(u, w, b) = EvalFrom(u, w, m)
    BY <2>2, SameHeap
  <2>4. n.env = b.env
    BY <1>6 DEF Agrees
  <2>. QED
    BY <2>1, <2>3, <2>4
<1>. QED
  BY <1>6, <1>7, <1>8 DEF e

LEMMA FrontParts ==
    ASSUME NEW e \in Expr, Len(e) # 1
    PROVE  /\ Front(e) \in Expr /\ Last(e) \in Slots /\ e = Append(Front(e), Last(e))
           /\ Front(e)[1] = e[1] /\ Tail(Front(e)) \in Seq(Slots)
           /\ Tail(e) = Append(Tail(Front(e)), Last(e))
           /\ Last(e) = e[Len(e)] /\ Len(Front(e)) = Len(e) - 1 /\ e[1] \in Locals
<1>0. /\ e \in Seq(Word) /\ e # <<>> /\ e[1] \in Locals /\ Len(e) \in Nat /\ Len(e) >= 1
      /\ \A i \in 2..Len(e) : e[i] \in Slots
  BY ExprParts
<1>1. /\ e \in Seq(Word) /\ e # <<>> /\ e[1] \in Locals /\ Len(e) \in Nat /\ Len(e) > 1
      /\ \A i \in 2..Len(e) : e[i] \in Slots
  <2>1. \A n \in Nat : n >= 1 /\ n # 1 => n > 1
    OBVIOUS
  <2>. QED
    BY <1>0, <2>1, Zenon
<1>. DEFINE f == Front(e)
<1>2. f = SubSeq(e, 1, Len(e) - 1) /\ Last(e) = e[Len(e)]
  BY DEF Front, Last
<1>3. f \in Seq(Word) /\ Len(f) = Len(e) - 1 /\ \A i \in 1..Len(f) : f[i] = e[i]
  BY <1>1, <1>2
<1>4. Last(e) \in Slots
  BY <1>1, <1>2
<1>5. e = Append(f, Last(e))
  BY <1>1, <1>2
<1>. HIDE DEF f
<1>6. f \in Expr /\ f[1] = e[1]
  BY <1>1, <1>3 DEF Expr, Path, Word
<1>7. Tail(f) \in Seq(Slots)
  BY <1>6, ExprParts
<1>8. Tail(Append(f, Last(e))) = Append(Tail(f), Last(e))
  BY <1>1, <1>3
<1>9. Tail(e) = Append(Tail(f), Last(e))
  BY <1>5, <1>8, Zenon
<1>. QED
  BY <1>1, <1>2, <1>3, <1>4, <1>5, <1>6, <1>7, <1>9 DEF f

\* Reading w from v in m does not read the selector s of a.
Avoids(v, w, m, a, s) ==
    \A i \in 1..Len(w) : w[i] = s => EvalFrom(v, SubSeq(w, 1, i - 1), m) # a

\* A field is written: what does not read it gives what it did.
LEMMA StoreField ==
    ASSUME NEW m \in MemoryType, NEW e \in Expr, Len(e) # 1, NEW a \in Objects, a = Eval(Front(e), m),
           NEW v \in Objects \cup {Nil}, NEW visible, NEW n, n = Store(e, v, visible, m)
    PROVE  /\ n \in MemoryType /\ n.env = m.env
           /\ \A l \in Locals, w \in Seq(Slots) :
                 Avoids(m.env[l], w, m, a, Last(e)) => EvalFrom(m.env[l], w, n) = EvalFrom(m.env[l], w, m)
           /\ Avoids(m.env[e[1]], Tail(Front(e)), m, a, Last(e)) =>
                 Eval(e, n) = v /\ \A s \in Slots : v # a => Deref(v, s, n) = Deref(v, s, m)
<1>. DEFINE s == Last(e)
            h == [m.heap EXCEPT ![a][s] = v]
            b == [m EXCEPT !.heap = h]
<1>0. /\ Front(e) \in Expr /\ s \in Slots /\ e[1] \in Locals /\ Front(e)[1] = e[1]
      /\ Tail(Front(e)) \in Seq(Slots) /\ Tail(e) = Append(Tail(Front(e)), s)
  BY FrontParts
<1>1. n = Collect(b)
  BY DEF Store, IsBare
<1>2. m.heap \in Heaps
  BY DEF MemoryType, Heaps
<1>3. h \in Heaps
  BY <1>0, <1>2 DEF Heaps
<1>4. h[a][s] = v /\ \A o \in Objects, t \in Slots : o # a \/ t # s => h[o][t] = m.heap[o][t]
  BY <1>0, <1>2 DEF Heaps
<1>. HIDE DEF h, s
<1>5. b \in MemoryType /\ b.env = m.env /\ b.heap = h
  BY <1>3, WithHeap
<1>. HIDE DEF b
<1>6. n \in MemoryType /\ Agrees(b, n)
  BY <1>1, <1>5, CollectAgrees
<1>7. n.env = m.env
  BY <1>5, <1>6 DEF Agrees
<1>8. ASSUME NEW l \in Locals, NEW w \in Seq(Slots), Avoids(m.env[l], w, m, a, s)
      PROVE  /\ EvalFrom(m.env[l], w, n) = EvalFrom(m.env[l], w, m)
             /\ EvalFrom(m.env[l], w, b) = EvalFrom(m.env[l], w, m)
  <2>1. EvalFrom(m.env[l], w, n) = EvalFrom(m.env[l], w, b)
    BY <1>5, <1>6, LocalsAgree
  <2>2. Untouched(m.env[l], w, m, b)
    <3>. SUFFICES ASSUME NEW i \in 1..Len(w), EvalFrom(m.env[l], SubSeq(w, 1, i - 1), m) \in Objects
                  PROVE  b.heap[EvalFrom(m.env[l], SubSeq(w, 1, i - 1), m)][w[i]]
                           = m.heap[EvalFrom(m.env[l], SubSeq(w, 1, i - 1), m)][w[i]]
      BY DEF Untouched
    <3>1. w[i] \in Slots /\ (w[i] = s => EvalFrom(m.env[l], SubSeq(w, 1, i - 1), m) # a)
      BY <1>8 DEF Avoids
    <3>. QED
      BY <1>4, <1>5, <3>1
  <2>3. EvalFrom(m.env[l], w, b) = EvalFrom(m.env[l], w, m)
    BY <2>2, EvalUntouched
  <2>. QED
    BY <2>1, <2>3
<1>9. ASSUME Avoids(m.env[e[1]], Tail(Front(e)), m, a, s)
      PROVE  Eval(e, n) = v /\ \A t \in Slots : v # a => Deref(v, t, n) = Deref(v, t, m)
  <2>. DEFINE l == e[1]  w == Tail(Front(e))
  <2>1. EvalFrom(m.env[l], w, m) = a
    BY <1>0 DEF Eval
  <2>2. EvalFrom(m.env[l], w, n) = a /\ EvalFrom(m.env[l], w, b) = a
    BY <1>0, <1>8, <1>9, <2>1
  <2>3. EvalFrom(m.env[l], Append(w, s), n) = Deref(a, s, n)
    BY <1>0, <2>2, EvalFromAppend
  <2>4. /\ Kept(b) \in SUBSET Objects /\ Closed(Kept(b), b)
        /\ \A k \in Locals : b.env[k] \in Objects => b.env[k] \in Kept(b)
    BY KeptIsClosed
  <2>5. a \in Kept(b)
    <3>. HIDE DEF w, l
    <3>1. l \in Locals /\ w \in Seq(Slots)
      BY <1>0 DEF l, w
    <3>2. EvalFrom(b.env[l], w, b) = a
      BY <1>5, <2>2
    <3>. QED
      BY <2>4, <3>1, <3>2, EvalStays
  <2>6. Nil \notin Objects
    BY MemoryAssumption
  <2>7. n.heap[a] = b.heap[a] /\ b.heap[a][s] = v
    BY <1>4, <1>5, <1>6, <2>5 DEF Agrees
  <2>8. Eval(e, n) = v
    BY <1>0, <1>7, <2>3, <2>7 DEF Eval, Deref
  <2>9. ASSUME NEW t \in Slots, v # a, v \in Objects PROVE Deref(v, t, n) = Deref(v, t, m)
    <3>1. v \in Kept(b)
      BY <1>0, <2>4, <2>5, <2>7, <2>9 DEF Closed
    <3>2. n.heap[v][t] = b.heap[v][t]
      BY <1>6, <3>1 DEF Agrees
    <3>3. b.heap[v][t] = m.heap[v][t]
      BY <1>4, <1>5, <2>9
    <3>. QED
      BY <3>2, <3>3 DEF Deref
  <2>10. ASSUME NEW t \in Slots, v \notin Objects PROVE Deref(v, t, n) = Deref(v, t, m)
    BY <2>10 DEF Deref
  <2>. QED
    BY <2>8, <2>9, <2>10
<1>. QED
  BY <1>6, <1>7, <1>8, <1>9 DEF s

-----------------------------------------------------------------------------
(* The fields of a scope after each operation.                             *)

Aliases   == [Locals -> Path \cup {NoPath}]
ErrProofs == [Locals -> SUBSET Path]
NilStates == [Locals -> NilState]

LEMMA ScopeFields ==
    ASSUME NEW s \in ScopeType
    PROVE  /\ s.proven \subseteq Path /\ s.alias \in Aliases /\ s.errProof \in ErrProofs /\ s.nilable \in NilStates
           /\ s = [proven |-> s.proven, alias |-> s.alias, errProof |-> s.errProof, nilable |-> s.nilable]
  BY DEF ScopeType, Aliases, ErrProofs, NilStates

LEMMA ScopeOf ==
    ASSUME NEW p \in SUBSET Path, NEW a \in Aliases, NEW q \in ErrProofs, NEW n \in NilStates, NEW s,
           s = [proven |-> p, alias |-> a, errProof |-> q, nilable |-> n]
    PROVE  s \in ScopeType /\ s.proven = p /\ s.alias = a /\ s.errProof = q /\ s.nilable = n
  BY DEF ScopeType, Aliases, ErrProofs, NilStates

LEMMA WithProven ==
    ASSUME NEW s \in ScopeType, NEW p \in SUBSET Path, NEW t, t = [s EXCEPT !.proven = p]
    PROVE  t \in ScopeType /\ t.proven = p /\ t.alias = s.alias /\ t.errProof = s.errProof /\ t.nilable = s.nilable
<1>. DEFINE X == SUBSET Path  Y == Aliases  Z == ErrProofs  W == NilStates
<1>1. ScopeType = [proven : X, alias : Y, errProof : Z, nilable : W]
  BY DEF ScopeType, Aliases, ErrProofs, NilStates
<1>2. p \in X
  OBVIOUS
<1>. HIDE DEF X, Y, Z, W
<1>. QED
  BY <1>1, <1>2

LEMMA WithAliases ==
    ASSUME NEW s \in ScopeType, NEW a \in Aliases, NEW t, t = [s EXCEPT !.alias = a]
    PROVE  t \in ScopeType /\ t.proven = s.proven /\ t.alias = a /\ t.errProof = s.errProof /\ t.nilable = s.nilable
<1>. DEFINE X == SUBSET Path  Y == Aliases  Z == ErrProofs  W == NilStates
<1>1. ScopeType = [proven : X, alias : Y, errProof : Z, nilable : W]
  BY DEF ScopeType, Aliases, ErrProofs, NilStates
<1>. HIDE DEF X, Y, Z, W
<1>2. s \in [proven : X, alias : Y, errProof : Z, nilable : W] /\ a \in Y
  BY <1>1 DEF Y
<1>. QED
  BY <1>1, <1>2

LEMMA WithErrProofs ==
    ASSUME NEW s \in ScopeType, NEW q \in ErrProofs, NEW t, t = [s EXCEPT !.errProof = q]
    PROVE  t \in ScopeType /\ t.proven = s.proven /\ t.alias = s.alias /\ t.errProof = q /\ t.nilable = s.nilable
<1>. DEFINE X == SUBSET Path  Y == Aliases  Z == ErrProofs  W == NilStates
<1>1. ScopeType = [proven : X, alias : Y, errProof : Z, nilable : W]
  BY DEF ScopeType, Aliases, ErrProofs, NilStates
<1>. HIDE DEF X, Y, Z, W
<1>2. s \in [proven : X, alias : Y, errProof : Z, nilable : W] /\ q \in Z
  BY <1>1 DEF Z
<1>. QED
  BY <1>1, <1>2

LEMMA WithNilStates ==
    ASSUME NEW s \in ScopeType, NEW n \in NilStates, NEW t, t = [s EXCEPT !.nilable = n]
    PROVE  t \in ScopeType /\ t.proven = s.proven /\ t.alias = s.alias /\ t.errProof = s.errProof /\ t.nilable = n
<1>. DEFINE X == SUBSET Path  Y == Aliases  Z == ErrProofs  W == NilStates
<1>1. ScopeType = [proven : X, alias : Y, errProof : Z, nilable : W]
  BY DEF ScopeType, Aliases, ErrProofs, NilStates
<1>. HIDE DEF X, Y, Z, W
<1>2. s \in [proven : X, alias : Y, errProof : Z, nilable : W] /\ n \in W
  BY <1>1 DEF W
<1>. QED
  BY <1>1, <1>2

\* t is s without what P falsifies.
Invalidated(s, P, t) ==
    /\ t.proven = {k \in s.proven : ~Falsified(P, k)}
    /\ \A l \in Locals :
          /\ t.alias[l] = IF Falsified(P, s.alias[l]) THEN NoPath ELSE s.alias[l]
          /\ t.errProof[l] = {k \in s.errProof[l] : ~Falsified(P, k)}
          /\ t.nilable[l] = IF <<l>> \in P THEN "unknown" ELSE s.nilable[l]

LEMMA InvalidateFields ==
    ASSUME NEW s \in ScopeType, NEW P, NEW t, t = Invalidate(s, P)
    PROVE  t \in ScopeType /\ Invalidated(s, P, t)
<1>. DEFINE p == {k \in s.proven : ~Falsified(P, k)}
            a == [l \in Locals |-> IF Falsified(P, s.alias[l]) THEN NoPath ELSE s.alias[l]]
            q == [l \in Locals |-> {k \in s.errProof[l] : ~Falsified(P, k)}]
            n == [l \in Locals |-> IF <<l>> \in P THEN "unknown" ELSE s.nilable[l]]
<1>0. s.proven \subseteq Path /\ s.alias \in Aliases /\ s.errProof \in ErrProofs /\ s.nilable \in NilStates
  BY ScopeFields
<1>1. p \in SUBSET Path
  BY <1>0
<1>2. a \in Aliases
  BY <1>0 DEF Aliases
<1>3. q \in ErrProofs
  BY <1>0 DEF ErrProofs
<1>4. n \in NilStates
  BY <1>0 DEF NilStates, NilState
<1>5. t = [proven |-> p, alias |-> a, errProof |-> q, nilable |-> n]
  BY DEF Invalidate
<1>6. /\ \A l \in Locals : a[l] = IF Falsified(P, s.alias[l]) THEN NoPath ELSE s.alias[l]
      /\ \A l \in Locals : q[l] = {k \in s.errProof[l] : ~Falsified(P, k)}
      /\ \A l \in Locals : n[l] = IF <<l>> \in P THEN "unknown" ELSE s.nilable[l]
  OBVIOUS
<1>. HIDE DEF p, a, q, n
<1>7. t \in ScopeType /\ t.proven = p /\ t.alias = a /\ t.errProof = q /\ t.nilable = n
  BY <1>1, <1>2, <1>3, <1>4, <1>5, ScopeOf
<1>. QED
  BY <1>6, <1>7 DEF p, Invalidated

\* The name of a local is written: nothing is left that begins with it.
LEMMA InvalidateLocalFields ==
    ASSUME NEW s \in ScopeType, NEW x \in Locals, NEW t, t = InvalidateTarget(s, <<x>>)
    PROVE  /\ t \in ScopeType /\ t.proven = {k \in s.proven : ~AtOrUnder(<<x>>, k)}
           /\ t.alias[x] = NoPath /\ t.errProof[x] = {} /\ t.nilable[x] = "unknown"
           /\ \A l \in Locals \ {x} :
                 /\ t.alias[l] = IF AtOrUnder(<<x>>, s.alias[l]) THEN NoPath ELSE s.alias[l]
                 /\ t.errProof[l] = {k \in s.errProof[l] : ~AtOrUnder(<<x>>, k)}
                 /\ t.nilable[l] = s.nilable[l]
<1>. DEFINE a == [s.alias EXCEPT ![x] = NoPath]  q == [s.errProof EXCEPT ![x] = {}]
            c == [s EXCEPT !.alias = a]
            d == [c EXCEPT !.errProof = q]
<1>0. s.alias \in Aliases /\ s.errProof \in ErrProofs
  BY ScopeFields
<1>1. t = Invalidate(d, {<<x>>})
  <2>1. Len(<<x>>) = 1 /\ <<x>>[1] = x
    OBVIOUS
  <2>. QED
    BY <2>1 DEF InvalidateTarget, IsBare
<1>2. a \in Aliases /\ a[x] = NoPath /\ \A l \in Locals \ {x} : a[l] = s.alias[l]
  BY <1>0 DEF Aliases
<1>3. q \in ErrProofs /\ q[x] = {} /\ \A l \in Locals \ {x} : q[l] = s.errProof[l]
  BY <1>0 DEF ErrProofs
<1>. HIDE DEF a, q
<1>4. c \in ScopeType /\ c.proven = s.proven /\ c.alias = a /\ c.errProof = s.errProof /\ c.nilable = s.nilable
  BY <1>2, WithAliases
<1>. HIDE DEF c
<1>5. d \in ScopeType /\ d.proven = s.proven /\ d.alias = a /\ d.errProof = q /\ d.nilable = s.nilable
  BY <1>3, <1>4, WithErrProofs
<1>. HIDE DEF d
<1>6. \A k : Falsified({<<x>>}, k) <=> AtOrUnder(<<x>>, k)
  BY DEF Falsified
<1>7. t \in ScopeType /\ Invalidated(d, {<<x>>}, t)
  BY <1>1, <1>5, InvalidateFields
<1>8. t.proven = {k \in s.proven : ~AtOrUnder(<<x>>, k)}
  BY <1>5, <1>6, <1>7 DEF Invalidated
<1>9. t.alias[x] = NoPath /\ t.errProof[x] = {} /\ t.nilable[x] = "unknown"
  BY <1>2, <1>3, <1>5, <1>7 DEF Invalidated
<1>10. ASSUME NEW l \in Locals \ {x}
       PROVE  /\ t.alias[l] = IF AtOrUnder(<<x>>, s.alias[l]) THEN NoPath ELSE s.alias[l]
              /\ t.errProof[l] = {k \in s.errProof[l] : ~AtOrUnder(<<x>>, k)}
              /\ t.nilable[l] = s.nilable[l]
  <2>1. <<l>> \notin {<<x>>}
    OBVIOUS
  <2>2. t.alias[l] = IF AtOrUnder(<<x>>, s.alias[l]) THEN NoPath ELSE s.alias[l]
    BY <1>2, <1>5, <1>6, <1>7 DEF Invalidated
  <2>3. t.errProof[l] = {k \in s.errProof[l] : ~AtOrUnder(<<x>>, k)}
    BY <1>3, <1>5, <1>6, <1>7 DEF Invalidated
  <2>4. t.nilable[l] = s.nilable[l]
    BY <1>5, <1>7, <2>1 DEF Invalidated
  <2>. QED
    BY <2>2, <2>3, <2>4
<1>. QED
  BY <1>7, <1>8, <1>9, <1>10

-----------------------------------------------------------------------------
(* A scope that tells the truth about a memory.                            *)

\* It holds something about k, besides the state of locals.
Knows(s, k) ==
    \/ k \in s.proven
    \/ \E l \in Locals : k \in s.errProof[l]
    \/ \E l \in Locals : s.alias[l] # NoPath /\ k = s.alias[l]

Vouched(P, s, m) == \A k \in P : Clear(k, s) /\ Meaning(k, s, m) # Nil

AliasHolds(l, s, m) ==
    s.alias[l] # NoPath =>
        /\ Clear(s.alias[l], s) /\ m.env[l] = Meaning(s.alias[l], s, m)
        /\ Len(s.alias[l]) > 1 => m.env[l] \in Objects \cup {Nil}

ErrorHolds(l, s, m) ==
    \A k \in s.errProof[l] : Clear(k, s) /\ (m.env[l] = Nil => Meaning(k, s, m) # Nil)

StateHolds(l, s, m) ==
    /\ s.nilable[l] = "isNil" => m.env[l] = Nil
    /\ s.nilable[l] = "typedNil" => m.env[l] = TypedNil

Sound(s, m) ==
    /\ Vouched(s.proven, s, m)
    /\ \A l \in Locals : AliasHolds(l, s, m) /\ ErrorHolds(l, s, m) /\ StateHolds(l, s, m)

LEMMA SoundClear ==
    ASSUME NEW s, NEW m, Sound(s, m)
    PROVE  AliasesClear(s) /\ \A k : Knows(s, k) => Clear(k, s)
  BY DEF Sound, Vouched, AliasHolds, ErrorHolds, AliasesClear, Knows

LEMMA SameRoot ==
    ASSUME NEW s, NEW t, NEW k, Root(k[1], t) = Root(k[1], s)
    PROVE  /\ Clear(k, s) <=> Clear(k, t)
           /\ \A m : Meaning(k, t, m) = Meaning(k, s, m)
  BY DEF Clear, Rest, Meaning

\* t holds no more than s.
IsLess(s, t) ==
    /\ t.proven \subseteq s.proven
    /\ \A l \in Locals :
          /\ t.alias[l] # NoPath => t.alias[l] = s.alias[l]
          /\ t.errProof[l] \subseteq s.errProof[l]
          /\ t.nilable[l] \in {"isNil", "typedNil"} => t.nilable[l] = s.nilable[l]

LEMMA LessKnown ==
    ASSUME NEW s, NEW t, IsLess(s, t)
    PROVE  \A k : Knows(t, k) => Knows(s, k)
  BY DEF IsLess, Knows

\* Forgetting does no harm, as long as what is left keeps its meaning.
LEMMA Weakened ==
    ASSUME NEW s, NEW t, NEW m, Sound(s, m), IsLess(s, t),
           \A k : Knows(t, k) => Root(k[1], t) = Root(k[1], s)
    PROVE  Sound(t, m)
<1>1. \A k : Knows(t, k) /\ Clear(k, s) => Clear(k, t) /\ Meaning(k, t, m) = Meaning(k, s, m)
  BY SameRoot
<1>2. Vouched(t.proven, t, m)
  BY <1>1 DEF Sound, Vouched, IsLess, Knows
<1>3. ASSUME NEW l \in Locals PROVE AliasHolds(l, t, m)
  BY <1>1 DEF Sound, AliasHolds, IsLess, Knows
<1>4. ASSUME NEW l \in Locals PROVE ErrorHolds(l, t, m)
  <2>. SUFFICES ASSUME NEW k \in t.errProof[l]
                PROVE  Clear(k, t) /\ (m.env[l] = Nil => Meaning(k, t, m) # Nil)
    BY DEF ErrorHolds
  <2>1. k \in s.errProof[l] /\ Knows(t, k)
    BY DEF IsLess, Knows
  <2>. QED
    BY <1>1, <2>1 DEF Sound, ErrorHolds
<1>5. ASSUME NEW l \in Locals PROVE StateHolds(l, t, m)
  BY DEF Sound, StateHolds, IsLess
<1>. QED
  BY <1>2, <1>3, <1>4, <1>5 DEF Sound

\* A scope holds nothing about what x refers to, and no path goes through it.
Free(x, s) ==
    /\ s.alias[x] = NoPath /\ s.errProof[x] = {} /\ s.nilable[x] \notin {"isNil", "typedNil"}
    /\ \A k : Knows(s, k) => k[1] # x

\* What happens in memory leaves a scope true that is not about it.
LEMMA Remembered ==
    ASSUME NEW s, NEW m, NEW n, Sound(s, m),
           \A k : Knows(s, k) => Meaning(k, s, n) = Meaning(k, s, m),
           \A l \in Locals : n.env[l] = m.env[l] \/ Free(l, s)
    PROVE  Sound(s, n)
<1>1. Vouched(s.proven, s, n)
  BY DEF Sound, Vouched, Knows
<1>2. ASSUME NEW l \in Locals, n.env[l] = m.env[l]
      PROVE  AliasHolds(l, s, n) /\ ErrorHolds(l, s, n) /\ StateHolds(l, s, n)
  <2>1. AliasHolds(l, s, n)
    BY <1>2 DEF Sound, AliasHolds, Knows
  <2>2. ErrorHolds(l, s, n)
    BY <1>2 DEF Sound, ErrorHolds, Knows
  <2>3. StateHolds(l, s, n)
    BY <1>2 DEF Sound, StateHolds
  <2>. QED
    BY <2>1, <2>2, <2>3
<1>3. ASSUME NEW l \in Locals, Free(l, s)
      PROVE  AliasHolds(l, s, n) /\ ErrorHolds(l, s, n) /\ StateHolds(l, s, n)
  BY <1>3 DEF Free, AliasHolds, ErrorHolds, StateHolds
<1>. QED
  BY <1>1, <1>2, <1>3 DEF Sound

\* n is m with another value in x.
Rebound(x, m, n) ==
    \A l \in Locals \ {x} :
        /\ n.env[l] = m.env[l]
        /\ \A w \in Seq(Slots) : EvalFrom(n.env[l], w, n) = EvalFrom(m.env[l], w, m)

LEMMA ReboundSound ==
    ASSUME NEW s, NEW m, NEW n, NEW x \in Locals, Sound(s, m), Free(x, s), Rebound(x, m, n)
    PROVE  Sound(s, n)
<1>1. AliasesClear(s) /\ \A k : Knows(s, k) => Clear(k, s)
  BY SoundClear
<1>2. ASSUME NEW k, Knows(s, k) PROVE Meaning(k, s, n) = Meaning(k, s, m)
  <2>1. k[1] \in Locals /\ Rest(k, s) \in Seq(Slots)
    BY <1>1, <1>2, ClearParts
  <2>2. k[1] # x
    BY <1>2 DEF Free
  <2>. QED
    BY <2>1, <2>2 DEF Rebound, Meaning
<1>3. \A l \in Locals : n.env[l] = m.env[l] \/ Free(l, s)
  BY DEF Rebound
<1>. QED
  BY <1>2, <1>3, Remembered

\* Nothing known of what is below x goes on behind a dereference.
LEMMA InvalidateLocalSound ==
    ASSUME NEW s \in ScopeType, NEW m, NEW x \in Locals, Sound(s, m),
           \A k : Knows(s, k) /\ k[1] = x => AtOrUnder(<<x>>, k),
           NEW t, t = InvalidateTarget(s, <<x>>)
    PROVE  /\ t \in ScopeType /\ Sound(t, m) /\ Free(x, t) /\ IsLess(s, t)
           /\ \A l \in Locals \ {x} : t.nilable[l] = s.nilable[l]
<1>1. /\ t \in ScopeType /\ t.proven = {k \in s.proven : ~AtOrUnder(<<x>>, k)}
      /\ t.alias[x] = NoPath /\ t.errProof[x] = {} /\ t.nilable[x] = "unknown"
      /\ \A l \in Locals \ {x} :
            /\ t.alias[l] = IF AtOrUnder(<<x>>, s.alias[l]) THEN NoPath ELSE s.alias[l]
            /\ t.errProof[l] = {k \in s.errProof[l] : ~AtOrUnder(<<x>>, k)}
            /\ t.nilable[l] = s.nilable[l]
  BY InvalidateLocalFields
<1>2. IsLess(s, t)
  BY <1>1 DEF IsLess
<1>3. \A k : Knows(t, k) => Knows(s, k)
  BY <1>2, LessKnown
<1>4. \A k : Knows(t, k) => ~AtOrUnder(<<x>>, k)
  BY <1>1 DEF Knows
<1>5. \A k : Knows(t, k) => k[1] # x
  BY <1>3, <1>4
<1>6. Free(x, t)
  BY <1>1, <1>5 DEF Free
<1>7. AliasesClear(s) /\ \A k : Knows(s, k) => Clear(k, s)
  BY SoundClear
<1>8. ASSUME NEW k, Knows(t, k) PROVE Root(k[1], t) = Root(k[1], s)
  <2>1. Clear(k, s) /\ k[1] # x /\ k[1] \in Locals /\ Root(k[1], s)[1] = k[1]
    BY <1>3, <1>5, <1>7, <1>8, ClearParts
  <2>2. CASE s.alias[k[1]] = NoPath
    BY <1>1, <2>1, <2>2 DEF Root
  <2>3. CASE s.alias[k[1]] # NoPath
    <3>1. s.alias[k[1]][1] = k[1]
      BY <2>1, <2>3 DEF Root
    <3>2. ~AtOrUnder(<<x>>, s.alias[k[1]])
      <4>. DEFINE a == s.alias[k[1]]
      <4>1. a[1] # x
        BY <2>1, <3>1
      <4>2. a # <<x>>
        BY <4>1
      <4>3. a \in Expr
        BY <1>7, <2>1, <2>3 DEF AliasesClear, Clear
      <4>. HIDE DEF a
      <4>4. a \in Seq(Word) /\ Len(a) \in Nat /\ Len(a) >= 1
        BY <4>3, ExprParts
      <4>5. SubSeq(a, 1, Len(<<x>>)) # <<x>>
        <5>1. Len(<<x>>) = 1 /\ <<x>>[1] = x
          OBVIOUS
        <5>2. SubSeq(a, 1, 1)[1] = a[1]
          BY <4>4
        <5>. QED
          BY <4>1, <5>1, <5>2
      <4>6. ~AtOrUnder(<<x>>, a)
        BY <4>2, <4>5 DEF AtOrUnder, Under
      <4>. QED
        BY <4>6 DEF a
    <3>. QED
      BY <1>1, <2>1, <2>3, <3>2 DEF Root
  <2>. QED
    BY <2>2, <2>3
<1>9. Sound(t, m)
  BY <1>2, <1>8, Weakened
<1>. QED
  BY <1>1, <1>2, <1>6, <1>9

LEMMA PrefixOfConcat ==
    ASSUME NEW T, NEW r \in Seq(T), NEW w \in Seq(T), NEW i \in 1..Len(w)
    PROVE  IsPrefix(Append(r \o SubSeq(w, 1, i - 1), w[i]), r \o w)
<1>. DEFINE u == SubSeq(w, 1, i - 1)  p == Append(r \o u, w[i])  k == r \o w
<1>1. u \in Seq(T) /\ Len(u) = i - 1 /\ \A j \in 1..i - 1 : u[j] = w[j]
  OBVIOUS
<1>. HIDE DEF u
<1>2. /\ p \in Seq(T) /\ Len(p) = Len(r) + i /\ p[Len(r) + i] = w[i]
      /\ \A j \in 1..Len(r) : p[j] = r[j]
      /\ \A j \in Len(r) + 1..Len(r) + i - 1 : p[j] = u[j - Len(r)]
  <2>. DEFINE c == r \o u
  <2>1. w[i] \in T /\ Len(r) \in Nat /\ i \in Nat \ {0}
    OBVIOUS
  <2>2. c \in Seq(T) /\ Len(c) = Len(r) + i - 1
    <3>1. u \in Seq(T) /\ Len(u) = i - 1
      BY <1>1
    <3>2. c \in Seq(T) /\ Len(c) = Len(r) + Len(u)
      BY <3>1
    <3>. HIDE DEF c
    <3>. QED
      BY <2>1, <3>1, <3>2
  <2>3. /\ \A j \in 1..Len(r) : c[j] = r[j]
        /\ \A j \in Len(r) + 1..Len(r) + i - 1 : c[j] = u[j - Len(r)]
    BY <1>1, <2>1
  <2>. HIDE DEF c
  <2>4. /\ Append(c, w[i]) \in Seq(T) /\ Len(Append(c, w[i])) = Len(r) + i
        /\ Append(c, w[i])[Len(r) + i] = w[i]
    BY <2>1, <2>2
  <2>5. \A j \in 1..Len(r) + i - 1 : Append(c, w[i])[j] = c[j]
    BY <2>1, <2>2
  <2>6. \A j \in 1..Len(r) : p[j] = r[j]
    BY <2>1, <2>3, <2>5 DEF c
  <2>7. \A j \in Len(r) + 1..Len(r) + i - 1 : p[j] = u[j - Len(r)]
    <3>. SUFFICES ASSUME NEW j \in Len(r) + 1..Len(r) + i - 1 PROVE Append(c, w[i])[j] = u[j - Len(r)]
      BY DEF c
    <3>1. j \in 1..Len(r) + i - 1
      BY <2>1
    <3>. QED
      BY <2>3, <2>5, <3>1
  <2>. QED
    BY <2>4, <2>6, <2>7 DEF c
<1>3. /\ k \in Seq(T) /\ Len(k) = Len(r) + Len(w)
      /\ \A j \in 1..Len(r) : k[j] = r[j]
      /\ \A j \in Len(r) + 1..Len(r) + Len(w) : k[j] = w[j - Len(r)]
  OBVIOUS
<1>4. Len(p) <= Len(k) /\ Len(p) \in Nat /\ Len(r) \in Nat /\ i \in Nat
  BY <1>2, <1>3
<1>5. ASSUME NEW j \in 1..Len(p) PROVE p[j] = k[j]
  <2>1. CASE j \in 1..Len(r)
    BY <1>2, <1>3, <2>1
  <2>2. CASE j \in Len(r) + 1..Len(r) + i - 1
    <3>1. j - Len(r) \in 1..i - 1 /\ j \in Len(r) + 1..Len(r) + Len(w)
      BY <1>4, <2>2
    <3>. QED
      BY <1>1, <1>2, <1>3, <2>2, <3>1
  <2>3. CASE j = Len(r) + i
    <3>1. j - Len(r) = i /\ j \in Len(r) + 1..Len(r) + Len(w)
      BY <1>4, <2>3
    <3>. QED
      BY <1>2, <1>3, <2>3, <3>1
  <2>. QED
    BY <1>2, <1>4, <2>1, <2>2, <2>3
<1>. HIDE DEF p, k
<1>6. SubSeq(p, 1, Len(p)) = SubSeq(k, 1, Len(p))
  BY <1>2, <1>3, <1>4, <1>5
<1>7. IsPrefix(p, k)
  BY <1>4, <1>6 DEF IsPrefix
<1>. QED
  BY <1>7 DEF p, k, u

LEMMA PrefixExtends ==
    ASSUME NEW T, NEW p \in Seq(T), NEW r \in Seq(T), NEW w \in Seq(T), IsPrefix(p, r)
    PROVE  IsPrefix(p, r \o w)
<1>1. Len(p) <= Len(r) /\ SubSeq(p, 1, Len(p)) = SubSeq(r, 1, Len(p))
  BY DEF IsPrefix
<1>. DEFINE k == r \o w
<1>2. k \in Seq(T) /\ Len(k) = Len(r) + Len(w) /\ \A j \in 1..Len(r) : k[j] = r[j]
  OBVIOUS
<1>. HIDE DEF k
<1>3. SubSeq(k, 1, Len(p)) = SubSeq(r, 1, Len(p))
  BY <1>1, <1>2
<1>4. IsPrefix(p, k)
  BY <1>1, <1>2, <1>3 DEF IsPrefix
<1>. QED
  BY <1>4 DEF k

LEMMA AtOrUnderIsPrefix ==
    ASSUME NEW T, NEW p \in Seq(T), NEW k \in Seq(T), AtOrUnder(p, k)
    PROVE  IsPrefix(p, k)
  BY DEF AtOrUnder, Under, IsPrefix

\* A step in reading k reads the selector lhs ends with, of an expression that
\* has the canonical path of what lhs selects it of: k goes through lhs.
LEMMA GoesThrough ==
    ASSUME NEW s, AliasesClear(s), NEW k, Clear(k, s), NEW lhs \in Expr, Len(lhs) # 1,
           NEW i \in 1..Len(Rest(k, s)), Rest(k, s)[i] = Last(lhs),
           Canonical(<<k[1]>> \o SubSeq(Rest(k, s), 1, i - 1), s.alias) = Canonical(Front(lhs), s.alias)
    PROVE  IsPrefix(Canonical(lhs, s.alias), k)
<1>. DEFINE r == Root(k[1], s)  w == Rest(k, s)  u == SubSeq(w, 1, i - 1)
            e == <<k[1]>> \o u  f == Last(lhs)  q == Root(lhs[1], s)  v == Tail(Front(lhs))
<1>1. k[1] \in Locals /\ w \in Seq(Slots) /\ k = r \o w /\ r \in Expr
  BY ClearParts
<1>2. u \in Seq(Slots)
  <2>1. w \in Seq(Slots) /\ i \in 1..Len(w)
    BY <1>1
  <2>. HIDE DEF w
  <2>. QED
    BY <2>1
<1>3. Canonical(e, s.alias) = r \o u
  <2>1. <<k[1]>> \in Expr /\ Tail(<<k[1]>>) = <<>> /\ <<k[1]>>[1] = k[1]
    BY <1>1, LocalIsExpr
  <2>. HIDE DEF u
  <2>2. e \in Expr /\ e[1] = <<k[1]>>[1] /\ Tail(e) = Tail(<<k[1]>>) \o u
    BY <1>2, <2>1, ExprConcat
  <2>3. Tail(e) = u
    BY <1>2, <2>1, <2>2
  <2>4. e[1] = k[1]
    BY <2>1, <2>2
  <2>. HIDE DEF e
  <2>5. Canonical(e, s.alias) = Root(e[1], s) \o Tail(e)
    BY <2>2, CanonicalIsClear
  <2>. QED
    BY <2>3, <2>4, <2>5
<1>4. /\ Front(lhs) \in Expr /\ f \in Slots /\ Front(lhs)[1] = lhs[1]
      /\ v \in Seq(Slots) /\ Tail(lhs) = Append(v, f) /\ lhs[1] \in Locals
  BY FrontParts
<1>5. Canonical(Front(lhs), s.alias) = q \o v
  <2>1. Canonical(Front(lhs), s.alias) = Root(Front(lhs)[1], s) \o Tail(Front(lhs))
    BY <1>4, CanonicalIsClear
  <2>. QED
    BY <1>4, <2>1
<1>6. Canonical(lhs, s.alias) = q \o Append(v, f)
  <2>1. Canonical(lhs, s.alias) = Root(lhs[1], s) \o Tail(lhs)
    BY CanonicalIsClear
  <2>. QED
    BY <1>4, <2>1
<1>7. q \in Expr
  BY <1>4, RootIsExpr
<1>8. r \in Seq(Word) /\ q \in Seq(Word) /\ v \in Seq(Word) /\ w \in Seq(Word) /\ f \in Word
  BY <1>1, <1>4, <1>7, ExprParts, SlotsAreWords
<1>9. r \o u = q \o v
  BY <1>3, <1>5
<1>10. q \o Append(v, f) = Append(q \o v, f)
  <2>. HIDE DEF q, v, f
  <2>. QED
    BY <1>8
<1>11. i \in 1..Len(w) /\ w[i] = f
  OBVIOUS
<1>12. Canonical(lhs, s.alias) = Append(r \o u, w[i])
  BY <1>6, <1>9, <1>10, <1>11, Zenon
<1>13. IsPrefix(Append(r \o u, w[i]), r \o w)
  <2>. HIDE DEF w, r
  <2>. QED
    BY <1>8, <1>11, PrefixOfConcat
<1>. QED
  BY <1>1, <1>12, <1>13, Zenon

\* No name leads, by a path s knows, to the object a field is written in, but
\* the written one (Follows, "share" and "star").
Disciplined(s, m, lhs) ==
    /\ \A k : Knows(s, k) => \A i \in 1..Len(Rest(k, s)) :
          LET e == <<k[1]>> \o SubSeq(Rest(k, s), 1, i - 1)
          IN  EvalFrom(m.env[k[1]], SubSeq(Rest(k, s), 1, i - 1), m) = Eval(Front(lhs), m)
                 => Canonical(e, s.alias) = Canonical(Front(lhs), s.alias)
    /\ \A k : Knows(s, k) /\ IsPrefix(Canonical(lhs, s.alias), k) =>
          Last(lhs) # Star /\ AtOrUnder(Canonical(lhs, s.alias), k)

\* A field is written: what is left known is not read through it.
LEMMA InvalidateFieldSound ==
    ASSUME NEW s \in ScopeType, NEW m, Sound(s, m), NEW lhs \in Expr, Len(lhs) # 1, Disciplined(s, m, lhs),
           NEW t, t = InvalidateTarget(s, lhs)
    PROVE  /\ t \in ScopeType /\ IsLess(s, t) /\ Sound(t, m)
           /\ \A k : Knows(t, k) =>
                 Root(k[1], t) = Root(k[1], s) /\ Avoids(m.env[k[1]], Rest(k, s), m, Eval(Front(lhs), m), Last(lhs))
           /\ Root(lhs[1], t) = Root(lhs[1], s)
<1>. DEFINE p == Canonical(lhs, s.alias)
<1>1. AliasesClear(s) /\ \A k : Knows(s, k) => Clear(k, s)
  BY SoundClear
<1>2. p = Root(lhs[1], s) \o Tail(lhs) /\ Clear(p, s)
  BY <1>1, CanonicalIsClear
<1>3. p \in Expr
  BY <1>2 DEF Clear
<1>4. /\ lhs[1] \in Locals /\ Tail(lhs) \in Seq(Slots) /\ Tail(lhs) # <<>>
      /\ Root(lhs[1], s) \in Expr
  <2>1. lhs[1] \in Locals /\ Tail(lhs) \in Seq(Slots) /\ Len(Tail(lhs)) = Len(lhs) - 1 /\ Len(lhs) \in Nat
    BY ExprParts
  <2>2. Tail(lhs) # <<>>
    <3>. DEFINE w == Tail(lhs)
    <3>1. Len(w) # 0
      BY <2>1
    <3>. HIDE DEF w
    <3>2. Len(<<>>) = 0
      OBVIOUS
    <3>3. w # <<>>
      BY <3>1, <3>2
    <3>. QED
      BY <3>3 DEF w
  <2>. QED
    BY <1>1, <2>1, <2>2, RootIsExpr
<1>5. ~IsPrefix(p, Root(lhs[1], s))
  <2>. DEFINE r == Root(lhs[1], s)  w == Tail(lhs)
  <2>1. r \in Seq(Word) /\ w \in Seq(Word) /\ w # <<>> /\ p = r \o w
    BY <1>2, <1>4, ExprParts, SlotsAreWords
  <2>. HIDE DEF r, w, p
  <2>2. Len(p) > Len(r) /\ Len(p) \in Nat /\ Len(r) \in Nat
    BY <2>1
  <2>3. ~IsPrefix(p, r)
    BY <2>2 DEF IsPrefix
  <2>. QED
    BY <2>3 DEF r
<1>. HIDE DEF p
<1>6. ASSUME NEW k, Knows(s, k), ~IsPrefix(p, k)
      PROVE  Avoids(m.env[k[1]], Rest(k, s), m, Eval(Front(lhs), m), Last(lhs))
  <2>. SUFFICES ASSUME NEW i \in 1..Len(Rest(k, s)), Rest(k, s)[i] = Last(lhs),
                       EvalFrom(m.env[k[1]], SubSeq(Rest(k, s), 1, i - 1), m) = Eval(Front(lhs), m)
                PROVE  FALSE
    BY DEF Avoids
  <2>1. Canonical(<<k[1]>> \o SubSeq(Rest(k, s), 1, i - 1), s.alias) = Canonical(Front(lhs), s.alias)
    BY <1>6 DEF Disciplined
  <2>2. Clear(k, s)
    BY <1>1, <1>6
  <2>3. IsPrefix(Canonical(lhs, s.alias), k)
    BY <1>1, <2>1, <2>2, GoesThrough
  <2>. QED
    BY <1>6, <2>3 DEF p
<1>7. \A l \in Locals : s.alias[l] # NoPath => Knows(s, s.alias[l])
  BY DEF Knows
<1>8. CASE Last(lhs) = Star
  <2>1. t = s
    BY <1>8 DEF InvalidateTarget, IsBare, Last
  <2>2. \A k : Knows(s, k) => ~IsPrefix(p, k)
    BY <1>8 DEF Disciplined, p
  <2>3. IsLess(s, t)
    BY <2>1 DEF IsLess
  <2>. QED
    BY <1>6, <2>1, <2>2, <2>3
<1>9. CASE Last(lhs) # Star
  <2>1. t = Invalidate(s, {p})
    BY <1>9 DEF InvalidateTarget, IsBare, Last, p
  <2>2. t \in ScopeType /\ Invalidated(s, {p}, t)
    BY <2>1, InvalidateFields
  <2>3. IsLess(s, t)
    BY <2>2 DEF Invalidated, IsLess
  <2>4. \A k : Falsified({p}, k) <=> AtOrUnder(p, k)
    BY DEF Falsified
  <2>5. ASSUME NEW k, Knows(t, k) PROVE Knows(s, k) /\ ~IsPrefix(p, k)
    <3>1. Knows(s, k)
      BY <2>3, <2>5, LessKnown
    <3>2. ~AtOrUnder(p, k)
      BY <2>2, <2>4, <2>5 DEF Invalidated, Knows
    <3>. QED
      BY <3>1, <3>2 DEF Disciplined, p
  <2>6. ASSUME NEW l \in Locals, ~IsPrefix(p, Root(l, s)) PROVE Root(l, t) = Root(l, s)
    <3>1. CASE s.alias[l] = NoPath
      BY <2>2, <3>1 DEF Root, Invalidated
    <3>2. CASE s.alias[l] # NoPath
      <4>. DEFINE a == s.alias[l]
      <4>1. a = Root(l, s) /\ Root(l, s) \in Expr
        BY <1>1, <3>2, RootIsExpr DEF Root
      <4>. HIDE DEF a
      <4>2. a \in Seq(Word) /\ p \in Seq(Word)
        BY <1>3, <4>1, ExprParts
      <4>3. ~AtOrUnder(p, a)
        BY <2>6, <4>1, <4>2, AtOrUnderIsPrefix
      <4>. QED
        BY <2>2, <2>4, <3>2, <4>3 DEF Root, Invalidated, a
    <3>. QED
      BY <3>1, <3>2
  <2>7. ASSUME NEW k, Knows(t, k) PROVE Root(k[1], t) = Root(k[1], s)
    <3>1. Knows(s, k) /\ ~IsPrefix(p, k)
      BY <2>5, <2>7
    <3>2. /\ k[1] \in Locals /\ Rest(k, s) \in Seq(Slots) /\ k = Root(k[1], s) \o Rest(k, s)
          /\ Root(k[1], s) \in Expr
      BY <1>1, <3>1, ClearParts
    <3>3. ~IsPrefix(p, Root(k[1], s))
      <4>. DEFINE r == Root(k[1], s)  w == Rest(k, s)
      <4>1. r \in Seq(Word) /\ w \in Seq(Word) /\ p \in Seq(Word) /\ k = r \o w
        BY <1>3, <3>2, ExprParts, SlotsAreWords
      <4>. HIDE DEF r, w
      <4>2. ~IsPrefix(p, r)
        BY <3>1, <4>1, PrefixExtends
      <4>. QED
        BY <4>2 DEF r
    <3>. QED
      BY <2>6, <3>2, <3>3
  <2>8. Sound(t, m)
    BY <2>3, <2>7, Weakened
  <2>9. Root(lhs[1], t) = Root(lhs[1], s)
    BY <1>4, <1>5, <2>6
  <2>. QED
    BY <1>6, <2>2, <2>3, <2>5, <2>7, <2>8, <2>9
<1>. QED
  BY <1>8, <1>9

-----------------------------------------------------------------------------
(* What an assignment leaves in memory.                                    *)

\* Where a field is written is an object.
Ready(lhs, m) == IsBare(lhs) \/ Eval(Front(lhs), m) \in Objects

\* Finding the object whose field lhs is does not read that field.
Found(lhs, m) ==
    IsBare(lhs) \/ Avoids(m.env[lhs[1]], Tail(Front(lhs)), m, Eval(Front(lhs), m), Last(lhs))

\* n is m with v in lhs.
Stores(lhs, v, m, n) ==
    /\ n \in MemoryType
    /\ IsBare(lhs) => n.env = [m.env EXCEPT ![lhs[1]] = v] /\ Rebound(lhs[1], m, n)
    /\ ~IsBare(lhs) =>
          /\ n.env = m.env
          /\ \A l \in Locals, w \in Seq(Slots) :
                Avoids(m.env[l], w, m, Eval(Front(lhs), m), Last(lhs))
                   => EvalFrom(m.env[l], w, n) = EvalFrom(m.env[l], w, m)
    /\ Found(lhs, m) => Eval(lhs, n) = v

\* It has a field f that is not nil, unless the write of v went to that object.
HasField(lhs, v, f, m, n) ==
    Found(lhs, m) /\ (IsBare(lhs) \/ v # Eval(Front(lhs), m)) => Deref(v, f, n) # Nil

LEMMA StoreWritten ==
    ASSUME NEW m \in MemoryType, NEW b \in MemoryType, Agrees(m, b), NEW lhs \in Expr, Ready(lhs, m),
           NEW v \in Value, IsBare(lhs) \/ v \in Objects \cup {Nil}, NEW visible \in BOOLEAN,
           NEW n, n = Store(lhs, v, visible, b)
    PROVE  /\ Stores(lhs, v, m, n)
           /\ \A f \in Slots : Deref(v, f, b) # Nil => HasField(lhs, v, f, m, n)
<1>1. lhs[1] \in Locals
  BY ExprParts
<1>2. \A l \in Locals, w \in Seq(Slots) : EvalFrom(m.env[l], w, b) = EvalFrom(m.env[l], w, m)
  BY LocalsAgree
<1>3. b.env = m.env
  BY DEF Agrees
<1>4. CASE IsBare(lhs)
  <2>. DEFINE x == lhs[1]
  <2>1. lhs = <<x>>
    <3>1. lhs \in Seq(Word)
      BY ExprParts
    <3>2. Len(lhs) = 1
      BY <1>4 DEF IsBare
    <3>. QED
      BY <3>1, <3>2
  <2>. HIDE DEF x
  <2>2. x \in Locals
    BY <1>1 DEF x
  <2>3. n = Store(<<x>>, v, visible, b)
    BY <2>1
  <2>4. /\ n \in MemoryType /\ n.env = [b.env EXCEPT ![x] = v]
        /\ \A l \in Locals, w \in Seq(Slots) : EvalFrom(n.env[l], w, n) = EvalFrom(n.env[l], w, b)
    BY <2>2, <2>3, StoreLocal
  <2>5. n.env[x] = v /\ \A l \in Locals \ {x} : n.env[l] = m.env[l]
    BY <1>3, <2>2, <2>4 DEF MemoryType
  <2>6. Rebound(x, m, n)
    <3>1. ASSUME NEW l \in Locals \ {x}, NEW w \in Seq(Slots)
          PROVE  EvalFrom(n.env[l], w, n) = EvalFrom(m.env[l], w, m)
      <4>1. EvalFrom(n.env[l], w, n) = EvalFrom(n.env[l], w, b)
        BY <2>4
      <4>2. EvalFrom(m.env[l], w, b) = EvalFrom(m.env[l], w, m)
        BY <1>2
      <4>3. n.env[l] = m.env[l]
        BY <2>5
      <4>. QED
        BY <4>1, <4>2, <4>3
    <3>. QED
      BY <2>5, <3>1 DEF Rebound
  <2>7. Eval(lhs, n) = v
    <3>1. Tail(<<x>>) = <<>> /\ <<x>>[1] = x
      BY <2>2, LocalIsExpr
    <3>. QED
      BY <2>1, <2>5, <3>1, EvalFromEmpty DEF Eval
  <2>8. ASSUME NEW f \in Slots PROVE Deref(v, f, n) = Deref(v, f, b)
    <3>1. <<>> \in Seq(Slots) /\ Append(<<>>, f) \in Seq(Slots)
      OBVIOUS
    <3>2. EvalFrom(v, Append(<<>>, f), n) = EvalFrom(v, Append(<<>>, f), b)
      BY <2>2, <2>4, <2>5, <3>1
    <3>3. \A q : EvalFrom(v, Append(<<>>, f), q) = Deref(EvalFrom(v, <<>>, q), f, q)
      BY <3>1, EvalFromAppend
    <3>. QED
      BY <3>2, <3>3, EvalFromEmpty
  <2>9. Stores(lhs, v, m, n)
    BY <1>3, <1>4, <2>4, <2>6, <2>7 DEF Stores, x
  <2>. QED
    BY <2>8, <2>9 DEF HasField
<1>5. CASE ~IsBare(lhs)
  <2>. DEFINE a == Eval(Front(lhs), m)  s == Last(lhs)  w0 == Tail(Front(lhs))
  <2>0. Len(lhs) # 1 /\ v \in Objects \cup {Nil} /\ a \in Objects
    BY <1>5 DEF IsBare, Ready
  <2>1. /\ Front(lhs) \in Expr /\ Front(lhs)[1] = lhs[1] /\ w0 \in Seq(Slots)
    BY <2>0, FrontParts
  <2>2. a = Eval(Front(lhs), b)
    <3>1. EvalFrom(m.env[lhs[1]], w0, b) = EvalFrom(m.env[lhs[1]], w0, m)
      BY <1>1, <1>2, <2>1
    <3>. QED
      BY <1>3, <2>1, <3>1 DEF Eval
  <2>3. ASSUME NEW l \in Locals, NEW w \in Seq(Slots), Avoids(m.env[l], w, m, a, s)
        PROVE  Avoids(b.env[l], w, b, a, s)
    <3>. SUFFICES ASSUME NEW i \in 1..Len(w), w[i] = s PROVE EvalFrom(b.env[l], SubSeq(w, 1, i - 1), b) # a
      BY DEF Avoids
    <3>1. EvalFrom(m.env[l], SubSeq(w, 1, i - 1), m) # a
      BY <2>3 DEF Avoids
    <3>2. SubSeq(w, 1, i - 1) \in Seq(Slots)
      OBVIOUS
    <3>. QED
      BY <1>2, <1>3, <3>1, <3>2
  <2>. HIDE DEF a
  <2>4. /\ n \in MemoryType /\ n.env = b.env
        /\ \A l \in Locals, w \in Seq(Slots) :
              Avoids(b.env[l], w, b, a, Last(lhs)) => EvalFrom(b.env[l], w, n) = EvalFrom(b.env[l], w, b)
        /\ Avoids(b.env[lhs[1]], Tail(Front(lhs)), b, a, Last(lhs)) =>
              Eval(lhs, n) = v /\ \A f \in Slots : v # a => Deref(v, f, n) = Deref(v, f, b)
    BY <2>0, <2>2, StoreField
  <2>5. \A l \in Locals, w \in Seq(Slots) :
           Avoids(m.env[l], w, m, a, Last(lhs)) => EvalFrom(m.env[l], w, n) = EvalFrom(m.env[l], w, m)
    BY <1>2, <1>3, <2>3, <2>4
  <2>6. ASSUME Found(lhs, m)
        PROVE  Eval(lhs, n) = v /\ \A f \in Slots : v # a => Deref(v, f, n) = Deref(v, f, b)
    <3>1. Avoids(m.env[lhs[1]], w0, m, a, s)
      BY <1>5, <2>6 DEF Found, a
    <3>2. Avoids(b.env[lhs[1]], w0, b, a, s)
      BY <1>1, <2>1, <2>3, <3>1
    <3>. QED
      BY <2>4, <3>2
  <2>7. Stores(lhs, v, m, n)
    BY <1>3, <1>5, <2>4, <2>5, <2>6 DEF Stores, a
  <2>. QED
    BY <1>5, <2>6, <2>7 DEF HasField, a
<1>. QED
  BY <1>4, <1>5

LEMMA FreshFacts ==
    ASSUME NEW m
    PROVE  Fresh(m) = Objects \ Kept(m)
  BY DEF Fresh, Kept

LEMMA AllocatedWritten ==
    ASSUME NEW m \in MemoryType, NEW lhs \in Expr, Ready(lhs, m), NEW set, set \subseteq Slots,
           NEW n, n \in Allocated(lhs, set, m)
    PROVE  \E v \in Objects \ Kept(m) :
              Stores(lhs, v, m, n) /\ \A f \in set : HasField(lhs, v, f, m, n)
<1>. DEFINE heap(new) == [o \in Objects |-> IF o = new[1] THEN [s \in Slots |-> IF s \in set THEN new[2][s] ELSE Nil]
                                            ELSE m.heap[o]]
<1>1. PICK new \in Fresh(m) \X [set -> Fresh(m)] : n = Store(lhs, new[1], FALSE, [m EXCEPT !.heap = heap(new)])
  BY DEF Allocated
<1>. DEFINE v == new[1]  g == new[2]  h == heap(new)  b == [m EXCEPT !.heap = h]
<1>2. v \in Objects \ Kept(m) /\ g \in [set -> Objects \ Kept(m)]
  BY <1>1, FreshFacts
<1>3. h \in Heaps
  BY <1>2 DEF Heaps, MemoryType
<1>4. \A o \in Kept(m) : h[o] = m.heap[o]
  BY <1>2, KeptIsClosed
<1>5. \A f \in set : h[v][f] = g[f]
  BY <1>2
<1>6. n = Store(lhs, v, FALSE, b)
  BY <1>1
<1>. HIDE DEF v, g, h
<1>7. b \in MemoryType /\ Agrees(m, b) /\ b.heap = h
  BY <1>3, <1>4, FreshIsUnseen
<1>. HIDE DEF b
<1>8. v \in Value
  BY <1>2 DEF Value
<1>9. /\ Stores(lhs, v, m, n)
      /\ \A f \in Slots : Deref(v, f, b) # Nil => HasField(lhs, v, f, m, n)
  BY <1>2, <1>6, <1>7, <1>8, StoreWritten
<1>10. ASSUME NEW f \in set PROVE HasField(lhs, v, f, m, n)
  <2>1. Nil \notin Objects
    BY MemoryAssumption
  <2>2. Deref(v, f, b) # Nil
    BY <1>2, <1>5, <1>7, <2>1 DEF Deref
  <2>. QED
    BY <1>9, <2>2
<1>. QED
  BY <1>2, <1>9, <1>10

LEMMA ReturnedWritten ==
    ASSUME NEW m \in MemoryType, NEW lhs \in Expr, Ready(lhs, m), NEW values, values \subseteq Value,
           IsBare(lhs) \/ values \subseteq Objects \cup {Nil}, NEW visible \in BOOLEAN,
           NEW n, n \in Returned(lhs, values, visible, m)
    PROVE  \E v \in values : Stores(lhs, v, m, n)
<1>. DEFINE got(v, new) == Store(lhs, v, visible /\ v = Nil,
                   [m EXCEPT !.heap = [o \in Objects |-> IF o = v /\ v \in Fresh(m) THEN new ELSE @[o]]])
            blanks == [Slots -> (Objects \ Fresh(m)) \cup {Nil}]
<1>0. Returned(lhs, values, visible, m) = {got(v, new) : v \in values, new \in blanks}
  BY DEF Returned
<1>. HIDE DEF got
<1>1. PICK v \in values, new \in blanks : n = got(v, new)
  BY <1>0
<1>. DEFINE h == [o \in Objects |-> IF o = v /\ v \in Fresh(m) THEN new ELSE m.heap[o]]
            b == [m EXCEPT !.heap = h]
            shown == visible /\ v = Nil
<1>2. h \in Heaps
  BY DEF Heaps, MemoryType
<1>3. \A o \in Kept(m) : h[o] = m.heap[o]
  BY FreshFacts, KeptIsClosed
<1>4. n = Store(lhs, v, shown, b)
  BY <1>1 DEF got
<1>. HIDE DEF h
<1>5. b \in MemoryType /\ Agrees(m, b)
  BY <1>2, <1>3, FreshIsUnseen
<1>6. v \in Value /\ (IsBare(lhs) \/ v \in Objects \cup {Nil}) /\ shown \in BOOLEAN
  OBVIOUS
<1>. HIDE DEF b, shown
<1>7. Stores(lhs, v, m, n)
  BY <1>4, <1>5, <1>6, StoreWritten
<1>. QED
  BY <1>7

-----------------------------------------------------------------------------
(* What a scope may be told.                                               *)

\* The aliases of a true scope, as the lemmas on paths need them.
LEMMA SoundAliases ==
    ASSUME NEW s, NEW m, Sound(s, m)
    PROVE  /\ AliasesClear(s)
           /\ \A l \in Locals : s.alias[l] # NoPath => m.env[l] = Meaning(s.alias[l], s, m)
  BY SoundClear DEF Sound, AliasHolds

\* Canonical paths mean what their expressions do.
LEMMA SoundCanonical ==
    ASSUME NEW s, NEW m, Sound(s, m), NEW e \in Expr
    PROVE  /\ Clear(Canonical(e, s.alias), s) /\ Meaning(Canonical(e, s.alias), s, m) = Eval(e, m)
           /\ Canonical(e, s.alias) = Root(e[1], s) \o Tail(e)
<1>1. AliasesClear(s) /\ \A l \in Locals : s.alias[l] # NoPath => m.env[l] = Meaning(s.alias[l], s, m)
  BY SoundAliases
<1>2. Clear(Canonical(e, s.alias), s) /\ Canonical(e, s.alias) = Root(e[1], s) \o Tail(e)
  BY <1>1, CanonicalIsClear
<1>3. Meaning(Canonical(e, s.alias), s, m) = Eval(e, m)
  BY <1>1, CanonicalMeaning
<1>. QED
  BY <1>2, <1>3

\* A field of what an expression leads to.
LEMMA SelectField ==
    ASSUME NEW s, AliasesClear(s), NEW e \in Expr, NEW f \in Slots
    PROVE  /\ e \o <<f>> \in Expr /\ (e \o <<f>>)[1] = e[1]
           /\ Canonical(e \o <<f>>, s.alias) = Canonical(e, s.alias) \o <<f>>
           /\ \A m : Eval(e \o <<f>>, m) = Deref(Eval(e, m), f, m)
<1>. DEFINE w == <<f>>  d == e \o w  r == Root(e[1], s)
<1>1. w \in Seq(Slots)
  OBVIOUS
<1>2. e[1] \in Locals /\ Tail(e) \in Seq(Slots)
  BY ExprParts
<1>3. r \in Expr
  BY <1>2, RootIsExpr
<1>4. d \in Expr /\ d[1] = e[1] /\ Tail(d) = Tail(e) \o w
  <2>. HIDE DEF w
  <2>. QED
    BY <1>1, ExprConcat
<1>5. Canonical(e, s.alias) = r \o Tail(e)
  BY CanonicalIsClear
<1>. HIDE DEF d
<1>6. Canonical(d, s.alias) = Root(d[1], s) \o Tail(d)
  BY <1>4, CanonicalIsClear
<1>7. r \o (Tail(e) \o w) = (r \o Tail(e)) \o w
  <2>. DEFINE u == Tail(e)
  <2>1. r \in Seq(Word) /\ u \in Seq(Word) /\ w \in Seq(Word)
    BY <1>1, <1>2, <1>3, ExprParts, SlotsAreWords
  <2>. HIDE DEF r, u, w
  <2>2. r \o (u \o w) = (r \o u) \o w
    BY <2>1
  <2>. QED
    BY <2>2 DEF u
<1>8. Canonical(d, s.alias) = Canonical(e, s.alias) \o w
  BY <1>4, <1>5, <1>6, <1>7
<1>9. ASSUME NEW m PROVE Eval(d, m) = Deref(Eval(e, m), f, m)
  <2>. DEFINE u == Tail(e)
  <2>1. u \o w = Append(u, f) /\ u \in Seq(Slots)
    BY <1>2
  <2>. HIDE DEF u, w
  <2>2. EvalFrom(m.env[e[1]], Append(u, f), m) = Deref(EvalFrom(m.env[e[1]], u, m), f, m)
    BY <2>1, EvalFromAppend
  <2>. QED
    BY <1>4, <2>1, <2>2 DEF Eval, u
<1>. QED
  BY <1>4, <1>8, <1>9 DEF d

\* Scopes with the same aliases give paths the same meaning.
LEMMA SameAliases ==
    ASSUME NEW s, NEW t, t.alias = s.alias
    PROVE  \A k : (Clear(k, t) <=> Clear(k, s)) /\ \A m : Meaning(k, t, m) = Meaning(k, s, m)
  BY DEF Root, Clear, Rest, Meaning

LEMMA WithSound ==
    ASSUME NEW s \in ScopeType, NEW m, Sound(s, m), NEW P, Vouched(P, s, m), NEW t, t = With(s, P)
    PROVE  t \in ScopeType /\ Sound(t, m)
<1>. DEFINE p == s.proven \cup P
<1>0. t = [s EXCEPT !.proven = p]
  BY DEF With
<1>1. p \in SUBSET Path
  <2>1. \A k \in P : k \in Path
    BY DEF Vouched, Clear, Expr
  <2>. QED
    BY <2>1, ScopeFields
<1>. HIDE DEF p
<1>2. t \in ScopeType /\ t.proven = p /\ t.alias = s.alias /\ t.errProof = s.errProof /\ t.nilable = s.nilable
  BY <1>0, <1>1, WithProven
<1>3. \A k : (Clear(k, t) <=> Clear(k, s)) /\ Meaning(k, t, m) = Meaning(k, s, m)
  BY <1>2, SameAliases
<1>4. Vouched(t.proven, t, m)
  BY <1>2, <1>3 DEF Sound, Vouched, p
<1>5. ASSUME NEW l \in Locals PROVE AliasHolds(l, t, m) /\ ErrorHolds(l, t, m) /\ StateHolds(l, t, m)
  <2>1. AliasHolds(l, s, m) /\ ErrorHolds(l, s, m) /\ StateHolds(l, s, m)
    BY DEF Sound
  <2>2. AliasHolds(l, t, m)
    BY <1>2, <1>3, <2>1 DEF AliasHolds
  <2>3. ErrorHolds(l, t, m)
    BY <1>2, <1>3, <2>1 DEF ErrorHolds
  <2>4. StateHolds(l, t, m)
    BY <1>2, <2>1 DEF StateHolds
  <2>. QED
    BY <2>2, <2>3, <2>4
<1>. QED
  BY <1>2, <1>4, <1>5 DEF Sound

-----------------------------------------------------------------------------
(* Paths.                                                                  *)

LEMMA CanonicalIsPath ==
    ASSUME NEW s \in ScopeType, NEW e \in Path, NEW p, p = Canonical(e, s.alias)
    PROVE  p \in Path /\ p[1] \in Locals
<1>. DEFINE a == s.alias[e[1]]  w == Tail(e)
<1>1. e \in Seq(Word) /\ e # <<>> /\ e[1] \in Locals
  BY DEF Path, Word
<1>2. a \in Path \cup {NoPath}
  BY <1>1, ScopeFields DEF Aliases
<1>3. CASE a = NoPath
  <2>1. p = e
    BY <1>3, Zenon DEF Canonical
  <2>. QED
    BY <1>1, <2>1
<1>4. CASE a # NoPath
  <2>1. p = a \o w
    BY <1>4, Zenon DEF Canonical
  <2>2. w \in Seq(Word)
    BY <1>1
  <2>3. a \in Seq(Word) /\ a # <<>> /\ a[1] \in Locals
    BY <1>2, <1>4 DEF Path, Word
  <2>. HIDE DEF a, w
  <2>4. a \o w \in Seq(Word) /\ a \o w # <<>> /\ (a \o w)[1] = a[1]
    BY <2>2, <2>3, ConcatFacts
  <2>. QED
    BY <2>1, <2>3, <2>4 DEF Path, Word
<1>. QED
  BY <1>3, <1>4

-----------------------------------------------------------------------------
(* Conditions.                                                             *)

LEMMA CondParts ==
    ASSUME NEW c \in Conds
    PROVE  /\ c.k \in ConditionKinds /\ Operators[c] \in Nat
           /\ c.k \in {"eq", "ne", "isnil", "test"} => c.e \in Expr
           /\ c.k = "not" => c.c \in Conds /\ c.c.k # "nil" /\ Operators[c.c] < Operators[c]
           /\ c.k \in {"and", "or"} => /\ c.l \in Conds /\ c.l.k # "nil" /\ Operators[c.l] < Operators[c]
                                       /\ c.r \in Conds /\ c.r.k # "nil" /\ Operators[c.r] < Operators[c]
<1>1. c.k = "not" => c.c \in Operands(c)
  BY DEF Operands
<1>2. c.k \in {"and", "or"} => c.l \in Operands(c) /\ c.r \in Operands(c)
  BY DEF Operands
<1>3. c.k \in ConditionKinds /\ Operators[c] \in Nat
      /\ \A d \in Operands(c) : d \in Conds /\ d.k # "nil" /\ Operators[d] < Operators[c]
  BY CondsAssumption
<1>4. c.k \in {"eq", "ne", "isnil", "test"} => c.e \in Expr
  BY MemoryAssumption
<1>. QED
  BY <1>1, <1>2, <1>3, <1>4

Ranks == [c \in Conds |-> Operators[c]]

LEMMA RanksTyped == Ranks \in [Conds -> Nat] /\ \A c \in Conds : Ranks[c] = Operators[c]
  BY CondParts DEF Ranks

Guards == [t : SUBSET Path, f : SUBSET Path]

\* What each kind of condition proves.
GuardsOf(d, g, s, r) ==
    /\ d.k \in {"eq", "ne"} => r = ComparisonGuards(d, s)
    /\ d.k = "isnil" => r = [t |-> {}, f |-> {Canonical(d.e, s.alias)}]
    /\ d.k = "not" => r = [t |-> g[d.c].f, f |-> g[d.c].t]
    /\ d.k = "and" => r = [t |-> g[d.l].t \cup g[d.r].t, f |-> {}]
    /\ d.k = "or" => r = [t |-> {}, f |-> g[d.l].f \cup g[d.r].f]
    /\ d.k \in {"test", "any", "nil"} => r = NoGuard

LEMMA GuardStepParts ==
    ASSUME NEW d \in Conds, NEW g, NEW s
    PROVE  GuardsOf(d, g, s, GuardStep(d, g, s))
<1>. DEFINE r == GuardStep(d, g, s)
<1>1. d.k \in {"eq", "ne"} => r = ComparisonGuards(d, s)
  BY Zenon DEF GuardStep
<1>2. d.k = "isnil" => r = [t |-> {}, f |-> {Canonical(d.e, s.alias)}]
  BY DEF GuardStep
<1>3. d.k = "not" => r = [t |-> g[d.c].f, f |-> g[d.c].t]
  BY DEF GuardStep
<1>4. d.k = "and" => r = [t |-> g[d.l].t \cup g[d.r].t, f |-> {}]
  BY DEF GuardStep
<1>5. d.k = "or" => r = [t |-> {}, f |-> g[d.l].f \cup g[d.r].f]
  BY DEF GuardStep
<1>6. d.k \in {"test", "any", "nil"} => r = NoGuard
  BY DEF GuardStep
<1>. QED
  BY <1>1, <1>2, <1>3, <1>4, <1>5, <1>6, Zenon DEF GuardsOf

LEMMA ComparisonTyped ==
    ASSUME NEW s \in ScopeType, NEW d \in Conds, d.k \in {"eq", "ne"}
    PROVE  ComparisonGuards(d, s) \in Guards
<1>. DEFINE path == Canonical(d.e, s.alias)
            implied == IF IsBare(path) THEN s.errProof[path[1]] ELSE {}
<1>1. d.e \in Path
  BY CondParts DEF Expr
<1>2. path \in Path /\ path[1] \in Locals
  BY <1>1, CanonicalIsPath
<1>3. s.errProof[path[1]] \subseteq Path
  BY <1>2, ScopeFields DEF ErrProofs
<1>. HIDE DEF path
<1>4. implied \subseteq Path
  BY <1>3
<1>. HIDE DEF implied
<1>5. {path} \subseteq Path
  BY <1>2
<1>6. ComparisonGuards(d, s) = IF d.k = "ne" THEN [t |-> {path}, f |-> implied] ELSE [t |-> implied, f |-> {path}]
  BY Zenon DEF ComparisonGuards, path, implied
<1>. QED
  BY <1>4, <1>5, <1>6 DEF Guards

LEMMA GuardStepTyped ==
    ASSUME NEW s \in ScopeType, NEW d \in Conds, NEW g \in [Conds -> Guards]
    PROVE  GuardStep(d, g, s) \in Guards
<1>. DEFINE r == GuardStep(d, g, s)
<1>1. GuardsOf(d, g, s, r)
  BY GuardStepParts
<1>. SUFFICES r \in Guards
  OBVIOUS
<1>. HIDE DEF r
<1>2. CASE d.k \in {"eq", "ne"}
  BY <1>1, <1>2, ComparisonTyped DEF GuardsOf
<1>3. CASE d.k = "isnil"
  <2>1. d.e \in Path
    BY <1>3, CondParts DEF Expr
  <2>2. Canonical(d.e, s.alias) \in Path
    BY <2>1, CanonicalIsPath
  <2>. QED
    BY <1>1, <1>3, <2>2 DEF GuardsOf, Guards
<1>4. CASE d.k = "not"
  <2>1. g[d.c] \in Guards
    BY <1>4, CondParts
  <2>. QED
    BY <1>1, <1>4, <2>1 DEF GuardsOf, Guards
<1>5. CASE d.k = "and"
  <2>1. g[d.l] \in Guards /\ g[d.r] \in Guards
    BY <1>5, CondParts
  <2>. QED
    BY <1>1, <1>5, <2>1 DEF GuardsOf, Guards
<1>6. CASE d.k = "or"
  <2>1. g[d.l] \in Guards /\ g[d.r] \in Guards
    BY <1>6, CondParts
  <2>. QED
    BY <1>1, <1>6, <2>1 DEF GuardsOf, Guards
<1>7. CASE d.k \in {"test", "any", "nil"}
  BY <1>1, <1>7 DEF GuardsOf, Guards, NoGuard
<1>. QED
  BY <1>2, <1>3, <1>4, <1>5, <1>6, <1>7, CondParts DEF ConditionKinds

\* Operands are of lower rank.
LEMMA GuardStepLooksBelow ==
    ASSUME NEW s \in ScopeType, NEW d \in Conds, NEW g, NEW h,
           \A e \in Conds : Operators[e] < Operators[d] => g[e] = h[e]
    PROVE  GuardStep(d, g, s) = GuardStep(d, h, s)
<1>. DEFINE r == GuardStep(d, g, s)  q == GuardStep(d, h, s)
<1>1. GuardsOf(d, g, s, r) /\ GuardsOf(d, h, s, q)
  BY GuardStepParts
<1>. SUFFICES r = q
  OBVIOUS
<1>. HIDE DEF r, q
<1>2. CASE d.k \in {"eq", "ne", "isnil", "test", "any", "nil"}
  BY <1>1, <1>2 DEF GuardsOf
<1>3. CASE d.k = "not"
  <2>1. g[d.c] = h[d.c]
    BY <1>3, CondParts
  <2>. QED
    BY <1>1, <1>3, <2>1 DEF GuardsOf
<1>4. CASE d.k \in {"and", "or"}
  <2>1. g[d.l] = h[d.l] /\ g[d.r] = h[d.r]
    BY <1>4, CondParts
  <2>. QED
    BY <1>1, <1>4, <2>1 DEF GuardsOf
<1>. QED
  BY <1>2, <1>3, <1>4, CondParts DEF ConditionKinds

LEMMA NilGuardsUnfold ==
    ASSUME NEW s \in ScopeType
    PROVE  \E g : \A d \in Conds : NilGuards(d, s) = g[d] /\ g[d] = GuardStep(d, g, s)
<1>. DEFINE Is(g) == g = [d \in Conds |-> GuardStep(d, g, s)]
            h == CHOOSE g : Is(g)
            step == [d \in Conds |-> [g \in [Conds -> Guards] |-> GuardStep(d, g, s)]]
<1>1. \A d \in Conds : NilGuards(d, s) = h[d]
  BY DEF NilGuards
<1>2. step \in [Conds -> [[Conds -> Guards] -> Guards]]
      /\ \A d \in Conds, g \in [Conds -> Guards] : step[d][g] = GuardStep(d, g, s)
  BY GuardStepTyped
<1>. HIDE DEF step
<1>3. \A d \in Conds : \A g, k \in [Conds -> Guards] :
          (\A e \in Conds : Ranks[e] < Ranks[d] => g[e] = k[e]) => step[d][g] = step[d][k]
  <2>. SUFFICES ASSUME NEW d \in Conds, NEW g \in [Conds -> Guards], NEW k \in [Conds -> Guards],
                       \A e \in Conds : Ranks[e] < Ranks[d] => g[e] = k[e]
                PROVE  step[d][g] = step[d][k]
    OBVIOUS
  <2>1. \A e \in Conds : Operators[e] < Operators[d] => g[e] = k[e]
    BY RanksTyped
  <2>2. GuardStep(d, g, s) = GuardStep(d, k, s)
    BY <2>1, GuardStepLooksBelow
  <2>. QED
    BY <1>2, <2>2
<1>4. LooksBelow(Conds, Guards, Ranks, step)
  BY <1>2, <1>3, RanksTyped DEF LooksBelow
<1>5. Guards # {}
  <2>1. NoGuard \in Guards
    BY DEF NoGuard, Guards
  <2>. QED
    BY <2>1
<1>6. PICK g \in [Conds -> Guards] : g = [d \in Conds |-> step[d][g]]
  BY <1>4, <1>5, RankRecursion
<1>7. g = [d \in Conds |-> GuardStep(d, g, s)]
  BY <1>2, <1>6
<1>8. Is(g)
  BY <1>7
<1>9. Is(h)
  BY <1>8
<1>10. h = [d \in Conds |-> GuardStep(d, h, s)]
  <2>. HIDE DEF h
  <2>. QED
    BY <1>9
<1>. QED
  BY <1>1, <1>10

\* What a condition proves is what its parts do.
LEMMA NilGuardsAre ==
    ASSUME NEW s \in ScopeType
    PROVE  \E g \in [Conds -> Guards] :
              \A d \in Conds : NilGuards(d, s) = g[d] /\ GuardsOf(d, g, s, g[d])
<1>1. PICK g : \A d \in Conds : NilGuards(d, s) = g[d] /\ g[d] = GuardStep(d, g, s)
  BY NilGuardsUnfold
<1>. DEFINE h == [d \in Conds |-> g[d]]
            P == {d \in Conds : h[d] \in Guards}
<1>2. ASSUME NEW d \in Conds, \A e \in Conds : Ranks[e] < Ranks[d] => e \in P
      PROVE  d \in P
  <2>. DEFINE k == [e \in Conds |-> IF h[e] \in Guards THEN h[e] ELSE NoGuard]
  <2>1. k \in [Conds -> Guards]
    BY DEF NoGuard, Guards
  <2>2. \A e \in Conds : Operators[e] < Operators[d] => g[e] = k[e]
    BY <1>2, RanksTyped
  <2>. HIDE DEF k
  <2>3. GuardStep(d, g, s) = GuardStep(d, k, s)
    BY <2>2, GuardStepLooksBelow
  <2>4. GuardStep(d, k, s) \in Guards
    BY <2>1, GuardStepTyped
  <2>. QED
    BY <1>1, <2>3, <2>4
<1>3. Conds \subseteq P
  <2>. HIDE DEF P
  <2>. QED
    BY <1>2, RanksTyped, RankInduction
<1>4. h \in [Conds -> Guards] /\ \A d \in Conds : h[d] = g[d]
  BY <1>3
<1>5. ASSUME NEW d \in Conds PROVE GuardsOf(d, h, s, h[d])
  <2>1. \A e \in Conds : Operators[e] < Operators[d] => g[e] = h[e]
    BY <1>4
  <2>. HIDE DEF h
  <2>2. GuardStep(d, g, s) = GuardStep(d, h, s)
    BY <2>1, GuardStepLooksBelow
  <2>3. h[d] = GuardStep(d, h, s)
    BY <1>1, <1>4, <2>2
  <2>. QED
    BY <2>3, GuardStepParts
<1>6. \A d \in Conds : NilGuards(d, s) = h[d]
  BY <1>1, <1>4
<1>. HIDE DEF h
<1>. QED
  BY <1>4, <1>5, <1>6

\* What evaluating each kind of condition comes to.
OutcomeOf(d, g, m, r) ==
    /\ d.k = "not" => r = [yes |-> g[d.c].no, no |-> g[d.c].yes, dies |-> g[d.c].dies]
    /\ d.k = "and" => r = [yes  |-> g[d.l].yes /\ g[d.r].yes,
                           no   |-> g[d.l].no \/ (g[d.l].yes /\ g[d.r].no),
                           dies |-> g[d.l].dies \cup IF g[d.l].yes THEN g[d.r].dies ELSE {}]
    /\ d.k = "or" => r = [yes  |-> g[d.l].yes \/ (g[d.l].no /\ g[d.r].yes),
                          no   |-> g[d.l].no /\ g[d.r].no,
                          dies |-> g[d.l].dies \cup IF g[d.l].no THEN g[d.r].dies ELSE {}]
    /\ d.k = "any" => r = [yes |-> TRUE, no |-> TRUE, dies |-> {}]
    /\ d.k = "test" => r = [yes  |-> FirstFaults(Through(d.e), m) = {},
                            no   |-> FirstFaults(Through(d.e), m) = {},
                            dies |-> FirstFaults(Through(d.e), m)]
    /\ d.k \in {"eq", "ne", "isnil", "nil"} =>
          r = [yes  |-> FirstFaults(Proper(d.e), m) = {} /\ Atom(d, m).yes,
               no   |-> FirstFaults(Proper(d.e), m) = {} /\ Atom(d, m).no,
               dies |-> FirstFaults(Proper(d.e), m)]

LEMMA OutcomeStepParts ==
    ASSUME NEW d \in Conds, NEW g, NEW m
    PROVE  OutcomeOf(d, g, m, OutcomeStep(d, g, m))
<1>. DEFINE r == OutcomeStep(d, g, m)
<1>1. d.k = "not" => r = [yes |-> g[d.c].no, no |-> g[d.c].yes, dies |-> g[d.c].dies]
  BY DEF OutcomeStep
<1>2. d.k = "and" => r = [yes  |-> g[d.l].yes /\ g[d.r].yes,
                           no   |-> g[d.l].no \/ (g[d.l].yes /\ g[d.r].no),
                           dies |-> g[d.l].dies \cup IF g[d.l].yes THEN g[d.r].dies ELSE {}]
  BY DEF OutcomeStep
<1>3. d.k = "or" => r = [yes  |-> g[d.l].yes \/ (g[d.l].no /\ g[d.r].yes),
                          no   |-> g[d.l].no /\ g[d.r].no,
                          dies |-> g[d.l].dies \cup IF g[d.l].no THEN g[d.r].dies ELSE {}]
  BY DEF OutcomeStep
<1>4. d.k = "any" => r = [yes |-> TRUE, no |-> TRUE, dies |-> {}]
  BY DEF OutcomeStep
<1>5. d.k = "test" => r = [yes  |-> FirstFaults(Through(d.e), m) = {},
                            no   |-> FirstFaults(Through(d.e), m) = {},
                            dies |-> FirstFaults(Through(d.e), m)]
  BY DEF OutcomeStep
<1>6. d.k \in {"eq", "ne", "isnil", "nil"} =>
          r = [yes  |-> FirstFaults(Proper(d.e), m) = {} /\ Atom(d, m).yes,
               no   |-> FirstFaults(Proper(d.e), m) = {} /\ Atom(d, m).no,
               dies |-> FirstFaults(Proper(d.e), m)]
  BY DEF OutcomeStep
<1>. QED
  BY <1>1, <1>2, <1>3, <1>4, <1>5, <1>6, Zenon DEF OutcomeOf

\* What a condition can come to.
Panics(m) == UNION {FirstFaults(Proper(d.e), m) \cup FirstFaults(Through(d.e), m) : d \in Conds}

Ends(m) == [yes : BOOLEAN, no : BOOLEAN, dies : SUBSET Panics(m)]

LEMMA OutcomeStepTyped ==
    ASSUME NEW m, NEW d \in Conds, NEW g \in [Conds -> Ends(m)]
    PROVE  OutcomeStep(d, g, m) \in Ends(m)
<1>. DEFINE r == OutcomeStep(d, g, m)
<1>1. OutcomeOf(d, g, m, r)
  BY OutcomeStepParts
<1>. SUFFICES r \in Ends(m)
  OBVIOUS
<1>. HIDE DEF r
<1>2. CASE d.k = "not"
  <2>1. g[d.c] \in Ends(m)
    BY <1>2, CondParts
  <2>. QED
    BY <1>1, <1>2, <2>1 DEF OutcomeOf, Ends
<1>3. CASE d.k = "and"
  <2>1. g[d.l] \in Ends(m) /\ g[d.r] \in Ends(m)
    BY <1>3, CondParts
  <2>. QED
    BY <1>1, <1>3, <2>1 DEF OutcomeOf, Ends
<1>4. CASE d.k = "or"
  <2>1. g[d.l] \in Ends(m) /\ g[d.r] \in Ends(m)
    BY <1>4, CondParts
  <2>. QED
    BY <1>1, <1>4, <2>1 DEF OutcomeOf, Ends
<1>5. CASE d.k = "any"
  <2>1. r = [yes |-> TRUE, no |-> TRUE, dies |-> {}]
    BY <1>1, <1>5 DEF OutcomeOf
  <2>. QED
    BY <2>1 DEF Ends
<1>6. CASE d.k = "test"
  <2>. DEFINE dies == FirstFaults(Through(d.e), m)
  <2>1. dies \subseteq Panics(m)
    BY DEF Panics
  <2>2. r = [yes |-> dies = {}, no |-> dies = {}, dies |-> dies]
    BY <1>1, <1>6 DEF OutcomeOf
  <2>. HIDE DEF dies
  <2>. QED
    BY <2>1, <2>2 DEF Ends
<1>7. CASE d.k \in {"eq", "ne", "isnil", "nil"}
  <2>. DEFINE dies == FirstFaults(Proper(d.e), m)
              yes == dies = {} /\ Atom(d, m).yes
              no == dies = {} /\ Atom(d, m).no
  <2>1. dies \subseteq Panics(m)
    BY DEF Panics
  <2>2. r = [yes |-> yes, no |-> no, dies |-> dies]
    BY <1>1, <1>7 DEF OutcomeOf
  <2>3. yes \in BOOLEAN /\ no \in BOOLEAN
    OBVIOUS
  <2>. HIDE DEF dies, yes, no
  <2>. QED
    BY <2>1, <2>2, <2>3 DEF Ends
<1>. QED
  BY <1>2, <1>3, <1>4, <1>5, <1>6, <1>7, CondParts DEF ConditionKinds

LEMMA OutcomeStepLooksBelow ==
    ASSUME NEW m, NEW d \in Conds, NEW g, NEW h,
           \A e \in Conds : Operators[e] < Operators[d] => g[e] = h[e]
    PROVE  OutcomeStep(d, g, m) = OutcomeStep(d, h, m)
<1>. DEFINE r == OutcomeStep(d, g, m)  q == OutcomeStep(d, h, m)
<1>1. OutcomeOf(d, g, m, r) /\ OutcomeOf(d, h, m, q)
  BY OutcomeStepParts
<1>. SUFFICES r = q
  OBVIOUS
<1>. HIDE DEF r, q
<1>2. CASE d.k \in {"eq", "ne", "isnil", "test", "any", "nil"}
  BY <1>1, <1>2 DEF OutcomeOf
<1>3. CASE d.k = "not"
  <2>1. g[d.c] = h[d.c]
    BY <1>3, CondParts
  <2>. QED
    BY <1>1, <1>3, <2>1 DEF OutcomeOf
<1>4. CASE d.k \in {"and", "or"}
  <2>1. g[d.l] = h[d.l] /\ g[d.r] = h[d.r]
    BY <1>4, CondParts
  <2>. QED
    BY <1>1, <1>4, <2>1 DEF OutcomeOf
<1>. QED
  BY <1>2, <1>3, <1>4, CondParts DEF ConditionKinds

LEMMA OutcomeUnfold ==
    ASSUME NEW m
    PROVE  \E g : \A d \in Conds : Outcome(d, m) = g[d] /\ g[d] = OutcomeStep(d, g, m)
<1>. DEFINE Is(g) == g = [d \in Conds |-> OutcomeStep(d, g, m)]
            h == CHOOSE g : Is(g)
            step == [d \in Conds |-> [g \in [Conds -> Ends(m)] |-> OutcomeStep(d, g, m)]]
<1>1. \A d \in Conds : Outcome(d, m) = h[d]
  BY DEF Outcome
<1>2. step \in [Conds -> [[Conds -> Ends(m)] -> Ends(m)]]
      /\ \A d \in Conds, g \in [Conds -> Ends(m)] : step[d][g] = OutcomeStep(d, g, m)
  BY OutcomeStepTyped
<1>. HIDE DEF step
<1>3. \A d \in Conds : \A g, k \in [Conds -> Ends(m)] :
          (\A e \in Conds : Ranks[e] < Ranks[d] => g[e] = k[e]) => step[d][g] = step[d][k]
  <2>. SUFFICES ASSUME NEW d \in Conds, NEW g \in [Conds -> Ends(m)], NEW k \in [Conds -> Ends(m)],
                       \A e \in Conds : Ranks[e] < Ranks[d] => g[e] = k[e]
                PROVE  step[d][g] = step[d][k]
    OBVIOUS
  <2>1. \A e \in Conds : Operators[e] < Operators[d] => g[e] = k[e]
    BY RanksTyped
  <2>2. OutcomeStep(d, g, m) = OutcomeStep(d, k, m)
    BY <2>1, OutcomeStepLooksBelow
  <2>. QED
    BY <1>2, <2>2
<1>4. LooksBelow(Conds, Ends(m), Ranks, step)
  BY <1>2, <1>3, RanksTyped DEF LooksBelow
<1>5. Ends(m) # {}
  <2>1. [yes |-> TRUE, no |-> TRUE, dies |-> {}] \in Ends(m)
    BY DEF Ends
  <2>. QED
    BY <2>1
<1>6. PICK g \in [Conds -> Ends(m)] : g = [d \in Conds |-> step[d][g]]
  BY <1>4, <1>5, RankRecursion
<1>7. g = [d \in Conds |-> OutcomeStep(d, g, m)]
  BY <1>2, <1>6
<1>8. Is(g)
  BY <1>7
<1>9. Is(h)
  BY <1>8
<1>10. h = [d \in Conds |-> OutcomeStep(d, h, m)]
  <2>. HIDE DEF h
  <2>. QED
    BY <1>9
<1>. QED
  BY <1>1, <1>10

LEMMA OutcomeAre ==
    ASSUME NEW m
    PROVE  \E g : \A d \in Conds : Outcome(d, m) = g[d] /\ OutcomeOf(d, g, m, g[d])
<1>1. PICK g : \A d \in Conds : Outcome(d, m) = g[d] /\ g[d] = OutcomeStep(d, g, m)
  BY OutcomeUnfold
<1>2. \A d \in Conds : OutcomeOf(d, g, m, g[d])
  BY <1>1, OutcomeStepParts
<1>. QED
  BY <1>1, <1>2

\* A local that is its own canonical path.
LEMMA BareMeaning ==
    ASSUME NEW s, NEW m, AliasesClear(s), NEW k, Clear(k, s), IsBare(k)
    PROVE  k = <<k[1]>> /\ k[1] \in Locals /\ Meaning(k, s, m) = m.env[k[1]]
<1>. DEFINE r == Root(k[1], s)  w == Rest(k, s)
<1>1. k \in Expr /\ k[1] \in Locals /\ r \in Expr /\ w \in Seq(Slots) /\ k = r \o w
  BY ClearParts
<1>2. Len(k) = 1 /\ k \in Seq(Word) /\ r \in Seq(Word) /\ w \in Seq(Word) /\ r # <<>>
  BY <1>1, ExprParts, SlotsAreWords DEF IsBare
<1>3. Meaning(k, s, m) = EvalFrom(m.env[k[1]], w, m)
  BY DEF Meaning
<1>. HIDE DEF r, w
<1>4. Len(k) = Len(r) + Len(w) /\ Len(r) \in Nat /\ Len(w) \in Nat /\ Len(r) > 0
  BY <1>1, <1>2, ConcatFacts
<1>5. w = <<>>
  <2>1. \A a, b \in Nat : a > 0 /\ 1 = a + b => b = 0
    OBVIOUS
  <2>2. Len(w) = 0
    BY <1>2, <1>4, <2>1, Zenon
  <2>. QED
    BY <1>2, <2>2
<1>6. k = <<k[1]>>
  BY <1>2
<1>. QED
  BY <1>1, <1>3, <1>5, <1>6, EvalFromEmpty

\* Where a comparison with nil holds or fails, its paths are not nil.
LEMMA ComparisonHolds ==
    ASSUME NEW s \in ScopeType, NEW m, Sound(s, m), NEW e \in Expr,
           NEW path, path = Canonical(e, s.alias),
           NEW implied, implied = IF IsBare(path) THEN s.errProof[path[1]] ELSE {}
    PROVE  /\ Eval(e, m) # Nil => Vouched({path}, s, m)
           /\ Eval(e, m) = Nil => Vouched(implied, s, m)
<1>1. Clear(path, s) /\ Meaning(path, s, m) = Eval(e, m)
  BY SoundCanonical
<1>2. Eval(e, m) # Nil => Vouched({path}, s, m)
  BY <1>1 DEF Vouched
<1>3. ASSUME Eval(e, m) = Nil, IsBare(path) PROVE Vouched(implied, s, m)
  <2>1. AliasesClear(s)
    BY SoundClear
  <2>2. path[1] \in Locals /\ m.env[path[1]] = Nil
    BY <1>1, <1>3, <2>1, BareMeaning
  <2>3. ErrorHolds(path[1], s, m)
    BY <2>2 DEF Sound
  <2>4. implied = s.errProof[path[1]]
    BY <1>3
  <2>. QED
    BY <2>2, <2>3, <2>4 DEF ErrorHolds, Vouched
<1>4. ~IsBare(path) => Vouched(implied, s, m)
  BY DEF Vouched
<1>. QED
  BY <1>2, <1>3, <1>4

\* Where the execution goes on, so it did in what the condition is made of.
Came(d, g, m, r) ==
    /\ d.k = "not" => (r.yes => g[d.c].no) /\ (r.no => g[d.c].yes)
    /\ d.k = "and" => (r.yes => g[d.l].yes /\ g[d.r].yes)
    /\ d.k = "or" => (r.no => g[d.l].no /\ g[d.r].no)
    /\ d.k \in {"eq", "ne", "isnil", "nil"} => (r.yes => Atom(d, m).yes) /\ (r.no => Atom(d, m).no)

LEMMA OutcomeCame ==
    ASSUME NEW d, NEW g, NEW m, NEW r, OutcomeOf(d, g, m, r)
    PROVE  Came(d, g, m, r)
<1>1. ASSUME d.k = "not" PROVE (r.yes => g[d.c].no) /\ (r.no => g[d.c].yes)
  <2>1. r = [yes |-> g[d.c].no, no |-> g[d.c].yes, dies |-> g[d.c].dies]
    BY <1>1 DEF OutcomeOf
  <2>. QED
    BY <2>1
<1>2. ASSUME d.k = "and" PROVE r.yes => g[d.l].yes /\ g[d.r].yes
  <2>. DEFINE no == g[d.l].no \/ (g[d.l].yes /\ g[d.r].no)
              dies == g[d.l].dies \cup IF g[d.l].yes THEN g[d.r].dies ELSE {}
  <2>1. r = [yes |-> g[d.l].yes /\ g[d.r].yes, no |-> no, dies |-> dies]
    BY <1>2, Zenon DEF OutcomeOf
  <2>. HIDE DEF no, dies
  <2>2. r.yes = (g[d.l].yes /\ g[d.r].yes)
    BY <2>1
  <2>. QED
    BY <2>2
<1>3. ASSUME d.k = "or" PROVE r.no => g[d.l].no /\ g[d.r].no
  <2>. DEFINE yes == g[d.l].yes \/ (g[d.l].no /\ g[d.r].yes)
              dies == g[d.l].dies \cup IF g[d.l].no THEN g[d.r].dies ELSE {}
  <2>1. r = [yes |-> yes, no |-> g[d.l].no /\ g[d.r].no, dies |-> dies]
    BY <1>3, Zenon DEF OutcomeOf
  <2>. HIDE DEF yes, dies
  <2>2. r.no = (g[d.l].no /\ g[d.r].no)
    BY <2>1
  <2>. QED
    BY <2>2
<1>4. ASSUME d.k \in {"eq", "ne", "isnil", "nil"} PROVE (r.yes => Atom(d, m).yes) /\ (r.no => Atom(d, m).no)
  <2>. DEFINE dies == FirstFaults(Proper(d.e), m)
  <2>1. r = [yes |-> dies = {} /\ Atom(d, m).yes, no |-> dies = {} /\ Atom(d, m).no, dies |-> dies]
    BY <1>4, Zenon DEF OutcomeOf
  <2>. HIDE DEF dies
  <2>2. r.yes = (dies = {} /\ Atom(d, m).yes) /\ r.no = (dies = {} /\ Atom(d, m).no)
    BY <2>1
  <2>. QED
    BY <2>2
<1>. QED
  BY <1>1, <1>2, <1>3, <1>4 DEF Came

LEMMA AtomIs ==
    ASSUME NEW c, NEW m
    PROVE  /\ c.k = "eq" => Atom(c, m).yes = (Eval(c.e, m) = Nil) /\ Atom(c, m).no = (Eval(c.e, m) # Nil)
           /\ c.k = "ne" => Atom(c, m).yes = (Eval(c.e, m) # Nil) /\ Atom(c, m).no = (Eval(c.e, m) = Nil)
           /\ c.k = "isnil" => Atom(c, m).no = (Eval(c.e, m) # Nil)
<1>. DEFINE nil == Eval(c.e, m) = Nil
<1>1. c.k = "eq" => Atom(c, m) = [yes |-> nil, no |-> ~nil]
  BY DEF Atom
<1>2. c.k = "ne" => Atom(c, m) = [yes |-> ~nil, no |-> nil]
  BY DEF Atom
<1>3. c.k = "isnil" => Atom(c, m) = [yes |-> TRUE, no |-> ~nil]
  BY DEF Atom
<1>. QED
  BY <1>1, <1>2, <1>3

\* What it can panic at comes from what it is made of.
Died(d, g, m, r) ==
    /\ d.k = "not" => r.dies = g[d.c].dies
    /\ d.k = "and" => r.dies = g[d.l].dies \cup IF g[d.l].yes THEN g[d.r].dies ELSE {}
    /\ d.k = "or" => r.dies = g[d.l].dies \cup IF g[d.l].no THEN g[d.r].dies ELSE {}
    /\ d.k = "any" => r.dies = {}
    /\ d.k = "test" => r.dies = FirstFaults(Through(d.e), m)
    /\ d.k \in {"eq", "ne", "isnil", "nil"} => r.dies = FirstFaults(Proper(d.e), m)

LEMMA OutcomeDied ==
    ASSUME NEW d, NEW g, NEW m, NEW r, OutcomeOf(d, g, m, r)
    PROVE  Died(d, g, m, r)
<1>0. \A yes, no, dies : [yes |-> yes, no |-> no, dies |-> dies].dies = dies
  OBVIOUS
<1>1. ASSUME d.k = "not" PROVE r.dies = g[d.c].dies
  <2>. DEFINE yes == g[d.c].no
              no == g[d.c].yes
              dies == g[d.c].dies
  <2>1. r = [yes |-> yes, no |-> no, dies |-> dies]
    BY <1>1, Zenon DEF OutcomeOf
  <2>. HIDE DEF yes, no, dies
  <2>2. r.dies = dies
    BY <2>1, <1>0, Zenon
  <2>. QED
    BY <2>2 DEF dies
<1>2. ASSUME d.k = "and" PROVE r.dies = g[d.l].dies \cup IF g[d.l].yes THEN g[d.r].dies ELSE {}
  <2>. DEFINE yes == g[d.l].yes /\ g[d.r].yes
              no == g[d.l].no \/ (g[d.l].yes /\ g[d.r].no)
              dies == g[d.l].dies \cup IF g[d.l].yes THEN g[d.r].dies ELSE {}
  <2>1. r = [yes |-> yes, no |-> no, dies |-> dies]
    BY <1>2, Zenon DEF OutcomeOf
  <2>. HIDE DEF yes, no, dies
  <2>2. r.dies = dies
    BY <2>1, <1>0, Zenon
  <2>. QED
    BY <2>2 DEF dies
<1>3. ASSUME d.k = "or" PROVE r.dies = g[d.l].dies \cup IF g[d.l].no THEN g[d.r].dies ELSE {}
  <2>. DEFINE yes == g[d.l].yes \/ (g[d.l].no /\ g[d.r].yes)
              no == g[d.l].no /\ g[d.r].no
              dies == g[d.l].dies \cup IF g[d.l].no THEN g[d.r].dies ELSE {}
  <2>1. r = [yes |-> yes, no |-> no, dies |-> dies]
    BY <1>3, Zenon DEF OutcomeOf
  <2>. HIDE DEF yes, no, dies
  <2>2. r.dies = dies
    BY <2>1, <1>0, Zenon
  <2>. QED
    BY <2>2 DEF dies
<1>4. ASSUME d.k = "any" PROVE r.dies = {}
  <2>. DEFINE yes == TRUE
              no == TRUE
              dies == {}
  <2>1. r = [yes |-> yes, no |-> no, dies |-> dies]
    BY <1>4, Zenon DEF OutcomeOf
  <2>. HIDE DEF yes, no, dies
  <2>2. r.dies = dies
    BY <2>1, <1>0, Zenon
  <2>. QED
    BY <2>2 DEF dies
<1>5. ASSUME d.k = "test" PROVE r.dies = FirstFaults(Through(d.e), m)
  <2>. DEFINE yes == FirstFaults(Through(d.e), m) = {}
              no == FirstFaults(Through(d.e), m) = {}
              dies == FirstFaults(Through(d.e), m)
  <2>1. r = [yes |-> yes, no |-> no, dies |-> dies]
    BY <1>5, Zenon DEF OutcomeOf
  <2>. HIDE DEF yes, no, dies
  <2>2. r.dies = dies
    BY <2>1, <1>0, Zenon
  <2>. QED
    BY <2>2 DEF dies
<1>6. ASSUME d.k \in {"eq", "ne", "isnil", "nil"} PROVE r.dies = FirstFaults(Proper(d.e), m)
  <2>. DEFINE yes == FirstFaults(Proper(d.e), m) = {} /\ Atom(d, m).yes
              no == FirstFaults(Proper(d.e), m) = {} /\ Atom(d, m).no
              dies == FirstFaults(Proper(d.e), m)
  <2>1. r = [yes |-> yes, no |-> no, dies |-> dies]
    BY <1>6, Zenon DEF OutcomeOf
  <2>. HIDE DEF yes, no, dies
  <2>2. r.dies = dies
    BY <2>1, <1>0, Zenon
  <2>. QED
    BY <2>2 DEF dies
<1>. QED
  BY <1>1, <1>2, <1>3, <1>4, <1>5, <1>6 DEF Died

GuardHolds(g, out, s, m) ==
    (out.yes => Vouched(g.t, s, m)) /\ (out.no => Vouched(g.f, s, m))

\* What a condition proves is so, where the execution goes on with it.
LEMMA GuardsHold ==
    ASSUME NEW s \in ScopeType, NEW m, Sound(s, m)
    PROVE  \A c \in Conds : c.k # "nil" => GuardHolds(NilGuards(c, s), Outcome(c, m), s, m)
<1>1. PICK g \in [Conds -> Guards] : \A d \in Conds : NilGuards(d, s) = g[d] /\ GuardsOf(d, g, s, g[d])
  BY NilGuardsAre
<1>2. PICK o : \A d \in Conds : Outcome(d, m) = o[d] /\ OutcomeOf(d, o, m, o[d])
  BY OutcomeAre
<1>0. \A d \in Conds : Came(d, o, m, o[d])
  BY <1>2, OutcomeCame
<1>. DEFINE P == {c \in Conds : c.k # "nil" => GuardHolds(g[c], o[c], s, m)}
<1>3. ASSUME NEW c \in Conds, \A e \in Conds : Ranks[e] < Ranks[c] => e \in P
      PROVE  c \in P
  <2>. SUFFICES ASSUME c.k # "nil" PROVE GuardHolds(g[c], o[c], s, m)
    OBVIOUS
  <2>1. \A e \in Conds : Operators[e] < Operators[c] => e \in P
    BY <1>3, RanksTyped
  <2>2. CASE c.k \in {"test", "any"}
    <3>1. g[c] = NoGuard
      BY <1>1, <2>2 DEF GuardsOf
    <3>. QED
      BY <3>1 DEF GuardHolds, NoGuard, Vouched
  <2>3. CASE c.k \in {"eq", "ne"}
    <3>. DEFINE path == Canonical(c.e, s.alias)
                implied == IF IsBare(path) THEN s.errProof[path[1]] ELSE {}
    <3>1. c.e \in Expr
      BY <2>3, CondParts
    <3>2. g[c] = IF c.k = "ne" THEN [t |-> {path}, f |-> implied] ELSE [t |-> implied, f |-> {path}]
      <4>1. g[c] = ComparisonGuards(c, s)
        BY <1>1, <2>3 DEF GuardsOf
      <4>. QED
        BY <4>1, Zenon DEF ComparisonGuards
    <3>3. /\ Eval(c.e, m) # Nil => Vouched({path}, s, m)
          /\ Eval(c.e, m) = Nil => Vouched(implied, s, m)
      BY <3>1, ComparisonHolds
    <3>4. /\ o[c].yes => Atom(c, m).yes
          /\ o[c].no => Atom(c, m).no
      BY <1>0, <2>3 DEF Came
    <3>. HIDE DEF path, implied
    <3>5. CASE c.k = "eq"
      <4>1. (o[c].yes => Eval(c.e, m) = Nil) /\ (o[c].no => Eval(c.e, m) # Nil)
        BY <3>4, <3>5, AtomIs
      <4>2. g[c].t = implied /\ g[c].f = {path}
        BY <3>2, <3>5
      <4>. QED
        BY <3>3, <4>1, <4>2 DEF GuardHolds
    <3>6. CASE c.k = "ne"
      <4>1. (o[c].yes => Eval(c.e, m) # Nil) /\ (o[c].no => Eval(c.e, m) = Nil)
        BY <3>4, <3>6, AtomIs
      <4>2. g[c].t = {path} /\ g[c].f = implied
        BY <3>2, <3>6
      <4>. QED
        BY <3>3, <4>1, <4>2 DEF GuardHolds
    <3>. QED
      BY <2>3, <3>5, <3>6
  <2>4. CASE c.k = "isnil"
    <3>. DEFINE path == Canonical(c.e, s.alias)
    <3>1. c.e \in Expr
      BY <2>4, CondParts
    <3>2. g[c] = [t |-> {}, f |-> {path}]
      BY <1>1, <2>4 DEF GuardsOf
    <3>3. Eval(c.e, m) # Nil => Vouched({path}, s, m)
      BY <3>1, ComparisonHolds
    <3>4. o[c].no => Atom(c, m).no
      BY <1>0, <2>4 DEF Came
    <3>5. o[c].no => Eval(c.e, m) # Nil
      BY <2>4, <3>4, AtomIs
    <3>. HIDE DEF path
    <3>. QED
      BY <3>2, <3>3, <3>5 DEF GuardHolds, Vouched
  <2>5. CASE c.k = "not"
    <3>1. GuardHolds(g[c.c], o[c.c], s, m)
      BY <2>1, <2>5, CondParts
    <3>2. g[c].t = g[c.c].f /\ g[c].f = g[c.c].t
      BY <1>1, <2>5 DEF GuardsOf
    <3>3. (o[c].yes => o[c.c].no) /\ (o[c].no => o[c.c].yes)
      BY <1>0, <2>5 DEF Came
    <3>. QED
      BY <3>1, <3>2, <3>3 DEF GuardHolds
  <2>6. CASE c.k = "and"
    <3>1. GuardHolds(g[c.l], o[c.l], s, m) /\ GuardHolds(g[c.r], o[c.r], s, m)
      BY <2>1, <2>6, CondParts
    <3>2. g[c].t = g[c.l].t \cup g[c.r].t /\ g[c].f = {}
      BY <1>1, <2>6 DEF GuardsOf
    <3>3. o[c].yes => o[c.l].yes /\ o[c.r].yes
      BY <1>0, <2>6 DEF Came
    <3>. QED
      BY <3>1, <3>2, <3>3 DEF GuardHolds, Vouched
  <2>7. CASE c.k = "or"
    <3>1. GuardHolds(g[c.l], o[c.l], s, m) /\ GuardHolds(g[c.r], o[c.r], s, m)
      BY <2>1, <2>7, CondParts
    <3>2. g[c].t = {} /\ g[c].f = g[c.l].f \cup g[c.r].f
      BY <1>1, <2>7 DEF GuardsOf
    <3>3. o[c].no => o[c.l].no /\ o[c.r].no
      BY <1>0, <2>7 DEF Came
    <3>. QED
      BY <3>1, <3>2, <3>3 DEF GuardHolds, Vouched
  <2>. QED
    BY <2>2, <2>3, <2>4, <2>5, <2>6, <2>7, CondParts DEF ConditionKinds
<1>4. Conds \subseteq P
  <2>. HIDE DEF P
  <2>. QED
    BY <1>3, RanksTyped, RankInduction
<1>. QED
  BY <1>1, <1>2, <1>4

-----------------------------------------------------------------------------
(* Scopes by themselves: what is true of them wherever the execution is.   *)

\* Every path s holds something about begins where its root is, under s itself.
WellFormed(s) == AliasesClear(s) /\ \A k : Knows(s, k) => Clear(k, s)

\* t is a part of what s holds, and means the same.
PartOf(t, s) == IsLess(s, t) /\ \A k : Knows(t, k) => Root(k[1], t) = Root(k[1], s)

LEMMA KnownPath ==
    ASSUME NEW s \in ScopeType, NEW k, Knows(s, k)
    PROVE  k \in Path /\ k[1] \in Locals
<1>1. s.proven \subseteq Path /\ s.errProof \in ErrProofs /\ s.alias \in Aliases
  BY ScopeFields
<1>2. k \in Path
  BY <1>1 DEF Knows, ErrProofs, Aliases
<1>. QED
  BY <1>2 DEF Path

LEMMA WellFormedKnown ==
    ASSUME NEW s, NEW m, Sound(s, m)
    PROVE  WellFormed(s)
  BY SoundClear DEF WellFormed

LEMMA PartItself ==
    ASSUME NEW s
    PROVE  PartOf(s, s)
  BY DEF PartOf, IsLess

LEMMA PartOfPart ==
    ASSUME NEW s, NEW t, NEW u, PartOf(t, s), PartOf(u, t)
    PROVE  PartOf(u, s)
<1>1. IsLess(s, u)
  BY DEF PartOf, IsLess
<1>2. \A k : Knows(u, k) => Knows(t, k)
  BY LessKnown DEF PartOf
<1>. QED
  BY <1>1, <1>2 DEF PartOf

LEMMA PartWellFormed ==
    ASSUME NEW s, NEW t, WellFormed(s), PartOf(t, s)
    PROVE  WellFormed(t)
<1>1. \A k : Knows(t, k) => Knows(s, k)
  BY LessKnown DEF PartOf
<1>2. \A k : Knows(t, k) => Clear(k, t)
  BY <1>1, SameRoot DEF PartOf, WellFormed
<1>3. AliasesClear(t)
  BY <1>2 DEF AliasesClear, Knows
<1>. QED
  BY <1>2, <1>3 DEF WellFormed

LEMMA PartSound ==
    ASSUME NEW s, NEW t, NEW m, Sound(s, m), PartOf(t, s)
    PROVE  Sound(t, m)
  BY Weakened DEF PartOf

\* What is forgotten of both is forgotten of the part.
LEMMA PartInvalidated ==
    ASSUME NEW s \in ScopeType, NEW t \in ScopeType, PartOf(t, s), NEW P,
           NEW t1, t1 = Invalidate(t, P), NEW s1, s1 = Invalidate(s, P)
    PROVE  PartOf(t1, s1)
<1>1. Invalidated(t, P, t1) /\ t1 \in ScopeType
  BY InvalidateFields
<1>2. Invalidated(s, P, s1)
  BY InvalidateFields
<1>3. IsLess(s, t)
  BY DEF PartOf
<1>4. IsLess(s1, t1)
  BY <1>1, <1>2, <1>3 DEF Invalidated, IsLess
<1>5. IsLess(t, t1)
  BY <1>1 DEF Invalidated, IsLess
<1>6. ASSUME NEW k, Knows(t1, k) PROVE Root(k[1], t1) = Root(k[1], s1)
  <2>1. k[1] \in Locals
    BY <1>1, <1>6, KnownPath
  <2>2. Root(k[1], t) = Root(k[1], s)
    BY <1>5, <1>6, LessKnown DEF PartOf
  <2>. DEFINE l == k[1]
  <2>3. t.alias[l] # NoPath => t.alias[l] = s.alias[l]
    BY <1>3, <2>1 DEF IsLess
  <2>4. /\ t1.alias[l] = IF Falsified(P, t.alias[l]) THEN NoPath ELSE t.alias[l]
        /\ s1.alias[l] = IF Falsified(P, s.alias[l]) THEN NoPath ELSE s.alias[l]
    BY <1>1, <1>2, <2>1 DEF Invalidated
  <2>. HIDE DEF l
  <2>5. CASE t.alias[l] = NoPath
    <3>1. s.alias[l] = NoPath \/ s.alias[l] = <<l>>
      BY <2>2, <2>5 DEF Root, l
    <3>2. t1.alias[l] = NoPath
      BY <2>4, <2>5
    <3>3. s1.alias[l] = NoPath \/ s1.alias[l] = <<l>>
      BY <2>4, <3>1
    <3>. QED
      BY <3>2, <3>3 DEF Root, l
  <2>6. CASE t.alias[l] # NoPath
    BY <2>3, <2>4, <2>6 DEF Root, l
  <2>. QED
    BY <2>5, <2>6
<1>. QED
  BY <1>4, <1>6 DEF PartOf

\* Forgetting at once, or one after the other.
LEMMA InvalidateTwice ==
    ASSUME NEW s \in ScopeType, NEW P, NEW Q
    PROVE  Invalidate(Invalidate(s, P), Q) = Invalidate(s, P \cup Q)
<1>. DEFINE t == Invalidate(s, P)  u == Invalidate(t, Q)  v == Invalidate(s, P \cup Q)
<1>1. t \in ScopeType /\ Invalidated(s, P, t)
  BY InvalidateFields
<1>2. v \in ScopeType /\ Invalidated(s, P \cup Q, v)
  BY InvalidateFields
<1>. HIDE DEF t, v
<1>3. u \in ScopeType /\ Invalidated(t, Q, u)
  BY <1>1, InvalidateFields
<1>. HIDE DEF u
<1>4. \A k : Falsified(P \cup Q, k) <=> Falsified(P, k) \/ Falsified(Q, k)
  BY DEF Falsified
<1>5. u.proven = v.proven
  <2>1. \A k : k \in u.proven <=> k \in v.proven
    BY <1>1, <1>2, <1>3, <1>4 DEF Invalidated
  <2>. QED
    BY <2>1
<1>6. ASSUME NEW l \in Locals
      PROVE  u.alias[l] = v.alias[l] /\ u.errProof[l] = v.errProof[l] /\ u.nilable[l] = v.nilable[l]
  <2>1. u.alias[l] = v.alias[l]
    BY <1>1, <1>2, <1>3, <1>4 DEF Invalidated
  <2>2. \A k : k \in u.errProof[l] <=> k \in v.errProof[l]
    BY <1>1, <1>2, <1>3, <1>4 DEF Invalidated
  <2>3. u.nilable[l] = v.nilable[l]
    BY <1>1, <1>2, <1>3 DEF Invalidated
  <2>. QED
    BY <2>1, <2>2, <2>3
<1>7. u.alias = v.alias /\ u.errProof = v.errProof /\ u.nilable = v.nilable
  BY <1>2, <1>3, <1>6, ScopeFields DEF Aliases, ErrProofs, NilStates
<1>8. u = v
  BY <1>2, <1>3, <1>5, <1>7, ScopeFields
<1>. QED
  BY <1>8 DEF t, u, v

LEMMA InvalidateNothing ==
    ASSUME NEW s \in ScopeType
    PROVE  Invalidate(s, {}) = s
<1>. DEFINE t == Invalidate(s, {})
<1>1. t \in ScopeType /\ Invalidated(s, {}, t)
  BY InvalidateFields
<1>. HIDE DEF t
<1>2. \A k : ~Falsified({}, k)
  BY DEF Falsified
<1>3. t.proven = s.proven
  BY <1>1, <1>2 DEF Invalidated
<1>4. t.alias = s.alias /\ t.errProof = s.errProof /\ t.nilable = s.nilable
  <2>1. \A l \in Locals : t.alias[l] = s.alias[l] /\ t.errProof[l] = s.errProof[l] /\ t.nilable[l] = s.nilable[l]
    BY <1>1, <1>2 DEF Invalidated
  <2>. QED
    BY <1>1, <2>1, ScopeFields DEF Aliases, ErrProofs, NilStates
<1>5. t = s
  BY <1>1, <1>3, <1>4, ScopeFields
<1>. QED
  BY <1>5 DEF t

LEMMA WithNothing ==
    ASSUME NEW s \in ScopeType
    PROVE  With(s, {}) = s
<1>1. s.proven \cup {} = s.proven
  OBVIOUS
<1>. QED
  BY <1>1, ScopeFields DEF With

\* None of the paths is where something known begins.
Spared(P, s) == \A p \in P : p \in Seq(Word) /\ \A k : Knows(s, k) => ~IsPrefix(p, k)

\* What a write leaves known keeps its meaning.
LEMMA SparedIsPart ==
    ASSUME NEW s \in ScopeType, WellFormed(s), NEW P, NEW t, t = Invalidate(s, P), Spared(P, t)
    PROVE  PartOf(t, s)
<1>1. t \in ScopeType /\ Invalidated(s, P, t)
  BY InvalidateFields
<1>2. IsLess(s, t)
  BY <1>1 DEF Invalidated, IsLess
<1>3. ASSUME NEW k, Knows(t, k) PROVE Root(k[1], t) = Root(k[1], s)
  <2>1. k[1] \in Locals
    BY <1>1, <1>3, KnownPath
  <2>2. Clear(k, s)
    BY <1>2, <1>3, LessKnown DEF WellFormed
  <2>3. CASE s.alias[k[1]] = NoPath
    BY <1>1, <2>1, <2>3 DEF Invalidated, Root
  <2>4. CASE s.alias[k[1]] # NoPath
    <3>. DEFINE r == s.alias[k[1]]  w == Rest(k, s)
    <3>1. r = Root(k[1], s) /\ k = r \o w /\ r \in Expr /\ w \in Seq(Slots)
      BY <2>2, <2>4, ClearParts DEF WellFormed, Root
    <3>2. r \in Seq(Word) /\ w \in Seq(Word)
      BY <3>1, ExprParts, SlotsAreWords
    <3>. HIDE DEF r, w
    <3>3. ASSUME NEW p \in P, AtOrUnder(p, r) PROVE FALSE
      <4>1. p \in Seq(Word) /\ ~IsPrefix(p, k)
        BY <1>3 DEF Spared
      <4>2. IsPrefix(p, r)
        BY <3>2, <3>3, <4>1, AtOrUnderIsPrefix
      <4>3. IsPrefix(p, r \o w)
        BY <3>2, <4>1, <4>2, PrefixExtends
      <4>. QED
        BY <3>1, <4>1, <4>3
    <3>4. ~Falsified(P, r)
      BY <3>3 DEF Falsified
    <3>. QED
      BY <1>1, <2>1, <3>4 DEF Invalidated, Root, r
  <2>. QED
    BY <2>3, <2>4
<1>. QED
  BY <1>2, <1>3 DEF PartOf

\* More proven.
LEMMA PartOfWith ==
    ASSUME NEW s \in ScopeType, NEW P \in SUBSET Path, NEW t, t = With(s, P)
    PROVE  t \in ScopeType /\ PartOf(s, t) /\ t.alias = s.alias /\ t.proven = s.proven \cup P
           /\ t.errProof = s.errProof /\ t.nilable = s.nilable
<1>. DEFINE p == s.proven \cup P
<1>1. p \in SUBSET Path
  BY ScopeFields
<1>2. t = [s EXCEPT !.proven = p]
  BY DEF With
<1>. HIDE DEF p
<1>3. t \in ScopeType /\ t.proven = p /\ t.alias = s.alias /\ t.errProof = s.errProof /\ t.nilable = s.nilable
  BY <1>1, <1>2, WithProven
<1>4. IsLess(t, s)
  BY <1>3 DEF IsLess, p
<1>. QED
  BY <1>3, <1>4 DEF PartOf, Root, p

LEMMA WithWellFormed ==
    ASSUME NEW s \in ScopeType, WellFormed(s), NEW P, \A k \in P : Clear(k, s), NEW t, t = With(s, P)
    PROVE  WellFormed(t)
<1>1. P \in SUBSET Path
  BY DEF Clear, Expr
<1>2. t.alias = s.alias /\ t.proven = s.proven \cup P /\ t.errProof = s.errProof
  BY <1>1, PartOfWith
<1>3. \A k : Knows(t, k) => Knows(s, k) \/ k \in P
  BY <1>2 DEF Knows
<1>4. \A k : Clear(k, t) <=> Clear(k, s)
  BY <1>2 DEF Clear, Root, Rest
<1>. QED
  BY <1>2, <1>3, <1>4 DEF WellFormed, AliasesClear
=============================================================================
