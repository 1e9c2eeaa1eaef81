----------------------------- MODULE WiringProofs -----------------------------
(***************************************************************************)
(* Field wiring is sound and demands no more than it has to, for every     *)
(* package of well-formed functions: any fields, locals, statements,       *)
(* numbers of functions and orders of calls.                               *)
(***************************************************************************)
EXTENDS Wiring, Recursion
-----------------------------------------------------------------------------
(* The recursions of the model, each as a function of its steps.           *)

Inner(st) == IF st.op \in {"if", "closure"} THEN st.body ELSE <<st>>

LEMMA InnerType == ASSUME NEW st \in Statement PROVE Inner(st) \in Seq(Simple)
<1>1. CASE st \in Simple
  <2>1. st.op \notin {"if", "closure"}
    BY <1>1 DEF Simple
  <2>. QED
    BY <1>1, <2>1 DEF Inner
<1>2. CASE st \in [op : {"if", "closure"}, body : Seq(Simple)]
  BY <1>2 DEF Inner
<1>. QED
  BY <1>1, <1>2 DEF Statement

Lists == Seq(Simple)
FlatAfter(x, st) == x \o Inner(st)
FlatStep(b) == [n \in 1..Len(b) |-> [x \in Lists |-> FlatAfter(x, b[n])]]

LEMMA FlatStepType ==
    ASSUME NEW b \in Seq(Statement)
    PROVE  /\ Len(b) \in Nat /\ <<>> \in Lists
           /\ FlatStep(b) \in [1..Len(b) -> [Lists -> Lists]]
           /\ \A n \in 1..Len(b), x \in Lists : FlatStep(b)[n][x] = FlatAfter(x, b[n])
<1>1. \A n \in 1..Len(b), x \in Lists : FlatAfter(x, b[n]) \in Lists
  BY InnerType DEF FlatAfter, Lists
<1>2. Len(b) \in Nat /\ <<>> \in Lists
  BY DEF Lists
<1>. QED
  BY <1>1, <1>2 DEF FlatStep

LEMMA FlatUnrolls ==
    ASSUME NEW b \in Seq(Statement)
    PROVE  \E f \in [0..Len(b) -> Lists] :
              Unrolls(f, Len(b), <<>>, FlatStep(b)) /\ Flat(b) = f[Len(b)]
<1>. DEFINE Is(f) == f = [n \in 0..Len(b) |-> IF n = 0 THEN <<>> ELSE FlatAfter(f[n - 1], b[n])]
            g == CHOOSE f : Is(f)
<1>1. Flat(b) = g[Len(b)]
  BY DEF Flat, FlatAfter, Inner
<1>2. \E f : Is(f)
  <2>. HIDE DEF g
  <2>1. PICK f \in [0..Len(b) -> Lists] : Unrolls(f, Len(b), <<>>, FlatStep(b))
    BY FlatStepType, RecursionExists
  <2>2. ASSUME NEW n \in 1..Len(b) PROVE FlatStep(b)[n][f[n - 1]] = FlatAfter(f[n - 1], b[n])
    <3>1. n - 1 \in 0..Len(b)
      BY FlatStepType
    <3>2. f[n - 1] \in Lists
      BY <3>1
    <3>. QED
      BY <3>2, FlatStepType
  <2>3. f = [n \in 0..Len(b) |-> IF n = 0 THEN <<>> ELSE FlatStep(b)[n][f[n - 1]]]
    BY <2>1 DEF Unrolls
  <2>4. \A n \in 0..Len(b) : (IF n = 0 THEN <<>> ELSE FlatStep(b)[n][f[n - 1]])
                               = IF n = 0 THEN <<>> ELSE FlatAfter(f[n - 1], b[n])
    <3>1. \A n \in 0..Len(b) : n = 0 \/ n \in 1..Len(b)
      BY FlatStepType
    <3>. QED
      BY <2>2, <3>1, Zenon
  <2>5. Is(f)
    BY <2>3, <2>4
  <2>. QED
    BY <2>5
<1>3. Is(g)
  BY <1>2
<1>4. g \in [0..Len(b) -> Lists] /\ Unrolls(g, Len(b), <<>>, FlatStep(b))
  <2>. DEFINE h == [n \in 1..Len(b) |-> FlatAfter(g[n - 1], b[n])]
  <2>. HIDE DEF g
  <2>1. g = [n \in 0..Len(b) |-> IF n = 0 THEN <<>> ELSE h[n]]
    BY <1>3
  <2>2. g = [n \in 0..Len(b) |-> g[n]] /\ g[0] = <<>> /\ \A n \in 1..Len(b) : g[n] = h[n]
    <3>. HIDE DEF h
    <3>. QED
      BY <2>1, FlatStepType, RecursionValues
  <2>3. \A n \in 1..Len(b) : g[n - 1] \in Lists => g[n] = FlatStep(b)[n][g[n - 1]]
    BY <2>2, FlatStepType
  <2>. QED
    <3>1. GoesOn(g, Len(b), Lists, <<>>, FlatStep(b))
      BY <2>2, <2>3 DEF GoesOn
    <3>. QED
      BY <3>1, FlatStepType, RecursionTyped
<1>. QED
  BY <1>1, <1>4

\* Flat of one statement more.
LEMMA FlatAppend ==
    ASSUME NEW b \in Seq(Statement), NEW st \in Statement
    PROVE  /\ Flat(b) \in Lists
           /\ Flat(Append(b, st)) = FlatAfter(Flat(b), st)
<1>. DEFINE c == Append(b, st)
            N == Len(b)
<1>1. /\ c \in Seq(Statement) /\ Len(c) = N + 1 /\ N \in Nat /\ N + 1 \in 1..N + 1
      /\ c[N + 1] = st /\ \A i \in 1..N : c[i] = b[i] /\ i \in 1..N + 1
  OBVIOUS
<1>. HIDE DEF c
<1>2. PICK f \in [0..N -> Lists] : Unrolls(f, N, <<>>, FlatStep(b)) /\ Flat(b) = f[N]
  BY FlatUnrolls
<1>3. PICK g \in [0..N + 1 -> Lists] : Unrolls(g, N + 1, <<>>, FlatStep(c)) /\ Flat(c) = g[N + 1]
  BY <1>1, FlatUnrolls
<1>4. /\ \A n \in 1..N, x \in Lists : FlatStep(b)[n][x] = FlatAfter(x, b[n])
      /\ \A n \in 1..N + 1, x \in Lists : FlatStep(c)[n][x] = FlatAfter(x, c[n])
  BY <1>1, FlatStepType
<1>5. \A n \in 1..N, x \in Lists : FlatStep(b)[n][x] = FlatStep(c)[n][x]
  BY <1>1, <1>4
<1>. HIDE DEF N
<1>6. f[N] \in Lists /\ g[N + 1] = FlatStep(c)[N + 1][f[N]]
  BY <1>1, <1>2, <1>3, <1>5, RecursionExtends
<1>7. FlatStep(c)[N + 1][f[N]] = FlatAfter(f[N], st)
  BY <1>1, <1>4, <1>6
<1>. QED
  BY <1>2, <1>3, <1>6, <1>7 DEF c

LEMMA FlatEmpty == Flat(<<>>) = <<>>
<1>1. <<>> \in Seq(Statement) /\ Len(<<>>) = 0
  OBVIOUS
<1>2. PICK f : Unrolls(f, 0, <<>>, FlatStep(<<>>)) /\ Flat(<<>>) = f[0]
  BY <1>1, FlatUnrolls
<1>. QED
  BY <1>2, RecursionStep

-----------------------------------------------------------------------------
\* What isNilableValue and the statements make of a set of locals is one.
LocalSets == SUBSET Locals

LEMMA NilableAfterType ==
    ASSUME NEW st \in Simple, NEW x \in LocalSets
    PROVE  NilableAfter(x, st) \in LocalSets
<1>1. st.op \in {"var", "set", "shadow"} => st.l \in Locals
  BY DEF Simple
<1>2. \/ NilableAfter(x, st) = x
      \/ st.l \in Locals /\ NilableAfter(x, st) = x \cup {st.l}
      \/ NilableAfter(x, st) = x \ {st.l}
  BY <1>1 DEF NilableAfter
<1>. QED
  BY <1>2 DEF LocalSets

NilableStep(b) == [n \in 1..Len(b) |-> [x \in LocalSets |-> NilableAfter(x, b[n])]]

LEMMA NilableStepType ==
    ASSUME NEW b \in Seq(Simple)
    PROVE  /\ Len(b) \in Nat /\ {} \in LocalSets
           /\ NilableStep(b) \in [1..Len(b) -> [LocalSets -> LocalSets]]
           /\ \A n \in 1..Len(b), x \in LocalSets : NilableStep(b)[n][x] = NilableAfter(x, b[n])
<1>1. \A n \in 1..Len(b), x \in LocalSets : NilableAfter(x, b[n]) \in LocalSets
  BY NilableAfterType
<1>2. {} \in LocalSets /\ Len(b) \in Nat
  BY DEF LocalSets
<1>. QED
  BY <1>1, <1>2 DEF NilableStep

LEMMA NilableUnrolls ==
    ASSUME NEW b \in Seq(Simple)
    PROVE  \E f \in [0..Len(b) -> LocalSets] :
              Unrolls(f, Len(b), {}, NilableStep(b)) /\ NilableBehind(b) = f[Len(b)]
<1>. DEFINE Is(f) == f = [n \in 0..Len(b) |-> IF n = 0 THEN {} ELSE NilableAfter(f[n - 1], b[n])]
            g == CHOOSE f : Is(f)
<1>1. NilableBehind(b) = g[Len(b)]
  BY DEF NilableBehind
<1>2. \E f : Is(f)
  <2>. HIDE DEF g
  <2>1. PICK f \in [0..Len(b) -> LocalSets] : Unrolls(f, Len(b), {}, NilableStep(b))
    BY NilableStepType, RecursionExists
  <2>2. ASSUME NEW n \in 1..Len(b) PROVE NilableStep(b)[n][f[n - 1]] = NilableAfter(f[n - 1], b[n])
    <3>1. n - 1 \in 0..Len(b)
      BY NilableStepType
    <3>2. f[n - 1] \in LocalSets
      BY <3>1
    <3>. QED
      BY <3>2, NilableStepType
  <2>3. f = [n \in 0..Len(b) |-> IF n = 0 THEN {} ELSE NilableStep(b)[n][f[n - 1]]]
    BY <2>1 DEF Unrolls
  <2>4. \A n \in 0..Len(b) : (IF n = 0 THEN {} ELSE NilableStep(b)[n][f[n - 1]])
                               = IF n = 0 THEN {} ELSE NilableAfter(f[n - 1], b[n])
    <3>1. \A n \in 0..Len(b) : n = 0 \/ n \in 1..Len(b)
      BY NilableStepType
    <3>. QED
      BY <2>2, <3>1, Zenon
  <2>5. Is(f)
    BY <2>3, <2>4
  <2>. QED
    BY <2>5
<1>3. Is(g)
  BY <1>2
<1>4. g \in [0..Len(b) -> LocalSets] /\ Unrolls(g, Len(b), {}, NilableStep(b))
  <2>. DEFINE h == [n \in 1..Len(b) |-> NilableAfter(g[n - 1], b[n])]
  <2>. HIDE DEF g
  <2>1. g = [n \in 0..Len(b) |-> IF n = 0 THEN {} ELSE h[n]]
    <3>1. \A n \in 0..Len(b) : n = 0 \/ n \in 1..Len(b)
      BY NilableStepType
    <3>2. \A n \in 1..Len(b) : NilableAfter(g[n - 1], b[n]) = h[n]
      OBVIOUS
    <3>. HIDE DEF h
    <3>3. \A n \in 0..Len(b) : (IF n = 0 THEN {} ELSE NilableAfter(g[n - 1], b[n]))
                                 = IF n = 0 THEN {} ELSE h[n]
      BY <3>1, <3>2, Zenon
    <3>. QED
      BY <1>3, <3>3, Zenon
  <2>2. g = [n \in 0..Len(b) |-> g[n]] /\ g[0] = {} /\ \A n \in 1..Len(b) : g[n] = h[n]
    <3>. HIDE DEF h
    <3>. QED
      BY <2>1, NilableStepType, RecursionValues
  <2>3. \A n \in 1..Len(b) : g[n - 1] \in LocalSets => g[n] = NilableStep(b)[n][g[n - 1]]
    BY <2>2, NilableStepType
  <2>. QED
    <3>1. GoesOn(g, Len(b), LocalSets, {}, NilableStep(b))
      BY <2>2, <2>3 DEF GoesOn
    <3>. QED
      BY <3>1, NilableStepType, RecursionTyped
<1>. QED
  BY <1>1, <1>4

LEMMA NilableAppend ==
    ASSUME NEW b \in Seq(Simple), NEW st \in Simple
    PROVE  /\ NilableBehind(b) \in LocalSets
           /\ NilableBehind(Append(b, st)) = NilableAfter(NilableBehind(b), st)
<1>. DEFINE c == Append(b, st)
            N == Len(b)
<1>1. /\ c \in Seq(Simple) /\ Len(c) = N + 1 /\ N \in Nat /\ N + 1 \in 1..N + 1
      /\ c[N + 1] = st /\ \A i \in 1..N : c[i] = b[i] /\ i \in 1..N + 1
  OBVIOUS
<1>. HIDE DEF c
<1>2. PICK f \in [0..N -> LocalSets] : Unrolls(f, N, {}, NilableStep(b)) /\ NilableBehind(b) = f[N]
  BY NilableUnrolls
<1>3. PICK g \in [0..N + 1 -> LocalSets] : Unrolls(g, N + 1, {}, NilableStep(c)) /\ NilableBehind(c) = g[N + 1]
  BY <1>1, NilableUnrolls
<1>4. /\ \A n \in 1..N, x \in LocalSets : NilableStep(b)[n][x] = NilableAfter(x, b[n])
      /\ \A n \in 1..N + 1, x \in LocalSets : NilableStep(c)[n][x] = NilableAfter(x, c[n])
  BY <1>1, NilableStepType
<1>5. \A n \in 1..N, x \in LocalSets : NilableStep(b)[n][x] = NilableStep(c)[n][x]
  BY <1>1, <1>4
<1>. HIDE DEF N
<1>6. f[N] \in LocalSets /\ g[N + 1] = NilableStep(c)[N + 1][f[N]]
  BY <1>1, <1>2, <1>3, <1>5, RecursionExtends
<1>7. NilableStep(c)[N + 1][f[N]] = NilableAfter(f[N], st)
  BY <1>1, <1>4, <1>6
<1>. QED
  BY <1>2, <1>3, <1>6, <1>7 DEF c

LEMMA NilableEmpty == NilableBehind(<<>>) = {}
<1>1. <<>> \in Seq(Simple) /\ Len(<<>>) = 0
  OBVIOUS
<1>2. PICK f : Unrolls(f, 0, {}, NilableStep(<<>>)) /\ NilableBehind(<<>>) = f[0]
  BY <1>1, NilableUnrolls
<1>. QED
  BY <1>2, RecursionStep

-----------------------------------------------------------------------------
(* One statement.                                                          *)

Run == [env : [Locals -> Anywhere], s : SUBSET Object, objs : SUBSET Object]

LEMMA Parts ==
    ASSUME NEW st \in Simple
    PROVE  /\ st.op \in {"var", "multi", "init", "set", "shadow", "keyed", "ordered", "zero", "slice",
                        "holder", "result", "reflect", "field", "several"}
           /\ st.op \in {"var", "multi", "init", "set", "shadow"} => st.l \in Locals
           /\ st.op \in {"set", "multi", "init", "shadow", "field"} => st.v \in Value
           /\ st.op = "multi" => st.v.k \in {"opaque", "maybe"}
           /\ st.op \in {"field", "several"} => st.f \in Fields
           /\ st.op = "keyed" => DOMAIN st.vals \subseteq Fields /\ \A f \in DOMAIN st.vals : st.vals[f] \in Value
           /\ st.op = "ordered" => DOMAIN st.vals = DOMAIN FieldOrder /\ \A i \in DOMAIN st.vals : st.vals[i] \in Value
<1>1. CASE st \in [op : {"keyed"}, vals : UNION {[named -> Value] : named \in SUBSET Fields}]
  BY <1>1
<1>2. CASE st \in [op : {"ordered"}, vals : [DOMAIN FieldOrder -> Value]]
  BY <1>2
<1>3. CASE \/ st \in [op : {"var"}, l : Locals]
           \/ st \in [op : {"set", "shadow", "init"}, l : Locals, v : Value]
           \/ st \in [op : {"zero", "slice", "holder", "result", "reflect"}]
           \/ st \in [op : {"field"}, f : Fields, v : Value]
           \/ st \in [op : {"several"}, f : Fields]
  BY <1>3
<1>4. CASE st \in [op : {"multi"}, l : Locals, v : [k : {"opaque", "maybe"}]]
  BY <1>4 DEF Value
<1>. QED
  BY <1>1, <1>2, <1>3, <1>4 DEF Simple

\* What a value may be: something, and not nil unless it is visibly nilable.
LEMMA ValuesType ==
    ASSUME NEW v \in Value, NEW env \in [Locals -> Anywhere]
    PROVE  /\ ValuesOf(v, env) \in SUBSET Anywhere /\ ValuesOf(v, env) # {}
           /\ v.k \in {"nil", "maybe"} => "nil" \in ValuesOf(v, env)
           /\ v.k = "local" => v.l \in Locals /\ ValuesOf(v, env) = {env[v.l]}
           /\ v.k \notin {"nil", "maybe", "local"} => ValuesOf(v, env) = {"set"}
BY DEF ValuesOf, Value, Anywhere

\* Running a statement keeps the type of a run, and forgets no object.
LEMMA DoType ==
    ASSUME NEW st \in Simple, NEW r \in Run, NEW q \in Do(st, r)
    PROVE  q \in Run /\ r.objs \subseteq q.objs
<1>. DEFINE Env(l, v) == [r EXCEPT !.env[l] = v]
<1>1. \A l \in Locals, v \in Anywhere : Env(l, v) \in Run /\ Env(l, v).objs = r.objs
  BY DEF Run, Anywhere
<1>2. \A o \in Object : Holding(r, o) \in Run /\ r.objs \subseteq Holding(r, o).objs
  BY DEF Run, Holding
<1>3. \A o \in Object, f \in Fields, v \in Anywhere : [o EXCEPT ![f] = v] \in Object
  BY DEF Object, Anywhere
<1>4. "nil" \in Anywhere /\ "set" \in Anywhere /\ r.s \subseteq Object /\ r.env \in [Locals -> Anywhere]
  BY DEF Run, Anywhere
<1>. HIDE DEF Env
<1>5. CASE st.op = "var"
  <2>1. q = Env(st.l, "nil")
    BY <1>5 DEF Do, Env
  <2>. QED
    BY <2>1, <1>1, <1>4, <1>5, Parts
<1>6. CASE st.op = "set"
  <2>1. PICK v \in ValuesOf(st.v, r.env) : q = Env(st.l, v)
    BY <1>6 DEF Do, Env
  <2>. QED
    BY <2>1, <1>1, <1>4, <1>6, Parts, ValuesType
<1>7. CASE st.op \in {"multi", "init"}
  <2>1. PICK v \in Taken(st, r.env) : q = Env(st.l, v)
    BY <1>7 DEF Do, Env
  <2>2. v \in Anywhere
    BY <1>4, <1>7, Parts, ValuesType DEF Taken
  <2>. QED
    BY <2>1, <2>2, <1>1, <1>7, Parts
<1>8. CASE st.op = "shadow"
  BY <1>8 DEF Do
<1>9. CASE st.op \in {"keyed", "ordered"}
  <2>1. PICK o \in Built(st, r.env) : q = Holding(r, o)
    BY <1>9 DEF Do
  <2>2. o \in Object
    BY DEF Built
  <2>. QED
    BY <2>1, <2>2, <1>2
<1>10. CASE st.op \in {"zero", "slice", "holder", "result"}
  <2>1. q = Holding(r, Zero)
    BY <1>10 DEF Do
  <2>2. Zero \in Object
    BY DEF Zero, Object
  <2>. QED
    BY <2>1, <2>2, <1>2
<1>11. CASE st.op = "field"
  <2>1. PICK o \in r.s, v \in ValuesOf(st.v, r.env) : q = Holding(r, [o EXCEPT ![st.f] = v])
    BY <1>11 DEF Do
  <2>2. o \in Object /\ v \in Anywhere /\ st.f \in Fields
    BY <1>4, <1>11, Parts, ValuesType
  <2>. QED
    BY <2>1, <2>2, <1>2, <1>3
<1>12. CASE st.op = "several"
  <2>1. PICK o \in r.s, v \in Anywhere : q = Holding(r, [o EXCEPT ![st.f] = v])
    BY <1>12 DEF Do
  <2>2. o \in Object /\ st.f \in Fields
    BY <1>4, <1>12, Parts
  <2>. QED
    BY <2>1, <2>2, <1>2, <1>3
<1>13. CASE st.op = "reflect"
  <2>1. PICK o \in Object : q = Holding(r, o)
    BY <1>13 DEF Do
  <2>. QED
    BY <2>1, <1>2
<1>. QED
  BY <1>5, <1>6, <1>7, <1>8, <1>9, <1>10, <1>11, <1>12, <1>13, Parts

\* The locals that are nil in a run are known to be nilable, or hidden from the
\* statements it runs: a closure's, of the function around it.
Sound(r, nilable, hidden) == \A l \in Locals : r.env[l] = "nil" => l \in nilable \cup hidden
StoresNone(st, hidden) == \A v \in Stored(st) : v.k = "local" => v.l \notin hidden

LEMMA NotNilable ==
    ASSUME NEW v \in Value, NEW x, NEW hidden, NEW r \in Run, Sound(r, x, hidden),
           v.k = "local" => v.l \notin hidden, ~IsNilableValue(v, x)
    PROVE  ValuesOf(v, r.env) = {"set"}
<1>1. r.env \in [Locals -> Anywhere]
  BY DEF Run
<1>2. CASE v.k = "local"
  <2>1. v.l \in Locals /\ r.env[v.l] # "nil" /\ ValuesOf(v, r.env) = {r.env[v.l]}
    BY <1>1, <1>2, ValuesType DEF Sound, IsNilableValue
  <2>. QED
    BY <1>1, <2>1 DEF Anywhere
<1>3. CASE v.k # "local"
  BY <1>1, <1>3, ValuesType DEF IsNilableValue
<1>. QED
  BY <1>2, <1>3

\* NilableAfter keeps up with what a statement makes nil (assignNilableState).
LEMMA DoSound ==
    ASSUME Wild = {}, NEW st \in Simple, NEW r \in Run, NEW q \in Do(st, r), NEW x \in LocalSets, NEW hidden,
           st.op # "shadow", Sound(r, x, hidden), StoresNone(st, hidden)
    PROVE  Sound(q, NilableAfter(x, st), hidden)
<1>1. r.env \in [Locals -> Anywhere]
  BY DEF Run
<1>. DEFINE env(l, v) == [r.env EXCEPT ![l] = v]
<1>2. CASE st.op \in {"var", "multi", "init"}
  <2>1. st.l \in Locals /\ q.env = env(st.l, IF st.op = "var" THEN "nil" ELSE "set")
    <3>1. CASE st.op = "var"
      BY <3>1, Parts DEF Do, Run
    <3>2. CASE st.op \in {"multi", "init"}
      <4>1. PICK v \in Taken(st, r.env) : q.env = env(st.l, v)
        BY <3>2 DEF Do, Run
      <4>. QED
        BY <3>2, <4>1, Parts DEF Taken
    <3>. QED
      BY <1>2, <3>1, <3>2
  <2>. QED
    BY <1>1, <1>2, <2>1 DEF Sound, NilableAfter
<1>3. CASE st.op = "set"
  <2>1. PICK v \in ValuesOf(st.v, r.env) : q.env = env(st.l, v)
    BY <1>3 DEF Do, Run
  <2>2. st.l \in Locals /\ st.v \in Value /\ Stored(st) = {st.v}
    BY <1>3, Parts DEF Stored
  <2>3. ~IsNilableValue(st.v, x) => v = "set"
    BY <2>2, NotNilable DEF StoresNone
  <2>4. NilableAfter(x, st) = IF IsNilableValue(st.v, x) THEN x \cup {st.l} ELSE x \ {st.l}
    BY <1>3 DEF NilableAfter
  <2>. QED
    BY <1>1, <2>1, <2>2, <2>3, <2>4 DEF Sound
<1>4. CASE st.op \notin {"var", "multi", "init", "set"}
  <2>1. NilableAfter(x, st) = x
    BY <1>4 DEF NilableAfter
  <2>2. q.env = r.env
    <3>1. \A o : Holding(r, o).env = r.env
      BY DEF Holding, Run
    <3>2. CASE st.op \in {"keyed", "ordered"}
      <4>1. PICK o : q = Holding(r, o)
        BY <3>2 DEF Do
      <4>. QED
        BY <3>1, <4>1
    <3>3. CASE st.op \in {"zero", "slice", "holder", "result"}
      BY <3>1, <3>3 DEF Do
    <3>4. CASE st.op = "field"
      <4>1. PICK o \in r.s, v \in ValuesOf(st.v, r.env) : q = Holding(r, [o EXCEPT ![st.f] = v])
        BY <3>4 DEF Do
      <4>. QED
        BY <3>1, <4>1
    <3>5. CASE st.op = "several"
      <4>1. PICK o \in r.s, v \in Anywhere : q = Holding(r, [o EXCEPT ![st.f] = v])
        BY <3>5 DEF Do
      <4>. QED
        BY <3>1, <4>1
    <3>6. CASE st.op = "reflect"
      <4>1. PICK o : q = Holding(r, o)
        BY <3>6 DEF Do
      <4>. QED
        BY <3>1, <4>1
    <3>. QED
      BY <1>4, <3>2, <3>3, <3>4, <3>5, <3>6, Parts
  <2>. QED
    BY <2>1, <2>2 DEF Sound
<1>. QED
  BY <1>2, <1>3, <1>4

-----------------------------------------------------------------------------
\* No object of these is nil in a field of these.
Kept(os, fields) == \A o \in os, f \in fields : o[f] = "set"

\* What FieldWired and Disqualified ask of a statement of a package with fields.
Agrees(at, fields) ==
    /\ at.st.op \notin {"shadow", "zero", "slice", "holder", "result", "reflect"}
    /\ \A f \in fields : /\ at.st.op \in {"keyed", "ordered"} => ProvesField(at, f)
                         /\ ~Invalidates(at, f)

\* A literal the sweep agrees to sets the fields (provesField).
LEMMA BuiltKept ==
    ASSUME NEW st \in Simple, st.op \in {"keyed", "ordered"}, NEW before, NEW fields \in SUBSET Fields,
           NEW r \in Run, NEW hidden, Sound(r, NilableBehind(before), hidden), StoresNone(st, hidden),
           Agrees([before |-> before, st |-> st], fields), NEW o \in Built(st, r.env)
    PROVE  Kept({o}, fields)
<1>. DEFINE at == [before |-> before, st |-> st]
            x == NilableBehind(before)
<1>. SUFFICES ASSUME NEW f \in fields PROVE o[f] = "set"
  BY DEF Kept
<1>1. ProvesField(at, f) /\ f \in Fields
  BY DEF Agrees
<1>2. \A i \in DOMAIN st.vals : st.vals[i] \in Value /\ st.vals[i] \in Stored(st)
  BY Parts DEF Stored
<1>3. \A i \in DOMAIN st.vals : ~IsNilableValue(st.vals[i], x) => ValuesOf(st.vals[i], r.env) = {"set"}
  BY <1>2, NotNilable DEF StoresNone
<1>4. CASE st.op = "keyed"
  <2>1. f \in DOMAIN st.vals /\ ~IsNilableValue(st.vals[f], x)
    BY <1>1, <1>4 DEF ProvesField
  <2>2. o[f] \in ValuesOf(st.vals[f], r.env)
    BY <1>1, <1>4, <2>1 DEF Built
  <2>. QED
    BY <1>3, <2>1, <2>2
<1>5. CASE st.op = "ordered"
  <2>1. PICK i \in DOMAIN st.vals : FieldOrder[i] = f /\ ~IsNilableValue(st.vals[i], x)
    BY <1>1, <1>5 DEF ProvesField
  <2>2. o[f] \in ValuesOf(st.vals[i], r.env)
    BY <1>1, <1>5, <2>1 DEF Built
  <2>. QED
    BY <1>3, <2>1, <2>2
<1>. QED
  BY <1>4, <1>5

LEMMA DoKept ==
    ASSUME NEW st \in Simple, NEW before, NEW fields \in SUBSET Fields,
           NEW r \in Run, NEW hidden, Sound(r, NilableBehind(before), hidden), StoresNone(st, hidden),
           Agrees([before |-> before, st |-> st], fields), NEW q \in Do(st, r),
           Kept(r.objs \cup r.s, fields)
    PROVE  Kept(q.objs \cup q.s, fields)
<1>. DEFINE at == [before |-> before, st |-> st]
<1>1. ASSUME NEW o, Kept({o}, fields), q = Holding(r, o)
      PROVE  Kept(q.objs \cup q.s, fields)
  <2>1. q.objs = r.objs \cup {o} /\ q.s = {o}
    BY <1>1 DEF Holding, Run
  <2>. QED
    BY <1>1, <2>1 DEF Kept
<1>2. CASE st.op \in {"var", "set", "multi", "init"}
  <2>1. q.objs = r.objs /\ q.s = r.s
    BY <1>2 DEF Do, Run
  <2>. QED
    BY <2>1
<1>3. CASE st.op \in {"keyed", "ordered"}
  <2>1. PICK o \in Built(st, r.env) : q = Holding(r, o)
    BY <1>3 DEF Do
  <2>. QED
    BY <1>1, <1>3, <2>1, BuiltKept
<1>4. CASE st.op \in {"field", "several"}
  <2>0. r.env \in [Locals -> Anywhere] /\ st.f \in Fields
    BY <1>4, Parts DEF Run
  <2>1. PICK o \in r.s, v \in Anywhere :
                            /\ q = Holding(r, [o EXCEPT ![st.f] = v])
                            /\ st.op = "field" => v \in ValuesOf(st.v, r.env)
    <3>1. CASE st.op = "field"
      <4>1. PICK o \in r.s, v \in ValuesOf(st.v, r.env) : q = Holding(r, [o EXCEPT ![st.f] = v])
        BY <3>1 DEF Do
      <4>2. v \in Anywhere
        BY <2>0, <3>1, Parts, ValuesType
      <4>. QED
        BY <4>1, <4>2
    <3>2. CASE st.op = "several"
      <4>. DEFINE next(o, v) == Holding(r, [o EXCEPT ![st.f] = v])
      <4>0. Do(st, r) = {next(o, v) : o \in r.s, v \in Anywhere}
        BY <3>2 DEF Do
      <4>. HIDE DEF next
      <4>1. PICK o \in r.s, v \in Anywhere : q = next(o, v)
        BY <4>0
      <4>. USE DEF next
      <4>. QED
        BY <3>2, <4>1
    <3>. QED
      BY <1>4, <3>1, <3>2
  <2>2. o \in Object /\ Kept({o}, fields)
    BY DEF Run, Kept
  <2>3. st.f \in fields => v = "set"
    <3>. SUFFICES ASSUME st.op = "field", st.f \in fields PROVE v = "set"
      BY <1>4 DEF Agrees, Invalidates
    <3>1. st.v \in Value /\ st.v \in Stored(st) /\ ~Invalidates(at, st.f)
      BY Parts DEF Stored, Agrees
    <3>2. ~IsNilableValue(st.v, NilableBehind(before))
      BY <3>1 DEF Invalidates
    <3>. QED
      BY <2>1, <3>1, <3>2, NotNilable DEF StoresNone
  <2>4. Kept({[o EXCEPT ![st.f] = v]}, fields)
    BY <2>2, <2>3 DEF Kept, Object
  <2>. QED
    BY <1>1, <2>1, <2>4
<1>. QED
  BY <1>2, <1>3, <1>4, Parts DEF Agrees

-----------------------------------------------------------------------------
(* A body of simple statements.                                            *)

RunSets == SUBSET Run
DoEach(rs, st) == UNION {Do(st, q) : q \in rs}
DoStep(b) == [n \in 1..Len(b) |-> [rs \in RunSets |-> DoEach(rs, b[n])]]

LEMMA DoStepType ==
    ASSUME NEW b \in Seq(Simple), NEW r \in Run
    PROVE  /\ Len(b) \in Nat /\ {r} \in RunSets
           /\ DoStep(b) \in [1..Len(b) -> [RunSets -> RunSets]]
           /\ \A n \in 1..Len(b), rs \in RunSets : DoStep(b)[n][rs] = DoEach(rs, b[n])
<1>1. \A n \in 1..Len(b), rs \in RunSets : DoEach(rs, b[n]) \in RunSets
  BY DoType DEF DoEach, RunSets
<1>2. Len(b) \in Nat /\ {r} \in RunSets
  BY DEF RunSets
<1>. QED
  BY <1>1, <1>2 DEF DoStep

LEMMA DoUnrolls ==
    ASSUME NEW b \in Seq(Simple), NEW r \in Run
    PROVE  \E f \in [0..Len(b) -> RunSets] :
              Unrolls(f, Len(b), {r}, DoStep(b)) /\ DoAll(b, r) = f[Len(b)]
<1>. DEFINE Is(f) == f = [n \in 0..Len(b) |-> IF n = 0 THEN {r} ELSE DoEach(f[n - 1], b[n])]
            g == CHOOSE f : Is(f)
<1>1. DoAll(b, r) = g[Len(b)]
  BY DEF DoAll, DoEach
<1>2. \E f : Is(f)
  <2>. HIDE DEF g
  <2>1. PICK f \in [0..Len(b) -> RunSets] : Unrolls(f, Len(b), {r}, DoStep(b))
    BY DoStepType, RecursionExists
  <2>2. ASSUME NEW n \in 1..Len(b) PROVE DoStep(b)[n][f[n - 1]] = DoEach(f[n - 1], b[n])
    <3>1. n - 1 \in 0..Len(b)
      BY DoStepType
    <3>2. f[n - 1] \in RunSets
      BY <3>1
    <3>. QED
      BY <3>2, DoStepType
  <2>3. f = [n \in 0..Len(b) |-> IF n = 0 THEN {r} ELSE DoStep(b)[n][f[n - 1]]]
    BY <2>1 DEF Unrolls
  <2>4. \A n \in 0..Len(b) : (IF n = 0 THEN {r} ELSE DoStep(b)[n][f[n - 1]])
                               = IF n = 0 THEN {r} ELSE DoEach(f[n - 1], b[n])
    <3>1. \A n \in 0..Len(b) : n = 0 \/ n \in 1..Len(b)
      BY DoStepType
    <3>. QED
      BY <2>2, <3>1, Zenon
  <2>5. Is(f)
    BY <2>3, <2>4
  <2>. QED
    BY <2>5
<1>3. Is(g)
  BY <1>2
<1>4. g \in [0..Len(b) -> RunSets] /\ Unrolls(g, Len(b), {r}, DoStep(b))
  <2>. DEFINE h == [n \in 1..Len(b) |-> DoEach(g[n - 1], b[n])]
  <2>. HIDE DEF g
  <2>1. g = [n \in 0..Len(b) |-> IF n = 0 THEN {r} ELSE h[n]]
    <3>1. \A n \in 0..Len(b) : n = 0 \/ n \in 1..Len(b)
      BY DoStepType
    <3>2. \A n \in 1..Len(b) : DoEach(g[n - 1], b[n]) = h[n]
      OBVIOUS
    <3>. HIDE DEF h
    <3>3. \A n \in 0..Len(b) : (IF n = 0 THEN {r} ELSE DoEach(g[n - 1], b[n]))
                                 = IF n = 0 THEN {r} ELSE h[n]
      BY <3>1, <3>2, Zenon
    <3>. QED
      BY <1>3, <3>3, Zenon
  <2>2. g = [n \in 0..Len(b) |-> g[n]] /\ g[0] = {r} /\ \A n \in 1..Len(b) : g[n] = h[n]
    <3>. HIDE DEF h
    <3>. QED
      BY <2>1, DoStepType, RecursionValues
  <2>3. \A n \in 1..Len(b) : g[n - 1] \in RunSets => g[n] = DoStep(b)[n][g[n - 1]]
    BY <2>2, DoStepType
  <2>. QED
    <3>1. GoesOn(g, Len(b), RunSets, {r}, DoStep(b))
      BY <2>2, <2>3 DEF GoesOn
    <3>. QED
      BY <3>1, DoStepType, RecursionTyped
<1>. QED
  BY <1>1, <1>4

\* The statements up to one more, and behind others.
LEMMA OneMore ==
    ASSUME NEW S, NEW b \in Seq(S), NEW n \in 0..Len(b) - 1
    PROVE  /\ n + 1 \in 1..Len(b) /\ n \in 0..Len(b) /\ (n + 1) - 1 = n /\ b[n + 1] \in S
           /\ SubSeq(b, 1, n) \in Seq(S)
           /\ SubSeq(b, 1, n + 1) = Append(SubSeq(b, 1, n), b[n + 1])
OBVIOUS

LEMMA Ends ==
    ASSUME NEW S, NEW b \in Seq(S)
    PROVE  /\ Len(b) \in Nat
           /\ SubSeq(b, 1, 0) = <<>>
           /\ SubSeq(b, 1, Len(b)) = b
OBVIOUS

LEMMA Behind ==
    ASSUME NEW S, NEW before \in Seq(S), NEW b \in Seq(S), NEW st \in S
    PROVE  /\ before \o b \in Seq(S)
           /\ before \o <<>> = before
           /\ before \o Append(b, st) = Append(before \o b, st)
OBVIOUS

\* The runs of a body, statement by statement.
LEMMA DoAllSteps ==
    ASSUME NEW b \in Seq(Simple), NEW r \in Run
    PROVE  \E f : /\ DoAll(b, r) = f[Len(b)] /\ f[0] = {r}
                  /\ \A n \in 0..Len(b) - 1 : f[n + 1] = DoEach(f[n], b[n + 1])
<1>1. PICK f \in [0..Len(b) -> RunSets] : Unrolls(f, Len(b), {r}, DoStep(b)) /\ DoAll(b, r) = f[Len(b)]
  BY DoUnrolls
<1>2. Len(b) \in Nat
  BY DoStepType
<1>3. f[0] = {r} /\ \A n \in 1..Len(b) : f[n] = DoStep(b)[n][f[n - 1]]
  BY <1>1, <1>2, RecursionStep
<1>4. ASSUME NEW n \in 0..Len(b) - 1
      PROVE  f[n + 1] = DoEach(f[n], b[n + 1])
  <2>1. n + 1 \in 1..Len(b) /\ n \in 0..Len(b) /\ (n + 1) - 1 = n
    BY <1>2
  <2>2. f[n + 1] = DoStep(b)[n + 1][f[n]] /\ f[n] \in RunSets
    BY <1>3, <2>1
  <2>. QED
    BY <2>1, <2>2, DoStepType
<1>. QED
  BY <1>1, <1>3, <1>4

\* Of a body behind other statements, each is one that the sweep agrees to.
AgreesToAll(before, b, fields) ==
    \A n \in 1..Len(b) : Agrees([before |-> before \o SubSeq(b, 1, n - 1), st |-> b[n]], fields)

LEMMA DoAllType ==
    ASSUME NEW b \in Seq(Simple), NEW r \in Run, NEW q \in DoAll(b, r)
    PROVE  q \in Run /\ r.objs \subseteq q.objs
<1>1. PICK f : /\ DoAll(b, r) = f[Len(b)] /\ f[0] = {r}
               /\ \A n \in 0..Len(b) - 1 : f[n + 1] = DoEach(f[n], b[n + 1])
  BY DoAllSteps
<1>2. Len(b) \in Nat
  BY DoStepType
<1>. DEFINE P == {n \in Nat : \A t \in f[n] : t \in Run /\ r.objs \subseteq t.objs}
<1>3. 0 \in P
  BY <1>1
<1>4. ASSUME NEW n \in 0..Len(b) - 1, n \in P
      PROVE  n + 1 \in P
  <2>1. f[n + 1] = DoEach(f[n], b[n + 1]) /\ b[n + 1] \in Simple
    BY <1>1, OneMore
  <2>2. ASSUME NEW t \in f[n + 1] PROVE t \in Run /\ r.objs \subseteq t.objs
    <3>1. PICK u \in f[n] : t \in Do(b[n + 1], u)
      BY <2>1 DEF DoEach
    <3>2. u \in Run /\ r.objs \subseteq u.objs
      BY <1>4
    <3>. QED
      BY <2>1, <3>1, <3>2, DoType
  <2>. QED
    BY <2>2
<1>. HIDE DEF P
<1>5. 0..Len(b) \subseteq P
  BY <1>2, <1>3, <1>4, InductionUpTo
<1>6. Len(b) \in P
  BY <1>2, <1>5
<1>. QED
  BY <1>1, <1>6 DEF P

\* Running a body the sweep agrees to keeps the fields set, and its nil locals known.
LEMMA DoAllKept ==
    ASSUME Wild = {}, NEW before \in Seq(Simple), NEW b \in Seq(Simple), NEW r \in Run, NEW hidden,
           NEW fields \in SUBSET Fields,
           Sound(r, NilableBehind(before), hidden), Kept(r.objs \cup r.s, fields),
           \A n \in 1..Len(b) : StoresNone(b[n], hidden),
           AgreesToAll(before, b, fields),
           NEW q \in DoAll(b, r)
    PROVE  Sound(q, NilableBehind(before \o b), hidden) /\ Kept(q.objs \cup q.s, fields)
<1>1. PICK f : /\ DoAll(b, r) = f[Len(b)] /\ f[0] = {r}
               /\ \A n \in 0..Len(b) - 1 : f[n + 1] = DoEach(f[n], b[n + 1])
  BY DoAllSteps
<1>2. Len(b) \in Nat
  BY DoStepType
<1>. DEFINE Good(n, t) == /\ t \in Run
                          /\ Sound(t, NilableBehind(before \o SubSeq(b, 1, n)), hidden)
                          /\ Kept(t.objs \cup t.s, fields)
            P == {n \in Nat : \A t \in f[n] : Good(n, t)}
<1>3. 0 \in P
  <2>1. before \o SubSeq(b, 1, 0) = before
    BY Ends, Behind
  <2>. QED
    BY <1>1, <2>1
<1>4. ASSUME NEW n \in 0..Len(b) - 1, n \in P
      PROVE  n + 1 \in P
  <2>1. f[n + 1] = DoEach(f[n], b[n + 1]) /\ b[n + 1] \in Simple
    BY <1>1, OneMore
  <2>. DEFINE c == before \o SubSeq(b, 1, n)
              x == NilableBehind(c)
  <2>2. /\ c \in Seq(Simple) /\ x \in LocalSets
        /\ NilableBehind(before \o SubSeq(b, 1, n + 1)) = NilableAfter(x, b[n + 1])
    <3>1. /\ SubSeq(b, 1, n) \in Seq(Simple)
          /\ SubSeq(b, 1, n + 1) = Append(SubSeq(b, 1, n), b[n + 1])
      BY OneMore
    <3>2. c \in Seq(Simple) /\ before \o SubSeq(b, 1, n + 1) = Append(c, b[n + 1])
      <4>. DEFINE y == SubSeq(b, 1, n)
                  z == SubSeq(b, 1, n + 1)
      <4>1. y \in Seq(Simple) /\ z = Append(y, b[n + 1]) /\ c = before \o y
        BY <3>1
      <4>. HIDE DEF y, z, c
      <4>2. c \in Seq(Simple) /\ before \o z = Append(c, b[n + 1])
        BY <2>1, <4>1, Behind
      <4>. QED
        BY <4>2 DEF z
    <3>. HIDE DEF c
    <3>. QED
      BY <2>1, <3>2, NilableAppend
  <2>3. Agrees([before |-> c, st |-> b[n + 1]], fields) /\ StoresNone(b[n + 1], hidden)
    <3>1. n + 1 \in 1..Len(b) /\ (n + 1) - 1 = n
      BY OneMore
    <3>. QED
      BY <3>1 DEF AgreesToAll
  <2>. HIDE DEF c
  <2>4. ASSUME NEW t \in f[n + 1] PROVE Good(n + 1, t)
    <3>1. PICK u \in f[n] : t \in Do(b[n + 1], u)
      BY <2>1 DEF DoEach
    <3>2. u \in Run /\ Sound(u, x, hidden) /\ Kept(u.objs \cup u.s, fields)
      BY <1>4 DEF c
    <3>3. b[n + 1].op # "shadow"
      BY <2>3 DEF Agrees
    <3>4. t \in Run
      BY <2>1, <3>1, <3>2, DoType
    <3>5. Sound(t, NilableAfter(x, b[n + 1]), hidden)
      BY <2>1, <2>2, <2>3, <3>1, <3>2, <3>3, DoSound
    <3>6. Kept(t.objs \cup t.s, fields)
      BY <2>1, <2>2, <2>3, <3>1, <3>2, DoKept
    <3>. QED
      BY <2>2, <3>4, <3>5, <3>6
  <2>5. n + 1 \in Nat
    OBVIOUS
  <2>. HIDE DEF Good
  <2>. QED
    BY <2>4, <2>5
<1>. HIDE DEF P
<1>5. 0..Len(b) \subseteq P
  BY <1>2, <1>3, <1>4, InductionUpTo
<1>6. Len(b) \in P
  BY <1>2, <1>5
<1>7. before \o SubSeq(b, 1, Len(b)) = before \o b
  BY Ends
<1>. QED
  BY <1>1, <1>6, <1>7 DEF P

-----------------------------------------------------------------------------
(* Branches, closures and calls.                                           *)

\* Discipline "conditional": past a body that need not run, no local is nil that
\* the sweep takes to be set there.
LEMMA SkipSound ==
    ASSUME NEW before \in Seq(Simple), NEW b \in Seq(Simple), NEW r \in Run,
           "conditional" \notin Wild, Settles(b, r), Sound(r, NilableBehind(before), {}),
           \A n \in 1..Len(b) : b[n].op # "shadow"
    PROVE  Sound(r, NilableBehind(before \o b), {})
<1>. DEFINE After(n) == before \o SubSeq(b, 1, n)
            P == {n \in Nat : Sound(r, NilableBehind(After(n)), {})}
<1>1. Len(b) \in Nat /\ After(0) = before /\ After(Len(b)) = before \o b
  BY Ends, Behind
<1>2. ASSUME NEW n \in 0..Len(b) - 1, n \in P
      PROVE  n + 1 \in P
  <2>. DEFINE st == b[n + 1]
              x  == NilableBehind(After(n))
              y  == SubSeq(b, 1, n)
              z  == SubSeq(b, 1, n + 1)
  <2>1. /\ n + 1 \in DOMAIN b /\ st \in Simple /\ st.op # "shadow"
        /\ y \in Seq(Simple) /\ z = Append(y, st)
    BY OneMore
  <2>. HIDE DEF y, z, st
  <2>2. before \o y \in Seq(Simple) /\ before \o z = Append(before \o y, st)
    BY <2>1, Behind
  <2>3. x \in LocalSets /\ NilableBehind(After(n + 1)) = NilableAfter(x, st)
    BY <2>1, <2>2, NilableAppend DEF y, z
  <2>4. st.op = "multi" \/ (st.op = "set" /\ st.v.k \notin {"nil", "maybe"}) => r.env[st.l] = "set"
    BY <2>1 DEF Settles, st
  <2>5. Sound(r, x, {})
    BY <1>2
  <2>. HIDE DEF x, After
  <2>6. Sound(r, NilableAfter(x, st), {})
    <3>. SUFFICES ASSUME NEW l \in Locals, r.env[l] = "nil" PROVE l \in NilableAfter(x, st)
      BY DEF Sound
    <3>1. l \in x
      BY <2>5 DEF Sound
    <3>. QED
      BY <2>1, <2>4, <3>1 DEF NilableAfter, IsNilableValue
  <2>7. n + 1 \in Nat
    OBVIOUS
  <2>. QED
    BY <2>3, <2>6, <2>7
<1>3. 0 \in P
  BY <1>1
<1>. HIDE DEF P, After
<1>4. 0..Len(b) \subseteq P
  BY <1>1, <1>2, <1>3, InductionUpTo
<1>5. Len(b) \in P
  BY <1>1, <1>4
<1>. QED
  BY <1>1, <1>5 DEF P

LEMMA Shapes ==
    ASSUME NEW st \in Statement
    PROVE  \/ st \in Simple /\ st.op \notin {"if", "closure"} /\ Inner(st) = <<st>>
           \/ st.op \in {"if", "closure"} /\ st.body \in Seq(Simple) /\ Inner(st) = st.body
<1>1. CASE st \in Simple
  BY <1>1, Parts DEF Inner
<1>2. CASE st \in [op : {"if", "closure"}, body : Seq(Simple)]
  BY <1>2 DEF Inner
<1>. QED
  BY <1>1, <1>2 DEF Statement

LEMMA DoTopType ==
    ASSUME NEW st \in Statement, NEW r \in Run, NEW q \in DoTop(st, r)
    PROVE  q \in Run /\ r.objs \subseteq q.objs
<1>1. CASE st.op \in {"if", "closure"}
  <2>1. q \in DoAll(st.body, r) \/ q = r
    BY <1>1 DEF DoTop
  <2>. QED
    BY <1>1, <2>1, Shapes, DoAllType
<1>2. CASE st.op \notin {"if", "closure"}
  <2>1. q \in Do(st, r) /\ st \in Simple
    BY <1>2, Shapes DEF DoTop
  <2>. QED
    BY <2>1, DoType
<1>. QED
  BY <1>1, <1>2

\* What Places looks at, of a statement of a function's own block.
AgreesTop(before, st, fields) ==
    CASE st.op = "if"      -> AgreesToAll(before, st.body, fields)
      [] st.op = "closure" -> AgreesToAll(<<>>, st.body, fields)
      [] OTHER             -> Agrees([before |-> before, st |-> st], fields)

\* What agrees for some fields agrees, in any place, for none.
LEMMA AgreesAnywhere ==
    ASSUME NEW before, NEW b, NEW fields, AgreesToAll(before, b, fields), NEW other
    PROVE  AgreesToAll(other, b, {}) /\ \A n \in 1..Len(b) : b[n].op # "shadow"
BY DEF AgreesToAll, Agrees

LEMMA DoTopKept ==
    ASSUME NEW before \in Seq(Simple), NEW st \in Statement, NEW r \in Run, NEW fields \in SUBSET Fields,
           Wild = {},
           Sound(r, NilableBehind(before), {}), Kept(r.objs \cup r.s, fields),
           AgreesTop(before, st, fields), NEW q \in DoTop(st, r)
    PROVE  Sound(q, NilableBehind(before \o Inner(st)), {}) /\ Kept(q.objs \cup q.s, fields)
<1>1. CASE st.op \notin {"if", "closure"}
  <2>1. st \in Simple /\ Inner(st) = <<st>> /\ q \in Do(st, r) /\ Agrees([before |-> before, st |-> st], fields)
    BY <1>1, Shapes DEF DoTop, AgreesTop
  <2>2. before \o <<st>> = Append(before, st)
    BY <2>1
  <2>3. NilableBehind(before) \in LocalSets /\ NilableBehind(before \o <<st>>) = NilableAfter(NilableBehind(before), st)
    BY <2>1, <2>2, NilableAppend
  <2>4. StoresNone(st, {}) /\ st.op # "shadow"
    BY <2>1 DEF StoresNone, Agrees
  <2>5. Sound(q, NilableAfter(NilableBehind(before), st), {})
    BY <2>1, <2>3, <2>4, DoSound
  <2>6. Kept(q.objs \cup q.s, fields)
    BY <2>1, <2>4, DoKept
  <2>. QED
    BY <2>1, <2>3, <2>5, <2>6
<1>2. CASE st.op = "if"
  <2>1. st.body \in Seq(Simple) /\ Inner(st) = st.body /\ AgreesToAll(before, st.body, fields)
    BY <1>2, Shapes DEF AgreesTop
  <2>2. \A n \in 1..Len(st.body) : StoresNone(st.body[n], {})
    BY DEF StoresNone
  <2>3. CASE q \in DoAll(st.body, r)
    BY <2>1, <2>2, <2>3, DoAllKept
  <2>4. CASE q = r /\ Settles(st.body, r)
    BY <2>1, <2>4, AgreesAnywhere, SkipSound
  <2>. QED
    BY <1>2, <2>3, <2>4 DEF DoTop
<1>3. CASE st.op = "closure"
  <2>1. st.body \in Seq(Simple) /\ Inner(st) = st.body /\ AgreesToAll(<<>>, st.body, fields)
    BY <1>3, Shapes DEF AgreesTop
  <2>2. ~Captures(st.body, r) /\ Settles(st.body, r) /\ (q = r \/ q \in DoAll(st.body, r))
    BY <1>3 DEF DoTop
  <2>3. AgreesToAll(before, st.body, {}) /\ \A n \in 1..Len(st.body) : st.body[n].op # "shadow"
    BY <2>1, AgreesAnywhere
  <2>4. CASE q = r
    BY <2>1, <2>2, <2>3, <2>4, SkipSound
  <2>5. CASE q \in DoAll(st.body, r)
    <3>. DEFINE hidden == {l \in Locals : r.env[l] = "nil"}
    <3>1. \A n \in 1..Len(st.body) : StoresNone(st.body[n], {})
      BY DEF StoresNone
    <3>2. Kept(r.objs \cup r.s, {})
      BY DEF Kept
    <3>3. Sound(q, NilableBehind(before \o st.body), {})
      <4>. DEFINE none == {}
      <4>1. none \in SUBSET Fields /\ Kept(r.objs \cup r.s, none) /\ Sound(r, NilableBehind(before), none)
        BY <3>2
      <4>2. AgreesToAll(before, st.body, none) /\ \A n \in 1..Len(st.body) : StoresNone(st.body[n], none)
        BY <2>3, <3>1
      <4>. HIDE DEF none, hidden
      <4>3. Sound(q, NilableBehind(before \o st.body), none)
        BY <2>1, <2>5, <4>1, <4>2, DoAllKept
      <4>. QED
        BY <4>3 DEF none
    <3>4. Sound(r, NilableBehind(<<>>), hidden)
      BY DEF Sound
    <3>5. \A n \in 1..Len(st.body) : StoresNone(st.body[n], hidden)
      <4>1. DOMAIN st.body = 1..Len(st.body)
        BY <2>1
      <4>. QED
        BY <2>2, <4>1 DEF StoresNone, Captures
    <3>6. <<>> \in Seq(Simple)
      OBVIOUS
    <3>. HIDE DEF hidden
    <3>7. Kept(q.objs \cup q.s, fields)
      BY <2>1, <2>5, <3>4, <3>5, <3>6, DoAllKept
    <3>. QED
      BY <2>1, <3>3, <3>7
  <2>. QED
    BY <2>2, <2>4, <2>5
<1>. QED
  BY <1>1, <1>2, <1>3

-----------------------------------------------------------------------------
Begin(there) ==
    {[env |-> [l \in Locals |-> "set"], s |-> s, objs |-> there] : s \in {{}} \cup {{o} : o \in there}}
TopEach(rs, st) == UNION {DoTop(st, r) : r \in rs}
TopStep(b) == [n \in 1..Len(b) |-> [rs \in RunSets |-> TopEach(rs, b[n])]]

LEMMA BeginType ==
    ASSUME NEW there \in SUBSET Object, NEW r \in Begin(there)
    PROVE  /\ r \in Run /\ r.objs = there /\ r.s \subseteq there
           /\ r.env = [l \in Locals |-> "set"]
BY DEF Begin, Run, Anywhere

LEMMA TopStepType ==
    ASSUME NEW b \in Seq(Statement), NEW there \in SUBSET Object
    PROVE  /\ Len(b) \in Nat /\ Begin(there) \in RunSets
           /\ TopStep(b) \in [1..Len(b) -> [RunSets -> RunSets]]
           /\ \A n \in 1..Len(b), rs \in RunSets : TopStep(b)[n][rs] = TopEach(rs, b[n])
<1>1. \A n \in 1..Len(b), rs \in RunSets : TopEach(rs, b[n]) \in RunSets
  BY DoTopType DEF TopEach, RunSets
<1>2. Len(b) \in Nat /\ Begin(there) \in RunSets
  BY BeginType DEF RunSets
<1>. QED
  BY <1>1, <1>2 DEF TopStep

LEMMA CallsUnroll ==
    ASSUME NEW b \in Seq(Statement), NEW there \in SUBSET Object, NEW fn, fn.body = b
    PROVE  \E f \in [0..Len(b) -> RunSets] :
              Unrolls(f, Len(b), Begin(there), TopStep(b)) /\ Calls(fn, there) = UNION {f[n] : n \in 0..Len(b)}
<1>. DEFINE Is(f) == f = [n \in 0..Len(b) |-> IF n = 0 THEN Begin(there) ELSE TopEach(f[n - 1], b[n])]
            g == CHOOSE f : Is(f)
<1>1. Calls(fn, there) = UNION {g[n] : n \in 0..Len(b)}
  BY DEF Calls, TopEach, Begin
<1>2. \E f : Is(f)
  <2>. HIDE DEF g
  <2>1. PICK f \in [0..Len(b) -> RunSets] : Unrolls(f, Len(b), Begin(there), TopStep(b))
    BY TopStepType, RecursionExists
  <2>2. ASSUME NEW n \in 1..Len(b) PROVE TopStep(b)[n][f[n - 1]] = TopEach(f[n - 1], b[n])
    <3>1. n - 1 \in 0..Len(b)
      BY TopStepType
    <3>2. f[n - 1] \in RunSets
      BY <3>1
    <3>. QED
      BY <3>2, TopStepType
  <2>3. f = [n \in 0..Len(b) |-> IF n = 0 THEN Begin(there) ELSE TopStep(b)[n][f[n - 1]]]
    BY <2>1 DEF Unrolls
  <2>4. \A n \in 0..Len(b) : (IF n = 0 THEN Begin(there) ELSE TopStep(b)[n][f[n - 1]])
                               = IF n = 0 THEN Begin(there) ELSE TopEach(f[n - 1], b[n])
    <3>1. \A n \in 0..Len(b) : n = 0 \/ n \in 1..Len(b)
      BY TopStepType
    <3>. QED
      BY <2>2, <3>1, Zenon
  <2>5. Is(f)
    BY <2>3, <2>4
  <2>. QED
    BY <2>5
<1>3. Is(g)
  BY <1>2
<1>4. g \in [0..Len(b) -> RunSets] /\ Unrolls(g, Len(b), Begin(there), TopStep(b))
  <2>. DEFINE h == [n \in 1..Len(b) |-> TopEach(g[n - 1], b[n])]
  <2>. HIDE DEF g
  <2>1. g = [n \in 0..Len(b) |-> IF n = 0 THEN Begin(there) ELSE h[n]]
    <3>1. \A n \in 0..Len(b) : n = 0 \/ n \in 1..Len(b)
      BY TopStepType
    <3>2. \A n \in 1..Len(b) : TopEach(g[n - 1], b[n]) = h[n]
      OBVIOUS
    <3>. HIDE DEF h
    <3>3. \A n \in 0..Len(b) : (IF n = 0 THEN Begin(there) ELSE TopEach(g[n - 1], b[n]))
                                 = IF n = 0 THEN Begin(there) ELSE h[n]
      BY <3>1, <3>2, Zenon
    <3>. QED
      BY <1>3, <3>3, Zenon
  <2>2. g = [n \in 0..Len(b) |-> g[n]] /\ g[0] = Begin(there) /\ \A n \in 1..Len(b) : g[n] = h[n]
    <3>. HIDE DEF h
    <3>. QED
      BY <2>1, TopStepType, RecursionValues
  <2>3. \A n \in 1..Len(b) : g[n - 1] \in RunSets => g[n] = TopStep(b)[n][g[n - 1]]
    BY <2>2, TopStepType
  <2>. QED
    <3>1. GoesOn(g, Len(b), RunSets, Begin(there), TopStep(b))
      BY <2>2, <2>3 DEF GoesOn
    <3>. QED
      BY <3>1, TopStepType, RecursionTyped
<1>. QED
  BY <1>1, <1>4

\* The runs of a call, statement by statement.
LEMMA CallsSteps ==
    ASSUME NEW b \in Seq(Statement), NEW there \in SUBSET Object, NEW fn, fn.body = b
    PROVE  \E f : /\ Calls(fn, there) = UNION {f[n] : n \in 0..Len(b)} /\ f[0] = Begin(there)
                  /\ \A n \in 0..Len(b) - 1 : f[n + 1] = TopEach(f[n], b[n + 1])
<1>1. PICK f \in [0..Len(b) -> RunSets] : /\ Unrolls(f, Len(b), Begin(there), TopStep(b))
                                          /\ Calls(fn, there) = UNION {f[n] : n \in 0..Len(b)}
  BY CallsUnroll
<1>2. Len(b) \in Nat
  BY TopStepType
<1>3. f[0] = Begin(there) /\ \A n \in 1..Len(b) : f[n] = TopStep(b)[n][f[n - 1]]
  BY <1>1, <1>2, RecursionStep
<1>4. ASSUME NEW n \in 0..Len(b) - 1
      PROVE  f[n + 1] = TopEach(f[n], b[n + 1])
  <2>1. n + 1 \in 1..Len(b) /\ n \in 0..Len(b) /\ (n + 1) - 1 = n
    BY <1>2
  <2>2. f[n + 1] = TopStep(b)[n + 1][f[n]] /\ f[n] \in RunSets
    BY <1>3, <2>1
  <2>. QED
    BY <2>1, <2>2, TopStepType
<1>. QED
  BY <1>1, <1>3, <1>4

LEMMA CallsType ==
    ASSUME NEW fn, fn.body \in Seq(Statement), NEW there \in SUBSET Object, NEW q \in Calls(fn, there)
    PROVE  q \in Run /\ there \subseteq q.objs
<1>. DEFINE b == fn.body
<1>1. PICK f : /\ Calls(fn, there) = UNION {f[n] : n \in 0..Len(b)} /\ f[0] = Begin(there)
               /\ \A n \in 0..Len(b) - 1 : f[n + 1] = TopEach(f[n], b[n + 1])
  BY CallsSteps
<1>2. Len(b) \in Nat
  BY Ends
<1>. DEFINE P == {n \in Nat : \A t \in f[n] : t \in Run /\ there \subseteq t.objs}
<1>3. 0 \in P
  BY <1>1, BeginType
<1>4. ASSUME NEW n \in 0..Len(b) - 1, n \in P
      PROVE  n + 1 \in P
  <2>1. f[n + 1] = TopEach(f[n], b[n + 1]) /\ b[n + 1] \in Statement
    BY <1>1, OneMore
  <2>2. ASSUME NEW t \in f[n + 1] PROVE t \in Run /\ there \subseteq t.objs
    <3>1. PICK u \in f[n] : t \in DoTop(b[n + 1], u)
      BY <2>1 DEF TopEach
    <3>2. u \in Run /\ there \subseteq u.objs
      BY <1>4
    <3>. QED
      BY <2>1, <3>1, <3>2, DoTopType
  <2>. QED
    BY <2>2
<1>. HIDE DEF P, b
<1>5. 0..Len(b) \subseteq P
  BY <1>2, <1>3, <1>4, InductionUpTo
<1>6. PICK n \in 0..Len(b) : q \in f[n]
  BY <1>1
<1>7. n \in P
  BY <1>5, <1>6
<1>. QED
  BY <1>6, <1>7 DEF P

\* Every statement of a function's body is one the sweep agrees to.
AgreesToFunction(b, fields) ==
    \A n \in 1..Len(b) : AgreesTop(Flat(SubSeq(b, 1, n - 1)), b[n], fields)

\* A call of such a function, stopped anywhere, leaves every object with the fields set.
LEMMA CallsKept ==
    ASSUME Wild = {},
           NEW fn, fn.body \in Seq(Statement), NEW there \in SUBSET Object, NEW fields \in SUBSET Fields,
           Kept(there, fields), AgreesToFunction(fn.body, fields), NEW q \in Calls(fn, there)
    PROVE  Kept(q.objs, fields)
<1>. DEFINE b == fn.body
<1>1. PICK f : /\ Calls(fn, there) = UNION {f[n] : n \in 0..Len(b)} /\ f[0] = Begin(there)
               /\ \A n \in 0..Len(b) - 1 : f[n + 1] = TopEach(f[n], b[n + 1])
  BY CallsSteps
<1>2. Len(b) \in Nat
  BY Ends
<1>. DEFINE Before(n) == Flat(SubSeq(b, 1, n))
            Good(n, t) == /\ t \in Run /\ Kept(t.objs \cup t.s, fields)
                          /\ Sound(t, NilableBehind(Before(n)), {})
            P == {n \in Nat : \A t \in f[n] : Good(n, t)}
<1>3. 0 \in P
  <2>1. ASSUME NEW t \in f[0] PROVE Good(0, t)
    <3>1. t \in Run /\ t.objs = there /\ t.s \subseteq there /\ t.env = [l \in Locals |-> "set"]
      BY <1>1, <2>1, BeginType
    <3>2. Sound(t, NilableBehind(Before(0)), {}) /\ Kept(t.objs \cup t.s, fields)
      BY <3>1 DEF Sound, Kept
    <3>. QED
      BY <3>1, <3>2
  <2>. HIDE DEF Good
  <2>. QED
    BY <2>1
<1>4. ASSUME NEW n \in 0..Len(b) - 1, n \in P
      PROVE  n + 1 \in P
  <2>1. f[n + 1] = TopEach(f[n], b[n + 1]) /\ b[n + 1] \in Statement
    BY <1>1, OneMore
  <2>2. Before(n) \in Seq(Simple) /\ Before(n + 1) = Before(n) \o Inner(b[n + 1])
    <3>. DEFINE y == SubSeq(b, 1, n)
                z == SubSeq(b, 1, n + 1)
    <3>1. y \in Seq(Statement) /\ z = Append(y, b[n + 1])
      BY OneMore
    <3>. HIDE DEF y, z
    <3>2. Flat(y) \in Seq(Simple) /\ Flat(z) = Flat(y) \o Inner(b[n + 1])
      BY <2>1, <3>1, FlatAppend DEF Lists, FlatAfter
    <3>. QED
      BY <3>2 DEF y, z
  <2>3. AgreesTop(Before(n), b[n + 1], fields)
    <3>1. n + 1 \in 1..Len(b) /\ (n + 1) - 1 = n
      BY OneMore
    <3>. QED
      BY <3>1 DEF AgreesToFunction
  <2>4. ASSUME NEW t \in f[n + 1] PROVE Good(n + 1, t)
    <3>. DEFINE c == Before(n)
    <3>1. PICK u \in f[n] : t \in DoTop(b[n + 1], u)
      BY <2>1 DEF TopEach
    <3>2. u \in Run /\ Sound(u, NilableBehind(c), {}) /\ Kept(u.objs \cup u.s, fields)
      BY <1>4
    <3>3. t \in Run
      BY <2>1, <3>1, <3>2, DoTopType
    <3>4. c \in Seq(Simple) /\ AgreesTop(c, b[n + 1], fields) /\ Before(n + 1) = c \o Inner(b[n + 1])
      BY <2>2, <2>3
    <3>. HIDE DEF c, Before
    <3>5. Sound(t, NilableBehind(c \o Inner(b[n + 1])), {}) /\ Kept(t.objs \cup t.s, fields)
      BY <2>1, <3>1, <3>2, <3>4, DoTopKept
    <3>. QED
      BY <3>3, <3>4, <3>5
  <2>5. n + 1 \in Nat
    OBVIOUS
  <2>. HIDE DEF Good
  <2>. QED
    BY <2>4, <2>5
<1>. HIDE DEF P, b
<1>5. 0..Len(b) \subseteq P
  BY <1>2, <1>3, <1>4, InductionUpTo
<1>6. PICK n \in 0..Len(b) : q \in f[n]
  BY <1>1
<1>7. n \in P
  BY <1>5, <1>6
<1>8. Kept(q.objs \cup q.s, fields)
  BY <1>6, <1>7 DEF P
<1>. QED
  BY <1>8 DEF Kept

-----------------------------------------------------------------------------
(* The package.                                                            *)

LEMMA PackageType ==
    ASSUME NEW p \in Packages, NEW i \in DOMAIN p
    PROVE  p[i].body \in Seq(Statement) /\ p[i].file \in {"plain", "test", "generated"}
<1>1. p \in Seq(Func)
  BY WiringAssumption
<1>2. p[i] \in Func
  BY <1>1
<1>. QED
  BY <1>2 DEF Func

\* Places looks at every simple statement, where it stands.
LEMMA AllPlaces ==
    ASSUME NEW b \in Seq(Statement), NEW fields, \A at \in Places(b) : Agrees(at, fields)
    PROVE  AgreesToFunction(b, fields)
<1>. SUFFICES ASSUME NEW n \in 1..Len(b)
              PROVE  AgreesTop(Flat(SubSeq(b, 1, n - 1)), b[n], fields)
  BY DEF AgreesToFunction
<1>. DEFINE before == Flat(SubSeq(b, 1, n - 1))
            start  == IF b[n].op = "if" THEN before ELSE <<>>
<1>1. n \in DOMAIN b /\ b[n] \in Statement
  OBVIOUS
<1>2. CASE b[n].op \notin {"if", "closure"}
  <2>1. [before |-> before, st |-> b[n]] \in Places(b)
    BY <1>1, <1>2 DEF Places
  <2>. QED
    BY <1>2, <2>1 DEF AgreesTop
<1>3. CASE b[n].op \in {"if", "closure"}
  <2>1. b[n].body \in Seq(Simple)
    BY <1>1, <1>3, Shapes
  <2>. DEFINE At(j) == [before |-> start \o SubSeq(b[n].body, 1, j - 1), st |-> b[n].body[j]]
  <2>2. ASSUME NEW j \in DOMAIN b[n].body PROVE At(j) \in Places(b)
    <3>1. At(j) \in IF b[n].op \notin {"if", "closure"} THEN {[before |-> before, st |-> b[n]]}
                    ELSE {[before |-> start \o SubSeq(b[n].body, 1, k - 1), st |-> b[n].body[k]] :
                            k \in DOMAIN b[n].body}
      BY <1>3
    <3>. QED
      BY <1>1, <3>1, Zenon DEF Places
  <2>3. ASSUME NEW j \in 1..Len(b[n].body) PROVE Agrees(At(j), fields)
    <3>1. j \in DOMAIN b[n].body
      BY <2>1
    <3>2. At(j) \in Places(b)
      BY <2>2, <3>1
    <3>. QED
      BY <3>2
  <2>4. AgreesToAll(start, b[n].body, fields)
    BY <2>3 DEF AgreesToAll
  <2>. QED
    BY <1>3, <2>4 DEF AgreesTop
<1>. QED
  BY <1>2, <1>3

\* A field is wired only where the whole package agrees to it (computeWiredFields).
LEMMA WiredAgrees ==
    ASSUME Wild = {}, NEW d, NEW p \in Packages, Follows(d, p), ComputeWiredFields(d, p) # {},
           NEW i \in DOMAIN p, p[i].file # "test"
    PROVE  AgreesToFunction(p[i].body, ComputeWiredFields(d, p))
<1>. DEFINE W == ComputeWiredFields(d, p)
<1>1. p[i].body \in Seq(Statement) /\ p[i].file = "plain"
  BY PackageType DEF Follows
<1>2. ~Escapes(p) /\ d.held # "exported" /\ \A f \in W : FieldWired(p, f)
  BY DEF ComputeWiredFields, Disqualified, EmbeddedInExported
<1>3. ASSUME NEW at \in Places(p[i].body)
      PROVE  Agrees(at, W)
  <2>1. at \in Swept(p)
    BY <1>1 DEF Swept
  <2>2. at.st.op \notin {"zero", "slice", "reflect"}
    BY <1>2, <2>1 DEF Escapes
  <2>3. at.st.op \notin {"shadow", "holder", "result"}
    BY <1>2 DEF Follows, Unseen
  <2>4. ASSUME NEW f \in W
        PROVE  (at.st.op \in {"keyed", "ordered"} => ProvesField(at, f)) /\ ~Invalidates(at, f)
    BY <1>2, <2>1 DEF FieldWired, Sites
  <2>. HIDE DEF W
  <2>. QED
    BY <2>2, <2>3, <2>4 DEF Agrees
<1>. HIDE DEF W
<1>4. AgreesToFunction(p[i].body, W)
  BY <1>1, <1>3, AllPlaces
<1>. QED
  BY <1>4 DEF W

-----------------------------------------------------------------------------
(* The inductive invariant: no object has ever held nil in a wired field.  *)
Inv ==
    /\ decl \in Decls /\ pkg \in Packages /\ Follows(decl, pkg)
    /\ wired = ComputeWiredFields(decl, pkg)
    /\ objs \in SUBSET Object
    /\ Kept(objs, wired)

\* Calls of the package's functions keep it.
LEMMA CallKeeps ==
    ASSUME Wild = {}, Inv, NEW i \in DOMAIN pkg, Call(i)
    PROVE  Inv' /\ objs \subseteq objs'
<1>1. /\ pkg[i].file # "test" /\ UNCHANGED <<decl, pkg, wired>>
      /\ \E r \in Calls(pkg[i], objs) : objs' = r.objs
  BY DEF Call
<1>2. PICK r \in Calls(pkg[i], objs) : objs' = r.objs
  BY <1>1
<1>3. pkg[i].body \in Seq(Statement) /\ pkg \in Packages /\ objs \in SUBSET Object
  BY PackageType DEF Inv
<1>4. r \in Run /\ objs \subseteq r.objs
  BY <1>2, <1>3, CallsType
<1>5. Kept(r.objs, wired)
  <2>1. CASE wired = {}
    BY <2>1 DEF Kept
  <2>2. CASE wired # {}
    <3>1. AgreesToFunction(pkg[i].body, wired)
      BY <1>1, <1>3, <2>2, WiredAgrees DEF Inv
    <3>2. wired \in SUBSET Fields /\ Kept(objs, wired)
      BY DEF Inv, ComputeWiredFields
    <3>3. Wild = {}
      OBVIOUS
    <3>. QED
      BY <1>2, <1>3, <3>1, <3>2, <3>3, CallsKept
  <2>. QED
    BY <2>1, <2>2
<1>6. r.objs \in SUBSET Object
  BY <1>4 DEF Run
<1>. QED
  BY <1>1, <1>2, <1>4, <1>5, <1>6 DEF Inv, Kept

\* So do other packages, which reach no wired field.
LEMMA OthersKeep ==
    ASSUME Wild = {}, Inv, Outside \/ OutsideZero
    PROVE  Inv' /\ objs \subseteq objs'
<1>1. UNCHANGED <<decl, pkg, wired>> /\ decl \in Decls
  BY DEF Outside, OutsideZero, Inv
<1>2. CASE Outside
  <2>1. PICK o \in objs, f \in decl.open, v \in Anywhere : objs' = objs \cup {[o EXCEPT ![f] = v]}
    BY <1>2 DEF Outside
  <2>2. decl.exported /\ f \in Fields /\ o \in Object
    BY <1>1, <1>2, WiringAssumption DEF Outside, Inv
  <2>3. f \notin wired
    BY <1>2, <2>2 DEF Inv, ComputeWiredFields, EligibleField
  <2>4. [o EXCEPT ![f] = v] \in Object
    BY <2>2 DEF Object, Anywhere
  <2>5. \A g \in wired : [o EXCEPT ![f] = v][g] = "set"
    BY <2>2, <2>3 DEF Inv, Kept, Object, ComputeWiredFields
  <2>. QED
    BY <1>1, <2>1, <2>4, <2>5 DEF Inv, Kept
<1>3. CASE OutsideZero
  <2>1. wired = {} /\ objs' = objs \cup {Zero}
    BY <1>3 DEF OutsideZero, Inv, ComputeWiredFields, Disqualified, EmbeddedInExported
  <2>2. Zero \in Object
    BY DEF Zero, Object
  <2>. QED
    BY <1>1, <2>1, <2>2 DEF Inv, Kept
<1>. QED
  BY <1>2, <1>3

LEMMA InvHolds == ASSUME Wild = {} PROVE Spec => []Inv
<1>1. Init => Inv
  BY DEF Init, Inv, Kept
<1>2. Inv /\ [Next]_vars => Inv'
  <2>. SUFFICES ASSUME Inv, [Next]_vars PROVE Inv'
    OBVIOUS
  <2>1. CASE UNCHANGED vars
    BY <2>1 DEF vars, Inv, Kept
  <2>2. CASE Next
    BY <2>2, CallKeeps, OthersKeep DEF Next
  <2>. QED
    BY <2>1, <2>2
<1>. QED
  BY <1>1, <1>2, PTL DEF Spec

\* The fields in wired are never nil, in any package that keeps to the disciplines:
\* the package with its sweep implements the promise (computeWiredFields, "always
\* non-nil").
THEOREM WiringIsSound == ASSUME Wild = {} PROVE Spec => StaysWired
<1>. DEFINE nils == {f \in Fields : \E o \in objs : o[f] = "nil"}
<1>1. Init => Promise!Init
  BY DEF Init, Promise!Init, ComputeWiredFields
<1>2. Inv /\ [Next]_vars => [Promise!Use]_<<wired, nils>>
  <2>. SUFFICES ASSUME Inv, Next PROVE Promise!Use
    BY DEF vars
  <2>1. Inv' /\ objs \subseteq objs' /\ wired' = wired
    BY CallKeeps, OthersKeep DEF Next, Call, Outside, OutsideZero
  <2>2. nils \subseteq nils'
    BY <2>1
  <2>3. nils' \subseteq Fields \ wired
    BY <2>1 DEF Inv, Kept
  <2>. QED
    BY <2>1, <2>2, <2>3 DEF Promise!Use
<1>. QED
  BY <1>1, <1>2, InvHolds, PTL DEF Spec, StaysWired, Promise!Spec

-----------------------------------------------------------------------------
(* Nothing is demanded without a reason: there is a worst run, in which    *)
(* every local the sweep takes to be nilable is nil.                       *)

AllNil(r, nilable) == \A l \in nilable : r.env[l] = "nil"

LEMMA NilableMayBeNil ==
    ASSUME NEW v \in Value, NEW x \in LocalSets, NEW r \in Run, AllNil(r, x), IsNilableValue(v, x)
    PROVE  "nil" \in ValuesOf(v, r.env)
<1>1. r.env \in [Locals -> Anywhere]
  BY DEF Run
<1>. QED
  BY <1>1, ValuesType DEF IsNilableValue, AllNil

\* A value that comes out nil where it may.
LEMMA WorstValues ==
    ASSUME NEW x \in LocalSets, NEW r \in Run, AllNil(r, x)
    PROVE  \E worst \in [Value -> Anywhere] : \A v \in Value :
              worst[v] \in ValuesOf(v, r.env) /\ (IsNilableValue(v, x) => worst[v] = "nil")
<1>. DEFINE worst == [v \in Value |-> IF "nil" \in ValuesOf(v, r.env) THEN "nil" ELSE "set"]
<1>1. r.env \in [Locals -> Anywhere]
  BY DEF Run
<1>2. \A v \in Value : ValuesOf(v, r.env) \in SUBSET Anywhere /\ ValuesOf(v, r.env) # {}
  BY <1>1, ValuesType
<1>3. \A v \in Value : IsNilableValue(v, x) => "nil" \in ValuesOf(v, r.env)
  BY NilableMayBeNil
<1>4. worst \in [Value -> Anywhere]
  BY DEF Anywhere
<1>5. \A v \in Value : worst[v] \in ValuesOf(v, r.env) /\ (IsNilableValue(v, x) => worst[v] = "nil")
  BY <1>2, <1>3 DEF Anywhere
<1>. QED
  BY <1>4, <1>5

\* A literal can leave nil every field that it does not prove.
LEMMA BuiltWorst ==
    ASSUME NEW st \in Simple, st.op \in {"keyed", "ordered"}, NEW before \in Seq(Simple),
           NEW r \in Run, AllNil(r, NilableBehind(before)), NEW at, at.st = st, at.before = before
    PROVE  \E o \in Built(st, r.env) : \A f \in Fields : ~ProvesField(at, f) => o[f] = "nil"
<1>. DEFINE x == NilableBehind(before)
<1>1. PICK worst \in [Value -> Anywhere] : \A v \in Value :
          worst[v] \in ValuesOf(v, r.env) /\ (IsNilableValue(v, x) => worst[v] = "nil")
  <2>1. x \in LocalSets
    <3>1. PICK f \in [0..Len(before) -> LocalSets] : x = f[Len(before)]
      BY NilableUnrolls
    <3>2. Len(before) \in 0..Len(before)
      BY Ends
    <3>. QED
      BY <3>1, <3>2
  <2>. QED
    BY <2>1, WorstValues
<1>2. CASE st.op = "keyed"
  <2>. DEFINE o == [f \in Fields |-> IF f \in DOMAIN st.vals THEN worst[st.vals[f]] ELSE "nil"]
  <2>1. \A f \in DOMAIN st.vals : st.vals[f] \in Value
    BY <1>2, Parts
  <2>2. o \in Object
    BY <1>1, <2>1 DEF Object, Anywhere
  <2>3. o \in Built(st, r.env)
    <3>1. \A f \in Fields : IF f \in DOMAIN st.vals THEN o[f] \in ValuesOf(st.vals[f], r.env) ELSE o[f] = "nil"
      BY <1>1, <2>1
    <3>. HIDE DEF o
    <3>. QED
      BY <1>2, <2>2, <3>1, Zenon DEF Built
  <2>4. ASSUME NEW f \in Fields, ~ProvesField(at, f) PROVE o[f] = "nil"
    <3>1. ~(f \in DOMAIN st.vals /\ ~IsNilableValue(st.vals[f], x))
      BY <1>2, <2>4, Zenon DEF ProvesField
    <3>. QED
      BY <1>1, <2>1, <3>1
  <2>. QED
    BY <2>3, <2>4
<1>3. CASE st.op = "ordered"
  <2>. DEFINE place(f) == CHOOSE i \in DOMAIN FieldOrder : FieldOrder[i] = f
              o == [f \in Fields |-> worst[st.vals[place(f)]]]
  <2>1. DOMAIN st.vals = DOMAIN FieldOrder /\ \A i \in DOMAIN st.vals : st.vals[i] \in Value
    BY <1>3, Parts
  <2>2. ASSUME NEW f \in Fields
        PROVE  \E i \in DOMAIN FieldOrder : /\ FieldOrder[i] = f /\ o[f] = worst[st.vals[i]]
                                             /\ \A j \in DOMAIN FieldOrder : FieldOrder[j] = f => j = i
    <3>1. place(f) \in DOMAIN FieldOrder /\ FieldOrder[place(f)] = f
      BY DEF Fields, ToSet
    <3>2. o[f] = worst[st.vals[place(f)]]
      OBVIOUS
    <3>. HIDE DEF place, o
    <3>3. \A j \in DOMAIN FieldOrder : FieldOrder[j] = f => j = place(f)
      BY <3>1, WiringAssumption DEF IsInjective
    <3>. QED
      BY <3>1, <3>2, <3>3
  <2>3. \A f \in Fields : o[f] \in Anywhere
    <3>. HIDE DEF o
    <3>. QED
      BY <1>1, <2>1, <2>2
  <2>4. o \in Object
    BY <2>3 DEF Object, Anywhere
  <2>. HIDE DEF o
  <2>5. o \in Built(st, r.env)
    <3>1. \A f \in Fields : \A i \in DOMAIN st.vals : FieldOrder[i] = f => o[f] \in ValuesOf(st.vals[i], r.env)
      BY <1>1, <2>1, <2>2
    <3>2. st.op # "keyed"
      BY <1>3
    <3>. QED
      BY <1>3, <2>4, <3>1, <3>2, Zenon DEF Built
  <2>6. ASSUME NEW f \in Fields, ~ProvesField(at, f) PROVE o[f] = "nil"
    <3>1. st.op # "keyed"
      BY <1>3
    <3>2. \A i \in DOMAIN st.vals : ~(FieldOrder[i] = f /\ ~IsNilableValue(st.vals[i], x))
      BY <1>3, <2>6, <3>1, Zenon DEF ProvesField
    <3>. QED
      BY <1>1, <2>1, <2>2, <3>2
  <2>. QED
    BY <2>5, <2>6
<1>. QED
  BY <1>2, <1>3

\* The worst run goes on behind any statement.
LEMMA DoWorst ==
    ASSUME NEW st \in Simple, st.op \notin {"shadow", "init"}, NEW before \in Seq(Simple),
           NEW r \in Run, r.s # {}, AllNil(r, NilableBehind(before))
    PROVE  \E q \in Do(st, r) : q.s # {} /\ AllNil(q, NilableBehind(Append(before, st)))
<1>. DEFINE x == NilableBehind(before)
            y == NilableAfter(x, st)
            Env(l, v) == [r EXCEPT !.env[l] = v]
<1>1. x \in LocalSets /\ NilableBehind(Append(before, st)) = y
  BY NilableAppend
<1>2. r.env \in [Locals -> Anywhere] /\ r.s \subseteq Object
  BY DEF Run
<1>3. \A v : \A l \in Locals :
         /\ Env(l, v).s = r.s /\ Env(l, v).env[l] = v
         /\ \A m \in Locals \ {l} : Env(l, v).env[m] = r.env[m]
  BY <1>2 DEF Run
<1>4. \A o : Holding(r, o).s = {o} /\ Holding(r, o).env = r.env
  BY DEF Holding, Run
<1>. SUFFICES \E q \in Do(st, r) : q.s # {} /\ AllNil(q, y)
  BY <1>1
<1>. HIDE DEF x, Env
<1>5. CASE st.op \in {"var", "multi"}
  <2>. DEFINE q == Env(st.l, IF st.op = "var" THEN "nil" ELSE "set")
  <2>1. q \in Do(st, r) /\ st.l \in Locals
    <3>1. CASE st.op = "var"
      BY <3>1, Parts DEF Do, Env
    <3>2. CASE st.op = "multi"
      <4>1. "set" \in Taken(st, r.env)
        BY <3>2, Parts DEF Taken, ValuesOf, Anywhere
      <4>. QED
        BY <3>2, <4>1, Parts DEF Do, Env
    <3>. QED
      BY <1>5, <3>1, <3>2
  <2>2. y = IF st.op = "var" THEN x \cup {st.l} ELSE x \ {st.l}
    BY <1>5 DEF NilableAfter
  <2>3. AllNil(q, y)
    BY <1>1, <1>3, <1>5, <2>1, <2>2 DEF AllNil, LocalSets, x
  <2>. QED
    BY <1>3, <2>1, <2>3
<1>6. CASE st.op = "set"
  <2>. DEFINE v == IF "nil" \in ValuesOf(st.v, r.env) THEN "nil" ELSE "set"
              q == Env(st.l, v)
  <2>1. st.l \in Locals /\ st.v \in Value
    BY <1>6, Parts
  <2>2. v \in ValuesOf(st.v, r.env)
    BY <1>2, <2>1, ValuesType DEF Anywhere
  <2>3. q \in Do(st, r)
    BY <1>6, <2>2 DEF Do, Env
  <2>4. IsNilableValue(st.v, x) => v = "nil"
    BY <1>1, <2>1, NilableMayBeNil DEF x
  <2>5. y = IF IsNilableValue(st.v, x) THEN x \cup {st.l} ELSE x \ {st.l}
    BY <1>6 DEF NilableAfter
  <2>. HIDE DEF v
  <2>6. AllNil(q, y)
    BY <1>1, <1>3, <2>1, <2>4, <2>5 DEF AllNil, LocalSets, x
  <2>. QED
    BY <1>3, <2>1, <2>3, <2>6
<1>7. CASE st.op \notin {"var", "multi", "set"}
  <2>1. y = x
    BY <1>7 DEF NilableAfter
  <2>2. \E o : Holding(r, o) \in Do(st, r)
    <3>1. CASE st.op \in {"keyed", "ordered"}
      <4>. DEFINE at == [before |-> before, st |-> st]
      <4>0. at.st = st /\ at.before = before
        OBVIOUS
      <4>. HIDE DEF at
      <4>1. PICK o : o \in Built(st, r.env)
        BY <3>1, <4>0, BuiltWorst
      <4>. QED
        BY <3>1, <4>1 DEF Do
    <3>2. CASE st.op \in {"zero", "slice", "holder", "result"}
      <4>1. CASE st.op = "zero"
        BY <4>1 DEF Do
      <4>2. CASE st.op = "slice"
        BY <4>2 DEF Do
      <4>3. CASE st.op = "holder"
        BY <4>3 DEF Do
      <4>4. CASE st.op = "result"
        BY <4>4 DEF Do
      <4>. QED
        BY <3>2, <4>1, <4>2, <4>3, <4>4
    <3>3. CASE st.op = "field"
      <4>. DEFINE next(o, v) == Holding(r, [o EXCEPT ![st.f] = v])
      <4>1. PICK o \in r.s, v \in ValuesOf(st.v, r.env) : TRUE
        BY <1>2, <3>3, Parts, ValuesType
      <4>2. Do(st, r) = {next(a, w) : a \in r.s, w \in ValuesOf(st.v, r.env)}
        BY <3>3 DEF Do
      <4>. HIDE DEF next
      <4>3. next(o, v) \in Do(st, r)
        BY <4>1, <4>2
      <4>. QED
        BY <4>3 DEF next
    <3>4. CASE st.op = "several"
      <4>. DEFINE next(o, v) == Holding(r, [o EXCEPT ![st.f] = v])
      <4>1. PICK o : o \in r.s
        OBVIOUS
      <4>2. Do(st, r) = {next(a, v) : a \in r.s, v \in Anywhere}
        BY <3>4 DEF Do
      <4>. HIDE DEF next
      <4>3. next(o, "set") \in Do(st, r)
        BY <4>1, <4>2 DEF Anywhere
      <4>. QED
        BY <4>3 DEF next
    <3>5. CASE st.op = "reflect"
      <4>1. PICK o \in r.s : o \in Object
        BY <1>2
      <4>2. Holding(r, o) \in Do(st, r)
        BY <3>5, <4>1 DEF Do
      <4>. QED
        BY <4>2
    <3>. QED
      BY <1>7, <3>1, <3>2, <3>3, <3>4, <3>5, Parts
  <2>3. PICK o : Holding(r, o) \in Do(st, r)
    BY <2>2
  <2>. QED
    BY <1>4, <2>1, <2>3 DEF AllNil, x
<1>. QED
  BY <1>5, <1>6, <1>7

-----------------------------------------------------------------------------
\* Statements without branches or closures, none of which hides a local or changes
\* one behind the sweep's back.
Plain(b) == \A j \in DOMAIN b : b[j].op \notin {"if", "closure", "shadow", "init"}
Place(b, n) == [before |-> Flat(SubSeq(b, 1, n)), st |-> b[n + 1]]

LEMMA PlainPlaces ==
    ASSUME NEW b \in Seq(Statement), Plain(b), NEW at \in Places(b)
    PROVE  \E n \in 0..Len(b) - 1 : at = Place(b, n)
<1>1. PICK k \in DOMAIN b :
        at \in IF b[k].op \notin {"if", "closure"} THEN {[before |-> Flat(SubSeq(b, 1, k - 1)), st |-> b[k]]}
              ELSE {[before |-> (IF b[k].op = "if" THEN Flat(SubSeq(b, 1, k - 1)) ELSE <<>>)
                                 \o SubSeq(b[k].body, 1, j - 1),
                     st     |-> b[k].body[j]] : j \in DOMAIN b[k].body}
  BY Zenon DEF Places
<1>2. at = [before |-> Flat(SubSeq(b, 1, k - 1)), st |-> b[k]]
  BY <1>1, Zenon DEF Plain
<1>3. k - 1 \in 0..Len(b) - 1 /\ (k - 1) + 1 = k
  OBVIOUS
<1>4. at = Place(b, k - 1)
  BY <1>2, <1>3 DEF Place
<1>. QED
  BY <1>3, <1>4

\* What stands before such a place.
LEMMA PlainBehind ==
    ASSUME NEW b \in Seq(Statement), Plain(b), NEW n \in 0..Len(b) - 1
    PROVE  /\ b[n + 1] \in Simple /\ b[n + 1].op \notin {"if", "closure", "shadow", "init"}
           /\ Flat(SubSeq(b, 1, n)) \in Seq(Simple)
           /\ Flat(SubSeq(b, 1, n + 1)) = Append(Flat(SubSeq(b, 1, n)), b[n + 1])
<1>. DEFINE st == b[n + 1]
            y  == SubSeq(b, 1, n)
            z  == SubSeq(b, 1, n + 1)
<1>1. st \in Statement /\ n + 1 \in DOMAIN b /\ y \in Seq(Statement) /\ z = Append(y, st)
  BY OneMore
<1>2. st.op \notin {"if", "closure", "shadow", "init"}
  BY <1>1 DEF Plain
<1>. HIDE DEF st, y, z
<1>3. st \in Simple /\ Inner(st) = <<st>>
  BY <1>1, <1>2, Shapes
<1>4. Flat(y) \in Seq(Simple) /\ Flat(z) = Flat(y) \o <<st>>
  BY <1>1, <1>3, FlatAppend DEF Lists, FlatAfter
<1>5. Flat(z) = Append(Flat(y), st)
  <2>. DEFINE fy == Flat(y)
  <2>1. fy \in Seq(Simple)
    BY <1>4
  <2>. HIDE DEF fy
  <2>2. fy \o <<st>> = Append(fy, st)
    BY <1>3, <2>1
  <2>. QED
    BY <1>4, <2>2 DEF fy
<1>. QED
  BY <1>2, <1>3, <1>4, <1>5 DEF st, y, z

\* Called on an object, such a body has a worst run behind each of its statements.
Worsens(fn, there, b, f) ==
    /\ Calls(fn, there) = UNION {f[n] : n \in 0..Len(b)}
    /\ \A n \in 0..Len(b) - 1 : f[n + 1] = TopEach(f[n], b[n + 1])
    /\ \A n \in 0..Len(b) : \E r \in f[n] :
          r \in Run /\ r.s # {} /\ AllNil(r, NilableBehind(Flat(SubSeq(b, 1, n))))

LEMMA CallsWorst ==
    ASSUME NEW b \in Seq(Statement), Plain(b), NEW there \in SUBSET Object, there # {}, NEW fn, fn.body = b
    PROVE  \E f : Worsens(fn, there, b, f)
<1>1. PICK f : /\ Calls(fn, there) = UNION {f[n] : n \in 0..Len(b)} /\ f[0] = Begin(there)
               /\ \A n \in 0..Len(b) - 1 : f[n + 1] = TopEach(f[n], b[n + 1])
  BY CallsSteps
<1>2. Len(b) \in Nat
  BY Ends
<1>. DEFINE Worst(n, r) == r \in Run /\ r.s # {} /\ AllNil(r, NilableBehind(Flat(SubSeq(b, 1, n))))
            P == {n \in Nat : \E r \in f[n] : Worst(n, r)}
<1>3. 0 \in P
  <2>1. PICK o \in there : TRUE
    OBVIOUS
  <2>. DEFINE r == [env |-> [l \in Locals |-> "set"], s |-> {o}, objs |-> there]
  <2>2. r \in Begin(there) /\ r.s = {o}
    BY DEF Begin
  <2>. HIDE DEF r
  <2>3. NilableBehind(Flat(SubSeq(b, 1, 0))) = {}
    BY Ends, FlatEmpty, NilableEmpty
  <2>4. Worst(0, r)
    BY <2>2, <2>3, BeginType DEF AllNil
  <2>. HIDE DEF Worst
  <2>. QED
    BY <1>1, <2>2, <2>4
<1>4. ASSUME NEW n \in 0..Len(b) - 1, n \in P
      PROVE  n + 1 \in P
  <2>. DEFINE st == b[n + 1]
              before == Flat(SubSeq(b, 1, n))
  <2>1. PICK r \in f[n] : Worst(n, r)
    BY <1>4
  <2>2. /\ st \in Simple /\ st.op \notin {"if", "closure", "shadow", "init"} /\ before \in Seq(Simple)
        /\ Flat(SubSeq(b, 1, n + 1)) = Append(before, st)
    BY PlainBehind
  <2>3. r \in Run /\ r.s # {} /\ AllNil(r, NilableBehind(before)) /\ f[n + 1] = TopEach(f[n], st)
    BY <1>1, <2>1
  <2>. HIDE DEF st, before
  <2>4. PICK q \in Do(st, r) : q.s # {} /\ AllNil(q, NilableBehind(Append(before, st)))
    BY <2>2, <2>3, DoWorst
  <2>5. q \in Run
    BY <2>2, <2>3, DoType
  <2>6. DoTop(st, r) = Do(st, r)
    BY <2>2 DEF DoTop
  <2>7. q \in f[n + 1]
    BY <2>3, <2>4, <2>6 DEF TopEach
  <2>8. Worst(n + 1, q)
    BY <2>2, <2>4, <2>5
  <2>9. n + 1 \in Nat
    OBVIOUS
  <2>. HIDE DEF Worst
  <2>. QED
    BY <2>7, <2>8, <2>9
<1>. HIDE DEF P
<1>5. 0..Len(b) \subseteq P
  BY <1>2, <1>3, <1>4, InductionUpTo
<1>6. \A n \in 0..Len(b) : \E r \in f[n] : Worst(n, r)
  BY <1>5 DEF P
<1>. QED
  BY <1>1, <1>6 DEF Worsens

\* Where the sweep refuses the field, a call leaves it nil.
LEMMA RefusedLeavesNil ==
    ASSUME NEW b \in Seq(Statement), Plain(b), NEW there \in SUBSET Object, there # {}, NEW fn, fn.body = b,
           NEW at \in Places(b), NEW g \in Fields,
           \/ at.st.op \in {"keyed", "ordered"} /\ ~ProvesField(at, g)
           \/ at.st.op = "field" /\ Invalidates(at, g)
    PROVE  \E r \in Calls(fn, there) : \E o \in r.objs : o[g] = "nil"
<1>1. PICK f : Worsens(fn, there, b, f)
  BY CallsWorst
<1>2. PICK n \in 0..Len(b) - 1 : at = Place(b, n)
  BY PlainPlaces
<1>. DEFINE st == b[n + 1]
            before == Flat(SubSeq(b, 1, n))
<1>3. /\ st \in Simple /\ st.op \notin {"if", "closure", "shadow", "init"} /\ before \in Seq(Simple)
      /\ at.st = st /\ at.before = before
  BY <1>2, PlainBehind DEF Place
<1>4. n \in 0..Len(b) /\ n + 1 \in 0..Len(b)
  BY Ends
<1>5. PICK r \in f[n] : r \in Run /\ r.s # {} /\ AllNil(r, NilableBehind(before))
  BY <1>1, <1>4 DEF Worsens
<1>6. f[n + 1] = TopEach(f[n], st)
  BY <1>1 DEF Worsens
<1>. HIDE DEF st, before
<1>7. DoTop(st, r) = Do(st, r)
  BY <1>3 DEF DoTop
<1>8. Do(st, r) \subseteq Calls(fn, there)
  <2>1. Do(st, r) \subseteq f[n + 1]
    BY <1>5, <1>6, <1>7 DEF TopEach
  <2>. QED
    BY <1>1, <1>4, <2>1 DEF Worsens
<1>9. \A o : o \in Holding(r, o).objs
  BY <1>5 DEF Run, Holding
<1>10. CASE at.st.op \in {"keyed", "ordered"} /\ ~ProvesField(at, g)
  <2>1. PICK o \in Built(st, r.env) : \A h \in Fields : ~ProvesField(at, h) => o[h] = "nil"
    BY <1>3, <1>5, <1>10, BuiltWorst
  <2>2. Holding(r, o) \in Do(st, r)
    BY <1>3, <1>10 DEF Do
  <2>. QED
    BY <1>8, <1>9, <1>10, <2>1, <2>2
<1>11. CASE at.st.op = "field" /\ Invalidates(at, g)
  <2>1. st.op = "field" /\ st.f = g /\ IsNilableValue(st.v, NilableBehind(before)) /\ st.v \in Value
    BY <1>3, <1>11, Parts DEF Invalidates
  <2>2. NilableBehind(before) \in LocalSets
    BY <1>3, NilableAppend
  <2>3. "nil" \in ValuesOf(st.v, r.env)
    BY <1>5, <2>1, <2>2, NilableMayBeNil
  <2>4. PICK o \in r.s : o \in Object
    BY <1>5 DEF Run
  <2>. DEFINE next(a, w) == Holding(r, [a EXCEPT ![st.f] = w])
  <2>5. Do(st, r) = {next(a, w) : a \in r.s, w \in ValuesOf(st.v, r.env)}
    BY <2>1 DEF Do
  <2>6. next(o, "nil") \in Do(st, r)
    <3>. HIDE DEF next
    <3>. QED
      BY <2>3, <2>4, <2>5
  <2>7. [o EXCEPT ![st.f] = "nil"][g] = "nil"
    BY <2>1, <2>4 DEF Object
  <2>. QED
    BY <1>8, <1>9, <2>6, <2>7
<1>. QED
  BY <1>10, <1>11

\* The sweep demands nothing without a reason: in a package without branches and
\* closures, an eligible field that computeWiredFields leaves out is left nil by
\* some call, or assigned one of several results.
THEOREM WiringIsFair == ASSUME Wild = {} PROVE Spec => []LeftOutForAReason
<1>1. Inv => LeftOutForAReason
  <2>. SUFFICES ASSUME Inv, Straight(pkg), ~Disqualified(decl, pkg), Sites(pkg) # {},
                       NEW g \in Fields \ wired, EligibleField(decl, g)
                PROVE  \/ LeftNil(pkg, g)
                       \/ \E at \in Swept(pkg) : at.st.op = "several" /\ at.st.f = g
    BY DEF LeftOutForAReason
  <2>1. ~FieldWired(pkg, g)
    BY DEF Inv, ComputeWiredFields
  <2>2. PICK at \in Swept(pkg) : \/ at.st.op \in {"keyed", "ordered"} /\ ~ProvesField(at, g)
                                 \/ Invalidates(at, g)
    BY <2>1 DEF FieldWired, Sites
  <2>3. CASE at.st.op = "several" /\ Invalidates(at, g)
    BY <2>3 DEF Invalidates
  <2>4. CASE \/ at.st.op \in {"keyed", "ordered"} /\ ~ProvesField(at, g)
             \/ at.st.op = "field" /\ Invalidates(at, g)
    <3>1. PICK i \in DOMAIN pkg : at \in Places(pkg[i].body)
      BY DEF Swept
    <3>2. pkg[i].body \in Seq(Statement)
      BY PackageType DEF Inv
    <3>3. Plain(pkg[i].body)
      <4>. DEFINE b == pkg[i].body
      <4>1. ASSUME NEW j \in DOMAIN b PROVE b[j].op \notin {"if", "closure", "shadow", "init"}
        <5>1. b[j].op \notin {"if", "closure", "init"}
          BY DEF Straight
        <5>2. [before |-> Flat(SubSeq(b, 1, j - 1)), st |-> b[j]] \in Places(b)
          BY <5>1 DEF Places
        <5>3. b[j].op \notin {"shadow"}
          BY <5>2 DEF Inv, Follows, Unseen
        <5>. QED
          BY <5>1, <5>3
      <4>. QED
        BY <4>1 DEF Plain
    <3>. DEFINE full == [h \in Fields |-> "set"]
    <3>4. {full} \in SUBSET Object /\ {full} # {}
      BY DEF Object
    <3>. HIDE DEF full
    <3>5. \E r \in Calls(pkg[i], {full}) : \E o \in r.objs : o[g] = "nil"
      BY <2>4, <3>1, <3>2, <3>3, <3>4, RefusedLeavesNil
    <3>. QED
      BY <3>5 DEF LeftNil, full
  <2>. QED
    BY <2>2, <2>3, <2>4 DEF Invalidates
<1>. QED
  BY <1>1, InvHolds, PTL
=============================================================================
