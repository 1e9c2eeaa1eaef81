---------------------------- MODULE CalleeProofs ----------------------------
(***************************************************************************)
(* What the facts read off a body promise to its callers holds of every    *)
(* execution of it, if functions keep to the disciplines.                  *)
(***************************************************************************)
EXTENDS Callee, Recursion

-----------------------------------------------------------------------------
(* The grammar.                                                            *)

CondRanks == [c \in Conds |-> Operators[c]]
Ranks     == [st \in Statements |-> Depth[st]]

LEMMA CondParts ==
    ASSUME NEW c \in Conds
    PROVE  /\ c.k \in {"eq", "ne", "is", "any", "not", "and", "or"}
           /\ c.k \in {"eq", "ne", "is"} => c.x \in Vars
           /\ c.k = "not" => c.c \in Conds /\ Operators[c.c] < Operators[c]
           /\ c.k \in {"and", "or"} =>
                 c.l \in Conds /\ c.r \in Conds /\ Operators[c.l] < Operators[c] /\ Operators[c.r] < Operators[c]
<1>1. IsCondition(c)
  BY CalleeAssumption
<1>2. ASSUME c.k = "not" PROVE c.c \in Operands(c)
  BY <1>2 DEF Operands
<1>3. ASSUME c.k \in {"and", "or"} PROVE c.l \in Operands(c) /\ c.r \in Operands(c)
  BY <1>3 DEF Operands
<1>. QED
  BY <1>1, <1>2, <1>3 DEF IsCondition

LEMMA CondRanksTyped ==
    CondRanks \in [Conds -> Nat] /\ \A c \in Conds : CondRanks[c] = Operators[c]
<1>1. \A c \in Conds : Operators[c] \in Nat
  BY CalleeAssumption DEF IsCondition
<1>. QED
  BY <1>1 DEF CondRanks

LEMMA RanksTyped ==
    Ranks \in [Statements -> Nat] /\ \A st \in Statements : Ranks[st] = Depth[st]
<1>1. \A st \in Statements : Depth[st] \in Nat
  BY CalleeAssumption DEF IsStatement
<1>. QED
  BY <1>1 DEF Ranks

\* A block of st.
IsBlock(b, st) == b \in Seq(Statements) /\ \A i \in DOMAIN b : b[i] \in Within(st) /\ Depth[b[i]] < Depth[st]

LEMMA StatementParts ==
    ASSUME NEW st \in Statements
    PROVE  /\ st.op \in {"return", "set", "if", "block", "loop", "lit", "never", "assert", "call", "recover"}
           /\ st.op = "return" => st.e \in Pointers \cup {"any"}
           /\ st.op \in {"set", "assert"} => st.x \in Vars
           /\ st.op = "if" => st.init \subseteq Vars /\ st.c \in Conds /\ IsBlock(st.then, st) /\ IsBlock(st.els, st)
           /\ st.op \in {"block", "loop"} => IsBlock(st.body, st)
           /\ Within(st) \subseteq Statements
           /\ \A t \in Within(st) : Depth[t] < Depth[st]
           /\ st.op \notin {"if", "block", "loop"} => Within(st) = {}
<1>1. IsStatement(st)
  BY CalleeAssumption
<1>2. ASSUME NEW part \in ToSet(Parts(st)) PROVE IsBlock(part, st)
  <2>1. part \in Seq(Statements) /\ ToSet(part) \subseteq Within(st)
    BY <1>1 DEF IsStatement, Within
  <2>2. \A i \in DOMAIN part : part[i] \in ToSet(part)
    BY DEF ToSet
  <2>. QED
    BY <1>1, <2>1, <2>2 DEF IsBlock, IsStatement
<1>3. ASSUME st.op = "if" PROVE st.then \in ToSet(Parts(st)) /\ st.els \in ToSet(Parts(st))
  <2>1. Parts(st) = <<st.then, st.els>>
    BY <1>3 DEF Parts
  <2>. QED
    BY <2>1 DEF ToSet
<1>4. ASSUME st.op \in {"block", "loop"} PROVE st.body \in ToSet(Parts(st))
  <2>1. Parts(st) = <<st.body>>
    BY <1>4 DEF Parts
  <2>. QED
    BY <2>1 DEF ToSet
<1>5. ASSUME st.op \notin {"if", "block", "loop"} PROVE Within(st) = {}
  <2>1. Parts(st) = <<>>
    BY <1>5 DEF Parts
  <2>2. ToSet(Parts(st)) = {}
    BY <2>1 DEF ToSet
  <2>. QED
    BY <2>2 DEF Within
<1>6. Within(st) \subseteq Statements
  <2>. SUFFICES ASSUME NEW t \in Within(st) PROVE t \in Statements
    OBVIOUS
  <2>1. PICK part \in ToSet(Parts(st)) : t \in ToSet(part)
    BY DEF Within
  <2>2. part \in Seq(Statements)
    BY <1>1 DEF IsStatement
  <2>. QED
    BY <2>1, <2>2 DEF ToSet
<1>. QED
  BY <1>1, <1>2, <1>3, <1>4, <1>5, <1>6 DEF IsStatement

-----------------------------------------------------------------------------
(* What is inside a block.                                                 *)

LEMMA InsideStepLooksBelow ==
    ASSUME NEW st \in Statements, NEW g, NEW h,
           \A t \in Statements : Depth[t] < Depth[st] => g[t] = h[t]
    PROVE  InsideStep(st, g) = InsideStep(st, h)
<1>1. \A t \in Within(st) : g[t] = h[t]
  BY StatementParts
<1>. QED
  BY <1>1 DEF InsideStep

LEMMA InsideUnfolds ==
    \E g : /\ \A b : Inside(b) = UNION {g[b[i]] : i \in DOMAIN b}
           /\ \A st \in Statements : g[st] = {st} \cup UNION {g[t] : t \in Within(st)}
<1>. DEFINE Is(g) == g = [st \in Statements |-> InsideStep(st, g)]
            h == CHOOSE g : Is(g)
            K == SUBSET Statements
            step == [st \in Statements |-> [g \in [Statements -> K] |-> InsideStep(st, g)]]
<1>1. \A b : Inside(b) = UNION {h[b[i]] : i \in DOMAIN b}
  BY DEF Inside
<1>2. step \in [Statements -> [[Statements -> K] -> K]]
      /\ \A st \in Statements, g \in [Statements -> K] : step[st][g] = InsideStep(st, g)
  <2>1. ASSUME NEW st \in Statements, NEW g \in [Statements -> K] PROVE InsideStep(st, g) \in K
    BY StatementParts DEF InsideStep
  <2>. QED
    BY <2>1
<1>. HIDE DEF step
<1>3. \A st \in Statements : \A g, k \in [Statements -> K] :
          (\A t \in Statements : Ranks[t] < Ranks[st] => g[t] = k[t]) => step[st][g] = step[st][k]
  <2>. SUFFICES ASSUME NEW st \in Statements, NEW g \in [Statements -> K], NEW k \in [Statements -> K],
                       \A t \in Statements : Ranks[t] < Ranks[st] => g[t] = k[t]
                PROVE  step[st][g] = step[st][k]
    OBVIOUS
  <2>1. \A t \in Statements : Depth[t] < Depth[st] => g[t] = k[t]
    BY RanksTyped
  <2>2. InsideStep(st, g) = InsideStep(st, k)
    BY <2>1, InsideStepLooksBelow
  <2>. QED
    BY <1>2, <2>2
<1>4. K # {}
  OBVIOUS
<1>. HIDE DEF K
<1>5. LooksBelow(Statements, K, Ranks, step)
  BY <1>2, <1>3, RanksTyped DEF LooksBelow
<1>6. PICK g \in [Statements -> K] : g = [st \in Statements |-> step[st][g]]
  BY <1>4, <1>5, RankRecursion
<1>7. g = [st \in Statements |-> InsideStep(st, g)]
  BY <1>2, <1>6
<1>8. Is(g)
  BY <1>7
<1>9. Is(h)
  BY <1>8
<1>10. h = [st \in Statements |-> InsideStep(st, h)]
  <2>. HIDE DEF h
  <2>. QED
    BY <1>9
<1>11. \A st \in Statements : h[st] = InsideStep(st, h)
  BY <1>10
<1>. HIDE DEF h
<1>. QED
  BY <1>1, <1>11 DEF InsideStep

LEMMA InsideParts ==
    /\ \A b \in Seq(Statements) : Inside(b) = UNION {Inside(<<b[i]>>) : i \in DOMAIN b}
    /\ \A st \in Statements : st \in Inside(<<st>>)
    /\ \A st \in Statements : \A b : IsBlock(b, st) => Inside(b) \subseteq Inside(<<st>>)
    /\ \A st \in Statements : Within(st) = {} => Inside(<<st>>) = {st}
<1>1. PICK g : /\ \A b : Inside(b) = UNION {g[b[i]] : i \in DOMAIN b}
               /\ \A st \in Statements : g[st] = {st} \cup UNION {g[t] : t \in Within(st)}
  BY InsideUnfolds
<1>2. ASSUME NEW st PROVE Inside(<<st>>) = g[st]
  <2>. DEFINE b == <<st>>
  <2>1. DOMAIN b = {1} /\ b[1] = st
    OBVIOUS
  <2>. HIDE DEF b
  <2>2. UNION {g[b[i]] : i \in DOMAIN b} = g[st]
    BY <2>1
  <2>. QED
    BY <1>1, <2>2 DEF b
<1>3. ASSUME NEW b \in Seq(Statements) PROVE Inside(b) = UNION {Inside(<<b[i]>>) : i \in DOMAIN b}
  <2>1. \A i \in DOMAIN b : Inside(<<b[i]>>) = g[b[i]]
    BY <1>2
  <2>2. {Inside(<<b[i]>>) : i \in DOMAIN b} = {g[b[i]] : i \in DOMAIN b}
    BY <2>1
  <2>3. Inside(b) = UNION {g[b[i]] : i \in DOMAIN b}
    BY <1>1
  <2>. QED
    BY <2>2, <2>3
<1>4. ASSUME NEW st \in Statements PROVE st \in Inside(<<st>>) /\ (Within(st) = {} => Inside(<<st>>) = {st})
  BY <1>1, <1>2
<1>5. ASSUME NEW st \in Statements, NEW b, IsBlock(b, st) PROVE Inside(b) \subseteq Inside(<<st>>)
  <2>1. \A i \in DOMAIN b : b[i] \in Within(st)
    BY <1>5 DEF IsBlock
  <2>2. \A i \in DOMAIN b : g[b[i]] \subseteq g[st]
    BY <1>1, <2>1
  <2>. QED
    BY <1>1, <1>2, <2>2
<1>. QED
  BY <1>3, <1>4, <1>5

-----------------------------------------------------------------------------
(* What conditions say is nil, and what they evaluate to.                  *)

Nils == [t : SUBSET Vars, f : SUBSET Vars]

\* ParamNilStep by kinds.
NilsOf(c, nils, r) ==
    /\ c.k = "eq"  => r = [t |-> {c.x}, f |-> {}]
    /\ c.k = "ne"  => r = [t |-> {}, f |-> {c.x}]
    /\ c.k = "not" => r = [t |-> nils[c.c].f, f |-> nils[c.c].t]
    /\ c.k = "and" => r = [t |-> nils[c.l].t \cup nils[c.r].t, f |-> {}]
    /\ c.k = "or"  => r = [t |-> {}, f |-> nils[c.l].f \cup nils[c.r].f]
    /\ c.k \in {"is", "any"} => r = [t |-> {}, f |-> {}]

LEMMA ParamNilStepIs == ASSUME NEW c, NEW nils PROVE NilsOf(c, nils, ParamNilStep(c, nils))
<1>1. ASSUME c.k = "eq" PROVE NilsOf(c, nils, ParamNilStep(c, nils))
  BY <1>1 DEF NilsOf, ParamNilStep
<1>2. ASSUME c.k = "ne" PROVE NilsOf(c, nils, ParamNilStep(c, nils))
  BY <1>2 DEF NilsOf, ParamNilStep
<1>3. ASSUME c.k = "not" PROVE NilsOf(c, nils, ParamNilStep(c, nils))
  BY <1>3 DEF NilsOf, ParamNilStep
<1>4. ASSUME c.k = "and" PROVE NilsOf(c, nils, ParamNilStep(c, nils))
  BY <1>4 DEF NilsOf, ParamNilStep
<1>5. ASSUME c.k = "or" PROVE NilsOf(c, nils, ParamNilStep(c, nils))
  BY <1>5 DEF NilsOf, ParamNilStep
<1>6. ASSUME c.k \in {"is", "any"} PROVE NilsOf(c, nils, ParamNilStep(c, nils))
  BY <1>6 DEF NilsOf, ParamNilStep
<1>7. ASSUME c.k \notin {"eq", "ne", "not", "and", "or", "is", "any"} PROVE NilsOf(c, nils, ParamNilStep(c, nils))
  BY <1>7 DEF NilsOf
<1>. QED
  BY <1>1, <1>2, <1>3, <1>4, <1>5, <1>6, <1>7

LEMMA ParamNilStepTyped ==
    ASSUME NEW c \in Conds, NEW g, \A d \in Conds : Operators[d] < Operators[c] => g[d] \in Nils
    PROVE  ParamNilStep(c, g) \in Nils
<1>. DEFINE r == ParamNilStep(c, g)
<1>1. NilsOf(c, g, r)
  BY ParamNilStepIs
<1>. HIDE DEF r
<1>. SUFFICES r \in Nils
  BY DEF r
<1>2. CASE c.k \in {"eq", "ne", "is", "any"}
  BY <1>1, <1>2, CondParts DEF NilsOf, Nils
<1>3. CASE c.k = "not"
  <2>1. g[c.c] \in Nils
    BY <1>3, CondParts
  <2>. QED
    BY <1>1, <1>3, <2>1 DEF NilsOf, Nils
<1>4. CASE c.k \in {"and", "or"}
  <2>1. g[c.l] \in Nils /\ g[c.r] \in Nils
    BY <1>4, CondParts
  <2>. QED
    BY <1>1, <1>4, <2>1 DEF NilsOf, Nils
<1>. QED
  BY <1>2, <1>3, <1>4, CondParts

LEMMA ParamNilStepLooksBelow ==
    ASSUME NEW c \in Conds, NEW g, NEW h, \A d \in Conds : Operators[d] < Operators[c] => g[d] = h[d]
    PROVE  ParamNilStep(c, g) = ParamNilStep(c, h)
<1>. DEFINE r == ParamNilStep(c, g)  q == ParamNilStep(c, h)
<1>1. NilsOf(c, g, r) /\ NilsOf(c, h, q)
  BY ParamNilStepIs
<1>. HIDE DEF r, q
<1>. SUFFICES r = q
  BY DEF r, q
<1>2. CASE c.k \in {"eq", "ne", "is", "any"}
  BY <1>1, <1>2 DEF NilsOf
<1>3. CASE c.k = "not"
  <2>1. g[c.c] = h[c.c]
    BY <1>3, CondParts
  <2>. QED
    BY <1>1, <1>3, <2>1 DEF NilsOf
<1>4. CASE c.k \in {"and", "or"}
  <2>1. g[c.l] = h[c.l] /\ g[c.r] = h[c.r]
    BY <1>4, CondParts
  <2>. QED
    BY <1>1, <1>4, <2>1 DEF NilsOf
<1>. QED
  BY <1>2, <1>3, <1>4, CondParts

LEMMA ParamNilIs ==
    /\ \A c \in Conds : ParamNil(c) \in Nils
    /\ \E g : \A c \in Conds : ParamNil(c) = g[c] /\ NilsOf(c, g, g[c])
<1>. DEFINE Is(g) == g = [c \in Conds |-> ParamNilStep(c, g)]
            h == CHOOSE g : Is(g)
            step == [c \in Conds |-> [g \in [Conds -> Nils] |-> ParamNilStep(c, g)]]
<1>1. \A c \in Conds : ParamNil(c) = h[c]
  BY DEF ParamNil
<1>2. step \in [Conds -> [[Conds -> Nils] -> Nils]]
      /\ \A c \in Conds, g \in [Conds -> Nils] : step[c][g] = ParamNilStep(c, g)
  BY ParamNilStepTyped
<1>. HIDE DEF step
<1>3. \A c \in Conds : \A g, k \in [Conds -> Nils] :
          (\A d \in Conds : CondRanks[d] < CondRanks[c] => g[d] = k[d]) => step[c][g] = step[c][k]
  <2>. SUFFICES ASSUME NEW c \in Conds, NEW g \in [Conds -> Nils], NEW k \in [Conds -> Nils],
                       \A d \in Conds : CondRanks[d] < CondRanks[c] => g[d] = k[d]
                PROVE  step[c][g] = step[c][k]
    OBVIOUS
  <2>1. \A d \in Conds : Operators[d] < Operators[c] => g[d] = k[d]
    BY CondRanksTyped
  <2>2. ParamNilStep(c, g) = ParamNilStep(c, k)
    BY <2>1, ParamNilStepLooksBelow
  <2>. QED
    BY <1>2, <2>2
<1>4. Nils # {}
  <2>1. [t |-> {}, f |-> {}] \in Nils
    BY DEF Nils
  <2>. QED
    BY <2>1
<1>5. LooksBelow(Conds, Nils, CondRanks, step)
  BY <1>2, <1>3, CondRanksTyped DEF LooksBelow
<1>6. PICK g \in [Conds -> Nils] : g = [c \in Conds |-> step[c][g]]
  BY <1>4, <1>5, RankRecursion
<1>7. g = [c \in Conds |-> ParamNilStep(c, g)]
  BY <1>2, <1>6
<1>8. Is(g)
  BY <1>7
<1>9. Is(h)
  BY <1>8
<1>10. h = [c \in Conds |-> ParamNilStep(c, h)]
  <2>. HIDE DEF h
  <2>. QED
    BY <1>9
<1>11. \A c \in Conds : h[c] = ParamNilStep(c, h)
  BY <1>10
<1>. HIDE DEF h
<1>. DEFINE P == {c \in Conds : h[c] \in Nils}
<1>12. ASSUME NEW c \in Conds, \A d \in Conds : CondRanks[d] < CondRanks[c] => d \in P PROVE c \in P
  BY <1>11, <1>12, ParamNilStepTyped, CondRanksTyped
<1>13. Conds \subseteq P
  <2>. HIDE DEF P
  <2>. QED
    BY <1>12, CondRanksTyped, RankInduction
<1>14. \A c \in Conds : NilsOf(c, h, h[c])
  BY <1>11, ParamNilStepIs
<1>. QED
  BY <1>1, <1>13, <1>14

Tests == [yes : BOOLEAN, no : BOOLEAN]

\* TestStep by kinds.
TestOf(c, test, env, r) ==
    /\ c.k = "eq"  => r = Exactly(env[c.x] = "nil")
    /\ c.k = "ne"  => r = Exactly(env[c.x] # "nil")
    /\ c.k = "is"  => r = Exactly(env[c.x] = "true")
    /\ c.k = "any" => r = [yes |-> TRUE, no |-> TRUE]
    /\ c.k = "not" => r = [yes |-> test[c.c].no, no |-> test[c.c].yes]
    /\ c.k = "and" => r = [yes |-> test[c.l].yes /\ test[c.r].yes, no |-> test[c.l].no \/ test[c.r].no]
    /\ c.k = "or"  => r = [yes |-> test[c.l].yes \/ test[c.r].yes, no |-> test[c.l].no /\ test[c.r].no]

LEMMA YesNo ==
    ASSUME NEW a \in BOOLEAN, NEW b \in BOOLEAN, NEW r, r = [yes |-> a, no |-> b]
    PROVE  (r.yes <=> a) /\ (r.no <=> b)
  OBVIOUS

LEMMA ExactlyIs ==
    ASSUME NEW b \in BOOLEAN
    PROVE  Exactly(b) \in Tests /\ (Exactly(b).yes <=> b) /\ (Exactly(b).no <=> ~b)
  BY DEF Exactly, Tests

LEMMA TestStepIs == ASSUME NEW c, NEW test, NEW env PROVE TestOf(c, test, env, TestStep(c, test, env))
<1>1. ASSUME c.k = "eq" PROVE TestOf(c, test, env, TestStep(c, test, env))
  BY <1>1 DEF TestOf, TestStep
<1>2. ASSUME c.k = "ne" PROVE TestOf(c, test, env, TestStep(c, test, env))
  BY <1>2 DEF TestOf, TestStep
<1>3. ASSUME c.k = "is" PROVE TestOf(c, test, env, TestStep(c, test, env))
  BY <1>3 DEF TestOf, TestStep
<1>4. ASSUME c.k = "any" PROVE TestOf(c, test, env, TestStep(c, test, env))
  BY <1>4 DEF TestOf, TestStep
<1>5. ASSUME c.k = "not" PROVE TestOf(c, test, env, TestStep(c, test, env))
  BY <1>5 DEF TestOf, TestStep
<1>6. ASSUME c.k = "and" PROVE TestOf(c, test, env, TestStep(c, test, env))
  BY <1>6 DEF TestOf, TestStep
<1>7. ASSUME c.k = "or" PROVE TestOf(c, test, env, TestStep(c, test, env))
  BY <1>7 DEF TestOf, TestStep
<1>8. ASSUME c.k \notin {"eq", "ne", "is", "any", "not", "and", "or"}
      PROVE  TestOf(c, test, env, TestStep(c, test, env))
  BY <1>8 DEF TestOf
<1>. QED
  BY <1>1, <1>2, <1>3, <1>4, <1>5, <1>6, <1>7, <1>8

LEMMA TestStepTyped ==
    ASSUME NEW c \in Conds, NEW env, NEW g, \A d \in Conds : Operators[d] < Operators[c] => g[d] \in Tests
    PROVE  TestStep(c, g, env) \in Tests
<1>. DEFINE r == TestStep(c, g, env)
<1>1. TestOf(c, g, env, r)
  BY TestStepIs
<1>. HIDE DEF r
<1>. SUFFICES r \in Tests
  BY DEF r
<1>2. CASE c.k \in {"eq", "ne", "is"}
  <2>1. \A b \in BOOLEAN : Exactly(b) \in Tests
    BY ExactlyIs
  <2>. QED
    BY <1>1, <1>2, <2>1 DEF TestOf
<1>3. CASE c.k = "any"
  <2>1. [yes |-> TRUE, no |-> TRUE] \in Tests
    BY DEF Tests
  <2>2. r = [yes |-> TRUE, no |-> TRUE]
    BY <1>1, <1>3 DEF TestOf
  <2>. QED
    BY <2>1, <2>2, Zenon
<1>4. CASE c.k = "not"
  <2>1. g[c.c] \in Tests
    BY <1>4, CondParts
  <2>. QED
    BY <1>1, <1>4, <2>1 DEF TestOf, Tests
<1>5. CASE c.k \in {"and", "or"}
  <2>1. g[c.l] \in Tests /\ g[c.r] \in Tests
    BY <1>5, CondParts
  <2>. QED
    BY <1>1, <1>5, <2>1 DEF TestOf, Tests
<1>. QED
  BY <1>2, <1>3, <1>4, <1>5, CondParts

LEMMA TestStepLooksBelow ==
    ASSUME NEW c \in Conds, NEW env, NEW g, NEW h, \A d \in Conds : Operators[d] < Operators[c] => g[d] = h[d]
    PROVE  TestStep(c, g, env) = TestStep(c, h, env)
<1>. DEFINE r == TestStep(c, g, env)  q == TestStep(c, h, env)
<1>1. TestOf(c, g, env, r) /\ TestOf(c, h, env, q)
  BY TestStepIs
<1>. HIDE DEF r, q
<1>. SUFFICES r = q
  BY DEF r, q
<1>2. CASE c.k \in {"eq", "ne", "is", "any"}
  <2>1. CASE c.k = "eq"
    BY <1>1, <2>1, Zenon DEF TestOf
  <2>2. CASE c.k = "ne"
    BY <1>1, <2>2, Zenon DEF TestOf
  <2>3. CASE c.k = "is"
    <3>1. r = Exactly(env[c.x] = "true") /\ q = Exactly(env[c.x] = "true")
      BY <1>1, <2>3 DEF TestOf
    <3>. QED
      BY <3>1, Zenon
  <2>4. CASE c.k = "any"
    BY <1>1, <2>4, Zenon DEF TestOf
  <2>. QED
    BY <1>2, <2>1, <2>2, <2>3, <2>4
<1>3. CASE c.k = "not"
  <2>1. g[c.c] = h[c.c]
    BY <1>3, CondParts
  <2>. QED
    BY <1>1, <1>3, <2>1 DEF TestOf
<1>4. CASE c.k \in {"and", "or"}
  <2>1. g[c.l] = h[c.l] /\ g[c.r] = h[c.r]
    BY <1>4, CondParts
  <2>. QED
    BY <1>1, <1>4, <2>1 DEF TestOf
<1>. QED
  BY <1>2, <1>3, <1>4, CondParts

LEMMA TestIs ==
    ASSUME NEW env
    PROVE  \E g \in [Conds -> Tests] : \A c \in Conds : Test(c, env) = g[c] /\ TestOf(c, g, env, g[c])
<1>. DEFINE Is(g) == g = [c \in Conds |-> TestStep(c, g, env)]
            h == CHOOSE g : Is(g)
            K == Tests
            step == [c \in Conds |-> [g \in [Conds -> K] |-> TestStep(c, g, env)]]
<1>1. \A c \in Conds : Test(c, env) = h[c]
  BY DEF Test
<1>2. step \in [Conds -> [[Conds -> K] -> K]]
      /\ \A c \in Conds, g \in [Conds -> K] : step[c][g] = TestStep(c, g, env)
  BY TestStepTyped
<1>. HIDE DEF step
<1>4. K # {}
  <2>1. Exactly(TRUE) \in Tests
    BY ExactlyIs
  <2>. QED
    BY <2>1
<1>0. \A c \in Conds : \A g : (\A d \in Conds : Operators[d] < Operators[c] => g[d] \in K) => TestStep(c, g, env) \in K
  BY TestStepTyped
<1>. HIDE DEF K
<1>3. \A c \in Conds : \A g, k \in [Conds -> K] :
          (\A d \in Conds : CondRanks[d] < CondRanks[c] => g[d] = k[d]) => step[c][g] = step[c][k]
  <2>. SUFFICES ASSUME NEW c \in Conds, NEW g \in [Conds -> K], NEW k \in [Conds -> K],
                       \A d \in Conds : CondRanks[d] < CondRanks[c] => g[d] = k[d]
                PROVE  step[c][g] = step[c][k]
    OBVIOUS
  <2>1. \A d \in Conds : Operators[d] < Operators[c] => g[d] = k[d]
    BY CondRanksTyped
  <2>2. TestStep(c, g, env) = TestStep(c, k, env)
    BY <2>1, TestStepLooksBelow
  <2>. QED
    BY <1>2, <2>2
<1>5. LooksBelow(Conds, K, CondRanks, step)
  BY <1>2, <1>3, CondRanksTyped DEF LooksBelow
<1>6. PICK g \in [Conds -> K] : g = [c \in Conds |-> step[c][g]]
  BY <1>4, <1>5, RankRecursion
<1>7. g = [c \in Conds |-> TestStep(c, g, env)]
  BY <1>2, <1>6
<1>8. Is(g)
  BY <1>7
<1>9. Is(h)
  BY <1>8
<1>10. h = [c \in Conds |-> TestStep(c, h, env)]
  <2>. HIDE DEF h
  <2>. QED
    BY <1>9
<1>. HIDE DEF h
<1>11. \A c \in Conds : h[c] = TestStep(c, h, env)
  BY <1>10
<1>. DEFINE P == {c \in Conds : h[c] \in K}
<1>12. ASSUME NEW c \in Conds, \A d \in Conds : CondRanks[d] < CondRanks[c] => d \in P PROVE c \in P
  BY <1>0, <1>11, <1>12, CondRanksTyped
<1>13. Conds \subseteq P
  <2>. HIDE DEF P
  <2>. QED
    BY <1>12, CondRanksTyped, RankInduction
<1>14. \A c \in Conds : TestOf(c, h, env, h[c])
  BY <1>11, TestStepIs
<1>15. h \in [Conds -> K]
  BY <1>10, <1>13
<1>. QED
  BY <1>1, <1>14, <1>15 DEF K

\* A condition that evaluates to something has those nil that it then says are.
Tells(g, o, env) ==
    /\ o.yes => \A x \in g.t : env[x] = "nil"
    /\ o.no => \A x \in g.f : env[x] = "nil"

LEMMA ConditionTells ==
    ASSUME NEW env
    PROVE  \A c \in Conds : Test(c, env) \in Tests /\ Tells(ParamNil(c), Test(c, env), env)
<1>1. PICK g : \A c \in Conds : ParamNil(c) = g[c] /\ NilsOf(c, g, g[c])
  BY ParamNilIs
<1>2. PICK o \in [Conds -> Tests] : \A c \in Conds : Test(c, env) = o[c] /\ TestOf(c, o, env, o[c])
  BY TestIs
<1>. DEFINE P == {c \in Conds : Tells(g[c], o[c], env)}
<1>3. ASSUME NEW c \in Conds, \A d \in Conds : CondRanks[d] < CondRanks[c] => d \in P PROVE c \in P
  <2>. SUFFICES Tells(g[c], o[c], env)
    OBVIOUS
  <2>1. \A d \in Conds : Operators[d] < Operators[c] => Tells(g[d], o[d], env)
    BY <1>3, CondRanksTyped
  <2>2. NilsOf(c, g, g[c]) /\ TestOf(c, o, env, o[c])
    BY <1>1, <1>2
  <2>3. CASE c.k = "eq"
    <3>1. o[c] = Exactly(env[c.x] = "nil") /\ g[c] = [t |-> {c.x}, f |-> {}]
      BY <2>2, <2>3, Zenon DEF NilsOf, TestOf
    <3>2. o[c].yes <=> (env[c.x] = "nil")
      BY <3>1, ExactlyIs
    <3>. QED
      BY <3>1, <3>2 DEF Tells
  <2>4. CASE c.k = "ne"
    <3>1. o[c] = Exactly(env[c.x] # "nil") /\ g[c] = [t |-> {}, f |-> {c.x}]
      BY <2>2, <2>4 DEF NilsOf, TestOf
    <3>2. o[c].no <=> ~(env[c.x] # "nil")
      BY <3>1, ExactlyIs
    <3>. QED
      BY <3>1, <3>2 DEF Tells
  <2>5. CASE c.k \in {"is", "any"}
    BY <2>2, <2>5 DEF NilsOf, Tells
  <2>6. CASE c.k = "not"
    <3>1. Tells(g[c.c], o[c.c], env)
      BY <2>1, <2>6, CondParts
    <3>. QED
      BY <2>2, <2>6, <3>1 DEF NilsOf, TestOf, Tells
  <2>7. CASE c.k = "and"
    <3>1. Tells(g[c.l], o[c.l], env) /\ Tells(g[c.r], o[c.r], env)
      BY <2>1, <2>7, CondParts
    <3>2. g[c].t = g[c.l].t \cup g[c.r].t /\ g[c].f = {}
      BY <2>2, <2>7 DEF NilsOf
    <3>3. o[c].yes => o[c.l].yes /\ o[c.r].yes
      <4>1. o[c] = [yes |-> o[c.l].yes /\ o[c.r].yes, no |-> o[c.l].no \/ o[c.r].no]
        BY <2>2, <2>7, Zenon DEF TestOf
      <4>2. o[c].yes <=> (o[c.l].yes /\ o[c.r].yes)
        BY <4>1, YesNo
      <4>. QED
        BY <4>2
    <3>. QED
      BY <3>1, <3>2, <3>3 DEF Tells
  <2>8. CASE c.k = "or"
    <3>1. Tells(g[c.l], o[c.l], env) /\ Tells(g[c.r], o[c.r], env)
      BY <2>1, <2>8, CondParts
    <3>2. g[c].f = g[c.l].f \cup g[c.r].f /\ g[c].t = {}
      BY <2>2, <2>8 DEF NilsOf
    <3>3. o[c].no => o[c.l].no /\ o[c.r].no
      <4>1. o[c] = [yes |-> o[c.l].yes \/ o[c.r].yes, no |-> o[c.l].no /\ o[c.r].no]
        BY <2>2, <2>8, Zenon DEF TestOf
      <4>2. o[c].no <=> (o[c.l].no /\ o[c.r].no)
        BY <4>1, YesNo
      <4>. QED
        BY <4>2
    <3>. QED
      BY <3>1, <3>2, <3>3 DEF Tells
  <2>. QED
    BY <2>3, <2>4, <2>5, <2>6, <2>7, <2>8, CondParts
<1>4. Conds \subseteq P
  <2>. HIDE DEF P
  <2>. QED
    BY <1>3, CondRanksTyped, RankInduction
<1>. QED
  BY <1>1, <1>2, <1>4

-----------------------------------------------------------------------------
(* The parameters known to be nil where a literal nil is returned.         *)

GuardSets == [SUBSET Vars -> SUBSET SUBSET Vars]

\* GuardsStep by kinds.
GuardsAre(s, st, g, active, r) ==
    /\ YieldsNil(s, st)    => r = {active}
    /\ st.op = "block" => r = GuardsIn(st.body, g, active)
    /\ st.op = "if"    => r = GuardsIn(st.then, g, active \cup ParamNil(st.c).t) \cup GuardsIn(st.els, g, active)
    /\ st.op = "loop"  => r = IF \E t \in Inside(st.body) : YieldsNil(s, t) THEN {{}} ELSE {}
    /\ st.op \notin {"block", "if", "loop"} /\ ~YieldsNil(s, st) => r = {}

LEMMA GuardsStepIs ==
    ASSUME NEW s, NEW st, NEW g, NEW active
    PROVE  GuardsAre(s, st, g, active, GuardsStep(s, st, g, active))
<1>. DEFINE r == GuardsStep(s, st, g, active)
<1>0. YieldsNil(s, st) => st.op = "return"
  BY DEF YieldsNil
<1>1. ASSUME YieldsNil(s, st) PROVE r = {active}
  BY <1>0, <1>1, Zenon DEF GuardsStep
<1>2. ASSUME st.op = "block" PROVE r = GuardsIn(st.body, g, active)
  BY <1>0, <1>2 DEF GuardsStep
<1>3. ASSUME st.op = "if"
      PROVE  r = GuardsIn(st.then, g, active \cup ParamNil(st.c).t) \cup GuardsIn(st.els, g, active)
  BY <1>0, <1>3 DEF GuardsStep
<1>4. ASSUME st.op = "loop" PROVE r = IF \E t \in Inside(st.body) : YieldsNil(s, t) THEN {{}} ELSE {}
  BY <1>0, <1>4 DEF GuardsStep
<1>5. ASSUME st.op \notin {"block", "if", "loop"}, ~YieldsNil(s, st) PROVE r = {}
  BY <1>5 DEF GuardsStep
<1>. HIDE DEF r
<1>. QED
  BY <1>0, <1>1, <1>2, <1>3, <1>4, <1>5, Zenon DEF GuardsAre, r

LEMMA GuardsInTyped ==
    ASSUME NEW st \in Statements, NEW b, IsBlock(b, st), NEW active \in SUBSET Vars, NEW g,
           \A t \in Statements : Depth[t] < Depth[st] => g[t] \in GuardSets
    PROVE  GuardsIn(b, g, active) \in SUBSET SUBSET Vars
<1>1. \A i \in DOMAIN b : g[b[i]] \in GuardSets
  BY DEF IsBlock
<1>2. \A i \in DOMAIN b : g[b[i]][active] \in SUBSET SUBSET Vars
  BY <1>1 DEF GuardSets
<1>. QED
  BY <1>2 DEF GuardsIn

LEMMA GuardsInLooksBelow ==
    ASSUME NEW st \in Statements, NEW b, IsBlock(b, st), NEW active, NEW g, NEW h,
           \A t \in Statements : Depth[t] < Depth[st] => g[t] = h[t]
    PROVE  GuardsIn(b, g, active) = GuardsIn(b, h, active)
<1>1. \A i \in DOMAIN b : g[b[i]] = h[b[i]]
  BY DEF IsBlock
<1>2. \A i \in DOMAIN b : g[b[i]][active] = h[b[i]][active]
  BY <1>1
<1>. QED
  BY <1>2 DEF GuardsIn

LEMMA GuardsStepTyped ==
    ASSUME NEW s, NEW st \in Statements, NEW active \in SUBSET Vars, NEW g,
           \A t \in Statements : Depth[t] < Depth[st] => g[t] \in GuardSets
    PROVE  GuardsStep(s, st, g, active) \in SUBSET SUBSET Vars
<1>. DEFINE r == GuardsStep(s, st, g, active)
<1>1. GuardsAre(s, st, g, active, r)
  BY GuardsStepIs
<1>. HIDE DEF r
<1>. SUFFICES r \in SUBSET SUBSET Vars
  BY DEF r
<1>2. CASE st.op = "block"
  <2>1. GuardsIn(st.body, g, active) \in SUBSET SUBSET Vars
    BY <1>2, StatementParts, GuardsInTyped
  <2>. QED
    BY <1>1, <1>2, <2>1 DEF GuardsAre
<1>3. CASE st.op = "if"
  <2>. DEFINE more == active \cup ParamNil(st.c).t
  <2>1. IsBlock(st.then, st) /\ IsBlock(st.els, st) /\ st.c \in Conds
    BY <1>3, StatementParts
  <2>2. more \in SUBSET Vars
    BY <2>1, ParamNilIs DEF Nils
  <2>3. r = GuardsIn(st.then, g, more) \cup GuardsIn(st.els, g, active)
    BY <1>1, <1>3 DEF GuardsAre
  <2>. HIDE DEF more
  <2>4. GuardsIn(st.then, g, more) \in SUBSET SUBSET Vars
    BY <2>1, <2>2, GuardsInTyped
  <2>5. GuardsIn(st.els, g, active) \in SUBSET SUBSET Vars
    BY <2>1, GuardsInTyped
  <2>. QED
    BY <2>3, <2>4, <2>5
<1>4. CASE st.op = "loop"
  <2>1. r \in {{{}}, {}}
    BY <1>1, <1>4 DEF GuardsAre
  <2>. QED
    BY <2>1
<1>5. CASE YieldsNil(s, st)
  <2>1. r = {active}
    BY <1>1, <1>5 DEF GuardsAre
  <2>. QED
    BY <2>1
<1>6. CASE st.op \notin {"block", "if", "loop"} /\ ~YieldsNil(s, st)
  <2>1. r = {}
    BY <1>1, <1>6 DEF GuardsAre
  <2>. QED
    BY <2>1
<1>. QED
  BY <1>2, <1>3, <1>4, <1>5, <1>6

LEMMA GuardsStepLooksBelow ==
    ASSUME NEW s, NEW st \in Statements, NEW active \in SUBSET Vars, NEW g, NEW h,
           \A t \in Statements : Depth[t] < Depth[st] => g[t] = h[t]
    PROVE  GuardsStep(s, st, g, active) = GuardsStep(s, st, h, active)
<1>. DEFINE r == GuardsStep(s, st, g, active)  q == GuardsStep(s, st, h, active)
<1>1. GuardsAre(s, st, g, active, r) /\ GuardsAre(s, st, h, active, q)
  BY GuardsStepIs
<1>. HIDE DEF r, q
<1>. SUFFICES r = q
  BY DEF r, q
<1>2. CASE st.op = "block"
  <2>1. GuardsIn(st.body, g, active) = GuardsIn(st.body, h, active)
    BY <1>2, StatementParts, GuardsInLooksBelow
  <2>. QED
    BY <1>1, <1>2, <2>1 DEF GuardsAre
<1>3. CASE st.op = "if"
  <2>. DEFINE more == active \cup ParamNil(st.c).t
  <2>1. IsBlock(st.then, st) /\ IsBlock(st.els, st)
    BY <1>3, StatementParts
  <2>2. GuardsIn(st.then, g, more) = GuardsIn(st.then, h, more)
    <3>. HIDE DEF more
    <3>. QED
      BY <2>1, GuardsInLooksBelow
  <2>3. GuardsIn(st.els, g, active) = GuardsIn(st.els, h, active)
    BY <2>1, GuardsInLooksBelow
  <2>. QED
    BY <1>1, <1>3, <2>2, <2>3 DEF GuardsAre
<1>4. CASE st.op \notin {"block", "if"}
  BY <1>1, <1>4, Zenon DEF GuardsAre
<1>. QED
  BY <1>2, <1>3, <1>4

LEMMA GuardsOfNilIs ==
    ASSUME NEW s
    PROVE  \E g \in [Statements -> GuardSets] :
             /\ \A b : GuardsOfNil(s, b) = GuardsIn(b, g, {})
             /\ \A st \in Statements, active \in SUBSET Vars : GuardsAre(s, st, g, active, g[st][active])
<1>. DEFINE Row(st, g) == [active \in SUBSET Vars |-> GuardsStep(s, st, g, active)]
            Is(g) == g = [st \in Statements |-> Row(st, g)]
            h == CHOOSE g : Is(g)
            step == [st \in Statements |-> [g \in [Statements -> GuardSets] |-> Row(st, g)]]
<1>1. \A b : GuardsOfNil(s, b) = GuardsIn(b, h, {})
  BY DEF GuardsOfNil
<1>2. ASSUME NEW st \in Statements, NEW g, \A t \in Statements : Depth[t] < Depth[st] => g[t] \in GuardSets
      PROVE  Row(st, g) \in GuardSets
  <2>1. \A active \in SUBSET Vars : GuardsStep(s, st, g, active) \in SUBSET SUBSET Vars
    BY <1>2, GuardsStepTyped
  <2>. QED
    BY <2>1 DEF GuardSets
<1>3. ASSUME NEW st \in Statements, NEW g, NEW k, \A t \in Statements : Depth[t] < Depth[st] => g[t] = k[t]
      PROVE  Row(st, g) = Row(st, k)
  <2>1. \A active \in SUBSET Vars : GuardsStep(s, st, g, active) = GuardsStep(s, st, k, active)
    BY <1>3, GuardsStepLooksBelow
  <2>. QED
    BY <2>1
<1>4. \A g : \A st \in Statements, active \in SUBSET Vars : Row(st, g)[active] = GuardsStep(s, st, g, active)
  OBVIOUS
<1>. HIDE DEF Row
<1>5. step \in [Statements -> [[Statements -> GuardSets] -> GuardSets]]
      /\ \A st \in Statements, g \in [Statements -> GuardSets] : step[st][g] = Row(st, g)
  BY <1>2
<1>. HIDE DEF step
<1>6. \A st \in Statements : \A g, k \in [Statements -> GuardSets] :
          (\A t \in Statements : Ranks[t] < Ranks[st] => g[t] = k[t]) => step[st][g] = step[st][k]
  <2>. SUFFICES ASSUME NEW st \in Statements,
                       NEW g \in [Statements -> GuardSets], NEW k \in [Statements -> GuardSets],
                       \A t \in Statements : Ranks[t] < Ranks[st] => g[t] = k[t]
                PROVE  step[st][g] = step[st][k]
    OBVIOUS
  <2>1. \A t \in Statements : Depth[t] < Depth[st] => g[t] = k[t]
    BY RanksTyped
  <2>2. Row(st, g) = Row(st, k)
    BY <1>3, <2>1
  <2>. QED
    BY <1>5, <2>2
<1>7. LooksBelow(Statements, GuardSets, Ranks, step)
  BY <1>5, <1>6, RanksTyped DEF LooksBelow
<1>8. GuardSets # {}
  <2>1. [active \in SUBSET Vars |-> {}] \in GuardSets
    BY DEF GuardSets
  <2>. QED
    BY <2>1
<1>9. PICK g \in [Statements -> GuardSets] : g = [st \in Statements |-> step[st][g]]
  BY <1>7, <1>8, RankRecursion
<1>10. g = [st \in Statements |-> Row(st, g)]
  BY <1>5, <1>9
<1>11. Is(g)
  BY <1>10
<1>12. Is(h)
  BY <1>11
<1>13. h = [st \in Statements |-> Row(st, h)]
  <2>. HIDE DEF h
  <2>. QED
    BY <1>12
<1>. HIDE DEF h
<1>14. \A st \in Statements : h[st] = Row(st, h)
  BY <1>13
<1>. DEFINE P == {st \in Statements : h[st] \in GuardSets}
<1>15. ASSUME NEW st \in Statements, \A t \in Statements : Ranks[t] < Ranks[st] => t \in P PROVE st \in P
  <2>1. \A t \in Statements : Depth[t] < Depth[st] => h[t] \in GuardSets
    BY <1>15, RanksTyped
  <2>. QED
    BY <1>2, <1>14, <2>1
<1>16. Statements \subseteq P
  <2>. HIDE DEF P
  <2>. QED
    BY <1>15, RanksTyped, RankInduction
<1>17. h \in [Statements -> GuardSets]
  BY <1>13, <1>16
<1>18. \A st \in Statements, active \in SUBSET Vars : GuardsAre(s, st, h, active, h[st][active])
  <2>. SUFFICES ASSUME NEW st \in Statements, NEW active \in SUBSET Vars
                PROVE  GuardsAre(s, st, h, active, h[st][active])
    OBVIOUS
  <2>1. h[st][active] = GuardsStep(s, st, h, active)
    BY <1>4, <1>14
  <2>. QED
    BY <2>1, GuardsStepIs
<1>. QED
  BY <1>1, <1>17, <1>18

-----------------------------------------------------------------------------
(* Executing statements in a row, and round a loop, when do holds what each *)
(* of them may do.                                                         *)

Outcomes == [Runs -> SUBSET Runs]

DoneBy(b, do) == b \in Seq(Statements) /\ \A i \in DOMAIN b : do[b[i]] \in Outcomes

SeqStep(b, do)  == [n \in 1..Len(b) |-> [X \in SUBSET Runs |-> UNION {do[b[n]][q] : q \in X}]]
LoopStep(b, do) == [n \in 1..MaxTurns |-> [X \in SUBSET Runs |-> X \cup UNION {DoSeq(b, do, q) : q \in X}]]

\* What a step of a fold over N sets of executions makes of X is F[n][X].
Folds(N, step) == N \in Nat /\ step \in [1..N -> [SUBSET Runs -> SUBSET Runs]]

LEMMA SeqStepTyped ==
    ASSUME NEW b, NEW do, DoneBy(b, do)
    PROVE  /\ Folds(Len(b), SeqStep(b, do))
           /\ \A n \in 1..Len(b), X \in SUBSET Runs : SeqStep(b, do)[n][X] = UNION {do[b[n]][q] : q \in X}
<1>1. ASSUME NEW n \in 1..Len(b), NEW X \in SUBSET Runs PROVE UNION {do[b[n]][q] : q \in X} \in SUBSET Runs
  <2>1. do[b[n]] \in Outcomes
    BY DEF DoneBy
  <2>. QED
    BY <2>1 DEF Outcomes
<1>2. Len(b) \in Nat
  BY DEF DoneBy
<1>. QED
  BY <1>1, <1>2 DEF SeqStep, Folds

Folded(f, N, r, step) ==
    /\ N \in Nat /\ f[0] = {r}
    /\ \A n \in 1..N : n \in 0..N /\ n - 1 \in 0..N /\ f[n - 1] \in SUBSET Runs /\ f[n] = step[n][f[n - 1]]

\* The values of a fold.
LEMMA FoldValues ==
    ASSUME NEW N, NEW step, Folds(N, step), NEW r \in Runs, NEW f \in [0..N -> SUBSET Runs],
           Unrolls(f, N, {r}, step)
    PROVE  Folded(f, N, r, step)
<1>1. N \in Nat
  BY DEF Folds
<1>2. f[0] = {r} /\ \A n \in 1..N : f[n] = step[n][f[n - 1]]
  <2>. DEFINE a == {r}
  <2>1. Unrolls(f, N, a, step)
    OBVIOUS
  <2>. HIDE DEF a
  <2>2. f[0] = a /\ \A n \in 1..N : f[n] = step[n][f[n - 1]]
    BY <1>1, <2>1, RecursionStep
  <2>. QED
    BY <2>2 DEF a
<1>3. \A n \in 1..N : n \in 0..N /\ n - 1 \in 0..N
  BY <1>1
<1>. QED
  BY <1>1, <1>2, <1>3 DEF Folded

\* h is such a fold if it goes on as step does.
LEMMA FoldIs ==
    ASSUME NEW N, NEW step, Folds(N, step), NEW r \in Runs, NEW h,
           h = [n \in 0..N |-> h[n]], h[0] = {r},
           \A n \in 1..N : h[n - 1] \in SUBSET Runs => h[n] = step[n][h[n - 1]]
    PROVE  h \in [0..N -> SUBSET Runs] /\ Unrolls(h, N, {r}, step)
<1>. DEFINE a == {r}  S == SUBSET Runs
<1>1. a \in S /\ N \in Nat /\ step \in [1..N -> [S -> S]]
  BY DEF Folds
<1>2. GoesOn(h, N, S, a, step)
  BY DEF GoesOn
<1>. HIDE DEF a, S
<1>3. h \in [0..N -> S] /\ Unrolls(h, N, a, step)
  BY <1>1, <1>2, RecursionTyped
<1>. QED
  BY <1>3 DEF a, S

LEMMA FoldExists ==
    ASSUME NEW N, NEW step, Folds(N, step), NEW r \in Runs
    PROVE  \E f \in [0..N -> SUBSET Runs] : Unrolls(f, N, {r}, step)
<1>. DEFINE a == {r}  S == SUBSET Runs
<1>1. a \in S /\ N \in Nat /\ step \in [1..N -> [S -> S]]
  BY DEF Folds
<1>. HIDE DEF a, S
<1>2. \E f \in [0..N -> S] : Unrolls(f, N, a, step)
  BY <1>1, RecursionExists
<1>. QED
  BY <1>2 DEF a, S

LEMMA DoSeqIs ==
    ASSUME NEW b, NEW do, DoneBy(b, do), NEW r \in Runs
    PROVE  \E f \in [0..Len(b) -> SUBSET Runs] :
              Unrolls(f, Len(b), {r}, SeqStep(b, do)) /\ DoSeq(b, do, r) = f[Len(b)]
<1>. DEFINE N == Len(b)
            Then(f, n) == UNION {do[b[n]][q] : q \in f[n - 1]}
            Is(f) == f = [n \in 0..N |-> IF n = 0 THEN {r} ELSE Then(f, n)]
            h == CHOOSE f : Is(f)
            step == SeqStep(b, do)
<1>1. DoSeq(b, do, r) = h[N]
  BY DEF DoSeq
<1>2. Folds(N, step) /\ \A n \in 1..N, X \in SUBSET Runs : step[n][X] = UNION {do[b[n]][q] : q \in X}
  BY SeqStepTyped
<1>. HIDE DEF step, N
<1>3. PICK f \in [0..N -> SUBSET Runs] : Unrolls(f, N, {r}, step)
  BY <1>2, FoldExists
<1>4. N \in Nat /\ f[0] = {r}
      /\ \A n \in 1..N : n \in 0..N /\ n - 1 \in 0..N /\ f[n - 1] \in SUBSET Runs /\ f[n] = step[n][f[n - 1]]
  <2>1. Folded(f, N, r, step)
    BY <1>2, <1>3, FoldValues
  <2>. QED
    BY <2>1 DEF Folded
<1>5. \A n \in 1..N : f[n] = Then(f, n)
  BY <1>2, <1>4
<1>6. Is(f)
  <2>1. \A n \in 0..N : n = 0 \/ n \in 1..N
    BY <1>4
  <2>. HIDE DEF Then
  <2>2. \A n \in 0..N : f[n] = IF n = 0 THEN {r} ELSE Then(f, n)
    BY <1>4, <1>5, <2>1
  <2>. QED
    BY <2>2
<1>7. Is(h)
  BY <1>6
<1>8. h = [n \in 0..N |-> h[n]] /\ h[0] = {r} /\ \A n \in 1..N : h[n] = Then(h, n)
  <2>. HIDE DEF h, Then
  <2>1. \A n \in 0..N : h[n] = IF n = 0 THEN {r} ELSE Then(h, n)
    BY <1>7
  <2>2. 0 \in 0..N /\ \A n \in 1..N : n \in 0..N /\ n # 0
    BY <1>4
  <2>3. h = [n \in 0..N |-> h[n]]
    BY <1>7
  <2>. QED
    BY <2>1, <2>2, <2>3
<1>. HIDE DEF h
<1>9. \A n \in 1..N : h[n - 1] \in SUBSET Runs => h[n] = step[n][h[n - 1]]
  BY <1>2, <1>8
<1>10. h \in [0..N -> SUBSET Runs] /\ Unrolls(h, N, {r}, step)
  BY <1>2, <1>8, <1>9, FoldIs
<1>. QED
  BY <1>1, <1>10 DEF N, step

\* What do holds of the block's own statements is all that matters.
LEMMA DoSeqAgrees ==
    ASSUME NEW b, NEW g, NEW h, DoneBy(b, g), \A i \in DOMAIN b : g[b[i]] = h[b[i]], NEW r \in Runs
    PROVE  DoSeq(b, g, r) = DoSeq(b, h, r)
<1>1. DoneBy(b, h)
  BY DEF DoneBy
<1>2. SeqStep(b, g) = SeqStep(b, h)
  BY DEF DoneBy, SeqStep
<1>3. PICK f \in [0..Len(b) -> SUBSET Runs] :
         Unrolls(f, Len(b), {r}, SeqStep(b, g)) /\ DoSeq(b, g, r) = f[Len(b)]
  BY DoSeqIs
<1>4. PICK k \in [0..Len(b) -> SUBSET Runs] :
         Unrolls(k, Len(b), {r}, SeqStep(b, h)) /\ DoSeq(b, h, r) = k[Len(b)]
  BY <1>1, DoSeqIs
<1>5. f = k
  <2>1. Len(b) \in Nat
    BY DEF DoneBy
  <2>. QED
    BY <1>2, <1>3, <1>4, <2>1, RecursionUnique
<1>. QED
  BY <1>3, <1>4, <1>5

\* What every statement preserves, the block does; and its last statement is
\* executed in such a state.
LEMMA DoSeqKeeps ==
    ASSUME NEW b, NEW do, DoneBy(b, do), NEW X \in SUBSET Runs, NEW r \in X,
           \A i \in DOMAIN b : \A q \in X : do[b[i]][q] \subseteq X
    PROVE  /\ DoSeq(b, do, r) \subseteq X
           /\ b # <<>> => \A q \in DoSeq(b, do, r) : \E p \in X : q \in do[Last(b)][p]
<1>1. PICK f \in [0..Len(b) -> SUBSET Runs] :
         Unrolls(f, Len(b), {r}, SeqStep(b, do)) /\ DoSeq(b, do, r) = f[Len(b)]
  BY DoSeqIs
<1>2. Len(b) \in Nat /\ \A n \in 1..Len(b) : n \in DOMAIN b
  BY DEF DoneBy
<1>3. Folds(Len(b), SeqStep(b, do))
  BY SeqStepTyped
<1>4. f[0] = {r} /\ \A n \in 1..Len(b) : f[n] = UNION {do[b[n]][q] : q \in f[n - 1]}
  <2>1. f[0] = {r} /\ \A n \in 1..Len(b) : f[n - 1] \in SUBSET Runs /\ f[n] = SeqStep(b, do)[n][f[n - 1]]
    <3>1. Folded(f, Len(b), r, SeqStep(b, do))
      BY <1>1, <1>3, FoldValues
    <3>. QED
      BY <3>1 DEF Folded
  <2>. QED
    BY <2>1, SeqStepTyped
<1>. DEFINE P == {n \in Nat : n \in 0..Len(b) => f[n] \subseteq X}
<1>5. 0 \in P
  BY <1>4
<1>6. ASSUME NEW n \in 0..Len(b) - 1, n \in P PROVE n + 1 \in P
  <2>1. n + 1 \in 1..Len(b) /\ (n + 1) - 1 = n /\ n \in 0..Len(b) /\ n + 1 \in Nat
    BY <1>2
  <2>2. f[n + 1] = UNION {do[b[n + 1]][q] : q \in f[n]} /\ f[n] \subseteq X
    BY <1>4, <1>6, <2>1
  <2>3. \A q \in X : do[b[n + 1]][q] \subseteq X
    BY <1>2, <2>1
  <2>. QED
    BY <2>1, <2>2, <2>3
<1>. HIDE DEF P
<1>7. 0..Len(b) \subseteq P
  BY <1>2, <1>5, <1>6, InductionUpTo
<1>8. \A n \in 0..Len(b) : f[n] \subseteq X
  BY <1>7 DEF P
<1>9. Len(b) \in 0..Len(b)
  BY <1>2
<1>10. ASSUME b # <<>>, NEW q \in f[Len(b)] PROVE \E p \in X : q \in do[Last(b)][p]
  <2>1. Len(b) \in 1..Len(b) /\ Len(b) - 1 \in 0..Len(b) /\ Last(b) = b[Len(b)]
    <3>1. b \in Seq(Statements)
      BY DEF DoneBy
    <3>. QED
      BY <1>10, <3>1 DEF Last
  <2>2. PICK p \in f[Len(b) - 1] : q \in do[b[Len(b)]][p]
    BY <1>4, <1>10, <2>1
  <2>. QED
    BY <1>8, <2>1, <2>2
<1>. QED
  BY <1>1, <1>8, <1>9, <1>10

\* No statement, and one.
LEMMA DoSeqShort ==
    ASSUME NEW b, NEW do, DoneBy(b, do), NEW r \in Runs
    PROVE  /\ b = <<>> => DoSeq(b, do, r) = {r}
           /\ Len(b) = 1 => DoSeq(b, do, r) = do[b[1]][r]
<1>1. PICK f \in [0..Len(b) -> SUBSET Runs] :
         Unrolls(f, Len(b), {r}, SeqStep(b, do)) /\ DoSeq(b, do, r) = f[Len(b)]
  BY DoSeqIs
<1>0. Folds(Len(b), SeqStep(b, do))
  BY SeqStepTyped
<1>2. f[0] = {r} /\ \A n \in 1..Len(b) : f[n] = SeqStep(b, do)[n][f[n - 1]]
  <2>1. Folded(f, Len(b), r, SeqStep(b, do))
    BY <1>0, <1>1, FoldValues
  <2>. QED
    BY <2>1 DEF Folded
<1>3. ASSUME b = <<>> PROVE DoSeq(b, do, r) = {r}
  BY <1>1, <1>2, <1>3
<1>4. ASSUME Len(b) = 1 PROVE DoSeq(b, do, r) = do[b[1]][r]
  <2>1. 1 \in 1..Len(b) /\ {r} \in SUBSET Runs
    BY <1>4
  <2>2. f[1] = SeqStep(b, do)[1][{r}]
    <3>1. f[1] = SeqStep(b, do)[1][f[1 - 1]] /\ 1 - 1 = 0
      BY <1>2, <2>1
    <3>. QED
      BY <1>2, <3>1
  <2>3. SeqStep(b, do)[1][{r}] = UNION {do[b[1]][q] : q \in {r}}
    BY <2>1, SeqStepTyped
  <2>. QED
    BY <1>1, <1>4, <2>2, <2>3
<1>. QED
  BY <1>3, <1>4

LEMMA DoSeqTyped ==
    ASSUME NEW b, NEW do, DoneBy(b, do), NEW r \in Runs
    PROVE  DoSeq(b, do, r) \in SUBSET Runs
<1>. DEFINE X == Runs
<1>1. \A i \in DOMAIN b : \A q \in X : do[b[i]][q] \subseteq X
  BY DEF DoneBy, Outcomes
<1>2. X \in SUBSET Runs /\ r \in X
  OBVIOUS
<1>. HIDE DEF X
<1>3. DoSeq(b, do, r) \subseteq X
  BY <1>1, <1>2, DoSeqKeeps
<1>. QED
  BY <1>3 DEF X

LEMMA LoopStepTyped ==
    ASSUME NEW b, NEW do, DoneBy(b, do)
    PROVE  /\ Folds(MaxTurns, LoopStep(b, do))
           /\ \A n \in 1..MaxTurns, X \in SUBSET Runs :
                 LoopStep(b, do)[n][X] = X \cup UNION {DoSeq(b, do, q) : q \in X}
<1>1. ASSUME NEW X \in SUBSET Runs PROVE X \cup UNION {DoSeq(b, do, q) : q \in X} \in SUBSET Runs
  <2>1. \A q \in X : DoSeq(b, do, q) \in SUBSET Runs
    BY DoSeqTyped
  <2>. QED
    BY <2>1
<1>2. MaxTurns \in Nat
  BY CalleeAssumption
<1>. QED
  BY <1>1, <1>2 DEF LoopStep, Folds

\* f holds where the loop is after each turn.
Turned(f, st, do, r) ==
    /\ f \in [0..MaxTurns -> SUBSET Runs] /\ Unrolls(f, MaxTurns, {r}, LoopStep(st.body, do))
    /\ DoLoop(st, do, r) = f[MaxTurns]

LEMMA DoLoopIs ==
    ASSUME NEW st, NEW do, DoneBy(st.body, do), NEW r \in Runs
    PROVE  \E f : Turned(f, st, do, r)
<1>. DEFINE N == MaxTurns
            Then(f, n) == f[n - 1] \cup UNION {DoSeq(st.body, do, q) : q \in f[n - 1]}
            Is(f) == f = [n \in 0..N |-> IF n = 0 THEN {r} ELSE Then(f, n)]
            h == CHOOSE f : Is(f)
            step == LoopStep(st.body, do)
<1>1. DoLoop(st, do, r) = h[N]
  BY DEF DoLoop
<1>2. Folds(N, step)
      /\ \A n \in 1..N, X \in SUBSET Runs : step[n][X] = X \cup UNION {DoSeq(st.body, do, q) : q \in X}
  BY LoopStepTyped
<1>. HIDE DEF step, N
<1>3. PICK f \in [0..N -> SUBSET Runs] : Unrolls(f, N, {r}, step)
  BY <1>2, FoldExists
<1>4. N \in Nat /\ f[0] = {r}
      /\ \A n \in 1..N : n \in 0..N /\ n - 1 \in 0..N /\ f[n - 1] \in SUBSET Runs /\ f[n] = step[n][f[n - 1]]
  <2>1. Folded(f, N, r, step)
    BY <1>2, <1>3, FoldValues
  <2>. QED
    BY <2>1 DEF Folded
<1>5. \A n \in 1..N : f[n] = Then(f, n)
  BY <1>2, <1>4
<1>6. Is(f)
  <2>1. \A n \in 0..N : n = 0 \/ n \in 1..N
    BY <1>4
  <2>. HIDE DEF Then
  <2>2. \A n \in 0..N : f[n] = IF n = 0 THEN {r} ELSE Then(f, n)
    BY <1>4, <1>5, <2>1
  <2>. QED
    BY <2>2
<1>7. Is(h)
  BY <1>6
<1>8. h = [n \in 0..N |-> h[n]] /\ h[0] = {r} /\ \A n \in 1..N : h[n] = Then(h, n)
  <2>. HIDE DEF h, Then
  <2>1. \A n \in 0..N : h[n] = IF n = 0 THEN {r} ELSE Then(h, n)
    BY <1>7
  <2>2. 0 \in 0..N /\ \A n \in 1..N : n \in 0..N /\ n # 0
    BY <1>4
  <2>3. h = [n \in 0..N |-> h[n]]
    BY <1>7
  <2>. QED
    BY <2>1, <2>2, <2>3
<1>. HIDE DEF h
<1>9. ASSUME NEW n \in 1..N, h[n - 1] \in SUBSET Runs PROVE h[n] = step[n][h[n - 1]]
  <2>. DEFINE X == h[n - 1]
  <2>1. step[n][X] = X \cup UNION {DoSeq(st.body, do, q) : q \in X}
    <3>. HIDE DEF X
    <3>. QED
      BY <1>2, <1>9 DEF X
  <2>2. h[n] = X \cup UNION {DoSeq(st.body, do, q) : q \in X}
    BY <1>8
  <2>. QED
    BY <2>1, <2>2
<1>10. h \in [0..N -> SUBSET Runs] /\ Unrolls(h, N, {r}, step)
  BY <1>2, <1>8, <1>9, FoldIs
<1>. QED
  BY <1>1, <1>10 DEF N, step, Turned

LEMMA DoLoopAgrees ==
    ASSUME NEW st, NEW g, NEW h, DoneBy(st.body, g), \A i \in DOMAIN st.body : g[st.body[i]] = h[st.body[i]],
           NEW r \in Runs
    PROVE  DoLoop(st, g, r) = DoLoop(st, h, r)
<1>1. DoneBy(st.body, h)
  BY DEF DoneBy
<1>2. LoopStep(st.body, g) = LoopStep(st.body, h)
  <2>1. \A q \in Runs : DoSeq(st.body, g, q) = DoSeq(st.body, h, q)
    BY DoSeqAgrees
  <2>2. \A X \in SUBSET Runs : {DoSeq(st.body, g, q) : q \in X} = {DoSeq(st.body, h, q) : q \in X}
    BY <2>1
  <2>. QED
    BY <2>2 DEF LoopStep
<1>3. PICK f : Turned(f, st, g, r)
  BY DoLoopIs
<1>4. PICK k : Turned(k, st, h, r)
  BY <1>1, DoLoopIs
<1>5. f = k
  BY <1>2, <1>3, <1>4, CalleeAssumption, RecursionUnique DEF Turned
<1>. QED
  BY <1>3, <1>4, <1>5 DEF Turned

LEMMA DoLoopKeeps ==
    ASSUME NEW st, NEW do, DoneBy(st.body, do), NEW X \in SUBSET Runs, NEW r \in X,
           \A i \in DOMAIN st.body : \A q \in X : do[st.body[i]][q] \subseteq X
    PROVE  DoLoop(st, do, r) \subseteq X
<1>1. PICK f : Turned(f, st, do, r)
  BY DoLoopIs
<1>2. Folds(MaxTurns, LoopStep(st.body, do))
  BY LoopStepTyped
<1>3. MaxTurns \in Nat /\ f[0] = {r}
      /\ \A n \in 1..MaxTurns : f[n - 1] \in SUBSET Runs /\ f[n] = LoopStep(st.body, do)[n][f[n - 1]]
  <2>1. Folded(f, MaxTurns, r, LoopStep(st.body, do))
    BY <1>1, <1>2, FoldValues DEF Turned
  <2>. QED
    BY <2>1 DEF Folded
<1>4. \A n \in 1..MaxTurns : f[n] = f[n - 1] \cup UNION {DoSeq(st.body, do, q) : q \in f[n - 1]}
  BY <1>3, LoopStepTyped
<1>5. \A q \in X : DoSeq(st.body, do, q) \subseteq X
  BY DoSeqKeeps
<1>. DEFINE P == {n \in Nat : n \in 0..MaxTurns => f[n] \subseteq X}
<1>6. 0 \in P
  BY <1>3
<1>7. ASSUME NEW n \in 0..MaxTurns - 1, n \in P PROVE n + 1 \in P
  <2>1. n + 1 \in 1..MaxTurns /\ (n + 1) - 1 = n /\ n \in 0..MaxTurns /\ n + 1 \in Nat
    BY <1>3
  <2>2. f[n + 1] = f[n] \cup UNION {DoSeq(st.body, do, q) : q \in f[n]} /\ f[n] \subseteq X
    BY <1>4, <1>7, <2>1
  <2>. QED
    BY <1>5, <2>1, <2>2
<1>. HIDE DEF P
<1>8. 0..MaxTurns \subseteq P
  BY <1>3, <1>6, <1>7, InductionUpTo
<1>9. MaxTurns \in P /\ MaxTurns \in 0..MaxTurns
  BY <1>3, <1>8
<1>. QED
  BY <1>1, <1>9 DEF P, Turned

-----------------------------------------------------------------------------
(* One statement.                                                          *)

ReturnedAs(r, v, e, literal) == [r EXCEPT !.how = "return", !.v = v, !.e = e, !.literal = literal]

Returning(s, st, r) ==
    {ReturnedAs(r, v, e, YieldsNil(s, st)) : v \in Returned(s, st.v, r.env), e \in Errored(st.e)}

Setting(s, st, r) ==
    {[r EXCEPT !.env[st.x] = v] : v \in {w \in TypeOf(s) : /\ st.v \in {"any", w}
                                                          /\ MayHold(r, st.x, w, "reassign")}}

\* DoStep by kinds.
Does(s, st, do, r, R) ==
    /\ r.how # "on" => R = {r}
    /\ r.how = "on" =>
         /\ st.op = "return"  => R = Returning(s, st, r)
         /\ st.op = "set"     => R = Setting(s, st, r)
         /\ st.op = "if"      => R = DoIf(s, st, do, r)
         /\ st.op = "block"   => R = DoSeq(st.body, do, r)
         /\ st.op = "loop"    => R = DoLoop(st, do, r)
         /\ st.op = "never"   => R = {Panicked(r)}
         /\ st.op = "assert"  => R = {IF r.env[st.x] = "true" THEN r ELSE Panicked(r)}
         /\ st.op = "call"    => R = {r, Panicked(r)}
         /\ st.op = "recover" => R = {[r EXCEPT !.recover = TRUE]}
         /\ st.op = "lit"     => R = {r}

LEMMA DoStepIs ==
    ASSUME NEW s, NEW st, NEW do, NEW r
    PROVE  Does(s, st, do, r, DoStep(s, st, do, r))
<1>1. ASSUME r.how # "on" PROVE DoStep(s, st, do, r) = {r}
  BY <1>1 DEF DoStep
<1>2. ASSUME r.how = "on", st.op = "return"
      PROVE  DoStep(s, st, do, r) = Returning(s, st, r)
  BY <1>2 DEF DoStep, Returning, ReturnedAs
<1>3. ASSUME r.how = "on", st.op = "set"
      PROVE  DoStep(s, st, do, r) = Setting(s, st, r)
  BY <1>3 DEF DoStep, Setting
<1>4. ASSUME r.how = "on", st.op = "if" PROVE DoStep(s, st, do, r) = DoIf(s, st, do, r)
  BY <1>4 DEF DoStep
<1>5. ASSUME r.how = "on", st.op = "block" PROVE DoStep(s, st, do, r) = DoSeq(st.body, do, r)
  BY <1>5 DEF DoStep
<1>6. ASSUME r.how = "on", st.op = "loop" PROVE DoStep(s, st, do, r) = DoLoop(st, do, r)
  BY <1>6 DEF DoStep
<1>7. ASSUME r.how = "on", st.op = "never" PROVE DoStep(s, st, do, r) = {Panicked(r)}
  BY <1>7 DEF DoStep
<1>8. ASSUME r.how = "on", st.op = "assert"
      PROVE  DoStep(s, st, do, r) = {IF r.env[st.x] = "true" THEN r ELSE Panicked(r)}
  BY <1>8 DEF DoStep
<1>9. ASSUME r.how = "on", st.op = "call" PROVE DoStep(s, st, do, r) = {r, Panicked(r)}
  BY <1>9 DEF DoStep
<1>10. ASSUME r.how = "on", st.op = "recover" PROVE DoStep(s, st, do, r) = {[r EXCEPT !.recover = TRUE]}
  BY <1>10 DEF DoStep
<1>11. ASSUME r.how = "on", st.op = "lit" PROVE DoStep(s, st, do, r) = {r}
  BY <1>11 DEF DoStep
<1>. DEFINE R == DoStep(s, st, do, r)
<1>. HIDE DEF R
<1>12. CASE r.how # "on"
  <2>1. R = {r}
    BY <1>1, <1>12 DEF R
  <2>. QED
    BY <1>12, <2>1 DEF Does, R
<1>13. CASE r.how = "on"
  BY <1>2, <1>3, <1>4, <1>5, <1>6, <1>7, <1>8, <1>9, <1>10, <1>11, <1>13 DEF Does
<1>. QED
  BY <1>12, <1>13

\* The fields of an execution that has gone on, or not.
SetOf(r, x, v, q) ==
    /\ q \in Runs /\ q.env = [r.env EXCEPT ![x] = v]
    /\ q.env0 = r.env0 /\ q.how = r.how /\ q.v = r.v /\ q.literal = r.literal /\ q.recover = r.recover

EnvOf(r, env, q) ==
    /\ q \in Runs /\ q.env = env
    /\ q.env0 = r.env0 /\ q.how = r.how /\ q.v = r.v /\ q.literal = r.literal /\ q.recover = r.recover

ReturnOf(r, v, literal, q) ==
    /\ q \in Runs /\ q.env = r.env /\ q.env0 = r.env0 /\ q.recover = r.recover
    /\ q.how = "return" /\ q.v = v /\ q.literal = literal

PanicOf(r, q) ==
    /\ q \in Runs /\ q.env = r.env /\ q.env0 = r.env0 /\ q.recover = r.recover
    /\ ~r.recover => q.how = "panic"

LEMMA RunSet ==
    ASSUME NEW r \in Runs, NEW x \in Vars, NEW v \in Value PROVE SetOf(r, x, v, [r EXCEPT !.env[x] = v])
  BY DEF Runs, SetOf

LEMMA RunEnv ==
    ASSUME NEW r \in Runs, NEW env \in [Vars -> Value] PROVE EnvOf(r, env, [r EXCEPT !.env = env])
  BY DEF Runs, EnvOf

LEMMA RunReturn ==
    ASSUME NEW r \in Runs, NEW v \in Value \cup {"none"}, NEW e \in Pointers, NEW literal \in BOOLEAN
    PROVE  ReturnOf(r, v, literal, ReturnedAs(r, v, e, literal))
  BY DEF Runs, ReturnOf, ReturnedAs

LEMMA RunPanicked ==
    ASSUME NEW r \in Runs PROVE PanicOf(r, Panicked(r))
<1>1. CASE r.recover
  BY <1>1 DEF Runs, PanicOf, Panicked, Value, Pointers
<1>2. CASE ~r.recover
  BY <1>2 DEF Runs, PanicOf, Panicked
<1>. QED
  BY <1>1, <1>2

LEMMA ReturnedNew ==
    ASSUME NEW s, NEW v \in {"new", "getter"}, NEW env PROVE Returned(s, v, env) = {"set"}
<1>1. v # "nil" /\ v \notin Bools /\ v \notin Vars /\ v # "any"
  BY CalleeAssumption DEF Bools
<1>. QED
  BY <1>1 DEF Returned

LEMMA ReturnedTyped ==
    ASSUME NEW s, NEW v, NEW env PROVE Returned(s, v, env) \subseteq Value \cup {"none"}
<1>. DEFINE R == Returned(s, v, env)
<1>1. ASSUME v = "nil" PROVE R = {"nil"}
  <2>1. v \notin {"new", "getter"} /\ v \notin Bools /\ v \notin Vars /\ v # "any"
    BY <1>1, CalleeAssumption DEF Bools, Value, Pointers
  <2>. QED
    BY <1>1, <2>1 DEF Returned
<1>2. ASSUME v \in {"new", "getter"} PROVE R = {"set"}
  BY <1>2, ReturnedNew
<1>3. ASSUME v \in Bools PROVE R = {v}
  BY <1>3, CalleeAssumption DEF Returned, Bools, Value
<1>4. ASSUME v \in Vars PROVE R \in {{"true"}, Bools}
  BY <1>4, CalleeAssumption DEF Returned, Value, Bools, Pointers
<1>5. ASSUME v = "any" PROVE R \in {Bools, Pointers}
  BY <1>5, CalleeAssumption DEF Returned, Bools
<1>6. ASSUME v \notin {"nil", "new", "getter", "any"} \cup Bools \cup Vars PROVE R = {"none"}
  BY <1>6 DEF Returned
<1>. HIDE DEF R
<1>. SUFFICES R \subseteq Value \cup {"none"}
  BY DEF R
<1>. QED
  BY <1>1, <1>2, <1>3, <1>4, <1>5, <1>6 DEF Value, Bools, Pointers

LEMMA ReturningIs ==
    ASSUME NEW s \in Signatures, NEW st \in Statements, st.op = "return", NEW r \in Runs, NEW q \in Returning(s, st, r)
    PROVE  \E v \in Returned(s, st.v, r.env) : ReturnOf(r, v, YieldsNil(s, st), q)
<1>1. PICK v \in Returned(s, st.v, r.env), e \in Errored(st.e) :
         q = ReturnedAs(r, v, e, YieldsNil(s, st))
  BY DEF Returning
<1>2. v \in Value \cup {"none"}
  BY ReturnedTyped
<1>3. e \in Pointers
  <2>1. st.e \in Pointers \cup {"any"}
    BY StatementParts
  <2>. QED
    BY <1>1, <2>1 DEF Errored, Pointers
<1>4. YieldsNil(s, st) \in BOOLEAN
  BY DEF YieldsNil
<1>. QED
  BY <1>1, <1>2, <1>3, <1>4, RunReturn

LEMMA SettingIs ==
    ASSUME NEW s \in Signatures, NEW st \in Statements, st.op = "set", NEW r \in Runs, NEW q \in Setting(s, st, r)
    PROVE  \E v \in TypeOf(s) : MayHold(r, st.x, v, "reassign") /\ SetOf(r, st.x, v, q)
<1>1. PICK v \in TypeOf(s) : MayHold(r, st.x, v, "reassign") /\ q = [r EXCEPT !.env[st.x] = v]
  BY DEF Setting
<1>2. v \in Value /\ st.x \in Vars
  BY StatementParts DEF TypeOf, Value
<1>. QED
  BY <1>1, <1>2, RunSet

\* An if: the branch is executed in the environment its init statement makes,
\* and what that redeclared is restored behind it.
LEMMA RedeclaredIs ==
    ASSUME NEW s, NEW st, NEW r \in Runs, NEW env \in Redeclared(s, st, r)
    PROVE  /\ env \in [Vars -> Value]
           /\ \A x \in Vars : x \in st.init => MayHold(r, x, env[x], "shadow")
           /\ \A x \in Vars : x \notin st.init => env[x] = r.env[x]
<1>1. env \in [Vars -> TypeOf(s)]
  BY DEF Redeclared
<1>2. TypeOf(s) \subseteq Value
  BY DEF TypeOf, Value
<1>. QED
  BY <1>1, <1>2 DEF Redeclared

BackOf(st, r, q, p) ==
    /\ p \in Runs
    /\ \A x \in Vars : p.env[x] = IF x \in st.init THEN r.env[x] ELSE q.env[x]
    /\ p.env0 = q.env0 /\ p.how = q.how /\ p.v = q.v /\ p.literal = q.literal /\ p.recover = q.recover

LEMMA BackIs ==
    ASSUME NEW st, NEW r \in Runs, NEW q \in Runs PROVE BackOf(st, r, q, Back(st, r, q))
<1>. DEFINE env == [x \in Vars |-> IF x \in st.init THEN r.env[x] ELSE q.env[x]]
<1>1. env \in [Vars -> Value] /\ \A x \in Vars : env[x] = IF x \in st.init THEN r.env[x] ELSE q.env[x]
  BY DEF Runs
<1>2. Back(st, r, q) = [q EXCEPT !.env = env]
  BY DEF Back
<1>. HIDE DEF env
<1>3. EnvOf(q, env, Back(st, r, q))
  BY <1>1, <1>2, RunEnv
<1>. QED
  BY <1>1, <1>3 DEF EnvOf, BackOf

\* What an if leads to.
BranchOf(st, do, r, p, env, q) == q \in Branches(st, do, [r EXCEPT !.env = env]) /\ p = Back(st, r, q)

Branched(s, st, do, r, p) ==
    \E env \in Redeclared(s, st, r) : \E q : BranchOf(st, do, r, p, env, q)

LEMMA DoIfIs ==
    ASSUME NEW s, NEW st, NEW do, NEW r PROVE \A p : p \in DoIf(s, st, do, r) <=> Branched(s, st, do, r, p)
  BY DEF DoIf, Branched, BranchOf

\* What do holds of the statements below st.
DoneBelow(st, do) == \A t \in Statements : Depth[t] < Depth[st] => do[t] \in Outcomes

LEMMA BlockDone ==
    ASSUME NEW st \in Statements, NEW do, DoneBelow(st, do), NEW b, IsBlock(b, st) PROVE DoneBy(b, do)
<1>1. b \in Seq(Statements) /\ \A i \in DOMAIN b : b[i] \in Statements /\ Depth[b[i]] < Depth[st]
  BY DEF IsBlock
<1>. QED
  BY <1>1 DEF DoneBelow, DoneBy

LEMMA DoIfTyped ==
    ASSUME NEW s, NEW st \in Statements, st.op = "if", NEW do, DoneBelow(st, do), NEW r \in Runs
    PROVE  DoIf(s, st, do, r) \in SUBSET Runs
<1>1. DoneBy(st.then, do) /\ DoneBy(st.els, do)
  BY StatementParts, BlockDone
<1>2. ASSUME NEW p \in DoIf(s, st, do, r) PROVE p \in Runs
  <2>1. Branched(s, st, do, r, p)
    BY DoIfIs
  <2>0. PICK env \in Redeclared(s, st, r) : \E q : BranchOf(st, do, r, p, env, q)
    BY <2>1 DEF Branched
  <2>2. PICK q : q \in Branches(st, do, [r EXCEPT !.env = env]) /\ p = Back(st, r, q)
    BY <2>0 DEF BranchOf
  <2>. DEFINE o == [r EXCEPT !.env = env]
  <2>3. o \in Runs
    BY RedeclaredIs, RunEnv DEF EnvOf
  <2>4. q \in Branches(st, do, o)
    BY <2>2
  <2>. HIDE DEF o
  <2>5. DoSeq(st.then, do, o) \in SUBSET Runs /\ DoSeq(st.els, do, o) \in SUBSET Runs
    BY <1>1, <2>3, DoSeqTyped
  <2>6. q \in Runs
    BY <2>4, <2>5 DEF Branches
  <2>7. BackOf(st, r, q, p)
    BY <2>2, <2>6, BackIs
  <2>. QED
    BY <2>7 DEF BackOf
<1>. QED
  BY <1>2

LEMMA DoLoopTyped ==
    ASSUME NEW st, NEW do, DoneBy(st.body, do), NEW r \in Runs
    PROVE  DoLoop(st, do, r) \in SUBSET Runs
<1>. DEFINE X == Runs
<1>1. \A i \in DOMAIN st.body : \A q \in X : do[st.body[i]][q] \subseteq X
  BY DEF DoneBy, Outcomes
<1>2. r \in X /\ X \in SUBSET Runs
  OBVIOUS
<1>. HIDE DEF X
<1>3. DoLoop(st, do, r) \subseteq X
  BY <1>1, <1>2, DoLoopKeeps
<1>. QED
  BY <1>3 DEF X

LEMMA DoStepTyped ==
    ASSUME NEW s \in Signatures, NEW st \in Statements, NEW do, DoneBelow(st, do), NEW r \in Runs
    PROVE  DoStep(s, st, do, r) \in SUBSET Runs
<1>. DEFINE R == DoStep(s, st, do, r)
<1>1. Does(s, st, do, r, R)
  BY DoStepIs
<1>. HIDE DEF R
<1>. SUFFICES R \in SUBSET Runs
  BY DEF R
<1>2. CASE r.how # "on"
  BY <1>1, <1>2 DEF Does
<1>3. CASE r.how = "on" /\ st.op = "return"
  <2>1. R = Returning(s, st, r)
    BY <1>1, <1>3 DEF Does
  <2>2. \A q \in Returning(s, st, r) : q \in Runs
    BY <1>3, ReturningIs DEF ReturnOf
  <2>. QED
    BY <2>1, <2>2
<1>4. CASE r.how = "on" /\ st.op = "set"
  <2>1. R = Setting(s, st, r)
    BY <1>1, <1>4 DEF Does
  <2>2. \A q \in Setting(s, st, r) : q \in Runs
    BY <1>4, SettingIs DEF SetOf
  <2>. QED
    BY <2>1, <2>2
<1>5. CASE r.how = "on" /\ st.op = "if"
  <2>1. R = DoIf(s, st, do, r)
    BY <1>1, <1>5 DEF Does
  <2>. QED
    BY <1>5, <2>1, DoIfTyped
<1>6. CASE r.how = "on" /\ st.op = "block"
  <2>1. R = DoSeq(st.body, do, r)
    BY <1>1, <1>6 DEF Does
  <2>2. DoneBy(st.body, do)
    BY <1>6, StatementParts, BlockDone
  <2>. QED
    BY <2>1, <2>2, DoSeqTyped
<1>7. CASE r.how = "on" /\ st.op = "loop"
  <2>1. R = DoLoop(st, do, r)
    BY <1>1, <1>7 DEF Does
  <2>2. DoneBy(st.body, do)
    BY <1>7, StatementParts, BlockDone
  <2>. QED
    BY <2>1, <2>2, DoLoopTyped
<1>8. CASE r.how = "on" /\ st.op \in {"never", "assert", "call", "lit"}
  <2>1. \A q \in R : q \in {r, Panicked(r)}
    BY <1>1, <1>8 DEF Does
  <2>2. Panicked(r) \in Runs
    BY RunPanicked DEF PanicOf
  <2>. QED
    BY <2>1, <2>2
<1>9. CASE r.how = "on" /\ st.op = "recover"
  <2>1. R = {[r EXCEPT !.recover = TRUE]}
    BY <1>1, <1>9 DEF Does
  <2>2. [r EXCEPT !.recover = TRUE] \in Runs
    BY DEF Runs
  <2>. QED
    BY <2>1, <2>2
<1>. QED
  BY <1>2, <1>3, <1>4, <1>5, <1>6, <1>7, <1>8, <1>9, StatementParts

LEMMA BranchesAgree ==
    ASSUME NEW st \in Statements, st.op = "if", NEW g, NEW h, DoneBelow(st, g), NEW r \in Runs,
           \A t \in Statements : Depth[t] < Depth[st] => g[t] = h[t]
    PROVE  Branches(st, g, r) = Branches(st, h, r)
<1>1. IsBlock(st.then, st) /\ IsBlock(st.els, st)
  BY StatementParts
<1>2. DoneBy(st.then, g) /\ DoneBy(st.els, g)
  BY <1>1, BlockDone
<1>3. (\A i \in DOMAIN st.then : g[st.then[i]] = h[st.then[i]])
      /\ (\A i \in DOMAIN st.els : g[st.els[i]] = h[st.els[i]])
  BY <1>1 DEF IsBlock
<1>4. DoSeq(st.then, g, r) = DoSeq(st.then, h, r) /\ DoSeq(st.els, g, r) = DoSeq(st.els, h, r)
  BY <1>2, <1>3, DoSeqAgrees
<1>. QED
  BY <1>4, Zenon DEF Branches

LEMMA DoIfAgrees ==
    ASSUME NEW s, NEW st \in Statements, st.op = "if", NEW g, NEW h, DoneBelow(st, g), NEW r \in Runs,
           \A t \in Statements : Depth[t] < Depth[st] => g[t] = h[t]
    PROVE  DoIf(s, st, g, r) = DoIf(s, st, h, r)
<1>1. ASSUME NEW env \in Redeclared(s, st, r)
      PROVE  Branches(st, g, [r EXCEPT !.env = env]) = Branches(st, h, [r EXCEPT !.env = env])
  <2>. DEFINE o == [r EXCEPT !.env = env]
  <2>1. o \in Runs
    BY RedeclaredIs, RunEnv DEF EnvOf
  <2>. HIDE DEF o
  <2>2. Branches(st, g, o) = Branches(st, h, o)
    BY <2>1, BranchesAgree
  <2>. QED
    BY <2>2 DEF o
<1>2. \A p : Branched(s, st, g, r, p) <=> Branched(s, st, h, r, p)
  BY <1>1 DEF Branched, BranchOf
<1>3. \A p : p \in DoIf(s, st, g, r) <=> p \in DoIf(s, st, h, r)
  BY <1>2, DoIfIs
<1>. QED
  BY <1>3

LEMMA DoStepLooksBelow ==
    ASSUME NEW s \in Signatures, NEW st \in Statements, NEW g, NEW h, DoneBelow(st, g), NEW r \in Runs,
           \A t \in Statements : Depth[t] < Depth[st] => g[t] = h[t]
    PROVE  DoStep(s, st, g, r) = DoStep(s, st, h, r)
<1>. DEFINE R == DoStep(s, st, g, r)  Q == DoStep(s, st, h, r)
<1>1. Does(s, st, g, r, R) /\ Does(s, st, h, r, Q)
  BY DoStepIs
<1>. HIDE DEF R, Q
<1>. SUFFICES R = Q
  BY DEF R, Q
<1>2. CASE r.how # "on"
  BY <1>1, <1>2 DEF Does
<1>3. CASE r.how = "on" /\ st.op = "if"
  <2>1. R = DoIf(s, st, g, r) /\ Q = DoIf(s, st, h, r)
    BY <1>1, <1>3 DEF Does
  <2>2. DoIf(s, st, g, r) = DoIf(s, st, h, r)
    BY <1>3, DoIfAgrees
  <2>. QED
    BY <2>1, <2>2
<1>4. ASSUME st.op \in {"block", "loop"}
      PROVE  DoneBy(st.body, g) /\ \A i \in DOMAIN st.body : g[st.body[i]] = h[st.body[i]]
  <2>1. IsBlock(st.body, st)
    BY <1>4, StatementParts
  <2>. QED
    BY <2>1, BlockDone DEF IsBlock
<1>5. CASE r.how = "on" /\ st.op = "block"
  <2>1. R = DoSeq(st.body, g, r) /\ Q = DoSeq(st.body, h, r)
    BY <1>1, <1>5 DEF Does
  <2>2. DoSeq(st.body, g, r) = DoSeq(st.body, h, r)
    BY <1>4, <1>5, DoSeqAgrees
  <2>. QED
    BY <2>1, <2>2
<1>6. CASE r.how = "on" /\ st.op = "loop"
  <2>1. R = DoLoop(st, g, r) /\ Q = DoLoop(st, h, r)
    BY <1>1, <1>6 DEF Does
  <2>2. DoLoop(st, g, r) = DoLoop(st, h, r)
    BY <1>4, <1>6, DoLoopAgrees
  <2>. QED
    BY <2>1, <2>2
<1>7. CASE r.how = "on" /\ st.op \notin {"if", "block", "loop"}
  <2>1. st.op \in {"return", "set", "lit", "never", "assert", "call", "recover"}
    BY <1>7, StatementParts
  <2>. QED
    BY <1>1, <1>7, <2>1, Zenon DEF Does
<1>. QED
  BY <1>2, <1>3, <1>5, <1>6, <1>7

\* Do is what DoStep makes of itself.
LEMMA DoIs ==
    ASSUME NEW s \in Signatures
    PROVE  \E do \in [Statements -> Outcomes] :
              \A st \in Statements, r \in Runs : Do(s, st, r) = do[st][r] /\ Does(s, st, do, r, do[st][r])
<1>. DEFINE Row(st, g) == [q \in Runs |-> DoStep(s, st, g, q)]
            Is(g) == g = [st \in Statements |-> Row(st, g)]
            h == CHOOSE g : Is(g)
            K == Outcomes
            step == [st \in Statements |-> [g \in [Statements -> K] |-> Row(st, g)]]
<1>1. \A st, r : Do(s, st, r) = h[st][r]
  BY DEF Do
<1>2. ASSUME NEW st \in Statements, NEW g, DoneBelow(st, g) PROVE Row(st, g) \in K
  <2>1. \A q \in Runs : DoStep(s, st, g, q) \in SUBSET Runs
    BY <1>2, DoStepTyped
  <2>. QED
    BY <2>1 DEF Outcomes
<1>3. ASSUME NEW st \in Statements, NEW g, NEW k, DoneBelow(st, g),
             \A t \in Statements : Depth[t] < Depth[st] => g[t] = k[t]
      PROVE  Row(st, g) = Row(st, k)
  <2>1. \A q \in Runs : DoStep(s, st, g, q) = DoStep(s, st, k, q)
    BY <1>3, DoStepLooksBelow
  <2>. QED
    BY <2>1
<1>4. \A g : \A st \in Statements, q \in Runs : Row(st, g)[q] = DoStep(s, st, g, q)
  OBVIOUS
<1>5. ASSUME NEW st \in Statements, NEW g \in [Statements -> K] PROVE DoneBelow(st, g)
  BY DEF DoneBelow
<1>. HIDE DEF Row
<1>6. step \in [Statements -> [[Statements -> K] -> K]]
      /\ \A st \in Statements, g \in [Statements -> K] : step[st][g] = Row(st, g)
  <2>. HIDE DEF K
  <2>. QED
    BY <1>2, <1>5
<1>. HIDE DEF step
<1>7. \A st \in Statements : \A g, k \in [Statements -> K] :
          (\A t \in Statements : Ranks[t] < Ranks[st] => g[t] = k[t]) => step[st][g] = step[st][k]
  <2>. HIDE DEF K
  <2>. SUFFICES ASSUME NEW st \in Statements, NEW g \in [Statements -> K], NEW k \in [Statements -> K],
                       \A t \in Statements : Ranks[t] < Ranks[st] => g[t] = k[t]
                PROVE  step[st][g] = step[st][k]
    OBVIOUS
  <2>1. \A t \in Statements : Depth[t] < Depth[st] => g[t] = k[t]
    BY RanksTyped
  <2>2. Row(st, g) = Row(st, k)
    BY <1>3, <1>5, <2>1
  <2>. QED
    BY <1>6, <2>2
<1>8. K # {}
  <2>1. [q \in Runs |-> {}] \in Outcomes
    BY DEF Outcomes
  <2>. QED
    BY <2>1
<1>9. ASSUME NEW g, NEW st \in Statements, \A t \in Statements : Depth[t] < Depth[st] => g[t] \in K
      PROVE  DoneBelow(st, g)
  BY <1>9 DEF DoneBelow
<1>. HIDE DEF K
<1>10. LooksBelow(Statements, K, Ranks, step)
  BY <1>6, <1>7, RanksTyped DEF LooksBelow
<1>11. PICK g \in [Statements -> K] : g = [st \in Statements |-> step[st][g]]
  BY <1>8, <1>10, RankRecursion
<1>12. g = [st \in Statements |-> Row(st, g)]
  BY <1>6, <1>11
<1>13. Is(g)
  BY <1>12
<1>14. Is(h)
  BY <1>13
<1>15. h = [st \in Statements |-> Row(st, h)]
  <2>. HIDE DEF h
  <2>. QED
    BY <1>14
<1>. HIDE DEF h
<1>16. \A st \in Statements : h[st] = Row(st, h)
  BY <1>15
<1>. DEFINE P == {st \in Statements : h[st] \in K}
<1>17. ASSUME NEW st \in Statements, \A t \in Statements : Ranks[t] < Ranks[st] => t \in P PROVE st \in P
  <2>1. \A t \in Statements : Depth[t] < Depth[st] => h[t] \in K
    BY <1>17, RanksTyped
  <2>2. Row(st, h) \in K
    BY <1>2, <1>9, <2>1
  <2>. QED
    BY <1>16, <2>2
<1>18. Statements \subseteq P
  <2>. HIDE DEF P
  <2>. QED
    BY <1>17, RanksTyped, RankInduction
<1>19. h \in [Statements -> K]
  BY <1>15, <1>18
<1>20. \A st \in Statements, r \in Runs : Does(s, st, h, r, h[st][r])
  <2>. SUFFICES ASSUME NEW st \in Statements, NEW r \in Runs PROVE Does(s, st, h, r, h[st][r])
    OBVIOUS
  <2>1. h[st][r] = DoStep(s, st, h, r)
    BY <1>4, <1>16
  <2>. QED
    BY <2>1, DoStepIs
<1>. QED
  BY <1>1, <1>19, <1>20 DEF K

-----------------------------------------------------------------------------
(* What an execution has done is told by the statements it was made of.     *)

\* The disciplines are kept: a parameter that is nil, or true, was passed so,
\* and no panic is recovered.
Steady(e0, q) ==
    /\ q \in Runs /\ q.env0 = e0 /\ ~q.recover
    /\ \A x \in Vars : q.env[x] \in {"nil", "true"} => q.env[x] = e0[x]

AllNil(e0, xs) == \A x \in xs : e0[x] = "nil"

\* One of the statements ts has returned; if it returned a literal nil, where
\* the parameters active were nil, then those of one of guards were.
Explained(s, e0, ts, active, guards, q) ==
    /\ q.how = "return" => \E t \in ts : t.op = "return" /\ (t.v \in {"new", "getter"} => q.v = "set")
    /\ q.how = "return" /\ q.literal => /\ \E t \in ts : YieldsNil(s, t)
                                        /\ AllNil(e0, active) => \E g \in guards : AllNil(e0, g)

LEMMA ExplainedByMore ==
    ASSUME NEW s, NEW e0, NEW ts, NEW active, NEW guards, NEW q, Explained(s, e0, ts, active, guards, q),
           NEW us, NEW more, ts \subseteq us, guards \subseteq more
    PROVE  Explained(s, e0, us, active, more, q)
  BY DEF Explained

LEMMA SteadyPanic ==
    ASSUME NEW e0, NEW r, Steady(e0, r) PROVE Steady(e0, Panicked(r)) /\ Panicked(r).how = "panic"
  BY RunPanicked DEF PanicOf, Steady

LEMMA SteadyEnv ==
    ASSUME NEW e0, NEW r, Steady(e0, r), NEW env, NEW q, EnvOf(r, env, q),
           \A x \in Vars : env[x] \in {"nil", "true"} => env[x] = e0[x]
    PROVE  Steady(e0, q)
  BY DEF EnvOf, Steady

LEMMA Held ==
    ASSUME Wild = {}, NEW e0, NEW r, Steady(e0, r), NEW x, NEW v, NEW wild, MayHold(r, x, v, wild),
           v \in {"nil", "true"}
    PROVE  v = e0[x]
  BY DEF MayHold, Steady

LEMMA SteadySet ==
    ASSUME Wild = {}, NEW e0, NEW r, Steady(e0, r), NEW x \in Vars, NEW v, MayHold(r, x, v, "reassign"),
           NEW q, SetOf(r, x, v, q)
    PROVE  Steady(e0, q)
<1>1. q \in Runs /\ q.env = [r.env EXCEPT ![x] = v] /\ r.env \in [Vars -> Value]
  BY DEF SetOf, Steady, Runs
<1>2. \A y \in Vars : q.env[y] = IF y = x THEN v ELSE r.env[y]
  BY <1>1
<1>3. v \in {"nil", "true"} => v = e0[x]
  BY Held
<1>4. \A y \in Vars : q.env[y] \in {"nil", "true"} => q.env[y] = e0[y]
  BY <1>2, <1>3 DEF Steady
<1>. QED
  BY <1>1, <1>4 DEF SetOf, Steady

LEMMA SteadyInside ==
    ASSUME Wild = {}, NEW e0, NEW r, Steady(e0, r), NEW s, NEW st, NEW env \in Redeclared(s, st, r)
    PROVE  Steady(e0, [r EXCEPT !.env = env])
<1>1. r \in Runs
  BY DEF Steady
<1>2. EnvOf(r, env, [r EXCEPT !.env = env])
  BY <1>1, RedeclaredIs, RunEnv
<1>3. ASSUME NEW x \in Vars, env[x] \in {"nil", "true"} PROVE env[x] = e0[x]
  <2>1. CASE x \in st.init
    <3>1. MayHold(r, x, env[x], "shadow")
      BY <1>1, <2>1, RedeclaredIs
    <3>. QED
      BY <1>3, <3>1, Held
  <2>2. CASE x \notin st.init
    <3>1. env[x] = r.env[x]
      BY <1>1, <2>2, RedeclaredIs
    <3>. QED
      BY <1>3, <3>1 DEF Steady
  <2>. QED
    BY <2>1, <2>2
<1>. QED
  BY <1>2, <1>3, SteadyEnv

LEMMA SteadyBack ==
    ASSUME NEW e0, NEW r, Steady(e0, r), NEW q, Steady(e0, q), NEW st
    PROVE  /\ Steady(e0, Back(st, r, q))
           /\ Back(st, r, q).how = q.how /\ Back(st, r, q).v = q.v /\ Back(st, r, q).literal = q.literal
<1>1. r \in Runs /\ q \in Runs
  BY DEF Steady
<1>. DEFINE p == Back(st, r, q)
<1>2. BackOf(st, r, q, p)
  BY <1>1, BackIs
<1>. HIDE DEF p
<1>3. \A x \in Vars : p.env[x] = r.env[x] \/ p.env[x] = q.env[x]
  BY <1>2 DEF BackOf
<1>4. Steady(e0, p)
  BY <1>2, <1>3 DEF Steady, BackOf
<1>. QED
  BY <1>2, <1>4 DEF BackOf, p

LEMMA ExplainedBack ==
    ASSUME NEW s, NEW e0, NEW ts, NEW active, NEW guards, NEW q, Explained(s, e0, ts, active, guards, q),
           NEW p, p.how = q.how, p.v = q.v, p.literal = q.literal
    PROVE  Explained(s, e0, ts, active, guards, p)
  BY DEF Explained

\* guards and do are what the body's statements read and do.
Reading(s, guards, do) ==
    /\ guards \in [Statements -> GuardSets] /\ do \in [Statements -> Outcomes]
    /\ \A st \in Statements, active \in SUBSET Vars : GuardsAre(s, st, guards, active, guards[st][active])
    /\ \A st \in Statements, r \in Runs : Does(s, st, do, r, do[st][r])

Quiet(b) == \A t \in Inside(b) : t.op # "recover"

Told(s, e0, ts, active, guards, q) == Steady(e0, q) /\ Explained(s, e0, ts, active, guards, q)

\* Whatever st does is explained by what is inside it.
ToldBy(s, e0, guards, do, st) ==
    Quiet(<<st>>) =>
        \A active \in SUBSET Vars, r \in Runs : Steady(e0, r) /\ r.how = "on" =>
            \A q \in do[st][r] : Told(s, e0, Inside(<<st>>), active, guards[st][active], q)

LEMMA QuietParts ==
    /\ \A b \in Seq(Statements) : Quiet(b) => \A i \in DOMAIN b : Quiet(<<b[i]>>)
    /\ \A st \in Statements : \A b : IsBlock(b, st) /\ Quiet(<<st>>) => Quiet(b)
    /\ \A st \in Statements : Quiet(<<st>>) => st.op # "recover"
  BY InsideParts DEF Quiet

LEMMA BlockTells ==
    ASSUME NEW s, NEW e0, NEW guards, NEW do, Reading(s, guards, do), NEW b \in Seq(Statements), Quiet(b),
           \A i \in DOMAIN b : ToldBy(s, e0, guards, do, b[i]),
           NEW active \in SUBSET Vars, NEW r \in Runs, Steady(e0, r), r.how = "on"
    PROVE  \A q \in DoSeq(b, do, r) : Told(s, e0, Inside(b), active, GuardsIn(b, guards, active), q)
<1>. DEFINE X == {q \in Runs : Told(s, e0, Inside(b), active, GuardsIn(b, guards, active), q)}
<1>1. DoneBy(b, do)
  BY DEF DoneBy, Reading
<1>2. ASSUME NEW i \in DOMAIN b, NEW q \in X, NEW p \in do[b[i]][q] PROVE p \in X
  <2>1. q \in Runs /\ Told(s, e0, Inside(b), active, GuardsIn(b, guards, active), q)
    OBVIOUS
  <2>2. b[i] \in Statements /\ Does(s, b[i], do, q, do[b[i]][q]) /\ do[b[i]][q] \in SUBSET Runs
    BY <2>1 DEF Reading, Outcomes
  <2>3. CASE q.how # "on"
    <3>1. p = q
      BY <1>2, <2>2, <2>3 DEF Does
    <3>. QED
      BY <3>1
  <2>4. CASE q.how = "on"
    <3>1. Quiet(<<b[i]>>)
      BY QuietParts
    <3>2. Told(s, e0, Inside(<<b[i]>>), active, guards[b[i]][active], p)
      BY <1>2, <2>1, <2>4, <3>1 DEF ToldBy, Told
    <3>3. Inside(<<b[i]>>) \subseteq Inside(b)
      BY InsideParts
    <3>4. guards[b[i]][active] \subseteq GuardsIn(b, guards, active)
      BY DEF GuardsIn
    <3>5. Told(s, e0, Inside(b), active, GuardsIn(b, guards, active), p)
      BY <3>2, <3>3, <3>4, ExplainedByMore DEF Told
    <3>. QED
      BY <1>2, <2>2, <3>5
  <2>. QED
    BY <2>3, <2>4
<1>3. r \in X
  BY DEF Told, Explained
<1>4. X \in SUBSET Runs /\ \A i \in DOMAIN b : \A q \in X : do[b[i]][q] \subseteq X
  BY <1>2
<1>. HIDE DEF X
<1>5. DoSeq(b, do, r) \subseteq X
  BY <1>1, <1>3, <1>4, DoSeqKeeps
<1>. QED
  BY <1>5 DEF X

LEMMA LoopTells ==
    ASSUME NEW s, NEW e0, NEW guards, NEW do, Reading(s, guards, do),
           NEW st \in Statements, st.op = "loop", Quiet(st.body), st.body \in Seq(Statements),
           \A i \in DOMAIN st.body : ToldBy(s, e0, guards, do, st.body[i]),
           NEW active \in SUBSET Vars, NEW r \in Runs, Steady(e0, r), r.how = "on"
    PROVE  \A q \in DoLoop(st, do, r) : Told(s, e0, Inside(st.body), active, guards[st][active], q)
<1>. DEFINE b == st.body
            X == {q \in Runs : Told(s, e0, Inside(b), active, guards[st][active], q)}
<1>1. DoneBy(b, do)
  BY DEF DoneBy, Reading
<1>2. guards[st][active] = IF \E t \in Inside(b) : YieldsNil(s, t) THEN {{}} ELSE {}
  <2>1. GuardsAre(s, st, guards, active, guards[st][active])
    BY DEF Reading
  <2>. QED
    BY <2>1 DEF GuardsAre
<1>3. ASSUME NEW i \in DOMAIN b, NEW q \in X, NEW p \in do[b[i]][q] PROVE p \in X
  <2>1. q \in Runs /\ Told(s, e0, Inside(b), active, guards[st][active], q)
    OBVIOUS
  <2>2. b[i] \in Statements /\ Does(s, b[i], do, q, do[b[i]][q]) /\ do[b[i]][q] \in SUBSET Runs
    BY <2>1 DEF Reading, Outcomes
  <2>3. CASE q.how # "on"
    <3>1. p = q
      BY <1>3, <2>2, <2>3 DEF Does
    <3>. QED
      BY <3>1
  <2>4. CASE q.how = "on"
    <3>1. Quiet(<<b[i]>>)
      BY QuietParts
    <3>2. Told(s, e0, Inside(<<b[i]>>), active, guards[b[i]][active], p)
      BY <1>3, <2>1, <2>4, <3>1 DEF ToldBy, Told
    <3>3. Inside(<<b[i]>>) \subseteq Inside(b)
      BY InsideParts
    <3>4. Explained(s, e0, Inside(b), active, guards[st][active], p)
      <4>1. ASSUME p.how = "return", p.literal PROVE guards[st][active] = {{}}
        <5>1. \E t \in Inside(b) : YieldsNil(s, t)
          BY <3>2, <3>3, <4>1 DEF Told, Explained
        <5>. QED
          BY <1>2, <5>1
      <4>2. AllNil(e0, {})
        BY DEF AllNil
      <4>. QED
        BY <3>2, <3>3, <4>1, <4>2 DEF Told, Explained
    <3>. QED
      BY <1>3, <2>2, <3>2, <3>4 DEF Told
  <2>. QED
    BY <2>3, <2>4
<1>4. r \in X
  BY DEF Told, Explained
<1>5. X \in SUBSET Runs /\ \A i \in DOMAIN st.body : \A q \in X : do[st.body[i]][q] \subseteq X
  BY <1>3
<1>. HIDE DEF X
<1>6. DoLoop(st, do, r) \subseteq X
  BY <1>1, <1>4, <1>5, DoLoopKeeps
<1>. QED
  BY <1>6 DEF X

LEMMA IfTells ==
    ASSUME Wild = {}, NEW s, NEW e0, NEW guards, NEW do, Reading(s, guards, do),
           NEW st \in Statements, st.op = "if", Quiet(<<st>>),
           \A t \in Within(st) : ToldBy(s, e0, guards, do, t),
           NEW active \in SUBSET Vars, NEW r \in Runs, Steady(e0, r), r.how = "on"
    PROVE  \A p \in DoIf(s, st, do, r) : Told(s, e0, Inside(<<st>>), active, guards[st][active], p)
<1>. SUFFICES ASSUME NEW p \in DoIf(s, st, do, r)
              PROVE  Told(s, e0, Inside(<<st>>), active, guards[st][active], p)
  OBVIOUS
<1>. DEFINE more == active \cup ParamNil(st.c).t
<1>1. Branched(s, st, do, r, p)
  BY DoIfIs
<1>0. PICK env \in Redeclared(s, st, r) : \E q : BranchOf(st, do, r, p, env, q)
  BY <1>1 DEF Branched
<1>2. PICK q : q \in Branches(st, do, [r EXCEPT !.env = env]) /\ p = Back(st, r, q)
  BY <1>0 DEF BranchOf
<1>. DEFINE o == [r EXCEPT !.env = env]
<1>3. Steady(e0, o)
  BY SteadyInside
<1>4. o \in Runs /\ o.env = env /\ o.how = "on"
  BY RedeclaredIs, RunEnv DEF EnvOf
<1>5. q \in Branches(st, do, o)
  BY <1>2
<1>. HIDE DEF o
<1>6. IsBlock(st.then, st) /\ IsBlock(st.els, st) /\ st.c \in Conds
  BY StatementParts
<1>7. more \in SUBSET Vars
  BY <1>6, ParamNilIs DEF Nils
<1>8. guards[st][active] = GuardsIn(st.then, guards, more) \cup GuardsIn(st.els, guards, active)
  <2>1. GuardsAre(s, st, guards, active, guards[st][active])
    BY DEF Reading
  <2>. QED
    BY <2>1 DEF GuardsAre
<1>9. ASSUME NEW b, IsBlock(b, st)
      PROVE  /\ b \in Seq(Statements) /\ Quiet(b) /\ Inside(b) \subseteq Inside(<<st>>)
             /\ \A i \in DOMAIN b : ToldBy(s, e0, guards, do, b[i])
  BY <1>9, QuietParts, InsideParts DEF IsBlock
<1>10. CASE Test(st.c, o.env).yes /\ q \in DoSeq(st.then, do, o)
  <2>. HIDE DEF more
  <2>1. Told(s, e0, Inside(st.then), more, GuardsIn(st.then, guards, more), q)
    BY <1>3, <1>4, <1>6, <1>7, <1>9, <1>10, BlockTells
  <2>2. AllNil(e0, active) => AllNil(e0, more)
    <3>1. \A x \in ParamNil(st.c).t : o.env[x] = "nil"
      BY <1>6, <1>10, ConditionTells DEF Tells
    <3>2. ParamNil(st.c).t \subseteq Vars
      BY <1>6, ParamNilIs DEF Nils
    <3>3. \A x \in ParamNil(st.c).t : e0[x] = "nil"
      BY <1>3, <3>1, <3>2 DEF Steady
    <3>. QED
      BY <3>3 DEF AllNil, more
  <2>3. Explained(s, e0, Inside(st.then), active, GuardsIn(st.then, guards, more), q)
    BY <2>1, <2>2 DEF Told, Explained
  <2>4. Explained(s, e0, Inside(<<st>>), active, guards[st][active], q)
    BY <1>6, <1>8, <1>9, <2>3, ExplainedByMore
  <2>. QED
    BY <1>2, <2>1, <2>4, SteadyBack, ExplainedBack DEF Told
<1>11. CASE q \in DoSeq(st.els, do, o)
  <2>. HIDE DEF more
  <2>1. Told(s, e0, Inside(st.els), active, GuardsIn(st.els, guards, active), q)
    BY <1>3, <1>4, <1>6, <1>9, <1>11, BlockTells
  <2>2. Explained(s, e0, Inside(<<st>>), active, guards[st][active], q)
    BY <1>6, <1>8, <1>9, <2>1, ExplainedByMore DEF Told
  <2>. QED
    BY <1>2, <2>1, <2>2, SteadyBack, ExplainedBack DEF Told
<1>. QED
  BY <1>5, <1>10, <1>11 DEF Branches

LEMMA ReturnTells ==
    ASSUME NEW s \in Signatures, NEW e0, NEW guards, NEW do, Reading(s, guards, do),
           NEW st \in Statements, st.op = "return",
           NEW active \in SUBSET Vars, NEW r \in Runs, Steady(e0, r)
    PROVE  \A q \in Returning(s, st, r) : Told(s, e0, Inside(<<st>>), active, guards[st][active], q)
<1>. SUFFICES ASSUME NEW q \in Returning(s, st, r)
              PROVE  Told(s, e0, Inside(<<st>>), active, guards[st][active], q)
  OBVIOUS
<1>1. PICK v \in Returned(s, st.v, r.env) : ReturnOf(r, v, YieldsNil(s, st), q)
  BY ReturningIs
<1>2. Steady(e0, q)
  BY <1>1 DEF ReturnOf, Steady
<1>3. q.v = v /\ (q.literal => YieldsNil(s, st))
  BY <1>1 DEF ReturnOf
<1>4. st.v \in {"new", "getter"} => q.v = "set"
  BY <1>3, ReturnedNew
<1>5. YieldsNil(s, st) => guards[st][active] = {active}
  <2>1. GuardsAre(s, st, guards, active, guards[st][active])
    BY DEF Reading
  <2>. QED
    BY <2>1 DEF GuardsAre
<1>6. st \in Inside(<<st>>)
  BY InsideParts
<1>7. Explained(s, e0, Inside(<<st>>), active, guards[st][active], q)
  BY <1>3, <1>4, <1>5, <1>6 DEF Explained
<1>. QED
  BY <1>2, <1>7 DEF Told

LEMMA StatementTells ==
    ASSUME Wild = {}, NEW s \in Signatures, NEW e0, NEW guards, NEW do, Reading(s, guards, do)
    PROVE  \A st \in Statements : ToldBy(s, e0, guards, do, st)
<1>. DEFINE P == {st \in Statements : ToldBy(s, e0, guards, do, st)}
<1>1. ASSUME NEW st \in Statements, \A t \in Statements : Ranks[t] < Ranks[st] => t \in P PROVE st \in P
  <2>1. \A t \in Within(st) : ToldBy(s, e0, guards, do, t)
    BY <1>1, StatementParts, RanksTyped
  <2>. SUFFICES ASSUME Quiet(<<st>>), NEW active \in SUBSET Vars, NEW r \in Runs, Steady(e0, r), r.how = "on",
                       NEW q \in do[st][r]
                PROVE  Told(s, e0, Inside(<<st>>), active, guards[st][active], q)
    BY DEF ToldBy
  <2>2. Does(s, st, do, r, do[st][r])
    BY DEF Reading
  <2>3. CASE st.op = "return"
    <3>1. q \in Returning(s, st, r)
      BY <2>2, <2>3 DEF Does
    <3>. QED
      BY <2>3, <3>1, ReturnTells
  <2>4. CASE st.op = "set"
    <3>1. q \in Setting(s, st, r) /\ st.x \in Vars
      BY <2>2, <2>4, StatementParts DEF Does
    <3>2. PICK v \in TypeOf(s) : MayHold(r, st.x, v, "reassign") /\ SetOf(r, st.x, v, q)
      BY <2>4, <3>1, SettingIs
    <3>3. Steady(e0, q) /\ q.how = "on"
      BY <3>1, <3>2, SteadySet DEF SetOf
    <3>. QED
      BY <3>3 DEF Told, Explained
  <2>5. CASE st.op = "if"
    <3>1. q \in DoIf(s, st, do, r)
      BY <2>2, <2>5 DEF Does
    <3>. QED
      BY <2>1, <2>5, <3>1, IfTells
  <2>6. ASSUME st.op \in {"block", "loop"}
        PROVE  /\ st.body \in Seq(Statements) /\ Quiet(st.body) /\ Inside(st.body) \subseteq Inside(<<st>>)
               /\ \A i \in DOMAIN st.body : ToldBy(s, e0, guards, do, st.body[i])
    <3>1. IsBlock(st.body, st)
      BY <2>6, StatementParts
    <3>. QED
      BY <2>1, <3>1, QuietParts, InsideParts DEF IsBlock
  <2>7. CASE st.op = "block"
    <3>1. q \in DoSeq(st.body, do, r)
      BY <2>2, <2>7 DEF Does
    <3>2. Told(s, e0, Inside(st.body), active, GuardsIn(st.body, guards, active), q)
      BY <2>6, <2>7, <3>1, BlockTells
    <3>3. guards[st][active] = GuardsIn(st.body, guards, active)
      <4>1. GuardsAre(s, st, guards, active, guards[st][active])
        BY DEF Reading
      <4>. QED
        BY <2>7, <4>1 DEF GuardsAre
    <3>. QED
      BY <2>6, <2>7, <3>2, <3>3, ExplainedByMore DEF Told
  <2>8. CASE st.op = "loop"
    <3>1. q \in DoLoop(st, do, r)
      BY <2>2, <2>8 DEF Does
    <3>2. Told(s, e0, Inside(st.body), active, guards[st][active], q)
      BY <2>6, <2>8, <3>1, LoopTells
    <3>. QED
      BY <2>6, <2>8, <3>2, ExplainedByMore DEF Told
  <2>9. CASE st.op \in {"never", "assert", "call", "lit"}
    <3>1. q = r \/ q = Panicked(r)
      BY <2>2, <2>9 DEF Does
    <3>2. Steady(e0, q) /\ q.how \in {"on", "panic"}
      BY <3>1, SteadyPanic
    <3>. QED
      BY <3>2 DEF Told, Explained
  <2>10. st.op # "recover"
    BY QuietParts
  <2>. QED
    BY <2>3, <2>4, <2>5, <2>7, <2>8, <2>9, <2>10, StatementParts
<1>2. Statements \subseteq P
  <2>. HIDE DEF P
  <2>. QED
    BY <1>1, RanksTyped, RankInduction
<1>. QED
  BY <1>2

-----------------------------------------------------------------------------
(* The body and its execution, as they grow.                               *)

\* What the disciplines say of a statement of the body.
Orderly(s, st) ==
    /\ Quiet(<<st>>)
    /\ s.kind = "helper" /\ st.op = "if" /\ BlockEndsInNeverReturn(st.then) => ~ContainsReturn(st.then)
    /\ s.kind = "helper" /\ st.op = "block" => ~ContainsReturn(st.body)

\* Statement j of b was executed from r, and made q of it.
Went(s, e0, b, j, r, q) == Steady(e0, r) /\ r.how = "on" /\ (j = 1 => r.env = e0) /\ q \in Do(s, b[j], r)
Passes(s, e0, b, j) == \E r, q : Went(s, e0, b, j, r, q) /\ q.how = "on"
EndsAt(s, e0, b, k, q) ==
    /\ k \in DOMAIN b /\ q.how # "on"
    /\ \A j \in 1..k - 1 : Passes(s, e0, b, j)
    /\ \E r : Went(s, e0, b, k, r, q)

Account(s, e0, b, q) ==
    /\ b \in Seq(Statements) /\ (\A i \in DOMAIN b : Orderly(s, b[i]))
    /\ Told(s, e0, Inside(b), {}, GuardsOfNil(s, b), q)
    /\ b = <<>> => q.env = e0
    /\ q.how = "on" => \A j \in DOMAIN b : Passes(s, e0, b, j)
    /\ q.how # "on" => \E k \in DOMAIN b : EndsAt(s, e0, b, k, q)

LEMMA DoTells ==
    ASSUME Wild = {}, NEW s \in Signatures, NEW e0, NEW st \in Statements, Quiet(<<st>>),
           NEW r, Steady(e0, r), r.how = "on", NEW q \in Do(s, st, r)
    PROVE  Told(s, e0, Inside(<<st>>), {}, GuardsOfNil(s, <<st>>), q)
<1>1. PICK guards \in [Statements -> GuardSets] :
         /\ \A b : GuardsOfNil(s, b) = GuardsIn(b, guards, {})
         /\ \A t \in Statements, active \in SUBSET Vars : GuardsAre(s, t, guards, active, guards[t][active])
  BY GuardsOfNilIs
<1>2. PICK do \in [Statements -> Outcomes] :
         \A t \in Statements, o \in Runs : Do(s, t, o) = do[t][o] /\ Does(s, t, do, o, do[t][o])
  BY DoIs
<1>3. Reading(s, guards, do)
  BY <1>1, <1>2 DEF Reading
<1>4. ToldBy(s, e0, guards, do, st)
  BY <1>3, StatementTells
<1>5. r \in Runs
  BY DEF Steady
<1>6. q \in do[st][r]
  BY <1>2, <1>5
<1>7. {} \in SUBSET Vars
  OBVIOUS
<1>8. Told(s, e0, Inside(<<st>>), {}, guards[st][{}], q)
  BY <1>4, <1>5, <1>6, <1>7 DEF ToldBy
<1>9. guards[st][{}] \subseteq GuardsOfNil(s, <<st>>)
  <2>. DEFINE b == <<st>>
  <2>1. 1 \in DOMAIN b /\ b[1] = st
    OBVIOUS
  <2>. HIDE DEF b
  <2>2. guards[st][{}] \subseteq GuardsIn(b, guards, {})
    BY <2>1 DEF GuardsIn
  <2>3. GuardsOfNil(s, b) = GuardsIn(b, guards, {})
    BY <1>1
  <2>. QED
    BY <2>2, <2>3 DEF b
<1>. QED
  BY <1>8, <1>9, ExplainedByMore DEF Told

LEMMA LongerReads ==
    ASSUME NEW s, NEW b \in Seq(Statements), NEW st \in Statements
    PROVE  /\ Inside(b) \subseteq Inside(Append(b, st)) /\ Inside(<<st>>) \subseteq Inside(Append(b, st))
           /\ GuardsOfNil(s, b) \subseteq GuardsOfNil(s, Append(b, st))
           /\ GuardsOfNil(s, <<st>>) \subseteq GuardsOfNil(s, Append(b, st))
<1>1. PICK g : /\ \A c : Inside(c) = UNION {g[c[i]] : i \in DOMAIN c}
               /\ \A t \in Statements : g[t] = {t} \cup UNION {g[u] : u \in Within(t)}
  BY InsideUnfolds
<1>2. PICK guards \in [Statements -> GuardSets] : \A c : GuardsOfNil(s, c) = GuardsIn(c, guards, {})
  BY GuardsOfNilIs
<1>. DEFINE c == Append(b, st)  d == <<st>>
<1>3. \A i \in DOMAIN b : i \in DOMAIN c /\ c[i] = b[i]
  OBVIOUS
<1>4. Len(b) + 1 \in DOMAIN c /\ c[Len(b) + 1] = st
  OBVIOUS
<1>5. \A i \in DOMAIN d : d[i] = st
  OBVIOUS
<1>. HIDE DEF c, d
<1>6. Inside(b) \subseteq Inside(c) /\ Inside(d) \subseteq Inside(c)
  BY <1>1, <1>3, <1>4, <1>5
<1>7. GuardsIn(b, guards, {}) \subseteq GuardsIn(c, guards, {}) /\ GuardsIn(d, guards, {}) \subseteq GuardsIn(c, guards, {})
  BY <1>3, <1>4, <1>5 DEF GuardsIn
<1>8. GuardsOfNil(s, b) \subseteq GuardsOfNil(s, c) /\ GuardsOfNil(s, d) \subseteq GuardsOfNil(s, c)
  BY <1>2, <1>7
<1>. QED
  BY <1>6, <1>8 DEF c, d

LEMMA PassesLonger ==
    ASSUME NEW s, NEW e0, NEW b \in Seq(Statements), NEW st, NEW j \in DOMAIN b, Passes(s, e0, b, j)
    PROVE  Passes(s, e0, Append(b, st), j)
<1>1. Append(b, st)[j] = b[j]
  OBVIOUS
<1>. QED
  BY <1>1 DEF Passes, Went

LEMMA EndsAtLonger ==
    ASSUME NEW s, NEW e0, NEW b \in Seq(Statements), NEW st, NEW k, NEW q, EndsAt(s, e0, b, k, q)
    PROVE  EndsAt(s, e0, Append(b, st), k, q)
<1>1. k \in DOMAIN b /\ k \in DOMAIN Append(b, st) /\ Append(b, st)[k] = b[k] /\ \A j \in 1..k - 1 : j \in DOMAIN b
  BY DEF EndsAt
<1>2. \A j \in 1..k - 1 : Passes(s, e0, Append(b, st), j)
  BY <1>1, PassesLonger DEF EndsAt
<1>3. \E r : Went(s, e0, Append(b, st), k, r, q)
  BY <1>1 DEF EndsAt, Went
<1>. QED
  BY <1>1, <1>2, <1>3 DEF EndsAt

LEMMA AccountStep ==
    ASSUME Wild = {}, NEW s \in Signatures, NEW e0, NEW b, NEW r, Account(s, e0, b, r),
           NEW st \in Statements, Orderly(s, st), NEW q \in Do(s, st, r)
    PROVE  Account(s, e0, Append(b, st), q)
<1>. DEFINE c == Append(b, st)
<1>. SUFFICES Account(s, e0, c, q)
  OBVIOUS
<1>1. b \in Seq(Statements) /\ Steady(e0, r) /\ r \in Runs
  BY DEF Account, Told, Steady
<1>2. /\ c \in Seq(Statements) /\ c # <<>> /\ DOMAIN c = 1..Len(b) + 1 /\ c[Len(b) + 1] = st
      /\ DOMAIN b = 1..Len(b) /\ Len(b) \in Nat /\ \A i \in DOMAIN b : c[i] = b[i]
  BY <1>1
<1>3. \A i \in DOMAIN c : Orderly(s, c[i])
  BY <1>1, <1>2 DEF Account
<1>4. CASE r.how # "on"
  <2>1. q = r
    <3>1. PICK do \in [Statements -> Outcomes] :
             \A t \in Statements, o \in Runs : Do(s, t, o) = do[t][o] /\ Does(s, t, do, o, do[t][o])
      BY DoIs
    <3>2. Do(s, st, r) = {r}
      BY <1>1, <1>4, <3>1 DEF Does
    <3>. QED
      BY <3>2
  <2>2. Told(s, e0, Inside(c), {}, GuardsOfNil(s, c), q)
    BY <1>1, <2>1, LongerReads, ExplainedByMore DEF Account, Told
  <2>3. PICK k \in DOMAIN b : EndsAt(s, e0, b, k, r)
    BY <1>4 DEF Account
  <2>4. EndsAt(s, e0, c, k, q) /\ k \in DOMAIN c
    BY <1>1, <1>2, <2>1, <2>3, EndsAtLonger
  <2>. HIDE DEF c
  <2>. QED
    BY <1>2, <1>3, <1>4, <2>1, <2>2, <2>4, Zenon DEF Account
<1>5. CASE r.how = "on"
  <2>1. Told(s, e0, Inside(<<st>>), {}, GuardsOfNil(s, <<st>>), q)
    BY <1>1, <1>5, DoTells DEF Orderly
  <2>2. Told(s, e0, Inside(c), {}, GuardsOfNil(s, c), q)
    BY <1>1, <2>1, LongerReads, ExplainedByMore DEF Told
  <2>3. \A j \in DOMAIN b : Passes(s, e0, c, j)
    BY <1>1, <1>5, PassesLonger DEF Account
  <2>4. Went(s, e0, c, Len(b) + 1, r, q)
    <3>1. Len(b) + 1 = 1 => b = <<>>
      BY <1>1
    <3>2. Len(b) + 1 = 1 => r.env = e0
      BY <3>1 DEF Account
    <3>. HIDE DEF c
    <3>. QED
      BY <1>1, <1>2, <1>5, <3>2 DEF Went
  <2>. HIDE DEF c
  <2>5. q.how = "on" => \A j \in DOMAIN c : Passes(s, e0, c, j)
    <3>1. ASSUME q.how = "on" PROVE Passes(s, e0, c, Len(b) + 1)
      BY <2>4, <3>1 DEF Passes
    <3>2. \A j \in DOMAIN c : j \in DOMAIN b \/ j = Len(b) + 1
      BY <1>2
    <3>. QED
      BY <2>3, <3>1, <3>2
  <2>6. q.how # "on" => EndsAt(s, e0, c, Len(b) + 1, q) /\ Len(b) + 1 \in DOMAIN c
    <3>1. Len(b) + 1 \in DOMAIN c /\ \A j \in 1..(Len(b) + 1) - 1 : j \in DOMAIN b
      BY <1>2
    <3>. QED
      BY <2>3, <2>4, <3>1 DEF EndsAt
  <2>. QED
    BY <1>2, <1>3, <2>2, <2>5, <2>6, Zenon DEF Account
<1>. QED
  BY <1>4, <1>5

-----------------------------------------------------------------------------
(* What the facts about the body say of an execution.                      *)

LEMMA NilAnnounced ==
    ASSUME NEW s, NEW e0, NEW b, NEW q, Account(s, e0, b, q), q.how = "return", q.literal
    PROVE  \E x \in NilResults(s, b) : x = Unconditional \/ e0[x] = "nil"
<1>. DEFINE guards == GuardsOfNil(s, b)
<1>1. AllNil(e0, {})
  BY DEF AllNil
<1>2. PICK g \in guards : AllNil(e0, g)
  BY <1>1 DEF Account, Told, Explained
<1>. HIDE DEF guards
<1>3. CASE \E x \in Vars : Common(guards) = {x}
  <2>1. NilResults(s, b) = Common(guards)
    BY <1>2, <1>3 DEF NilResults, guards
  <2>2. PICK x \in Vars : Common(guards) = {x}
    BY <1>3
  <2>3. x \in g
    BY <1>2, <2>2 DEF Common
  <2>4. e0[x] = "nil"
    BY <1>2, <2>3 DEF AllNil
  <2>. QED
    BY <2>1, <2>2, <2>4
<1>4. CASE ~\E x \in Vars : Common(guards) = {x}
  <2>1. NilResults(s, b) = {Unconditional}
    BY <1>2, <1>4 DEF NilResults, guards
  <2>. QED
    BY <2>1
<1>. QED
  BY <1>3, <1>4

LEMMA NonNilHolds ==
    ASSUME NEW s, NEW e0, NEW b, NEW q, Account(s, e0, b, q), q.how = "return", NonNilResults(s, b)
    PROVE  q.v = "set"
<1>1. PICK t \in Inside(b) : t.op = "return" /\ (t.v \in {"new", "getter"} => q.v = "set")
  BY DEF Account, Told, Explained
<1>. QED
  BY <1>1 DEF NonNilResults

LEMMA NeverPanics ==
    ASSUME NEW s \in Signatures, NEW e0, NEW st \in Statements, st.op = "never", NEW r, Steady(e0, r), r.how = "on",
           NEW q \in Do(s, st, r)
    PROVE  q.how = "panic"
<1>1. PICK do \in [Statements -> Outcomes] :
         \A t \in Statements, o \in Runs : Do(s, t, o) = do[t][o] /\ Does(s, t, do, o, do[t][o])
  BY DoIs
<1>2. r \in Runs
  BY DEF Steady
<1>3. Do(s, st, r) = {Panicked(r)}
  BY <1>1, <1>2 DEF Does
<1>. QED
  BY <1>3, SteadyPanic

LEMMA LastNever ==
    ASSUME NEW s \in Signatures, NEW e0, NEW b, NEW q, Account(s, e0, b, q), b # <<>>, b[Len(b)].op = "never"
    PROVE  q.how # "on"
<1>. SUFFICES ASSUME q.how = "on" PROVE FALSE
  OBVIOUS
<1>1. b \in Seq(Statements) /\ Len(b) \in DOMAIN b /\ b[Len(b)] \in Statements
  BY DEF Account
<1>2. PICK r, p : Went(s, e0, b, Len(b), r, p) /\ p.how = "on"
  BY <1>1 DEF Account, Passes
<1>3. p.how = "panic"
  BY <1>1, <1>2, NeverPanics DEF Went
<1>. QED
  BY <1>2, <1>3

LEMMA NeverHolds ==
    ASSUME NEW s \in Signatures, NEW e0, NEW b, NEW q, Account(s, e0, b, q), NeverReturns(b)
    PROVE  q.how = "panic"
<1>1. b # <<>> /\ b[Len(b)].op = "never" /\ ~ContainsReturn(b)
  BY DEF NeverReturns, BlockEndsInNeverReturn, Last
<1>2. q.how # "on"
  BY <1>1, LastNever
<1>3. q.how # "return"
  BY <1>1 DEF ContainsReturn, Account, Told, Explained
<1>4. q.how \in {"on", "return", "panic"}
  BY DEF Account, Told, Steady, Runs
<1>. QED
  BY <1>2, <1>3, <1>4

LEMMA EndReturns ==
    ASSUME Wild = {}, NEW s \in Signatures, NEW e0, NEW b, NEW q, Account(s, e0, b, q),
           NEW k, EndsAt(s, e0, b, k, q), q.how = "return"
    PROVE  \E t \in Inside(<<b[k]>>) : t.op = "return"
<1>1. k \in DOMAIN b /\ b[k] \in Statements /\ Quiet(<<b[k]>>)
  BY DEF Account, EndsAt, Orderly
<1>2. PICK r : Went(s, e0, b, k, r, q)
  BY DEF EndsAt
<1>3. Told(s, e0, Inside(<<b[k]>>), {}, GuardsOfNil(s, <<b[k]>>), q)
  BY <1>1, <1>2, DoTells DEF Went
<1>. QED
  BY <1>3 DEF Told, Explained

LEMMA InsideBlock ==
    ASSUME NEW st \in Statements, st.op = "block" PROVE Inside(<<st>>) = {st} \cup Inside(st.body)
<1>1. PICK g : /\ \A c : Inside(c) = UNION {g[c[i]] : i \in DOMAIN c}
               /\ \A t \in Statements : g[t] = {t} \cup UNION {g[u] : u \in Within(t)}
  BY InsideUnfolds
<1>2. Within(st) = ToSet(st.body)
  <2>1. Parts(st) = <<st.body>>
    BY DEF Parts
  <2>2. ToSet(Parts(st)) = {st.body}
    BY <2>1 DEF ToSet
  <2>. QED
    BY <2>2 DEF Within
<1>3. UNION {g[u] : u \in Within(st)} = UNION {g[st.body[i]] : i \in DOMAIN st.body}
  BY <1>2 DEF ToSet
<1>. DEFINE d == <<st>>
<1>4. DOMAIN d = {1} /\ d[1] = st
  OBVIOUS
<1>. HIDE DEF d
<1>5. Inside(d) = g[st]
  <2>1. Inside(d) = UNION {g[d[i]] : i \in DOMAIN d}
    BY <1>1
  <2>. QED
    BY <1>4, <2>1
<1>6. g[st] = {st} \cup Inside(st.body)
  BY <1>1, <1>3
<1>. QED
  BY <1>5, <1>6 DEF d

LEMMA NoReturnBefore ==
    ASSUME NEW s, s.kind = "helper", NEW st \in Statements, Orderly(s, st), st.op \notin {"return", "if", "loop"}
    PROVE  \A t \in Inside(<<st>>) : t.op # "return"
<1>1. CASE st.op = "block"
  BY <1>1, InsideBlock DEF Orderly, ContainsReturn
<1>2. CASE st.op # "block"
  <2>1. Inside(<<st>>) = {st}
    BY <1>2, StatementParts, InsideParts
  <2>. QED
    BY <2>1
<1>. QED
  BY <1>1, <1>2

\* Statement i was executed in q, which has completed there or behind it.
ReachedBy(s, e0, b, q, i, r, p) ==
    /\ Went(s, e0, b, i, r, p) /\ p.how \in {"on", "return"}
    /\ \/ p.how = "return"
       \/ q.how = "on"
       \/ \E k \in DOMAIN b : i < k /\ q.how = "return" /\ EndsAt(s, e0, b, k, q)

\* A body that completes has executed a statement behind others that do not
\* return.
LEMMA Reached ==
    ASSUME Wild = {}, NEW s \in Signatures, s.kind = "helper", NEW e0, NEW b, NEW q, Account(s, e0, b, q),
           q.how \in {"on", "return"}, NEW i \in DOMAIN b, \A j \in 1..i - 1 : b[j].op \notin {"return", "if", "loop"}
    PROVE  \E r, p : ReachedBy(s, e0, b, q, i, r, p)
<1>1. CASE q.how = "on"
  BY <1>1 DEF Account, Passes, ReachedBy
<1>2. CASE q.how = "return"
  <2>1. PICK k \in DOMAIN b : EndsAt(s, e0, b, k, q)
    BY <1>2 DEF Account
  <2>2. b \in Seq(Statements) /\ DOMAIN b = 1..Len(b) /\ Len(b) \in Nat
    BY DEF Account
  <2>3. ~(k < i)
    <3>. SUFFICES ASSUME k < i PROVE FALSE
      OBVIOUS
    <3>1. k \in 1..i - 1 /\ b[k] \in Statements
      BY <2>2
    <3>2. b[k].op \notin {"return", "if", "loop"} /\ Orderly(s, b[k])
      BY <3>1 DEF Account
    <3>3. \E t \in Inside(<<b[k]>>) : t.op = "return"
      BY <1>2, <2>1, EndReturns
    <3>4. \A t \in Inside(<<b[k]>>) : t.op # "return"
      <4>. DEFINE st == b[k]
      <4>1. st \in Statements /\ Orderly(s, st) /\ st.op \notin {"return", "if", "loop"}
        BY <3>1, <3>2
      <4>. HIDE DEF st
      <4>2. \A t \in Inside(<<st>>) : t.op # "return"
        BY <4>1, NoReturnBefore
      <4>. QED
        BY <4>2 DEF st
    <3>. QED
      BY <3>3, <3>4
  <2>4. CASE k = i
    BY <1>2, <2>1, <2>4 DEF EndsAt, ReachedBy
  <2>5. CASE i < k
    <3>1. i \in 1..k - 1
      BY <2>2, <2>5
    <3>. QED
      BY <1>2, <2>1, <2>5, <3>1 DEF EndsAt, Passes, ReachedBy
  <2>. QED
    BY <2>2, <2>3, <2>4, <2>5
<1>. QED
  BY <1>1, <1>2

\* An if that redeclares nothing: q is what the branch the condition chose made
\* of the execution, in the environment before it.
Took(s, e0, st, do, r, p, o, q) ==
    /\ Steady(e0, o) /\ o.how = "on" /\ o.env = r.env
    /\ p.how = q.how /\ p.v = q.v
    /\ \/ Test(st.c, r.env).yes /\ q \in DoSeq(st.then, do, o)
       \/ Test(st.c, r.env).no /\ q \in DoSeq(st.els, do, o)

LEMMA PlainIf ==
    ASSUME Wild = {}, NEW s, NEW e0, NEW guards, NEW do, Reading(s, guards, do),
           \A t \in Statements : ToldBy(s, e0, guards, do, t),
           NEW st \in Statements, st.op = "if", st.init = {}, Quiet(<<st>>),
           NEW r, Steady(e0, r), r.how = "on", NEW p \in DoIf(s, st, do, r)
    PROVE  \E o, q : Took(s, e0, st, do, r, p, o, q)
<1>1. r \in Runs
  BY DEF Steady
<1>0. PICK env \in Redeclared(s, st, r) : \E q : BranchOf(st, do, r, p, env, q)
  <2>1. Branched(s, st, do, r, p)
    BY DoIfIs
  <2>. QED
    BY <2>1 DEF Branched
<1>2. PICK q : q \in Branches(st, do, [r EXCEPT !.env = env]) /\ p = Back(st, r, q)
  BY <1>0 DEF BranchOf
<1>. DEFINE o == [r EXCEPT !.env = env]
<1>3. Steady(e0, o)
  BY SteadyInside
<1>4. o \in Runs /\ o.env = env /\ o.how = "on"
  BY <1>1, RedeclaredIs, RunEnv DEF EnvOf
<1>5. q \in Branches(st, do, o)
  BY <1>2
<1>. HIDE DEF o
<1>6. env = r.env
  <2>1. env \in [Vars -> Value] /\ \A x \in Vars : env[x] = r.env[x]
    BY <1>1, RedeclaredIs
  <2>2. r.env \in [Vars -> Value]
    BY <1>1 DEF Runs
  <2>. QED
    BY <2>1, <2>2
<1>7. ASSUME NEW b, IsBlock(b, st), q \in DoSeq(b, do, o) PROVE Steady(e0, q)
  <2>1. b \in Seq(Statements) /\ Quiet(b)
    BY <1>7, QuietParts DEF IsBlock
  <2>2. {} \in SUBSET Vars /\ \A i \in DOMAIN b : ToldBy(s, e0, guards, do, b[i])
    BY <2>1
  <2>3. Told(s, e0, Inside(b), {}, GuardsIn(b, guards, {}), q)
    BY <1>3, <1>4, <1>7, <2>1, <2>2, BlockTells
  <2>. QED
    BY <2>3 DEF Told
<1>8. Steady(e0, q)
  BY <1>5, <1>7, StatementParts DEF Branches
<1>9. p.how = q.how /\ p.v = q.v
  BY <1>2, <1>8, SteadyBack
<1>10. \/ Test(st.c, r.env).yes /\ q \in DoSeq(st.then, do, o)
       \/ Test(st.c, r.env).no /\ q \in DoSeq(st.els, do, o)
  BY <1>4, <1>5, <1>6 DEF Branches
<1>. QED
  BY <1>3, <1>4, <1>6, <1>9, <1>10 DEF Took

\* A block that ends in a call that never returns does not go on behind it.
LEMMA NeverBlock ==
    ASSUME NEW s, NEW e0, NEW guards, NEW do, Reading(s, guards, do),
           \A t \in Statements : ToldBy(s, e0, guards, do, t),
           NEW b \in Seq(Statements), Quiet(b), BlockEndsInNeverReturn(b),
           NEW r, Steady(e0, r), r.how = "on", NEW q \in DoSeq(b, do, r)
    PROVE  q.how # "on" /\ (q.how = "return" => ContainsReturn(b))
<1>. DEFINE X == {o \in Runs : Steady(e0, o)}
<1>1. DoneBy(b, do) /\ \A i \in DOMAIN b : ToldBy(s, e0, guards, do, b[i])
  BY DEF DoneBy, Reading
<1>2. ASSUME NEW i \in DOMAIN b, NEW o \in X, NEW p \in do[b[i]][o] PROVE p \in X
  <2>1. o \in Runs /\ Steady(e0, o) /\ Does(s, b[i], do, o, do[b[i]][o])
    BY DEF Reading
  <2>2. CASE o.how # "on"
    BY <1>2, <2>1, <2>2 DEF Does
  <2>3. CASE o.how = "on"
    <3>1. {} \in SUBSET Vars /\ Quiet(<<b[i]>>)
      BY QuietParts
    <3>2. Told(s, e0, Inside(<<b[i]>>), {}, guards[b[i]][{}], p)
      BY <1>1, <1>2, <2>1, <2>3, <3>1 DEF ToldBy
    <3>. QED
      BY <3>2 DEF Told, Steady
  <2>. QED
    BY <2>2, <2>3
<1>3. r \in X /\ X \in SUBSET Runs /\ \A i \in DOMAIN b : \A o \in X : do[b[i]][o] \subseteq X
  BY <1>2 DEF Steady
<1>4. b # <<>> /\ Last(b).op = "never" /\ Last(b) \in Statements
  BY DEF BlockEndsInNeverReturn, Last
<1>5. \A o \in X : o \in Runs /\ Steady(e0, o)
  OBVIOUS
<1>. HIDE DEF X
<1>6. PICK o \in X : q \in do[Last(b)][o]
  BY <1>1, <1>3, <1>4, DoSeqKeeps
<1>7. Does(s, Last(b), do, o, do[Last(b)][o])
  BY <1>4, <1>5 DEF Reading
<1>8. q.how # "on"
  <2>1. CASE o.how # "on"
    BY <1>6, <1>7, <2>1 DEF Does
  <2>2. CASE o.how = "on"
    <3>1. do[Last(b)][o] = {Panicked(o)}
      BY <1>4, <1>7, <2>2 DEF Does
    <3>2. Panicked(o).how = "panic"
      BY <1>5, SteadyPanic
    <3>. QED
      BY <1>6, <3>1, <3>2
  <2>. QED
    BY <2>1, <2>2
<1>9. q.how = "return" => ContainsReturn(b)
  <2>1. {} \in SUBSET Vars /\ r \in Runs
    BY DEF Steady
  <2>2. Told(s, e0, Inside(b), {}, GuardsIn(b, guards, {}), q)
    BY <1>1, <2>1, BlockTells
  <2>. QED
    BY <2>2 DEF Told, Explained, ContainsReturn
<1>. QED
  BY <1>8, <1>9

LEMMA TestsOf ==
    ASSUME NEW c \in Conds, NEW x, NEW env
    PROVE  /\ c = [k |-> "eq", x |-> x] => (Test(c, env).yes <=> (env[x] = "nil")) /\ (Test(c, env).no <=> ~(env[x] = "nil"))
           /\ c = [k |-> "is", x |-> x] => (Test(c, env).yes <=> (env[x] = "true"))
           /\ CondAsserts(c, x) => (Test(c, env).no <=> (env[x] = "true"))
<1>1. PICK g \in [Conds -> Tests] : \A d \in Conds : Test(d, env) = g[d] /\ TestOf(d, g, env, g[d])
  BY TestIs
<1>2. ASSUME c = [k |-> "eq", x |-> x]
      PROVE  (Test(c, env).yes <=> (env[x] = "nil")) /\ (Test(c, env).no <=> ~(env[x] = "nil"))
  <2>1. c.k = "eq" /\ c.x = x
    BY <1>2
  <2>2. Test(c, env) = Exactly(env[x] = "nil")
    BY <1>1, <2>1, Zenon DEF TestOf
  <2>. QED
    BY <2>2, ExactlyIs
<1>3. ASSUME NEW d \in Conds, d = [k |-> "is", x |-> x] PROVE Test(d, env).yes <=> (env[x] = "true")
  <2>1. d.k = "is" /\ d.x = x
    BY <1>3
  <2>2. Test(d, env) = Exactly(env[x] = "true")
    BY <1>1, <2>1, Zenon DEF TestOf
  <2>. QED
    BY <2>2, ExactlyIs
<1>4. ASSUME CondAsserts(c, x) PROVE Test(c, env).no <=> (env[x] = "true")
  <2>1. c.k = "not" /\ c.c = [k |-> "is", x |-> x]
    BY <1>4 DEF CondAsserts
  <2>2. c.c \in Conds
    BY <2>1, CondParts
  <2>3. Test(c.c, env).yes <=> (env[x] = "true")
    BY <1>3, <2>1, <2>2
  <2>4. g[c] = [yes |-> g[c.c].no, no |-> g[c.c].yes]
    BY <1>1, <2>1, Zenon DEF TestOf
  <2>5. g[c.c].yes \in BOOLEAN /\ g[c.c].no \in BOOLEAN
    BY <1>1, <2>2 DEF Tests
  <2>6. g[c].no <=> g[c.c].yes
    BY <2>4, <2>5, YesNo
  <2>. QED
    BY <1>1, <2>2, <2>3, <2>6
<1>. QED
  BY <1>2, <1>3, <1>4

LEMMA Modelled ==
    ASSUME Wild = {}, NEW s \in Signatures, NEW e0
    PROVE  \E guards, do : /\ Reading(s, guards, do) /\ (\A t \in Statements : ToldBy(s, e0, guards, do, t))
                          /\ \A t \in Statements, o \in Runs : Do(s, t, o) = do[t][o]
<1>1. PICK guards \in [Statements -> GuardSets] :
         /\ \A b : GuardsOfNil(s, b) = GuardsIn(b, guards, {})
         /\ \A t \in Statements, active \in SUBSET Vars : GuardsAre(s, t, guards, active, guards[t][active])
  BY GuardsOfNilIs
<1>2. PICK do \in [Statements -> Outcomes] :
         \A t \in Statements, o \in Runs : Do(s, t, o) = do[t][o] /\ Does(s, t, do, o, do[t][o])
  BY DoIs
<1>3. Reading(s, guards, do)
  BY <1>1, <1>2 DEF Reading
<1>4. \A t \in Statements : ToldBy(s, e0, guards, do, t)
  BY <1>3, StatementTells
<1>. QED
  BY <1>2, <1>3, <1>4

\* The branch a plain if took, for an execution by Do.
LEMMA PlainIfTook ==
    ASSUME Wild = {}, NEW s \in Signatures, NEW e0, NEW st \in Statements, st.op = "if", st.init = {}, Orderly(s, st),
           NEW r, Steady(e0, r), r.how = "on", NEW p \in Do(s, st, r)
    PROVE  \E guards, do, o, q : /\ Reading(s, guards, do) /\ (\A t \in Statements : ToldBy(s, e0, guards, do, t))
                                /\ Took(s, e0, st, do, r, p, o, q)
<1>1. PICK guards, do : /\ Reading(s, guards, do) /\ (\A t \in Statements : ToldBy(s, e0, guards, do, t))
                        /\ \A t \in Statements, o \in Runs : Do(s, t, o) = do[t][o]
  BY Modelled
<1>2. r \in Runs /\ Quiet(<<st>>)
  BY DEF Steady, Orderly
<1>3. Does(s, st, do, r, do[st][r]) /\ p \in do[st][r]
  BY <1>1, <1>2 DEF Reading
<1>4. p \in DoIf(s, st, do, r)
  BY <1>3 DEF Does
<1>5. \E o, q : Took(s, e0, st, do, r, p, o, q)
  BY <1>1, <1>2, <1>4, PlainIf
<1>. QED
  BY <1>1, <1>5

LEMMA AssertingIf ==
    ASSUME Wild = {}, NEW s \in Signatures, s.kind = "helper", NEW e0, NEW st \in Statements, Orderly(s, st),
           Plain(st), NEW x \in Vars, CondAsserts(st.c, x), BlockEndsInNeverReturn(st.then),
           NEW r, Steady(e0, r), r.how = "on", NEW p \in Do(s, st, r), p.how \in {"on", "return"}
    PROVE  e0[x] = "true"
<1>1. st.op = "if" /\ st.init = {} /\ st.c \in Conds /\ IsBlock(st.then, st)
  BY StatementParts DEF Plain
<1>2. PICK guards, do, o, q : /\ Reading(s, guards, do) /\ (\A t \in Statements : ToldBy(s, e0, guards, do, t))
                              /\ Took(s, e0, st, do, r, p, o, q)
  BY <1>1, PlainIfTook
<1>3. CASE q \in DoSeq(st.then, do, o)
  <2>1. st.then \in Seq(Statements) /\ Quiet(st.then)
    BY <1>1, QuietParts DEF IsBlock, Orderly
  <2>2. q.how # "on" /\ (q.how = "return" => ContainsReturn(st.then))
    BY <1>2, <1>3, <2>1, NeverBlock DEF Took
  <2>3. ~ContainsReturn(st.then)
    BY <1>1 DEF Orderly
  <2>. QED
    BY <1>2, <2>2, <2>3 DEF Took
<1>4. CASE Test(st.c, r.env).no
  <2>1. r.env[x] = "true"
    BY <1>1, <1>4, TestsOf
  <2>. QED
    BY <2>1 DEF Steady
<1>. QED
  BY <1>2, <1>3, <1>4 DEF Took

LEMMA ReturningIf ==
    ASSUME Wild = {}, NEW s \in Signatures, NEW e0, NEW st \in Statements, Orderly(s, st),
           Plain(st), NEW x \in Vars, st.c = [k |-> "is", x |-> x],
           NEW r, Steady(e0, r), r.how = "on", NEW p \in Do(s, st, r), p.how = "return"
    PROVE  e0[x] = "true"
<1>1. st.op = "if" /\ st.init = {} /\ st.c \in Conds /\ IsBlock(st.els, st) /\ st.els = <<>>
  BY StatementParts DEF Plain
<1>2. PICK guards, do, o, q : /\ Reading(s, guards, do) /\ (\A t \in Statements : ToldBy(s, e0, guards, do, t))
                              /\ Took(s, e0, st, do, r, p, o, q)
  BY <1>1, PlainIfTook
<1>3. CASE Test(st.c, r.env).yes
  <2>1. r.env[x] = "true"
    BY <1>1, <1>3, TestsOf
  <2>. QED
    BY <2>1 DEF Steady
<1>4. CASE q \in DoSeq(st.els, do, o)
  <2>1. DoneBy(st.els, do) /\ o \in Runs
    BY <1>1, <1>2 DEF DoneBy, IsBlock, Reading, Took, Steady
  <2>2. DoSeq(st.els, do, o) = {o}
    BY <1>1, <2>1, DoSeqShort
  <2>. QED
    BY <1>2, <1>4, <2>2 DEF Took
<1>. QED
  BY <1>2, <1>3, <1>4 DEF Took

LEMMA AssertingCall ==
    ASSUME NEW s \in Signatures, NEW e0, NEW st \in Statements, st.op = "assert",
           NEW r, Steady(e0, r), r.how = "on", NEW p \in Do(s, st, r), p.how \in {"on", "return"}
    PROVE  e0[st.x] = "true"
<1>1. PICK do \in [Statements -> Outcomes] :
         \A t \in Statements, o \in Runs : Do(s, t, o) = do[t][o] /\ Does(s, t, do, o, do[t][o])
  BY DoIs
<1>2. r \in Runs /\ st.x \in Vars
  BY StatementParts DEF Steady
<1>3. p \in {IF r.env[st.x] = "true" THEN r ELSE Panicked(r)}
  BY <1>1, <1>2 DEF Does
<1>4. Panicked(r).how = "panic"
  BY SteadyPanic
<1>5. r.env[st.x] = "true"
  BY <1>3, <1>4
<1>. QED
  BY <1>2, <1>5 DEF Steady

LEMMA Asserted ==
    ASSUME Wild = {}, NEW s \in Signatures, s.kind = "helper", NEW e0, NEW b, NEW q, Account(s, e0, b, q),
           q.how \in {"on", "return"}, NEW x \in Vars, ParamIsAsserted(b, x)
    PROVE  e0[x] = "true"
<1>1. PICK i \in DOMAIN b : AssertForm(b, i, x) /\ \A j \in 1..i - 1 : b[j].op \notin {"return", "if", "loop"}
  BY DEF ParamIsAsserted
<1>2. b \in Seq(Statements) /\ DOMAIN b = 1..Len(b) /\ Len(b) \in Nat /\ b[i] \in Statements /\ Orderly(s, b[i])
  BY DEF Account
<1>0. \E r, p : ReachedBy(s, e0, b, q, i, r, p)
  BY <1>1, Reached
<1>3. PICK r, p : /\ Went(s, e0, b, i, r, p) /\ p.how \in {"on", "return"}
                  /\ \/ p.how = "return"
                     \/ q.how = "on"
                     \/ \E k \in DOMAIN b : i < k /\ q.how = "return" /\ EndsAt(s, e0, b, k, q)
  BY <1>0, Zenon DEF ReachedBy
<1>. DEFINE st == b[i]  tail == SubSeq(b, i + 1, Len(b))
<1>4. st \in Statements /\ Orderly(s, st) /\ Steady(e0, r) /\ r.how = "on" /\ p \in Do(s, st, r)
  BY <1>2, <1>3 DEF Went
<1>5. \/ Plain(st) /\ CondAsserts(st.c, x) /\ BlockEndsInNeverReturn(st.then)
      \/ /\ Plain(st) /\ st.c = [k |-> "is", x |-> x]
         /\ BlockEndsInNeverReturn(tail) /\ ~ContainsReturn(tail)
      \/ st.op = "assert" /\ st.x = x
  BY <1>1 DEF AssertForm
<1>6. /\ tail \in Seq(Statements) /\ Len(tail) = Len(b) - i /\ DOMAIN tail = 1..Len(b) - i
      /\ \A j \in DOMAIN tail : tail[j] = b[i + j]
  BY <1>2
<1>. HIDE DEF st, tail
<1>7. CASE Plain(st) /\ CondAsserts(st.c, x) /\ BlockEndsInNeverReturn(st.then)
  BY <1>3, <1>4, <1>7, AssertingIf
<1>8. CASE /\ Plain(st) /\ st.c = [k |-> "is", x |-> x]
           /\ BlockEndsInNeverReturn(tail) /\ ~ContainsReturn(tail)
  <2>1. CASE p.how = "return"
    BY <1>4, <1>8, <2>1, ReturningIf
  <2>2. CASE q.how = "on"
    <3>1. tail # <<>> /\ tail[Len(tail)].op = "never"
      BY <1>8 DEF BlockEndsInNeverReturn, Last
    <3>2. Len(tail) \in DOMAIN tail
      BY <1>6, <3>1
    <3>3. i + Len(tail) = Len(b) /\ b # <<>>
      BY <1>2, <1>6
    <3>4. b[Len(b)].op = "never"
      BY <1>6, <3>1, <3>2, <3>3
    <3>5. q.how # "on"
      BY <3>3, <3>4, LastNever
    <3>. QED
      BY <2>2, <3>5
  <2>3. ASSUME NEW k \in DOMAIN b, i < k, q.how = "return", EndsAt(s, e0, b, k, q) PROVE FALSE
    <3>1. k - i \in DOMAIN tail /\ tail[k - i] = b[k]
      BY <1>2, <1>6, <2>3
    <3>2. PICK t \in Inside(<<b[k]>>) : t.op = "return"
      BY <2>3, EndReturns
    <3>3. Inside(<<tail[k - i]>>) \subseteq Inside(tail)
      BY <1>6, <3>1, InsideParts
    <3>. QED
      BY <1>8, <3>1, <3>2, <3>3 DEF ContainsReturn
  <2>. QED
    BY <1>3, <2>1, <2>2, <2>3
<1>9. CASE st.op = "assert" /\ st.x = x
  BY <1>3, <1>4, <1>9, AssertingCall
<1>. QED
  BY <1>5, <1>7, <1>8, <1>9

\* A predicate's guard answers true where the parameter is nil.
LEMMA GuardAnswers ==
    ASSUME Wild = {}, NEW s \in Signatures, NEW e0, NEW st \in Statements, Orderly(s, st),
           st.op = "if", st.init = {}, NEW x \in Vars, st.c = [k |-> "eq", x |-> x],
           Len(st.then) = 1, st.then[1].op = "return", st.then[1].v = "true",
           NEW r, Steady(e0, r), r.how = "on", r.env[x] = "nil", NEW p \in Do(s, st, r)
    PROVE  p.how = "return" /\ p.v = "true"
<1>1. st.c \in Conds /\ IsBlock(st.then, st)
  BY StatementParts
<1>2. PICK guards, do, o, q : /\ Reading(s, guards, do) /\ (\A t \in Statements : ToldBy(s, e0, guards, do, t))
                              /\ Took(s, e0, st, do, r, p, o, q)
  BY PlainIfTook
<1>3. ~Test(st.c, r.env).no
  BY <1>1, TestsOf
<1>4. q \in DoSeq(st.then, do, o) /\ o.how = "on" /\ o \in Runs
  BY <1>2, <1>3 DEF Took, Steady
<1>. DEFINE t == st.then[1]
<1>5. t \in Statements /\ DoneBy(st.then, do)
  BY <1>1, <1>2 DEF DoneBy, IsBlock, Reading
<1>6. q \in do[t][o]
  BY <1>4, <1>5, DoSeqShort
<1>7. t.op = "return" /\ t.v = "true"
  OBVIOUS
<1>. HIDE DEF t
<1>8. Does(s, t, do, o, do[t][o])
  BY <1>2, <1>4, <1>5 DEF Reading
<1>9. q \in Returning(s, t, o)
  BY <1>4, <1>6, <1>7, <1>8 DEF Does
<1>10. PICK v \in Returned(s, t.v, o.env) : ReturnOf(o, v, YieldsNil(s, t), q)
  BY <1>4, <1>5, <1>7, <1>9, ReturningIs
<1>11. v = "true"
  <2>1. Returned(s, "true", o.env) = {"true"}
    BY CalleeAssumption DEF Returned, Bools, Value
  <2>. QED
    BY <1>7, <1>10, <2>1
<1>. QED
  BY <1>2, <1>10, <1>11 DEF ReturnOf, Took

\* One that asks another answers true where that does.
LEMMA DelegateAnswers ==
    ASSUME NEW s \in Signatures, NEW st \in Statements, st.op = "return", NEW x \in Vars, st.v = x,
           NEW r \in Runs, r.how = "on", r.env[x] = "nil", NEW p \in Do(s, st, r)
    PROVE  p.v = "true"
<1>1. PICK do \in [Statements -> Outcomes] :
         \A t \in Statements, o \in Runs : Do(s, t, o) = do[t][o] /\ Does(s, t, do, o, do[t][o])
  BY DoIs
<1>2. p \in Returning(s, st, r)
  BY <1>1 DEF Does
<1>3. PICK v \in Returned(s, st.v, r.env) : ReturnOf(r, v, YieldsNil(s, st), p)
  BY <1>2, ReturningIs
<1>4. Returned(s, x, r.env) = {"true"}
  BY CalleeAssumption DEF Returned, Bools, Value, Pointers
<1>. QED
  BY <1>3, <1>4 DEF ReturnOf

LEMMA Answered ==
    ASSUME Wild = {}, NEW s \in Signatures, NEW e0, NEW b, NEW q, Account(s, e0, b, q),
           q.how = "return", q.v = "false", NEW x \in Vars, GuardsNilParam(b, x) \/ DelegatesNilParam(b, x)
    PROVE  e0[x] # "nil"
<1>. SUFFICES ASSUME e0[x] = "nil" PROVE FALSE
  OBVIOUS
<1>1. b \in Seq(Statements) /\ DOMAIN b = 1..Len(b) /\ Len(b) \in Nat
  BY DEF Account
<1>2. PICK k \in DOMAIN b : EndsAt(s, e0, b, k, q)
  BY DEF Account
<1>. DEFINE st == b[1]
<1>3. 1 \in DOMAIN b /\ st \in Statements /\ Orderly(s, st)
  <2>1. 1 \in DOMAIN b
    BY <1>1, <1>2
  <2>. QED
    BY <1>1, <2>1 DEF Account
<1>4. PICK r, p : /\ Steady(e0, r) /\ r.how = "on" /\ r.env = e0 /\ p \in Do(s, st, r)
                  /\ (p = q /\ k = 1) \/ (p.how = "on" /\ k # 1)
  <2>1. CASE k = 1
    BY <1>2, <2>1 DEF EndsAt, Went
  <2>2. CASE k # 1
    <3>1. 1 \in 1..k - 1
      BY <1>1, <2>2
    <3>2. Passes(s, e0, b, 1)
      BY <1>2, <3>1 DEF EndsAt
    <3>. QED
      BY <2>2, <3>2 DEF Passes, Went
  <2>. QED
    BY <2>1, <2>2
<1>5. r \in Runs /\ r.env[x] = "nil"
  BY <1>4 DEF Steady
<1>6. CASE GuardsNilParam(b, x)
  <2>1. /\ st.op = "if" /\ st.init = {} /\ st.c = [k |-> "eq", x |-> x]
        /\ Len(st.then) = 1 /\ st.then[1].op = "return" /\ st.then[1].v = "true"
    BY <1>6 DEF GuardsNilParam
  <2>. HIDE DEF st
  <2>2. p.how = "return" /\ p.v = "true"
    BY <1>3, <1>4, <1>5, <2>1, GuardAnswers
  <2>. QED
    BY <1>4, <2>2
<1>7. CASE DelegatesNilParam(b, x)
  <2>1. st.op = "return" /\ st.v = x /\ k = 1
    BY <1>1, <1>7 DEF DelegatesNilParam
  <2>. HIDE DEF st
  <2>2. p.v = "true"
    BY <1>3, <1>4, <1>5, <2>1, DelegateAnswers
  <2>. QED
    BY <1>4, <2>1, <2>2
<1>. QED
  BY <1>6, <1>7

-----------------------------------------------------------------------------
(* The specification.                                                      *)

\* The arguments are the parameters' first values, and the execution is
\* accounted for.
Inv ==
    /\ sig \in Signatures
    /\ \A x \in Vars : run.env0[x] = Position(x) /\ run.env0[x] \in TypeOf(sig)
    /\ Account(sig, run.env0, body, run)

LEMMA InitInv == ASSUME Wild = {}, Init PROVE Inv
<1>. DEFINE env == Passed(form, args)
<1>1. sig \in Signatures /\ form = "plain" /\ args \in [1..Len(Params) -> TypeOf(sig)] /\ body = <<>>
  <2>1. form = "plain"
    BY DEF Init
  <2>2. Len(Params) + (IF form = "methodexpr" THEN 1 ELSE 0) = Len(Params)
    BY <2>1, CalleeAssumption
  <2>. QED
    BY <2>1, <2>2 DEF Init
<1>2. \A x \in Vars : Index(x) \in 1..Len(Params)
  <2>. SUFFICES ASSUME NEW x \in Vars PROVE Index(x) \in 1..Len(Params)
    OBVIOUS
  <2>1. \E i \in DOMAIN Params : Params[i] = x
    BY DEF Vars, ToSet
  <2>2. Index(x) \in DOMAIN Params
    BY <2>1 DEF Index
  <2>. QED
    BY <2>2, CalleeAssumption
<1>3. env = [x \in Vars |-> args[Index(x)]]
  BY <1>1 DEF Passed
<1>4. \A x \in Vars : env[x] = Position(x) /\ env[x] \in TypeOf(sig)
  BY <1>1, <1>2, <1>3 DEF Position
<1>5. env \in [Vars -> Value]
  <2>1. TypeOf(sig) \subseteq Value
    BY DEF TypeOf, Value
  <2>. QED
    BY <1>3, <1>4, <2>1
<1>6. run = [env |-> env, env0 |-> env, how |-> "on", v |-> "none", e |-> "nil", literal |-> FALSE, recover |-> FALSE]
  BY DEF Init
<1>. HIDE DEF env
<1>7. run \in Runs /\ run.env = env /\ run.env0 = env /\ run.how = "on" /\ ~run.recover
  BY <1>5, <1>6 DEF Runs, Pointers
<1>8. Steady(env, run)
  BY <1>7 DEF Steady
<1>9. Told(sig, env, Inside(body), {}, GuardsOfNil(sig, body), run)
  BY <1>7, <1>8 DEF Told, Explained
<1>10. Account(sig, env, body, run)
  BY <1>1, <1>7, <1>9 DEF Account
<1>. QED
  BY <1>1, <1>4, <1>7, <1>10 DEF Inv

LEMMA NextInv == ASSUME Wild = {}, Inv, [Next]_vars PROVE Inv'
<1>1. ASSUME NEW st \in Stmts[sig.kind], Extend(st) PROVE Inv'
  <2>1. sig \in Signatures /\ st \in Statements
    BY CalleeAssumption DEF Inv
  <2>2. Orderly(sig, st)
    BY <1>1 DEF Extend, Follows, Orderly, Quiet
  <2>3. run' \in Do(sig, st, run) /\ body' = Append(body, st) /\ UNCHANGED <<sig, form, args>>
    BY <1>1 DEF Extend
  <2>4. Account(sig, run.env0, body', run')
    BY <2>1, <2>2, <2>3, AccountStep DEF Inv
  <2>5. run'.env0 = run.env0
    BY <2>4 DEF Account, Told, Steady
  <2>. QED
    BY <2>3, <2>4, <2>5 DEF Inv, Position
<1>2. CASE UNCHANGED vars
  BY <1>2 DEF vars, Inv, Position
<1>. QED
  BY <1>1, <1>2 DEF Next

THEOREM InvHolds == ASSUME Wild = {} PROVE Spec => []Inv
  BY InitInv, NextInv, PTL DEF Spec

\* A call that returns a literal nil was announced by the fact about the body.
THEOREM NilResultsAreAnnounced == ASSUME Wild = {} PROVE Spec => []NilResultsAnnounced
<1>1. ASSUME Inv PROVE NilResultsAnnounced
  <2>. SUFFICES ASSUME run.how = "return", run.literal
                PROVE  \E x \in NilResults(sig, body) : x = Unconditional \/ Position(x) = "nil"
    BY DEF NilResultsAnnounced
  <2>1. PICK x \in NilResults(sig, body) : x = Unconditional \/ run.env0[x] = "nil"
    BY <1>1, NilAnnounced DEF Inv
  <2>2. x \in Vars \/ x = Unconditional
    BY DEF NilResults, Common
  <2>. QED
    BY <1>1, <2>1, <2>2 DEF Inv
<1>. QED
  BY <1>1, InvHolds, PTL

\* A result called proven is set wherever the function has returned.
THEOREM NonNilResultsAreSet == ASSUME Wild = {} PROVE Spec => []NonNilResultsHold
<1>1. ASSUME Inv PROVE NonNilResultsHold
  BY <1>1, NonNilHolds DEF Inv, NonNilResultsHold
<1>. QED
  BY <1>1, InvHolds, PTL

\* A helper that completes may, and the argument it asserts was true.
THEOREM CompletionIsProof == ASSUME Wild = {} PROVE Spec => []CompletionProves
<1>1. ASSUME Inv PROVE CompletionProves
  <2>. SUFFICES ASSUME sig.kind = "helper", run.how \in {"on", "return"}
                PROVE  ~NeverReturns(body) /\ \A x \in AssertHelper(body) : Position(x) = "true"
    BY DEF CompletionProves
  <2>1. ~NeverReturns(body)
    BY <1>1, NeverHolds DEF Inv
  <2>2. ASSUME NEW x \in AssertHelper(body) PROVE Position(x) = "true"
    <3>1. x \in Vars /\ ParamIsAsserted(body, x)
      BY DEF AssertHelper, First
    <3>2. run.env0[x] = "true"
      BY <1>1, <3>1, Asserted DEF Inv
    <3>. QED
      BY <1>1, <3>1, <3>2 DEF Inv
  <2>. QED
    BY <2>1, <2>2
<1>. QED
  BY <1>1, InvHolds, PTL

\* A predicate that has answered false was asked about an argument that is set.
THEOREM FalseIsProof == ASSUME Wild = {} PROVE Spec => []FalseMeansSet
<1>1. ASSUME Inv PROVE FalseMeansSet
  <2>. SUFFICES ASSUME sig.kind = "predicate", run.how = "return", run.v = "false", NEW x \in NilPredicate(body)
                PROVE  Position(x) = "set"
    BY DEF FalseMeansSet
  <2>1. x \in Vars /\ (GuardsNilParam(body, x) \/ DelegatesNilParam(body, x))
    BY DEF NilPredicate, First
  <2>2. run.env0[x] # "nil"
    BY <1>1, <2>1, Answered DEF Inv
  <2>3. run.env0[x] = Position(x) /\ run.env0[x] \in {"nil", "set"}
    BY <1>1, <2>1 DEF Inv, TypeOf, Pointers
  <2>. QED
    BY <2>2, <2>3
<1>. QED
  BY <1>1, InvHolds, PTL

=============================================================================
