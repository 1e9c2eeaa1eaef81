---------------------------- MODULE LinterProofs -----------------------------
(***************************************************************************)
(* What the two analyzers that look at one file at a time promise.         *)
(*                                                                         *)
(* droppederr: in a function that keeps the disciplines (Wild is empty),   *)
(* what it reports of the error branches is what becomes of the errors,    *)
(* however its blocks are nested and whatever its calls return.            *)
(*                                                                         *)
(* slogfmt: a fix clears its own finding, and keeps pairs together,        *)
(* whatever the layout, the number of arguments and the place of the inner *)
(* call.                                                                   *)
(***************************************************************************)
EXTENDS DroppedErr, SlogFmt, Recursion
-----------------------------------------------------------------------------
(* Statements, and what is inside them.                                    *)

Ranks == [st \in Statements |-> Depth[st]]

LEMMA RanksTyped ==
    Ranks \in [Statements -> Nat] /\ \A st \in Statements : Ranks[st] = Depth[st]
<1>1. \A st \in Statements : Depth[st] \in Nat
  BY DroppedErrAssumption DEF IsStatement
<1>. QED
  BY <1>1 DEF Ranks

\* A block of st; nothing stands behind a return in it.
IsBlock(b, st) ==
    /\ b \in Seq(Statements) /\ \A i \in DOMAIN b : b[i] \in Within(st) /\ Depth[b[i]] < Depth[st]
    /\ \A i \in DOMAIN b : b[i].op = "raise" => i = Len(b)

LEMMA StatementParts ==
    ASSUME NEW st \in Statements
    PROVE  /\ st.op \in {"assign", "log", "do", "raise", "if"}
           /\ st.op \in {"assign", "log", "raise"} => st.v \in Vars
           /\ st.op = "assign" => st.from \in Vars \cup {"db", "other"}
           /\ st.op = "raise" => st.as \in Raisers
           /\ st.op = "if" => /\ st.cond.k \in {"guard", "swapped", "pred", "any"} /\ st.cond.v \in Vars
                              /\ Len(st.init) <= 1 /\ \A t \in ToSet(st.init) : t.op = "assign"
                              /\ IsBlock(st.init, st) /\ IsBlock(st.body, st) /\ IsBlock(st.els, st)
                              /\ Within(st) = ToSet(st.init) \cup ToSet(st.body) \cup ToSet(st.els)
           /\ Within(st) \subseteq Statements
           /\ \A t \in Within(st) : Depth[t] < Depth[st]
           /\ st.op # "if" => Within(st) = {}
<1>1. IsStatement(st)
  BY DroppedErrAssumption
<1>2. ASSUME NEW part \in ToSet(Parts(st)) PROVE IsBlock(part, st)
  <2>1. part \in Seq(Statements) /\ ToSet(part) \subseteq Within(st)
    BY <1>1 DEF IsStatement, Within
  <2>2. \A i \in DOMAIN part : part[i] \in ToSet(part)
    BY DEF ToSet
  <2>. QED
    BY <1>1, <2>1, <2>2 DEF IsBlock, IsStatement
<1>3. ASSUME st.op = "if"
      PROVE  /\ st.init \in ToSet(Parts(st)) /\ st.body \in ToSet(Parts(st)) /\ st.els \in ToSet(Parts(st))
             /\ Within(st) = ToSet(st.init) \cup ToSet(st.body) \cup ToSet(st.els)
  <2>1. Parts(st) = <<st.init, st.body, st.els>>
    BY <1>3 DEF Parts
  <2>2. ToSet(Parts(st)) = {st.init, st.body, st.els}
    BY <2>1 DEF ToSet
  <2>. QED
    BY <2>2 DEF Within
<1>5. ASSUME st.op # "if" PROVE Within(st) = {}
  <2>1. Parts(st) = <<>>
    BY <1>5 DEF Parts
  <2>2. ToSet(Parts(st)) = {}
    BY <2>1 DEF ToSet
  <2>. QED
    BY <2>2 DEF Within
<1>6. Within(st) \subseteq Statements
  <2>. SUFFICES ASSUME NEW t \in Within(st) PROVE t \in Statements
    OBVIOUS
  <2>1. PICK part \in ToSet(Parts(st)) : t \in ToSet(part)
    BY DEF Within
  <2>2. part \in Seq(Statements)
    BY <1>1 DEF IsStatement
  <2>. QED
    BY <2>1, <2>2 DEF ToSet
<1>7. st.op = "if" => /\ st.cond.k \in {"guard", "swapped", "pred", "any"} /\ st.cond.v \in Vars
                      /\ Len(st.init) <= 1 /\ \A t \in ToSet(st.init) : t.op = "assign"
  BY <1>1 DEF IsStatement
<1>8. /\ st.op \in {"assign", "log", "do", "raise", "if"}
      /\ st.op \in {"assign", "log", "raise"} => st.v \in Vars
      /\ st.op = "assign" => st.from \in Vars \cup {"db", "other"}
      /\ st.op = "raise" => st.as \in Raisers
      /\ \A t \in Within(st) : Depth[t] < Depth[st]
  BY <1>1 DEF IsStatement
<1>. QED
  BY <1>2, <1>3, <1>5, <1>6, <1>7, <1>8

LEMMA InspectUnfolds ==
    \A st \in Statements : Inspects[st] = {st} \cup UNION {Inspects[t] : t \in Within(st)}
<1>. DEFINE Is(g) == g = [st \in Statements |-> InspectStep(st, g)]
            h == CHOOSE g : Is(g)
            K == SUBSET Statements
            step == [st \in Statements |-> [g \in [Statements -> K] |-> InspectStep(st, g)]]
<1>1. Inspects = h
  BY DEF Inspects
<1>2. step \in [Statements -> [[Statements -> K] -> K]]
      /\ \A st \in Statements, g \in [Statements -> K] : step[st][g] = InspectStep(st, g)
  <2>1. ASSUME NEW st \in Statements, NEW g \in [Statements -> K] PROVE InspectStep(st, g) \in K
    BY StatementParts DEF InspectStep
  <2>. QED
    BY <2>1
<1>. HIDE DEF step
<1>3. \A st \in Statements : \A g, k \in [Statements -> K] :
          (\A t \in Statements : Ranks[t] < Ranks[st] => g[t] = k[t]) => step[st][g] = step[st][k]
  <2>. SUFFICES ASSUME NEW st \in Statements, NEW g \in [Statements -> K], NEW k \in [Statements -> K],
                       \A t \in Statements : Ranks[t] < Ranks[st] => g[t] = k[t]
                PROVE  step[st][g] = step[st][k]
    OBVIOUS
  <2>1. \A t \in Within(st) : g[t] = k[t]
    BY RanksTyped, StatementParts
  <2>2. InspectStep(st, g) = InspectStep(st, k)
    BY <2>1 DEF InspectStep
  <2>. QED
    BY <1>2, <2>2
<1>4. K # {}
  OBVIOUS
<1>. HIDE DEF K
<1>5. LooksBelow(Statements, K, Ranks, step)
  BY <1>2, <1>3, RanksTyped DEF LooksBelow
<1>6. PICK g \in [Statements -> K] : g = [st \in Statements |-> step[st][g]]
  BY <1>4, <1>5, RankRecursion
<1>7. g = [st \in Statements |-> InspectStep(st, g)]
  BY <1>2, <1>6
<1>8. Is(g)
  BY <1>7
<1>9. Is(h)
  BY <1>8
<1>10. h = [st \in Statements |-> InspectStep(st, h)]
  <2>. HIDE DEF h
  <2>. QED
    BY <1>9
<1>11. \A st \in Statements : h[st] = InspectStep(st, h)
  BY <1>10
<1>. HIDE DEF h
<1>. QED
  BY <1>1, <1>11 DEF InspectStep

LEMMA InspectParts ==
    /\ \A st \in Statements : st \in Inspect(<<st>>) /\ (st.op # "if" => Inspect(<<st>>) = {st})
    /\ \A b \in Seq(Statements) : \A i \in DOMAIN b : b[i] \in Inspect(b) /\ Inspect(<<b[i]>>) \subseteq Inspect(b)
    /\ \A b \in Seq(Statements) : \A n \in Inspect(b) : \E i \in DOMAIN b : n \in Inspect(<<b[i]>>)
    /\ \A st \in Statements : \A b : IsBlock(b, st) => Inspect(b) \subseteq Inspect(<<st>>)
<1>1. ASSUME NEW st PROVE Inspect(<<st>>) = Inspects[st]
  <2>. DEFINE b == <<st>>
  <2>1. DOMAIN b = {1} /\ b[1] = st
    OBVIOUS
  <2>. HIDE DEF b
  <2>2. UNION {Inspects[b[i]] : i \in DOMAIN b} = Inspects[st]
    BY <2>1
  <2>. QED
    BY <2>2 DEF Inspect, b
<1>2. ASSUME NEW b \in Seq(Statements)
      PROVE  /\ \A i \in DOMAIN b : b[i] \in Inspect(b) /\ Inspect(<<b[i]>>) \subseteq Inspect(b)
             /\ \A n \in Inspect(b) : \E i \in DOMAIN b : n \in Inspect(<<b[i]>>)
  <2>1. \A i \in DOMAIN b : Inspect(<<b[i]>>) = Inspects[b[i]] /\ b[i] \in Inspects[b[i]]
    BY <1>1, InspectUnfolds
  <2>2. Inspect(b) = UNION {Inspects[b[i]] : i \in DOMAIN b}
    BY DEF Inspect
  <2>. QED
    BY <2>1, <2>2
<1>3. ASSUME NEW st \in Statements
      PROVE  st \in Inspect(<<st>>) /\ (st.op # "if" => Inspect(<<st>>) = {st})
  BY <1>1, InspectUnfolds, StatementParts
<1>4. ASSUME NEW st \in Statements, NEW b, IsBlock(b, st) PROVE Inspect(b) \subseteq Inspect(<<st>>)
  <2>1. \A i \in DOMAIN b : b[i] \in Within(st)
    BY <1>4 DEF IsBlock
  <2>2. \A i \in DOMAIN b : Inspects[b[i]] \subseteq Inspects[st]
    BY InspectUnfolds, <2>1
  <2>3. Inspect(b) = UNION {Inspects[b[i]] : i \in DOMAIN b}
    BY DEF Inspect
  <2>. QED
    BY <1>1, <2>2, <2>3
<1>. QED
  BY <1>2, <1>3, <1>4

LEMMA NestedInspected ==
    ASSUME NEW b \in Seq(Statements)
    PROVE  /\ Nested(b) \subseteq Inspect(b)
           /\ \A i \in DOMAIN b : b[i].op = "if" =>
                 Inspect(b[i].body) \subseteq Nested(b) /\ Inspect(b[i].els) \subseteq Nested(b)
<1>. DEFINE I == {i \in DOMAIN b : b[i].op = "if"}
            In(i) == Inspect(b[i].body) \cup Inspect(b[i].els)
<1>1. Nested(b) = UNION {In(i) : i \in I}
  BY DEF Nested
<1>2. ASSUME NEW i \in I PROVE In(i) \subseteq Inspect(b)
  <2>1. b[i] \in Statements
    OBVIOUS
  <2>2. IsBlock(b[i].body, b[i]) /\ IsBlock(b[i].els, b[i])
    BY <2>1, StatementParts
  <2>3. Inspect(b[i].body) \subseteq Inspect(<<b[i]>>) /\ Inspect(b[i].els) \subseteq Inspect(<<b[i]>>)
    BY <2>1, <2>2, InspectParts
  <2>. QED
    BY <2>3, InspectParts
<1>3. Nested(b) \subseteq Inspect(b)
  <2>. HIDE DEF In, I
  <2>. QED
    BY <1>1, <1>2
<1>4. ASSUME NEW i \in I PROVE In(i) \subseteq Nested(b)
  <2>. HIDE DEF In, I
  <2>. QED
    BY <1>1
<1>. QED
  BY <1>3, <1>4
-----------------------------------------------------------------------------
(* The invariant, of the blocks K, what the execution r has done and the   *)
(* file f.                                                                 *)

Outers == UNION {[X -> Errors] : X \in SUBSET Vars}
Frames == [list : Seq(Statements), at : Nat, before : Statements \cup {NoStmt, Unlisted},
           outer : Outers, entry : Nat]
Entries == [cause : Errors, reports : SUBSET {"DROPPED", "SQLCLASS"}]
Runs ==
    [env : [Vars -> Errors], calls : Nat, logged : SUBSET Errors, tested : SUBSET Errors,
     entered : Seq(Entries), left : Raisers \cup {"running"}]

\* The if statement the k-th block belongs to, and the error branches among the blocks.
IfOf(K, k)   == Before(K[k - 1])
Taken(K)     == {k \in DOMAIN K : K[k].entry # 0}
Branch(K, k) == [test |-> IfOf(K, k), entry |-> K[k].entry]
OpenBranches(K)  == {Branch(K, k) : k \in Taken(K)}
\* The variable, the error and the reports of a branch.
Var(b)        == b.test.cond.v
Cause(b, r)   == r.entered[b.entry].cause
Reports(b, r) == r.entered[b.entry].reports

\* Each block is one of the if statement last passed in the block around it; what it
\* inspects, and what it hides, is so in all the blocks around it.
AssignedIn(list) == {v \in Vars : \E n \in Inspect(list) : AssignsTo(n, v)}
Framed(K) ==
    /\ K \in Seq(Frames) /\ K # <<>> /\ K[1].entry = 0
    /\ \A k \in DOMAIN K : K[k].at \in 1..(Len(K[k].list) + 1)
Belongs(K, k) ==
    /\ K[k - 1].at > 1 /\ IfOf(K, k).op = "if"
    /\ K[k].list \in {IfOf(K, k).body, IfOf(K, k).els}
    /\ K[k].entry # 0 => K[k].list = IfOf(K, k).body
Encloses(K, j, k) ==
    /\ Inspect(K[k].list) \subseteq Nested(K[j].list)
    /\ DOMAIN K[k].outer \subseteq AssignedIn(K[j].list)
Shape(K) ==
    /\ Framed(K)
    /\ \A k \in 2..Len(K) : Belongs(K, k)
    /\ \A j, k \in DOMAIN K : j < k => Encloses(K, j, k)

\* What was passed in a block.
PassedIn(K, r, k, st) ==
    /\ st.op = "assign" => st.from \notin Vars
    /\ st.op = "raise" => r.left # "running"
    /\ st.op = "log" /\ k \in Taken(K) /\ st.v = Var(Branch(K, k)) => Cause(Branch(K, k), r) \in r.logged
    /\ st.op = "if" /\ k \in Taken(K) /\ st.cond = [k |-> "pred", v |-> Var(Branch(K, k))]
          => Cause(Branch(K, k), r) \in r.tested
Passing(K, r) == \A k \in DOMAIN K : \A j \in 1..(K[k].at - 1) : PassedIn(K, r, k, K[k].list[j])

\* The values variables have, or will get back.
Held(K, r) ==
    {<<v, r.env[v]>> : v \in Vars}
    \cup UNION {{<<v, K[k].outer[v]>> : v \in DOMAIN K[k].outer} : k \in DOMAIN K}

\* The branches B that are open, and the values H that are held.
Open(B, r) ==
    \A b \in B : /\ b.test \in Statements /\ b.test.op = "if"
                 /\ TestsError(b.test.cond) /\ BranchFollows(b.test)
                 /\ b.entry \in DOMAIN r.entered
                 /\ r.env[Var(b)] = Cause(b, r) /\ Cause(b, r) # NoErr
Unshared(H, r) ==
    /\ H \subseteq Vars \X Errors
    /\ \A v \in Vars : <<v, r.env[v]>> \in H
    /\ \A p \in H : p[2] # NoErr => p[2][1] <= r.calls
    /\ \A p, q \in H : p[2] = q[2] => p[2] = NoErr \/ p[1] = q[1]
IsDb(e) == e # NoErr /\ e[2] = "db"
Unclassified(body) == HasSQLClassDetail(body) /\ ~CallsSQLClassifier(body)
ReportsSay(f, B, r) ==
    \A b \in B : /\ f # "excluded" => ("DROPPED" \in Reports(b, r) <=> ~IdentUsed(b.test, Var(b)))
                 /\ f = "plain" /\ IsDb(Cause(b, r)) /\ Unclassified(b.test.body) => "SQLCLASS" \in Reports(b, r)
Dropping(B, r) ==
    \A i \in DOMAIN r.entered : "DROPPED" \in r.entered[i].reports =>
        r.entered[i].cause \notin r.logged /\ \E b \in B : b.entry = i /\ ~IdentUsed(b.test, Var(b))
Core(f, B, H, r) ==
    /\ f \in {"plain", "excluded", "utility"} /\ r \in Runs
    /\ Open(B, r) /\ Unshared(H, r) /\ ReportsSay(f, B, r) /\ Dropping(B, r)

\* An error of the database that is in no log and in no branch taken for it is the one
\* of the variable just assigned.
Handled(B, r, e) == e \in r.logged \/ \E b \in B : Cause(b, r) = e
JustSet(st) == IF FromDatabase(st) THEN {st.v} ELSE {}
Pending(B, H, r, X) ==
    \A p \in H : IsDb(p[2]) /\ ~Handled(B, r, p[2]) => p[1] \in X /\ r.env[p[1]] = p[2]
\* The return that ended the execution.
Returned(K, r) ==
    r.left # "running" =>
        /\ Last(K).at > 1 /\ Before(Last(K)).op = "raise" /\ Before(Last(K)).as = r.left
        /\ Before(Last(K)).as \in Carriers => r.env[Before(Last(K)).v] \in r.logged

Running(K, r) ==
    /\ r.left = "running" => Pending(OpenBranches(K), Held(K, r), r, JustSet(Before(Last(K))))
    /\ Returned(K, r)
Sound(f, K, r) == Shape(K) /\ Passing(K, r) /\ Core(f, OpenBranches(K), Held(K, r), r) /\ Running(K, r)
IInv == Sound(file, stack, run)
-----------------------------------------------------------------------------
(* What the steps of the execution do to the open branches.                *)

\* s is r once a call, to the database or not, has given x its error.
CallGives(r, s, x, db) ==
    /\ s \in Runs /\ s.calls = r.calls + 1
    /\ s.logged = r.logged /\ s.tested = r.tested /\ s.entered = r.entered /\ s.left = r.left
    /\ \E e \in {NoErr, <<r.calls + 1, IF db THEN "db" ELSE "other">>} : s.env = [r.env EXCEPT ![x] = e]

LEMMA AssignedCalls ==
    ASSUME NEW r \in Runs, NEW st \in Statements, st.op = "assign", st.from \notin Vars, NEW s \in Assigned(st, r)
    PROVE  CallGives(r, s, st.v, st.from = "db")
<1>. DEFINE E == {NoErr, <<r.calls + 1, IF st.from = "db" THEN "db" ELSE "other">>}
<1>1. PICK e \in E : s = [r EXCEPT !.env[st.v] = e, !.calls = r.calls + 1]
  BY DEF Assigned
<1>2. st.v \in Vars
  BY StatementParts
<1>3. e \in Errors
  BY DEF Runs, Errors
<1>. HIDE DEF E
<1>4. /\ s.env = [r.env EXCEPT ![st.v] = e] /\ s.calls = r.calls + 1
      /\ s.logged = r.logged /\ s.tested = r.tested /\ s.entered = r.entered /\ s.left = r.left /\ s \in Runs
  <2>1. PICK env : env = [r.env EXCEPT ![st.v] = e]
    OBVIOUS
  <2>2. env \in [Vars -> Errors]
    BY <2>1, <1>2, <1>3 DEF Runs
  <2>3. s = [r EXCEPT !.env = env, !.calls = r.calls + 1]
    BY <1>1, <2>1
  <2>4. /\ s.env = env /\ s.calls = r.calls + 1
        /\ s.logged = r.logged /\ s.tested = r.tested /\ s.entered = r.entered /\ s.left = r.left
    BY <2>3 DEF Runs
  <2>5. r.calls + 1 \in Nat
    BY DEF Runs
  <2>6. s \in Runs
    BY <2>2, <2>3, <2>5 DEF Runs
  <2>. QED
    BY <2>1, <2>4, <2>6
<1>. QED
  BY <1>4, <1>1 DEF CallGives, E

LEMMA BranchVars ==
    ASSUME NEW B, NEW r \in Runs, Open(B, r), NEW b \in B
    PROVE  Var(b) \in Vars /\ r.entered[b.entry] \in Entries /\ Cause(b, r) \in Errors /\ b.test.body \in Seq(Statements)
<1>1. b.test \in Statements /\ b.test.op = "if" /\ b.entry \in DOMAIN r.entered
  BY DEF Open
<1>2. b.test.cond.v \in Vars /\ IsBlock(b.test.body, b.test)
  BY <1>1, StatementParts
<1>3. r.entered \in Seq(Entries)
  BY DEF Runs
<1>4. r.entered[b.entry] \in Entries
  BY <1>1, <1>3
<1>. QED
  BY <1>2, <1>4 DEF Var, Cause, Entries, IsBlock

LEMMA CallKeeps ==
    ASSUME NEW f, NEW B, NEW H, NEW r, NEW s, NEW x \in Vars, NEW db \in BOOLEAN,
           Core(f, B, H, r), CallGives(r, s, x, db), \A b \in B : Var(b) # x
    PROVE  Core(f, B, H \cup {<<x, s.env[x]>>}, s)
<1>0. r \in Runs /\ s \in Runs
  BY DEF Core, CallGives
<1>1. PICK e \in {NoErr, <<r.calls + 1, IF db THEN "db" ELSE "other">>} : s.env = [r.env EXCEPT ![x] = e]
  BY DEF CallGives
<1>2. s.env[x] = e /\ (\A v \in Vars \ {x} : s.env[v] = r.env[v]) /\ r.calls \in Nat
  BY <1>0, <1>1 DEF Runs
<1>3. s.logged = r.logged /\ s.entered = r.entered /\ s.calls = r.calls + 1
  BY DEF CallGives
<1>4. Open(B, s)
  <2>. SUFFICES ASSUME NEW b \in B PROVE s.env[Var(b)] = r.env[Var(b)] /\ Cause(b, s) = Cause(b, r)
    BY <1>3 DEF Core, Open
  <2>. QED
    BY <1>0, <1>2, <1>3, BranchVars DEF Core, Cause
<1>5. Unshared(H \cup {<<x, s.env[x]>>}, s)
  <2>1. Unshared(H, r)
    BY DEF Core
  <2>2. H \cup {<<x, s.env[x]>>} \subseteq Vars \X Errors
    BY <2>1, <1>0 DEF Unshared, Runs
  <2>3. \A v \in Vars : <<v, s.env[v]>> \in H \cup {<<x, s.env[x]>>}
    BY <2>1, <1>2 DEF Unshared
  <2>4. \A p \in H : p[2] # NoErr => p[2][1] <= r.calls
    BY <2>1 DEF Unshared
  <2>5. e # NoErr => e = <<r.calls + 1, IF db THEN "db" ELSE "other">> /\ e[1] = r.calls + 1
    OBVIOUS
  <2>6. \A p \in H : p[2] # NoErr => p[2] \in Nat \X {"db", "other"} /\ p[2][1] \in Nat
    BY <2>1 DEF Unshared, Errors
  <2>7. \A p \in H : p[2] # NoErr => p[2] # e /\ p[2][1] <= s.calls
    BY <2>4, <2>5, <2>6, <1>2, <1>3
  <2>8. e # NoErr => e[1] <= s.calls
    BY <2>5, <1>2, <1>3
  <2>9. \A p, q \in H : p[2] = q[2] => p[2] = NoErr \/ p[1] = q[1]
    BY <2>1 DEF Unshared
  <2>. QED
    BY <2>2, <2>3, <2>7, <2>8, <2>9, <1>2 DEF Unshared
<1>6. ReportsSay(f, B, s) /\ Dropping(B, s)
  BY <1>3 DEF Core, ReportsSay, Dropping, Cause, Reports
<1>. QED
  BY <1>0, <1>4, <1>5, <1>6 DEF Core

\* Of the errors of the database, only the one just returned may be in no branch.
LEMMA CallLeavesPending ==
    ASSUME NEW f, NEW B, NEW H, NEW r, NEW s, NEW x \in Vars, NEW db \in BOOLEAN,
           Core(f, B, H, r), CallGives(r, s, x, db), Pending(B, H, r, {})
    PROVE  Pending(B, H \cup {<<x, s.env[x]>>}, s, IF db THEN {x} ELSE {})
<1>0. r \in Runs /\ s.logged = r.logged /\ s.entered = r.entered
  BY DEF Core, CallGives
<1>1. PICK e \in {NoErr, <<r.calls + 1, IF db THEN "db" ELSE "other">>} : s.env = [r.env EXCEPT ![x] = e]
  BY DEF CallGives
<1>2. s.env[x] = e /\ r.calls \in Nat
  BY <1>0, <1>1 DEF Runs
<1>3. IsDb(e) => db
  BY DEF IsDb
<1>4. \A p \in H : IsDb(p[2]) => Handled(B, s, p[2])
  BY <1>0 DEF Pending, Handled, Cause
<1>. QED
  BY <1>2, <1>3, <1>4 DEF Pending

\* s is r once the errors N were seen, by a log, by a predicate or by the caller.
Sees(r, s, N) ==
    /\ s \in Runs /\ s.env = r.env /\ s.calls = r.calls /\ s.entered = r.entered
    /\ s.logged = r.logged \cup N /\ r.tested \subseteq s.tested

LEMMA SeesKeeps ==
    ASSUME NEW f, NEW B, NEW H, NEW r, NEW s, NEW V \in SUBSET Vars,
           Core(f, B, H, r), Sees(r, s, {r.env[v] : v \in V}),
           \A b \in B : ~IdentUsed(b.test, Var(b)) => Var(b) \notin V
    PROVE  Core(f, B, H, s) /\ \A X : Pending(B, H, r, X) => Pending(B, H, s, X)
<1>0. r \in Runs /\ s \in Runs
  BY DEF Core, Sees
<1>1. s.env = r.env /\ s.calls = r.calls /\ s.entered = r.entered /\ s.logged = r.logged \cup {r.env[v] : v \in V}
  BY DEF Sees
<1>2. Open(B, s) /\ Unshared(H, s) /\ ReportsSay(f, B, s)
  BY <1>1 DEF Core, Open, Unshared, ReportsSay, Cause, Reports
<1>3. Dropping(B, s)
  <2>. SUFFICES ASSUME NEW i \in DOMAIN r.entered, "DROPPED" \in r.entered[i].reports
                PROVE  r.entered[i].cause \notin s.logged /\ \E b \in B : b.entry = i /\ ~IdentUsed(b.test, Var(b))
    BY <1>1 DEF Dropping
  <2>1. r.entered[i].cause \notin r.logged
    BY DEF Core, Dropping
  <2>2. PICK b \in B : b.entry = i /\ ~IdentUsed(b.test, Var(b))
    BY DEF Core, Dropping
  <2>3. r.env[Var(b)] = r.entered[i].cause /\ r.entered[i].cause # NoErr /\ Var(b) \in Vars
    BY <2>2, <1>0, BranchVars DEF Core, Open, Cause
  <2>4. \A v \in V : r.env[v] # r.entered[i].cause
    <3>. SUFFICES ASSUME NEW v \in V, r.env[v] = r.entered[i].cause PROVE FALSE
      OBVIOUS
    <3>1. <<v, r.env[v]>> \in H /\ <<Var(b), r.env[Var(b)]>> \in H
      BY <2>3 DEF Core, Unshared
    <3>2. \A p, q \in H : p[2] = q[2] => p[2] = NoErr \/ p[1] = q[1]
      BY DEF Core, Unshared
    <3>3. v = Var(b)
      BY <3>1, <3>2, <2>3
    <3>. QED
      BY <3>3, <2>2
  <2>. QED
    BY <2>1, <2>2, <2>4, <1>1
<1>4. ASSUME NEW X, Pending(B, H, r, X) PROVE Pending(B, H, s, X)
  BY <1>1, <1>4 DEF Pending, Handled, Cause
<1>. QED
  BY <1>0, <1>2, <1>3, <1>4 DEF Core

LEMMA FewerHeld ==
    ASSUME NEW f, NEW B, NEW H, NEW G \in SUBSET H, NEW r, Core(f, B, H, r), \A v \in Vars : <<v, r.env[v]>> \in G
    PROVE  Core(f, B, G, r) /\ \A X : Pending(B, H, r, X) => Pending(B, G, r, X)
BY DEF Core, Unshared, Pending

\* s is r once the error branch of st, reported as reports, is taken for e.
Enters(r, s, e, reports) ==
    /\ s \in Runs /\ s.env = r.env /\ s.calls = r.calls /\ s.logged = r.logged /\ s.tested = r.tested
    /\ s.left = r.left /\ s.entered = Append(r.entered, [cause |-> e, reports |-> reports])

Taking(r, st) == [test |-> st, entry |-> Len(r.entered) + 1]

\* A branch may be taken for e and is reported as it should be.
Enterable(f, B, H, r, st, e, reports) ==
    /\ Core(f, B, H, r) /\ st \in Statements /\ st.op = "if" /\ TestsError(st.cond) /\ BranchFollows(st)
    /\ e \in Errors /\ e = r.env[st.cond.v] /\ e # NoErr /\ e \notin r.logged
    /\ reports \in SUBSET {"DROPPED", "SQLCLASS"}
    /\ f # "excluded" => ("DROPPED" \in reports <=> ~IdentUsed(st, st.cond.v))
    /\ f = "excluded" => "DROPPED" \notin reports
    /\ f = "plain" /\ IsDb(e) /\ Unclassified(st.body) => "SQLCLASS" \in reports

LEMMA EnterKeeps ==
    ASSUME NEW f, NEW B, NEW H, NEW r, NEW s, NEW st, NEW e, NEW reports,
           Enterable(f, B, H, r, st, e, reports), Enters(r, s, e, reports)
    PROVE  /\ Core(f, B \cup {Taking(r, st)}, H, s)
           /\ \A b \in B : Cause(b, s) = Cause(b, r) /\ b.entry <= Len(r.entered)
           /\ Cause(Taking(r, st), s) = e
<1>. USE DEF Enterable
<1>. DEFINE b0 == Taking(r, st)
            entry == [cause |-> e, reports |-> reports]
<1>0. r \in Runs /\ s \in Runs /\ r.entered \in Seq(Entries) /\ entry \in Entries
  BY DEF Core, Enters, Runs, Entries
<1>1. /\ s.entered = Append(r.entered, entry)
      /\ s.env = r.env /\ s.calls = r.calls /\ s.logged = r.logged
  BY DEF Enters
<1>. HIDE DEF entry
<1>2. /\ DOMAIN s.entered = DOMAIN r.entered \cup {Len(r.entered) + 1}
      /\ \A i \in DOMAIN r.entered : s.entered[i] = r.entered[i] /\ i <= Len(r.entered)
      /\ s.entered[Len(r.entered) + 1] = entry
  BY <1>0, <1>1
<1>3. \A b \in B : b.entry \in DOMAIN r.entered
  BY DEF Core, Open
<1>4. \A b \in B : Cause(b, s) = Cause(b, r) /\ Reports(b, s) = Reports(b, r) /\ b.entry <= Len(r.entered)
  BY <1>2, <1>3 DEF Cause, Reports
<1>5. Cause(b0, s) = e /\ Reports(b0, s) = reports /\ b0.test = st /\ b0.entry = Len(r.entered) + 1
      /\ Var(b0) = st.cond.v
  BY <1>2 DEF Cause, Reports, Taking, Var, entry
<1>. HIDE DEF b0
<1>6. Open(B \cup {b0}, s)
  <2>1. \A b \in B : /\ b.test \in Statements /\ b.test.op = "if"
                     /\ TestsError(b.test.cond) /\ BranchFollows(b.test)
                     /\ b.entry \in DOMAIN s.entered
                     /\ s.env[Var(b)] = Cause(b, s) /\ Cause(b, s) # NoErr
    BY <1>1, <1>2, <1>4 DEF Core, Open
  <2>2. /\ b0.test \in Statements /\ b0.test.op = "if"
        /\ TestsError(b0.test.cond) /\ BranchFollows(b0.test)
        /\ b0.entry \in DOMAIN s.entered
        /\ s.env[Var(b0)] = Cause(b0, s) /\ Cause(b0, s) # NoErr
    BY <1>1, <1>2, <1>5
  <2>. QED
    BY <2>1, <2>2 DEF Open
<1>7. Unshared(H, s)
  BY <1>1 DEF Core, Unshared
<1>8. ReportsSay(f, B \cup {b0}, s)
  BY <1>4, <1>5 DEF Core, ReportsSay
<1>9. Dropping(B \cup {b0}, s)
  <2>1. ASSUME NEW i \in DOMAIN r.entered, "DROPPED" \in s.entered[i].reports
        PROVE  s.entered[i].cause \notin s.logged /\ \E b \in B : b.entry = i /\ ~IdentUsed(b.test, Var(b))
    BY <2>1, <1>1, <1>2 DEF Core, Dropping
  <2>2. f \in {"plain", "excluded", "utility"}
    BY DEF Core
  <2>3. "DROPPED" \in entry.reports =>
           entry.cause \notin s.logged /\ b0.entry = Len(r.entered) + 1 /\ ~IdentUsed(b0.test, Var(b0))
    BY <1>1, <1>5, <2>2 DEF entry
  <2>. QED
    BY <2>1, <2>3, <1>2 DEF Dropping
<1>. QED
  BY <1>0, <1>4, <1>5, <1>6, <1>7, <1>8, <1>9 DEF Core, b0

\* s is r once the variables that a block declared are gone.
LEMMA LeaveKeeps ==
    ASSUME NEW f, NEW B, NEW C \in SUBSET B, NEW H, NEW G \in SUBSET H, NEW r, NEW s,
           Core(f, B, H, r), s \in Runs, s = [r EXCEPT !.env = s.env],
           \A v \in Vars : <<v, s.env[v]>> \in G,
           \A b \in C : s.env[Var(b)] = r.env[Var(b)],
           \A b \in B \ C : IdentUsed(b.test, Var(b)) /\ Cause(b, r) \in r.logged
    PROVE  Core(f, C, G, s) /\ (Pending(B, H, r, {}) => Pending(C, G, s, {}))
<1>0. r \in Runs /\ s.entered = r.entered /\ s.logged = r.logged /\ s.calls = r.calls
  <2>1. r \in Runs
    BY DEF Core
  <2>2. PICK env : env = s.env
    OBVIOUS
  <2>3. s = [r EXCEPT !.env = env]
    BY <2>2
  <2>. QED
    BY <2>1, <2>3 DEF Runs
<1>1. Open(C, s) /\ Unshared(G, s) /\ ReportsSay(f, C, s)
  <2>1. Open(C, s)
    BY <1>0 DEF Core, Open, Cause
  <2>2. Unshared(G, s)
    BY <1>0 DEF Core, Unshared
  <2>3. ReportsSay(f, C, s)
    BY <1>0 DEF Core, ReportsSay, Reports, Cause
  <2>. QED
    BY <2>1, <2>2, <2>3
<1>2. Dropping(C, s)
  BY <1>0 DEF Core, Dropping
<1>3. Pending(B, H, r, {}) => Pending(C, G, s, {})
  BY <1>0 DEF Pending, Handled, Cause
<1>. QED
  BY <1>1, <1>2, <1>3 DEF Core
-----------------------------------------------------------------------------
(* What they do to the blocks.                                             *)

LEMMA ShapeFacts ==
    ASSUME NEW K, Shape(K)
    PROVE  /\ K \in Seq(Frames) /\ Len(K) \in Nat \ {0} /\ DOMAIN K = 1..Len(K) /\ Last(K) = K[Len(K)]
           /\ Taken(K) \subseteq 2..Len(K) /\ K[1].entry = 0
           /\ \A k \in DOMAIN K : /\ K[k] \in Frames /\ K[k].list \in Seq(Statements) /\ K[k].at \in Nat /\ K[k].entry \in Nat
                                  /\ K[k].at \in 1..(Len(K[k].list) + 1)
                                  /\ DOMAIN K[k].list = 1..Len(K[k].list) /\ Len(K[k].list) \in Nat
           /\ \A k \in 2..Len(K) : k - 1 \in DOMAIN K /\ IfOf(K, k) \in Statements /\ Before(K[k - 1]) = IfOf(K, k)
<1>1. K \in Seq(Frames) /\ K # <<>> /\ K[1].entry = 0 /\ \A k \in DOMAIN K : K[k].at \in 1..(Len(K[k].list) + 1)
  BY DEF Shape, Framed
<1>2. Len(K) \in Nat \ {0} /\ DOMAIN K = 1..Len(K)
  BY <1>1
<1>3. Taken(K) \subseteq 2..Len(K)
  BY <1>1, <1>2 DEF Taken
<1>4. ASSUME NEW k \in DOMAIN K
      PROVE  /\ K[k] \in Frames /\ K[k].list \in Seq(Statements) /\ K[k].at \in Nat /\ K[k].entry \in Nat
             /\ DOMAIN K[k].list = 1..Len(K[k].list) /\ Len(K[k].list) \in Nat
  <2>1. K[k] \in Frames
    BY <1>1
  <2>2. K[k].list \in Seq(Statements) /\ K[k].at \in Nat /\ K[k].entry \in Nat
    BY <2>1 DEF Frames
  <2>. QED
    BY <2>1, <2>2
<1>5. ASSUME NEW k \in 2..Len(K)
      PROVE  k - 1 \in DOMAIN K /\ IfOf(K, k) \in Statements /\ Before(K[k - 1]) = IfOf(K, k)
  <2>1. k - 1 \in DOMAIN K /\ K[k - 1].at > 1
    BY <1>2 DEF Shape, Belongs
  <2>2. K[k - 1].at \in Nat /\ K[k - 1].list \in Seq(Statements) /\ K[k - 1].at - 1 \in DOMAIN K[k - 1].list
    BY <2>1, <1>1, <1>4
  <2>. QED
    BY <2>1, <2>2 DEF IfOf, Before
<1>. QED
  BY <1>1, <1>2, <1>3, <1>4, <1>5 DEF Last

\* The blocks L are the blocks K but for how far the innermost is.
Alike(K, L) ==
    /\ DOMAIN L = DOMAIN K
    /\ \A k \in DOMAIN K : L[k].list = K[k].list /\ L[k].outer = K[k].outer /\ L[k].entry = K[k].entry
    /\ \A k \in 2..Len(K) : L[k - 1] = K[k - 1]

LEMMA AlikeBranches ==
    ASSUME NEW K, NEW L, Shape(K), Alike(K, L)
    PROVE  /\ Taken(L) = Taken(K) /\ OpenBranches(L) = OpenBranches(K)
           /\ \A k \in 2..Len(K) : IfOf(L, k) = IfOf(K, k)
           /\ \A k \in Taken(K) : Branch(L, k) = Branch(K, k)
           /\ \A r : Held(L, r) = Held(K, r)
<1>1. DOMAIN L = DOMAIN K /\ \A k \in DOMAIN K : L[k].outer = K[k].outer /\ L[k].entry = K[k].entry
  BY DEF Alike
<1>2. Taken(L) = Taken(K)
  BY <1>1 DEF Taken
<1>3. \A k \in 2..Len(K) : IfOf(L, k) = IfOf(K, k)
  BY DEF Alike, IfOf
<1>4. \A k \in Taken(K) : Branch(L, k) = Branch(K, k)
  BY <1>1, <1>3, ShapeFacts DEF Branch, Taken
<1>5. OpenBranches(L) = OpenBranches(K)
  BY <1>2, <1>4 DEF OpenBranches
<1>6. ASSUME NEW r PROVE Held(L, r) = Held(K, r)
  <2>1. \A k \in DOMAIN K : {<<v, L[k].outer[v]>> : v \in DOMAIN L[k].outer} = {<<v, K[k].outer[v]>> : v \in DOMAIN K[k].outer}
    BY <1>1
  <2>. DEFINE HL(k) == {<<v, L[k].outer[v]>> : v \in DOMAIN L[k].outer}
              HK(k) == {<<v, K[k].outer[v]>> : v \in DOMAIN K[k].outer}
  <2>2. \A k \in DOMAIN K : HL(k) = HK(k)
    BY <2>1
  <2>. HIDE DEF HL, HK
  <2>3. UNION {HL(k) : k \in DOMAIN L} = UNION {HK(k) : k \in DOMAIN K}
    BY <2>2, <1>1
  <2>. QED
    BY <2>3 DEF Held, HL, HK
<1>. QED
  BY <1>2, <1>3, <1>4, <1>5, <1>6

\* A statement of the innermost block is one of every branch it is in.
LEMMA InBranches ==
    ASSUME NEW K, Shape(K), NEW b \in OpenBranches(K)
    PROVE  /\ Inspect(Last(K).list) \subseteq Inspect(b.test.body)
           /\ b.entry # 0 /\ b.test \in Statements /\ b.test.op = "if"
           /\ \A j \in 1..(Len(K) - 1) : K[j].list \in Seq(Statements)
<1>1. PICK k \in Taken(K) : b = Branch(K, k)
  BY DEF OpenBranches
<1>2. k \in 2..Len(K) /\ Len(K) \in DOMAIN K /\ Last(K) = K[Len(K)] /\ IfOf(K, k) \in Statements /\ k \in DOMAIN K
      /\ Len(K) \in Nat /\ K[k].list \in Seq(Statements)
      /\ \A j \in 1..(Len(K) - 1) : K[j].list \in Seq(Statements)
  BY ShapeFacts
<1>3. Belongs(K, k) /\ K[k].entry # 0
  BY <1>2 DEF Shape, Taken
<1>4. K[k].list = b.test.body /\ b.test.op = "if" /\ b.test = IfOf(K, k) /\ b.entry = K[k].entry
  BY <1>1, <1>3 DEF Belongs, Branch
<1>5. Inspect(K[Len(K)].list) \subseteq Inspect(K[k].list)
  <2>1. CASE k = Len(K)
    BY <2>1
  <2>2. CASE k < Len(K)
    <3>1. Inspect(K[Len(K)].list) \subseteq Nested(K[k].list)
      BY <1>2, <2>2 DEF Shape, Encloses
    <3>. QED
      BY <3>1, <1>2, NestedInspected
  <2>. QED
    BY <1>2, <2>1, <2>2
<1>. QED
  BY <1>2, <1>3, <1>4, <1>5

LEMMA PassInBlock ==
    ASSUME NEW K, Shape(K), K[Len(K)].at <= Len(K[Len(K)].list), NEW st, st = K[Len(K)].list[K[Len(K)].at],
           NEW L, L = [K EXCEPT ![Len(K)].at = @ + 1]
    PROVE  /\ st \in Statements /\ Shape(L) /\ Alike(K, L)
           /\ Last(L).at > 1 /\ Before(Last(L)) = st
           /\ \A b \in OpenBranches(K) : Inspect(<<st>>) \subseteq Inspect(b.test.body)
           /\ \A r : Passing(K, r) /\ PassedIn(L, r, Len(L), st) => Passing(L, r)
<1>. DEFINE n == Len(K)
            F(k) == /\ K[k] \in Frames /\ K[k].list \in Seq(Statements) /\ K[k].at \in Nat
                    /\ K[k].at \in 1..(Len(K[k].list) + 1) /\ Len(K[k].list) \in Nat
                    /\ DOMAIN K[k].list = 1..Len(K[k].list)
<1>1. /\ K \in Seq(Frames) /\ n \in Nat \ {0} /\ DOMAIN K = 1..n /\ K[1].entry = 0
      /\ \A k \in DOMAIN K : F(k)
  BY ShapeFacts
<1>2. n \in DOMAIN K /\ F(n)
  BY <1>1
<1>3. K[n].at \in DOMAIN K[n].list
  BY <1>2
<1>4. st \in Statements /\ Inspect(<<st>>) \subseteq Inspect(K[n].list)
  BY <1>2, <1>3, InspectParts
<1>5. PICK fr \in Frames : /\ fr.list = K[n].list /\ fr.outer = K[n].outer /\ fr.entry = K[n].entry
                           /\ fr.at = K[n].at + 1 /\ L = [K EXCEPT ![n] = fr]
  <2>1. PICK fr : fr = [K[n] EXCEPT !.at = K[n].at + 1]
    OBVIOUS
  <2>2. fr \in Frames /\ fr.list = K[n].list /\ fr.outer = K[n].outer /\ fr.entry = K[n].entry /\ fr.at = K[n].at + 1
    BY <2>1, <1>2 DEF Frames
  <2>3. L = [K EXCEPT ![n] = fr]
    BY <2>1
  <2>. QED
    BY <2>2, <2>3
<1>6. /\ L \in Seq(Frames) /\ Len(L) = n /\ DOMAIN L = 1..n /\ L[n] = fr
      /\ \A k \in DOMAIN K : k # n => L[k] = K[k]
  <2>1. K \in Seq(Frames) /\ Len(K) \in DOMAIN K /\ fr \in Frames /\ L = [K EXCEPT ![Len(K)] = fr]
    BY <1>1, <1>2, <1>5
  <2>. QED
    BY ONLY <2>1
<1>. HIDE DEF n, F
<1>7. Alike(K, L)
  <2>1. \A k \in 2..n : k - 1 \in DOMAIN K /\ k - 1 # n
    BY <1>1
  <2>. QED
    BY <1>1, <1>5, <1>6, <2>1 DEF Alike, n
<1>8. /\ Taken(L) = Taken(K) /\ \A k \in 2..n : IfOf(L, k) = IfOf(K, k)
      /\ \A k \in Taken(K) : Branch(L, k) = Branch(K, k)
  BY <1>7, AlikeBranches DEF n
<1>9. \A k \in DOMAIN K : L[k].list = K[k].list /\ L[k].outer = K[k].outer /\ L[k].entry = K[k].entry
  BY <1>7 DEF Alike
<1>10. Last(L).at > 1 /\ Before(Last(L)) = st
  <2>1. fr.at > 1 /\ fr.at - 1 = K[n].at /\ fr.at # 1
    BY <1>2, <1>5 DEF F
  <2>. QED
    BY <1>5, <1>6, <2>1 DEF Last, Before, n
<1>11. Shape(L)
  <2>1. Framed(L)
    <3>1. L # <<>> /\ L[1].entry = 0
      BY <1>1, <1>6, <1>9
    <3>2. ASSUME NEW k \in DOMAIN L PROVE L[k].at \in 1..(Len(L[k].list) + 1)
      <4>1. CASE k = n
        BY <4>1, <1>2, <1>3, <1>5, <1>6 DEF F
      <4>2. CASE k # n
        BY <4>2, <1>1, <1>6 DEF F
      <4>. QED
        BY <4>1, <4>2
    <3>. QED
      BY <3>1, <3>2, <1>6 DEF Framed
  <2>2. ASSUME NEW k \in 2..n PROVE Belongs(L, k)
    <3>1. Belongs(K, k) /\ k \in DOMAIN K /\ k - 1 \in DOMAIN K /\ k - 1 # n
      BY <1>1 DEF Shape, n
    <3>2. IfOf(L, k) = IfOf(K, k) /\ L[k - 1] = K[k - 1] /\ L[k].list = K[k].list /\ L[k].entry = K[k].entry
      BY <3>1, <1>6, <1>8, <1>9
    <3>. QED
      BY <3>1, <3>2 DEF Belongs
  <2>3. ASSUME NEW j \in DOMAIN L, NEW k \in DOMAIN L, j < k PROVE Encloses(L, j, k)
    BY <2>3, <1>1, <1>6, <1>9 DEF Shape, Encloses
  <2>. QED
    BY <2>1, <2>2, <2>3, <1>6 DEF Shape
<1>12. \A b \in OpenBranches(K) : Inspect(<<st>>) \subseteq Inspect(b.test.body)
  <2>1. Last(K) = K[n]
    BY DEF Last, n
  <2>. QED
    BY <2>1, <1>4, InBranches
<1>13. ASSUME NEW r, Passing(K, r), PassedIn(L, r, Len(L), st) PROVE Passing(L, r)
  <2>. SUFFICES ASSUME NEW k \in DOMAIN K, NEW j \in 1..(L[k].at - 1) PROVE PassedIn(L, r, k, L[k].list[j])
    BY <1>1, <1>6 DEF Passing
  <2>1. CASE k = n /\ j = K[n].at
    <3>1. L[k].list[j] = st
      BY <2>1, <1>2, <1>9 DEF n
    <3>. QED
      BY <3>1, <2>1, <1>13, <1>6
  <2>2. CASE ~(k = n /\ j = K[n].at)
    <3>1. j \in 1..(K[k].at - 1)
      <4>1. CASE k = n
        BY <4>1, <2>2, <1>2, <1>5, <1>6 DEF F
      <4>2. CASE k # n
        BY <4>2, <1>6
      <4>. QED
        BY <4>1, <4>2
    <3>2. PassedIn(K, r, k, K[k].list[j])
      BY <3>1, <1>13 DEF Passing
    <3>. QED
      BY <3>2, <1>8, <1>9 DEF PassedIn
  <2>. QED
    BY <2>1, <2>2
<1>. QED
  BY <1>4, <1>7, <1>10, <1>11, <1>12, <1>13

LEMMA AheadPassed ==
    ASSUME Shape(stack), NEW st \in Ahead
    PROVE  /\ st \in Statements /\ Shape(Passed(st))
           /\ Last(Passed(st)).at > 1 /\ Before(Last(Passed(st))) = st
           /\ OpenBranches(Passed(st)) = OpenBranches(stack)
           /\ \A b \in OpenBranches(stack) : Inspect(<<st>>) \subseteq Inspect(b.test.body)
           /\ \A r : Held(Passed(st), r) \subseteq Held(stack, r)
           /\ \A r : Passing(stack, r) /\ PassedIn(Passed(st), r, Len(Passed(st)), st) => Passing(Passed(st), r)
<1>. DEFINE L == Passed(st)
            n == Len(stack)
<1>1. Top = stack[n]
  BY DEF Top, Last
<1>2. CASE More
  <2>1. stack[n].at <= Len(stack[n].list) /\ st = stack[n].list[stack[n].at]
    BY <1>1, <1>2 DEF More, Ahead
  <2>2. L = [stack EXCEPT ![n].at = @ + 1]
    BY <1>2 DEF Passed
  <2>. HIDE DEF L
  <2>3. /\ st \in Statements /\ Shape(L) /\ Alike(stack, L)
        /\ Last(L).at > 1 /\ Before(Last(L)) = st
        /\ \A b \in OpenBranches(stack) : Inspect(<<st>>) \subseteq Inspect(b.test.body)
        /\ \A r : Passing(stack, r) /\ PassedIn(L, r, Len(L), st) => Passing(L, r)
    BY <2>1, <2>2, PassInBlock
  <2>4. OpenBranches(L) = OpenBranches(stack) /\ \A r : Held(L, r) = Held(stack, r)
    BY <2>3, AlikeBranches
  <2>. QED
    BY <2>3, <2>4 DEF L
<1>3. CASE ~More
  <2>1. n = 1 /\ st \in Statements
    BY <1>3, DroppedErrAssumption DEF Ahead
  <2>2. PICK fr : fr = [list |-> <<st>>, at |-> 2, before |-> NoStmt, outer |-> <<>>, entry |-> 0]
    OBVIOUS
  <2>3. L = <<fr>>
    BY <1>3, <2>2 DEF Passed, Block
  <2>4. <<>> \in Outers
    <3>1. <<>> = [x \in {} |-> NoErr]
      OBVIOUS
    <3>2. [x \in {} |-> NoErr] \in [{} -> Errors] /\ {} \in SUBSET Vars
      OBVIOUS
    <3>. QED
      BY <3>1, <3>2 DEF Outers
  <2>5. fr \in Frames
    BY <2>1, <2>2, <2>4 DEF Frames
  <2>6. /\ fr.list = <<st>> /\ fr.at = 2 /\ fr.outer = <<>> /\ fr.entry = 0
        /\ Len(fr.list) = 1 /\ fr.list[1] = st /\ DOMAIN fr.outer = {}
    BY <2>2
  <2>. HIDE DEF L
  <2>7. L \in Seq(Frames) /\ Len(L) = 1 /\ DOMAIN L = {1} /\ L[1] = fr /\ L # <<>>
    BY <2>3, <2>5
  <2>8. Taken(L) = {} /\ OpenBranches(L) = {}
    <3>1. Taken(L) = {}
      BY <2>6, <2>7 DEF Taken
    <3>. QED
      BY <3>1 DEF OpenBranches
  <2>9. Taken(stack) = {} /\ OpenBranches(stack) = {}
    <3>1. Taken(stack) = {}
      BY <2>1, ShapeFacts
    <3>. QED
      BY <3>1 DEF OpenBranches
  <2>10. Shape(L)
    <3>1. Framed(L)
      BY <2>6, <2>7 DEF Framed
    <3>2. 2..Len(L) = {} /\ \A j, k \in DOMAIN L : ~(j < k)
      BY <2>7
    <3>. QED
      BY <3>1, <3>2, <2>8 DEF Shape
  <2>11. Last(L) = fr /\ Before(fr) = st
    BY <2>6, <2>7 DEF Last, Before
  <2>12. ASSUME NEW r PROVE Held(L, r) \subseteq Held(stack, r)
    <3>1. {<<v, fr.outer[v]>> : v \in DOMAIN fr.outer} = {}
      BY <2>6
    <3>2. UNION {{<<v, L[k].outer[v]>> : v \in DOMAIN L[k].outer} : k \in DOMAIN L} = {}
      BY <3>1, <2>7
    <3>. QED
      BY <3>2 DEF Held
  <2>13. ASSUME NEW r, PassedIn(L, r, Len(L), st) PROVE Passing(L, r)
    BY <2>13, <2>6, <2>7 DEF Passing
  <2>. QED
    BY <2>1, <2>6, <2>8, <2>9, <2>10, <2>11, <2>12, <2>13 DEF L
<1>. QED
  BY <1>2, <1>3

\* A block fr of the if statement st is entered.
Pushes(K, L, st, fr) ==
    /\ Shape(K) /\ st \in Statements /\ st.op = "if" /\ Last(K).at > 1 /\ Before(Last(K)) = st
    /\ fr \in Frames /\ fr.list \in {st.body, st.els} /\ fr.at = 1 /\ DOMAIN fr.outer \subseteq AssignedIn(<<st>>)
    /\ fr.entry # 0 => fr.list = st.body
    /\ L = Append(K, fr)
Pushed(K, L, st, fr) ==
    /\ Shape(L) /\ Last(L) = fr
    /\ OpenBranches(L) = OpenBranches(K) \cup (IF fr.entry = 0 THEN {} ELSE {[test |-> st, entry |-> fr.entry]})
    /\ \A r : Held(L, r) \subseteq Held(K, r) \cup {<<v, fr.outer[v]>> : v \in DOMAIN fr.outer}
    /\ \A r : Passing(K, r) => Passing(L, r)

LEMMA PushKeeps ==
    ASSUME NEW K, NEW L, NEW st, NEW fr, Pushes(K, L, st, fr)
    PROVE  Pushed(K, L, st, fr)
<1>0. /\ Shape(K) /\ st \in Statements /\ st.op = "if" /\ Last(K).at > 1 /\ Before(Last(K)) = st
      /\ fr \in Frames /\ fr.list \in {st.body, st.els} /\ fr.at = 1 /\ DOMAIN fr.outer \subseteq AssignedIn(<<st>>)
      /\ fr.entry # 0 => fr.list = st.body
      /\ L = Append(K, fr)
  BY DEF Pushes
<1>. USE <1>0
<1>. DEFINE n == Len(K)
            F(k) == /\ K[k] \in Frames /\ K[k].list \in Seq(Statements) /\ K[k].at \in Nat
                    /\ K[k].at \in 1..(Len(K[k].list) + 1) /\ Len(K[k].list) \in Nat
                    /\ DOMAIN K[k].list = 1..Len(K[k].list)
<1>1. /\ K \in Seq(Frames) /\ n \in Nat \ {0} /\ DOMAIN K = 1..n /\ K[1].entry = 0 /\ Last(K) = K[n]
      /\ Taken(K) \subseteq 2..n
      /\ \A k \in DOMAIN K : F(k)
  BY ShapeFacts
<1>2. /\ L \in Seq(Frames) /\ Len(L) = n + 1 /\ DOMAIN L = 1..(n + 1) /\ L[n + 1] = fr
      /\ \A k \in 1..n : L[k] = K[k]
  <2>1. K \in Seq(Frames) /\ n = Len(K) /\ fr \in Frames /\ L = Append(K, fr)
    BY <1>1
  <2>. QED
    BY ONLY <2>1
<1>. HIDE DEF F, n
<1>3. n \in DOMAIN K /\ K[n].at - 1 \in DOMAIN K[n].list /\ K[n].list[K[n].at - 1] = st
      /\ K[n].list \in Seq(Statements)
  <2>1. n \in DOMAIN K /\ F(n) /\ Last(K) = K[n] /\ K[n].at > 1
    BY <1>1
  <2>2. Before(K[n]) = K[n].list[K[n].at - 1]
    BY <2>1 DEF Before
  <2>. QED
    BY <2>1, <2>2 DEF F
<1>4. /\ \A k \in 2..n : IfOf(L, k) = IfOf(K, k) /\ L[k] = K[k] /\ k \in 1..n
      /\ IfOf(L, n + 1) = st /\ n + 1 # 1 /\ L[n] = K[n]
  <2>1. ASSUME NEW k \in 2..n PROVE k - 1 \in 1..n /\ k \in 1..n
    BY <1>1
  <2>2. (n + 1) - 1 = n /\ n \in 1..n
    BY <1>1
  <2>. QED
    BY <1>1, <1>2, <2>1, <2>2 DEF IfOf
<1>5. Taken(L) = Taken(K) \cup (IF fr.entry = 0 THEN {} ELSE {n + 1})
  BY <1>1, <1>2 DEF Taken
<1>6. /\ \A k \in Taken(K) : Branch(L, k) = Branch(K, k)
      /\ Branch(L, n + 1) = [test |-> st, entry |-> fr.entry]
  BY <1>1, <1>2, <1>4 DEF Branch
<1>7. OpenBranches(L) = OpenBranches(K) \cup (IF fr.entry = 0 THEN {} ELSE {[test |-> st, entry |-> fr.entry]})
  <2>1. OpenBranches(L) = {Branch(L, k) : k \in Taken(K)} \cup (IF fr.entry = 0 THEN {} ELSE {Branch(L, n + 1)})
    BY <1>5 DEF OpenBranches
  <2>2. {Branch(L, k) : k \in Taken(K)} = {Branch(K, k) : k \in Taken(K)}
    BY <1>6
  <2>. QED
    BY <2>1, <2>2, <1>6 DEF OpenBranches
<1>8. Inspect(fr.list) \subseteq Nested(K[n].list) /\ DOMAIN fr.outer \subseteq AssignedIn(K[n].list)
  <2>1. Inspect(fr.list) \subseteq Nested(K[n].list)
    BY <1>3, NestedInspected
  <2>2. Inspect(<<st>>) \subseteq Inspect(K[n].list)
    BY <1>3, InspectParts
  <2>. QED
    BY <2>1, <2>2 DEF AssignedIn
<1>9. ASSUME NEW j \in 1..n PROVE Inspect(fr.list) \subseteq Nested(K[j].list) /\ DOMAIN fr.outer \subseteq AssignedIn(K[j].list)
  <2>1. CASE j = n
    BY <2>1, <1>8
  <2>2. CASE j < n
    <3>1. Inspect(K[n].list) \subseteq Nested(K[j].list) /\ j \in DOMAIN K /\ K[j].list \in Seq(Statements)
      BY <2>2, <1>1, <1>3 DEF Shape, Encloses, F
    <3>2. Nested(K[n].list) \subseteq Inspect(K[n].list) /\ Nested(K[j].list) \subseteq Inspect(K[j].list)
      BY <3>1, <1>3, NestedInspected
    <3>3. AssignedIn(K[n].list) \subseteq AssignedIn(K[j].list)
      BY <3>1, <3>2 DEF AssignedIn
    <3>. QED
      BY <3>1, <3>2, <3>3, <1>8
  <2>. QED
    BY <1>1, <2>1, <2>2
<1>10. Shape(L)
  <2>1. Framed(L)
    <3>1. L # <<>> /\ L[1].entry = 0
      BY <1>1, <1>2
    <3>2. ASSUME NEW k \in DOMAIN L PROVE L[k].at \in 1..(Len(L[k].list) + 1)
      <4>1. CASE k = n + 1
        <5>1. fr.list \in Seq(Statements)
          BY DEF Frames
        <5>2. Len(fr.list) \in Nat
          BY <5>1
        <5>. QED
          BY <4>1, <1>2, <5>2
      <4>2. CASE k \in 1..n
        BY <4>2, <1>1, <1>2 DEF F
      <4>. QED
        BY <4>1, <4>2, <1>1, <1>2
    <3>. QED
      BY <3>1, <3>2, <1>2 DEF Framed
  <2>2. ASSUME NEW k \in 2..(n + 1) PROVE Belongs(L, k)
    <3>1. CASE k = n + 1
      <4>1. k - 1 = n
        BY <3>1, <1>1
      <4>. QED
        BY <3>1, <4>1, <1>1, <1>2, <1>4 DEF Belongs
    <3>2. CASE k \in 2..n
      <4>1. Belongs(K, k) /\ k \in 1..n /\ k - 1 \in 1..n
        BY <3>2, <1>1 DEF Shape, n
      <4>. QED
        BY <3>2, <4>1, <1>2, <1>4 DEF Belongs
    <3>. QED
      BY <3>1, <3>2, <1>1
  <2>3. ASSUME NEW j \in DOMAIN L, NEW k \in DOMAIN L, j < k PROVE Encloses(L, j, k)
    <3>1. j \in 1..n
      BY <2>3, <1>1, <1>2
    <3>2. CASE k = n + 1
      BY <3>1, <3>2, <1>2, <1>9 DEF Encloses
    <3>3. CASE k \in 1..n
      BY <2>3, <3>1, <3>3, <1>1, <1>2 DEF Shape, Encloses
    <3>. QED
      BY <1>1, <1>2, <3>2, <3>3
  <2>. QED
    BY <2>1, <2>2, <2>3, <1>2 DEF Shape
<1>11. ASSUME NEW r PROVE Held(L, r) \subseteq Held(K, r) \cup {<<v, fr.outer[v]>> : v \in DOMAIN fr.outer}
  <2>. DEFINE HL(k) == {<<v, L[k].outer[v]>> : v \in DOMAIN L[k].outer}
              HK(k) == {<<v, K[k].outer[v]>> : v \in DOMAIN K[k].outer}
              Hf == {<<v, fr.outer[v]>> : v \in DOMAIN fr.outer}
  <2>1. \A k \in 1..n : HL(k) = HK(k)
    BY <1>2
  <2>2. HL(n + 1) = Hf
    BY <1>2
  <2>. HIDE DEF HL, HK, Hf
  <2>3. UNION {HL(k) : k \in DOMAIN L} \subseteq (UNION {HK(k) : k \in DOMAIN K}) \cup Hf
    BY <2>1, <2>2, <1>1, <1>2
  <2>. QED
    BY <2>3 DEF Held, HL, HK, Hf
<1>12. ASSUME NEW r, Passing(K, r) PROVE Passing(L, r)
  <2>. SUFFICES ASSUME NEW k \in DOMAIN L, NEW j \in 1..(L[k].at - 1) PROVE PassedIn(L, r, k, L[k].list[j])
    BY DEF Passing
  <2>1. k \in 1..n
    <3>1. k # n + 1
      BY <1>2
    <3>. QED
      BY <3>1, <1>1, <1>2
  <2>2. PassedIn(K, r, k, K[k].list[j]) /\ L[k] = K[k]
    BY <2>1, <1>1, <1>2, <1>12 DEF Passing
  <2>3. k \in Taken(L) => k \in Taken(K)
    BY <2>1, <1>1, <1>5
  <2>. QED
    BY <2>2, <2>3, <1>6 DEF PassedIn
<1>13. Last(L) = fr
  BY <1>2 DEF Last
<1>. QED
  BY <1>7, <1>10, <1>11, <1>12, <1>13 DEF Pushed

LEMMA PopKeeps ==
    ASSUME NEW K, Shape(K), Len(K) > 1, NEW L, L = Front(K)
    PROVE  /\ Shape(L) /\ Last(L).at > 1 /\ Before(Last(L)) = IfOf(K, Len(K)) /\ IfOf(K, Len(K)).op = "if"
           /\ OpenBranches(L) \subseteq OpenBranches(K)
           /\ \A b \in OpenBranches(K) \ OpenBranches(L) : Len(K) \in Taken(K) /\ b = Branch(K, Len(K))
           /\ \A b \in OpenBranches(L) : DOMAIN Last(K).outer \subseteq AssignedIn(b.test.body)
           /\ \A k \in DOMAIN L : L[k] = K[k] /\ k \in DOMAIN K
           /\ \A r : Passing(K, r) => Passing(L, r)
<1>. DEFINE n == Len(K)
            m == n - 1
<1>1. /\ K \in Seq(Frames) /\ n \in Nat \ {0} /\ DOMAIN K = 1..n /\ K[1].entry = 0 /\ Last(K) = K[n]
      /\ Taken(K) \subseteq 2..n
      /\ \A k \in DOMAIN K : K[k].at \in 1..(Len(K[k].list) + 1) /\ K[k].list \in Seq(Statements)
  BY ShapeFacts
<1>2. m \in Nat \ {0} /\ n = m + 1
  BY <1>1
<1>3. /\ L \in Seq(Frames) /\ Len(L) = m /\ DOMAIN L = 1..m
      /\ \A k \in 1..m : L[k] = K[k] /\ k \in 1..n
  <2>1. L = SubSeq(K, 1, n - 1)
    BY DEF Front
  <2>. QED
    BY <2>1, <1>1, <1>2
<1>. HIDE DEF m, n
<1>4. \A k \in 2..m : IfOf(L, k) = IfOf(K, k)
  <2>1. \A k \in 2..m : k - 1 \in 1..m
    BY <1>2
  <2>. QED
    BY <2>1, <1>3 DEF IfOf
<1>5. Taken(L) = Taken(K) \ {n} /\ Taken(L) \subseteq 2..m
  BY <1>1, <1>2, <1>3 DEF Taken
<1>6. \A k \in Taken(L) : Branch(L, k) = Branch(K, k)
  BY <1>2, <1>3, <1>4, <1>5 DEF Branch
<1>7. OpenBranches(L) \subseteq OpenBranches(K)
      /\ \A b \in OpenBranches(K) \ OpenBranches(L) : n \in Taken(K) /\ b = Branch(K, n)
  BY <1>5, <1>6 DEF OpenBranches
<1>8. Shape(L)
  <2>1. Framed(L)
    <3>1. L # <<>> /\ L[1].entry = 0
      BY <1>1, <1>2, <1>3
    <3>. QED
      BY <3>1, <1>1, <1>3 DEF Framed
  <2>2. ASSUME NEW k \in 2..m PROVE Belongs(L, k)
    <3>1. k \in 2..n /\ k \in 1..m /\ k - 1 \in 1..m
      BY <1>1, <1>2
    <3>2. Belongs(K, k)
      BY <3>1 DEF Shape, n
    <3>. QED
      BY <3>1, <3>2, <1>3, <1>4 DEF Belongs
  <2>3. ASSUME NEW j \in DOMAIN L, NEW k \in DOMAIN L, j < k PROVE Encloses(L, j, k)
    BY <2>3, <1>1, <1>3 DEF Shape, Encloses
  <2>. QED
    BY <2>1, <2>2, <2>3, <1>3 DEF Shape
<1>9. Last(L).at > 1 /\ Before(Last(L)) = IfOf(K, n) /\ IfOf(K, n).op = "if"
  <2>1. Belongs(K, n) /\ n - 1 = m /\ m \in 1..m
    BY <1>1, <1>2 DEF Shape, n
  <2>2. Last(L) = K[m]
    BY <2>1, <1>3 DEF Last
  <2>. QED
    BY <2>1, <2>2 DEF Belongs, IfOf
<1>10. ASSUME NEW b \in OpenBranches(L) PROVE DOMAIN Last(K).outer \subseteq AssignedIn(b.test.body)
  <2>1. PICK k \in Taken(L) : b = Branch(L, k)
    BY DEF OpenBranches
  <2>2. k \in 2..m /\ k \in 2..n /\ k < n /\ b = Branch(K, k) /\ k \in Taken(K) /\ k \in DOMAIN K /\ n \in DOMAIN K
    BY <2>1, <1>1, <1>2, <1>5, <1>6
  <2>3. K[k].list = b.test.body
    <3>1. Belongs(K, k) /\ K[k].entry # 0
      BY <2>2 DEF Shape, Taken, n
    <3>. QED
      BY <3>1, <2>2 DEF Belongs, Branch
  <2>4. DOMAIN K[n].outer \subseteq AssignedIn(K[k].list)
    BY <2>2 DEF Shape, Encloses
  <2>. QED
    BY <2>3, <2>4, <1>1
<1>11. ASSUME NEW r, Passing(K, r) PROVE Passing(L, r)
  <2>. SUFFICES ASSUME NEW k \in DOMAIN L, NEW j \in 1..(L[k].at - 1) PROVE PassedIn(L, r, k, L[k].list[j])
    BY DEF Passing
  <2>1. PassedIn(K, r, k, K[k].list[j]) /\ L[k] = K[k]
    BY <1>1, <1>3, <1>11 DEF Passing
  <2>2. k \in Taken(L) => k \in Taken(K)
    BY <1>5
  <2>. QED
    BY <2>1, <2>2, <1>6 DEF PassedIn
<1>. QED
  BY <1>1, <1>3, <1>7, <1>8, <1>9, <1>10, <1>11 DEF n
-----------------------------------------------------------------------------
(* The disciplines, where none is broken.                                  *)

LEMMA BranchFacts ==
    ASSUME Wild = {}, NEW g, BranchFollows(g)
    PROVE  /\ ErrNilCheck(g.cond)
           /\ \A n \in Inspect(g.body) : ~AssignsTo(n, g.cond.v)
           /\ IdentUsed(g, g.cond.v) \/ Leaves(g.body)
           /\ \A n \in Nested(g.body) : n.op = "raise" => n.as \in Carriers /\ n.v = g.cond.v
           /\ (\E i \in DOMAIN g.body : g.body[i].op = "if" /\ IdentUsedInIf(g.body[i], g.cond.v))
                 => Leaves(g.body) /\ g.cond.v \in NamesIn(Last(g.body))
           /\ CallsSQLClassifier(g.body) =>
                 \/ g.body[1].op = "if" /\ g.body[1].cond = [k |-> "pred", v |-> g.cond.v]
                 \/ \A n \in Inspect(g.body) : n.op = "raise" => n.as \in {"raw", "classify"}
           /\ \A n \in Inspect(g.body) : n.op = "raise" => n.as # "foreign"
BY DEF BranchFollows

LEMMA FollowsFacts ==
    ASSUME Wild = {}, NEW st, Follows(st)
    PROVE  /\ st.op = "assign" => st.from \notin Vars
           /\ FromDatabase(Previous) => IsGuardOf(st, Previous.v) /\ st.op = "if"
           /\ st.op = "if" => /\ \A t \in ToSet(st.init) : t.op = "assign" => t.from \notin Vars
                              /\ FromDatabase(Previous) => ToSet(st.init) = {}
                              /\ \A t \in ToSet(st.init) : FromDatabase(t) => IsGuardOf(st, t.v)
                              /\ Previous = Unlisted => \A t \in ToSet(st.init) : ~FromDatabase(t)
           /\ st.op = "if" /\ TestsError(st.cond) => BranchFollows(st)
BY DEF Follows, IsGuardOf

LEMMA HeldFacts ==
    ASSUME NEW K, NEW r, NEW s
    PROVE  /\ Held(K, s) \subseteq Held(K, r) \cup {<<v, s.env[v]>> : v \in Vars}
           /\ \A v \in Vars : <<v, s.env[v]>> \in Held(K, s)
           /\ \A k \in DOMAIN K : \A v \in DOMAIN K[k].outer : <<v, K[k].outer[v]>> \in Held(K, s)
<1>. DEFINE HK(k) == {<<v, K[k].outer[v]>> : v \in DOMAIN K[k].outer}
            U == UNION {HK(k) : k \in DOMAIN K}
<1>1. \A k \in DOMAIN K : HK(k) \subseteq U
  <2>. HIDE DEF HK
  <2>. QED
    OBVIOUS
<1>2. \A k \in DOMAIN K : \A v \in DOMAIN K[k].outer : <<v, K[k].outer[v]>> \in HK(k)
  OBVIOUS
<1>3. \A q : Held(K, q) = {<<v, q.env[v]>> : v \in Vars} \cup U
  BY DEF Held
<1>. HIDE DEF U, HK
<1>. QED
  BY <1>1, <1>2, <1>3

LEMMA PassingKeeps ==
    ASSUME NEW K, NEW r, NEW s, Passing(K, r),
           \A b \in OpenBranches(K) : Cause(b, s) = Cause(b, r),
           r.logged \subseteq s.logged, r.tested \subseteq s.tested, r.left # "running" => s.left # "running"
    PROVE  Passing(K, s)
<1>. SUFFICES ASSUME NEW k \in DOMAIN K, NEW j \in 1..(K[k].at - 1) PROVE PassedIn(K, s, k, K[k].list[j])
  BY DEF Passing
<1>1. PassedIn(K, r, k, K[k].list[j])
  BY DEF Passing
<1>2. k \in Taken(K) => Cause(Branch(K, k), s) = Cause(Branch(K, k), r)
  BY DEF OpenBranches
<1>. QED
  BY <1>1, <1>2 DEF PassedIn

\* Once a statement is passed, it is the one before the next.
LEMMA AfterPass ==
    ASSUME NEW f, NEW s, NEW H, Shape(stack), NEW st \in Ahead,
           Core(f, OpenBranches(stack), H, s), Held(stack, s) \subseteq H, Passing(stack, s),
           PassedIn(Passed(st), s, Len(Passed(st)), st),
           s.left = "running" => Pending(OpenBranches(stack), H, s, JustSet(st)),
           s.left # "running" => st.op = "raise" /\ st.as = s.left /\ (st.as \in Carriers => s.env[st.v] \in s.logged)
    PROVE  Sound(f, Passed(st), s)
<1>. DEFINE L == Passed(st)
<1>1. /\ Shape(L) /\ Last(L).at > 1 /\ Before(Last(L)) = st
      /\ OpenBranches(L) = OpenBranches(stack) /\ Held(L, s) \subseteq Held(stack, s) /\ Passing(L, s)
  BY AheadPassed
<1>. HIDE DEF L
<1>2. Held(L, s) \subseteq H
  BY <1>1
<1>3. PICK G \in SUBSET H : G = Held(L, s) /\ \A v \in Vars : <<v, s.env[v]>> \in G
  BY <1>2, HeldFacts
<1>4. Core(f, OpenBranches(L), Held(L, s), s)
      /\ (s.left = "running" => Pending(OpenBranches(L), Held(L, s), s, JustSet(st)))
  BY <1>1, <1>3, FewerHeld
<1>5. Returned(L, s)
  BY <1>1 DEF Returned
<1>6. Running(L, s)
  BY <1>1, <1>4, <1>5 DEF Running
<1>. QED
  BY <1>1, <1>4, <1>6 DEF Sound, L
-----------------------------------------------------------------------------
(* The steps.                                                              *)

LEMMA StateFacts ==
    ASSUME IInv, ~Over
    PROVE  /\ Shape(stack) /\ Passing(stack, run) /\ run \in Runs /\ run.left = "running"
           /\ Core(file, OpenBranches(stack), Held(stack, run), run)
           /\ Pending(OpenBranches(stack), Held(stack, run), run, JustSet(Previous))
BY DEF IInv, Sound, Running, Over, Core, Previous, Top

\* No statement of a branch assigns the branch's variable, or names it where the branch
\* is reported as dropping its error.
LEMMA BranchesSpared ==
    ASSUME Wild = {}, IInv, ~Over, NEW st \in Ahead, NEW b \in OpenBranches(stack)
    PROVE  /\ \A n \in Inspect(<<st>>) : ~AssignsTo(n, Var(b))
           /\ ~IdentUsed(b.test, Var(b)) => Var(b) \notin NamesIn(st)
<1>1. Inspect(<<st>>) \subseteq Inspect(b.test.body) /\ st \in Statements
  BY StateFacts, AheadPassed
<1>2. BranchFollows(b.test)
  BY StateFacts DEF Core, Open
<1>3. \A n \in Inspect(b.test.body) : ~AssignsTo(n, Var(b))
  BY <1>2, BranchFacts DEF Var
<1>4. st \in Inspect(<<st>>)
  BY <1>1, InspectParts
<1>. QED
  BY <1>1, <1>3, <1>4 DEF IdentUsed

LEMMA AssignSound ==
    ASSUME Wild = {}, IInv, NEW st \in Ahead, DoAssign(st)
    PROVE  IInv'
<1>. DEFINE B == OpenBranches(stack)
            db == st.from = "db"
            s == run'
            H == Held(stack, run) \cup {<<st.v, s.env[st.v]>>}
<1>1. ~Over /\ st.op = "assign" /\ Follows(st) /\ s \in Assigned(st, run) /\ stack' = Passed(st) /\ file' = file
  BY DEF DoAssign, Executes
<1>2. st.from \notin Vars /\ ~FromDatabase(Previous) /\ st \in Statements /\ st.v \in Vars
  <2>1. st \in Statements
    BY <1>1, StateFacts, AheadPassed
  <2>. QED
    BY <1>1, <2>1, FollowsFacts, StatementParts
<1>3. CallGives(run, s, st.v, db) /\ db \in BOOLEAN
  BY <1>1, <1>2, StateFacts, AssignedCalls
<1>4. \A b \in B : Var(b) # st.v
  <2>1. st \in Inspect(<<st>>) /\ AssignsTo(st, st.v)
    BY <1>1, <1>2, InspectParts DEF AssignsTo
  <2>. QED
    BY <1>1, <2>1, BranchesSpared
<1>5. Core(file, B, Held(stack, run), run) /\ Pending(B, Held(stack, run), run, {})
  BY <1>1, <1>2, StateFacts DEF JustSet
<1>. HIDE DEF B, s, db
<1>6. Core(file, B, H, s)
  BY <1>2, <1>3, <1>4, <1>5, CallKeeps
<1>7. Pending(B, H, s, IF db THEN {st.v} ELSE {})
  BY <1>2, <1>3, <1>5, CallLeavesPending
<1>8. JustSet(st) = IF db THEN {st.v} ELSE {}
  BY <1>1 DEF JustSet, FromDatabase, db
<1>10. /\ s.logged = run.logged /\ s.tested = run.tested /\ s.entered = run.entered /\ s.left = run.left
       /\ \A v \in Vars : v # st.v => s.env[v] = run.env[v]
  <2>1. run.env \in [Vars -> Errors]
    BY <1>1, StateFacts DEF Runs
  <2>. QED
    BY <1>3, <2>1 DEF CallGives
<1>11. Held(stack, s) \subseteq H
  <2>1. \A v \in Vars : <<v, s.env[v]>> \in H
    BY <1>10, HeldFacts
  <2>. QED
    BY <2>1, HeldFacts
<1>12. Passing(stack, s)
  BY <1>1, <1>10, StateFacts, PassingKeeps DEF Cause
<1>13. s.left = "running"
  BY <1>1, <1>10, StateFacts
<1>14. PassedIn(Passed(st), s, Len(Passed(st)), st)
  BY <1>1, <1>2 DEF PassedIn
<1>. HIDE DEF H
<1>15. Sound(file, Passed(st), s)
  BY <1>1, <1>6, <1>7, <1>8, <1>11, <1>12, <1>13, <1>14, StateFacts, AfterPass DEF B
<1>. QED
  BY <1>1, <1>15 DEF IInv, s

\* What a log and a return see.
LEMMA SightSound ==
    ASSUME Wild = {}, IInv, ~Over, NEW st \in Ahead, Follows(st), st.op \in {"log", "do", "raise"},
           NEW s, NEW V \in SUBSET Vars, Sees(run, s, {run.env[v] : v \in V}), V \subseteq NamesIn(st),
           st.op = "log" => st.v \in V,
           IF st.op = "raise" THEN s.left = st.as /\ (st.as \in Carriers => st.v \in V) ELSE s.left = "running"
    PROVE  Sound(file, Passed(st), s)
<1>. DEFINE B == OpenBranches(stack)
            H == Held(stack, run)
<1>1. st \in Statements /\ OpenBranches(Passed(st)) = B /\ ~FromDatabase(Previous) /\ ~FromDatabase(st)
  BY StateFacts, AheadPassed, FollowsFacts DEF FromDatabase
<1>2. Core(file, B, H, run) /\ Pending(B, H, run, {})
  BY <1>1, StateFacts DEF JustSet
<1>3. \A b \in B : ~IdentUsed(b.test, Var(b)) => Var(b) \notin V
  BY BranchesSpared
<1>. HIDE DEF B, H
<1>4. Core(file, B, H, s) /\ Pending(B, H, s, {})
  BY <1>2, <1>3, SeesKeeps
<1>5. s.env = run.env /\ s.entered = run.entered /\ s.logged = run.logged \cup {run.env[v] : v \in V} /\ run.tested \subseteq s.tested
  BY DEF Sees
<1>6. Held(stack, s) \subseteq H
  BY <1>5 DEF Held, H
<1>7. Passing(stack, s)
  BY <1>5, StateFacts, PassingKeeps DEF Cause
<1>8. s.left # "running" => st.op = "raise"
  OBVIOUS
<1>9. st.op = "raise" => s.left # "running"
  BY <1>1, StatementParts DEF Raisers
<1>10. PassedIn(Passed(st), s, Len(Passed(st)), st)
  <2>1. ASSUME st.op = "log", NEW b \in B, st.v = Var(b) PROVE Cause(b, s) \in s.logged
    <3>1. run.env[Var(b)] = Cause(b, run)
      BY <1>2 DEF Core, Open
    <3>. QED
      BY <2>1, <3>1, <1>5 DEF Cause
  <2>2. \A k \in Taken(Passed(st)) : Branch(Passed(st), k) \in B
    BY <1>1 DEF OpenBranches
  <2>. QED
    BY <1>9, <2>1, <2>2 DEF PassedIn
<1>11. JustSet(st) = {}
  BY <1>1 DEF JustSet
<1>12. s.left # "running" => st.op = "raise" /\ st.as = s.left /\ (st.as \in Carriers => s.env[st.v] \in s.logged)
  BY <1>5, <1>8
<1>. QED
  BY <1>4, <1>6, <1>7, <1>10, <1>11, <1>12, StateFacts, AfterPass DEF B

LEMMA LogSound ==
    ASSUME Wild = {}, IInv, NEW st \in Ahead, DoLog(st)
    PROVE  IInv'
<1>1. ~Over /\ st.op = "log" /\ Follows(st) /\ stack' = Passed(st) /\ file' = file
      /\ run' = [run EXCEPT !.logged = @ \cup {run.env[st.v]}]
  BY DEF DoLog, Executes
<1>2. st.v \in Vars /\ run \in Runs /\ run.left = "running"
  <2>1. st \in Statements
    BY <1>1, StateFacts, AheadPassed
  <2>. QED
    BY <1>1, <2>1, StateFacts, StatementParts
<1>3. run.env[st.v] \in Errors
  BY <1>2 DEF Runs
<1>4. Sees(run, run', {run.env[st.v]}) /\ run'.left = "running"
  BY <1>1, <1>2, <1>3 DEF Sees, Runs
<1>5. {run.env[v] : v \in {st.v}} = {run.env[st.v]} /\ {st.v} \subseteq NamesIn(st)
  BY <1>1 DEF NamesIn
<1>6. PICK V \in SUBSET Vars : V = {st.v}
  BY <1>2
<1>7. Sound(file, Passed(st), run')
  BY <1>1, <1>4, <1>5, <1>6, SightSound
<1>. QED
  BY <1>1, <1>7 DEF IInv

LEMMA OtherSound ==
    ASSUME Wild = {}, IInv, NEW st \in Ahead, DoOther(st)
    PROVE  IInv'
<1>1. ~Over /\ st.op = "do" /\ Follows(st) /\ stack' = Passed(st) /\ file' = file /\ run' = run
  BY DEF DoOther, Executes
<1>2. PICK V \in SUBSET Vars : V = {}
  OBVIOUS
<1>3. Sees(run, run, {run.env[v] : v \in V}) /\ run.left = "running"
  BY <1>1, <1>2, StateFacts DEF Sees
<1>4. Sound(file, Passed(st), run)
  BY <1>1, <1>2, <1>3, SightSound
<1>. QED
  BY <1>1, <1>4 DEF IInv

LEMMA RaiseSound ==
    ASSUME Wild = {}, IInv, NEW st \in Ahead, DoRaise(st)
    PROVE  IInv'
<1>. DEFINE N == IF st.as \in Carriers THEN {run.env[st.v]} ELSE {}
<1>1. ~Over /\ st.op = "raise" /\ Follows(st) /\ stack' = Passed(st) /\ file' = file
      /\ run' = [run EXCEPT !.left = st.as, !.logged = @ \cup N]
  BY DEF DoRaise, Executes
<1>2. st.v \in Vars /\ run \in Runs /\ st.as \in Raisers
  <2>1. st \in Statements
    BY <1>1, StateFacts, AheadPassed
  <2>. QED
    BY <1>1, <2>1, StateFacts, StatementParts
<1>3. N \subseteq Errors
  BY <1>2 DEF Runs
<1>4. PICK V \in SUBSET Vars : V = IF st.as \in Carriers THEN {st.v} ELSE {}
  BY <1>2
<1>5. {run.env[v] : v \in V} = N /\ V \subseteq NamesIn(st) /\ (st.as \in Carriers => st.v \in V)
  BY <1>1, <1>4 DEF NamesIn
<1>. HIDE DEF N
<1>6. Sees(run, run', N) /\ run'.left = st.as
  <2>1. PICK M : M = run.logged \cup N
    OBVIOUS
  <2>2. run' = [run EXCEPT !.left = st.as, !.logged = M]
    BY <1>1, <2>1
  <2>3. M \subseteq Errors
    BY <1>2, <1>3, <2>1 DEF Runs
  <2>4. /\ run'.env = run.env /\ run'.calls = run.calls /\ run'.entered = run.entered
        /\ run'.logged = M /\ run'.tested = run.tested /\ run'.left = st.as
    BY <1>2, <2>2 DEF Runs
  <2>5. run' \in Runs
    BY <1>2, <2>2, <2>3 DEF Runs
  <2>. QED
    BY <2>1, <2>4, <2>5 DEF Sees
<1>7. Sound(file, Passed(st), run')
  BY <1>1, <1>4, <1>5, <1>6, SightSound
<1>. QED
  BY <1>1, <1>7 DEF IInv

\* The variable that has just got an error of the database when an if statement tests.
SetBy(st) == IF st.init = <<>> THEN JustSet(Previous) ELSE JustSet(st.init[1])

LEMMA InitFacts ==
    ASSUME NEW st \in Statements, st.op = "if"
    PROVE  /\ st.init = <<>> => ToSet(st.init) = {}
           /\ st.init # <<>> => /\ ToSet(st.init) = {st.init[1]} /\ st.init[1] \in Statements
                                /\ st.init[1].op = "assign" /\ st.init[1] \in Inspect(<<st>>)
<1>1. /\ Len(st.init) <= 1 /\ IsBlock(st.init, st) /\ \A t \in ToSet(st.init) : t.op = "assign"
  BY StatementParts
<1>2. st.init \in Seq(Statements)
  BY <1>1 DEF IsBlock
<1>3. CASE st.init = <<>>
  BY <1>3 DEF ToSet
<1>4. CASE st.init # <<>>
  <2>1. DOMAIN st.init = {1}
    BY <1>1, <1>2, <1>4
  <2>2. ToSet(st.init) = {st.init[1]} /\ st.init[1] \in Statements
    BY <2>1, <1>2 DEF ToSet
  <2>3. st.init[1] \in Inspect(st.init) /\ Inspect(st.init) \subseteq Inspect(<<st>>)
    BY <2>1, <1>1, <1>2, InspectParts
  <2>. QED
    BY <1>1, <1>4, <2>2, <2>3
<1>. QED
  BY <1>3, <1>4

LEMMA SetByFacts ==
    ASSUME Wild = {}, NEW st \in Statements, st.op = "if", Follows(st)
    PROVE  /\ \A v \in SetBy(st) : /\ IsGuardOf(st, v) /\ Previous # Unlisted
                                   /\ \E t \in ToSet(st.init) \cup {Previous} : AssignsFromDatabase(t, v)
           /\ FromDatabase(Previous) => st.init = <<>>
<1>1. \A t, v : AssignsFromDatabase(t, v) <=> v \in JustSet(t)
  BY DEF AssignsFromDatabase, AssignsTo, JustSet, FromDatabase
<1>2. \A t, v : v \in JustSet(t) <=> FromDatabase(t) /\ v = t.v
  BY DEF JustSet
<1>3. ~FromDatabase(Unlisted)
  BY DEF FromDatabase, Unlisted
<1>4. FromDatabase(Previous) => st.init = <<>>
  BY FollowsFacts, InitFacts
<1>5. CASE st.init = <<>>
  BY <1>1, <1>2, <1>3, <1>5, FollowsFacts, InitFacts DEF SetBy
<1>6. CASE st.init # <<>>
  <2>1. PICK u : u = st.init[1] /\ ToSet(st.init) = {u} /\ SetBy(st) = JustSet(u)
    BY <1>6, InitFacts DEF SetBy
  <2>2. (FromDatabase(u) => IsGuardOf(st, u.v) /\ Previous # Unlisted) /\ ~FromDatabase(Previous)
    BY <2>1, <1>4, <1>6, FollowsFacts
  <2>3. ToSet(st.init) \cup {Previous} = {u, Previous}
    BY <2>1
  <2>. QED
    BY <1>1, <1>2, <1>6, <2>1, <2>2, <2>3
<1>. QED
  BY <1>4, <1>5, <1>6

\* s is what the execution has done once the init statement of st is executed.
Begins(st, s, H) ==
    /\ Core(file, OpenBranches(stack), H, s) /\ Pending(OpenBranches(stack), H, s, SetBy(st))
    /\ Held(stack, run) \subseteq H /\ Held(stack, s) \subseteq H /\ Passing(stack, s)
    /\ s.logged = run.logged /\ s.tested = run.tested /\ s.entered = run.entered /\ s.left = "running"

LEMMA BegunSound ==
    ASSUME Wild = {}, IInv, ~Over, NEW st \in Ahead, st.op = "if", Follows(st), NEW s \in Begun(st)
    PROVE  \E H : Begins(st, s, H)
<1>. DEFINE B == OpenBranches(stack)
            t == st.init[1]
            db == t.from = "db"
            H == Held(stack, run) \cup {<<t.v, s.env[t.v]>>}
<1>1. st \in Statements
  BY StateFacts, AheadPassed
<1>2. CASE st.init = <<>>
  <2>1. s = run
    BY <1>2 DEF Begun
  <2>2. SetBy(st) = JustSet(Previous)
    BY <1>2 DEF SetBy
  <2>3. Begins(st, run, Held(stack, run))
    BY <2>2, StateFacts DEF Begins
  <2>. QED
    BY <2>1, <2>3
<1>3. CASE st.init # <<>>
  <2>1. /\ s \in Assigned(t, run) /\ t \in Statements /\ t.op = "assign" /\ t \in Inspect(<<st>>) /\ t \in ToSet(st.init)
        /\ SetBy(st) = JustSet(t)
    BY <1>1, <1>3, InitFacts DEF Begun, SetBy
  <2>2. t.from \notin Vars /\ ~FromDatabase(Previous) /\ t.v \in Vars
    BY <1>1, <1>3, <2>1, SetByFacts, FollowsFacts, StatementParts
  <2>. HIDE DEF t
  <2>3. CallGives(run, s, t.v, db) /\ db \in BOOLEAN
    BY <2>1, <2>2, StateFacts, AssignedCalls
  <2>4. \A b \in B : Var(b) # t.v
    BY <2>1, BranchesSpared DEF AssignsTo
  <2>5. Core(file, B, Held(stack, run), run) /\ Pending(B, Held(stack, run), run, {})
    BY <2>2, StateFacts DEF JustSet
  <2>. HIDE DEF B, db
  <2>6. Core(file, B, H, s)
    BY <2>2, <2>3, <2>4, <2>5, CallKeeps
  <2>7. Pending(B, H, s, IF db THEN {t.v} ELSE {})
    BY <2>2, <2>3, <2>5, CallLeavesPending
  <2>8. JustSet(t) = IF db THEN {t.v} ELSE {}
    BY <2>1 DEF JustSet, FromDatabase, db
  <2>10. /\ s.logged = run.logged /\ s.tested = run.tested /\ s.entered = run.entered /\ s.left = run.left
         /\ \A v \in Vars : v # t.v => s.env[v] = run.env[v]
    <3>1. run.env \in [Vars -> Errors]
      BY StateFacts DEF Runs
    <3>. QED
      BY <2>3, <3>1 DEF CallGives
  <2>11. Held(stack, s) \subseteq H
    <3>1. \A v \in Vars : <<v, s.env[v]>> \in H
      BY <2>10, HeldFacts
    <3>. QED
      BY <3>1, HeldFacts
  <2>12. Passing(stack, s)
    BY <2>10, StateFacts, PassingKeeps DEF Cause
  <2>13. Held(stack, run) \subseteq H /\ s.left = "running"
    BY <2>10, StateFacts
  <2>. HIDE DEF H
  <2>14. Begins(st, s, H)
    BY <2>1, <2>6, <2>7, <2>8, <2>10, <2>11, <2>12, <2>13 DEF Begins, B
  <2>. QED
    BY <2>14
<1>. QED
  BY <1>2, <1>3

\* The values a block hides, and the names it hides them under.
LEMMA HiddenFacts ==
    ASSUME NEW st \in Statements, st.op = "if", NEW list \in {st.body, st.els},
           NEW s, s \in Runs, run \in Runs
    PROVE  /\ Hidden(st, list, s) \in Outers
           /\ DOMAIN Hidden(st, list, s) \subseteq AssignedIn(<<st>>)
           /\ {<<v, Hidden(st, list, s)[v]>> : v \in DOMAIN Hidden(st, list, s)}
                 \subseteq {<<v, run.env[v]>> : v \in Vars} \cup {<<v, s.env[v]>> : v \in Vars}
<1>. DEFINE D == Declared(st.init) \cup Declared(list)
            h(v) == IF v \in Declared(st.init) THEN run.env[v] ELSE s.env[v]
<1>1. IsBlock(st.init, st) /\ IsBlock(list, st)
  BY StatementParts
<1>2. ASSUME NEW l, IsBlock(l, st) PROVE Declared(l) \subseteq AssignedIn(<<st>>)
  <2>. SUFFICES ASSUME NEW v \in Declared(l) PROVE v \in AssignedIn(<<st>>)
    OBVIOUS
  <2>1. PICK i \in DOMAIN l : l[i].op = "assign" /\ v = l[i].v
    BY DEF Declared
  <2>2. l \in Seq(Statements)
    BY <1>2 DEF IsBlock
  <2>3. l[i] \in Statements /\ l[i] \in Inspect(l) /\ Inspect(l) \subseteq Inspect(<<st>>)
    <3>1. l[i] \in Statements
      BY <2>2
    <3>2. l[i] \in Inspect(l)
      BY <2>2, InspectParts
    <3>3. Inspect(l) \subseteq Inspect(<<st>>)
      BY <1>2, InspectParts
    <3>. QED
      BY <3>1, <3>2, <3>3
  <2>4. v \in Vars
    BY <2>1, <2>3, StatementParts
  <2>. QED
    BY <2>1, <2>3, <2>4 DEF AssignedIn, AssignsTo
<1>3. D \subseteq AssignedIn(<<st>>) /\ D \subseteq Vars
  BY <1>1, <1>2 DEF AssignedIn
<1>4. \A v \in D : h(v) \in Errors /\ (h(v) = run.env[v] \/ h(v) = s.env[v])
  BY <1>3 DEF Runs
<1>5. PICK g : g = Hidden(st, list, s)
  OBVIOUS
<1>6. g = [v \in D |-> h(v)]
  BY <1>5 DEF Hidden
<1>. HIDE DEF D, h
<1>7. g \in [D -> Errors] /\ DOMAIN g = D /\ \A v \in D : g[v] = h(v)
  BY <1>4, <1>6
<1>8. g \in Outers
  BY <1>3, <1>7 DEF Outers
<1>. QED
  BY <1>3, <1>4, <1>5, <1>7, <1>8

LEMMA GuardFacts ==
    ASSUME NEW st, NEW v, IsGuardOf(st, v)
    PROVE  st.op = "if" /\ st.cond.k = "guard" /\ st.cond.v = v /\ TestsError(st.cond)
<1>1. st.op = "if" /\ st.cond = [k |-> "guard", v |-> v]
  BY DEF IsGuardOf
<1>. QED
  BY <1>1 DEF TestsError

\* Entering a block, from what the blocks are once the if statement is passed.
LEMMA BlockEntered ==
    ASSUME IInv, ~Over, NEW st \in Ahead, st.op = "if", NEW s, s \in Runs,
           NEW list \in {st.body, st.els}, NEW before \in {NoStmt, Unlisted}, NEW entry \in Nat,
           entry # 0 => list = st.body,
           NEW r, r \in Runs, r.env = s.env, r.left = "running",
           NEW B, B = OpenBranches(stack) \cup (IF entry = 0 THEN {} ELSE {[test |-> st, entry |-> entry]}),
           NEW H, Core(file, B, H, r), Pending(B, H, r, {}),
           Held(stack, run) \subseteq H, Held(stack, s) \subseteq H,
           Passing(stack, r), PassedIn(Passed(st), r, Len(Passed(st)), st)
    PROVE  Sound(file, Append(Passed(st), Block(list, before, Hidden(st, list, s), entry)), r)
<1>. DEFINE K == Passed(st)
            hidden == Hidden(st, list, s)
            Hid == {<<v, hidden[v]>> : v \in DOMAIN hidden}
<1>1. /\ st \in Statements /\ Shape(K) /\ Last(K).at > 1 /\ Before(Last(K)) = st
      /\ OpenBranches(K) = OpenBranches(stack) /\ Held(K, r) \subseteq Held(stack, r) /\ Passing(K, r)
  BY StateFacts, AheadPassed
<1>2. hidden \in Outers /\ DOMAIN hidden \subseteq AssignedIn(<<st>>) /\ Hid \subseteq H
  <2>1. {<<v, run.env[v]>> : v \in Vars} \subseteq H /\ {<<v, s.env[v]>> : v \in Vars} \subseteq H
    BY HeldFacts
  <2>. QED
    BY <2>1, <1>1, StateFacts, HiddenFacts
<1>3. PICK fr : fr = Block(list, before, hidden, entry)
  OBVIOUS
<1>4. list \in Seq(Statements)
  <2>1. IsBlock(list, st)
    BY <1>1, StatementParts
  <2>. QED
    BY <2>1 DEF IsBlock
<1>5. /\ fr.list = list /\ fr.at = 1 /\ fr.before = before /\ fr.outer = hidden /\ fr.entry = entry
      /\ fr = [list |-> list, at |-> 1, before |-> before, outer |-> hidden, entry |-> entry]
  BY <1>3 DEF Block
<1>. HIDE DEF K, hidden
<1>6. fr \in Frames
  BY <1>2, <1>4, <1>5 DEF Frames
<1>7. PICK L : L = Append(K, fr)
  OBVIOUS
<1>8. /\ Shape(L) /\ Last(L) = fr /\ OpenBranches(L) = B /\ Held(L, r) \subseteq Held(K, r) \cup Hid
      /\ Passing(L, r)
  <2>1. Pushes(K, L, st, fr)
    BY <1>1, <1>2, <1>5, <1>6, <1>7 DEF Pushes
  <2>2. Pushed(K, L, st, fr)
    BY <2>1, PushKeeps
  <2>3. {<<v, fr.outer[v]>> : v \in DOMAIN fr.outer} = Hid
    BY <1>5
  <2>. HIDE DEF Hid
  <2>. QED
    BY <2>2, <2>3, <1>1, <1>5 DEF Pushed
<1>9. Held(stack, r) = Held(stack, s)
  BY DEF Held
<1>10. Held(L, r) \subseteq H
  BY <1>1, <1>2, <1>8, <1>9
<1>. HIDE DEF Hid
<1>11. PICK G \in SUBSET H : G = Held(L, r) /\ \A v \in Vars : <<v, r.env[v]>> \in G
  BY <1>10, HeldFacts
<1>12. Core(file, OpenBranches(L), Held(L, r), r) /\ Pending(OpenBranches(L), Held(L, r), r, {})
  BY <1>8, <1>11, FewerHeld
<1>13. Before(Last(L)) = before
  BY <1>5, <1>8 DEF Before
<1>14. JustSet(before) = {}
  BY DEF JustSet, FromDatabase, NoStmt, Unlisted
<1>15. Running(L, r)
  BY <1>12, <1>13, <1>14 DEF Running, Returned
<1>. QED
  BY <1>3, <1>7, <1>8, <1>12, <1>15 DEF Sound, K, hidden

LEMMA PlainBlock ==
    ASSUME Wild = {}, IInv, ~Over, NEW st \in Ahead, st.op = "if", NEW s, NEW H,
           Begins(st, s, H), Pending(OpenBranches(stack), H, s, {}),
           NEW list \in {st.body, st.els}, NEW before \in {NoStmt, Unlisted},
           run' = Tested(st.cond, s), file' = file,
           stack' = Append(Passed(st), Block(list, before, Hidden(st, list, s), 0))
    PROVE  IInv'
<1>. DEFINE r == run'
            B == OpenBranches(stack)
<1>1. st \in Statements /\ OpenBranches(Passed(st)) = B
  BY StateFacts, AheadPassed
<1>2. s \in Runs /\ Core(file, B, H, s) /\ s.left = "running" /\ st.cond.v \in Vars
  BY <1>1, StatementParts DEF Begins, Core
<1>3. Sees(s, r, {}) /\ r.left = "running" /\ (st.cond.k = "pred" => s.env[st.cond.v] \in r.tested)
  <2>1. CASE st.cond.k = "pred"
    <3>1. r = [s EXCEPT !.tested = s.tested \cup {s.env[st.cond.v]}]
      BY <2>1 DEF Tested
    <3>2. s.env[st.cond.v] \in Errors
      BY <1>2 DEF Runs
    <3>. HIDE DEF r
    <3>. QED
      BY <3>1, <3>2, <1>2 DEF Sees, Runs
  <2>2. CASE st.cond.k # "pred"
    <3>1. r = s
      BY <2>2 DEF Tested
    <3>. HIDE DEF r
    <3>. QED
      BY <2>2, <3>1, <1>2 DEF Sees
  <2>. QED
    BY <2>1, <2>2
<1>. HIDE DEF r
<1>4. PICK V \in SUBSET Vars : V = {}
  OBVIOUS
<1>5. {s.env[v] : v \in V} = {}
  BY <1>4
<1>6. Core(file, B, H, r) /\ Pending(B, H, r, {})
  BY <1>2, <1>3, <1>4, <1>5, SeesKeeps DEF B
<1>7. r \in Runs /\ r.env = s.env /\ r.entered = s.entered /\ r.logged = s.logged /\ s.tested \subseteq r.tested
  BY <1>3 DEF Sees
<1>8. Passing(stack, r)
  BY <1>2, <1>7, PassingKeeps DEF Cause, Begins
<1>9. PassedIn(Passed(st), r, Len(Passed(st)), st)
  <2>1. ASSUME NEW b \in B, st.cond = [k |-> "pred", v |-> Var(b)] PROVE Cause(b, r) \in r.tested
    <3>1. s.env[Var(b)] = Cause(b, s)
      BY <1>2 DEF Core, Open
    <3>2. st.cond.k = "pred" /\ st.cond.v = Var(b)
      BY <2>1
    <3>. QED
      BY <3>1, <3>2, <1>3, <1>7 DEF Cause
  <2>2. \A k \in Taken(Passed(st)) : Branch(Passed(st), k) \in B
    BY <1>1 DEF OpenBranches
  <2>. QED
    BY <2>1, <2>2 DEF PassedIn
<1>10. Held(stack, run) \subseteq H /\ Held(stack, s) \subseteq H
  BY DEF Begins
<1>11. B = OpenBranches(stack) \cup (IF 0 = 0 THEN {} ELSE {[test |-> st, entry |-> 0]})
  OBVIOUS
<1>. HIDE DEF B
<1>12. Sound(file, Append(Passed(st), Block(list, before, Hidden(st, list, s), 0)), r)
  BY <1>2, <1>3, <1>6, <1>7, <1>8, <1>9, <1>10, <1>11, BlockEntered
<1>. QED
  BY <1>12 DEF IInv, r

LEMMA ThenSound ==
    ASSUME Wild = {}, IInv, NEW st \in Ahead, DoThen(st)
    PROVE  IInv'
<1>1. ~Over /\ st.op = "if" /\ Follows(st) /\ file' = file /\ ~TestsError(st.cond)
  BY DEF DoThen, Executes
<1>2. PICK s \in Begun(st) : /\ run' = Tested(st.cond, s)
                             /\ stack' = Append(Passed(st), Block(st.body, NoStmt, Hidden(st, st.body, s), 0))
  BY DEF DoThen
<1>3. PICK H : Begins(st, s, H)
  BY <1>1, BegunSound
<1>4. st \in Statements
  BY <1>1, StateFacts, AheadPassed
<1>5. SetBy(st) = {}
  <2>1. \A v \in SetBy(st) : IsGuardOf(st, v)
    BY <1>1, <1>4, SetByFacts
  <2>. QED
    BY <2>1, <1>1, GuardFacts
<1>6. Pending(OpenBranches(stack), H, s, {})
  BY <1>3, <1>5 DEF Begins
<1>. QED
  BY <1>1, <1>2, <1>3, <1>6, PlainBlock

LEMMA ElseSound ==
    ASSUME Wild = {}, IInv, NEW st \in Ahead, DoElse(st)
    PROVE  IInv'
<1>1. ~Over /\ st.op = "if" /\ Follows(st) /\ file' = file
  BY DEF DoElse, Executes
<1>2. PICK s \in Begun(st) :
         /\ TestsError(st.cond) => s.env[st.cond.v] = NoErr
         /\ run' = Tested(st.cond, s)
         /\ stack' = Append(Passed(st), Block(st.els, IF st.chained THEN Unlisted ELSE NoStmt, Hidden(st, st.els, s), 0))
  BY DEF DoElse
<1>3. PICK H : Begins(st, s, H)
  BY <1>1, BegunSound
<1>4. st \in Statements
  BY <1>1, StateFacts, AheadPassed
<1>5. \A v \in SetBy(st) : s.env[v] = NoErr
  <2>1. \A v \in SetBy(st) : IsGuardOf(st, v)
    BY <1>1, <1>4, SetByFacts
  <2>. QED
    BY <2>1, <1>2, GuardFacts
<1>6. Pending(OpenBranches(stack), H, s, {})
  BY <1>3, <1>5 DEF Begins, Pending, IsDb
<1>7. PICK before \in {NoStmt, Unlisted} : before = IF st.chained THEN Unlisted ELSE NoStmt
  OBVIOUS
<1>. QED
  BY <1>1, <1>2, <1>3, <1>6, <1>7, PlainBlock

\* What is reported of a branch that is taken for e.
LEMMA ReportsFacts ==
    ASSUME NEW st, NEW previous
    PROVE  /\ ReportsOf(st, previous) \in SUBSET {"DROPPED", "SQLCLASS"}
           /\ "DROPPED" \in ReportsOf(st, previous) <=> file # "excluded" /\ ReportDropped(st)
           /\ "SQLCLASS" \in ReportsOf(st, previous) <=> file = "plain" /\ ReportSQLClass(st, previous)
BY DEF ReportsOf

LEMMA BranchSound ==
    ASSUME Wild = {}, IInv, NEW st \in Ahead, TakeBranch(st)
    PROVE  IInv'
<1>. DEFINE x == st.cond.v
            B == OpenBranches(stack)
            reports == ReportsOf(st, Previous)
            r == run'
<1>1. ~Over /\ st.op = "if" /\ Follows(st) /\ file' = file /\ TestsError(st.cond)
  BY DEF TakeBranch, Executes
<1>2. PICK s \in Begun(st) :
         /\ s.env[x] # NoErr /\ Fresh(s.env[x])
         /\ r = [s EXCEPT !.entered = Append(@, [cause |-> s.env[x], reports |-> reports])]
         /\ stack' = Append(Passed(st), Block(st.body, NoStmt, Hidden(st, st.body, s), Len(s.entered) + 1))
  BY DEF TakeBranch
<1>3. PICK H : Begins(st, s, H)
  BY <1>1, BegunSound
<1>4. PICK e : e = s.env[x]
  OBVIOUS
<1>5. st \in Statements /\ x \in Vars /\ OpenBranches(Passed(st)) = B
  BY <1>1, StateFacts, AheadPassed, StatementParts
<1>6. s \in Runs /\ Core(file, B, H, s) /\ s.left = "running" /\ s.entered = run.entered /\ s.logged = run.logged
  BY <1>3 DEF Begins, Core
<1>7. e \in Errors /\ e # NoErr /\ s.entered \in Seq(Entries)
  BY <1>2, <1>4, <1>5, <1>6 DEF Runs
<1>8. e \notin s.logged /\ \A b \in B : Cause(b, s) # e
  <2>1. e \notin run.logged \cup {run.entered[i].cause : i \in Inside}
    BY <1>2, <1>4 DEF Fresh
  <2>2. ASSUME NEW b \in B PROVE b.entry \in Inside
    <3>1. PICK k \in Taken(stack) : b = Branch(stack, k)
      BY DEF OpenBranches
    <3>. QED
      BY <3>1 DEF Branch, Taken, Inside
  <2>. QED
    BY <2>1, <2>2, <1>6 DEF Cause
<1>9. BranchFollows(st) /\ ErrNilCheck(st.cond)
  BY <1>1, FollowsFacts, BranchFacts
<1>. HIDE DEF reports, r
<1>10. /\ reports \in SUBSET {"DROPPED", "SQLCLASS"}
       /\ file # "excluded" => ("DROPPED" \in reports <=> ~IdentUsed(st, x))
       /\ file = "excluded" => "DROPPED" \notin reports
  BY <1>9, ReportsFacts DEF ReportDropped, reports
<1>11. IsDb(e) => x \in SetBy(st)
  <2>1. <<x, e>> \in H
    BY <1>4, <1>5, <1>6 DEF Core, Unshared
  <2>2. Pending(B, H, s, SetBy(st))
    BY <1>3 DEF Begins
  <2>3. ~Handled(B, s, e)
    BY <1>8 DEF Handled
  <2>. QED
    BY <2>1, <2>2, <2>3 DEF Pending
<1>12. file = "plain" /\ IsDb(e) /\ Unclassified(st.body) => "SQLCLASS" \in reports
  <2>1. x \in SetBy(st) => Previous # Unlisted /\ \E t \in ToSet(st.init) \cup {Previous} : AssignsFromDatabase(t, x)
    BY <1>1, <1>5, SetByFacts
  <2>. QED
    BY <2>1, <1>9, <1>11, ReportsFacts DEF ReportSQLClass, Unclassified, reports
<1>14. PICK entry : entry = Len(s.entered) + 1 /\ entry \in Nat /\ entry # 0
  BY <1>7
<1>15. Enters(s, r, e, reports)
  <2>1. PICK new : new = [cause |-> e, reports |-> reports]
    OBVIOUS
  <2>2. new \in Entries
    BY <2>1, <1>7, <1>10 DEF Entries
  <2>3. PICK entered : entered = Append(s.entered, new)
    OBVIOUS
  <2>4. entered \in Seq(Entries)
    BY <2>2, <2>3, <1>7
  <2>5. r = [s EXCEPT !.entered = entered]
    BY <2>1, <2>3, <1>2, <1>4
  <2>. QED
    BY <2>1, <2>3, <2>4, <2>5, <1>6 DEF Enters, Runs
<1>16. PICK C : C = B \cup {Taking(s, st)} /\ C = B \cup (IF entry = 0 THEN {} ELSE {[test |-> st, entry |-> entry]})
  BY <1>14 DEF Taking
<1>17. /\ Core(file, C, H, r)
       /\ \A b \in B : Cause(b, r) = Cause(b, s) /\ b.entry <= Len(s.entered)
       /\ Cause(Taking(s, st), r) = e
  <2>1. Enterable(file, B, H, s, st, e, reports)
    BY <1>1, <1>4, <1>5, <1>6, <1>7, <1>8, <1>9, <1>10, <1>12 DEF Enterable
  <2>. QED
    BY <2>1, <1>15, <1>16, EnterKeeps
<1>18. r \in Runs /\ r.env = s.env /\ r.logged = s.logged /\ r.tested = s.tested /\ r.left = "running"
  BY <1>6, <1>15 DEF Enters
<1>19. Pending(C, H, r, {})
  <2>. SUFFICES ASSUME NEW p \in H, IsDb(p[2]), ~Handled(C, r, p[2]) PROVE FALSE
    BY DEF Pending
  <2>1. ~Handled(B, s, p[2]) /\ p[2] # e
    BY <1>16, <1>17, <1>18 DEF Handled
  <2>2. p[1] \in SetBy(st) /\ s.env[p[1]] = p[2]
    BY <2>1, <1>3 DEF Begins, Pending
  <2>3. IsGuardOf(st, p[1])
    BY <2>2, <1>1, <1>5, SetByFacts
  <2>4. p[1] = x
    BY <2>3, GuardFacts
  <2>. QED
    BY <2>1, <2>2, <2>4, <1>4
<1>20. Passing(stack, r)
  <2>1. Passing(stack, s) /\ r.logged = s.logged /\ r.tested = s.tested /\ r.left = s.left
    BY <1>3, <1>6, <1>18 DEF Begins
  <2>. QED
    BY <2>1, <1>17, PassingKeeps DEF B
<1>21. PassedIn(Passed(st), r, Len(Passed(st)), st)
  <2>1. \A v : st.cond # [k |-> "pred", v |-> v]
    BY <1>1 DEF TestsError
  <2>. QED
    BY <1>1, <2>1 DEF PassedIn
<1>22. Held(stack, run) \subseteq H /\ Held(stack, s) \subseteq H
  BY <1>3 DEF Begins
<1>. HIDE DEF B
<1>23. Sound(file, Append(Passed(st), Block(st.body, NoStmt, Hidden(st, st.body, s), entry)), r)
  BY <1>1, <1>6, <1>14, <1>16, <1>17, <1>18, <1>19, <1>20, <1>21, <1>22, BlockEntered DEF B
<1>. QED
  BY <1>1, <1>2, <1>14, <1>23 DEF IInv, r

\* A branch that is left at its end has had its error logged.
LEMMA LeftBehind ==
    ASSUME Wild = {}, NEW K, NEW r, NEW f, NEW H, Shape(K), Passing(K, r), Core(f, OpenBranches(K), H, r), r.left = "running",
           Len(K) \in Taken(K), Last(K).at > Len(Last(K).list), NEW b, b = Branch(K, Len(K))
    PROVE  IdentUsed(b.test, Var(b)) /\ Cause(b, r) \in r.logged
<1>. DEFINE n == Len(K)
            body == b.test.body
            v == Var(b)
<1>1. b \in OpenBranches(K)
  BY DEF OpenBranches
<1>2. n \in 2..Len(K) /\ n \in DOMAIN K /\ Last(K) = K[n] /\ K[n].at \in 1..(Len(K[n].list) + 1) /\ K[n].list \in Seq(Statements)
      /\ Len(K[n].list) \in Nat
  BY ShapeFacts
<1>3. K[n].list = body /\ b.test = IfOf(K, n)
  BY <1>2 DEF Shape, Belongs, Taken, Branch
<1>4. BranchFollows(b.test) /\ r.env[v] = Cause(b, r)
  BY <1>1 DEF Core, Open
<1>5. v \in Vars
  BY <1>1, BranchVars DEF Core
<1>6. body \in Seq(Statements) /\ DOMAIN body = 1..Len(body) /\ Len(body) \in Nat /\ K[n].at = Len(body) + 1
  BY <1>2, <1>3
<1>7. \A i \in DOMAIN body : PassedIn(K, r, n, body[i])
  BY <1>2, <1>3, <1>6 DEF Passing
<1>. HIDE DEF n, body, v
<1>8. ~Leaves(body)
  <2>. SUFFICES ASSUME Leaves(body) PROVE FALSE
    OBVIOUS
  <2>1. body # <<>> /\ Last(body).op = "raise" /\ Last(body) = body[Len(body)]
    BY DEF Leaves, Last
  <2>2. Len(body) \in DOMAIN body
    BY <2>1, <1>6
  <2>. QED
    BY <2>1, <2>2, <1>7 DEF PassedIn
<1>9. IdentUsed(b.test, v)
  BY <1>4, <1>8, BranchFacts DEF body, v, Var
<1>10. PICK nm \in Inspect(body) : v \in NamesIn(nm)
  BY <1>9 DEF IdentUsed, body
<1>11. PICK i \in DOMAIN body : nm \in Inspect(<<body[i]>>)
  BY <1>6, InspectParts
<1>12. body[i] \in Statements /\ PassedIn(K, r, n, body[i]) /\ body[i] \in Inspect(body)
  <2>1. body[i] \in Inspect(body)
    BY <1>6, InspectParts
  <2>. QED
    BY <2>1, <1>6, <1>7
<1>13. body[i].op # "if"
  <2>. SUFFICES ASSUME body[i].op = "if" PROVE FALSE
    OBVIOUS
  <2>1. IdentUsedInIf(body[i], v)
    BY <1>10, <1>11 DEF IdentUsedInIf
  <2>. QED
    BY <2>1, <1>4, <1>8, BranchFacts DEF body, v, Var
<1>14. nm = body[i] /\ body[i].op \in {"assign", "log", "do", "raise"}
  BY <1>11, <1>12, <1>13, InspectParts, StatementParts
<1>15. ~AssignsTo(body[i], v)
  BY <1>4, <1>12, BranchFacts DEF body, v, Var
<1>16. body[i].op = "log" /\ body[i].v = v
  <2>1. CASE body[i].op = "assign"
    BY <2>1, <1>5, <1>10, <1>12, <1>14, <1>15 DEF NamesIn, PassedIn, AssignsTo
  <2>2. CASE body[i].op = "do"
    BY <2>2, <1>10, <1>14 DEF NamesIn
  <2>3. CASE body[i].op = "raise"
    BY <2>3, <1>12 DEF PassedIn
  <2>4. CASE body[i].op = "log"
    BY <2>4, <1>10, <1>14 DEF NamesIn
  <2>. QED
    BY <1>14, <2>1, <2>2, <2>3, <2>4
<1>. QED
  BY <1>9, <1>12, <1>16 DEF PassedIn, n, v

LEMMA LeaveSound ==
    ASSUME Wild = {}, IInv, LeaveBlock
    PROVE  IInv'
<1>. DEFINE n == Len(stack)
            L == Front(stack)
            B == OpenBranches(stack)
            C == OpenBranches(L)
            H == Held(stack, run)
            s == run'
            outer == Last(stack).outer
            env == [v \in Vars |-> IF v \in DOMAIN outer THEN outer[v] ELSE run.env[v]]
<1>1. /\ ~Over /\ n > 1 /\ ~More /\ ~FromDatabase(Previous) /\ Top = Last(stack)
      /\ s = [run EXCEPT !.env = env] /\ stack' = L /\ file' = file
  BY DEF LeaveBlock, Top
<1>2. /\ Shape(stack) /\ Passing(stack, run) /\ run \in Runs /\ run.left = "running"
      /\ Core(file, B, H, run) /\ Pending(B, H, run, {})
  BY <1>1, StateFacts DEF JustSet
<1>3. /\ n \in DOMAIN stack /\ Last(stack) = stack[n] /\ outer \in Outers
  <2>1. n \in DOMAIN stack /\ Last(stack) = stack[n] /\ stack[n] \in Frames
    BY <1>1, <1>2, ShapeFacts
  <2>. QED
    BY <2>1 DEF Frames
<1>4. DOMAIN outer \subseteq Vars /\ \A v \in DOMAIN outer : outer[v] \in Errors
  BY <1>3 DEF Outers
<1>5. env \in [Vars -> Errors]
  BY <1>2, <1>4 DEF Runs
<1>6. \A v \in Vars : env[v] = IF v \in DOMAIN outer THEN outer[v] ELSE run.env[v]
  OBVIOUS
<1>. HIDE DEF env, s
<1>7. s \in Runs /\ s.env = env /\ s = [run EXCEPT !.env = s.env]
      /\ s.logged = run.logged /\ s.tested = run.tested /\ s.entered = run.entered /\ s.left = "running"
  BY <1>1, <1>2, <1>5 DEF Runs
<1>8. /\ Shape(L) /\ Last(L).at > 1 /\ Before(Last(L)).op = "if"
      /\ C \subseteq B
      /\ \A b \in B \ C : n \in Taken(stack) /\ b = Branch(stack, n)
      /\ \A b \in C : DOMAIN outer \subseteq AssignedIn(b.test.body)
      /\ \A k \in DOMAIN L : L[k] = stack[k] /\ k \in DOMAIN stack
      /\ \A r : Passing(stack, r) => Passing(L, r)
  BY <1>1, <1>2, PopKeeps
<1>9. \A v \in DOMAIN outer : <<v, outer[v]>> \in H
  BY <1>3, HeldFacts
<1>. HIDE DEF L, outer
<1>10. \A v \in Vars : <<v, s.env[v]>> \in H
  BY <1>6, <1>7, <1>9, HeldFacts
<1>11. Held(L, s) \subseteq H
  <2>. DEFINE HL(k) == {<<v, L[k].outer[v]>> : v \in DOMAIN L[k].outer}
              HS(k) == {<<v, stack[k].outer[v]>> : v \in DOMAIN stack[k].outer}
  <2>1. \A k \in DOMAIN L : HL(k) = HS(k) /\ k \in DOMAIN stack
    BY <1>8
  <2>2. Held(L, s) = {<<v, s.env[v]>> : v \in Vars} \cup UNION {HL(k) : k \in DOMAIN L}
    BY DEF Held
  <2>3. UNION {HS(k) : k \in DOMAIN stack} \subseteq H
    BY DEF Held
  <2>. HIDE DEF HL, HS, H
  <2>. QED
    BY <2>1, <2>2, <2>3, <1>10
<1>12. PICK G \in SUBSET H : G = Held(L, s) /\ \A v \in Vars : <<v, s.env[v]>> \in G
  BY <1>11, HeldFacts
<1>13. \A b \in C : s.env[Var(b)] = run.env[Var(b)]
  <2>. SUFFICES ASSUME NEW b \in C PROVE Var(b) \in Vars \ DOMAIN outer
    BY <1>6, <1>7
  <2>1. b \in B /\ Var(b) \in Vars /\ BranchFollows(b.test)
    BY <1>2, <1>8, BranchVars DEF Core, Open
  <2>2. \A nm \in Inspect(b.test.body) : ~AssignsTo(nm, Var(b))
    BY <2>1, BranchFacts DEF Var
  <2>. QED
    BY <2>1, <2>2, <1>8 DEF AssignedIn
<1>14. \A b \in B \ C : IdentUsed(b.test, Var(b)) /\ Cause(b, run) \in run.logged
  <2>. SUFFICES ASSUME NEW b \in B \ C PROVE IdentUsed(b.test, Var(b)) /\ Cause(b, run) \in run.logged
    OBVIOUS
  <2>1. n \in Taken(stack) /\ b = Branch(stack, n)
    BY <1>8
  <2>2. Last(stack).at > Len(Last(stack).list)
    <3>1. Last(stack).at \in Nat /\ Len(Last(stack).list) \in Nat
      BY <1>2, <1>3, ShapeFacts
    <3>. QED
      BY <3>1, <1>1 DEF More
  <2>. QED
    BY <2>1, <2>2, <1>2, LeftBehind
<1>. HIDE DEF B, C, H, n
<1>15. Core(file, C, G, s) /\ Pending(C, G, s, {})
  BY <1>2, <1>7, <1>8, <1>12, <1>13, <1>14, LeaveKeeps
<1>16. Passing(L, s)
  <2>1. Passing(stack, s)
    BY <1>2, <1>7, PassingKeeps DEF Cause
  <2>. QED
    BY <2>1, <1>8
<1>17. Running(L, s)
  <2>1. JustSet(Before(Last(L))) = {}
    BY <1>8 DEF JustSet, FromDatabase
  <2>. QED
    BY <2>1, <1>7, <1>12, <1>15 DEF Running, Returned, C
<1>. QED
  BY <1>1, <1>8, <1>12, <1>15, <1>16, <1>17 DEF IInv, Sound, s, C

LEMMA InitSound ==
    ASSUME Init
    PROVE  IInv
<1>. DEFINE K == stack
<1>1. PICK fr : fr = [list |-> <<>>, at |-> 1, before |-> NoStmt, outer |-> <<>>, entry |-> 0]
  OBVIOUS
<1>2. stack = <<fr>> /\ run = Start /\ file \in {"plain", "excluded", "utility"}
  BY <1>1 DEF Init, Block
<1>3. <<>> \in Outers
  <2>1. <<>> = [x \in {} |-> NoErr]
    OBVIOUS
  <2>2. [x \in {} |-> NoErr] \in [{} -> Errors] /\ {} \in SUBSET Vars
    OBVIOUS
  <2>. QED
    BY <2>1, <2>2 DEF Outers
<1>4. fr \in Frames
  BY <1>1, <1>3 DEF Frames
<1>5. /\ fr.list = <<>> /\ fr.at = 1 /\ fr.outer = <<>> /\ fr.entry = 0 /\ fr.before = NoStmt
      /\ Len(fr.list) = 0 /\ DOMAIN fr.outer = {}
  BY <1>1
<1>6. stack \in Seq(Frames) /\ Len(stack) = 1 /\ DOMAIN stack = {1} /\ stack[1] = fr /\ stack # <<>>
  BY <1>2, <1>4
<1>7. Taken(stack) = {}
  BY <1>5, <1>6 DEF Taken
<1>8. OpenBranches(stack) = {}
  BY <1>7 DEF OpenBranches
<1>9. Shape(stack)
  <2>1. Framed(stack)
    BY <1>5, <1>6 DEF Framed
  <2>2. 2..Len(stack) = {} /\ \A j, k \in DOMAIN stack : ~(j < k)
    BY <1>6
  <2>. QED
    BY <2>1, <2>2 DEF Shape
<1>10. Passing(stack, run)
  <2>1. \A k \in DOMAIN stack : 1..(stack[k].at - 1) = {}
    BY <1>5, <1>6
  <2>. QED
    BY <2>1 DEF Passing
<1>11. /\ run.env = [v \in Vars |-> NoErr] /\ run.calls = 0 /\ run.logged = {} /\ run.tested = {}
       /\ run.entered = <<>> /\ run.left = "running" /\ DOMAIN run.entered = {}
  BY <1>2 DEF Start
<1>12. run \in Runs
  <2>1. [v \in Vars |-> NoErr] \in [Vars -> Errors] /\ <<>> \in Seq(Entries)
    BY DEF Errors
  <2>. QED
    BY <2>1, <1>2 DEF Runs, Start
<1>13. Held(stack, run) = {<<v, NoErr>> : v \in Vars}
  <2>1. {<<v, fr.outer[v]>> : v \in DOMAIN fr.outer} = {}
    BY <1>5
  <2>2. UNION {{<<v, stack[k].outer[v]>> : v \in DOMAIN stack[k].outer} : k \in DOMAIN stack} = {}
    BY <2>1, <1>6
  <2>3. {<<v, run.env[v]>> : v \in Vars} = {<<v, NoErr>> : v \in Vars}
    BY <1>11
  <2>. QED
    BY <2>2, <2>3 DEF Held
<1>14. Unshared(Held(stack, run), run)
  <2>1. \A p \in Held(stack, run) : p[2] = NoErr /\ p \in Vars \X Errors
    BY <1>13 DEF Errors
  <2>2. \A v \in Vars : <<v, run.env[v]>> \in Held(stack, run)
    BY HeldFacts
  <2>. QED
    BY <2>1, <2>2 DEF Unshared
<1>15. Core(file, OpenBranches(stack), Held(stack, run), run)
  BY <1>2, <1>8, <1>11, <1>12, <1>14 DEF Core, Open, ReportsSay, Dropping
<1>16. Running(stack, run)
  <2>1. Before(Last(stack)) = NoStmt
    BY <1>5, <1>6 DEF Last, Before
  <2>2. JustSet(NoStmt) = {}
    BY DEF JustSet, FromDatabase, NoStmt
  <2>3. \A p \in Held(stack, run) : ~IsDb(p[2])
    BY <1>13 DEF IsDb
  <2>. QED
    BY <2>1, <2>2, <2>3, <1>11 DEF Running, Pending, Returned
<1>. QED
  BY <1>9, <1>10, <1>15, <1>16 DEF IInv, Sound

LEMMA NextSound ==
    ASSUME Wild = {}, IInv, [Next]_vars
    PROVE  IInv'
<1>1. ASSUME NEW st \in Ahead, Step(st) PROVE IInv'
  BY <1>1, AssignSound, LogSound, OtherSound, RaiseSound, BranchSound, ThenSound, ElseSound DEF Step
<1>2. CASE LeaveBlock
  BY <1>2, LeaveSound
<1>3. CASE UNCHANGED vars
  BY <1>3 DEF vars, IInv
<1>. QED
  BY <1>1, <1>2, <1>3 DEF Next
-----------------------------------------------------------------------------
(* What the invariant says of the error branches.                          *)

LEMMA InsideFacts ==
    ASSUME NEW i \in Inside
    PROVE  \E k \in Taken(stack) : /\ Branch(stack, k) \in OpenBranches(stack) /\ Branch(stack, k).entry = i
                                   /\ Cause(Branch(stack, k), run) = run.entered[i].cause
                                   /\ Reports(Branch(stack, k), run) = run.entered[i].reports
<1>1. PICK k \in DOMAIN stack : stack[k].entry = i /\ i # 0
  BY DEF Inside
<1>2. k \in Taken(stack)
  BY <1>1 DEF Taken
<1>. QED
  BY <1>1, <1>2 DEF OpenBranches, Branch, Cause, Reports

\* The return that ends the function, seen from a branch it is in.
LEMMA ReturnFacts ==
    ASSUME IInv, Over, NEW k \in Taken(stack), NEW body, body = Branch(stack, k).test.body
    PROVE  /\ Previous.op = "raise" /\ Previous.as = run.left /\ Previous \in Inspect(body)
           /\ Previous.as \in Carriers => run.env[Previous.v] \in run.logged
           /\ body \in Seq(Statements)
           /\ k # Len(stack) => Previous \in Nested(body)
           /\ k = Len(stack) => /\ body # <<>> /\ Last(body) = Previous
                                /\ \A i \in DOMAIN body : PassedIn(stack, run, k, body[i])
           /\ body # <<>> => PassedIn(stack, run, k, body[1])
<1>. DEFINE n == Len(stack)
            at == stack[n].at
<1>1. /\ Shape(stack) /\ Passing(stack, run) /\ Returned(stack, run) /\ Previous = Before(Last(stack))
      /\ run.left # "running"
  BY DEF IInv, Sound, Running, Previous, Top, Over
<1>2. /\ n \in DOMAIN stack /\ Last(stack) = stack[n] /\ at \in 1..(Len(stack[n].list) + 1) /\ n \in Nat
      /\ k \in 2..n /\ k \in DOMAIN stack /\ IfOf(stack, k) \in Statements
      /\ stack[n].list \in Seq(Statements) /\ stack[k].list \in Seq(Statements) /\ stack[k].at \in Nat
      /\ stack[k].at \in 1..(Len(stack[k].list) + 1)
      /\ Len(stack[n].list) \in Nat /\ DOMAIN stack[n].list = 1..Len(stack[n].list)
      /\ DOMAIN stack[k].list = 1..Len(stack[k].list) /\ Len(stack[k].list) \in Nat
  BY <1>1, ShapeFacts
<1>3. stack[k].list = body /\ IfOf(stack, k).op = "if" /\ IsBlock(body, IfOf(stack, k))
  <2>1. Belongs(stack, k) /\ stack[k].entry # 0
    BY <1>1, <1>2 DEF Shape, Taken
  <2>2. stack[k].list = body /\ IfOf(stack, k).op = "if" /\ body = IfOf(stack, k).body
    BY <2>1 DEF Belongs, Branch
  <2>. QED
    BY <2>2, <1>2, StatementParts
<1>4. Previous.op = "raise" /\ Previous.as = run.left /\ at > 1
      /\ (Previous.as \in Carriers => run.env[Previous.v] \in run.logged)
  BY <1>1, <1>2 DEF Returned
<1>5. Previous = stack[n].list[at - 1] /\ at - 1 \in DOMAIN stack[n].list
  BY <1>1, <1>2, <1>4 DEF Before
<1>6. Previous \in Inspect(stack[n].list)
  BY <1>2, <1>5, InspectParts
<1>. HIDE DEF n, at
<1>7. ASSUME k # n PROVE Previous \in Nested(body) /\ Previous \in Inspect(body) /\ stack[k].at > 1
  <2>1. k < n /\ k + 1 \in 2..n /\ (k + 1) - 1 = k
    BY <1>2, <1>7
  <2>2. Inspect(stack[n].list) \subseteq Nested(stack[k].list)
    BY <2>1, <1>1, <1>2 DEF Shape, Encloses
  <2>3. Belongs(stack, k + 1)
    BY <2>1, <1>1 DEF Shape, n
  <2>. QED
    BY <2>1, <2>2, <2>3, <1>2, <1>3, <1>6, NestedInspected DEF Belongs
<1>8. ASSUME k = n
      PROVE  /\ body # <<>> /\ Last(body) = Previous /\ at = Len(body) + 1
  <2>1. at - 1 \in DOMAIN body /\ body[at - 1] = Previous
    BY <1>3, <1>5, <1>8
  <2>2. at - 1 = Len(body)
    BY <2>1, <1>3, <1>4 DEF IsBlock
  <2>. QED
    BY <2>1, <2>2, <1>2 DEF Last
<1>9. \A j \in 1..(stack[k].at - 1) : PassedIn(stack, run, k, body[j])
  BY <1>1, <1>2, <1>3 DEF Passing
<1>10. ASSUME k = n, NEW i \in DOMAIN body PROVE PassedIn(stack, run, k, body[i])
  <2>1. stack[k].at = Len(body) + 1
    BY <1>8, <1>10 DEF at
  <2>2. i \in 1..(stack[k].at - 1)
    BY <2>1, <1>2, <1>3
  <2>. QED
    BY <2>2, <1>9
<1>11. stack[k].at > 1
  BY <1>4, <1>7 DEF at
<1>12. 1 \in 1..(stack[k].at - 1)
  BY <1>2, <1>11
<1>. QED
  BY <1>2, <1>3, <1>4, <1>6, <1>7, <1>8, <1>9, <1>10, <1>12 DEF n

LEMMA UsedIsSeen ==
    ASSUME Wild = {}, IInv, Over, NEW k \in Taken(stack), NEW b, b = Branch(stack, k), IdentUsed(b.test, Var(b))
    PROVE  Cause(b, run) \in run.logged
<1>. DEFINE body == b.test.body
            v == Var(b)
            st == Previous
<1>1. b \in OpenBranches(stack) /\ Core(file, OpenBranches(stack), Held(stack, run), run)
  BY DEF OpenBranches, IInv, Sound
<1>2. BranchFollows(b.test) /\ run.env[v] = Cause(b, run) /\ v \in Vars /\ run \in Runs
  BY <1>1, BranchVars DEF Core, Open
<1>3. /\ st.op = "raise" /\ st \in Inspect(body) /\ body \in Seq(Statements)
      /\ st.as \in Carriers => run.env[st.v] \in run.logged
      /\ k # Len(stack) => st \in Nested(body)
      /\ k = Len(stack) => /\ body # <<>> /\ Last(body) = st
                           /\ \A i \in DOMAIN body : PassedIn(stack, run, k, body[i])
  BY ReturnFacts
<1>. HIDE DEF body, v, st
<1>4. st.as \in Carriers /\ st.v = v => Cause(b, run) \in run.logged
  BY <1>2, <1>3
<1>5. CASE k # Len(stack)
  BY <1>2, <1>3, <1>4, <1>5, BranchFacts DEF body, v, Var
<1>6. CASE k = Len(stack)
  <2>1. PICK nm \in Inspect(body) : v \in NamesIn(nm)
    BY DEF IdentUsed, body, v
  <2>2. PICK i \in DOMAIN body : nm \in Inspect(<<body[i]>>)
    BY <1>3, InspectParts
  <2>3. PassedIn(stack, run, k, body[i]) /\ body[i] \in Statements /\ body[i] \in Inspect(body)
    <3>1. body[i] \in Inspect(body)
      BY <1>3, InspectParts
    <3>. QED
      BY <3>1, <1>3, <1>6
  <2>4. v \in NamesIn(st) => st.as \in Carriers /\ st.v = v
    BY <1>3 DEF NamesIn
  <2>5. CASE body[i].op = "if"
    <3>1. IdentUsedInIf(body[i], v)
      BY <2>1, <2>2 DEF IdentUsedInIf
    <3>2. v \in NamesIn(Last(body))
      BY <3>1, <2>5, <1>2, BranchFacts DEF body, v, Var
    <3>. QED
      BY <3>2, <2>4, <1>3, <1>4, <1>6
  <2>6. CASE body[i].op # "if"
    <3>1. nm = body[i] /\ body[i].op \in {"assign", "log", "do", "raise"}
      BY <2>2, <2>3, <2>6, InspectParts, StatementParts
    <3>2. ~AssignsTo(body[i], v)
      BY <1>2, <2>3, BranchFacts DEF body, v, Var
    <3>3. CASE body[i].op = "assign"
      BY <3>1, <3>2, <3>3, <1>2, <2>1, <2>3 DEF NamesIn, PassedIn, AssignsTo
    <3>4. CASE body[i].op = "do"
      BY <3>1, <3>4, <2>1 DEF NamesIn
    <3>5. CASE body[i].op = "log"
      <4>1. body[i].v = v
        BY <3>1, <3>5, <2>1 DEF NamesIn
      <4>. QED
        BY <4>1, <3>5, <2>3 DEF PassedIn, v
    <3>6. CASE body[i].op = "raise"
      <4>1. body[i] = st
        <5>1. IfOf(stack, k) \in Statements /\ k \in 2..Len(stack)
          BY ShapeFacts DEF IInv, Sound
        <5>2. b.test = IfOf(stack, k) /\ b.test.op = "if"
          BY <1>1 DEF Branch, Core, Open
        <5>3. IsBlock(body, b.test)
          BY <5>1, <5>2, StatementParts DEF body
        <5>4. i = Len(body)
          BY <5>3, <3>6 DEF IsBlock
        <5>. QED
          BY <5>4, <1>3, <1>6 DEF Last
      <4>. QED
        BY <4>1, <3>1, <2>1, <2>4, <1>4
    <3>. QED
      BY <3>1, <3>3, <3>4, <3>5, <3>6
  <2>. QED
    BY <2>5, <2>6
<1>. QED
  BY <1>5, <1>6

LEMMA UnclassifiedIsTold ==
    ASSUME Wild = {}, IInv, file = "plain", run.left \in {"wrap", "new", "sentinel", "foreign"},
           NEW k \in Taken(stack), NEW b, b = Branch(stack, k), IsDb(Cause(b, run)), Cause(b, run) \notin run.tested
    PROVE  "SQLCLASS" \in Reports(b, run)
<1>. DEFINE body == b.test.body
            v == Var(b)
            st == Previous
<1>0. Over
  BY DEF Over
<1>1. b \in OpenBranches(stack) /\ Core(file, OpenBranches(stack), Held(stack, run), run)
  BY DEF OpenBranches, IInv, Sound
<1>2. BranchFollows(b.test)
  BY <1>1 DEF Core, Open
<1>3. /\ st.op = "raise" /\ st.as = run.left /\ st \in Inspect(body) /\ body \in Seq(Statements)
      /\ body # <<>> => PassedIn(stack, run, k, body[1])
  BY <1>0, ReturnFacts
<1>4. body # <<>>
  <2>1. PICK i \in DOMAIN body : st \in Inspect(<<body[i]>>)
    BY <1>3, InspectParts
  <2>. QED
    BY <2>1
<1>. HIDE DEF body, v, st
<1>5. st.as # "foreign"
  BY <1>2, <1>3, BranchFacts DEF body
<1>6. HasSQLClassDetail(body)
  BY <1>3, <1>5 DEF HasSQLClassDetail, HardcodedSentinel, NonClassifyingRaiser
<1>7. ~CallsSQLClassifier(body)
  <2>. SUFFICES ASSUME CallsSQLClassifier(body) PROVE FALSE
    OBVIOUS
  <2>1. \/ body[1].op = "if" /\ body[1].cond = [k |-> "pred", v |-> v]
        \/ \A n \in Inspect(body) : n.op = "raise" => n.as \in {"raw", "classify"}
    BY <1>2, BranchFacts DEF body, v, Var
  <2>2. ~(body[1].op = "if" /\ body[1].cond = [k |-> "pred", v |-> v])
    BY <1>3, <1>4 DEF PassedIn, v
  <2>. QED
    BY <2>1, <2>2, <1>3
<1>. QED
  BY <1>1, <1>6, <1>7 DEF Core, ReportsSay, Unclassified, body

LEMMA Implied ==
    ASSUME Wild = {}, IInv
    PROVE  LossesReported /\ ReportsAreLosses /\ UnclassifiedReported
<1>1. Core(file, OpenBranches(stack), Held(stack, run), run)
  BY DEF IInv, Sound
<1>2. ReportsAreLosses
  BY <1>1 DEF Core, Dropping, ReportsAreLosses
<1>3. ASSUME Over, file # "excluded", NEW i \in Inside, run.entered[i].cause \notin run.logged
      PROVE  "DROPPED" \in run.entered[i].reports
  <2>1. PICK k \in Taken(stack) : /\ Branch(stack, k) \in OpenBranches(stack)
                                  /\ Cause(Branch(stack, k), run) = run.entered[i].cause
                                  /\ Reports(Branch(stack, k), run) = run.entered[i].reports
    BY InsideFacts
  <2>2. ~IdentUsed(Branch(stack, k).test, Var(Branch(stack, k)))
    BY <1>3, <2>1, UsedIsSeen
  <2>. QED
    BY <1>1, <1>3, <2>1, <2>2 DEF Core, ReportsSay
<1>4. ASSUME file = "plain", run.left \in {"wrap", "new", "sentinel", "foreign"}, NEW i \in Inside,
             run.entered[i].cause[2] = "db", run.entered[i].cause \notin run.tested
      PROVE  "SQLCLASS" \in run.entered[i].reports
  <2>1. PICK k \in Taken(stack) : /\ Branch(stack, k) \in OpenBranches(stack)
                                  /\ Cause(Branch(stack, k), run) = run.entered[i].cause
                                  /\ Reports(Branch(stack, k), run) = run.entered[i].reports
    BY InsideFacts
  <2>2. Cause(Branch(stack, k), run) # NoErr
    BY <1>1, <2>1 DEF Core, Open
  <2>. QED
    BY <1>4, <2>1, <2>2, UnclassifiedIsTold DEF IsDb
<1>. QED
  BY <1>2, <1>3, <1>4 DEF LossesReported, UnclassifiedReported

LEMMA IInvHolds ==
    ASSUME Wild = {}
    PROVE  Spec => []IInv
<1>1. Init => IInv
  BY InitSound
<1>2. IInv /\ [Next]_vars => IInv'
  BY NextSound
<1>. QED
  BY <1>1, <1>2, PTL DEF Spec

\* Where the disciplines are kept, of an error that is gone when the function returns from
\* the branch taken for it the analyzer has said so: reportDropped misses no loss.
THEOREM NoLossMissed ==
    ASSUME Wild = {}
    PROVE  Spec => []LossesReported
<1>1. IInv => LossesReported
  BY Implied
<1>. QED
  BY <1>1, IInvHolds, PTL

\* Where they are kept, the error of a branch that is reported as dropping it is never
\* seen by a log or the caller: reportDropped reports nothing else.
THEOREM OnlyLosses ==
    ASSUME Wild = {}
    PROVE  Spec => []ReportsAreLosses
<1>1. IInv => ReportsAreLosses
  BY Implied
<1>. QED
  BY <1>1, IInvHolds, PTL

\* Where they are kept, reportSQLClass reports each branch that an error of the database
\* leaves under another class, unless a predicate was asked about it.
THEOREM NoClassMissed ==
    ASSUME Wild = {}
    PROVE  Spec => []UnclassifiedReported
<1>1. IInv => UnclassifiedReported
  BY Implied
<1>. QED
  BY <1>1, IInvHolds, PTL
-----------------------------------------------------------------------------
(* slogfmt.                                                                *)

\* Both calls always have a layout.
Laid == DOMAIN lay = Calls
LEMMA LaidKept == FixSpec => []Laid
<1>1. FixInit => Laid  BY DEF FixInit, Laid, Calls
<1>2. Laid /\ [FixNext]_fixVars => Laid'  BY DEF Laid, FixNext, Fix, fixVars
<1>. QED  BY <1>1, <1>2, PTL DEF FixSpec

\* A fix of one call is what the next run would write in its place: nothing that
\* decides its form has changed.
LEMMA FixIsStable ==
    ASSUME Laid, NEW d \in Calls, Fix(d)
    PROVE  /\ \A c \in Calls : lay'[c] # lay[c] => c = d
           /\ lay'[d] = RewriteCall(d)
           /\ RewriteCall(d)' = RewriteCall(d)
<1>1. lay' = [lay EXCEPT ![d] = RewriteCall(d)] /\ place' = place  BY DEF Fix
<1>2. lay'[d] = RewriteCall(d) /\ \A c \in Calls : c # d => lay'[c] = lay[c]
    BY <1>1 DEF Laid
<1>3. LineIndent(d)' = LineIndent(d)
    <2>1. CASE d = "outer"  BY <2>1 DEF LineIndent
    <2>2. CASE d = "inner"
        <3>1. lay'["outer"] = lay["outer"]  BY <2>2, <1>2 DEF Calls
        <3>. QED  BY <3>1, <1>1, <2>2 DEF LineIndent, InnerIndent, LineStarts
    <2>. QED  BY <2>1, <2>2 DEF Calls
<1>. QED  BY <1>2, <1>3 DEF RewriteCall, Gaps, Line, Same

\* Fixing a call clears its finding (callSource): for every layout of any calls.
THEOREM FixesClear == FixSpec => FixClears
<1>1. Laid /\ [FixNext]_fixVars
        => [\A c \in Calls : lay'[c] # lay[c] => ~Reported(c)']_fixVars
    <2>. SUFFICES ASSUME Laid, NEW d \in Calls, Fix(d), NEW c \in Calls, lay'[c] # lay[c]
                  PROVE  ~Reported(c)'
        BY DEF FixNext, fixVars
    <2>. QED  BY FixIsStable DEF Reported
<1>. QED  BY <1>1, LaidKept, PTL DEF FixSpec, FixClears

-----------------------------------------------------------------------------
(* Pairs.                                                                  *)

\* Behind the leading arguments, keys and values take turns.
Alternating ==
    \A c \in Calls : \A i \in DOMAIN Args[c] :
        i > KVStart => Args[c][i] = IF Odd(i) THEN "key" ELSE "value"

LEMMA ArgTypes ==
    ASSUME NEW c \in Calls
    PROVE  Len(Args[c]) \in Nat /\ DOMAIN Args[c] = 1..Len(Args[c]) /\ KVStart \in Nat /\ KVStart >= 1
BY SlogFmtAssumption

\* In the rewritten form a line starts in front of every key, and nowhere else
\* among the pairs.
LEMMA RewrittenLines ==
    ASSUME NEW c \in Calls, NEW j \in KVStart + 1..Len(Args[c])
    PROVE  RewriteCall(c)[j].line <=> Odd(j)
<1>1. j \in Gaps(c) /\ j \in Nat /\ j # 1 /\ j # Len(Args[c]) + 1 /\ j > KVStart
  BY ArgTypes DEF Gaps
<1>2. RewriteCall(c)[j] = IF Odd(j) THEN Line(LineIndent(c) + 1) ELSE Same(1)
  BY <1>1 DEF RewriteCall
<1>. QED
  BY <1>2 DEF Line, Same

\* Of two arguments on from the first pair, the later one is on the same line
\* just if it is the next one and a value.
LEMMA SameLine ==
    ASSUME NEW i \in Nat, NEW j \in Nat, KVStart \in Nat, KVStart < i, i < j
    PROVE  {h \in KVStart + 1..i : Odd(h)} = {h \in KVStart + 1..j : Odd(h)}
             <=> j = i + 1 /\ Odd(i)
<1>. DEFINE P == {h \in KVStart + 1..i : Odd(h)}
            Q == {h \in KVStart + 1..j : Odd(h)}
<1>1. Odd(i) \/ Odd(i + 1)
  BY DEF Odd
<1>2. ~(Odd(i) /\ Odd(i + 1))
  BY DEF Odd
<1>3. Odd(i + 1) \/ Odd(i + 2)
  BY DEF Odd
<1>4. CASE Odd(i + 1)
  <2>1. i + 1 \in Q /\ i + 1 \notin P
    BY <1>4
  <2>. QED
    BY <2>1, <1>2, <1>4
<1>5. CASE ~Odd(i + 1) /\ j = i + 1
  <2>1. \A h : h \in P <=> h \in Q
    BY <1>5
  <2>. QED
    BY <2>1, <1>1, <1>5
<1>6. CASE ~Odd(i + 1) /\ j # i + 1
  <2>1. i + 2 \in Q /\ i + 2 \notin P
    BY <1>3, <1>6
  <2>. QED
    BY <2>1, <1>6
<1>. QED
  BY <1>4, <1>5, <1>6

LEMMA RewrittenPairs ==
    ASSUME Alternating, NEW c \in Calls, lay[c] = RewriteCall(c)
    PROVE  Paired(c)
<1>. DEFINE K == KVStart + 1..Len(Args[c])
            Keys(i) == {h \in KVStart + 1..i : Odd(h)}
<1>1. /\ Len(Args[c]) \in Nat /\ DOMAIN Args[c] = 1..Len(Args[c])
      /\ KVStart \in Nat /\ KVStart >= 1
  BY ArgTypes
<1>2. \A i \in K : LineOf(c, i) = Keys(i)
  <2>. SUFFICES ASSUME NEW i \in K PROVE LineOf(c, i) = Keys(i)
    OBVIOUS
  <2>1. \A h \in KVStart + 1..i : h \in K
    BY <1>1
  <2>2. \A h \in KVStart + 1..i : lay[c][h].line <=> Odd(h)
    BY <2>1, RewrittenLines
  <2>. QED
    BY <2>2 DEF LineOf
<1>3. \A i \in K : i \in Nat /\ i > KVStart /\ (Args[c][i] = "key" <=> Odd(i))
  <2>. SUFFICES ASSUME NEW i \in K PROVE i \in Nat /\ i > KVStart /\ (Args[c][i] = "key" <=> Odd(i))
    OBVIOUS
  <2>1. i \in Nat /\ i > KVStart /\ i \in DOMAIN Args[c]
    BY <1>1
  <2>. QED
    BY <2>1 DEF Alternating
<1>. SUFFICES ASSUME NEW i \in K, NEW j \in K
              PROVE  LineOf(c, i) = LineOf(c, j)
                       <=> i = j \/ (Args[c][i] = "key" /\ j = i + 1) \/ (Args[c][j] = "key" /\ i = j + 1)
  BY DEF Paired
<1>4. i \in Nat /\ j \in Nat /\ KVStart < i /\ KVStart < j
  BY <1>3
<1>5. CASE i = j
  BY <1>5
<1>6. CASE i < j
  <2>1. Keys(i) = Keys(j) <=> j = i + 1 /\ Odd(i)
    BY <1>1, <1>4, <1>6, SameLine
  <2>2. LineOf(c, i) = Keys(i) /\ LineOf(c, j) = Keys(j)
    BY <1>2
  <2>3. LineOf(c, i) = LineOf(c, j) <=> j = i + 1 /\ Odd(i)
    BY <2>1, <2>2, Zenon
  <2>4. i # j /\ i # j + 1
    BY <1>4, <1>6
  <2>5. Args[c][i] = "key" <=> Odd(i)
    BY <1>3
  <2>. QED
    BY <2>3, <2>4, <2>5, Zenon
<1>7. CASE j < i
  <2>1. Keys(j) = Keys(i) <=> i = j + 1 /\ Odd(j)
    BY <1>1, <1>4, <1>7, SameLine
  <2>2. LineOf(c, i) = Keys(i) /\ LineOf(c, j) = Keys(j)
    BY <1>2
  <2>3. LineOf(c, i) = LineOf(c, j) <=> i = j + 1 /\ Odd(j)
    BY <2>1, <2>2, Zenon
  <2>4. i # j /\ j # i + 1
    BY <1>4, <1>7
  <2>5. Args[c][j] = "key" <=> Odd(j)
    BY <1>3
  <2>. QED
    BY <2>3, <2>4, <2>5, Zenon
<1>. QED
  BY <1>4, <1>5, <1>6, <1>7

RewrittenPaired == \A c \in Calls : lay[c] = RewriteCall(c) => Paired(c)

\* A fixed call of keys and values has each pair on a line of its own ("put each
\* key-value pair on its own line"), however many leading arguments it has.
THEOREM PairsTogether ==
    ASSUME Alternating
    PROVE  FixSpec => PairsOnLines
<1>1. RewrittenPaired
  BY RewrittenPairs DEF RewrittenPaired
<1>2. Laid /\ RewrittenPaired' /\ [FixNext]_fixVars
        => [\A c \in Calls : lay'[c] # lay[c] => Paired(c)']_fixVars
  <2>. SUFFICES ASSUME Laid, RewrittenPaired', NEW d \in Calls, Fix(d), NEW c \in Calls, lay'[c] # lay[c]
                PROVE  Paired(c)'
    BY DEF FixNext, fixVars
  <2>. QED
    BY FixIsStable DEF RewrittenPaired
<1>. QED
  BY <1>1, <1>2, LaidKept, PTL DEF FixSpec, PairsOnLines
=============================================================================
