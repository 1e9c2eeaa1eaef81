----------------------------- MODULE DroppedErr -----------------------------
(***************************************************************************)
(* droppederr (droppederr/): what it reports of the error branches of a    *)
(* function, next to what becomes of the errors when the function runs.    *)
(*                                                                         *)
(* The function is written one statement of its own block at a time, and   *)
(* executed as it is; the statements inside an if come with it.  They are  *)
(* records:                                                                *)
(*   assign  v = a call ("db": a database method or the dao package;       *)
(*           "other", one that is handed a literal with such a call        *)
(*           included) or a variable; new says that it is declared here    *)
(*   log     of v                                                          *)
(*   do      anything without the error                                    *)
(*   raise   return as(v), where as is "raw" (v itself), "classify" (the   *)
(*           SQL utility's WrapQueryError or Classify), "wrap" (a raiser   *)
(*           droppederr knows, handed v), "new" (one that is not),         *)
(*           "sentinel" (a domain wrapper of a domain.Err... and not of v) *)
(*           or "foreign" (an error it does not know)                      *)
(*   if      init, which is empty or one assign; cond, body, and els,      *)
(*           which is a block, or one if where chained.  A cond is v # nil *)
(*           ("guard"; "swapped": nil # v), an Is... predicate of v        *)
(*           ("pred") or another ("any")                                   *)
(***************************************************************************)
EXTENDS SequencesExt
CONSTANTS
    Vars,        \* the variables of type error
    ErrNames,    \* those whose name contains "err"
    Statements,  \* the statements of the program, with those inside others
    Stmts,       \* the statements of the function's own block
    MaxStmts,    \* how many of them there are
    Wild,        \* see Follows
    NoErr        \* nil

Raisers == {"raw", "classify", "wrap", "new", "sentinel", "foreign"}
Errors  == (Nat \X {"db", "other"}) \cup {NoErr}

\* The blocks of a statement, its init statement's own included, and what is in them.
Parts(st)  == IF st.op = "if" THEN <<st.init, st.body, st.els>> ELSE <<>>
Within(st) == UNION {ToSet(part) : part \in ToSet(Parts(st))}

Depth == LET n[st \in Statements] == Max({0} \cup {n[t] + 1 : t \in Within(st)}) IN n

\* Nothing stands behind a return in its block: vet reports it.
IsStatement(st) ==
    /\ st.op \in {"assign", "log", "do", "raise", "if"}
    /\ st.op \in {"assign", "log", "raise"} => st.v \in Vars
    /\ st.op = "assign" => st.from \in Vars \cup {"db", "other"} /\ st.new \in BOOLEAN
    /\ st.op = "raise" => st.as \in Raisers
    /\ st.op = "if" => /\ st.cond.k \in {"guard", "swapped", "pred", "any"} /\ st.cond.v \in Vars
                       /\ Len(st.init) <= 1 /\ \A t \in ToSet(st.init) : t.op = "assign"
                       /\ st.chained => Len(st.els) = 1 /\ st.els[1].op = "if"
    /\ Depth[st] \in Nat
    /\ \A part \in ToSet(Parts(st)) :
          part \in Seq(Statements) /\ \A i \in DOMAIN part : part[i].op = "raise" => i = Len(part)
    /\ \A t \in Within(st) : Depth[t] < Depth[st]

ASSUME DroppedErrAssumption ==
    /\ ErrNames \subseteq Vars /\ Vars \cap {"db", "other"} = {}
    /\ MaxStmts \in Nat /\ NoErr \notin Nat \X {"db", "other"}
    /\ Stmts \subseteq Statements
    /\ \A st \in Statements : IsStatement(st)
VARIABLES
    file,   \* "plain", "excluded" (exclude-paths) or "utility" (sql-utility-paths)
    size,   \* how many statements the function's own block has so far
    stack,  \* the blocks the execution is in, the innermost last, see Block
    run     \* what it has done so far, see Start
vars == <<file, size, stack, run>>
-----------------------------------------------------------------------------
(* The analysis.                                                           *)
\* The statement in front of the first of a block, and of one that is in no block.
NoStmt   == [op |-> "none"]
Unlisted == [op |-> "else"]
Carriers == {"raw", "classify", "wrap"}
\* ast.Inspect: the statements in a list and in the statements of the list.
InspectStep(st, inspect) == {st} \cup UNION {inspect[t] : t \in Within(st)}
Inspects == LET inspect[st \in Statements] == InspectStep(st, inspect) IN inspect
Inspect(list) == UNION {Inspects[list[i]] : i \in DOMAIN list}
\* The names a statement has outside the statements in it.
NamesIn(st) ==
    CASE st.op = "assign" -> {st.v, st.from}
      [] st.op = "log"    -> {st.v}
      [] st.op = "raise"  -> IF st.as \in Carriers THEN {st.v} ELSE {}
      [] st.op = "if" /\ st.cond.k # "any" -> {st.cond.v}
      [] OTHER            -> {}
\* Slips: the whole if statement is searched; only the first statement of its block is.
IdentUsedInIf(st, v) == \E n \in Inspect(<<st>>) : v \in NamesIn(n)
IdentUsedFirst(st, v) == st.body # <<>> /\ v \in NamesIn(st.body[1])
IdentUsed(st, v) == \E n \in Inspect(st.body) : v \in NamesIn(n)
\* errNilCheck.
ErrNilCheck(c) == c.k = "guard" /\ c.v \in ErrNames
AssignsTo(st, v) == st.op = "assign" /\ st.v = v
\* assignsFromDatabase, isDatabaseCall, isDaoCall.
AssignsFromDatabase(st, v) == AssignsTo(st, v) /\ st.from = "db"
CallsSQLClassifier(body) ==
    \E n \in Inspect(body) : \/ n.op = "raise" /\ n.as = "classify"
                             \/ n.op = "if" /\ n.cond.k = "pred"
HardcodedSentinel(body) == \E n \in Inspect(body) : n.op = "raise" /\ n.as = "sentinel"
NonClassifyingRaiser(body) == \E n \in Inspect(body) : n.op = "raise" /\ n.as \in {"wrap", "new"}
HasSQLClassDetail(body) == HardcodedSentinel(body) \/ NonClassifyingRaiser(body)
\* reportDropped; every if statement is looked at, run has left out excluded files.
ReportDropped(st) == ErrNilCheck(st.cond) /\ ~IdentUsed(st, st.cond.v)
\* A slip: the statement before the if is not looked at.
ReportSQLClassOfInit(st, previous) ==
    /\ previous # Unlisted /\ ErrNilCheck(st.cond)
    /\ \E t \in ToSet(st.init) : AssignsFromDatabase(t, st.cond.v)
    /\ ~CallsSQLClassifier(st.body) /\ HasSQLClassDetail(st.body)
\* reportSQLClass; only the if statements of a list are looked at, with the
\* statement before them (scanSQLClassification, blockStatements).
ReportSQLClass(st, previous) ==
    /\ previous # Unlisted /\ ErrNilCheck(st.cond)
    /\ \E t \in ToSet(st.init) \cup {previous} : AssignsFromDatabase(t, st.cond.v)
    /\ ~CallsSQLClassifier(st.body) /\ HasSQLClassDetail(st.body)
\* A slip: a file of the SQL utility is left out altogether.
ReportsOfUtilityFirst(st, previous) ==
    IF file # "plain" THEN {}
    ELSE (IF ReportDropped(st) THEN {"DROPPED"} ELSE {})
         \cup (IF ReportSQLClass(st, previous) THEN {"SQLCLASS"} ELSE {})
\* run: what is reported of an if statement.
ReportsOf(st, previous) ==
    (IF file # "excluded" /\ ReportDropped(st) THEN {"DROPPED"} ELSE {})
    \cup (IF file = "plain" /\ ReportSQLClass(st, previous) THEN {"SQLCLASS"} ELSE {})
-----------------------------------------------------------------------------
(* The execution.  An error is the call it came from, numbered, and whether*)
(* that was to the database.                                               *)
Start ==
    [env     |-> [v \in Vars |-> NoErr],
     calls   |-> 0,
     logged  |-> {},         \* the errors a log or the caller got to see
     tested  |-> {},         \* those an Is... predicate was asked about
     entered |-> <<>>,       \* the error branches taken: for which error, and what is reported of them
     left    |-> "running"]  \* what it returned as
Over == run.left # "running"
\* A block: its list, the function's own being its last statement; the next statement
\* in it; what stands before the first; the values of the variables its declarations
\* hide; and the error branch it is, if any.
Block(list, before, outer, entry) ==
    [list |-> list, at |-> 1, before |-> before, outer |-> outer, entry |-> entry]
Top == Last(stack)
More == Top.at <= Len(Top.list)
Before(b) == IF b.at = 1 THEN b.before ELSE b.list[b.at - 1]
Previous == Before(Top)
\* The statements that may come next, and the blocks once one is passed.
Ahead ==
    IF More THEN {Top.list[Top.at]} ELSE IF Len(stack) = 1 /\ size < MaxStmts THEN Stmts ELSE {}
Passed(st) ==
    IF More THEN [stack EXCEPT ![Len(stack)].at = @ + 1]
    ELSE <<[Block(<<st>>, NoStmt, <<>>, 0) EXCEPT !.at = 2]>>
\* The branches it is in.
Inside == {stack[k].entry : k \in DOMAIN stack} \ {0}
\* The runs an assignment may lead to.
Assigned(st, s) ==
    {[s EXCEPT !.env[st.v] = e, !.calls = IF st.from \in Vars THEN @ ELSE @ + 1] :
       e \in IF st.from \in Vars THEN {s.env[st.from]}
             ELSE {NoErr, <<s.calls + 1, IF st.from = "db" THEN "db" ELSE "other">>}}
Begun(st) == IF st.init = <<>> THEN {run} ELSE Assigned(st.init[1], run)
\* What the init statement of an if and a block of it declare.
Declared(list) == {list[i].v : i \in {j \in DOMAIN list : list[j].op = "assign" /\ list[j].new}}
Hidden(st, list, s) ==
    [v \in Declared(st.init) \cup Declared(list) |-> IF v \in Declared(st.init) THEN run.env[v] ELSE s.env[v]]
TestsError(c) == c.k \in {"guard", "swapped"}
Tested(c, s) == IF c.k = "pred" THEN [s EXCEPT !.tested = @ \cup {s.env[c.v]}] ELSE s
-----------------------------------------------------------------------------
(* What droppederr takes for granted about the functions it reads.         *)
Nested(list) == UNION {Inspect(list[i].body) \cup Inspect(list[i].els) : i \in {j \in DOMAIN list : list[j].op = "if"}}
Leaves(list) == list # <<>> /\ Last(list).op = "raise"
FromDatabase(st) == st.op = "assign" /\ st.from = "db"
IsGuardOf(st, v) == st.op = "if" /\ st.cond = [k |-> "guard", v |-> v]
\* An error is tested as errNilCheck expects it (form), under a name no other
\* variable of its branch shadows (shadow).  A branch that does not name the error
\* leaves (resume).  An if within a branch leaves only with the error (branch); where
\* it names it, the branch ends in a return of it (look).  A branch with a classifier in
\* it asks a predicate about the error first, or raises nothing unclassified (mixed),
\* and none raises what droppederr does not know (foreign).
BranchFollows(g) ==
    /\ "form" \notin Wild => ErrNilCheck(g.cond)
    /\ "shadow" \notin Wild => \A n \in Inspect(g.body) : ~AssignsTo(n, g.cond.v)
    /\ "resume" \notin Wild => IdentUsed(g, g.cond.v) \/ Leaves(g.body)
    /\ "branch" \notin Wild =>
          \A n \in Nested(g.body) : n.op = "raise" => n.as \in Carriers /\ n.v = g.cond.v
    /\ /\ "look" \notin Wild
       /\ \E i \in DOMAIN g.body : g.body[i].op = "if" /\ IdentUsedInIf(g.body[i], g.cond.v)
       => Leaves(g.body) /\ g.cond.v \in NamesIn(Last(g.body))
    /\ "mixed" \notin Wild /\ CallsSQLClassifier(g.body) =>
          \/ g.body[1].op = "if" /\ g.body[1].cond = [k |-> "pred", v |-> g.cond.v]
          \/ \A n \in Inspect(g.body) : n.op = "raise" => n.as \in {"raw", "classify"}
    /\ "foreign" \notin Wild => \A n \in Inspect(g.body) : n.op = "raise" => n.as # "foreign"
\* No variable is another's copy (alias).  The error of a database call is tested
\* at once (gap), and not in an else (elseif).
Follows(st) ==
    LET init == IF st.op = "if" THEN ToSet(st.init) ELSE {}
    IN  /\ "alias" \notin Wild => \A t \in init \cup {st} : t.op = "assign" => t.from \notin Vars
        /\ "gap" \notin Wild => /\ FromDatabase(Previous) => IsGuardOf(st, Previous.v) /\ init = {}
                                /\ \A t \in init : FromDatabase(t) => IsGuardOf(st, t.v)
        /\ "elseif" \notin Wild /\ Previous = Unlisted => \A t \in init : ~FromDatabase(t)
        /\ st.op = "if" /\ TestsError(st.cond) => BranchFollows(st)
\* No branch is taken for an error that was logged, or that one is taken for (early).
Fresh(e) == "early" \in Wild \/ e \notin run.logged \cup {run.entered[i].cause : i \in Inside}
-----------------------------------------------------------------------------
Init ==
    /\ file \in {"plain", "excluded", "utility"}
    /\ size = 0 /\ run = Start
    /\ stack = <<Block(<<>>, NoStmt, <<>>, 0)>>
\* The next statement of the innermost block, or another of the function's own.
Executes(st, op) ==
    /\ ~Over /\ st.op = op /\ Follows(st)
    /\ size' = IF More THEN size ELSE size + 1
    /\ UNCHANGED file
DoAssign(st) == Executes(st, "assign") /\ run' \in Assigned(st, run) /\ stack' = Passed(st)
DoLog(st)    == Executes(st, "log") /\ run' = [run EXCEPT !.logged = @ \cup {run.env[st.v]}] /\ stack' = Passed(st)
DoOther(st)  == Executes(st, "do") /\ stack' = Passed(st) /\ UNCHANGED run
DoRaise(st) ==
    /\ Executes(st, "raise")
    /\ run' = [run EXCEPT !.left = st.as, !.logged = @ \cup IF st.as \in Carriers THEN {run.env[st.v]} ELSE {}]
    /\ stack' = Passed(st)
\* The body of an error branch.
TakeBranch(st) ==
    /\ Executes(st, "if") /\ TestsError(st.cond)
    /\ \E s \in Begun(st) :
          LET cause == s.env[st.cond.v]
          IN  /\ cause # NoErr /\ Fresh(cause)
              /\ run' = [s EXCEPT !.entered = Append(@, [cause |-> cause, reports |-> ReportsOf(st, Previous)])]
              /\ stack' = Append(Passed(st), Block(st.body, NoStmt, Hidden(st, st.body, s), Len(s.entered) + 1))
\* The body of another if.
DoThen(st) ==
    /\ Executes(st, "if") /\ ~TestsError(st.cond)
    /\ \E s \in Begun(st) : /\ run' = Tested(st.cond, s)
                            /\ stack' = Append(Passed(st), Block(st.body, NoStmt, Hidden(st, st.body, s), 0))
DoElse(st) ==
    /\ Executes(st, "if")
    /\ \E s \in Begun(st) :
          /\ TestsError(st.cond) => s.env[st.cond.v] = NoErr
          /\ run' = Tested(st.cond, s)
          /\ stack' = Append(Passed(st), Block(st.els, IF st.chained THEN Unlisted ELSE NoStmt, Hidden(st, st.els, s), 0))
\* At the end of a block its variables are gone, and so is the branch.
LeaveBlock ==
    /\ ~Over /\ Len(stack) > 1 /\ ~More
    /\ "gap" \notin Wild => ~FromDatabase(Previous)
    /\ run' = [run EXCEPT !.env = [v \in Vars |-> IF v \in DOMAIN Top.outer THEN Top.outer[v] ELSE run.env[v]]]
    /\ stack' = Front(stack)
    /\ UNCHANGED <<file, size>>
Step(st) == DoAssign(st) \/ DoLog(st) \/ DoOther(st) \/ DoRaise(st) \/ TakeBranch(st) \/ DoThen(st) \/ DoElse(st)
Next == (\E st \in Ahead : Step(st)) \/ LeaveBlock
Spec == Init /\ [][Next]_vars
-----------------------------------------------------------------------------
(* Properties.                                                             *)
\* An error that is gone when the function returns from the branch taken for it,
\* seen by no log and no caller, has been reported (scanDropped).
LossesReported ==
    Over /\ file # "excluded" =>
        \A i \in Inside : run.entered[i].cause \notin run.logged => "DROPPED" \in run.entered[i].reports
\* Of a branch that is reported as dropping its error, the error is never seen:
\* "the root cause is discarded before any boundary can log it" (droppederr.go).
ReportsAreLosses ==
    \A i \in DOMAIN run.entered : "DROPPED" \in run.entered[i].reports => run.entered[i].cause \notin run.logged
\* An error of the database that leaves the branch taken for it under another
\* class, and was not asked about its own, has been reported (scanSQLClassification).
UnclassifiedReported ==
    file = "plain" /\ run.left \in {"wrap", "new", "sentinel", "foreign"} =>
        \A i \in Inside :
            run.entered[i].cause[2] = "db" /\ run.entered[i].cause \notin run.tested
            => "SQLCLASS" \in run.entered[i].reports
=============================================================================
