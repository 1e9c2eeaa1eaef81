----------------------------- MODULE Statements -----------------------------
(***************************************************************************)
(* What nilfield does with an expression (analyzer/expr.go) and with a     *)
(* statement that has no statement inside it (analyzer/walk.go), next to   *)
(* what executing that statement does.                                     *)
(*                                                                         *)
(* A simple statement is [op |-> "use", e, safe], a selection on e (safe:  *)
(* a call of a method that tolerates a nil receiver); "set" (lhs = rhs);   *)
(* "tuple" (several targets of one call); "assert" (an assert helper);     *)
(* "addr" (a call handed &x); or "guard", an if whose body only leaves.    *)
(* A right-hand side is nil, new (with the fields its literal sets), a     *)
(* path, a call without a fact, a map or slice element or the result of a  *)
(* call with the nilResults fact, callif (nil only when its argument is),  *)
(* or a call of the validator.                                             *)
(***************************************************************************)
EXTENDS Memory

CONSTANTS
    Errors,  \* the locals of type error
    Exempt   \* the fields every construction wires, and those out of the module

ASSUME StatementsAssumption == Errors \subseteq Locals /\ Errors \cap Ifaces = {}

-----------------------------------------------------------------------------
(* What is checked: each use of a base, with the proofs the operands to    *)
(* its left in a && or || add, and whether it is a call of a method that   *)
(* tolerates a nil receiver (the nilSafeReceiver fact).                    *)

Checks(bases, extra) == [base : bases, extra : {extra}, safe : {FALSE}]

\* A slip: a local copied from a field is no hazard.
IsReportedAsWritten(ch, s) ==
    Canonical(ch.base, s.alias) \notin s.proven \cup ch.extra /\ IsFieldPath(ch.base)

\* A selection of a field every construction wires, or of another module's.
IsWiredFieldAccess(base) == ~IsBare(base) /\ Last(base) \in Exempt

\* checkPath, and the exemptions of checkBase: the base is reported.
IsReported(ch, s) ==
    LET path == Canonical(ch.base, s.alias)
    IN  /\ ~IsWiredFieldAccess(ch.base)
        /\ path \notin s.proven \cup ch.extra
        /\ \/ IsBare(path) /\ s.nilable[path[1]] # "unknown" /\ ~ch.safe
           \/ IsFieldPath(path) \/ IsStarPath(path)
           \/ IsBare(path) /\ s.nilable[path[1]] = "unknown"
              /\ IsBare(ch.base) /\ ch.base[1] \in Errors

\* A slip: a copy of the receiver is another local.
MarksReceiverByName(ch, s, receiver) ==
    ch.base = receiver /\ receiver \notin s.proven \cup ch.extra /\ ~ch.safe

\* checkPath in the probe of exportNilSafeReceiverFact: receiverDeref is set.
MarksReceiver(ch, s, receiver) ==
    LET path == Canonical(ch.base, s.alias)
    IN  path = receiver /\ path \notin s.proven \cup ch.extra /\ ~ch.safe

\* They are made where extra is known.
Knowing(checks, extra) == {[ch EXCEPT !.extra = @ \cup extra] : ch \in checks}

\* What is checked of d, when checks holds what is of its operands.
CheckStep(d, checks, s) ==
    CASE d.k = "not"  -> checks[d.c]
      [] d.k = "and"  -> checks[d.l] \cup Knowing(checks[d.r], NilGuards(d.l, s).t)
      [] d.k = "or"   -> checks[d.l] \cup Knowing(checks[d.r], NilGuards(d.l, s).f)
      [] d.k = "any"  -> {}
      [] d.k = "test" -> Checks(Through(d.e), {})
      [] OTHER        -> Checks(Proper(d.e), {})

\* checkExpr on a condition, with checkShortCircuit on its operands.
CondChecks(c, s) == LET checks[d \in Conds] == CheckStep(d, checks, s) IN checks[c]

\* checkExpr on the right-hand side of an assignment.
RhsChecks(rhs) ==
    CASE rhs.k = "path"     -> Checks(Proper(rhs.e), {})
      [] rhs.k = "validate" -> Checks(Through(rhs.e), {})
      [] rhs.k = "callif"   -> Checks(Proper(rhs.e), {})
      [] OTHER              -> {}

StmtChecks(st, s) ==
    CASE st.op = "use"    -> Checks(Proper(st.e), {})
                             \cup {[base |-> st.e, extra |-> {}, safe |-> st.safe]}
      [] st.op = "set"    -> RhsChecks(st.rhs) \cup Checks(Proper(st.lhs), {})
      [] st.op = "tuple"  -> UNION {Checks(Proper(st.lhs[i]), {}) : i \in DOMAIN st.lhs}
      [] st.op = "read"   -> Checks(Proper(st.e), {})
      [] st.op \in {"assert", "guard"} -> CondChecks(st.c, s)
      [] OTHER            -> {}

-----------------------------------------------------------------------------
(* What a simple statement teaches.                                        *)

\* A slip: a copy of a nil local is not nil.
NilOriginStateOfNil(lhs, rhs, s) == IF rhs.k = "nil" THEN "isNil" ELSE "unknown"

\* nilOriginState: what lhs is known to be after lhs = rhs.
NilOriginState(lhs, rhs, s) ==
    CASE rhs.k = "nil" -> "isNil"
      [] rhs.k = "path" /\ IsBare(rhs.e) ->
           IF s.nilable[rhs.e[1]] = "isNil" /\ lhs[1] \in Ifaces /\ rhs.e[1] \notin Ifaces
           THEN "typedNil" ELSE s.nilable[rhs.e[1]]
      [] rhs.k = "element" -> "maybeNil"
      [] rhs.k = "callif" /\ Canonical(rhs.e, s.alias) \notin s.proven -> "maybeNil"
      [] OTHER -> "unknown"

\* The paths a nil error of the call proves.
ValidatorProof(rhs, s) ==
    IF rhs.k = "validate"
    THEN {Canonical(rhs.e, s.alias) \o <<f>> : f \in Validated} ELSE {}

RecordAssignment(lhs, rhs, s) ==
    LET path  == Canonical(lhs, s.alias)
        proof == ValidatorProof(rhs, s)
        state == NilOriginState(lhs, rhs, s)
    IN  IF rhs.k = "new" THEN With(s, {path} \cup {path \o <<f>> : f \in rhs.set})
        ELSE IF ~IsBare(lhs) THEN s
        ELSE IF proof # {} THEN [s EXCEPT !.errProof[lhs[1]] = proof]
        ELSE IF state # "unknown" THEN MarkNil(s, lhs[1], state)
        ELSE IF rhs.k = "path" THEN [s EXCEPT !.alias[lhs[1]] = Canonical(rhs.e, s.alias)]
        ELSE s

\* walkAssign with one target, and with several of one call: nilable holds the
\* indexes of the results that may be nil.
Assign(lhs, rhs, s) == RecordAssignment(lhs, rhs, InvalidateTarget(s, lhs))

InvalidateTargets(lhs, s) ==
    LET upTo[n \in 0..Len(lhs)] == IF n = 0 THEN s ELSE InvalidateTarget(upTo[n - 1], lhs[n])
    IN  upTo[Len(lhs)]

AssignResults(lhs, nilable, s) ==
    LET marked == {i \in nilable \cap DOMAIN lhs : IsBare(lhs[i])}
    IN  [InvalidateTargets(lhs, s) EXCEPT !.nilable = [l \in Locals |->
           IF \E i \in marked : lhs[i] = <<l>> THEN "maybeNil" ELSE @[l]]]

\* walkDecl of locals without a value: its loop writes one after the other.
VarDecl(s, names) ==
    LET cleared == [s EXCEPT !.alias    = [l \in Locals |-> IF l \in names THEN NoPath ELSE @[l]],
                             !.errProof = [l \in Locals |-> IF l \in names THEN {} ELSE @[l]]]
    IN  [Invalidate(cleared, {<<l>> : l \in names}) EXCEPT
           !.nilable = [l \in Locals |-> IF l \in names THEN "isNil" ELSE @[l]]]

\* walkStmt: an assert helper leaves what its argument proves; an if whose body
\* only leaves, the opposite of its condition; &x the end of x's nil state.
Effect(st, s) ==
    CASE st.op = "set"    -> Assign(st.lhs, st.rhs, s)
      [] st.op = "tuple"  -> AssignResults(st.lhs, st.nilable, s)
      [] st.op = "assert" -> With(s, NilGuards(st.c, s).t)
      [] st.op = "guard"  -> With(s, NilGuards(st.c, s).f)
      [] st.op = "addr"   -> DropNil(s, {st.x})
      [] OTHER            -> s

\* The simple statements of Go programs: the fields belong to structs, results of
\* a call go to locals (a target that is a field is an assignment of its own),
\* and what is assigned has the type of its target, or implements it.
Typed == {e \in Expr : IsBare(e) \/ e[1] \notin Errors \cup Ifaces}

TypeOf(e) ==
    IF e[1] \in Errors THEN "error" ELSE IF e[1] \in Ifaces THEN "interface" ELSE "pointer"

Assignable(lhs, rhs) ==
    \/ rhs.k \in {"nil", "call", "element"}
    \/ rhs.k = "new" /\ TypeOf(lhs) # "error" /\ rhs.set \subseteq Slots
    \/ rhs.k = "path" /\ rhs.e \in Typed
       /\ (TypeOf(rhs.e) = TypeOf(lhs) \/ (TypeOf(rhs.e) = "pointer" /\ TypeOf(lhs) = "interface"))
    \/ rhs.k = "callif" /\ rhs.e \in Typed /\ TypeOf(lhs) # "error"
    \/ rhs.k = "validate" /\ rhs.e \in Typed /\ TypeOf(rhs.e) = "pointer" /\ TypeOf(lhs) = "error"

IsStatement(st) ==
    \/ st.op = "use" /\ st.e \in Typed /\ st.safe \in BOOLEAN
    \/ st.op = "set" /\ st.lhs \in Typed /\ Assignable(st.lhs, st.rhs)
    \/ st.op = "tuple" /\ st.lhs \in Seq({<<l>> : l \in Locals})
    \/ st.op \in {"assert", "guard"} /\ st.c \in Conds /\ st.c.k # "nil"
    \/ st.op = "addr" /\ st.x \in Locals
    \/ st.op = "skip"

\* The targets assignedPaths finds in a statement.
Targets(st) ==
    CASE st.op = "set"   -> {st.lhs}
      [] st.op = "tuple" -> {st.lhs[i] : i \in DOMAIN st.lhs}
      [] OTHER           -> {}

BodyTargets(body) == UNION {Targets(body[i]) : i \in DOMAIN body}

-----------------------------------------------------------------------------
(* What a simple statement does when it is executed.                       *)

Faults(st, s, m) ==
    IF st.op \in {"assert", "guard"} THEN Outcome(st.c, m).dies
    ELSE FirstFaults({ch.base : ch \in {ch \in StmtChecks(st, s) : ~ch.safe}}, m)

\* What a local can hold that comes from elsewhere.
ValuesOf(l) ==
    IF l \in Errors THEN {Nil, ErrVal}
    ELSE Objects \cup {Nil} \cup IF l \in Ifaces THEN {TypedNil} ELSE {}

ResultsFor(lhs) == IF IsBare(lhs) THEN ValuesOf(lhs[1]) ELSE Objects \cup {Nil}

\* The memories lhs = rhs can lead to.
Assigned(lhs, rhs, m) ==
    CASE rhs.k = "nil"      -> {Store(lhs, Nil, TRUE, m)}
      [] rhs.k = "new"      -> Allocated(lhs, rhs.set, m)
      [] rhs.k = "path"     -> {Store(lhs, Converted(lhs, rhs.e, m), rhs.e[1] \in m.origin, m)}
      [] rhs.k = "call"     -> Returned(lhs, ResultsFor(lhs), FALSE, m)
      [] rhs.k = "element"  -> Returned(lhs, ResultsFor(lhs), TRUE, m)
      [] rhs.k = "callif"   -> Returned(lhs, Objects \cup IF Eval(rhs.e, m) = Nil THEN {Nil} ELSE {},
                                        TRUE, m)
      [] rhs.k = "validate" ->
           {Store(lhs, v, FALSE, m) :
              v \in {ErrVal} \cup IF \A f \in Validated : Eval(rhs.e \o <<f>>, m) # Nil
                                 THEN {Nil} ELSE {}}

\* The memories the targets of one call can be left in, which gets its results
\* from left to right.
Results(lhs, nilable, m) ==
    LET upTo[n \in 0..Len(lhs)] ==
          IF n = 0 THEN {m}
          ELSE UNION {Returned(lhs[n], ResultsFor(lhs[n]), n \in nilable, k) : k \in upTo[n - 1]}
    IN  upTo[Len(lhs)]

\* A statement without a statement.
Skip == [op |-> "skip"]

After(st, s, m) ==
    IF st.op = "assert" THEN IF Outcome(st.c, m).yes THEN {m} ELSE {}
    ELSE IF st.op = "guard" THEN IF Outcome(st.c, m).no THEN {m} ELSE {}
    ELSE IF Faults(st, s, m) # {} THEN {}
    ELSE CASE st.op = "set"   -> Assigned(st.lhs, st.rhs, m)
           [] st.op = "tuple" -> Results(st.lhs, st.nilable, m)
           [] st.op = "addr"  -> {[m EXCEPT !.origin = @ \ {st.x}]}
                                \cup {Store(<<st.x>>, v, FALSE, m) : v \in ValuesOf(st.x)}
           [] OTHER           -> {m}

Leaves(st, m) == st.op = "guard" /\ Outcome(st.c, m).yes

Stops(st, m) == st.op = "assert" /\ Outcome(st.c, m).no
=============================================================================
