------------------------------- MODULE Callee -------------------------------
(***************************************************************************)
(* What nilfield concludes from the body of a function about its calls     *)
(* (analyzer/results.go, assert.go, predicate.go), next to executions of   *)
(* that body.  Four facts: which result may be a literal nil (nilResults), *)
(* that a result never is (nonNilResults), that a call which completes     *)
(* proves an argument, or cannot complete (assertHelper, neverReturns),    *)
(* and that an answer of false does (nilPredicate).                        *)
(*                                                                         *)
(* The body is built one top-level statement at a time, while it is        *)
(* executed.  A statement is                                               *)
(*   return   a value beside an error; a helper returns neither            *)
(*   set      a parameter is assigned a value                              *)
(*   if       with the parameters its init statement redeclares, a         *)
(*            condition, a body and an else                                *)
(*   block, loop, lit   an inner block, a loop, a function literal         *)
(*   never    a panic, or a call of a function that never returns          *)
(*   assert   a call of an assert helper with x where its fact says        *)
(*   call     any other call                                               *)
(*   recover  a deferred closure that recovers a panic                     *)
(* The functions the body calls keep what their own facts promise.         *)
(***************************************************************************)
EXTENDS SequencesExt
CONSTANTS
    Params,      \* the parameters, in order
    Signatures,  \* kind, whether there is an error result, whether results have names
    Conds,       \* the conditions of the program, closed under subconditions
    Statements,  \* its statements, with those inside others
    Stmts,       \* the statements a body of each kind is made of
    MaxLen,      \* how many there are
    MaxTurns,    \* how often a loop goes round
    Forms,       \* how the function is called
    Wild         \* the disciplines that are not kept

Vars     == ToSet(Params)
Bools    == {"true", "false"}
Pointers == {"nil", "set"}
Value    == Bools \cup Pointers

Operands(c) == CASE c.k = "not" -> {c.c} [] c.k \in {"and", "or"} -> {c.l, c.r} [] OTHER -> {}

Operators ==
    LET n[c \in Conds] ==
          CASE c.k = "not" -> n[c.c] + 1
            [] c.k \in {"and", "or"} -> n[c.l] + n[c.r] + 1
            [] OTHER -> 0
    IN  n

\* The blocks of a statement, and what is in them; a function literal has a
\* body of its own.
Parts(st) ==
    CASE st.op = "if" -> <<st.then, st.els>> [] st.op \in {"block", "loop"} -> <<st.body>> [] OTHER -> <<>>
Within(st) == UNION {ToSet(part) : part \in ToSet(Parts(st))}

Depth == LET n[st \in Statements] == Max({0} \cup {n[t] + 1 : t \in Within(st)}) IN n

IsCondition(c) ==
    /\ c.k \in {"eq", "ne", "is", "any", "not", "and", "or"} /\ Operators[c] \in Nat
    /\ c.k \in {"eq", "ne", "is"} => c.x \in Vars
    /\ \A d \in Operands(c) : d \in Conds /\ Operators[d] < Operators[c]

IsStatement(st) ==
    /\ st.op \in {"return", "set", "if", "block", "loop", "lit", "never", "assert", "call", "recover"}
    /\ st.op = "return" => st.e \in Pointers \cup {"any"}
    /\ st.op \in {"set", "assert"} => st.x \in Vars
    /\ st.op = "if" => st.init \subseteq Vars /\ st.c \in Conds
    /\ Depth[st] \in Nat
    /\ \A part \in ToSet(Parts(st)) : part \in Seq(Statements)
    /\ \A t \in Within(st) : Depth[t] < Depth[st]

ASSUME CalleeAssumption ==
    /\ MaxLen \in Nat /\ MaxTurns \in Nat
    /\ Params \in Seq(STRING)
    /\ Vars \cap (Value \cup {"new", "getter", "any", "none"}) = {}
    /\ \A s \in Signatures : /\ s.kind \in {"mapper", "helper", "predicate"}
                             /\ s.err \in BOOLEAN /\ s.named \in BOOLEAN
                             /\ Stmts[s.kind] \subseteq Statements
    /\ \A c \in Conds : IsCondition(c)
    /\ \A st \in Statements : IsStatement(st)

VARIABLES
    sig,   \* the signature
    form,  \* the form of the call
    args,  \* what the call passes, behind a receiver in a method expression
    body,  \* the body so far
    run    \* its execution: the parameters, how it ended, with what value and error
vars == <<sig, form, args, body, run>>
Index(x) == CHOOSE i \in DOMAIN Params : Params[i] = x
-----------------------------------------------------------------------------
(* Reading the body.                                                       *)
\* inspectSkippingFuncLits: the statements in a block, inner ones included.
InsideStep(st, inside) == {st} \cup UNION {inside[t] : t \in Within(st)}
Inside(b) ==
    LET inside[st \in Statements] == InsideStep(st, inside)
    IN  UNION {inside[b[i]] : i \in DOMAIN b}
ContainsReturn(b) == \E st \in Inside(b) : st.op = "return"
BlockEndsInNeverReturn(b) == b # <<>> /\ Last(b).op = "never"
\* collectNilResultIndexes: a literal nil, beside an error that is one.
YieldsNil(s, st) == st.op = "return" /\ st.v = "nil" /\ (s.err => st.e = "nil")
\* paramNilOnTrue (t) and paramNilOnFalse (f): what is nil where c is that.
ParamNilStep(c, nils) ==
    CASE c.k = "eq"  -> [t |-> {c.x}, f |-> {}]
      [] c.k = "ne"  -> [t |-> {}, f |-> {c.x}]
      [] c.k = "not" -> [t |-> nils[c.c].f, f |-> nils[c.c].t]
      [] c.k = "and" -> [t |-> nils[c.l].t \cup nils[c.r].t, f |-> {}]
      [] c.k = "or"  -> [t |-> {}, f |-> nils[c.l].f \cup nils[c.r].f]
      [] OTHER       -> [t |-> {}, f |-> {}]
ParamNil(c) == LET nils[d \in Conds] == ParamNilStep(d, nils) IN nils[c]
\* guardedParamsIn, for every return of nil: the parameters the ifs around it
\* test.  One inside anything else is not found, and has none.
GuardsIn(b, guards, active) == UNION {guards[b[i]][active] : i \in DOMAIN b}
GuardsStep(s, st, guards, active) ==
    CASE YieldsNil(s, st)   -> {active}
      [] st.op = "block"    -> GuardsIn(st.body, guards, active)
      [] st.op = "if"       -> GuardsIn(st.then, guards, active \cup ParamNil(st.c).t)
                               \cup GuardsIn(st.els, guards, active)
      [] st.op = "loop"     -> IF \E t \in Inside(st.body) : YieldsNil(s, t) THEN {{}} ELSE {}
      [] OTHER              -> {}
GuardsOfNil(s, b) ==
    LET guards[st \in Statements] == [active \in SUBSET Vars |-> GuardsStep(s, st, guards, active)]
    IN  GuardsIn(b, guards, {})
Common(sets) == {x \in UNION sets : \A s \in sets : x \in s}
Unconditional == "always"
\* A slip: any one of the parameters that guard some return will do.
NilResultsOfAny(s, b) ==
    LET guards == GuardsOfNil(s, b)
    IN  CASE guards = {} -> {}
          [] \E x \in Vars : UNION guards = {x} -> UNION guards
          [] OTHER -> {Unconditional}
\* computeNilResultsFact: nothing, the parameter that dominates every return of
\* nil, or Unconditional.
NilResults(s, b) ==
    LET guards == GuardsOfNil(s, b)
    IN  CASE guards = {} -> {}
          [] \E x \in Vars : Common(guards) = {x} -> Common(guards)
          [] OTHER -> {Unconditional}
\* A slip: the last return is the one that counts.
NonNilAtLast(s, b) ==
    /\ ~s.named /\ b # <<>>
    /\ Last(b).op = "return" /\ Last(b).v \in {"new", "getter"}
\* computeNonNilResultsFact.
NonNilResults(s, b) ==
    LET returns == {st \in Inside(b) : st.op = "return"}
    IN  /\ ~s.named /\ returns # {}
        /\ \A st \in returns : st.v \in {"new", "getter"}
NeverReturns(b) == BlockEndsInNeverReturn(b) /\ ~ContainsReturn(b)
\* condAssertsParam: !x, or x == false.
CondAsserts(c, x) == c = [k |-> "not", c |-> [k |-> "is", x |-> x]]
Plain(st) == st.op = "if" /\ st.init = {} /\ st.els = <<>>
\* assertFormIf, assertFormIfReturnThenPanic (with tailNeverReturns) and
\* assertFormDelegation, at statement i.
AssertForm(b, i, x) ==
    LET st == b[i] tail == SubSeq(b, i + 1, Len(b))
    IN  \/ Plain(st) /\ CondAsserts(st.c, x) /\ BlockEndsInNeverReturn(st.then)
        \/ /\ Plain(st) /\ st.c = [k |-> "is", x |-> x]
           /\ Len(st.then) = 1 /\ st.then[1].op = "return"
           /\ BlockEndsInNeverReturn(tail) /\ ~ContainsReturn(tail)
        \/ st.op = "assert" /\ st.x = x
\* A slip: what stands before the form is not looked at.
AssertedAnywhere(b, x) == \E i \in DOMAIN b : AssertForm(b, i, x)
\* paramIsAsserted: no form is looked for behind a statement that may return.
ParamIsAsserted(b, x) ==
    \E i \in DOMAIN b : /\ AssertForm(b, i, x)
                        /\ \A j \in 1..i - 1 : b[j].op \notin {"return", "if", "loop"}
First(xs) == {x \in xs : \A y \in xs : Index(x) <= Index(y)}
AssertHelper(b) == First({x \in Vars : ParamIsAsserted(b, x)})
\* A slip: the guard need not come first.
GuardsNilAnywhere(b, x) ==
    \E i \in DOMAIN b : /\ Plain(b[i]) /\ b[i].c = [k |-> "eq", x |-> x]
                        /\ Len(b[i].then) = 1 /\ b[i].then[1].op = "return" /\ b[i].then[1].v = "true"
\* guardsNilParam: the first statement, which may have an else.
GuardsNilParam(b, x) ==
    /\ b # <<>> /\ b[1].op = "if" /\ b[1].init = {} /\ b[1].c = [k |-> "eq", x |-> x]
    /\ Len(b[1].then) = 1 /\ b[1].then[1].op = "return" /\ b[1].then[1].v = "true"
\* delegatesNilParam: the only one, which asks another predicate.
DelegatesNilParam(b, x) == Len(b) = 1 /\ b[1].op = "return" /\ b[1].v = x
NilPredicate(b) == First({x \in Vars : GuardsNilParam(b, x) \/ DelegatesNilParam(b, x)})
\* The argument a fact about x is read as: the one at its position in the call.
Position(x) == args[Index(x)]
-----------------------------------------------------------------------------
(* What the body does.                                                     *)
TypeOf(s) == IF s.kind = "helper" THEN Bools ELSE Pointers
Runs ==
    [env : [Vars -> Value], env0 : [Vars -> Value], how : {"on", "return", "panic"},
     v : Value \cup {"none"}, e : Pointers, literal : BOOLEAN, recover : BOOLEAN]
\* Whether a condition may be true (yes) and false (no): "any" is about
\* something else.
Exactly(b) == [yes |-> b, no |-> ~b]
TestStep(c, test, env) ==
    CASE c.k = "eq"  -> Exactly(env[c.x] = "nil")
      [] c.k = "ne"  -> Exactly(env[c.x] # "nil")
      [] c.k = "is"  -> Exactly(env[c.x] = "true")
      [] c.k = "any" -> [yes |-> TRUE, no |-> TRUE]
      [] c.k = "not" -> [yes |-> test[c.c].no, no |-> test[c.c].yes]
      [] c.k = "and" -> [yes |-> test[c.l].yes /\ test[c.r].yes, no |-> test[c.l].no \/ test[c.r].no]
      [] c.k = "or"  -> [yes |-> test[c.l].yes \/ test[c.r].yes, no |-> test[c.l].no /\ test[c.r].no]
Test(c, env) == LET test[d \in Conds] == TestStep(d, test, env) IN test[c]
\* Disciplines "reassign" and "shadow": a parameter, or what an if declares in
\* its name, is never nil, or true, where what was passed for it is not.
MayHold(r, x, v, wild) == wild \in Wild \/ v \in {"set", "false"} \/ v = r.env0[x]
\* What a return expression may evaluate to.
Returned(s, v, env) ==
    CASE v = "nil" -> {"nil"} [] v \in {"new", "getter"} -> {"set"}
      [] v \in Bools -> {v}
      [] v \in Vars -> IF env[v] = "nil" THEN {"true"} ELSE Bools  \* another predicate's answer
      [] v = "any" -> IF s.kind = "predicate" THEN Bools ELSE Pointers
      [] OTHER -> {"none"}
Errored(e) == IF e = "any" THEN Pointers ELSE {e}
\* A panic ends the execution; where it is recovered, with zero results.
Panicked(r) ==
    IF r.recover THEN [r EXCEPT !.how = "return", !.v = "nil", !.e = "nil", !.literal = FALSE]
    ELSE [r EXCEPT !.how = "panic"]
DoSeq(b, do, r) ==
    LET upTo[n \in 0..Len(b)] == IF n = 0 THEN {r} ELSE UNION {do[b[n]][q] : q \in upTo[n - 1]}
    IN  upTo[Len(b)]
\* What an if declares is visible in it alone.
Redeclared(s, st, r) ==
    {env \in [Vars -> TypeOf(s)] :
        \A x \in Vars : IF x \in st.init THEN MayHold(r, x, env[x], "shadow") ELSE env[x] = r.env[x]}
Back(st, r, q) == [q EXCEPT !.env = [x \in Vars |-> IF x \in st.init THEN r.env[x] ELSE q.env[x]]]
Branches(st, do, r) ==
    (IF Test(st.c, r.env).yes THEN DoSeq(st.then, do, r) ELSE {})
    \cup (IF Test(st.c, r.env).no THEN DoSeq(st.els, do, r) ELSE {})
DoIf(s, st, do, r) ==
    {Back(st, r, q) : q \in UNION {Branches(st, do, [r EXCEPT !.env = env]) : env \in Redeclared(s, st, r)}}
DoLoop(st, do, r) ==
    LET turns[n \in 0..MaxTurns] ==
          IF n = 0 THEN {r} ELSE turns[n - 1] \cup UNION {DoSeq(st.body, do, q) : q \in turns[n - 1]}
    IN  turns[MaxTurns]
\* One that has ended stays so.
DoStep(s, st, do, r) ==
    IF r.how # "on" THEN {r} ELSE
    CASE st.op = "return"  -> {[r EXCEPT !.how = "return", !.v = v, !.e = e, !.literal = YieldsNil(s, st)] :
                                  v \in Returned(s, st.v, r.env), e \in Errored(st.e)}
      [] st.op = "set"     -> {[r EXCEPT !.env[st.x] = v] :
                                  v \in {w \in TypeOf(s) : /\ st.v \in {"any", w}
                                                           /\ MayHold(r, st.x, w, "reassign")}}
      [] st.op = "if"      -> DoIf(s, st, do, r)
      [] st.op = "block"   -> DoSeq(st.body, do, r)
      [] st.op = "loop"    -> DoLoop(st, do, r)
      [] st.op = "never"   -> {Panicked(r)}
      [] st.op = "assert"  -> {IF r.env[st.x] = "true" THEN r ELSE Panicked(r)}
      [] st.op = "call"    -> {r, Panicked(r)}
      [] st.op = "recover" -> {[r EXCEPT !.recover = TRUE]}
      [] st.op = "lit"     -> {r}
Do(s, st, r) ==
    LET do[t \in Statements] == [q \in Runs |-> DoStep(s, t, do, q)]
    IN  do[st][r]
-----------------------------------------------------------------------------
\* In a method expression the receiver comes before the arguments; a variadic
\* parameter is a slice of them, never nil.  Both are disciplines.
Passed(f, as) ==
    [x \in Vars |-> CASE f = "methodexpr" -> as[Index(x) + 1]
                      [] f = "variadic" /\ Index(x) = Len(Params) -> "set"
                      [] OTHER -> as[Index(x)]]
Init ==
    /\ sig \in Signatures
    /\ form \in {f \in Forms : f = "plain" \/ f \in Wild}
    /\ args \in [1..Len(Params) + (IF form = "methodexpr" THEN 1 ELSE 0) -> TypeOf(sig)]
    /\ body = <<>>
    /\ LET env == Passed(form, args)
       IN  run = [env |-> env, env0 |-> env, how |-> "on", v |-> "none", e |-> "nil",
                  literal |-> FALSE, recover |-> FALSE]
\* Disciplines "guardreturn", "block" and "recover": an assertion's own branch
\* does not return, nor does an inner block, and no panic is recovered.
Follows(st) ==
    /\ st.op = "if" /\ sig.kind = "helper" /\ BlockEndsInNeverReturn(st.then) /\ ContainsReturn(st.then)
         => "guardreturn" \in Wild
    /\ st.op = "block" /\ sig.kind = "helper" /\ ContainsReturn(st.body) => "block" \in Wild
    /\ (\E t \in Inside(<<st>>) : t.op = "recover") => "recover" \in Wild
\* The next statement of the body; behind a return or a panic it is not executed.
Extend(st) ==
    /\ Len(body) < MaxLen /\ Follows(st)
    /\ body' = Append(body, st)
    /\ run' \in Do(sig, st, run)
    /\ UNCHANGED <<sig, form, args>>
Next == \E st \in Stmts[sig.kind] : Extend(st)
Spec == Init /\ [][Next]_vars
-----------------------------------------------------------------------------
(* Properties.                                                             *)
\* A call that returns a literal nil beside a nil error has been announced: the
\* fact says that it may, always or because of an argument that is in fact nil
\* in this call (nilResults, NilWhenParamNil).
NilResultsAnnounced ==
    run.how = "return" /\ run.literal =>
        \E x \in NilResults(sig, body) : x = Unconditional \/ Position(x) = "nil"
\* A result the fact calls proven is set whenever the function has returned,
\* and its caller has checked no error (nonNilResults: "on every return path").
NonNilResultsHold ==
    sig.kind = "mapper" /\ run.how = "return" /\ NonNilResults(sig, body) => run.v = "set"
\* A helper that completes, by a return or at its end, does not carry
\* neverReturns, and the argument its assertHelper fact names was true ("panics
\* unless its Arg-th argument is true").
CompletionProves ==
    sig.kind = "helper" /\ run.how \in {"on", "return"} =>
        /\ ~NeverReturns(body)
        /\ \A x \in AssertHelper(body) : Position(x) = "true"
\* A predicate that has answered false was asked about an argument that is set
\* (nilPredicate: "answers true whenever its Arg-th argument is nil").
FalseMeansSet ==
    sig.kind = "predicate" /\ run.how = "return" /\ run.v = "false" =>
        \A x \in NilPredicate(body) : Position(x) = "set"
=============================================================================
