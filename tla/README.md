# A TLA+ model of nilfield

nilfield is a `go vet`-style analyzer for Go. It reports selections and dereferences through a pointer or interface field that no guard has shown to be non-nil. It runs in one goroutine, over source that does not change. What makes it hard is not its own concurrency. It tracks flow-sensitive knowledge through somebody else's program: every rule that keeps, copies, drops or re-creates a piece of knowledge has to agree with every way that program can be executed. Tests cover one snippet at a time. The models here cover every function body that can be built from a set of statements, with every execution of each.

## 1. Inventory

| Component | Source (`src/`) | State | Operations |
|---|---|---|---|
| Scope | `analyzer/scope.go`, `path.go` | per branch: proven paths, aliases of locals, what a checked error vouches for, nil states of locals | `with`, `invalidate`, `markNil`, `dropNil`, `goroutineScope`, `clone`; `canonicalPath`, `assignedPaths` |
| Guards | `analyzer/guards.go` | none | `nilGuards`, `binaryNilGuards`, `clauseGuards`, `clauseListGuards`, `blockExits` |
| Walk | `analyzer/walk.go` | the current scope, and the clones of the statements around the current place | one function for each kind of Go statement |
| Reporting | `analyzer/expr.go` | the diagnostics | `checkExpr`, `checkShortCircuit`, `checkBase`, `checkPath`, `checkBarePathUse` |
| Derivation of facts | `run` in `analyzer/analyzer.go`, `facts.go`, the `export...Fact` functions | one fact at most of each of seven kinds for each function, `exportedNew` | the prepass, the rounds, seven export functions |
| Recognisers | `assert.go`, `predicate.go`, `receiver.go` | `receiverDeref` while a method is probed | which bodies are assert helpers, nil predicates, nil-safe methods, which never return |
| Validators | `validator.go` | none | which fields a nil error of a method proves |
| Results | `results.go` | none | which results may be nil, and for which arguments; which never are |
| Field wiring | `wiring.go` | the set of wired fields, computed once between the facts and the walk | `computeWiredFields` |
| Module scope | `modulescope.go` | none | is a field's package part of the module? |
| droppederr | `droppederr/` | none | error branches that never name their error, and error branches of database calls that raise it unclassified |
| slogfmt | `slogfmt/` | none | slog calls with two key-value arguments on a line, with a fix that puts each pair on its own |
| Plugins, command | `plugin/`, `cmd/` | settings | registration with golangci-lint and `singlechecker` |

**Interactions.** `run` derives the facts of a package, importing those of the packages it imports, then wires fields, then walks every function. The walk calls `nilGuards` on each condition, `checkExpr` on each expression, and the operations of the scope for everything else; it reads facts and writes none. Closures are walked where they are written. droppederr and slogfmt are separate analyzers that share no state with it.

**Hard behaviours, and what correct means.**

* *Stale knowledge.* A proof has to go when its path, a prefix of it, or a name it was reached through is written, in this statement or anywhere inside a compound one. Correct: what the scope holds is true of every execution that gets here.
* *Order within a statement.* `walkAssign` invalidates before it records. `walkIf` adds proofs and drops writes in an order of its own. A switch reflects the writes of clauses one by one, but adds what they exclude at its end. Correct: whichever order the program can execute, the same invariant.
* *Repetition.* A loop body is walked once and executed many times.
* *Deferred execution.* A goroutine runs when others have changed the heap.
* *Two views of one local.* A local may be an alias of a path, a known nil, or a checked error; only one must answer.
* *A fixpoint with a bound.* Facts feed on facts of other functions, in rounds limited by the number of functions. Correct: facts are never circular, the rounds end, and the early exit loses none.
* *Conclusions about other functions.* A fact is read off the shape of a body and used at every call. Correct: it is true of every execution of that body, for every argument.
* *Conclusions about a whole package.* Whether a field needs a check is settled before the first function is walked. Correct: no order of calls, and no other package, leaves it nil.
* *Fixes that move code.* The fix of one slog call moves another. Correct: fixing comes to an end.
* *A matcher and the program it reads.* droppederr looks at a branch and the statement before it. Correct: what it reports is lost, what is lost it reports.

The complete list, with lines, is under `hazards` in `PROJECT.json`.

## 2. Plan

Done, in this order:

1. `Scope`, `Memory`, `Statements`, `Walk`: the walk in step with an execution. Model-checked.
2. `FactStore` (the promise) and `FactLoop` (the rounds), with the refinement and termination. Model-checked.
3. `FactLoopProofs`. Proved.
4. `Validator`: `validatedFields` against the executions of the method's body. Model-checked.
5. `Callee`: `nilResults`, `nonNilResults`, `neverReturns`, `assertHelper`, `nilPredicate` likewise. Model-checked.
6. `WiredField` (the promise) and `Wiring` (the sweep), with the refinement. Model-checked.
7. The probe for nil-safe receivers, a language of `Walk`. Model-checked.
8. `DroppedErr`: both classes of droppederr against what becomes of the errors. Model-checked.
9. `SlogFmt`: repeated fixes. Model-checked.
10. `ValidatorProofs`, and slogfmt in `LinterProofs`. Proved.
11. `Recursion`, `MemoryProofs`, `WalkProofs`: the walk of simple statements, ifs and blocks. `WiringProofs`: the sweep. Proved.
12. `CalleeProofs`: what is read off a body is true of its calls. Proved. The same of validators, in `ValidatorProofs`.
13. `DroppedErr` executed one statement at a time, with its blocks on a stack, and proved in `LinterProofs`.

Steps 4 to 7 discharge what `Statements` and `FactLoop` take for granted: `validate`, `element`, `callif` and `tuple` return what the facts say, `Exempt` fields are set, rules are sound.

Left, in this order:

14. Proofs of the walk through the other compound statements: ifs with an init statement, whose names end with them; loops, where the frame holds what every turn keeps; clauses, whose memories wait as those of branches do; closures.
15. Packages in dependency order: facts of imported packages as the starting store of `FactLoop`.
16. Abstract specification of the walk (a set of true statements about the memory that a step may shrink or extend by what it observed), with `Walk` as its refinement.
17. Two arguments of one slog call that each hold a call; comments between arguments.

## 3. The modules

### Scope, Memory, Statements, Walk

An expression such as `o.p.q` is the sequence `<<"o","p","q">>`; an explicit dereference is the selector `Star`. The strings of `canonicalPath` are sequences of the same kind, and the two textual tests (`isFieldPath`: contains a dot; `isStarPath`: starts with `(*`) and the prefix test of `invalidate` are modelled by what they say of a printed path. This matters for stars: `p.` is not a prefix of `(*p).n`.

| Code | Model |
|---|---|
| `scope` and its methods | `ScopeType`, `With`, `Invalidate`, `MarkNil`, `DropNil`, `GoroutineScope` |
| `assignedPaths`, `invalidateWrites`, `invalidateTarget` | `AssignedPaths`, `InvalidateWrites`, `InvalidateTarget` |
| `nilGuards` and the clause guards | `NilGuards`, `ComparisonGuards`, `ClauseGuards`, `ClauseListGuards` |
| `checkExpr`, `checkShortCircuit`, `checkPath` | `CondChecks`, `RhsChecks`, `StmtChecks`, `IsReported` |
| `recordAssignment`, `nilOriginState`, `walkDecl` | `RecordAssignment`, `NilOriginState`, `VarDecl` |
| `walkIf` | `OpenIf`, `TakeCond`, `Else`, `EndIf` (`AfterIf`) |
| `walkSwitch`, `walkTypeSwitch`, `walkSelect` | `OpenSwitch`, `ReadTag`, `OpenClause`, `OpenDefault`, `OpenComm`, `EndClause`, `EndSwitch` |
| `walkFor`, `walkRange`, `loopScope` | `OpenLoop`, `LoopTest`, `LoopStep`, `LoopPost`, `EndLoop` (`LoopScope`) |
| `walkBlock`, `walkFuncLit`, `walkGo` | `OpenOther`, `EndBlock`, `EndClosure` |
| return, break, a call that never returns | `Leave` |
| the clones on the Go stack | `frames` |

The state has two halves. `sc` and `frames` are the walker's: the scope at the place being walked, and the scopes and collected writes of the statements around it. `mem` is the program's memory if the execution is at that place, and `Dead` if it went another way. It may then wait in the frame for a later clause (`pend`), fall through into it (`fall`), or be past the statement already (`out`). When the walker closes the statement, the execution resumes (`Resumed`). So the walker visits all branches, the execution takes one, and they meet again behind it, as in reality.

The analysed program is not fixed in advance. Each step adds a simple statement of `Stmts` or opens or closes a compound one, so a behaviour is a function body of any length together with one of its executions. A loop body is the exception: it is executed repeatedly, so it is chosen as a whole from `Bodies`. Its walk is computed when the loop is opened (`Trail`) and its execution then goes round any number of times.

`Memory` is the language, not the analyzer (external in the map): stores, allocation, short-circuit evaluation, panics, interfaces that hold a nil pointer. Garbage is collected in every state so that states that differ only in it are one.

What a run's bodies are built from is a *language*: the simple statements, the heads of ifs, loops and switches, loop bodies, cases and communications, the ways to leave, the names used, which locals are parameters. `Init` chooses one of the run's `Languages`; it never changes. A run with three languages checks three separate families of bodies.

`WalkAssumption` says when a language is one: its statements, heads and conditions are built from what the grammar allows and typed (`Language`, `IsStatement`, `Typed`), conditions have finitely many operators (`CondsAssumption`), the names are closed under what they go through. TLC checks it of every language of the runs; the proofs need no more.

In a language with a receiver, the body is a method's whose receiver may be nil, and which makes no other nil visible (`MakesNil`), so that the receiver's is the one watched. The walk is then also the probe of `exportNilSafeReceiverFact`: `MarksReceiver` says which uses set `receiverDeref`, and `fault.marked` whether the use that panicked did.

### Validator

`ValidatedReceiverFields` and the operators it uses are `validatedReceiverFields` and the functions it calls, over a method body that is a sequence of top-level statements, some with statements inside. `Do` executes a statement (conditions are those of `Memory`); a step appends one statement to the body and executes it. `ValidatorAssumption` says what statements are made of: an if or a loop holds simple ones (`IsSimple`). Behind a return of nil, statements are still appended but not executed, because the analysis reads the whole body: a write there withdraws a field. Taking the address of a field is the same as writing it, to the code and in the model. Deferred closures run when the method ends. A return is of an error made there, of nil, of a local that may be either, or of a call or package variable (`"assumed"`), which `nonNilErrorExpr` accepts whatever it is worth; a call in a return may reach the receiver, and `writtenReceiverFields` does not look at it.

### Callee

The same construction for functions: a body of two parameters grows statement by statement while it is executed, and in every state the facts read off the body so far are compared with what the execution did. `sig` says which sort of function it is: a *mapper* returns a value, perhaps beside an error; a *helper* returns nothing and its parameters are Booleans; a *predicate* answers true or false.

| Code | Model |
|---|---|
| `computeNilResultsFact`, `soleGuardingParam`, `guardedParamsIn`, `paramNilOnTrue` | `NilResults`, `Common`, `GuardsOfNil`, `ParamNil` |
| `computeNonNilResultsFact`, `calleeProvesNonNilResult` | `NonNilResults`; `"getter"` is a call of a function that has the fact |
| `exportNeverReturnsFact`, `blockEndsInNeverReturn` | `NeverReturns`, `BlockEndsInNeverReturn` |
| `paramIsAsserted` and its three forms | `ParamIsAsserted`, `AssertForm` |
| `nilAnsweredParam`, `guardsNilParam`, `delegatesNilParam` | `NilPredicate`, `GuardsNilParam`, `DelegatesNilParam` |
| `callArgDefinitelyNonNil` (which argument a fact is about) | `Position`, read in `args`; what the parameter got is `Passed` |

The code's recursion over statements and conditions is in recursive functions (`Inside`, `ParamNil`, `GuardsOfNil`), and so is the execution (`Test`, `DoSeq`, `DoLoop`, `Do`), each made of a step that looks only at what is inside its argument (`InsideStep`, `GuardsStep`, `DoStep`). `Conds` and `Statements` are their domains. `CalleeAssumption` says what conditions and statements are made of, that `Conds` and `Statements` hold what is inside theirs, and that everything is nested finitely often (`Operators`, `Depth`). TLC evaluates it for the run's languages.

Functions the body calls keep what their own facts promise; that this is not circular is `Grounded`.

### WiredField, Wiring

`WiredField` is the promise: some fields are taken to be set from the start, and objects that are built and written never hold nil in one of them. `Wiring` implements it. `ComputeWiredFields` is the sweep of `computeWiredFields` over a package: `Places` are the statements with the statements before them in the same body, `NilableBehind` is `identNilableInBlock`, `Sites` are the literals, `Invalidates` the writes, `Disqualified` what makes the type ineligible altogether. A step calls a function of the package, or lets another package write an exported field or build an object inside one of an exported struct. A call may stop behind any statement, and `objs` keeps every state an object has been in, so calls interleaved with one another need no treatment of their own.

### SlogFmt

A file with one call inside a function literal that is an argument of another, as layouts: the gap in front of each argument. `Fix` applies one suggested fix; the two overlap, and fixing the outer call copies the inner one as it is, but moves the line the inner call starts on, so what the inner call rewrites to changes.

### DroppedErr

A function's own block grows by statements of `Stmts`, each of which is executed as it is written; what is inside an if comes with it. The execution keeps the blocks it is in on `stack`, the innermost last: a block is its list, the next place in it, the statement droppederr would see before its first, the values of the variables that its declarations hide, and the number of the error branch it is. There is an action for each kind of statement (`DoAssign`, `DoLog`, `DoOther`, `DoRaise`) and each way through an if (`TakeBranch` where an error is tested and there is one, `DoThen` where something else is, `DoElse`), and `LeaveBlock` at the end of a block. Errors are numbered by the call that returned them. `run` keeps which were logged or returned, which a predicate was asked about, what the function returned as, and the error branches taken, each with the error it was taken for and what droppederr reports of the if.

The analysis is functions of the text: `ReportsOf` is what droppederr says of an if statement, given the statement before it. It looks at statements in statements through `Inspects`, a recursive function on statements, as `ast.Inspect` does. An if that is the else of another stands in no list (`Unlisted`), which is why `scanSQLClassification` never sees it.

### FactStore, FactLoop

`FactStore` is the promise. A fact is recorded when it follows from facts already there, at most one of a kind for a function, and never withdrawn. What follows from what is the package's source; only a set of rules is kept of it, and `Init` chooses one of `Packages`. `FactLoop` is `run`: the prepass over `validatedFields` and `nilResults`, then rounds over functions and, within each, kinds 3 to 7 in source order, until a round exports nothing or there were as many rounds as functions. An export takes the first argument that qualifies (`\A b : a <= b`), as the code does by looking at parameters in order. The prepass comes once and first, though a validator's guard may leave by a function that never returns or ask a nil predicate (`exportValidatorFact` reads such facts through `blockExits` and `nilGuards`). A fact like that is `LookedForTooEarly`: it is found only if what it rests on is there already, and of the functions of the package itself nothing is. A package without functions exports nothing; `NumFuncs` is at least one.

## 4. Properties

* `TypeOK`: types; in particular paths in guards and in the scope are never empty.
* `ProofsHold`: a path the scope holds proven is not nil in the memory of any execution that is here.
* `NamesAgree`: two names with the same canonical path have the same value. This is what makes it sound to key proofs on paths.
* `ErrorsVouch`: while an error that came from a validator is nil, what it vouched for is not.
* `NilStatesHold`: "is nil" and "holds a nil pointer" are statements of fact.
* `PanicsReported`: a dereference that panics through a field or a star has been reported at the place where it panics.
* `VisibleNilsReported`: so has one through a local whose nil came from this function, in code without nesting. (A statement that takes the address of a local anywhere forgets the local's nil state where it starts; `NilStatesHold` covers that with nesting.)
* `NilSafetyHolds`: a method that panics because its receiver is nil, through whichever copy, is not called nil-safe.
* `NilErrorMeansSet`: when a validator has returned nil, the fields its fact names are set in the caller's object.
* `SettledByNilReturn`: what follows the first return of nil can take fields from the fact, never add one.
* `NilResultsAnnounced`: a call that returns a literal nil has a fact that says so, for this call's arguments.
* `NonNilResultsHold`: a result called never nil is set whenever the function has returned.
* `CompletionProves`: a helper that completes has no `neverReturns` fact, and the argument its `assertHelper` fact names was true.
* `FalseMeansSet`: a predicate that answered false was asked about an argument that is set.
* `StaysWired`: `Wiring` implements `WiredField`: no object is ever seen with nil in a wired field.
* `LeftOutForAReason`: the converse, for code without branches and the forms of `init`: a field that is not wired could have been left nil, is open to other packages, or gets one of several results.
* `Grounded`: no facts rest on one another in a circle.
* `QuietIsClosed`: a loop that stopped because a round found nothing has found every fact that more rounds could find. What it does miss are facts of the first pass that rest on others.
* `Complete`: the same of a loop that ran out of rounds. It does not hold; `OneKindComplete` says where it does.
* `KeepsPromise`: `FactLoop` implements `FactStore`.
* `Terminates`: the derivation ends.
* `FixClears`: a fix clears its own finding.
* `Converges`: fixing again and again, in any order, ends with nothing left to fix.
* `PairsOnLines`: a fixed call has each key beside its value and no two pairs on a line.
* `LossesReported`: an error gone for good when the function returns from the branch taken for it has been reported.
* `ReportsAreLosses`: an error reported as dropped is never logged or returned.
* `UnclassifiedReported`: a database error that leaves its branch as another class, unasked, has been reported.

## 5. Disciplines

The analyzers are heuristics. The properties of section 4 hold of programs that keep to what the code follows. That is stated by `Follows` in each module (`FollowsLoop` and two guards in `Walk`; `Rejects` and `AfterReturned` in `Validator`; `Settles`, `Captures` and `Taken` in `Wiring`), one token for each discipline, and `Wild` lifts it. None is there to hide a case: each is a documented assumption with the shortest body that needs it. With the token in `Wild`, and such statements in the configuration, TLC finds a violation.

Of the walk (`PanicsReported` unless another property is named):

| Lifted by | What programs otherwise do not do | Shortest body that breaks the property |
|---|---|---|
| `share` | write a field through one of two unrelated names of an object, or through one when something known goes through the other | `if x.n == nil {return}; o.n = nil; x.n.f()`, where o and x are the same |
| `star` | rebind what a dereference starts from of which, or of what lies behind it, something is known | `if *o == nil {return}; o = f(); (*o).f()` |
| `rebind` (run `wild_rebind`) | rebind, in a nested statement, a local that is an alias around it | `x := o.n; { x = f() }; if x == nil {return}; o.n.f()` |
| `resolve` | write, in a nested statement, through a name that became an alias there | `if o.n == nil {return}; { x := o; x.n = nil }; o.n.f()` |
| `clausewrite` (run `wild_clausewrite`) | write, in a later clause, what an exiting clause excluded | `switch o.n { case nil: return; default: o.n = nil }; o.n.f()` |
| `o.n = <-ch` in `comms` | assign a known path in a select's communication (README.md:71 says that a write in a select clause drops the proof) | `if o.n == nil {return}; select { case o.n = <-ch: }; o.n.f()` |
| `closure` | write, in a closure, locals or fields of its function | `if o.n == nil {return}; func() { o.n = nil }(); o.n.f()` |
| `goalias` | capture, in a goroutine, an alias of an unproven field | `x := o.n; go func() { if x == nil {return}; o.n.f() }()` |
| `self` | assign a local to itself | `x = nil; x = x; x.f()` (`VisibleNilsReported`; walk.go:123 forgets x before its origin is looked up) |
| `typed` | compare with nil an interface that holds a nil pointer | `i = x; if i == nil {return}; i.M()` with x nil (`VisibleNilsReported`; expr.go:162 asks what is proven before what holds a nil pointer) |
| `iface` | store a nil pointer not known to be nil in an interface | `i = o.n; if i == nil {return}; o.n.f()` |
| `addr` | take the address of a local something else is known of | `if x.n == nil {return}; g(&x); x.n.f()` |
| `head` | falsify, in the body or post statement, what a loop's condition uses | `if o.n == nil {return}; for o.n.ok() { o.n = nil }` |
| `continue` | continue to a post statement, out of a guard | `for ; c(); v = x.n.n { if x.n == nil {continue} }` |
| `receiver` | copy a receiver in a nested block, or rebind it while there is a copy | `x := o; o = o.next(); x.n` in a method of o (`NilSafetyHolds`; receiver.go:8 "whose body never dereferences its own receiver") |
| `exits` with `"break"` | break out of a clause | `switch o.n { case nil: break }; o.n.f()` |
| `exits` with `"fallthrough"` | fall through into a clause | `switch { case o.n == nil: fallthrough; case c(): o.n.f() }` |
| a name of `names` in an if's init | shadow, in a head, a name used around it | `if x := f(); x.n == nil {return}; x.n.f()` |
| a field of `names` in an if's init | assign, in a head, what is used around it | `if o.n == nil {return}; if o.n = f(); c() {}; o.n.f()` (`walkIf` walks the init statement in its clone only, and reflects the writes of the blocks only) |

Calls, moreover, write no field and no local whose address they were not given. The code keeps proofs across calls on purpose.

Of the facts:

| Lifted by | What programs otherwise do not do | Shortest body that breaks the property |
|---|---|---|
| `copy` in `Validator` | write a field, in a validator, through a copy of its receiver, or let a call given the copy do so | `s := r; if r.a == nil {return err}; s.a = nil; return nil` (`NilErrorMeansSet`) |
| `assumed` | return, in a validator's guard or in front of one, a call or package variable that is a nil error after all | `if r.p == nil { return r.tryInit() }; return nil` (`NilErrorMeansSet`; validator.go:195 takes any call for an error, README.md:79 "rejects a nil receiver field before any path that can return a nil error") |
| `returned` | clear a field, in a validator, by a call in a return | `if r.p == nil {return err}; return r.clear()` (`NilErrorMeansSet`; validator.go:287 skips returns) |
| `reassign` | make a parameter nil, or true, that was not | `x = nil; if x == nil {return nil}` (`NilResultsAnnounced`) |
| `shadow` | let an if declare a nil local in a parameter's name | `if x := f(); x == nil {return nil}` (`NilResultsAnnounced`) |
| `guardreturn` | return, in an assertion's own branch, before the panic | `if !x { if c() {return}; panic("") }` (`CompletionProves`; facts.go:8 "panics unless its Arg-th argument is true") |
| `block` | return in an inner block in front of the assertion | `{ if c() {return} }; if !x {panic("")}` (`CompletionProves`) |
| `recover` | recover the panic | `defer func() { recover() }(); panic("")` (`CompletionProves`; facts.go:16 "whose body cannot complete normally") |
| `methodexpr` | call as a method expression, with the receiver as first argument | `T.get(r, x)` for `func (r T) get(x *X) *Y { if x == nil {return nil} ... }` (`NilResultsAnnounced`) |
| `variadic` | ask a predicate whose parameter is variadic | `func none(xs ...*X) bool { if xs == nil {return true}; return false }; none(nil)` (`FalseMeansSet`; predicate.go:10 "whenever its Arg-th argument is nil") |

Of field wiring (`StaysWired`):

| Lifted by | What packages otherwise do not do | Shortest case |
|---|---|---|
| `conditional` | set a nil local in one branch only, in front of a construction | `var h *H; if c() { h = new(H) }; &T{h}` |
| `capture` | store, in a closure, a nil local of the function around it | `var h *H; func() { &T{h} }()` |
| `shadow` | assign a local of the same name in an inner block | `var h *H; { h := new(H) }; &T{h}` |
| `multi` | take nil from a form of several results | `h, ok := m[k]; &T{h}`, and likewise `h, ok := x.(*H)` and `h, err := f()` where f's fact says that h may be nil (wiring.go:617 counts them as set, README.md:69 "a map or slice element, a type assertion result, a call a `may return nil result` fact marks nil-able, or a local carrying one of those") |
| `init` | take nil from a declaration's value or a range clause | `var h *H = nil; &T{h}`, `for _, h := range hs { &T{h} }` (wiring.go:626 looks at declarations without a value only) |
| `external` | build an exported type without its package | `var t pkg.T` |
| `holder` | declare a struct that holds the type, without a value, its type unexported | `var w struct{ T }` (README.md:69 "every construction in the package wiring the field") |
| `result` | use a named result of the type before it is assigned | `func new() (t T) { return }` |
| `generated` | build the type in a generated file | `&T{nil}` there |

Of droppederr, evaluated where a statement is executed (`Follows`, `Fresh`): errors are tested as `err != nil`, under a name with "err" in it (`form`), which nothing shadows or overwrites in the branch (`shadow`); no variable of type error is copied to another (`alias`); a branch that does not name the error leaves (`resume`: `if err != nil { n = 0 }; log(err)`, against droppederr.go:7 "discarded before any boundary can log it"); the error was not logged before, and no other branch around is taken for it (`early`); an if inside a branch leaves only with the error (`branch`), and a branch that names it inside an if ends in a return of it (`look`: `if err != nil { if is(err) { log(err) }; return other }`); a branch with a classifier in it asks a predicate of the error first, or raises nothing unclassified (`mixed`); the error of a database call is tested by the next statement (`gap`), not in an else (`elseif`), and raised as something droppederr knows (`foreign`: `return errors.New("...")`, against README.md:137 "raises through anything other than the project's query-error wrapper"). Without `form`, `shadow`, `alias`, `branch` or `look`, `LossesReported` fails in three statements; without `resume` or `early`, `ReportsAreLosses` and `UnclassifiedReported`; without `mixed`, `elseif`, `foreign` or `gap`, `UnclassifiedReported`.

Of slogfmt: the arguments behind the message are keys and values. With attributes that share a line (`Args <- ArgsWithAttrs` in `slogfmt.cfg`) `PairsOnLines` fails: `slog.Error(msg, slog.Int("a", 1), slog.Int("b", 2))` is reported, and fixed to the same pair on the next line, two attributes to a line, of which README.md:167 says it "would be wrong".

Two disagreements with the documentation about the walk, and one about the rounds, are kept as runs and listed under `findings` with the sentence. The others above are repeatable by adding the token to `Wild` in the configuration of the module's run.

## 6. Runs

All `Walk` runs have two objects, so that two names can be the same object or not, a field can point back, and a cycle can arise, and objects are symmetric (no action or property names one). Bodies are of any length at the top level; `MaxSize` bounds the statements inside one compound statement, which is enough for a write and a use, or a guard and a write, in one block. `CHECK_DEADLOCK FALSE` in the runs where the analysed program may have panicked or returned, or the body be as long as it gets, or the package be without calls, or nothing be left to fix. Nothing the walk goes on to say after a stop is about that execution (`Running`).

| Run | Question | Bounds | Distinct states |
|---|---|---|---|
| `flat` | Does knowledge survive exactly the writes it may? Copies of a field, `o = o.n`, fresh structs, validators, several targets, guards that leave, assert helpers, nil predicates, short circuits. What does a local itself hold? Declarations, nil, map elements, conditional nil results, interfaces, taken addresses, pointers to pointers. Does a nil-safe method tolerate nil? | three languages of 21, 26 and 10 statements, no nesting but an if in the third | 79 thousand |
| `nesting` | Which branch ran, how often, and do writes and exits reach every statement around them? if and else with init statements, else-if chains, blocks, loops with break, continue and return, closures, addresses taken inside | four languages, depth 1, 2, 1 and 2, `MaxSize` 2, 7 loop bodies in 3 kinds of loop | 889 thousand |
| `clauses` | What do clauses that did not match prove, and what may a deferred body rely on? Tagged and tagless switches, switches on an error their init statement declares, selects, type switches, goroutines | two languages, depth 1, `MaxSize` 2, that many statements over all clauses, any number of clauses | 1.04 million |
| `validator` | Does a nil error prove what the fact says? Guards of all shapes, ifs with init and else, loops, deferred writes, calls that reach the receiver, in returns too, copies | 3 statements out of 26, two fields, loops of up to 2 turns | 1.27 million |
| `callee` | Is what is read off a body true of its calls? Guards of all shapes, nested and negated, reassignments, loops, literals, panics | 3 statements out of 27, 21 or 14, two parameters, every argument | 584 thousand |
| `wiring` | Does a wired field stay set? | 1 function of up to 3 statements out of 16, or of up to 2 beside a second one out of 8 more, 3 declarations, calls in any order | 65 thousand |
| `facts` | Does the loop end, keep its promise and find what it can? | every subset of 12 rules between functions 1 and 2 of three; every package of 3 functions and one kind, rules with at most one need | 363 thousand |
| `slogfmt` | Does fixing end, and well? | two calls of 5 and 3 arguments, every combination of gaps in front of each, 4 places of the inner call | 84 thousand |
| `droppederr` | Is what is reported lost, and what is lost reported? | 4 statements out of some 190, branches of up to 3 with an if inside, two errors, three kinds of file | 96 thousand |
| `wild_rebind`, `wild_clausewrite` | see section 5 | 2 to 4 statements | violation |
| `facts_rounds` | Are there enough rounds for facts that alternate between kinds? | two functions, four rules | violation |

Three statements are enough for a guard, something that undoes it or comes before it, and the return that tells; writes and returns also occur inside statements. Two turns let a loop see its own writes. Four statements of `droppederr` are a call, something in between, a branch, and what follows when it did not leave. Wiring needs a declaration, something that changes it, and a construction. Depth 2 is where a write has to cross a statement that is not the innermost, where an else-if is a statement inside a statement, and where what is resumed was suspended twice. Every action fires in some passing run.

`facts` is a closed system, `Done` stands for the walk that follows, and deadlock is checked.

`facts_rounds`: two functions that delegate a receiver and an argument to each other need three rounds and get two. The analyzer then reports a call it would otherwise accept; reordering the declarations changes the result.

**Fairness.** Two specifications state it. `LoopSpec` has weak fairness of its next step: `run` is sequential code that nothing else can block, so it goes on while it can. `Terminates` does not follow from the fairness alone; it needs that every pass over the functions gets to its end and that rounds are counted or quiet. `SlogFmt` has weak fairness of `FixNext`: `--fix` is run again as long as something is reported. Which of two overlapping fixes is applied is left open. The walk is a recursion over a finite tree, and its models, like those of the other modules, follow a body that may stop anywhere: they state no liveness.

## 7. Proofs

`FactLoopProofs` proves, for any number of functions, kinds and arguments and any rules, from `FactAssumption` alone (at least one function, at least one kind of each group, and rules made of facts):

* `TypeCorrect`: `TypeOK` is inductive.
* `Promise`: `FactLoop` implements `FactStore`. Only `Prepass` and `TryExport` change the store; lemma `ExportStep` turns what they do into one `Record` step.
* `NoCircles`: `Grounded` is inductive given the types. The new fact rests on older ones, and no older one can rest on it.
* `QuietIsEnough`: `QuietIsClosed` is not inductive, it speaks of the end only. `QuietInv` strengthens it: no rule whose needs are met lacks its fact, unless it was looked for too early, for each pair of a function and a kind that has been `Tried`. In the prepass those are the pairs before the current place; afterwards all pairs of its kinds; and in a round that has exported nothing, the pairs of the other kinds before the current place. The facts are what they were when such a pair was tried, so it stays settled. An export empties the third group, and the next round fills it again.
* `OneKindIsComplete`: `OneKindComplete` holds: where the rounds have facts of one kind only to derive, the bound of `run` suffices, whatever the length of the chain. The invariant `RoundsCounted` counts: each finished round that was not quiet has added a function to those that have the fact, so the last possible round finds either nothing new or everything. With several kinds a round need not add more than one of five facts per function, which is why `Complete` fails in `facts_rounds`.

`ValidatorProofs` proves, for any receiver, fields, conditions and statements `ValidatorAssumption` allows (what an if or a loop holds is simple), bodies of any length and loops of any number of turns:

* `Settled`: `SettledByNilReturn`. The only invariant it needs is that the body is a sequence of statements (`BodyKept`). Appending one cannot move the first return of a nil error if there is one (`FirstNilErrorReturnStays`, from the existence of a least element, `SomeFirst`), and can only add to what withdraws a field (`WithdrawnStays`).
* `NilErrorIsProof`: `NilErrorMeansSet`, under `Wild = {}` (the disciplines `copy`, `assumed` and `returned` of section 5, each of which has a counterexample). The property speaks of the end only. The invariant `Passed` says where the execution stands before that: while it goes on, the receiver is the object of the caller, what is deferred are fields the body writes, and every field that some guard so far rejects and nothing in the body writes is set. A statement keeps this (`DoGood`), because no field is written but those `WrittenReceiverFields` finds, in a loop or a deferred closure as well (`Leaves`, `WrittenKeeps`); a statement that withdraws a field takes it out of the invariant in the same step. A guard extends it (`GuardPassed`): the execution that goes on has not entered a block that always leaves, so the condition was false, and what `NilGuards` reads off it is true (`GuardsHold`, of `MemoryProofs`). A return of a nil error ends the execution in a statement `ReachesNil` finds, or, where the code takes it for an error, in one that is no guard and has none behind it (`Rejects`), so the first such statement in the text is not behind it, and the guards the fact counts are among those passed (`ProvedBefore`). Later statements can withdraw only (`FieldsSettled`). A body with a rebinding or a call that reaches the receiver has an empty fact.

`LinterProofs` holds the proofs of the two linters. Of droppederr it proves, for any variables, statements `DroppedErrAssumption` allows and functions of any length, blocks nested to any depth, whatever the calls return, under `Wild = {}` (the disciplines of section 5, each of which has a counterexample):

* `NoLossMissed`, `OnlyLosses` and `NoClassMissed`: `LossesReported`, `ReportsAreLosses` and `UnclassifiedReported`.
* None is inductive: two speak of the moment the function returns, and all three relate what droppederr reads in the text of a branch, possibly long before, to what the variables hold now. `IInv` connects them. `Shape`: each block of the stack is a block of the if last passed in the one around it, and what droppederr finds in it, or it hides, is in all blocks around. `Passing`: a passed log of the branch's variable has logged its error, a passed if on a predicate of it has tested it, and a passed return has ended the run. `Core` is about the branches the execution is in and the variables it holds, the hidden ones included: a branch's variable still holds its error (`Open`), no two variables hold the same one (`Unshared`), reports are what the text says (`ReportsSay`), and the error of a branch that does not name it is not seen (`Dropping`). `Running`: as long as the function runs, an error of the database that no branch has handled is that of the variable just assigned (`Pending`), which is what ties `ReportSQLClass`, that looks at one statement, to where the error came from.
* Each action has a lemma (`AssignSound`, `LogSound`, `OtherSound`, `RaiseSound`, `BranchSound`, `ThenSound`, `ElseSound`, `LeaveSound`), put together from what happens to the run (`CallKeeps`, `SeesKeeps`, `EnterKeeps`, `LeaveKeeps`) and to the blocks (`AheadPassed`, `PushKeeps`, `PopKeeps`).
* What the properties need at the end: a return in a branch that is not its own last statement stands in an if inside, so it leaves with the error (`ReturnFacts`), and an error whose branch names it has been seen when the function returns from there (`UsedIsSeen`), or reported or tested where it leaves unclassified (`UnclassifiedIsTold`). A branch that is left at its end has had its error logged (`LeftBehind`).

Of slogfmt it proves, for any arguments, layouts and places of the inner call:

* `FixesClear`: `FixClears`. The point is that what `RewriteCall` writes depends on the layout it replaces (the inner call's indentation is that of a line of the outer one). `FixIsStable` shows that a fix changes nothing its own result depends on: the outer call's indentation is fixed, and the inner one's is read off the outer call, which its fix leaves alone. `LaidKept` is the invariant it needs.
* `PairsTogether`: `PairsOnLines`, for calls whose arguments behind the leading ones are keys and values in turn (`Alternating`; without it the property is false, see the attributes of section 5). A rewritten call starts a line in front of every other argument (`RewrittenLines`), and two arguments have the same line starts before them just if they are a pair (`SameLine`).

`WiringProofs` proves, for any fields, locals, declarations and packages of the kind `WiringAssumption` describes, if packages keep to the disciplines (`Wild = {}`):

* `WiringIsSound`: `StaysWired`, the refinement of `WiredField`. The invariant is that no state of an object that anyone has seen is nil in a wired field. A call preserves it because of an invariant of the run itself (`Sound`): a local that holds nil is one that `identNilableInBlock` lists behind the statements that stand in front of the place in the text (`NilableBehind`), although the execution may have skipped a conditional block, or be inside a closure. `WiredAgrees` reads off `ComputeWiredFields` that every place of the package `Agrees` with the wired fields, `DoKept` that a statement that does builds and writes no nil there, `DoAllKept` and `CallsKept` carry this along bodies of any length.
* `WiringIsFair`: `LeftOutForAReason`. For a construction or a write that kept a field out there is a run of the function up to it that leaves the field nil: the one in which every local that may be nil is (`AllNil`, `DoWorst`). So the sweep, in code without branches, is as precise as it can be without looking at values.

`WalkProofs`, on `MemoryProofs` (the language: paths, conditions, stores and the operations of the scope), proves of the walk, for any names, fields, conditions, objects and statements `WalkAssumption` allows, and bodies of any length, under `Wild = {}` (the disciplines of section 5, each of which has a counterexample):

* In bodies of simple statements, ifs, else-ifs, elses and blocks, nested to any depth (`Structured`: no loops, switches, selects, closures or goroutines, and ifs without an init statement): `ProofsAreTrue`, `AliasesAreTrue`, `NilStatesAreTrue`, `ErrorsAreTrue`, `PanicsAreReported` and `StateIsTyped`, that is `ProofsHold`, `NamesAgree`, `NilStatesHold`, `ErrorsVouch`, `PanicsReported` and `TypeOK`. The languages of run `flat` are such, and `Deep` of run `nesting`.
* In bodies without compound statements (`MaxDepth = 0`): `VisibleNilsAreReported` and `NilSafetyIsEarned`, that is `VisibleNilsReported` (which is stated of such bodies only) and `NilSafetyHolds`. The languages `Straight` and `Values` of run `flat` are such.

Simple statements include guards that return, assert helpers and validators. The argument for a simple statement:

* The invariant `Fits` relates the scope to the memory, and each of the properties is a part of it or follows (`FitsProofs`). `ProofsHold` alone is not inductive. A proven path is canonical, and means what its local holds now: behind `o = o.n` the path `o.n.n` is the field of what `o` has become (`Meaning`), so it needs `NamesAgree`; a returning `err != nil` adds what `err` vouches for, so it needs `ErrorsVouch`; and a path must start with a root that is no alias of anything else (`Clear`), or forgetting the alias would change what it means.
* A condition that holds makes the guards read off it true (`GuardsHold`), and one that panics has been caught by a check that had seen the guards of its left operands (`ConditionCaught`). `NilGuards` and `CondChecks` are recursive functions on conditions; the proofs go by the number of operators (`RankInduction`).
* A statement may write what knowledge rests on. `ReboundSound` (a local) and the lemmas about stores (a field) show that what `Invalidate` keeps does not read the written place, and this is where the disciplines are used: `share` is `FieldDiscipline`, `star` is `LocalDiscipline`. What the statement then records is shown true by kind of right-hand side (`SetFits`, `ResultsFit`, `AddrFits`; together `StatementFits`).
* What goes wrong in a statement has been checked with the scope at its start (`StatementCaught`, `CaughtIsReported`).
* The nils a function shows (`Shown`): every local the execution made nil here is flagged so, is no alias, and holds a typed nil only where that is not taken to be proven. So whatever a statement dereferences of them is reported at once (`ShownReported`). A statement hands the flag on with the value, and drops it only with the value (`StatementShown`); `Fits` is needed for what a copy through an alias or behind a guard reads. It was in this proof that `x = x` and the comparison of a typed nil came up, the disciplines `self` and `typed`.
* The receiver of a method (`Copies`): every local that still holds the receiver's nil resolves to the receiver's name, and nothing is flagged nil, so the use that panics is a use of that name and sets `receiverDeref` (`CopyMarked`). A method's language makes no nils of its own (`MakesNil`), so that a panic is the receiver's.
* When the execution has panicked or left, the walker goes on without it, and the scope still has its type (`EffectTyped`).

The argument for nesting (`NestedInv`):

* `Fits` relates one scope to one memory, but while a branch is walked the walk holds a clone for each statement around it, and the execution may be waiting in one of them. So the invariant has a part for each frame (`Stack`, `Sits`) and one for the place at hand (`AtHand`, `OnTop`).
* A frame does not say that what it cloned is still true, which a write inside may have changed. It says that what was known there, with what the condition proves and without what the block has written (`View`), is part of what is known at hand (`PartOf`), at each level; so it is true because what is at hand is. A part of what `Fits` a memory fits it too (`PartFits`).
* For that, forgetting a write here must forget at least what the frames around are going to forget. They look up the written place with their own aliases. What is written in a frame is a place all scopes around agree on (`Written`, `Agreed`), and here the disciplines `rebind` and `resolve` are used; then nothing that is left begins there (`Gone`, `WrittenGone`).
* A memory that waits for the else fits what the negated condition proves, and one that has come out of the first branch fits what that left (`Awaits`). `AfterIfFacts` is the heart: what `walkIf` goes on with fits the memory of the execution from whichever branch it came, or past the if, also where one of the branches leaves and the proofs of the other's condition are added after the writes are dropped.
* A block, an else, an else-if chained to it and the end of each open and close frames (`NestedOpenBlock`, `NestedOpenIf`, `NestedTakeCond`, `NestedElseWalked`, `NestedEndIf`, `NestedEndBlock`), and a simple statement or an exit changes the last one (`NestedSimple`, `NestedLeave`). A taken address is forgotten where the outermost statement starts, so the statements inside take no others (`Takable`).

`CalleeProofs` proves, for any parameters, signatures, conditions and statements `CalleeAssumption` allows, bodies of any length and nesting, loops of any number of turns and every argument, if programs keep to the disciplines of section 5 (`Wild = {}`):

* `NilResultsAreAnnounced`, `NonNilResultsAreSet`, `CompletionIsProof` and `FalseIsProof`: `NilResultsAnnounced`, `NonNilResultsHold`, `CompletionProves` and `FalseMeansSet`.
* The facts are about the text of a body, the properties about what an execution has come to. The invariant `Account` connects them. An execution that has returned was ended by a return that `Inside` finds; if that was a literal nil, one of the sets of parameters in `GuardsOfNil` was nil throughout (`Explained`). A parameter that holds nil, or true, was passed so (`Steady`: this is what `reassign` and `shadow` are for). And each statement in front of the end has been executed and passed, the first in the environment of the call (`Passes`, `EndsAt`).
* Why a nested statement is `Explained` is an induction on depth (`StatementTells`). An if adds what its condition says to the guards of its first branch; `ConditionTells`, by induction on operators, shows that `paramNilOnTrue` and `paramNilOnFalse` say what is true of a condition that has come out so. A loop is not searched for guards, and its returns count as unguarded.
* `Asserted`: a helper that completes has executed the asserting statement, because nothing in front of it can return (`Reached`). What each of the three forms then lets through is `AssertingIf`, `ReturningIf` and `AssertingCall`. The second also needs that what follows ends in a panic and returns nowhere (`LastNever`, `EndReturns`).
* `Answered`: the guard of a nil predicate is the first statement, so it is executed in the environment of the call, and answers true there.
* The functions and folds defined by recursion exist and unfold (`InsideUnfolds`, `GuardsOfNilIs`, `DoSeqIs`, `DoLoopIs`, `DoIs`), because every step looks below its argument only (`DoStepLooksBelow` and its like).

`Recursion` holds what these proofs use for induction. The library's induction theorems have an operator as a parameter, which the provers here cannot instantiate. The same is stated of sets (the numbers that have a property: `Induction`, `InductionUpTo`, `SequenceInduction`) and functions (`RecursionExists`, `RecursionTyped`, `RankRecursion`: a function equal to its recursive right-hand side exists, is unique, and has values of a type), and proved from `NatLessThanWellFounded` by way of the least element (`SomeFirst`).

**What stays with TLC.** Ifs with init statements, loops, switches, selects, closures and goroutines of the walk, where the same properties are checked in `nesting` and `clauses`. `NilSafetyHolds` of a method with an if, in `flat`. `Terminates` and `Converges`, which are liveness.

## 8. What is not modelled

* Heads other than those of an if, a for or a switch that declares its names. The expression a range is over is a statement in front of the loop, its variables are its own (`for x = range xs` is not modelled), and a type switch has neither an init statement nor a named value.
* Field writes that the sweep of `wiring.go` does not see: through a field's address, and by a range clause.
* `defer` (but in validators and callees), `goto` and labelled break or continue. Deferred calls are checked where they are written, with the scope there.
* Package-level variables and promoted (embedded) fields: `checkPromotedFields` adds bases, not rules. A method promoted through an embedded pointer is not told apart from the type's own.
* Bases that are not paths, such as `f().n` or `m[k].n` (`checkNilOriginBase`): they are looked up once and nothing about them is kept.
* Positions, wording and deduplication of diagnostics; generated files and excluded paths, which filter what is reported.
* Data races of the analysed program, other than what a goroutine finds when it starts.
* How a call is resolved to its callee, and the fixed lists of names (functions that never return, slog's functions, wrappers and predicates of droppederr).
* Facts of imported packages: the store of `FactLoop` starts empty (step 14).
* Wiring of several types at once, other than one that holds another, and type parameters.
* In slogfmt, comments between arguments, which `rewriteCall` drops, and reading of files.
* Precision of the walk. Its properties are about panics that go unreported. A false alarm, such as the one for `y := x` where `x` was proven but is marked nilable, violates none of them. Precision is checked of wiring (`LeftOutForAReason`) and of droppederr's dropped errors (`ReportsAreLosses`).
* Module scope, plugins and the command: tests on import paths, decoding of settings, registration; without state.

## 9. Running

    tlc -workers 2 -config flat.cfg MCWalk
    tlc -workers 2 -config callee.cfg MCCallee
    tlc -workers 2 -config facts.cfg MCFactLoop
    tlapm FactLoopProofs.tla
    tlapm ValidatorProofs.tla
    tlapm LinterProofs.tla
    tlapm Recursion.tla
    tlapm WiringProofs.tla
    tlapm MemoryProofs.tla
    tlapm WalkProofs.tla
    tlapm CalleeProofs.tla

and likewise `nesting.cfg` and `clauses.cfg` with `MCWalk`, and the configuration of every other run with its MC module.

The definitions whose comment starts with "A slip" are not part of any specification. Each is a plausible bug of the definition that follows it; put in its place, it makes the run named for it in `PROJECT.json` fail.
