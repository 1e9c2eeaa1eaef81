----------------------------- MODULE Validator -----------------------------
(***************************************************************************)
(* What nilfield concludes from the body of a validator method (analyzer/  *)
(* validator.go), next to executions of that body.  The fact it exports,   *)
(* validatedFields, is what Statements takes a checked call of the method  *)
(* to prove.                                                               *)
(*                                                                         *)
(* The body is built one top-level statement at a time, while it is        *)
(* executed.  A statement is [op |-> "write", f] (the receiver's field f,  *)
(* or a pointer taken to it, is assigned anything), "defer" (that, in a    *)
(* deferred closure), "rebind" (the receiver itself), "call" (a call that  *)
(* reaches the receiver's storage or does not), "copy" and "copywrite" (a  *)
(* second name for the receiver, and a field written through it),          *)
(* "return", "panic", or an "if" or "for" that holds such statements.      *)
(* What is returned is an "error", "nil", a "local" error, or a call or a  *)
(* package variable that the code takes for an error, "assumed", be it nil *)
(* or not; a call in it may reach the receiver's storage.  A body with     *)
(* labels has no fact.                                                     *)
(***************************************************************************)
EXTENDS Memory

CONSTANTS
    Recv,      \* the receiver
    Caller,    \* the name its object has in the caller
    Copy,      \* the local that copies the receiver
    Stmts,     \* the statements of the body
    MaxLen,    \* how many there are
    MaxTurns,  \* how often a loop goes round
    Wild       \* "copy": a copy of the receiver is written; "assumed": what a
               \* guard returns for an error is nil; "returned": a call in a
               \* return clears a field

\* What is in a statement has no statement in it.
IsSimple(st) ==
    \/ st.op \in {"write", "defer", "copywrite"} /\ st.f \in Slots \ {Star}
    \/ st.op \in {"rebind", "copy", "panic"}
    \/ st.op = "call" /\ st.reaches \in BOOLEAN
    \/ st.op = "return" /\ st.e \in {"error", "assumed", "nil", "local"} /\ st.reaches \in BOOLEAN

IsBlock(b) == b \in Seq({st \in ToSet(b) : IsSimple(st)})

IsStatement(st) ==
    \/ IsSimple(st)
    \/ /\ st.op = "if" /\ IsBlock(st.init) /\ IsBlock(st.then) /\ IsBlock(st.els)
       /\ st.c \in Conds /\ st.c.k # "nil"
    \/ st.op = "for" /\ IsBlock(st.body)

ASSUME ValidatorAssumption ==
    /\ {Recv, Caller, Copy} \subseteq Locals /\ Recv # Caller /\ Copy \notin {Recv, Caller}
    /\ MaxLen \in Nat /\ MaxTurns \in Nat
    /\ \A st \in Stmts : IsStatement(st)

VARIABLES
    body,  \* the body so far
    run    \* its execution: memory, deferred writes, how it ended if it has

vars == <<body, run>>

-----------------------------------------------------------------------------
(* What the body proves.                                                   *)

\* The statements in a statement, itself included, as ast.Inspect finds them.
Inside(st) ==
    CASE st.op = "if"  -> {st} \cup UNION {ToSet(b) : b \in {st.init, st.then, st.els}}
      [] st.op = "for" -> {st} \cup ToSet(st.body)
      [] OTHER         -> {st}

AllInside(b) == UNION {Inside(b[i]) : i \in DOMAIN b}

\* writtenReceiverFields: wherever they are written, and whether nothing about
\* the receiver survives.  What is in a return is not looked at.
WrittenReceiverFields(b) == {st.f : st \in {s \in AllInside(b) : s.op \in {"write", "defer"}}}

Poisoned(b) == \E st \in AllInside(b) : st.op = "rebind" \/ (st.op = "call" /\ st.reaches)

\* nonNilErrorExpr: any call that is no conversion and any package variable will do.
NonNilErrorExpr(e) == e \in {"error", "assumed"}

\* returnsNonNilError, of every return in it.
ReachesNil(st) == \E s \in Inside(st) : s.op = "return" /\ ~NonNilErrorExpr(s.e)

\* A slip: only a top-level return is one.
FirstNilReturnOnTop(b) ==
    LET on == {i \in DOMAIN b : b[i].op = "return" /\ ~NonNilErrorExpr(b[i].e)}
    IN  IF on = {} THEN Len(b) + 1 ELSE CHOOSE i \in on : \A j \in on : i <= j

FirstNilErrorReturn(b) ==
    LET on == {i \in DOMAIN b : ReachesNil(b[i])}
    IN  IF on = {} THEN Len(b) + 1 ELSE CHOOSE i \in on : \A j \in on : i <= j

\* The block leaves the function, and with a non-nil error only.
RejectsWithError(b) ==
    /\ b # <<>> /\ Last(b).op \in {"return", "panic"}
    /\ \A i \in DOMAIN b : ~ReachesNil(b[i])

\* rejectingGuard: the receiver's fields a statement proves where it falls through.
RejectingGuard(st) ==
    IF st.op = "if" /\ st.init = <<>> /\ st.els = <<>> /\ RejectsWithError(st.then)
    THEN {p[2] : p \in {q \in NilGuards(st.c, NewScope).f : Len(q) = 2 /\ q[1] = Recv /\ q[2] # Star}}
    ELSE {}

\* A slip: a guard behind a return of nil counts too.
FieldsGuardedAnywhere(b) ==
    IF Poisoned(b) THEN {} ELSE (UNION {RejectingGuard(b[i]) : i \in DOMAIN b}) \ WrittenReceiverFields(b)

ValidatedReceiverFields(b) ==
    IF Poisoned(b) THEN {}
    ELSE (UNION {RejectingGuard(b[i]) : i \in 1..FirstNilErrorReturn(b) - 1}) \ WrittenReceiverFields(b)

-----------------------------------------------------------------------------
(* What the body does.                                                     *)

\* The fields fs of what l points to are assigned, anything.
Written(l, fs, m) ==
    IF m.env[l] \notin Objects THEN {}
    ELSE {Collect([m EXCEPT !.heap[m.env[l]] = h]) :
            h \in {g \in [Slots -> Objects \cup {Nil}] :
                     \A s \in Slots \ fs : g[s] = m.heap[m.env[l]][s]}}

\* A call that reaches the receiver may leave anything in its fields.
Reached(m) == IF m.env[Recv] \in Objects THEN Written(Recv, Slots, m) ELSE {m}

\* It goes on, in one of these memories; none means that it panics.
On(r, ms) == IF ms = {} THEN {[r EXCEPT !.how = "panic"]} ELSE {[r EXCEPT !.mem = m] : m \in ms}

\* It ends, when the deferred closures have run.
Ended(r, how) ==
    IF r.due = {} THEN {[r EXCEPT !.how = how]}
    ELSE {[q EXCEPT !.how = IF @ = "on" THEN how ELSE @] : q \in On(r, Written(Recv, r.due, r.mem))}

\* How the function ends with a return of e: with an error, with a nil error, or
\* with a nil error that the code has "assumed" to be none.
Returns(e) ==
    CASE e = "local"   -> {"nil", "error"}
      [] e = "assumed" -> {"assumed", "error"}
      [] OTHER         -> {e}

\* A field of the receiver that is set in m is nil in n.
Clears(m, n) ==
    \E f \in Slots : Deref(m.env[Caller], f, m) # Nil /\ Deref(n.env[Caller], f, n) = Nil

\* What the call in a return leaves behind.
AfterReturned(m) == {n \in Reached(m) : "returned" \in Wild \/ ~Clears(m, n)}

DoSimple(st, r) ==
    CASE st.op = "write"     -> On(r, Written(Recv, {st.f}, r.mem))
      [] st.op = "defer"     -> {[r EXCEPT !.due = @ \cup {st.f}]}
      [] st.op = "rebind"    -> On(r, {Store(<<Recv>>, v, FALSE, r.mem) : v \in Objects \cup {Nil}})
      [] st.op = "call"      -> On(r, IF st.reaches THEN Reached(r.mem) ELSE {r.mem})
      [] st.op = "copy"      -> On(r, {Store(<<Copy>>, r.mem.env[Recv], FALSE, r.mem)})
      [] st.op = "copywrite" -> On(r, Written(Copy, {st.f}, r.mem))
      [] st.op = "panic"     -> {[r EXCEPT !.how = "panic"]}
      [] st.op = "return"    -> UNION {UNION {Ended([r EXCEPT !.mem = m], how) : how \in Returns(st.e)} :
                                         m \in IF st.reaches THEN AfterReturned(r.mem) ELSE {r.mem}}

DoBlock(b, r) ==
    LET upTo[n \in 0..Len(b)] ==
          IF n = 0 THEN {r}
          ELSE UNION {IF q.how = "on" THEN DoSimple(b[n], q) ELSE {q} : q \in upTo[n - 1]}
    IN  upTo[Len(b)]

DoIf(st, r) ==
    UNION {LET out == Outcome(st.c, q.mem)
           IN  IF q.how # "on" THEN {q}
               ELSE (IF out.yes THEN DoBlock(st.then, q) ELSE {})
                    \cup (IF out.no THEN DoBlock(st.els, q) ELSE {})
                    \cup (IF out.dies # {} THEN {[q EXCEPT !.how = "panic"]} ELSE {}) :
           q \in DoBlock(st.init, r)}

DoFor(st, r) ==
    LET turns[n \in 0..MaxTurns] ==
          IF n = 0 THEN {r}
          ELSE UNION {IF q.how = "on" THEN {q} \cup DoBlock(st.body, q) ELSE {q} : q \in turns[n - 1]}
    IN  turns[MaxTurns]

Do(st, r) ==
    CASE st.op = "if" -> DoIf(st, r) [] st.op = "for" -> DoFor(st, r) [] OTHER -> DoSimple(st, r)

-----------------------------------------------------------------------------
Init ==
    /\ body = <<>>
    /\ \E o \in Objects \cup {Nil}, h \in [Objects -> [Slots -> Objects \cup {Nil}]] :
         run = [mem |-> Collect([env    |-> [l \in Locals |-> IF l \in {Recv, Caller} THEN o ELSE Nil],
                                 heap   |-> h,
                                 origin |-> {}]),
                due |-> {}, how |-> "on"]

\* A copy of the receiver is not written, neither one there is nor one the
\* statement makes itself: the fact does not follow copies.
Follows(st) ==
    "copy" \notin Wild =>
        \A s \in Inside(st) : s.op = "copywrite" =>
            /\ run.mem.env[Copy] # run.mem.env[Caller]
            /\ \A t \in Inside(st) : t.op # "copy"

\* A nil error that the code assumes to be none comes from no guard, and no
\* guard is behind it.
Rejects(st, r) == "assumed" \notin Wild /\ r.how = "assumed" => RejectingGuard(st) = {}

\* The next statement of the body; behind a return, it is not executed.
Extend(st) ==
    /\ Len(body) < MaxLen /\ run.how \in {"on", "nil", "assumed"} /\ Follows(st)
    /\ body' = Append(body, st)
    /\ IF run.how = "on" THEN run' \in Do(st, run) ELSE UNCHANGED run
    /\ Rejects(st, run')

Next == \E st \in Stmts : Extend(st)

Spec == Init /\ [][Next]_vars

-----------------------------------------------------------------------------
(* Properties.                                                             *)

\* When the method has returned a nil error, the fields its fact names are set
\* in the caller's object (validatedFields: "proves non-nil whenever it returns
\* a nil error"), wherever in the body the error was returned.
NilErrorMeansSet ==
    run.how \in {"nil", "assumed"} =>
        \A f \in ValidatedReceiverFields(body) : Eval(<<Caller, f>>, run.mem) # Nil

\* A guard proves nothing that a nil error returned before it could miss: what
\* follows the first such return can withdraw fields from the fact, never add
\* one (firstNilErrorReturn).
SettledByNilReturn ==
    [][FirstNilErrorReturn(body) <= Len(body)
         => ValidatedReceiverFields(body') \subseteq ValidatedReceiverFields(body)]_vars
=============================================================================
