------------------------------- MODULE Wiring -------------------------------
(***************************************************************************)
(* Which pointer fields of a struct type T every construction in its       *)
(* package wires (analyzer/wiring.go), next to executions of the package   *)
(* and of the packages that use it.  A field is a member of wired when its *)
(* uses are not reported; Statements takes the set as Exempt.              *)
(*                                                                         *)
(* A package has one candidate type and a few functions, each with two     *)
(* locals and one object s of type T, its receiver or one it builds.  A    *)
(* statement is                                                            *)
(*   var, set, multi   a local declared without a value; assigned a value; *)
(*                     assigned one of several results, or what comes      *)
(*                     with an ok: a map element, a type assertion         *)
(*   init              a local declared with a value, or by a range clause *)
(*   shadow            another local of that name, in an inner block       *)
(*   keyed, ordered    s is a composite literal, with keys or without      *)
(*   zero, slice       s is new(T) or a variable without a value; s is an  *)
(*                     element of a slice made of them                     *)
(*   holder, result    s is what a struct without a value holds; s is a    *)
(*                     named result                                        *)
(*   field, several    a field of s is assigned a value; one of several    *)
(*   reflect           s is handed to package reflect                      *)
(*   if, closure       statements that may run; in a closure's body        *)
(*                                                                         *)
(* A value is nil, new, "opaque" (a parameter, a copied field, the result  *)
(* of a call without a fact), "maybe" (a map element, a type assertion, a  *)
(* call whose fact says that it may be nil) or a local's.  Opaque values   *)
(* are set: the burden is on what is visibly nil (isNilableValue).         *)
(***************************************************************************)
EXTENDS SequencesExt
CONSTANTS
    FieldOrder,  \* the fields of T, as declared
    Locals,
    Decls,       \* how T may be declared: exported, its exported fields and what holds it by value
    Packages,    \* sequences of functions, each with its body and the kind of file it is in
    Wild         \* what the disciplines named below leave out, taken in
Fields == ToSet(FieldOrder)
Object == [Fields -> {"nil", "set"}]
Value == [k : {"nil", "new", "opaque", "maybe"}] \cup [k : {"local"}, l : Locals]
Simple ==
    [op : {"var"}, l : Locals] \cup [op : {"set", "shadow", "init"}, l : Locals, v : Value]
    \cup [op : {"multi"}, l : Locals, v : [k : {"opaque", "maybe"}]]
    \cup [op : {"keyed"}, vals : UNION {[named -> Value] : named \in SUBSET Fields}]
    \cup [op : {"ordered"}, vals : [DOMAIN FieldOrder -> Value]]
    \cup [op : {"zero", "slice", "holder", "result", "reflect"}]
    \cup [op : {"field"}, f : Fields, v : Value] \cup [op : {"several"}, f : Fields]
Statement == Simple \cup [op : {"if", "closure"}, body : Seq(Simple)]
Func == [file : {"plain", "test", "generated"}, body : Seq(Statement)]
ASSUME WiringAssumption ==
    /\ FieldOrder \in Seq(Fields) /\ IsInjective(FieldOrder)
    /\ Packages \subseteq Seq(Func)
    /\ \A d \in Decls : /\ d.exported \in BOOLEAN /\ d.open \subseteq Fields
                        /\ d.held \in {"no", "exported", "unexported"}
VARIABLES
    decl,   \* how T is declared
    pkg,    \* the package
    wired,  \* what computeWiredFields says
    objs    \* the states objects of type T have been in
vars == <<decl, pkg, wired, objs>>
-----------------------------------------------------------------------------
(* The sweep over the package.                                             *)
\* The statements of a body in the order of the source, inner ones included.
Flat(b) ==
    LET upTo[n \in 0..Len(b)] ==
          IF n = 0 THEN <<>>
          ELSE upTo[n - 1] \o (IF b[n].op \in {"if", "closure"} THEN b[n].body ELSE <<b[n]>>)
    IN  upTo[Len(b)]
\* Every simple statement of a body, with those of the innermost body before it.
Places(b) ==
    UNION {IF b[i].op \notin {"if", "closure"} THEN {[before |-> Flat(SubSeq(b, 1, i - 1)), st |-> b[i]]}
           ELSE {[before |-> (IF b[i].op = "if" THEN Flat(SubSeq(b, 1, i - 1)) ELSE <<>>)
                               \o SubSeq(b[i].body, 1, j - 1),
                  st     |-> b[i].body[j]] : j \in DOMAIN b[i].body} : i \in DOMAIN b}
\* isNilableValue, where nilable holds the locals that may be nil.
IsNilableValue(v, nilable) ==
    v.k \in {"nil", "maybe"} \/ (v.k = "local" /\ v.l \in nilable)
\* A slip: a later assignment does not clear what an earlier one found.
NeverCleared(nilable, st) ==
    CASE st.op = "var" -> nilable \cup {st.l}
      [] st.op \in {"set", "shadow"} /\ IsNilableValue(st.v, nilable) -> nilable \cup {st.l}
      [] OTHER -> nilable
\* assignNilableState and declaresNilLocal: what one statement changes, by name.
\* One of several results counts as set whatever it is; a declaration with a value
\* and a range clause change nothing.
NilableAfter(nilable, st) ==
    CASE st.op = "var"   -> nilable \cup {st.l}
      [] st.op \in {"set", "shadow"} ->
           IF IsNilableValue(st.v, nilable) THEN nilable \cup {st.l} ELSE nilable \ {st.l}
      [] st.op = "multi" -> nilable \ {st.l}
      [] OTHER           -> nilable
\* The locals identNilableInBlock finds visibly nil behind these statements.
NilableBehind(b) ==
    LET upTo[n \in 0..Len(b)] == IF n = 0 THEN {} ELSE NilableAfter(upTo[n - 1], b[n])
    IN  upTo[Len(b)]
\* A slip: a literal with keys says nothing of a field it leaves out.
ProvesFieldNamed(at, f) ==
    CASE at.st.op = "keyed"   ->
           f \in DOMAIN at.st.vals => ~IsNilableValue(at.st.vals[f], NilableBehind(at.before))
      [] at.st.op = "ordered" ->
           \A i \in DOMAIN at.st.vals :
               FieldOrder[i] = f => ~IsNilableValue(at.st.vals[i], NilableBehind(at.before))
\* provesField: a literal sets the field, and to something not visibly nil.
ProvesField(at, f) ==
    CASE at.st.op = "keyed"   ->
           f \in DOMAIN at.st.vals /\ ~IsNilableValue(at.st.vals[f], NilableBehind(at.before))
      [] at.st.op = "ordered" ->
           \E i \in DOMAIN at.st.vals :
               FieldOrder[i] = f /\ ~IsNilableValue(at.st.vals[i], NilableBehind(at.before))
\* recordFieldWrites: an assignment anywhere withdraws the field.
Invalidates(at, f) ==
    /\ at.st.op \in {"field", "several"} /\ at.st.f = f
    /\ at.st.op = "field" => IsNilableValue(at.st.v, NilableBehind(at.before))
\* collectWiringFacts, of the files wiringFiles leaves.
Swept(p) == UNION {Places(p[i].body) : i \in {j \in DOMAIN p : p[j].file = "plain"}}
Sites(p) == {at \in Swept(p) : at.st.op \in {"keyed", "ordered"}}
\* zeroValue, unprovenCollection and reflectEscaped.
Escapes(p) == \E at \in Swept(p) : at.st.op \in {"zero", "slice", "reflect"}
\* typesEmbeddedInExported: another package can build one without a literal.
EmbeddedInExported(d) == d.held = "exported"
Disqualified(d, p) == Escapes(p) \/ EmbeddedInExported(d)
EligibleField(d, f) == ~d.exported \/ f \notin d.open
FieldWired(p, f) ==
    /\ \A at \in Sites(p) : ProvesField(at, f)
    /\ ~\E at \in Swept(p) : Invalidates(at, f)
ComputeWiredFields(d, p) ==
    IF Disqualified(d, p) \/ Sites(p) = {} THEN {}
    ELSE {f \in Fields : EligibleField(d, f) /\ FieldWired(p, f)}
-----------------------------------------------------------------------------
(* Executions of a function.  A run of it holds its locals, its object (or *)
(* none) and the states objects have been in.                              *)
Zero == [f \in Fields |-> "nil"]
Anywhere == {"nil", "set"}
ValuesOf(v, env) ==
    CASE v.k = "nil" -> {"nil"} [] v.k = "maybe" -> Anywhere [] v.k = "local" -> {env[v.l]} [] OTHER -> {"set"}
Holding(r, o) == [r EXCEPT !.s = {o}, !.objs = @ \cup {o}]
\* The objects a literal can build: a field it does not mention is nil.
Built(st, env) ==
    {o \in Object : \A f \in Fields :
        CASE st.op = "keyed"   -> IF f \in DOMAIN st.vals THEN o[f] \in ValuesOf(st.vals[f], env) ELSE o[f] = "nil"
          [] st.op = "ordered" -> \A i \in DOMAIN st.vals : FieldOrder[i] = f => o[f] \in ValuesOf(st.vals[i], env)}
\* Disciplines "multi" and "init": what a local gets in a form that the sweep does
\* not look into is not nil.
Taken(st, env) == {v \in ValuesOf(st.v, env) : v = "set" \/ st.op \in Wild}
Do(st, r) ==
    CASE st.op = "var"     -> {[r EXCEPT !.env[st.l] = "nil"]}
      [] st.op = "set"     -> {[r EXCEPT !.env[st.l] = v] : v \in ValuesOf(st.v, r.env)}
      [] st.op \in {"multi", "init"} -> {[r EXCEPT !.env[st.l] = v] : v \in Taken(st, r.env)}
      [] st.op = "shadow"  -> {r}
      [] st.op \in {"keyed", "ordered"} -> {Holding(r, o) : o \in Built(st, r.env)}
      [] st.op \in {"zero", "slice", "holder", "result"} -> {Holding(r, Zero)}
      [] st.op = "field"   -> {Holding(r, [o EXCEPT ![st.f] = v]) : o \in r.s, v \in ValuesOf(st.v, r.env)}
      [] st.op = "several" -> {Holding(r, [o EXCEPT ![st.f] = v]) : o \in r.s, v \in Anywhere}
      [] st.op = "reflect" -> {Holding(r, o) : o \in IF r.s = {} THEN {} ELSE Object}
DoAll(b, r) ==
    LET upTo[n \in 0..Len(b)] == IF n = 0 THEN {r} ELSE UNION {Do(b[n], q) : q \in upTo[n - 1]}
    IN  upTo[Len(b)]
\* Discipline "conditional": what a branch makes of a nil local, it makes of it
\* whenever control gets past the branch.  The sweep takes it for unconditional.
Settles(b, r) ==
    "conditional" \in Wild
    \/ \A i \in DOMAIN b :
           b[i].op = "multi" \/ (b[i].op = "set" /\ b[i].v.k \notin {"nil", "maybe"}) => r.env[b[i].l] = "set"
\* Discipline "capture": a closure stores no nil local of the function around
\* it.  The sweep looks at the closure's own statements only.
Stored(st) ==
    CASE st.op \in {"keyed", "ordered"} -> {st.vals[i] : i \in DOMAIN st.vals}
      [] st.op \in {"set", "field"}     -> {st.v}
      [] OTHER                          -> {}
Captures(b, r) ==
    /\ "capture" \notin Wild
    /\ \E i \in DOMAIN b : \E v \in Stored(b[i]) : v.k = "local" /\ r.env[v.l] = "nil"
DoTop(st, r) ==
    CASE st.op = "if"      -> DoAll(st.body, r) \cup (IF Settles(st.body, r) THEN {r} ELSE {})
      [] st.op = "closure" -> IF Captures(st.body, r) \/ ~Settles(st.body, r) THEN {} ELSE DoAll(st.body, r) \cup {r}
      [] OTHER             -> Do(st, r)
\* A call of a function, its object being one there is or none yet.  It may
\* stop behind any of its statements.
Calls(fn, there) ==
    LET begin == {[env |-> [l \in Locals |-> "set"], s |-> s, objs |-> there] :
                     s \in {{}} \cup {{o} : o \in there}}
        upTo[n \in 0..Len(fn.body)] ==
          IF n = 0 THEN begin ELSE UNION {DoTop(fn.body[n], r) : r \in upTo[n - 1]}
    IN  UNION {upTo[n] : n \in 0..Len(fn.body)}
-----------------------------------------------------------------------------
\* Disciplines "shadow", "holder", "result" and "generated": the statements, and
\* the files, the sweep does not know for what they are.
Unseen == {"shadow", "holder", "result"} \ Wild
Follows(d, p) ==
    \A i \in DOMAIN p :
        /\ p[i].file = "generated" => "generated" \in Wild
        /\ \A at \in Places(p[i].body) :
             /\ at.st.op \in Unseen => at.st.op = "holder" /\ d.held = "exported"
             /\ at.st.op = "holder" => d.held # "no"
Init ==
    /\ decl \in Decls /\ pkg \in Packages /\ Follows(decl, pkg)
    /\ wired = ComputeWiredFields(decl, pkg)
    /\ objs = {}
\* Somebody calls a function that is no test.
Call(i) ==
    /\ pkg[i].file # "test"
    /\ \E r \in Calls(pkg[i], objs) : objs' = r.objs
    /\ UNCHANGED <<decl, pkg, wired>>
\* Another package writes an exported field of an exported type.
Outside ==
    /\ decl.exported
    /\ \E o \in objs, f \in decl.open, v \in Anywhere : objs' = objs \cup {[o EXCEPT ![f] = v]}
    /\ UNCHANGED <<decl, pkg, wired>>
\* Another package declares a variable of an exported struct that holds a T, or,
\* against discipline "external", of the exported type T.
OutsideZero ==
    /\ decl.held = "exported" \/ (decl.exported /\ "external" \in Wild)
    /\ objs' = objs \cup {Zero}
    /\ UNCHANGED <<decl, pkg, wired>>
Next == (\E i \in DOMAIN pkg : Call(i)) \/ Outside \/ OutsideZero
Spec == Init /\ [][Next]_vars
-----------------------------------------------------------------------------
(* Properties.                                                             *)
\* The fields in wired are never seen nil, in whatever order the package's
\* functions run and whatever other packages do (computeWiredFields, "always
\* non-nil").
Promise == INSTANCE WiredField
    WITH promised <- wired, nils <- {f \in Fields : \E o \in objs : o[f] = "nil"}
StaysWired == Promise!Spec
\* The other way: where no branch, closure or init blurs it, an eligible field is left
\* out of wired for a reason: some call could have left it nil, or it is assigned
\* one of several results (isNilableValue: "Demanding a positive proof here
\* instead would ... report every use of a dependency").
Straight(p) == \A i \in DOMAIN p : p[i].file = "plain" /\ \A j \in DOMAIN p[i].body : p[i].body[j].op \notin {"if", "closure", "init"}
LeftNil(p, f) ==
    \E i \in DOMAIN p : \E r \in Calls(p[i], {[g \in Fields |-> "set"]}) : \E o \in r.objs : o[f] = "nil"
LeftOutForAReason ==
    objs = {} /\
    Straight(pkg) /\ ~Disqualified(decl, pkg) /\ Sites(pkg) # {} =>
        \A f \in Fields \ wired :
            \/ ~EligibleField(decl, f) \/ LeftNil(pkg, f)
            \/ \E at \in Swept(pkg) : at.st.op = "several" /\ at.st.f = f
=============================================================================
