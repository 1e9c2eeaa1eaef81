------------------------------- MODULE Memory -------------------------------
(***************************************************************************)
(* The run-time memory of the Go program nilfield reads, as far as its     *)
(* proofs speak of it: which object each local and each pointer field      *)
(* refers to.  This is the language, not the analyzer: it is what a proof  *)
(* "path is not nil" is true or false of.                                  *)
(***************************************************************************)
EXTENDS Scope, SequencesExt

CONSTANTS
    Objects,   \* the structs a pointer can refer to
    Nil,       \* the nil pointer
    TypedNil,  \* an interface that holds a nil pointer: it is not nil itself
    ErrVal,    \* a non-nil error
    Slots,     \* the selectors an object has, of Fields and Star
    Ifaces,    \* the locals of an interface type
    Validated  \* the fields a nil error of the program's validator vouches for

\* The paths of the program whose selectors its objects have.
Expr == {e \in Path : \A i \in 2..Len(e) : e[i] \in Slots}

ASSUME MemoryAssumption ==
    /\ Slots \subseteq Fields \cup {Star}
    /\ Validated \subseteq Fields \cap Slots
    /\ Ifaces \subseteq Locals
    /\ Nil \notin {TypedNil, ErrVal} /\ TypedNil # ErrVal
    /\ {Nil, TypedNil, ErrVal} \cap Objects = {}
    /\ \A c \in Conds : c.k \in {"eq", "ne", "isnil", "test"} => c.e \in Expr

Value == Objects \cup {Nil, TypedNil, ErrVal}

\* origin: the nil locals whose value came, by assignments to locals alone,
\* from a nil this function shows: a declaration, nil itself, a map element.
MemoryType ==
    [env    : [Locals -> Value],
     heap   : [Objects -> [Slots -> Objects \cup {Nil}]],
     origin : SUBSET Locals]

Blank == [s \in Slots |-> Nil]

\* What selectors lead to; what lies behind a nil is taken to be nil.
Deref(v, s, m) == IF v \in Objects THEN m.heap[v][s] ELSE Nil

EvalFrom(v, w, m) ==
    LET upTo[n \in 0..Len(w)] == IF n = 0 THEN v ELSE Deref(upTo[n - 1], w[n], m)
    IN  upTo[Len(w)]

\* The value of an expression.
Eval(e, m) == EvalFrom(m.env[e[1]], Tail(e), m)

\* A dereference of the expression panics.
Faulty(e, m) == Eval(e, m) \in {Nil, TypedNil}

\* Of the dereferenced expressions, the ones the program panics at: evaluating
\* a longer one first evaluates the shorter one it begins with.
FirstFaults(bases, m) ==
    {b \in bases : Faulty(b, m)
                   /\ \A p \in Prefixes(b) \cap bases : p = b \/ ~Faulty(p, m)}

\* The dereferences that reading or writing e performs, and those of a
\* selection on e itself.
Proper(e)  == Prefixes(e) \ {<<>>, e}
Through(e) == Prefixes(e) \ {<<>>}

\* The objects in every set that is closed under the references of the program.
Reachable(env, heap) ==
    LET closed == {kept \in SUBSET Objects :
                     /\ {env[l] : l \in Locals} \cap Objects \subseteq kept
                     /\ \A o \in kept, s \in Slots : heap[o][s] \in Objects => heap[o][s] \in kept}
    IN  {o \in Objects : \A kept \in closed : o \in kept}

\* The garbage collector, so that memories that differ in garbage are one state.
Collect(m) ==
    LET kept == Reachable(m.env, m.heap)
    IN  [m EXCEPT !.heap = [o \in Objects |-> IF o \in kept THEN m.heap[o] ELSE Blank],
                  !.origin = {l \in @ : m.env[l] \in {Nil, TypedNil}}]

Fresh(m) == Objects \ Reachable(m.env, m.heap)

\* lhs = v, where visible says that v is a nil the function shows.
Store(lhs, v, visible, m) ==
    Collect(
      IF IsBare(lhs)
      THEN [m EXCEPT !.env[lhs[1]] = v,
                     !.origin = IF visible THEN @ \cup {lhs[1]} ELSE @ \ {lhs[1]}]
      ELSE [m EXCEPT !.heap[Eval(Front(lhs), m)][Last(lhs)] = v])

\* A nil pointer stored in an interface is not a nil interface.
Converted(lhs, e, m) ==
    IF lhs[1] \in Ifaces /\ IsBare(lhs) /\ e[1] \notin Ifaces /\ Eval(e, m) = Nil
    THEN TypedNil ELSE Eval(e, m)

\* The memories in which lhs holds the address of a new object, its fields in
\* set pointing to new objects of their own.
Allocated(lhs, set, m) ==
    {Store(lhs, new[1], FALSE,
           [m EXCEPT !.heap = [o \in Objects |->
              IF o = new[1] THEN [s \in Slots |-> IF s \in set THEN new[2][s] ELSE Nil]
              ELSE m.heap[o]]]) :
       new \in {n \in Fresh(m) \X [set -> Fresh(m)] :
                  \A f, g \in set : n[2][f] # n[1] /\ (n[2][f] = n[2][g] => f = g)}}

\* The memories in which lhs holds whatever an unknown call returned: nil, an
\* object the program has, or one it has not seen.
Returned(lhs, values, visible, m) ==
    {Store(lhs, v, visible /\ v = Nil,
           [m EXCEPT !.heap = [o \in Objects |-> IF o = v /\ v \in Fresh(m) THEN new ELSE @[o]]]) :
       v \in values, new \in [Slots -> (Objects \ Fresh(m)) \cup {Nil}]}

-----------------------------------------------------------------------------
(* Conditions, as the language evaluates them: what each may come to and   *)
(* the dereferences it may panic at.                                       *)

\* "eq"/"ne" compare e with nil; "isnil" answers true for nil and anything for
\* the rest; "test" selects through e, if there is one, and may come out either way.
Atom(c, m) ==
    LET isNil == Eval(c.e, m) = Nil
    IN  CASE c.k = "eq"    -> [yes |-> isNil,  no |-> ~isNil]
          [] c.k = "ne"    -> [yes |-> ~isNil, no |-> isNil]
          [] c.k = "isnil" -> [yes |-> TRUE,   no |-> ~isNil]
          [] OTHER         -> [yes |-> TRUE,   no |-> TRUE]

\* What evaluating d comes to, when out holds what its operands do.
OutcomeStep(d, out, m) ==
    CASE d.k = "not" ->
           [yes |-> out[d.c].no, no |-> out[d.c].yes, dies |-> out[d.c].dies]
      [] d.k = "and" ->
           [yes  |-> out[d.l].yes /\ out[d.r].yes,
            no   |-> out[d.l].no \/ (out[d.l].yes /\ out[d.r].no),
            dies |-> out[d.l].dies \cup IF out[d.l].yes THEN out[d.r].dies ELSE {}]
      [] d.k = "or" ->
           [yes  |-> out[d.l].yes \/ (out[d.l].no /\ out[d.r].yes),
            no   |-> out[d.l].no /\ out[d.r].no,
            dies |-> out[d.l].dies \cup IF out[d.l].no THEN out[d.r].dies ELSE {}]
      [] d.k = "any"  -> [yes |-> TRUE, no |-> TRUE, dies |-> {}]
      [] d.k = "test" -> LET dies == FirstFaults(Through(d.e), m)
                         IN  [yes |-> dies = {}, no |-> dies = {}, dies |-> dies]
      [] OTHER -> LET dies == FirstFaults(Proper(d.e), m)
                  IN  [yes  |-> dies = {} /\ Atom(d, m).yes,
                       no   |-> dies = {} /\ Atom(d, m).no,
                       dies |-> dies]

Outcome(c, m) == LET out[d \in Conds] == OutcomeStep(d, out, m) IN out[c]
=============================================================================
