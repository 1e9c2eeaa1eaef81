----------------------------- MODULE WalkProofs ------------------------------
(***************************************************************************)
(* What the walk holds to be true of a function body is true, wherever the *)
(* execution is at the place being walked.                                 *)
(***************************************************************************)
EXTENDS Walk, MemoryProofs

-----------------------------------------------------------------------------
(* What simple statements assign.                                          *)

\* Locals hold values of their types.
Typings(m) == \A l \in Locals : m.env[l] \in ValuesOf(l)

LEMMA TypedEval ==
    ASSUME NEW m \in MemoryType, Typings(m), NEW e \in Typed
    PROVE  /\ Eval(e, m) \in Value
           /\ TypeOf(e) = "error" => Eval(e, m) \in {Nil, ErrVal}
           /\ TypeOf(e) = "interface" => Eval(e, m) \in Objects \cup {Nil, TypedNil}
           /\ TypeOf(e) = "pointer" => Eval(e, m) \in Objects \cup {Nil}
           /\ Tail(e) # <<>> => Eval(e, m) \in Objects \cup {Nil}
<1>1. e \in Expr /\ e[1] \in Locals /\ Tail(e) \in Seq(Slots) /\ (IsBare(e) => Tail(e) = <<>>)
  <2>1. e \in Expr
    BY DEF Typed
  <2>2. e[1] \in Locals /\ Tail(e) \in Seq(Slots) /\ Len(Tail(e)) = Len(e) - 1 /\ Len(e) \in Nat
    BY <2>1, ExprParts
  <2>3. ASSUME Len(e) = 1 PROVE Tail(e) = <<>>
    <3>. DEFINE w == Tail(e)
    <3>1. w \in Seq(Slots) /\ Len(w) = 0
      BY <2>2, <2>3
    <3>. HIDE DEF w
    <3>2. w = <<>>
      BY <3>1
    <3>. QED
      BY <3>2 DEF w
  <2>. QED
    BY <2>1, <2>2, <2>3 DEF IsBare
<1>2. CASE Tail(e) # <<>>
  <2>1. Eval(e, m) \in Objects \cup {Nil}
    BY <1>1, <1>2, SelectedValue DEF Eval
  <2>2. TypeOf(e) = "pointer"
    BY <1>1, <1>2 DEF Typed, TypeOf
  <2>. QED
    BY <2>1, <2>2 DEF Value
<1>3. CASE Tail(e) = <<>>
  <2>1. Eval(e, m) = m.env[e[1]]
    BY <1>3, EvalFromEmpty DEF Eval
  <2>2. m.env[e[1]] \in ValuesOf(e[1])
    BY <1>1 DEF Typings
  <2>. QED
    BY <1>3, <2>1, <2>2, StatementsAssumption DEF ValuesOf, TypeOf, Value
<1>. QED
  BY <1>2, <1>3

\* What lhs = rhs puts into lhs.
Gets(lhs, rhs, v, m, n) ==
    /\ rhs.k = "nil" => v = Nil
    /\ rhs.k = "new" => v \in Objects \ Kept(m) /\ \A f \in rhs.set : HasField(lhs, v, f, m, n)
    /\ rhs.k = "path" => v = Converted(lhs, rhs.e, m)
    /\ rhs.k = "callif" /\ v \notin Objects => Eval(rhs.e, m) = Nil
    /\ rhs.k = "validate" /\ v = Nil => \A f \in Validated : Eval(rhs.e \o <<f>>, m) # Nil

LEMMA ResultsForTypes ==
    ASSUME NEW lhs \in Typed
    PROVE  /\ ResultsFor(lhs) \subseteq Value /\ (IsBare(lhs) \/ ResultsFor(lhs) \subseteq Objects \cup {Nil})
           /\ Nil \in ResultsFor(lhs)
           /\ TypeOf(lhs) = "error" => IsBare(lhs) /\ ResultsFor(lhs) = {Nil, ErrVal}
           /\ TypeOf(lhs) = "interface" => IsBare(lhs) /\ ResultsFor(lhs) = Objects \cup {Nil, TypedNil}
           /\ TypeOf(lhs) = "pointer" => ResultsFor(lhs) = Objects \cup {Nil}
           /\ TypeOf(lhs) \in {"error", "interface", "pointer"}
  BY StatementsAssumption DEF ResultsFor, ValuesOf, TypeOf, Typed, Value

LEMMA PathGets ==
    ASSUME NEW m \in MemoryType, Typings(m), NEW lhs \in Typed, NEW rhs, rhs.k = "path", Assignable(lhs, rhs)
    PROVE  Converted(lhs, rhs.e, m) \in ResultsFor(lhs)
<1>1. rhs.e \in Typed /\ (TypeOf(rhs.e) = TypeOf(lhs) \/ (TypeOf(rhs.e) = "pointer" /\ TypeOf(lhs) = "interface"))
  BY DEF Assignable
<1>. DEFINE e == rhs.e
<1>2. e \in Typed
  BY <1>1
<1>. HIDE DEF e
<1>3. /\ TypeOf(e) = "error" => Eval(e, m) \in {Nil, ErrVal}
      /\ TypeOf(e) = "interface" => Eval(e, m) \in Objects \cup {Nil, TypedNil}
      /\ TypeOf(e) = "pointer" => Eval(e, m) \in Objects \cup {Nil}
  BY <1>2, TypedEval
<1>4. /\ TypeOf(lhs) = "error" => ResultsFor(lhs) = {Nil, ErrVal}
      /\ TypeOf(lhs) = "interface" => ResultsFor(lhs) = Objects \cup {Nil, TypedNil}
      /\ TypeOf(lhs) = "pointer" => ResultsFor(lhs) = Objects \cup {Nil}
      /\ TypeOf(lhs) \in {"error", "interface", "pointer"}
  BY ResultsForTypes
<1>5. Eval(e, m) \in ResultsFor(lhs)
  BY <1>1, <1>3, <1>4 DEF e
<1>6. CASE Converted(lhs, e, m) = Eval(e, m)
  BY <1>5, <1>6 DEF e
<1>7. CASE Converted(lhs, e, m) # Eval(e, m)
  <2>1. Converted(lhs, e, m) = TypedNil /\ lhs[1] \in Ifaces
    BY <1>7 DEF Converted
  <2>2. TypeOf(lhs) = "interface"
    BY <2>1, StatementsAssumption DEF TypeOf
  <2>. QED
    BY <1>4, <2>1, <2>2 DEF e
<1>. QED
  BY <1>6, <1>7

LEMMA AssignedWritten ==
    ASSUME NEW m \in MemoryType, Typings(m), NEW lhs \in Typed, NEW rhs, Assignable(lhs, rhs), Ready(lhs, m),
           NEW n, n \in Assigned(lhs, rhs, m)
    PROVE  \E v \in ResultsFor(lhs) : Gets(lhs, rhs, v, m, n) /\ Stores(lhs, v, m, n)
<1>1. lhs \in Expr
  BY DEF Typed
<1>2. /\ ResultsFor(lhs) \subseteq Value /\ (IsBare(lhs) \/ ResultsFor(lhs) \subseteq Objects \cup {Nil})
      /\ Nil \in ResultsFor(lhs)
      /\ TypeOf(lhs) = "error" => IsBare(lhs) /\ ResultsFor(lhs) = {Nil, ErrVal}
      /\ TypeOf(lhs) = "interface" => IsBare(lhs) /\ ResultsFor(lhs) = Objects \cup {Nil, TypedNil}
      /\ TypeOf(lhs) = "pointer" => ResultsFor(lhs) = Objects \cup {Nil}
      /\ TypeOf(lhs) \in {"error", "interface", "pointer"}
  BY ResultsForTypes
<1>3. Agrees(m, m)
  BY DEF Agrees
<1>4. \A v \in ResultsFor(lhs), visible \in BOOLEAN : n = Store(lhs, v, visible, m) => Stores(lhs, v, m, n)
  BY <1>1, <1>2, <1>3, StoreWritten
<1>5. CASE rhs.k = "nil"
  <2>1. n = Store(lhs, Nil, TRUE, m)
    BY <1>5, Zenon DEF Assigned
  <2>. QED
    BY <1>2, <1>4, <1>5, <2>1 DEF Gets
<1>6. CASE rhs.k = "new"
  <2>1. n \in Allocated(lhs, rhs.set, m)
    BY <1>6, Zenon DEF Assigned
  <2>2. TypeOf(lhs) # "error" /\ rhs.set \subseteq Slots
    BY <1>6 DEF Assignable
  <2>3. PICK v \in Objects \ Kept(m) : Stores(lhs, v, m, n) /\ \A f \in rhs.set : HasField(lhs, v, f, m, n)
    BY <1>1, <2>1, <2>2, AllocatedWritten
  <2>4. v \in ResultsFor(lhs)
    BY <1>2, <2>2
  <2>. QED
    BY <1>6, <2>3, <2>4 DEF Gets
<1>7. CASE rhs.k = "path"
  <2>1. n = Store(lhs, Converted(lhs, rhs.e, m), rhs.e[1] \in m.origin, m)
    BY <1>7, Zenon DEF Assigned
  <2>2. Converted(lhs, rhs.e, m) \in ResultsFor(lhs)
    BY <1>7, PathGets
  <2>. DEFINE v == Converted(lhs, rhs.e, m)  shown == rhs.e[1] \in m.origin
  <2>3. Gets(lhs, rhs, v, m, n)
    BY <1>7 DEF Gets
  <2>4. shown \in BOOLEAN /\ n = Store(lhs, v, shown, m) /\ v \in ResultsFor(lhs)
    BY <2>1, <2>2
  <2>. HIDE DEF v, shown
  <2>. QED
    BY <1>4, <2>3, <2>4
<1>8. CASE rhs.k \in {"call", "element"}
  <2>1. PICK visible \in BOOLEAN : n \in Returned(lhs, ResultsFor(lhs), visible, m)
    <3>1. CASE rhs.k = "call"
      BY <3>1, Zenon DEF Assigned
    <3>2. CASE rhs.k = "element"
      BY <3>2, Zenon DEF Assigned
    <3>. QED
      BY <1>8, <3>1, <3>2
  <2>2. PICK v \in ResultsFor(lhs) : Stores(lhs, v, m, n)
    BY <1>1, <1>2, <2>1, ReturnedWritten
  <2>. QED
    BY <1>8, <2>2 DEF Gets
<1>9. CASE rhs.k = "callif"
  <2>. DEFINE values == Objects \cup IF Eval(rhs.e, m) = Nil THEN {Nil} ELSE {}
  <2>1. n \in Returned(lhs, values, TRUE, m)
    BY <1>9, Zenon DEF Assigned
  <2>2. TypeOf(lhs) # "error"
    BY <1>9 DEF Assignable
  <2>3. values \subseteq ResultsFor(lhs)
    BY <1>2, <2>2
  <2>4. values \subseteq Value /\ (IsBare(lhs) \/ values \subseteq Objects \cup {Nil})
    BY <1>2, <2>3
  <2>6. \A v \in values : v \notin Objects => Eval(rhs.e, m) = Nil
    OBVIOUS
  <2>. HIDE DEF values
  <2>5. PICK v \in values : Stores(lhs, v, m, n)
    BY <1>1, <2>1, <2>4, ReturnedWritten
  <2>. QED
    BY <1>9, <2>3, <2>5, <2>6 DEF Gets
<1>10. CASE rhs.k = "validate"
  <2>1. PICK v \in {ErrVal} \cup IF \A f \in Validated : Eval(rhs.e \o <<f>>, m) # Nil THEN {Nil} ELSE {} :
           n = Store(lhs, v, FALSE, m)
    BY <1>10, Zenon DEF Assigned
  <2>2. TypeOf(lhs) = "error"
    BY <1>10 DEF Assignable
  <2>3. v \in ResultsFor(lhs)
    BY <1>2, <2>1, <2>2
  <2>4. v = Nil => \A f \in Validated : Eval(rhs.e \o <<f>>, m) # Nil
    BY <2>1, MemoryAssumption
  <2>. QED
    BY <1>4, <1>10, <2>1, <2>3, <2>4 DEF Gets
<1>. QED
  BY <1>5, <1>6, <1>7, <1>8, <1>9, <1>10 DEF Assignable

-----------------------------------------------------------------------------
(* What a scope may be told of it.                                         *)

\* What P says holds while x is nil.
VouchedFor(P, x, s, m) == \A k \in P : Clear(k, s) /\ (m.env[x] = Nil => Meaning(k, s, m) # Nil)

\* s, where x is a checked error, or another name of p.
Checked(s, x, P) == [s EXCEPT !.errProof[x] = P]

Renamed(s, x, p) == [s EXCEPT !.alias[x] = p]

LEMMA ErrProofSound ==
    ASSUME NEW s \in ScopeType, NEW m, Sound(s, m), NEW x \in Locals, NEW P,
           VouchedFor(P, x, s, m), NEW t, t = Checked(s, x, P)
    PROVE  t \in ScopeType /\ Sound(t, m)
<1>. DEFINE q == [s.errProof EXCEPT ![x] = P]
<1>0. t = [s EXCEPT !.errProof = q]
  BY DEF Checked
<1>1. q \in ErrProofs /\ q[x] = P /\ \A l \in Locals : l = x \/ q[l] = s.errProof[l]
  <2>1. \A k \in P : k \in Path
    BY DEF VouchedFor, Clear, Expr
  <2>. QED
    BY <2>1, ScopeFields DEF ErrProofs
<1>. HIDE DEF q
<1>2. t \in ScopeType /\ t.proven = s.proven /\ t.alias = s.alias /\ t.errProof = q /\ t.nilable = s.nilable
  <2>1. q \in ErrProofs
    BY <1>1
  <2>. QED
    BY <1>0, <2>1, WithErrProofs
<1>3. \A k : (Clear(k, t) <=> Clear(k, s)) /\ Meaning(k, t, m) = Meaning(k, s, m)
  <2>1. t.alias = s.alias
    BY <1>2
  <2>. QED
    BY <2>1, SameAliases
<1>4. Vouched(t.proven, t, m)
  BY <1>2, <1>3 DEF Sound, Vouched
<1>5. ASSUME NEW l \in Locals PROVE AliasHolds(l, t, m) /\ ErrorHolds(l, t, m) /\ StateHolds(l, t, m)
  <2>1. AliasHolds(l, s, m) /\ ErrorHolds(l, s, m) /\ StateHolds(l, s, m)
    BY DEF Sound
  <2>2. AliasHolds(l, t, m)
    BY <1>2, <1>3, <2>1 DEF AliasHolds
  <2>3. ErrorHolds(l, t, m)
    BY <1>1, <1>2, <1>3, <2>1 DEF ErrorHolds, VouchedFor
  <2>4. StateHolds(l, t, m)
    BY <1>2, <2>1 DEF StateHolds
  <2>. QED
    BY <2>2, <2>3, <2>4
<1>. QED
  BY <1>2, <1>4, <1>5 DEF Sound

LEMMA MarkNilSound ==
    ASSUME NEW s \in ScopeType, NEW m, Sound(s, m), NEW x \in Locals, NEW state \in NilState,
           state = "isNil" => m.env[x] = Nil, state = "typedNil" => m.env[x] = TypedNil,
           NEW t, t = MarkNil(s, x, state)
    PROVE  t \in ScopeType /\ Sound(t, m)
<1>. DEFINE q == [s.nilable EXCEPT ![x] = state]
<1>0. t = [s EXCEPT !.nilable = q]
  BY DEF MarkNil
<1>1. q \in NilStates /\ q[x] = state /\ \A l \in Locals : l = x \/ q[l] = s.nilable[l]
  BY ScopeFields DEF NilStates
<1>. HIDE DEF q
<1>2. t \in ScopeType /\ t.proven = s.proven /\ t.alias = s.alias /\ t.errProof = s.errProof /\ t.nilable = q
  BY <1>0, <1>1, WithNilStates
<1>3. \A k : (Clear(k, t) <=> Clear(k, s)) /\ Meaning(k, t, m) = Meaning(k, s, m)
  BY <1>2, SameAliases
<1>4. Vouched(t.proven, t, m)
  BY <1>2, <1>3 DEF Sound, Vouched
<1>5. ASSUME NEW l \in Locals PROVE AliasHolds(l, t, m) /\ ErrorHolds(l, t, m) /\ StateHolds(l, t, m)
  <2>1. AliasHolds(l, s, m) /\ ErrorHolds(l, s, m) /\ StateHolds(l, s, m)
    BY DEF Sound
  <2>2. AliasHolds(l, t, m)
    BY <1>2, <1>3, <2>1 DEF AliasHolds
  <2>3. ErrorHolds(l, t, m)
    BY <1>2, <1>3, <2>1 DEF ErrorHolds
  <2>4. StateHolds(l, t, m)
    BY <1>1, <1>2, <2>1 DEF StateHolds
  <2>. QED
    BY <2>2, <2>3, <2>4
<1>. QED
  BY <1>2, <1>4, <1>5 DEF Sound

\* x refers to what p does, or p begins with x itself.
MayName(x, p, s, m) ==
    /\ p[1] # x => Clear(p, s) /\ m.env[x] = Meaning(p, s, m)
    /\ Len(p) > 1 => m.env[x] \in Objects \cup {Nil}

\* A local becomes another name of a path.
LEMMA AliasSound ==
    ASSUME NEW s \in ScopeType, NEW m, Sound(s, m), NEW x \in Locals, Free(x, s), NEW p \in Expr,
           MayName(x, p, s, m),
           NEW t, t = Renamed(s, x, p)
    PROVE  t \in ScopeType /\ Sound(t, m)
<1>. DEFINE a == [s.alias EXCEPT ![x] = p]
<1>0. t = [s EXCEPT !.alias = a]
  BY DEF Renamed
<1>1. a \in Aliases /\ a[x] = p /\ \A l \in Locals : l = x \/ a[l] = s.alias[l]
  BY ScopeFields DEF Aliases, Expr
<1>. HIDE DEF a
<1>2. t \in ScopeType /\ t.proven = s.proven /\ t.alias = a /\ t.errProof = s.errProof /\ t.nilable = s.nilable
  <2>1. a \in Aliases
    BY <1>1
  <2>. QED
    BY <1>0, <2>1, WithAliases
<1>3. \A l \in Locals : l # x => Root(l, t) = Root(l, s)
  BY <1>1, <1>2 DEF Root
<1>4. \A k : k[1] \in Locals /\ k[1] # x /\ Clear(k, s) => Clear(k, t) /\ Meaning(k, t, m) = Meaning(k, s, m)
  <2>. SUFFICES ASSUME NEW k, k[1] \in Locals, k[1] # x, Clear(k, s)
                PROVE  Clear(k, t) /\ Meaning(k, t, m) = Meaning(k, s, m)
    OBVIOUS
  <2>1. Root(k[1], t) = Root(k[1], s)
    BY <1>3
  <2>. QED
    BY <2>1, SameRoot
<1>5. \A k : Knows(s, k) => Clear(k, t) /\ Meaning(k, t, m) = Meaning(k, s, m)
  <2>. SUFFICES ASSUME NEW k, Knows(s, k) PROVE Clear(k, t) /\ Meaning(k, t, m) = Meaning(k, s, m)
    OBVIOUS
  <2>1. AliasesClear(s) /\ Clear(k, s)
    BY SoundClear
  <2>2. k[1] \in Locals
    BY <2>1, ClearParts
  <2>3. k[1] # x
    BY DEF Free
  <2>. QED
    BY <1>4, <2>1, <2>2, <2>3
<1>6. Vouched(t.proven, t, m)
  BY <1>2, <1>5 DEF Sound, Vouched, Knows
<1>7. ASSUME NEW l \in Locals PROVE ErrorHolds(l, t, m) /\ StateHolds(l, t, m)
  <2>1. ErrorHolds(l, s, m) /\ StateHolds(l, s, m)
    BY DEF Sound
  <2>2. ErrorHolds(l, t, m)
    BY <1>2, <1>5, <2>1 DEF ErrorHolds, Knows
  <2>3. StateHolds(l, t, m)
    BY <1>2, <2>1 DEF StateHolds
  <2>. QED
    BY <2>2, <2>3
<1>8. ASSUME NEW l \in Locals, l # x PROVE AliasHolds(l, t, m)
  <2>1. AliasHolds(l, s, m) /\ t.alias[l] = s.alias[l]
    BY <1>1, <1>2, <1>8 DEF Sound
  <2>. QED
    BY <1>5, <2>1 DEF AliasHolds, Knows
<1>9. p \in Seq(Word) /\ p # <<>> /\ p[1] \in Locals
  BY ExprParts
<1>10. AliasHolds(x, t, m)
  <2>1. CASE p[1] # x
    BY <1>1, <1>2, <1>4, <1>9, <2>1 DEF AliasHolds, MayName
  <2>2. CASE p[1] = x
    <3>1. Root(x, t) = p
      BY <1>1, <1>2, <1>9 DEF Root, NoPath
    <3>2. SubSeq(p, Len(p) + 1, Len(p)) = <<>> /\ p \o <<>> = p
      BY <1>9
    <3>3. Rest(p, t) = <<>>
      BY <2>2, <3>1, <3>2 DEF Rest
    <3>4. Clear(p, t)
      BY <2>2, <3>1, <3>2, <3>3 DEF Clear
    <3>5. Meaning(p, t, m) = m.env[x]
      BY <2>2, <3>3, EvalFromEmpty DEF Meaning
    <3>. QED
      BY <1>1, <1>2, <3>4, <3>5 DEF AliasHolds, MayName
  <2>. QED
    BY <2>1, <2>2
<1>. QED
  BY <1>2, <1>6, <1>7, <1>8, <1>10 DEF Sound

\* The address of a new object, and those its literal sets, are not nil.
NewPaths(lhs, set, s) ==
    {Canonical(lhs, s.alias)} \cup {Canonical(lhs, s.alias) \o <<f>> : f \in set}

LEMMA NewSound ==
    ASSUME NEW s \in ScopeType, NEW m, Sound(s, m), NEW lhs \in Expr, NEW set, set \subseteq Slots,
           Eval(lhs, m) # Nil, \A f \in set : Deref(Eval(lhs, m), f, m) # Nil,
           NEW t, t = With(s, NewPaths(lhs, set, s))
    PROVE  t \in ScopeType /\ Sound(t, m)
<1>1. AliasesClear(s)
  BY SoundClear
<1>2. Clear(Canonical(lhs, s.alias), s) /\ Meaning(Canonical(lhs, s.alias), s, m) # Nil
  BY SoundCanonical
<1>3. ASSUME NEW f \in set
      PROVE  Clear(Canonical(lhs, s.alias) \o <<f>>, s) /\ Meaning(Canonical(lhs, s.alias) \o <<f>>, s, m) # Nil
  <2>. DEFINE e == lhs \o <<f>>
  <2>1. e \in Expr /\ Canonical(e, s.alias) = Canonical(lhs, s.alias) \o <<f>> /\ Eval(e, m) = Deref(Eval(lhs, m), f, m)
    BY <1>1, SelectField
  <2>. HIDE DEF e
  <2>2. Clear(Canonical(e, s.alias), s) /\ Meaning(Canonical(e, s.alias), s, m) = Eval(e, m)
    BY <2>1, SoundCanonical
  <2>. QED
    BY <2>1, <2>2
<1>4. Vouched(NewPaths(lhs, set, s), s, m)
  BY <1>2, <1>3 DEF Vouched, NewPaths
<1>. QED
  BY <1>4, WithSound

\* What is known of nil values is what is so.
LEMMA NilOriginTrue ==
    ASSUME NEW s \in ScopeType, NEW m, NEW t, Sound(s, m), IsLess(s, t), NEW x \in Locals, Free(x, t),
           NEW lhs, lhs = <<x>>, lhs \in Typed, NEW rhs, Assignable(lhs, rhs),
           NEW v, rhs.k = "nil" => v = Nil, rhs.k = "path" => v = Converted(lhs, rhs.e, m),
           NEW state, state = NilOriginState(lhs, rhs, t), t \in ScopeType
    PROVE  state \in NilState /\ (state = "isNil" => v = Nil) /\ (state = "typedNil" => v = TypedNil)
<1>1. CASE rhs.k = "nil"
  <2>1. state = "isNil"
    BY <1>1, Zenon DEF NilOriginState
  <2>. QED
    BY <1>1, <2>1 DEF NilState
<1>2. CASE rhs.k = "path" /\ IsBare(rhs.e)
  <2>. DEFINE e == rhs.e  y == e[1]
  <2>1. state = IF t.nilable[y] = "isNil" /\ lhs[1] \in Ifaces /\ y \notin Ifaces THEN "typedNil" ELSE t.nilable[y]
    <3>1. rhs.k # "nil"
      BY <1>2
    <3>. QED
      BY <1>2, <3>1, Zenon DEF NilOriginState
  <2>2. e \in Expr /\ v = Converted(lhs, e, m)
    BY <1>2 DEF Assignable, Typed
  <2>3. y \in Locals /\ Tail(e) = <<>>
    <3>. HIDE DEF e
    <3>1. e \in Seq(Word) /\ e[1] \in Locals /\ Len(e) = 1
      BY <1>2, <2>2, ExprParts DEF IsBare, e
    <3>. QED
      BY <3>1
  <2>4. Eval(e, m) = m.env[y]
    BY <2>3, EvalFromEmpty DEF Eval
  <2>5. /\ t.nilable[y] \in NilState
        /\ t.nilable[y] = "isNil" => m.env[y] = Nil
        /\ t.nilable[y] = "typedNil" => m.env[y] = TypedNil
    <3>1. t.nilable[y] \in NilState
      BY <2>3, ScopeFields DEF NilStates
    <3>2. StateHolds(y, s, m) /\ (t.nilable[y] \in {"isNil", "typedNil"} => t.nilable[y] = s.nilable[y])
      BY <2>3 DEF Sound, IsLess
    <3>. QED
      BY <3>1, <3>2 DEF StateHolds
  <2>6. lhs[1] = x /\ IsBare(lhs)
    BY DEF IsBare
  <2>. HIDE DEF e
  <2>. QED
    BY <2>1, <2>2, <2>4, <2>5, <2>6, MemoryAssumption DEF Converted, NilState
<1>3. CASE rhs.k = "element"
  <2>1. state = "maybeNil"
    BY <1>3, Zenon DEF NilOriginState
  <2>. QED
    BY <2>1 DEF NilState
<1>4. CASE rhs.k \notin {"nil", "element"} /\ ~(rhs.k = "path" /\ IsBare(rhs.e))
  <2>1. state \in {"maybeNil", "unknown"}
    <3>1. rhs.k # "nil" /\ rhs.k # "element"
      BY <1>4
    <3>2. CASE rhs.k = "callif" /\ Canonical(rhs.e, t.alias) \notin t.proven
      <4>1. state = "maybeNil"
        BY <1>4, <3>1, <3>2, Zenon DEF NilOriginState
      <4>. QED
        BY <4>1
    <3>3. CASE ~(rhs.k = "callif" /\ Canonical(rhs.e, t.alias) \notin t.proven)
      <4>1. state = "unknown"
        BY <1>4, <3>1, <3>3, Zenon DEF NilOriginState
      <4>. QED
        BY <4>1
    <3>. QED
      BY <3>2, <3>3
  <2>. QED
    BY <2>1 DEF NilState
<1>. QED
  BY <1>1, <1>2, <1>3, <1>4

LEMMA ReboundEval ==
    ASSUME NEW x \in Locals, NEW m, NEW n, Rebound(x, m, n), NEW e \in Expr, e[1] # x
    PROVE  Eval(e, n) = Eval(e, m)
<1>1. e[1] \in Locals /\ Tail(e) \in Seq(Slots)
  BY ExprParts
<1>. QED
  BY <1>1 DEF Eval, Rebound

\* x = rhs after the write of x: the path x becomes another name of.
LEMMA CopiedName ==
    ASSUME NEW s \in ScopeType, NEW t \in ScopeType, NEW m \in MemoryType, NEW n, Typings(m), Sound(t, n),
           NEW x \in Locals, Free(x, t), Rebound(x, m, n), \A l \in Locals \ {x} : t.nilable[l] = s.nilable[l],
           NEW lhs, lhs = <<x>>, NEW rhs, rhs.k = "path", rhs.e \in Typed, NilOriginState(lhs, rhs, t) = "unknown",
           ~(Converted(lhs, rhs.e, m) = TypedNil /\ NilOriginState(lhs, rhs, s) = "unknown"),
           n.env[x] = Converted(lhs, rhs.e, m)
    PROVE  Canonical(rhs.e, t.alias) \in Expr /\ MayName(x, Canonical(rhs.e, t.alias), t, n)
<1>. DEFINE e == rhs.e  y == e[1]  p == Canonical(rhs.e, t.alias)
<1>1. e \in Expr /\ y \in Locals /\ Tail(e) \in Seq(Slots) /\ e = <<y>> \o Tail(e) /\ Len(e) \in Nat
  BY ExprParts DEF Typed
<1>2. Clear(p, t) /\ Meaning(p, t, n) = Eval(e, n) /\ p = Root(y, t) \o Tail(e)
  BY <1>1, SoundCanonical
<1>3. p \in Expr
  BY <1>2 DEF Clear
<1>4. y # x => NilOriginState(lhs, rhs, s) = "unknown"
  <2>. SUFFICES ASSUME y # x PROVE NilOriginState(lhs, rhs, s) = "unknown"
    OBVIOUS
  <2>1. CASE IsBare(e)
    <3>1. \A z : NilOriginState(lhs, rhs, z) = IF z.nilable[y] = "isNil" /\ lhs[1] \in Ifaces /\ y \notin Ifaces
                                               THEN "typedNil" ELSE z.nilable[y]
      <4>1. rhs.k # "nil" /\ rhs.k = "path" /\ IsBare(rhs.e)
        BY <2>1
      <4>. QED
        BY <4>1, Zenon DEF NilOriginState
    <3>2. t.nilable[y] = s.nilable[y]
      BY <1>1
    <3>. QED
      BY <3>1, <3>2
  <2>2. CASE ~IsBare(e)
    <3>1. rhs.k # "nil" /\ ~(rhs.k = "path" /\ IsBare(rhs.e)) /\ rhs.k # "element"
          /\ ~(rhs.k = "callif" /\ Canonical(rhs.e, s.alias) \notin s.proven)
      BY <2>2
    <3>. QED
      BY <3>1, Zenon DEF NilOriginState
  <2>. QED
    BY <2>1, <2>2
<1>5. n.env[x] = Eval(e, m)
  <2>1. lhs[1] = x
    OBVIOUS
  <2>2. CASE y = x
    BY <2>1, <2>2 DEF Converted
  <2>3. CASE y # x
    BY <1>4, <2>3 DEF Converted
  <2>. QED
    BY <2>2, <2>3
<1>6. y = x => p[1] = x
  <2>. SUFFICES ASSUME y = x PROVE p[1] = x
    OBVIOUS
  <2>1. t.alias[y] = NoPath
    BY DEF Free
  <2>. QED
    BY <2>1 DEF Canonical
<1>7. p[1] # x => n.env[x] = Meaning(p, t, n)
  <2>. SUFFICES ASSUME p[1] # x PROVE n.env[x] = Meaning(p, t, n)
    OBVIOUS
  <2>1. Eval(e, n) = Eval(e, m)
    <3>1. e[1] # x
      BY <1>6
    <3>. HIDE DEF e
    <3>. QED
      BY <1>1, <3>1, ReboundEval
  <2>. QED
    BY <1>2, <1>5, <2>1
<1>8. Len(p) > 1 => n.env[x] \in Objects \cup {Nil}
  <2>1. CASE Tail(e) # <<>>
    <3>1. Eval(e, m) \in Objects \cup {Nil}
      BY <2>1, TypedEval
    <3>. QED
      BY <1>5, <3>1
  <2>2. CASE Tail(e) = <<>>
    <3>. SUFFICES ASSUME Len(p) > 1 PROVE n.env[x] \in Objects \cup {Nil}
      OBVIOUS
    <3>1. p = Root(y, t)
      <4>1. Root(y, t) \in Expr
        <5>1. AliasesClear(t)
          BY SoundClear
        <5>. QED
          BY <1>1, <5>1, RootIsExpr
      <4>. DEFINE r == Root(y, t)
      <4>2. r \in Seq(Word) /\ p = r \o <<>>
        BY <1>2, <2>2, <4>1, ExprParts
      <4>. HIDE DEF r, p
      <4>3. r \o <<>> = r
        BY <4>2
      <4>4. p = r
        BY <4>2, <4>3
      <4>. QED
        BY <4>4 DEF r
    <3>2. t.alias[y] # NoPath /\ p = t.alias[y]
      <4>1. Len(<<y>>) = 1
        OBVIOUS
      <4>2. p # <<y>>
        <5>1. Len(p) > 1
          OBVIOUS
        <5>. HIDE DEF p
        <5>2. ~(1 > 1)
          OBVIOUS
        <5>. QED
          BY <4>1, <5>1, <5>2, Zenon
      <4>. QED
        BY <3>1, <4>2 DEF Root
    <3>3. y # x
      BY <3>2 DEF Free
    <3>4. AliasHolds(y, t, n)
      BY <1>1 DEF Sound
    <3>5. n.env[y] \in Objects \cup {Nil}
      BY <3>2, <3>4 DEF AliasHolds
    <3>6. Eval(e, m) = m.env[y] /\ n.env[y] = m.env[y]
      <4>1. Eval(e, m) = m.env[y]
        BY <2>2, EvalFromEmpty DEF Eval
      <4>2. n.env[y] = m.env[y]
        BY <1>1, <3>3 DEF Rebound
      <4>. QED
        BY <4>1, <4>2
    <3>. QED
      BY <1>5, <3>5, <3>6
  <2>. QED
    BY <2>1, <2>2
<1>. QED
  BY <1>2, <1>3, <1>7, <1>8 DEF MayName

\* What a nil error of the call proves holds while the error is nil.
LEMMA ValidatorVouches ==
    ASSUME NEW t \in ScopeType, NEW m \in MemoryType, NEW n, Sound(t, n), NEW x \in Errors, Rebound(x, m, n),
           NEW rhs, rhs.k = "validate", rhs.e \in Typed, TypeOf(rhs.e) = "pointer",
           NEW v, n.env[x] = v, v = Nil => \A f \in Validated : Eval(rhs.e \o <<f>>, m) # Nil
    PROVE  VouchedFor(ValidatorProof(rhs, t), x, t, n)
<1>. DEFINE e == rhs.e
<1>1. e \in Expr /\ e[1] \in Locals
  BY ExprParts DEF Typed
<1>2. x \in Locals /\ e[1] # x
  BY StatementsAssumption DEF TypeOf
<1>3. Validated \subseteq Slots /\ AliasesClear(t)
  BY MemoryAssumption, SoundClear
<1>. SUFFICES ASSUME NEW k \in ValidatorProof(rhs, t)
              PROVE  Clear(k, t) /\ (n.env[x] = Nil => Meaning(k, t, n) # Nil)
  BY DEF VouchedFor
<1>4. PICK f \in Validated : k = Canonical(e, t.alias) \o <<f>>
  BY DEF ValidatorProof
<1>. DEFINE d == e \o <<f>>
<1>5. d \in Expr /\ d[1] = e[1] /\ Canonical(d, t.alias) = Canonical(e, t.alias) \o <<f>>
  <2>1. f \in Slots
    BY <1>3
  <2>. HIDE DEF e
  <2>. QED
    BY <1>1, <1>3, <2>1, SelectField
<1>. HIDE DEF d, e
<1>6. k = Canonical(d, t.alias)
  BY <1>4, <1>5
<1>7. Clear(Canonical(d, t.alias), t) /\ Meaning(Canonical(d, t.alias), t, n) = Eval(d, n)
  BY <1>5, SoundCanonical
<1>8. Eval(d, n) = Eval(d, m)
  BY <1>2, <1>5, ReboundEval
<1>9. v = Nil => Eval(d, m) # Nil
  BY DEF d, e
<1>. QED
  BY <1>6, <1>7, <1>8, <1>9

LEMMA AssignLocalSound ==
    ASSUME NEW s \in ScopeType, NEW m \in MemoryType, NEW n, Typings(m), Sound(s, m), NEW x \in Locals,
           \A k : Knows(s, k) /\ k[1] = x => AtOrUnder(<<x>>, k),
           NEW lhs, lhs = <<x>>, lhs \in Typed, NEW rhs, Assignable(lhs, rhs),
           rhs.k = "path" => ~(Converted(lhs, rhs.e, m) = TypedNil /\ NilOriginState(lhs, rhs, s) = "unknown"),
           NEW v, Gets(lhs, rhs, v, m, n), Stores(lhs, v, m, n),
           NEW u, u = Assign(lhs, rhs, s)
    PROVE  u \in ScopeType /\ Sound(u, n)
<1>. DEFINE t == InvalidateTarget(s, lhs)
<1>0. lhs \in Expr /\ lhs[1] = x /\ IsBare(lhs)
  BY DEF IsBare, Typed
<1>1. u = RecordAssignment(lhs, rhs, t)
  BY DEF Assign
<1>2. t = InvalidateTarget(s, <<x>>)
  OBVIOUS
<1>. HIDE DEF t
<1>3. /\ t \in ScopeType /\ Sound(t, m) /\ Free(x, t) /\ IsLess(s, t)
      /\ \A l \in Locals \ {x} : t.nilable[l] = s.nilable[l]
  BY <1>2, InvalidateLocalSound
<1>4. n \in MemoryType /\ n.env = [m.env EXCEPT ![x] = v] /\ Rebound(x, m, n)
  BY <1>0 DEF Stores
<1>5. n.env[x] = v
  BY <1>4 DEF MemoryType
<1>6. Sound(t, n)
  BY <1>3, <1>4, ReboundSound
<1>7. CASE rhs.k = "new"
  <2>1. u = With(t, NewPaths(lhs, rhs.set, t))
    BY <1>1, <1>7 DEF RecordAssignment, NewPaths
  <2>2. v \in Objects /\ \A f \in rhs.set : HasField(lhs, v, f, m, n)
    BY <1>7 DEF Gets
  <2>3. Found(lhs, m) /\ Eval(lhs, n) = v
    BY <1>0 DEF Found, Stores
  <2>4. rhs.set \subseteq Slots /\ Eval(lhs, n) # Nil
    BY <1>7, <2>2, <2>3, MemoryAssumption DEF Assignable
  <2>5. \A f \in rhs.set : Deref(Eval(lhs, n), f, n) # Nil
    BY <1>0, <2>2, <2>3 DEF HasField
  <2>. QED
    BY <1>0, <1>3, <1>6, <2>1, <2>4, <2>5, NewSound
<1>. DEFINE proof == ValidatorProof(rhs, t)  state == NilOriginState(lhs, rhs, t)
<1>8. CASE rhs.k # "new" /\ proof # {}
  <2>1. u = Checked(t, x, proof)
    BY <1>0, <1>1, <1>8 DEF RecordAssignment, Checked
  <2>2. rhs.k = "validate"
    BY <1>8 DEF ValidatorProof
  <2>3. rhs.e \in Typed /\ TypeOf(rhs.e) = "pointer" /\ x \in Errors
    BY <1>0, <2>2 DEF Assignable, TypeOf
  <2>4. v = Nil => \A f \in Validated : Eval(rhs.e \o <<f>>, m) # Nil
    BY <2>2 DEF Gets
  <2>5. VouchedFor(ValidatorProof(rhs, t), x, t, n)
    BY <1>3, <1>4, <1>5, <1>6, <2>2, <2>3, <2>4, ValidatorVouches
  <2>. HIDE DEF proof
  <2>6. VouchedFor(proof, x, t, n)
    BY <2>5 DEF proof
  <2>. QED
    BY <1>3, <1>6, <2>1, <2>6, ErrProofSound
<1>9. CASE rhs.k # "new" /\ proof = {} /\ state # "unknown"
  <2>1. u = MarkNil(t, x, state)
    BY <1>0, <1>1, <1>9 DEF RecordAssignment
  <2>2. (rhs.k = "nil" => v = Nil) /\ (rhs.k = "path" => v = Converted(lhs, rhs.e, m))
    BY DEF Gets
  <2>. HIDE DEF state
  <2>3. state = NilOriginState(lhs, rhs, t)
    BY DEF state
  <2>4. state \in NilState /\ (state = "isNil" => v = Nil) /\ (state = "typedNil" => v = TypedNil)
    BY <1>3, <2>2, <2>3, NilOriginTrue
  <2>. QED
    BY <1>3, <1>5, <1>6, <2>1, <2>4, MarkNilSound
<1>10. CASE rhs.k = "path" /\ proof = {} /\ state = "unknown"
  <2>. DEFINE p == Canonical(rhs.e, t.alias)
  <2>1. u = Renamed(t, x, p)
    BY <1>0, <1>1, <1>10 DEF RecordAssignment, Renamed
  <2>2. rhs.e \in Typed /\ n.env[x] = Converted(lhs, rhs.e, m)
    BY <1>5, <1>10 DEF Assignable, Gets
  <2>3. p \in Expr /\ MayName(x, p, t, n)
    BY <1>3, <1>4, <1>6, <1>10, <2>2, CopiedName
  <2>. HIDE DEF p
  <2>. QED
    BY <1>3, <1>6, <2>1, <2>3, AliasSound
<1>11. CASE rhs.k # "new" /\ proof = {} /\ state = "unknown" /\ rhs.k # "path"
  <2>1. u = t
    BY <1>0, <1>1, <1>11 DEF RecordAssignment
  <2>. QED
    BY <1>3, <1>6, <2>1
<1>. QED
  BY <1>7, <1>8, <1>9, <1>10, <1>11

LEMMA AssignFieldSound ==
    ASSUME NEW s \in ScopeType, NEW m \in MemoryType, NEW n, Sound(s, m),
           NEW lhs \in Typed, ~IsBare(lhs), NEW rhs, Assignable(lhs, rhs),
           Ready(lhs, m), Found(lhs, m), Disciplined(s, m, lhs),
           NEW v, Gets(lhs, rhs, v, m, n), Stores(lhs, v, m, n),
           NEW u, u = Assign(lhs, rhs, s)
    PROVE  u \in ScopeType /\ Sound(u, n)
<1>. DEFINE t == InvalidateTarget(s, lhs)
<1>0. lhs \in Expr /\ Len(lhs) # 1
  BY DEF IsBare, Typed
<1>1. u = RecordAssignment(lhs, rhs, t)
  BY DEF Assign
<1>2. t = InvalidateTarget(s, lhs)
  OBVIOUS
<1>. HIDE DEF t
<1>3. /\ t \in ScopeType /\ IsLess(s, t) /\ Sound(t, m)
      /\ \A k : Knows(t, k) =>
            Root(k[1], t) = Root(k[1], s) /\ Avoids(m.env[k[1]], Rest(k, s), m, Eval(Front(lhs), m), Last(lhs))
  BY <1>0, <1>2, InvalidateFieldSound
<1>4. /\ n \in MemoryType /\ n.env = m.env /\ Eval(lhs, n) = v
      /\ \A l \in Locals, w \in Seq(Slots) :
            Avoids(m.env[l], w, m, Eval(Front(lhs), m), Last(lhs)) => EvalFrom(m.env[l], w, n) = EvalFrom(m.env[l], w, m)
  BY DEF Stores
<1>5. AliasesClear(t) /\ \A k : Knows(t, k) => Clear(k, t)
  BY <1>3, SoundClear
<1>6. ASSUME NEW k, Knows(t, k) PROVE Meaning(k, t, n) = Meaning(k, t, m)
  <2>1. k[1] \in Locals /\ Rest(k, t) \in Seq(Slots)
    BY <1>5, <1>6, ClearParts
  <2>2. Rest(k, s) = Rest(k, t)
    BY <1>3, <1>6 DEF Rest
  <2>3. Avoids(m.env[k[1]], Rest(k, t), m, Eval(Front(lhs), m), Last(lhs))
    BY <1>3, <1>6, <2>2
  <2>. QED
    BY <1>4, <2>1, <2>3 DEF Meaning
<1>7. \A l \in Locals : n.env[l] = m.env[l] \/ Free(l, t)
  BY <1>4
<1>8. Sound(t, n)
  BY <1>3, <1>6, <1>7, Remembered
<1>9. CASE rhs.k = "new"
  <2>1. u = With(t, NewPaths(lhs, rhs.set, t))
    BY <1>1, <1>9 DEF RecordAssignment, NewPaths
  <2>2. v \in Objects \ Kept(m) /\ \A f \in rhs.set : HasField(lhs, v, f, m, n)
    BY <1>9 DEF Gets
  <2>3. Eval(Front(lhs), m) \in Kept(m)
    <3>1. /\ Kept(m) \in SUBSET Objects /\ Closed(Kept(m), m)
          /\ \A l \in Locals : m.env[l] \in Objects => m.env[l] \in Kept(m)
      BY KeptIsClosed
    <3>2. Front(lhs)[1] \in Locals /\ Tail(Front(lhs)) \in Seq(Slots)
      BY <1>0, FrontParts
    <3>3. Eval(Front(lhs), m) \in Objects
      BY DEF Ready
    <3>4. EvalFrom(m.env[Front(lhs)[1]], Tail(Front(lhs)), m) \in Objects
      BY <3>3 DEF Eval
    <3>. QED
      BY <3>1, <3>2, <3>4, EvalStays DEF Eval
  <2>4. rhs.set \subseteq Slots /\ Eval(lhs, n) # Nil
    BY <1>4, <1>9, <2>2, MemoryAssumption DEF Assignable
  <2>5. \A f \in rhs.set : Deref(Eval(lhs, n), f, n) # Nil
    BY <1>4, <2>2, <2>3 DEF HasField
  <2>. QED
    BY <1>0, <1>3, <1>8, <2>1, <2>4, <2>5, NewSound
<1>10. CASE rhs.k # "new"
  <2>1. u = t
    BY <1>1, <1>10 DEF RecordAssignment
  <2>. QED
    BY <1>3, <1>8, <2>1
<1>. QED
  BY <1>9, <1>10

-----------------------------------------------------------------------------
(* Dereferences.                                                           *)

\* Some shortest one panics first.
LEMMA NoFirstFault ==
    ASSUME NEW bases \in SUBSET Expr, NEW m, FirstFaults(bases, m) = {}
    PROVE  \A b \in bases : ~Faulty(b, m)
<1>. SUFFICES ASSUME NEW b \in bases, Faulty(b, m) PROVE FALSE
  OBVIOUS
<1>. DEFINE bad == {p \in bases : Faulty(p, m)}  sizes == {Len(p) : p \in bad}
<1>1. \A p \in bases : p \in Seq(Word) /\ Len(p) \in Nat
  BY ExprParts
<1>2. sizes \in SUBSET Nat /\ sizes # {}
  BY <1>1
<1>3. PICK i \in sizes : IsFirst(sizes, i)
  <2>. HIDE DEF sizes
  <2>. QED
    BY <1>2, SomeFirst
<1>4. PICK p \in bad : Len(p) = i
  OBVIOUS
<1>5. ASSUME NEW q \in Prefixes(p) \cap bases, Faulty(q, m) PROVE q = p
  <2>1. PICK l \in 0..Len(p) : q = SubSeq(p, 1, l)
    BY DEF Prefixes
  <2>2. Len(q) \in sizes
    BY <1>5
  <2>3. i <= Len(q)
    BY <1>3, <2>2 DEF IsFirst
  <2>4. p \in Seq(Word) /\ Len(p) \in Nat
    BY <1>1
  <2>5. Len(q) = l
    BY <2>1, <2>4
  <2>6. l = Len(p)
    BY <1>4, <2>3, <2>4, <2>5
  <2>. QED
    BY <2>1, <2>4, <2>6
<1>6. p \in FirstFaults(bases, m)
  BY <1>5 DEF FirstFaults
<1>. QED
  BY <1>6

LEMMA ThroughParts ==
    ASSUME NEW e \in Expr
    PROVE  /\ Through(e) \subseteq Expr /\ Proper(e) \subseteq Through(e)
           /\ \A i \in 1..Len(e) : SubSeq(e, 1, i) \in Through(e)
           /\ \A i \in 1..Len(e) - 1 : SubSeq(e, 1, i) \in Proper(e)
<1>1. e \in Seq(Word) /\ e # <<>> /\ e[1] \in Locals /\ Len(e) \in Nat /\ \A i \in 2..Len(e) : e[i] \in Slots
  BY ExprParts
<1>2. ASSUME NEW i \in 1..Len(e) PROVE SubSeq(e, 1, i) \in Expr /\ SubSeq(e, 1, i) # <<>>
  <2>. DEFINE p == SubSeq(e, 1, i)
  <2>1. p \in Seq(Word) /\ Len(p) = i /\ \A j \in 1..i : p[j] = e[j]
    BY <1>1
  <2>. HIDE DEF p
  <2>2. p # <<>>
    BY <2>1
  <2>3. p \in Expr
    BY <1>1, <2>1, <2>2 DEF Expr, Path, Word
  <2>. QED
    BY <2>2, <2>3 DEF p
<1>3. ASSUME NEW p \in Through(e) PROVE p \in Expr
  <2>1. PICK i \in 0..Len(e) : p = SubSeq(e, 1, i)
    BY DEF Through, Prefixes
  <2>2. p # <<>>
    BY DEF Through
  <2>3. i # 0
    BY <1>1, <2>1, <2>2
  <2>. QED
    BY <1>1, <1>2, <2>1, <2>3
<1>4. ASSUME NEW i \in 1..Len(e) PROVE SubSeq(e, 1, i) \in Through(e)
  <2>1. i \in 0..Len(e)
    BY <1>1
  <2>. QED
    BY <1>2, <2>1 DEF Through, Prefixes
<1>5. ASSUME NEW i \in 1..Len(e) - 1 PROVE SubSeq(e, 1, i) \in Proper(e)
  <2>1. i \in 0..Len(e) /\ i \in 1..Len(e)
    BY <1>1
  <2>2. SubSeq(e, 1, i) # e
    <3>. DEFINE p == SubSeq(e, 1, i)
    <3>1. Len(p) = i /\ i # Len(e)
      BY <1>1
    <3>. HIDE DEF p
    <3>2. p # e
      BY <3>1
    <3>. QED
      BY <3>2 DEF p
  <2>. QED
    BY <1>2, <2>1, <2>2 DEF Proper, Prefixes
<1>6. Proper(e) \subseteq Through(e)
  BY DEF Proper, Through
<1>. QED
  BY <1>3, <1>4, <1>5, <1>6

\* What a write goes through does not panic, so there is an object to write to.
LEMMA ReadyWhenReached ==
    ASSUME NEW m \in MemoryType, Typings(m), NEW lhs \in Typed, \A b \in Proper(lhs) : ~Faulty(b, m)
    PROVE  Ready(lhs, m)
<1>. SUFFICES ASSUME ~IsBare(lhs) PROVE Eval(Front(lhs), m) \in Objects
  BY DEF Ready
<1>1. lhs \in Expr /\ Len(lhs) # 1 /\ lhs[1] \notin Errors \cup Ifaces
  BY DEF Typed, IsBare
<1>2. Front(lhs) \in Expr /\ Front(lhs)[1] = lhs[1]
  BY <1>1, FrontParts
<1>3. Front(lhs) \in Proper(lhs)
  <2>1. Len(lhs) \in Nat /\ Len(lhs) >= 1
    BY <1>1, ExprParts
  <2>2. \A n \in Nat : n >= 1 /\ n # 1 => n - 1 \in 1..n - 1
    OBVIOUS
  <2>3. Len(lhs) - 1 \in 1..Len(lhs) - 1
    BY <1>1, <2>1, <2>2, Zenon
  <2>. QED
    BY <1>1, <2>3, ThroughParts DEF Front
<1>4. Front(lhs) \in Typed /\ TypeOf(Front(lhs)) = "pointer"
  BY <1>1, <1>2 DEF Typed, TypeOf
<1>5. Eval(Front(lhs), m) \in Objects \cup {Nil}
  BY <1>4, TypedEval
<1>. QED
  BY <1>3, <1>5 DEF Faulty

\* Nothing on the way to the object is that object.
LEMMA FoundByNames ==
    ASSUME NEW s, AliasesClear(s), NEW m, NEW lhs \in Expr,
           \A e \in Proper(lhs) : Eval(e, m) = Eval(Front(lhs), m)
                                     => Canonical(e, s.alias) = Canonical(Front(lhs), s.alias)
    PROVE  Found(lhs, m)
<1>. SUFFICES ASSUME ~IsBare(lhs), NEW i \in 1..Len(Tail(Front(lhs))),
                     EvalFrom(m.env[lhs[1]], SubSeq(Tail(Front(lhs)), 1, i - 1), m) = Eval(Front(lhs), m)
              PROVE  FALSE
  BY DEF Found, Avoids
<1>. DEFINE f == Front(lhs)  w == Tail(f)  e == SubSeq(lhs, 1, i)  r == Root(lhs[1], s)
<1>0. Len(lhs) # 1
  BY DEF IsBare
<1>1. f \in Expr /\ f[1] = lhs[1] /\ Len(f) = Len(lhs) - 1 /\ lhs[1] \in Locals
  BY <1>0, FrontParts
<1>2. /\ f \in Seq(Word) /\ Len(w) = Len(f) - 1 /\ w \in Seq(Slots) /\ Len(f) \in Nat
      /\ lhs \in Seq(Word) /\ Len(lhs) \in Nat
  BY <1>1, ExprParts
<1>3. i \in 1..Len(w) /\ i \in 1..Len(lhs) - 1 /\ i \in 1..Len(lhs) /\ i \in Nat
  BY <1>1, <1>2
<1>4. e \in Proper(lhs) /\ e \in Expr
  BY <1>3, ThroughParts
<1>5. e[1] = lhs[1] /\ Tail(e) = SubSeq(w, 1, i - 1) /\ Len(Tail(e)) = i - 1
  <2>1. f = SubSeq(lhs, 1, Len(lhs) - 1)
    BY DEF Front
  <2>2. \A j \in 1..Len(f) : f[j] = lhs[j]
    BY <1>2, <2>1
  <2>3. Len(e) = i /\ \A j \in 1..i : e[j] = lhs[j]
    BY <1>2, <1>3
  <2>4. e[1] = lhs[1]
    BY <1>3, <2>3
  <2>. DEFINE u == SubSeq(w, 1, i - 1)
  <2>5. \A j \in 1..Len(w) : w[j] = f[j + 1]
    BY <1>2
  <2>. HIDE DEF e, w, f
  <2>6. u \in Seq(Slots) /\ Len(u) = i - 1 /\ \A j \in 1..i - 1 : u[j] = w[j]
    BY <1>2, <1>3
  <2>7. e \in Seq(Word)
    BY <1>4, ExprParts
  <2>8. Tail(e) \in Seq(Word) /\ Len(Tail(e)) = i - 1 /\ \A j \in 1..i - 1 : Tail(e)[j] = e[j + 1]
    BY <1>3, <2>3, <2>7
  <2>9. ASSUME NEW j \in 1..i - 1 PROVE Tail(e)[j] = u[j]
    <3>1. j + 1 \in 1..i /\ j \in 1..Len(w) /\ j + 1 \in 1..Len(f)
      BY <1>1, <1>2, <1>3
    <3>. QED
      BY <2>2, <2>3, <2>5, <2>6, <2>8, <3>1
  <2>10. Tail(e) = u
    <3>1. u \in Seq(Word)
      BY <2>6, SlotsAreWords
    <3>. DEFINE z == Tail(e)
    <3>2. z \in Seq(Word) /\ Len(z) = Len(u) /\ \A j \in 1..Len(u) : z[j] = u[j]
      BY <2>6, <2>8, <2>9
    <3>. HIDE DEF z, u
    <3>3. z = u
      BY <3>1, <3>2
    <3>. QED
      BY <3>3 DEF z
  <2>. QED
    BY <2>4, <2>8, <2>10
<1>6. Eval(e, m) = Eval(f, m)
  BY <1>5 DEF Eval
<1>7. Canonical(e, s.alias) = Canonical(f, s.alias)
  BY <1>4, <1>6
<1>8. Canonical(e, s.alias) = r \o Tail(e) /\ Canonical(f, s.alias) = r \o w
  <2>1. Canonical(e, s.alias) = Root(e[1], s) \o Tail(e)
    BY <1>4, CanonicalIsClear
  <2>2. Canonical(f, s.alias) = Root(f[1], s) \o Tail(f)
    BY <1>1, CanonicalIsClear
  <2>. QED
    BY <1>1, <1>5, <2>1, <2>2
<1>9. r \in Seq(Word) /\ Tail(e) \in Seq(Word) /\ w \in Seq(Word)
  <2>1. r \in Expr
    BY <1>1, RootIsExpr
  <2>2. Tail(e) \in Seq(Slots)
    BY <1>4, ExprParts
  <2>. QED
    BY <1>2, <2>1, <2>2, ExprParts, SlotsAreWords
<1>10. Len(Tail(e)) = Len(w)
  <2>. DEFINE z == Tail(e)
  <2>1. r \o z = r \o w
    BY <1>7, <1>8
  <2>2. r \in Seq(Word) /\ z \in Seq(Word) /\ w \in Seq(Word)
    BY <1>9
  <2>. HIDE DEF r, z, w
  <2>3. Len(r \o z) = Len(r) + Len(z) /\ Len(r \o w) = Len(r) + Len(w)
    BY <2>2
  <2>4. Len(z) = Len(w)
    BY <2>1, <2>2, <2>3
  <2>. QED
    BY <2>4 DEF z
<1>. QED
  BY <1>3, <1>5, <1>10

-----------------------------------------------------------------------------
(* What is checked of a condition.                                         *)

\* What is checked of each kind of condition.
ChecksOf(d, g, s, r) ==
    /\ d.k = "not" => r = g[d.c]
    /\ d.k = "and" => r = g[d.l] \cup Knowing(g[d.r], NilGuards(d.l, s).t)
    /\ d.k = "or" => r = g[d.l] \cup Knowing(g[d.r], NilGuards(d.l, s).f)
    /\ d.k = "any" => r = {}
    /\ d.k = "test" => r = Checks(Through(d.e), {})
    /\ d.k \in {"eq", "ne", "isnil", "nil"} => r = Checks(Proper(d.e), {})

LEMMA CheckStepParts ==
    ASSUME NEW d \in Conds, NEW g, NEW s
    PROVE  ChecksOf(d, g, s, CheckStep(d, g, s))
<1>. DEFINE r == CheckStep(d, g, s)
<1>1. d.k = "not" => r = g[d.c]
  BY DEF CheckStep
<1>2. d.k = "and" => r = g[d.l] \cup Knowing(g[d.r], NilGuards(d.l, s).t)
  BY DEF CheckStep
<1>3. d.k = "or" => r = g[d.l] \cup Knowing(g[d.r], NilGuards(d.l, s).f)
  BY DEF CheckStep
<1>4. d.k = "any" => r = {}
  BY DEF CheckStep
<1>5. d.k = "test" => r = Checks(Through(d.e), {})
  BY DEF CheckStep
<1>6. d.k \in {"eq", "ne", "isnil", "nil"} => r = Checks(Proper(d.e), {})
  BY DEF CheckStep
<1>. QED
  BY <1>1, <1>2, <1>3, <1>4, <1>5, <1>6, Zenon DEF ChecksOf

Bases == UNION {Through(d.e) \cup Proper(d.e) : d \in Conds}

Check(bases) == [base : bases, extra : SUBSET Path, safe : BOOLEAN]

LEMMA ChecksTyped ==
    ASSUME NEW bases, NEW all, bases \subseteq all
    PROVE  Checks(bases, {}) \in SUBSET Check(all)
BY DEF Checks, Check

LEMMA KnowingTyped ==
    ASSUME NEW bases, NEW checks \in SUBSET Check(bases), NEW extra \in SUBSET Path
    PROVE  Knowing(checks, extra) \in SUBSET Check(bases)
<1>. SUFFICES ASSUME NEW ch \in checks PROVE [ch EXCEPT !.extra = @ \cup extra] \in Check(bases)
  BY DEF Knowing
<1>. QED
  BY DEF Check

LEMMA CheckStepTyped ==
    ASSUME NEW s \in ScopeType, NEW d \in Conds, NEW g \in [Conds -> SUBSET Check(Bases)]
    PROVE  CheckStep(d, g, s) \in SUBSET Check(Bases)
<1>. DEFINE r == CheckStep(d, g, s)  K == SUBSET Check(Bases)
<1>1. ChecksOf(d, g, s, r)
  BY CheckStepParts
<1>. SUFFICES r \in K
  OBVIOUS
<1>. HIDE DEF r
<1>2. CASE d.k = "not"
  BY <1>1, <1>2, CondParts DEF ChecksOf
<1>3. CASE d.k \in {"and", "or"}
  <2>1. d.l \in Conds /\ d.r \in Conds /\ g[d.l] \in K /\ g[d.r] \in K
    BY <1>3, CondParts
  <2>2. NilGuards(d.l, s).t \subseteq Path /\ NilGuards(d.l, s).f \subseteq Path
    BY <2>1, NilGuardsAre DEF Guards
  <2>3. Knowing(g[d.r], NilGuards(d.l, s).t) \in K /\ Knowing(g[d.r], NilGuards(d.l, s).f) \in K
    BY <2>1, <2>2, KnowingTyped
  <2>. QED
    BY <1>1, <1>3, <2>1, <2>3 DEF ChecksOf
<1>4. CASE d.k = "any"
  BY <1>1, <1>4 DEF ChecksOf
<1>5. CASE d.k \in {"test", "eq", "ne", "isnil", "nil"}
  <2>1. Through(d.e) \subseteq Bases /\ Proper(d.e) \subseteq Bases
    BY DEF Bases
  <2>2. Checks(Through(d.e), {}) \in K /\ Checks(Proper(d.e), {}) \in K
    BY <2>1, ChecksTyped
  <2>. QED
    BY <1>1, <1>5, <2>2 DEF ChecksOf
<1>. QED
  BY <1>2, <1>3, <1>4, <1>5, CondParts DEF ConditionKinds

LEMMA CheckStepLooksBelow ==
    ASSUME NEW s, NEW d \in Conds, NEW g, NEW h,
           \A e \in Conds : Operators[e] < Operators[d] => g[e] = h[e]
    PROVE  CheckStep(d, g, s) = CheckStep(d, h, s)
<1>. DEFINE r == CheckStep(d, g, s)  q == CheckStep(d, h, s)
<1>1. ChecksOf(d, g, s, r) /\ ChecksOf(d, h, s, q)
  BY CheckStepParts
<1>. SUFFICES r = q
  OBVIOUS
<1>. HIDE DEF r, q
<1>2. CASE d.k \in {"eq", "ne", "isnil", "test", "any", "nil"}
  BY <1>1, <1>2 DEF ChecksOf
<1>3. CASE d.k = "not"
  <2>1. g[d.c] = h[d.c]
    BY <1>3, CondParts
  <2>. QED
    BY <1>1, <1>3, <2>1 DEF ChecksOf
<1>4. CASE d.k \in {"and", "or"}
  <2>1. g[d.l] = h[d.l] /\ g[d.r] = h[d.r]
    BY <1>4, CondParts
  <2>. QED
    BY <1>1, <1>4, <2>1 DEF ChecksOf
<1>. QED
  BY <1>2, <1>3, <1>4, CondParts DEF ConditionKinds

LEMMA CondChecksAre ==
    ASSUME NEW s \in ScopeType
    PROVE  \E g : \A d \in Conds : CondChecks(d, s) = g[d] /\ ChecksOf(d, g, s, g[d])
<1>. DEFINE Is(g) == g = [d \in Conds |-> CheckStep(d, g, s)]
            h == CHOOSE g : Is(g)
            K == SUBSET Check(Bases)
            step == [d \in Conds |-> [g \in [Conds -> K] |-> CheckStep(d, g, s)]]
<1>1. \A d \in Conds : CondChecks(d, s) = h[d]
  BY DEF CondChecks
<1>2. step \in [Conds -> [[Conds -> K] -> K]]
      /\ \A d \in Conds, g \in [Conds -> K] : step[d][g] = CheckStep(d, g, s)
  BY CheckStepTyped
<1>. HIDE DEF step
<1>5. K # {}
  OBVIOUS
<1>. HIDE DEF K
<1>3. \A d \in Conds : \A g, k \in [Conds -> K] :
          (\A e \in Conds : Ranks[e] < Ranks[d] => g[e] = k[e]) => step[d][g] = step[d][k]
  <2>. SUFFICES ASSUME NEW d \in Conds, NEW g \in [Conds -> K], NEW k \in [Conds -> K],
                       \A e \in Conds : Ranks[e] < Ranks[d] => g[e] = k[e]
                PROVE  step[d][g] = step[d][k]
    OBVIOUS
  <2>1. \A e \in Conds : Operators[e] < Operators[d] => g[e] = k[e]
    BY RanksTyped
  <2>2. CheckStep(d, g, s) = CheckStep(d, k, s)
    BY <2>1, CheckStepLooksBelow
  <2>. QED
    BY <1>2, <2>2
<1>4. LooksBelow(Conds, K, Ranks, step)
  BY <1>2, <1>3, RanksTyped DEF LooksBelow
<1>6. PICK g \in [Conds -> K] : g = [d \in Conds |-> step[d][g]]
  BY <1>4, <1>5, RankRecursion
<1>7. g = [d \in Conds |-> CheckStep(d, g, s)]
  BY <1>2, <1>6
<1>8. Is(g)
  BY <1>7
<1>9. Is(h)
  BY <1>8
<1>10. h = [d \in Conds |-> CheckStep(d, h, s)]
  <2>. HIDE DEF h
  <2>. QED
    BY <1>9
<1>11. \A d \in Conds : h[d] = CheckStep(d, h, s)
  BY <1>10
<1>. HIDE DEF h
<1>12. \A d \in Conds : ChecksOf(d, h, s, h[d])
  BY <1>11, CheckStepParts
<1>. QED
  BY <1>1, <1>12

-----------------------------------------------------------------------------
(* Reports.                                                                *)

\* Where b panics it is checked, with nothing but the truth.
Caught(b, checks, s, m) ==
    /\ b \in Expr /\ Faulty(b, m)
    /\ \E ch \in checks : ch \in Check(Expr) /\ ch.base = b /\ ~ch.safe /\ Vouched(ch.extra, s, m)

LEMMA BasesCaught ==
    ASSUME NEW bases \in SUBSET Expr, NEW s, NEW m, NEW b \in FirstFaults(bases, m)
    PROVE  Caught(b, Checks(bases, {}), s, m)
<1>. DEFINE ch == [base |-> b, extra |-> {}, safe |-> FALSE]
<1>1. b \in bases /\ Faulty(b, m)
  BY DEF FirstFaults
<1>2. ch \in Checks(bases, {}) /\ ch \in Check(Expr) /\ ch.base = b /\ ~ch.safe /\ ch.extra = {}
  BY <1>1 DEF Checks, Check
<1>. HIDE DEF ch
<1>3. Vouched(ch.extra, s, m)
  BY <1>2 DEF Vouched
<1>. QED
  BY <1>1, <1>2, <1>3 DEF Caught

LEMMA KnowingCaught ==
    ASSUME NEW b, NEW checks, NEW s, NEW m, Caught(b, checks, s, m), NEW extra, Vouched(extra, s, m)
    PROVE  Caught(b, Knowing(checks, extra), s, m)
<1>1. PICK ch \in checks : ch \in Check(Expr) /\ ch.base = b /\ ~ch.safe /\ Vouched(ch.extra, s, m)
  BY DEF Caught
<1>2. extra \subseteq Path
  BY DEF Vouched, Clear, Expr
<1>. DEFINE c == [ch EXCEPT !.extra = @ \cup extra]
<1>3. c \in Knowing(checks, extra)
  BY DEF Knowing
<1>4. c \in Check(Expr) /\ c.base = b /\ ~c.safe /\ c.extra = ch.extra \cup extra
  BY <1>1, <1>2 DEF Check
<1>. HIDE DEF c
<1>5. Vouched(c.extra, s, m)
  BY <1>1, <1>4 DEF Vouched
<1>. QED
  BY <1>3, <1>4, <1>5 DEF Caught

LEMMA MoreCaught ==
    ASSUME NEW b, NEW checks, NEW more, checks \subseteq more, NEW s, NEW m, Caught(b, checks, s, m)
    PROVE  Caught(b, more, s, m)
BY DEF Caught

\* What evaluating a condition can panic at is checked.
LEMMA ConditionCaught ==
    ASSUME NEW s \in ScopeType, NEW m, Sound(s, m)
    PROVE  \A c \in Conds : c.k # "nil" => \A b \in Outcome(c, m).dies : Caught(b, CondChecks(c, s), s, m)
<1>1. PICK g : \A d \in Conds : CondChecks(d, s) = g[d] /\ ChecksOf(d, g, s, g[d])
  BY CondChecksAre
<1>2. PICK o : \A d \in Conds : Outcome(d, m) = o[d] /\ OutcomeOf(d, o, m, o[d])
  BY OutcomeAre
<1>0. \A d \in Conds : Died(d, o, m, o[d])
  BY <1>2, OutcomeDied
<1>. DEFINE P == {c \in Conds : c.k # "nil" => \A b \in o[c].dies : Caught(b, g[c], s, m)}
<1>3. ASSUME NEW c \in Conds, \A e \in Conds : Ranks[e] < Ranks[c] => e \in P
      PROVE  c \in P
  <2>. SUFFICES ASSUME c.k # "nil", NEW b \in o[c].dies PROVE Caught(b, g[c], s, m)
    OBVIOUS
  <2>1. \A e \in Conds : Operators[e] < Operators[c] => e \in P
    BY <1>3, RanksTyped
  <2>2. CASE c.k = "any"
    BY <1>0, <2>2 DEF Died
  <2>3. CASE c.k = "test"
    <3>1. Through(c.e) \in SUBSET Expr
      BY <2>3, CondParts, ThroughParts
    <3>2. o[c].dies = FirstFaults(Through(c.e), m)
      BY <1>0, <2>3 DEF Died
    <3>3. g[c] = Checks(Through(c.e), {})
      BY <1>1, <2>3 DEF ChecksOf
    <3>. QED
      BY <3>1, <3>2, <3>3, BasesCaught
  <2>4. CASE c.k \in {"eq", "ne", "isnil"}
    <3>1. Proper(c.e) \in SUBSET Expr
      BY <2>4, CondParts, ThroughParts
    <3>2. o[c].dies = FirstFaults(Proper(c.e), m)
      BY <1>0, <2>4 DEF Died
    <3>3. g[c] = Checks(Proper(c.e), {})
      BY <1>1, <2>4 DEF ChecksOf
    <3>. QED
      BY <3>1, <3>2, <3>3, BasesCaught
  <2>5. CASE c.k = "not"
    <3>1. o[c].dies = o[c.c].dies
      BY <1>0, <2>5 DEF Died
    <3>2. g[c] = g[c.c]
      BY <1>1, <2>5 DEF ChecksOf
    <3>. QED
      BY <2>1, <2>5, <3>1, <3>2, CondParts
  <2>6. CASE c.k = "and"
    <3>0. c.l \in Conds /\ c.r \in Conds /\ c.l.k # "nil" /\ c.l \in P /\ c.r \in P /\ c.r.k # "nil"
      BY <2>1, <2>6, CondParts
    <3>1. o[c].dies = o[c.l].dies \cup IF o[c.l].yes THEN o[c.r].dies ELSE {}
      BY <1>0, <2>6 DEF Died
    <3>2. g[c] = g[c.l] \cup Knowing(g[c.r], NilGuards(c.l, s).t)
      BY <1>1, <2>6 DEF ChecksOf
    <3>3. CASE b \in o[c.l].dies
      BY <3>0, <3>2, <3>3, MoreCaught
    <3>4. CASE b \in o[c.r].dies /\ o[c.l].yes
      <4>1. Vouched(NilGuards(c.l, s).t, s, m)
        BY <1>2, <3>0, <3>4, GuardsHold DEF GuardHolds
      <4>2. Caught(b, Knowing(g[c.r], NilGuards(c.l, s).t), s, m)
        BY <3>0, <3>4, <4>1, KnowingCaught
      <4>. QED
        BY <3>2, <4>2, MoreCaught
    <3>. QED
      BY <3>1, <3>3, <3>4
  <2>7. CASE c.k = "or"
    <3>0. c.l \in Conds /\ c.r \in Conds /\ c.l.k # "nil" /\ c.l \in P /\ c.r \in P /\ c.r.k # "nil"
      BY <2>1, <2>7, CondParts
    <3>1. o[c].dies = o[c.l].dies \cup IF o[c.l].no THEN o[c.r].dies ELSE {}
      BY <1>0, <2>7 DEF Died
    <3>2. g[c] = g[c.l] \cup Knowing(g[c.r], NilGuards(c.l, s).f)
      BY <1>1, <2>7 DEF ChecksOf
    <3>3. CASE b \in o[c.l].dies
      BY <3>0, <3>2, <3>3, MoreCaught
    <3>4. CASE b \in o[c.r].dies /\ o[c.l].no
      <4>1. Vouched(NilGuards(c.l, s).f, s, m)
        BY <1>2, <3>0, <3>4, GuardsHold DEF GuardHolds
      <4>2. Caught(b, Knowing(g[c.r], NilGuards(c.l, s).f), s, m)
        BY <3>0, <3>4, <4>1, KnowingCaught
      <4>. QED
        BY <3>2, <4>2, MoreCaught
    <3>. QED
      BY <3>1, <3>3, <3>4
  <2>. QED
    BY <2>2, <2>3, <2>4, <2>5, <2>6, <2>7, CondParts DEF ConditionKinds
<1>4. Conds \subseteq P
  <2>. HIDE DEF P
  <2>. QED
    BY <1>3, RanksTyped, RankInduction
<1>. QED
  BY <1>1, <1>2, <1>4

\* What a caught panic goes through is nil, and nothing says it is not.
LEMMA CaughtIsReported ==
    ASSUME NEW s \in ScopeType, NEW m \in MemoryType, Sound(s, m), NEW b, NEW checks, Caught(b, checks, s, m),
           NEW path, path = Canonical(b, s.alias), IsFieldPath(path) \/ IsStarPath(path),
           IsBare(b) \/ Last(b) \notin Exempt
    PROVE  \E ch \in checks : ch.base = b /\ IsReported(ch, s)
<1>1. b \in Expr /\ Faulty(b, m)
  BY DEF Caught
<1>2. PICK ch \in checks : ch \in Check(Expr) /\ ch.base = b /\ ~ch.safe /\ Vouched(ch.extra, s, m)
  BY DEF Caught
<1>3. Clear(path, s) /\ Meaning(path, s, m) = Eval(b, m) /\ path = Root(b[1], s) \o Tail(b)
  BY <1>1, SoundCanonical
<1>4. Tail(b) \in Seq(Slots) /\ b[1] \in Locals /\ Eval(b, m) = EvalFrom(m.env[b[1]], Tail(b), m)
      /\ Len(b) \in Nat /\ Len(b) >= 1 /\ Len(Tail(b)) = Len(b) - 1
  BY <1>1, ExprParts DEF Eval
<1>5. AliasesClear(s)
  BY SoundClear
<1>6. Root(b[1], s) \in Expr /\ Root(b[1], s) \in Seq(Word)
  BY <1>4, <1>5, RootIsExpr, ExprParts
<1>7. Eval(b, m) \in Objects \cup {Nil}
  <2>1. CASE ~IsBare(b)
    <3>. DEFINE w == Tail(b)
    <3>1. Len(w) # 0
      <4>1. \A n \in Nat : n >= 1 /\ n # 1 => n - 1 # 0
        OBVIOUS
      <4>. QED
        BY <1>4, <2>1, <4>1, Zenon DEF IsBare
    <3>2. w # <<>>
      <4>. HIDE DEF w
      <4>1. Len(<<>>) = 0
        OBVIOUS
      <4>. QED
        BY <3>1, <4>1, Zenon
    <3>. QED
      BY <1>4, <3>2, SelectedValue
  <2>2. CASE IsBare(b)
    <3>. DEFINE w == Tail(b)  l == b[1]  r == Root(l, s)
    <3>1. w = <<>>
      <4>1. Len(w) = 0
        BY <1>4, <2>2 DEF IsBare
      <4>2. w \in Seq(Slots)
        BY <1>4
      <4>. HIDE DEF w
      <4>. QED
        BY <4>1, <4>2
    <3>2. Eval(b, m) = m.env[l]
      BY <1>4, <3>1, EvalFromEmpty
    <3>3. path = r
      <4>1. path = r \o <<>> /\ r \in Seq(Word)
        BY <1>3, <1>6, <3>1
      <4>. HIDE DEF r
      <4>. QED
        BY <4>1
    <3>4. Len(path) > 1 /\ Len(path) \in Nat
      <4>1. path \in Seq(Word)
        BY <1>6, <3>3
      <4>2. \E i \in 2..Len(path) : TRUE
        BY DEF IsFieldPath, IsStarPath
      <4>. QED
        BY <4>1, <4>2
    <3>5. s.alias[l] # NoPath /\ path = s.alias[l]
      <4>1. Len(<<l>>) = 1
        OBVIOUS
      <4>2. path # <<l>>
        <5>. SUFFICES ASSUME path = <<l>> PROVE FALSE
          OBVIOUS
        <5>1. Len(path) = 1
          BY <4>1, Zenon
        <5>. QED
          BY <3>4, <5>1
      <4>. QED
        BY <3>3, <4>2 DEF Root
    <3>6. AliasHolds(l, s, m)
      BY <1>4 DEF Sound
    <3>. QED
      BY <3>2, <3>4, <3>5, <3>6 DEF AliasHolds
  <2>. QED
    BY <2>1, <2>2
<1>8. Eval(b, m) = Nil
  BY <1>1, <1>7, MemoryAssumption DEF Faulty
<1>9. path \notin s.proven \cup ch.extra
  BY <1>2, <1>3, <1>8 DEF Sound, Vouched
<1>10. ~IsWiredFieldAccess(b)
  BY DEF IsWiredFieldAccess
<1>11. IsReported(ch, s)
  BY <1>2, <1>9, <1>10 DEF IsReported
<1>. QED
  BY <1>2, <1>11

-----------------------------------------------------------------------------
(* Statements.                                                             *)

PlainChecks(checks) == \A ch \in checks : ch \in Check(Expr) /\ ch.extra = {}

LEMMA BasesArePlain ==
    ASSUME NEW bases \in SUBSET Expr
    PROVE  PlainChecks(Checks(bases, {}))
BY DEF PlainChecks, Checks, Check

LEMMA RhsChecksArePlain ==
    ASSUME NEW lhs, NEW rhs, Assignable(lhs, rhs)
    PROVE  PlainChecks(RhsChecks(rhs))
<1>1. rhs.k \in {"path", "validate", "callif"} => rhs.e \in Expr
  BY DEF Assignable, Typed
<1>2. CASE rhs.k \in {"path", "callif"}
  <2>1. Proper(rhs.e) \in SUBSET Expr
    BY <1>1, <1>2, ThroughParts
  <2>2. RhsChecks(rhs) = Checks(Proper(rhs.e), {})
    BY <1>2 DEF RhsChecks
  <2>. QED
    BY <2>1, <2>2, BasesArePlain
<1>3. CASE rhs.k = "validate"
  <2>1. Through(rhs.e) \in SUBSET Expr
    BY <1>1, <1>3, ThroughParts
  <2>2. RhsChecks(rhs) = Checks(Through(rhs.e), {})
    BY <1>3 DEF RhsChecks
  <2>. QED
    BY <2>1, <2>2, BasesArePlain
<1>4. CASE rhs.k \notin {"path", "validate", "callif"}
  <2>1. RhsChecks(rhs) = {}
    BY <1>4 DEF RhsChecks
  <2>. QED
    BY <2>1 DEF PlainChecks
<1>. QED
  BY <1>2, <1>3, <1>4

LEMMA StatementChecksArePlain ==
    ASSUME NEW st, IsStatement(st), st.op \notin {"assert", "guard"}, NEW s
    PROVE  PlainChecks(StmtChecks(st, s))
<1>1. CASE st.op = "use"
  <2>1. st.e \in Expr /\ st.safe \in BOOLEAN
    BY <1>1 DEF IsStatement, Typed
  <2>2. Proper(st.e) \in SUBSET Expr
    BY <2>1, ThroughParts
  <2>3. PlainChecks(Checks(Proper(st.e), {}))
    BY <2>2, BasesArePlain
  <2>4. StmtChecks(st, s) = Checks(Proper(st.e), {}) \cup {[base |-> st.e, extra |-> {}, safe |-> st.safe]}
    BY <1>1 DEF StmtChecks
  <2>5. PlainChecks({[base |-> st.e, extra |-> {}, safe |-> st.safe]})
    BY <2>1 DEF PlainChecks, Check
  <2>. QED
    BY <2>3, <2>4, <2>5 DEF PlainChecks
<1>2. CASE st.op = "set"
  <2>1. st.lhs \in Expr /\ Assignable(st.lhs, st.rhs)
    BY <1>2 DEF IsStatement, Typed
  <2>2. Proper(st.lhs) \in SUBSET Expr
    BY <2>1, ThroughParts
  <2>3. PlainChecks(Checks(Proper(st.lhs), {})) /\ PlainChecks(RhsChecks(st.rhs))
    BY <2>1, <2>2, BasesArePlain, RhsChecksArePlain
  <2>4. StmtChecks(st, s) = RhsChecks(st.rhs) \cup Checks(Proper(st.lhs), {})
    BY <1>2 DEF StmtChecks
  <2>. QED
    BY <2>3, <2>4 DEF PlainChecks
<1>3. CASE st.op = "tuple"
  <2>1. st.lhs \in Seq({<<l>> : l \in Locals})
    BY <1>3 DEF IsStatement
  <2>2. ASSUME NEW i \in DOMAIN st.lhs PROVE PlainChecks(Checks(Proper(st.lhs[i]), {}))
    <3>1. PICK l \in Locals : st.lhs[i] = <<l>>
      BY <2>1
    <3>2. st.lhs[i] \in Expr
      BY <3>1, LocalIsExpr
    <3>3. Proper(st.lhs[i]) \in SUBSET Expr
      BY <3>2, ThroughParts
    <3>. QED
      BY <3>3, BasesArePlain
  <2>3. StmtChecks(st, s) = UNION {Checks(Proper(st.lhs[i]), {}) : i \in DOMAIN st.lhs}
    BY <1>3 DEF StmtChecks
  <2>. QED
    BY <2>2, <2>3 DEF PlainChecks
<1>4. CASE st.op \in {"addr", "skip"}
  <2>1. StmtChecks(st, s) = {}
    BY <1>4 DEF StmtChecks
  <2>. QED
    BY <2>1 DEF PlainChecks
<1>. QED
  BY <1>1, <1>2, <1>3, <1>4 DEF IsStatement

\* What a statement can panic at is checked.
LEMMA StatementCaught ==
    ASSUME NEW s \in ScopeType, NEW m, Sound(s, m), NEW st, IsStatement(st), NEW b \in Faults(st, s, m)
    PROVE  Caught(b, StmtChecks(st, s), s, m)
<1>1. CASE st.op \in {"assert", "guard"}
  <2>1. st.c \in Conds /\ st.c.k # "nil"
    BY <1>1 DEF IsStatement
  <2>2. b \in Outcome(st.c, m).dies
    BY <1>1 DEF Faults
  <2>3. StmtChecks(st, s) = CondChecks(st.c, s)
    BY <1>1 DEF StmtChecks
  <2>. QED
    BY <2>1, <2>2, <2>3, ConditionCaught
<1>2. CASE st.op \notin {"assert", "guard"}
  <2>. DEFINE checks == StmtChecks(st, s)
  <2>1. PlainChecks(checks)
    BY <1>2, StatementChecksArePlain
  <2>2. b \in FirstFaults({ch.base : ch \in {c \in checks : ~c.safe}}, m)
    BY <1>2 DEF Faults
  <2>. HIDE DEF checks
  <2>3. Faulty(b, m) /\ b \in {ch.base : ch \in {c \in checks : ~c.safe}}
    BY <2>2 DEF FirstFaults
  <2>4. PICK ch \in checks : ~ch.safe /\ b = ch.base
    BY <2>3
  <2>5. ch \in Check(Expr) /\ ch.extra = {}
    BY <2>1 DEF PlainChecks
  <2>6. b \in Expr /\ Vouched(ch.extra, s, m)
    BY <2>4, <2>5 DEF Check, Vouched
  <2>7. Caught(b, checks, s, m)
    BY <2>3, <2>4, <2>5, <2>6 DEF Caught
  <2>. QED
    BY <2>7 DEF checks
<1>. QED
  BY <1>1, <1>2

-----------------------------------------------------------------------------
(* What the programs keep to (Follows).                                    *)

\* No name, and no known path, leads to where t is written but its own.
Shares(t, names, s, m) ==
    ~IsBare(t) =>
        \A e \in names \cup UNION {Through(Spelled(k, s.alias)) : k \in Known(s)} :
            Eval(e, m) = Eval(Front(t), m) /\ Eval(e, m) \in Objects
                => Canonical(e, s.alias) = Canonical(Front(t), s.alias)

\* Nothing known goes on behind a dereference from where t is written.
Stars(t, s) ==
    LET written == IF IsBare(t) THEN t ELSE Canonical(t, s.alias)
    IN  \A k \in Known(s) :
           IsPrefix(written, k) => /\ Last(t) # Star
                                   /\ \A j \in Len(written) + 1..Len(k) : k[j] # Star

LEMMA FollowsTargets ==
    ASSUME Wild = {}, NEW st, NEW s, NEW m, m # Dead, Follows(st, s, m), NEW t \in Targets(st)
    PROVE  Shares(t, Names, s, m) /\ Stars(t, s)
BY Zenon DEF Follows, Shares, Stars

LEMMA KnownIs ==
    ASSUME NEW s \in ScopeType
    PROVE  \A k : Knows(s, k) => k \in Known(s) /\ k \in Path
<1>1. s.proven \subseteq Path /\ s.errProof \in ErrProofs /\ s.alias \in Aliases
  BY ScopeFields
<1>2. NoPath \notin Path
  BY DEF NoPath, Path
<1>. SUFFICES ASSUME NEW k, Knows(s, k) PROVE k \in Known(s) /\ k \in Path
  OBVIOUS
<1>3. k \in Path
  BY <1>1 DEF Knows, ErrProofs, Aliases
<1>4. k \in s.proven \cup UNION {s.errProof[l] \cup {s.alias[l]} : l \in Locals}
  <2>1. CASE k \in s.proven
    BY <2>1
  <2>2. ASSUME NEW l \in Locals, k \in s.errProof[l] \cup {s.alias[l]}
        PROVE  k \in UNION {s.errProof[j] \cup {s.alias[j]} : j \in Locals}
    BY <2>2
  <2>. QED
    BY <2>1, <2>2 DEF Knows
<1>. QED
  BY <1>2, <1>3, <1>4 DEF Known

LEMMA PrefixIsUnder ==
    ASSUME NEW p \in Seq(Word), NEW k \in Seq(Word), IsPrefix(p, k), \A j \in Len(p) + 1..Len(k) : k[j] # Star
    PROVE  AtOrUnder(p, k)
<1>1. Len(p) \in Nat /\ Len(k) \in Nat /\ Len(p) <= Len(k) /\ \A i \in 1..Len(p) : p[i] = k[i]
  <2>1. Len(p) <= Len(k) /\ SubSeq(p, 1, Len(p)) = SubSeq(k, 1, Len(p))
    BY DEF IsPrefix
  <2>2. \A i \in 1..Len(p) : SubSeq(p, 1, Len(p))[i] = p[i] /\ SubSeq(k, 1, Len(p))[i] = k[i]
    BY <2>1
  <2>. QED
    BY <2>1, <2>2
<1>2. SubSeq(k, 1, Len(p)) = p
  <2>. DEFINE q == SubSeq(k, 1, Len(p))
  <2>1. q \in Seq(Word) /\ Len(q) = Len(p) /\ \A i \in 1..Len(p) : q[i] = k[i]
    BY <1>1
  <2>. HIDE DEF q
  <2>2. q = p
    BY <1>1, <2>1
  <2>. QED
    BY <2>2 DEF q
<1>3. CASE Len(p) = Len(k)
  <2>1. p = k
    BY <1>1, <1>3
  <2>. QED
    BY <2>1 DEF AtOrUnder
<1>4. CASE Len(p) < Len(k)
  BY <1>2, <1>4 DEF AtOrUnder, Under
<1>. QED
  BY <1>1, <1>3, <1>4

LEMMA LocalDiscipline ==
    ASSUME NEW s \in ScopeType, NEW x \in Locals, Stars(<<x>>, s)
    PROVE  \A k : Knows(s, k) /\ k[1] = x => AtOrUnder(<<x>>, k)
<1>. SUFFICES ASSUME NEW k, Knows(s, k), k[1] = x PROVE AtOrUnder(<<x>>, k)
  OBVIOUS
<1>. DEFINE p == <<x>>
<1>1. k \in Known(s) /\ k \in Seq(Word) /\ k # <<>>
  BY KnownIs DEF Path, Word
<1>2. p \in Seq(Word) /\ Len(p) = 1 /\ p[1] = x /\ IsBare(p)
  BY DEF Word, IsBare
<1>3. Stars(p, s)
  OBVIOUS
<1>. HIDE DEF p
<1>4. Len(k) \in Nat /\ Len(k) >= 1
  BY <1>1
<1>5. IsPrefix(p, k)
  <2>1. SubSeq(k, 1, 1) \in Seq(Word) /\ Len(SubSeq(k, 1, 1)) = 1 /\ SubSeq(k, 1, 1)[1] = k[1]
    BY <1>1, <1>4
  <2>2. SubSeq(p, 1, 1) \in Seq(Word) /\ Len(SubSeq(p, 1, 1)) = 1 /\ SubSeq(p, 1, 1)[1] = p[1]
    BY <1>2
  <2>3. SubSeq(p, 1, 1) = SubSeq(k, 1, 1)
    BY <1>2, <2>1, <2>2
  <2>. QED
    BY <1>2, <1>4, <2>3 DEF IsPrefix
<1>6. \A j \in Len(p) + 1..Len(k) : k[j] # Star
  BY <1>1, <1>2, <1>3, <1>5 DEF Stars
<1>7. AtOrUnder(p, k)
  BY <1>1, <1>2, <1>5, <1>6, PrefixIsUnder
<1>. QED
  BY <1>7 DEF p

LEMMA SpelledIs ==
    ASSUME NEW s, AliasesClear(s), NEW k, Clear(k, s)
    PROVE  Spelled(k, s.alias) = <<k[1]>> \o Rest(k, s)
<1>1. CASE s.alias[k[1]] = NoPath
  <2>1. Root(k[1], s) = <<k[1]>>
    BY <1>1 DEF Root
  <2>2. k = Root(k[1], s) \o Rest(k, s)
    BY DEF Clear
  <2>3. Spelled(k, s.alias) = k
    BY <1>1, Zenon DEF Spelled
  <2>. QED
    BY <2>1, <2>2, <2>3
<1>2. CASE s.alias[k[1]] # NoPath
  <2>1. Root(k[1], s) = s.alias[k[1]]
    BY <1>2 DEF Root
  <2>2. Spelled(k, s.alias) = <<k[1]>> \o SubSeq(k, Len(s.alias[k[1]]) + 1, Len(k))
    BY <1>2, Zenon DEF Spelled
  <2>. QED
    BY <2>1, <2>2 DEF Rest
<1>. QED
  BY <1>1, <1>2

\* What reading k selects its i-th part of.
ReadTo(k, i, s) == <<k[1]>> \o SubSeq(Rest(k, s), 1, i - 1)

\* A known path is read through what it is spelled with.
LEMMA SpelledThrough ==
    ASSUME NEW s, AliasesClear(s), NEW k, Clear(k, s), NEW i \in 1..Len(Rest(k, s)),
           NEW e, e = ReadTo(k, i, s)
    PROVE  e \in Through(Spelled(k, s.alias)) /\ e[1] = k[1] /\ Tail(e) = SubSeq(Rest(k, s), 1, i - 1)
<1>. DEFINE x == k[1]  w == Rest(k, s)  u == SubSeq(w, 1, i - 1)  q == <<x>> \o w
<1>1. x \in Locals /\ w \in Seq(Slots)
  BY ClearParts
<1>2. Spelled(k, s.alias) = q
  BY SpelledIs
<1>3. <<x>> \in Expr /\ Tail(<<x>>) = <<>> /\ <<x>>[1] = x /\ Len(<<x>>) = 1 /\ <<x>> \in Seq(Word)
  BY <1>1, LocalIsExpr, ExprParts
<1>4. q \in Expr /\ q[1] = x
  BY <1>1, <1>3, ExprConcat
<1>5. i \in 1..Len(w) /\ e = <<x>> \o u
  BY DEF ReadTo
<1>. HIDE DEF w, x
<1>6. u \in Seq(Slots) /\ Len(u) = i - 1 /\ (\A j \in 1..i - 1 : u[j] = w[j]) /\ i \in Nat /\ Len(w) \in Nat
  BY <1>1, <1>5
<1>. HIDE DEF u
<1>7. e \in Expr /\ e[1] = x /\ Tail(e) = <<>> \o u
  BY <1>3, <1>5, <1>6, ExprConcat
<1>8. Tail(e) = u
  BY <1>6, <1>7
<1>9. w \in Seq(Word) /\ u \in Seq(Word)
  BY <1>1, <1>6, SlotsAreWords
<1>10. /\ Len(q) = Len(w) + 1 /\ q \in Seq(Word) /\ q[1] = x
       /\ \A j \in 2..Len(w) + 1 : q[j] = w[j - 1]
  BY <1>3, <1>9
<1>11. /\ Len(e) = i /\ e \in Seq(Word) /\ e[1] = x
       /\ \A j \in 2..i : e[j] = u[j - 1]
  <2>. DEFINE c == <<x>> \o u
  <2>1. /\ Len(c) = Len(u) + 1 /\ c \in Seq(Word) /\ c[1] = x
        /\ \A j \in 2..Len(u) + 1 : c[j] = u[j - 1]
    BY <1>3, <1>9
  <2>2. Len(u) + 1 = i
    BY <1>6
  <2>3. e = c
    BY <1>5
  <2>. HIDE DEF c
  <2>. QED
    BY <2>1, <2>2, <2>3
<1>. HIDE DEF q
<1>12. i \in 1..Len(q)
  BY <1>5, <1>6, <1>10
<1>13. e = SubSeq(q, 1, i)
  <2>. DEFINE v == SubSeq(q, 1, i)
  <2>1. v \in Seq(Word) /\ Len(v) = i /\ \A j \in 1..i : v[j] = q[j]
    BY <1>10, <1>12
  <2>. HIDE DEF v
  <2>2. ASSUME NEW j \in 1..i PROVE v[j] = e[j]
    <3>1. CASE j = 1
      BY <1>10, <1>11, <2>1, <3>1
    <3>2. CASE j # 1
      <4>1. j \in 2..i /\ j - 1 \in 1..i - 1 /\ j \in 2..Len(w) + 1
        BY <1>5, <1>6, <3>2
      <4>. QED
        BY <1>6, <1>10, <1>11, <2>1, <4>1
    <3>. QED
      BY <3>1, <3>2
  <2>3. v = e
    BY <1>11, <2>1, <2>2
  <2>. QED
    BY <2>3 DEF v
<1>14. e \in Through(q)
  BY <1>4, <1>12, <1>13, ThroughParts
<1>. QED
  BY <1>2, <1>7, <1>8, <1>14 DEF x, u, w

LEMMA FieldDiscipline ==
    ASSUME NEW s \in ScopeType, NEW m, Sound(s, m), NEW t \in Expr, ~IsBare(t), Ready(t, m),
           NEW names, Shares(t, names, s, m), Stars(t, s)
    PROVE  Disciplined(s, m, t)
<1>1. AliasesClear(s) /\ \A k : Knows(s, k) => Clear(k, s)
  BY SoundClear
<1>2. Eval(Front(t), m) \in Objects
  BY DEF Ready
<1>3. ASSUME NEW k, Knows(s, k), NEW i \in 1..Len(Rest(k, s)),
             NEW e, e = ReadTo(k, i, s),
             EvalFrom(m.env[k[1]], SubSeq(Rest(k, s), 1, i - 1), m) = Eval(Front(t), m)
      PROVE  Canonical(e, s.alias) = Canonical(Front(t), s.alias)
  <2>0. Clear(k, s)
    BY <1>1, <1>3
  <2>1. e \in Through(Spelled(k, s.alias)) /\ e[1] = k[1] /\ Tail(e) = SubSeq(Rest(k, s), 1, i - 1)
    BY <1>1, <1>3, <2>0, SpelledThrough
  <2>3. Eval(e, m) = EvalFrom(m.env[k[1]], SubSeq(Rest(k, s), 1, i - 1), m)
    BY <2>1, Zenon DEF Eval
  <2>2. k \in Known(s)
    BY <1>3, KnownIs
  <2>. QED
    BY <1>2, <1>3, <2>1, <2>2, <2>3, Zenon DEF Shares
<1>4. ASSUME NEW k, Knows(s, k), IsPrefix(Canonical(t, s.alias), k)
      PROVE  Last(t) # Star /\ AtOrUnder(Canonical(t, s.alias), k)
  <2>. DEFINE p == Canonical(t, s.alias)
  <2>1. k \in Known(s) /\ k \in Seq(Word)
    BY <1>4, KnownIs DEF Path, Word
  <2>2. p \in Seq(Word)
    BY <1>1, CanonicalIsClear, ExprParts DEF Clear
  <2>3. Last(t) # Star /\ \A j \in Len(p) + 1..Len(k) : k[j] # Star
    BY <1>4, <2>1 DEF Stars
  <2>4. IsPrefix(p, k)
    BY <1>4
  <2>. HIDE DEF p
  <2>5. AtOrUnder(p, k)
    BY <2>1, <2>2, <2>3, <2>4, PrefixIsUnder
  <2>. QED
    BY <2>3, <2>5 DEF p
<1>. QED
  BY <1>3, <1>4 DEF Disciplined, ReadTo

\* The object written to is found before the write.
LEMMA TargetFound ==
    ASSUME NEW s, NEW m, Sound(s, m), NEW t \in Expr, Ready(t, m),
           NEW names, Proper(t) \subseteq names, Shares(t, names, s, m)
    PROVE  Found(t, m)
<1>1. CASE IsBare(t)
  BY <1>1 DEF Found
<1>2. CASE ~IsBare(t)
  <2>1. Eval(Front(t), m) \in Objects
    BY <1>2 DEF Ready
  <2>2. \A e \in Proper(t) : Eval(e, m) = Eval(Front(t), m)
                               => Canonical(e, s.alias) = Canonical(Front(t), s.alias)
    BY <1>2, <2>1 DEF Shares
  <2>3. AliasesClear(s)
    BY SoundClear
  <2>. QED
    BY <2>2, <2>3, FoundByNames
<1>. QED
  BY <1>1, <1>2

-----------------------------------------------------------------------------
(* The targets of one call.                                                *)

LocalTargets == {<<l>> : l \in Locals}

TargetStep(lhs) == [n \in 1..Len(lhs) |-> [t \in ScopeType |-> InvalidateTarget(t, lhs[n])]]

LEMMA TargetStepTyped ==
    ASSUME NEW lhs \in Seq(LocalTargets)
    PROVE  /\ Len(lhs) \in Nat
           /\ TargetStep(lhs) \in [1..Len(lhs) -> [ScopeType -> ScopeType]]
           /\ \A n \in 1..Len(lhs), t \in ScopeType : TargetStep(lhs)[n][t] = InvalidateTarget(t, lhs[n])
           /\ \A n \in 0..Len(lhs) : n = 0 \/ n \in 1..Len(lhs)
           /\ \A n \in 1..Len(lhs) : n - 1 \in 0..Len(lhs)
<1>1. \A n \in 1..Len(lhs) : \E x \in Locals : lhs[n] = <<x>>
  BY DEF LocalTargets
<1>2. ASSUME NEW n \in 1..Len(lhs), NEW t \in ScopeType PROVE InvalidateTarget(t, lhs[n]) \in ScopeType
  <2>1. PICK x \in Locals : lhs[n] = <<x>>
    BY <1>1
  <2>. QED
    BY <2>1, InvalidateLocalFields
<1>3. Len(lhs) \in Nat
  OBVIOUS
<1>. QED
  BY <1>2, <1>3 DEF TargetStep

LEMMA TargetsUnroll ==
    ASSUME NEW lhs \in Seq(LocalTargets), NEW s \in ScopeType
    PROVE  \E f \in [0..Len(lhs) -> ScopeType] :
              Unrolls(f, Len(lhs), s, TargetStep(lhs)) /\ InvalidateTargets(lhs, s) = f[Len(lhs)]
<1>. DEFINE Is(f) == f = [n \in 0..Len(lhs) |-> IF n = 0 THEN s ELSE InvalidateTarget(f[n - 1], lhs[n])]
            g == CHOOSE f : Is(f)
<1>1. InvalidateTargets(lhs, s) = g[Len(lhs)]
  BY DEF InvalidateTargets
<1>2. \E f : Is(f)
  <2>. HIDE DEF g
  <2>1. PICK f \in [0..Len(lhs) -> ScopeType] : Unrolls(f, Len(lhs), s, TargetStep(lhs))
    BY TargetStepTyped, RecursionExists
  <2>2. ASSUME NEW n \in 1..Len(lhs) PROVE TargetStep(lhs)[n][f[n - 1]] = InvalidateTarget(f[n - 1], lhs[n])
    <3>1. n - 1 \in 0..Len(lhs)
      BY TargetStepTyped
    <3>2. f[n - 1] \in ScopeType
      BY <3>1
    <3>. QED
      BY <3>2, TargetStepTyped
  <2>3. f = [n \in 0..Len(lhs) |-> IF n = 0 THEN s ELSE TargetStep(lhs)[n][f[n - 1]]]
    BY <2>1 DEF Unrolls
  <2>4. \A n \in 0..Len(lhs) : (IF n = 0 THEN s ELSE TargetStep(lhs)[n][f[n - 1]])
                               = IF n = 0 THEN s ELSE InvalidateTarget(f[n - 1], lhs[n])
    <3>1. \A n \in 0..Len(lhs) : n = 0 \/ n \in 1..Len(lhs)
      BY TargetStepTyped
    <3>. QED
      BY <2>2, <3>1, Zenon
  <2>5. Is(f)
    BY <2>3, <2>4
  <2>. QED
    BY <2>5
<1>3. Is(g)
  BY <1>2
<1>4. g \in [0..Len(lhs) -> ScopeType] /\ Unrolls(g, Len(lhs), s, TargetStep(lhs))
  <2>. DEFINE h == [n \in 1..Len(lhs) |-> InvalidateTarget(g[n - 1], lhs[n])]
  <2>. HIDE DEF g
  <2>1. g = [n \in 0..Len(lhs) |-> IF n = 0 THEN s ELSE h[n]]
    <3>1. \A n \in 0..Len(lhs) : n = 0 \/ n \in 1..Len(lhs)
      BY TargetStepTyped
    <3>2. \A n \in 1..Len(lhs) : InvalidateTarget(g[n - 1], lhs[n]) = h[n]
      OBVIOUS
    <3>. HIDE DEF h
    <3>3. \A n \in 0..Len(lhs) : (IF n = 0 THEN s ELSE InvalidateTarget(g[n - 1], lhs[n]))
                                 = IF n = 0 THEN s ELSE h[n]
      BY <3>1, <3>2, Zenon
    <3>. QED
      BY <1>3, <3>3, Zenon
  <2>2. g = [n \in 0..Len(lhs) |-> g[n]] /\ g[0] = s /\ \A n \in 1..Len(lhs) : g[n] = h[n]
    <3>. HIDE DEF h
    <3>. QED
      BY <2>1, TargetStepTyped, RecursionValues
  <2>3. \A n \in 1..Len(lhs) : g[n - 1] \in ScopeType => g[n] = TargetStep(lhs)[n][g[n - 1]]
    BY <2>2, TargetStepTyped
  <2>. QED
    <3>1. GoesOn(g, Len(lhs), ScopeType, s, TargetStep(lhs))
      BY <2>2, <2>3 DEF GoesOn
    <3>. QED
      BY <3>1, TargetStepTyped, RecursionTyped
<1>. QED
  BY <1>1, <1>4



AfterTarget(K, lhs, nilable, n) == UNION {Returned(lhs[n], ResultsFor(lhs[n]), n \in nilable, k) : k \in K}

ResultStep(lhs, nilable) ==
    [n \in 1..Len(lhs) |-> [K \in SUBSET MemoryType |-> AfterTarget(K, lhs, nilable, n)]]

\* A local gets what a call returned.
\* A local holds another value of its type.
Receives(x, m, n) == \E v \in ValuesOf(x) : n.env = [m.env EXCEPT ![x] = v]

LEMMA ReceivesTyped ==
    ASSUME NEW m \in MemoryType, Typings(m), NEW x \in Locals, NEW n, Receives(x, m, n)
    PROVE  Typings(n)
<1>1. m.env \in [Locals -> Value]
  BY DEF MemoryType
<1>2. PICK v \in ValuesOf(x) : n.env = [m.env EXCEPT ![x] = v]
  BY DEF Receives
<1>3. \A l \in Locals : n.env[l] = IF l = x THEN v ELSE m.env[l]
  BY <1>1, <1>2
<1>. QED
  BY <1>3 DEF Typings

LEMMA LocalReturned ==
    ASSUME NEW m \in MemoryType, NEW x \in Locals, NEW visible \in BOOLEAN,
           NEW n, n \in Returned(<<x>>, ResultsFor(<<x>>), visible, m)
    PROVE  n \in MemoryType /\ Rebound(x, m, n) /\ Receives(x, m, n)
<1>. DEFINE lhs == <<x>>
<1>1. lhs \in Expr /\ IsBare(lhs) /\ lhs[1] = x
  BY LocalIsExpr DEF IsBare
<1>2. lhs \in Typed
  BY <1>1 DEF Typed
<1>3. ResultsFor(lhs) \subseteq Value /\ ResultsFor(lhs) = ValuesOf(x)
  BY <1>1, <1>2, ResultsForTypes DEF ResultsFor
<1>4. Ready(lhs, m)
  BY <1>1 DEF Ready
<1>5. n \in Returned(lhs, ResultsFor(lhs), visible, m)
  OBVIOUS
<1>. HIDE DEF lhs
<1>6. PICK v \in ResultsFor(lhs) : Stores(lhs, v, m, n)
  BY <1>1, <1>3, <1>4, <1>5, ReturnedWritten
<1>. QED
  BY <1>1, <1>3, <1>6 DEF Stores, Receives

LEMMA ResultStepTyped ==
    ASSUME NEW lhs \in Seq(LocalTargets), NEW nilable
    PROVE  /\ Len(lhs) \in Nat
           /\ ResultStep(lhs, nilable) \in [1..Len(lhs) -> [SUBSET MemoryType -> SUBSET MemoryType]]
           /\ \A n \in 1..Len(lhs), K \in SUBSET MemoryType : ResultStep(lhs, nilable)[n][K] = AfterTarget(K, lhs, nilable, n)
           /\ \A n \in 0..Len(lhs) : n = 0 \/ n \in 1..Len(lhs)
           /\ \A n \in 1..Len(lhs) : n - 1 \in 0..Len(lhs)
<1>1. \A n \in 1..Len(lhs) : \E x \in Locals : lhs[n] = <<x>>
  BY DEF LocalTargets
<1>2. ASSUME NEW n \in 1..Len(lhs), NEW K \in SUBSET MemoryType PROVE AfterTarget(K, lhs, nilable, n) \in SUBSET MemoryType
  <2>1. PICK x \in Locals : lhs[n] = <<x>>
    BY <1>1
  <2>. DEFINE visible == n \in nilable
  <2>2. visible \in BOOLEAN
    OBVIOUS
  <2>. HIDE DEF visible
  <2>3. ASSUME NEW k \in K, NEW m, m \in Returned(lhs[n], ResultsFor(lhs[n]), visible, k) PROVE m \in MemoryType
    BY <2>1, <2>2, <2>3, LocalReturned
  <2>. QED
    BY <2>3 DEF AfterTarget, visible
<1>3. Len(lhs) \in Nat
  OBVIOUS
<1>. QED
  BY <1>2, <1>3 DEF ResultStep

LEMMA ResultsUnroll ==
    ASSUME NEW lhs \in Seq(LocalTargets), NEW nilable, NEW m \in MemoryType
    PROVE  \E f \in [0..Len(lhs) -> SUBSET MemoryType] :
              Unrolls(f, Len(lhs), {m}, ResultStep(lhs, nilable)) /\ Results(lhs, nilable, m) = f[Len(lhs)]
<1>. DEFINE Is(f) == f = [n \in 0..Len(lhs) |-> IF n = 0 THEN {m} ELSE AfterTarget(f[n - 1], lhs, nilable, n)]
            g == CHOOSE f : Is(f)
<1>1. Results(lhs, nilable, m) = g[Len(lhs)]
  BY DEF Results, AfterTarget
<1>2. \E f : Is(f)
  <2>. HIDE DEF g
  <2>0. {m} \in SUBSET MemoryType
    OBVIOUS
  <2>1. PICK f \in [0..Len(lhs) -> SUBSET MemoryType] : Unrolls(f, Len(lhs), {m}, ResultStep(lhs, nilable))
    BY <2>0, ResultStepTyped, RecursionExists
  <2>2. ASSUME NEW n \in 1..Len(lhs) PROVE ResultStep(lhs, nilable)[n][f[n - 1]] = AfterTarget(f[n - 1], lhs, nilable, n)
    <3>1. n - 1 \in 0..Len(lhs)
      BY ResultStepTyped
    <3>2. f[n - 1] \in SUBSET MemoryType
      BY <3>1
    <3>. QED
      BY <3>2, ResultStepTyped
  <2>3. f = [n \in 0..Len(lhs) |-> IF n = 0 THEN {m} ELSE ResultStep(lhs, nilable)[n][f[n - 1]]]
    BY <2>1 DEF Unrolls
  <2>4. \A n \in 0..Len(lhs) : (IF n = 0 THEN {m} ELSE ResultStep(lhs, nilable)[n][f[n - 1]])
                               = IF n = 0 THEN {m} ELSE AfterTarget(f[n - 1], lhs, nilable, n)
    <3>1. \A n \in 0..Len(lhs) : n = 0 \/ n \in 1..Len(lhs)
      BY ResultStepTyped
    <3>. QED
      BY <2>2, <3>1, Zenon
  <2>5. Is(f)
    BY <2>3, <2>4
  <2>. QED
    BY <2>5
<1>3. Is(g)
  BY <1>2
<1>4. g \in [0..Len(lhs) -> SUBSET MemoryType] /\ Unrolls(g, Len(lhs), {m}, ResultStep(lhs, nilable))
  <2>. DEFINE h == [n \in 1..Len(lhs) |-> AfterTarget(g[n - 1], lhs, nilable, n)]
  <2>. HIDE DEF g
  <2>1. g = [n \in 0..Len(lhs) |-> IF n = 0 THEN {m} ELSE h[n]]
    <3>1. \A n \in 0..Len(lhs) : n = 0 \/ n \in 1..Len(lhs)
      BY ResultStepTyped
    <3>2. \A n \in 1..Len(lhs) : AfterTarget(g[n - 1], lhs, nilable, n) = h[n]
      OBVIOUS
    <3>. HIDE DEF h
    <3>3. \A n \in 0..Len(lhs) : (IF n = 0 THEN {m} ELSE AfterTarget(g[n - 1], lhs, nilable, n))
                                 = IF n = 0 THEN {m} ELSE h[n]
      BY <3>1, <3>2, Zenon
    <3>. QED
      BY <1>3, <3>3, Zenon
  <2>2. g = [n \in 0..Len(lhs) |-> g[n]] /\ g[0] = {m} /\ \A n \in 1..Len(lhs) : g[n] = h[n]
    <3>. HIDE DEF h
    <3>. QED
      BY <2>1, ResultStepTyped, RecursionValues
  <2>3. \A n \in 1..Len(lhs) : g[n - 1] \in SUBSET MemoryType => g[n] = ResultStep(lhs, nilable)[n][g[n - 1]]
    <3>1. \A n \in 1..Len(lhs) : h[n] = AfterTarget(g[n - 1], lhs, nilable, n)
      OBVIOUS
    <3>2. \A n \in 1..Len(lhs), K \in SUBSET MemoryType :
              ResultStep(lhs, nilable)[n][K] = AfterTarget(K, lhs, nilable, n)
      BY ResultStepTyped
    <3>. HIDE DEF h
    <3>. QED
      BY <2>2, <3>1, <3>2, Zenon
  <2>. QED
    <3>1. GoesOn(g, Len(lhs), SUBSET MemoryType, {m}, ResultStep(lhs, nilable))
      BY <2>2, <2>3 DEF GoesOn
    <3>. QED
      BY <3>1, {m} \in SUBSET MemoryType, ResultStepTyped, RecursionTyped
<1>. QED
  BY <1>1, <1>4

\* A scope and a memory at one place.
Fits(s, m) == s \in ScopeType /\ m \in MemoryType /\ Typings(m) /\ Sound(s, m)

LEMMA LessAndLess ==
    ASSUME NEW s, NEW t, NEW u, IsLess(s, t), IsLess(t, u)
    PROVE  IsLess(s, u)
BY DEF IsLess

LEMMA LocalIsLess ==
    ASSUME NEW s \in ScopeType, NEW x \in Locals, NEW t, t = InvalidateTarget(s, <<x>>)
    PROVE  IsLess(s, t)
<1>1. /\ t.proven = {k \in s.proven : ~AtOrUnder(<<x>>, k)}
      /\ t.alias[x] = NoPath /\ t.errProof[x] = {} /\ t.nilable[x] = "unknown"
      /\ \A l \in Locals \ {x} :
            /\ t.alias[l] = IF AtOrUnder(<<x>>, s.alias[l]) THEN NoPath ELSE s.alias[l]
            /\ t.errProof[l] = {k \in s.errProof[l] : ~AtOrUnder(<<x>>, k)}
            /\ t.nilable[l] = s.nilable[l]
  BY InvalidateLocalFields
<1>. QED
  BY <1>1 DEF IsLess

\* One of the results goes to its target.
LEMMA TargetReturned ==
    ASSUME NEW s \in ScopeType, NEW t, NEW m, Fits(t, m), IsLess(s, t), NEW x \in Locals,
           \A k : Knows(s, k) /\ k[1] = x => AtOrUnder(<<x>>, k),
           NEW visible \in BOOLEAN, NEW n, n \in Returned(<<x>>, ResultsFor(<<x>>), visible, m),
           NEW u, u = InvalidateTarget(t, <<x>>)
    PROVE  Fits(u, n) /\ IsLess(s, u)
<1>1. t \in ScopeType /\ m \in MemoryType /\ Typings(m) /\ Sound(t, m)
  BY DEF Fits
<1>2. \A k : Knows(t, k) /\ k[1] = x => AtOrUnder(<<x>>, k)
  BY LessKnown
<1>3. u \in ScopeType /\ Sound(u, m) /\ Free(x, u) /\ IsLess(t, u)
  BY <1>1, <1>2, InvalidateLocalSound
<1>4. n \in MemoryType /\ Rebound(x, m, n) /\ Receives(x, m, n)
  BY <1>1, LocalReturned
<1>5. Sound(u, n)
  BY <1>3, <1>4, ReboundSound
<1>6. Typings(n)
  BY <1>1, <1>4, ReceivesTyped
<1>7. IsLess(s, u)
  BY <1>3, LessAndLess
<1>. QED
  BY <1>3, <1>4, <1>5, <1>6, <1>7 DEF Fits

\* So do all of them, from left to right.
LEMMA TargetsReturned ==
    ASSUME NEW s, NEW m, Fits(s, m), NEW lhs \in Seq(LocalTargets), NEW nilable,
           \A i \in 1..Len(lhs) : Stars(lhs[i], s),
           NEW n, n \in Results(lhs, nilable, m),
           NEW u, u = InvalidateTargets(lhs, s)
    PROVE  Fits(u, n) /\ IsLess(s, u)
<1>1. s \in ScopeType /\ m \in MemoryType /\ Typings(m) /\ Sound(s, m)
  BY DEF Fits
<1>2. PICK f \in [0..Len(lhs) -> ScopeType] :
         Unrolls(f, Len(lhs), s, TargetStep(lhs)) /\ InvalidateTargets(lhs, s) = f[Len(lhs)]
  BY <1>1, TargetsUnroll
<1>3. PICK g \in [0..Len(lhs) -> SUBSET MemoryType] :
         Unrolls(g, Len(lhs), {m}, ResultStep(lhs, nilable)) /\ Results(lhs, nilable, m) = g[Len(lhs)]
  BY <1>1, ResultsUnroll
<1>4. Len(lhs) \in Nat
  OBVIOUS
<1>5. f[0] = s /\ \A i \in 1..Len(lhs) : f[i] = TargetStep(lhs)[i][f[i - 1]]
  <2>1. Unrolls(f, Len(lhs), s, TargetStep(lhs))
    BY <1>2
  <2>. QED
    BY ONLY <1>4, <2>1, RecursionStep
<1>6. g[0] = {m} /\ \A i \in 1..Len(lhs) : g[i] = ResultStep(lhs, nilable)[i][g[i - 1]]
  <2>1. Unrolls(g, Len(lhs), {m}, ResultStep(lhs, nilable))
    BY <1>3
  <2>. QED
    BY ONLY <1>4, <2>1, RecursionStep
<1>7. \A i \in 1..Len(lhs) : \E x \in Locals : lhs[i] = <<x>>
  BY DEF LocalTargets
<1>. DEFINE P == {i \in 0..Len(lhs) : IsLess(s, f[i]) /\ \A k \in g[i] : Fits(f[i], k)}
<1>8. 0 \in P
  <2>1. IsLess(s, s)
    BY DEF IsLess
  <2>. QED
    BY <1>4, <1>5, <1>6, <2>1
<1>9. ASSUME NEW i \in 0..Len(lhs) - 1, i \in P PROVE i + 1 \in P
  <2>1. i + 1 \in 1..Len(lhs) /\ (i + 1) - 1 = i /\ i \in 0..Len(lhs) /\ i + 1 \in 0..Len(lhs)
    BY <1>4
  <2>2. PICK x \in Locals : lhs[i + 1] = <<x>>
    BY <1>7, <2>1
  <2>. DEFINE visible == i + 1 \in nilable
  <2>3. f[i + 1] = InvalidateTarget(f[i], <<x>>)
    <3>1. f[i + 1] = TargetStep(lhs)[i + 1][f[i]]
      BY <1>5, <2>1
    <3>2. TargetStep(lhs)[i + 1][f[i]] = InvalidateTarget(f[i], lhs[i + 1])
      BY <1>2, <2>1, TargetStepTyped
    <3>. QED
      BY <2>2, <3>1, <3>2
  <2>4. g[i + 1] = UNION {Returned(<<x>>, ResultsFor(<<x>>), visible, k) : k \in g[i]}
    <3>1. g[i + 1] = ResultStep(lhs, nilable)[i + 1][g[i]]
      BY <1>6, <2>1
    <3>2. ResultStep(lhs, nilable)[i + 1][g[i]] = AfterTarget(g[i], lhs, nilable, i + 1)
      BY <1>3, <2>1, ResultStepTyped
    <3>. QED
      BY <2>2, <3>1, <3>2 DEF AfterTarget
  <2>5. visible \in BOOLEAN
    OBVIOUS
  <2>. HIDE DEF visible
  <2>6. \A k : Knows(s, k) /\ k[1] = x => AtOrUnder(<<x>>, k)
    BY <1>1, <2>1, <2>2, LocalDiscipline
  <2>7. ASSUME NEW q \in g[i + 1] PROVE Fits(f[i + 1], q) /\ IsLess(s, f[i + 1])
    <3>1. PICK k \in g[i] : q \in Returned(<<x>>, ResultsFor(<<x>>), visible, k)
      BY <2>4
    <3>2. Fits(f[i], k) /\ IsLess(s, f[i])
      BY <1>9
    <3>. QED
      BY <1>1, <2>3, <2>5, <2>6, <3>1, <3>2, TargetReturned
  <2>8. IsLess(s, f[i + 1])
    <3>1. IsLess(s, f[i]) /\ f[i] \in ScopeType
      BY <1>2, <1>9, <2>1
    <3>2. IsLess(f[i], f[i + 1])
      BY <2>3, <3>1, LocalIsLess
    <3>. QED
      BY <3>1, <3>2, LessAndLess
  <2>. QED
    BY <2>1, <2>7, <2>8
<1>10. 0..Len(lhs) \subseteq P
  <2>. HIDE DEF P
  <2>. QED
    BY <1>4, <1>8, <1>9, InductionUpTo
<1>. QED
  BY <1>2, <1>3, <1>4, <1>10

LEMMA ResultsFit ==
    ASSUME NEW s, NEW m, Fits(s, m), NEW lhs \in Seq(LocalTargets), NEW nilable,
           \A i \in 1..Len(lhs) : Stars(lhs[i], s),
           NEW n, n \in Results(lhs, nilable, m),
           NEW u, u = AssignResults(lhs, nilable, s)
    PROVE  Fits(u, n)
<1>. DEFINE t == InvalidateTargets(lhs, s)
            may(l) == \E i \in {j \in nilable \cap DOMAIN lhs : IsBare(lhs[j])} : lhs[i] = <<l>>
            q == [l \in Locals |-> IF may(l) THEN "maybeNil" ELSE t.nilable[l]]
<1>1. u = [t EXCEPT !.nilable = q]
  BY DEF AssignResults
<1>2. Fits(t, n)
  BY TargetsReturned
<1>3. \A l \in Locals : q[l] = IF may(l) THEN "maybeNil" ELSE t.nilable[l]
  OBVIOUS
<1>4. q = [l \in Locals |-> q[l]]
  OBVIOUS
<1>. HIDE DEF t, may, q
<1>5. t \in ScopeType /\ n \in MemoryType /\ Typings(n) /\ Sound(t, n)
  BY <1>2 DEF Fits
<1>6. q \in NilStates
  <2>1. t.nilable \in NilStates
    BY <1>5, ScopeFields
  <2>. QED
    BY <1>3, <1>4, <2>1 DEF NilStates, NilState
<1>7. u \in ScopeType /\ u.proven = t.proven /\ u.alias = t.alias /\ u.errProof = t.errProof /\ u.nilable = q
  BY <1>1, <1>5, <1>6, WithNilStates
<1>8. IsLess(t, u)
  BY <1>3, <1>7 DEF IsLess
<1>9. \A k : Root(k[1], u) = Root(k[1], t)
  BY <1>7 DEF Root
<1>10. Sound(u, n)
  BY <1>5, <1>8, <1>9, Weakened
<1>. QED
  BY <1>5, <1>7, <1>10 DEF Fits

-----------------------------------------------------------------------------
(* A simple statement.                                                     *)

\* What an assignment goes through does not panic when it is executed.
LEMMA SetReached ==
    ASSUME NEW s, NEW m, NEW st, IsStatement(st), st.op = "set", Faults(st, s, m) = {}
    PROVE  \A b \in Proper(st.lhs) : ~Faulty(b, m)
<1>. DEFINE checks == StmtChecks(st, s)
            bases == {ch.base : ch \in {c \in checks : ~c.safe}}
<1>1. PlainChecks(checks)
  BY StatementChecksArePlain
<1>2. FirstFaults(bases, m) = {}
  BY DEF Faults
<1>3. Checks(Proper(st.lhs), {}) \subseteq checks
  BY DEF StmtChecks
<1>4. Proper(st.lhs) \subseteq bases
  <2>. SUFFICES ASSUME NEW b \in Proper(st.lhs) PROVE b \in bases
    OBVIOUS
  <2>. DEFINE ch == [base |-> b, extra |-> {}, safe |-> FALSE]
  <2>1. ch \in Checks(Proper(st.lhs), {}) /\ ch.base = b /\ ~ch.safe
    BY DEF Checks
  <2>. HIDE DEF ch, checks
  <2>2. ch \in {c \in checks : ~c.safe} /\ ch.base = b
    BY <1>3, <2>1
  <2>. QED
    BY <2>2
<1>5. bases \in SUBSET Expr
  <2>. HIDE DEF checks
  <2>. QED
    BY <1>1 DEF PlainChecks, Check
<1>. HIDE DEF bases
<1>. QED
  BY <1>2, <1>4, <1>5, NoFirstFault

LEMMA SetFits ==
    ASSUME Wild = {}, NEW s, NEW m, Fits(s, m), m # Dead, NEW st, IsStatement(st), st.op = "set",
           Follows(st, s, m), Proper(st.lhs) \subseteq Names, NEW n, n \in After(st, s, m),
           NEW u, u = Effect(st, s)
    PROVE  Fits(u, n)
<1>. DEFINE lhs == st.lhs  rhs == st.rhs
<1>1. s \in ScopeType /\ m \in MemoryType /\ Typings(m) /\ Sound(s, m)
  BY DEF Fits
<1>2. lhs \in Typed /\ Assignable(lhs, rhs)
  BY DEF IsStatement
<1>3. Faults(st, s, m) = {} /\ n \in Assigned(lhs, rhs, m)
  BY DEF After
<1>4. u = Assign(lhs, rhs, s)
  BY DEF Effect
<1>5. Shares(lhs, Names, s, m) /\ Stars(lhs, s)
  <2>1. lhs \in Targets(st)
    BY DEF Targets
  <2>. QED
    BY <2>1, FollowsTargets
<1>6. rhs.k = "path" => ~(Converted(lhs, rhs.e, m) = TypedNil /\ NilOriginState(lhs, rhs, s) = "unknown")
  BY Zenon DEF Follows
<1>7. \A b \in Proper(lhs) : ~Faulty(b, m)
  BY <1>3, SetReached
<1>8. Proper(lhs) \subseteq Names
  OBVIOUS
<1>. HIDE DEF lhs, rhs
<1>9. Ready(lhs, m)
  BY <1>1, <1>2, <1>7, ReadyWhenReached
<1>10. PICK v \in ResultsFor(lhs) : Gets(lhs, rhs, v, m, n) /\ Stores(lhs, v, m, n)
  BY <1>1, <1>2, <1>3, <1>9, AssignedWritten
<1>11. n \in MemoryType /\ lhs \in Expr
  BY <1>2, <1>10 DEF Stores, Typed
<1>12. CASE IsBare(lhs)
  <2>1. PICK x : x \in Locals /\ lhs = <<x>>
    <3>1. lhs[1] \in Locals /\ lhs \in Seq(Word) /\ Len(lhs) = 1
      BY <1>11, <1>12, ExprParts DEF IsBare
    <3>2. lhs = <<lhs[1]>>
      BY <3>1
    <3>. QED
      BY <3>1, <3>2
  <2>2. \A k : Knows(s, k) /\ k[1] = x => AtOrUnder(<<x>>, k)
    BY <1>1, <1>5, <2>1, LocalDiscipline
  <2>3. Sound(u, n) /\ u \in ScopeType
    BY <1>1, <1>2, <1>4, <1>6, <1>10, <2>1, <2>2, AssignLocalSound
  <2>4. Receives(x, m, n)
    <3>1. lhs[1] = x
      BY <2>1
    <3>. QED
      BY <1>10, <1>12, <3>1 DEF Stores, Receives, ResultsFor
  <2>5. Typings(n)
    BY <1>1, <2>1, <2>4, ReceivesTyped
  <2>. QED
    BY <1>11, <2>3, <2>5 DEF Fits
<1>13. CASE ~IsBare(lhs)
  <2>1. Found(lhs, m)
    BY <1>1, <1>5, <1>8, <1>9, <1>11, TargetFound
  <2>2. Disciplined(s, m, lhs)
    BY <1>1, <1>5, <1>9, <1>11, <1>13, FieldDiscipline
  <2>3. Sound(u, n) /\ u \in ScopeType
    BY <1>1, <1>2, <1>4, <1>9, <1>10, <1>13, <2>1, <2>2, AssignFieldSound
  <2>4. n.env = m.env
    BY <1>10, <1>13 DEF Stores
  <2>5. Typings(n)
    BY <1>1, <2>4 DEF Typings
  <2>. QED
    BY <1>11, <2>3, <2>5 DEF Fits
<1>. QED
  BY <1>12, <1>13

\* A local handed out by address is one nothing is known of but its nil state.
LEMMA AddrFits ==
    ASSUME Wild = {}, NEW s, NEW m, Fits(s, m), NEW st, IsStatement(st), st.op = "addr",
           Follows(st, s, m), NEW n, n \in After(st, s, m), NEW u, u = Effect(st, s)
    PROVE  Fits(u, n)
<1>. DEFINE x == st.x
            q == [l \in Locals |-> IF l \in {x} THEN "unknown" ELSE s.nilable[l]]
<1>1. s \in ScopeType /\ m \in MemoryType /\ Typings(m) /\ Sound(s, m)
  BY DEF Fits
<1>2. x \in Locals
  BY DEF IsStatement
<1>3. s.alias[x] = NoPath /\ s.errProof[x] = {} /\ \A k \in Known(s) : k[1] # x
  BY DEF Follows
<1>4. u = [s EXCEPT !.nilable = q]
  BY DEF Effect, DropNil
<1>5. q = [l \in Locals |-> q[l]] /\ \A l \in Locals : q[l] = IF l = x THEN "unknown" ELSE s.nilable[l]
  OBVIOUS
<1>6. n \in {[m EXCEPT !.origin = @ \ {x}]} \cup {Store(<<x>>, v, FALSE, m) : v \in ValuesOf(x)}
  BY DEF After
<1>. HIDE DEF x, q
<1>7. q \in NilStates
  <2>1. s.nilable \in NilStates
    BY <1>1, ScopeFields
  <2>. QED
    BY <1>5, <2>1 DEF NilStates, NilState
<1>8. u \in ScopeType /\ u.proven = s.proven /\ u.alias = s.alias /\ u.errProof = s.errProof /\ u.nilable = q
  BY <1>1, <1>4, <1>7, WithNilStates
<1>9. IsLess(s, u)
  BY <1>5, <1>8 DEF IsLess
<1>10. \A k : Root(k[1], u) = Root(k[1], s)
  BY <1>8 DEF Root
<1>11. Sound(u, m)
  BY <1>1, <1>9, <1>10, Weakened
<1>12. Free(x, u)
  <2>1. \A k : Knows(u, k) => k \in Known(s)
    BY <1>1, <1>9, LessKnown, KnownIs
  <2>2. u.nilable[x] = "unknown"
    BY <1>2, <1>5, <1>8
  <2>. QED
    BY <1>3, <1>8, <2>1, <2>2 DEF Free
<1>13. CASE n = [m EXCEPT !.origin = @ \ {x}]
  <2>. DEFINE o == m.origin \ {x}
  <2>0. n = [m EXCEPT !.origin = o]
    BY <1>13
  <2>1. o \subseteq Locals
    BY <1>1 DEF MemoryType
  <2>. HIDE DEF o
  <2>2. n \in MemoryType /\ n.env = m.env /\ n.heap = m.heap
    BY <1>1, <2>0, <2>1, WithOrigin
  <2>3. Rebound(x, m, n)
    BY <2>2, SameHeap DEF Rebound
  <2>4. Sound(u, n)
    BY <1>2, <1>11, <1>12, <2>3, ReboundSound
  <2>5. Typings(n)
    BY <1>1, <2>2 DEF Typings
  <2>. QED
    BY <1>8, <2>2, <2>4, <2>5 DEF Fits
<1>14. ASSUME NEW v \in ValuesOf(x), n = Store(<<x>>, v, FALSE, m) PROVE Fits(u, n)
  <2>. DEFINE lhs == <<x>>
  <2>1. lhs \in Expr /\ IsBare(lhs) /\ lhs[1] = x
    BY <1>2, LocalIsExpr DEF IsBare
  <2>2. Ready(lhs, m) /\ Agrees(m, m) /\ FALSE \in BOOLEAN
    BY <2>1 DEF Ready, Agrees
  <2>3. v \in Value
    BY DEF ValuesOf, Value
  <2>4. n = Store(lhs, v, FALSE, m)
    BY <1>14
  <2>. HIDE DEF lhs
  <2>5. Stores(lhs, v, m, n)
    BY <1>1, <2>1, <2>2, <2>3, <2>4, StoreWritten
  <2>6. n \in MemoryType /\ Rebound(x, m, n) /\ Receives(x, m, n)
    BY <2>1, <2>5 DEF Stores, Receives
  <2>7. Sound(u, n)
    BY <1>2, <1>11, <1>12, <2>6, ReboundSound
  <2>8. Typings(n)
    BY <1>1, <1>2, <2>6, ReceivesTyped
  <2>. QED
    BY <1>8, <2>6, <2>7, <2>8 DEF Fits
<1>. QED
  BY <1>6, <1>13, <1>14

\* What the walk knows after a simple statement is so after its execution.
LEMMA StatementFits ==
    ASSUME Wild = {}, NEW s, NEW m, Fits(s, m), m # Dead, NEW st, IsStatement(st), Follows(st, s, m),
           \A t \in Targets(st) : Proper(t) \subseteq Names,
           NEW n, n \in After(st, s, m), NEW u, u = Effect(st, s)
    PROVE  Fits(u, n)
<1>1. s \in ScopeType /\ m \in MemoryType /\ Typings(m) /\ Sound(s, m)
  BY DEF Fits
<1>2. CASE st.op = "set"
  <2>1. st.lhs \in Targets(st)
    BY <1>2 DEF Targets
  <2>. QED
    BY <1>2, <2>1, SetFits
<1>3. CASE st.op = "tuple"
  <2>1. st.lhs \in Seq(LocalTargets)
    BY <1>3 DEF IsStatement, LocalTargets
  <2>2. n \in Results(st.lhs, st.nilable, m)
    BY <1>3 DEF After
  <2>3. u = AssignResults(st.lhs, st.nilable, s)
    BY <1>3 DEF Effect
  <2>4. ASSUME NEW i \in 1..Len(st.lhs) PROVE Stars(st.lhs[i], s)
    <3>1. i \in DOMAIN st.lhs
      BY <2>1
    <3>2. st.lhs[i] \in Targets(st)
      BY <1>3, <3>1 DEF Targets
    <3>. QED
      BY <3>2, FollowsTargets
  <2>. QED
    BY <2>1, <2>2, <2>3, <2>4, ResultsFit
<1>4. CASE st.op = "addr"
  BY <1>4, AddrFits
<1>5. CASE st.op \in {"assert", "guard"}
  <2>1. st.c \in Conds /\ st.c.k # "nil"
    BY <1>5 DEF IsStatement
  <2>2. GuardHolds(NilGuards(st.c, s), Outcome(st.c, m), s, m)
    BY <1>1, <2>1, GuardsHold
  <2>3. \E P : u = With(s, P) /\ Vouched(P, s, m) /\ n = m
    <3>1. CASE st.op = "assert"
      <4>1. u = With(s, NilGuards(st.c, s).t)
        BY <3>1 DEF Effect
      <4>2. Outcome(st.c, m).yes /\ n = m
        BY <3>1 DEF After
      <4>. QED
        BY <2>2, <4>1, <4>2 DEF GuardHolds
    <3>2. CASE st.op = "guard"
      <4>1. u = With(s, NilGuards(st.c, s).f)
        BY <3>2 DEF Effect
      <4>2. Outcome(st.c, m).no /\ n = m
        BY <3>2 DEF After
      <4>. QED
        BY <2>2, <4>1, <4>2 DEF GuardHolds
    <3>. QED
      BY <1>5, <3>1, <3>2
  <2>4. u \in ScopeType /\ Sound(u, m)
    BY <1>1, <2>3, WithSound
  <2>. QED
    BY <1>1, <2>3, <2>4 DEF Fits
<1>6. CASE st.op \in {"use", "skip"}
  <2>1. u = s
    BY <1>6 DEF Effect
  <2>2. n = m
    BY <1>6 DEF After
  <2>. QED
    BY <2>1, <2>2
<1>. QED
  BY <1>2, <1>3, <1>4, <1>5, <1>6 DEF IsStatement

-----------------------------------------------------------------------------
(* Types, wherever the execution is.                                       *)

LEMMA PathExtends ==
    ASSUME NEW p \in Path, NEW f \in Slots
    PROVE  p \o <<f>> \in Path
<1>. DEFINE w == <<f>>
<1>1. p \in Seq(Word) /\ p # <<>> /\ p[1] \in Locals
  BY DEF Path, Word
<1>2. w \in Seq(Word)
  BY MemoryAssumption DEF Word
<1>. HIDE DEF w
<1>3. p \o w \in Seq(Word) /\ p \o w # <<>> /\ (p \o w)[1] = p[1]
  BY <1>1, <1>2, ConcatFacts
<1>4. p \o w \in Path
  BY <1>1, <1>3 DEF Path, Word
<1>. QED
  BY <1>4 DEF w

LEMMA WithTyped ==
    ASSUME NEW s \in ScopeType, NEW P \in SUBSET Path, NEW t, t = With(s, P)
    PROVE  t \in ScopeType
<1>. DEFINE p == s.proven \cup P
<1>1. t = [s EXCEPT !.proven = p]
  BY DEF With
<1>2. p \in SUBSET Path
  BY ScopeFields
<1>. HIDE DEF p
<1>. QED
  BY <1>1, <1>2, WithProven

LEMMA CheckedTyped ==
    ASSUME NEW s \in ScopeType, NEW x \in Locals, NEW P \in SUBSET Path, NEW t, t = Checked(s, x, P)
    PROVE  t \in ScopeType
<1>. DEFINE q == [s.errProof EXCEPT ![x] = P]
<1>1. t = [s EXCEPT !.errProof = q]
  BY DEF Checked
<1>2. q \in ErrProofs
  BY ScopeFields DEF ErrProofs
<1>. HIDE DEF q
<1>. QED
  BY <1>1, <1>2, WithErrProofs

LEMMA RenamedTyped ==
    ASSUME NEW s \in ScopeType, NEW x \in Locals, NEW p \in Path, NEW t, t = Renamed(s, x, p)
    PROVE  t \in ScopeType
<1>. DEFINE a == [s.alias EXCEPT ![x] = p]
<1>1. t = [s EXCEPT !.alias = a]
  BY DEF Renamed
<1>2. a \in Aliases
  BY ScopeFields DEF Aliases
<1>. HIDE DEF a
<1>. QED
  BY <1>1, <1>2, WithAliases

LEMMA MarkNilTyped ==
    ASSUME NEW s \in ScopeType, NEW x \in Locals, NEW state \in NilState, NEW t, t = MarkNil(s, x, state)
    PROVE  t \in ScopeType
<1>. DEFINE q == [s.nilable EXCEPT ![x] = state]
<1>1. t = [s EXCEPT !.nilable = q]
  BY DEF MarkNil
<1>2. q \in NilStates
  BY ScopeFields DEF NilStates
<1>. HIDE DEF q
<1>. QED
  BY <1>1, <1>2, WithNilStates

LEMMA InvalidateTargetTyped ==
    ASSUME NEW s \in ScopeType, NEW lhs \in Expr, NEW t, t = InvalidateTarget(s, lhs)
    PROVE  t \in ScopeType
<1>1. CASE IsBare(lhs)
  <2>1. lhs[1] \in Locals /\ lhs \in Seq(Word) /\ Len(lhs) = 1
    BY <1>1, ExprParts DEF IsBare
  <2>2. lhs = <<lhs[1]>>
    BY <2>1
  <2>. QED
    BY <2>1, <2>2, InvalidateLocalFields
<1>2. CASE ~IsBare(lhs)
  <2>1. t = s \/ t = Invalidate(s, {Canonical(lhs, s.alias)})
    BY <1>2, Zenon DEF InvalidateTarget
  <2>. QED
    BY <2>1, InvalidateFields
<1>. QED
  BY <1>1, <1>2

LEMMA RecordTyped ==
    ASSUME NEW s \in ScopeType, NEW lhs \in Typed, NEW rhs, Assignable(lhs, rhs),
           NEW t, t = RecordAssignment(lhs, rhs, s)
    PROVE  t \in ScopeType
<1>. DEFINE x == lhs[1]  path == Canonical(lhs, s.alias)  e == rhs.e
            news == {path} \cup {path \o <<f>> : f \in rhs.set}
            proof == ValidatorProof(rhs, s)  state == NilOriginState(lhs, rhs, s)
<1>1. x \in Locals /\ path \in Path
  <2>1. lhs \in Path /\ x \in Locals
    BY DEF Typed, Expr, Path
  <2>. QED
    BY <2>1, CanonicalIsPath
<1>2. rhs.k \in {"path", "validate", "callif"} => e \in Path /\ e[1] \in Locals
  BY DEF Assignable, Typed, Expr, Path
<1>3. rhs.k = "new" => news \in SUBSET Path
  <2>1. rhs.k = "new" => rhs.set \subseteq Slots
    BY DEF Assignable
  <2>. HIDE DEF path
  <2>. QED
    BY <1>1, <2>1, PathExtends
<1>4. proof \in SUBSET Path
  <2>1. CASE rhs.k = "validate"
    <3>. DEFINE p == Canonical(e, s.alias)
    <3>1. p \in Path
      BY <1>2, <2>1, CanonicalIsPath
    <3>2. proof = {p \o <<f>> : f \in Validated}
      BY <2>1 DEF ValidatorProof
    <3>. HIDE DEF p
    <3>3. Validated \subseteq Slots
      BY MemoryAssumption
    <3>. QED
      BY <3>1, <3>2, <3>3, PathExtends
  <2>2. CASE rhs.k # "validate"
    BY <2>2 DEF ValidatorProof
  <2>. QED
    BY <2>1, <2>2
<1>5. state \in NilState
  <2>1. rhs.k = "path" => s.nilable[e[1]] \in NilState
    BY <1>2, ScopeFields DEF NilStates
  <2>2. state \in {"isNil", "typedNil", "maybeNil", "unknown"} \/ (rhs.k = "path" /\ state = s.nilable[e[1]])
    BY DEF NilOriginState
  <2>. QED
    BY <2>1, <2>2 DEF NilState
<1>6. rhs.k = "path" => Canonical(e, s.alias) \in Path
  BY <1>2, CanonicalIsPath
<1>7. \/ rhs.k = "new" /\ t = With(s, news)
      \/ t = s
      \/ t = Checked(s, x, proof)
      \/ t = MarkNil(s, x, state)
      \/ rhs.k = "path" /\ t = Renamed(s, x, Canonical(e, s.alias))
  BY Zenon DEF RecordAssignment, Checked, Renamed
<1>. HIDE DEF x, path, e, news, proof, state
<1>. QED
  BY <1>1, <1>3, <1>4, <1>5, <1>6, <1>7, WithTyped, CheckedTyped, MarkNilTyped, RenamedTyped

LEMMA ResultsTyped ==
    ASSUME NEW s \in ScopeType, NEW lhs \in Seq(LocalTargets), NEW nilable, NEW u, u = AssignResults(lhs, nilable, s)
    PROVE  u \in ScopeType
<1>. DEFINE t == InvalidateTargets(lhs, s)
            may(l) == \E i \in {j \in nilable \cap DOMAIN lhs : IsBare(lhs[j])} : lhs[i] = <<l>>
            q == [l \in Locals |-> IF may(l) THEN "maybeNil" ELSE t.nilable[l]]
<1>1. u = [t EXCEPT !.nilable = q]
  BY DEF AssignResults
<1>2. t \in ScopeType
  <2>1. PICK f \in [0..Len(lhs) -> ScopeType] :
           Unrolls(f, Len(lhs), s, TargetStep(lhs)) /\ InvalidateTargets(lhs, s) = f[Len(lhs)]
    BY TargetsUnroll
  <2>2. Len(lhs) \in 0..Len(lhs)
    OBVIOUS
  <2>. QED
    BY <2>1, <2>2
<1>3. \A l \in Locals : q[l] = IF may(l) THEN "maybeNil" ELSE t.nilable[l]
  OBVIOUS
<1>4. q = [l \in Locals |-> q[l]]
  OBVIOUS
<1>. HIDE DEF t, may, q
<1>5. q \in NilStates
  <2>1. t.nilable \in NilStates
    BY <1>2, ScopeFields
  <2>. QED
    BY <1>3, <1>4, <2>1 DEF NilStates, NilState
<1>. QED
  BY <1>1, <1>2, <1>5, WithNilStates

LEMMA EffectTyped ==
    ASSUME NEW s \in ScopeType, NEW st, IsStatement(st), NEW u, u = Effect(st, s)
    PROVE  u \in ScopeType
<1>1. CASE st.op = "set"
  <2>. DEFINE t == InvalidateTarget(s, st.lhs)
  <2>1. st.lhs \in Typed /\ Assignable(st.lhs, st.rhs) /\ st.lhs \in Expr
    BY <1>1 DEF IsStatement, Typed
  <2>2. u = RecordAssignment(st.lhs, st.rhs, t)
    BY <1>1 DEF Effect, Assign
  <2>3. t \in ScopeType
    BY <2>1, InvalidateTargetTyped
  <2>. HIDE DEF t
  <2>. QED
    BY <2>1, <2>2, <2>3, RecordTyped
<1>2. CASE st.op = "tuple"
  <2>1. st.lhs \in Seq(LocalTargets)
    BY <1>2 DEF IsStatement, LocalTargets
  <2>2. u = AssignResults(st.lhs, st.nilable, s)
    BY <1>2 DEF Effect
  <2>. QED
    BY <2>1, <2>2, ResultsTyped
<1>3. CASE st.op \in {"assert", "guard"}
  <2>1. st.c \in Conds
    BY <1>3 DEF IsStatement
  <2>2. PICK g \in [Conds -> Guards] : \A d \in Conds : NilGuards(d, s) = g[d] /\ GuardsOf(d, g, s, g[d])
    BY NilGuardsAre
  <2>3. NilGuards(st.c, s) \in Guards
    BY <2>1, <2>2
  <2>4. u = With(s, NilGuards(st.c, s).t) \/ u = With(s, NilGuards(st.c, s).f)
    BY <1>3, Zenon DEF Effect
  <2>. QED
    BY <2>3, <2>4, WithTyped DEF Guards
<1>4. CASE st.op = "addr"
  <2>. DEFINE q == [l \in Locals |-> IF l \in {st.x} THEN "unknown" ELSE s.nilable[l]]
  <2>1. u = [s EXCEPT !.nilable = q]
    BY <1>4 DEF Effect, DropNil
  <2>2. q \in NilStates
    BY ScopeFields DEF NilStates, NilState
  <2>. HIDE DEF q
  <2>. QED
    BY <2>1, <2>2, WithNilStates
<1>5. CASE st.op \in {"use", "skip"}
  BY <1>5 DEF Effect
<1>. QED
  BY <1>1, <1>2, <1>3, <1>4, <1>5 DEF IsStatement

-----------------------------------------------------------------------------
(* The start of a function body.                                           *)

\* Its declarations: they hold nil, and that is all that is known.
LEMMA DeclaredScope ==
    ASSUME NEW names \in SUBSET Locals, NEW u, u = VarDecl(NewScope, names)
    PROVE  /\ u \in ScopeType /\ u.proven = {}
           /\ \A l \in Locals : /\ u.alias[l] = NoPath /\ u.errProof[l] = {}
                                /\ u.nilable[l] = IF l \in names THEN "isNil" ELSE "unknown"
<1>. DEFINE s == NewScope
            a == [l \in Locals |-> IF l \in names THEN NoPath ELSE s.alias[l]]
            q == [l \in Locals |-> IF l \in names THEN {} ELSE s.errProof[l]]
            c == [s EXCEPT !.alias = a]
            d == [c EXCEPT !.errProof = q]
            P == {<<l>> : l \in names}
            i == Invalidate(d, P)
            n == [l \in Locals |-> IF l \in names THEN "isNil" ELSE i.nilable[l]]
<1>1. /\ s \in ScopeType /\ s.proven = {}
      /\ \A l \in Locals : s.alias[l] = NoPath /\ s.errProof[l] = {} /\ s.nilable[l] = "unknown"
  BY DEF NewScope, ScopeType, NilState
<1>2. u = [i EXCEPT !.nilable = n]
  BY DEF VarDecl
<1>3. a \in Aliases /\ \A l \in Locals : a[l] = NoPath
  BY <1>1 DEF Aliases
<1>4. q \in ErrProofs /\ \A l \in Locals : q[l] = {}
  BY <1>1 DEF ErrProofs
<1>. HIDE DEF s, a, q
<1>5. c \in ScopeType /\ c.proven = s.proven /\ c.alias = a /\ c.errProof = s.errProof /\ c.nilable = s.nilable
  BY <1>1, <1>3, WithAliases
<1>. HIDE DEF c
<1>6. d \in ScopeType /\ d.proven = s.proven /\ d.alias = a /\ d.errProof = q /\ d.nilable = s.nilable
  BY <1>4, <1>5, WithErrProofs
<1>. HIDE DEF d, P
<1>7. i \in ScopeType /\ Invalidated(d, P, i)
  BY <1>6, InvalidateFields
<1>. HIDE DEF i
<1>8. \A l \in Locals : n[l] = IF l \in names THEN "isNil" ELSE i.nilable[l]
  OBVIOUS
<1>9. n \in NilStates
  BY <1>7, ScopeFields DEF NilStates, NilState
<1>. HIDE DEF n
<1>10. u \in ScopeType /\ u.proven = i.proven /\ u.alias = i.alias /\ u.errProof = i.errProof /\ u.nilable = n
  BY <1>2, <1>7, <1>9, WithNilStates
<1>11. i.proven = {} /\ \A l \in Locals : i.alias[l] = NoPath /\ i.errProof[l] = {} /\ i.nilable[l] = "unknown"
  <2>1. /\ i.proven = {k \in d.proven : ~Falsified(P, k)}
        /\ \A l \in Locals :
              /\ i.alias[l] = IF Falsified(P, d.alias[l]) THEN NoPath ELSE d.alias[l]
              /\ i.errProof[l] = {k \in d.errProof[l] : ~Falsified(P, k)}
              /\ i.nilable[l] = IF <<l>> \in P THEN "unknown" ELSE d.nilable[l]
    BY <1>7 DEF Invalidated
  <2>2. d.proven = {} /\ \A l \in Locals : d.alias[l] = NoPath /\ d.errProof[l] = {} /\ d.nilable[l] = "unknown"
    BY <1>1, <1>3, <1>4, <1>6
  <2>3. i.proven = {}
    BY <2>1, <2>2
  <2>4. ASSUME NEW l \in Locals PROVE i.alias[l] = NoPath /\ i.nilable[l] = "unknown"
    BY <2>1, <2>2
  <2>5. ASSUME NEW l \in Locals PROVE i.errProof[l] = {}
    BY <2>1, <2>2
  <2>. QED
    BY <2>3, <2>4, <2>5
<1>. QED
  BY <1>8, <1>10, <1>11

LEMMA StartFits ==
    ASSUME NEW names \in SUBSET Locals, NEW u, u = VarDecl(NewScope, names),
           NEW m \in MemoryType, \A l \in Locals : m.env[l] \in ValuesOf(l) /\ (l \in names => m.env[l] = Nil),
           NEW n, n = Collect(m)
    PROVE  Fits(u, n)
<1>1. /\ u \in ScopeType /\ u.proven = {}
      /\ \A l \in Locals : /\ u.alias[l] = NoPath /\ u.errProof[l] = {}
                           /\ u.nilable[l] = IF l \in names THEN "isNil" ELSE "unknown"
  BY DeclaredScope
<1>2. n \in MemoryType /\ n.env = m.env
  BY CollectAgrees DEF Agrees
<1>3. Vouched(u.proven, u, n)
  BY <1>1 DEF Vouched
<1>4. ASSUME NEW l \in Locals PROVE AliasHolds(l, u, n) /\ ErrorHolds(l, u, n) /\ StateHolds(l, u, n)
  BY <1>1, <1>2 DEF AliasHolds, ErrorHolds, StateHolds
<1>. QED
  BY <1>1, <1>2, <1>3, <1>4 DEF Sound, Fits, Typings

-----------------------------------------------------------------------------
(* What follows from a scope that fits.                                    *)

LEMMA FitsProofs ==
    ASSUME Names \subseteq Expr, mem # Dead => Fits(sc, mem)
    PROVE  ProofsHold /\ NamesAgree /\ NilStatesHold /\ ErrorsVouch
<1>. SUFFICES ASSUME mem # Dead PROVE ProofsHold /\ NamesAgree /\ NilStatesHold /\ ErrorsVouch
  BY DEF ProofsHold, NamesAgree, NilStatesHold, ErrorsVouch
<1>1. Sound(sc, mem)
  BY DEF Fits
<1>2. \A e \in Names : Clear(Canonical(e, sc.alias), sc) /\ Meaning(Canonical(e, sc.alias), sc, mem) = Eval(e, mem)
  BY <1>1, SoundCanonical
<1>3. ProofsHold
  BY <1>1, <1>2 DEF ProofsHold, Sound, Vouched
<1>4. NamesAgree
  BY <1>2 DEF NamesAgree
<1>5. NilStatesHold
  BY <1>1 DEF NilStatesHold, Sound, StateHolds
<1>6. ErrorsVouch
  BY <1>1, <1>2 DEF ErrorsVouch, Sound, ErrorHolds
<1>. QED
  BY <1>3, <1>4, <1>5, <1>6

\* A fault is a path, and reported if it must be.
Reported(f) ==
    /\ f.base \in Path \cup {NoPath} /\ f.reported \in BOOLEAN
    /\ f.base # NoPath /\ (IsFieldPath(f.path) \/ IsStarPath(f.path))
          /\ (IsBare(f.base) \/ Last(f.base) \notin Exempt) => f.reported

\* So is one at a nil the function shows.
ShownFault(f) == f.visible => f.reported

LEMMA NoFaultReported == Reported(NoFault) /\ ShownFault(NoFault) /\ ~NoFault.visible
BY DEF Reported, ShownFault, NoFault

LEMMA FaultReported ==
    ASSUME NEW s, NEW m, Fits(s, m), NEW b, NEW checks, Caught(b, checks, s, m)
    PROVE  Reported(FaultAt(b, checks, s, m))
<1>. DEFINE f == FaultAt(b, checks, s, m)
            path == Canonical(b, s.alias)
<1>1. f.base = b /\ f.path = path /\ f.reported = (\E ch \in checks : ch.base = b /\ IsReported(ch, s))
  BY DEF FaultAt
<1>2. s \in ScopeType /\ m \in MemoryType /\ Sound(s, m)
  BY DEF Fits
<1>3. b \in Path
  BY DEF Caught, Expr
<1>4. (IsFieldPath(path) \/ IsStarPath(path)) /\ (IsBare(b) \/ Last(b) \notin Exempt)
         => \E ch \in checks : ch.base = b /\ IsReported(ch, s)
  BY <1>2, CaughtIsReported
<1>. HIDE DEF f, path
<1>5. Reported(f)
  BY <1>1, <1>3, <1>4 DEF Reported
<1>. QED
  BY <1>5 DEF f

-----------------------------------------------------------------------------
(* The nils the function shows.                                            *)

\* The locals that hold a nil it shows: they did before, or lhs is the one
\* that has just been assigned such a nil.
ShownAt(lhs, visible, m, n) ==
    \A l \in n.origin :
        /\ l \in Locals /\ n.env[l] \in {Nil, TypedNil}
        /\ IF IsBare(lhs) /\ l = lhs[1] THEN visible ELSE l \in m.origin

LEMMA CollectOrigin ==
    ASSUME NEW m \in MemoryType, NEW n, n = Collect(m)
    PROVE  n.origin \subseteq m.origin /\ \A l \in n.origin : l \in Locals /\ n.env[l] \in {Nil, TypedNil}
<1>. DEFINE h == [o \in Objects |-> IF o \in Kept(m) THEN m.heap[o] ELSE Blank]
            q == {l \in m.origin : m.env[l] \in {Nil, TypedNil}}
            b == [m EXCEPT !.heap = h]
<1>1. n = [b EXCEPT !.origin = q]
  BY DEF Collect, Kept
<1>2. h \in Heaps
  BY DEF Blank, MemoryType, Heaps
<1>3. q \subseteq m.origin /\ q \subseteq Locals /\ \A l \in q : m.env[l] \in {Nil, TypedNil}
  BY DEF MemoryType
<1>. HIDE DEF h, q
<1>4. b \in MemoryType /\ b.env = m.env
  BY <1>2, WithHeap
<1>. HIDE DEF b
<1>5. n.env = b.env /\ n.origin = q
  BY <1>1, <1>3, <1>4, WithOrigin
<1>. QED
  BY <1>3, <1>4, <1>5

LEMMA StoreShown ==
    ASSUME NEW m \in MemoryType, NEW b \in MemoryType, b.origin = m.origin, Agrees(m, b),
           NEW lhs \in Expr, Ready(lhs, m), NEW v \in Value, IsBare(lhs) \/ v \in Objects \cup {Nil},
           NEW visible \in BOOLEAN, NEW n, n = Store(lhs, v, visible, b)
    PROVE  ShownAt(lhs, visible, m, n)
<1>1. CASE IsBare(lhs)
  <2>. DEFINE x == lhs[1]
              e == [b.env EXCEPT ![x] = v]
              q == IF visible THEN b.origin \cup {x} ELSE b.origin \ {x}
              c == [b EXCEPT !.env = e]
              d == [c EXCEPT !.origin = q]
  <2>1. n = Collect(d)
    BY <1>1 DEF Store
  <2>2. x \in Locals
    BY ExprParts
  <2>3. e \in Envs /\ b.origin \subseteq Locals
    BY DEF MemoryType, Envs
  <2>4. q \subseteq Locals /\ \A l \in q : IF l = x THEN visible ELSE l \in m.origin
    BY <2>2, <2>3
  <2>. HIDE DEF e, q
  <2>5. c \in MemoryType
    BY <2>3, WithLocals
  <2>. HIDE DEF c
  <2>6. d \in MemoryType /\ d.origin = q
    BY <2>4, <2>5, WithOrigin
  <2>. HIDE DEF d
  <2>7. n.origin \subseteq q /\ \A l \in n.origin : l \in Locals /\ n.env[l] \in {Nil, TypedNil}
    BY <2>1, <2>6, CollectOrigin
  <2>. QED
    BY <1>1, <2>4, <2>7 DEF ShownAt
<1>2. CASE ~IsBare(lhs)
  <2>. DEFINE a == Eval(Front(lhs), b)  s == Last(lhs)
              h == [b.heap EXCEPT ![a][s] = v]
              d == [b EXCEPT !.heap = h]
  <2>1. n = Collect(d)
    BY <1>2 DEF Store
  <2>2. h \in Heaps
    BY <1>2 DEF Heaps, MemoryType
  <2>. HIDE DEF h
  <2>3. d \in MemoryType /\ d.origin = m.origin
    BY <2>2, WithHeap
  <2>. HIDE DEF d
  <2>4. n.origin \subseteq d.origin /\ \A l \in n.origin : l \in Locals /\ n.env[l] \in {Nil, TypedNil}
    BY <2>1, <2>3, CollectOrigin
  <2>. QED
    BY <1>2, <2>3, <2>4 DEF ShownAt
<1>. QED
  BY <1>1, <1>2

LEMMA AllocatedShown ==
    ASSUME NEW m \in MemoryType, NEW lhs \in Expr, Ready(lhs, m), NEW set, set \subseteq Slots,
           NEW n, n \in Allocated(lhs, set, m)
    PROVE  ShownAt(lhs, FALSE, m, n)
<1>. DEFINE heap(new) == [o \in Objects |-> IF o = new[1] THEN [s \in Slots |-> IF s \in set THEN new[2][s] ELSE Nil]
                                            ELSE m.heap[o]]
<1>1. PICK new \in Fresh(m) \X [set -> Fresh(m)] : n = Store(lhs, new[1], FALSE, [m EXCEPT !.heap = heap(new)])
  BY DEF Allocated
<1>. DEFINE v == new[1]  h == heap(new)  b == [m EXCEPT !.heap = h]
<1>2. v \in Objects \ Kept(m) /\ new[2] \in [set -> Objects \ Kept(m)]
  BY <1>1, FreshFacts
<1>3. h \in Heaps
  BY <1>2 DEF Heaps, MemoryType
<1>4. \A o \in Kept(m) : h[o] = m.heap[o]
  BY <1>2, KeptIsClosed
<1>6. n = Store(lhs, v, FALSE, b)
  BY <1>1
<1>. HIDE DEF v, h
<1>7. b \in MemoryType /\ Agrees(m, b)
  BY <1>3, <1>4, FreshIsUnseen
<1>8. b.origin = m.origin
  BY <1>3, WithHeap
<1>. HIDE DEF b
<1>9. v \in Value
  BY <1>2 DEF Value
<1>. QED
  BY <1>2, <1>6, <1>7, <1>8, <1>9, StoreShown

LEMMA ReturnedShown ==
    ASSUME NEW m \in MemoryType, NEW lhs \in Expr, Ready(lhs, m), NEW values, values \subseteq Value,
           IsBare(lhs) \/ values \subseteq Objects \cup {Nil}, NEW visible \in BOOLEAN,
           NEW n, n \in Returned(lhs, values, visible, m)
    PROVE  ShownAt(lhs, visible, m, n)
<1>. DEFINE got(v, new) == Store(lhs, v, visible /\ v = Nil,
                   [m EXCEPT !.heap = [o \in Objects |-> IF o = v /\ v \in Fresh(m) THEN new ELSE @[o]]])
            blanks == [Slots -> (Objects \ Fresh(m)) \cup {Nil}]
<1>0. Returned(lhs, values, visible, m) = {got(v, new) : v \in values, new \in blanks}
  BY DEF Returned
<1>. HIDE DEF got
<1>1. PICK v \in values, new \in blanks : n = got(v, new)
  BY <1>0
<1>. DEFINE h == [o \in Objects |-> IF o = v /\ v \in Fresh(m) THEN new ELSE m.heap[o]]
            b == [m EXCEPT !.heap = h]
            shown == visible /\ v = Nil
<1>2. h \in Heaps
  BY DEF Heaps, MemoryType
<1>3. \A o \in Kept(m) : h[o] = m.heap[o]
  BY FreshFacts, KeptIsClosed
<1>4. n = Store(lhs, v, shown, b)
  BY <1>1 DEF got
<1>. HIDE DEF h
<1>5. b \in MemoryType /\ Agrees(m, b)
  BY <1>2, <1>3, FreshIsUnseen
<1>8. b.origin = m.origin
  BY <1>2, WithHeap
<1>6. v \in Value /\ (IsBare(lhs) \/ v \in Objects \cup {Nil}) /\ shown \in BOOLEAN /\ (shown => visible)
  OBVIOUS
<1>. HIDE DEF b, shown
<1>7. ShownAt(lhs, shown, m, n)
  BY <1>4, <1>5, <1>6, <1>8, StoreShown
<1>. QED
  BY <1>6, <1>7 DEF ShownAt

\* Whether rhs may be a nil the function shows.
MayShow(rhs, m) == rhs.k \in {"nil", "element", "callif"} \/ (rhs.k = "path" /\ rhs.e[1] \in m.origin)

LEMMA AssignedShown ==
    ASSUME NEW m \in MemoryType, Typings(m), NEW lhs \in Typed, NEW rhs, Assignable(lhs, rhs), Ready(lhs, m),
           NEW n, n \in Assigned(lhs, rhs, m)
    PROVE  ShownAt(lhs, MayShow(rhs, m), m, n)
<1>1. lhs \in Expr
  BY DEF Typed
<1>2. /\ ResultsFor(lhs) \subseteq Value /\ (IsBare(lhs) \/ ResultsFor(lhs) \subseteq Objects \cup {Nil})
      /\ Nil \in ResultsFor(lhs)
      /\ TypeOf(lhs) = "error" => IsBare(lhs) /\ ResultsFor(lhs) = {Nil, ErrVal}
      /\ TypeOf(lhs) = "interface" => IsBare(lhs) /\ ResultsFor(lhs) = Objects \cup {Nil, TypedNil}
      /\ TypeOf(lhs) = "pointer" => ResultsFor(lhs) = Objects \cup {Nil}
      /\ TypeOf(lhs) \in {"error", "interface", "pointer"}
  BY ResultsForTypes
<1>3. Agrees(m, m)
  BY DEF Agrees
<1>4. \A v \in ResultsFor(lhs), visible \in BOOLEAN : n = Store(lhs, v, visible, m) => ShownAt(lhs, visible, m, n)
  BY <1>1, <1>2, <1>3, StoreShown
<1>5. CASE rhs.k = "nil"
  <2>1. n = Store(lhs, Nil, TRUE, m)
    BY <1>5, Zenon DEF Assigned
  <2>2. ShownAt(lhs, TRUE, m, n)
    BY <1>2, <1>4, <2>1
  <2>. QED
    BY <1>5, <2>2 DEF ShownAt, MayShow
<1>6. CASE rhs.k = "new"
  <2>1. n \in Allocated(lhs, rhs.set, m)
    BY <1>6, Zenon DEF Assigned
  <2>2. rhs.set \subseteq Slots
    BY <1>6 DEF Assignable
  <2>3. ShownAt(lhs, FALSE, m, n)
    BY <1>1, <2>1, <2>2, AllocatedShown
  <2>. QED
    BY <2>3 DEF ShownAt
<1>7. CASE rhs.k = "path"
  <2>. DEFINE v == Converted(lhs, rhs.e, m)  shown == rhs.e[1] \in m.origin
  <2>1. n = Store(lhs, v, shown, m)
    BY <1>7, Zenon DEF Assigned
  <2>2. v \in ResultsFor(lhs)
    BY <1>7, PathGets
  <2>3. shown \in BOOLEAN
    OBVIOUS
  <2>. HIDE DEF v, shown
  <2>4. ShownAt(lhs, shown, m, n)
    BY <1>4, <2>1, <2>2, <2>3
  <2>. QED
    BY <1>7, <2>4 DEF ShownAt, MayShow, shown
<1>8. CASE rhs.k \in {"call", "element"}
  <2>. DEFINE visible == rhs.k = "element"
  <2>1. n \in Returned(lhs, ResultsFor(lhs), visible, m)
    <3>1. CASE rhs.k = "call"
      <4>1. n \in Returned(lhs, ResultsFor(lhs), FALSE, m)
        BY <3>1, Zenon DEF Assigned
      <4>2. visible = FALSE
        BY <3>1
      <4>. QED
        BY <4>1, <4>2
    <3>2. CASE rhs.k = "element"
      <4>1. n \in Returned(lhs, ResultsFor(lhs), TRUE, m)
        BY <3>2, Zenon DEF Assigned
      <4>2. visible = TRUE
        BY <3>2
      <4>. QED
        BY <4>1, <4>2
    <3>. QED
      BY <1>8, <3>1, <3>2
  <2>2. visible \in BOOLEAN
    OBVIOUS
  <2>. HIDE DEF visible
  <2>3. ShownAt(lhs, visible, m, n)
    BY <1>1, <1>2, <2>1, <2>2, ReturnedShown
  <2>. QED
    BY <2>3 DEF ShownAt, MayShow, visible
<1>9. CASE rhs.k = "callif"
  <2>. DEFINE values == Objects \cup IF Eval(rhs.e, m) = Nil THEN {Nil} ELSE {}
  <2>1. n \in Returned(lhs, values, TRUE, m)
    BY <1>9, Zenon DEF Assigned
  <2>2. TypeOf(lhs) # "error"
    BY <1>9 DEF Assignable
  <2>4. values \subseteq Value /\ (IsBare(lhs) \/ values \subseteq Objects \cup {Nil})
    BY <1>2, <2>2
  <2>. HIDE DEF values
  <2>5. ShownAt(lhs, TRUE, m, n)
    BY <1>1, <2>1, <2>4, ReturnedShown
  <2>. QED
    BY <1>9, <2>5 DEF ShownAt, MayShow
<1>10. CASE rhs.k = "validate"
  <2>1. PICK v \in {ErrVal} \cup IF \A f \in Validated : Eval(rhs.e \o <<f>>, m) # Nil THEN {Nil} ELSE {} :
           n = Store(lhs, v, FALSE, m)
    BY <1>10, Zenon DEF Assigned
  <2>2. TypeOf(lhs) = "error"
    BY <1>10 DEF Assignable
  <2>3. v \in ResultsFor(lhs)
    BY <1>2, <2>1, <2>2
  <2>4. ShownAt(lhs, FALSE, m, n)
    BY <1>4, <2>1, <2>3
  <2>. QED
    BY <2>4 DEF ShownAt
<1>. QED
  BY <1>5, <1>6, <1>7, <1>8, <1>9, <1>10 DEF Assignable

\* What the walk knows of a local that holds such a nil: not where it comes from,
\* but that it is one.
Flagged(l, s, m) ==
    /\ l \in Locals /\ s.alias[l] = NoPath /\ s.nilable[l] # "unknown" /\ m.env[l] \in {Nil, TypedNil}
    /\ m.env[l] = TypedNil => <<l>> \notin s.proven

Shown(s, m) == \A l \in m.origin : Flagged(l, s, m)

LEMMA StillFlagged ==
    ASSUME NEW s \in ScopeType, NEW x \in Locals, NEW t, t = InvalidateTarget(s, <<x>>),
           NEW l, l # x, NEW m, Flagged(l, s, m), NEW n, n.env[l] = m.env[l]
    PROVE  Flagged(l, t, n)
<1>1. l \in Locals \ {x} /\ s.alias[l] = NoPath
  BY DEF Flagged
<1>2. t.proven \subseteq s.proven /\ t.alias[l] = NoPath /\ t.nilable[l] = s.nilable[l]
  BY <1>1, InvalidateLocalFields
<1>. QED
  BY <1>2 DEF Flagged

\* The paths of a new object are longer than any other local.
LEMMA NewPathsLonger ==
    ASSUME NEW s \in ScopeType, NEW lhs \in Expr, IsBare(lhs) => s.alias[lhs[1]] = NoPath,
           NEW set, set \subseteq Slots, NEW l \in Locals, <<l>> \in NewPaths(lhs, set, s)
    PROVE  IsBare(lhs) /\ l = lhs[1]
<1>. DEFINE a == s.alias[lhs[1]]  w == Tail(lhs)  p == Canonical(lhs, s.alias)  q == <<l>>
<1>0. q \in Seq(Word) /\ Len(q) = 1 /\ q[1] = l
  BY DEF Word
<1>1. lhs \in Seq(Word) /\ lhs[1] \in Locals /\ Len(lhs) \in Nat /\ Len(lhs) >= 1 /\ w \in Seq(Slots) /\ Len(w) = Len(lhs) - 1
  BY ExprParts
<1>2. a \in Path \cup {NoPath}
  BY <1>1, ScopeFields DEF Aliases
<1>3. q = p \/ \E f \in set : q = p \o <<f>>
  BY DEF NewPaths
<1>4. p \in Seq(Word) /\ p # <<>>
  <2>1. lhs \in Path
    BY DEF Expr
  <2>. QED
    BY <2>1, CanonicalIsPath DEF Path, Word
<1>. HIDE DEF q
<1>5. q = p
  <2>. SUFFICES ASSUME NEW f \in set, q = p \o <<f>> PROVE FALSE
    BY <1>3
  <2>1. <<f>> \in Seq(Word) /\ Len(<<f>>) = 1
    BY SlotsAreWords
  <2>. HIDE DEF p
  <2>2. Len(p \o <<f>>) = Len(p) + Len(<<f>>) /\ Len(p) \in Nat /\ Len(p) > 0
    BY <1>4, <2>1, ConcatFacts
  <2>. QED
    BY <1>0, <2>1, <2>2
<1>6. CASE a = NoPath
  <2>1. p = lhs
    BY <1>6, Zenon DEF Canonical
  <2>. QED
    BY <1>0, <1>5, <2>1 DEF IsBare
<1>7. CASE a # NoPath
  <2>1. p = a \o w
    BY <1>7, Zenon DEF Canonical
  <2>2. a \in Seq(Word) /\ a # <<>>
    BY <1>2, <1>7 DEF Path, Word
  <2>3. w \in Seq(Word)
    BY <1>1, SlotsAreWords
  <2>4. Len(lhs) # 1
    BY <1>7 DEF IsBare
  <2>. HIDE DEF a, w, p
  <2>5. Len(a \o w) = Len(a) + Len(w) /\ Len(a) \in Nat /\ Len(a) > 0
    BY <2>2, <2>3, ConcatFacts
  <2>6. Len(a \o w) # 1
    BY <1>1, <2>4, <2>5
  <2>. QED
    BY <1>0, <1>5, <2>1, <2>6
<1>. QED
  BY <1>6, <1>7

\* What is recorded of a target is recorded of no other local.
LEMMA RecordedApart ==
    ASSUME NEW s \in ScopeType, NEW lhs \in Typed, IsBare(lhs) => s.alias[lhs[1]] = NoPath,
           NEW rhs, Assignable(lhs, rhs), NEW t, t = RecordAssignment(lhs, rhs, s),
           NEW l, IsBare(lhs) => l # lhs[1], NEW m, Flagged(l, s, m)
    PROVE  Flagged(l, t, m)
<1>. DEFINE x == lhs[1]  p == Canonical(rhs.e, s.alias)
            proof == ValidatorProof(rhs, s)  state == NilOriginState(lhs, rhs, s)
<1>0. l \in Locals /\ lhs \in Expr
  BY DEF Flagged, Typed
<1>1. \/ rhs.k = "new" /\ t = With(s, NewPaths(lhs, rhs.set, s))
      \/ t = s
      \/ IsBare(lhs) /\ t = Checked(s, x, proof)
      \/ IsBare(lhs) /\ t = MarkNil(s, x, state)
      \/ IsBare(lhs) /\ t = Renamed(s, x, p)
  BY Zenon DEF RecordAssignment, Checked, Renamed, NewPaths
<1>. HIDE DEF proof, state, p
<1>2. CASE rhs.k = "new" /\ t = With(s, NewPaths(lhs, rhs.set, s))
  <2>. DEFINE news == NewPaths(lhs, rhs.set, s)
  <2>1. rhs.set \subseteq Slots
    BY <1>2 DEF Assignable
  <2>2. <<l>> \notin news
    BY <1>0, <2>1, NewPathsLonger
  <2>. HIDE DEF news
  <2>3. t = [s EXCEPT !.proven = s.proven \cup news]
    BY <1>2 DEF With, news
  <2>4. t.proven = s.proven \cup news /\ t.alias = s.alias /\ t.nilable = s.nilable
    BY <2>3 DEF ScopeType
  <2>. QED
    BY <2>2, <2>4 DEF Flagged
<1>3. CASE t = s
  BY <1>3
<1>4. CASE IsBare(lhs) /\ t = Checked(s, x, proof)
  <2>1. t.proven = s.proven /\ t.alias = s.alias /\ t.nilable = s.nilable
    BY <1>4 DEF Checked, ScopeType
  <2>. QED
    BY <2>1 DEF Flagged
<1>5. CASE IsBare(lhs) /\ t = MarkNil(s, x, state)
  <2>1. t.proven = s.proven /\ t.alias = s.alias /\ t.nilable = [s.nilable EXCEPT ![x] = state]
    BY <1>5 DEF MarkNil, ScopeType
  <2>2. l # x
    BY <1>5
  <2>3. t.nilable[l] = s.nilable[l]
    BY <1>0, <2>1, <2>2 DEF ScopeType
  <2>. QED
    BY <2>1, <2>3 DEF Flagged
<1>6. CASE IsBare(lhs) /\ t = Renamed(s, x, p)
  <2>1. t.proven = s.proven /\ t.nilable = s.nilable /\ t.alias = [s.alias EXCEPT ![x] = p]
    BY <1>6 DEF Renamed, ScopeType
  <2>2. l # x
    BY <1>6
  <2>3. t.alias[l] = s.alias[l]
    BY <1>0, <2>1, <2>2 DEF ScopeType
  <2>. QED
    BY <2>1, <2>3 DEF Flagged
<1>. QED
  BY <1>1, <1>2, <1>3, <1>4, <1>5, <1>6

\* What is read through is not nil.
LEMMA RhsReached ==
    ASSUME NEW s, NEW m, NEW st, IsStatement(st), st.op = "set", st.rhs.k = "path", Faults(st, s, m) = {}
    PROVE  \A b \in Proper(st.rhs.e) : ~Faulty(b, m)
<1>. DEFINE checks == StmtChecks(st, s)
            bases == {ch.base : ch \in {c \in checks : ~c.safe}}
<1>1. PlainChecks(checks)
  BY StatementChecksArePlain
<1>2. FirstFaults(bases, m) = {}
  BY DEF Faults
<1>3. Checks(Proper(st.rhs.e), {}) \subseteq checks
  BY DEF StmtChecks, RhsChecks
<1>4. Proper(st.rhs.e) \subseteq bases
  <2>. SUFFICES ASSUME NEW b \in Proper(st.rhs.e) PROVE b \in bases
    OBVIOUS
  <2>. DEFINE ch == [base |-> b, extra |-> {}, safe |-> FALSE]
  <2>1. ch \in Checks(Proper(st.rhs.e), {}) /\ ch.base = b /\ ~ch.safe
    BY DEF Checks
  <2>. HIDE DEF ch, checks
  <2>2. ch \in {c \in checks : ~c.safe} /\ ch.base = b
    BY <1>3, <2>1
  <2>. QED
    BY <2>2
<1>5. bases \in SUBSET Expr
  <2>. HIDE DEF checks
  <2>. QED
    BY <1>1 DEF PlainChecks, Check
<1>. HIDE DEF bases
<1>. QED
  BY <1>2, <1>4, <1>5, NoFirstFault

\* So what is read from a local that is nil is that local.
LEMMA NilIsReadBare ==
    ASSUME NEW m, NEW e \in Expr, \A b \in Proper(e) : ~Faulty(b, m), m.env[e[1]] \in {Nil, TypedNil}
    PROVE  IsBare(e)
<1>. DEFINE n == Len(e)  v == SubSeq(e, 1, 1)
<1>1. e \in Seq(Word) /\ e[1] \in Locals /\ n \in Nat /\ n >= 1
  BY ExprParts
<1>. SUFFICES ASSUME n # 1 PROVE FALSE
  BY DEF IsBare
<1>2. v \in Seq(Word) /\ Len(v) = 1 /\ v[1] = e[1]
  BY <1>1
<1>3. v \in Proper(e)
  <2>. HIDE DEF n, v
  <2>1. 1 \in 1..n - 1
    BY <1>1
  <2>. QED
    BY <2>1, ThroughParts DEF n, v
<1>4. v = <<e[1]>>
  <2>. HIDE DEF v
  <2>. QED
    BY <1>2
<1>. HIDE DEF n, v
<1>5. Eval(<<e[1]>>, m) = m.env[e[1]]
  BY <1>1, LocalIsExpr, EvalFromEmpty DEF Eval
<1>. QED
  BY <1>3, <1>4, <1>5 DEF Faulty

\* A target that is assigned a nil the function shows is recorded to be nil.
LEMMA StateKnown ==
    ASSUME NEW s, NEW m, Shown(s, m), NEW x \in Locals, NEW t \in ScopeType, Sound(t, m),
           \A l \in Locals \ {x} : t.nilable[l] = s.nilable[l],
           NEW lhs, NEW rhs, Assignable(lhs, rhs), rhs.k = "path" => rhs.e # <<x>>, MayShow(rhs, m),
           rhs.k = "path" => \A b \in Proper(rhs.e) : ~Faulty(b, m),
           rhs.k = "callif" => Eval(rhs.e, m) = Nil
    PROVE  NilOriginState(lhs, rhs, t) # "unknown"
<1>. DEFINE state == NilOriginState(lhs, rhs, t)
<1>1. CASE rhs.k = "nil"
  <2>1. state = "isNil"
    BY <1>1, Zenon DEF NilOriginState
  <2>. QED
    BY <2>1
<1>2. CASE rhs.k = "element"
  <2>1. state = "maybeNil"
    BY <1>2, Zenon DEF NilOriginState
  <2>. QED
    BY <2>1
<1>3. CASE rhs.k = "callif"
  <2>1. rhs.e \in Expr
    BY <1>3 DEF Assignable, Typed
  <2>2. Meaning(Canonical(rhs.e, t.alias), t, m) = Nil
    BY <1>3, <2>1, SoundCanonical
  <2>3. Canonical(rhs.e, t.alias) \notin t.proven
    BY <2>2 DEF Sound, Vouched
  <2>4. state = "maybeNil"
    BY <1>3, <2>3, Zenon DEF NilOriginState
  <2>. QED
    BY <2>4
<1>4. CASE rhs.k = "path"
  <2>. DEFINE e == rhs.e  y == e[1]
  <2>1. e \in Expr /\ y \in m.origin
    BY <1>4 DEF Assignable, Typed, MayShow
  <2>2. y \in Locals /\ s.nilable[y] # "unknown" /\ m.env[y] \in {Nil, TypedNil}
    BY <2>1 DEF Shown, Flagged
  <2>3. IsBare(e)
    BY <1>4, <2>1, <2>2, NilIsReadBare
  <2>4. y # x
    <3>1. e \in Seq(Word) /\ Len(e) = 1
      BY <2>1, <2>3, ExprParts DEF IsBare
    <3>2. e = <<y>>
      BY <3>1
    <3>. QED
      BY <1>4, <3>2
  <2>5. t.nilable[y] # "unknown"
    BY <2>2, <2>4
  <2>6. state = IF t.nilable[y] = "isNil" /\ lhs[1] \in Ifaces /\ y \notin Ifaces THEN "typedNil" ELSE t.nilable[y]
    <3>1. rhs.k # "nil"
      BY <1>4
    <3>. QED
      BY <1>4, <2>3, <3>1, Zenon DEF NilOriginState
  <2>. HIDE DEF e, y, state
  <2>. QED
    BY <2>5, <2>6 DEF state
<1>. QED
  BY <1>1, <1>2, <1>3, <1>4 DEF MayShow

LEMMA SetShown ==
    ASSUME Wild = {}, NEW s, NEW m, Fits(s, m), m # Dead, Shown(s, m), NEW st, IsStatement(st), st.op = "set",
           Follows(st, s, m), NEW n, n \in After(st, s, m),
           NEW u, u = Effect(st, s)
    PROVE  Shown(u, n)
<1>. DEFINE lhs == st.lhs  rhs == st.rhs
<1>1. s \in ScopeType /\ m \in MemoryType /\ Typings(m) /\ Sound(s, m)
  BY DEF Fits
<1>2. lhs \in Typed /\ Assignable(lhs, rhs) /\ lhs \in Expr
  BY DEF IsStatement, Typed
<1>3. Faults(st, s, m) = {} /\ n \in Assigned(lhs, rhs, m)
  BY DEF After
<1>4. u = Assign(lhs, rhs, s)
  BY DEF Effect
<1>5. Stars(lhs, s)
  <2>1. lhs \in Targets(st)
    BY DEF Targets
  <2>. QED
    BY <2>1, FollowsTargets
<1>6. rhs.k = "path" => rhs.e # lhs
  BY Zenon DEF Follows
<1>7. \A b \in Proper(lhs) : ~Faulty(b, m)
  BY <1>3, SetReached
<1>8. rhs.k = "path" => \A b \in Proper(rhs.e) : ~Faulty(b, m)
  BY <1>3, RhsReached
<1>. HIDE DEF lhs, rhs
<1>9. Ready(lhs, m)
  BY <1>1, <1>2, <1>7, ReadyWhenReached
<1>10. PICK v \in ResultsFor(lhs) : Gets(lhs, rhs, v, m, n) /\ Stores(lhs, v, m, n)
  BY <1>1, <1>2, <1>3, <1>9, AssignedWritten
<1>11. ShownAt(lhs, MayShow(rhs, m), m, n)
  BY <1>1, <1>2, <1>3, <1>9, AssignedShown
<1>. DEFINE t == InvalidateTarget(s, lhs)
<1>12. u = RecordAssignment(lhs, rhs, t)
  BY <1>4 DEF Assign
<1>13. CASE IsBare(lhs)
  <2>1. PICK x : x \in Locals /\ lhs = <<x>>
    <3>1. lhs[1] \in Locals /\ lhs \in Seq(Word) /\ Len(lhs) = 1
      BY <1>2, <1>13, ExprParts DEF IsBare
    <3>2. lhs = <<lhs[1]>>
      BY <3>1
    <3>. QED
      BY <3>1, <3>2
  <2>2. \A k : Knows(s, k) /\ k[1] = x => AtOrUnder(<<x>>, k)
    BY <1>1, <1>5, <2>1, LocalDiscipline
  <2>3. t = InvalidateTarget(s, <<x>>) /\ lhs[1] = x
    BY <2>1
  <2>. HIDE DEF t
  <2>4. t \in ScopeType /\ Sound(t, m) /\ \A l \in Locals \ {x} : t.nilable[l] = s.nilable[l]
    BY <1>1, <2>1, <2>2, <2>3, InvalidateLocalSound
  <2>5. t.alias[x] = NoPath /\ <<x>> \notin t.proven
    BY <1>1, <2>1, <2>3, InvalidateLocalFields DEF AtOrUnder
  <2>6. n.env = [m.env EXCEPT ![x] = v] /\ m.env \in [Locals -> Value]
    BY <1>1, <1>10, <1>13, <2>3 DEF Stores, MemoryType
  <2>7. ASSUME NEW l \in n.origin, l # x PROVE Flagged(l, u, n)
    <3>1. l \in m.origin /\ l \in Locals
      BY <1>11, <2>3, <2>7 DEF ShownAt
    <3>2. Flagged(l, s, m) /\ n.env[l] = m.env[l]
      BY <2>6, <2>7, <3>1 DEF Shown
    <3>3. Flagged(l, t, n)
      BY <1>1, <2>1, <2>3, <2>7, <3>2, StillFlagged
    <3>. QED
      BY <1>2, <1>12, <2>3, <2>4, <2>5, <2>7, <3>3, RecordedApart
  <2>8. ASSUME x \in n.origin PROVE Flagged(x, u, n)
    <3>. DEFINE state == NilOriginState(lhs, rhs, t)
    <3>1. MayShow(rhs, m) /\ n.env[x] \in {Nil, TypedNil} /\ n.env[x] = v
      BY <1>11, <1>13, <2>1, <2>3, <2>6, <2>8 DEF ShownAt
    <3>2. rhs.k = "callif" => Eval(rhs.e, m) = Nil
      BY <1>10, <3>1, MemoryAssumption DEF Gets
    <3>3. rhs.k = "path" => rhs.e # <<x>>
      BY <1>6, <2>1
    <3>4. state # "unknown"
      BY <1>2, <1>8, <2>1, <2>4, <3>1, <3>2, <3>3, StateKnown
    <3>5. rhs.k # "new" /\ rhs.k # "validate"
      BY <3>1 DEF MayShow
    <3>6. ValidatorProof(rhs, t) = {}
      BY <3>5 DEF ValidatorProof
    <3>7. u = MarkNil(t, x, state)
      BY <1>12, <1>13, <2>3, <3>4, <3>5, <3>6, Zenon DEF RecordAssignment
    <3>. HIDE DEF state
    <3>8. u.alias = t.alias /\ u.proven = t.proven /\ u.nilable[x] = state
      BY <2>1, <2>4, <3>7 DEF MarkNil, ScopeType
    <3>. QED
      BY <2>1, <2>5, <3>1, <3>4, <3>8 DEF Flagged
  <2>. QED
    BY <2>7, <2>8 DEF Shown
<1>14. CASE ~IsBare(lhs)
  <2>1. n.env = m.env
    BY <1>10, <1>14 DEF Stores
  <2>2. t \in ScopeType
    BY <1>1, <1>2, InvalidateTargetTyped
  <2>3. ASSUME NEW l \in m.origin PROVE Flagged(l, t, n)
    <3>1. Flagged(l, s, m) /\ l \in Locals
      BY DEF Shown, Flagged
    <3>2. CASE t = s
      BY <2>1, <3>1, <3>2 DEF Flagged
    <3>3. CASE t = Invalidate(s, {Canonical(lhs, s.alias)})
      <4>. DEFINE P == {Canonical(lhs, s.alias)}
      <4>1. Canonical(lhs, s.alias) # <<l>>
        <5>1. Canonical(lhs, s.alias) = Root(lhs[1], s) \o Tail(lhs)
          BY <1>1, <1>2, SoundCanonical
        <5>2. Root(lhs[1], s) \in Seq(Word) /\ Root(lhs[1], s) # <<>>
          <6>1. AliasesClear(s) /\ lhs[1] \in Locals
            BY <1>1, <1>2, SoundClear, ExprParts
          <6>. QED
            BY <6>1, RootIsExpr, ExprParts
        <5>3. Tail(lhs) \in Seq(Word) /\ Len(Tail(lhs)) = Len(lhs) - 1 /\ Len(lhs) \in Nat /\ Len(lhs) >= 1 /\ Len(lhs) # 1
          BY <1>2, <1>14, ExprParts, SlotsAreWords DEF IsBare
        <5>. DEFINE r == Root(lhs[1], s)  w == Tail(lhs)
        <5>4. Len(<<l>>) = 1
          OBVIOUS
        <5>. HIDE DEF r, w
        <5>5. Len(r \o w) = Len(r) + Len(w) /\ Len(r) \in Nat /\ Len(r) > 0
          BY <5>2, <5>3, ConcatFacts DEF r, w
        <5>6. Len(r \o w) # 1
          BY <5>3, <5>5 DEF w
        <5>. QED
          BY <5>1, <5>4, <5>6 DEF r, w
      <4>2. <<l>> \notin P
        BY <4>1
      <4>3. t = Invalidate(s, P)
        BY <3>3
      <4>. HIDE DEF P, t
      <4>4. Invalidated(s, P, t)
        BY <1>1, <4>3, InvalidateFields
      <4>5. t.proven \subseteq s.proven /\ t.alias[l] = NoPath /\ t.nilable[l] = s.nilable[l]
        BY <3>1, <4>2, <4>4 DEF Invalidated, Flagged
      <4>. QED
        BY <2>1, <3>1, <4>5 DEF Flagged
    <3>4. t = s \/ t = Invalidate(s, {Canonical(lhs, s.alias)})
      BY <1>14, Zenon DEF InvalidateTarget
    <3>. QED
      BY <3>2, <3>3, <3>4
  <2>. HIDE DEF t
  <2>4. ASSUME NEW l \in n.origin PROVE Flagged(l, u, n)
    <3>1. l \in m.origin
      BY <1>11, <1>14 DEF ShownAt
    <3>2. Flagged(l, t, n)
      BY <2>3, <3>1
    <3>. QED
      BY <1>2, <1>12, <1>14, <2>2, <3>2, RecordedApart
  <2>. QED
    BY <2>4 DEF Shown
<1>. QED
  BY <1>13, <1>14

\* Of the targets of one call, those up to the i-th may be left with a nil.
Marked(l, lhs, nilable, i) == \E j \in nilable : j \in 1..i /\ lhs[j] = <<l>>

HoldsShown(l, s, m) ==
    /\ l \in Locals /\ s.alias[l] = NoPath /\ m.env[l] \in {Nil, TypedNil}
    /\ m.env[l] = TypedNil => <<l>> \notin s.proven

ShownSoFar(s, m, lhs, nilable, i) ==
    \A l \in m.origin : HoldsShown(l, s, m) /\ (s.nilable[l] # "unknown" \/ Marked(l, lhs, nilable, i))

LEMMA TargetShown ==
    ASSUME NEW s \in ScopeType, NEW m \in MemoryType, NEW lhs, NEW nilable, NEW i \in Nat,
           ShownSoFar(s, m, lhs, nilable, i), NEW x \in Locals, lhs[i + 1] = <<x>>,
           NEW n, n \in Returned(<<x>>, ResultsFor(<<x>>), i + 1 \in nilable, m),
           NEW u, u = InvalidateTarget(s, <<x>>)
    PROVE  ShownSoFar(u, n, lhs, nilable, i + 1)
<1>. DEFINE visible == i + 1 \in nilable  t == <<x>>
<1>1. visible \in BOOLEAN
  OBVIOUS
<1>2. t \in Expr /\ IsBare(t) /\ t[1] = x
  BY LocalIsExpr DEF IsBare
<1>3. ResultsFor(t) \subseteq Value
  <2>1. t \in Typed
    BY <1>2 DEF Typed
  <2>. QED
    BY <2>1, ResultsForTypes
<1>4. n \in Returned(t, ResultsFor(t), visible, m)
  OBVIOUS
<1>5. Rebound(x, m, n) /\ Receives(x, m, n)
  <2>. HIDE DEF visible
  <2>. QED
    BY <1>1, <1>4, LocalReturned
<1>6. ShownAt(t, visible, m, n)
  <2>. HIDE DEF t, visible
  <2>. QED
    BY <1>1, <1>2, <1>3, <1>4, ReturnedShown DEF Ready
<1>7. \A l \in n.origin : l \in Locals /\ n.env[l] \in {Nil, TypedNil} /\ IF l = x THEN visible ELSE l \in m.origin
  <2>. HIDE DEF t, visible
  <2>. QED
    BY <1>2, <1>6 DEF ShownAt
<1>8. \A l \in Locals : l # x => n.env[l] = m.env[l]
  <2>1. PICK v \in ValuesOf(x) : n.env = [m.env EXCEPT ![x] = v]
    BY <1>5 DEF Receives
  <2>2. m.env \in [Locals -> Value]
    BY DEF MemoryType
  <2>. QED
    BY <2>1, <2>2
<1>9. /\ u.alias[x] = NoPath /\ <<x>> \notin u.proven /\ u.proven \subseteq s.proven
      /\ \A l \in Locals \ {x} : s.alias[l] = NoPath => u.alias[l] = NoPath /\ u.nilable[l] = s.nilable[l]
  BY InvalidateLocalFields DEF AtOrUnder
<1>10. ASSUME NEW l \in n.origin PROVE HoldsShown(l, u, n) /\ (u.nilable[l] # "unknown" \/ Marked(l, lhs, nilable, i + 1))
  <2>1. CASE l = x
    <3>1. visible /\ i + 1 \in 1..i + 1
      BY <1>7, <2>1
    <3>2. Marked(l, lhs, nilable, i + 1)
      BY <2>1, <3>1 DEF Marked
    <3>. QED
      BY <1>7, <1>9, <2>1, <3>2 DEF HoldsShown
  <2>2. CASE l # x
    <3>1. l \in m.origin /\ l \in Locals \ {x}
      BY <1>7, <2>2
    <3>2. HoldsShown(l, s, m) /\ (s.nilable[l] # "unknown" \/ Marked(l, lhs, nilable, i))
      BY <3>1 DEF ShownSoFar
    <3>3. Marked(l, lhs, nilable, i) => Marked(l, lhs, nilable, i + 1)
      <4>1. 1..i \subseteq 1..i + 1
        OBVIOUS
      <4>. QED
        BY <4>1 DEF Marked
    <3>. QED
      BY <1>8, <1>9, <3>1, <3>2, <3>3 DEF HoldsShown
  <2>. QED
    BY <2>1, <2>2
<1>. QED
  BY <1>10 DEF ShownSoFar

LEMMA TargetsShown ==
    ASSUME NEW s, NEW m, Fits(s, m), Shown(s, m), NEW lhs \in Seq(LocalTargets), NEW nilable,
           NEW n, n \in Results(lhs, nilable, m),
           NEW u, u = InvalidateTargets(lhs, s)
    PROVE  u \in ScopeType /\ ShownSoFar(u, n, lhs, nilable, Len(lhs))
<1>1. s \in ScopeType /\ m \in MemoryType
  BY DEF Fits
<1>2. PICK f \in [0..Len(lhs) -> ScopeType] :
         Unrolls(f, Len(lhs), s, TargetStep(lhs)) /\ InvalidateTargets(lhs, s) = f[Len(lhs)]
  BY <1>1, TargetsUnroll
<1>3. PICK g \in [0..Len(lhs) -> SUBSET MemoryType] :
         Unrolls(g, Len(lhs), {m}, ResultStep(lhs, nilable)) /\ Results(lhs, nilable, m) = g[Len(lhs)]
  BY <1>1, ResultsUnroll
<1>4. Len(lhs) \in Nat
  OBVIOUS
<1>5. f[0] = s /\ \A i \in 1..Len(lhs) : f[i] = TargetStep(lhs)[i][f[i - 1]]
  <2>1. Unrolls(f, Len(lhs), s, TargetStep(lhs))
    BY <1>2
  <2>. QED
    BY ONLY <1>4, <2>1, RecursionStep
<1>6. g[0] = {m} /\ \A i \in 1..Len(lhs) : g[i] = ResultStep(lhs, nilable)[i][g[i - 1]]
  <2>1. Unrolls(g, Len(lhs), {m}, ResultStep(lhs, nilable))
    BY <1>3
  <2>. QED
    BY ONLY <1>4, <2>1, RecursionStep
<1>7. \A i \in 1..Len(lhs) : \E x \in Locals : lhs[i] = <<x>>
  BY DEF LocalTargets
<1>. DEFINE P == {i \in 0..Len(lhs) : \A k \in g[i] : ShownSoFar(f[i], k, lhs, nilable, i)}
<1>8. 0 \in P
  <2>1. ShownSoFar(s, m, lhs, nilable, 0)
    BY DEF Shown, Flagged, ShownSoFar, HoldsShown
  <2>. QED
    BY <1>4, <1>5, <1>6, <2>1
<1>9. ASSUME NEW i \in 0..Len(lhs) - 1, i \in P PROVE i + 1 \in P
  <2>1. i + 1 \in 1..Len(lhs) /\ (i + 1) - 1 = i /\ i \in 0..Len(lhs) /\ i + 1 \in 0..Len(lhs) /\ i \in Nat
    BY <1>4
  <2>2. PICK x \in Locals : lhs[i + 1] = <<x>>
    BY <1>7, <2>1
  <2>3. f[i + 1] = InvalidateTarget(f[i], <<x>>) /\ f[i] \in ScopeType
    <3>1. f[i + 1] = TargetStep(lhs)[i + 1][f[i]]
      BY <1>5, <2>1
    <3>2. TargetStep(lhs)[i + 1][f[i]] = InvalidateTarget(f[i], lhs[i + 1])
      BY <1>2, <2>1, TargetStepTyped
    <3>. QED
      BY <1>2, <2>1, <2>2, <3>1, <3>2
  <2>4. g[i + 1] = UNION {Returned(<<x>>, ResultsFor(<<x>>), i + 1 \in nilable, k) : k \in g[i]}
    <3>1. g[i + 1] = ResultStep(lhs, nilable)[i + 1][g[i]]
      BY <1>6, <2>1
    <3>2. ResultStep(lhs, nilable)[i + 1][g[i]] = AfterTarget(g[i], lhs, nilable, i + 1)
      BY <1>3, <2>1, ResultStepTyped
    <3>. QED
      BY <2>2, <3>1, <3>2 DEF AfterTarget
  <2>7. ASSUME NEW q \in g[i + 1] PROVE ShownSoFar(f[i + 1], q, lhs, nilable, i + 1)
    <3>1. PICK k \in g[i] : q \in Returned(<<x>>, ResultsFor(<<x>>), i + 1 \in nilable, k)
      BY <2>4
    <3>2. ShownSoFar(f[i], k, lhs, nilable, i) /\ k \in MemoryType
      BY <1>3, <1>9, <2>1
    <3>. QED
      BY <2>1, <2>2, <2>3, <3>1, <3>2, TargetShown
  <2>. QED
    BY <2>1, <2>7
<1>10. 0..Len(lhs) \subseteq P
  <2>. HIDE DEF P
  <2>. QED
    BY <1>4, <1>8, <1>9, InductionUpTo
<1>11. Len(lhs) \in 0..Len(lhs)
  BY <1>4
<1>. QED
  BY <1>2, <1>3, <1>10, <1>11

LEMMA ResultsShown ==
    ASSUME NEW s, NEW m, Fits(s, m), Shown(s, m), NEW lhs \in Seq(LocalTargets), NEW nilable,
           NEW n, n \in Results(lhs, nilable, m),
           NEW u, u = AssignResults(lhs, nilable, s)
    PROVE  Shown(u, n)
<1>. DEFINE t == InvalidateTargets(lhs, s)
            may(l) == \E i \in {j \in nilable \cap DOMAIN lhs : IsBare(lhs[j])} : lhs[i] = <<l>>
            q == [l \in Locals |-> IF may(l) THEN "maybeNil" ELSE t.nilable[l]]
<1>1. u = [t EXCEPT !.nilable = q]
  BY DEF AssignResults
<1>2. t \in ScopeType /\ ShownSoFar(t, n, lhs, nilable, Len(lhs))
  BY TargetsShown
<1>3. \A l \in Locals : q[l] = IF may(l) THEN "maybeNil" ELSE t.nilable[l]
  OBVIOUS
<1>4. q = [l \in Locals |-> q[l]]
  OBVIOUS
<1>5. ASSUME NEW l, Marked(l, lhs, nilable, Len(lhs)) PROVE may(l)
  <2>1. PICK j \in nilable : j \in 1..Len(lhs) /\ lhs[j] = <<l>>
    BY <1>5 DEF Marked
  <2>2. IsBare(lhs[j])
    BY <2>1 DEF IsBare
  <2>. QED
    BY <2>1, <2>2
<1>. HIDE DEF t, may, q
<1>6. q \in NilStates
  <2>1. t.nilable \in NilStates
    BY <1>2, ScopeFields
  <2>. QED
    BY <1>3, <1>4, <2>1 DEF NilStates, NilState
<1>7. u.proven = t.proven /\ u.alias = t.alias /\ u.nilable = q
  BY <1>1, <1>2, <1>6, WithNilStates
<1>8. ASSUME NEW l \in n.origin PROVE Flagged(l, u, n)
  <2>1. HoldsShown(l, t, n) /\ (t.nilable[l] # "unknown" \/ may(l))
    BY <1>2, <1>5 DEF ShownSoFar
  <2>. QED
    BY <1>3, <1>7, <2>1 DEF HoldsShown, Flagged
<1>. QED
  BY <1>8 DEF Shown

LEMMA AddrKeeps ==
    ASSUME NEW m \in MemoryType, NEW st, IsStatement(st), st.op = "addr", NEW s, NEW n, n \in After(st, s, m)
    PROVE  \A l \in n.origin : l \in m.origin /\ l # st.x /\ n.env[l] = m.env[l]
<1>. DEFINE x == st.x
<1>1. x \in Locals
  BY DEF IsStatement
<1>2. n \in {[m EXCEPT !.origin = @ \ {x}]} \cup {Store(<<x>>, v, FALSE, m) : v \in ValuesOf(x)}
  BY DEF After
<1>. HIDE DEF x
<1>3. CASE n = [m EXCEPT !.origin = @ \ {x}]
  <2>. DEFINE o == m.origin \ {x}
  <2>1. n = [m EXCEPT !.origin = o]
    BY <1>3
  <2>2. o \subseteq Locals
    BY DEF MemoryType
  <2>. HIDE DEF o
  <2>3. n.env = m.env /\ n.origin = o
    BY <2>1, <2>2, WithOrigin
  <2>. QED
    BY <2>3 DEF o, x
<1>4. ASSUME NEW v \in ValuesOf(x), n = Store(<<x>>, v, FALSE, m)
      PROVE  \A l \in n.origin : l \in m.origin /\ l # x /\ n.env[l] = m.env[l]
  <2>. DEFINE lhs == <<x>>
  <2>1. lhs \in Expr /\ IsBare(lhs) /\ lhs[1] = x
    BY <1>1, LocalIsExpr DEF IsBare
  <2>2. Ready(lhs, m) /\ Agrees(m, m) /\ FALSE \in BOOLEAN
    BY <2>1 DEF Ready, Agrees
  <2>3. v \in Value
    BY DEF ValuesOf, Value
  <2>4. n = Store(lhs, v, FALSE, m)
    BY <1>4
  <2>. HIDE DEF lhs
  <2>5. Stores(lhs, v, m, n)
    BY <2>1, <2>2, <2>3, <2>4, StoreWritten
  <2>6. ShownAt(lhs, FALSE, m, n)
    BY <2>1, <2>2, <2>3, <2>4, StoreShown
  <2>7. n.env = [m.env EXCEPT ![x] = v] /\ m.env \in [Locals -> Value]
    BY <2>1, <2>5 DEF Stores, MemoryType
  <2>8. \A l \in n.origin : l \in Locals /\ l # x /\ l \in m.origin
    BY <2>1, <2>6 DEF ShownAt
  <2>. QED
    BY <2>7, <2>8
<1>. QED
  BY <1>2, <1>3, <1>4 DEF x

LEMMA AddrShown ==
    ASSUME NEW s, NEW m, Fits(s, m), Shown(s, m), NEW st, IsStatement(st), st.op = "addr",
           NEW n, n \in After(st, s, m), NEW u, u = Effect(st, s)
    PROVE  Shown(u, n)
<1>. DEFINE x == st.x
            q == [l \in Locals |-> IF l \in {x} THEN "unknown" ELSE s.nilable[l]]
<1>1. s \in ScopeType /\ m \in MemoryType
  BY DEF Fits
<1>2. u = [s EXCEPT !.nilable = q]
  BY DEF Effect, DropNil
<1>3. q = [l \in Locals |-> q[l]] /\ \A l \in Locals : q[l] = IF l = x THEN "unknown" ELSE s.nilable[l]
  OBVIOUS
<1>4. \A l \in n.origin : l \in m.origin /\ l # x /\ n.env[l] = m.env[l]
  BY <1>1, AddrKeeps
<1>. HIDE DEF x, q
<1>5. q \in NilStates
  <2>1. s.nilable \in NilStates
    BY <1>1, ScopeFields
  <2>. QED
    BY <1>3, <2>1 DEF NilStates, NilState
<1>6. u.proven = s.proven /\ u.alias = s.alias /\ u.nilable = q
  BY <1>1, <1>2, <1>5, WithNilStates
<1>7. ASSUME NEW l \in n.origin PROVE Flagged(l, u, n)
  <2>1. Flagged(l, s, m) /\ l # x /\ n.env[l] = m.env[l]
    BY <1>4 DEF Shown
  <2>. QED
    BY <1>3, <1>6, <2>1 DEF Flagged
<1>. QED
  BY <1>7 DEF Shown

\* After a simple statement the walk knows of every nil the function shows.
LEMMA StatementShown ==
    ASSUME Wild = {}, NEW s, NEW m, Fits(s, m), m # Dead, Shown(s, m), NEW st, IsStatement(st),
           Follows(st, s, m), NEW n, n \in After(st, s, m), NEW u, u = Effect(st, s)
    PROVE  Shown(u, n)
<1>1. CASE st.op = "set"
  BY <1>1, SetShown
<1>2. CASE st.op = "tuple"
  <2>1. st.lhs \in Seq(LocalTargets)
    BY <1>2 DEF IsStatement, LocalTargets
  <2>2. n \in Results(st.lhs, st.nilable, m)
    BY <1>2 DEF After
  <2>3. u = AssignResults(st.lhs, st.nilable, s)
    BY <1>2 DEF Effect
  <2>. QED
    BY <2>1, <2>2, <2>3, ResultsShown
<1>3. CASE st.op = "addr"
  BY <1>3, AddrShown
<1>4. CASE st.op \in {"assert", "guard"}
  <2>1. n = m
    BY <1>4 DEF After
  <2>2. \E P : u = With(s, P)
    BY <1>4 DEF Effect
  <2>3. u.alias = s.alias /\ u.nilable = s.nilable
    BY <2>2 DEF With, Fits, ScopeType
  <2>4. \A l \in m.origin : m.env[l] = TypedNil => <<l>> \notin u.proven
    BY <1>4 DEF Follows
  <2>. QED
    BY <2>1, <2>3, <2>4 DEF Shown, Flagged
<1>5. CASE st.op \in {"use", "skip"}
  <2>1. u = s
    BY <1>5 DEF Effect
  <2>2. n = m
    BY <1>5 DEF After
  <2>. QED
    BY <2>1, <2>2
<1>. QED
  BY <1>1, <1>2, <1>3, <1>4, <1>5 DEF IsStatement

\* A dereference of one of them that panics is reported.
LEMMA ShownReported ==
    ASSUME Wild = {}, NEW s, NEW m, Fits(s, m), m # Dead, Shown(s, m), NEW st, IsStatement(st),
           Follows(st, s, m), NEW b \in Faults(st, s, m), IsBare(b), b[1] \in m.origin
    PROVE  \E ch \in StmtChecks(st, s) : ch.base = b /\ IsReported(ch, s)
<1>. DEFINE l == b[1]  checks == StmtChecks(st, s)
<1>0. s \in ScopeType /\ m \in MemoryType /\ Sound(s, m)
  BY DEF Fits
<1>1. Caught(b, checks, s, m)
  BY <1>0, StatementCaught
<1>2. PICK ch \in checks : ch.base = b /\ ~ch.safe /\ Vouched(ch.extra, s, m)
  BY <1>1 DEF Caught
<1>3. Flagged(l, s, m) /\ b \in Expr
  BY <1>1 DEF Caught, Shown
<1>4. b = <<l>>
  <2>1. b \in Seq(Word) /\ Len(b) = 1
    BY <1>3, ExprParts DEF IsBare
  <2>. QED
    BY <2>1
<1>5. Canonical(b, s.alias) = b
  BY <1>3 DEF Flagged, Canonical
<1>6. b \notin s.proven \cup ch.extra
  <2>1. CASE m.env[l] = Nil
    <3>1. Eval(b, m) = Nil
      BY <1>0, <1>3, <1>4, LocalIsExpr, EvalFromEmpty, <2>1 DEF Eval, Flagged
    <3>2. Meaning(b, s, m) = Nil
      BY <1>0, <1>3, <1>5, <3>1, SoundCanonical
    <3>. QED
      BY <1>0, <1>2, <3>2 DEF Sound, Vouched
  <2>2. CASE m.env[l] = TypedNil
    <3>1. b \notin s.proven
      BY <1>3, <1>4, <2>2 DEF Flagged
    <3>2. CASE st.op \in {"assert", "guard"}
      <4>1. <<l>> \notin UNION {c.extra : c \in checks}
        BY <2>2, <3>2 DEF Follows
      <4>. HIDE DEF checks
      <4>. QED
        BY <1>4, <3>1, <4>1
    <3>3. CASE st.op \notin {"assert", "guard"}
      <4>1. PlainChecks(checks)
        BY <3>3, StatementChecksArePlain
      <4>. HIDE DEF checks
      <4>. QED
        BY <3>1, <4>1 DEF PlainChecks
    <3>. QED
      BY <3>2, <3>3
  <2>. QED
    BY <1>3, <2>1, <2>2 DEF Flagged
<1>. HIDE DEF checks
<1>7. IsReported(ch, s)
  BY <1>2, <1>3, <1>5, <1>6 DEF IsReported, IsWiredFieldAccess, Flagged
<1>. QED
  BY <1>2, <1>7 DEF checks

-----------------------------------------------------------------------------
(* The receiver of a method.                                               *)

\* l is the receiver <<r>>, or a copy of it.
Named(l, r, s) == IF s.alias[l] = NoPath THEN l = r ELSE s.alias[l] = <<r>>

Copied(l, r, s, m) == l \in Locals /\ Named(l, r, s) /\ m.env[l] = Nil

\* The locals that hold a nil receiver are called by its name, and of no local it
\* is known where a nil comes from.
Copies(r, s, m) ==
    /\ \A l \in Locals : s.nilable[l] = "unknown"
    /\ \A l \in m.origin : Copied(l, r, s, m)

\* The receiver is not written while there is a copy of it.
Single(x, r, s) == x = r => \A l \in Locals : s.alias[l] # <<r>>

LEMMA NamedStays ==
    ASSUME NEW s \in ScopeType, NEW x \in Locals, NEW r, Single(x, r, s), NEW t, t = InvalidateTarget(s, <<x>>),
           NEW l \in Locals, l # x, Named(l, r, s)
    PROVE  Named(l, r, t)
<1>1. t.alias[l] = IF AtOrUnder(<<x>>, s.alias[l]) THEN NoPath ELSE s.alias[l]
  BY InvalidateLocalFields
<1>2. CASE s.alias[l] = NoPath
  BY <1>1, <1>2 DEF Named
<1>3. CASE s.alias[l] # NoPath
  <2>1. s.alias[l] = <<r>> /\ x # r
    BY <1>3 DEF Named, Single
  <2>2. ~AtOrUnder(<<x>>, <<r>>)
    BY <2>1 DEF AtOrUnder, Under
  <2>. QED
    BY <1>1, <2>1, <2>2 DEF Named
<1>. QED
  BY <1>2, <1>3

LEMMA LocalUnknown ==
    ASSUME NEW s \in ScopeType, NEW x \in Locals, NEW t, t = InvalidateTarget(s, <<x>>),
           \A l \in Locals : s.nilable[l] = "unknown"
    PROVE  \A l \in Locals : t.nilable[l] = "unknown"
<1>1. t.nilable[x] = "unknown" /\ \A l \in Locals \ {x} : t.nilable[l] = s.nilable[l]
  BY InvalidateLocalFields
<1>. QED
  BY <1>1

\* What is recorded of a target says nothing new of the other locals' names, and
\* nothing of nils where none is made.
LEMMA RecordedNames ==
    ASSUME NEW s \in ScopeType, \A l \in Locals : s.nilable[l] = "unknown",
           NEW lhs \in Typed, NEW rhs, Assignable(lhs, rhs), rhs.k \notin {"nil", "element", "callif"},
           NEW t, t = RecordAssignment(lhs, rhs, s)
    PROVE  /\ NilOriginState(lhs, rhs, s) = "unknown" /\ t.nilable = s.nilable
           /\ \A l \in Locals : (IsBare(lhs) /\ l = lhs[1]) \/ t.alias[l] = s.alias[l]
<1>. DEFINE x == lhs[1]  p == Canonical(rhs.e, s.alias)
            proof == ValidatorProof(rhs, s)  state == NilOriginState(lhs, rhs, s)
<1>0. state = "unknown"
  <2>1. CASE rhs.k = "path" /\ IsBare(rhs.e)
    <3>1. rhs.e[1] \in Locals
      BY <2>1, ExprParts DEF Assignable, Typed
    <3>2. s.nilable[rhs.e[1]] = "unknown"
      BY <3>1
    <3>3. state = IF s.nilable[rhs.e[1]] = "isNil" /\ lhs[1] \in Ifaces /\ rhs.e[1] \notin Ifaces
                  THEN "typedNil" ELSE s.nilable[rhs.e[1]]
      <4>1. rhs.k # "nil"
        BY <2>1
      <4>. QED
        BY <2>1, <4>1, Zenon DEF NilOriginState
    <3>. HIDE DEF state
    <3>. QED
      BY <3>2, <3>3
  <2>2. CASE ~(rhs.k = "path" /\ IsBare(rhs.e))
    BY <2>2 DEF NilOriginState
  <2>. QED
    BY <2>1, <2>2
<1>1. \/ rhs.k = "new" /\ t = With(s, NewPaths(lhs, rhs.set, s))
      \/ t = s
      \/ IsBare(lhs) /\ t = Checked(s, x, proof)
      \/ IsBare(lhs) /\ state # "unknown"
      \/ IsBare(lhs) /\ t = Renamed(s, x, p)
  BY Zenon DEF RecordAssignment, Checked, Renamed, NewPaths
<1>. HIDE DEF proof, state, p
<1>2. CASE rhs.k = "new" /\ t = With(s, NewPaths(lhs, rhs.set, s))
  <2>1. t.alias = s.alias /\ t.nilable = s.nilable
    BY <1>2 DEF With, ScopeType
  <2>. QED
    BY <1>0, <2>1 DEF state
<1>3. CASE t = s
  BY <1>0, <1>3 DEF state
<1>4. CASE IsBare(lhs) /\ t = Checked(s, x, proof)
  <2>1. t.alias = s.alias /\ t.nilable = s.nilable
    BY <1>4 DEF Checked, ScopeType
  <2>. QED
    BY <1>0, <2>1 DEF state
<1>5. CASE IsBare(lhs) /\ t = Renamed(s, x, p)
  <2>1. t.nilable = s.nilable /\ t.alias = [s.alias EXCEPT ![x] = p]
    BY <1>5 DEF Renamed, ScopeType
  <2>2. \A l \in Locals : l = x \/ t.alias[l] = s.alias[l]
    BY <2>1 DEF ScopeType
  <2>. QED
    BY <1>0, <1>5, <2>1, <2>2 DEF state
<1>. QED
  BY <1>0, <1>1, <1>2, <1>3, <1>4, <1>5

LEMMA SetCopies ==
    ASSUME Wild = {}, NEW s, NEW m, Fits(s, m), m # Dead, NEW r \in Locals, Receiver = <<r>>, Copies(r, s, m),
           NEW st, IsStatement(st), st.op = "set", ~MakesNil(st),
           Follows(st, s, m), NEW n, n \in After(st, s, m),
           NEW u, u = Effect(st, s)
    PROVE  Copies(r, u, n)
<1>. DEFINE lhs == st.lhs  rhs == st.rhs  t == InvalidateTarget(s, lhs)
<1>1. s \in ScopeType /\ m \in MemoryType /\ Typings(m) /\ Sound(s, m)
  BY DEF Fits
<1>2. lhs \in Typed /\ Assignable(lhs, rhs) /\ lhs \in Expr
  BY DEF IsStatement, Typed
<1>3. Faults(st, s, m) = {} /\ n \in Assigned(lhs, rhs, m)
  BY DEF After
<1>4. rhs.k \notin {"nil", "element", "callif"}
  BY DEF MakesNil
<1>5. lhs \in Targets(st)
  BY DEF Targets
<1>6. rhs.k = "path" => rhs.e # lhs /\ ~(Converted(lhs, rhs.e, m) = TypedNil /\ NilOriginState(lhs, rhs, s) = "unknown")
  BY Zenon DEF Follows
<1>7. lhs = <<r>> => \A l \in Locals : s.alias[l] # <<r>>
  BY <1>5 DEF Follows
<1>8. \A b \in Proper(lhs) : ~Faulty(b, m)
  BY <1>3, SetReached
<1>9. rhs.k = "path" => \A b \in Proper(rhs.e) : ~Faulty(b, m)
  BY <1>3, RhsReached
<1>10. u = RecordAssignment(lhs, rhs, t)
  BY DEF Effect, Assign
<1>. HIDE DEF lhs, rhs
<1>11. Ready(lhs, m)
  BY <1>1, <1>2, <1>8, ReadyWhenReached
<1>12. PICK v \in ResultsFor(lhs) : Gets(lhs, rhs, v, m, n) /\ Stores(lhs, v, m, n)
  BY <1>1, <1>2, <1>3, <1>11, AssignedWritten
<1>13. ShownAt(lhs, MayShow(rhs, m), m, n)
  BY <1>1, <1>2, <1>3, <1>11, AssignedShown
<1>14. t \in ScopeType
  BY <1>1, <1>2, InvalidateTargetTyped
<1>15. \A l \in Locals : s.nilable[l] = "unknown"
  BY DEF Copies
<1>16. CASE IsBare(lhs)
  <2>1. PICK x : x \in Locals /\ lhs = <<x>>
    <3>1. lhs[1] \in Locals /\ lhs \in Seq(Word) /\ Len(lhs) = 1
      BY <1>2, <1>16, ExprParts DEF IsBare
    <3>2. lhs = <<lhs[1]>>
      BY <3>1
    <3>. QED
      BY <3>1, <3>2
  <2>2. Single(x, r, s) /\ lhs[1] = x
    BY <1>7, <2>1 DEF Single
  <2>3. t = InvalidateTarget(s, <<x>>)
    BY <2>1
  <2>. HIDE DEF t
  <2>4. \A l \in Locals : t.nilable[l] = "unknown"
    BY <1>1, <1>15, <2>1, <2>3, LocalUnknown
  <2>5. /\ NilOriginState(lhs, rhs, t) = "unknown" /\ u.nilable = t.nilable
        /\ \A l \in Locals : l = x \/ u.alias[l] = t.alias[l]
    BY <1>2, <1>4, <1>10, <1>14, <2>2, <2>4, RecordedNames
  <2>6. n.env = [m.env EXCEPT ![x] = v] /\ m.env \in [Locals -> Value]
    BY <1>1, <1>12, <1>16, <2>2 DEF Stores, MemoryType
  <2>7. ASSUME NEW l \in m.origin, l # x PROVE l \in Locals /\ m.env[l] = Nil /\ Named(l, r, t)
    <3>1. l \in Locals /\ Named(l, r, s) /\ m.env[l] = Nil
      BY DEF Copies, Copied
    <3>. QED
      BY <1>1, <2>1, <2>2, <2>3, <2>7, <3>1, NamedStays
  <2>8. ASSUME NEW l \in n.origin, l # x PROVE Copied(l, r, u, n)
    <3>1. l \in m.origin
      BY <1>13, <2>2, <2>8 DEF ShownAt
    <3>2. l \in Locals /\ m.env[l] = Nil /\ Named(l, r, t)
      BY <2>7, <2>8, <3>1
    <3>3. n.env[l] = Nil /\ u.alias[l] = t.alias[l]
      BY <2>5, <2>6, <2>8, <3>2
    <3>. QED
      BY <3>2, <3>3 DEF Copied, Named
  <2>9. ASSUME x \in n.origin PROVE Copied(x, r, u, n)
    <3>. DEFINE e == rhs.e  y == e[1]  p == Canonical(e, t.alias)
    <3>1. rhs.k = "path" /\ y \in m.origin /\ n.env[x] = v /\ e \in Expr
      BY <1>2, <1>4, <1>13, <1>16, <2>1, <2>2, <2>6, <2>9 DEF ShownAt, MayShow, Assignable, Typed
    <3>2. m.env[y] = Nil /\ y \in Locals
      BY <3>1 DEF Copies, Copied
    <3>3. IsBare(e)
      BY <1>9, <3>1, <3>2, NilIsReadBare
    <3>4. e = <<y>>
      <4>1. e \in Seq(Word) /\ Len(e) = 1
        BY <3>1, <3>3, ExprParts DEF IsBare
      <4>. QED
        BY <4>1
    <3>5. y # x
      BY <1>6, <2>1, <3>1, <3>4
    <3>6. Named(y, r, t)
      BY <2>7, <3>1, <3>5
    <3>7. v = Converted(lhs, e, m) /\ v # TypedNil
      <4>1. NilOriginState(lhs, rhs, s) = "unknown"
        BY <1>1, <1>2, <1>4, <1>15, RecordedNames
      <4>. QED
        BY <1>6, <1>12, <3>1, <4>1 DEF Gets
    <3>8. v = Nil
      <4>1. Eval(e, m) = Nil
        <5>1. Eval(<<y>>, m) = m.env[y]
          BY <3>2, LocalIsExpr, EvalFromEmpty DEF Eval
        <5>. QED
          BY <3>2, <3>4, <5>1
      <4>. HIDE DEF e
      <4>. QED
        BY <3>7, <4>1 DEF Converted
    <3>9. u = Renamed(t, x, p)
      <4>1. ValidatorProof(rhs, t) = {} /\ rhs.k # "new"
        BY <3>1 DEF ValidatorProof
      <4>. QED
        BY <1>10, <1>16, <2>2, <2>5, <3>1, <4>1, Zenon DEF RecordAssignment, Renamed
    <3>10. p = <<r>>
      <4>1. CASE t.alias[y] = NoPath
        <5>1. p = e
          BY <4>1, Zenon DEF Canonical
        <5>. QED
          BY <3>4, <3>6, <4>1, <5>1 DEF Named
      <4>2. CASE t.alias[y] # NoPath
        <5>1. p = t.alias[y] \o Tail(e)
          BY <4>2, Zenon DEF Canonical
        <5>2. Tail(e) = <<>>
          <6>1. Tail(<<y>>) = <<>>
            OBVIOUS
          <6>. HIDE DEF y, e
          <6>. QED
            BY <3>4, <6>1
        <5>3. t.alias[y] = <<r>>
          BY <3>6, <4>2 DEF Named
        <5>4. <<r>> \o <<>> = <<r>>
          OBVIOUS
        <5>. QED
          BY <5>1, <5>2, <5>3, <5>4
      <4>. QED
        BY <4>1, <4>2
    <3>. HIDE DEF p
    <3>11. u.alias[x] = <<r>>
      BY <1>14, <2>1, <3>9, <3>10 DEF Renamed, ScopeType
    <3>12. <<r>> # NoPath
      BY DEF NoPath
    <3>. QED
      BY <2>1, <3>1, <3>8, <3>11, <3>12 DEF Copied, Named
  <2>. QED
    BY <2>4, <2>5, <2>8, <2>9 DEF Copies
<1>17. CASE ~IsBare(lhs)
  <2>1. n.env = m.env
    BY <1>12, <1>17 DEF Stores
  <2>2. t = s \/ t = Invalidate(s, {Canonical(lhs, s.alias)})
    BY <1>17, Zenon DEF InvalidateTarget
  <2>3. (\A l \in Locals : t.nilable[l] = "unknown") /\ \A l \in Locals : Named(l, r, s) => Named(l, r, t)
    <3>1. CASE t = s
      BY <1>15, <3>1
    <3>2. CASE t = Invalidate(s, {Canonical(lhs, s.alias)})
      <4>. DEFINE p == Canonical(lhs, s.alias)
      <4>1. Len(p) # 1 /\ Len(p) \in Nat /\ Len(p) > 0
        <5>1. p = Root(lhs[1], s) \o Tail(lhs)
          BY <1>1, <1>2, SoundCanonical
        <5>2. Root(lhs[1], s) \in Seq(Word) /\ Root(lhs[1], s) # <<>>
          <6>1. AliasesClear(s) /\ lhs[1] \in Locals
            BY <1>1, <1>2, SoundClear, ExprParts
          <6>. QED
            BY <6>1, RootIsExpr, ExprParts
        <5>3. Tail(lhs) \in Seq(Word) /\ Len(Tail(lhs)) = Len(lhs) - 1 /\ Len(lhs) \in Nat /\ Len(lhs) >= 1 /\ Len(lhs) # 1
          BY <1>2, <1>17, ExprParts, SlotsAreWords DEF IsBare
        <5>. DEFINE a == Root(lhs[1], s)  w == Tail(lhs)
        <5>. HIDE DEF a, w, p
        <5>4. Len(a \o w) = Len(a) + Len(w) /\ Len(a) \in Nat /\ Len(a) > 0
          BY <5>2, <5>3, ConcatFacts DEF a, w
        <5>. QED
          BY <5>1, <5>3, <5>4 DEF a, w
      <4>2. t = Invalidate(s, {p})
        BY <3>2
      <4>. HIDE DEF p, t
      <4>3. Invalidated(s, {p}, t)
        BY <1>1, <4>2, InvalidateFields
      <4>4. ~AtOrUnder(p, <<r>>)
        <5>1. Len(<<r>>) = 1
          OBVIOUS
        <5>. QED
          BY <4>1, <5>1 DEF AtOrUnder, Under
      <4>5. ~Falsified({p}, <<r>>)
        BY <4>4 DEF Falsified
      <4>6. \A l \in Locals : t.nilable[l] = "unknown"
        BY <1>15, <4>3 DEF Invalidated
      <4>7. ASSUME NEW l \in Locals, Named(l, r, s) PROVE Named(l, r, t)
        <5>1. t.alias[l] = IF Falsified({p}, s.alias[l]) THEN NoPath ELSE s.alias[l]
          BY <4>3 DEF Invalidated
        <5>2. CASE s.alias[l] = NoPath
          BY <4>7, <5>1, <5>2 DEF Named
        <5>3. CASE s.alias[l] # NoPath
          BY <4>5, <4>7, <5>1, <5>3 DEF Named
        <5>. QED
          BY <5>2, <5>3
      <4>. QED
        BY <4>6, <4>7
    <3>. QED
      BY <2>2, <3>1, <3>2
  <2>. HIDE DEF t
  <2>4. u.nilable = t.nilable /\ \A l \in Locals : u.alias[l] = t.alias[l]
    BY <1>2, <1>4, <1>10, <1>14, <1>17, <2>3, RecordedNames
  <2>5. ASSUME NEW l \in n.origin PROVE Copied(l, r, u, n)
    <3>1. l \in m.origin
      BY <1>13, <1>17 DEF ShownAt
    <3>2. l \in Locals /\ Named(l, r, s) /\ m.env[l] = Nil
      BY <3>1 DEF Copies, Copied
    <3>. QED
      BY <2>1, <2>3, <2>4, <3>2 DEF Copied, Named
  <2>. QED
    BY <2>3, <2>4, <2>5 DEF Copies
<1>. QED
  BY <1>16, <1>17

LEMMA TargetCopies ==
    ASSUME NEW s \in ScopeType, NEW m \in MemoryType, NEW x \in Locals, NEW r \in Locals, Single(x, r, s), Copies(r, s, m),
           NEW n, n \in Returned(<<x>>, ResultsFor(<<x>>), FALSE, m),
           NEW u, u = InvalidateTarget(s, <<x>>)
    PROVE  Copies(r, u, n)
<1>. DEFINE t == <<x>>
<1>1. t \in Expr /\ IsBare(t) /\ t[1] = x
  BY LocalIsExpr DEF IsBare
<1>2. ResultsFor(t) \subseteq Value
  <2>1. t \in Typed
    BY <1>1 DEF Typed
  <2>. QED
    BY <2>1, ResultsForTypes
<1>3. n \in Returned(t, ResultsFor(t), FALSE, m) /\ FALSE \in BOOLEAN
  OBVIOUS
<1>4. Receives(x, m, n)
  BY <1>3, LocalReturned
<1>5. ShownAt(t, FALSE, m, n)
  <2>. HIDE DEF t
  <2>. QED
    BY <1>1, <1>2, <1>3, ReturnedShown DEF Ready
<1>6. \A l \in n.origin : l \in Locals /\ l # x /\ l \in m.origin
  <2>. HIDE DEF t
  <2>. QED
    BY <1>1, <1>5 DEF ShownAt
<1>7. \A l \in Locals : l # x => n.env[l] = m.env[l]
  <2>1. PICK v \in ValuesOf(x) : n.env = [m.env EXCEPT ![x] = v]
    BY <1>4 DEF Receives
  <2>2. m.env \in [Locals -> Value]
    BY DEF MemoryType
  <2>. QED
    BY <2>1, <2>2
<1>8. \A l \in Locals : u.nilable[l] = "unknown"
  BY LocalUnknown DEF Copies
<1>9. ASSUME NEW l \in n.origin PROVE Copied(l, r, u, n)
  <2>1. l \in Locals /\ l # x /\ Named(l, r, s) /\ m.env[l] = Nil
    BY <1>6 DEF Copies, Copied
  <2>2. Named(l, r, u)
    BY <2>1, NamedStays
  <2>. QED
    BY <1>7, <2>1, <2>2 DEF Copied
<1>. QED
  BY <1>8, <1>9 DEF Copies

LEMMA TargetsCopies ==
    ASSUME NEW s, NEW m, Fits(s, m), NEW r \in Locals, Copies(r, s, m),
           NEW lhs \in Seq(LocalTargets), NEW nilable, \A i \in 1..Len(lhs) : i \notin nilable,
           \A i \in 1..Len(lhs), x \in Locals : lhs[i] = <<x>> => Single(x, r, s),
           NEW n, n \in Results(lhs, nilable, m),
           NEW u, u = InvalidateTargets(lhs, s)
    PROVE  u \in ScopeType /\ Copies(r, u, n)
<1>1. s \in ScopeType /\ m \in MemoryType
  BY DEF Fits
<1>2. PICK f \in [0..Len(lhs) -> ScopeType] :
         Unrolls(f, Len(lhs), s, TargetStep(lhs)) /\ InvalidateTargets(lhs, s) = f[Len(lhs)]
  BY <1>1, TargetsUnroll
<1>3. PICK g \in [0..Len(lhs) -> SUBSET MemoryType] :
         Unrolls(g, Len(lhs), {m}, ResultStep(lhs, nilable)) /\ Results(lhs, nilable, m) = g[Len(lhs)]
  BY <1>1, ResultsUnroll
<1>4. Len(lhs) \in Nat
  OBVIOUS
<1>5. f[0] = s /\ \A i \in 1..Len(lhs) : f[i] = TargetStep(lhs)[i][f[i - 1]]
  <2>1. Unrolls(f, Len(lhs), s, TargetStep(lhs))
    BY <1>2
  <2>. QED
    BY ONLY <1>4, <2>1, RecursionStep
<1>6. g[0] = {m} /\ \A i \in 1..Len(lhs) : g[i] = ResultStep(lhs, nilable)[i][g[i - 1]]
  <2>1. Unrolls(g, Len(lhs), {m}, ResultStep(lhs, nilable))
    BY <1>3
  <2>. QED
    BY ONLY <1>4, <2>1, RecursionStep
<1>7. \A i \in 1..Len(lhs) : \E x \in Locals : lhs[i] = <<x>>
  BY DEF LocalTargets
<1>. DEFINE P == {i \in 0..Len(lhs) : IsLess(s, f[i]) /\ \A k \in g[i] : Copies(r, f[i], k)}
<1>8. 0 \in P
  <2>1. IsLess(s, s)
    BY DEF IsLess
  <2>. QED
    BY <1>4, <1>5, <1>6, <2>1
<1>9. ASSUME NEW i \in 0..Len(lhs) - 1, i \in P PROVE i + 1 \in P
  <2>1. i + 1 \in 1..Len(lhs) /\ (i + 1) - 1 = i /\ i \in 0..Len(lhs) /\ i + 1 \in 0..Len(lhs)
    BY <1>4
  <2>2. PICK x \in Locals : lhs[i + 1] = <<x>>
    BY <1>7, <2>1
  <2>3. f[i + 1] = InvalidateTarget(f[i], <<x>>) /\ f[i] \in ScopeType
    <3>1. f[i + 1] = TargetStep(lhs)[i + 1][f[i]]
      BY <1>5, <2>1
    <3>2. TargetStep(lhs)[i + 1][f[i]] = InvalidateTarget(f[i], lhs[i + 1])
      BY <1>2, <2>1, TargetStepTyped
    <3>. QED
      BY <1>2, <2>1, <2>2, <3>1, <3>2
  <2>4. g[i + 1] = UNION {Returned(<<x>>, ResultsFor(<<x>>), FALSE, k) : k \in g[i]}
    <3>1. g[i + 1] = ResultStep(lhs, nilable)[i + 1][g[i]]
      BY <1>6, <2>1
    <3>2. ResultStep(lhs, nilable)[i + 1][g[i]] = AfterTarget(g[i], lhs, nilable, i + 1)
      BY <1>3, <2>1, ResultStepTyped
    <3>3. (i + 1 \in nilable) = FALSE
      BY <2>1
    <3>. QED
      BY <2>2, <3>1, <3>2, <3>3 DEF AfterTarget
  <2>5. IsLess(s, f[i])
    BY <1>9
  <2>6. Single(x, r, f[i])
    <3>1. Single(x, r, s)
      BY <2>1, <2>2
    <3>2. <<r>> # NoPath
      BY DEF NoPath
    <3>. QED
      BY <2>5, <3>1, <3>2 DEF Single, IsLess
  <2>7. ASSUME NEW q \in g[i + 1] PROVE Copies(r, f[i + 1], q)
    <3>1. PICK k \in g[i] : q \in Returned(<<x>>, ResultsFor(<<x>>), FALSE, k)
      BY <2>4
    <3>2. Copies(r, f[i], k) /\ k \in MemoryType
      BY <1>3, <1>9, <2>1
    <3>. QED
      BY <2>2, <2>3, <2>6, <3>1, <3>2, TargetCopies
  <2>8. IsLess(s, f[i + 1])
    <3>1. IsLess(f[i], f[i + 1])
      BY <2>2, <2>3, LocalIsLess
    <3>. QED
      BY <2>5, <3>1, LessAndLess
  <2>. QED
    BY <2>1, <2>7, <2>8
<1>10. 0..Len(lhs) \subseteq P
  <2>. HIDE DEF P
  <2>. QED
    BY <1>4, <1>8, <1>9, InductionUpTo
<1>11. Len(lhs) \in 0..Len(lhs)
  BY <1>4
<1>. QED
  BY <1>2, <1>3, <1>10, <1>11

LEMMA ResultsCopies ==
    ASSUME NEW s, NEW m, Fits(s, m), NEW r \in Locals, Copies(r, s, m),
           NEW lhs \in Seq(LocalTargets), NEW nilable, nilable \cap DOMAIN lhs = {},
           \A i \in 1..Len(lhs), x \in Locals : lhs[i] = <<x>> => Single(x, r, s),
           NEW n, n \in Results(lhs, nilable, m),
           NEW u, u = AssignResults(lhs, nilable, s)
    PROVE  Copies(r, u, n)
<1>. DEFINE t == InvalidateTargets(lhs, s)
            may(l) == \E i \in {j \in nilable \cap DOMAIN lhs : IsBare(lhs[j])} : lhs[i] = <<l>>
            q == [l \in Locals |-> IF may(l) THEN "maybeNil" ELSE t.nilable[l]]
<1>1. u = [t EXCEPT !.nilable = q]
  BY DEF AssignResults
<1>2. \A i \in 1..Len(lhs) : i \notin nilable
  <2>1. DOMAIN lhs = 1..Len(lhs)
    OBVIOUS
  <2>. QED
    BY <2>1
<1>3. t \in ScopeType /\ Copies(r, t, n)
  BY <1>2, TargetsCopies
<1>4. q = [l \in Locals |-> q[l]] /\ \A l \in Locals : q[l] = t.nilable[l]
  OBVIOUS
<1>. HIDE DEF t, q
<1>5. q \in NilStates /\ \A l \in Locals : q[l] = "unknown"
  BY <1>3, <1>4 DEF Copies, NilStates, NilState
<1>6. u.alias = t.alias /\ u.nilable = q
  BY <1>1, <1>3, <1>5, WithNilStates
<1>. QED
  BY <1>3, <1>5, <1>6 DEF Copies, Copied, Named

LEMMA StatementCopies ==
    ASSUME Wild = {}, NEW s, NEW m, Fits(s, m), m # Dead, NEW r \in Locals, Receiver = <<r>>, Copies(r, s, m),
           NEW st, IsStatement(st), ~MakesNil(st),
           Follows(st, s, m), NEW n, n \in After(st, s, m), NEW u, u = Effect(st, s)
    PROVE  Copies(r, u, n)
<1>0. s \in ScopeType /\ m \in MemoryType
  BY DEF Fits
<1>1. CASE st.op = "set"
  BY <1>1, SetCopies
<1>2. CASE st.op = "tuple"
  <2>1. st.lhs \in Seq(LocalTargets)
    BY <1>2 DEF IsStatement, LocalTargets
  <2>2. n \in Results(st.lhs, st.nilable, m)
    BY <1>2 DEF After
  <2>3. u = AssignResults(st.lhs, st.nilable, s)
    BY <1>2 DEF Effect
  <2>4. st.nilable \cap DOMAIN st.lhs = {}
    BY <1>2 DEF MakesNil
  <2>5. ASSUME NEW i \in 1..Len(st.lhs), NEW x \in Locals, st.lhs[i] = <<x>> PROVE Single(x, r, s)
    <3>1. i \in DOMAIN st.lhs
      BY <2>1
    <3>2. <<x>> \in Targets(st)
      BY <1>2, <2>5, <3>1 DEF Targets
    <3>3. x = r => <<x>> = Receiver
      OBVIOUS
    <3>. QED
      BY <3>2, <3>3 DEF Follows, Single
  <2>. QED
    BY <2>1, <2>2, <2>3, <2>4, <2>5, ResultsCopies
<1>3. CASE st.op = "addr"
  <2>1. u.alias = s.alias
    BY <1>0, <1>3 DEF Effect, DropNil, ScopeType
  <2>2. \A l \in Locals : u.nilable[l] = "unknown"
    BY <1>0, <1>3 DEF Effect, DropNil, ScopeType, Copies
  <2>3. \A l \in n.origin : l \in m.origin /\ n.env[l] = m.env[l]
    BY <1>0, <1>3, AddrKeeps
  <2>. QED
    BY <2>1, <2>2, <2>3 DEF Copies, Copied, Named
<1>4. CASE st.op \in {"assert", "guard"}
  <2>1. n = m
    BY <1>4 DEF After
  <2>2. \E P : u = With(s, P)
    BY <1>4 DEF Effect
  <2>3. u.alias = s.alias /\ u.nilable = s.nilable
    BY <1>0, <2>2 DEF With, ScopeType
  <2>. QED
    BY <2>1, <2>3 DEF Copies, Copied, Named
<1>5. CASE st.op \in {"use", "skip"}
  <2>1. u = s
    BY <1>5 DEF Effect
  <2>2. n = m
    BY <1>5 DEF After
  <2>. QED
    BY <2>1, <2>2
<1>. QED
  BY <1>1, <1>2, <1>3, <1>4, <1>5 DEF IsStatement

\* A dereference of one of them that panics marks the receiver.
LEMMA CopyMarked ==
    ASSUME NEW s, NEW m, Fits(s, m), NEW r \in Locals, Receiver = <<r>>, Copies(r, s, m),
           NEW st, IsStatement(st), NEW b \in Faults(st, s, m), IsBare(b), b[1] \in m.origin
    PROVE  \E ch \in StmtChecks(st, s) : ch.base = b /\ MarksReceiver(ch, s, Receiver)
<1>. DEFINE l == b[1]  checks == StmtChecks(st, s)  p == Canonical(b, s.alias)
<1>0. s \in ScopeType /\ m \in MemoryType /\ Sound(s, m)
  BY DEF Fits
<1>1. Caught(b, checks, s, m)
  BY <1>0, StatementCaught
<1>2. PICK ch \in checks : ch.base = b /\ ~ch.safe /\ Vouched(ch.extra, s, m)
  BY <1>1 DEF Caught
<1>3. l \in Locals /\ Named(l, r, s) /\ m.env[l] = Nil /\ b \in Expr
  BY <1>1 DEF Caught, Copies, Copied
<1>4. b = <<l>>
  <2>1. b \in Seq(Word) /\ Len(b) = 1
    BY <1>3, ExprParts DEF IsBare
  <2>. QED
    BY <2>1
<1>5. p = <<r>>
  <2>1. CASE s.alias[l] = NoPath
    <3>1. p = b
      BY <2>1, Zenon DEF Canonical
    <3>. QED
      BY <1>3, <1>4, <2>1, <3>1 DEF Named
  <2>2. CASE s.alias[l] # NoPath
    <3>1. p = s.alias[l] \o Tail(b)
      BY <2>2, Zenon DEF Canonical
    <3>2. Tail(b) = <<>>
      <4>1. Tail(<<l>>) = <<>>
        OBVIOUS
      <4>. HIDE DEF l
      <4>. QED
        BY <1>4, <4>1
    <3>3. s.alias[l] = <<r>>
      BY <1>3, <2>2 DEF Named
    <3>4. <<r>> \o <<>> = <<r>>
      OBVIOUS
    <3>. QED
      BY <3>1, <3>2, <3>3, <3>4
  <2>. QED
    BY <2>1, <2>2
<1>6. p \notin s.proven \cup ch.extra
  <2>1. Eval(b, m) = Nil
    <3>1. Eval(<<l>>, m) = m.env[l]
      BY <1>3, LocalIsExpr, EvalFromEmpty DEF Eval
    <3>. QED
      BY <1>3, <1>4, <3>1
  <2>2. Meaning(p, s, m) = Nil
    BY <1>0, <1>3, <2>1, SoundCanonical
  <2>. HIDE DEF p
  <2>. QED
    BY <1>0, <1>2, <2>2 DEF Sound, Vouched
<1>. HIDE DEF checks, p
<1>7. MarksReceiver(ch, s, Receiver)
  BY <1>2, <1>5, <1>6 DEF MarksReceiver, p
<1>. QED
  BY <1>2, <1>7 DEF checks

-----------------------------------------------------------------------------
(* Function bodies without compound statements.                            *)

Straight ==
    /\ frames = <<>> /\ sc \in ScopeType /\ mem \in MemoryType \cup {Dead}
    /\ mem # Dead => /\ Fits(sc, mem) /\ (Receiver = NoPath => Shown(sc, mem))
                     /\ \A r \in Locals : Receiver = <<r>> => Copies(r, sc, mem)
    /\ Reported(fault) /\ (Receiver = NoPath => ShownFault(fault))
    /\ Receiver # NoPath /\ fault.visible => fault.marked

StraightInv == lang \in Languages /\ (MaxDepth = 0 => Straight)

LEMMA BodyIsLanguage ==
    ASSUME lang \in Languages
    PROVE  /\ Names \subseteq Expr /\ Params \cup Declared \cup Addressed \subseteq Locals
           /\ \A st \in Stmts : IsStatement(st) /\ \A t \in Targets(st) : Proper(t) \subseteq Names
<1>1. Language(lang)
  BY WalkAssumption
<1>2. Stmts \subseteq StatementsOf(lang)
  BY DEF Stmts, StatementsOf
<1>. QED
  BY <1>1, <1>2 DEF Language, Names, Params, Declared, Addressed, Typed

LEMMA MethodIsLanguage ==
    ASSUME lang \in Languages, Receiver # NoPath
    PROVE  \E r \in Locals \ (Errors \cup Ifaces) :
              Receiver = <<r>> /\ Receiver[1] = r /\ Declared = {} /\ \A st \in Stmts : ~MakesNil(st)
<1>1. Language(lang)
  BY WalkAssumption
<1>2. Stmts \subseteq StatementsOf(lang)
  BY DEF Stmts, StatementsOf
<1>. QED
  BY <1>1, <1>2 DEF Language, Declared, Receiver

LEMMA StraightInit == Init => StraightInv
<1>. SUFFICES ASSUME Init PROVE Straight /\ lang \in Languages
  BY DEF StraightInv
<1>1. lang \in Languages /\ frames = <<>> /\ fault = NoFault
  BY DEF Init
<1>2. PICK decl \in SUBSET Declared :
         /\ sc = VarDecl(NewScope, decl)
         /\ \E e \in [Locals -> Value], h \in [Objects -> [Slots -> Objects \cup {Nil}]] :
              /\ \A l \in Locals : e[l] \in IF l \in Params \ decl THEN ValuesOf(l) ELSE {Nil}
              /\ \A o \in Objects, s \in Slots \ lang.slots : h[o][s] = Nil
              /\ mem = Collect([env |-> e, heap |-> h,
                                origin |-> decl \cup IF Receiver = NoPath THEN {} ELSE {Receiver[1]}])
  BY DEF Init
<1>3. PICK e \in [Locals -> Value], h \in [Objects -> [Slots -> Objects \cup {Nil}]] :
         /\ \A l \in Locals : e[l] \in IF l \in Params \ decl THEN ValuesOf(l) ELSE {Nil}
         /\ mem = Collect([env |-> e, heap |-> h,
                           origin |-> decl \cup IF Receiver = NoPath THEN {} ELSE {Receiver[1]}])
  BY <1>2
<1>. DEFINE q == decl \cup IF Receiver = NoPath THEN {} ELSE {Receiver[1]}
            m == [env |-> e, heap |-> h, origin |-> q]
<1>4. decl \in SUBSET Locals /\ q \in SUBSET Locals
  BY <1>1, BodyIsLanguage, MethodIsLanguage
<1>5. mem = Collect(m)
  BY <1>3
<1>. HIDE DEF q
<1>6. m \in MemoryType /\ m.env = e
  BY <1>4 DEF MemoryType
<1>. HIDE DEF m
<1>7. \A l \in Locals : m.env[l] \in ValuesOf(l) /\ (l \in decl => m.env[l] = Nil)
  BY <1>3, <1>6 DEF ValuesOf
<1>8. Fits(sc, mem)
  BY <1>2, <1>4, <1>5, <1>6, <1>7, StartFits
<1>9. /\ sc.proven = {}
      /\ \A l \in Locals : sc.alias[l] = NoPath /\ sc.nilable[l] = IF l \in decl THEN "isNil" ELSE "unknown"
  <2>1. sc = VarDecl(NewScope, decl)
    BY <1>2
  <2>. QED
    BY <1>4, <2>1, DeclaredScope
<1>10. ASSUME Receiver = NoPath PROVE Shown(sc, mem)
  <2>1. m.origin = decl
    BY <1>10 DEF m, q
  <2>2. mem.origin \subseteq decl /\ \A l \in mem.origin : l \in Locals /\ mem.env[l] \in {Nil, TypedNil}
    BY <1>5, <1>6, <2>1, CollectOrigin
  <2>. QED
    BY <1>4, <1>9, <2>2 DEF Shown, Flagged
<1>11. ASSUME NEW r \in Locals, Receiver = <<r>> PROVE Copies(r, sc, mem)
  <2>1. Receiver # NoPath
    BY <1>11 DEF NoPath
  <2>2. r \notin Errors \cup Ifaces /\ Receiver[1] = r /\ decl = {}
    BY <1>1, <1>4, <1>11, <2>1, MethodIsLanguage
  <2>3. m.origin = {r}
    BY <2>1, <2>2 DEF m, q
  <2>4. mem.env = m.env
    BY <1>5, <1>6, CollectAgrees DEF Agrees
  <2>5. mem.origin \subseteq {r} /\ \A l \in mem.origin : mem.env[l] \in {Nil, TypedNil}
    BY <1>5, <1>6, <2>3, CollectOrigin
  <2>6. r \in mem.origin => mem.env[r] = Nil
    BY <1>7, <1>11, <2>2, <2>4, <2>5, MemoryAssumption DEF ValuesOf
  <2>7. \A l \in Locals : sc.alias[l] = NoPath /\ sc.nilable[l] = "unknown"
    BY <1>9, <2>2
  <2>. QED
    BY <2>5, <2>6, <2>7 DEF Copies, Copied, Named
<1>. QED
  BY <1>1, <1>8, <1>10, <1>11, NoFaultReported DEF Straight, Fits

LEMMA StraightSimple ==
    ASSUME Wild = {}, lang \in Languages, Straight, NEW st \in Stmts, Simple(st)
    PROVE  Straight'
<1>1. mem # Dead /\ frames = <<>> /\ Fits(sc, mem) /\ sc \in ScopeType
  BY DEF Straight, Simple, Running
<1>2. IsStatement(st) /\ \A t \in Targets(st) : Proper(t) \subseteq Names
  BY BodyIsLanguage
<1>3. /\ Follows(st, sc, mem) /\ sc' = Effect(st, sc)
      /\ st.op = "guard" /\ st.how # "return" => CanBreak
      /\ Run(st, sc, mem, Wrote(Targets(st)))
  BY DEF Simple
<1>4. Run(st, sc, mem, <<>>)
  <2>1. Wrote(Targets(st)) = <<>>
    BY <1>1 DEF Wrote
  <2>. QED
    BY <1>3, <2>1
<1>5. sc' \in ScopeType
  BY <1>1, <1>2, <1>3, EffectTyped
<1>6. Receiver' = Receiver
  BY DEF Simple, Receiver
<1>7. CASE \E b \in Faults(st, sc, mem) :
              mem' = Dead /\ frames' = <<>> /\ fault' = FaultAt(b, StmtChecks(st, sc), sc, mem)
  <2>1. PICK b \in Faults(st, sc, mem) :
           mem' = Dead /\ frames' = <<>> /\ fault' = FaultAt(b, StmtChecks(st, sc), sc, mem)
    BY <1>7
  <2>2. Caught(b, StmtChecks(st, sc), sc, mem)
    BY <1>1, <1>2, StatementCaught DEF Fits
  <2>3. Reported(FaultAt(b, StmtChecks(st, sc), sc, mem))
    BY <1>1, <2>2, FaultReported
  <2>4. ASSUME Receiver = NoPath PROVE ShownFault(FaultAt(b, StmtChecks(st, sc), sc, mem))
    <3>1. Shown(sc, mem)
      BY <1>1, <2>4 DEF Straight
    <3>2. IsBare(b) /\ b[1] \in mem.origin => \E ch \in StmtChecks(st, sc) : ch.base = b /\ IsReported(ch, sc)
      BY <1>1, <1>2, <1>3, <3>1, ShownReported
    <3>. QED
      BY <3>2 DEF ShownFault, FaultAt
  <2>5. ASSUME Receiver # NoPath PROVE LET f == FaultAt(b, StmtChecks(st, sc), sc, mem) IN f.visible => f.marked
    <3>1. PICK r \in Locals : Receiver = <<r>>
      BY <2>5, MethodIsLanguage
    <3>2. Copies(r, sc, mem)
      BY <1>1, <3>1 DEF Straight
    <3>3. IsBare(b) /\ b[1] \in mem.origin => \E ch \in StmtChecks(st, sc) : ch.base = b /\ MarksReceiver(ch, sc, Receiver)
      BY <1>1, <1>2, <3>1, <3>2, CopyMarked
    <3>. QED
      BY <3>3 DEF FaultAt
  <2>. QED
    BY <1>5, <1>6, <2>1, <2>3, <2>4, <2>5 DEF Straight
<1>8. CASE \E n \in After(st, sc, mem) : mem' = n /\ frames' = <<>> /\ fault' = NoFault
  <2>1. Fits(sc', mem')
    BY <1>1, <1>2, <1>3, <1>8, StatementFits
  <2>2. Shown(sc, mem) => Shown(sc', mem')
    BY <1>1, <1>2, <1>3, <1>8, StatementShown
  <2>3. ASSUME NEW r \in Locals, Receiver = <<r>> PROVE Copies(r, sc', mem')
    <3>1. ~MakesNil(st)
      BY <2>3, MethodIsLanguage DEF NoPath
    <3>2. Copies(r, sc, mem)
      BY <1>1, <2>3 DEF Straight
    <3>. QED
      BY <1>1, <1>2, <1>3, <1>8, <2>3, <3>1, <3>2, StatementCopies
  <2>. QED
    BY <1>1, <1>5, <1>6, <1>8, <2>1, <2>2, <2>3, NoFaultReported DEF Straight, Fits
<1>9. CASE Leaves(st, mem) /\ mem' = Dead /\ frames' = Left(st.how, mem, <<>>) /\ fault' = NoFault
  <2>1. st.how = "return"
    BY <1>1, <1>3, <1>9 DEF Leaves, CanBreak
  <2>2. Left("return", mem, <<>>) = <<>>
    BY DEF Left
  <2>. QED
    BY <1>5, <1>9, <2>1, <2>2, NoFaultReported DEF Straight
<1>10. CASE Stops(st, mem) /\ mem' = Dead /\ frames' = <<>> /\ fault' = NoFault
  BY <1>5, <1>10, NoFaultReported DEF Straight
<1>. QED
  BY <1>1, <1>4, <1>7, <1>8, <1>9, <1>10, Zenon DEF Run

\* Nothing else can be added at depth 0.
LEMMA OnlySimple ==
    ASSUME frames = <<>>, MaxDepth = 0, Next
    PROVE  \E st \in Stmts : Simple(st)
<1>1. Len(frames) = 0
  BY DEF Next
<1>2. ~CanOpen
  BY <1>1 DEF CanOpen
<1>3. ASSUME NEW how PROVE ~Leave(how)
  BY DEF Leave
<1>4. ASSUME NEW h PROVE ~OpenIf(h)
  BY <1>1 DEF OpenIf
<1>5. ~TakeCond /\ ~EndIf /\ ~EndBlock /\ ~EndClosure /\ ~ReadTag /\ ~OpenDefault /\ ~EndClause /\ ~EndSwitch /\ ~EndLoop
  BY DEF TakeCond, EndIf, EndBlock, EndClosure, ReadTag, OpenDefault, EndClause, EndSwitch, EndLoop
<1>6. ASSUME NEW kind PROVE ~Else(kind)
  BY DEF Else
<1>7. ASSUME NEW kind PROVE ~OpenOther(kind)
  BY <1>2 DEF OpenOther
<1>8. ASSUME NEW h PROVE ~OpenSwitch(h)
  BY <1>2 DEF OpenSwitch
<1>9. ASSUME NEW list PROVE ~OpenClause(list)
  BY DEF OpenClause
<1>10. ASSUME NEW st PROVE ~OpenComm(st)
  BY DEF OpenComm
<1>11. ASSUME NEW h, NEW body PROVE ~OpenLoop(h, body)
  BY <1>2 DEF OpenLoop
<1>12. ASSUME NEW pc PROVE ~Loop(pc)
  BY DEF Loop
<1>13. ~LoopTest /\ ~LoopPost
  BY <1>12 DEF LoopTest, LoopPost
<1>14. ASSUME NEW pc PROVE ~LoopStep(pc)
  BY <1>12 DEF LoopStep
<1>. QED
  BY <1>3, <1>4, <1>5, <1>6, <1>7, <1>8, <1>9, <1>10, <1>11, <1>13, <1>14, Zenon DEF Next

LEMMA StraightStep ==
    ASSUME Wild = {}, StraightInv, [Next]_vars
    PROVE  StraightInv'
<1>1. CASE UNCHANGED vars
  BY <1>1 DEF vars, StraightInv, Straight, MaxDepth, Receiver
<1>2. CASE Next
  <2>1. lang' = lang
    BY <1>2 DEF Next, Simple, Leave, OpenIf, TakeCond, Else, EndIf, OpenOther, EndBlock, EndClosure, OpenSwitch,
                ReadTag, OpenClause, OpenDefault, OpenComm, EndClause, EndSwitch, OpenLoop, LoopTest, LoopStep, LoopPost, EndLoop
  <2>2. ASSUME MaxDepth = 0 PROVE Straight'
    <3>1. Straight /\ lang \in Languages
      BY <2>2 DEF StraightInv
    <3>2. PICK st \in Stmts : Simple(st)
      BY <1>2, <2>2, <3>1, OnlySimple DEF Straight
    <3>. QED
      BY <3>1, <3>2, StraightSimple
  <2>. QED
    BY <2>1, <2>2 DEF StraightInv, MaxDepth
<1>. QED
  BY <1>1, <1>2

LEMMA StraightKept == ASSUME Wild = {} PROVE Spec => []StraightInv
<1>1. StraightInv /\ [Next]_vars => StraightInv'
  BY StraightStep
<1>. QED
  BY StraightInit, <1>1, PTL DEF Spec

-----------------------------------------------------------------------------
(* Statements and conditions, wherever the execution is.                   *)

AllClear(P, s) == \A k \in P : Clear(k, s)

LEMMA GuardsClear ==
    ASSUME NEW s \in ScopeType, WellFormed(s)
    PROVE  \A c \in Conds : AllClear(NilGuards(c, s).t, s) /\ AllClear(NilGuards(c, s).f, s)
<1>1. PICK g \in [Conds -> Guards] : \A d \in Conds : NilGuards(d, s) = g[d] /\ GuardsOf(d, g, s, g[d])
  BY NilGuardsAre
<1>. DEFINE P == {c \in Conds : AllClear(g[c].t, s) /\ AllClear(g[c].f, s)}
<1>2. ASSUME NEW c \in Conds, \A e \in Conds : Ranks[e] < Ranks[c] => e \in P
      PROVE  c \in P
  <2>1. \A e \in Conds : Operators[e] < Operators[c] => AllClear(g[e].t, s) /\ AllClear(g[e].f, s)
    BY <1>2, RanksTyped
  <2>2. GuardsOf(c, g, s, g[c])
    BY <1>1
  <2>3. c.k \in {"eq", "ne", "isnil"} => Clear(Canonical(c.e, s.alias), s)
    <3>1. c.k \in {"eq", "ne", "isnil"} => c.e \in Expr
      BY CondParts
    <3>. QED
      BY <3>1, CanonicalIsClear DEF WellFormed
  <2>4. CASE c.k \in {"test", "any", "nil"}
    <3>1. g[c] = NoGuard
      BY <2>2, <2>4 DEF GuardsOf
    <3>. QED
      BY <3>1 DEF NoGuard, AllClear
  <2>5. CASE c.k \in {"eq", "ne"}
    <3>. DEFINE path == Canonical(c.e, s.alias)
                implied == IF IsBare(path) THEN s.errProof[path[1]] ELSE {}
    <3>1. g[c] = IF c.k = "ne" THEN [t |-> {path}, f |-> implied] ELSE [t |-> implied, f |-> {path}]
      <4>1. g[c] = ComparisonGuards(c, s)
        BY <2>2, <2>5 DEF GuardsOf
      <4>. QED
        BY <4>1, Zenon DEF ComparisonGuards
    <3>2. Clear(path, s)
      BY <2>3, <2>5
    <3>3. path[1] \in Locals
      BY <3>2, ClearParts DEF WellFormed
    <3>4. AllClear(implied, s)
      BY <3>3 DEF AllClear, WellFormed, Knows
    <3>. HIDE DEF path, implied
    <3>5. \/ g[c].t = {path} /\ g[c].f = implied
          \/ g[c].t = implied /\ g[c].f = {path}
      BY <3>1
    <3>. QED
      BY <3>2, <3>4, <3>5 DEF AllClear
  <2>6. CASE c.k = "isnil"
    <3>1. g[c] = [t |-> {}, f |-> {Canonical(c.e, s.alias)}]
      BY <2>2, <2>6 DEF GuardsOf
    <3>. QED
      BY <2>3, <2>6, <3>1 DEF AllClear
  <2>7. CASE c.k = "not"
    <3>1. g[c].t = g[c.c].f /\ g[c].f = g[c.c].t
      BY <2>2, <2>7 DEF GuardsOf
    <3>. QED
      BY <2>1, <2>7, <3>1, CondParts
  <2>8. CASE c.k = "and"
    <3>1. g[c].t = g[c.l].t \cup g[c.r].t /\ g[c].f = {}
      BY <2>2, <2>8 DEF GuardsOf
    <3>2. AllClear(g[c.l].t, s) /\ AllClear(g[c.r].t, s)
      BY <2>1, <2>8, CondParts
    <3>. QED
      BY <3>1, <3>2 DEF AllClear
  <2>9. CASE c.k = "or"
    <3>1. g[c].f = g[c.l].f \cup g[c.r].f /\ g[c].t = {}
      BY <2>2, <2>9 DEF GuardsOf
    <3>2. AllClear(g[c.l].f, s) /\ AllClear(g[c.r].f, s)
      BY <2>1, <2>9, CondParts
    <3>. QED
      BY <3>1, <3>2 DEF AllClear
  <2>. QED
    BY <2>4, <2>5, <2>6, <2>7, <2>8, <2>9, CondParts DEF ConditionKinds
<1>. HIDE DEF P
<1>3. Conds \subseteq P
  BY <1>2, RanksTyped, RankInduction
<1>. QED
  BY <1>1, <1>3 DEF P

\* The name of a local is written.
LEMMA LocalPart ==
    ASSUME NEW s \in ScopeType, WellFormed(s), NEW x \in Locals,
           \A k : Knows(s, k) /\ k[1] = x => AtOrUnder(<<x>>, k),
           NEW t, t = InvalidateTarget(s, <<x>>)
    PROVE  t \in ScopeType /\ PartOf(t, s) /\ Free(x, t) /\ t.nilable[x] = "unknown"
<1>1. /\ t \in ScopeType /\ t.proven = {k \in s.proven : ~AtOrUnder(<<x>>, k)}
      /\ t.alias[x] = NoPath /\ t.errProof[x] = {} /\ t.nilable[x] = "unknown"
      /\ \A l \in Locals \ {x} :
            /\ t.alias[l] = IF AtOrUnder(<<x>>, s.alias[l]) THEN NoPath ELSE s.alias[l]
            /\ t.errProof[l] = {k \in s.errProof[l] : ~AtOrUnder(<<x>>, k)}
            /\ t.nilable[l] = s.nilable[l]
  BY InvalidateLocalFields
<1>2. IsLess(s, t)
  BY <1>1 DEF IsLess
<1>3. \A k : Knows(t, k) => Knows(s, k)
  BY <1>2, LessKnown
<1>4. \A k : Knows(t, k) => ~AtOrUnder(<<x>>, k)
  BY <1>1 DEF Knows
<1>5. \A k : Knows(t, k) => k[1] # x
  BY <1>3, <1>4
<1>6. Free(x, t)
  BY <1>1, <1>5 DEF Free
<1>7. AliasesClear(s) /\ \A k : Knows(s, k) => Clear(k, s)
  BY DEF WellFormed
<1>8. ASSUME NEW k, Knows(t, k) PROVE Root(k[1], t) = Root(k[1], s)
  <2>1. Clear(k, s) /\ k[1] # x /\ k[1] \in Locals /\ Root(k[1], s)[1] = k[1]
    BY <1>3, <1>5, <1>7, <1>8, ClearParts
  <2>2. CASE s.alias[k[1]] = NoPath
    BY <1>1, <2>1, <2>2 DEF Root
  <2>3. CASE s.alias[k[1]] # NoPath
    <3>1. s.alias[k[1]][1] = k[1]
      BY <2>1, <2>3 DEF Root
    <3>2. ~AtOrUnder(<<x>>, s.alias[k[1]])
      <4>. DEFINE a == s.alias[k[1]]
      <4>1. a[1] # x
        BY <2>1, <3>1
      <4>2. a # <<x>>
        BY <4>1
      <4>3. a \in Expr
        BY <1>7, <2>1, <2>3 DEF AliasesClear, Clear
      <4>. HIDE DEF a
      <4>4. a \in Seq(Word) /\ Len(a) \in Nat /\ Len(a) >= 1
        BY <4>3, ExprParts
      <4>5. SubSeq(a, 1, Len(<<x>>)) # <<x>>
        <5>1. Len(<<x>>) = 1 /\ <<x>>[1] = x
          OBVIOUS
        <5>2. SubSeq(a, 1, 1)[1] = a[1]
          BY <4>4
        <5>. QED
          BY <4>1, <5>1, <5>2
      <4>6. ~AtOrUnder(<<x>>, a)
        BY <4>2, <4>5 DEF AtOrUnder, Under
      <4>. QED
        BY <4>6 DEF a
    <3>. QED
      BY <1>1, <2>1, <2>3, <3>2 DEF Root
  <2>. QED
    BY <2>2, <2>3
<1>. QED
  BY <1>1, <1>2, <1>6, <1>8 DEF PartOf

\* A field is written.
LEMMA FieldPart ==
    ASSUME NEW s \in ScopeType, WellFormed(s), NEW lhs \in Expr, ~IsBare(lhs), Stars(lhs, s),
           NEW t, t = InvalidateTarget(s, lhs)
    PROVE  t \in ScopeType /\ PartOf(t, s)
<1>. DEFINE p == Canonical(lhs, s.alias)
<1>1. CASE Last(lhs) = Star
  <2>1. t = s
    BY <1>1 DEF InvalidateTarget, Last
  <2>. QED
    BY <2>1, PartItself
<1>2. CASE Last(lhs) # Star
  <2>1. t = Invalidate(s, {p})
    BY <1>2 DEF InvalidateTarget, Last
  <2>2. p \in Expr
    BY CanonicalIsClear DEF WellFormed, Clear
  <2>3. p \in Seq(Word)
    BY <2>2, ExprParts
  <2>4. \A k \in Known(s) : IsPrefix(p, k) => \A j \in Len(p) + 1..Len(k) : k[j] # Star
    BY DEF Stars
  <2>. HIDE DEF p
  <2>5. t \in ScopeType /\ Invalidated(s, {p}, t)
    BY <2>1, InvalidateFields
  <2>6. ASSUME NEW k, Knows(t, k), IsPrefix(p, k) PROVE FALSE
    <3>1. Knows(s, k) /\ ~Falsified({p}, k)
      BY <2>5, <2>6 DEF Invalidated, Knows
    <3>2. ~AtOrUnder(p, k)
      BY <3>1 DEF Falsified
    <3>3. k \in Known(s) /\ k \in Seq(Word)
      BY <3>1, KnownIs DEF Path, Word
    <3>4. \A j \in Len(p) + 1..Len(k) : k[j] # Star
      BY <2>4, <2>6, <3>3
    <3>. QED
      BY <2>3, <2>6, <3>2, <3>3, <3>4, PrefixIsUnder
  <2>7. Spared({p}, t)
    BY <2>3, <2>6 DEF Spared
  <2>. QED
    BY <2>1, <2>5, <2>7, SparedIsPart
<1>. QED
  BY <1>1, <1>2

\* The same is known of paths.
SameKnown(s, t) == t.proven = s.proven /\ t.alias = s.alias /\ t.errProof = s.errProof

LEMMA SameWellFormed ==
    ASSUME NEW s, NEW t, SameKnown(s, t), WellFormed(s)
    PROVE  WellFormed(t)
<1>1. \A k : Knows(t, k) <=> Knows(s, k)
  BY DEF SameKnown, Knows
<1>2. \A k : Clear(k, t) <=> Clear(k, s)
  BY DEF SameKnown, Clear, Root, Rest
<1>. QED
  BY <1>1, <1>2 DEF WellFormed, AliasesClear, SameKnown

\* Nothing is known about x yet.
Untold(x, s) == Free(x, s) /\ s.nilable[x] = "unknown"

LEMMA CheckedPart ==
    ASSUME NEW s \in ScopeType, WellFormed(s), NEW x \in Locals, Untold(x, s),
           NEW P \in SUBSET Path, AllClear(P, s), NEW t, t = Checked(s, x, P)
    PROVE  WellFormed(t) /\ PartOf(s, t)
<1>. DEFINE q == [s.errProof EXCEPT ![x] = P]
<1>1. q \in ErrProofs /\ q[x] = P /\ \A l \in Locals : l = x \/ q[l] = s.errProof[l]
  BY ScopeFields DEF ErrProofs
<1>2. t = [s EXCEPT !.errProof = q]
  BY DEF Checked
<1>. HIDE DEF q
<1>3. t.proven = s.proven /\ t.alias = s.alias /\ t.errProof = q /\ t.nilable = s.nilable
  BY <1>1, <1>2, WithErrProofs
<1>4. \A k : Knows(t, k) => Knows(s, k) \/ k \in P
  BY <1>1, <1>3 DEF Knows
<1>5. \A k : Clear(k, t) <=> Clear(k, s)
  BY <1>3 DEF Clear, Root, Rest
<1>6. WellFormed(t)
  BY <1>3, <1>4, <1>5 DEF WellFormed, AliasesClear, AllClear
<1>7. IsLess(t, s)
  <2>1. s.errProof[x] = {}
    BY DEF Untold, Free
  <2>. QED
    BY <1>1, <1>3, <2>1 DEF IsLess
<1>8. \A l : Root(l, t) = Root(l, s)
  BY <1>3 DEF Root
<1>. QED
  BY <1>6, <1>7, <1>8 DEF PartOf

LEMMA MarkNilPart ==
    ASSUME NEW s \in ScopeType, WellFormed(s), NEW x \in Locals, s.nilable[x] = "unknown",
           NEW state \in NilState, NEW t, t = MarkNil(s, x, state)
    PROVE  WellFormed(t) /\ PartOf(s, t)
<1>. DEFINE q == [s.nilable EXCEPT ![x] = state]
<1>1. q \in NilStates /\ \A l \in Locals : l = x \/ q[l] = s.nilable[l]
  BY ScopeFields DEF NilStates
<1>2. t = [s EXCEPT !.nilable = q]
  BY DEF MarkNil
<1>. HIDE DEF q
<1>3. t.proven = s.proven /\ t.alias = s.alias /\ t.errProof = s.errProof /\ t.nilable = q
  BY <1>1, <1>2, WithNilStates
<1>4. WellFormed(t)
  BY <1>3, SameWellFormed DEF SameKnown
<1>5. IsLess(t, s)
  BY <1>1, <1>3 DEF IsLess
<1>6. \A l : Root(l, t) = Root(l, s)
  BY <1>3 DEF Root
<1>. QED
  BY <1>4, <1>5, <1>6 DEF PartOf

LEMMA RenamedPart ==
    ASSUME NEW s \in ScopeType, WellFormed(s), NEW x \in Locals, Free(x, s), NEW p, Clear(p, s),
           NEW t, t = Renamed(s, x, p)
    PROVE  WellFormed(t) /\ PartOf(s, t)
<1>0. p \in Expr /\ p \in Path /\ p # <<>>
  BY ExprParts DEF Clear, Expr
<1>. DEFINE a == [s.alias EXCEPT ![x] = p]
<1>1. a \in Aliases /\ a[x] = p /\ \A l \in Locals : l = x \/ a[l] = s.alias[l]
  BY <1>0, ScopeFields DEF Aliases
<1>2. t = [s EXCEPT !.alias = a]
  BY DEF Renamed
<1>. HIDE DEF a
<1>3. t.proven = s.proven /\ t.alias = a /\ t.errProof = s.errProof /\ t.nilable = s.nilable
  BY <1>1, <1>2, WithAliases
<1>4. \A l \in Locals : l # x => Root(l, t) = Root(l, s)
  BY <1>1, <1>3 DEF Root
<1>5. \A k : Knows(s, k) => k[1] # x /\ k[1] \in Locals
  BY KnownPath DEF Free
<1>6. ASSUME NEW k, k[1] # x, k[1] \in Locals, Clear(k, s) PROVE Clear(k, t)
  BY <1>4, <1>6, SameRoot
<1>7. Clear(p, t)
  <2>1. CASE p[1] # x
    <3>1. p[1] \in Locals
      BY <1>0, ExprParts
    <3>. QED
      BY <1>6, <2>1, <3>1
  <2>2. CASE p[1] = x
    <3>1. Root(x, t) = p
      BY <1>0, <1>1, <1>3 DEF Root, NoPath
    <3>2. p \in Seq(Word)
      BY <1>0, ExprParts
    <3>3. SubSeq(p, Len(p) + 1, Len(p)) = <<>> /\ p \o <<>> = p
      BY <3>2
    <3>4. Rest(p, t) = <<>>
      BY <2>2, <3>1, <3>3 DEF Rest
    <3>. QED
      BY <1>0, <2>2, <3>1, <3>3, <3>4 DEF Clear
  <2>. QED
    BY <2>1, <2>2
<1>8. \A k : Knows(t, k) => Knows(s, k) \/ k = p
  BY <1>1, <1>3 DEF Knows
<1>9. \A k : Knows(t, k) => Clear(k, t)
  BY <1>5, <1>6, <1>7, <1>8 DEF WellFormed
<1>10. WellFormed(t)
  BY <1>9 DEF WellFormed, AliasesClear, Knows
<1>11. IsLess(t, s)
  <2>1. s.alias[x] = NoPath
    BY DEF Free
  <2>. QED
    BY <1>1, <1>3, <2>1 DEF IsLess
<1>. QED
  BY <1>4, <1>5, <1>10, <1>11 DEF PartOf

LEMMA NewPathsClear ==
    ASSUME NEW s \in ScopeType, WellFormed(s), NEW lhs \in Expr, NEW set, set \subseteq Slots
    PROVE  AllClear(NewPaths(lhs, set, s), s)
<1>. SUFFICES ASSUME NEW k \in NewPaths(lhs, set, s) PROVE Clear(k, s)
  BY DEF AllClear
<1>0. AliasesClear(s)
  BY DEF WellFormed
<1>1. CASE k = Canonical(lhs, s.alias)
  BY <1>0, <1>1, CanonicalIsClear
<1>2. ASSUME NEW f \in set, k = Canonical(lhs, s.alias) \o <<f>> PROVE Clear(k, s)
  <2>1. f \in Slots
    OBVIOUS
  <2>2. lhs \o <<f>> \in Expr /\ Canonical(lhs \o <<f>>, s.alias) = Canonical(lhs, s.alias) \o <<f>>
    BY <1>0, <2>1, SelectField
  <2>. QED
    BY <1>0, <1>2, <2>2, CanonicalIsClear
<1>. QED
  BY <1>1, <1>2 DEF NewPaths

LEMMA WithPart ==
    ASSUME NEW s \in ScopeType, WellFormed(s), NEW P, AllClear(P, s), NEW t, t = With(s, P)
    PROVE  WellFormed(t) /\ PartOf(s, t)
<1>1. P \in SUBSET Path
  BY DEF AllClear, Clear, Expr
<1>. QED
  BY <1>1, PartOfWith, WithWellFormed DEF AllClear

\* What is recorded of a target just written is only added.
LEMMA RecordPart ==
    ASSUME NEW s \in ScopeType, WellFormed(s), NEW lhs \in Typed, NEW rhs, Assignable(lhs, rhs),
           IsBare(lhs) => Untold(lhs[1], s), NEW t, t = RecordAssignment(lhs, rhs, s)
    PROVE  WellFormed(t) /\ PartOf(s, t)
<1>. DEFINE x == lhs[1]  path == Canonical(lhs, s.alias)  e == rhs.e
            news == {path} \cup {path \o <<f>> : f \in rhs.set}
            proof == ValidatorProof(rhs, s)  state == NilOriginState(lhs, rhs, s)
<1>0. lhs \in Expr /\ x \in Locals /\ AliasesClear(s)
  BY ExprParts DEF Typed, WellFormed
<1>1. rhs.k \in {"path", "validate", "callif"} => e \in Expr /\ e[1] \in Locals
  BY ExprParts DEF Assignable, Typed
<1>2. rhs.k = "new" => AllClear(news, s)
  <2>1. rhs.k = "new" => rhs.set \subseteq Slots
    BY DEF Assignable
  <2>. QED
    BY <1>0, <2>1, NewPathsClear DEF NewPaths
<1>3. AllClear(proof, s)
  <2>1. CASE rhs.k = "validate"
    <3>1. AllClear(NewPaths(e, Validated, s), s)
      BY <1>1, <2>1, MemoryAssumption, NewPathsClear
    <3>. QED
      BY <2>1, <3>1 DEF ValidatorProof, NewPaths, AllClear
  <2>2. CASE rhs.k # "validate"
    BY <2>2 DEF ValidatorProof, AllClear
  <2>. QED
    BY <2>1, <2>2
<1>4. proof \in SUBSET Path
  BY <1>3 DEF AllClear, Clear, Expr
<1>5. state \in NilState
  <2>1. rhs.k = "path" => s.nilable[e[1]] \in NilState
    BY <1>1, ScopeFields DEF NilStates
  <2>2. state \in {"isNil", "typedNil", "maybeNil", "unknown"} \/ (rhs.k = "path" /\ state = s.nilable[e[1]])
    BY DEF NilOriginState
  <2>. QED
    BY <2>1, <2>2 DEF NilState
<1>6. rhs.k = "path" => Clear(Canonical(e, s.alias), s)
  BY <1>0, <1>1, CanonicalIsClear
<1>7. \/ rhs.k = "new" /\ t = With(s, news)
      \/ t = s
      \/ IsBare(lhs) /\ t = Checked(s, x, proof)
      \/ IsBare(lhs) /\ t = MarkNil(s, x, state)
      \/ IsBare(lhs) /\ rhs.k = "path" /\ t = Renamed(s, x, Canonical(e, s.alias))
  BY Zenon DEF RecordAssignment, Checked, Renamed
<1>8. IsBare(lhs) => Untold(x, s) /\ Free(x, s) /\ s.nilable[x] = "unknown"
  BY DEF Untold
<1>. HIDE DEF x, path, e, news, proof, state
<1>9. CASE rhs.k = "new" /\ t = With(s, news)
  BY <1>2, <1>9, WithPart
<1>10. CASE t = s
  BY <1>10, PartItself
<1>11. CASE IsBare(lhs) /\ t = Checked(s, x, proof)
  BY <1>0, <1>3, <1>4, <1>8, <1>11, CheckedPart
<1>12. CASE IsBare(lhs) /\ t = MarkNil(s, x, state)
  BY <1>0, <1>5, <1>8, <1>12, MarkNilPart
<1>13. CASE IsBare(lhs) /\ rhs.k = "path" /\ t = Renamed(s, x, Canonical(e, s.alias))
  BY <1>0, <1>6, <1>8, <1>13, RenamedPart
<1>. QED
  BY <1>7, <1>9, <1>10, <1>11, <1>12, <1>13

\* Nothing else names x, and it is no checked error.
Unnamed(x, s) == s.alias[x] = NoPath /\ s.errProof[x] = {}

\* A part of what is known before x is written is one after.
LEMMA LocalOfPart ==
    ASSUME NEW s \in ScopeType, NEW z \in ScopeType, PartOf(z, s), NEW x \in Locals, Unnamed(x, z),
           NEW w, w = Invalidate(z, {<<x>>}), NEW t, t = InvalidateTarget(s, <<x>>)
    PROVE  PartOf(w, t)
<1>. DEFINE a == [s.alias EXCEPT ![x] = NoPath]  q == [s.errProof EXCEPT ![x] = {}]
            b == [s EXCEPT !.alias = a]  c == [b EXCEPT !.errProof = q]
<1>1. a \in Aliases /\ a[x] = NoPath /\ \A l \in Locals : l = x \/ a[l] = s.alias[l]
  BY ScopeFields DEF Aliases
<1>2. q \in ErrProofs /\ q[x] = {} /\ \A l \in Locals : l = x \/ q[l] = s.errProof[l]
  BY ScopeFields DEF ErrProofs
<1>3. t = Invalidate([s EXCEPT !.alias[x] = NoPath, !.errProof[x] = {}], {<<x>>})
  <2>1. IsBare(<<x>>) /\ <<x>>[1] = x
    BY DEF IsBare
  <2>. QED
    BY <2>1 DEF InvalidateTarget
<1>4. [s EXCEPT !.alias[x] = NoPath, !.errProof[x] = {}] = c
  <2>1. [s EXCEPT !.alias[x] = NoPath, !.errProof[x] = {}] = [s EXCEPT !.alias = a, !.errProof = q]
    OBVIOUS
  <2>. HIDE DEF a, q
  <2>. QED
    BY <2>1
<1>. HIDE DEF a, q
<1>5. b \in ScopeType /\ b.proven = s.proven /\ b.alias = a /\ b.errProof = s.errProof /\ b.nilable = s.nilable
  BY <1>1, WithAliases
<1>6. c = [b EXCEPT !.errProof = q]
  OBVIOUS
<1>. HIDE DEF b, c
<1>7. c \in ScopeType /\ c.proven = s.proven /\ c.alias = a /\ c.errProof = q /\ c.nilable = s.nilable
  BY <1>2, <1>5, <1>6, WithErrProofs
<1>8. IsLess(s, z)
  BY DEF PartOf
<1>9. z.alias[x] = NoPath /\ z.errProof[x] = {}
  BY DEF Unnamed
<1>10. IsLess(c, z)
  BY <1>1, <1>2, <1>7, <1>8, <1>9 DEF IsLess
<1>11. ASSUME NEW k, Knows(z, k) PROVE Root(k[1], z) = Root(k[1], c)
  <2>1. k[1] \in Locals /\ Root(k[1], z) = Root(k[1], s)
    BY <1>11, KnownPath DEF PartOf
  <2>2. CASE k[1] = x
    BY <1>1, <1>7, <1>9, <2>2 DEF Root
  <2>3. CASE k[1] # x
    BY <1>1, <1>7, <2>1, <2>3 DEF Root
  <2>. QED
    BY <2>2, <2>3
<1>12. PartOf(z, c)
  BY <1>10, <1>11 DEF PartOf
<1>. QED
  BY <1>3, <1>4, <1>7, <1>12, PartInvalidated

\* Forgetting names no local.
LEMMA StillUnnamed ==
    ASSUME NEW z \in ScopeType, NEW x \in Locals, Unnamed(x, z), NEW P, NEW w, w = Invalidate(z, P)
    PROVE  Unnamed(x, w)
<1>1. Invalidated(z, P, w)
  BY InvalidateFields
<1>. QED
  BY <1>1 DEF Invalidated, Unnamed

FirstTargets(lhs, i) == {lhs[j] : j \in 1..i}
AllUnnamed(lhs, z) == \A i \in 1..Len(lhs) : Unnamed(lhs[i][1], z)

LEMMA TargetsPart ==
    ASSUME NEW s \in ScopeType, WellFormed(s), NEW z \in ScopeType, PartOf(z, s),
           NEW lhs \in Seq(LocalTargets), \A i \in 1..Len(lhs) : Stars(lhs[i], s),
           NEW w, w = Invalidate(z, FirstTargets(lhs, Len(lhs))),
           NEW u, u = InvalidateTargets(lhs, s)
    PROVE  u \in ScopeType /\ WellFormed(u) /\ (AllUnnamed(lhs, z) => PartOf(w, u))
<1>2. PICK f \in [0..Len(lhs) -> ScopeType] :
         Unrolls(f, Len(lhs), s, TargetStep(lhs)) /\ InvalidateTargets(lhs, s) = f[Len(lhs)]
  BY TargetsUnroll
<1>4. Len(lhs) \in Nat
  OBVIOUS
<1>5. f[0] = s /\ \A i \in 1..Len(lhs) : f[i] = TargetStep(lhs)[i][f[i - 1]]
  <2>1. Unrolls(f, Len(lhs), s, TargetStep(lhs))
    BY <1>2
  <2>. QED
    BY ONLY <1>4, <2>1, RecursionStep
<1>7. \A i \in 1..Len(lhs) : \E x \in Locals : lhs[i] = <<x>>
  BY DEF LocalTargets
<1>. DEFINE y(i) == Invalidate(z, FirstTargets(lhs, i))
            P == {i \in 0..Len(lhs) : PartOf(f[i], s) /\ (AllUnnamed(lhs, z) => PartOf(y(i), f[i]))}
<1>8. 0 \in P
  <2>1. PartOf(s, s)
    BY PartItself
  <2>2. FirstTargets(lhs, 0) = {}
    BY DEF FirstTargets
  <2>3. y(0) = z
    BY <2>2, InvalidateNothing
  <2>. QED
    BY <1>4, <1>5, <2>1, <2>3
<1>9. ASSUME NEW i \in 0..Len(lhs) - 1, i \in P PROVE i + 1 \in P
  <2>1. i + 1 \in 1..Len(lhs) /\ (i + 1) - 1 = i /\ i \in 0..Len(lhs) /\ i + 1 \in 0..Len(lhs)
    BY <1>4
  <2>2. PICK x \in Locals : lhs[i + 1] = <<x>>
    BY <1>7, <2>1
  <2>3. f[i + 1] = InvalidateTarget(f[i], <<x>>)
    <3>1. f[i + 1] = TargetStep(lhs)[i + 1][f[i]]
      BY <1>5, <2>1
    <3>2. TargetStep(lhs)[i + 1][f[i]] = InvalidateTarget(f[i], lhs[i + 1])
      BY <1>2, <2>1, TargetStepTyped
    <3>. QED
      BY <2>2, <3>1, <3>2
  <2>4. f[i] \in ScopeType /\ f[i + 1] \in ScopeType /\ PartOf(f[i], s)
    BY <1>9, <2>1
  <2>5. \A k : Knows(s, k) /\ k[1] = x => AtOrUnder(<<x>>, k)
    BY <2>1, <2>2, LocalDiscipline
  <2>6. \A k : Knows(f[i], k) => Knows(s, k)
    BY <2>4, LessKnown DEF PartOf
  <2>7. \A k : Knows(f[i], k) /\ k[1] = x => AtOrUnder(<<x>>, k)
    BY <2>5, <2>6
  <2>8. WellFormed(f[i])
    BY <2>4, PartWellFormed
  <2>9. PartOf(f[i + 1], f[i])
    BY <2>3, <2>4, <2>7, <2>8, LocalPart
  <2>10. PartOf(f[i + 1], s)
    BY <2>4, <2>9, PartOfPart
  <2>11. ASSUME AllUnnamed(lhs, z) PROVE PartOf(y(i + 1), f[i + 1])
    <3>1. PartOf(y(i), f[i])
      BY <1>9, <2>11
    <3>2. FirstTargets(lhs, i + 1) = FirstTargets(lhs, i) \cup {<<x>>}
      <4>1. \A j : j \in 1..i + 1 <=> j \in 1..i \/ j = i + 1
        BY <1>4
      <4>. QED
        BY <2>2, <4>1 DEF FirstTargets
    <3>3. y(i + 1) = Invalidate(y(i), {<<x>>})
      BY <3>2, InvalidateTwice
    <3>4. Unnamed(x, z)
      <4>1. <<x>>[1] = x
        OBVIOUS
      <4>. QED
        BY <2>1, <2>2, <2>11, <4>1 DEF AllUnnamed
    <3>5. y(i) \in ScopeType
      BY InvalidateFields
    <3>. DEFINE v == y(i)
    <3>6. Unnamed(x, v) /\ v \in ScopeType /\ PartOf(v, f[i])
      BY <3>1, <3>4, <3>5, StillUnnamed
    <3>. HIDE DEF v
    <3>7. PartOf(Invalidate(v, {<<x>>}), f[i + 1])
      BY <2>3, <2>4, <3>6, LocalOfPart
    <3>. QED
      BY <3>3, <3>7 DEF v
  <2>. QED
    BY <2>1, <2>10, <2>11
<1>10. 0..Len(lhs) \subseteq P
  <2>. HIDE DEF P
  <2>. QED
    BY <1>4, <1>8, <1>9, InductionUpTo
<1>11. Len(lhs) \in P
  BY <1>4, <1>10
<1>12. u = f[Len(lhs)] /\ u \in ScopeType /\ PartOf(u, s)
  BY <1>2, <1>4, <1>11
<1>13. WellFormed(u)
  BY <1>12, PartWellFormed
<1>. QED
  BY <1>11, <1>12, <1>13

\* What is said of nils elsewhere changes nothing.
LEMMA RestatedPart ==
    ASSUME NEW s, NEW z, PartOf(z, s), NEW u, SameKnown(s, u),
           \A l \in Locals : z.nilable[l] \in {"isNil", "typedNil"} => u.nilable[l] = s.nilable[l]
    PROVE  PartOf(z, u)
<1>1. IsLess(s, z)
  BY DEF PartOf
<1>2. IsLess(u, z)
  BY <1>1 DEF IsLess, SameKnown
<1>3. \A l : Root(l, u) = Root(l, s)
  BY DEF Root, SameKnown
<1>. QED
  BY <1>2, <1>3 DEF PartOf

LEMMA DropNilPart ==
    ASSUME NEW s \in ScopeType, NEW names, NEW u, u = DropNil(s, names)
    PROVE  /\ u \in ScopeType /\ SameKnown(s, u)
           /\ \A l \in Locals : u.nilable[l] = IF l \in names THEN "unknown" ELSE s.nilable[l]
           /\ WellFormed(s) => WellFormed(u)
           /\ PartOf(u, s)
           /\ \A z : PartOf(z, s) /\ (\A l \in names : z.nilable[l] = "unknown") => PartOf(z, u)
<1>. DEFINE q == [l \in Locals |-> IF l \in names THEN "unknown" ELSE s.nilable[l]]
<1>1. u = [s EXCEPT !.nilable = q]
  BY DEF DropNil
<1>2. q \in NilStates
  BY ScopeFields DEF NilStates, NilState
<1>3. \A l \in Locals : q[l] = IF l \in names THEN "unknown" ELSE s.nilable[l]
  OBVIOUS
<1>. HIDE DEF q
<1>4. u \in ScopeType /\ u.proven = s.proven /\ u.alias = s.alias /\ u.errProof = s.errProof /\ u.nilable = q
  BY <1>1, <1>2, WithNilStates
<1>5. SameKnown(s, u)
  BY <1>4 DEF SameKnown
<1>6. PartOf(u, s)
  BY <1>3, <1>4 DEF PartOf, IsLess, Root
<1>7. ASSUME NEW z, PartOf(z, s), \A l \in names : z.nilable[l] = "unknown" PROVE PartOf(z, u)
  <2>1. \A l \in Locals : z.nilable[l] \in {"isNil", "typedNil"} => u.nilable[l] = s.nilable[l]
    BY <1>3, <1>4, <1>7
  <2>. QED
    BY <1>5, <1>7, <2>1, RestatedPart
<1>. QED
  BY <1>3, <1>4, <1>5, <1>6, <1>7, SameWellFormed

LEMMA ResultsPart ==
    ASSUME NEW s \in ScopeType, WellFormed(s), NEW z \in ScopeType, PartOf(z, s),
           NEW lhs \in Seq(LocalTargets), \A i \in 1..Len(lhs) : Stars(lhs[i], s), AllUnnamed(lhs, z),
           NEW nilable, NEW u, u = AssignResults(lhs, nilable, s),
           NEW w, w = Invalidate(z, FirstTargets(lhs, Len(lhs)))
    PROVE  WellFormed(u) /\ PartOf(w, u)
<1>. DEFINE t == InvalidateTargets(lhs, s)
            may(l) == \E i \in {j \in nilable \cap DOMAIN lhs : IsBare(lhs[j])} : lhs[i] = <<l>>
            q == [l \in Locals |-> IF may(l) THEN "maybeNil" ELSE t.nilable[l]]
<1>1. u = [t EXCEPT !.nilable = q]
  BY DEF AssignResults
<1>2. t \in ScopeType /\ WellFormed(t) /\ PartOf(w, t)
  BY TargetsPart
<1>3. \A l \in Locals : q[l] = IF may(l) THEN "maybeNil" ELSE t.nilable[l]
  OBVIOUS
<1>4. q = [l \in Locals |-> q[l]]
  OBVIOUS
<1>5. \A l \in Locals : may(l) => w.nilable[l] = "unknown"
  <2>1. Invalidated(z, FirstTargets(lhs, Len(lhs)), w)
    BY InvalidateFields
  <2>2. ASSUME NEW l \in Locals, may(l) PROVE <<l>> \in FirstTargets(lhs, Len(lhs))
    <3>1. PICK i \in DOMAIN lhs : lhs[i] = <<l>>
      BY <2>2
    <3>2. i \in 1..Len(lhs)
      BY <3>1
    <3>. QED
      BY <3>1, <3>2 DEF FirstTargets
  <2>. QED
    BY <2>1, <2>2 DEF Invalidated
<1>. HIDE DEF t, may, q
<1>6. q \in NilStates
  <2>1. t.nilable \in NilStates
    BY <1>2, ScopeFields
  <2>. QED
    BY <1>3, <1>4, <2>1 DEF NilStates, NilState
<1>7. u.proven = t.proven /\ u.alias = t.alias /\ u.errProof = t.errProof /\ u.nilable = q
  BY <1>1, <1>2, <1>6, WithNilStates
<1>8. SameKnown(t, u)
  BY <1>7 DEF SameKnown
<1>9. \A l \in Locals : w.nilable[l] \in {"isNil", "typedNil"} => u.nilable[l] = t.nilable[l]
  BY <1>3, <1>5, <1>7
<1>. QED
  BY <1>2, <1>8, <1>9, RestatedPart, SameWellFormed

LEMMA SetPart ==
    ASSUME NEW s \in ScopeType, WellFormed(s), NEW z \in ScopeType, PartOf(z, s),
           NEW lhs \in Typed, NEW rhs, Assignable(lhs, rhs), Stars(lhs, s), IsBare(lhs) => Unnamed(lhs[1], z),
           NEW u, u = Assign(lhs, rhs, s), NEW w, w = Invalidate(z, AssignedPaths({lhs}, s.alias))
    PROVE  WellFormed(u) /\ PartOf(w, u)
<1>. DEFINE t == InvalidateTarget(s, lhs)
<1>1. u = RecordAssignment(lhs, rhs, t)
  BY DEF Assign
<1>2. lhs \in Expr /\ lhs \in Seq(Word) /\ lhs # <<>> /\ lhs[1] \in Locals
  BY ExprParts DEF Typed
<1>3. CASE IsBare(lhs)
  <2>1. lhs = <<lhs[1]>>
    BY <1>2, <1>3 DEF IsBare
  <2>. DEFINE x == lhs[1]
  <2>2. \A k : Knows(s, k) /\ k[1] = x => AtOrUnder(<<x>>, k)
    BY <1>2, <2>1, LocalDiscipline
  <2>3. t \in ScopeType /\ PartOf(t, s) /\ Free(x, t) /\ t.nilable[x] = "unknown"
    BY <1>2, <2>1, <2>2, LocalPart
  <2>4. WellFormed(t)
    BY <2>3, PartWellFormed
  <2>5. AssignedPaths({lhs}, s.alias) = {<<x>>}
    BY <1>3 DEF AssignedPaths
  <2>6. PartOf(w, t)
    BY <1>2, <1>3, <2>1, <2>5, LocalOfPart
  <2>. HIDE DEF t
  <2>7. WellFormed(u) /\ PartOf(t, u)
    BY <1>1, <2>3, <2>4, RecordPart DEF Untold
  <2>. QED
    BY <2>6, <2>7, PartOfPart
<1>4. CASE ~IsBare(lhs)
  <2>1. t \in ScopeType /\ PartOf(t, s)
    BY <1>2, <1>4, FieldPart
  <2>2. WellFormed(t)
    BY <2>1, PartWellFormed
  <2>3. PartOf(w, t)
    <3>1. CASE Last(lhs) = Star
      <4>1. AssignedPaths({lhs}, s.alias) = {}
        BY <1>4, <3>1 DEF AssignedPaths, Last
      <4>2. w = z
        BY <4>1, InvalidateNothing
      <4>3. t = s
        BY <1>4, <3>1 DEF InvalidateTarget, Last
      <4>. QED
        BY <4>2, <4>3
    <3>2. CASE Last(lhs) # Star
      <4>1. AssignedPaths({lhs}, s.alias) = {Canonical(lhs, s.alias)}
        BY <1>4, <3>2 DEF AssignedPaths, Last
      <4>2. t = Invalidate(s, {Canonical(lhs, s.alias)})
        BY <1>4, <3>2 DEF InvalidateTarget, Last
      <4>. QED
        BY <4>1, <4>2, PartInvalidated
    <3>. QED
      BY <3>1, <3>2
  <2>. HIDE DEF t
  <2>4. WellFormed(u) /\ PartOf(t, u)
    BY <1>1, <1>4, <2>1, <2>2, RecordPart
  <2>. QED
    BY <2>3, <2>4, PartOfPart
<1>. QED
  BY <1>3, <1>4

\* What was known before a statement, without what it writes, is known after it.
LEMMA StatementPart ==
    ASSUME NEW s \in ScopeType, WellFormed(s), NEW z \in ScopeType, PartOf(z, s),
           NEW st, IsStatement(st), \A t \in Targets(st) : Stars(t, s),
           \A t \in Targets(st) : IsBare(t) => Unnamed(t[1], z),
           st.op = "addr" => z.nilable[st.x] = "unknown",
           NEW u, u = Effect(st, s), NEW w, w = Invalidate(z, AssignedPaths(Targets(st), s.alias))
    PROVE  WellFormed(u) /\ PartOf(w, u)
<1>1. CASE st.op = "set"
  <2>1. st.lhs \in Typed /\ Assignable(st.lhs, st.rhs) /\ Targets(st) = {st.lhs} /\ u = Assign(st.lhs, st.rhs, s)
    BY <1>1 DEF IsStatement, Targets, Effect
  <2>. QED
    BY <2>1, SetPart
<1>2. CASE st.op = "tuple"
  <2>. DEFINE lhs == st.lhs
  <2>1. lhs \in Seq(LocalTargets) /\ Targets(st) = {lhs[i] : i \in 1..Len(lhs)} /\ u = AssignResults(lhs, st.nilable, s)
    BY <1>2 DEF IsStatement, LocalTargets, Targets, Effect
  <2>2. \A i \in 1..Len(lhs) : IsBare(lhs[i]) /\ lhs[i] = <<lhs[i][1]>>
    BY <2>1 DEF LocalTargets, IsBare
  <2>3. AllUnnamed(lhs, z)
    BY <2>1, <2>2 DEF AllUnnamed
  <2>4. AssignedPaths(Targets(st), s.alias) = FirstTargets(lhs, Len(lhs))
    <3>. DEFINE T == {lhs[i] : i \in 1..Len(lhs)}
    <3>1. \A t \in T : IsBare(t) /\ t = <<t[1]>>
      BY <2>2
    <3>. HIDE DEF T
    <3>2. {<<t[1]>> : t \in {v \in T : IsBare(v)}} = T
      BY <3>1
    <3>3. {v \in T : ~IsBare(v) /\ v[Len(v)] # Star} = {}
      BY <3>1
    <3>4. AssignedPaths(T, s.alias) = T
      BY <3>2, <3>3 DEF AssignedPaths
    <3>5. T = FirstTargets(lhs, Len(lhs))
      BY DEF T, FirstTargets
    <3>. QED
      BY <2>1, <3>4, <3>5 DEF T
  <2>. QED
    BY <2>1, <2>3, <2>4, ResultsPart
<1>3. CASE st.op \notin {"set", "tuple"}
  <2>1. AssignedPaths(Targets(st), s.alias) = {}
    BY <1>3 DEF Targets, AssignedPaths
  <2>2. w = z
    BY <2>1, InvalidateNothing
  <2>3. CASE st.op \in {"assert", "guard"}
    <3>1. st.c \in Conds
      BY <2>3 DEF IsStatement
    <3>2. u = With(s, NilGuards(st.c, s).t) \/ u = With(s, NilGuards(st.c, s).f)
      BY <2>3, Zenon DEF Effect
    <3>3. AllClear(NilGuards(st.c, s).t, s) /\ AllClear(NilGuards(st.c, s).f, s)
      BY <3>1, GuardsClear
    <3>4. WellFormed(u) /\ PartOf(s, u)
      BY <3>2, <3>3, WithPart
    <3>. QED
      BY <2>2, <3>4, PartOfPart
  <2>4. CASE st.op = "addr"
    <3>1. u = DropNil(s, {st.x})
      BY <2>4 DEF Effect
    <3>. QED
      BY <2>2, <2>4, <3>1, DropNilPart
  <2>5. CASE st.op \in {"use", "skip"}
    <3>1. u = s
      BY <2>5 DEF Effect
    <3>. QED
      BY <2>2, <3>1
  <2>. QED
    BY <1>3, <2>3, <2>4, <2>5 DEF IsStatement
<1>. QED
  BY <1>1, <1>2, <1>3

\* The path a target is written under.
Place(t, s) == IF IsBare(t) THEN t ELSE Canonical(t, s.alias)

\* Of what s knows, nothing begins where the targets were written under o.
Gone(T, o, s) == \A t \in T : \A k : Knows(s, k) => ~IsPrefix(Place(t, o), k)

LEMMA PrefixIs ==
    ASSUME NEW T, NEW p \in Seq(T), NEW k \in Seq(T)
    PROVE  IsPrefix(p, k) <=> Len(p) <= Len(k) /\ \A i \in 1..Len(p) : p[i] = k[i]
<1>1. CASE Len(p) <= Len(k)
  <2>1. SubSeq(p, 1, Len(p)) \in Seq(T) /\ SubSeq(k, 1, Len(p)) \in Seq(T)
        /\ Len(SubSeq(p, 1, Len(p))) = Len(p) /\ Len(SubSeq(k, 1, Len(p))) = Len(p)
    BY <1>1
  <2>2. \A i \in 1..Len(p) : SubSeq(p, 1, Len(p))[i] = p[i] /\ SubSeq(k, 1, Len(p))[i] = k[i]
    BY <1>1
  <2>3. SubSeq(p, 1, Len(p)) = SubSeq(k, 1, Len(p)) <=> \A i \in 1..Len(p) : p[i] = k[i]
    BY <2>1, <2>2
  <2>. QED
    BY <1>1, <2>3 DEF IsPrefix
<1>2. CASE ~(Len(p) <= Len(k))
  BY <1>2 DEF IsPrefix
<1>. QED
  BY <1>1, <1>2

LEMMA PrefixOfPrefix ==
    ASSUME NEW T, NEW p \in Seq(T), NEW r \in Seq(T), NEW k \in Seq(T), IsPrefix(p, r), IsPrefix(r, k)
    PROVE  IsPrefix(p, k)
<1>1. Len(p) \in Nat /\ Len(r) \in Nat /\ Len(k) \in Nat
  OBVIOUS
<1>2. Len(p) <= Len(r) /\ \A i \in 1..Len(p) : p[i] = r[i]
  BY PrefixIs
<1>3. Len(r) <= Len(k) /\ \A i \in 1..Len(r) : r[i] = k[i]
  BY PrefixIs
<1>4. Len(p) <= Len(k) /\ \A i \in 1..Len(p) : p[i] = k[i]
  BY <1>1, <1>2, <1>3
<1>. QED
  BY <1>4, PrefixIs

LEMMA PlaceIsPath ==
    ASSUME NEW s \in ScopeType, NEW t \in Typed
    PROVE  /\ t \in Expr /\ t \in Seq(Word) /\ t[1] \in Locals /\ Len(t) \in Nat
           /\ IsBare(t) => t = <<t[1]>>
           /\ Place(t, s) \in Path /\ Place(t, s) \in Seq(Word)
           /\ Canonical(t, s.alias) \in Path
<1>1. t \in Expr /\ t \in Seq(Word) /\ t[1] \in Locals /\ t # <<>> /\ Len(t) \in Nat
  BY ExprParts DEF Typed
<1>2. t \in Path
  BY <1>1 DEF Expr
<1>3. Canonical(t, s.alias) \in Path
  BY <1>2, CanonicalIsPath
<1>4. Place(t, s) \in Path
  BY <1>2, <1>3 DEF Place
<1>. QED
  BY <1>1, <1>3, <1>4 DEF IsBare, Path, Word

LEMMA GoneSpared ==
    ASSUME NEW o \in ScopeType, NEW T \in SUBSET Typed, NEW s, Gone(T, o, s)
    PROVE  Spared(AssignedPaths(T, o.alias), s)
<1>. SUFFICES ASSUME NEW p \in AssignedPaths(T, o.alias)
              PROVE  \E t \in T : p = Place(t, o)
  BY PlaceIsPath DEF Spared, Gone
<1>1. CASE \E t \in T : IsBare(t) /\ p = <<t[1]>>
  BY <1>1, PlaceIsPath DEF Place
<1>2. CASE \E t \in T : ~IsBare(t) /\ p = Canonical(t, o.alias)
  BY <1>2 DEF Place
<1>. QED
  BY <1>1, <1>2 DEF AssignedPaths

LEMMA GoneOfLess ==
    ASSUME NEW T, NEW o, NEW s, Gone(T, o, s), NEW t, IsLess(s, t)
    PROVE  Gone(T, o, t)
BY LessKnown DEF Gone

\* What is left after a statement's writes begins nowhere they went.
LEMMA WrittenGone ==
    ASSUME NEW s \in ScopeType, NEW T \in SUBSET Typed, \A t \in T : Stars(t, s),
           NEW z \in ScopeType, PartOf(z, s), NEW w, w = Invalidate(z, AssignedPaths(T, s.alias))
    PROVE  Gone(T, s, w)
<1>. SUFFICES ASSUME NEW t \in T, NEW k, Knows(w, k), IsPrefix(Place(t, s), k) PROVE FALSE
  BY DEF Gone
<1>. DEFINE A == AssignedPaths(T, s.alias)  p == Place(t, s)
<1>1. w \in ScopeType /\ Invalidated(z, A, w)
  BY InvalidateFields
<1>2. Knows(z, k) /\ ~Falsified(A, k)
  BY <1>1 DEF Invalidated, Knows
<1>3. Knows(s, k)
  BY <1>2, LessKnown DEF PartOf
<1>4. k \in Known(s) /\ k \in Seq(Word)
  BY <1>3, KnownIs DEF Path, Word
<1>5. Last(t) # Star /\ \A j \in Len(p) + 1..Len(k) : k[j] # Star
  BY <1>4 DEF Stars, Place
<1>6. p \in Seq(Word)
  BY PlaceIsPath
<1>7. AtOrUnder(p, k)
  <2>. HIDE DEF p
  <2>. QED
    BY <1>4, <1>5, <1>6, PrefixIsUnder DEF p
<1>8. p \in A
  <2>1. CASE IsBare(t)
    BY <2>1, PlaceIsPath DEF AssignedPaths, Place
  <2>2. CASE ~IsBare(t)
    BY <1>5, <2>2 DEF AssignedPaths, Place, Last
  <2>. QED
    BY <2>1, <2>2
<1>. QED
  BY <1>2, <1>7, <1>8 DEF Falsified

LEMMA SameForgotten ==
    ASSUME NEW s \in ScopeType, NEW P, NEW Q, \A k : Knows(s, k) => (Falsified(P, k) <=> Falsified(Q, k)),
           \A l \in Locals : <<l>> \in P <=> <<l>> \in Q
    PROVE  Invalidate(s, P) = Invalidate(s, Q)
<1>1. {k \in s.proven : ~Falsified(P, k)} = {k \in s.proven : ~Falsified(Q, k)}
  BY DEF Knows
<1>2. \A l \in Locals : (IF Falsified(P, s.alias[l]) THEN NoPath ELSE s.alias[l])
                        = (IF Falsified(Q, s.alias[l]) THEN NoPath ELSE s.alias[l])
  <2>1. ASSUME NEW l \in Locals, s.alias[l] # NoPath
        PROVE  Falsified(P, s.alias[l]) <=> Falsified(Q, s.alias[l])
    BY <2>1 DEF Knows
  <2>. QED
    BY <2>1
<1>3. \A l \in Locals : {k \in s.errProof[l] : ~Falsified(P, k)} = {k \in s.errProof[l] : ~Falsified(Q, k)}
  BY DEF Knows
<1>. QED
  BY <1>1, <1>2, <1>3, Zenon DEF Invalidate

LEMMA PathsTogether ==
    ASSUME NEW T, NEW U, NEW a
    PROVE  AssignedPaths(T \cup U, a) = AssignedPaths(T, a) \cup AssignedPaths(U, a)
<1>1. \A p : p \in AssignedPaths(T \cup U, a) <=> p \in AssignedPaths(T, a) \/ p \in AssignedPaths(U, a)
  BY Zenon DEF AssignedPaths
<1>. QED
  BY <1>1

\* Writes dropped one block after the other, under what the first left of the
\* aliases, are writes dropped at once.
LEMMA WritesTwice ==
    ASSUME NEW z \in ScopeType, WellFormed(z), NEW all \in SUBSET Typed, NEW wr \in SUBSET Typed,
           NEW d, d = InvalidateWrites(z, all), Gone(all, z, d)
    PROVE  InvalidateWrites(d, wr) = InvalidateWrites(z, all \cup wr)
<1>. DEFINE A == AssignedPaths(all, z.alias)  B == AssignedPaths(wr, z.alias)  C == AssignedPaths(wr, d.alias)
<1>1. d = Invalidate(z, A) /\ d \in ScopeType /\ Invalidated(z, A, d)
  BY InvalidateFields DEF InvalidateWrites
<1>2. Spared(A, d)
  BY GoneSpared
<1>3. PartOf(d, z)
  BY <1>1, <1>2, SparedIsPart
<1>4. InvalidateWrites(z, all \cup wr) = Invalidate(d, B)
  <2>1. AssignedPaths(all \cup wr, z.alias) = A \cup B
    BY PathsTogether
  <2>2. InvalidateWrites(z, all \cup wr) = Invalidate(z, A \cup B)
    BY <2>1 DEF InvalidateWrites
  <2>. HIDE DEF A, B
  <2>3. Invalidate(Invalidate(z, A), B) = Invalidate(z, A \cup B)
    BY InvalidateTwice
  <2>. QED
    BY <1>1, <2>2, <2>3
<1>5. ASSUME NEW t \in wr, Canonical(t, d.alias) # Canonical(t, z.alias), NEW k, Knows(d, k),
             AtOrUnder(Canonical(t, d.alias), k) \/ AtOrUnder(Canonical(t, z.alias), k)
      PROVE  FALSE
  <2>. DEFINE a == z.alias[t[1]]
  <2>1. t \in Expr /\ t \in Seq(Word) /\ t[1] \in Locals /\ t # <<>> /\ t = <<t[1]>> \o Tail(t)
        /\ Tail(t) \in Seq(Word) /\ <<t[1]>> \in Seq(Word)
    BY ExprParts, SlotsAreWords DEF Typed
  <2>2. d.alias[t[1]] # z.alias[t[1]]
    BY <1>5 DEF Canonical
  <2>3. d.alias[t[1]] = NoPath /\ Falsified(A, a) /\ a # NoPath
    BY <1>1, <2>1, <2>2 DEF Invalidated
  <2>4. a \in Expr /\ a \in Seq(Word) /\ a # <<>>
    <3>1. Clear(a, z)
      BY <2>1, <2>3 DEF WellFormed, AliasesClear
    <3>. QED
      BY <3>1, ExprParts DEF Clear
  <2>5. PICK p \in A : AtOrUnder(p, a)
    BY <2>3 DEF Falsified
  <2>6. p \in Seq(Word) /\ ~IsPrefix(p, k)
    BY <1>2, <1>5, <2>5 DEF Spared
  <2>7. k \in Seq(Word) /\ k[1] \in Locals /\ Clear(k, z)
    <3>1. k \in Path /\ k[1] \in Locals
      BY <1>1, <1>5, KnownPath
    <3>2. Knows(z, k)
      BY <1>3, <1>5, LessKnown DEF PartOf
    <3>. QED
      BY <3>1, <3>2 DEF WellFormed, Path, Word
  <2>8. Canonical(t, d.alias) = t /\ Canonical(t, z.alias) = a \o Tail(t)
    BY <2>3 DEF Canonical
  <2>. HIDE DEF a
  <2>9. IsPrefix(a, k)
    <3>1. CASE AtOrUnder(Canonical(t, z.alias), k)
      <4>1. AtOrUnder(a \o Tail(t), k) /\ a \o Tail(t) \in Seq(Word)
        BY <2>1, <2>4, <2>8, <3>1
      <4>2. IsPrefix(a \o Tail(t), k)
        BY <2>7, <4>1, AtOrUnderIsPrefix
      <4>3. IsPrefix(a, a)
        BY <2>4, PrefixIs
      <4>4. IsPrefix(a, a \o Tail(t))
        BY <2>1, <2>4, <4>3, PrefixExtends
      <4>. QED
        BY <2>4, <2>7, <4>1, <4>2, <4>4, PrefixOfPrefix
    <3>2. CASE AtOrUnder(Canonical(t, d.alias), k)
      <4>1. IsPrefix(t, k)
        BY <2>1, <2>7, <2>8, <3>2, AtOrUnderIsPrefix
      <4>2. k[1] = t[1] /\ Len(k) >= 1
        <5>1. Len(t) >= 1 /\ Len(t) <= Len(k) /\ \A i \in 1..Len(t) : t[i] = k[i]
          BY <2>1, <2>7, <4>1, PrefixIs
        <5>. QED
          BY <5>1, <2>1, <2>7
      <4>3. Root(k[1], d) = Root(k[1], z)
        BY <1>3, <1>5 DEF PartOf
      <4>4. a = <<t[1]>>
        BY <2>3, <4>2, <4>3 DEF Root, a
      <4>5. Len(a) = 1 /\ a[1] = t[1]
        BY <4>4
      <4>6. Len(a) <= Len(k) /\ \A i \in 1..Len(a) : a[i] = k[i]
        BY <2>7, <4>2, <4>5
      <4>. QED
        BY <2>4, <2>7, <4>6, PrefixIs
    <3>. QED
      BY <1>5, <3>1, <3>2
  <2>10. IsPrefix(p, a)
    BY <2>4, <2>5, <2>6, AtOrUnderIsPrefix
  <2>. QED
    BY <2>4, <2>6, <2>7, <2>9, <2>10, PrefixOfPrefix
<1>6. ASSUME NEW k, Knows(d, k) PROVE Falsified(B, k) <=> Falsified(C, k)
  <2>1. ASSUME NEW p \in B, AtOrUnder(p, k) PROVE \E q \in C : AtOrUnder(q, k)
    <3>1. CASE \E t \in wr : IsBare(t) /\ p = <<t[1]>>
      BY <2>1, <3>1 DEF AssignedPaths
    <3>2. ASSUME NEW t \in wr, ~IsBare(t), t[Len(t)] # Star, p = Canonical(t, z.alias)
          PROVE  Canonical(t, d.alias) \in C /\ AtOrUnder(Canonical(t, d.alias), k)
      <4>1. Canonical(t, d.alias) = Canonical(t, z.alias)
        BY <1>5, <1>6, <2>1, <3>2
      <4>. QED
        BY <2>1, <3>2, <4>1 DEF AssignedPaths
    <3>. QED
      BY <2>1, <3>1, <3>2 DEF AssignedPaths
  <2>2. ASSUME NEW q \in C, AtOrUnder(q, k) PROVE \E p \in B : AtOrUnder(p, k)
    <3>1. CASE \E t \in wr : IsBare(t) /\ q = <<t[1]>>
      BY <2>2, <3>1 DEF AssignedPaths
    <3>2. ASSUME NEW t \in wr, ~IsBare(t), t[Len(t)] # Star, q = Canonical(t, d.alias)
          PROVE  Canonical(t, z.alias) \in B /\ AtOrUnder(Canonical(t, z.alias), k)
      <4>1. Canonical(t, d.alias) = Canonical(t, z.alias)
        BY <1>5, <1>6, <2>2, <3>2
      <4>. QED
        BY <2>2, <3>2, <4>1 DEF AssignedPaths
    <3>. QED
      BY <2>2, <3>1, <3>2 DEF AssignedPaths
  <2>. QED
    BY <2>1, <2>2 DEF Falsified
<1>7. ASSUME NEW l \in Locals, NEW s \in {z, d}, <<l>> \in AssignedPaths(wr, s.alias)
      PROVE  \E t \in wr : IsBare(t) /\ <<l>> = <<t[1]>>
  <2>1. ASSUME NEW t \in wr, ~IsBare(t), <<l>> = Canonical(t, s.alias) PROVE FALSE
    <3>1. t \in Expr /\ Len(t) \in Nat /\ Len(t) >= 1 /\ Tail(t) \in Seq(Word) /\ Len(Tail(t)) = Len(t) - 1 /\ t[1] \in Locals
      BY ExprParts, SlotsAreWords DEF Typed
    <3>2. Len(t) > 1 /\ Len(Tail(t)) > 0
      BY <2>1, <3>1 DEF IsBare
    <3>. DEFINE b == s.alias[t[1]]
    <3>3. b \in Seq(Word)
      <4>1. s \in ScopeType
        BY <1>1
      <4>2. s.alias \in Aliases
        BY <4>1, ScopeFields
      <4>3. b \in Path \cup {<<>>}
        BY <3>1, <4>2 DEF Aliases, NoPath
      <4>4. Path \subseteq Seq(Word) /\ <<>> \in Seq(Word)
        BY DEF Path, Word
      <4>. QED
        BY <4>3, <4>4
    <3>. DEFINE q == <<l>>
    <3>0. Len(q) = 1
      OBVIOUS
    <3>7. q = Canonical(t, s.alias)
      BY <2>1
    <3>6. Canonical(t, s.alias) = IF b # NoPath THEN b \o Tail(t) ELSE t
      BY DEF Canonical
    <3>. HIDE DEF b, q
    <3>4. CASE b # NoPath
      <4>1. Len(b) > 0 /\ Len(b) \in Nat
        BY <3>3, <3>4 DEF NoPath
      <4>2. Len(b \o Tail(t)) = Len(b) + Len(Tail(t))
        BY <3>1, <3>3
      <4>. QED
        BY <3>0, <3>1, <3>2, <3>4, <3>6, <3>7, <4>1, <4>2
    <3>5. CASE b = NoPath
      BY <3>0, <3>1, <3>2, <3>5, <3>6, <3>7
    <3>. QED
      BY <3>4, <3>5
  <2>. QED
    BY <1>7, <2>1 DEF AssignedPaths
<1>8. \A l \in Locals : <<l>> \in B <=> <<l>> \in C
  <2>1. \A l \in Locals : (\E t \in wr : IsBare(t) /\ <<l>> = <<t[1]>>) => <<l>> \in B /\ <<l>> \in C
    BY DEF AssignedPaths
  <2>. QED
    BY <1>7, <2>1
<1>9. Invalidate(d, B) = Invalidate(d, C)
  <2>. HIDE DEF B, C
  <2>. QED
    BY <1>1, <1>6, <1>8, SameForgotten
<1>. QED
  BY <1>4, <1>9 DEF InvalidateWrites

\* What a block that knows P besides, or not, leaves known.
LEMMA ViewFacts ==
    ASSUME NEW o \in ScopeType, WellFormed(o), NEW P, AllClear(P, o), NEW T \in SUBSET Typed,
           NEW v, v = InvalidateWrites(With(o, P), T), Gone(T, o, v), NEW e, e = InvalidateWrites(o, T)
    PROVE  /\ v \in ScopeType /\ WellFormed(v) /\ PartOf(v, With(o, P))
           /\ e \in ScopeType /\ WellFormed(e) /\ PartOf(e, o) /\ PartOf(e, v) /\ Gone(T, o, e)
<1>. DEFINE w == With(o, P)  A == AssignedPaths(T, o.alias)
<1>1. w \in ScopeType /\ WellFormed(w) /\ PartOf(o, w) /\ w.alias = o.alias
  <2>1. P \in SUBSET Path
    BY DEF AllClear, Clear, Expr
  <2>. QED
    BY <2>1, PartOfWith, WithPart
<1>2. v = Invalidate(w, A) /\ e = Invalidate(o, A)
  BY <1>1 DEF InvalidateWrites
<1>. HIDE DEF w, A
<1>3. v \in ScopeType /\ e \in ScopeType
  BY <1>1, <1>2, InvalidateFields
<1>4. PartOf(e, v)
  BY <1>1, <1>2, PartInvalidated
<1>5. Spared(A, v)
  BY GoneSpared DEF A
<1>6. PartOf(v, w)
  BY <1>1, <1>2, <1>5, SparedIsPart
<1>7. Gone(T, o, e)
  BY <1>4, GoneOfLess DEF PartOf
<1>8. Spared(A, e)
  BY <1>7, GoneSpared DEF A
<1>9. PartOf(e, o)
  BY <1>2, <1>8, SparedIsPart
<1>. QED
  BY <1>1, <1>3, <1>4, <1>6, <1>7, <1>9, PartWellFormed DEF w

\* What two blocks leave known, together.
LEMMA BothFacts ==
    ASSUME NEW o \in ScopeType, WellFormed(o), NEW P, AllClear(P, o), NEW Q, AllClear(Q, o),
           NEW all \in SUBSET Typed, NEW wr \in SUBSET Typed,
           NEW b, b = InvalidateWrites(With(o, P), all), Gone(all, o, b),
           NEW v, v = InvalidateWrites(With(o, Q), wr), Gone(wr, o, v),
           NEW d, d = InvalidateWrites(o, all \cup wr)
    PROVE  /\ d \in ScopeType /\ WellFormed(d) /\ PartOf(d, o) /\ PartOf(d, b) /\ PartOf(d, v)
           /\ Gone(all \cup wr, o, d) /\ d = InvalidateWrites(InvalidateWrites(o, all), wr)
<1>. DEFINE A == AssignedPaths(all, o.alias)  B == AssignedPaths(wr, o.alias)
            e == InvalidateWrites(o, all)  f == InvalidateWrites(o, wr)
<1>1. e \in ScopeType /\ WellFormed(e) /\ PartOf(e, o) /\ PartOf(e, b) /\ Gone(all, o, e)
  BY ViewFacts
<1>2. f \in ScopeType /\ WellFormed(f) /\ PartOf(f, o) /\ PartOf(f, v) /\ Gone(wr, o, f)
  BY ViewFacts
<1>3. d = InvalidateWrites(e, wr)
  BY <1>1, WritesTwice
<1>4. e = Invalidate(o, A) /\ f = Invalidate(o, B) /\ d = Invalidate(o, A \cup B)
  <2>1. AssignedPaths(all \cup wr, o.alias) = A \cup B
    BY PathsTogether
  <2>. QED
    BY <2>1 DEF InvalidateWrites
<1>. HIDE DEF A, B, e, f
<1>5. d = Invalidate(e, B)
  BY <1>4, InvalidateTwice
<1>6. d = Invalidate(f, A)
  <2>1. A \cup B = B \cup A
    OBVIOUS
  <2>. QED
    BY <1>4, <2>1, InvalidateTwice
<1>7. d \in ScopeType
  BY <1>4, InvalidateFields
<1>8. IsLess(e, d) /\ IsLess(f, d)
  <2>1. Invalidated(e, B, d) /\ Invalidated(f, A, d)
    BY <1>1, <1>2, <1>5, <1>6, InvalidateFields
  <2>. QED
    BY <2>1 DEF Invalidated, IsLess
<1>9. Gone(all, o, d) /\ Gone(wr, o, d)
  BY <1>1, <1>2, <1>8, GoneOfLess
<1>10. Gone(all \cup wr, o, d)
  BY <1>9 DEF Gone
<1>11. Spared(B, d) /\ Spared(A, d)
  BY <1>9, GoneSpared DEF A, B
<1>12. PartOf(d, e) /\ PartOf(d, f)
  BY <1>1, <1>2, <1>5, <1>6, <1>11, SparedIsPart
<1>13. PartOf(d, o) /\ PartOf(d, b) /\ PartOf(d, v)
  BY <1>1, <1>2, <1>12, PartOfPart
<1>14. WellFormed(d)
  BY <1>13, PartWellFormed
<1>. QED
  BY <1>3, <1>7, <1>10, <1>13, <1>14 DEF e

-----------------------------------------------------------------------------
(* After an if.                                                            *)

\* What the walk knew before the block around it.
Proved(fr) ==
    IF fr.kind = "then" THEN fr.g.t ELSE IF fr.kind \in {"else", "elseif"} THEN fr.g.f ELSE {}

\* What is left of it, and of what was known before the block before that one.
View(fr)   == InvalidateWrites(With(fr.outer, Proved(fr)), fr.wr)
Before(fr) == InvalidateWrites(With(fr.outer, fr.g.t), fr.all)

\* A frame holds what its condition proves, and nothing where it wrote.
Settles(fr) ==
    /\ fr.outer \in ScopeType /\ WellFormed(fr.outer) /\ fr.wr \in SUBSET Typed /\ fr.all \in SUBSET Typed
    /\ fr.kind \in {"then", "else", "elseif"} => AllClear(fr.g.t, fr.outer) /\ AllClear(fr.g.f, fr.outer)
    /\ fr.kind \notin {"else", "elseif"} => fr.all = {}
    /\ Gone(fr.wr, fr.outer, View(fr))
    /\ fr.kind \in {"else", "elseif"} => Gone(fr.all, fr.outer, Before(fr))

LEMMA SettlesView ==
    ASSUME NEW fr, Settles(fr)
    PROVE  /\ View(fr) \in ScopeType /\ WellFormed(View(fr)) /\ PartOf(View(fr), With(fr.outer, Proved(fr)))
           /\ AllClear(Proved(fr), fr.outer) /\ With(fr.outer, Proved(fr)) \in ScopeType
           /\ \A l \in Locals : fr.outer.nilable[l] = "unknown" => View(fr).nilable[l] = "unknown"
<1>1. AllClear(Proved(fr), fr.outer)
  <2>1. AllClear({}, fr.outer)
    BY DEF AllClear
  <2>2. CASE fr.kind = "then"
    BY <2>2 DEF Proved, Settles
  <2>3. CASE fr.kind \in {"else", "elseif"}
    BY <2>3 DEF Proved, Settles
  <2>4. CASE fr.kind \notin {"then", "else", "elseif"}
    BY <2>1, <2>4 DEF Proved
  <2>. QED
    BY <2>2, <2>3, <2>4
<1>2. /\ fr.outer \in ScopeType /\ WellFormed(fr.outer) /\ fr.wr \in SUBSET Typed
      /\ Gone(fr.wr, fr.outer, View(fr))
  BY DEF Settles
<1>. DEFINE P == Proved(fr)  o == fr.outer  w == With(o, P)
<1>3. /\ View(fr) \in ScopeType /\ WellFormed(View(fr)) /\ PartOf(View(fr), w)
  BY <1>1, <1>2, ViewFacts DEF View
<1>4. P \in SUBSET Path
  BY <1>1 DEF AllClear, Clear, Expr
<1>5. w \in ScopeType /\ w.nilable = o.nilable
  BY <1>2, <1>4, PartOfWith
<1>6. \A l \in Locals : o.nilable[l] = "unknown" => View(fr).nilable[l] = "unknown"
  <2>1. View(fr) = Invalidate(w, AssignedPaths(fr.wr, w.alias))
    BY DEF View, InvalidateWrites
  <2>. HIDE DEF w
  <2>2. Invalidated(w, AssignedPaths(fr.wr, w.alias), View(fr))
    BY <1>5, <2>1, InvalidateFields
  <2>. QED
    BY <1>5, <2>2 DEF Invalidated
<1>. QED
  BY <1>1, <1>3, <1>5, <1>6

\* The memories the execution can have come past the blocks with.
Waits(fr, s, m) ==
    /\ m # Dead => Fits(s, m)
    /\ fr.kind \in {"then", "else"} /\ Leaving(fr.ended) => m = Dead
    /\ fr.pend # Dead => fr.kind = "then" /\ Fits(With(fr.outer, fr.g.f), fr.pend)
    /\ fr.out # Dead => /\ fr.kind \in {"else", "elseif"} /\ ~Leaving(fr.first) /\ Fits(Before(fr), fr.out)

LEMMA PartFits ==
    ASSUME NEW s, NEW m, Fits(s, m), NEW t \in ScopeType, PartOf(t, s)
    PROVE  Fits(t, m)
BY PartSound DEF Fits

\* After an if, what was known before it is, but for what its blocks wrote; and
\* the walk knows nothing that is not so where the execution came out of it.
LEMMA AfterIfFacts ==
    ASSUME NEW fr, fr.kind \in {"then", "else", "elseif"}, Settles(fr), NEW s, PartOf(View(fr), s),
           NEW m, Waits(fr, s, m),
           NEW a, a = AfterIf(fr), NEW d, d = InvalidateWrites(fr.outer, fr.all \cup fr.wr)
    PROVE  /\ a \in ScopeType /\ WellFormed(a) /\ PartOf(d, a)
           /\ d \in ScopeType /\ WellFormed(d) /\ Gone(fr.all \cup fr.wr, fr.outer, d)
           /\ \A n \in {m, fr.pend, fr.out} : n # Dead => Fits(a, n)
<1>. DEFINE o == fr.outer  all == fr.all  wr == fr.wr  v == View(fr)
            F == fr.g.f  T == fr.g.t
<1>1. /\ o \in ScopeType /\ WellFormed(o) /\ wr \in SUBSET Typed /\ all \in SUBSET Typed
      /\ AllClear(T, o) /\ AllClear(F, o) /\ Gone(wr, o, v)
  BY DEF Settles
<1>2. v \in ScopeType /\ WellFormed(v)
  BY SettlesView
<1>3. m # Dead => Fits(v, m)
  BY <1>2, PartFits DEF Waits
<1>4. AllClear(F \cup {}, o) /\ AllClear({} \cup T, o) /\ AllClear(F \cup T, o) /\ AllClear({}, o)
  BY <1>1 DEF AllClear
<1>5. \A P : AllClear(P, o) => P \in SUBSET Path
  BY DEF AllClear, Clear, Expr
<1>6. \A P : AllClear(P, o) => With(o, P) \in ScopeType /\ WellFormed(With(o, P)) /\ PartOf(o, With(o, P))
  BY <1>1, <1>5, PartOfWith, WithPart
<1>7. CASE fr.kind = "then"
  <2>1. all = {} /\ d = InvalidateWrites(o, wr)
    BY <1>7 DEF Settles
  <2>2. v = InvalidateWrites(With(o, T), wr)
    BY <1>7 DEF View, Proved
  <2>3. d \in ScopeType /\ WellFormed(d) /\ PartOf(d, o) /\ PartOf(d, v) /\ Gone(wr, o, d)
    BY <1>1, <2>1, <2>2, ViewFacts
  <2>4. Gone(all \cup wr, o, d)
    BY <2>1, <2>3
  <2>5. CASE Leaving(fr.ended)
    <3>1. a = With(o, F \cup {})
      BY <1>7, <2>5 DEF AfterIf
    <3>2. F \cup {} = F
      OBVIOUS
    <3>3. a \in ScopeType /\ WellFormed(a) /\ PartOf(o, a)
      BY <1>1, <1>6, <3>1, <3>2
    <3>4. PartOf(d, a)
      BY <2>3, <3>3, PartOfPart
    <3>5. m = Dead /\ fr.out = Dead /\ (fr.pend # Dead => Fits(a, fr.pend))
      BY <1>7, <2>5, <3>1, <3>2 DEF Waits
    <3>. QED
      BY <2>3, <2>4, <3>3, <3>4, <3>5
  <2>6. CASE ~Leaving(fr.ended)
    <3>1. a = InvalidateWrites(With(o, {} \cup {}), wr)
      BY <1>7, <2>6 DEF AfterIf
    <3>2. With(o, {} \cup {}) = o
      BY <1>1, WithNothing
    <3>3. a = d
      BY <2>1, <3>1, <3>2
    <3>4. PartOf(d, With(o, F))
      BY <1>1, <1>6, <2>3, PartOfPart
    <3>5. fr.pend # Dead => Fits(a, fr.pend)
      BY <2>3, <3>3, <3>4, PartFits DEF Waits
    <3>6. fr.out = Dead
      BY <1>7 DEF Waits
    <3>7. m # Dead => Fits(a, m)
      BY <1>3, <2>3, <3>3, PartFits
    <3>8. PartOf(d, a)
      BY <3>3, PartItself
    <3>. QED
      BY <2>3, <2>4, <3>3, <3>5, <3>6, <3>7, <3>8
  <2>. QED
    BY <2>5, <2>6
<1>8. CASE fr.kind \in {"else", "elseif"}
  <2>. DEFINE b == Before(fr)  leaves == fr.kind = "else" /\ Leaving(fr.ended)
  <2>1. v = InvalidateWrites(With(o, F), wr)
    BY <1>8 DEF View, Proved
  <2>2. b = InvalidateWrites(With(o, T), all) /\ Gone(all, o, b)
    BY <1>8 DEF Before, Settles
  <2>3. /\ d \in ScopeType /\ WellFormed(d) /\ PartOf(d, o) /\ PartOf(d, b) /\ PartOf(d, v)
        /\ Gone(all \cup wr, o, d) /\ d = InvalidateWrites(InvalidateWrites(o, all), wr)
    BY <1>1, <2>1, <2>2, BothFacts
  <2>4. b \in ScopeType /\ WellFormed(b)
    BY <1>1, <2>2, ViewFacts
  <2>5. fr.pend = Dead /\ (fr.out # Dead => Fits(b, fr.out) /\ ~Leaving(fr.first))
    BY <1>8 DEF Waits
  <2>6. leaves => m = Dead
    BY DEF Waits
  <2>7. CASE Leaving(fr.first) /\ leaves
    <3>1. a = With(o, F \cup T)
      BY <1>8, <2>7 DEF AfterIf
    <3>2. a \in ScopeType /\ WellFormed(a) /\ PartOf(o, a)
      BY <1>4, <1>6, <3>1
    <3>3. PartOf(d, a)
      BY <2>3, <3>2, PartOfPart
    <3>. QED
      BY <2>3, <2>5, <2>6, <2>7, <3>2, <3>3
  <2>8. CASE Leaving(fr.first) /\ ~leaves
    <3>1. a = InvalidateWrites(With(o, F \cup {}), wr)
      BY <1>8, <2>8 DEF AfterIf
    <3>2. F \cup {} = F
      OBVIOUS
    <3>3. a = v
      BY <2>1, <3>1, <3>2
    <3>. QED
      BY <1>2, <1>3, <2>3, <2>5, <2>8, <3>3
  <2>9. CASE ~Leaving(fr.first) /\ leaves
    <3>1. a = InvalidateWrites(With(o, {} \cup T), all)
      BY <1>8, <2>9 DEF AfterIf
    <3>2. {} \cup T = T
      OBVIOUS
    <3>3. a = b
      BY <2>2, <3>1, <3>2
    <3>. QED
      BY <2>3, <2>4, <2>5, <2>6, <2>9, <3>3
  <2>10. CASE ~Leaving(fr.first) /\ ~leaves
    <3>1. a = InvalidateWrites(InvalidateWrites(With(o, {} \cup {}), all), wr)
      BY <1>8, <2>10 DEF AfterIf
    <3>2. With(o, {} \cup {}) = o
      BY <1>1, WithNothing
    <3>3. a = d
      BY <2>3, <3>1, <3>2
    <3>4. m # Dead => Fits(a, m)
      BY <1>3, <2>3, <3>3, PartFits
    <3>5. fr.out # Dead => Fits(a, fr.out)
      BY <2>3, <2>5, <3>3, PartFits
    <3>6. PartOf(d, a)
      BY <3>3, PartItself
    <3>. QED
      BY <2>3, <2>5, <3>3, <3>4, <3>5, <3>6
  <2>. QED
    BY <2>7, <2>8, <2>9, <2>10
<1>. QED
  BY <1>7, <1>8

-----------------------------------------------------------------------------
(* The frames of ifs and blocks.                                           *)

Kinds == {"if", "then", "else", "elseif", "block"}

FrameOf(l) ==
    [kind : Kinds, outer : ScopeType, inner : ScopeType, head : l.ifs \cup {Skip}, g : Guards,
     wr : SUBSET Typed, all : SUBSET Typed, size : Nat,
     ended : {"no", "if"} \cup l.exits, first : {"no"} \cup l.exits,
     pend : MemoryType \cup {Dead}, out : MemoryType \cup {Dead}, fall : {Dead},
     excl : {{}}, chain : {{}}, open : {TRUE}, body : {<<>>}, trail : {<<>>}, pc : {0},
     taken : SUBSET Locals, saved : {<<>>}]

LEMMA NewFrameIs ==
    ASSUME NEW l, NEW kind \in Kinds, NEW s \in ScopeType, NEW taken \in SUBSET Locals,
           NEW fr, fr = NewFrame(kind, s, taken)
    PROVE  /\ fr \in FrameOf(l) /\ fr.kind = kind /\ fr.outer = s /\ fr.inner = s /\ fr.wr = {} /\ fr.all = {}
           /\ fr.ended = "no" /\ fr.first = "no" /\ fr.pend = Dead /\ fr.out = Dead /\ fr.taken = taken
BY DEF NewFrame, FrameOf, NoGuard, Guards

\* The frame of an if statement.
Headed(n, p, h, saved) == n = [p EXCEPT !.head = h, !.saved = saved]

LEMMA FrameHeaded ==
    ASSUME NEW l, NEW fr \in FrameOf(l), NEW h \in l.ifs, NEW saved, saved = <<>>,
           NEW n, Headed(n, fr, h, saved)
    PROVE  /\ n \in FrameOf(l) /\ n.kind = fr.kind /\ n.outer = fr.outer /\ n.inner = fr.inner /\ n.wr = fr.wr /\ n.all = fr.all
           /\ n.ended = fr.ended /\ n.pend = fr.pend /\ n.out = fr.out /\ n.taken = fr.taken /\ n.head = h
BY DEF FrameOf, Headed

LEMMA FrameEnded ==
    ASSUME NEW l, NEW fr \in FrameOf(l), NEW ended \in {"no", "if"} \cup l.exits,
           NEW n, n = [fr EXCEPT !.ended = ended]
    PROVE  /\ n \in FrameOf(l) /\ n.kind = fr.kind /\ n.outer = fr.outer /\ n.inner = fr.inner
           /\ n.wr = fr.wr /\ n.all = fr.all
           /\ n.ended = ended /\ n.first = fr.first /\ n.pend = fr.pend /\ n.out = fr.out
           /\ n.taken = fr.taken /\ n.head = fr.head /\ n.g = fr.g
BY DEF FrameOf

\* The frames of an if as it goes on.
Taking(n, p, s, g, pend) == n = [p EXCEPT !.kind = "then", !.inner = s, !.g = g, !.pend = pend]
Turning(n, p, kind, out) ==
    n = [p EXCEPT !.kind = kind, !.first = p.ended, !.ended = "no", !.all = p.wr, !.wr = {}, !.pend = Dead, !.out = out]

LEMMA FrameThen ==
    ASSUME NEW l, NEW fr \in FrameOf(l), NEW s \in ScopeType, NEW g \in Guards, NEW pend \in MemoryType \cup {Dead},
           NEW n, Taking(n, fr, s, g, pend)
    PROVE  /\ n \in FrameOf(l) /\ n.kind = "then" /\ n.outer = fr.outer /\ n.inner = s
           /\ n.wr = fr.wr /\ n.all = fr.all
           /\ n.ended = fr.ended /\ n.first = fr.first /\ n.pend = pend /\ n.out = fr.out
           /\ n.taken = fr.taken /\ n.head = fr.head /\ n.g = g
BY DEF FrameOf, Kinds, Taking

LEMMA FrameElse ==
    ASSUME NEW l, NEW fr \in FrameOf(l), NEW kind \in {"else", "elseif"}, fr.ended \in {"no"} \cup l.exits,
           NEW out \in MemoryType \cup {Dead},
           NEW n, Turning(n, fr, kind, out)
    PROVE  /\ n \in FrameOf(l) /\ n.kind = kind /\ n.outer = fr.outer /\ n.inner = fr.inner
           /\ n.wr = {} /\ n.all = fr.wr
           /\ n.ended = "no" /\ n.first = fr.ended /\ n.pend = Dead /\ n.out = out
           /\ n.taken = fr.taken /\ n.head = fr.head /\ n.g = fr.g
BY DEF FrameOf, Kinds, Turning

LEMMA FrameParts ==
    ASSUME NEW l, NEW fr \in FrameOf(l)
    PROVE  /\ fr.kind \in Kinds /\ fr.outer \in ScopeType /\ fr.inner \in ScopeType /\ fr.head \in l.ifs \cup {Skip}
           /\ fr.g.t \subseteq Path /\ fr.g.f \subseteq Path /\ fr.wr \in SUBSET Typed /\ fr.all \in SUBSET Typed
           /\ fr.ended \in {"no", "if"} \cup l.exits /\ fr.first \in {"no"} \cup l.exits
           /\ fr.pend \in MemoryType \cup {Dead} /\ fr.out \in MemoryType \cup {Dead} /\ fr.fall = Dead
           /\ fr.excl = {} /\ fr.chain = {} /\ fr.body = <<>> /\ fr.trail = <<>> /\ fr.pc = 0
           /\ fr.taken \subseteq Locals /\ fr.saved = <<>> /\ fr.size \in Nat
BY DEF FrameOf, Guards

-----------------------------------------------------------------------------
(* The frames around a place.                                              *)

\* A target is written under the same path whichever of the two scopes resolves
\* it, and a local that is written is nothing else under the first.
Settled(t, o, s) ==
    IF IsBare(t) THEN Unnamed(t[1], o) ELSE Canonical(t, o.alias) = Canonical(t, s.alias)

AllSettled(T, o, s) == \A t \in T : Settled(t, o, s)

LEMMA SettledPlaces ==
    ASSUME NEW T, NEW o, NEW s, AllSettled(T, o, s)
    PROVE  /\ AssignedPaths(T, o.alias) = AssignedPaths(T, s.alias)
           /\ \A t \in T : Place(t, o) = Place(t, s)
<1>1. \A t \in T : ~IsBare(t) => Canonical(t, o.alias) = Canonical(t, s.alias)
  BY DEF AllSettled, Settled
<1>2. {Canonical(t, o.alias) : t \in {u \in T : ~IsBare(u) /\ u[Len(u)] # Star}}
        = {Canonical(t, s.alias) : t \in {u \in T : ~IsBare(u) /\ u[Len(u)] # Star}}
  BY <1>1
<1>3. \A t \in T : Place(t, o) = Place(t, s)
  BY <1>1 DEF Place
<1>. QED
  BY <1>2, <1>3 DEF AssignedPaths

LEMMA SettledTogether ==
    ASSUME NEW T, NEW o, NEW p, NEW s, AllSettled(T, o, s), AllSettled(T, p, s)
    PROVE  AllSettled(T, o, p)
BY DEF AllSettled, Settled

\* n is p where T has been written besides.
WritesMore(n, p, T) ==
    /\ n.kind = p.kind /\ n.outer = p.outer /\ n.inner = p.inner /\ n.head = p.head /\ n.g = p.g
    /\ n.all = p.all /\ n.pend = p.pend /\ n.out = p.out /\ n.taken = p.taken /\ n.first = p.first
    /\ n.wr = p.wr \cup T

LEMMA MoreSettles ==
    ASSUME NEW p, Settles(p), NEW T \in SUBSET Typed, NEW s, AllSettled(T, p.outer, s),
           NEW w, w = Invalidate(View(p), AssignedPaths(T, s.alias)), Gone(T, s, w),
           NEW n, WritesMore(n, p, T)
    PROVE  Settles(n) /\ View(n) = w /\ Before(n) = Before(p)
<1>. DEFINE o == p.outer  P == Proved(p)  z == With(o, P)  wr == p.wr  v == View(p)
<1>1. /\ o \in ScopeType /\ WellFormed(o) /\ wr \in SUBSET Typed /\ p.all \in SUBSET Typed /\ Gone(wr, o, v)
  BY DEF Settles
<1>2. z \in ScopeType /\ v \in ScopeType
  BY SettlesView
<1>3. Proved(n) = P /\ Before(n) = Before(p) /\ n.outer = o /\ n.wr = wr \cup T
  BY DEF Proved, Before, WritesMore
<1>4. AssignedPaths(T, o.alias) = AssignedPaths(T, s.alias) /\ \A t \in T : Place(t, o) = Place(t, s)
  BY SettledPlaces
<1>5. z.alias = o.alias
  BY DEF With
<1>6. v = Invalidate(z, AssignedPaths(wr, o.alias))
  BY <1>5 DEF View, InvalidateWrites
<1>7. View(n) = Invalidate(z, AssignedPaths(wr \cup T, o.alias))
  BY <1>3, <1>5 DEF View, InvalidateWrites
<1>8. AssignedPaths(wr \cup T, o.alias) = AssignedPaths(wr, o.alias) \cup AssignedPaths(T, o.alias)
  BY PathsTogether
<1>. HIDE DEF z, v, wr
<1>9. View(n) = w
  <2>. DEFINE A == AssignedPaths(wr, o.alias)  B == AssignedPaths(T, o.alias)
  <2>1. v = Invalidate(z, A) /\ View(n) = Invalidate(z, A \cup B)
    BY <1>6, <1>7, <1>8
  <2>2. w = Invalidate(v, B)
    BY <1>4 DEF v
  <2>. HIDE DEF A, B
  <2>3. Invalidate(Invalidate(z, A), B) = Invalidate(z, A \cup B)
    BY <1>2, InvalidateTwice
  <2>. QED
    BY <2>1, <2>2, <2>3
<1>10. IsLess(v, w)
  <2>1. Invalidated(v, AssignedPaths(T, s.alias), w)
    BY <1>2, InvalidateFields DEF v
  <2>. QED
    BY <2>1 DEF Invalidated, IsLess
<1>11. Gone(wr, o, w)
  BY <1>1, <1>10, GoneOfLess
<1>12. Gone(T, o, w)
  BY <1>4 DEF Gone
<1>13. Gone(n.wr, o, View(n))
  BY <1>3, <1>9, <1>11, <1>12 DEF Gone
<1>14. n.wr \in SUBSET Typed
  BY <1>1, <1>3
<1>15. /\ n.kind = p.kind /\ n.g = p.g /\ n.all = p.all
  BY DEF WritesMore
<1>16. /\ p.kind \in {"then", "else", "elseif"} => AllClear(p.g.t, o) /\ AllClear(p.g.f, o)
       /\ p.kind \notin {"else", "elseif"} => p.all = {}
       /\ p.kind \in {"else", "elseif"} => Gone(p.all, o, Before(p))
  BY DEF Settles
<1>17. Settles(n)
  BY <1>1, <1>3, <1>13, <1>14, <1>15, <1>16 DEF Settles
<1>. QED
  BY <1>3, <1>9, <1>17

\* The memories of the execution that wait for a later part of the statement, or
\* are past it.
Awaits(fr) ==
    /\ fr.pend # Dead => fr.kind = "then" /\ Fits(With(fr.outer, fr.g.f), fr.pend)
    /\ fr.out # Dead => /\ fr.kind \in {"else", "elseif"} /\ ~Leaving(fr.first) /\ Fits(Before(fr), fr.out)

\* What is true of a frame wherever it stands.
Sits(fr, l) ==
    /\ fr \in FrameOf(l) /\ Settles(fr) /\ Awaits(fr)
    /\ fr.inner = fr.outer
    /\ fr.kind # "block" => fr.head \in l.ifs
    /\ \A x \in fr.taken : fr.outer.nilable[x] = "unknown"
    /\ fr.kind # "elseif" => fr.ended \in {"no"} \cup l.exits

\* A statement stands in the block of fr, and was reached with s.
Holds(fr, s) == fr.kind # "if" /\ fr.ended = "no" /\ PartOf(View(fr), s)

\* What is written in a frame, the scopes around agree on.
Written(fs) ==
    \A i \in 1..Len(fs) : \A j \in 1..i : AllSettled(fs[i].wr \cup fs[i].all, fs[j].outer, fs[i].outer)

Stack(l, fs) ==
    /\ fs \in Seq(FrameOf(l)) /\ Len(fs) <= l.depth
    /\ \A i \in 1..Len(fs) : Sits(fs[i], l)
    /\ \A i \in 1..Len(fs) : i + 1 <= Len(fs) => Holds(fs[i], fs[i + 1].outer)
    /\ Written(fs)

\* All scopes around agree with o.
Agreed(T, fs, o) == \A j \in 1..Len(fs) : AllSettled(T, fs[j].outer, o)

\* ns is fs with another frame at its end.
Replaces(ns, fs, n) == ns = [fs EXCEPT ![Len(fs)] = n]

LEMMA AppendIs ==
    ASSUME NEW T, NEW q \in Seq(T), NEW x \in T, NEW n, n = Append(q, x)
    PROVE  /\ n \in Seq(T) /\ Len(q) \in Nat /\ Len(n) = Len(q) + 1 /\ n[Len(q) + 1] = x
           /\ \A i \in 1..Len(q) : n[i] = q[i]
           /\ \A i \in 1..Len(n) : i \in 1..Len(q) \/ i = Len(q) + 1
OBVIOUS

LEMMA LastReplacedIs ==
    ASSUME NEW T, NEW q \in Seq(T), q # <<>>, NEW x \in T, NEW n, Replaces(n, q, x)
    PROVE  /\ n \in Seq(T) /\ Len(q) \in Nat /\ Len(q) \in 1..Len(q) /\ Len(n) = Len(q) /\ n[Len(q)] = x
           /\ \A i \in 1..Len(q) : i # Len(q) => n[i] = q[i]
           /\ n # <<>>
BY DEF Replaces

LEMMA FrontIs ==
    ASSUME NEW T, NEW q \in Seq(T), q # <<>>, NEW n, n = Front(q)
    PROVE  /\ n \in Seq(T) /\ Len(q) \in Nat /\ Len(q) \in 1..Len(q) /\ Len(n) = Len(q) - 1
           /\ \A i \in 1..Len(n) : i \in 1..Len(q) /\ n[i] = q[i]
           /\ n # <<>> => Len(n) \in 1..Len(n)
<1>1. Len(q) \in Nat /\ Len(q) > 0
  OBVIOUS
<1>2. n = SubSeq(q, 1, Len(q) - 1)
  BY DEF Front
<1>3. n \in Seq(T) /\ Len(n) = Len(q) - 1 /\ \A i \in 1..Len(n) : n[i] = q[i]
  <2>. DEFINE k == Len(q) - 1
  <2>1. k \in Nat /\ k <= Len(q)
    BY <1>1
  <2>2. n = SubSeq(q, 1, k)
    BY <1>2
  <2>. HIDE DEF k
  <2>3. n \in Seq(T) /\ Len(n) = k
    BY <1>1, <2>1, <2>2
  <2>4. \A i \in 1..k : n[i] = q[i]
    BY <1>1, <2>1, <2>2
  <2>. QED
    BY <2>3, <2>4 DEF k
<1>4. \A i \in 1..Len(n) : i \in 1..Len(q)
  BY <1>1, <1>3
<1>5. n # <<>> => Len(n) \in 1..Len(n)
  BY <1>3
<1>. QED
  BY <1>1, <1>3, <1>4, <1>5

LEMMA NothingSettled ==
    ASSUME NEW o, NEW s
    PROVE  AllSettled({}, o, s)
BY DEF AllSettled

\* A statement is opened.
LEMMA Pushed ==
    ASSUME NEW l, l.depth \in Nat, NEW fs, Stack(l, fs), Len(fs) < l.depth,
           NEW fr, Sits(fr, l), fr.wr = {}, fr.all = {},
           fs # <<>> => Holds(Last(fs), fr.outer),
           NEW ns, ns = Append(fs, fr)
    PROVE  Stack(l, ns) /\ ns # <<>> /\ Last(ns) = fr
<1>1. fs \in Seq(FrameOf(l)) /\ fr \in FrameOf(l)
  BY DEF Stack, Sits
<1>2. /\ ns \in Seq(FrameOf(l)) /\ Len(fs) \in Nat /\ Len(ns) = Len(fs) + 1 /\ ns[Len(fs) + 1] = fr
      /\ \A i \in 1..Len(fs) : ns[i] = fs[i]
      /\ \A i \in 1..Len(ns) : i \in 1..Len(fs) \/ i = Len(fs) + 1
  BY <1>1, AppendIs
<1>3. Len(ns) <= l.depth
  BY <1>2
<1>4. \A i \in 1..Len(ns) : Sits(ns[i], l)
  BY <1>2 DEF Stack
<1>5. ASSUME NEW i \in 1..Len(ns), i + 1 <= Len(ns) PROVE Holds(ns[i], ns[i + 1].outer)
  <2>1. i \in 1..Len(fs) /\ ns[i] = fs[i]
    BY <1>2, <1>5
  <2>2. CASE i + 1 <= Len(fs)
    <3>1. ns[i + 1] = fs[i + 1]
      BY <1>2, <2>1, <2>2
    <3>. QED
      BY <2>1, <2>2, <3>1 DEF Stack
  <2>3. CASE i = Len(fs)
    <3>1. fs # <<>> /\ ns[i + 1] = fr
      BY <1>2, <2>1, <2>3
    <3>. QED
      BY <2>1, <2>3, <3>1 DEF Last
  <2>. QED
    BY <1>2, <2>1, <2>2, <2>3
<1>6. Written(ns)
  <2>. SUFFICES ASSUME NEW i \in 1..Len(ns), NEW j \in 1..i
                PROVE  AllSettled(ns[i].wr \cup ns[i].all, ns[j].outer, ns[i].outer)
    BY DEF Written
  <2>1. CASE i \in 1..Len(fs)
    <3>1. j \in 1..Len(fs)
      BY <1>2, <2>1
    <3>. QED
      BY <1>2, <2>1, <3>1 DEF Stack, Written
  <2>2. CASE i = Len(fs) + 1
    <3>1. ns[i].wr \cup ns[i].all = {}
      BY <1>2, <2>2
    <3>. QED
      BY <3>1, NothingSettled
  <2>. QED
    BY <1>2, <2>1, <2>2
<1>7. ns # <<>> /\ Last(ns) = fr
  BY <1>2 DEF Last
<1>. QED
  BY <1>2, <1>3, <1>4, <1>5, <1>6, <1>7 DEF Stack

\* The statement at hand goes on.
LEMMA TopReplaced ==
    ASSUME NEW l, NEW fs, Stack(l, fs), fs # <<>>,
           NEW n, Sits(n, l), n.outer = Last(fs).outer, Agreed(n.wr \cup n.all, fs, n.outer),
           NEW ns, Replaces(ns, fs, n)
    PROVE  Stack(l, ns) /\ Len(ns) = Len(fs) /\ ns # <<>> /\ Last(ns) = n
<1>1. fs \in Seq(FrameOf(l)) /\ n \in FrameOf(l)
  BY DEF Stack, Sits
<1>2. /\ ns \in Seq(FrameOf(l)) /\ Len(fs) \in Nat /\ Len(fs) \in 1..Len(fs) /\ Len(ns) = Len(fs) /\ ns[Len(fs)] = n
      /\ \A i \in 1..Len(fs) : i # Len(fs) => ns[i] = fs[i]
      /\ ns # <<>>
  BY <1>1, LastReplacedIs
<1>3. \A i \in 1..Len(fs) : ns[i].outer = fs[i].outer
  BY <1>2 DEF Last
<1>4. Len(ns) <= l.depth
  BY <1>2 DEF Stack
<1>5. \A i \in 1..Len(ns) : Sits(ns[i], l)
  BY <1>2 DEF Stack
<1>6. ASSUME NEW i \in 1..Len(ns), i + 1 <= Len(ns) PROVE Holds(ns[i], ns[i + 1].outer)
  <2>1. i \in 1..Len(fs) /\ i # Len(fs) /\ i + 1 \in 1..Len(fs) /\ i + 1 <= Len(fs)
    <3>. DEFINE k == Len(fs)
    <3>1. k \in Nat /\ i \in 1..k /\ i + 1 <= k
      BY <1>2, <1>6
    <3>. HIDE DEF k
    <3>2. i \in 1..k /\ i # k /\ i + 1 \in 1..k /\ i + 1 <= k
      BY <3>1
    <3>. QED
      BY <3>2 DEF k
  <2>2. ns[i] = fs[i] /\ ns[i + 1].outer = fs[i + 1].outer
    BY <1>2, <1>3, <2>1
  <2>. QED
    BY <2>1, <2>2 DEF Stack
<1>7. Written(ns)
  <2>. SUFFICES ASSUME NEW i \in 1..Len(ns), NEW j \in 1..i
                PROVE  AllSettled(ns[i].wr \cup ns[i].all, ns[j].outer, ns[i].outer)
    BY DEF Written
  <2>1. i \in 1..Len(fs) /\ j \in 1..Len(fs) /\ ns[j].outer = fs[j].outer /\ ns[i].outer = fs[i].outer
    <3>. DEFINE k == Len(fs)
    <3>1. k \in Nat /\ i \in 1..k /\ j \in 1..i
      BY <1>2
    <3>. HIDE DEF k
    <3>2. i \in 1..k /\ j \in 1..k
      BY <3>1
    <3>3. i \in 1..Len(fs) /\ j \in 1..Len(fs)
      BY <3>2 DEF k
    <3>. QED
      BY <1>3, <3>3
  <2>2. CASE i = Len(fs)
    BY <1>2, <2>1, <2>2 DEF Agreed
  <2>3. CASE i # Len(fs)
    <3>1. ns[i] = fs[i]
      BY <1>2, <2>1, <2>3
    <3>. QED
      BY <2>1, <3>1 DEF Stack, Written
  <2>. QED
    BY <2>2, <2>3
<1>. QED
  BY <1>2, <1>4, <1>5, <1>6, <1>7 DEF Stack, Last

\* The statement at hand is left, and the one around it goes on.
LEMMA PoppedStack ==
    ASSUME NEW l, l.depth \in Nat, NEW fs, Stack(l, fs), fs # <<>>, NEW top, top = Last(fs),
           NEW rest, rest = Front(fs)
    PROVE  /\ Stack(l, rest)
           /\ rest # <<>> => Holds(Last(rest), top.outer) /\ Agreed(top.wr \cup top.all, rest, top.outer)
<1>1. fs \in Seq(FrameOf(l))
  BY DEF Stack
<1>2. /\ rest \in Seq(FrameOf(l)) /\ Len(fs) \in Nat /\ Len(fs) \in 1..Len(fs) /\ Len(rest) = Len(fs) - 1
      /\ \A i \in 1..Len(rest) : i \in 1..Len(fs) /\ rest[i] = fs[i]
      /\ rest # <<>> => Len(rest) \in 1..Len(rest)
  BY <1>1, FrontIs
<1>3. Len(rest) <= l.depth
  <2>1. Len(fs) <= l.depth
    BY DEF Stack
  <2>. QED
    BY <1>2, <2>1
<1>4. \A i \in 1..Len(rest) : Sits(rest[i], l)
  BY <1>2 DEF Stack
<1>5. ASSUME NEW i \in 1..Len(rest), i + 1 <= Len(rest) PROVE Holds(rest[i], rest[i + 1].outer)
  <2>1. rest[i] = fs[i] /\ rest[i + 1] = fs[i + 1] /\ i \in 1..Len(fs) /\ i + 1 <= Len(fs)
    BY <1>2, <1>5
  <2>. QED
    BY <2>1 DEF Stack
<1>6. Written(rest)
  <2>. SUFFICES ASSUME NEW i \in 1..Len(rest), NEW j \in 1..i
                PROVE  AllSettled(rest[i].wr \cup rest[i].all, rest[j].outer, rest[i].outer)
    BY DEF Written
  <2>1. i \in 1..Len(fs) /\ rest[i] = fs[i] /\ j \in 1..Len(rest)
    <3>1. j \in 1..Len(rest)
      <4>. DEFINE k == Len(rest)
      <4>1. k \in Nat /\ i \in 1..k
        BY <1>2
      <4>. HIDE DEF k
      <4>2. j \in 1..k
        BY <4>1
      <4>. QED
        BY <4>2 DEF k
    <3>. QED
      BY <1>2, <3>1
  <2>2. rest[j] = fs[j]
    BY <1>2, <2>1
  <2>. QED
    BY <2>1, <2>2 DEF Stack, Written
<1>7. ASSUME rest # <<>> PROVE Holds(Last(rest), top.outer)
  <2>1. rest[Len(rest)] = fs[Len(rest)] /\ Len(rest) \in 1..Len(fs) /\ Len(rest) + 1 = Len(fs)
    BY <1>2, <1>7
  <2>. QED
    BY <2>1 DEF Stack, Last
<1>8. Agreed(top.wr \cup top.all, rest, top.outer)
  <2>. SUFFICES ASSUME NEW j \in 1..Len(rest) PROVE AllSettled(top.wr \cup top.all, rest[j].outer, top.outer)
    BY DEF Agreed
  <2>1. j \in 1..Len(fs) /\ rest[j] = fs[j] /\ Len(fs) \in 1..Len(fs)
    BY <1>2
  <2>. QED
    BY <2>1 DEF Stack, Written, Last
<1>. QED
  BY <1>2, <1>3, <1>4, <1>5, <1>6, <1>7, <1>8 DEF Stack

\* The walk and the execution are in the block of fr, or before it.
OnTop(fr, s, m) ==
    /\ PartOf(View(fr), s)
    /\ fr.kind = "if" => s = fr.outer /\ fr.wr = {} /\ fr.ended = "no"
    /\ fr.kind \in {"then", "else"} /\ Leaving(fr.ended) => m = Dead

AtHand(s, m) ==
    /\ s \in ScopeType /\ WellFormed(s) /\ m \in MemoryType \cup {Dead}
    /\ m # Dead => Fits(s, m)

Nested(l, fs, s, m) ==
    /\ Stack(l, fs) /\ AtHand(s, m)
    /\ fs # <<>> => OnTop(Last(fs), s, m)

\* Nothing has been written in the block.
LEMMA FreshView ==
    ASSUME NEW fr, fr.wr = {}, NEW z, z = With(fr.outer, Proved(fr)), z \in ScopeType
    PROVE  View(fr) = z
<1>1. AssignedPaths({}, z.alias) = {}
  BY DEF AssignedPaths
<1>2. View(fr) = Invalidate(z, {})
  BY <1>1 DEF View, InvalidateWrites
<1>. QED
  BY <1>2, InvalidateNothing

LEMMA NothingGone ==
    ASSUME NEW o, NEW s
    PROVE  Gone({}, o, s)
BY DEF Gone

LEMMA SettledUnion ==
    ASSUME NEW A, NEW B, NEW o, NEW s, AllSettled(A, o, s), AllSettled(B, o, s)
    PROVE  AllSettled(A \cup B, o, s)
BY DEF AllSettled

\* Statements write in the block at the end of fs.
LEMMA Grown ==
    ASSUME NEW l, NEW fs, Stack(l, fs), fs # <<>>, NEW p, p = Last(fs),
           NEW T \in SUBSET Typed, NEW s, Agreed(T, fs, s),
           NEW w, w = Invalidate(View(p), AssignedPaths(T, s.alias)), Gone(T, s, w),
           NEW n \in FrameOf(l), WritesMore(n, p, T), n.ended = p.ended \/ p.kind = "elseif",
           NEW ns, Replaces(ns, fs, n)
    PROVE  Stack(l, ns) /\ ns # <<>> /\ Last(ns) = n /\ View(n) = w
<1>1. fs \in Seq(FrameOf(l))
  BY DEF Stack
<1>2. Len(fs) \in 1..Len(fs) /\ p = fs[Len(fs)]
  BY <1>1 DEF Last
<1>3. Sits(p, l)
  BY <1>2 DEF Stack
<1>4. Settles(n) /\ View(n) = w /\ Before(n) = Before(p)
  <2>1. AllSettled(T, p.outer, s)
    BY <1>2 DEF Agreed
  <2>. QED
    BY <1>3, <2>1, MoreSettles DEF Sits
<1>5. /\ n.kind = p.kind /\ n.outer = p.outer /\ n.inner = p.inner /\ n.head = p.head /\ n.g = p.g
      /\ n.all = p.all /\ n.pend = p.pend /\ n.out = p.out /\ n.taken = p.taken /\ n.first = p.first
      /\ n.wr = p.wr \cup T
  BY DEF WritesMore
<1>6. Awaits(n)
  <2>1. Awaits(p)
    BY <1>3 DEF Sits
  <2>. QED
    BY <1>4, <1>5, <2>1 DEF Awaits
<1>7. Sits(n, l)
  BY <1>3, <1>4, <1>5, <1>6 DEF Sits
<1>8. Agreed(n.wr \cup n.all, fs, n.outer)
  <2>. SUFFICES ASSUME NEW j \in 1..Len(fs) PROVE AllSettled(n.wr \cup n.all, fs[j].outer, p.outer)
    BY <1>5 DEF Agreed
  <2>1. AllSettled(T, fs[j].outer, p.outer)
    BY <1>2, SettledTogether DEF Agreed
  <2>2. AllSettled(p.wr \cup p.all, fs[j].outer, p.outer)
    BY <1>2 DEF Stack, Written
  <2>3. n.wr \cup n.all = (p.wr \cup p.all) \cup T
    BY <1>5
  <2>. QED
    BY <2>1, <2>2, <2>3, SettledUnion
<1>9. n.outer = Last(fs).outer
  BY <1>5
<1>10. Stack(l, ns) /\ ns # <<>> /\ Last(ns) = n
  BY ONLY Stack(l, fs), fs # <<>>, <1>7, <1>8, <1>9, Replaces(ns, fs, n), TopReplaced
<1>. QED
  BY <1>4, <1>10

LEMMA StackTop ==
    ASSUME NEW l, NEW fs, Stack(l, fs), fs # <<>>, NEW p, p = Last(fs)
    PROVE  /\ Sits(p, l) /\ p \in FrameOf(l) /\ Settles(p) /\ Awaits(p)
           /\ Agreed(p.wr \cup p.all, fs, p.outer)
           /\ Len(fs) \in Nat /\ Len(fs) \in 1..Len(fs) /\ p = fs[Len(fs)]
<1>1. fs \in Seq(FrameOf(l))
  BY DEF Stack
<1>2. Len(fs) \in Nat /\ Len(fs) \in 1..Len(fs) /\ p = fs[Len(fs)]
  BY <1>1 DEF Last
<1>3. Sits(p, l)
  BY <1>2 DEF Stack
<1>4. Agreed(p.wr \cup p.all, fs, p.outer)
  BY <1>2 DEF Stack, Written, Agreed
<1>. QED
  BY <1>2, <1>3, <1>4 DEF Sits

\* The last statement of a block leaves it.
LEMMA NestedLeft ==
    ASSUME NEW l, NEW fs, NEW s, NEW m, Nested(l, fs, s, m), fs # <<>>, NEW p, p = Last(fs),
           p.kind # "if", NEW how \in l.exits,
           NEW n, n = [p EXCEPT !.ended = how], NEW ns, Replaces(ns, fs, n)
    PROVE  Nested(l, ns, s, Dead)
<1>1. Stack(l, fs) /\ AtHand(s, m) /\ OnTop(p, s, m)
  BY DEF Nested
<1>2. /\ Sits(p, l) /\ p \in FrameOf(l) /\ Settles(p) /\ Awaits(p)
      /\ Agreed(p.wr \cup p.all, fs, p.outer)
  BY <1>1, StackTop
<1>3. /\ n \in FrameOf(l) /\ n.kind = p.kind /\ n.outer = p.outer /\ n.inner = p.inner
      /\ n.wr = p.wr /\ n.all = p.all
      /\ n.ended = how /\ n.first = p.first /\ n.pend = p.pend /\ n.out = p.out
      /\ n.taken = p.taken /\ n.head = p.head /\ n.g = p.g
  BY <1>2, FrameEnded
<1>4. Proved(n) = Proved(p)
  BY <1>3 DEF Proved
<1>5. View(n) = View(p) /\ Before(n) = Before(p)
  BY <1>3, <1>4 DEF View, Before
<1>6. Settles(n)
  BY <1>2, <1>3, <1>5 DEF Settles
<1>7. Awaits(n)
  BY <1>2, <1>3, <1>5 DEF Awaits
<1>8. Sits(n, l)
  BY <1>2, <1>3, <1>6, <1>7 DEF Sits
<1>9. Agreed(n.wr \cup n.all, fs, n.outer) /\ n.outer = Last(fs).outer
  BY <1>2, <1>3
<1>10. Stack(l, ns) /\ ns # <<>> /\ Last(ns) = n
  BY ONLY <1>1, fs # <<>>, <1>8, <1>9, Replaces(ns, fs, n), TopReplaced
<1>11. OnTop(n, s, Dead)
  BY <1>1, <1>3, <1>5 DEF OnTop
<1>12. AtHand(s, Dead)
  BY <1>1 DEF AtHand
<1>. QED
  BY <1>10, <1>11, <1>12 DEF Nested

\* Nothing is known at the start.
LEMMA NothingKnown ==
    ASSUME NEW s
    PROVE  PartOf(NewScope, s) /\ NewScope \in ScopeType /\ \A x \in Locals : Unnamed(x, NewScope) /\ NewScope.nilable[x] = "unknown"
<1>1. /\ NewScope.proven = {}
      /\ \A l \in Locals : NewScope.alias[l] = NoPath /\ NewScope.errProof[l] = {} /\ NewScope.nilable[l] = "unknown"
  BY DEF NewScope
<1>2. NewScope \in ScopeType
  BY DEF NewScope, ScopeType, NilState
<1>3. \A k : ~Knows(NewScope, k)
  BY <1>1 DEF Knows
<1>4. IsLess(s, NewScope)
  BY <1>1 DEF IsLess
<1>. QED
  BY <1>1, <1>2, <1>3, <1>4 DEF PartOf, Unnamed

LEMMA TargetsTyped ==
    ASSUME NEW st, IsStatement(st)
    PROVE  Targets(st) \in SUBSET Typed
<1>1. CASE st.op = "set"
  <2>1. st.lhs \in Typed
    BY <1>1 DEF IsStatement
  <2>2. Targets(st) = {st.lhs}
    BY <1>1 DEF Targets
  <2>. QED
    BY <2>1, <2>2
<1>2. CASE st.op = "tuple"
  <2>. DEFINE lhs == st.lhs
  <2>1. lhs \in Seq(LocalTargets) /\ Targets(st) = {lhs[i] : i \in DOMAIN lhs}
    BY <1>2 DEF IsStatement, Targets, LocalTargets
  <2>. HIDE DEF lhs
  <2>2. \A i \in DOMAIN lhs : lhs[i] \in LocalTargets
    BY <2>1
  <2>3. \A x \in Locals : <<x>> \in Typed
    BY LocalIsExpr DEF Typed, IsBare
  <2>. QED
    BY <2>1, <2>2, <2>3 DEF LocalTargets
<1>3. CASE st.op \notin {"set", "tuple"}
  BY <1>3 DEF Targets
<1>. QED
  BY <1>1, <1>2, <1>3

\* A simple statement in a block: s becomes u, and the block has written more.
LEMMA WroteInBlock ==
    ASSUME NEW l, NEW fs, NEW s, NEW m, Nested(l, fs, s, m), fs # <<>>, NEW p, p = Last(fs),
           NEW st, IsStatement(st), NEW T \in SUBSET Typed, T = Targets(st), \A t \in T : Stars(t, s),
           Agreed(T, fs, s), st.op = "addr" => st.x \in p.taken,
           NEW u, u = Effect(st, s), NEW k, k \in MemoryType \cup {Dead}, k # Dead => Fits(u, k),
           NEW n \in FrameOf(l), p.kind # "if", p.ended = "no", WritesMore(n, p, T), n.ended = p.ended,
           NEW ns, Replaces(ns, fs, n)
    PROVE  Nested(l, ns, u, k)
<1>1. Stack(l, fs) /\ AtHand(s, m) /\ s \in ScopeType /\ WellFormed(s) /\ u \in ScopeType
  BY EffectTyped DEF Nested, AtHand
<1>2. Sits(p, l) /\ Settles(p) /\ Len(fs) \in 1..Len(fs) /\ p = fs[Len(fs)]
  BY <1>1, StackTop
<1>. DEFINE z == View(p)
<1>3. OnTop(p, s, m) /\ PartOf(z, s)
  BY DEF Nested, OnTop
<1>4. /\ z \in ScopeType /\ PartOf(z, With(p.outer, Proved(p)))
      /\ \A x \in Locals : p.outer.nilable[x] = "unknown" => z.nilable[x] = "unknown"
  BY <1>2, SettlesView
<1>5. ASSUME NEW t \in T, IsBare(t) PROVE Unnamed(t[1], z)
  <2>1. Unnamed(t[1], p.outer)
    BY <1>2, <1>5 DEF Agreed, AllSettled, Settled
  <2>2. IsLess(With(p.outer, Proved(p)), z)
    BY <1>4 DEF PartOf
  <2>3. With(p.outer, Proved(p)).alias = p.outer.alias /\ With(p.outer, Proved(p)).errProof = p.outer.errProof
    BY DEF With
  <2>4. t[1] \in Locals
    BY <1>1, PlaceIsPath
  <2>. QED
    BY <2>1, <2>2, <2>3, <2>4 DEF Unnamed, IsLess
<1>6. ASSUME st.op = "addr" PROVE z.nilable[st.x] = "unknown"
  <2>1. st.x \in Locals
    BY <1>6 DEF IsStatement
  <2>2. p.outer.nilable[st.x] = "unknown"
    BY <1>2, <1>6 DEF Sits
  <2>. QED
    BY <1>4, <2>1, <2>2
<1>7. PICK w : w = Invalidate(z, AssignedPaths(T, s.alias))
  OBVIOUS
<1>8. WellFormed(u) /\ PartOf(w, u)
  BY <1>1, <1>3, <1>4, <1>5, <1>6, <1>7, StatementPart
<1>9. Gone(T, s, w)
  BY <1>1, <1>3, <1>4, <1>7, WrittenGone
<1>10. w = Invalidate(View(p), AssignedPaths(T, s.alias))
  BY <1>7
<1>. HIDE DEF z
<1>11. Stack(l, ns) /\ ns # <<>> /\ Last(ns) = n /\ View(n) = w
  BY <1>1, <1>9, <1>10, Grown
<1>12. n.kind # "if" /\ ~Leaving(n.ended)
  BY DEF WritesMore, Leaving
<1>13. OnTop(n, u, k)
  BY <1>8, <1>11, <1>12 DEF OnTop
<1>14. AtHand(u, k)
  BY <1>1, <1>8 DEF AtHand
<1>. QED
  BY <1>11, <1>13, <1>14 DEF Nested

\* A simple statement outside of all blocks.
LEMMA WroteOutside ==
    ASSUME NEW l, NEW s, NEW m, Nested(l, <<>>, s, m),
           NEW st, IsStatement(st), \A t \in Targets(st) : Stars(t, s),
           NEW u, u = Effect(st, s), NEW k, k \in MemoryType \cup {Dead}, k # Dead => Fits(u, k)
    PROVE  Nested(l, <<>>, u, k)
<1>. DEFINE T == Targets(st)
<1>1. Stack(l, <<>>) /\ AtHand(s, m) /\ s \in ScopeType /\ WellFormed(s) /\ u \in ScopeType
  BY EffectTyped DEF Nested, AtHand
<1>2. T \in SUBSET Typed
  BY TargetsTyped
<1>3. \A t \in T : IsBare(t) => t[1] \in Locals
  BY <1>1, <1>2, PlaceIsPath
<1>4. PartOf(NewScope, s) /\ NewScope \in ScopeType
  BY NothingKnown
<1>5. \A t \in T : IsBare(t) => Unnamed(t[1], NewScope)
  BY <1>3, NothingKnown
<1>6. st.op = "addr" => NewScope.nilable[st.x] = "unknown"
  BY NothingKnown DEF IsStatement
<1>7. WellFormed(u)
  BY <1>1, <1>4, <1>5, <1>6, StatementPart
<1>8. AtHand(u, k)
  BY <1>1, <1>7 DEF AtHand
<1>. QED
  BY <1>1, <1>8 DEF Nested

\* A frame in whose block nothing has been written.
LEMMA FreshSettles ==
    ASSUME NEW fr, fr.outer \in ScopeType, WellFormed(fr.outer), fr.wr = {}, fr.all = {},
           fr.kind \in {"then", "else", "elseif"} => AllClear(fr.g.t, fr.outer) /\ AllClear(fr.g.f, fr.outer)
    PROVE  /\ Settles(fr) /\ View(fr) = With(fr.outer, Proved(fr)) /\ View(fr) \in ScopeType /\ WellFormed(View(fr))
<1>1. AllClear(Proved(fr), fr.outer)
  BY DEF Proved, AllClear
<1>2. Proved(fr) \in SUBSET Path
  BY <1>1 DEF AllClear, Clear, Expr
<1>3. PICK z : z = With(fr.outer, Proved(fr))
  OBVIOUS
<1>4. z \in ScopeType /\ WellFormed(z)
  BY <1>1, <1>2, <1>3, PartOfWith, WithPart
<1>5. View(fr) = z
  BY <1>3, <1>4, FreshView
<1>6. fr.wr \in SUBSET Typed /\ fr.all \in SUBSET Typed
  OBVIOUS
<1>7. Gone(fr.wr, fr.outer, View(fr)) /\ Gone(fr.all, fr.outer, Before(fr))
  BY NothingGone
<1>8. Settles(fr)
  BY <1>6, <1>7 DEF Settles
<1>. QED
  BY <1>3, <1>4, <1>5, <1>8

\* A statement is opened, which may take the address of the locals in taken.
LEMMA NestedOpened ==
    ASSUME NEW l, l.depth \in Nat, NEW fs, NEW s, NEW m, Nested(l, fs, s, m), Len(fs) < l.depth,
           NEW taken \in SUBSET Locals,
           fs # <<>> => taken \subseteq Last(fs).taken /\ Last(fs).kind # "if" /\ Last(fs).ended = "no",
           NEW u, u = DropNil(s, taken), NEW k \in {m, Dead},
           NEW fr \in FrameOf(l), fr.kind = "block" \/ (fr.kind = "if" /\ fr.head \in l.ifs),
           fr.outer = u, fr.inner = u, fr.wr = {}, fr.all = {}, fr.ended = "no", fr.pend = Dead, fr.out = Dead,
           fr.taken = taken, NEW ns, ns = Append(fs, fr)
    PROVE  Nested(l, ns, u, k)
<1>1. Stack(l, fs) /\ AtHand(s, m) /\ s \in ScopeType /\ WellFormed(s)
  BY DEF Nested, AtHand
<1>2. /\ u \in ScopeType /\ WellFormed(u) /\ PartOf(u, s)
      /\ \A x \in Locals : u.nilable[x] = IF x \in taken THEN "unknown" ELSE s.nilable[x]
      /\ \A z : PartOf(z, s) /\ (\A x \in taken : z.nilable[x] = "unknown") => PartOf(z, u)
  BY <1>1, DropNilPart
<1>3. AtHand(u, k)
  BY <1>1, <1>2, PartFits DEF AtHand
<1>4. Proved(fr) = {}
  BY DEF Proved
<1>5. Settles(fr) /\ View(fr) = With(u, {})
  BY <1>2, <1>4, FreshSettles
<1>6. View(fr) = u
  BY <1>2, <1>5, WithNothing
<1>7. Sits(fr, l)
  BY <1>2, <1>5 DEF Sits, Awaits
<1>8. ASSUME fs # <<>> PROVE Holds(Last(fs), fr.outer)
  <2>1. PICK p : p = Last(fs)
    OBVIOUS
  <2>2. Sits(p, l) /\ Settles(p)
    BY <1>1, <1>8, <2>1, StackTop
  <2>3. PartOf(View(p), s)
    BY <1>8, <2>1 DEF Nested, OnTop
  <2>4. \A x \in taken : View(p).nilable[x] = "unknown"
    <3>1. \A x \in taken : x \in Locals /\ x \in p.taken
      BY <1>8, <2>1
    <3>2. \A x \in Locals : p.outer.nilable[x] = "unknown" => View(p).nilable[x] = "unknown"
      BY <2>2, SettlesView
    <3>. QED
      BY <2>2, <3>1, <3>2 DEF Sits
  <2>5. PartOf(View(p), u)
    BY <1>2, <2>3, <2>4
  <2>. QED
    BY <1>8, <2>1, <2>5 DEF Holds
<1>9. Stack(l, ns) /\ ns # <<>> /\ Last(ns) = fr
  BY ONLY <1>1, <1>7, <1>8, l.depth \in Nat, Len(fs) < l.depth, fr.wr = {}, fr.all = {}, ns = Append(fs, fr), Pushed
<1>10. OnTop(fr, u, k)
  <2>1. PartOf(u, u)
    BY PartItself
  <2>. QED
    BY <1>6, <2>1 DEF OnTop
<1>. QED
  BY <1>3, <1>9, <1>10 DEF Nested

\* The then block is entered with what the condition proves.
LEMMA NestedTaken ==
    ASSUME NEW l, NEW fs, NEW s, NEW m, Nested(l, fs, s, m), fs # <<>>, NEW p, p = Last(fs), p.kind = "if",
           NEW g \in Guards, AllClear(g.t, s), AllClear(g.f, s),
           NEW pend \in MemoryType \cup {Dead}, pend # Dead => Fits(With(s, g.f), pend),
           NEW k \in MemoryType \cup {Dead}, NEW u, u = With(s, g.t), k # Dead => Fits(u, k),
           NEW n, Taking(n, p, s, g, pend),
           NEW ns, Replaces(ns, fs, n)
    PROVE  Nested(l, ns, u, k)
<1>1. Stack(l, fs) /\ AtHand(s, m) /\ OnTop(p, s, m) /\ s \in ScopeType /\ WellFormed(s)
  BY DEF Nested, AtHand
<1>2. /\ Sits(p, l) /\ p \in FrameOf(l) /\ Settles(p) /\ Awaits(p)
      /\ Agreed(p.wr \cup p.all, fs, p.outer)
  BY <1>1, StackTop
<1>3. s = p.outer /\ p.wr = {} /\ p.all = {} /\ p.ended = "no" /\ p.out = Dead
  BY <1>1, <1>2 DEF OnTop, Settles, Awaits
<1>4. /\ n \in FrameOf(l) /\ n.kind = "then" /\ n.outer = p.outer /\ n.inner = s
      /\ n.wr = p.wr /\ n.all = p.all
      /\ n.ended = p.ended /\ n.first = p.first /\ n.pend = pend /\ n.out = p.out
      /\ n.taken = p.taken /\ n.head = p.head /\ n.g = g
  <2>1. p \in FrameOf(l) /\ s \in ScopeType
    BY <1>1, <1>2
  <2>. QED
    BY ONLY <2>1, g \in Guards, pend \in MemoryType \cup {Dead}, Taking(n, p, s, g, pend), FrameThen
<1>5. Proved(n) = g.t
  BY <1>4 DEF Proved
<1>6. Settles(n) /\ View(n) = u /\ u \in ScopeType /\ WellFormed(u)
  <2>1. n.outer = s /\ n.wr = {} /\ n.all = {} /\ n.g = g
    BY <1>3, <1>4
  <2>2. n.outer \in ScopeType /\ WellFormed(n.outer) /\ AllClear(n.g.t, n.outer) /\ AllClear(n.g.f, n.outer)
    BY <1>1, <2>1
  <2>3. Settles(n) /\ View(n) = With(n.outer, Proved(n)) /\ View(n) \in ScopeType /\ WellFormed(View(n))
    BY <2>1, <2>2, FreshSettles
  <2>4. View(n) = u
    BY <1>5, <2>1, <2>3
  <2>. QED
    BY <2>3, <2>4
<1>7. Awaits(n)
  BY <1>3, <1>4 DEF Awaits
<1>8. Sits(n, l)
  BY <1>2, <1>3, <1>4, <1>6, <1>7 DEF Sits
<1>9. Agreed(n.wr \cup n.all, fs, n.outer) /\ n.outer = Last(fs).outer
  BY <1>2, <1>4
<1>10. Stack(l, ns) /\ ns # <<>> /\ Last(ns) = n
  BY ONLY <1>1, fs # <<>>, <1>8, <1>9, Replaces(ns, fs, n), TopReplaced
<1>11. OnTop(n, u, k)
  <2>1. PartOf(u, u) /\ ~Leaving(n.ended)
    BY <1>3, <1>4, PartItself DEF Leaving
  <2>. QED
    BY <1>4, <1>6, <2>1 DEF OnTop
<1>12. AtHand(u, k)
  BY <1>6 DEF AtHand
<1>. QED
  BY <1>10, <1>11, <1>12 DEF Nested

\* The else block, or the if of an else-if, is entered with the opposite.
LEMMA NestedElse ==
    ASSUME NEW l, NEW fs, NEW s, NEW m, Nested(l, fs, s, m), fs # <<>>, NEW p, p = Last(fs), p.kind = "then",
           NEW kind \in {"else", "elseif"}, NEW u, u = With(p.inner, p.g.f),
           NEW out, out = IF m = Dead THEN p.out ELSE m,
           NEW n, Turning(n, p, kind, out),
           NEW ns, Replaces(ns, fs, n)
    PROVE  Nested(l, ns, u, p.pend)
<1>1. Stack(l, fs) /\ AtHand(s, m) /\ OnTop(p, s, m) /\ s \in ScopeType /\ WellFormed(s)
  BY DEF Nested, AtHand
<1>2. /\ Sits(p, l) /\ p \in FrameOf(l) /\ Settles(p) /\ Awaits(p)
      /\ Agreed(p.wr \cup p.all, fs, p.outer)
  BY <1>1, StackTop
<1>3. /\ p.out = Dead /\ p.ended \in {"no"} \cup l.exits /\ p.inner = p.outer
      /\ p.pend \in MemoryType \cup {Dead} /\ (p.pend # Dead => Fits(u, p.pend))
  BY <1>2, FrameParts DEF Awaits, Sits
<1>4. out \in MemoryType \cup {Dead} /\ (out # Dead => Fits(s, out) /\ ~Leaving(p.ended))
  BY <1>1, <1>3 DEF OnTop, AtHand
<1>5. /\ n \in FrameOf(l) /\ n.kind = kind /\ n.outer = p.outer /\ n.inner = p.inner
      /\ n.wr = {} /\ n.all = p.wr
      /\ n.ended = "no" /\ n.first = p.ended /\ n.pend = Dead /\ n.out = out
      /\ n.taken = p.taken /\ n.head = p.head /\ n.g = p.g
  BY <1>2, <1>3, <1>4, FrameElse
<1>6. /\ p.outer \in ScopeType /\ WellFormed(p.outer) /\ p.wr \in SUBSET Typed
      /\ AllClear(p.g.t, p.outer) /\ AllClear(p.g.f, p.outer) /\ Gone(p.wr, p.outer, View(p))
  BY <1>2 DEF Settles
<1>7. Proved(n) = p.g.f /\ Before(n) = View(p)
  BY <1>5 DEF Proved, Before, View
<1>8. p.g.f \in SUBSET Path
  BY <1>6 DEF AllClear, Clear, Expr
<1>9. u \in ScopeType /\ WellFormed(u)
  BY <1>3, <1>6, <1>8, PartOfWith, WithPart
<1>10. View(n) = u
  <2>1. n.wr = {} /\ u = With(n.outer, Proved(n))
    BY <1>3, <1>5, <1>7
  <2>. QED
    BY <1>9, <2>1, FreshView
<1>11. Gone(n.wr, n.outer, View(n))
  BY <1>5, NothingGone
<1>12. Settles(n)
  BY <1>5, <1>6, <1>7, <1>11 DEF Settles
<1>13. out # Dead => Fits(View(p), out)
  <2>1. View(p) \in ScopeType /\ PartOf(View(p), s)
    BY <1>1, <1>2, SettlesView DEF OnTop
  <2>. QED
    BY <1>4, <2>1, PartFits
<1>14. Awaits(n)
  BY <1>4, <1>5, <1>7, <1>13 DEF Awaits
<1>15. Sits(n, l)
  BY <1>2, <1>3, <1>5, <1>12, <1>14 DEF Sits
<1>16. Agreed(n.wr \cup n.all, fs, n.outer) /\ n.outer = Last(fs).outer
  <2>1. n.wr \cup n.all \subseteq p.wr \cup p.all
    BY <1>5
  <2>. QED
    BY <1>2, <1>5, <2>1 DEF Agreed, AllSettled
<1>17. Stack(l, ns) /\ ns # <<>> /\ Last(ns) = n
  BY ONLY <1>1, fs # <<>>, <1>15, <1>16, Replaces(ns, fs, n), TopReplaced
<1>18. OnTop(n, u, p.pend)
  <2>1. PartOf(u, u) /\ ~Leaving(n.ended)
    BY <1>5, PartItself DEF Leaving
  <2>. QED
    BY <1>5, <1>10, <2>1 DEF OnTop
<1>19. AtHand(u, p.pend)
  BY <1>3, <1>9 DEF AtHand
<1>. QED
  BY <1>17, <1>18, <1>19 DEF Nested

\* The block of p once a statement in it is done.
Continued(p, T) ==
    [p EXCEPT !.wr = p.wr \cup T, !.size = p.size + 1, !.ended = IF p.kind = "elseif" THEN "if" ELSE p.ended]

LEMMA FrameDone ==
    ASSUME NEW l, NEW p \in FrameOf(l), NEW T \in SUBSET Typed, NEW n, n = Continued(p, T)
    PROVE  /\ n \in FrameOf(l) /\ WritesMore(n, p, T)
           /\ n.ended = IF p.kind = "elseif" THEN "if" ELSE p.ended
<1>1. p.wr \in SUBSET Typed /\ p.size \in Nat /\ p.ended \in {"no", "if"} \cup l.exits
  BY DEF FrameOf
<1>2. PICK w \in SUBSET Typed : w = p.wr \cup T
  BY <1>1
<1>3. PICK k \in Nat : k = p.size + 1
  BY <1>1
<1>4. PICK e \in {"no", "if"} \cup l.exits : e = IF p.kind = "elseif" THEN "if" ELSE p.ended
  BY <1>1
<1>5. n = [p EXCEPT !.wr = w, !.size = k, !.ended = e]
  BY <1>2, <1>3, <1>4 DEF Continued
<1>6. /\ n \in FrameOf(l) /\ n.kind = p.kind /\ n.outer = p.outer /\ n.inner = p.inner
      /\ n.wr = w /\ n.all = p.all /\ n.ended = e /\ n.first = p.first /\ n.pend = p.pend /\ n.out = p.out
      /\ n.taken = p.taken /\ n.head = p.head /\ n.g = p.g
  BY ONLY <1>5, p \in FrameOf(l), w \in SUBSET Typed, k \in Nat, e \in {"no", "if"} \cup l.exits DEF FrameOf
<1>. QED
  BY <1>2, <1>4, <1>6 DEF WritesMore

\* What Popped leaves.
Unwound(ns, rest, T) ==
    IF rest = <<>> THEN ns = rest
    ELSE ns = [rest EXCEPT ![Len(rest)].wr = @ \cup T,
                           ![Len(rest)].size = @ + 1,
                           ![Len(rest)].ended = IF Last(rest).kind = "elseif" THEN "if" ELSE @]

LEMMA UnwoundIs ==
    ASSUME NEW l, NEW rest \in Seq(FrameOf(l)), rest # <<>>, NEW T, NEW ns, Unwound(ns, rest, T),
           NEW p, p = Last(rest), NEW n, n = Continued(p, T)
    PROVE  Replaces(ns, rest, n)
<1>. DEFINE k == Len(rest)
<1>1. k \in DOMAIN rest /\ p = rest[k] /\ p \in FrameOf(l)
  BY DEF Last
<1>2. ns = [rest EXCEPT ![k].wr = @ \cup T, ![k].size = @ + 1,
                        ![k].ended = IF p.kind = "elseif" THEN "if" ELSE @]
  BY DEF Unwound
<1>. HIDE DEF k
<1>3. ns = [rest EXCEPT ![k] = [p EXCEPT !.wr = p.wr \cup T, !.size = p.size + 1,
                                         !.ended = IF p.kind = "elseif" THEN "if" ELSE p.ended]]
  BY ONLY <1>1, <1>2, rest \in Seq(FrameOf(l)) DEF FrameOf
<1>. QED
  BY <1>3 DEF Replaces, Continued, k

\* A statement that wrote T is done: a is what it leaves known.
LEMMA NestedPopped ==
    ASSUME NEW l, l.depth \in Nat, NEW fs, Stack(l, fs), fs # <<>>, NEW top, top = Last(fs),
           NEW T, T \subseteq top.wr \cup top.all,
           NEW d, d = InvalidateWrites(top.outer, T), Gone(T, top.outer, d),
           NEW a, NEW k, AtHand(a, k), PartOf(d, a),
           NEW rest, rest = Front(fs), NEW ns, Unwound(ns, rest, T)
    PROVE  Nested(l, ns, a, k)
<1>1. Settles(top)
  BY StackTop
<1>2. T \in SUBSET Typed /\ top.outer \in ScopeType
  BY <1>1 DEF Settles
<1>3. Stack(l, rest) /\ (rest # <<>> => Holds(Last(rest), top.outer) /\ Agreed(top.wr \cup top.all, rest, top.outer))
  BY PoppedStack
<1>4. CASE rest = <<>>
  <2>1. ns = <<>> /\ Stack(l, ns)
    BY <1>3, <1>4 DEF Unwound
  <2>. QED
    BY <2>1 DEF Nested
<1>5. CASE rest # <<>>
  <2>1. PICK p : p = Last(rest)
    OBVIOUS
  <2>2. PICK n : n = Continued(p, T)
    OBVIOUS
  <2>3. rest \in Seq(FrameOf(l))
    BY <1>3 DEF Stack
  <2>4. Settles(p) /\ p \in FrameOf(l)
    BY <1>3, <1>5, <2>1, StackTop
  <2>5. Replaces(ns, rest, n)
    BY <1>5, <2>1, <2>2, <2>3, UnwoundIs
  <2>6. n \in FrameOf(l) /\ WritesMore(n, p, T) /\ n.ended = IF p.kind = "elseif" THEN "if" ELSE p.ended
    BY <1>2, <2>2, <2>4, FrameDone
  <2>7. Agreed(T, rest, top.outer)
    BY <1>3, <1>5 DEF Agreed, AllSettled
  <2>8. p.kind # "if" /\ p.ended = "no" /\ PartOf(View(p), top.outer)
    BY <1>3, <1>5, <2>1 DEF Holds
  <2>9. View(p) \in ScopeType
    BY <2>4, SettlesView
  <2>10. PICK z : z = View(p)
    OBVIOUS
  <2>11. PICK P : P = AssignedPaths(T, top.outer.alias)
    OBVIOUS
  <2>12. PICK w : w = Invalidate(z, P)
    OBVIOUS
  <2>13. d = Invalidate(top.outer, P)
    BY <2>11 DEF InvalidateWrites
  <2>14. PartOf(w, d)
    BY <1>2, <2>8, <2>9, <2>10, <2>12, <2>13, PartInvalidated
  <2>15. Gone(T, top.outer, w)
    BY <2>14, GoneOfLess DEF PartOf
  <2>16. PartOf(w, a)
    BY <2>14, PartOfPart
  <2>17. w = Invalidate(View(p), AssignedPaths(T, top.outer.alias))
    BY <2>10, <2>11, <2>12
  <2>18. n.ended = p.ended \/ p.kind = "elseif"
    BY <2>6
  <2>19. Stack(l, ns) /\ ns # <<>> /\ Last(ns) = n /\ View(n) = w
    BY <1>2, <1>3, <1>5, <2>1, <2>5, <2>6, <2>7, <2>15, <2>17, <2>18, Grown
  <2>20. n.kind # "if" /\ ~Leaving(n.ended)
    BY <2>6, <2>8 DEF WritesMore, Leaving
  <2>21. OnTop(n, a, k)
    BY <2>16, <2>19, <2>20 DEF OnTop
  <2>. QED
    BY <2>19, <2>21 DEF Nested
<1>. QED
  BY <1>4, <1>5

\* Nothing is known of what the collector takes.
LEMMA CollectFits ==
    ASSUME NEW s, NEW m, Fits(s, m), NEW n, n = Collect(m)
    PROVE  Fits(s, n)
<1>1. m \in MemoryType /\ s \in ScopeType /\ Sound(s, m) /\ Typings(m)
  BY DEF Fits
<1>2. n \in MemoryType /\ Agrees(m, n)
  BY <1>1, CollectAgrees
<1>3. n.env = m.env
  BY <1>2 DEF Agrees
<1>4. ASSUME NEW k, Knows(s, k) PROVE Meaning(k, s, n) = Meaning(k, s, m)
  <2>1. WellFormed(s)
    BY <1>1, WellFormedKnown
  <2>2. k[1] \in Locals /\ Rest(k, s) \in Seq(Slots)
    BY <1>4, <2>1, ClearParts DEF WellFormed
  <2>. QED
    BY <1>2, <1>3, <2>2, LocalsAgree DEF Meaning
<1>5. Sound(s, n)
  BY <1>1, <1>3, <1>4, Remembered
<1>6. Typings(n)
  BY <1>1, <1>3 DEF Typings
<1>. QED
  BY <1>1, <1>2, <1>5, <1>6 DEF Fits

\* A head without an init statement shadows nothing.
LEMMA RestoredFits ==
    ASSUME NEW s, NEW m, m # Dead => Fits(s, m), NEW fr, fr.saved = <<>>, NEW n, n = Restored(fr, m)
    PROVE  IF m = Dead THEN n = Dead ELSE Fits(s, n)
<1>1. CASE m = Dead
  BY <1>1 DEF Restored
<1>2. CASE m # Dead
  <2>1. m \in MemoryType /\ Fits(s, m)
    BY <1>2 DEF Fits
  <2>2. DOMAIN fr.saved = {}
    OBVIOUS
  <2>3. m.env = [l \in Locals |-> m.env[l]] /\ m.origin = m.origin \ {}
    BY <2>1 DEF MemoryType
  <2>4. m = [m EXCEPT !.env = [l \in Locals |-> IF l \in DOMAIN fr.saved THEN fr.saved[l] ELSE @[l]],
                      !.origin = @ \ DOMAIN fr.saved]
    BY <2>1, <2>2, <2>3 DEF MemoryType
  <2>5. n = Collect(m)
    BY <1>2, <2>4 DEF Restored
  <2>. QED
    BY <1>2, <2>1, <2>5, CollectFits
<1>. QED
  BY <1>1, <1>2

\* The execution comes past an if with one of its memories.
LEMMA ResumedFits ==
    ASSUME NEW fr, fr.saved = <<>>, NEW m, NEW a, \A n \in {m, fr.pend, fr.out} : n # Dead => Fits(a, n),
           NEW k, k = Resumed(fr, m)
    PROVE  k \in MemoryType \cup {Dead} /\ (k # Dead => Fits(a, k))
<1>. DEFINE all == {m, fr.pend, fr.out}
<1>1. PICK n : n = CHOOSE z \in all : z # Dead \/ all = {Dead}
  OBVIOUS
<1>2. \E z \in all : z # Dead \/ all = {Dead}
  OBVIOUS
<1>3. n \in all
  BY <1>1, <1>2
<1>4. k = Restored(fr, n)
  BY <1>1 DEF Resumed
<1>5. n # Dead => Fits(a, n)
  BY <1>3
<1>6. IF n = Dead THEN k = Dead ELSE Fits(a, k)
  BY <1>4, <1>5, RestoredFits
<1>. QED
  BY <1>6 DEF Fits

\* An if is done.
LEMMA NestedIfEnded ==
    ASSUME NEW l, l.depth \in Nat, NEW fs, NEW s, NEW m, Nested(l, fs, s, m), fs # <<>>, NEW p, p = Last(fs),
           p.kind \in {"then", "else", "elseif"},
           NEW a, a = AfterIf(p), NEW k, k = Resumed(p, m),
           NEW T, T = p.all \cup p.wr,
           NEW rest, rest = Front(fs), NEW ns, Unwound(ns, rest, T)
    PROVE  Nested(l, ns, a, k)
<1>1. Stack(l, fs) /\ AtHand(s, m) /\ OnTop(p, s, m)
  BY DEF Nested
<1>2. Sits(p, l) /\ Settles(p) /\ Awaits(p) /\ p \in FrameOf(l)
  BY <1>1, StackTop
<1>3. PartOf(View(p), s) /\ Waits(p, s, m)
  BY <1>1, <1>2 DEF OnTop, AtHand, Awaits, Waits
<1>4. PICK d : d = InvalidateWrites(p.outer, T)
  OBVIOUS
<1>5. d = InvalidateWrites(p.outer, p.all \cup p.wr)
  BY <1>4
<1>6. /\ a \in ScopeType /\ WellFormed(a) /\ PartOf(d, a)
      /\ d \in ScopeType /\ WellFormed(d) /\ Gone(p.all \cup p.wr, p.outer, d)
      /\ \A n \in {m, p.pend, p.out} : n # Dead => Fits(a, n)
  <2>1. p.kind \in {"then", "else", "elseif"} /\ Settles(p)
    BY <1>2
  <2>. QED
    BY ONLY <1>3, <1>5, <2>1, a = AfterIf(p), AfterIfFacts
<1>7. p.saved = <<>>
  BY <1>2, FrameParts
<1>8. k \in MemoryType \cup {Dead} /\ (k # Dead => Fits(a, k))
  BY <1>6, <1>7, ResumedFits
<1>9. AtHand(a, k)
  BY <1>6, <1>8 DEF AtHand
<1>10. T \subseteq p.wr \cup p.all /\ Gone(T, p.outer, d)
  BY <1>6
<1>. QED
  BY <1>1, <1>4, <1>6, <1>9, <1>10, NestedPopped

\* A block is done.
LEMMA NestedBlockEnded ==
    ASSUME NEW l, l.depth \in Nat, NEW fs, NEW s, NEW m, Nested(l, fs, s, m), fs # <<>>, NEW p, p = Last(fs),
           p.kind = "block",
           NEW a, a = InvalidateWrites(p.outer, p.wr),
           NEW rest, rest = Front(fs), NEW ns, Unwound(ns, rest, p.wr)
    PROVE  Nested(l, ns, a, m)
<1>1. Stack(l, fs) /\ AtHand(s, m) /\ OnTop(p, s, m)
  BY DEF Nested
<1>2. Sits(p, l) /\ Settles(p) /\ Awaits(p) /\ p \in FrameOf(l)
  BY <1>1, StackTop
<1>3. Proved(p) = {}
  BY Zenon DEF Proved
<1>4. With(p.outer, {}) = p.outer
  <2>1. p.outer \in ScopeType
    BY <1>2 DEF Settles
  <2>. QED
    BY <2>1, WithNothing
<1>5. View(p) = a
  BY <1>3, <1>4 DEF View
<1>6. Gone(p.wr, p.outer, a) /\ a \in ScopeType /\ WellFormed(a)
  BY <1>2, <1>5, SettlesView DEF Settles
<1>7. PartOf(a, s)
  BY <1>1, <1>5 DEF OnTop
<1>8. AtHand(a, m)
  BY <1>1, <1>6, <1>7, PartFits DEF AtHand
<1>9. PartOf(a, a)
  BY DEF PartOf, IsLess
<1>. QED
  BY <1>1, <1>6, <1>8, <1>9, NestedPopped

-----------------------------------------------------------------------------
(* Bodies of simple statements, ifs and blocks.                            *)

\* No loops, no switches, no selects and no closures, and ifs without init.
Structured ==
    \/ MaxDepth = 0
    \/ /\ LoopHeads = {} /\ Switches = {} /\ Compounds \subseteq {"block"}
       /\ \A h \in IfHeads : h.init = Skip

LEMMA LanguageParts ==
    ASSUME lang \in Languages
    PROVE  /\ lang.depth \in Nat /\ MaxDepth = lang.depth /\ IfHeads = lang.ifs /\ Exits = lang.exits
           /\ \A h \in lang.ifs : h.cond \in Conds /\ h.cond.k # "nil"
BY WalkAssumption DEF Language, MaxDepth, IfHeads, Exits

LEMMA StackKinds ==
    ASSUME NEW l, NEW fs, Stack(l, fs)
    PROVE  \A i \in DOMAIN fs : fs[i].kind \in Kinds
<1>. SUFFICES ASSUME NEW i \in DOMAIN fs PROVE fs[i].kind \in Kinds
  OBVIOUS
<1>1. fs \in Seq(FrameOf(l))
  BY DEF Stack
<1>2. fs[i] \in FrameOf(l)
  BY <1>1
<1>. QED
  BY <1>2, FrameParts

\* There is nothing to break out of, and nowhere to return to.
LEMMA NothingToLeave ==
    ASSUME NEW fs, \A i \in DOMAIN fs : fs[i].kind \in Kinds, NEW how, how \notin {"break", "fallthrough"}, NEW m
    PROVE  Left(how, m, fs) = fs
<1>1. {i \in DOMAIN fs : fs[i].kind \in {"lit", "go"}} = {}
  BY DEF Kinds
<1>. QED
  BY <1>1 DEF Left

LEMMA NoBreak ==
    ASSUME NEW l, Stack(l, frames)
    PROVE  ~CanBreak
<1>1. \A i \in DOMAIN frames : frames[i].kind \in Kinds
  BY StackKinds
<1>. QED
  BY <1>1 DEF CanBreak, Kinds

LEMMA FollowsStars ==
    ASSUME Wild = {}, NEW st, NEW s, NEW m, Follows(st, s, m)
    PROVE  \A t \in Targets(st) : Stars(t, s)
BY Zenon DEF Follows, Stars

LEMMA FollowsAgreed ==
    ASSUME Wild = {}, NEW st, NEW s, NEW m, Follows(st, s, m), NEW l, Stack(l, frames)
    PROVE  Agreed(Targets(st), frames, s)
<1>. SUFFICES ASSUME NEW j \in 1..Len(frames), NEW t \in Targets(st) PROVE Settled(t, frames[j].outer, s)
  BY DEF Agreed, AllSettled
<1>0. j \in DOMAIN frames
  BY DEF Stack
<1>1. IsBare(t) => frames[j].outer.alias[t[1]] = NoPath /\ frames[j].outer.errProof[t[1]] = {}
  BY <1>0, Zenon DEF Follows
<1>2. ~IsBare(t) => Canonical(t, frames[j].outer.alias) = Canonical(t, s.alias)
  BY <1>0, Zenon DEF Follows
<1>. QED
  BY <1>1, <1>2 DEF Settled, Unnamed

\* A statement more in the block of p.
Lengthens(n, p, T) == n = [p EXCEPT !.wr = @ \cup T, !.size = @ + 1]

LEMMA FrameLonger ==
    ASSUME NEW l, NEW p \in FrameOf(l), NEW T \in SUBSET Typed, NEW n, Lengthens(n, p, T)
    PROVE  n \in FrameOf(l) /\ WritesMore(n, p, T) /\ n.ended = p.ended
<1>1. p.wr \in SUBSET Typed /\ p.size \in Nat
  BY DEF FrameOf
<1>2. PICK w \in SUBSET Typed : w = p.wr \cup T
  BY <1>1
<1>3. PICK k \in Nat : k = p.size + 1
  BY <1>1
<1>4. n = [p EXCEPT !.wr = w, !.size = k]
  BY <1>2, <1>3 DEF Lengthens
<1>5. /\ n \in FrameOf(l) /\ n.kind = p.kind /\ n.outer = p.outer /\ n.inner = p.inner
      /\ n.wr = w /\ n.all = p.all /\ n.ended = p.ended /\ n.first = p.first /\ n.pend = p.pend /\ n.out = p.out
      /\ n.taken = p.taken /\ n.head = p.head /\ n.g = p.g
  BY ONLY <1>4, p \in FrameOf(l), w \in SUBSET Typed, k \in Nat DEF FrameOf
<1>. QED
  BY <1>2, <1>5 DEF WritesMore

\* A simple statement is walked, and k is where the execution goes.
LEMMA NestedWrote ==
    ASSUME Wild = {}, lang \in Languages, Nested(lang, frames, sc, mem), NEW st \in Stmts, Simple(st),
           NEW k, k \in MemoryType \cup {Dead}, k # Dead => Fits(Effect(st, sc), k)
    PROVE  Nested(lang, Wrote(Targets(st)), Effect(st, sc), k)
<1>. DEFINE T == Targets(st)
<1>1. IsStatement(st)
  BY BodyIsLanguage
<1>2. Follows(st, sc, mem) /\ InBlock /\ (st.op = "addr" => \A i \in DOMAIN frames : st.x \in frames[i].taken)
  BY DEF Simple
<1>3. Stack(lang, frames)
  BY DEF Nested
<1>4. \A t \in T : Stars(t, sc)
  BY <1>2, FollowsStars
<1>5. Agreed(T, frames, sc)
  BY <1>2, <1>3, FollowsAgreed
<1>6. T \in SUBSET Typed
  BY <1>1, TargetsTyped
<1>7. PICK u : u = Effect(st, sc)
  OBVIOUS
<1>8. k # Dead => Fits(u, k)
  BY <1>7
<1>9. CASE frames = <<>>
  <2>1. Wrote(T) = <<>>
    BY <1>9 DEF Wrote
  <2>2. Nested(lang, <<>>, sc, mem)
    BY <1>9
  <2>3. Nested(lang, <<>>, u, k)
    BY ONLY <1>1, <1>4, <1>7, <1>8, <2>2, k \in MemoryType \cup {Dead}, WroteOutside
  <2>. QED
    BY <1>7, <2>1, <2>3
<1>10. CASE frames # <<>>
  <2>1. PICK p : p = Last(frames)
    OBVIOUS
  <2>2. p \in FrameOf(lang) /\ Len(frames) \in DOMAIN frames /\ p = frames[Len(frames)]
    <3>1. Len(frames) \in Nat /\ Len(frames) \in 1..Len(frames) /\ p = frames[Len(frames)] /\ p \in FrameOf(lang)
      BY <1>3, <1>10, <2>1, StackTop
    <3>2. frames \in Seq(FrameOf(lang))
      BY <1>3 DEF Stack
    <3>. QED
      BY <3>1, <3>2
  <2>3. p.kind # "if" /\ p.ended = "no"
    BY <1>2, <1>10, <2>1 DEF InBlock, Top, BlockKinds
  <2>4. st.op = "addr" => st.x \in p.taken
    BY <1>2, <2>2
  <2>6. PICK n : Lengthens(n, p, T)
    BY DEF Lengthens
  <2>7. n \in FrameOf(lang) /\ WritesMore(n, p, T) /\ n.ended = p.ended
    BY <1>6, <2>2, <2>6, FrameLonger
  <2>9. PICK ns : ns = Wrote(T)
    OBVIOUS
  <2>10. Replaces(ns, frames, n)
    BY <1>10, <2>1, <2>6, <2>9 DEF Lengthens, Replaces, Wrote, Replace, Top
  <2>11. Nested(lang, ns, u, k)
    BY <1>1, <1>4, <1>5, <1>6, <1>7, <1>8, <1>10, <2>1, <2>3, <2>4, <2>7, <2>10, WroteInBlock
  <2>. QED
    BY <1>7, <2>9, <2>11
<1>. QED
  BY <1>9, <1>10

LEMMA NestedSimple ==
    ASSUME Wild = {}, lang \in Languages, Nested(lang, frames, sc, mem), NEW st \in Stmts, Simple(st)
    PROVE  Nested(lang, frames', sc', mem') /\ Reported(fault')
<1>. DEFINE W == Wrote(Targets(st))  u == Effect(st, sc)
<1>1. /\ Follows(st, sc, mem) /\ sc' = u /\ Run(st, sc, mem, W)
      /\ st.op = "guard" /\ st.how # "return" => CanBreak
  BY DEF Simple
<1>2. IsStatement(st) /\ \A t \in Targets(st) : Proper(t) \subseteq Names
  BY BodyIsLanguage
<1>3. Stack(lang, frames) /\ sc \in ScopeType /\ (mem # Dead => Fits(sc, mem))
  BY DEF Nested, AtHand
<1>4. \A k : k \in MemoryType \cup {Dead} /\ (k # Dead => Fits(u, k)) => Nested(lang, W, u, k)
  BY NestedWrote
<1>. HIDE DEF W, u
<1>5. Nested(lang, W, u, Dead)
  BY <1>4
<1>6. mem' = Dead /\ frames' = W /\ Reported(fault') => Nested(lang, frames', sc', mem') /\ Reported(fault')
  BY <1>1, <1>5
<1>7. CASE mem = Dead
  <2>1. mem' = Dead /\ frames' = W /\ fault' = NoFault
    BY <1>1, <1>7, Zenon DEF Run
  <2>. QED
    BY <1>6, <2>1, NoFaultReported
<1>8. CASE mem # Dead /\ \E b \in Faults(st, sc, mem) :
              mem' = Dead /\ frames' = W /\ fault' = FaultAt(b, StmtChecks(st, sc), sc, mem)
  <2>1. PICK b \in Faults(st, sc, mem) :
           mem' = Dead /\ frames' = W /\ fault' = FaultAt(b, StmtChecks(st, sc), sc, mem)
    BY <1>8
  <2>2. Fits(sc, mem)
    BY <1>3, <1>8
  <2>3. Caught(b, StmtChecks(st, sc), sc, mem)
    BY <1>2, <2>2, StatementCaught DEF Fits
  <2>4. Reported(FaultAt(b, StmtChecks(st, sc), sc, mem))
    BY <2>2, <2>3, FaultReported
  <2>. QED
    BY <1>6, <2>1, <2>4
<1>9. CASE mem # Dead /\ \E n \in After(st, sc, mem) : mem' = n /\ frames' = W /\ fault' = NoFault
  <2>1. Fits(sc, mem) /\ mem' \in After(st, sc, mem)
    BY <1>3, <1>9
  <2>2. Fits(u, mem')
    BY <1>1, <1>2, <1>9, <2>1, StatementFits DEF u
  <2>3. mem' \in MemoryType
    BY <2>2 DEF Fits
  <2>4. Nested(lang, W, u, mem')
    BY <1>4, <2>2, <2>3
  <2>. QED
    BY <1>1, <1>9, <2>4, NoFaultReported
<1>10. CASE Leaves(st, mem) /\ mem' = Dead /\ frames' = Left(st.how, mem, W) /\ fault' = NoFault
  <2>1. st.how = "return"
    BY <1>1, <1>3, <1>10, NoBreak DEF Leaves
  <2>2. \A i \in DOMAIN W : W[i].kind \in Kinds
    BY <1>5, StackKinds DEF Nested
  <2>3. Left("return", mem, W) = W
    BY <2>2, NothingToLeave
  <2>. QED
    BY <1>6, <1>10, <2>1, <2>3, NoFaultReported
<1>11. CASE Stops(st, mem) /\ mem' = Dead /\ frames' = W /\ fault' = NoFault
  BY <1>6, <1>11, NoFaultReported
<1>. QED
  BY <1>1, <1>7, <1>8, <1>9, <1>10, <1>11, Zenon DEF Run

LEMMA NestedLeave ==
    ASSUME lang \in Languages, Nested(lang, frames, sc, mem), NEW how \in Exits, Leave(how)
    PROVE  Nested(lang, frames', sc', mem') /\ Reported(fault')
<1>1. /\ InBlock /\ frames # <<>> /\ (how = "break" => CanBreak) /\ (how = "fallthrough" => Top.kind = "clause")
      /\ mem' = Dead /\ fault' = NoFault /\ sc' = sc
  BY DEF Leave
<1>2. how \in lang.exits
  BY LanguageParts
<1>3. Stack(lang, frames)
  BY DEF Nested
<1>4. PICK p : p = Last(frames)
  OBVIOUS
<1>5. p \in FrameOf(lang)
  BY <1>1, <1>3, <1>4, StackTop
<1>6. p.kind \in Kinds /\ p.kind # "if"
  BY <1>1, <1>4, <1>5, FrameParts DEF InBlock, Top, BlockKinds
<1>7. how \notin {"break", "fallthrough"}
  BY <1>1, <1>3, <1>4, <1>6, NoBreak DEF Top, Kinds
<1>8. PICK n : n = [p EXCEPT !.ended = how]
  OBVIOUS
<1>9. PICK ns : ns = Replace([Top EXCEPT !.ended = how])
  OBVIOUS
<1>10. Replaces(ns, frames, n)
  BY <1>4, <1>8, <1>9 DEF Replaces, Replace, Top
<1>11. Nested(lang, ns, sc, Dead)
  BY <1>1, <1>2, <1>4, <1>6, <1>8, <1>10, NestedLeft
<1>12. \A i \in DOMAIN ns : ns[i].kind \in Kinds
  BY <1>11, StackKinds DEF Nested
<1>13. frames' = IF mem = Dead THEN ns ELSE Left(how, mem, ns)
  BY <1>9 DEF Leave
<1>14. frames' = ns
  BY <1>7, <1>12, <1>13, NothingToLeave
<1>. QED
  BY <1>1, <1>11, <1>14, NoFaultReported

LEMMA SkipRuns ==
    ASSUME NEW s, NEW m, NEW fs, Run(Skip, s, m, fs)
    PROVE  mem' = m /\ frames' = fs /\ fault' = NoFault
<1>0. Skip.op = "skip"
  BY DEF Skip
<1>1. StmtChecks(Skip, s) = {}
  BY <1>0, Zenon DEF StmtChecks
<1>2. {ch.base : ch \in {c \in StmtChecks(Skip, s) : ~c.safe}} = {}
  BY <1>1
<1>3. Faults(Skip, s, m) = {}
  BY <1>0, <1>2 DEF Faults, FirstFaults
<1>4. After(Skip, s, m) = {m}
  BY <1>0, <1>3, Zenon DEF After
<1>5. ~Leaves(Skip, m) /\ ~Stops(Skip, m)
  BY <1>0, Zenon DEF Leaves, Stops
<1>. QED
  BY <1>3, <1>4, <1>5 DEF Run

LEMMA SkipEffect ==
    ASSUME NEW s
    PROVE  Effect(Skip, s) = s /\ Targets(Skip) = {}
BY Zenon DEF Effect, Targets, Skip

LEMMA SkipShadows == Shadowed(Skip) = <<>>
<1>. DEFINE D == {t[1] : t \in Targets(Skip)}
<1>1. D = 1..0
  BY SkipEffect
<1>2. Shadowed(Skip) = [l \in 1..0 |-> mem.env[l]]
  <2>1. Shadowed(Skip) = [l \in D |-> mem.env[l]]
    BY DEF Shadowed
  <2>. HIDE DEF D
  <2>. QED
    BY <1>1, <2>1
<1>3. Shadowed(Skip) \in Seq({mem.env[l] : l \in 1..0}) /\ Len(Shadowed(Skip)) = 0
  BY <1>2
<1>. QED
  BY <1>3

\* A condition is evaluated.
LEMMA ConditionFits ==
    ASSUME NEW s \in ScopeType, WellFormed(s), NEW c \in Conds, c.k # "nil", NEW g, g = NilGuards(c, s)
    PROVE  /\ g \in Guards /\ AllClear(g.t, s) /\ AllClear(g.f, s)
           /\ \A m : Fits(s, m) => /\ Outcome(c, m).yes => Fits(With(s, g.t), m)
                                   /\ Outcome(c, m).no => Fits(With(s, g.f), m)
                                   /\ \A b \in Outcome(c, m).dies : Reported(FaultAt(b, CondChecks(c, s), s, m))
<1>1. g \in Guards
  <2>1. PICK h \in [Conds -> Guards] : \A d \in Conds : NilGuards(d, s) = h[d] /\ GuardsOf(d, h, s, h[d])
    BY NilGuardsAre
  <2>. QED
    BY <2>1
<1>2. AllClear(g.t, s) /\ AllClear(g.f, s)
  BY GuardsClear
<1>3. ASSUME NEW m, Fits(s, m)
      PROVE  /\ Outcome(c, m).yes => Fits(With(s, g.t), m)
             /\ Outcome(c, m).no => Fits(With(s, g.f), m)
             /\ \A b \in Outcome(c, m).dies : Reported(FaultAt(b, CondChecks(c, s), s, m))
  <2>1. Sound(s, m)
    BY <1>3 DEF Fits
  <2>2. GuardHolds(g, Outcome(c, m), s, m)
    BY <2>1, GuardsHold
  <2>3. ASSUME NEW P, Vouched(P, s, m) PROVE Fits(With(s, P), m)
    <3>1. With(s, P) \in ScopeType /\ Sound(With(s, P), m)
      BY <2>1, <2>3, WithSound
    <3>. QED
      BY <1>3, <3>1 DEF Fits
  <2>4. \A b \in Outcome(c, m).dies : Caught(b, CondChecks(c, s), s, m)
    BY <2>1, ConditionCaught
  <2>5. \A b \in Outcome(c, m).dies : Reported(FaultAt(b, CondChecks(c, s), s, m))
    BY <1>3, <2>4, FaultReported
  <2>. QED
    BY <2>2, <2>3, <2>5 DEF GuardHolds
<1>. QED
  BY <1>1, <1>2, <1>3

LEMMA NestedOpenIf ==
    ASSUME lang \in Languages, Structured, Nested(lang, frames, sc, mem), NEW h \in IfHeads, OpenIf(h)
    PROVE  Nested(lang, frames', sc', mem') /\ Reported(fault')
<1>1. /\ lang.depth \in Nat /\ MaxDepth = lang.depth /\ h \in lang.ifs /\ Len(frames) < lang.depth
      /\ frames # <<>> => Top.kind \in BlockKinds \cup {"elseif"} /\ Top.ended = "no"
  BY LanguageParts DEF OpenIf
<1>2. h.init = Skip
  <2>1. MaxDepth # 0
    <3>1. Len(frames) \in Nat
      BY DEF Nested, Stack
    <3>. QED
      BY <1>1, <3>1
  <2>. QED
    BY <2>1 DEF Structured
<1>3. PICK taken \in SUBSET Takable :
         LET fr == [NewFrame("if", Opened(taken), taken) EXCEPT
                      !.head = h, !.saved = IF mem = Dead THEN <<>> ELSE Shadowed(h.init)]
         IN  /\ sc' = Effect(h.init, Opened(taken))
             /\ Run(h.init, Opened(taken), mem, Append(frames, fr))
  BY DEF OpenIf
<1>4. PICK u : u = DropNil(sc, taken)
  OBVIOUS
<1>5. PICK saved : saved = IF mem = Dead THEN <<>> ELSE Shadowed(h.init)
  OBVIOUS
<1>6. PICK new : new = NewFrame("if", u, taken)
  OBVIOUS
<1>7. PICK fr : Headed(fr, new, h, saved)
  BY DEF Headed
<1>8. sc' = Effect(Skip, u) /\ Run(Skip, u, mem, Append(frames, fr))
  BY <1>2, <1>3, <1>4, <1>5, <1>6, <1>7 DEF Opened, Headed
<1>9. sc' = u /\ mem' = mem /\ frames' = Append(frames, fr) /\ fault' = NoFault
  BY <1>8, SkipEffect, SkipRuns
<1>10. Stack(lang, frames) /\ sc \in ScopeType
  BY DEF Nested, AtHand
<1>11. /\ taken \in SUBSET Locals
       /\ frames # <<>> => taken \subseteq Last(frames).taken /\ Last(frames).kind # "if" /\ Last(frames).ended = "no"
  <2>1. CASE frames = <<>>
    BY <2>1, BodyIsLanguage DEF Takable
  <2>2. CASE frames # <<>>
    <3>1. Last(frames) \in FrameOf(lang)
      BY <1>10, <2>2, StackTop
    <3>2. Last(frames).taken \subseteq Locals
      BY <3>1, FrameParts
    <3>. QED
      BY <1>1, <2>2, <3>2 DEF Takable, Top, BlockKinds
  <2>. QED
    BY <2>1, <2>2
<1>12. u \in ScopeType
  BY <1>4, <1>10, <1>11, DropNilPart
<1>13. saved = <<>>
  BY <1>2, <1>5, SkipShadows
<1>14. "if" \in Kinds
  BY DEF Kinds
<1>15. /\ new \in FrameOf(lang) /\ new.kind = "if" /\ new.outer = u /\ new.inner = u /\ new.wr = {} /\ new.all = {}
       /\ new.ended = "no" /\ new.first = "no" /\ new.pend = Dead /\ new.out = Dead /\ new.taken = taken
  BY ONLY <1>6, <1>11, <1>12, <1>14, NewFrameIs
<1>16. /\ fr \in FrameOf(lang) /\ fr.kind = new.kind /\ fr.outer = new.outer /\ fr.inner = new.inner /\ fr.wr = new.wr
       /\ fr.all = new.all /\ fr.ended = new.ended /\ fr.pend = new.pend /\ fr.out = new.out /\ fr.taken = new.taken
       /\ fr.head = h
  BY ONLY <1>1, <1>7, <1>13, <1>15, FrameHeaded
<1>17. PICK ns : ns = Append(frames, fr)
  OBVIOUS
<1>18. PICK k : k = mem
  OBVIOUS
<1>19. Nested(lang, ns, u, k)
  BY <1>1, <1>4, <1>11, <1>15, <1>16, <1>17, <1>18, NestedOpened
<1>. QED
  BY <1>9, <1>17, <1>18, <1>19, NoFaultReported

\* The then block is entered, and the condition was not evaluated.
LEMMA TakingStays ==
    ASSUME NEW l, NEW p \in FrameOf(l), p.pend = Dead, NEW s, NEW g,
           NEW n, n = [p EXCEPT !.kind = "then", !.inner = s, !.g = g]
    PROVE  Taking(n, p, s, g, Dead)
<1>1. p = [p EXCEPT !.pend = Dead]
  BY DEF FrameOf
<1>. QED
  BY <1>1 DEF Taking, FrameOf

\* A condition is evaluated: its then block is walked.
LEMMA NestedTakeCond ==
    ASSUME lang \in Languages, Nested(lang, frames, sc, mem), TakeCond
    PROVE  Nested(lang, frames', sc', mem') /\ Reported(fault')
<1>1. PICK p : p = Last(frames)
  OBVIOUS
<1>2. PICK c : c = p.head.cond
  OBVIOUS
<1>3. PICK g : g = NilGuards(c, sc)
  OBVIOUS
<1>4. PICK n : n = [p EXCEPT !.kind = "then", !.inner = sc, !.g = g]
  OBVIOUS
<1>5. PICK q : q = [n EXCEPT !.pend = mem]
  OBVIOUS
<1>6. PICK ns : ns = Replace(n)
  OBVIOUS
<1>7. PICK qs : qs = Replace(q)
  OBVIOUS
<1>8. /\ frames # <<>> /\ p.kind = "if" /\ sc' = With(sc, g.t)
      /\ Decide(Outcome(c, mem), CondChecks(c, sc), sc, mem, ns, qs)
  BY <1>1, <1>2, <1>3, <1>4, <1>5, <1>6, <1>7 DEF TakeCond, Top
<1>9. /\ Stack(lang, frames) /\ sc \in ScopeType /\ WellFormed(sc) /\ mem \in MemoryType \cup {Dead}
      /\ mem # Dead => Fits(sc, mem)
  BY DEF Nested, AtHand
<1>10. Sits(p, lang) /\ p \in FrameOf(lang) /\ Awaits(p)
  BY <1>1, <1>8, <1>9, StackTop
<1>11. p.pend = Dead /\ c \in Conds /\ c.k # "nil"
  BY <1>2, <1>8, <1>10, LanguageParts DEF Sits, Awaits
<1>12. PICK u : u = With(sc, g.t)
  OBVIOUS
<1>13. /\ g \in Guards /\ AllClear(g.t, sc) /\ AllClear(g.f, sc)
       /\ mem # Dead => /\ Outcome(c, mem).yes => Fits(u, mem)
                        /\ Outcome(c, mem).no => Fits(With(sc, g.f), mem)
                        /\ \A b \in Outcome(c, mem).dies : Reported(FaultAt(b, CondChecks(c, sc), sc, mem))
  BY <1>3, <1>9, <1>11, <1>12, ConditionFits
<1>14. Taking(n, p, sc, g, Dead)
  BY <1>4, <1>10, <1>11, TakingStays
<1>15. Taking(q, p, sc, g, mem)
  BY <1>4, <1>5 DEF Taking
<1>16. Replaces(ns, frames, n) /\ Replaces(qs, frames, q)
  BY <1>6, <1>7 DEF Replaces, Replace
<1>17. ASSUME NEW k \in MemoryType \cup {Dead}, k # Dead => Fits(u, k) PROVE Nested(lang, ns, u, k)
  BY <1>1, <1>8, <1>12, <1>13, <1>14, <1>16, <1>17, NestedTaken
<1>18. ASSUME mem # Dead => Fits(With(sc, g.f), mem) PROVE Nested(lang, qs, u, Dead)
  BY <1>1, <1>8, <1>9, <1>12, <1>13, <1>15, <1>16, <1>18, NestedTaken
<1>19. sc' = u
  BY <1>8, <1>12
<1>20. CASE mem = Dead
  <2>1. mem' = Dead /\ frames' = qs /\ fault' = NoFault
    BY <1>8, <1>20, Zenon DEF Decide
  <2>2. Nested(lang, qs, u, Dead)
    BY <1>18, <1>20
  <2>. QED
    BY <1>19, <2>1, <2>2, NoFaultReported
<1>21. CASE mem # Dead /\ \E b \in Outcome(c, mem).dies :
              mem' = Dead /\ frames' = ns /\ fault' = FaultAt(b, CondChecks(c, sc), sc, mem)
  <2>1. Nested(lang, ns, u, Dead)
    BY <1>17
  <2>. QED
    BY <1>13, <1>19, <1>21, <2>1
<1>22. CASE mem # Dead /\ Outcome(c, mem).yes /\ mem' = mem /\ frames' = ns /\ fault' = NoFault
  <2>1. Nested(lang, ns, u, mem)
    BY <1>9, <1>13, <1>17, <1>22
  <2>. QED
    BY <1>19, <1>22, <2>1, NoFaultReported
<1>23. CASE mem # Dead /\ Outcome(c, mem).no /\ mem' = Dead /\ frames' = qs /\ fault' = NoFault
  <2>1. Nested(lang, qs, u, Dead)
    BY <1>13, <1>18, <1>23
  <2>. QED
    BY <1>19, <1>23, <2>1, NoFaultReported
<1>. QED
  BY <1>8, <1>20, <1>21, <1>22, <1>23, Zenon DEF Decide

\* The other branch is walked.
LEMMA NestedElseWalked ==
    ASSUME Nested(lang, frames, sc, mem), NEW kind \in {"else", "elseif"}, Else(kind)
    PROVE  Nested(lang, frames', sc', mem') /\ Reported(fault')
<1>1. PICK p : p = Last(frames)
  OBVIOUS
<1>2. PICK out : out = IF mem = Dead THEN p.out ELSE mem
  OBVIOUS
<1>3. PICK n : Turning(n, p, kind, out)
  BY DEF Turning
<1>4. PICK ns : ns = Replace(n)
  OBVIOUS
<1>5. frames # <<>> /\ p.kind = "then" /\ sc' = With(p.inner, p.g.f) /\ mem' = p.pend /\ fault' = NoFault
  BY <1>1 DEF Else, Top
<1>6. frames' = ns
  BY <1>1, <1>2, <1>3, <1>4 DEF Else, Top, Turning
<1>7. Replaces(ns, frames, n)
  BY <1>4 DEF Replaces, Replace
<1>8. PICK u : u = With(p.inner, p.g.f)
  OBVIOUS
<1>9. Nested(lang, ns, u, p.pend)
  BY <1>1, <1>2, <1>3, <1>5, <1>7, <1>8, NestedElse
<1>. QED
  BY <1>5, <1>6, <1>8, <1>9, NoFaultReported

LEMMA PoppedUnwinds ==
    ASSUME NEW T, NEW rest, rest = Front(frames), NEW ns, ns = Popped(T)
    PROVE  Unwound(ns, rest, T)
BY DEF Popped, Unwound

\* There is a statement around, so statements nest.
LEMMA NestsHere ==
    ASSUME lang \in Languages, Structured, Stack(lang, frames), frames # <<>> \/ Len(frames) < MaxDepth
    PROVE  /\ MaxDepth # 0 /\ LoopHeads = {} /\ Switches = {} /\ Compounds \subseteq {"block"}
           /\ \A h \in lang.ifs : h.init = Skip
<1>1. MaxDepth = lang.depth /\ lang.depth \in Nat /\ IfHeads = lang.ifs
  BY LanguageParts
<1>2. frames \in Seq(FrameOf(lang)) /\ Len(frames) <= MaxDepth
  BY <1>1 DEF Stack
<1>3. Len(frames) \in Nat /\ (frames # <<>> => Len(frames) > 0)
  BY <1>2
<1>4. MaxDepth # 0
  BY <1>1, <1>2, <1>3
<1>. QED
  BY <1>1, <1>4 DEF Structured

LEMMA NestedEndIf ==
    ASSUME lang \in Languages, Structured, Nested(lang, frames, sc, mem), EndIf
    PROVE  Nested(lang, frames', sc', mem') /\ Reported(fault')
<1>1. PICK p : p = Last(frames)
  OBVIOUS
<1>2. PICK T : T = p.all \cup p.wr
  OBVIOUS
<1>3. /\ frames # <<>> /\ p.kind \in {"then", "else", "elseif"} /\ sc' = AfterIf(p) /\ mem' = Resumed(p, mem)
      /\ frames' = Popped(p.all \cup p.wr \cup Targets(p.head.init)) /\ fault' = NoFault
  BY <1>1 DEF EndIf, Top
<1>4. Stack(lang, frames)
  BY DEF Nested
<1>5. Sits(p, lang)
  BY <1>1, <1>3, <1>4, StackTop
<1>6. p.head \in lang.ifs
  BY <1>3, <1>5 DEF Sits
<1>7. p.head.init = Skip
  BY <1>3, <1>4, <1>6, NestsHere
<1>8. Targets(p.head.init) = {}
  BY <1>7, SkipEffect
<1>9. frames' = Popped(T)
  BY <1>2, <1>3, <1>8
<1>10. PICK a : a = AfterIf(p)
  OBVIOUS
<1>11. PICK k : k = Resumed(p, mem)
  OBVIOUS
<1>12. PICK rest : rest = Front(frames)
  OBVIOUS
<1>13. PICK ns : ns = Popped(T)
  OBVIOUS
<1>14. Unwound(ns, rest, T)
  BY <1>12, <1>13, PoppedUnwinds
<1>15. lang.depth \in Nat
  BY LanguageParts
<1>16. Nested(lang, ns, a, k)
  BY <1>1, <1>2, <1>3, <1>10, <1>11, <1>12, <1>14, <1>15, NestedIfEnded
<1>. QED
  BY <1>3, <1>9, <1>10, <1>11, <1>13, <1>16, NoFaultReported

LEMMA NestedEndBlock ==
    ASSUME lang \in Languages, Nested(lang, frames, sc, mem), EndBlock
    PROVE  Nested(lang, frames', sc', mem') /\ Reported(fault')
<1>1. PICK p : p = Last(frames)
  OBVIOUS
<1>2. /\ frames # <<>> /\ p.kind = "block" /\ sc' = InvalidateWrites(p.outer, p.wr) /\ mem' = mem
      /\ frames' = Popped(p.wr) /\ fault' = NoFault
  BY <1>1 DEF EndBlock, Top
<1>3. PICK a : a = InvalidateWrites(p.outer, p.wr)
  OBVIOUS
<1>4. PICK rest : rest = Front(frames)
  OBVIOUS
<1>5. PICK ns : ns = Popped(p.wr)
  OBVIOUS
<1>6. Unwound(ns, rest, p.wr)
  BY <1>4, <1>5, PoppedUnwinds
<1>7. lang.depth \in Nat
  BY LanguageParts
<1>8. Nested(lang, ns, a, mem)
  BY <1>1, <1>2, <1>3, <1>4, <1>6, <1>7, NestedBlockEnded
<1>. QED
  BY <1>2, <1>3, <1>5, <1>8, NoFaultReported

LEMMA NestedOpenBlock ==
    ASSUME lang \in Languages, Structured, Nested(lang, frames, sc, mem), NEW kind \in Compounds, OpenOther(kind)
    PROVE  Nested(lang, frames', sc', mem') /\ Reported(fault')
<1>1. /\ lang.depth \in Nat /\ MaxDepth = lang.depth /\ Len(frames) < lang.depth
      /\ frames # <<>> => Top.kind \in BlockKinds /\ Top.ended = "no"
  BY LanguageParts DEF OpenOther, CanOpen, InBlock
<1>2. Stack(lang, frames) /\ sc \in ScopeType
  BY DEF Nested, AtHand
<1>3. kind = "block"
  BY <1>1, <1>2, NestsHere
<1>4. PICK taken \in SUBSET Takable :
         /\ sc' = Opened(taken) /\ mem' = mem /\ frames' = Append(frames, NewFrame(kind, Opened(taken), taken))
         /\ fault' = NoFault
  BY <1>3, Zenon DEF OpenOther
<1>5. PICK u : u = DropNil(sc, taken)
  OBVIOUS
<1>6. PICK fr : fr = NewFrame("block", u, taken)
  OBVIOUS
<1>7. PICK ns : ns = Append(frames, fr)
  OBVIOUS
<1>8. sc' = u /\ mem' = mem /\ frames' = ns /\ fault' = NoFault
  BY <1>3, <1>4, <1>5, <1>6, <1>7 DEF Opened
<1>9. /\ taken \in SUBSET Locals
      /\ frames # <<>> => taken \subseteq Last(frames).taken /\ Last(frames).kind # "if" /\ Last(frames).ended = "no"
  <2>1. CASE frames = <<>>
    BY <2>1, BodyIsLanguage DEF Takable
  <2>2. CASE frames # <<>>
    <3>1. Last(frames) \in FrameOf(lang)
      BY <1>2, <2>2, StackTop
    <3>2. Last(frames).taken \subseteq Locals
      BY <3>1, FrameParts
    <3>. QED
      BY <1>1, <2>2, <3>2 DEF Takable, Top, BlockKinds
  <2>. QED
    BY <2>1, <2>2
<1>10. u \in ScopeType
  BY <1>2, <1>5, <1>9, DropNilPart
<1>11. "block" \in Kinds
  BY DEF Kinds
<1>12. /\ fr \in FrameOf(lang) /\ fr.kind = "block" /\ fr.outer = u /\ fr.inner = u /\ fr.wr = {} /\ fr.all = {}
       /\ fr.ended = "no" /\ fr.first = "no" /\ fr.pend = Dead /\ fr.out = Dead /\ fr.taken = taken
  BY ONLY <1>6, <1>9, <1>10, <1>11, NewFrameIs
<1>13. PICK k : k = mem
  OBVIOUS
<1>14. Nested(lang, ns, u, k)
  BY <1>1, <1>5, <1>7, <1>9, <1>12, <1>13, NestedOpened
<1>. QED
  BY <1>8, <1>13, <1>14, NoFaultReported

\* Nothing else can be added.
LEMMA OnlyNested ==
    ASSUME lang \in Languages, Structured, Stack(lang, frames), Next
    PROVE  \/ \E st \in Stmts : Simple(st)
           \/ \E how \in Exits : Leave(how)
           \/ \E h \in IfHeads : OpenIf(h)
           \/ TakeCond
           \/ \E kind \in {"else", "elseif"} : Else(kind)
           \/ EndIf
           \/ \E kind \in Compounds : OpenOther(kind)
           \/ EndBlock
<1>1. frames # <<>> => Top.kind \in Kinds
  <2>. SUFFICES ASSUME frames # <<>> PROVE Top.kind \in Kinds
    OBVIOUS
  <2>1. Last(frames) \in FrameOf(lang)
    BY StackTop
  <2>. QED
    BY <2>1, FrameParts DEF Top
<1>2. ~EndClosure /\ ~ReadTag /\ ~OpenDefault /\ ~EndClause /\ ~EndSwitch /\ ~EndLoop
  BY <1>1 DEF EndClosure, ReadTag, OpenDefault, EndClause, EndSwitch, EndLoop, Kinds
<1>3. ASSUME NEW h \in Switches PROVE ~OpenSwitch(h)
  BY <1>3, NestsHere DEF OpenSwitch, CanOpen
<1>4. ASSUME NEW list PROVE ~OpenClause(list)
  BY <1>1 DEF OpenClause, Kinds
<1>5. ASSUME NEW st PROVE ~OpenComm(st)
  BY <1>1 DEF OpenComm, Kinds
<1>6. ASSUME NEW h \in LoopHeads, NEW body PROVE ~OpenLoop(h, body)
  BY <1>6, NestsHere DEF OpenLoop, CanOpen
<1>7. ASSUME NEW pc PROVE ~Loop(pc)
  BY <1>1 DEF Loop, Kinds
<1>8. ~LoopTest /\ ~LoopPost
  BY <1>7 DEF LoopTest, LoopPost
<1>9. ASSUME NEW pc PROVE ~LoopStep(pc)
  BY <1>7 DEF LoopStep
<1>. QED
  BY <1>2, <1>3, <1>4, <1>5, <1>6, <1>8, <1>9, Zenon DEF Next

NestedInv == lang \in Languages /\ (Structured => Nested(lang, frames, sc, mem) /\ Reported(fault))

LEMMA NestedInit == Init => NestedInv
<1>. SUFFICES ASSUME Init PROVE NestedInv
  OBVIOUS
<1>1. lang \in Languages /\ frames = <<>> /\ fault = NoFault
  BY DEF Init
<1>2. PICK decl \in SUBSET Declared :
         /\ sc = VarDecl(NewScope, decl)
         /\ \E e \in [Locals -> Value], h \in [Objects -> [Slots -> Objects \cup {Nil}]] :
              /\ \A l \in Locals : e[l] \in IF l \in Params \ decl THEN ValuesOf(l) ELSE {Nil}
              /\ \A o \in Objects, s \in Slots \ lang.slots : h[o][s] = Nil
              /\ mem = Collect([env |-> e, heap |-> h,
                                origin |-> decl \cup IF Receiver = NoPath THEN {} ELSE {Receiver[1]}])
  BY DEF Init
<1>3. PICK e \in [Locals -> Value], h \in [Objects -> [Slots -> Objects \cup {Nil}]] :
         /\ \A l \in Locals : e[l] \in IF l \in Params \ decl THEN ValuesOf(l) ELSE {Nil}
         /\ mem = Collect([env |-> e, heap |-> h,
                           origin |-> decl \cup IF Receiver = NoPath THEN {} ELSE {Receiver[1]}])
  BY <1>2
<1>. DEFINE q == decl \cup IF Receiver = NoPath THEN {} ELSE {Receiver[1]}
            m == [env |-> e, heap |-> h, origin |-> q]
<1>4. decl \in SUBSET Locals /\ q \in SUBSET Locals
  BY <1>1, BodyIsLanguage, MethodIsLanguage
<1>5. mem = Collect(m)
  BY <1>3
<1>. HIDE DEF q
<1>6. m \in MemoryType /\ m.env = e
  BY <1>4 DEF MemoryType
<1>. HIDE DEF m
<1>7. \A l \in Locals : m.env[l] \in ValuesOf(l) /\ (l \in decl => m.env[l] = Nil)
  BY <1>3, <1>6 DEF ValuesOf
<1>8. Fits(sc, mem)
  BY <1>2, <1>4, <1>5, <1>6, <1>7, StartFits
<1>9. sc \in ScopeType /\ mem \in MemoryType
  BY <1>8 DEF Fits
<1>10. sc.proven = {} /\ \A l \in Locals : sc.alias[l] = NoPath /\ sc.errProof[l] = {}
  BY <1>2, <1>4, DeclaredScope
<1>11. WellFormed(sc)
  BY <1>10 DEF WellFormed, AliasesClear, Knows
<1>12. Stack(lang, <<>>)
  BY <1>1, LanguageParts DEF Stack, Written
<1>. QED
  BY <1>1, <1>8, <1>9, <1>11, <1>12, NoFaultReported DEF NestedInv, Nested, AtHand

LEMMA NestedStep ==
    ASSUME Wild = {}, NestedInv, [Next]_vars
    PROVE  NestedInv'
<1>1. CASE UNCHANGED vars
  BY <1>1 DEF vars, NestedInv, Structured, MaxDepth, LoopHeads, Switches, Compounds, IfHeads
<1>2. CASE Next
  <2>1. lang' = lang
    BY <1>2 DEF Next, Simple, Leave, OpenIf, TakeCond, Else, EndIf, OpenOther, EndBlock, EndClosure, OpenSwitch,
                ReadTag, OpenClause, OpenDefault, OpenComm, EndClause, EndSwitch, OpenLoop, LoopTest, LoopStep, LoopPost, EndLoop
  <2>2. Structured' = Structured
    BY <2>1 DEF Structured, MaxDepth, LoopHeads, Switches, Compounds, IfHeads
  <2>3. ASSUME Structured PROVE Nested(lang, frames', sc', mem') /\ Reported(fault')
    <3>1. lang \in Languages /\ Nested(lang, frames, sc, mem) /\ Stack(lang, frames)
      BY <2>3 DEF NestedInv, Nested
    <3>2. CASE \E st \in Stmts : Simple(st)
      BY <3>1, <3>2, NestedSimple
    <3>3. CASE \E how \in Exits : Leave(how)
      BY <3>1, <3>3, NestedLeave
    <3>4. CASE \E h \in IfHeads : OpenIf(h)
      BY <2>3, <3>1, <3>4, NestedOpenIf
    <3>5. CASE TakeCond
      BY <3>1, <3>5, NestedTakeCond
    <3>6. CASE \E kind \in {"else", "elseif"} : Else(kind)
      BY <3>1, <3>6, NestedElseWalked
    <3>7. CASE EndIf
      BY <2>3, <3>1, <3>7, NestedEndIf
    <3>8. CASE \E kind \in Compounds : OpenOther(kind)
      BY <2>3, <3>1, <3>8, NestedOpenBlock
    <3>9. CASE EndBlock
      BY <3>1, <3>9, NestedEndBlock
    <3>. QED
      BY <1>2, <2>3, <3>1, <3>2, <3>3, <3>4, <3>5, <3>6, <3>7, <3>8, <3>9, OnlyNested
  <2>. QED
    BY <2>1, <2>2, <2>3 DEF NestedInv
<1>. QED
  BY <1>1, <1>2

LEMMA NestedKept == ASSUME Wild = {} PROVE Spec => []NestedInv
<1>1. NestedInv /\ [Next]_vars => NestedInv'
  BY NestedStep
<1>. QED
  BY NestedInit, <1>1, PTL DEF Spec

LEMMA NestedFits ==
    ASSUME NestedInv, Structured
    PROVE  /\ Names \subseteq Expr /\ (mem # Dead => Fits(sc, mem)) /\ Reported(fault)
           /\ Stack(lang, frames) /\ sc \in ScopeType /\ mem \in MemoryType \cup {Dead}
BY BodyIsLanguage DEF NestedInv, Nested, AtHand

LEMMA StackIsTyped ==
    ASSUME lang \in Languages, Stack(lang, frames)
    PROVE  Len(frames) <= MaxDepth /\ \A i \in DOMAIN frames : IsFrame(frames[i])
<1>1. Len(frames) <= MaxDepth
  BY LanguageParts DEF Stack
<1>2. ASSUME NEW i \in DOMAIN frames PROVE IsFrame(frames[i])
  <2>1. PICK fr : fr = frames[i]
    OBVIOUS
  <2>2. fr \in FrameOf(lang)
    BY <1>2, <2>1 DEF Stack
  <2>3. /\ fr.outer \in ScopeType /\ fr.inner \in ScopeType
        /\ fr.g.t \subseteq Path /\ fr.g.f \subseteq Path /\ fr.wr \in SUBSET Typed /\ fr.all \in SUBSET Typed
        /\ fr.ended \in {"no", "if"} \cup lang.exits /\ fr.first \in {"no"} \cup lang.exits
        /\ fr.pend \in MemoryType \cup {Dead} /\ fr.out \in MemoryType \cup {Dead} /\ fr.fall = Dead
        /\ fr.excl = {} /\ fr.chain = {} /\ fr.body = <<>> /\ fr.trail = <<>> /\ fr.pc = 0
    BY <2>2, FrameParts
  <2>4. fr.open = TRUE
    BY <2>2 DEF FrameOf
  <2>5. Typed \subseteq Path
    BY DEF Typed, Expr
  <2>6. {fr.outer, fr.inner} \cup {fr.trail[j] : j \in DOMAIN fr.trail} \subseteq ScopeType
    <3>1. DOMAIN fr.trail = {}
      BY <2>3
    <3>. QED
      BY <2>3, <3>1
  <2>7. {fr.pend, fr.out, fr.fall} \subseteq MemoryType \cup {Dead}
    BY <2>3
  <2>8. {fr.g.t, fr.g.f, fr.wr, fr.all, fr.excl, fr.chain} \subseteq SUBSET Path
    BY <2>3, <2>5
  <2>9. fr.ended \in {"no", "if"} \cup Exits /\ fr.first \in {"no"} \cup Exits
    BY <2>3 DEF Exits
  <2>10. fr.open \in BOOLEAN /\ fr.pc \in 0..Len(fr.body) + 1
    <3>1. PICK n : n = Len(fr.body)
      OBVIOUS
    <3>2. n = 0 /\ fr.pc = 0
      BY <2>3, <3>1
    <3>3. fr.pc \in 0..n + 1
      BY <3>2
    <3>. QED
      BY <2>4, <3>1, <3>3
  <2>11. IsFrame(fr)
    BY <2>6, <2>7, <2>8, <2>9, <2>10 DEF IsFrame
  <2>. QED
    BY <2>1, <2>11
<1>. QED
  BY <1>1, <1>2

\* In a body of simple statements, ifs, else-ifs and blocks, as long as you like
\* and nested as deep, a path held proven is not nil (scope.proven, what walkStmt
\* adds to it and clears, and what walkIf and walkBlock leave of it).
THEOREM ProofsAreTrue ==
    ASSUME Wild = {} PROVE Spec => [](Structured => ProofsHold)
<1>1. NestedInv => (Structured => ProofsHold)
  BY NestedFits, FitsProofs
<1>. QED
  BY NestedKept, <1>1, PTL

\* There, expressions with one canonical path have one value (scope.alias): after
\* an if, an alias that a branch has dropped or rebound is used no more.
THEOREM AliasesAreTrue ==
    ASSUME Wild = {} PROVE Spec => [](Structured => NamesAgree)
<1>1. NestedInv => (Structured => NamesAgree)
  BY NestedFits, FitsProofs
<1>. QED
  BY NestedKept, <1>1, PTL

\* There, a local said to hold nil or a nil pointer does (scope.nilable), whichever
\* branch the execution came through.
THEOREM NilStatesAreTrue ==
    ASSUME Wild = {} PROVE Spec => [](Structured => NilStatesHold)
<1>1. NestedInv => (Structured => NilStatesHold)
  BY NestedFits, FitsProofs
<1>. QED
  BY NestedKept, <1>1, PTL

\* There, what a nil error vouches for is not nil (scope.errProof), in the branches
\* that test the error and after them.
THEOREM ErrorsAreTrue ==
    ASSUME Wild = {} PROVE Spec => [](Structured => ErrorsVouch)
<1>1. NestedInv => (Structured => ErrorsVouch)
  BY NestedFits, FitsProofs
<1>. QED
  BY NestedKept, <1>1, PTL

\* There, every panic through a field or a dereferenced pointer is reported,
\* unless the field is exempt (checkExpr, checkBase, checkPath): in a condition, in
\* a branch or after it.
THEOREM PanicsAreReported ==
    ASSUME Wild = {} PROVE Spec => [](Structured => PanicsReported)
<1>1. NestedInv => (Structured => PanicsReported)
  BY NestedFits DEF Reported, PanicsReported
<1>. QED
  BY NestedKept, <1>1, PTL

\* In a body without compound statements, as long as you like, a nil the function
\* shows is known at every step, and a panic at it reported (scope.nilable, nilOriginState, checkPath).
THEOREM VisibleNilsAreReported ==
    ASSUME Wild = {} PROVE Spec => [](MaxDepth = 0 => VisibleNilsReported)
<1>1. StraightInv => (MaxDepth = 0 => VisibleNilsReported)
  BY DEF StraightInv, Straight, ShownFault, VisibleNilsReported
<1>. QED
  BY StraightKept, <1>1, PTL

\* There, a method that panics because its receiver is nil, through whichever
\* copy of it, is not called nil-safe (exportNilSafeReceiverFact, checkPath).
THEOREM NilSafetyIsEarned ==
    ASSUME Wild = {} PROVE Spec => [](MaxDepth = 0 => NilSafetyHolds)
<1>1. StraightInv => (MaxDepth = 0 => NilSafetyHolds)
  BY DEF StraightInv, Straight, NilSafetyHolds
<1>. QED
  BY StraightKept, <1>1, PTL

\* The state has its type wherever ifs and blocks are nested: what waits for a later
\* branch, or is past it, is a memory, and no frame is deeper than the language lets
\* it be.
THEOREM StateIsTyped ==
    ASSUME Wild = {} PROVE Spec => [](Structured => TypeOK)
<1>1. ASSUME NestedInv, Structured PROVE TypeOK
  <2>1. sc \in ScopeType /\ mem \in MemoryType \cup {Dead} /\ Reported(fault) /\ Stack(lang, frames)
    BY <1>1, NestedFits
  <2>2. Len(frames) <= MaxDepth /\ \A i \in DOMAIN frames : IsFrame(frames[i])
    BY <1>1, <2>1, StackIsTyped DEF NestedInv
  <2>. QED
    BY <2>1, <2>2 DEF TypeOK, Reported
<1>2. NestedInv => (Structured => TypeOK)
  BY <1>1
<1>. QED
  BY NestedKept, <1>2, PTL
=============================================================================
