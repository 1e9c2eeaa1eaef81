------------------------------- MODULE Scope -------------------------------
(***************************************************************************)
(* The flow-sensitive knowledge nilfield carries down one branch of a      *)
(* function (analyzer/scope.go), the canonical paths it is keyed on        *)
(* (analyzer/path.go) and what a condition teaches (analyzer/guards.go).   *)
(*                                                                         *)
(* An expression is the sequence of its root identifier and the selectors  *)
(* applied to it: o.p.q is <<"o", "p", "q">> and (star pp).next is         *)
(* <<"pp", Star, "next">>.  A canonical path has the same shape; it is an  *)
(* expression whose root is no longer an alias.                            *)
(***************************************************************************)
EXTENDS Naturals, Sequences

CONSTANTS
    Locals,   \* the identifiers a function body can name
    Fields,   \* the pointer fields a selector can name
    Star,     \* the selector that stands for an explicit dereference
    Conds     \* the conditions of the program, closed under subconditions

ASSUME NamesAssumption ==
    /\ Star \notin Fields
    /\ Locals \cap (Fields \cup {Star}) = {}

ConditionKinds == {"eq", "ne", "isnil", "test", "any", "nil", "not", "and", "or"}

\* The conditions a condition is made of, and how many operators it has.
Operands(c) ==
    CASE c.k = "not" -> {c.c} [] c.k \in {"and", "or"} -> {c.l, c.r} [] OTHER -> {}

Operators ==
    LET n[c \in Conds] ==
          CASE c.k = "not" -> n[c.c] + 1
            [] c.k \in {"and", "or"} -> n[c.l] + n[c.r] + 1
            [] OTHER -> 0
    IN  n

ASSUME CondsAssumption ==
    \A c \in Conds :
        /\ c.k \in ConditionKinds /\ Operators[c] \in Nat
        /\ \A d \in Operands(c) : d \in Conds /\ d.k # "nil" /\ Operators[d] < Operators[c]

Path == {p \in Seq(Locals \cup Fields \cup {Star}) : p # <<>> /\ p[1] \in Locals}

\* The alias of a local that stands for itself.
NoPath == <<>>

\* What is known of a local's own value; "unknown" is the absent map entry.
NilState == {"unknown", "isNil", "typedNil", "maybeNil"}

\* A missing errProof entry and an empty one are the same thing to the code.
ScopeType ==
    [proven   : SUBSET Path,
     alias    : [Locals -> Path \cup {NoPath}],
     errProof : [Locals -> SUBSET Path],
     nilable  : [Locals -> NilState]]

NewScope ==
    [proven   |-> {},
     alias    |-> [l \in Locals |-> NoPath],
     errProof |-> [l \in Locals |-> {}],
     nilable  |-> [l \in Locals |-> "unknown"]]

-----------------------------------------------------------------------------
(* Canonical paths.                                                        *)

Canonical(e, alias) ==
    IF alias[e[1]] # NoPath THEN alias[e[1]] \o Tail(e) ELSE e

\* The expression a canonical path is the path of: where o stands for o.next
\* (o = o.next), o.next.p is that of o.p.
Spelled(k, alias) ==
    IF alias[k[1]] = NoPath THEN k ELSE <<k[1]>> \o SubSeq(k, Len(alias[k[1]]) + 1, Len(k))

IsBare(p) == Len(p) = 1

\* The printed path contains a "." : some selector past the root is a field.
IsFieldPath(p) == \E i \in 2..Len(p) : p[i] # Star

\* The printed path starts with "(*" : a dereference parenthesises all before it.
IsStarPath(p) == \E i \in 2..Len(p) : p[i] = Star

\* A slip: the paths below a written one are forgotten.
UnderNothing(p, k) == FALSE

\* The printed k starts with the printed p followed by a dot.  A dereference
\* in the rest of k would put its parenthesis in front of p.
Under(p, k) ==
    /\ Len(p) < Len(k)
    /\ SubSeq(k, 1, Len(p)) = p
    /\ \A i \in (Len(p) + 1)..Len(k) : k[i] # Star

AtOrUnder(p, k) == k = p \/ Under(p, k)

Falsified(P, k) == \E p \in P : AtOrUnder(p, k)

-----------------------------------------------------------------------------
(* Operations on a scope.                                                  *)

With(s, P) == [s EXCEPT !.proven = @ \cup P]

\* Slips: the aliases, or what checked errors vouch for, outlive the write.
InvalidateKeepsAliases(s, P) ==
    [s EXCEPT !.proven   = {k \in @ : ~Falsified(P, k)},
              !.errProof = [l \in Locals |-> {k \in @[l] : ~Falsified(P, k)}]]

InvalidateKeepsErrors(s, P) ==
    [s EXCEPT !.proven = {k \in @ : ~Falsified(P, k)},
              !.alias  = [l \in Locals |-> IF Falsified(P, @[l]) THEN NoPath ELSE @[l]]]

\* invalidate, for every path of P: single invalidations commute, so the
\* loops that call it once per written path are one set operation.
Invalidate(s, P) ==
    [proven   |-> {k \in s.proven : ~Falsified(P, k)},
     alias    |-> [l \in Locals |->
                     IF Falsified(P, s.alias[l]) THEN NoPath ELSE s.alias[l]],
     errProof |-> [l \in Locals |-> {k \in s.errProof[l] : ~Falsified(P, k)}],
     nilable  |-> [l \in Locals |->
                     IF <<l>> \in P THEN "unknown" ELSE s.nilable[l]]]

MarkNil(s, l, state) == [s EXCEPT !.nilable[l] = state]

\* A slip: taking an address changes nothing.
DropNilNever(s, names) == s

DropNil(s, names) ==
    [s EXCEPT !.nilable = [l \in Locals |->
                             IF l \in names THEN "unknown" ELSE s.nilable[l]]]

\* A slip: the closure keeps everything.
GoroutineScopeKeepsProofs(s) == s

\* A closure started with go keeps what is known of bare locals and the
\* aliases of paths that were not proven.
GoroutineScope(s) ==
    [proven   |-> {p \in s.proven : ~IsFieldPath(p) /\ ~IsStarPath(p)},
     alias    |-> [l \in Locals |->
                     IF s.alias[l] \in s.proven THEN NoPath ELSE s.alias[l]],
     errProof |-> [l \in Locals |-> {}],
     nilable  |-> s.nilable]

\* A slip: only identifiers are written.
AssignedNames(targets, alias) == {<<t[1]>> : t \in {u \in targets : IsBare(u)}}

\* assignedPaths: the paths the written targets name under these aliases.  An
\* identifier is taken by its own name, a selector by its canonical path; a
\* write through a star target is not collected.
AssignedPaths(targets, alias) ==
    {<<t[1]>> : t \in {u \in targets : IsBare(u)}}
    \cup {Canonical(t, alias) : t \in {u \in targets : ~IsBare(u) /\ u[Len(u)] # Star}}

InvalidateWrites(s, targets) == Invalidate(s, AssignedPaths(targets, s.alias))

\* A slip: the written error still vouches for what it did.
InvalidateTargetKeepsErrors(s, lhs) ==
    IF IsBare(lhs)
    THEN Invalidate([s EXCEPT !.alias[lhs[1]] = NoPath], {lhs})
    ELSE Invalidate(s, {Canonical(lhs, s.alias)})

\* invalidateTarget: the written name also stops being an alias or a checked error.
InvalidateTarget(s, lhs) ==
    IF IsBare(lhs)
    THEN Invalidate([s EXCEPT !.alias[lhs[1]] = NoPath, !.errProof[lhs[1]] = {}], {lhs})
    ELSE IF lhs[Len(lhs)] = Star THEN s
    ELSE Invalidate(s, {Canonical(lhs, s.alias)})

-----------------------------------------------------------------------------
(* Conditions.  c.k is "eq" or "ne" (a comparison of c.e with nil),        *)
(* "isnil" (a call of c.e's nil predicate), "test" or "any" (anything else *)
(* that can be true or false), "nil" (the clause case nil of a switch),    *)
(* "not" (of c.c), "and" or "or" (of c.l and c.r).                         *)

NoGuard == [t |-> {}, f |-> {}]

\* A slip: an operand without a path proves one.
ComparisonGuardsPathless(c, s) == [t |-> {NoPath}, f |-> {NoPath}]

\* binaryNilGuards on a comparison with nil: the compared path on one side,
\* the proofs a checked validator left on the variable on the other.
ComparisonGuards(c, s) ==
    LET path    == Canonical(c.e, s.alias)
        implied == IF IsBare(path) THEN s.errProof[path[1]] ELSE {}
    IN  IF c.k = "ne" THEN [t |-> {path}, f |-> implied]
                      ELSE [t |-> implied, f |-> {path}]

\* What d proves, when g holds what its operands do.
GuardStep(d, g, s) ==
    CASE d.k \in {"eq", "ne"} -> ComparisonGuards(d, s)
      [] d.k = "isnil" -> [t |-> {}, f |-> {Canonical(d.e, s.alias)}]
      [] d.k = "not"   -> [t |-> g[d.c].f, f |-> g[d.c].t]
      [] d.k = "and"   -> [t |-> g[d.l].t \cup g[d.r].t, f |-> {}]
      [] d.k = "or"    -> [t |-> {}, f |-> g[d.l].f \cup g[d.r].f]
      [] OTHER         -> NoGuard

\* nilGuards: the paths proven non-nil where c is true, and where it is false.
NilGuards(c, s) == LET g[d \in Conds] == GuardStep(d, g, s) IN g[c]

\* clauseGuards: a clause of a tagless switch is a condition; one of a tagged
\* switch proves only that the tag is not nil, where "case nil" did not match.
ClauseGuards(tag, c, s) ==
    IF tag = NoPath THEN NilGuards(c, s)
    ELSE IF c.k = "nil" THEN [t |-> {}, f |-> {Canonical(tag, s.alias)}]
    ELSE NoGuard

\* clauseListGuards: one expression guards by itself, a list only by none matching.
ClauseListGuards(tag, list, s) ==
    IF Len(list) = 1 THEN ClauseGuards(tag, list[1], s)
    ELSE [t |-> {}, f |-> UNION {ClauseGuards(tag, list[i], s).f : i \in DOMAIN list}]
=============================================================================
