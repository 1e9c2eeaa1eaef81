----------------------------- MODULE MCFactLoop -----------------------------
(***************************************************************************)
(* Packages of two or three functions, with the kinds numbered in the      *)
(* order run exports them in.                                              *)
(***************************************************************************)
EXTENDS FactLoop

ValidatedFields == 1   NilResults    == 2
NeverReturns    == 3   AssertHelper  == 4   NilSafeReceiver == 5
NonNilResults   == 6   NilPredicate  == 7

About(g, j, a) == [f |-> g, k |-> j, arg |-> a]
Rule(x, needs) == [fact |-> x, needs |-> needs]

\* Two functions that call each other, before and after their callee in the
\* source, and that may or may not do so on every path; the first may be a
\* validator whose guard leaves by the second: if r.p == nil { fail() }.
MixedRules ==
    {Rule(About(1, ValidatedFields, 0), {About(2, NeverReturns, 0)}),
     Rule(About(2, NilResults, 0), {}),
     Rule(About(2, NeverReturns, 0), {}),
     Rule(About(1, NeverReturns, 0), {About(2, NeverReturns, 0)}),
     Rule(About(1, AssertHelper, 1), {}),
     Rule(About(1, AssertHelper, 0), {About(2, NeverReturns, 0)}),
     Rule(About(2, AssertHelper, 0), {About(1, AssertHelper, 0)}),
     Rule(About(2, AssertHelper, 1), {About(2, AssertHelper, 1)}),
     Rule(About(1, NonNilResults, 0), {About(2, NonNilResults, 0)}),
     Rule(About(2, NonNilResults, 0), {About(1, NonNilResults, 0)}),
     Rule(About(2, NonNilResults, 0), {}),
     Rule(About(2, NilSafeReceiver, 0), {About(1, NeverReturns, 0)})}

\* Every rule of one kind alone that needs at most one fact.
ChainRules ==
    {Rule(About(g, NonNilResults, 0), needs) :
        g \in Funcs, needs \in {{}} \cup {{About(h, NonNilResults, 0)} : h \in Funcs}}

\* Packages of both sorts.
MixedAndChains == (SUBSET MixedRules) \cup (SUBSET ChainRules)

\* A delegates to B both its predicate and its receiver, B asks A:
\*   func (r *T) A(p *T) bool { return r.B(p) }
\*   func (r *T) B(p *T) bool { if p == nil { return true }
\*                              if t.A(r) { return false }; return r.ok }
DelegationRules ==
    {Rule(About(2, NilPredicate, 0), {}),
     Rule(About(1, NilPredicate, 0), {About(2, NilPredicate, 0)}),
     Rule(About(2, NilSafeReceiver, 0), {About(1, NilPredicate, 0)}),
     Rule(About(1, NilSafeReceiver, 0), {About(2, NilSafeReceiver, 0)})}
Delegations == SUBSET DelegationRules
=============================================================================
