----------------------------- MODULE FactStore ------------------------------
(***************************************************************************)
(* What the facts nilfield derives about the functions of a package        *)
(* promise (analyzer/facts.go and the export functions): a fact is         *)
(* recorded once it follows from facts already there, at most one of a     *)
(* kind for a function, and it is never changed or withdrawn.              *)
(*                                                                         *)
(* What follows from what is the package's source, of which only this is   *)
(* kept: a rule says that the body of r.fact.f supports r.fact as soon as  *)
(* the facts r.needs, all of them, are known about the functions it calls. *)
(***************************************************************************)
EXTENDS Naturals

CONSTANTS
    NumFuncs,  \* the function declarations are 1..NumFuncs, in source order
    NumPre,    \* the kinds 1..NumPre are exported in a pass of their own,
    NumKinds,  \* the others, up to NumKinds, by the fixpoint loop
    Args,      \* the argument or result a fact may be about
    Packages   \* the packages that may be analysed, each a set of rules

Funcs == 1..NumFuncs
Kinds == 1..NumKinds
Fact  == [f : Funcs, k : Kinds, arg : Args]

ASSUME FactAssumption ==
    /\ NumFuncs \in Nat /\ NumPre \in Nat /\ NumKinds \in Nat
    /\ 1 <= NumFuncs /\ 1 <= NumPre /\ NumPre < NumKinds
    /\ Args \subseteq Nat
    /\ \A p \in Packages : p \subseteq [fact : Fact, needs : SUBSET Fact]

VARIABLES
    rules,  \* the rules of the package analysed, which never change
    facts   \* the facts recorded so far

\* ImportObjectFact: a fact of the kind is there.
Recorded(f, k) == \E x \in facts : x.f = f /\ x.k = k

Init == rules \in Packages /\ facts = {}

Record(r) ==
    /\ r.needs \subseteq facts
    /\ ~Recorded(r.fact.f, r.fact.k)
    /\ facts' = facts \cup {r.fact}
    /\ UNCHANGED rules

Next == \E r \in rules : Record(r)

Spec == Init /\ [][Next]_<<rules, facts>>
=============================================================================
