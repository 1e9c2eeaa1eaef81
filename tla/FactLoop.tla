------------------------------ MODULE FactLoop ------------------------------
(***************************************************************************)
(* The order in which nilfield derives its facts (run, in                  *)
(* analyzer/analyzer.go): one pass over the functions of the package for   *)
(* validatedFields and nilResults, then rounds over them for the other     *)
(* five kinds, until a round exports nothing new or there have been as     *)
(* many rounds as functions.  The first pass is not repeated: a fact of    *)
(* its kinds that rests on one of the rounds is looked for too early.      *)
(***************************************************************************)
EXTENDS FactStore

VARIABLES
    phase,       \* "prepass", "between" (two rounds), "round", "done"
    fd, kd,      \* the function and the kind to try next
    round,       \* how many rounds have been started
    exportedNew  \* this round has exported a fact

loopVars == <<rules, facts, phase, fd, kd, round, exportedNew>>

FirstKind == NumPre + 1

\* A slip: a function's fact may rest on itself.
DerivableFromItself(f, k) ==
    {r.fact.arg : r \in {q \in rules : q.fact.f = f /\ q.fact.k = k
                                      /\ q.needs \subseteq facts \cup {q.fact}}}

\* The arguments a fact of kind k about f could be about, by what is known now.
Derivable(f, k) ==
    {r.fact.arg : r \in {q \in rules : q.fact.f = f /\ q.fact.k = k /\ q.needs \subseteq facts}}

\* An export function: nothing if there is a fact already, or none to find;
\* else a fact about the first argument that qualifies.
Quiet(f, k) ==
    /\ Recorded(f, k) \/ Derivable(f, k) = {}
    /\ UNCHANGED facts

\* A slip: the fact that is there is not looked for.
ExportedAgain(f, k) ==
    \E a \in Derivable(f, k) :
        /\ \A b \in Derivable(f, k) : a <= b
        /\ facts' = facts \cup {[f |-> f, k |-> k, arg |-> a]}

Exported(f, k) ==
    /\ ~Recorded(f, k)
    /\ \E a \in Derivable(f, k) :
         /\ \A b \in Derivable(f, k) : a <= b
         /\ facts' = facts \cup {[f |-> f, k |-> k, arg |-> a]}

\* A slip: one kind too many.
AdvanceOnePast(first, last, then) ==
    IF kd <= last THEN kd' = kd + 1 /\ UNCHANGED <<fd, phase>>
    ELSE IF fd < NumFuncs THEN kd' = first /\ fd' = fd + 1 /\ UNCHANGED phase
    ELSE phase' = then /\ UNCHANGED <<fd, kd>>

\* A slip: the first kind again, of the same function.
AdvanceNowhere(first, last, then) ==
    IF kd < last THEN kd' = kd + 1 /\ UNCHANGED <<fd, phase>>
    ELSE IF fd < NumFuncs THEN kd' = first /\ UNCHANGED <<fd, phase>>
    ELSE phase' = then /\ UNCHANGED <<fd, kd>>

\* The next kind, the first kind of the next function, or the next phase.
Advance(first, last, then) ==
    IF kd < last THEN kd' = kd + 1 /\ UNCHANGED <<fd, phase>>
    ELSE IF fd < NumFuncs THEN kd' = first /\ fd' = fd + 1 /\ UNCHANGED phase
    ELSE phase' = then /\ UNCHANGED <<fd, kd>>

LoopInit ==
    /\ Init
    /\ phase = "prepass" /\ fd = 1 /\ kd = 1
    /\ round = 0 /\ exportedNew = FALSE

\* exportValidatorFact and exportNilResultsFact, once for each function: what the
\* first finds through neverReturns (blockExits) and nilPredicate facts (nilGuards)
\* it finds only through facts that are there by now.
Prepass ==
    /\ phase = "prepass"
    /\ Quiet(fd, kd) \/ Exported(fd, kd)
    /\ Advance(1, NumPre, "between")
    /\ UNCHANGED <<rules, round, exportedNew>>

\* A slip: one round too few.
MaxRoundsShort == NumFuncs - 1

\* As many as there are functions to give a fact to.
MaxRounds == NumFuncs

StartRound ==
    /\ phase = "between" /\ round < MaxRounds
    /\ round > 0 => exportedNew
    /\ phase' = "round" /\ fd' = 1 /\ kd' = FirstKind
    /\ round' = round + 1 /\ exportedNew' = FALSE
    /\ UNCHANGED <<rules, facts>>

\* A slip: each function tried overwrites the flag.
TryExportOverwrites ==
    /\ phase = "round"
    /\ \/ Quiet(fd, kd) /\ exportedNew' = FALSE
       \/ Exported(fd, kd) /\ exportedNew' = TRUE
    /\ Advance(FirstKind, NumKinds, "between")
    /\ UNCHANGED <<rules, round>>

\* exportNeverReturnsFact, exportAssertHelperFact, exportNilSafeReceiverFact,
\* exportNonNilResultsFact and exportNilPredicateFact, of one function each.
TryExport ==
    /\ phase = "round"
    /\ \/ Quiet(fd, kd) /\ UNCHANGED exportedNew
       \/ Exported(fd, kd) /\ exportedNew' = TRUE
    /\ Advance(FirstKind, NumKinds, "between")
    /\ UNCHANGED <<rules, round>>

Finish ==
    /\ phase = "between"
    /\ round = MaxRounds \/ (round > 0 /\ ~exportedNew)
    /\ phase' = "done"
    /\ UNCHANGED <<rules, facts, fd, kd, round, exportedNew>>

\* The walk that follows reads the facts and exports none.
Done == phase = "done" /\ UNCHANGED loopVars

LoopNext == Prepass \/ StartRound \/ TryExport \/ Finish \/ Done

\* run goes on as long as it can.
Fairness == WF_loopVars(LoopNext)

LoopSpec == LoopInit /\ [][LoopNext]_loopVars /\ Fairness

-----------------------------------------------------------------------------
(* Properties.                                                             *)

\* The type of the state.
TypeOK ==
    /\ rules \in Packages /\ facts \subseteq Fact
    /\ phase \in {"prepass", "between", "round", "done"}
    /\ fd \in Funcs /\ kd \in Kinds
    /\ round \in 0..NumFuncs /\ exportedNew \in BOOLEAN
    /\ phase = "prepass" => kd <= NumPre /\ round = 0
    /\ phase = "round" => kd > NumPre /\ round > 0
    /\ phase = "done" => round > 0

\* A fact of the first pass that rests on another fact.
LookedForTooEarly(r) == r.fact.k <= NumPre /\ r.needs # {}

\* Nothing is left to derive, but for facts of the first pass that rest on others.
Closed ==
    \A r \in rules :
        r.needs \subseteq facts => Recorded(r.fact.f, r.fact.k) \/ LookedForTooEarly(r)

\* A loop that ends because a round exported nothing has left nothing behind that
\* more rounds could find: no function visited early in that round has been waiting
\* for one visited late.  What it does miss is missed in the first pass.
QuietIsClosed == phase = "done" /\ ~exportedNew => Closed

\* No facts rest on one another in a circle: some fact of any set of them
\* rests on facts outside the set.  In particular a function that calls itself
\* has no fact that rests on that call (exportNilSafeReceiverFact, computeNonNilResultsFact).
Grounded ==
    \A U \in SUBSET facts :
        U # {} => \E x \in U : \E r \in rules :
                     r.fact = x /\ r.needs \subseteq facts \ U

\* The loop keeps the promise of the fact store, whatever order it works in.
KeepsPromise == Spec

\* The rounds are enough: they leave nothing behind that more of them could find,
\* so their facts are transitive through any chain of functions.
Complete == phase = "done" => Closed

\* All facts the package's rounds may derive are of one kind.
OneKind(k) == \A r \in rules : r.fact.k > NumPre => r.fact.k = k

\* Where only facts of one kind depend on one another, the rounds are enough for
\* a chain of any length, in any order of the functions ("len(functions)" in run).
OneKindComplete == (\E k \in Kinds : OneKind(k)) => Complete

\* The derivation ends, whatever the functions of the package make of one another.
Terminates == <>(phase = "done")
=============================================================================
