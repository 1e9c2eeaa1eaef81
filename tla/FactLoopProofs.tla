--------------------------- MODULE FactLoopProofs ---------------------------
(***************************************************************************)
(* Proofs about the derivation of facts, for every package: any number of  *)
(* functions, of kinds and of arguments, and any rules between them.       *)
(***************************************************************************)
EXTENDS FactLoop, FiniteSetTheorems, TLAPS

(* What an export function does to the store, whichever kind it is for. *)
LEMMA ExportStep ==
    ASSUME TypeOK, NEW f, NEW k, Exported(f, k)
    PROVE  \E r \in rules : /\ r.needs \subseteq facts
                            /\ r.fact.f = f /\ r.fact.k = k
                            /\ ~Recorded(r.fact.f, r.fact.k)
                            /\ facts' = facts \cup {r.fact}
<1>1. PICK a \in Derivable(f, k) : facts' = facts \cup {[f |-> f, k |-> k, arg |-> a]}
  BY DEF Exported
<1>2. PICK r \in rules : /\ r.fact.f = f /\ r.fact.k = k /\ r.needs \subseteq facts
                         /\ a = r.fact.arg
  BY <1>1 DEF Derivable
<1>3. r.fact = [f |-> f, k |-> k, arg |-> a]
  BY <1>2, FactAssumption DEF TypeOK, Fact
<1>4. ~Recorded(r.fact.f, r.fact.k)
  BY <1>2 DEF Exported
<1>. QED
  BY <1>1, <1>2, <1>3, <1>4

(* The state keeps its type (LoopSpec is run in analyzer.go). *)
THEOREM TypeCorrect == LoopSpec => []TypeOK
<1>1. LoopInit => TypeOK
  <2>. SUFFICES ASSUME LoopInit PROVE TypeOK
    OBVIOUS
  <2>1. /\ rules \in Packages /\ facts \subseteq Fact /\ phase = "prepass"
        /\ exportedNew \in BOOLEAN
    BY DEF LoopInit, Init
  <2>2. fd \in Funcs /\ kd \in Kinds /\ kd <= NumPre /\ round \in 0..NumFuncs /\ round = 0
    BY FactAssumption DEF LoopInit, Funcs, Kinds
  <2>. QED
    BY <2>1, <2>2 DEF TypeOK
<1>2. TypeOK /\ [LoopNext]_loopVars => TypeOK'
  <2>. SUFFICES ASSUME TypeOK, [LoopNext]_loopVars PROVE TypeOK'
    OBVIOUS
  <2>0. ASSUME Quiet(fd, kd) \/ Exported(fd, kd)
        PROVE  facts' \subseteq Fact
    BY <2>0, ExportStep, FactAssumption DEF Quiet, TypeOK
  <2>1. CASE Prepass
    <3>1. rules' = rules /\ round' = round /\ exportedNew' = exportedNew /\ facts' \subseteq Fact
      BY <2>0, <2>1 DEF Prepass
    <3>2. /\ phase' \in {"prepass", "between"} /\ fd' \in Funcs /\ kd' \in Kinds
          /\ kd' <= NumPre /\ round = 0
      BY <2>1, FactAssumption DEF Prepass, Advance, TypeOK, Funcs, Kinds
    <3>. QED
      BY <3>1, <3>2 DEF TypeOK
  <2>2. CASE StartRound
    <3>1. /\ rules' \in Packages /\ facts' \subseteq Fact /\ phase' = "round"
          /\ exportedNew' \in BOOLEAN
      BY <2>2 DEF StartRound, TypeOK
    <3>2. /\ fd' \in Funcs /\ kd' \in Kinds /\ kd' > NumPre
          /\ round' \in 0..NumFuncs /\ round' > 0
      BY <2>2, FactAssumption DEF StartRound, MaxRounds, FirstKind, TypeOK, Funcs, Kinds
    <3>. QED
      BY <3>1, <3>2 DEF TypeOK
  <2>3. CASE TryExport
    <3>1. rules' = rules /\ round' = round /\ exportedNew' \in BOOLEAN /\ facts' \subseteq Fact
      BY <2>0, <2>3 DEF TryExport, TypeOK
    <3>2. /\ phase' \in {"round", "between"} /\ fd' \in Funcs /\ kd' \in Kinds
          /\ kd' > NumPre /\ round > 0
      BY <2>3, FactAssumption DEF TryExport, Advance, FirstKind, TypeOK, Funcs, Kinds
    <3>. QED
      BY <3>1, <3>2 DEF TypeOK
  <2>4. CASE Finish
    BY <2>4, FactAssumption DEF Finish, MaxRounds, TypeOK
  <2>5. CASE Done \/ UNCHANGED loopVars
    BY <2>5 DEF Done, loopVars, TypeOK
  <2>. QED
    BY <2>1, <2>2, <2>3, <2>4, <2>5 DEF LoopNext
<1>. QED
  BY <1>1, <1>2, PTL DEF LoopSpec

-----------------------------------------------------------------------------
(* The loop implements the fact store: each export records one fact that   *)
(* follows from those there, and nothing else touches the store.           *)

THEOREM Promise == LoopSpec => KeepsPromise
<1>1. LoopInit => Init
  BY DEF LoopInit
<1>2. TypeOK /\ [LoopNext]_loopVars => [Next]_<<rules, facts>>
  <2>. SUFFICES ASSUME TypeOK, [LoopNext]_loopVars PROVE [Next]_<<rules, facts>>
    OBVIOUS
  <2>1. ASSUME Quiet(fd, kd) \/ Exported(fd, kd), rules' = rules
        PROVE  [Next]_<<rules, facts>>
    BY <2>1, ExportStep DEF Quiet, Next, Record
  <2>2. CASE Prepass
    BY <2>1, <2>2 DEF Prepass
  <2>3. CASE TryExport
    BY <2>1, <2>3 DEF TryExport
  <2>4. CASE StartRound \/ Finish \/ Done \/ UNCHANGED loopVars
    BY <2>4 DEF StartRound, Finish, Done, loopVars
  <2>. QED
    BY <2>2, <2>3, <2>4 DEF LoopNext
<1>. QED
  BY <1>1, <1>2, TypeCorrect, PTL DEF LoopSpec, KeepsPromise, Spec

-----------------------------------------------------------------------------
(* No facts rest on one another in a circle.                               *)

(* The store alone keeps its facts grounded: a new fact rests on old ones. *)
LEMMA RecordGrounded ==
    ASSUME Grounded, NEW r \in rules, Record(r)
    PROVE  Grounded'
<1>. SUFFICES ASSUME NEW U \in SUBSET facts', U # {}
              PROVE  \E x \in U : \E q \in rules : q.fact = x /\ q.needs \subseteq facts' \ U
  BY DEF Grounded, Record
<1>1. facts' = facts \cup {r.fact} /\ r.needs \subseteq facts /\ r.fact \notin facts
  BY DEF Record, Recorded
<1>2. CASE U \cap facts = {}
  <2>1. r.fact \in U
    BY <1>1, <1>2
  <2>. QED
    BY <1>1, <1>2, <2>1
<1>3. CASE U \cap facts # {}
  <2>1. PICK x \in U \cap facts, q \in rules : q.fact = x /\ q.needs \subseteq facts \ (U \cap facts)
    BY <1>3 DEF Grounded
  <2>. QED
    BY <1>1, <2>1
<1>. QED
  BY <1>2, <1>3

(* A function's fact never rests, through any chain of calls, on itself. *)
THEOREM NoCircles == LoopSpec => []Grounded
<1>1. Init => Grounded
  BY DEF Init, Grounded
<1>2. Grounded /\ [Next]_<<rules, facts>> => Grounded'
  <2>. SUFFICES ASSUME Grounded, [Next]_<<rules, facts>> PROVE Grounded'
    OBVIOUS
  <2>1. CASE Next
    BY <2>1, RecordGrounded DEF Next
  <2>2. CASE UNCHANGED <<rules, facts>>
    BY <2>2 DEF Grounded
  <2>. QED
    BY <2>1, <2>2
<1>. QED
  BY <1>1, <1>2, Promise, PTL DEF KeepsPromise, Spec

-----------------------------------------------------------------------------
(* A loop that ends in a quiet round leaves nothing to derive by more of    *)
(* them.  Inductively: in a round that has exported nothing, what has been  *)
(* tried has no fact left to record, and the first pass leaves none behind  *)
(* but those that rest on other facts.                                      *)

\* (f, k) comes before the place the loop is at.
Before(f, k) == f < fd \/ (f = fd /\ k < kd)

Tried(f, k) ==
    IF k <= NumPre THEN phase = "prepass" => Before(f, k)
    ELSE /\ phase # "prepass" /\ round > 0 /\ ~exportedNew
         /\ phase = "round" => Before(f, k)

QuietInv ==
    \A r \in rules : /\ r.needs \subseteq facts /\ ~LookedForTooEarly(r)
                     /\ Tried(r.fact.f, r.fact.k)
                     => Recorded(r.fact.f, r.fact.k)

(* The place moves past one function and kind at a time, and past all of them *)
(* when the phase ends.                                                       *)
LEMMA AdvancePast ==
    ASSUME TypeOK, NEW first \in Kinds, NEW last \in Kinds, NEW then,
           phase # then, first <= kd, kd <= last, Advance(first, last, then),
           NEW f \in Funcs, NEW k \in first..last,
           phase' = phase => Before(f, k)'
    PROVE  Before(f, k) \/ (f = fd /\ k = kd)
BY FactAssumption DEF TypeOK, Advance, Before, Funcs, Kinds

(* Where an export function stays quiet, there is nothing to record. *)
LEMMA QuietRecorded ==
    ASSUME NEW r \in rules, r.needs \subseteq facts, Quiet(r.fact.f, r.fact.k)
    PROVE  Recorded(r.fact.f, r.fact.k)
BY DEF Quiet, Derivable

LEMMA ExportRecords ==
    ASSUME NEW f, NEW k, Exported(f, k)
    PROVE  Recorded(f, k)'
<1>1. PICK a : facts' = facts \cup {[f |-> f, k |-> k, arg |-> a]}
  BY DEF Exported
<1>2. [f |-> f, k |-> k, arg |-> a] \in facts'
  BY <1>1
<1>. QED
  BY <1>2 DEF Recorded

LEMMA QuietInductive == TypeOK /\ QuietInv /\ [LoopNext]_loopVars => QuietInv'
<1>. SUFFICES ASSUME TypeOK, QuietInv, [LoopNext]_loopVars,
                     NEW r \in rules',
                     (r.needs \subseteq facts)', ~LookedForTooEarly(r),
                     Tried(r.fact.f, r.fact.k)'
              PROVE  Recorded(r.fact.f, r.fact.k)'
  BY DEF QuietInv, LookedForTooEarly
<1>. DEFINE f == r.fact.f
            k == r.fact.k
<1>0. /\ r \in rules /\ f \in Funcs /\ k \in Kinds
      /\ k <= NumPre => r.needs \subseteq facts
  BY FactAssumption DEF LoopNext, Prepass, StartRound, TryExport, Finish, Done, loopVars, TypeOK, Fact,
                        LookedForTooEarly
<1>1. ASSUME Recorded(f, k), facts \subseteq facts' PROVE Recorded(f, k)'
  BY <1>1 DEF Recorded
<1>2. ASSUME Exported(f, k) PROVE Recorded(f, k)'
  BY <1>2, ExportRecords
<1>3. ASSUME Quiet(fd, kd) \/ Exported(fd, kd) PROVE facts \subseteq facts'
  BY <1>3 DEF Quiet, Exported
<1>4. CASE Prepass
  <2>1. k <= NumPre
    BY <1>4, <1>0, FactAssumption DEF Prepass, Tried, TypeOK, Kinds
  <2>2. 1 \in Kinds /\ NumPre \in Kinds /\ 1 <= kd /\ kd <= NumPre /\ k \in 1..NumPre
    BY <1>4, <1>0, <2>1, FactAssumption DEF Prepass, TypeOK, Kinds
  <2>3. phase' = phase => Before(f, k)'
    BY <1>4, <2>1 DEF Prepass, Tried
  <2>4. Before(f, k) \/ (f = fd /\ k = kd)
    BY <1>4, <1>0, <2>2, <2>3, AdvancePast DEF Prepass
  <2>5. CASE Before(f, k)
    BY <1>0, <1>1, <1>3, <1>4, <2>1, <2>5 DEF Prepass, QuietInv, Tried
  <2>6. CASE f = fd /\ k = kd
    BY <1>0, <1>1, <1>2, <1>3, <1>4, <2>1, <2>6, QuietRecorded DEF Prepass
  <2>. QED
    BY <2>4, <2>5, <2>6
<1>5. CASE StartRound
  <2>1. k <= NumPre
    BY <1>0, <1>5, FactAssumption DEF StartRound, Tried, Before, FirstKind, Funcs, Kinds
  <2>2. Tried(f, k)
    BY <1>5, <2>1 DEF StartRound, Tried
  <2>. QED
    BY <1>0, <1>1, <1>5, <2>1, <2>2 DEF StartRound, QuietInv
<1>6. CASE TryExport
  <2>1. CASE k <= NumPre
    <3>1. Tried(f, k)
      BY <1>6, <2>1 DEF TryExport, Tried
    <3>. QED
      BY <1>0, <1>1, <1>3, <1>6, <2>1, <3>1 DEF TryExport, QuietInv
  <2>2. CASE k > NumPre
    <3>1. ~(k <= NumPre)
      BY <2>2, <1>0, FactAssumption DEF Kinds
    <3>2. ~exportedNew' /\ (phase' = "round" => Before(f, k)')
      BY <3>1 DEF Tried
    <3>3. Quiet(fd, kd) /\ ~exportedNew /\ phase = "round"
      BY <1>6, <3>2 DEF TryExport
    <3>4. /\ FirstKind \in Kinds /\ NumKinds \in Kinds /\ FirstKind <= kd /\ kd <= NumKinds
          /\ k \in FirstKind..NumKinds /\ round > 0
      BY <1>0, <2>2, <3>3, FactAssumption DEF TypeOK, FirstKind, Kinds
    <3>5. Before(f, k) \/ (f = fd /\ k = kd)
      BY <1>6, <1>0, <3>2, <3>3, <3>4, AdvancePast DEF TryExport
    <3>6. r.needs \subseteq facts
      BY <3>3 DEF Quiet
    <3>7. CASE Before(f, k)
      <4>1. Tried(f, k)
        BY <3>1, <3>3, <3>4, <3>7 DEF Tried
      <4>. QED
        BY <1>0, <1>1, <3>3, <3>6, <4>1 DEF QuietInv, Quiet
    <3>8. CASE f = fd /\ k = kd
      BY <1>0, <1>1, <3>3, <3>6, <3>8, QuietRecorded DEF Quiet
    <3>. QED
      BY <3>5, <3>7, <3>8
  <2>. QED
    BY <1>0, <2>1, <2>2, FactAssumption DEF Kinds
<1>7. CASE Finish
  <2>1. Tried(f, k)
    BY <1>7 DEF Finish, Tried
  <2>. QED
    BY <1>0, <1>1, <1>7, <2>1 DEF Finish, QuietInv
<1>8. CASE Done \/ UNCHANGED loopVars
  <2>1. Tried(f, k) /\ facts' = facts
    BY <1>8 DEF Done, loopVars, Tried, Before
  <2>. QED
    BY <1>0, <1>1, <2>1 DEF QuietInv
<1>. QED
  BY <1>4, <1>5, <1>6, <1>7, <1>8 DEF LoopNext

LEMMA QuietAlways == LoopSpec => []QuietInv
<1>1. LoopInit => QuietInv
  <2>. SUFFICES ASSUME LoopInit, NEW r \in rules, Tried(r.fact.f, r.fact.k) PROVE FALSE
    BY DEF QuietInv
  <2>1. r.fact.f \in Funcs /\ r.fact.k \in Kinds
    BY FactAssumption DEF LoopInit, Init, Fact
  <2>. QED
    BY <2>1, FactAssumption DEF LoopInit, Tried, Before, Funcs, Kinds
<1>. QED
  BY <1>1, QuietInductive, TypeCorrect, PTL DEF LoopSpec

(* A loop that stops because a round exported nothing has derived every fact  *)
(* but those of the first pass that rest on others (run in analyzer.go).      *)
THEOREM QuietIsEnough == LoopSpec => []QuietIsClosed
<1>1. TypeOK /\ QuietInv => QuietIsClosed
  BY DEF TypeOK, QuietInv, QuietIsClosed, Closed, Tried
<1>. QED
  BY <1>1, QuietAlways, TypeCorrect, PTL

-----------------------------------------------------------------------------
(* With one kind of fact, as many rounds as functions are enough: each      *)
(* round but the last gives one more function its fact.                     *)

Known(k) == {f \in Funcs : Recorded(f, k)}

RoundsCounted ==
    /\ \A k \in Kinds :
         OneKind(k) => Cardinality(Known(k)) >= IF exportedNew THEN round ELSE round - 1
    /\ round = 0 => ~exportedNew

LEMMA KnownFinite ==
    ASSUME NEW k
    PROVE  IsFiniteSet(Known(k)) /\ Cardinality(Known(k)) \in Nat /\ IsFiniteSet(Funcs)
<1>1. IsFiniteSet(Funcs)
  BY FS_Interval, FactAssumption DEF Funcs
<1>2. IsFiniteSet(Known(k))
  BY <1>1, FS_Subset DEF Known
<1>. QED
  BY <1>1, <1>2, FS_CardinalityType

LEMMA KnownGrows ==
    ASSUME facts \subseteq facts', NEW k
    PROVE  /\ Known(k) \subseteq Known(k)' /\ Cardinality(Known(k)) <= Cardinality(Known(k)')
           /\ Cardinality(Known(k)') \in Nat
<1>1. Known(k) \subseteq Known(k)'
  BY DEF Known, Recorded
<1>2. Known(k)' \subseteq Funcs
  BY DEF Known
<1>3. IsFiniteSet(Known(k)')
  BY <1>2, KnownFinite, FS_Subset
<1>. QED
  BY <1>1, <1>3, FS_Subset, FS_CardinalityType

LEMMA ExportCounts ==
    ASSUME TypeOK, NEW k \in Kinds, OneKind(k), phase = "round", Exported(fd, kd)
    PROVE  Cardinality(Known(k)') >= Cardinality(Known(k)) + 1
<1>1. kd = k /\ fd \in Funcs
  BY ExportStep DEF TypeOK, OneKind
<1>2. fd \in Known(k)' /\ fd \notin Known(k)
  BY <1>1, ExportRecords DEF Known, Exported
<1>3. facts \subseteq facts'
  BY DEF Exported
<1>4. Known(k) \cup {fd} \subseteq Known(k)' /\ IsFiniteSet(Known(k)')
  <2>1. Known(k)' \subseteq Funcs
    BY DEF Known
  <2>. QED
    BY <1>2, <1>3, <2>1, KnownGrows, KnownFinite, FS_Subset
<1>5. Cardinality(Known(k) \cup {fd}) = Cardinality(Known(k)) + 1
  BY <1>2, KnownFinite, FS_AddElement
<1>6. Cardinality(Known(k) \cup {fd}) <= Cardinality(Known(k)')
  BY <1>4, FS_Subset
<1>. QED
  BY <1>5, <1>6

LEMMA CountInductive ==
    ASSUME TypeOK, RoundsCounted, [LoopNext]_loopVars
    PROVE  RoundsCounted'
<1>. SUFFICES ASSUME NEW k \in Kinds, OneKind(k)'
              PROVE  /\ Cardinality(Known(k)') >= IF exportedNew' THEN round' ELSE round' - 1
                     /\ round' = 0 => ~exportedNew'
  <2>1. round' = 0 => ~exportedNew'
    BY FactAssumption DEF TypeOK, RoundsCounted, LoopNext, Prepass, StartRound, TryExport, Finish,
                          Done, loopVars
  <2>. QED
    BY <2>1 DEF RoundsCounted
<1>0. /\ round \in Nat /\ Cardinality(Known(k)) \in Nat /\ OneKind(k)
      /\ Cardinality(Known(k)) >= IF exportedNew THEN round ELSE round - 1
      /\ round = 0 => ~exportedNew
  <2>1. rules' = rules
    BY DEF LoopNext, Prepass, StartRound, TryExport, Finish, Done, loopVars
  <2>. QED
    BY <2>1, KnownFinite, FactAssumption DEF TypeOK, OneKind, RoundsCounted
<1>1. ASSUME facts \subseteq facts', round' = round, exportedNew' = exportedNew
      PROVE  /\ Cardinality(Known(k)') >= IF exportedNew' THEN round' ELSE round' - 1
             /\ round' = 0 => ~exportedNew'
  BY <1>0, <1>1, KnownGrows
<1>2. CASE Prepass
  BY <1>1, <1>2 DEF Prepass, Quiet, Exported
<1>3. CASE StartRound
  <2>1. /\ facts' = facts /\ round' = round + 1 /\ ~exportedNew'
        /\ round > 0 => exportedNew
    BY <1>3 DEF StartRound
  <2>. QED
    BY <1>0, <2>1, KnownGrows
<1>4. CASE TryExport /\ Quiet(fd, kd) /\ UNCHANGED exportedNew
  BY <1>1, <1>4 DEF TryExport, Quiet
<1>5. CASE TryExport /\ Exported(fd, kd) /\ exportedNew' = TRUE
  <2>1. round' = round /\ round > 0
    BY <1>5 DEF TryExport, TypeOK
  <2>2. Cardinality(Known(k)') >= Cardinality(Known(k)) + 1
    BY <1>0, <1>5, ExportCounts DEF TryExport
  <2>3. Cardinality(Known(k)') \in Nat
    BY <1>5, KnownGrows DEF Exported
  <2>. QED
    BY <1>0, <1>5, <2>1, <2>2, <2>3
<1>6. CASE Finish \/ Done \/ UNCHANGED loopVars
  BY <1>1, <1>6 DEF Finish, Done, loopVars
<1>. QED
  BY <1>2, <1>3, <1>4, <1>5, <1>6 DEF LoopNext, TryExport

\* The loop stops for one of its two reasons.
Stopped == phase = "done" => round = NumFuncs \/ ~exportedNew

LEMMA StoppedInductive == Stopped /\ [LoopNext]_loopVars => Stopped'
<1>. SUFFICES ASSUME Stopped, [LoopNext]_loopVars, phase' = "done"
              PROVE  round' = NumFuncs \/ ~exportedNew'
  BY DEF Stopped
<1>1. ASSUME NEW first, NEW last, Advance(first, last, "between"), phase # "done" PROVE FALSE
  BY <1>1 DEF Advance
<1>2. CASE Prepass \/ TryExport \/ StartRound
  BY <1>1, <1>2 DEF Prepass, TryExport, StartRound
<1>3. CASE Finish
  BY <1>3 DEF Finish, MaxRounds
<1>4. CASE Done \/ UNCHANGED loopVars
  BY <1>4 DEF Done, loopVars, Stopped
<1>. QED
  BY <1>2, <1>3, <1>4 DEF LoopNext

LEMMA AllKnown ==
    ASSUME TypeOK, QuietInv, RoundsCounted, Stopped
    PROVE  OneKindComplete
<1>. SUFFICES ASSUME NEW k \in Kinds, OneKind(k), phase = "done",
                     NEW r \in rules, r.needs \subseteq facts, ~LookedForTooEarly(r)
              PROVE  Recorded(r.fact.f, r.fact.k)
  BY DEF OneKindComplete, Complete, Closed
<1>1. /\ r.fact.f \in Funcs /\ r.fact.k \in Kinds
      /\ r.fact.k <= NumPre \/ r.fact.k = k
  BY FactAssumption DEF TypeOK, Fact, Kinds, OneKind
<1>2. CASE r.fact.k <= NumPre \/ ~exportedNew
  BY <1>2 DEF QuietInv, Tried, TypeOK
<1>3. CASE r.fact.k = k /\ exportedNew
  <2>1. Cardinality(Known(k)) >= NumFuncs
    BY <1>3 DEF Stopped, RoundsCounted
  <2>2. Cardinality(Funcs) = NumFuncs
    BY FS_Interval, FactAssumption DEF Funcs
  <2>3. Known(k) \subseteq Funcs
    BY DEF Known
  <2>4. Cardinality(Known(k)) <= Cardinality(Funcs)
    BY <2>3, KnownFinite, FS_Subset
  <2>5. Known(k) = Funcs
    BY <2>1, <2>2, <2>3, <2>4, KnownFinite, FS_Subset, FactAssumption
  <2>. QED
    BY <1>1, <1>3, <2>5 DEF Known
<1>. QED
  BY <1>1, <1>2, <1>3

(* When the rounds only derive facts of one kind, as many as the functions   *)
(* are enough for a chain of any length, in any order of the functions.      *)
THEOREM OneKindIsComplete == LoopSpec => []OneKindComplete
<1>1. LoopInit => RoundsCounted
  <2>1. \A k \in Kinds : Cardinality(Known(k)) \in Nat
    BY KnownFinite
  <2>2. \A n \in Nat : n >= 0 - 1
    OBVIOUS
  <2>. QED
    BY <2>1, <2>2 DEF LoopInit, RoundsCounted
<1>2. TypeOK /\ RoundsCounted /\ [LoopNext]_loopVars => RoundsCounted'
  BY CountInductive
<1>3. LoopInit => Stopped
  BY DEF LoopInit, Stopped
<1>4. TypeOK /\ QuietInv /\ RoundsCounted /\ Stopped => OneKindComplete
  BY AllKnown
<1>. QED
  BY <1>1, <1>2, <1>3, <1>4, StoppedInductive, QuietAlways, TypeCorrect, PTL DEF LoopSpec
=============================================================================
