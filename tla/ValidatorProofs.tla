-------------------------- MODULE ValidatorProofs ---------------------------
(***************************************************************************)
(* What a validator's body proves is settled by its first return of a nil  *)
(* error, and is so when it returns one.                                    *)
(***************************************************************************)
EXTENDS Validator, MemoryProofs
-----------------------------------------------------------------------------
(* The first of some positions.                                            *)

LEMMA OneFirst ==
    ASSUME NEW S \in SUBSET Nat, NEW i, IsFirst(S, i)
    PROVE  (CHOOSE k \in S : \A j \in S : k <= j) = i
<1>. DEFINE k == CHOOSE h \in S : \A j \in S : h <= j
<1>1. k \in S /\ \A j \in S : k <= j
  BY DEF IsFirst
<1>2. k \in Nat /\ i \in Nat /\ k <= i /\ i <= k
  BY <1>1 DEF IsFirst
<1>. QED
  BY <1>2

-----------------------------------------------------------------------------
(* A statement more at the end of a body.                                  *)

NilReturns(b) == {i \in DOMAIN b : ReachesNil(b[i])}

LEMMA FirstNilErrorReturnIs ==
    ASSUME NEW b \in Seq(Stmts), NEW i, IsFirst(NilReturns(b), i)
    PROVE  FirstNilErrorReturn(b) = i
<1>1. NilReturns(b) \in SUBSET Nat /\ NilReturns(b) # {}
  BY DEF NilReturns, IsFirst
<1>. QED
  BY <1>1, OneFirst DEF FirstNilErrorReturn, NilReturns

\* The first return of a nil error stays where it is.
LEMMA FirstNilErrorReturnStays ==
    ASSUME NEW b \in Seq(Stmts), NEW st \in Stmts, FirstNilErrorReturn(b) <= Len(b)
    PROVE  /\ FirstNilErrorReturn(Append(b, st)) = FirstNilErrorReturn(b)
           /\ FirstNilErrorReturn(b) \in 1..Len(b)
<1>. DEFINE c == Append(b, st)
<1>1. /\ c \in Seq(Stmts) /\ Len(c) = Len(b) + 1 /\ Len(b) \in Nat
      /\ DOMAIN b = 1..Len(b) /\ DOMAIN c = 1..Len(b) + 1
      /\ \A i \in 1..Len(b) : c[i] = b[i]
  OBVIOUS
<1>2. NilReturns(b) # {}
  <2>. SUFFICES ASSUME NilReturns(b) = {} PROVE FALSE
    OBVIOUS
  <2>1. FirstNilErrorReturn(b) = Len(b) + 1
    BY DEF FirstNilErrorReturn, NilReturns
  <2>. QED
    BY <2>1, <1>1
<1>3. PICK i : IsFirst(NilReturns(b), i)
  <2>1. NilReturns(b) \in SUBSET Nat
    BY <1>1 DEF NilReturns
  <2>. QED
    BY <2>1, <1>2, SomeFirst
<1>4. IsFirst(NilReturns(c), i)
  BY <1>1, <1>3 DEF NilReturns, IsFirst
<1>5. FirstNilErrorReturn(b) = i /\ FirstNilErrorReturn(c) = i
  BY <1>1, <1>3, <1>4, FirstNilErrorReturnIs
<1>. QED
  BY <1>1, <1>3, <1>5 DEF NilReturns, IsFirst

\* What withdraws a field goes on doing so.
LEMMA WithdrawnStays ==
    ASSUME NEW b \in Seq(Stmts), NEW st \in Stmts
    PROVE  /\ Poisoned(b) => Poisoned(Append(b, st))
           /\ WrittenReceiverFields(b) \subseteq WrittenReceiverFields(Append(b, st))
<1>1. AllInside(b) \subseteq AllInside(Append(b, st))
  <2>1. \A i \in DOMAIN b : i \in DOMAIN Append(b, st) /\ Append(b, st)[i] = b[i]
    OBVIOUS
  <2>. QED
    BY <2>1 DEF AllInside
<1>. QED
  BY <1>1 DEF Poisoned, WrittenReceiverFields

LEMMA FieldsSettled ==
    ASSUME NEW b \in Seq(Stmts), NEW st \in Stmts, FirstNilErrorReturn(b) <= Len(b)
    PROVE  ValidatedReceiverFields(Append(b, st)) \subseteq ValidatedReceiverFields(b)
<1>. DEFINE c == Append(b, st)
            n == FirstNilErrorReturn(b)
<1>1. FirstNilErrorReturn(c) = n /\ n \in 1..Len(b)
  BY FirstNilErrorReturnStays
<1>2. \A i \in 1..n - 1 : c[i] = b[i]
  BY <1>1
<1>3. UNION {RejectingGuard(c[i]) : i \in 1..n - 1} = UNION {RejectingGuard(b[i]) : i \in 1..n - 1}
  BY <1>2
<1>. QED
  BY <1>1, <1>3, WithdrawnStays DEF ValidatedReceiverFields

-----------------------------------------------------------------------------
\* The body is made of the statements there are.
BodyTyped == body \in Seq(Stmts)

LEMMA BodyKept == Spec => []BodyTyped
<1>1. Init => BodyTyped
  BY DEF Init, BodyTyped
<1>2. BodyTyped /\ [Next]_vars => BodyTyped'
  BY DEF BodyTyped, Next, Extend, vars
<1>. QED
  BY <1>1, <1>2, PTL DEF Spec

\* What follows a validator's first return of a nil error can withdraw fields
\* from its fact, never add one (firstNilErrorReturn).
THEOREM Settled == Spec => SettledByNilReturn
<1>1. BodyTyped /\ [Next]_vars
        => [FirstNilErrorReturn(body) <= Len(body)
              => ValidatedReceiverFields(body') \subseteq ValidatedReceiverFields(body)]_vars
  <2>. SUFFICES ASSUME BodyTyped, NEW st \in Stmts, Extend(st), FirstNilErrorReturn(body) <= Len(body)
                PROVE  ValidatedReceiverFields(body') \subseteq ValidatedReceiverFields(body)
    BY DEF Next, vars
  <2>. QED
    BY FieldsSettled DEF Extend, BodyTyped
<1>. QED
  BY <1>1, BodyKept, PTL DEF Spec, SettledByNilReturn
-----------------------------------------------------------------------------
(* Executing statements.                                                   *)

Endings == {"on", "nil", "assumed", "error", "panic"}

Runs == [mem : MemoryType, due : SUBSET Slots, how : Endings]

LEMMA WithMem ==
    ASSUME NEW r \in Runs, NEW m \in MemoryType, NEW q, q = [r EXCEPT !.mem = m]
    PROVE  q \in Runs /\ q.mem = m /\ q.due = r.due /\ q.how = r.how
<1>. DEFINE X == MemoryType  Y == SUBSET Slots  Z == Endings
<1>1. Runs = [mem : X, due : Y, how : Z]
  BY DEF Runs
<1>. HIDE DEF X, Y, Z
<1>2. r \in [mem : X, due : Y, how : Z]
  BY <1>1
<1>. QED
  BY <1>1, <1>2 DEF X, Y, Z

LEMMA WithDue ==
    ASSUME NEW r \in Runs, NEW d \in SUBSET Slots, NEW q, q = [r EXCEPT !.due = d]
    PROVE  q \in Runs /\ q.mem = r.mem /\ q.due = d /\ q.how = r.how
<1>. DEFINE X == MemoryType  Y == SUBSET Slots  Z == Endings
<1>1. Runs = [mem : X, due : Y, how : Z]
  BY DEF Runs
<1>. HIDE DEF X, Y, Z
<1>2. r \in [mem : X, due : Y, how : Z]
  BY <1>1
<1>. QED
  BY <1>1, <1>2 DEF X, Y, Z

LEMMA WithHow ==
    ASSUME NEW r \in Runs, NEW how \in Endings, NEW q, q = [r EXCEPT !.how = how]
    PROVE  q \in Runs /\ q.mem = r.mem /\ q.due = r.due /\ q.how = how
<1>. DEFINE X == MemoryType  Y == SUBSET Slots  Z == Endings
<1>1. Runs = [mem : X, due : Y, how : Z]
  BY DEF Runs
<1>. HIDE DEF X, Y, Z
<1>2. r \in [mem : X, due : Y, how : Z]
  BY <1>1
<1>. QED
  BY <1>1, <1>2 DEF X, Y, Z

\* The field f of the caller's object is set.
IsSet(f, m) == Deref(m.env[Caller], f, m) # Nil

\* Only the fields fs of one object are written: what else is set stays so.
LEMMA WrittenKeeps ==
    ASSUME NEW m \in MemoryType, NEW l \in Locals, NEW fs, NEW n \in Written(l, fs, m)
    PROVE  /\ n \in MemoryType /\ n.env = m.env
           /\ \A f \in Slots : (f \notin fs \/ m.env[l] # m.env[Caller]) /\ IsSet(f, m) => IsSet(f, n)
<1>. DEFINE o == m.env[l]
<1>1. o \in Objects
  BY DEF Written
<1>2. PICK h \in [Slots -> Objects \cup {Nil}] :
         /\ \A s \in Slots \ fs : h[s] = m.heap[o][s]
         /\ n = Collect([m EXCEPT !.heap[o] = h])
  BY <1>1 DEF Written
<1>. DEFINE hh == [m.heap EXCEPT ![o] = h]
            b == [m EXCEPT !.heap = hh]
<1>3. hh \in Heaps /\ \A p \in Objects : hh[p] = IF p = o THEN h ELSE m.heap[p]
  BY <1>1 DEF MemoryType, Heaps
<1>4. n = Collect(b)
  BY <1>2
<1>. HIDE DEF hh
<1>5. b \in MemoryType /\ b.env = m.env /\ b.heap = hh
  BY <1>3, WithHeap
<1>. HIDE DEF b
<1>6. n \in MemoryType /\ n.env = b.env /\ \A p \in Kept(b) : n.heap[p] = b.heap[p]
  BY <1>4, <1>5, CollectAgrees DEF Agrees
<1>7. ASSUME NEW f \in Slots, f \notin fs \/ m.env[l] # m.env[Caller], IsSet(f, m) PROVE IsSet(f, n)
  <2>. DEFINE c == m.env[Caller]
  <2>1. c \in Objects /\ m.heap[c][f] # Nil
    BY <1>7 DEF IsSet, Deref
  <2>2. c \in Kept(b)
    BY <1>5, <2>1, KeptIsClosed, ValidatorAssumption
  <2>3. n.heap[c] = hh[c]
    BY <1>5, <1>6, <2>2
  <2>4. hh[c][f] = m.heap[c][f]
    BY <1>2, <1>3, <1>7, <2>1
  <2>. QED
    BY <1>5, <1>6, <2>1, <2>3, <2>4 DEF IsSet, Deref
<1>. QED
  BY <1>5, <1>6, <1>7

\* What a single selector leads to.
LEMMA SelectsOne ==
    ASSUME NEW f \in Slots
    PROVE  \A v, m : EvalFrom(v, <<f>>, m) = Deref(v, f, m)
<1>. TAKE v, m
<1>1. <<>> \in Seq(Slots) /\ Append(<<>>, f) = <<f>>
  OBVIOUS
<1>2. EvalFrom(v, Append(<<>>, f), m) = Deref(EvalFrom(v, <<>>, m), f, m)
  BY <1>1, EvalFromAppend
<1>. QED
  BY <1>1, <1>2, EvalFromEmpty

\* The receiver gets a second name.
LEMMA CopyKeeps ==
    ASSUME NEW m \in MemoryType, NEW n, n = Store(<<Copy>>, m.env[Recv], FALSE, m)
    PROVE  /\ n \in MemoryType /\ n.env[Recv] = m.env[Recv] /\ n.env[Caller] = m.env[Caller]
           /\ \A f \in Slots : IsSet(f, m) => IsSet(f, n)
<1>1. m.env \in [Locals -> Value] /\ m.env[Recv] \in Value /\ {Recv, Caller, Copy} \subseteq Locals
  BY ValidatorAssumption DEF MemoryType
<1>2. /\ n \in MemoryType /\ n.env = [m.env EXCEPT ![Copy] = m.env[Recv]]
      /\ \A l \in Locals, w \in Seq(Slots) : EvalFrom(n.env[l], w, n) = EvalFrom(n.env[l], w, m)
  <2>. DEFINE v == m.env[Recv]  visible == FALSE  x == Copy
  <2>1. v \in Value /\ visible \in BOOLEAN /\ x \in Locals
    BY <1>1
  <2>2. n = Store(<<x>>, v, visible, m)
    OBVIOUS
  <2>. HIDE DEF v, visible, x
  <2>3. /\ n \in MemoryType /\ n.env = [m.env EXCEPT ![x] = v]
        /\ \A l \in Locals, w \in Seq(Slots) : EvalFrom(n.env[l], w, n) = EvalFrom(n.env[l], w, m)
    BY ONLY <2>1, <2>2, StoreLocal, m \in MemoryType
  <2>. QED
    BY <2>3 DEF v, x
<1>3. n.env[Recv] = m.env[Recv] /\ n.env[Caller] = m.env[Caller]
  BY <1>1, <1>2, ValidatorAssumption
<1>4. ASSUME NEW f \in Slots PROVE Deref(n.env[Caller], f, n) = Deref(m.env[Caller], f, m)
  <2>1. EvalFrom(n.env[Caller], <<f>>, n) = EvalFrom(n.env[Caller], <<f>>, m)
    <3>1. <<f>> \in Seq(Slots)
      OBVIOUS
    <3>. QED
      BY <1>1, <1>2, <3>1
  <2>2. \A v, k : EvalFrom(v, <<f>>, k) = Deref(v, f, k)
    BY SelectsOne
  <2>. QED
    BY <1>3, <2>1, <2>2
<1>. QED
  BY <1>2, <1>3, <1>4 DEF IsSet

-----------------------------------------------------------------------------
(* What no statement of an unpoisoned body undoes.                         *)

HasCopyWrite(st) == \E s \in Inside(st) : s.op = "copywrite"

\* The statement leaves the receiver alone, but for the fields F.
Leaves(st, F) ==
    /\ IsStatement(st) /\ F \in SUBSET Slots
    /\ \A s \in Inside(st) :
         /\ s.op # "rebind" /\ (s.op = "call" => s.reaches = FALSE)
         /\ s.op \in {"write", "defer"} => s.f \in F
         /\ HasCopyWrite(st) => s.op # "copy"

\* Executions of st or of what is in it, which started with the fields G set.
Good(st, F, G) ==
    {q \in Runs : /\ q.due \subseteq F /\ q.mem.env[Recv] = q.mem.env[Caller]
                  /\ \A f \in G : IsSet(f, q.mem)
                  /\ HasCopyWrite(st) => q.mem.env[Copy] # q.mem.env[Caller]
                  /\ q.how = "nil" => ReachesNil(st)}

Apart(G, F) == G \in SUBSET Slots /\ G \cap F = {}

LEMMA GoodMem ==
    ASSUME NEW st, NEW F, NEW G, NEW r \in Good(st, F, G),
           NEW m \in MemoryType, m.env[Recv] = m.env[Caller], \A f \in G : IsSet(f, m),
           HasCopyWrite(st) => m.env[Copy] # m.env[Caller],
           NEW q, q = [r EXCEPT !.mem = m]
    PROVE  q \in Good(st, F, G) /\ q.how = r.how /\ q.due = r.due
<1>1. q \in Runs /\ q.mem = m /\ q.due = r.due /\ q.how = r.how
  BY WithMem DEF Good
<1>. QED
  BY <1>1 DEF Good

LEMMA GoodHow ==
    ASSUME NEW st, NEW F, NEW G, NEW r \in Good(st, F, G), NEW how \in Endings,
           how = "nil" => ReachesNil(st), NEW q, q = [r EXCEPT !.how = how]
    PROVE  q \in Good(st, F, G) /\ q.how = how
<1>1. q \in Runs /\ q.mem = r.mem /\ q.due = r.due /\ q.how = how
  BY WithHow DEF Good
<1>. QED
  BY <1>1 DEF Good

\* It goes on with fields written that are none of G, or panics.
LEMMA OnGood ==
    ASSUME NEW st, NEW F, NEW G, Apart(G, F), NEW r \in Good(st, F, G), NEW l \in Locals, NEW fs,
           fs \subseteq F \/ r.mem.env[l] # r.mem.env[Caller],
           NEW q \in On(r, Written(l, fs, r.mem))
    PROVE  q \in Good(st, F, G) /\ q.how \in {r.how, "panic"}
<1>1. CASE Written(l, fs, r.mem) = {}
  <2>1. q = [r EXCEPT !.how = "panic"]
    BY <1>1 DEF On
  <2>2. "panic" \in Endings /\ "panic" # "nil"
    BY DEF Endings
  <2>3. q \in Good(st, F, G) /\ q.how = "panic"
    BY <2>1, <2>2, GoodHow
  <2>. QED
    BY <2>3
<1>2. CASE Written(l, fs, r.mem) # {}
  <2>1. PICK n \in Written(l, fs, r.mem) : q = [r EXCEPT !.mem = n]
    BY <1>2 DEF On
  <2>2. r.mem \in MemoryType
    BY DEF Good, Runs
  <2>. DEFINE m == r.mem
  <2>3. /\ n \in MemoryType /\ n.env = m.env
        /\ \A f \in Slots : (f \notin fs \/ m.env[l] # m.env[Caller]) /\ IsSet(f, m) => IsSet(f, n)
    <3>. HIDE DEF m
    <3>1. m \in MemoryType /\ n \in Written(l, fs, m)
      BY <2>2 DEF m
    <3>. QED
      BY <3>1, WrittenKeeps
  <2>4. \A f \in G : IsSet(f, n)
    BY <2>3 DEF Good, Apart
  <2>5. n.env[Recv] = n.env[Caller] /\ (HasCopyWrite(st) => n.env[Copy] # n.env[Caller])
    BY <2>3 DEF Good
  <2>6. q \in Good(st, F, G) /\ q.how = r.how
    BY <2>1, <2>3, <2>4, <2>5, GoodMem
  <2>. QED
    BY <2>6
<1>. QED
  BY <1>1, <1>2

LEMMA EndedGood ==
    ASSUME NEW st, NEW F, NEW G, Apart(G, F), NEW r \in Good(st, F, G), r.how = "on",
           NEW how \in Endings \ {"on"}, how = "nil" => ReachesNil(st), NEW q \in Ended(r, how)
    PROVE  q \in Good(st, F, G) /\ q.how # "on"
<1>1. CASE r.due = {}
  <2>1. q = [r EXCEPT !.how = how]
    BY <1>1 DEF Ended
  <2>. QED
    BY <2>1, GoodHow
<1>2. CASE r.due # {}
  <2>1. PICK p \in On(r, Written(Recv, r.due, r.mem)) : q = [p EXCEPT !.how = IF @ = "on" THEN how ELSE @]
    BY <1>2 DEF Ended
  <2>2. Recv \in Locals /\ r.due \subseteq F
    BY ValidatorAssumption DEF Good
  <2>3. p \in Good(st, F, G) /\ p.how \in {"on", "panic"}
    <3>. DEFINE fs == r.due
    <3>1. fs \subseteq F /\ p \in On(r, Written(Recv, fs, r.mem))
      BY <2>2
    <3>. HIDE DEF fs
    <3>. QED
      BY <2>2, <3>1, OnGood
  <2>. DEFINE end == IF p.how = "on" THEN how ELSE p.how
  <2>4. end \in Endings /\ end # "on" /\ (end = "nil" => ReachesNil(st))
    BY <2>3 DEF Endings
  <2>5. q = [p EXCEPT !.how = end]
    BY <2>1
  <2>. HIDE DEF end
  <2>. QED
    BY <2>3, <2>4, <2>5, GoodHow
<1>. QED
  BY <1>1, <1>2

\* The call in a return leaves what is set.
LEMMA ReturnedKeeps ==
    ASSUME Wild = {}, NEW m \in MemoryType, NEW n \in AfterReturned(m)
    PROVE  n \in MemoryType /\ n.env = m.env /\ \A f \in Slots : IsSet(f, m) => IsSet(f, n)
<1>1. n \in Reached(m) /\ ~Clears(m, n)
  BY DEF AfterReturned
<1>2. n \in MemoryType /\ n.env = m.env
  <2>1. CASE n = m
    BY <2>1
  <2>2. CASE n \in Written(Recv, Slots, m)
    BY <2>2, WrittenKeeps, ValidatorAssumption
  <2>. QED
    BY <1>1, <2>1, <2>2 DEF Reached
<1>. QED
  BY <1>1, <1>2 DEF Clears, IsSet

\* Every statement without another in it.
LEMMA SimpleGood ==
    ASSUME Wild = {}, NEW st, NEW F, Leaves(st, F), NEW G, Apart(G, F), NEW s \in Inside(st), IsSimple(s),
           NEW r \in Good(st, F, G), r.how = "on", NEW q \in DoSimple(s, r)
    PROVE  q \in Good(st, F, G) /\ (s.op \in {"return", "panic"} => q.how # "on")
<1>0. /\ s.op # "rebind" /\ (s.op = "call" => s.reaches = FALSE)
      /\ s.op \in {"write", "defer"} => s.f \in F
      /\ HasCopyWrite(st) => s.op # "copy"
      /\ F \in SUBSET Slots /\ {Recv, Copy} \subseteq Locals
      /\ r.mem \in MemoryType /\ r \in Runs
  BY ValidatorAssumption DEF Leaves, Good, Runs
<1>1. CASE s.op = "write"
  <2>1. q \in On(r, Written(Recv, {s.f}, r.mem)) /\ {s.f} \subseteq F
    BY <1>0, <1>1 DEF DoSimple
  <2>. QED
    BY <1>0, <1>1, <2>1, OnGood
<1>2. CASE s.op = "defer"
  <2>. DEFINE d == r.due \cup {s.f}
  <2>1. q = [r EXCEPT !.due = d]
    BY <1>2 DEF DoSimple
  <2>2. d \in SUBSET Slots /\ d \subseteq F
    BY <1>0, <1>2 DEF Good
  <2>. HIDE DEF d
  <2>3. q \in Runs /\ q.mem = r.mem /\ q.due = d /\ q.how = r.how
    BY <1>0, <2>1, <2>2, WithDue
  <2>. QED
    BY <1>2, <2>2, <2>3 DEF Good
<1>3. CASE s.op = "call"
  <2>1. q \in On(r, {r.mem})
    BY <1>0, <1>3 DEF DoSimple
  <2>2. q = [r EXCEPT !.mem = r.mem]
    BY <2>1 DEF On
  <2>3. q = r
    BY <1>0, <2>2 DEF Runs
  <2>. QED
    BY <1>3, <2>3
<1>4. CASE s.op = "copy"
  <2>. DEFINE n == Store(<<Copy>>, r.mem.env[Recv], FALSE, r.mem)
  <2>1. q = [r EXCEPT !.mem = n]
    BY <1>4 DEF DoSimple, On
  <2>2. /\ n \in MemoryType /\ n.env[Recv] = r.mem.env[Recv] /\ n.env[Caller] = r.mem.env[Caller]
        /\ \A f \in Slots : IsSet(f, r.mem) => IsSet(f, n)
    <3>. DEFINE m == r.mem
    <3>1. m \in MemoryType /\ n = Store(<<Copy>>, m.env[Recv], FALSE, m)
      BY <1>0
    <3>. HIDE DEF n, m
    <3>2. /\ n \in MemoryType /\ n.env[Recv] = m.env[Recv] /\ n.env[Caller] = m.env[Caller]
          /\ \A f \in Slots : IsSet(f, m) => IsSet(f, n)
      BY <3>1, CopyKeeps
    <3>. QED
      BY <3>2 DEF m
  <2>. HIDE DEF n
  <2>3. n.env[Recv] = n.env[Caller] /\ (\A f \in G : IsSet(f, n)) /\ ~HasCopyWrite(st)
    BY <1>0, <1>4, <2>2 DEF Good, Apart
  <2>. QED
    BY <1>4, <2>1, <2>2, <2>3, GoodMem
<1>5. CASE s.op = "copywrite"
  <2>1. q \in On(r, Written(Copy, {s.f}, r.mem))
    BY <1>5 DEF DoSimple
  <2>2. r.mem.env[Copy] # r.mem.env[Caller]
    BY <1>5 DEF Good, HasCopyWrite
  <2>. QED
    BY <1>0, <1>5, <2>1, <2>2, OnGood
<1>6. CASE s.op = "panic"
  <2>1. q = [r EXCEPT !.how = "panic"]
    BY <1>6 DEF DoSimple
  <2>2. "panic" \in Endings /\ "panic" # "nil" /\ "panic" # "on"
    BY DEF Endings
  <2>. QED
    BY <2>1, <2>2, GoodHow
<1>7. CASE s.op = "return"
  <2>1. PICK m \in (IF s.reaches THEN AfterReturned(r.mem) ELSE {r.mem}), how \in Returns(s.e) :
           q \in Ended([r EXCEPT !.mem = m], how)
    BY <1>7 DEF DoSimple
  <2>2. s.e \in {"error", "assumed", "nil", "local"}
    BY <1>7 DEF IsSimple
  <2>3. how \in Endings \ {"on"} /\ (how = "nil" => ~NonNilErrorExpr(s.e))
    BY <2>1, <2>2 DEF Endings, Returns, NonNilErrorExpr
  <2>4. how = "nil" => ReachesNil(st)
    BY <1>7, <2>3 DEF ReachesNil
  <2>5. /\ m \in MemoryType /\ m.env = r.mem.env
        /\ \A f \in Slots : IsSet(f, r.mem) => IsSet(f, m)
    BY <1>0, <2>1, ReturnedKeeps
  <2>. DEFINE p == [r EXCEPT !.mem = m]
  <2>6. p \in Good(st, F, G) /\ p.how = r.how
    <3>1. m.env[Recv] = m.env[Caller] /\ (HasCopyWrite(st) => m.env[Copy] # m.env[Caller])
      BY <2>5 DEF Good
    <3>2. \A f \in G : IsSet(f, m)
      BY <2>5 DEF Good, Apart
    <3>. QED
      BY <2>5, <3>1, <3>2, GoodMem
  <2>7. q \in Ended(p, how)
    BY <2>1
  <2>. HIDE DEF p
  <2>. QED
    BY <2>3, <2>4, <2>6, <2>7, EndedGood
<1>. QED
  BY <1>0, <1>1, <1>2, <1>3, <1>4, <1>5, <1>6, <1>7 DEF IsSimple

-----------------------------------------------------------------------------
(* Executing blocks.                                                       *)

\* The next statement is executed if the execution goes on.
Then(s, q) == IF q.how = "on" THEN DoSimple(s, q) ELSE {q}

\* A block of st.
Within(b, st) == IsBlock(b) /\ ToSet(b) \subseteq Inside(st)

\* What h[n] holds are the executions of the first n statements of b.
Executes(h, b, r, X) ==
    /\ h \in [0..Len(b) -> SUBSET X] /\ h[0] = {r}
    /\ \A n \in 1..Len(b) : n - 1 \in 0..Len(b) /\ h[n] = UNION {Then(b[n], q) : q \in h[n - 1]}

LEMMA BlockParts ==
    ASSUME NEW st, NEW b, Within(b, st)
    PROVE  /\ Len(b) \in Nat /\ DOMAIN b = 1..Len(b)
           /\ \A n \in 1..Len(b) : b[n] \in Inside(st) /\ IsSimple(b[n])
<1>1. b \in Seq({s \in ToSet(b) : IsSimple(s)})
  BY DEF Within, IsBlock
<1>2. \A n \in 1..Len(b) : b[n] \in ToSet(b) /\ IsSimple(b[n])
  BY <1>1
<1>. QED
  BY <1>1, <1>2 DEF Within

\* A function that goes from set to set by step, and a definition by step.
IsStep(step, N, X) == N \in Nat /\ step \in [1..N -> [SUBSET X -> SUBSET X]]

Goes(f, N, r, step) == f[0] = {r} /\ \A n \in 1..N : n - 1 \in 0..N /\ f[n] = step[n][f[n - 1]]

GoesWithin(h, N, r, X, step) ==
    /\ h = [n \in 0..N |-> h[n]] /\ h[0] = {r}
    /\ \A n \in 1..N : h[n - 1] \in SUBSET X => h[n] = step[n][h[n - 1]]

LEMMA StepsTaken ==
    ASSUME NEW N, NEW X, NEW r \in X, NEW step, IsStep(step, N, X)
    PROVE  \E f \in [0..N -> SUBSET X] : Goes(f, N, r, step)
<1>. DEFINE S == SUBSET X  a == {r}
<1>1. a \in S
  OBVIOUS
<1>. HIDE DEF S, a
<1>2. N \in Nat /\ step \in [1..N -> [S -> S]]
  BY DEF S, IsStep
<1>3. PICK f \in [0..N -> S] : Unrolls(f, N, a, step)
  BY <1>1, <1>2, RecursionExists
<1>4. f[0] = a /\ \A n \in 1..N : f[n] = step[n][f[n - 1]]
  BY <1>2, <1>3, RecursionStep
<1>5. \A n \in 1..N : n - 1 \in 0..N
  BY <1>2
<1>. QED
  BY <1>3, <1>4, <1>5 DEF S, a, Goes

LEMMA StepsTyped ==
    ASSUME NEW N, NEW X, NEW r \in X, NEW step, IsStep(step, N, X),
           NEW h, GoesWithin(h, N, r, X, step)
    PROVE  h \in [0..N -> SUBSET X]
<1>. DEFINE S == SUBSET X  a == {r}
<1>1. a \in S /\ GoesOn(h, N, S, a, step)
  BY DEF GoesOn, GoesWithin
<1>. HIDE DEF S, a
<1>2. N \in Nat /\ step \in [1..N -> [S -> S]]
  BY DEF S, IsStep
<1>3. h \in [0..N -> S]
  BY <1>1, <1>2, RecursionTyped
<1>. QED
  BY <1>3 DEF S

LEMMA DoBlockIs ==
    ASSUME NEW st, NEW b, Within(b, st), NEW X, NEW r \in X,
           \A n \in 1..Len(b), q \in X : Then(b[n], q) \subseteq X
    PROVE  \E h : Executes(h, b, r, X) /\ DoBlock(b, r) = h[Len(b)]
<1>. DEFINE N == Len(b)
            Row(f, n) == UNION {Then(b[n], q) : q \in f[n - 1]}
            Is(f) == f = [n \in 0..N |-> IF n = 0 THEN {r} ELSE Row(f, n)]
            h == CHOOSE f : Is(f)
            step == [n \in 1..N |-> [Y \in SUBSET X |-> UNION {Then(b[n], q) : q \in Y}]]
<1>1. DoBlock(b, r) = h[N]
  BY DEF DoBlock, Then
<1>2. N \in Nat
  BY BlockParts
<1>. HIDE DEF N
<1>3. IsStep(step, N, X)
      /\ \A n \in 1..N, Y \in SUBSET X : step[n][Y] = UNION {Then(b[n], q) : q \in Y}
  <2>1. ASSUME NEW n \in 1..N, NEW Y \in SUBSET X PROVE UNION {Then(b[n], q) : q \in Y} \in SUBSET X
    BY DEF N
  <2>. QED
    BY <1>2, <2>1 DEF IsStep
<1>. HIDE DEF step
<1>4. PICK f \in [0..N -> SUBSET X] : Goes(f, N, r, step)
  BY <1>3, StepsTaken
<1>5. \A n \in 0..N : n = 0 \/ n \in 1..N
  BY <1>2
<1>6. Is(f)
  <2>1. \A n \in 1..N : f[n] = Row(f, n)
    BY <1>3, <1>4 DEF Goes
  <2>. HIDE DEF Row
  <2>2. \A n \in 0..N : f[n] = IF n = 0 THEN {r} ELSE Row(f, n)
    BY <1>4, <1>5, <2>1 DEF Goes
  <2>. QED
    BY <2>2
<1>7. Is(h)
  BY <1>6
<1>. HIDE DEF h
<1>8. h = [n \in 0..N |-> h[n]] /\ h[0] = {r} /\ \A n \in 1..N : h[n] = Row(h, n)
  <2>. HIDE DEF Row
  <2>1. h = [n \in 0..N |-> h[n]] /\ \A n \in 0..N : h[n] = IF n = 0 THEN {r} ELSE Row(h, n)
    BY <1>7
  <2>2. 0 \in 0..N /\ \A n \in 1..N : n \in 0..N /\ n # 0
    BY <1>2
  <2>. QED
    BY <2>1, <2>2
<1>9. GoesWithin(h, N, r, X, step)
  BY <1>3, <1>8 DEF GoesWithin
<1>10. h \in [0..N -> SUBSET X]
  BY <1>3, <1>9, StepsTyped
<1>11. \A n \in 1..N : n - 1 \in 0..N
  BY <1>2
<1>. QED
  BY <1>1, <1>8, <1>10, <1>11 DEF Executes, N

\* A block keeps what its statements keep, and does not go on behind an exit.
LEMMA BlockGood ==
    ASSUME Wild = {}, NEW st, NEW F, Leaves(st, F), NEW G, Apart(G, F), NEW b, Within(b, st),
           NEW r \in Good(st, F, G)
    PROVE  /\ DoBlock(b, r) \subseteq Good(st, F, G)
           /\ b = <<>> => DoBlock(b, r) = {r}
           /\ b # <<>> /\ Last(b).op \in {"return", "panic"} => \A q \in DoBlock(b, r) : q.how # "on"
<1>. DEFINE X == Good(st, F, G)
<1>0. /\ Len(b) \in Nat
      /\ \A n \in 1..Len(b) : b[n] \in Inside(st) /\ IsSimple(b[n])
  BY BlockParts
<1>1. \A n \in 1..Len(b), q \in X : Then(b[n], q) \subseteq X
  BY <1>0, SimpleGood DEF Then
<1>2. PICK h : Executes(h, b, r, X) /\ DoBlock(b, r) = h[Len(b)]
  <2>. HIDE DEF X
  <2>. QED
    BY <1>1, DoBlockIs DEF X
<1>3. DoBlock(b, r) \subseteq X
  BY <1>0, <1>2 DEF Executes
<1>4. b = <<>> => DoBlock(b, r) = {r}
  BY <1>2 DEF Executes
<1>5. ASSUME b # <<>>, Last(b).op \in {"return", "panic"}, NEW q \in DoBlock(b, r) PROVE q.how # "on"
  <2>. DEFINE N == Len(b)
  <2>1. N \in 1..N /\ Last(b) = b[N]
    <3>1. b \in Seq({s \in ToSet(b) : IsSimple(s)})
      BY DEF Within, IsBlock
    <3>. QED
      BY <1>5, <3>1 DEF Last
  <2>2. PICK p \in h[N - 1] : q \in Then(b[N], p)
    BY <1>2, <1>5, <2>1 DEF Executes
  <2>3. p \in X
    BY <1>2, <2>1, <2>2 DEF Executes
  <2>4. CASE p.how = "on"
    BY <1>0, <1>5, <2>1, <2>2, <2>3, <2>4, SimpleGood DEF Then
  <2>5. CASE p.how # "on"
    BY <2>2, <2>5 DEF Then
  <2>. QED
    BY <2>4, <2>5
<1>. QED
  BY <1>3, <1>4, <1>5

-----------------------------------------------------------------------------
(* Executing statements with statements in them.                           *)

LEMMA IfParts ==
    ASSUME NEW st, IsStatement(st), st.op = "if"
    PROVE  Within(st.init, st) /\ Within(st.then, st) /\ Within(st.els, st) /\ st.c \in Conds /\ st.c.k # "nil"
<1>1. /\ IsBlock(st.init) /\ IsBlock(st.then) /\ IsBlock(st.els)
      /\ st.c \in Conds /\ st.c.k # "nil"
  BY DEF IsStatement, IsSimple
<1>2. Inside(st) = {st} \cup UNION {ToSet(b) : b \in {st.init, st.then, st.els}}
  BY Zenon DEF Inside
<1>3. \A b \in {st.init, st.then, st.els} : ToSet(b) \subseteq Inside(st)
  BY <1>2
<1>. QED
  BY <1>1, <1>3 DEF Within

LEMMA ForParts ==
    ASSUME NEW st, IsStatement(st), st.op = "for"
    PROVE  Within(st.body, st)
<1>1. IsBlock(st.body)
  BY DEF IsStatement, IsSimple
<1>2. Inside(st) = {st} \cup ToSet(st.body)
  <2>1. st.op # "if"
    OBVIOUS
  <2>. QED
    BY <2>1, Zenon DEF Inside
<1>. QED
  BY <1>1, <1>2 DEF Within

\* What an if does with an execution that has been through its init statement.
Branch(st, q) ==
    IF q.how # "on" THEN {q}
    ELSE (IF Outcome(st.c, q.mem).yes THEN DoBlock(st.then, q) ELSE {})
         \cup (IF Outcome(st.c, q.mem).no THEN DoBlock(st.els, q) ELSE {})
         \cup (IF Outcome(st.c, q.mem).dies # {} THEN {[q EXCEPT !.how = "panic"]} ELSE {})

LEMMA PanicGood ==
    ASSUME NEW st, NEW F, NEW G, NEW q \in Good(st, F, G), NEW p, p = [q EXCEPT !.how = "panic"]
    PROVE  p \in Good(st, F, G) /\ p.how # "on"
<1>1. "panic" \in Endings /\ "panic" # "nil" /\ "panic" # "on"
  BY DEF Endings
<1>. QED
  BY <1>1, GoodHow

LEMMA IfGood ==
    ASSUME Wild = {}, NEW st, NEW F, Leaves(st, F), st.op = "if", NEW G, Apart(G, F), NEW r \in Good(st, F, G), r.how = "on",
           NEW p \in DoIf(st, r)
    PROVE  /\ p \in Good(st, F, G)
           /\ st.init = <<>> /\ st.els = <<>> /\ RejectsWithError(st.then) /\ p.how = "on"
                => p = r /\ Outcome(st.c, r.mem).no
<1>1. Within(st.init, st) /\ Within(st.then, st) /\ Within(st.els, st)
  BY IfParts DEF Leaves
<1>2. PICK q \in DoBlock(st.init, r) : p \in Branch(st, q)
  BY DEF DoIf, Branch
<1>3. q \in Good(st, F, G) /\ (st.init = <<>> => q = r)
  BY <1>1, BlockGood
<1>4. CASE q.how # "on"
  BY <1>2, <1>3, <1>4 DEF Branch
<1>5. CASE q.how = "on" /\ Outcome(st.c, q.mem).yes /\ p \in DoBlock(st.then, q)
  <2>1. p \in Good(st, F, G)
    BY <1>1, <1>3, <1>5, BlockGood
  <2>2. RejectsWithError(st.then) => p.how # "on"
    BY <1>1, <1>3, <1>5, BlockGood DEF RejectsWithError
  <2>. QED
    BY <2>1, <2>2
<1>6. CASE q.how = "on" /\ Outcome(st.c, q.mem).no /\ p \in DoBlock(st.els, q)
  <2>1. p \in Good(st, F, G) /\ (st.els = <<>> => p = q)
    BY <1>1, <1>3, <1>6, BlockGood
  <2>. QED
    BY <1>3, <1>6, <2>1
<1>7. CASE q.how = "on" /\ p = [q EXCEPT !.how = "panic"]
  BY <1>3, <1>7, PanicGood
<1>. QED
  BY <1>2, <1>4, <1>5, <1>6, <1>7 DEF Branch

\* Another turn, or not.
Turn(b, q) == IF q.how = "on" THEN {q} \cup DoBlock(b, q) ELSE {q}

LEMMA ForGood ==
    ASSUME Wild = {}, NEW st, NEW F, Leaves(st, F), st.op = "for", NEW G, Apart(G, F), NEW r \in Good(st, F, G)
    PROVE  DoFor(st, r) \subseteq Good(st, F, G)
<1>. DEFINE X == Good(st, F, G)
            N == MaxTurns
            Row(f, n) == UNION {Turn(st.body, q) : q \in f[n - 1]}
            Is(f) == f = [n \in 0..N |-> IF n = 0 THEN {r} ELSE Row(f, n)]
            h == CHOOSE f : Is(f)
            step == [n \in 1..N |-> [Y \in SUBSET X |-> UNION {Turn(st.body, q) : q \in Y}]]
<1>1. DoFor(st, r) = h[N]
  BY DEF DoFor, Turn
<1>2. N \in Nat
  BY ValidatorAssumption
<1>3. Within(st.body, st)
  BY ForParts DEF Leaves
<1>4. \A q \in X : Turn(st.body, q) \subseteq X
  BY <1>3, BlockGood DEF Turn
<1>. HIDE DEF N, X
<1>5. IsStep(step, N, X)
      /\ \A n \in 1..N, Y \in SUBSET X : step[n][Y] = UNION {Turn(st.body, q) : q \in Y}
  <2>1. ASSUME NEW n \in 1..N, NEW Y \in SUBSET X PROVE UNION {Turn(st.body, q) : q \in Y} \in SUBSET X
    BY <1>4
  <2>. QED
    BY <1>2, <2>1 DEF IsStep
<1>. HIDE DEF step
<1>6. r \in X
  BY DEF X
<1>7. PICK f \in [0..N -> SUBSET X] : Goes(f, N, r, step)
  BY <1>5, <1>6, StepsTaken
<1>8. \A n \in 0..N : n = 0 \/ n \in 1..N
  BY <1>2
<1>9. Is(f)
  <2>1. \A n \in 1..N : f[n] = Row(f, n)
    BY <1>5, <1>7 DEF Goes
  <2>. HIDE DEF Row
  <2>2. \A n \in 0..N : f[n] = IF n = 0 THEN {r} ELSE Row(f, n)
    BY <1>7, <1>8, <2>1 DEF Goes
  <2>. QED
    BY <2>2
<1>10. Is(h)
  BY <1>9
<1>. HIDE DEF h
<1>11. h = [n \in 0..N |-> h[n]] /\ h[0] = {r} /\ \A n \in 1..N : h[n] = Row(h, n)
  <2>. HIDE DEF Row
  <2>1. h = [n \in 0..N |-> h[n]] /\ \A n \in 0..N : h[n] = IF n = 0 THEN {r} ELSE Row(h, n)
    BY <1>10
  <2>2. 0 \in 0..N /\ \A n \in 1..N : n \in 0..N /\ n # 0
    BY <1>2
  <2>. QED
    BY <2>1, <2>2
<1>12. GoesWithin(h, N, r, X, step)
  BY <1>5, <1>11 DEF GoesWithin
<1>13. h \in [0..N -> SUBSET X]
  BY <1>5, <1>6, <1>12, StepsTyped
<1>14. N \in 0..N
  BY <1>2
<1>. QED
  BY <1>1, <1>13, <1>14 DEF X

\* Every statement.
LEMMA DoGood ==
    ASSUME Wild = {}, NEW st, NEW F, Leaves(st, F), NEW G, Apart(G, F), NEW r \in Good(st, F, G), r.how = "on",
           NEW p \in Do(st, r)
    PROVE  p \in Good(st, F, G)
<1>1. CASE st.op = "if"
  <2>1. p \in DoIf(st, r)
    BY <1>1 DEF Do
  <2>. QED
    BY <1>1, <2>1, IfGood
<1>2. CASE st.op = "for"
  <2>1. p \in DoFor(st, r)
    BY <1>2 DEF Do
  <2>. QED
    BY <1>2, <2>1, ForGood
<1>3. CASE st.op \notin {"if", "for"}
  <2>1. p \in DoSimple(st, r) /\ IsSimple(st) /\ st \in Inside(st)
    BY <1>3 DEF Do, Leaves, IsStatement, Inside
  <2>. QED
    BY <2>1, SimpleGood
<1>. QED
  BY <1>1, <1>2, <1>3

LEMMA SecondAlone ==
    ASSUME NEW D, NEW q \in Seq(D), Len(q) = 2
    PROVE  SubSeq(q, 2, 2) = <<q[2]>>
<1>. DEFINE s == SubSeq(q, 2, 2)  t == <<q[2]>>
<1>1. s \in Seq(D) /\ Len(s) = 1 /\ s[1] = q[2]
  OBVIOUS
<1>2. q[2] \in D
  OBVIOUS
<1>3. t \in Seq(D) /\ Len(t) = 1 /\ t[1] = q[2]
  BY <1>2
<1>. HIDE DEF s, t
<1>4. s = t
  BY ONLY <1>1, <1>3
<1>. QED
  BY <1>4 DEF s, t

\* An execution that goes on behind a guard has not been rejected.
LEMMA GuardPassed ==
    ASSUME Wild = {}, NEW st, NEW F, Leaves(st, F), NEW G, Apart(G, F), NEW r \in Good(st, F, G), r.how = "on",
           NEW p \in Do(st, r), p.how = "on"
    PROVE  \A f \in RejectingGuard(st) : f \in Slots /\ IsSet(f, p.mem)
<1>. SUFFICES ASSUME NEW f \in RejectingGuard(st) PROVE f \in Slots /\ IsSet(f, p.mem)
  OBVIOUS
<1>1. st.op = "if" /\ st.init = <<>> /\ st.els = <<>> /\ RejectsWithError(st.then)
  BY DEF RejectingGuard
<1>2. p \in DoIf(st, r)
  BY <1>1 DEF Do
<1>3. p = r /\ Outcome(st.c, r.mem).no
  BY <1>1, <1>2, IfGood
<1>. DEFINE m == r.mem  s == NewScope
<1>4. st.c \in Conds /\ st.c.k # "nil"
  BY <1>1, IfParts DEF Leaves
<1>5. s \in ScopeType /\ Sound(s, m)
  BY DEF NewScope, ScopeType, NilState, Sound, Vouched, AliasHolds, ErrorHolds, StateHolds
<1>6. \A c \in Conds : c.k # "nil" => GuardHolds(NilGuards(c, s), Outcome(c, m), s, m)
  <2>. HIDE DEF s, m
  <2>. QED
    BY <1>5, GuardsHold
<1>7. Vouched(NilGuards(st.c, s).f, s, m)
  BY <1>3, <1>4, <1>6 DEF GuardHolds
<1>8. PICK q \in NilGuards(st.c, s).f : Len(q) = 2 /\ q[1] = Recv /\ q[2] = f
  BY <1>1 DEF RejectingGuard
<1>9. Clear(q, s) /\ Meaning(q, s, m) # Nil
  BY <1>7, <1>8 DEF Vouched
<1>10. q \in Expr
  BY <1>9 DEF Clear
<1>11. f \in Slots
  <2>1. \A i \in 2..Len(q) : q[i] \in Slots
    BY <1>10 DEF Expr
  <2>2. 2 \in 2..Len(q)
    BY <1>8
  <2>. QED
    BY <1>8, <2>1, <2>2
<1>12. Rest(q, s) = <<f>>
  <2>1. q \in Seq(Locals \cup Fields \cup {Star}) /\ q # <<>> /\ q[1] \in Locals
    BY <1>10 DEF Expr, Path
  <2>2. Root(q[1], s) = <<q[1]>>
    BY <2>1 DEF Root, NewScope, NoPath
  <2>3. Len(<<q[1]>>) = 1
    OBVIOUS
  <2>4. Rest(q, s) = SubSeq(q, 2, 2)
    BY <1>8, <2>2, <2>3 DEF Rest
  <2>5. SubSeq(q, 2, 2) = <<q[2]>>
    BY ONLY <1>8, <2>1, SecondAlone
  <2>. QED
    BY <1>8, <2>4, <2>5
<1>13. EvalFrom(m.env[Recv], <<f>>, m) # Nil
  BY <1>8, <1>9, <1>12 DEF Meaning
<1>14. m.env[Recv] = m.env[Caller]
  BY DEF Good
<1>. QED
  BY <1>3, <1>11, <1>13, <1>14, SelectsOne DEF IsSet

-----------------------------------------------------------------------------
(* The executions of a body.                                               *)

\* The fields that some guard of the body rejects and nothing writes.
Guarded(b) == (UNION {RejectingGuard(b[i]) : i \in DOMAIN b}) \ WrittenReceiverFields(b)

\* An execution that goes on has passed every guard, and one that has returned a
\* nil error assumed to be none all there will be; one that has returned another
\* has passed those before the first such return.
Passed(b, r) ==
    /\ r \in Runs /\ r.due \subseteq WrittenReceiverFields(b)
    /\ r.mem.env[Recv] = r.mem.env[Caller]
    /\ r.how \in {"on", "assumed"} => \A f \in Guarded(b) : f \in Slots /\ IsSet(f, r.mem)
    /\ r.how = "nil" => /\ FirstNilErrorReturn(b) <= Len(b)
                        /\ \A f \in ValidatedReceiverFields(b) : f \in Slots /\ IsSet(f, r.mem)

Inv == BodyTyped /\ (~Poisoned(body) => Passed(body, run))

LEMMA GuardedIs ==
    ASSUME NEW b, NEW f
    PROVE  f \in Guarded(b) <=> /\ \E i \in DOMAIN b : f \in RejectingGuard(b[i])
                               /\ f \notin WrittenReceiverFields(b)
<1>1. f \in UNION {RejectingGuard(b[i]) : i \in DOMAIN b} <=> \E i \in DOMAIN b : f \in RejectingGuard(b[i])
  OBVIOUS
<1>. QED
  BY <1>1 DEF Guarded

\* The fact names fields that some guard rejects.
LEMMA ValidatedAreGuarded ==
    ASSUME NEW b \in Seq(Stmts)
    PROVE  ValidatedReceiverFields(b) \subseteq Guarded(b)
<1>. DEFINE n == FirstNilErrorReturn(b)
<1>1. Len(b) \in Nat /\ DOMAIN b = 1..Len(b) /\ NilReturns(b) \in SUBSET Nat
  BY DEF NilReturns
<1>2. n \in 1..Len(b) + 1
  <2>1. CASE NilReturns(b) = {}
    BY <1>1, <2>1 DEF FirstNilErrorReturn, NilReturns
  <2>2. CASE NilReturns(b) # {}
    <3>1. PICK i : IsFirst(NilReturns(b), i)
      BY <1>1, <2>2, SomeFirst
    <3>. QED
      BY <1>1, <3>1, FirstNilErrorReturnIs DEF NilReturns, IsFirst
  <2>. QED
    BY <2>1, <2>2
<1>. HIDE DEF n
<1>3. \A i \in 1..n - 1 : i \in DOMAIN b
  BY <1>1, <1>2
<1>. QED
  BY <1>3 DEF ValidatedReceiverFields, Guarded, n

\* A nil error that the last statement may return is one of the body's.
LEMMA ReturnsAtLast ==
    ASSUME NEW b \in Seq(Stmts), NEW st \in Stmts, ReachesNil(st)
    PROVE  FirstNilErrorReturn(Append(b, st)) \in 1..Len(b) + 1
<1>. DEFINE c == Append(b, st)
<1>1. /\ c \in Seq(Stmts) /\ DOMAIN c = 1..Len(b) + 1 /\ Len(b) \in Nat
      /\ Len(b) + 1 \in DOMAIN c /\ c[Len(b) + 1] = st
  OBVIOUS
<1>2. NilReturns(c) \in SUBSET Nat /\ Len(b) + 1 \in NilReturns(c)
  BY <1>1 DEF NilReturns
<1>3. PICK i : IsFirst(NilReturns(c), i)
  BY <1>2, SomeFirst
<1>4. FirstNilErrorReturn(c) = i
  BY <1>1, <1>3, FirstNilErrorReturnIs
<1>. QED
  BY <1>1, <1>3, <1>4 DEF NilReturns, IsFirst

\* The fields the fact names are proved before the last statement.
LEMMA ProvedBefore ==
    ASSUME NEW b \in Seq(Stmts), NEW st \in Stmts, ReachesNil(st),
           NEW f \in ValidatedReceiverFields(Append(b, st))
    PROVE  f \in Guarded(b) \ WrittenReceiverFields(Append(b, st))
<1>. DEFINE c == Append(b, st)
            n == FirstNilErrorReturn(c)
<1>1. n \in 1..Len(b) + 1 /\ Len(b) \in Nat
  BY ReturnsAtLast
<1>2. \A i \in 1..n - 1 : i \in DOMAIN b /\ c[i] = b[i]
  <2>1. \A i \in 1..Len(b) : i \in DOMAIN b /\ c[i] = b[i]
    OBVIOUS
  <2>2. 1..n - 1 \subseteq 1..Len(b)
    BY <1>1
  <2>. QED
    BY <2>1, <2>2
<1>3. f \in (UNION {RejectingGuard(c[i]) : i \in 1..n - 1}) \ WrittenReceiverFields(c)
  BY DEF ValidatedReceiverFields
<1>. HIDE DEF c, n
<1>4. \E i \in DOMAIN b : f \in RejectingGuard(b[i])
  BY <1>2, <1>3
<1>5. WrittenReceiverFields(b) \subseteq WrittenReceiverFields(c)
  BY WithdrawnStays DEF c
<1>. QED
  <2>1. f \notin WrittenReceiverFields(c) /\ f \notin WrittenReceiverFields(b)
    BY <1>3, <1>5
  <2>2. f \in Guarded(b)
    BY <1>4, <2>1, GuardedIs
  <2>. QED
    BY <2>1, <2>2 DEF c

\* What is in a statement is simple, or the statement itself.
LEMMA InsideIsSimple ==
    ASSUME NEW st, IsStatement(st), NEW s \in Inside(st)
    PROVE  IsSimple(s) \/ (s = st /\ st.op \in {"if", "for"})
<1>1. ASSUME NEW b, Within(b, st), NEW t \in ToSet(b) PROVE IsSimple(t)
  <2>1. PICK i \in DOMAIN b : t = b[i]
    BY DEF ToSet
  <2>. QED
    BY <1>1, <2>1, BlockParts
<1>2. CASE st.op = "if"
  <2>1. Inside(st) = {st} \cup UNION {ToSet(b) : b \in {st.init, st.then, st.els}}
    BY <1>2, Zenon DEF Inside
  <2>2. Within(st.init, st) /\ Within(st.then, st) /\ Within(st.els, st)
    BY <1>2, IfParts
  <2>3. s = st \/ s \in ToSet(st.init) \/ s \in ToSet(st.then) \/ s \in ToSet(st.els)
    BY <2>1
  <2>. QED
    BY <1>1, <1>2, <2>2, <2>3
<1>3. CASE st.op = "for"
  <2>1. Inside(st) = {st} \cup ToSet(st.body)
    <3>1. st.op # "if"
      BY <1>3
    <3>. QED
      BY <1>3, <3>1, Zenon DEF Inside
  <2>. QED
    BY <1>1, <1>3, <2>1, ForParts
<1>4. CASE st.op \notin {"if", "for"}
  BY <1>4 DEF Inside, IsStatement
<1>. QED
  BY <1>2, <1>3, <1>4

LEMMA WritesSlots ==
    ASSUME NEW st, IsStatement(st), NEW s \in Inside(st), s.op \in {"write", "defer"}
    PROVE  s.f \in Slots
  BY InsideIsSimple DEF IsSimple

LEMMA CallsSayWhether ==
    ASSUME NEW st, IsStatement(st)
    PROVE  \A s \in Inside(st) : s.op = "call" => s.reaches \in BOOLEAN
  BY InsideIsSimple DEF IsSimple

\* Only the fields that the body writes are written by a statement of it.
LEMMA BodyLeaves ==
    ASSUME NEW b \in Seq(Stmts), NEW st \in Stmts, ~Poisoned(Append(b, st)),
           HasCopyWrite(st) => \A s \in Inside(st) : s.op # "copy"
    PROVE  Leaves(st, WrittenReceiverFields(Append(b, st)))
<1>. DEFINE c == Append(b, st)
<1>1. IsStatement(st)
  BY ValidatorAssumption
<1>2. Inside(st) \subseteq AllInside(c)
  <2>1. Len(b) + 1 \in DOMAIN c /\ c[Len(b) + 1] = st
    OBVIOUS
  <2>. HIDE DEF c
  <2>. QED
    BY <2>1 DEF AllInside
<1>3. WrittenReceiverFields(c) \in SUBSET Slots
  <2>1. \A i \in DOMAIN c : IsStatement(c[i])
    BY ValidatorAssumption
  <2>. HIDE DEF c
  <2>2. ASSUME NEW s \in AllInside(c), s.op \in {"write", "defer"} PROVE s.f \in Slots
    <3>1. PICK i \in DOMAIN c : s \in Inside(c[i])
      BY <2>2 DEF AllInside
    <3>. QED
      BY <2>1, <2>2, <3>1, WritesSlots
  <2>. QED
    BY <2>2 DEF WrittenReceiverFields
<1>4. \A s \in Inside(st) :
         /\ s.op # "rebind" /\ ~(s.op = "call" /\ s.reaches)
         /\ s.op \in {"write", "defer"} => s.f \in WrittenReceiverFields(c)
  <2>. HIDE DEF c
  <2>. QED
    BY <1>2 DEF Poisoned, WrittenReceiverFields, c
<1>5. \A s \in Inside(st) : s.op = "call" => s.reaches = FALSE
  BY <1>1, <1>4, CallsSayWhether
<1>. QED
  BY <1>1, <1>3, <1>4, <1>5 DEF Leaves

\* The execution goes on with the statement that is added.
LEMMA ExecutedPasses ==
    ASSUME Wild = {}, NEW b \in Seq(Stmts), NEW st \in Stmts, ~Poisoned(Append(b, st)), NEW r, Passed(b, r), r.how = "on",
           HasCopyWrite(st) => /\ r.mem.env[Copy] # r.mem.env[Caller]
                               /\ \A s \in Inside(st) : s.op # "copy",
           NEW p \in Do(st, r), Rejects(st, p)
    PROVE  Passed(Append(b, st), p)
<1>. DEFINE c == Append(b, st)
            F == WrittenReceiverFields(c)
            G == Guarded(b) \ F
<1>1. Leaves(st, F)
  BY BodyLeaves
<1>2. WrittenReceiverFields(b) \subseteq F
  BY WithdrawnStays
<1>3. DOMAIN c = 1..Len(b) + 1 /\ DOMAIN b = 1..Len(b) /\ Len(b) \in Nat /\ Len(c) = Len(b) + 1
      /\ c[Len(b) + 1] = st /\ \A i \in 1..Len(b) : c[i] = b[i]
  OBVIOUS
<1>. HIDE DEF c, F
<1>4. Apart(G, F) /\ \A f \in G : f \in Slots /\ IsSet(f, r.mem)
  BY DEF Passed, Apart
<1>. HIDE DEF G
<1>5. r \in Good(st, F, G)
  BY <1>2, <1>4 DEF Passed, Good
<1>6. p \in Good(st, F, G)
  BY <1>1, <1>4, <1>5, DoGood
<1>7. p \in Runs /\ p.due \subseteq F /\ p.mem.env[Recv] = p.mem.env[Caller]
      /\ (\A f \in G : IsSet(f, p.mem)) /\ (p.how = "nil" => ReachesNil(st))
  BY <1>6 DEF Good
<1>8. ASSUME p.how \in {"on", "assumed"}, NEW f \in Guarded(c) PROVE f \in Slots /\ IsSet(f, p.mem)
  <2>1. PICK i \in DOMAIN c : f \in RejectingGuard(c[i])
    BY <1>8, GuardedIs
  <2>2. f \notin F
    BY <1>8, GuardedIs DEF F
  <2>3. CASE i = Len(b) + 1
    <3>1. f \in RejectingGuard(st)
      BY <1>3, <2>1, <2>3
    <3>2. p.how = "on"
      BY <1>8, <3>1 DEF Rejects
    <3>. QED
      BY <1>1, <1>4, <1>5, <3>1, <3>2, GuardPassed
  <2>4. CASE i # Len(b) + 1
    <3>1. i \in DOMAIN b /\ c[i] = b[i]
      BY <1>3, <2>4
    <3>2. f \in G
      BY <1>2, <2>1, <2>2, <3>1, GuardedIs DEF G
    <3>. QED
      BY <1>4, <1>7, <3>2
  <2>. QED
    BY <2>3, <2>4
<1>9. ASSUME p.how = "nil"
      PROVE  /\ FirstNilErrorReturn(c) <= Len(c)
             /\ \A f \in ValidatedReceiverFields(c) : f \in Slots /\ IsSet(f, p.mem)
  <2>1. ReachesNil(st)
    BY <1>7, <1>9
  <2>2. FirstNilErrorReturn(c) <= Len(c)
    BY <1>3, <2>1, ReturnsAtLast DEF c
  <2>3. \A f \in ValidatedReceiverFields(c) : f \in G
    BY <2>1, ProvedBefore DEF c, F, G
  <2>. QED
    BY <1>4, <1>7, <2>2, <2>3
<1>. QED
  BY <1>7, <1>8, <1>9 DEF Passed, c, F

\* An execution that has ended stays as it is.
LEMMA EndedPasses ==
    ASSUME Wild = {}, NEW b \in Seq(Stmts), NEW st \in Stmts, NEW r, Passed(b, r), r.how # "on",
           Rejects(st, r)
    PROVE  Passed(Append(b, st), r)
<1>1. WrittenReceiverFields(b) \subseteq WrittenReceiverFields(Append(b, st))
  BY WithdrawnStays
<1>2. ASSUME r.how = "nil"
      PROVE  /\ FirstNilErrorReturn(Append(b, st)) <= Len(Append(b, st))
             /\ \A f \in ValidatedReceiverFields(Append(b, st)) : f \in Slots /\ IsSet(f, r.mem)
  <2>1. /\ FirstNilErrorReturn(b) <= Len(b)
        /\ \A f \in ValidatedReceiverFields(b) : f \in Slots /\ IsSet(f, r.mem)
    BY <1>2 DEF Passed
  <2>2. FirstNilErrorReturn(Append(b, st)) \in 1..Len(b) /\ Len(Append(b, st)) = Len(b) + 1 /\ Len(b) \in Nat
    BY <2>1, FirstNilErrorReturnStays
  <2>3. ValidatedReceiverFields(Append(b, st)) \subseteq ValidatedReceiverFields(b)
    BY <2>1, FieldsSettled
  <2>. QED
    BY <2>1, <2>2, <2>3
<1>3. ASSUME r.how = "assumed", NEW f \in Guarded(Append(b, st)) PROVE f \in Slots /\ IsSet(f, r.mem)
  <2>. DEFINE c == Append(b, st)
  <2>1. \A i \in DOMAIN c : (i \in DOMAIN b /\ c[i] = b[i]) \/ c[i] = st
    OBVIOUS
  <2>2. RejectingGuard(st) = {}
    BY <1>3 DEF Rejects
  <2>3. f \in Guarded(b)
    <3>1. (\E i \in DOMAIN c : f \in RejectingGuard(c[i])) /\ f \notin WrittenReceiverFields(c)
      BY <1>3, GuardedIs
    <3>. HIDE DEF c
    <3>2. \E i \in DOMAIN b : f \in RejectingGuard(b[i])
      BY <2>1, <2>2, <3>1
    <3>. QED
      BY <1>1, <3>1, <3>2, GuardedIs DEF c
  <2>. QED
    BY <1>3, <2>3 DEF Passed
<1>. QED
  BY <1>1, <1>2, <1>3 DEF Passed

LEMMA InvStarts == Init => Inv
<1>. SUFFICES ASSUME Init PROVE Inv
  OBVIOUS
<1>1. PICK o \in Objects \cup {Nil}, h \in [Objects -> [Slots -> Objects \cup {Nil}]] :
         run = [mem |-> Collect([env    |-> [l \in Locals |-> IF l \in {Recv, Caller} THEN o ELSE Nil],
                                 heap   |-> h,
                                 origin |-> {}]),
                due |-> {}, how |-> "on"]
  BY DEF Init
<1>. DEFINE e == [l \in Locals |-> IF l \in {Recv, Caller} THEN o ELSE Nil]
            m == [env |-> e, heap |-> h, origin |-> {}]
            n == Collect(m)
<1>2. run = [mem |-> n, due |-> {}, how |-> "on"]
  BY <1>1
<1>3. e \in [Locals -> Value] /\ e[Recv] = e[Caller]
  BY ValidatorAssumption DEF Value
<1>. HIDE DEF e
<1>4. m \in MemoryType /\ m.env = e
  BY <1>3 DEF MemoryType
<1>. HIDE DEF m
<1>5. n \in MemoryType /\ n.env = m.env
  BY <1>4, CollectAgrees DEF Agrees
<1>. HIDE DEF n
<1>6. run \in Runs /\ run.mem = n /\ run.due = {} /\ run.how = "on"
  BY <1>2, <1>5 DEF Runs, Endings
<1>7. body = <<>> /\ BodyTyped /\ Guarded(body) = {}
  BY DEF Init, BodyTyped, Guarded
<1>. QED
  BY <1>3, <1>4, <1>5, <1>6, <1>7 DEF Inv, Passed

LEMMA InvGoesOn ==
    ASSUME Wild = {}, Inv, NEW st \in Stmts, Extend(st)
    PROVE  Inv'
<1>1. body \in Seq(Stmts) /\ body' = Append(body, st) /\ body' \in Seq(Stmts)
  BY DEF Inv, BodyTyped, Extend
<1>2. ASSUME ~Poisoned(body') PROVE Passed(body', run')
  <2>1. Passed(body, run)
    BY <1>1, <1>2, WithdrawnStays DEF Inv
  <2>2. CASE run.how = "on"
    <3>1. run' \in Do(st, run)
      BY <2>2 DEF Extend
    <3>2. HasCopyWrite(st) => /\ run.mem.env[Copy] # run.mem.env[Caller]
                              /\ \A s \in Inside(st) : s.op # "copy"
      BY DEF Extend, Follows, HasCopyWrite
    <3>3. Rejects(st, run')
      BY DEF Extend
    <3>. QED
      BY <1>1, <1>2, <2>1, <2>2, <3>1, <3>2, <3>3, ExecutedPasses
  <2>3. CASE run.how # "on"
    <3>1. run' = run /\ Rejects(st, run')
      BY <2>3 DEF Extend
    <3>2. Rejects(st, run)
      BY <3>1 DEF Rejects
    <3>. QED
      BY <1>1, <2>1, <2>3, <3>1, <3>2, EndedPasses
  <2>. QED
    BY <2>2, <2>3
<1>. QED
  BY <1>1, <1>2 DEF Inv, BodyTyped

\* Where no copy of the receiver is written, no call in a return clears a field,
\* and no guard, nor anything in front of one, returns a nil error that the code
\* takes for none, the fields that the fact of a validator names are set in the
\* caller's object when it has returned a nil error (validatedFields).
THEOREM NilErrorIsProof == Wild = {} => (Spec => []NilErrorMeansSet)
<1>. SUFFICES ASSUME Wild = {} PROVE Spec => []NilErrorMeansSet
  OBVIOUS
<1>1. Init => Inv
  BY InvStarts
<1>2. Inv /\ [Next]_vars => Inv'
  <2>1. ASSUME Inv, UNCHANGED vars PROVE Inv'
    BY <2>1 DEF Inv, BodyTyped, vars
  <2>. QED
    BY <2>1, InvGoesOn DEF Next
<1>3. Inv => NilErrorMeansSet
  <2>. SUFFICES ASSUME Inv, run.how \in {"nil", "assumed"}, NEW f \in ValidatedReceiverFields(body)
                PROVE  Eval(<<Caller, f>>, run.mem) # Nil
    BY DEF NilErrorMeansSet
  <2>1. ~Poisoned(body)
    BY DEF ValidatedReceiverFields
  <2>2. f \in Slots /\ Deref(run.mem.env[Caller], f, run.mem) # Nil
    BY <2>1, ValidatedAreGuarded DEF Inv, BodyTyped, Passed, IsSet
  <2>3. <<Caller, f>>[1] = Caller /\ Tail(<<Caller, f>>) = <<f>>
    OBVIOUS
  <2>. QED
    BY <2>2, <2>3, SelectsOne DEF Eval
<1>. QED
  BY <1>1, <1>2, <1>3, PTL DEF Spec
=============================================================================
