-------------------------------- MODULE Walk --------------------------------
(***************************************************************************)
(* nilfield's walk over one function body (analyzer/walk.go), run in step  *)
(* with an execution of that body.                                         *)
(*                                                                         *)
(* The walker visits every branch in source order, carrying a scope (sc).  *)
(* The execution takes one of them: mem is its memory while it is at the   *)
(* place being walked, and Dead while it is elsewhere (in another branch,  *)
(* or stopped).  The program is not fixed: each step adds a simple         *)
(* statement of Stmts, or opens or closes a compound one, so a behaviour   *)
(* is a function body of any length, with statements nested up to MaxDepth *)
(* deep, together with one of its executions.  Only a loop body is chosen  *)
(* at once, because it is executed many times.                             *)
(*                                                                         *)
(* The walk is a heuristic, not a verifier.  Wild lists what the programs  *)
(* of a run do that the walk does not follow; without it they keep to what *)
(* it does, and then its proofs must be true.                              *)
(***************************************************************************)
EXTENDS Statements

CONSTANTS
    Languages,  \* what function bodies are built from, see Language
    MaxSize,    \* how many statements the blocks of one statement hold together
    Wild,       \* see Follows and FollowsLoop
    Dead        \* the execution is not here

VARIABLES
    lang,    \* the language of the body, which never changes
    sc,      \* the scope at the place being walked
    mem,     \* the memory of the execution, or Dead
    frames,  \* the statements around that place, the innermost last
    fault    \* the dereference the last step panicked at, if any

vars == <<lang, sc, mem, frames, fault>>

OtherKinds == {"block", "select", "typeswitch", "lit", "go"}

\* The head of a range has a variable, that of a for a post statement.
IsRange(h) == "var" \in DOMAIN h

\* The simple statements of a language, wherever they stand.
StatementsOf(l) ==
    l.stmts \cup {h.init : h \in l.ifs \cup l.loops \cup l.switches} \cup {h.post : h \in {g \in l.loops : ~IsRange(g)}}
    \cup (UNION {ToSet(b) : b \in l.bodies}) \cup l.comms

\* It leaves a nil the function shows.
MakesNil(st) ==
    \/ st.op = "set" /\ st.rhs.k \in {"nil", "element", "callif"}
    \/ st.op = "tuple" /\ st.nilable \cap DOMAIN st.lhs # {}

\* The expressions the program uses are closed under what they go through.  In a
\* method, only the receiver is watched.
Language(l) ==
    /\ l.params \cup l.declared \cup l.addressed \subseteq Locals
    /\ l.names \subseteq Typed /\ \A e \in l.names : Through(e) \subseteq l.names
    /\ \A st \in StatementsOf(l) :
          IsStatement(st) /\ \A t \in Targets(st) : Proper(t) \subseteq l.names
    /\ \A h \in l.ifs \cup l.loops : h.cond \in Conds /\ h.cond.k # "nil"
    /\ \/ l.receiver = NoPath
       \/ /\ l.receiver \in {<<r>> : r \in l.params \ (Errors \cup Ifaces)}
          /\ l.declared = {} /\ \A st \in StatementsOf(l) : ~MakesNil(st)
    /\ l.slots \subseteq Slots /\ l.compounds \subseteq OtherKinds /\ l.depth \in Nat

ASSUME WalkAssumption == MaxSize \in Nat /\ \A l \in Languages : Language(l)

Stmts     == lang.stmts      \* the simple statements
IfHeads   == lang.ifs        \* [init, cond]: if init; cond
LoopHeads == lang.loops      \* [init, cond, post] of a for, [init, cond, var] of a range
Bodies    == lang.bodies     \* the loop bodies: sequences of simple statements
Switches  == lang.switches   \* [init, tag] of a switch, which is NoPath where there is none
Cases     == lang.cases      \* the expression lists of its clauses
Comms     == lang.comms      \* the communications of a select
Compounds == lang.compounds  \* the other compound statements, of OtherKinds
Exits     == lang.exits      \* the ways to leave a block: "return", "break", "fallthrough"
Names     == lang.names      \* the expressions the program uses, closed under prefixes
Params    == lang.params     \* the locals that may hold anything at the start
Receiver  == lang.receiver   \* the receiver of a method, which may be nil, or NoPath
Declared  == lang.declared   \* the locals the function may declare with var
Addressed == lang.addressed  \* the locals whose address is taken somewhere
MaxDepth  == lang.depth      \* how deep statements nest

-----------------------------------------------------------------------------
(* Frames.                                                                 *)

\* Statements can be added to these; the others are between two blocks.
BlockKinds == {"then", "else", "block", "clause", "default", "comm", "lit", "go"}

\* A slip: they keep it.
OpenedAsWas(taken) == sc

\* The names whose address a compound statement takes lose their nil state at
\* once; the statement takes some of them at most.
Opened(taken) == DropNil(sc, taken)

NewFrame(kind, s, taken) ==
    [kind  |-> kind,     \* which statement, and which part of it
     outer |-> s,        \* the scope it was reached with, as changed so far
     inner |-> s,        \* the clone its parts are walked from
     head  |-> Skip,     \* the IfHead or LoopHead, or the tag of a switch
     g     |-> NoGuard,  \* what its condition, or the clause's, proves
     wr    |-> {},       \* the targets written in this block
     all   |-> {},       \* and in the blocks before it
     size  |-> 0,        \* how many statements there are in all of them
     ended |-> "no",     \* how the block was left by its last statement
     first |-> "no",     \* and how the then block was
     pend  |-> Dead,     \* the execution waits for a later part
     out   |-> Dead,     \* the execution is past the statement
     fall  |-> Dead,     \* the execution falls through to the next clause
     excl  |-> {},       \* the paths the clauses so far exclude as nil
     chain |-> {},       \* those of the clauses before the first that does not exit
     open  |-> TRUE,     \* every clause so far exits
     body  |-> <<>>, trail |-> <<>>, pc |-> 0,  \* of a loop
     taken |-> taken,    \* the locals whose address it may take
     saved |-> <<>>]     \* the locals the head shadows, as they were

Top == Last(frames)

\* What a statement takes the address of, the one around it takes the address of.
Takable == IF frames = <<>> THEN Addressed ELSE Top.taken

\* Once the execution has stopped, nothing the walk goes on to claim is about it.
Running ==
    mem # Dead \/ \E k \in DOMAIN frames :
                     {frames[k].pend, frames[k].out, frames[k].fall} # {Dead}

InBlock == frames # <<>> => Top.kind \in BlockKinds /\ Top.ended = "no"
Room    == frames # <<>> => Top.size < MaxSize

\* A statement can start here; an else-if holds exactly one if statement.
CanOpen == Len(frames) < MaxDepth /\ InBlock /\ Room

Replace(fr) == [frames EXCEPT ![Len(frames)] = fr]

\* blockExits, of the block whose last statement is ended.
Leaving(ended) == ended \in {"return", "break"}

Wrote(targets) ==
    IF frames = <<>> THEN frames ELSE Replace([Top EXCEPT !.wr = @ \cup targets, !.size = @ + 1])

\* The statement is done: what it wrote is written in the block around it.
Popped(targets) ==
    LET rest == Front(frames)
    IN  IF rest = <<>> THEN rest
        ELSE [rest EXCEPT ![Len(rest)].wr = @ \cup targets,
                          ![Len(rest)].size = @ + 1,
                          ![Len(rest)].ended = IF Last(rest).kind = "elseif" THEN "if" ELSE @]

\* A local declared in a head is another variable of the same name.
Shadowed(st) == [l \in {t[1] : t \in Targets(st)} |-> mem.env[l]]

Restored(fr, m) ==
    IF m = Dead THEN Dead
    ELSE Collect([m EXCEPT !.env = [l \in Locals |-> IF l \in DOMAIN fr.saved THEN fr.saved[l] ELSE @[l]],
                           !.origin = @ \ DOMAIN fr.saved])

Resumed(fr, m) ==
    Restored(fr, CHOOSE n \in {m, fr.pend, fr.out} : n # Dead \/ {m, fr.pend, fr.out} = {Dead})

\* break, or return from a closure called on the spot: the memory goes on
\* after the statement it leaves.  A return from the function goes nowhere.
Left(how, m, fs) ==
    LET kinds == IF how = "break" THEN {"loop", "clause", "default", "comm"} ELSE {"lit", "go"}
        left  == {i \in DOMAIN fs : fs[i].kind \in kinds}
        to    == CHOOSE i \in left : \A j \in left : j <= i
        back  == FoldRight(LAMBDA fr, n : Restored(fr, n), SubSeq(fs, to + 1, Len(fs)), m)
    IN  IF how = "fallthrough" THEN [fs EXCEPT ![Len(fs)].fall = m]
        ELSE IF left = {} \/ fs[to].kind = "go" THEN fs
        ELSE [fs EXCEPT ![to].out = back]

-----------------------------------------------------------------------------
(* One step of the execution.                                              *)

NoFault == [base |-> NoPath, path |-> NoPath, reported |-> TRUE, marked |-> FALSE, visible |-> FALSE]

\* checkExpr reports the base it walks, or does not; in the probe of a method for
\* its receiver it marks it, or does not.
FaultAt(b, checks, s, m) ==
    [base     |-> b,
     path     |-> Canonical(b, s.alias),
     reported |-> \E ch \in checks : ch.base = b /\ IsReported(ch, s),
     marked   |-> \E ch \in checks : ch.base = b /\ MarksReceiver(ch, s, Receiver),
     visible  |-> IsBare(b) /\ b[1] \in m.origin]

\* The execution, at m, runs st; s is the scope the walker checks st with.
Run(st, s, m, fs) ==
    IF m = Dead THEN mem' = Dead /\ frames' = fs /\ fault' = NoFault
    ELSE \/ \E b \in Faults(st, s, m) :
              mem' = Dead /\ frames' = fs /\ fault' = FaultAt(b, StmtChecks(st, s), s, m)
         \/ \E n \in After(st, s, m) : mem' = n /\ frames' = fs /\ fault' = NoFault
         \/ Leaves(st, m) /\ st.how # "continue" /\ mem' = Dead /\ frames' = Left(st.how, m, fs) /\ fault' = NoFault
         \/ Stops(st, m) /\ mem' = Dead /\ frames' = fs /\ fault' = NoFault

\* It evaluates a condition with these outcomes and goes on with yes or with no.
Decide(out, checks, s, m, yes, no) ==
    IF m = Dead THEN mem' = Dead /\ frames' = no /\ fault' = NoFault
    ELSE \/ \E b \in out.dies :
              mem' = Dead /\ frames' = yes /\ fault' = FaultAt(b, checks, s, m)
         \/ out.yes /\ mem' = m /\ frames' = yes /\ fault' = NoFault
         \/ out.no /\ mem' = Dead /\ frames' = no /\ fault' = NoFault

-----------------------------------------------------------------------------
(* What the walk follows.                                                  *)

\* The paths s holds something about, besides the state of its locals.
Known(s) ==
    (s.proven \cup UNION {s.errProof[l] \cup {s.alias[l]} : l \in Locals}) \ {NoPath}

\* No two names of the program, and no path something is known of, reach the
\* object a field is written in, unless the walk knows them to be the same path
\* (share); nothing is known of a path that goes on from what is written through
\* a dereference, or was written through one (star); a local rebound in a nested block
\* is no alias and no checked error around it (rebind), and a field is written
\* under the path it has around the block (resolve); a closure writes no local
\* or field of its function (closure); a nil pointer put into an interface is
\* known to be nil (iface); nothing is assigned to itself (self); an interface
\* that holds a nil pointer is not compared with nil where that proves it (typed);
\* a receiver is not copied in a nested block, nor rebound while there is a copy
\* (receiver); and a local handed out by address is one nothing but its nil state
\* is known of (addr).
Follows(st, s, m) ==
    /\ \A t \in Targets(st) :
          /\ "share" \notin Wild /\ ~IsBare(t) /\ m # Dead =>
                \A e \in Names \cup UNION {Through(Spelled(k, s.alias)) : k \in Known(s)} :
                   Eval(e, m) = Eval(Front(t), m) /\ Eval(e, m) \in Objects
                      => Canonical(e, s.alias) = Canonical(Front(t), s.alias)
          /\ "receiver" \notin Wild /\ t = Receiver => \A l \in Locals : s.alias[l] # t
          /\ "receiver" \notin Wild /\ IsBare(t) /\ frames # <<>> =>
                Receiver = NoPath \/ Effect(st, s).alias[t[1]] # Receiver
          /\ "star" \notin Wild =>
                LET written == IF IsBare(t) THEN t ELSE Canonical(t, s.alias)
                IN  \A k \in Known(s) :
                       IsPrefix(written, k) => /\ Last(t) # Star
                                               /\ \A j \in Len(written) + 1..Len(k) : k[j] # Star
          /\ \A i \in DOMAIN frames :
                LET around == frames[i].outer
                IN  /\ "rebind" \notin Wild /\ IsBare(t) =>
                          around.alias[t[1]] = NoPath /\ around.errProof[t[1]] = {}
                    /\ "resolve" \notin Wild /\ ~IsBare(t) =>
                          Canonical(t, around.alias) = Canonical(t, s.alias)
                    /\ "closure" \notin Wild => frames[i].kind \notin {"lit", "go"}
    /\ st.op = "set" /\ st.rhs.k = "path" /\ "iface" \notin Wild /\ m # Dead =>
          ~(Converted(st.lhs, st.rhs.e, m) = TypedNil /\ NilOriginState(st.lhs, st.rhs, s) = "unknown")
    /\ st.op = "set" /\ st.rhs.k = "path" /\ "self" \notin Wild => st.rhs.e # st.lhs
    /\ st.op \in {"assert", "guard"} /\ "typed" \notin Wild /\ m # Dead =>
          \A l \in m.origin : m.env[l] = TypedNil =>
             <<l>> \notin Effect(st, s).proven \cup UNION {ch.extra : ch \in StmtChecks(st, s)}
    /\ st.op = "addr" /\ "addr" \notin Wild =>
          \A z \in {s} \cup {frames[i].outer : i \in DOMAIN frames} :
             /\ z.alias[st.x] = NoPath /\ z.errProof[st.x] = {}
             /\ \A k \in Known(z) : k[1] # st.x

-----------------------------------------------------------------------------
(* Simple statements.                                                      *)

\* A clause is around, and no closure in between (loops have bodies of their own).
CanBreak == \E i \in DOMAIN frames :
               /\ frames[i].kind \in {"clause", "default", "comm"}
               /\ \A j \in i..Len(frames) : frames[j].kind \notin {"lit", "go"}

\* walkStmt of a simple statement.
Simple(st) ==
    /\ Running /\ InBlock /\ Room /\ Follows(st, sc, mem)
    /\ st.op = "guard" /\ st.how # "return" => st.how = "break" /\ CanBreak
    /\ st.op = "addr" => \A i \in DOMAIN frames : st.x \in frames[i].taken
    /\ sc' = Effect(st, sc)
    /\ Run(st, sc, mem, Wrote(Targets(st)))
    /\ UNCHANGED lang

\* return, a call that never returns, break or fallthrough, last in its block.
Leave(how) ==
    /\ Running /\ InBlock /\ frames # <<>>
    /\ how = "break" => CanBreak
    /\ how = "fallthrough" => Top.kind = "clause"
    /\ LET fs == Replace([Top EXCEPT !.ended = how])
       IN  frames' = IF mem = Dead THEN fs ELSE Left(how, mem, fs)
    /\ mem' = Dead /\ fault' = NoFault /\ UNCHANGED sc
    /\ UNCHANGED lang

-----------------------------------------------------------------------------
(* if                                                                      *)

\* walkIf, up to its condition: the clone, and the init statement.
OpenIf(h) ==
    /\ Running /\ Len(frames) < MaxDepth /\ Room
    /\ frames # <<>> => Top.kind \in BlockKinds \cup {"elseif"} /\ Top.ended = "no"
    /\ Follows(h.init, sc, mem)
    /\ \E taken \in SUBSET Takable :
         LET fr == [NewFrame("if", Opened(taken), taken) EXCEPT
                      !.head = h, !.saved = IF mem = Dead THEN <<>> ELSE Shadowed(h.init)]
         IN  /\ sc' = Effect(h.init, Opened(taken))
             /\ Run(h.init, Opened(taken), mem, Append(frames, fr))
    /\ UNCHANGED lang

\* The condition is checked; the then block is walked with what it proves.
TakeCond ==
    /\ Running /\ frames # <<>> /\ Top.kind = "if"
    /\ LET c  == Top.head.cond
           g  == NilGuards(c, sc)
           fr == [Top EXCEPT !.kind = "then", !.inner = sc, !.g = g]
       IN  /\ sc' = With(sc, g.t)
           /\ Decide(Outcome(c, mem), CondChecks(c, sc), sc, mem,
                     Replace(fr), Replace([fr EXCEPT !.pend = mem]))
    /\ UNCHANGED lang

\* The else block, or the if statement of an else-if, is walked with the opposite.
Else(kind) ==
    /\ Running /\ frames # <<>> /\ Top.kind = "then"
    /\ kind = "elseif" => Len(frames) < MaxDepth
    /\ sc' = With(Top.inner, Top.g.f)
    /\ mem' = Top.pend
    /\ frames' = Replace([Top EXCEPT !.kind = kind, !.first = Top.ended, !.ended = "no",
                                     !.all = Top.wr, !.wr = {}, !.pend = Dead,
                                     !.out = IF mem = Dead THEN @ ELSE mem])
    /\ fault' = NoFault
    /\ UNCHANGED lang

\* Slips: the writes of a branch are not reflected; those of an else-if are not.
AfterIfForgets(fr) == With(fr.outer, IF fr.kind = "then" /\ Leaving(fr.ended) THEN fr.g.f ELSE {})

AfterIfForgetsElseIf(fr) ==
    LET leaves == Leaving(IF fr.kind = "then" THEN fr.ended ELSE fr.first)
    IN  IF leaves THEN With(fr.outer, fr.g.f) ELSE InvalidateWrites(fr.outer, IF fr.kind = "then" THEN fr.wr ELSE fr.all)

\* What walkIf leaves in the scope around it.  A branch that leaves proves the
\* opposite condition, then every branch that does not has its writes reflected.
AfterIf(fr) ==
    LET thenLeaves == Leaving(IF fr.kind = "then" THEN fr.ended ELSE fr.first)
        elseLeaves == fr.kind = "else" /\ Leaving(fr.ended)
        proved     == (IF thenLeaves THEN fr.g.f ELSE {}) \cup (IF elseLeaves THEN fr.g.t ELSE {})
        thenDone   == IF thenLeaves THEN With(fr.outer, proved)
                      ELSE InvalidateWrites(With(fr.outer, proved),
                                            IF fr.kind = "then" THEN fr.wr ELSE fr.all)
    IN  IF fr.kind = "then" \/ elseLeaves THEN thenDone ELSE InvalidateWrites(thenDone, fr.wr)

EndIf ==
    /\ Running /\ frames # <<>>
    /\ Top.kind \in {"then", "else"} \/ (Top.kind = "elseif" /\ Top.ended # "no")
    /\ sc' = AfterIf(Top)
    /\ mem' = Resumed(Top, mem)
    /\ frames' = Popped(Top.all \cup Top.wr \cup Targets(Top.head.init))
    /\ fault' = NoFault
    /\ UNCHANGED lang

-----------------------------------------------------------------------------
(* Blocks, closures and goroutines.                                        *)

\* walkBlock, walkFuncLit of a closure called on the spot, walkGo, and the
\* start of walkTypeSwitch and walkSelect.  The goroutine runs later, when the
\* fields may hold anything; the locals it captured are as they were.
Goroutine(s, m) ==
    {Collect([m EXCEPT !.heap = h]) :
       h \in [Objects -> [Slots -> Objects \cup {Nil}]]}

OpenOther(kind) ==
    /\ Running /\ CanOpen
    /\ kind = "go" /\ "goalias" \notin Wild =>
          \A l \in Locals : LET target == GoroutineScope(sc).alias[l]
                           IN  target = NoPath \/ IsBare(target)
    /\ \E taken \in SUBSET Takable :
         LET s  == Opened(taken)
             fr == NewFrame(kind, s, taken)
         IN  CASE kind \in {"block", "lit"} ->
                    sc' = s /\ UNCHANGED mem /\ frames' = Append(frames, fr)
               [] kind = "go" ->
                    /\ sc' = GoroutineScope(s)
                    /\ IF mem = Dead THEN UNCHANGED mem ELSE mem' \in Goroutine(s, mem)
                    /\ frames' = Append(frames, [fr EXCEPT !.out = mem])
               [] OTHER ->
                    sc' = s /\ mem' = Dead /\ frames' = Append(frames, [fr EXCEPT !.pend = mem])
    /\ fault' = NoFault
    /\ UNCHANGED lang

EndBlock ==
    /\ Running /\ frames # <<>> /\ Top.kind = "block"
    /\ sc' = InvalidateWrites(Top.outer, Top.wr)
    /\ frames' = Popped(Top.wr)
    /\ fault' = NoFault /\ UNCHANGED mem
    /\ UNCHANGED lang

\* What a closure wrote is not reflected; the block around it still counts it.
EndClosure ==
    /\ Running /\ frames # <<>> /\ Top.kind \in {"lit", "go"}
    /\ sc' = Top.outer
    /\ mem' = IF Top.kind = "go" THEN Top.out ELSE Resumed(Top, mem)
    /\ frames' = Popped(Top.wr)
    /\ fault' = NoFault
    /\ UNCHANGED lang

-----------------------------------------------------------------------------
(* switch, select and type switch.                                         *)

\* walkSwitch, up to its tag: the clone, and the init statement.
OpenSwitch(h) ==
    /\ Running /\ CanOpen /\ Follows(h.init, sc, mem)
    /\ \E taken \in SUBSET Takable :
         LET fr == [NewFrame("tag", Opened(taken), taken) EXCEPT
                      !.head = h.tag, !.all = Targets(h.init),
                      !.saved = IF mem = Dead THEN <<>> ELSE Shadowed(h.init)]
         IN  /\ sc' = Effect(h.init, Opened(taken))
             /\ Run(h.init, Opened(taken), mem, Append(frames, fr))
    /\ UNCHANGED lang

\* The tag is checked; the execution waits for its clause.
ReadTag ==
    /\ Running /\ frames # <<>> /\ Top.kind = "tag"
    /\ LET st == [op |-> "read", e |-> Top.head]
           fr == [Top EXCEPT !.kind = "switch", !.inner = sc]
           at == IF mem = Dead THEN {} ELSE Faults(st, sc, mem)
       IN  IF at = {} THEN fault' = NoFault /\ frames' = Replace([fr EXCEPT !.pend = mem])
           ELSE \E b \in at : fault' = FaultAt(b, StmtChecks(st, sc), sc, mem) /\ frames' = Replace(fr)
    /\ mem' = Dead /\ UNCHANGED <<lang, sc>>

\* The expressions of a clause are tried in order; a tag is compared with them,
\* which are nil or any other value.
CaseOutcome(tag, list, m) ==
    LET case(c) == IF tag = NoPath THEN Outcome(c, m)
                   ELSE IF c.k = "nil"
                   THEN [yes |-> Eval(tag, m) = Nil, no |-> Eval(tag, m) # Nil, dies |-> {}]
                   ELSE [yes |-> Eval(tag, m) # Nil, no |-> TRUE, dies |-> {}]
    IN  FoldLeft(LAMBDA o, c : [yes  |-> o.yes \/ (o.no /\ case(c).yes),
                                no   |-> o.no /\ case(c).no,
                                dies |-> o.dies \cup IF o.no THEN case(c).dies ELSE {}],
                 [yes |-> FALSE, no |-> TRUE, dies |-> {}], list)

\* A clause of a switch: checked knowing that the ones before did not match,
\* walked knowing that it did.  An execution that falls through into it skips
\* the test.
OpenClause(list) ==
    /\ Running /\ frames # <<>> /\ Top.kind = "switch"
    /\ \A k \in DOMAIN list : /\ list[k].k = "nil" => Top.head # NoPath
                              /\ Top.head # NoPath => list[k].k \in {"nil", "any"}
    /\ LET s      == With(Top.inner, Top.excl)
           g      == ClauseListGuards(Top.head, list, Top.inner)
           checks == UNION {CondChecks(list[i], s) : i \in DOMAIN list}
           fr     == [Top EXCEPT !.kind = "clause", !.g = g, !.wr = {}, !.ended = "no", !.fall = Dead]
       IN  /\ sc' = With(s, g.t)
           /\ IF Top.fall # Dead
              THEN mem' = Top.fall /\ frames' = Replace(fr) /\ fault' = NoFault
              ELSE Decide(CaseOutcome(Top.head, list, Top.pend), checks, s, Top.pend,
                          Replace([fr EXCEPT !.pend = Dead]), Replace(fr))
    /\ UNCHANGED lang

OpenDefault ==
    /\ Running /\ frames # <<>> /\ Top.kind = "switch"
    /\ sc' = With(Top.inner, Top.excl)
    /\ mem' = IF Top.fall # Dead THEN Top.fall ELSE Top.pend
    /\ frames' = Replace([Top EXCEPT !.kind = "default", !.wr = {}, !.ended = "no",
                                     !.fall = Dead, !.pend = Dead])
    /\ fault' = NoFault
    /\ UNCHANGED lang

\* A clause of a select starts with its communication, one of a type switch
\* does not; any of them may be the one that is executed.  What the
\* communication assigns is a write of the select, but not of the clause's body.
OpenComm(st) ==
    /\ Running /\ frames # <<>> /\ Top.kind \in {"select", "typeswitch"}
    /\ Top.kind = "typeswitch" => st = Skip
    /\ LET s == IF Top.kind = "select" THEN Top.outer ELSE Top.inner
       IN  \E taken \in {TRUE, FALSE} :
             LET fr == [Top EXCEPT !.kind = "comm", !.head = Top.kind, !.wr = {}, !.ended = "no",
                                   !.all = @ \cup Targets(st),
                                   !.pend = IF taken THEN Dead ELSE @]
             IN  /\ Follows(st, s, Top.pend)
                 /\ sc' = Effect(st, s)
                 /\ Run(st, s, IF taken THEN Top.pend ELSE Dead, Replace(fr))
    /\ UNCHANGED lang

\* A slip: a clause proves what follows though one before it did not exit.
ChainedPast(fr, exits) == IF exits THEN fr.chain \cup fr.g.f ELSE fr.chain

\* What the clauses prove after the switch: those before the first that does not exit.
Chained(fr, exits) == IF fr.open /\ exits THEN fr.chain \cup fr.g.f ELSE fr.chain

\* The end of a clause: its writes are reflected unless it exits, and where
\* every clause so far exits the next statement knows it did not match.
EndClause ==
    /\ Running /\ frames # <<>> /\ Top.kind \in {"clause", "default", "comm"}
    /\ LET exits == Leaving(Top.ended)
           fr    == [Top EXCEPT !.outer = IF exits THEN @ ELSE InvalidateWrites(@, Top.wr),
                                !.all = @ \cup Top.wr,
                                !.out = IF mem = Dead THEN @ ELSE mem]
       IN  /\ "clausewrite" \notin Wild /\ ~exits =>
                 \A k \in Top.chain : ~Falsified(AssignedPaths(Top.wr, Top.outer.alias), k)
           /\ frames' = Replace(
                CASE Top.kind = "clause" ->
                       [fr EXCEPT !.kind = "switch", !.excl = @ \cup Top.g.f,
                                  !.open = @ /\ exits,
                                  !.chain = Chained(Top, exits)]
                  [] Top.kind = "default" -> [fr EXCEPT !.kind = "defaulted"]
                  [] OTHER -> [fr EXCEPT !.kind = Top.head])
    /\ sc' = NewScope /\ mem' = Dead /\ fault' = NoFault
    /\ UNCHANGED lang

EndSwitch ==
    /\ Running /\ frames # <<>> /\ Top.kind \in {"switch", "defaulted", "select", "typeswitch"}
    /\ Top.kind = "switch" => Top.fall = Dead
    /\ sc' = With(Top.outer, Top.chain)
    /\ mem' = Resumed([Top EXCEPT !.pend = IF Top.kind = "select" THEN Dead ELSE @], Dead)
    /\ frames' = Popped(Top.all)
    /\ fault' = NoFault
    /\ UNCHANGED lang

-----------------------------------------------------------------------------
(* for and range.                                                          *)

HasPost(h) == ~IsRange(h) /\ h.post # Skip

\* A slip: an iteration starts from what holds before the loop.
LoopScopeFirst(fr) == fr.inner

\* The scope every iteration starts from: the body's writes are dropped at once.
LoopScope(fr) ==
    InvalidateWrites(IF IsRange(fr.head) THEN InvalidateTarget(fr.inner, <<fr.head.var>>) ELSE fr.inner,
                     BodyTargets(fr.body))

\* The scope before each statement of the body, and after the last.
Trail(fr) ==
    LET guards == IF IsRange(fr.head) THEN {} ELSE NilGuards(fr.head.cond, fr.inner).t
        at[i \in Nat] == IF i <= 1 THEN With(LoopScope(fr), guards)
                        ELSE Effect(fr.body[i - 1], at[i - 1])
    IN  [i \in 1..Len(fr.body) + 1 |-> at[i]]

\* What changes between two tests of the condition is written in the body, where
\* the walk looks for it (head): the post statement and the condition speak of
\* nothing else that is known when the loop is reached.  A continue does not
\* reach a post statement that relies on what it left out (continue).
FollowsLoop(fr, post) ==
    LET written == BodyTargets(fr.body) \cup post
        changed == AssignedPaths(written, fr.inner.alias)
    IN  /\ "head" \notin Wild =>
              /\ \A ch \in CondChecks(fr.head.cond, fr.inner) :
                    ~Falsified(changed, Canonical(ch.base, fr.inner.alias))
              /\ \A t \in written :
                    IsBare(t) => fr.inner.alias[t[1]] = NoPath /\ fr.inner.errProof[t[1]] = {}
              /\ \A t \in post, k \in Known(fr.inner) : ~AtOrUnder(Canonical(t, fr.inner.alias), k)
        /\ "continue" \notin Wild /\ HasPost(fr.head) =>
              \A i \in DOMAIN fr.body : fr.body[i].op = "guard" => fr.body[i].how # "continue"

\* walkFor and walkRange up to the loop: the clone, the init statement.
OpenLoop(h, body) ==
    /\ Running /\ CanOpen /\ Follows(h.init, sc, mem)
    /\ \E taken \in SUBSET Takable :
         LET s  == Opened(taken)
             sh == IF mem = Dead THEN <<>>
                   ELSE [l \in DOMAIN Shadowed(h.init) \cup (IF IsRange(h) THEN {h.var} ELSE {}) |-> mem.env[l]]
             fr == [NewFrame("loop", s, taken) EXCEPT !.head = h, !.body = body, !.saved = sh,
                                               !.inner = Effect(h.init, s)]
         IN  /\ FollowsLoop(fr, IF IsRange(h) THEN {} ELSE Targets(h.post))
             /\ \A i \in DOMAIN body : Follows(body[i], Trail(fr)[i], Dead)
             /\ sc' = LoopScope(fr)
             /\ Run(h.init, s, mem, Append(frames, [fr EXCEPT !.trail = Trail(fr)]))
    /\ UNCHANGED lang

Loop(pc) == /\ frames # <<>> /\ Top.kind = "loop" /\ Top.pc = pc /\ mem # Dead

At(pc) == Replace([Top EXCEPT !.pc = pc])

\* The condition is checked before the body's writes are dropped.
LoopTest ==
    /\ Loop(0)
    /\ sc' = Top.trail[1]
    /\ IF IsRange(Top.head)
       THEN /\ fault' = NoFault
            /\ \/ mem' \in Returned(<<Top.head.var>>, ResultsFor(<<Top.head.var>>), FALSE, mem) /\ frames' = At(1)
               \/ mem' = Dead /\ frames' = Replace([Top EXCEPT !.out = mem])
       ELSE LET c == Top.head.cond
            IN  Decide(Outcome(c, mem), CondChecks(c, Top.inner), Top.inner, mem,
                       At(1), Replace([Top EXCEPT !.out = mem]))
    /\ UNCHANGED lang

\* The post statement is walked after the body, with what all of it proves, and
\* executed after a continue too.
LoopStep(pc) ==
    /\ Loop(pc) /\ pc \in DOMAIN Top.body
    /\ LET st == Top.body[pc]
           s  == Top.trail[pc]
       IN  /\ Follows(st, s, mem)
           /\ \/ Run(st, s, mem, At(pc + 1)) /\ sc' = Top.trail[pc + 1]
              \/ /\ Leaves(st, mem) /\ st.how = "continue"
                 /\ frames' = At(Len(Top.body) + 1) /\ sc' = IF HasPost(Top.head) THEN Last(Top.trail) ELSE s
                 /\ fault' = NoFault /\ UNCHANGED mem
    /\ UNCHANGED lang

LoopPost ==
    /\ Loop(Len(Top.body) + 1)
    /\ sc' = LoopScope(Top)
    /\ Run(IF IsRange(Top.head) THEN Skip ELSE Top.head.post, Last(Top.trail), mem, At(0))
    /\ UNCHANGED lang

EndLoop ==
    /\ Running /\ frames # <<>> /\ Top.kind = "loop" /\ mem = Dead
    /\ sc' = InvalidateWrites(Top.outer, BodyTargets(Top.body))
    /\ mem' = Resumed(Top, Dead)
    /\ frames' = Popped(BodyTargets(Top.body) \cup Targets(Top.head.init)
                          \cup IF IsRange(Top.head) THEN {} ELSE Targets(Top.head.post))
    /\ fault' = NoFault
    /\ UNCHANGED lang

-----------------------------------------------------------------------------
\* The parameters hold anything; the locals declared without a value hold nil,
\* and the walk knows it.  Of a nil receiver it knows nothing.
Init ==
    /\ lang \in Languages
    /\ \E decl \in SUBSET Declared :
         /\ sc = VarDecl(NewScope, decl)
         /\ \E e \in [Locals -> Value], h \in [Objects -> [Slots -> Objects \cup {Nil}]] :
              /\ \A l \in Locals : e[l] \in IF l \in Params \ decl THEN ValuesOf(l) ELSE {Nil}
              /\ \A o \in Objects, s \in Slots \ lang.slots : h[o][s] = Nil
              /\ mem = Collect([env |-> e, heap |-> h,
                                origin |-> decl \cup IF Receiver = NoPath THEN {} ELSE {Receiver[1]}])
    /\ frames = <<>> /\ fault = NoFault

Next ==
    \/ \E st \in Stmts : Simple(st)
    \/ \E how \in Exits : Leave(how)
    \/ \E h \in IfHeads : OpenIf(h)
    \/ TakeCond
    \/ \E kind \in {"else", "elseif"} : Else(kind)
    \/ EndIf
    \/ \E kind \in Compounds : OpenOther(kind)
    \/ EndBlock
    \/ EndClosure
    \/ \E h \in Switches : OpenSwitch(h)
    \/ ReadTag
    \/ \E list \in Cases : OpenClause(list)
    \/ OpenDefault
    \/ \E st \in Comms : OpenComm(st)
    \/ EndClause
    \/ EndSwitch
    \/ \E h \in LoopHeads, body \in Bodies : OpenLoop(h, body)
    \/ LoopTest
    \/ \E pc \in 1..3 : LoopStep(pc)
    \/ LoopPost
    \/ EndLoop

Spec == Init /\ [][Next]_vars

-----------------------------------------------------------------------------
(* Properties.                                                             *)

IsFrame(fr) ==
    /\ {fr.outer, fr.inner} \cup {fr.trail[i] : i \in DOMAIN fr.trail} \subseteq ScopeType
    /\ {fr.pend, fr.out, fr.fall} \subseteq MemoryType \cup {Dead}
    /\ {fr.g.t, fr.g.f, fr.wr, fr.all, fr.excl, fr.chain} \subseteq SUBSET Path
    /\ fr.ended \in {"no", "if"} \cup Exits /\ fr.first \in {"no"} \cup Exits
    /\ fr.open \in BOOLEAN /\ fr.pc \in 0..Len(fr.body) + 1

\* The type of the state: in particular the execution is in one place only.
TypeOK ==
    /\ sc \in ScopeType
    /\ mem \in MemoryType \cup {Dead}
    /\ Len(frames) <= MaxDepth /\ \A i \in DOMAIN frames : IsFrame(frames[i])
    /\ fault.base \in Path \cup {NoPath} /\ fault.reported \in BOOLEAN

\* A path the walk holds proven is not nil, whichever way the execution came:
\* through the branch, past it, round the loop or out of the closure
\* (scope.proven, and every rule of walk.go that adds to it or clears it).
ProofsHold ==
    mem # Dead =>
        \A e \in Names : Canonical(e, sc.alias) \in sc.proven => Eval(e, mem) # Nil

\* Two expressions with one canonical path have one value (scope.alias): what is
\* proven of the one may be used for the other.
NamesAgree ==
    mem # Dead =>
        \A e, f \in Names : Canonical(e, sc.alias) = Canonical(f, sc.alias)
                           => Eval(e, mem) = Eval(f, mem)

\* A local said to be nil, or to hold a nil pointer, is so: "is nil here" and
\* "holds a nil pointer here" are statements of fact, unlike "may be nil here".
NilStatesHold ==
    mem # Dead =>
        \A l \in Locals : <<l>> \in Names =>
            /\ sc.nilable[l] = "isNil" => mem.env[l] = Nil
            /\ sc.nilable[l] = "typedNil" => mem.env[l] = TypedNil

\* While an error that came from a validator is nil, what it vouched for is not
\* (scope.errProof).
ErrorsVouch ==
    mem # Dead =>
        \A l \in Locals, e \in Names :
            Canonical(e, sc.alias) \in sc.errProof[l] /\ mem.env[l] = Nil => Eval(e, mem) # Nil

\* A dereference that panics through a field or a dereferenced pointer has been
\* reported, unless the field is exempt (checkExpr and what it calls).
PanicsReported ==
    /\ fault.base # NoPath
    /\ IsFieldPath(fault.path) \/ IsStarPath(fault.path)
    /\ IsBare(fault.base) \/ Last(fault.base) \notin Exempt
    => fault.reported

\* So has one through a local that holds a nil the function shows, as long as
\* nothing is assigned inside a nested statement (scope.nilable).
VisibleNilsReported == Receiver = NoPath /\ fault.visible => fault.reported

\* A method that panics when its receiver is nil, through whichever copy of it,
\* carries no nilSafeReceiver fact: calls of one that does are not reported
\* ("whose body never dereferences its own receiver", receiver.go).
NilSafetyHolds == Receiver # NoPath /\ fault.visible => fault.marked
=============================================================================
