------------------------------- MODULE MCWalk -------------------------------
(***************************************************************************)
(* The programs TLC builds function bodies from: two pointers o and x to   *)
(* structs with a field n (or f), an error err, an interface i, and the    *)
(* error e that only heads and communications declare.                     *)
(***************************************************************************)
EXTENDS Walk

CONSTANTS o1, o2

o == <<"o">>   x == <<"x">>   err == <<"err">>   e == <<"e">>   i == <<"i">>
on == <<"o", "n">>   xn == <<"x", "n">>   onn == <<"o", "n", "n">>
so == <<"o", "*">>

Symmetry == Permutations(Objects)

NamesOX == {o, x, on, xn}

\* A language with nothing in it but parameters o and x.
Plain ==
    [stmts |-> {}, ifs |-> {}, loops |-> {}, bodies |-> {}, switches |-> {}, cases |-> {}, comms |-> {},
     compounds |-> {}, exits |-> {}, names |-> NamesOX, params |-> {"o", "x"}, receiver |-> NoPath, declared |-> {},
     addressed |-> {}, slots |-> {"n"}, depth |-> 0]

OneStar  == "*"

Use(p)        == [op |-> "use", e |-> p, safe |-> FALSE]
Set(p, r)     == [op |-> "set", lhs |-> p, rhs |-> r]
NilRhs        == [k |-> "nil"]
CallRhs       == [k |-> "call"]
ElementRhs    == [k |-> "element"]
NewRhs(s)     == [k |-> "new", set |-> s]
PathRhs(p)    == [k |-> "path", e |-> p]
CallIfRhs(p)  == [k |-> "callif", e |-> p]
CheckRhs(p)   == [k |-> "validate", e |-> p]
Eq(p)         == [k |-> "eq", e |-> p]
Ne(p)         == [k |-> "ne", e |-> p]
IsNil(p)      == [k |-> "isnil", e |-> p]
Test(p)       == [k |-> "test", e |-> p]
Either           == [k |-> "any"]
Not(c)        == [k |-> "not", c |-> c]
And(c, d)     == [k |-> "and", l |-> c, r |-> d]
Or(c, d)      == [k |-> "or", l |-> c, r |-> d]
Guard(c, how) == [op |-> "guard", c |-> c, how |-> how]

\* Every condition the runs use, with its parts.
CondsAndParts ==
    LET atoms == {Either} \cup (UNION {{Eq(p), Ne(p), Test(p)} : p \in {o, x, i, on, xn, err, e, so} \cap Path})
                 \cup {IsNil(on), [k |-> "nil"]}
        pairs == {Or(Eq(x), Test(so)), And(Ne(o), Ne(on)), Or(Eq(o), Eq(on)), And(Ne(on), Test(on)),
                   And(Ne(x), Either), Or(Eq(x), Either), Or(Eq(on), Test(on))}
    IN  atoms \cup pairs \cup {Not(And(Ne(o), Ne(on)))}

AllConds == CondsAndParts

-----------------------------------------------------------------------------
(* Straight-line code, guards that leave included.                         *)

StraightStmts ==
    {Use(onn), Use(xn), Use(err),
     Set(x, PathRhs(on)), Set(x, PathRhs(o)), Set(o, PathRhs(on)), Set(o, CallRhs),
     Set(x, NewRhs({"n"})), Set(on, NilRhs), Set(xn, NilRhs), Set(on, NewRhs({})), Set(xn, PathRhs(o)),
     Set(err, CheckRhs(o)), Set(err, CheckRhs(x)),
     [op |-> "tuple", lhs |-> <<x, err>>, nilable |-> {1}],
     Guard(Eq(on), "return"), Guard(Ne(err), "return"),
     Guard(Not(And(Ne(o), Ne(on))), "return"), Guard(Or(Eq(on), Test(on)), "return"),
     Guard(IsNil(on), "return"), [op |-> "assert", c |-> Ne(xn)]}

Straight ==
    [Plain EXCEPT !.stmts = StraightStmts, !.params = {"o", "x", "err"},
                  !.names = {o, x, err, on, xn, onn}]

\* What a local holds: nil shown by the function, nil inside an interface, and
\* pointers to pointers, where the object o refers to has a slot for *o.
ValueStmts ==
    {Use(x), Use(i), [op |-> "use", e |-> x, safe |-> TRUE],
     Set(x, NilRhs), Set(x, ElementRhs), Set(x, CallIfRhs(o)), Set(x, CallRhs), Set(x, NewRhs({})),
     Set(o, PathRhs(x)), Set(x, PathRhs(o)), Set(i, PathRhs(x)), Set(i, PathRhs(o)), Set(i, NilRhs), Set(x, PathRhs(x)),
     [op |-> "tuple", lhs |-> <<x, o>>, nilable |-> {2}],
     [op |-> "addr", x |-> "x"],
     Guard(Eq(o), "return"), Guard(Eq(x), "return"), Guard(Ne(i), "return"), Guard(Eq(i), "return"),
     Use(so), Set(x, PathRhs(so)), Set(so, PathRhs(x)), Set(so, NilRhs), Guard(Eq(so), "return"),
     Guard(Or(Eq(x), Test(so)), "return")}

Values ==
    [Plain EXCEPT !.stmts = ValueStmts, !.params = {"o", "x", "i"}, !.declared = {"x", "i"},
                  !.names = {o, x, i, so}, !.slots = {Star}]

\* A method of o, which hands its receiver to x.  Nothing else in it is nil that
\* the function shows.
Method ==
    [Plain EXCEPT !.stmts = {Use(on), Use(xn), [op |-> "use", e |-> o, safe |-> TRUE],
                             Set(x, PathRhs(o)), Set(o, PathRhs(x)), Set(o, PathRhs(xn)), Set(x, CallRhs),
                             Set(on, PathRhs(x)), Guard(Eq(o), "return"), Guard(Eq(x), "return")},
                  !.ifs = {[init |-> Skip, cond |-> Ne(o)]},
                  !.exits = {"return"}, !.receiver = o, !.depth = 1]

FlatLanguages == {Straight, Values, Method}

-----------------------------------------------------------------------------
(* Branches.                                                               *)

BranchStmts ==
    {Use(xn), Set(x, PathRhs(on)), Set(o, CallRhs),
     Set(on, NilRhs), Set(on, NewRhs({})), Guard(Eq(on), "return")}

BranchHeads ==
    {[init |-> Skip, cond |-> c] : c \in {Ne(on), Eq(on), And(Ne(x), Either)}}
    \cup {[init |-> Set(e, CheckRhs(o)), cond |-> Ne(e)]}


-----------------------------------------------------------------------------
(* Loops.                                                                  *)

Loops ==
    {[init |-> Skip, cond |-> Ne(xn), post |-> Skip],
     [init |-> Set(e, CallRhs), cond |-> Ne(e), post |-> Set(e, CallRhs)],
     [init |-> Skip, cond |-> Either, var |-> "e"]}

LoopBodies ==
    {<<Use(xn)>>, <<Set(on, NilRhs), Use(xn)>>, <<Set(x, PathRhs(on)), Use(xn)>>, <<Use(e), Set(x, CallRhs)>>,
     <<Guard(Eq(on), "break"), Set(xn, NilRhs)>>, <<Guard(Eq(xn), "continue"), Set(on, NilRhs)>>,
     <<Guard(Eq(x), "return"), Use(xn)>>}

Branch ==
    [Plain EXCEPT !.stmts = BranchStmts, !.ifs = BranchHeads, !.loops = Loops, !.bodies = LoopBodies,
                  !.compounds = {"block"}, !.exits = {"return"}, !.params = {"o", "x", "e"}, !.depth = 1]

-----------------------------------------------------------------------------
(* Switches, selects, closures and goroutines.                             *)

ClauseStmts ==
    {Use(xn), Set(x, PathRhs(on)), Set(on, NilRhs), Guard(Eq(xn), "return")}

Clauses ==
    {<<Ne(on)>>, <<Eq(x), Eq(on)>>, <<Either>>, <<[k |-> "nil"]>>}

Switch(init, tag) == [init |-> init, tag |-> tag]
SwitchHeads == {Switch(Skip, NoPath), Switch(Skip, on)}
SelectComms == {Skip, Set(e, CallRhs)}

Clauselike ==
    [Plain EXCEPT !.stmts = ClauseStmts, !.switches = SwitchHeads, !.cases = Clauses, !.comms = SelectComms,
                  !.compounds = {"go", "select", "typeswitch"}, !.exits = {"return"},
                  !.params = {"o", "x", "e"}, !.depth = 1]

\* A switch on what its init statement declares.
Declaring ==
    [Clauselike EXCEPT !.stmts = {Use(onn), Set(on, NilRhs)}, !.switches = {Switch(Set(e, CheckRhs(o)), NoPath)},
                       !.cases = {<<Ne(e)>>, <<Either>>}, !.comms = {}, !.compounds = {}, !.names = {o, on, onn, e},
                       !.params = {"o"}]

ClauseLanguages == {Clauselike, Declaring}

-----------------------------------------------------------------------------
(* Statements inside statements inside statements.                         *)

NestedStmts == {Use(on), Set(on, NilRhs)}

NestedHeads == {[init |-> Skip, cond |-> Eq(on)]}

Nested ==
    [Plain EXCEPT !.stmts = NestedStmts, !.ifs = NestedHeads,
                  !.loops = {[init |-> Skip, cond |-> Either, post |-> Skip]},
                  !.bodies = {<<Set(xn, NilRhs)>>}, !.switches = {Switch(Skip, on)}, !.cases = {<<[k |-> "nil"]>>},
                  !.compounds = {"lit"}, !.exits = {"return"}, !.depth = 2]

\* Blocks that take a local's address somewhere, which is forgotten at their start.
Taken ==
    [Plain EXCEPT !.stmts = {Set(x, NilRhs), Use(x), [op |-> "addr", x |-> "x"], Guard(Ne(x), "return")},
                  !.ifs = {[init |-> Skip, cond |-> Eq(x)]}, !.compounds = {"block", "lit"},
                  !.declared = {"x"}, !.addressed = {"x"}, !.names = {x}, !.depth = 1]

\* Ifs, else-ifs and blocks within one another, and nothing else.
DeepStmts == {Use(xn), Set(x, PathRhs(on)), Set(on, NilRhs)}

Deep ==
    [Plain EXCEPT !.stmts = DeepStmts, !.ifs = {[init |-> Skip, cond |-> Eq(on)]}, !.compounds = {"block"},
                  !.exits = {"return"}, !.params = {"o"}, !.depth = 2]

NestingLanguages == {Branch, Nested, Taken, Deep}

-----------------------------------------------------------------------------
(* Programs the walk does not follow, each as few statements as show it.   *)

\* switch o.n with a clause that leaves and a default that writes the tag.
ClearedLanguages ==
    {[Plain EXCEPT !.stmts = {Use(on), Set(on, NilRhs)}, !.switches = {Switch(Skip, on)}, !.cases = {<<[k |-> "nil"]>>},
                   !.exits = {"return"}, !.depth = 1]}

\* A copy of a field, rebound in a block.
ReboundLanguages ==
    {[Plain EXCEPT !.stmts = {Set(x, PathRhs(on)), Set(x, CallRhs), Guard(Eq(x), "return"), Use(on)},
                   !.compounds = {"block"}, !.depth = 1]}
=============================================================================
