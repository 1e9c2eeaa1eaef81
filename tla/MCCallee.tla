------------------------------ MODULE MCCallee ------------------------------
(***************************************************************************)
(* Functions of two parameters x and y.                                    *)
(***************************************************************************)
EXTENDS Callee
XY == <<"x", "y">>
Eq(x)   == [k |-> "eq", x |-> x]
Ne(x)   == [k |-> "ne", x |-> x]
Is(x)   == [k |-> "is", x |-> x]
Not(c)  == [k |-> "not", c |-> c]
And(c, d) == [k |-> "and", l |-> c, r |-> d]
Or(c, d)  == [k |-> "or", l |-> c, r |-> d]
Either  == [k |-> "any"]
Return(v, e) == [op |-> "return", v |-> v, e |-> e]
Nothing == Return("none", "nil")
If(c, b) == [op |-> "if", init |-> {}, c |-> c, then |-> b, els |-> <<>>]
IfElse(c, b, d) == [If(c, b) EXCEPT !.els = d]
Block(b) == [op |-> "block", body |-> b]
Loop(b)  == [op |-> "loop", body |-> b]
Lit(b)   == [op |-> "lit", body |-> b]
Set(x, v) == [op |-> "set", x |-> x, v |-> v]
Never   == [op |-> "never"]
Call    == [op |-> "call"]
Recover == [op |-> "recover"]
RetNil  == Return("nil", "nil")
RetNew  == Return("new", "nil")
MapperStmts ==
    {If(Eq("x"), <<RetNil>>), If(Eq("y"), <<RetNil>>), If(Eq("x"), <<Return("nil", "set")>>),
     If(Eq("x"), <<If(Either, <<RetNil>>)>>), If(Either, <<If(Eq("x"), <<RetNil>>)>>),
     If(And(Eq("x"), Eq("y")), <<RetNil>>), If(Or(Eq("x"), Eq("y")), <<RetNil>>),
     If(Not(Or(Ne("x"), Either)), <<RetNil>>), If(Not(And(Ne("x"), Ne("y"))), <<RetNil>>),
     IfElse(Ne("x"), <<RetNew>>, <<RetNil>>), IfElse(Either, <<RetNew>>, <<If(Eq("y"), <<RetNil>>)>>),
     [If(Eq("x"), <<RetNil>>) EXCEPT !.init = {"x"}],
     Block(<<If(Eq("x"), <<RetNil>>)>>), Loop(<<If(Eq("x"), <<RetNil>>)>>), Loop(<<If(Either, <<RetNew>>)>>),
     If(Either, <<Return("getter", "nil")>>), If(Either, <<Return("any", "nil")>>), If(Either, <<Return("any", "any")>>),
     Set("x", "any"), Set("y", "nil"), Call, Never, Recover, Lit(<<RetNil>>),
     RetNew, RetNil, Return("nil", "any")}
HelperStmts ==
    {If(Not(Is("x")), <<Never>>), If(Not(Is("y")), <<Never>>), If(Not(Is("x")), <<Call, Never>>),
     If(Not(Is("x")), <<Call>>), If(Is("x"), <<Nothing>>), If(Is("y"), <<Nothing>>), If(Either, <<Nothing>>),
     If(Not(Is("x")), <<If(Either, <<Nothing>>), Never>>), If(And(Not(Is("x")), Either), <<Never>>),
     IfElse(Not(Is("y")), <<Never>>, <<Call>>), [If(Not(Is("x")), <<Never>>) EXCEPT !.init = {"x"}],
     [op |-> "assert", x |-> "x"], [op |-> "assert", x |-> "y"], Set("x", "any"),
     Block(<<If(Either, <<Nothing>>)>>), Loop(<<If(Is("x"), <<Nothing>>)>>), Lit(<<Nothing>>),
     Call, Never, Recover, Nothing}
PredicateStmts ==
    {If(Eq("x"), <<Return("true", "nil")>>), If(Eq("y"), <<Return("true", "nil")>>),
     If(Eq("x"), <<Return("false", "nil")>>), If(Eq("x"), <<Return("any", "nil")>>),
     IfElse(Eq("y"), <<Return("true", "nil")>>, <<Return("false", "nil")>>),
     [If(Eq("x"), <<Return("true", "nil")>>) EXCEPT !.init = {"x"}],
     If(Either, <<Return("false", "nil")>>), Set("x", "any"), Call, Recover,
     Return("x", "nil"), Return("y", "nil"), Return("any", "nil"), Return("false", "nil")}
StmtsOf == [mapper |-> MapperStmts, helper |-> HelperStmts, predicate |-> PredicateStmts]
\* What the statements are made of.
AllConds ==
    {Eq("x"), Eq("y"), Ne("x"), Ne("y"), Is("x"), Is("y"), Either, Not(Is("x")), Not(Is("y")),
     And(Eq("x"), Eq("y")), Or(Eq("x"), Eq("y")), Or(Ne("x"), Either), Not(Or(Ne("x"), Either)),
     And(Ne("x"), Ne("y")), Not(And(Ne("x"), Ne("y"))), And(Not(Is("x")), Either)}
Inner(sts) == UNION {Within(st) : st \in sts}
Outermost == UNION {StmtsOf[k] : k \in DOMAIN StmtsOf}
Nested == Outermost \cup Inner(Outermost) \cup Inner(Inner(Outermost))
AllStatements == Nested
AllSignatures ==
    {[kind |-> k, err |-> e, named |-> n] : k \in {"mapper"}, e \in BOOLEAN, n \in BOOLEAN}
    \cup {[kind |-> k, err |-> FALSE, named |-> FALSE] : k \in {"helper", "predicate"}}
=============================================================================
