---------------------------- MODULE MCValidator ----------------------------
(***************************************************************************)
(* Methods with a pointer receiver r whose struct has the fields a and b;  *)
(* v is the receiver in the caller, s a copy of r.                         *)
(***************************************************************************)
EXTENDS Validator

CONSTANTS o1, o2

Symmetry == Permutations(Objects)

ra == <<"r", "a">>   rb == <<"r", "b">>

Eq(p)    == [k |-> "eq", e |-> p]
Ne(p)    == [k |-> "ne", e |-> p]
Either   == [k |-> "any"]
Both     == [k |-> "and", l |-> Ne(ra), r |-> Ne(rb)]
EitherIs == [k |-> "or", l |-> Eq(ra), r |-> Eq(rb)]
NotBoth  == [k |-> "not", c |-> Both]

GuardConds == {Eq(ra), Ne(ra), Eq(rb), Ne(rb), Either, Both, EitherIs, NotBoth}

Write(f)  == [op |-> "write", f |-> f]
Return(e) == [op |-> "return", e |-> e, reaches |-> FALSE]
Called(e) == [op |-> "return", e |-> e, reaches |-> TRUE]
If(c, b)  == [op |-> "if", init |-> <<>>, c |-> c, then |-> b, els |-> <<>>]

MethodStmts ==
    {If(Eq(ra), <<Return("error")>>), If(NotBoth, <<Return("error")>>),
     If(EitherIs, <<Write("a"), Return("error")>>),
     If(Eq(rb), <<[op |-> "panic"]>>), If(Eq(rb), <<Return("local")>>),
     If(Eq(ra), <<Write("a")>>), If(Ne(rb), <<Return("error")>>),
     If(Either, <<Return("nil")>>), If(Either, <<Write("b"), Return("error")>>),
     [If(Eq(rb), <<Return("error")>>) EXCEPT !.els = <<Write("a")>>],
     [If(Eq(ra), <<Return("error")>>) EXCEPT !.init = <<[op |-> "rebind"]>>],
     [op |-> "for", body |-> <<Write("b")>>],
     [op |-> "for", body |-> <<[op |-> "copy"], [op |-> "call", reaches |-> FALSE]>>],
     Write("a"), [op |-> "defer", f |-> "a"], [op |-> "rebind"],
     [op |-> "call", reaches |-> TRUE], [op |-> "copy"], [op |-> "copywrite", f |-> "a"],
     If(Either, <<[op |-> "copywrite", f |-> "a"], Return("nil")>>),
     If(Eq(ra), <<Called("assumed")>>), If(Either, <<Return("assumed")>>),
     Return("nil"), Return("local"), Called("assumed"), Called("local")}
=============================================================================
