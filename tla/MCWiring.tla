------------------------------ MODULE MCWiring ------------------------------
(***************************************************************************)
(* A struct with the fields f and g, in packages of one function of up to  *)
(* three statements and a second one of up to one.                         *)
(***************************************************************************)
EXTENDS Wiring
Of(k)   == [k |-> k]
At(l)   == [k |-> "local", l |-> l]
Var(l)  == [op |-> "var", l |-> l]
Set(l, v)    == [op |-> "set", l |-> l, v |-> v]
Keyed(vals)  == [op |-> "keyed", vals |-> vals]
Ordered(v, w) == [op |-> "ordered", vals |-> <<v, w>>]
FG == <<"f", "g">>
TwoDecls ==
    {[exported |-> FALSE, open |-> {"f"}, held |-> "no"],
     [exported |-> TRUE, open |-> {"g"}, held |-> "unexported"]}
HeldDecls == {[exported |-> TRUE, open |-> {}, held |-> "exported"]}
AllDecls == TwoDecls \cup HeldDecls
Stmts ==
    {Var("h"), Set("h", Of("opaque")), Set("h", Of("maybe")), Set("h", At("k")),
     Set("k", Of("nil")), [op |-> "multi", l |-> "h", v |-> Of("maybe")],
     [op |-> "init", l |-> "k", v |-> At("h")],
     Keyed([f |-> At("h"), g |-> Of("new")]), Keyed([x \in {"f"} |-> Of("opaque")]),
     Ordered(Of("new"), At("h")), Ordered(Of("opaque"), Of("new")),
     [op |-> "if", body |-> <<Set("h", Of("new"))>>],
     [op |-> "if", body |-> <<Set("h", Of("nil")), Keyed([f |-> At("k"), g |-> At("h")])>>],
     [op |-> "closure", body |-> <<Keyed([f |-> At("h"), g |-> Of("opaque")])>>],
     [op |-> "field", f |-> "f", v |-> At("h")], [op |-> "shadow", l |-> "h", v |-> Of("new")]}
More ==
    {[op |-> "field", f |-> "g", v |-> Of("maybe")], [op |-> "field", f |-> "f", v |-> Of("opaque")],
     [op |-> "several", f |-> "f"], [op |-> "reflect"], [op |-> "zero"], [op |-> "slice"], [op |-> "holder"],
     [op |-> "result"]}
Function(file, b) == [file |-> file, body |-> b]
Bodies == UNION {[1..n -> Stmts] : n \in 1..3}
PackagesOfTwo ==
    {<<Function("plain", b)>> : b \in Bodies}
    \cup {<<Function("plain", b), Function(file, <<st>>)>> :
            b \in UNION {[1..n -> Stmts] : n \in 1..2}, st \in More, file \in {"plain", "test"}}
\* An unexported struct that holds a T is declared without a value.
HolderPackages ==
    {<<Function("plain", <<Ordered(Of("opaque"), v)>>), Function(file, <<st>>)>> :
        v \in {Of("new"), Of("opaque")}, file \in {"plain", "generated"},
        st \in {[op |-> "holder"], Ordered(Of("nil"), Of("new"))}}
AllPackages == PackagesOfTwo \cup HolderPackages
=============================================================================
