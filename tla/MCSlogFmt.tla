----------------------------- MODULE MCSlogFmt ------------------------------
(***************************************************************************)
(* slog.Error(msg, "k", v, "k", v) around slog.Error(msg, "k", v), or      *)
(* around a call with attributes.                                          *)
(***************************************************************************)
EXTENDS SlogFmt
ArgsOf == [outer |-> <<"lead", "key", "value", "key", "value">>, inner |-> <<"lead", "key", "value">>]
ArgsWithAttrs == [outer |-> <<"lead", "key", "value", "key", "value">>, inner |-> <<"lead", "attr", "attr">>]
\* First arguments, the others, and the parenthesis.
Firsts  == {Same(0), Line(2)}
Between(n) == {Same(1), Same(2), Line(n)}
Ends    == {Same(0), Line(1)}
LayoutsOf ==
    [outer |-> {l \in [1..6 -> Firsts \cup Between(2) \cup Ends] :
                   l[1] \in Firsts /\ l[6] \in Ends /\ \A i \in 2..5 : l[i] \in Between(2)},
     inner |-> {l \in [1..4 -> Firsts \cup Between(3) \cup Between(2) \cup Ends] :
                   l[1] \in Firsts /\ l[4] \in Ends /\ \A i \in 2..3 : l[i] \in Between(2) \cup Between(3)}]
Places == {[arg |-> i, indent |-> n] : i \in {3, 5}, n \in {Inline, 2}}
=============================================================================
