---------------------------- MODULE MCDroppedErr ----------------------------
(***************************************************************************)
(* Functions of up to four statements with two errors, err and err2: calls,*)
(* error branches of up to three, some with a statement inside one.       *)
(***************************************************************************)
EXTENDS DroppedErr
Set(v, from)  == [op |-> "assign", v |-> v, from |-> from, new |-> FALSE]
New(v, from)  == [op |-> "assign", v |-> v, from |-> from, new |-> TRUE]
Log(v)        == [op |-> "log", v |-> v]
Do            == [op |-> "do"]
Raise(as, v)  == [op |-> "raise", as |-> as, v |-> v]
If(init, k, v, body) ==
    [op |-> "if", init |-> init, cond |-> [k |-> k, v |-> v], body |-> body, els |-> <<>>, chained |-> FALSE]
ElseIf(st, other) == [st EXCEPT !.els = <<other>>, !.chained = TRUE]
Else(st, block)   == [st EXCEPT !.els = block]

Raises(v) == {Raise(as, v) : as \in {"raw", "classify", "wrap", "new", "sentinel", "foreign"}}
Other(v)  == IF v = "err" THEN "err2" ELSE "err"
\* What stands in front of the return of an error branch.
Firsts(v) ==
    {Log(v), Do, Set(v, "other"), New(v, "other"), Set(Other(v), v)}
    \cup {If(<<>>, k, v, <<st>>) : k \in {"pred", "any"}, st \in {Log(v), Raise("wrap", v), Raise("raw", v), Raise("new", v)}}
    \cup {If(<<New(Other(v), "other")>>, "guard", Other(v), <<st>>) : st \in {Log(Other(v)), Log(v), Raise("wrap", Other(v))}}
BlocksOf(v) ==
    {<<st>> : st \in Raises(v)}
    \cup {<<st, r>> : st \in IF v = "err" THEN Firsts(v) ELSE {Log(v), Do}, r \in Raises(v)}
    \cup {<<Do>>, <<Log(v)>>, <<Set(Other(v), "db"), If(<<>>, "guard", Other(v), <<Raise("wrap", Other(v))>>), Raise("raw", v)>>}
Froms == {"db", "other"}
Branches ==
    UNION {{If(<<>>, "guard", v, b) : b \in BlocksOf(v)}
           \cup {If(<<>>, "swapped", v, <<r>>) : r \in Raises(v)}
           \cup {If(<<New(v, from)>>, "guard", v, b) : from \in {"db", "other"}, b \in {<<r>> : r \in Raises(v)}}
           : v \in {"err", "err2"}}
Chains ==
    {ElseIf(If(<<>>, "guard", "err", <<Raise("raw", "err")>>), If(<<New("err2", from)>>, "guard", "err2", <<r>>)) :
        from \in {"db", "other"}, r \in Raises("err2")}
    \cup {Else(If(<<>>, "guard", "err", <<Raise("raw", "err")>>),
               <<Set("err2", "db"), If(<<>>, "guard", "err2", <<r>>)>>) : r \in Raises("err2")}
AllStmts ==
    {Set(v, from) : v \in {"err", "err2"}, from \in Froms} \cup {Set("err2", "err"), Log("err"), Do, Raise("raw", "err")}
    \cup Branches \cup Chains
Inner(sts) == UNION {Within(st) : st \in sts}
AllStatements == AllStmts \cup Inner(AllStmts) \cup Inner(Inner(AllStmts)) \cup Inner(Inner(Inner(AllStmts)))
=============================================================================
