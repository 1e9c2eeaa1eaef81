------------------------------ MODULE SlogFmt -------------------------------
(***************************************************************************)
(* slogfmt (slogfmt/slogfmt.go and rewrite.go): which calls of slog it     *)
(* reports, and what applying its suggested fixes one after another, as a  *)
(* repeated --fix run does, makes of them.                                 *)
(*                                                                         *)
(* A file has a call "outer" and, in a function literal that is one of its *)
(* arguments, a call "inner".  Of the source of a call only its layout is  *)
(* kept: the gap in front of each argument and of the closing parenthesis, *)
(* which is either a new line with an indentation or some spaces.  The     *)
(* text of an argument is copied as it is, the inner call's included.      *)
(***************************************************************************)
EXTENDS Integers, Sequences
CONSTANTS
    KVStart,  \* how many arguments come before the pairs (slogKVFuncs)
    Args,     \* what the arguments are: "lead", "key", "value" or "attr"
    Layouts,  \* for each call, the layouts it may start with
    Inners,   \* the place of the inner call: the argument, and its own indentation or Inline
    Base,     \* the indentation of the line the outer call starts on
    Inline    \* the inner call's literal is written on the outer call's lines
Calls == {"outer", "inner"}
Gap   == [line : BOOLEAN, n : Nat]
Gaps(c) == 1..Len(Args[c]) + 1
Layout(c) == [Gaps(c) -> Gap]
ASSUME SlogFmtAssumption ==
    /\ Args \in [Calls -> Seq({"lead", "key", "value", "attr"})]
    /\ KVStart \in Nat \ {0} /\ Base \in Nat /\ Inline \notin Nat
    /\ \A c \in Calls : Layouts[c] \subseteq Layout(c)
    /\ \A i \in Inners : i.arg \in DOMAIN Args["outer"] /\ i.indent \in Nat \cup {Inline}
VARIABLES
    lay,   \* the layout of each call
    place  \* where the inner call stands
fixVars == <<lay, place>>
-----------------------------------------------------------------------------
Line(n) == [line |-> TRUE, n |-> n]
Same(n) == [line |-> FALSE, n |-> n]
\* The argument spans several lines: only the one with the literal may.
Spans(c, i) ==
    /\ c = "outer" /\ i = place.arg
    /\ place.indent # Inline \/ \E j \in Gaps("inner") : lay["inner"][j].line
\* The layout of the outer call's line an inline inner call starts on.
LineStarts == {j \in 1..place.arg : lay["outer"][j].line}
\* lineIndent: the indentation of the line a call starts on.
InnerIndent ==
    IF place.indent # Inline THEN place.indent
    ELSE IF LineStarts = {} THEN Base
    ELSE lay["outer"][CHOOSE j \in LineStarts : \A k \in LineStarts : k <= j].n
LineIndent(c) == IF c = "outer" THEN Base ELSE InnerIndent
\* sharesLine: two arguments from KVStart on start on one line.
SharesLine(c) ==
    \E i \in KVStart + 2..Len(Args[c]) : ~lay[c][i].line /\ ~Spans(c, i - 1)
\* The argument is the first of a pair.
Odd(i) == (i - KVStart) % 2 = 1
\* A slip: pairs are counted from the first argument of the call.
RewriteFromFirst(c) ==
    [i \in Gaps(c) |->
        IF i = 1 THEN Same(0)
        ELSE IF i = Len(Args[c]) + 1 THEN Line(LineIndent(c))
        ELSE IF i > KVStart /\ i % 2 = 1 THEN Line(LineIndent(c) + 1)
        ELSE Same(1)]
\* A slip: an argument goes one level deeper than it was.
RewriteDeeper(c) ==
    [i \in Gaps(c) |->
        IF i = 1 THEN Same(0)
        ELSE IF i = Len(Args[c]) + 1 THEN Line(LineIndent(c))
        ELSE IF i > KVStart /\ Odd(i) THEN Line(lay[c][i].n + 1)
        ELSE Same(1)]
\* rewriteCall: the leading arguments on the first line, the others two to a
\* line, one level deeper; the closing parenthesis on a line of its own.
RewriteCall(c) ==
    [i \in Gaps(c) |->
        IF i = 1 THEN Same(0)
        ELSE IF i = Len(Args[c]) + 1 THEN Line(LineIndent(c))
        ELSE IF i > KVStart /\ Odd(i) THEN Line(LineIndent(c) + 1)
        ELSE Same(1)]
\* A slip: a call that is already in the form is not told apart.
ReportedAgain(c) == Len(Args[c]) > KVStart + 1 /\ SharesLine(c)
\* checkCall: the rewritten call is not what is there (callSource).
Reported(c) ==
    /\ Len(Args[c]) > KVStart + 1
    /\ SharesLine(c)
    /\ RewriteCall(c) # lay[c]
-----------------------------------------------------------------------------
FixInit ==
    /\ place \in Inners
    /\ \E outer \in Layouts["outer"], inner \in Layouts["inner"] :
         lay = [c \in Calls |-> IF c = "outer" THEN outer ELSE inner]
\* A suggested fix is applied.  Those of the two calls overlap: one at a time.
Fix(c) ==
    /\ Reported(c)
    /\ lay' = [lay EXCEPT ![c] = RewriteCall(c)]
    /\ UNCHANGED place
FixNext == \E c \in Calls : Fix(c)
\* --fix is run again as long as there is a finding.
Fairness == WF_fixVars(FixNext)
FixSpec == FixInit /\ [][FixNext]_fixVars /\ Fairness
-----------------------------------------------------------------------------
(* Properties.                                                             *)
\* A fix clears its finding (callSource: "reporting it would leave a finding
\* that its own fix cannot clear").
FixClears == [][\A c \in Calls : lay'[c] # lay[c] => ~Reported(c)']_fixVars
\* Applied again and again, in any order, the fixes come to an end, although
\* fixing the outer call moves the inner one and may bring its finding back.
Converges == <>[](\A c \in Calls : ~Reported(c))
\* Once its finding is cleared by a fix, a call has each key on the line of its
\* value, and no other pair there ("put each key-value pair on its own line").
LineOf(c, i) == {j \in KVStart + 1..i : lay[c][j].line}
Paired(c) ==
    \A i, j \in KVStart + 1..Len(Args[c]) :
        LineOf(c, i) = LineOf(c, j)
          <=> i = j \/ (Args[c][i] = "key" /\ j = i + 1) \/ (Args[c][j] = "key" /\ i = j + 1)
PairsOnLines == [][\A c \in Calls : lay'[c] # lay[c] => Paired(c)']_fixVars
=============================================================================
