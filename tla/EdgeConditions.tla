---------------------------- MODULE EdgeConditions ----------------------------
(***************************************************************************)
(* How the condition of a branch or of an edge is evaluated:               *)
(* evaluate_condition_expression of app/tasks/edge_evaluator.py.  An       *)
(* expression is a sequence of tokens; a comparison is reduced to whether  *)
(* it holds.                                                               *)
(***************************************************************************)
EXTENDS Integers, FiniteSets, Sequences

CONSTANT Expression     \* the conditions an administrator may write

Comparison == {"T", "F"}
Connective == {"&&", "||"}
Token == Comparison \cup Connective \cup {"(", ")"}
Text == Seq(Token)

Mentions(s, tokens) == \E i \in DOMAIN s : s[i] \in tokens

\* Opening minus closing parentheses before position i.
DepthAt(s, i) ==
    Cardinality({j \in 1 .. i - 1 : s[j] = "("}) - Cardinality({j \in 1 .. i - 1 : s[j] = ")"})

\* Variant: parentheses are not looked at.
CutsAnywhere(s, op) == {i \in DOMAIN s : s[i] = op}

CutsAt(s, op) == {i \in DOMAIN s : s[i] = op /\ DepthAt(s, i) = 0}

\* _split_top_level: the first and the last position of each part between the
\* cuts.  An empty part is left out.
Parts(s, op) ==
    LET cuts == CutsAt(s, op) IN
    {p \in (1 .. Len(s)) \X (1 .. Len(s)) :
        /\ p[1] <= p[2] /\ (p[1] .. p[2]) \cap cuts = {}
        /\ p[1] = 1 \/ p[1] - 1 \in cuts
        /\ p[2] = Len(s) \/ p[2] + 1 \in cuts}

PartOf(s, p) == SubSeq(s, p[1], p[2])

\* One parenthesis at each end is taken off, whether they belong together or not.
Enclosed(s) == s # <<>> /\ s[1] = "(" /\ s[Len(s)] = ")"
Stripped(s) == IF Enclosed(s) THEN SubSeq(s, 2, Len(s) - 1) ELSE s

\* _evaluate_single: what is not a comparison names no variable.
Single(s) == IF s = <<"T">> THEN "holds" ELSE "fails"

\* all() and any() stop at the first part that decides.
Combined(value, n, op) ==
    LET go == IF op = "&&" THEN "holds" ELSE "fails"
        decided == {p \in Parts(n, op) : value[PartOf(n, p)] # go}
    IN IF decided = {} THEN go
       ELSE value[PartOf(n, CHOOSE p \in decided : \A q \in decided : p[1] <= q[1])]

\* An && anywhere in the text is the one that is split at.
SplitBy(n) == IF Mentions(n, {"&&"}) THEN "&&" ELSE "||"

\* evaluate_condition_expression, with the values of the parts that it asks for.
\* A part that is the expression itself is split again without end
\* (RecursionError).
EvaluateBy(value, s) ==
    LET n == Stripped(s) IN
    IF s = <<>> THEN "holds"
    ELSE IF ~Mentions(n, Connective) THEN Single(n)
    ELSE IF n = s /\ Parts(n, SplitBy(n)) = {<<1, Len(n)>>} THEN "endless"
    ELSE Combined(value, n, SplitBy(n))

Evaluate[s \in Text] == EvaluateBy(Evaluate, s)

-----------------------------------------------------------------------------
(* Expressions as they are meant: comparisons and parenthesised expressions *)
(* between connectives of one kind.  With each its text, what it means, and *)
(* whether it holds, somewhere, a || next to parentheses that hold an &&    *)
(* ((a && b) || c), or two parentheses around a comparison (((a))).         *)

Leaf(v) ==
    [kind |-> "leaf", op |-> "none", text |-> <<v>>, meant |-> v = "T",
     hidden |-> FALSE, twice |-> FALSE, of |-> <<>>]

Group(e) ==
    [kind |-> "group", op |-> "none", text |-> <<"(">> \o e.text \o <<")">>,
     meant |-> e.meant, hidden |-> e.hidden,
     twice |-> e.twice \/ (e.kind = "group" /\ e.of[1].kind = "leaf"), of |-> <<e>>]

Join(e, op, u) ==
    [kind |-> "join", op |-> op, text |-> e.text \o <<op>> \o u.text,
     meant |-> IF op = "&&" THEN e.meant /\ u.meant ELSE e.meant \/ u.meant,
     hidden |-> e.hidden \/ u.hidden
                \/ (op = "||" /\ (Mentions(e.text, {"&&"}) \/ Mentions(u.text, {"&&"}))),
     twice |-> e.twice \/ u.twice, of |-> <<e, u>>]

\* Expressions are made of expressions and have an end; a chain goes on with
\* its connective.
WellFormed(E) ==
    \A e \in E :
        /\ e.text \in Text
        /\ \/ \E v \in Comparison : e = Leaf(v)
           \/ e.kind = "group" /\ e.of[1] \in E /\ e = Group(e.of[1])
           \/ /\ e.kind = "join" /\ e.op \in Connective
              /\ e.of[1] \in E /\ e.of[2] \in E
              /\ e = Join(e.of[1], e.op, e.of[2])
              /\ e.of[1].kind = "join" => e.of[1].op = e.op
              /\ e.of[2].kind # "join"

ASSUME ExpressionAssumption == WellFormed(Expression)

VARIABLES
    expression,     \* what an administrator wrote
    verdict         \* how it was evaluated

conditionVars == <<expression, verdict>>

ConditionInit == expression \in Expression /\ verdict = "none"

EvaluateCondition ==
    /\ verdict = "none"
    /\ verdict' = Evaluate[expression.text]
    /\ UNCHANGED expression

ConditionSpec == ConditionInit /\ [][EvaluateCondition]_conditionVars

-----------------------------------------------------------------------------
\* A chain that begins and ends with a parenthesis of its own loses both as if
\* they belonged together: (a) && (b).
StrippedWrongly(e) == e.kind = "join" /\ Enclosed(e.text)

\* A || beside parentheses that hold an && is never evaluated, alone or in
\* parentheses: the part that is split is the expression again, and the turn
\* ends with RecursionError.  (When a parenthesis is at each end, they are
\* stripped first.)
HidesAnd(e) == e.kind = "join" /\ e.op = "||" /\ Mentions(e.text, {"&&"}) /\ ~Enclosed(e.text)
HiddenIsEndless ==
    HidesAnd(expression) \/ (expression.kind = "group" /\ HidesAnd(expression.of[1]))
        => verdict = "endless"

\* edge_evaluator.py:118: "괄호 안의 && 는 분리하지 않는다", what is in
\* parentheses is not split.  An expression with connectives of one kind on
\* each level is evaluated as it is meant, with three exceptions, of which the
\* second is not evaluated at all.
EvaluatedAsMeant ==
    verdict # "none" =>
        /\ \/ verdict = IF expression.meant THEN "holds" ELSE "fails"
           \/ StrippedWrongly(expression)
           \/ expression.hidden
           \/ expression.twice
        /\ HiddenIsEndless
=============================================================================
