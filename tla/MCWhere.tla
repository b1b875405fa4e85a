------------------------------ MODULE MCWhere ------------------------------
(***************************************************************************)
(* Conditions over four columns for TLC: every leaf, negated once and      *)
(* twice, and AND, OR and NOT over one leaf of each kind.                  *)
(***************************************************************************)
EXTENDS Where, Sequences

\* The text path is "$s", the text nowhere begins with "$" and names no field.
CONSTANTS a, b, s, f, n1, n2, s1, s2, path, nowhere

MCNames == [v \in {path, nowhere} |-> IF v = path THEN s ELSE Missing]

BsonOrder == <<Missing, Null, n1, n2, path, nowhere, s1, s2, False, True>>
MCRank == [v \in Values |-> CHOOSE i \in DOMAIN BsonOrder : BsonOrder[i] = v]

RECURSIVE MCDepth(_)
MCDepth(e) ==
  CASE e.is \in {"and", "or"} ->
         1 + (IF MCDepth(e.l) > MCDepth(e.r) THEN MCDepth(e.l) ELSE MCDepth(e.r))
    [] e.is = "not" -> 1 + MCDepth(e.e)
    [] OTHER -> 0

Ops == DOMAIN MongoOp

\* Without column <=> column, where a missing field and NULL are two values.
Comparisons ==
       {Cmp(op, Col(a), Lit(v)) : op \in Ops, v \in {n1, n2, Null}}
  \cup {Cmp(op, Col(a), Fun(n2)) : op \in Ops}
  \cup {Cmp(op, Col(a), Col(b)) : op \in Ops \ {"<=>"}}
  \cup {Cmp(op, Lit(n1), Col(a)) : op \in Ops}
  \cup {Cmp(op, Col(s), Lit(v)) : op \in Ops, v \in {s2, path, nowhere}}
  \cup {Cmp(op, Lit(v), Col(s)) : op \in Ops, v \in {s2, path, nowhere}}
  \cup {Cmp(op, Col(s), Fun(v)) : op \in Ops, v \in {s2, nowhere}}
  \cup {Cmp("=", Col(f), Lit(True)), Cmp("!=", Col(f), Lit(False))}

Memberships ==
       {Cmp(op, Col(a), Tuple(l)) :
          op \in {"in", "not in"}, l \in SUBSET {n1, n2, Null} \ {{}}}
  \cup {Cmp(op, Col(s), Tuple(l)) :
          op \in {"in", "not in"}, l \in {{s2}, {s1, path}, {nowhere, Null}}}
  \cup {Cmp(op, Col(s), Pattern({s1, path})) :
          op \in {"like", "not like", "regexp", "not regexp"}}

Ranges ==
       {Between(a, x, y, yes) : x \in {n1, n2, Null}, y \in {n1, n2, Null}, yes \in BOOLEAN}
  \cup {Between(s, x, s2, yes) : x \in {s1, path}, yes \in BOOLEAN}

Tests ==
       {Is(c, Null, yes) : c \in {a, s, f}, yes \in BOOLEAN}
  \cup {Is(f, v, yes) : v \in {True, False}, yes \in BOOLEAN}

Leaves == Comparisons \cup Memberships \cup Ranges \cup Tests

\* One of each kind.
Samples ==
  {Cmp("=", Col(a), Lit(n1)), Cmp("<=", Col(a), Lit(n1)), Cmp("!=", Col(b), Lit(n1)),
   Cmp("<=>", Col(a), Lit(Null)), Cmp(">", Col(b), Col(a)), Cmp("<", Col(b), Fun(n2)),
   Cmp("in", Col(b), Tuple({n1, n2})), Cmp("not in", Col(a), Tuple({n1, Null})),
   Cmp("like", Col(s), Pattern({s1})), Cmp(">", Lit(s2), Col(s)), Between(b, n1, n1, FALSE),
   Is(a, Null, TRUE), Is(f, True, FALSE)}

Pairs == {And(l, r) : l \in Samples, r \in Samples}
      \cup {Or(l, Not(r)) : l \in Samples, r \in Samples}
Negated(S) == {Not(e) : e \in S}

AllConditions ==
  Leaves \cup Samples \cup Pairs \cup {Or(l, r) : l \in Samples, r \in Samples}
    \cup Negated(Leaves \cup Samples \cup Pairs) \cup Negated(Negated(Leaves))

NotInConditions ==
  LET in == {Cmp("in", Col(a), Tuple({v})) : v \in {n1, n2}} IN in \cup Negated(in)
ColumnConditions == {Cmp(op, Col(a), Col(b)) : op \in Ops \ {"<=>"}}

TextConditions ==
       {Cmp(op, Col(s), Lit(v)) : op \in Ops, v \in Strings}
  \cup {Cmp(op, Col(s), Tuple({v, w})) : op \in InOps, v \in Strings, w \in Strings}

AllDepth == [e \in AllConditions |-> MCDepth(e)]
NotInDepth == [e \in NotInConditions |-> MCDepth(e)]
TextDepth == [e \in TextConditions |-> MCDepth(e)]
ColumnDepth == [e \in ColumnConditions |-> MCDepth(e)]
=============================================================================
