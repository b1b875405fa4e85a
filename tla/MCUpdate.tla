------------------------------ MODULE MCUpdate ------------------------------
(***************************************************************************)
(* INSERT and UPDATE for TLC: every operator over columns and constants of *)
(* its type, pairs of nested operators, and lists of assignments.          *)
(***************************************************************************)
EXTENDS Update

MCColumns == {"n", "m", "s", "t"}
MCOnUpdate == {"t"}

n == Col("n")
m == Col("m")
s == Col("s")
Num(k) == Lit(Whole(k))

ab == <<60, 31>>  \* "aB"
Texts == {<<>>, <<61>>, ab}
Numbers == {Whole(0), Whole(2), Whole(-1), Real(-3, 2)}

Doc(x, y, z) == ("n" :> x) @@ ("m" :> y) @@ ("s" :> z) @@ ("t" :> Whole(1))

Docs ==
  {Doc(x, Whole(2), z) : x \in Numbers \cup {Null, Missing}, z \in {Str(ab), Null}}
    \cup {Doc(Whole(1), Null, z) : z \in {Str(l) : l \in Texts} \cup {Null, Missing}}

MCTables ==
  {<<d>> : d \in Docs}
    \cup {<<Doc(Whole(1), Whole(2), Str(<<61>>)), d>> : d \in {Doc(Whole(0), Null, Str(ab)), Doc(Null, Null, Null)}}

NumArgs == {n, m, Num(0), Num(2), Num(-1), Lit(Real(-3, 2)), Lit(Null)}
TextArgs == {s, Lit(Str(<<>>)), Lit(Str(ab)), Lit(Str(<<0, 60>>)), Lit(Null)}
Counts == {n, Num(0), Num(1), Num(3), Num(-1), Lit(Null)}

Binary == Arithmetic \cup Comparisons \cup {"MOD", "NULLIF", "IFNULL", "AND", "OR"}

NumExprs ==
       {Op(op, <<x, y>>) : op \in Binary \cup {"GREATEST", "LEAST"}, x \in NumArgs, y \in NumArgs}
  \cup {Op(op, <<x>>) : op \in {"neg", "NOT", "IS NULL", "ISNULL", "ABS", "CEIL", "FLOOR", "ROUND",
                                "COALESCE"} \cup Casts, x \in NumArgs}
  \cup {Op(op, <<x, y, z>>) : op \in {"IF", "CASE", "BETWEEN", "IN", "COALESCE"},
                              x \in NumArgs, y \in {n, Num(0), Lit(Null)}, z \in {m, Num(2), Lit(Null)}}

TextExprs ==
       {Op(op, <<x>>) : op \in {"UPPER", "LENGTH", "REVERSE", "IS NULL"} \cup Casts, x \in TextArgs}
  \cup {Op(op, <<x, y>>) : op \in Comparisons \cup {"CONCAT", "NULLIF", "IFNULL", "GREATEST"},
                           x \in TextArgs, y \in TextArgs}
  \cup {Op("CONCAT_WS", <<x, y, z>>) : x \in {Lit(Str(<<61>>)), Lit(Null), s}, y \in TextArgs, z \in TextArgs}
  \cup {Op(op, <<x, k>>) : op \in {"LEFT", "RIGHT", "REPEAT", "SUBSTRING"}, x \in TextArgs, k \in Counts}
  \cup {Op(op, <<x, k, l>>) : op \in {"SUBSTRING"}, x \in TextArgs, k \in Counts \cup {Num(-3)}, l \in Counts}
  \cup {Op("LPAD", <<x, k, Lit(Str(<<61, 62>>))>>) : x \in TextArgs, k \in Counts}
  \cup {Op(op, <<x, y>>) : op \in {"CONCAT", "AND", "OR"}, x \in TextArgs, y \in {n, Num(2)}}
  \cup {Op("CONCAT_WS", <<Lit(Str(<<61>>)), x, y>>) : x \in TextArgs, y \in {n, Num(2)}}
  \cup {Op("IF", <<x, Num(1), Num(2)>>) : x \in TextArgs}
  \cup {Op("IN", <<x, y, z>>) : x \in TextArgs, y \in TextArgs, z \in {s, Lit(Str(<<61>>))}}
  \cup {Op(op, <<x>>) : op \in {"neg", "NOT"}, x \in TextArgs}

\* One of each kind, for nesting.
Inner ==
  {Op("+", <<n, Num(1)>>), Op("/", <<Num(1), n>>), Op("=", <<n, m>>), Op("ABS", <<n>>),
   Op("IFNULL", <<n, m>>), Op("IS NULL", <<n>>), Op("LENGTH", <<s>>), Op("neg", <<Num(2)>>),
   Op("MOD", <<Num(3), Num(2)>>), Op("-", <<Num(1), Num(2)>>), Op("<", <<Num(1), Num(2)>>)}

Nested ==
       {Op(op, <<x, y>>) : op \in Binary, x \in Inner, y \in {n, Num(2)}}
  \cup {Op(op, <<x>>) : op \in {"neg", "NOT", "ABS", "ROUND", "IS NULL"}, x \in Inner}
  \cup {Op("CASE", <<x, Num(1), y, Num(2), Lit(Null)>>) : x \in Inner, y \in Inner}
  \cup {Op("IF", <<x, n, y>>) : x \in Inner, y \in Inner}

Assign(col, e) == [col |-> col, e |-> e]
One(kind, col, e) == [kind |-> kind, set |-> <<Assign(col, e)>>]

Constants(exprs) == {e \in exprs : ~HasColumnRef(e)}

Lists ==
  {<<Assign("s", Lit(Str(<<0, 60>>))), Assign("n", Op("+", <<n, Num(1)>>))>>,
   <<Assign("s", Lit(Str(ab))), Assign("n", Op("+", <<n, Num(1)>>))>>,
   <<Assign("n", Op("+", <<n, Num(1)>>)), Assign("m", n)>>,
   <<Assign("m", n), Assign("n", m)>>,
   <<Assign("n", Num(1)), Assign("n", Num(2))>>,
   <<Assign("n", Op("*", <<m, Num(2)>>)), Assign("n", Op("+", <<m, Num(1)>>))>>,
   <<Assign("n", Num(1)), Assign("t", Num(5))>>,
   <<Assign("n", Op("/", <<m, n>>)), Assign("t", n)>>,
   <<Assign("m", Op("NULLIF", <<n, Num(0)>>)), Assign("s", Op("UPPER", <<s>>)), Assign("t", Num(5))>>}

MCStatements ==
       {One("update", "m", e) : e \in NumExprs \cup Nested}
  \cup {One("update", "s", e) : e \in TextExprs}
  \cup {One("insert", "n", e) : e \in Constants(NumExprs \cup Nested) \cup {n}}
  \cup {One("insert", "s", e) : e \in Constants(TextExprs)}
  \cup {[kind |-> "update", set |-> l] : l \in Lists}

\* CAST(x AS SIGNED).
CastStatements ==
  {One("update", "m", Op("CAST SIGNED", <<x>>)) : x \in {n, Num(2), Lit(Real(-3, 2))}}
=============================================================================
