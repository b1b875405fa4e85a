----------------------------- MODULE MCSelect ------------------------------
(***************************************************************************)
(* Statements over the table t, and joins of t with u and v.  A table      *)
(* holds one row for every element of a bag of rows.  Alone, t has up to   *)
(* MaxRows rows: a is NULL or 1, b is NULL, not there, 1 or 2.  In a join  *)
(* t and u have up to two rows and v one.                                  *)
(***************************************************************************)
EXTENDS Select

CONSTANTS t, u, v, a, b, c, x, MaxRows

MCColumns == t :> <<a, b>> @@ u :> <<a, c>> @@ v :> <<c>>

\* The bags of up to n of these rows, each as one sequence.
BagsOf(rows, n) ==
  LET order == FoldSet(LAMBDA r, s : Append(s, r), <<>>, rows)
      Ascending(k) == \A i \in 2..Len(k) : k[i - 1] <= k[i]
  IN  {Each(k, LAMBDA i : order[i]) :
         k \in {k \in UNION {[1..m -> DOMAIN order] : m \in 0..n} : Ascending(k)}}

\* The documents with such fields, None being a field that is not there.
Docs(rows) == {Keep(r, {n \in DOMAIN r : r[n] # None}) : r \in rows}

AloneBags == BagsOf(Docs({a :> i @@ b :> j : i \in {Null, 1}, j \in {None, Null, 1, 2}}), MaxRows)
TBags == BagsOf(Docs({a :> i @@ b :> j : i \in {Null, 1}, j \in {None, 2}}), 2)
UBags == BagsOf(Docs({a :> i @@ c :> j : i \in {1, 2}, j \in {Null, 2}}), 2)
VBags == BagsOf(Docs({c :> j : j \in {None, 1, 2}}), 1)

Alone == Source(t, <<>>)

Query(items, distinct, where, group, having, order, page, into) ==
  [from |-> Alone, items |-> items, star |-> items = <<>>, distinct |-> distinct, where |-> where,
   group |-> group, having |-> having, order |-> order,
   limit |-> page[1], offset |-> page[2], into |-> into]

A == Field(a, None)
B == Field(b, None)
CountStar == Agg("COUNT", Star, FALSE, None)
CountB == Agg("COUNT", b, FALSE, None)
SumB == Agg("SUM", b, FALSE, None)

Wheres == {None, Gt(b, 1)}
Pages == {<<None, 0>>, <<0, 0>>, <<1, 0>>, <<1, 1>>, <<2, 1>>}
Orders == {<<>>, <<Key(a, FALSE)>>, <<Key(b, TRUE)>>, <<Key(a, TRUE), Key(b, FALSE)>>}

FindQueries ==
  {Query(items, distinct, w, <<>>, None, o, p, None) :
     items \in {<<>>, <<A>>, <<B>>, <<A, B>>, <<Field(a, x)>>},
     distinct \in BOOLEAN, w \in Wheres, o \in Orders, p \in Pages}

ExprQueries ==
  {Query(items, FALSE, w, <<>>, None, o, p, None) :
     items \in {<<Plus(b, x)>>, <<A, Plus(b, None)>>, <<Field(a, x), Plus(a, None)>>,
                <<Field(a, x), Field(b, x), Plus(b, None)>>},
     w \in Wheres, o \in Orders \cup {<<Key(x, FALSE)>>}, p \in Pages}

Havings ==
  {None, HavingAgg(CountStar, 1), HavingAgg(SumB, 1),
   HavingAgg(Agg("COUNT", b, TRUE, None), 1), HavingAlias(x, 1)}

GroupQueries ==
  {Query(items, FALSE, w, g, h, o, p, None) :
     items \in {<<CountStar>>, <<A, CountB>>, <<A, Agg("SUM", b, FALSE, x)>>,
                <<A, CountStar, Agg("COUNT", b, TRUE, x)>>, <<Agg("SUM", b, TRUE, x)>>,
                <<Agg("MIN", b, FALSE, None), Agg("MAX", b, TRUE, x), SumB>>,
                <<A, B, Agg("MAX", a, FALSE, x)>>, <<CountB, Agg("COUNT", b, TRUE, None)>>},
     g \in {<<>>, <<a>>, <<a, b>>}, w \in Wheres, h \in Havings,
     o \in {<<>>, <<Key(a, TRUE)>>, <<Key(x, FALSE)>>}, p \in {<<None, 0>>, <<1, 1>>}}

Inserts ==
  {[q EXCEPT !.into = into] :
     q \in {Query(items, FALSE, w, g, None, o, p, None) :
              items \in {<<>>, <<A, B>>, <<B, A>>, <<B>>, <<A, Plus(b, x)>>, <<A, Agg("SUM", b, FALSE, x)>>},
              w \in Wheres, g \in {<<>>, <<a>>}, o \in Orders, p \in Pages},
     into \in {<<a, b>>, <<b, a>>, <<b>>, <<x>>, <<a, x>>}}

\* Joins: every kind, conditions of one and two comparisons, columns of the
\* same name, names without qualifier, and a third table.
Q(s, n) == <<s, n>>
On(l, op, r) == <<Compare(l, op, r)>>
Froms ==
  {Source(t, <<Join(kind, u, on)>>) :
     kind \in {"inner", "left", "right"},
     on \in {<<>>, On(Q(t, b), "=", Q(u, c)), On(Q(u, a), "=", b), On(c, "=", Q(t, b)), On(Q(t, a), "=", Q(t, b)),
             On(Q(t, a), "<", Q(u, a)), On(c, "<=", Q(t, b)),
             <<Compare(Q(t, a), "=", Q(u, a)), Compare(Q(u, c), "<>", b)>>}}
  \cup {Source(t, <<Join("comma", u, <<>>)>>)}
ThreeFroms ==
  {Source(t, <<Join(k1, u, On(Q(t, b), "=", Q(u, c))), Join(k2, v, on)>>) :
     k1 \in {"inner", "left", "right"}, k2 \in {"inner", "left", "right"},
     on \in {On(Q(t, b), "=", Q(v, c)), On(Q(v, c), "=", Q(u, c)), On(Q(u, a), "=", Q(v, c)), On(Q(u, c), "<=", Q(v, c)),
             <<Compare(Q(t, a), "=", Q(v, c)), Compare(Q(u, a), "=", Q(v, c))>>}}

JoinQuery(from, items, w, g, o, p) ==
  [Query(items, FALSE, w, g, None, o, p, None) EXCEPT !.from = from]
QA == Field(Q(t, a), None)
UA == Field(Q(u, a), None)
UC == Field(Q(u, c), None)
JoinQueries ==
  {JoinQuery(from, items, w, <<>>, o, <<None, 0>>) :
     from \in Froms, w \in {None, Gt(Q(u, c), 1), Gt(Q(t, b), 1)},
     o \in {<<>>, <<Key(Q(u, c), TRUE)>>},
     items \in {<<>>, <<QA, UC>>, <<B, UC>>, <<QA, UA>>, <<UA, QA>>, <<Field(c, None), Plus(Q(u, a), x)>>}}
  \cup
  {JoinQuery(from, items, None, g, <<>>, <<1, 1>>) :
     from \in Froms, g \in {<<>>, <<Q(u, c)>>},
     items \in {<<CountStar>>, <<Agg("SUM", Q(u, a), FALSE, x)>>, <<UC, CountStar>>,
                <<UC, Agg("COUNT", Q(t, b), FALSE, None)>>, <<Agg("MAX", Q(u, a), FALSE, None)>>}}
ThreeQueries ==
  {JoinQuery(from, <<B, UC, Field(Q(v, c), x)>>, None, <<>>, <<>>, <<None, 0>>) : from \in ThreeFroms}

QualifiedQueries ==
  {Query(<<QA>>, FALSE, w, <<>>, None, <<>>, <<None, 0>>, None) : w \in {None, Gt(Q(t, b), 1)}}
  \cup {Query(<<QA, Plus(Q(t, b), x)>>, FALSE, Gt(Q(t, b), 1), <<>>, None,
               <<Key(Q(t, a), TRUE)>>, <<None, 0>>, None)}

\* What SQL accepts: a column beside an aggregate is in GROUP BY, one inserted
\* column for each selected one.
Valid(q) ==
  /\ Grouped(q) => \A i \in DOMAIN q.items : q.items[i].is = "field" => q.items[i].arg \in ToSet(q.group)
  /\ Grouped(q) => ~q.star /\ Ordered(q) \subseteq ToSet(q.group) \cup ToSet(SqlNames(q))
  /\ q.having # None => q.having.agg \/ q.having.on \in Aliased(q)
  /\ q.into # None => Len(q.into) = Len(SqlNames(q))

MCQueries ==
  {q \in FindQueries \cup ExprQueries \cup GroupQueries \cup Inserts \cup QualifiedQueries
          \cup JoinQueries \cup ThreeQueries : Valid(q)}

MCDatabases(q) ==
  CASE Len(q.from.joins) = 0 -> {t :> rows : rows \in AloneBags}
    [] Len(q.from.joins) = 1 -> {t :> r @@ u :> s : r \in TBags, s \in UBags}
    [] Len(q.from.joins) = 2 -> {t :> r @@ u :> s @@ v :> w : r \in TBags, s \in UBags, w \in VBags}
=============================================================================
