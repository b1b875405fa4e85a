-------------------------------- MODULE Joins --------------------------------
(***************************************************************************)
(* FROM and JOIN (translator/internal/sel/source.go and the lookup stages  *)
(* of render_aggregate.go): how a tree of joins is planned, the $lookup    *)
(* and $unwind stages it becomes, what MongoDB makes of them, and the rows *)
(* SQL defines.  Only operators: the statements around are in Select.      *)
(*                                                                         *)
(* A source is a table under its alias.  A name is a column, or <<s, c>>   *)
(* for s.c; in a document <<s, c>> is field c of the embedded document s.  *)
(* ON is a sequence of comparisons joined by AND (<<>>: no ON, or USING);  *)
(* OR and arithmetic in ON are left out.  A document may lack a field: the *)
(* INSERT did not name the column and it has no default.                   *)
(***************************************************************************)
EXTENDS Integers, SequencesExt, TLC

CONSTANTS
  Columns,  \* source -> its columns, in their order
  Null,
  None      \* nothing: no alias, no limit, no condition, a missing field

ASSUME ColumnsAssumption ==
  \A s \in DOMAIN Columns : Len(Columns[s]) = Cardinality(ToSet(Columns[s]))

----------------------------------------------------------------------------
(* Names, rows and documents: functions from names to values.              *)

Qualified(n) == \E s \in DOMAIN Columns : \E c \in ToSet(Columns[s]) : n = <<s, c>>
Qualifier(n) == IF Qualified(n) THEN n[1] ELSE None
Leaf(n) == IF Qualified(n) THEN n[2] ELSE n

\* Fields of the main source are at the top of the document.
Path(main, n) == IF Qualifier(n) = main THEN Leaf(n) ELSE n

Raw(r, n) == IF n \in DOMAIN r THEN r[n] ELSE None
Value(r, n) == IF n \in DOMAIN r THEN r[n] ELSE Null
Keep(d, names) == [n \in names \cap DOMAIN d |-> d[n]]
Each(docs, F(_)) == [i \in DOMAIN docs |-> F(docs[i])]

\* A map filled entry by entry: a later entry replaces an earlier one.
MapOf(items, Name(_), Val(_)) ==
  FoldLeft(LAMBDA m, x : (Name(x) :> Val(x)) @@ m, <<>>, items)

\* NULL sorts before every number, in SQL as in BSON.
Less(v, w) == v # w /\ (v = Null \/ (w # Null /\ v < w))

\* In an expression a missing field is less than null.
ExprLess(v, w) == v # w /\ (v = None \/ (w # None /\ Less(v, w)))

----------------------------------------------------------------------------
(* Planning (extractFromPlan).                                             *)

Source(main, joins) == [main |-> main, joins |-> joins]
Join(kind, src, on) == [kind |-> kind, src |-> src, on |-> on]
Compare(left, op, right) == [left |-> left, op |-> op, right |-> right]

\* Only the first of the tables between commas is looked at.
JoinsRead(from) ==
  LET commas == {i \in DOMAIN from.joins : from.joins[i].kind = "comma"}
  IN  IF commas = {} THEN from.joins ELSE SubSeq(from.joins, 1, Min(commas) - 1)

\* The other statements are refused.
Plannable(from) ==
  \A i \in DOMAIN JoinsRead(from) :
    from.joins[i].on # <<>> /\ (from.joins[i].kind = "right" => i = 1)

\* Variant: a RIGHT JOIN planned as a LEFT JOIN of the tables as they stand.
FromPlanUnswapped(from) ==
  [main |-> from.main,
   joins |-> Each(JoinsRead(from), LAMBDA j : [src |-> j.src, on |-> j.on, outer |-> j.kind # "inner"])]
\* A RIGHT JOIN B is B LEFT JOIN A.
FromPlan(from) ==
  LET joins == Each(JoinsRead(from),
                    LAMBDA j : [src |-> j.src, on |-> j.on, outer |-> j.kind # "inner"])
  IN  IF joins # <<>> /\ from.joins[1].kind = "right"
        THEN [main |-> joins[1].src, joins |-> [joins EXCEPT ![1].src = from.main]]
        ELSE [main |-> from.main, joins |-> joins]

EquiJoin(on) == Len(on) = 1 /\ on[1].op = "="

\* The field of the left document and the one of the joined collection.
JoinOnFields(cmp, left, right) ==
  IF Qualifier(cmp.left) = right /\ Qualifier(cmp.right) \in {left, None}
    THEN <<cmp.right, cmp.left>> ELSE <<cmp.left, cmp.right>>

----------------------------------------------------------------------------
(* Rendering (buildLookupStage).                                           *)

\* In the pipeline form the fields of the left document are passed as variables
\* that have the column's name only.
LetVars(j, main) ==
  MapOf(SelectSeq(FlattenSeq(Each(j.on, LAMBDA c : <<c.left, c.right>>)),
                  LAMBDA n : Qualifier(n) # j.src),
        Leaf, LAMBDA n : Path(main, n))

JoinOnExpr(j) ==
  LET Operand(n) == [own |-> Qualifier(n) = j.src, name |-> Leaf(n)]
  IN  Each(j.on, LAMBDA c : Compare(Operand(c.left), c.op, Operand(c.right)))

LookupStage(j, main) ==
  IF EquiJoin(j.on)
    THEN LET fields == JoinOnFields(j.on[1], main, j.src)
         IN  [op |-> "$lookup", from |-> j.src, equi |-> TRUE,
              local |-> Leaf(fields[1]), foreign |-> Leaf(fields[2])]
    ELSE [op |-> "$lookup", from |-> j.src, equi |-> FALSE,
          let |-> LetVars(j, main), cond |-> JoinOnExpr(j)]

\* Variant: $unwind drops the rows without a partner.
LookupStagesInner(plan) ==
  FlattenSeq(Each(plan.joins, LAMBDA j :
    <<LookupStage(j, plan.main), [op |-> "$unwind", path |-> j.src, outer |-> FALSE]>>))
LookupStages(plan) ==
  FlattenSeq(Each(plan.joins, LAMBDA j :
    <<LookupStage(j, plan.main), [op |-> "$unwind", path |-> j.src, outer |-> j.outer]>>))

----------------------------------------------------------------------------
(* MongoDB.                                                                *)

ExprHolds(op, v, w) ==
  CASE op = "=" -> v = w
    [] op = "<>" -> v # w
    [] op = "<" -> ExprLess(v, w)
    [] op = "<=" -> ~ExprLess(w, v)

\* localField and foreignField take a missing field for null.
LookupMatches(st, d, f) ==
  IF st.equi THEN Value(d, st.local) = Value(f, st.foreign)
  ELSE LET Operand(o) == IF o.own THEN Raw(f, o.name) ELSE Raw(d, st.let[o.name])
       IN  \A i \in DOMAIN st.cond :
             ExprHolds(st.cond[i].op, Operand(st.cond[i].left), Operand(st.cond[i].right))

Lookup(st, docs, db) ==
  Each(docs, LAMBDA d :
    (st.from :> SelectSeq(db[st.from], LAMBDA f : LookupMatches(st, d, f))) @@ d)

Embed(s, f) == [n \in {s} \X DOMAIN f |-> f[n[2]]]

Unwind(st, docs) ==
  LET Rest(d) == Keep(d, DOMAIN d \ {st.path})
      Rows(d) == IF d[st.path] = <<>> /\ st.outer THEN <<Rest(d)>>
                 ELSE Each(d[st.path], LAMBDA f : Embed(st.path, f) @@ Rest(d))
  IN  FlattenSeq(Each(docs, Rows))

----------------------------------------------------------------------------
(* SQL: the rows of FROM.                                                  *)

SqlHolds(op, v, w) ==
  /\ v # Null /\ w # Null
  /\ CASE op = "=" -> v = w
       [] op = "<>" -> v # w
       [] op = "<" -> v < w
       [] op = "<=" -> v <= w

\* A column that only one of the tables has can go without its qualifier.
Scope(row) ==
  LET Owners(c) == {n \in DOMAIN row : n[2] = c}
      plain == {c \in {n[2] : n \in DOMAIN row} : Cardinality(Owners(c)) = 1}
  IN  row @@ [c \in plain |-> row[CHOOSE n \in Owners(c) : TRUE]]

SqlOn(on, row) ==
  LET r == Scope(row)
  IN  \A i \in DOMAIN on : SqlHolds(on[i].op, r[on[i].left], r[on[i].right])

\* What a document lacks is NULL.
SqlRows(s, db) ==
  Each(db[s], LAMBDA d : [n \in {s} \X ToSet(Columns[s]) |-> Value(d, n[2])])

\* The pairs of rows that ON accepts; the outer table also has its rows
\* without a partner.
SqlJoin(left, j, db) ==
  LET right == SqlRows(j.src, db)
      Partners(l) == SelectSeq(right, LAMBDA f : SqlOn(j.on, l @@ f))
      Nulls(names) == [n \in names |-> Null]
      Pairs(l) == IF Partners(l) = <<>> /\ j.kind = "left"
                    THEN <<l @@ Nulls({j.src} \X ToSet(Columns[j.src]))>>
                    ELSE Each(Partners(l), LAMBDA f : l @@ f)
      Lonely(f) == \A i \in DOMAIN left.rows : ~SqlOn(j.on, left.rows[i] @@ f)
  IN  [names |-> left.names \cup ({j.src} \X ToSet(Columns[j.src])),
       rows |-> FlattenSeq(Each(left.rows, Pairs))
                \o IF j.kind # "right" THEN <<>>
                   ELSE Each(SelectSeq(right, Lonely), LAMBDA f : f @@ Nulls(left.names))]

SqlFrom(from, db) ==
  LET first == [names |-> {from.main} \X ToSet(Columns[from.main]),
                rows |-> SqlRows(from.main, db)]
  IN  Each(FoldLeft(LAMBDA left, j : SqlJoin(left, j, db), first, from.joins).rows, Scope)

----------------------------------------------------------------------------
(* The joins that are translated as SQL has them.                          *)

ColumnOf(s, n) == Path(s, n) \in ToSet(Columns[s])
HasNull(db, s, c) == \E i \in DOMAIN db[s] : Value(db[s][i], c) = Null
Lacks(db, s, c) == \E i \in DOMAIN db[s] : c \notin DOMAIN db[s][i]

\* An equi-join reads its left column from the main table whatever its
\* qualifier, and pairs NULL with NULL.
EquiSupported(j, main, db) ==
  LET fields == JoinOnFields(j.on[1], main, j.src)
  IN  /\ ColumnOf(main, fields[1]) /\ ColumnOf(j.src, fields[2])
      /\ ~(HasNull(db, main, Leaf(fields[1])) /\ HasNull(db, j.src, Leaf(fields[2])))

\* Columns of one name in two left tables share a variable, an unqualified
\* column is the main table's, and NULL compares like a value.
ExprSupported(j, plan, db) ==
  LET names == UNION {{j.on[i].left, j.on[i].right} : i \in DOMAIN j.on}
      left == {n \in names : Qualifier(n) # j.src}
  IN  /\ \A n, m \in left : Leaf(n) = Leaf(m) => Path(plan.main, n) = Path(plan.main, m)
      /\ \A n \in names :
           ~HasNull(db, IF Qualified(n) THEN Qualifier(n) ELSE plan.main, Leaf(n))
      /\ \A n \in left :
           \/ ColumnOf(plan.main, n)
           \/ \E k \in DOMAIN plan.joins : plan.joins[k].src = Qualifier(n) /\ ~plan.joins[k].outer

JoinsSupported(from, db) ==
  LET plan == FromPlan(from)
  IN  /\ JoinsRead(from) = from.joins
      /\ \A i \in DOMAIN plan.joins :
           LET j == plan.joins[i]
           IN  IF EquiJoin(j.on) THEN EquiSupported(j, plan.main, db)
                                 ELSE ExprSupported(j, plan, db)
=============================================================================
