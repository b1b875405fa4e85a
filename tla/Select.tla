------------------------------- MODULE Select -------------------------------
(***************************************************************************)
(* SELECT and INSERT ... SELECT: from the parsed statement to a Find, a    *)
(* Distinct or an aggregation pipeline (translator/internal/sel,           *)
(* write.insertSelect), and what MongoDB and the driver make of it         *)
(* (driver.execFind, execAggregate, execInsertSelect).  FROM and its joins *)
(* are the module Joins.                                                   *)
(*                                                                         *)
(* Whatever SQL or MongoDB leaves open (the order of rows that compare     *)
(* equal, of groups, of the keys of a Go map) is a set of outcomes.        *)
(*                                                                         *)
(* Values are integers and NULL; a condition is "name > n", for the module *)
(* Where has the others; the expression in a SELECT list is column + 1.    *)
(* AVG, the field _id, and expressions without an alias over qualified     *)
(* names are left out.                                                     *)
(***************************************************************************)
EXTENDS Joins

CONSTANTS
  Star,          \* the argument of COUNT(*)
  Queries,
  Databases(_)   \* what the tables of a query may hold

VARIABLES
  query,   \* the statement as parsed
  tables,  \* source -> the rows of its collection
  stmt,    \* its translation
  result,  \* the documents the driver reads
  answer,  \* what the client gets
  target,  \* the documents INSERT ... SELECT adds
  phase

vars == <<query, tables, stmt, result, answer, target, phase>>

----------------------------------------------------------------------------
(* Statements as the parser delivers them.                                 *)

Field(c, as) == [is |-> "field", arg |-> c, as |-> as]
Plus(c, as) == [is |-> "expr", arg |-> c, as |-> as]
Agg(fn, c, distinct, as) ==
  [is |-> "agg", fn |-> fn, arg |-> c, distinct |-> distinct, as |-> as]

Gt(on, n) == [on |-> on, n |-> n]
HavingAgg(agg, n) == [agg |-> TRUE, on |-> agg, n |-> n]
HavingAlias(as, n) == [agg |-> FALSE, on |-> as, n |-> n]
Key(on, desc) == [on |-> on, desc |-> desc]

HasAgg(q) == \E i \in DOMAIN q.items : q.items[i].is = "agg"
HasExpr(q) == \E i \in DOMAIN q.items : q.items[i].is = "expr"
Grouped(q) == HasAgg(q) \/ q.group # <<>>

----------------------------------------------------------------------------
(* Conditions, orders and groups.                                          *)

Holds(r, c) == Value(r, c.on) # Null /\ Value(r, c.on) > c.n
Select(rows, c) == IF c = None THEN rows ELSE SelectSeq(rows, LAMBDA r : Holds(r, c))
Add1(v) == IF v = Null THEN Null ELSE v + 1

Before(r, s, keys) ==
  \E i \in DOMAIN keys :
    LET first == Value(r, keys[i].on)
        second == Value(s, keys[i].on)
    IN  /\ \A j \in 1..(i - 1) : Value(r, keys[j].on) = Value(s, keys[j].on)
        /\ IF keys[i].desc THEN Less(second, first) ELSE Less(first, second)

\* Every order of rows that sorting them by keys allows.
Sorts(rows, keys) ==
  {s \in {[i \in DOMAIN rows |-> rows[p[i]]] : p \in Permutations(DOMAIN rows)} :
     \A i \in DOMAIN s : \A j \in 1..(i - 1) : ~Before(s[i], s[j], keys)}

Skip(rows, n) == SubSeq(rows, n + 1, Len(rows))
Limit(rows, n) == SubSeq(rows, 1, Min({n, Len(rows)}))

\* The rows that agree with r on the names in by; a missing field is not null.
GroupOf(rows, r, by) == SelectSeq(rows, LAMBDA s : \A n \in by : Raw(s, n) = Raw(r, n))
Groups(rows, by) == {GroupOf(rows, r, by) : r \in ToSet(rows)}

Numbers(values) == SelectSeq(values, LAMBDA v : v # Null)
Sum(values) == FoldLeft(LAMBDA s, v : s + v, 0, Numbers(values))
Least(values) == IF Numbers(values) = <<>> THEN Null ELSE Min(ToSet(Numbers(values)))
Greatest(values) == IF Numbers(values) = <<>> THEN Null ELSE Max(ToSet(Numbers(values)))

----------------------------------------------------------------------------
(* Translation (sel.Plan, sel.Render).                                     *)

Main(q) == FromPlan(q.from).main
At(q, n) == Path(Main(q), n)

UseAggregation(q) ==
  \/ q.from.joins # <<>>
  \/ HasAgg(q) \/ q.group # <<>> \/ q.having # None \/ HasExpr(q)
  \/ q.distinct /\ Len(q.items) > 1

\* Variant: LIMIT 0 taken for no limit.
EmptyNever(q) == FALSE
\* LIMIT 0 selects nothing; for MongoDB a limit of 0 is no limit.
Empty(q) == q.limit = 0

\* Aliases are not part of a Find, which takes every name as it is written; a
\* DISTINCT of one column is a command of its own.
BuildFind(q) ==
  [is |-> "find",
   from |-> q.from.main,
   filter |-> q.where,
   projection |-> IF q.star THEN ToSet(Columns[q.from.main]) ELSE {q.items[i].arg : i \in DOMAIN q.items},
   sort |-> q.order,
   limit |-> IF q.limit = None THEN 0 ELSE q.limit,
   skip |-> q.offset,
   empty |-> Empty(q),
   distinct |-> IF q.distinct /\ Len(q.items) = 1 /\ ~q.star THEN q.items[1].arg ELSE None]

AggResultName(q, it) == IF it.as # None THEN it.as ELSE <<it.fn, At(q, it.arg)>>
AggDefault(it) == IF it.fn = "COUNT" THEN 0 ELSE Null

IsDistinctAgg(it) == it.distinct /\ it.arg # Star

\* What $group computes for an aggregate over the documents of a group.
Accumulate(it, docs) ==
  LET values == [i \in DOMAIN docs |-> Value(docs[i], it.arg)]
  IN  CASE IsDistinctAgg(it) -> ToSet(values)
        [] ~IsDistinctAgg(it) /\ it.fn = "COUNT" ->
             Len(IF it.arg = Star THEN values ELSE Numbers(values))
        [] ~IsDistinctAgg(it) /\ it.fn = "SUM" -> Sum(values)
        [] ~IsDistinctAgg(it) /\ it.fn = "MIN" -> Least(values)
        [] ~IsDistinctAgg(it) /\ it.fn = "MAX" -> Greatest(values)

\* What the $project after it makes of a value set.
DistinctProjection(fn, set) ==
  LET values == SetToSeq(set \ {Null})
  IN  CASE fn = "COUNT" -> Len(values)
        [] fn = "SUM" -> Sum(values)
        [] fn = "MIN" -> Least(values)
        [] fn = "MAX" -> Greatest(values)

ProjectAgg(it, docs) ==
  IF IsDistinctAgg(it) THEN DistinctProjection(it.fn, Accumulate(it, docs))
                       ELSE Accumulate(it, docs)

\* An aggregate in HAVING is found in the SELECT list by its text, or else
\* computed under a name of its own and dropped again.
HavingName(q) ==
  LET same == {i \in DOMAIN q.items : [q.items[i] EXCEPT !.as = None] = q.having.on}
  IN  IF ~q.having.agg THEN q.having.on
      ELSE IF same = {} THEN <<"__hv_0">> ELSE AggResultName(q, q.items[Max(same)])

HavingOnly(q) == q.having # None /\ HavingName(q) = <<"__hv_0">>

\* The aggregates of $group: output name to aggregate.
BuildGroup(q) ==
  LET Located(it) == [it EXCEPT !.arg = At(q, @)]
  IN  MapOf(SelectSeq(q.items, LAMBDA it : it.is = "agg"),
            LAMBDA it : AggResultName(q, it), Located)
      @@ IF HavingOnly(q) THEN <<"__hv_0">> :> Located(q.having.on) ELSE <<>>

\* The stage takes the $project that follows $group and, without GROUP BY, the
\* $facet around both with it.
GroupStages(q) ==
  <<[op |-> "$group", by |-> MapOf(q.group, Leaf, LAMBDA n : At(q, n)),
     accs |-> BuildGroup(q)]>>
  \o IF q.having = None THEN <<>>
     ELSE <<[op |-> "$match", if |-> Gt(HavingName(q), q.having.n)]>>
          \o IF HavingOnly(q) THEN <<[op |-> "$drop", name |-> <<"__hv_0">>]>> ELSE <<>>

\* A $sort document is a Go map: its keys have no order.
SortStage(main, order) ==
  IF order = <<>> THEN <<>>
  ELSE <<[op |-> "$sort",
          keys |-> MapOf(order, LAMBDA o : Path(main, o.on), LAMBDA o : o.desc)]>>

\* Variant: the page is cut off before its offset.
PageStagesSwapped(skip, limit) ==
  (IF limit > 0 THEN <<[op |-> "$limit", n |-> limit]>> ELSE <<>>)
  \o IF skip > 0 THEN <<[op |-> "$skip", n |-> skip]>> ELSE <<>>
PageStages(skip, limit) ==
  (IF skip > 0 THEN <<[op |-> "$skip", n |-> skip]>> ELSE <<>>)
  \o IF limit > 0 THEN <<[op |-> "$limit", n |-> limit]>> ELSE <<>>

MatchStage(main, c) ==
  IF c = None THEN <<>> ELSE <<[op |-> "$match", if |-> [c EXCEPT !.on = Path(main, @)]]>>

\* A joined column gets its table's name as a prefix where a dot was.
Dotless(n) == IF Qualified(n) THEN <<"_">> \o n ELSE n

\* Variant: a joined column takes the name of one that is there.
OutNameTaken(q, m, it) ==
  IF it.as # None THEN it.as
  ELSE IF it.is = "expr" THEN <<"expr", it.arg>> ELSE Leaf(it.arg)
\* The text of an expression is its name if it has no alias; a column whose
\* name or alias is taken goes by its path.
OutName(q, m, it) ==
  LET name == IF it.as = None THEN Leaf(it.arg) ELSE it.as
  IN  CASE it.is = "expr" -> IF it.as = None THEN <<"expr", it.arg>> ELSE it.as
        [] it.is = "field" -> IF name \in DOMAIN m THEN Dotless(At(q, it.arg)) ELSE name

FinalProject(q) ==
  IF Grouped(q) \/ q.star THEN <<>>
  ELSE <<[op |-> "$project",
          out |-> FoldLeft(LAMBDA m, it : (OutName(q, m, it) :> [it EXCEPT !.arg = At(q, @)]) @@ m,
                           <<>>, q.items)]>>

BuildAggregate(q) ==
  [is |-> "aggregate",
   from |-> Main(q),
   empty |-> Empty(q),
   pipeline |->
     IF Empty(q) THEN <<>>
     ELSE LookupStages(FromPlan(q.from))
          \o MatchStage(Main(q), q.where)
          \o (IF Grouped(q) THEN GroupStages(q) ELSE <<>>)
          \o SortStage(Main(q), q.order)
          \o PageStages(q.offset, IF q.limit = None THEN 0 ELSE q.limit)
          \o FinalProject(q)]

Render(q) == IF UseAggregation(q) THEN BuildAggregate(q) ELSE BuildFind(q)

\* A Find becomes a pipeline; its Empty and Distinct are not looked at.
InsertSelect(q) ==
  LET s == Render(q)
  IN  [is |-> "insertSelect", from |-> s.from, cols |-> q.into,
       pipeline |->
         IF s.is = "aggregate" THEN s.pipeline
         ELSE MatchStage(None, s.filter) \o <<[op |-> "$keep", names |-> s.projection]>>
              \o SortStage(None, s.sort) \o PageStages(s.skip, s.limit)]

----------------------------------------------------------------------------
(* MongoDB: the outcomes of a stage, a pipeline and a Find.                *)

GroupDoc(by, accs, docs) ==
  [n \in DOMAIN accs |-> ProjectAgg(accs[n], docs)]
  @@ [n \in {k \in DOMAIN by : Raw(docs[1], by[k]) # None} |-> docs[1][by[n]]]

\* No outcome: MongoDB refuses a field of $group whose name has a dot.
GroupStage(st, docs) ==
  LET paths == {st.by[n] : n \in DOMAIN st.by}
      Dotted(n) == Qualified(st.accs[n].arg) /\ n = <<st.accs[n].fn, st.accs[n].arg>>
  IN  IF \E n \in DOMAIN st.accs : Dotted(n) THEN {}
      ELSE IF docs = <<>> /\ paths = {}
        THEN {<< [n \in DOMAIN st.accs |-> AggDefault(st.accs[n])] >>}
        ELSE Sorts(SetToSeq({GroupDoc(st.by, st.accs, g) : g \in Groups(docs, paths)}), <<>>)

ProjectValue(it, d) ==
  IF it.is = "field" THEN Value(d, it.arg) ELSE Add1(Value(d, it.arg))

\* A field that is not there is not projected.
Project(out, d) ==
  [n \in {k \in DOMAIN out : out[k].is = "field" => out[k].arg \in DOMAIN d} |->
     ProjectValue(out[n], d)]

Stage(st, docs, db) ==
  CASE st.op = "$lookup" -> {Lookup(st, docs, db)}
    [] st.op = "$unwind" -> {Unwind(st, docs)}
    [] st.op = "$match" -> {Select(docs, st.if)}
    [] st.op = "$group" -> GroupStage(st, docs)
    [] st.op = "$drop" -> {Each(docs, LAMBDA d : Keep(d, DOMAIN d \ {st.name}))}
    [] st.op = "$keep" -> {Each(docs, LAMBDA d : Keep(d, st.names))}
    [] st.op = "$project" ->
         {Each(docs, LAMBDA d : Project(st.out, d))}
    [] st.op = "$sort" ->
         UNION {Sorts(docs, Each(ns, LAMBDA n : Key(n, st.keys[n]))) :
                  ns \in SetToSeqs(DOMAIN st.keys)}
    [] st.op = "$skip" -> {Skip(docs, st.n)}
    [] st.op = "$limit" -> {Limit(docs, st.n)}

Outcomes(s, db) ==
  FoldLeft(LAMBDA outs, st : UNION {Stage(st, o, db) : o \in outs}, {db[s.from]}, s.pipeline)

DistinctOutcomes(s, docs) ==
  SetToSeqs({s.distinct :> d[s.distinct] :
               d \in {e \in ToSet(Select(docs, s.filter)) : s.distinct \in DOMAIN e}})

FindOutcomes(s, docs) ==
  {Each(IF s.limit > 0 THEN Limit(Skip(o, s.skip), s.limit) ELSE Skip(o, s.skip),
        LAMBDA d : Keep(d, s.projection)) :
     o \in Sorts(Select(docs, s.filter), s.sort)}

----------------------------------------------------------------------------
(* The driver.                                                             *)

\* One row of an INSERT ... SELECT: each column takes the field of its name,
\* or else whichever field ranging over the map yields, which is then removed;
\* i counts the columns and is compared with what is left of the map.
MapColumn(m, col) ==
  CASE col \in DOMAIN m.raw ->
         {[m EXCEPT !.doc = (col :> m.raw[col]) @@ m.doc, !.i = m.i + 1]}
    [] col \notin DOMAIN m.raw /\ m.i < Cardinality(DOMAIN m.raw) ->
         {[doc |-> (col :> m.raw[k]) @@ m.doc,
           raw |-> Keep(m.raw, DOMAIN m.raw \ {k}), i |-> m.i + 1] : k \in DOMAIN m.raw}
    [] OTHER -> {[m EXCEPT !.i = m.i + 1]}

MapRow(raw, cols) ==
  {m.doc : m \in FoldLeft(LAMBDA ms, col : UNION {MapColumn(m, col) : m \in ms},
                          {[doc |-> <<>>, raw |-> raw, i |-> 0]}, cols)}

Translate ==
  /\ phase = "parsed" /\ Plannable(query.from)
  /\ stmt' = IF query.into = None THEN Render(query) ELSE InsertSelect(query)
  /\ phase' = "translated"
  /\ UNCHANGED <<query, tables, result, answer, target>>

ExecFind ==
  /\ phase = "translated" /\ stmt.is = "find"
  /\ result' \in IF stmt.empty THEN {<<>>}
                 ELSE IF stmt.distinct # None THEN DistinctOutcomes(stmt, tables[stmt.from])
                 ELSE FindOutcomes(stmt, tables[stmt.from])
  /\ phase' = "done"
  /\ UNCHANGED <<query, tables, stmt, answer, target>>

ExecAggregate ==
  /\ phase = "translated" /\ stmt.is = "aggregate"
  /\ result' \in IF stmt.empty THEN {<<>>} ELSE Outcomes(stmt, tables)
  /\ phase' = "done"
  /\ UNCHANGED <<query, tables, stmt, answer, target>>

ExecInsertSelect ==
  /\ phase = "translated" /\ stmt.is = "insertSelect"
  /\ \E rows \in Outcomes(stmt, tables) :
       target' \in {docs \in [DOMAIN rows -> UNION {MapRow(r, stmt.cols) : r \in ToSet(rows)}] :
                      \A i \in DOMAIN rows : docs[i] \in MapRow(rows[i], stmt.cols)}
  /\ phase' = "done"
  /\ UNCHANGED <<query, tables, stmt, result, answer>>

\* The columns of an answer are those that some document has, in alphabetical
\* order; without any there is one named "(empty)".
CollectColumns(rows) ==
  LET cols == UNION {DOMAIN rows[i] : i \in DOMAIN rows}
  IN  IF cols = {} THEN {<<"(empty)">>} ELSE cols

Reply ==
  /\ phase = "done"
  /\ answer' =
       IF stmt.is = "insertSelect" THEN [affected |-> Len(target)]
       ELSE LET cols == CollectColumns(result)
            IN  [cols |-> cols,
                 rows |-> Each(result, LAMBDA d : [n \in cols |-> Value(d, n)])]
  /\ phase' = "answered"
  /\ UNCHANGED <<query, tables, stmt, result, target>>

Init ==
  /\ query \in Queries /\ tables \in Databases(query)
  /\ stmt = None /\ result = <<>> /\ answer = None
  /\ target = <<>> /\ phase = "parsed"

Next == Translate \/ ExecFind \/ ExecAggregate \/ ExecInsertSelect \/ Reply

Spec == Init /\ [][Next]_vars

----------------------------------------------------------------------------
(* SQL: the answers the standard allows.                                   *)

\* The columns of the answer, named as this program names them.
SqlName(it) ==
  IF it.as # None THEN it.as
  ELSE CASE it.is = "field" -> Leaf(it.arg)
         [] it.is = "expr" -> <<"expr", it.arg>>
         [] it.is = "agg" -> <<it.fn, Leaf(it.arg)>>

\* Of two joined columns of one name the second is qualified.
Clash(q, i) ==
  /\ q.items[i].is = "field" /\ q.items[i].as = None
  /\ \E j \in 1..(i - 1) : SqlName(q.items[j]) = SqlName(q.items[i])

SqlNames(q) ==
  IF q.star THEN Columns[q.from.main]
  ELSE [i \in DOMAIN q.items |->
          IF Clash(q, i) THEN Dotless(q.items[i].arg) ELSE SqlName(q.items[i])]

\* An aggregate ignores NULL, and without a value only COUNT has a result.
SqlAgg(it, rows) ==
  LET all == Numbers([i \in DOMAIN rows |-> Value(rows[i], it.arg)])
      values == IF it.distinct THEN SetToSeq(ToSet(all)) ELSE all
  IN  CASE it.arg = Star -> Len(rows)
        [] it.arg # Star /\ it.fn = "COUNT" -> Len(values)
        [] it.arg # Star /\ it.fn # "COUNT" /\ values = <<>> -> Null
        [] it.arg # Star /\ it.fn = "SUM" /\ values # <<>> -> Sum(values)
        [] it.arg # Star /\ it.fn = "MIN" /\ values # <<>> -> Least(values)
        [] it.arg # Star /\ it.fn = "MAX" /\ values # <<>> -> Greatest(values)

SqlItem(it, rows) ==
  IF it.is = "agg" THEN SqlAgg(it, rows) ELSE ProjectValue(it, rows[1])

\* The rows that make one row of the answer.
SqlSources(q, rows) ==
  CASE ~Grouped(q) -> [i \in DOMAIN rows |-> <<rows[i]>>]
    [] Grouped(q) /\ q.group = <<>> -> <<rows>>
    [] Grouped(q) /\ q.group # <<>> -> SetToSeq(Groups(rows, ToSet(q.group)))

SqlRow(q, rows) ==
  IF q.star THEN rows[1]
  ELSE MapOf([i \in DOMAIN q.items |-> i],
             LAMBDA i : SqlNames(q)[i], LAMBDA i : SqlItem(q.items[i], rows))

\* HAVING and ORDER BY see the answer's columns and, behind them, the table's.
Visible(q, rows) == SqlRow(q, rows) @@ IF rows = <<>> THEN <<>> ELSE rows[1]

SqlHaving(q, rows) ==
  \/ q.having = None
  \/ q.having.agg /\ Holds(<<None>> :> SqlAgg(q.having.on, rows), Gt(<<None>>, q.having.n))
  \/ ~q.having.agg /\ Holds(Visible(q, rows), q.having)

SqlAnswers(q, db) ==
  LET sources == SelectSeq(SqlSources(q, Select(SqlFrom(q.from, db), q.where)),
                           LAMBDA g : SqlHaving(q, g))
      wide == Each(sources, LAMBDA g : Visible(q, g))
      named == Each(wide, LAMBDA r : Keep(r, ToSet(SqlNames(q))))
      from == IF q.distinct THEN SetToSeq(ToSet(named)) ELSE wide
      page(s) == IF q.limit = None THEN Skip(s, q.offset)
                                   ELSE Limit(Skip(s, q.offset), q.limit)
  IN  {Each(page(s), LAMBDA r : Keep(r, ToSet(SqlNames(q)))) : s \in Sorts(from, q.order)}

\* INSERT ... SELECT pairs the columns of the two lists by position.
SqlInserts(q, db) ==
  {Each(s, LAMBDA r : [c \in ToSet(q.into) |->
                         r[SqlNames(q)[CHOOSE i \in DOMAIN q.into : q.into[i] = c]]]) :
     s \in SqlAnswers(q, db)}

----------------------------------------------------------------------------
(* The statements that are translated as SQL has them.  Each condition     *)
(* names one known difference.                                             *)

Aliased(q) == {q.items[i].as : i \in {j \in DOMAIN q.items : q.items[j].as # None}}
Ordered(q) == {q.order[i].on : i \in DOMAIN q.order}
Apart(s) == \A i, j \in DOMAIN s : i # j => s[i] # s[j]

\* The columns a statement names apart from its aliases.
Named(q) ==
  ({q.items[i].arg : i \in DOMAIN q.items} \cup ToSet(q.group) \cup Ordered(q)
   \cup IF q.where = None THEN {} ELSE {q.where.on}) \ (Aliased(q) \cup {Star})

\* A Find ignores aliases and takes the qualifier for a field; a Distinct
\* ignores ORDER BY, LIMIT, OFFSET and documents without the field.
FindSupported(q, db) ==
  /\ Aliased(q) = {} /\ \A n \in Named(q) : ~Qualified(n)
  /\ q.distinct => /\ ~q.star /\ q.order = <<>> /\ q.limit \in {None, 0} /\ q.offset = 0
                   /\ ~Lacks(db, Main(q), q.items[1].arg)

\* A pipeline ignores DISTINCT, sorts before it names expressions, and sorts
\* by several keys in any order of them.
PipelineSupported(q) ==
  ~q.distinct /\ Len(q.order) <= 1 /\ Ordered(q) \cap Aliased(q) = {}

\* $group answers with every column of GROUP BY under its own name, without
\* expressions, sums nothing but NULL to 0, and tells the NULL of a field that is
\* not there from another.
GroupSupported(q, db) ==
  LET fields == {j \in DOMAIN q.items : q.items[j].is = "field"}
      aggs == {j \in DOMAIN q.items : q.items[j].is = "agg"}
      rows == Select(SqlFrom(q.from, db), q.where)
  IN  /\ ~q.distinct /\ Len(q.order) <= 1 /\ Ordered(q) \subseteq ToSet(SqlNames(q))
      /\ ~HasExpr(q)
      /\ ToSet(q.group) = {q.items[i].arg : i \in fields}
      /\ \A i \in fields : q.items[i].as = None
      /\ \A i \in aggs : \A g \in Groups(rows, ToSet(q.group)) :
            q.items[i].fn = "SUM" => SqlAgg(q.items[i], g) # Null
      /\ \A n \in ToSet(q.group) :
           LET s == IF Qualified(n) THEN Qualifier(n) ELSE Main(q)
           IN  \/ \A i \in DOMAIN db[s] : Raw(db[s][i], Leaf(n)) # Null
               \/ s = Main(q) /\ ~Lacks(db, s, Leaf(n))

\* Rows of a join have the joined rows inside; a column without qualifier is the
\* main table's, and of two joined columns of one name the main table's loses
\* the other one if it comes second.
JoinSupported(q, db) ==
  /\ ~q.star /\ JoinsSupported(q.from, db)
  /\ \A n \in Named(q) : Qualified(n) \/ ColumnOf(Main(q), n)
  /\ \A i \in DOMAIN q.items : Clash(q, i) => Qualifier(At(q, q.items[i].arg)) # None

\* A row is a map: of two columns of one name it has one.
Supported(q, db) ==
  /\ Apart(SqlNames(q))
  /\ q.from.joins # <<>> => JoinSupported(q, db)
  /\ ~UseAggregation(q) => FindSupported(q, db)
  /\ UseAggregation(q) /\ ~Grouped(q) => q.having = None /\ PipelineSupported(q)
  /\ Grouped(q) => GroupSupported(q, db)

\* Columns go by name, and one that is not there takes the value of another;
\* LIMIT 0 and DISTINCT are lost, and rows are sorted after columns are dropped.
InsertSupported(q, db) ==
  /\ Supported(q, db) /\ (q.into = SqlNames(q) \/ Len(q.into) = 1)
  /\ \A n \in ToSet(SqlNames(q)) \cap ToSet(Columns[Main(q)]) : ~Lacks(db, Main(q), n)
  /\ q.limit # 0 /\ ~q.distinct /\ Len(q.order) <= 1
  /\ Ordered(q) \subseteq ToSet(SqlNames(q))

----------------------------------------------------------------------------
(* Properties.                                                             *)

\* A supported SELECT answers with an answer of SQL: filtering, grouping, the
\* aggregates over NULL and over nothing, HAVING, DISTINCT, the order and the
\* page come out of the Find, the Distinct or the pipeline as SQL defines them,
\* over one table as over joined ones.  A column no row has is not there.
SelectIsSql ==
  phase = "answered" /\ query.into = None /\ Supported(query, tables) =>
    LET names == ToSet(SqlNames(query))
    IN  /\ Each(answer.rows, LAMBDA r : [n \in names |-> Value(r, n)])
             \in SqlAnswers(query, tables)
        /\ answer.cols \subseteq names \cup {<<"(empty)">>}

\* A supported INSERT ... SELECT adds what its SELECT answers, column by column.
InsertIsSql ==
  phase = "answered" /\ query.into # None /\ InsertSupported(query, tables) =>
    target \in SqlInserts(query, tables) /\ answer.affected = Len(target)

\* doc/sql-subset.md: a SELECT that computes an expression can be ordered by
\* the alias of that expression.
OrderedByAlias ==
  phase = "done" /\ HasExpr(query) /\ Ordered(query) \subseteq Aliased(query) =>
    \A i \in DOMAIN result : \A j \in 1..(i - 1) :
      ~Before(result[i], result[j], query.order)
=============================================================================
