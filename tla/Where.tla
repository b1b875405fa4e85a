------------------------------- MODULE Where -------------------------------
(***************************************************************************)
(* Conditions: from SQL to MongoDB (translator/internal/expr).             *)
(*                                                                         *)
(* A condition in a WHERE clause becomes a filter (TranslateWhere, which   *)
(* pushes NOT down to the leaves); in a CASE it becomes an aggregation     *)
(* expression (toAggExprInner).  SQL's conditions have three values,       *)
(* MongoDB's two, and a MongoDB document can lack a field where a row has  *)
(* NULL.  The module compares both translations with SQL.                  *)
(*                                                                         *)
(* A filter or expression is the set of documents it holds for: $and is    *)
(* the intersection.  A pattern is the set of strings it matches.  Columns *)
(* have a type; comparing values of different types, which SQL converts,   *)
(* is left out.                                                            *)
(***************************************************************************)
EXTENDS Integers

CONSTANTS
  NumberCols, StringCols, BoolCols,  \* columns
  Numbers, Strings,                  \* values
  False, True, Null, Missing,        \* Missing: the document lacks the field
  Rank,                              \* a value's place in BSON's order over all types
  Names,                             \* the column a text names that begins with "$", or Missing
  Conditions,                        \* the conditions clients send, and their parts
  Depth                              \* of a condition's parse tree

VARIABLES
  where,   \* the condition
  found,   \* the documents its filter selects
  taken,   \* the documents for which CASE WHEN takes the branch
  phase

vars == <<where, found, taken, phase>>

Cols == NumberCols \cup StringCols \cup BoolCols
Booleans == {False, True}
Values == Numbers \cup Strings \cup Booleans \cup {Null, Missing}

\* The values of a column's type.
Domain(c) ==
  IF c \in NumberCols THEN Numbers ELSE IF c \in StringCols THEN Strings ELSE Booleans

Docs ==
  {d \in [Cols -> Values] : \A c \in Cols : d[c] \in Domain(c) \cup {Null, Missing}}

\* MongoDB compares values of different types too; a missing field comes first.
ASSUME OrderAssumption ==
  /\ Missing # Null /\ {Null, Missing} \cap (Numbers \cup Strings \cup Booleans) = {}
  /\ Rank \in [Values -> Int]
  /\ \A v, w \in Values : Rank[v] = Rank[w] => v = w
  /\ \A v \in Values \ {Missing} : Rank[Missing] < Rank[v]
  /\ \A v \in Values \ {Missing, Null} : Rank[Null] < Rank[v]

\* In an expression "$x" is the field x; a text may also name no field.  "$" alone
\* and "$$...", at which MongoDB may fail, are left out.
ASSUME NamesAssumption ==
  /\ Names \in [DOMAIN Names -> Cols \cup {Missing}]
  /\ DOMAIN Names \subseteq Strings \ (Numbers \cup Booleans)

Holds(op, i, j) ==
  CASE op = "eq" -> i = j
    [] op = "ne" -> i # j
    [] op = "lt" -> i < j
    [] op = "lte" -> i <= j
    [] op = "gt" -> i > j
    [] op = "gte" -> i >= j

----------------------------------------------------------------------------
(* Conditions as the parser delivers them.                                 *)

Col(c) == [is |-> "col", col |-> c]      \* a column
Lit(v) == [is |-> "lit", val |-> v]      \* a literal, NULL, TRUE, FALSE
Fun(v) == [is |-> "fun", val |-> v]      \* 1 + 1, NOW(): computed
Tuple(s) == [is |-> "list", set |-> s]   \* (1, 2, NULL)
Pattern(s) == [is |-> "pattern", set |-> s]

And(l, r) == [is |-> "and", l |-> l, r |-> r]
Or(l, r) == [is |-> "or", l |-> l, r |-> r]
Not(e) == [is |-> "not", e |-> e]
Cmp(op, l, r) == [is |-> "cmp", op |-> op, l |-> l, r |-> r]
Between(c, from, to, yes) ==
  [is |-> "between", col |-> c, from |-> from, to |-> to, yes |-> yes]
\* IS [NOT] NULL, TRUE, FALSE
Is(c, val, yes) == [is |-> "is", col |-> c, val |-> val, yes |-> yes]

MongoOp ==
  [op \in {"=", "<=>", "!=", "<", "<=", ">", ">="} |->
     CASE op \in {"=", "<=>"} -> "eq"
       [] op = "!=" -> "ne"
       [] op = "<" -> "lt"
       [] op = "<=" -> "lte"
       [] op = ">" -> "gt"
       [] op = ">=" -> "gte"]

InOps == {"in", "not in"}
PatternOps == {"like", "not like", "regexp", "not regexp"}

\* A filter if a column is compared with a literal, else an expression.
FastPath(e) == e.l.is = "col" /\ e.r.is = "lit"

OfType(o, T) ==
  \/ o.is = "col" /\ o = Col(o.col) /\ o.col \in Cols /\ Domain(o.col) = T
  \/ o.is \in {"lit", "fun"} /\ o = [is |-> o.is, val |-> o.val] /\ o.val \in T \cup {Null}

\* Of <=> outside the column-literal form, what may be NULL is compared with what
\* may not: a missing field and NULL are two values there.
IsComparison(e) ==
  /\ \E T \in {Numbers, Strings, Booleans} : OfType(e.l, T) /\ OfType(e.r, T)
  /\ e.op = "<=>" /\ ~FastPath(e) =>
       \A o, p \in {e.l, e.r} : o.is = "col" => o = p \/ (p.is # "col" /\ p.val # Null)

IsMembership(e) ==
  /\ e.l.is = "col" /\ e.l = Col(e.l.col) /\ e.l.col \in Cols
  /\ \/ e.op \in InOps /\ e.r = Tuple(e.r.set) /\ e.r.set \subseteq Domain(e.l.col) \cup {Null}
     \/ /\ e.op \in PatternOps /\ e.r = Pattern(e.r.set)
        /\ e.l.col \in StringCols /\ e.r.set \subseteq Strings

IsLeaf(e) ==
  \/ /\ e.is = "cmp" /\ e = Cmp(e.op, e.l, e.r)
     /\ (e.op \in DOMAIN MongoOp /\ IsComparison(e)) \/ IsMembership(e)
  \/ /\ e.is = "between" /\ e = Between(e.col, e.from, e.to, e.yes)
     /\ e.col \in Cols /\ {e.from, e.to} \subseteq Domain(e.col) \cup {Null} /\ e.yes \in BOOLEAN
  \/ /\ e.is = "is" /\ e = Is(e.col, e.val, e.yes)
     /\ e.col \in Cols /\ e.val \in {Null} \cup (Booleans \cap Domain(e.col)) /\ e.yes \in BOOLEAN

PartOf(p, e) == p \in Conditions /\ Depth[p] < Depth[e]

\* A condition is a finite tree.
ASSUME ConditionsAssumption ==
  /\ Depth \in [Conditions -> Nat]
  /\ \A e \in Conditions :
       \/ e.is \in {"and", "or"} /\ PartOf(e.l, e) /\ PartOf(e.r, e)
       \/ e.is = "not" /\ PartOf(e.e, e)
       \/ IsLeaf(e)

----------------------------------------------------------------------------
(* SQL: a condition is TRUE, FALSE or unknown.                             *)

Sql(v) == IF v = Missing THEN Null ELSE v
SqlValue(o, d) == IF o.is = "col" THEN Sql(d[o.col]) ELSE o.val

Truth(b) == IF b THEN "T" ELSE "F"
Not3(t) == CASE t = "T" -> "F" [] t = "F" -> "T" [] t = "U" -> "U"
And3(s, t) == IF "F" \in {s, t} THEN "F" ELSE IF "U" \in {s, t} THEN "U" ELSE "T"
Or3(s, t) == Not3(And3(Not3(s), Not3(t)))

Compare3(op, x, y) ==
  IF op # "<=>" /\ Null \in {x, y} THEN "U"
  ELSE Truth(Holds(MongoOp[op], Rank[x], Rank[y]))

In3(x, s) ==
  IF x = Null THEN "U"
  ELSE IF x \in s THEN "T"
  ELSE IF Null \in s THEN "U" ELSE "F"

Match3(x, s) == IF x = Null THEN "U" ELSE Truth(x \in s)

SqlCmp(e, d) ==
  LET x == SqlValue(e.l, d)
  IN  CASE e.op \in DOMAIN MongoOp -> Compare3(e.op, x, SqlValue(e.r, d))
        [] e.op = "in" -> In3(x, e.r.set)
        [] e.op = "not in" -> Not3(In3(x, e.r.set))
        [] e.op \in {"like", "regexp"} -> Match3(x, e.r.set)
        [] e.op \in {"not like", "not regexp"} -> Not3(Match3(x, e.r.set))

SqlBetween(x, from, to, yes) ==
  LET t == And3(Compare3(">=", x, from), Compare3("<=", x, to))
  IN  IF yes THEN t ELSE Not3(t)

SqlTruth[e \in Conditions] ==
  [d \in Docs |->
     CASE e.is = "and" -> And3(SqlTruth[e.l][d], SqlTruth[e.r][d])
       [] e.is = "or" -> Or3(SqlTruth[e.l][d], SqlTruth[e.r][d])
       [] e.is = "not" -> Not3(SqlTruth[e.e][d])
       [] e.is = "cmp" -> SqlCmp(e, d)
       [] e.is = "between" -> SqlBetween(Sql(d[e.col]), e.from, e.to, e.yes)
       [] e.is = "is" -> Truth((Sql(d[e.col]) = e.val) = e.yes)]

----------------------------------------------------------------------------
(* Filters and expressions, and the documents MongoDB finds them to hold   *)
(* for.                                                                    *)

Both(f, g) == f \cap g
Either(f, g) == f \cup g
Nor(f) == Docs \ f

Equals(v, arg) == v = arg \/ (arg = Null /\ v = Missing)

\* Comparisons hold between values of one type only.
SameType(v, w) ==
  \/ Equals(v, w)
  \/ \E T \in {Numbers, Strings, Booleans} : {v, w} \subseteq T

Orders(op, v, arg) ==
  SameType(v, arg) /\ Holds(op, Rank[Sql(v)], Rank[arg])

FieldMatches(v, op, arg) ==
  CASE op = "eq" -> Equals(v, arg)
    [] op = "ne" -> ~Equals(v, arg)
    [] op \in {"lt", "lte", "gt", "gte"} -> Orders(op, v, arg)
    [] op = "in" -> \E w \in arg : Equals(v, w)
    [] op = "nin" -> \A w \in arg : ~Equals(v, w)
    [] op = "regex" -> v \in arg
    [] op = "not regex" -> v \notin arg

Field(c, op, arg) == {d \in Docs : FieldMatches(d[c], op, arg)}

\* A text, literal or computed from literals, is put in an expression as it is, and is
\* a field path there if it begins with "$".
Embedded(v, d) ==
  IF v \notin DOMAIN Names THEN v
  ELSE IF Names[v] \in Cols THEN d[Names[v]] ELSE Missing

\* A field path that leads nowhere is below null.
Operand(o, d) == IF o.is = "col" THEN d[o.col] ELSE Embedded(o.val, d)
Compares(op, x, y) == Holds(op, Rank[x], Rank[y])
Expr(op, l, r) == {d \in Docs : Compares(op, Operand(l, d), Operand(r, d))}

----------------------------------------------------------------------------
(* TranslateWhere and negateWhere.                                         *)

\* Variant: "col != v" without the condition that col is not NULL.
NotEqualBare(c, v) == Field(c, "ne", v)

NotEqual(c, v) ==
  IF v = Null THEN Field(c, "ne", Null)
  ELSE Both(Field(c, "ne", v), Field(c, "ne", Null))

TranslateComparison(e) ==
  LET c == e.l.col
  IN  CASE e.op \in DOMAIN MongoOp /\ ~FastPath(e) -> Expr(MongoOp[e.op], e.l, e.r)
        [] e.op = "!=" /\ FastPath(e) -> NotEqual(c, e.r.val)
        [] e.op \in DOMAIN MongoOp \ {"!="} /\ FastPath(e) ->
             Field(c, MongoOp[e.op], e.r.val)
        [] e.op = "in" -> Field(c, "in", e.r.set)
        [] e.op = "not in" -> Field(c, "nin", e.r.set)
        [] e.op \in {"like", "regexp"} -> Field(c, "regex", e.r.set)
        [] e.op \in {"not like", "not regexp"} -> Field(c, "not regex", e.r.set)

\* Variant: the negated bounds are still included.
TranslateBetweenIncluding(c, from, to, yes) ==
  IF yes THEN Both(Field(c, "gte", from), Field(c, "lte", to))
         ELSE Either(Field(c, "lte", from), Field(c, "gte", to))

TranslateBetween(c, from, to, yes) ==
  IF yes THEN Both(Field(c, "gte", from), Field(c, "lte", to))
         ELSE Either(Field(c, "lt", from), Field(c, "gt", to))

TranslateIs(c, val, yes) == Field(c, IF yes THEN "eq" ELSE "ne", val)

\* Variant: the bound is lost in the negation of <= and >.
NegateComparisonOpStrict(op) ==
  CASE op = "=" -> "!=" [] op = "!=" -> "="
    [] op = "<" -> ">" [] op = ">=" -> "<="
    [] op = "<=" -> ">" [] op = ">" -> "<"
    [] op = "in" -> "not in" [] op = "not in" -> "in"
    [] op = "like" -> "not like" [] op = "not like" -> "like"
    [] op = "regexp" -> "not regexp" [] op = "not regexp" -> "regexp"
    [] op = "<=>" -> "none"

NegateComparisonOp(op) ==
  CASE op = "=" -> "!=" [] op = "!=" -> "="
    [] op = "<" -> ">=" [] op = ">=" -> "<"
    [] op = "<=" -> ">" [] op = ">" -> "<="
    [] op = "in" -> "not in" [] op = "not in" -> "in"
    [] op = "like" -> "not like" [] op = "not like" -> "like"
    [] op = "regexp" -> "not regexp" [] op = "not regexp" -> "regexp"
    [] op = "<=>" -> "none"

NegateComparison(e) ==
  LET negated == NegateComparisonOp(e.op)
  IN  IF negated = "none" THEN Nor(TranslateComparison(e))
      ELSE TranslateComparison([e EXCEPT !.op = negated])

\* TranslateWhere (where) and negateWhere (negated) call each other.
Translation[e \in Conditions] ==
  CASE e.is = "and" ->
         [where |-> Both(Translation[e.l].where, Translation[e.r].where),
          negated |-> Either(Translation[e.l].negated, Translation[e.r].negated)]
    [] e.is = "or" ->
         [where |-> Either(Translation[e.l].where, Translation[e.r].where),
          negated |-> Both(Translation[e.l].negated, Translation[e.r].negated)]
    [] e.is = "not" ->
         [where |-> Translation[e.e].negated, negated |-> Translation[e.e].where]
    [] e.is = "cmp" ->
         [where |-> TranslateComparison(e), negated |-> NegateComparison(e)]
    [] e.is = "between" ->
         [where |-> TranslateBetween(e.col, e.from, e.to, e.yes),
          negated |-> TranslateBetween(e.col, e.from, e.to, ~e.yes)]
    [] e.is = "is" ->
         [where |-> TranslateIs(e.col, e.val, e.yes),
          negated |-> TranslateIs(e.col, e.val, ~e.yes)]

TranslateWhere(e) == Translation[e].where

----------------------------------------------------------------------------
(* toAggExprInner: the same conditions in an aggregation expression.       *)

\* The values of a list; a path that leads nowhere is null there.
Listed(e, d) == IF e.op \in InOps THEN {Sql(Embedded(v, d)) : v \in e.r.set} ELSE e.r.set

\* Variant: NOT IN without $not.
AggMembershipOnly(e) == {d \in Docs : Operand(e.l, d) \in Listed(e, d)}

\* IN, LIKE and their negations; $regexMatch of null is false.
AggMembership(e) ==
  LET members == {d \in Docs : Operand(e.l, d) \in Listed(e, d)}
  IN  IF e.op \in {"in", "like"} THEN members ELSE Nor(members)

AggBetween(c, from, to, yes) ==
  IF yes THEN Both(Expr("gte", Col(c), Lit(from)), Expr("lte", Col(c), Lit(to)))
         ELSE Either(Expr("lt", Col(c), Lit(from)), Expr("gt", Col(c), Lit(to)))

AggExpr[e \in Conditions] ==
  CASE e.is = "and" -> Both(AggExpr[e.l], AggExpr[e.r])
    [] e.is = "or" -> Either(AggExpr[e.l], AggExpr[e.r])
    [] e.is = "not" -> Nor(AggExpr[e.e])
    [] e.is = "cmp" /\ e.op \in DOMAIN MongoOp -> Expr(MongoOp[e.op], e.l, e.r)
    [] e.is = "cmp" /\ e.op \notin DOMAIN MongoOp -> AggMembership(e)
    [] e.is = "between" -> AggBetween(e.col, e.from, e.to, e.yes)
    [] e.is = "is" -> Expr(IF e.yes THEN "eq" ELSE "ne", Col(e.col), Lit(e.val))

\* REGEXP is an error in an aggregation expression.
InAgg[e \in Conditions] ==
  CASE e.is \in {"and", "or"} -> InAgg[e.l] /\ InAgg[e.r]
    [] e.is = "not" -> InAgg[e.e]
    [] e.is = "cmp" -> e.op \notin {"regexp", "not regexp"}
    [] e.is \in {"between", "is"} -> TRUE

----------------------------------------------------------------------------
Init ==
  /\ where \in Conditions
  /\ found = {} /\ taken = {}
  /\ phase = "parsed"

\* SELECT, UPDATE or DELETE ... WHERE where.
Find ==
  /\ phase = "parsed"
  /\ found' = TranslateWhere(where)
  /\ phase' = "found"
  /\ UNCHANGED <<where, taken>>

\* SELECT CASE WHEN where THEN ... END.
Case ==
  /\ phase = "parsed" /\ InAgg[where]
  /\ taken' = AggExpr[where]
  /\ phase' = "taken"
  /\ UNCHANGED <<where, found>>

Done == phase \in {"found", "taken"} /\ UNCHANGED vars

Next == Find \/ Case \/ Done

Spec == Init /\ [][Next]_vars
----------------------------------------------------------------------------
(* Properties.                                                             *)

\* The values of a leaf that are put in an expression: those of a comparison that
\* is not "column OP literal", and in a CASE those of a list and of bounds too.
Constant(o) == IF o.is = "col" THEN {} ELSE {o.val}

EmbeddedValues(e, inCase) ==
  CASE e.is = "cmp" /\ e.op \in DOMAIN MongoOp ->
         IF FastPath(e) /\ ~inCase THEN {} ELSE Constant(e.l) \cup Constant(e.r)
    [] e.is = "cmp" /\ e.op \in InOps -> IF inCase THEN e.r.set ELSE {}
    [] e.is = "cmp" /\ e.op \in PatternOps -> {}
    [] e.is = "between" -> IF inCase THEN {e.from, e.to} ELSE {}
    [] e.is = "is" -> {}

\* None of the values put in an expression is read as a field path.
NoPaths[e \in Conditions] ==
  [inCase \in BOOLEAN |->
     CASE e.is \in {"and", "or"} -> NoPaths[e.l][inCase] /\ NoPaths[e.r][inCase]
       [] e.is = "not" -> NoPaths[e.e][inCase]
       [] OTHER -> EmbeddedValues(e, inCase) \cap DOMAIN Names = {}]

\* Whatever AND, OR and NOT a condition is built with, a document for which SQL
\* finds it TRUE is selected: no row is lost, unless a text in $expr is a path.
NothingLost ==
  phase = "found" /\ NoPaths[where][FALSE]
    => \A d \in Docs : SqlTruth[where][d] = "T" => d \in found

\* A document for which SQL finds the condition FALSE is not selected: what is
\* selected too many is selected because SQL does not know, or because a text in
\* $expr is a path.
NothingFalse ==
  phase = "found" /\ NoPaths[where][FALSE]
    => \A d \in found : SqlTruth[where][d] # "F"

\* The leaves without the forms that MongoDB cannot tell from unknown: no NULL
\* operand, no comparison in $expr, and IN, LIKE and REGEXP under an even number
\* of negations only.
PlainLeaf(e, positive) ==
  CASE e.is = "cmp" /\ e.op \in DOMAIN MongoOp ->
         FastPath(e) /\ (e.op = "<=>" \/ e.r.val # Null)
    [] e.is = "cmp" /\ e.op \notin DOMAIN MongoOp ->
         /\ positive = (e.op \in {"in", "like", "regexp"})
         /\ e.op \in InOps => Null \notin e.r.set
    [] e.is = "between" -> Null \notin {e.from, e.to}
    [] e.is = "is" -> TRUE

Plain[e \in Conditions] ==
  [positive \in BOOLEAN |->
     CASE e.is \in {"and", "or"} -> Plain[e.l][positive] /\ Plain[e.r][positive]
       [] e.is = "not" -> Plain[e.e][~positive]
       [] OTHER -> PlainLeaf(e, positive)]

\* Plain conditions select exactly the rows SQL selects, those of unknown truth
\* excluded (expr.go: "so that rows where e is NULL/unknown are excluded
\* (matching MySQL)").
PlainIsExact ==
  phase = "found" /\ Plain[where][TRUE]
    => found = {d \in Docs : SqlTruth[where][d] = "T"}

Complete(d) == \A c \in Cols : d[c] # Missing

\* In a CASE none of whose texts is a path, a document that has all its fields takes
\* a branch that is TRUE and no branch that is FALSE.
CaseFollowsSql ==
  phase = "taken" /\ NoPaths[where][TRUE] =>
    \A d \in Docs : Complete(d) =>
      CASE SqlTruth[where][d] = "T" -> d \in taken
        [] SqlTruth[where][d] = "F" -> d \notin taken
        [] OTHER -> TRUE

\* A CASE takes the branches that are TRUE, whatever texts it compares (doc/sql-subset.md
\* maps "CASE WHEN" to $switch and $cond with no word of an exception).
CaseTakesTrue ==
  phase = "taken" =>
    \A d \in Docs : Complete(d) /\ SqlTruth[where][d] = "T" => d \in taken

\* NOT excludes the rows for which the condition is unknown (expr.go: "rows
\* where e is NULL/unknown are excluded (matching MySQL)").
NotExcludesUnknown ==
  phase = "found" /\ where.is = "not"
    => \A d \in found : SqlTruth[where][d] = "T"

\* A comparison that is not "column OP literal" is SQL's (expr.go: "fall back to
\* a $expr-based filter so that expressions like WHERE a = b ... work").
ComparisonIsSql ==
  phase = "found" /\ where.is = "cmp" /\ where.op \in DOMAIN MongoOp \ {"<=>"}
    => \A d \in found : SqlTruth[where][d] = "T"
=============================================================================
