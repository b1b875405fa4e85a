----------------------------- MODULE Expressions -----------------------------
(***************************************************************************)
(* Value expressions (translator/internal/expr).  One expression has three *)
(* meanings here: Value and EvalConst, what the translator computes itself *)
(* if no column occurs in it; ToAggExpr, what MongoDB computes from its    *)
(* translation for a document; and Sql, what MySQL defines.                *)
(*                                                                         *)
(* An expression is an operator and its arguments.  Numbers are exact      *)
(* fractions of the Go types int64 and float64 without overflow; strings   *)
(* are sequences of one-byte letters in the order of ASCII: 0 is "$", 5 is *)
(* "-", 10 to 19 are digits, from 30 on come the upper-case letters, from  *)
(* 60 on the lower-case ones.  Strings are compared letter by letter, and  *)
(* none spells a number.  Dates, powers and logarithms, LIKE, TRIM and     *)
(* REPLACE are left out.                                                   *)
(***************************************************************************)
EXTENDS Integers, SequencesExt, TLC

\* Values, the empty ones first.
Missing == <<"missing">>
Null == <<"null">>
Number(type, n, d) ==
  LET g == Max({k \in 1..(IF d < 0 THEN -d ELSE d) : n % k = 0 /\ d % k = 0})
  IN  IF d < 0 THEN <<type, (-n) \div g, (-d) \div g>> ELSE <<type, n \div g, d \div g>>
Whole(n) == <<"int", n, 1>>
Real(n, d) == Number("real", n, d)
Str(letters) == <<"str", letters>>
Bool(b) == <<"bool", b>>

\* What can happen instead: the translator refuses the expression, or it panics
\* and no answer is sent; MongoDB fails at a document.
Refused == <<"refused">>
Panicked == <<"panicked">>
Failed == <<"failed">>

IsNull(v) == v \in {Missing, Null}
IsNumber(v) == v[1] \in {"int", "real"}
IsError(v) == v \in {Refused, Panicked, Failed}

----------------------------------------------------------------------------
(* Expressions.                                                            *)

Lit(v) == [op |-> "lit", v |-> v, args |-> <<>>]
Col(n) == [op |-> "col", v |-> n, args |-> <<>>]
Op(op, args) == [op |-> op, v |-> Null, args |-> args]

\* CAST and CONVERT, with the type.
Casts == {"CAST SIGNED", "CAST CHAR"}
Arithmetic == {"+", "-", "*", "/", "DIV", "%"}
Comparisons == {"=", "<>", "<", "<=", "<=>"}
\* CASE has the arguments condition, value, condition, value, ..., otherwise; with
\* a value after CASE, the conditions compare it.
Conditional == {"AND", "OR", "NOT", "IS NULL", "BETWEEN", "IN", "CASE"}
\* The functions that the translator computes, and those it has a translation of.
ConstFuncs ==
  {"UPPER", "LENGTH", "CONCAT", "CONCAT_WS", "LEFT", "RIGHT", "REVERSE", "REPEAT", "LPAD",
   "ABS", "CEIL", "FLOOR", "ROUND", "MOD", "GREATEST", "LEAST",
   "IF", "IFNULL", "COALESCE", "NULLIF", "ISNULL"}
AggFuncs == ConstFuncs \ {"REPEAT", "LPAD", "GREATEST", "LEAST", "ISNULL"}

RECURSIVE HasColumnRef(_)
HasColumnRef(e) == e.op = "col" \/ \E i \in DOMAIN e.args : HasColumnRef(e.args[i])

RECURSIVE Parts(_)
Parts(e) == {e} \cup UNION {Parts(e.args[i]) : i \in DOMAIN e.args}

----------------------------------------------------------------------------
(* Numbers and strings.                                                    *)

Type(v, w) == IF v[1] = "real" \/ w[1] = "real" THEN "real" ELSE "int"
Plus(v, w) == Number(Type(v, w), v[2] * w[3] + w[2] * v[3], v[3] * w[3])
Times(v, w) == Number(Type(v, w), v[2] * w[2], v[3] * w[3])
Minus(v, w) == Plus(v, Times(Whole(-1), w))
Over(v, w) == Real(v[2] * w[3], v[3] * w[2])
Floor(v) == v[2] \div v[3]
Trunc(v) == IF v[2] < 0 THEN -((-v[2]) \div v[3]) ELSE Floor(v)
Below(v, w) == v[2] * w[3] < w[2] * v[3]
AbsOf(v) == IF v[2] < 0 THEN <<v[1], -v[2], v[3]>> ELSE v
Quotient(v, w) == Whole(Trunc(Over(v, w)))
Remainder(v, w) == Minus(v, Times(<<Type(v, w), Trunc(Over(v, w)), 1>>, w))
HalfUp(v) == Floor(Plus(v, Real(1, 2)))

Upper(s) == [i \in DOMAIN s |-> IF s[i] >= 60 THEN s[i] - 30 ELSE s[i]]
First(s, n) == SubSeq(s, 1, Min({n, Len(s)}))
Final(s, n) == SubSeq(s, Len(s) - n + 1, Len(s))
Repeated(s, n) == FlattenSeq([i \in 1..Max({n, 0}) |-> s])
Joined(strings, sep) ==
  FlattenSeq([i \in DOMAIN strings |-> IF i = 1 THEN strings[i] ELSE sep \o strings[i]])
Before(s, t) ==
  \/ IsStrictPrefix(s, t)
  \/ \E i \in DOMAIN s \cap DOMAIN t :
       s[i] < t[i] /\ \A j \in 1..(i - 1) : s[j] = t[j]

----------------------------------------------------------------------------
(* The translator's own evaluation (expr.go).                              *)

Digits(n) == IF n < 10 THEN <<10 + n>> ELSE <<10 + (n \div 10), 10 + (n % 10)>>

\* toString, for whole numbers below 100.
TextOf(v) ==
  CASE v[1] = "str" -> v[2]
    [] IsNumber(v) -> IF v[2] < 0 THEN <<5>> \o Digits(-v[2]) ELSE Digits(v[2])
    [] IsNull(v) -> <<>>

\* compareAny: numbers as numbers, the rest as text; NULL is the empty text.
CompareAny(v, w) ==
  IF IsNumber(v) /\ IsNumber(w)
  THEN IF Below(v, w) THEN -1 ELSE IF Below(w, v) THEN 1 ELSE 0
  ELSE IF Before(TextOf(v), TextOf(w)) THEN -1 ELSE IF TextOf(v) = TextOf(w) THEN 0 ELSE 1

IsTruthy(v) == ~IsNull(v) /\ (IsNumber(v) => v[2] # 0) /\ v # Str(<<>>)

\* The result of a comparison is 1 or 0.
Compared(op, order) ==
  Whole(IF CASE op \in {"=", "<=>"} -> order = 0
           [] op = "<>" -> order # 0
           [] op = "<" -> order < 0
           [] op = "<=" -> order <= 0
      THEN 1 ELSE 0)

\* Variant: nobody looks whether the divisor is zero.
ApplyArithUnchecked(op, v, w) ==
  IF ~IsNumber(v) \/ ~IsNumber(w) \/ (op = "DIV" /\ Type(v, w) = "real") THEN Refused
  ELSE IF w[2] = 0 /\ op \in {"/", "%", "DIV"} THEN Panicked
  ELSE CASE op = "+" -> Plus(v, w)
         [] op = "-" -> Minus(v, w)
         [] op = "*" -> Times(v, w)
         [] op = "/" -> Over(v, w)
         [] op = "%" -> Remainder(v, w)
         [] op = "DIV" -> Quotient(v, w)

\* Nothing but numbers can be computed with; DIV has no form for float64.
ApplyArith(op, v, w) ==
  IF ~IsNumber(v) \/ ~IsNumber(w) \/ (op = "DIV" /\ Type(v, w) = "real") THEN Refused
  ELSE IF w[2] = 0 /\ op \in {"/", "%", "DIV"} THEN Null
  ELSE CASE op = "+" -> Plus(v, w)
         [] op = "-" -> Minus(v, w)
         [] op = "*" -> Times(v, w)
         [] op = "/" -> Over(v, w)
         [] op = "%" -> Remainder(v, w)
         [] op = "DIV" -> Quotient(v, w)

\* A position counts from 1, or from the end; 0 is taken for the beginning.
EvalSubstring(s, pos, len) ==
  LET start == CASE pos > 0 -> pos - 1
                 [] pos = 0 -> 0
                 [] pos < 0 -> Max({Len(s) + pos, 0})
  IN  SubSeq(s, start + 1, Min({start + len, Len(s)}))

PadString(s, n, pad) ==
  IF n <= Len(s) THEN SubSeq(s, 1, n)
  ELSE IF pad = <<>> THEN s
  ELSE SubSeq(Repeated(pad, n), 1, n - Len(s)) \o s

\* toInt64 and toFloat64 refuse NULL; MOD ignores that.
EvalNumeric(f, x) ==
  CASE f = "ABS" -> IF IsNumber(x[1]) THEN AbsOf(x[1]) ELSE x[1]
    [] f = "MOD" ->
         IF ~IsNumber(x[2]) \/ x[2][2] = 0 THEN Null
         ELSE IF ~IsNumber(x[1]) THEN Real(0, 1) ELSE Remainder(x[1], x[2])
    [] f \in {"CEIL", "FLOOR", "ROUND"} ->
         IF ~IsNumber(x[1]) THEN Refused
         ELSE CASE f = "CEIL" -> Whole(-Floor(Times(Whole(-1), x[1])))
                [] f = "FLOOR" -> Whole(Floor(x[1]))
                [] f = "ROUND" -> Real(Trunc(Plus(x[1], Real(IF x[1][2] < 0 THEN -1 ELSE 1, 2))), 1)

EvalString(f, x) ==
  LET s == TextOf(x[1])
      n == Trunc(x[2])
  IN  CASE f = "UPPER" -> Str(Upper(s))
        [] f = "LENGTH" -> Whole(Len(s))
        [] f = "REVERSE" -> Str(Reverse(s))
        [] f = "CONCAT" ->
             IF \E i \in DOMAIN x : IsNull(x[i]) THEN Null
             ELSE Str(FlattenSeq([i \in DOMAIN x |-> TextOf(x[i])]))
        [] f = "CONCAT_WS" ->
             IF IsNull(x[1]) THEN Null
             ELSE LET parts == SelectSeq(Tail(x), LAMBDA v : ~IsNull(v))
                  IN  Str(Joined([i \in DOMAIN parts |-> TextOf(parts[i])], s))
        [] f \in {"LEFT", "RIGHT", "REPEAT", "LPAD"} ->
             IF ~IsNumber(x[2]) THEN Refused
             ELSE CASE f = "LEFT" -> Str(First(s, Max({n, 0})))
                    [] f = "RIGHT" -> Str(Final(s, Min({Max({n, 0}), Len(s)})))
                    [] f = "REPEAT" -> Str(Repeated(s, n))
                    [] f = "LPAD" -> IF n < 0 THEN Panicked
                                     ELSE Str(PadString(s, n, TextOf(x[3])))

EvalFunc(f, x) ==
  CASE f \in {"ABS", "MOD", "CEIL", "FLOOR", "ROUND"} -> EvalNumeric(f, x)
    [] f \in {"UPPER", "LENGTH", "REVERSE", "CONCAT", "CONCAT_WS", "LEFT", "RIGHT", "REPEAT", "LPAD"} ->
         EvalString(f, x)
    [] f = "GREATEST" -> FoldLeft(LAMBDA m, v : IF CompareAny(v, m) > 0 THEN v ELSE m, x[1], x)
    [] f = "LEAST" -> FoldLeft(LAMBDA m, v : IF CompareAny(v, m) < 0 THEN v ELSE m, x[1], x)
    [] f = "IF" -> IF IsTruthy(x[1]) THEN x[2] ELSE x[3]
    [] f \in {"IFNULL", "COALESCE"} ->
         LET values == SelectSeq(x, LAMBDA v : ~IsNull(v))
         IN  IF values = <<>> THEN Null ELSE values[1]
    [] f = "NULLIF" -> IF CompareAny(x[1], x[2]) = 0 THEN Null ELSE x[1]
    [] f = "ISNULL" -> Whole(IF IsNull(x[1]) THEN 1 ELSE 0)

\* The first of the arguments' errors.
ErrorOf(x) == x[Min({i \in DOMAIN x : IsError(x[i])})]
HasError(x) == \E i \in DOMAIN x : IsError(x[i])

\* Arithmetic, AND, OR, NOT, IS, BETWEEN and CASE are not among the values; IN is a
\* comparison whose operator is not known, CAST ignores the type.
RECURSIVE Value(_)
Value(e) ==
  LET x == [i \in DOMAIN e.args |-> Value(e.args[i])]
      s == TextOf(x[1])
  IN  CASE e.op = "lit" -> e.v
        [] e.op \in {"col"} \cup Arithmetic \cup (Conditional \ {"IN"}) -> Refused
        [] OTHER ->
             IF HasError(x) THEN ErrorOf(x)
             ELSE CASE e.op = "neg" ->
                         IF IsNumber(x[1]) THEN Times(Whole(-1), x[1])
                         ELSE IF IsNull(x[1]) THEN Refused ELSE Str(<<5>> \o x[1][2])
                    [] e.op \in Casts -> x[1]
                    [] e.op = "IN" -> Whole(0)
                    [] e.op = "SUBSTRING" ->
                         IF \E i \in 2..Len(x) : ~IsNumber(x[i]) THEN Refused
                         ELSE Str(EvalSubstring(s, Trunc(x[2]), IF Len(x) = 2 THEN Len(s) ELSE Trunc(x[3])))
                    [] e.op \in Comparisons -> Compared(e.op, CompareAny(x[1], x[2]))
                    [] e.op \in ConstFuncs -> EvalFunc(e.op, x)

\* Around a value there may be arithmetic.
RECURSIVE EvalConst(_)
EvalConst(e) ==
  LET x == [i \in DOMAIN e.args |-> EvalConst(e.args[i])]
  IN  CASE e.op \in Arithmetic ->
             IF HasError(x) THEN ErrorOf(x) ELSE ApplyArith(e.op, x[1], x[2])
        [] e.op = "neg" -> IF HasError(x) THEN ErrorOf(x) ELSE ApplyArith("*", Whole(-1), x[1])
        [] OTHER -> Value(e)

----------------------------------------------------------------------------
(* The translation to an aggregation expression (agg_expr.go), and what    *)
(* MongoDB computes from it for a document.                                *)

\* A function of constants is computed by the translator.
Precomputed(e) == e.op \in ConstFuncs /\ ~HasColumnRef(e)

\* What ToAggExpr makes of an expression it cannot translate.
RECURSIVE Translated(_)
Translated(e) ==
  IF Precomputed(e) THEN Value(e)
  ELSE IF e.op \in ConstFuncs \ AggFuncs THEN Refused
  ELSE LET x == [i \in DOMAIN e.args |-> Translated(e.args[i])]
       IN  IF HasError(x) THEN ErrorOf(x) ELSE Null

\* A text that begins with "$" is the path of a field, which no document has.
Embedded(v) == IF v[1] = "str" /\ v[2] # <<>> /\ v[2][1] = 0 THEN Missing ELSE v

Holds(v) == ~IsNull(v) /\ (v[1] \in {"int", "real"} => v[2] # 0) /\ v # Bool(FALSE)

\* The order of BSON over all types.
BsonType(v) ==
  CASE v = Missing -> 0 [] v = Null -> 1 [] IsNumber(v) -> 2 [] v[1] = "str" -> 3 [] v[1] = "bool" -> 4
BsonLess(v, w) ==
  \/ BsonType(v) < BsonType(w)
  \/ BsonType(v) = 2 /\ BsonType(w) = 2 /\ Below(v, w)
  \/ BsonType(v) = 3 /\ BsonType(w) = 3 /\ Before(v[2], w[2])
  \/ v = Bool(FALSE) /\ w = Bool(TRUE)
BsonSame(v, w) == ~BsonLess(v, w) /\ ~BsonLess(w, v)

Arith(op, v, w) ==
  IF IsNull(v) \/ IsNull(w) THEN Null
  ELSE IF ~IsNumber(v) \/ ~IsNumber(w) \/ (op \in {"/", "%", "DIV"} /\ w[2] = 0) THEN Failed
  ELSE IF op = "DIV" THEN Quotient(v, w) ELSE ApplyArith(op, v, w)

Concat(x) ==
  LET others == {i \in DOMAIN x : x[i][1] # "str"}
  IN  IF others = {} THEN Str(FlattenSeq([i \in DOMAIN x |-> x[i][2]]))
      ELSE IF IsNull(x[Min(others)]) THEN Null ELSE Failed

\* $substrCP counts from 0.
SubstrCP(v, start, n) ==
  IF ~IsNumber(start) \/ ~IsNumber(n) \/ start[2] < 0 \/ n[2] < 0 \/ v[1] = "bool" THEN Failed
  ELSE LET s == TextOf(v)
       IN  Str(SubSeq(s, Trunc(start) + 1, Min({Trunc(start) + Trunc(n), Len(s)})))

StrLenCP(v) == IF v[1] = "str" THEN Whole(Len(v[2])) ELSE Failed

\* "effectively to end of string"
ToTheEnd == Whole(1000000)

Numeric(f, v) ==
  CASE IsNull(v) -> Null
    [] ~IsNull(v) /\ ~IsNumber(v) -> Failed
    [] IsNumber(v) ->
         CASE f = "ABS" -> AbsOf(v)
           [] f = "CEIL" -> <<v[1], -Floor(Times(Whole(-1), v)), 1>>
           [] f = "FLOOR" -> <<v[1], Floor(v), 1>>
           [] f = "ROUND" -> Real((IF v[2] < 0 THEN -1 ELSE 1) * HalfUp(AbsOf(v)), 1)

Stage(op, x) ==
  CASE op \in Arithmetic -> Arith(op, x[1], x[2])
    [] op = "neg" -> Arith("*", Whole(-1), x[1])
    [] op \in {"=", "<=>"} -> Bool(BsonSame(x[1], x[2]))
    [] op = "<>" -> Bool(~BsonSame(x[1], x[2]))
    [] op = "<" -> Bool(BsonLess(x[1], x[2]))
    [] op = "<=" -> Bool(~BsonLess(x[2], x[1]))
    [] op = "NOT" -> Bool(~Holds(x[1]))
    [] op = "IS NULL" -> Bool(x[1] = Null)
    [] op = "IN" ->  \* a missing field is null in the list
         Bool(\E i \in 2..Len(x) : BsonSame(x[1], IF x[i] = Missing THEN Null ELSE x[i]))
    [] op = "BETWEEN" -> Bool(~BsonLess(x[1], x[2]) /\ ~BsonLess(x[3], x[1]))
    [] op \in Casts -> x[1]
    [] op = "UPPER" -> IF x[1][1] = "bool" THEN Failed ELSE Str(Upper(TextOf(x[1])))
    [] op = "LENGTH" -> StrLenCP(x[1])
    [] op = "CONCAT" -> Concat(x)
    [] op = "CONCAT_WS" ->
         Concat([i \in 1..(2 * Len(x) - 3) |-> IF i % 2 = 0 THEN x[1] ELSE x[(i + 3) \div 2]])
    [] op = "SUBSTRING" ->
         SubstrCP(x[1], Arith("-", x[2], Whole(1)), IF Len(x) = 2 THEN ToTheEnd ELSE x[3])
    [] op = "LEFT" -> SubstrCP(x[1], Whole(0), x[2])
    [] op = "RIGHT" ->
         IF StrLenCP(x[1]) = Failed THEN Failed
         ELSE SubstrCP(x[1], Arith("-", StrLenCP(x[1]), x[2]), x[2])
    [] op = "REVERSE" -> IF IsNull(x[1]) THEN Null ELSE Failed  \* $split by an empty text
    [] op \in {"ABS", "CEIL", "FLOOR", "ROUND"} -> Numeric(op, x[1])
    [] op = "MOD" -> Arith("%", x[1], x[2])
    [] op = "NULLIF" -> IF BsonSame(x[1], x[2]) THEN Null ELSE x[1]

\* AND, OR, IF, CASE, IFNULL and COALESCE look at no more arguments than they
\* need; this is the one they stop at.
Deciding(op, x) ==
  LET last == Len(x)
      FirstOf(stops, otherwise) == IF stops = {} THEN otherwise ELSE Min(stops)
  IN  CASE op = "AND" -> FirstOf({i \in 1..last : x[i] = Failed \/ ~Holds(x[i])}, last)
        [] op = "OR" -> FirstOf({i \in 1..last : x[i] = Failed \/ Holds(x[i])}, last)
        [] op \in {"IFNULL", "COALESCE"} -> FirstOf({i \in 1..last : ~IsNull(x[i])}, last)
        [] op \in {"IF", "CASE"} ->
             FirstOf({i \in 1..(last - 1) : i % 2 = 1 /\ (x[i] = Failed \/ Holds(x[i]))}, last)

RECURSIVE ToAggExpr(_, _)
ToAggExpr(e, d) ==
  LET x == [i \in DOMAIN e.args |-> ToAggExpr(e.args[i], d)]
      last == Len(e.args)
      at == Deciding(e.op, x)
  IN  CASE e.op = "lit" -> Embedded(e.v)
        [] e.op = "col" -> d[e.v]
        [] Precomputed(e) -> Embedded(Value(e))
        [] e.op \in {"AND", "OR"} -> IF x[at] = Failed THEN Failed ELSE Bool(Holds(x[at]))
        [] e.op \in {"IFNULL", "COALESCE"} /\ ~Precomputed(e) -> IF last = 1 THEN Failed ELSE x[at]
        [] e.op \in {"IF", "CASE"} /\ ~Precomputed(e) ->
             IF at < last /\ x[at] # Failed THEN x[at + 1] ELSE x[at]
        [] OTHER -> IF HasError(x) THEN Failed ELSE Stage(e.op, x)

----------------------------------------------------------------------------
(* SQL.                                                                    *)

\* Numbers are the same whatever their type, TRUE and FALSE are 1 and 0.
Plain(v) ==
  CASE v = Missing -> Null
    [] v[1] = "bool" -> Real(IF v[2] THEN 1 ELSE 0, 1)
    [] IsNumber(v) -> Real(v[2], v[3])
    [] OTHER -> v
Same(v, w) == Plain(v) = Plain(w)

Truth(b) == Whole(IF b THEN 1 ELSE 0)
True(v) == IsNumber(v) /\ v[2] # 0

\* A half is rounded away from zero.
Rounded(v) == Whole((IF v[2] < 0 THEN -1 ELSE 1) * HalfUp(AbsOf(v)))

\* Operators that are NULL if an argument is; x has none.
SqlStrict(op, x) ==
  LET s == IF x[1][1] = "str" THEN x[1][2] ELSE TextOf(x[1])
      n == x[2][2]
  IN  CASE op \in {"/", "%", "DIV", "MOD"} /\ n = 0 -> Null
        [] op = "/" /\ n # 0 -> Over(x[1], x[2])
        [] op = "DIV" /\ n # 0 -> Quotient(x[1], x[2])
        [] op \in {"%", "MOD"} /\ n # 0 -> Remainder(x[1], x[2])
        [] op \in {"+", "-", "*"} -> ApplyArith(op, x[1], x[2])
        [] op = "neg" -> IF IsNumber(x[1]) THEN Times(Whole(-1), x[1]) ELSE Whole(0)
        [] op = "=" -> Truth(Same(x[1], x[2]))
        [] op = "<>" -> Truth(~Same(x[1], x[2]))
        [] op = "<" -> Truth(CompareAny(x[1], x[2]) < 0)
        [] op = "<=" -> Truth(CompareAny(x[1], x[2]) <= 0)
        [] op = "BETWEEN" -> Truth(CompareAny(x[1], x[2]) >= 0 /\ CompareAny(x[1], x[3]) <= 0)
        [] op = "NOT" -> Truth(~True(x[1]))
        [] op = "CAST SIGNED" -> IF IsNumber(x[1]) THEN Rounded(x[1]) ELSE Whole(0)
        [] op = "CAST CHAR" -> Str(TextOf(x[1]))
        [] op = "UPPER" -> Str(Upper(s))
        [] op = "LENGTH" -> Whole(Len(s))
        [] op = "REVERSE" -> Str(Reverse(s))
        [] op = "CONCAT" -> Str(FlattenSeq([i \in DOMAIN x |-> TextOf(x[i])]))
        [] op = "LEFT" -> Str(First(s, Max({n, 0})))
        [] op = "RIGHT" -> Str(Final(s, Min({Max({n, 0}), Len(s)})))
        [] op = "REPEAT" -> Str(Repeated(s, n))
        [] op = "LPAD" -> IF n < 0 THEN Null ELSE Str(PadString(s, n, x[3][2]))
        [] op = "SUBSTRING" ->  \* nothing at position 0 and before the beginning
             LET start == IF n > 0 THEN n ELSE Len(s) + n + 1
                 end == IF Len(x) = 2 THEN Len(s) ELSE Min({start + x[3][2] - 1, Len(s)})
             IN  Str(IF n = 0 \/ start < 1 THEN <<>> ELSE SubSeq(s, start, end))
        [] op = "ABS" -> AbsOf(x[1])
        [] op = "CEIL" -> Whole(-Floor(Times(Whole(-1), x[1])))
        [] op = "FLOOR" -> Whole(Floor(x[1]))
        [] op = "ROUND" -> Rounded(x[1])
        [] op \in {"GREATEST", "LEAST"} ->
             CHOOSE v \in {x[i] : i \in DOMAIN x} :
               \A i \in DOMAIN x : IF op = "LEAST" THEN CompareAny(v, x[i]) <= 0
                                                   ELSE CompareAny(v, x[i]) >= 0

RECURSIVE Sql(_, _)
Sql(e, d) ==
  LET x == [i \in DOMAIN e.args |-> Sql(e.args[i], d)]
      I == DOMAIN e.args
  IN  CASE e.op = "lit" -> e.v
        [] e.op = "col" -> IF d[e.v] = Missing THEN Null ELSE d[e.v]
        [] e.op = "AND" -> IF \E i \in I : x[i] # Null /\ ~True(x[i]) THEN Truth(FALSE)
                           ELSE IF \E i \in I : x[i] = Null THEN Null ELSE Truth(TRUE)
        [] e.op = "OR" -> IF \E i \in I : True(x[i]) THEN Truth(TRUE)
                          ELSE IF \E i \in I : x[i] = Null THEN Null ELSE Truth(FALSE)
        [] e.op = "<=>" -> Truth(Same(x[1], x[2]))
        [] e.op \in {"IS NULL", "ISNULL"} -> Truth(x[1] = Null)
        [] e.op = "IN" -> IF x[1] = Null THEN Null
                          ELSE IF \E i \in I \ {1} : Same(x[1], x[i]) THEN Truth(TRUE)
                          ELSE IF \E i \in I : x[i] = Null THEN Null ELSE Truth(FALSE)
        [] e.op \in {"IF", "CASE"} ->
             LET hits == {i \in I : i % 2 = 1 /\ i < Len(x) /\ True(x[i])}
             IN  IF hits = {} THEN x[Len(x)] ELSE x[Min(hits) + 1]
        [] e.op \in {"IFNULL", "COALESCE"} ->
             IF \A i \in I : x[i] = Null THEN Null ELSE x[Min({i \in I : x[i] # Null})]
        [] e.op = "NULLIF" -> IF Same(x[1], x[2]) THEN Null ELSE x[1]
        [] e.op = "CONCAT_WS" ->
             LET parts == SelectSeq(Tail(x), LAMBDA v : v # Null)
             IN  IF x[1] = Null THEN Null
                 ELSE Str(Joined([i \in DOMAIN parts |-> TextOf(parts[i])], x[1][2]))
        [] OTHER -> IF \E i \in I : x[i] = Null THEN Null ELSE SqlStrict(e.op, x)

----------------------------------------------------------------------------
(* The expressions that mean the same in all three.                        *)

Arguments(e, d) == [i \in DOMAIN e.args |-> Sql(e.args[i], d)]

\* SQL makes a number of a text that is a condition.
NoTextAt(x, positions) == \A i \in positions : x[i][1] # "str"

\* A CAST of such a value changes nothing.
HasType(cast, v) ==
  v = Null \/ IF cast = "CAST CHAR" THEN v[1] = "str" ELSE IsNumber(v) /\ v[3] = 1

\* What the translator computes itself, of NULL only as far as SQL agrees.
ValueSupported(e) ==
  \A p \in Parts(e) :
    LET x == Arguments(p, <<>>)
        hasNull == \E i \in DOMAIN x : x[i] = Null
    IN  /\ p.op \in ConstFuncs \cup Comparisons \cup Casts \cup {"lit", "neg", "SUBSTRING", "IN"}
        /\ hasNull =>
             p.op \in {"ABS", "CONCAT", "CONCAT_WS", "IF", "IFNULL", "COALESCE", "ISNULL"} \cup Casts
        /\ p.op \in Casts => HasType(p.op, x[1])
        /\ p.op = "IN" => Sql(p, <<>>) = Truth(FALSE)
        /\ p.op \in {"neg", "IF"} => NoTextAt(x, {1})
        /\ p.op = "SUBSTRING" => x[2][2] # 0 /\ x[2][2] >= -Len(x[1][2])
        /\ p.op = "LPAD" => x[2][2] >= 0

RECURSIVE ConstSupported(_)
ConstSupported(e) ==
  \/ ValueSupported(e)
  \/ /\ e.op \in Arithmetic \cup {"neg"}
     /\ \A i \in DOMAIN e.args : ConstSupported(e.args[i]) /\ Sql(e.args[i], <<>>)[1] \in {"int", "real"}
     /\ e.op = "DIV" => \A i \in DOMAIN e.args : EvalConst(e.args[i])[1] = "int"

\* What MongoDB computes for a document: a document without the field is told
\* from one with NULL, FALSE stands for unknown, and there is an error where SQL
\* has NULL or an empty text.
RECURSIVE AggSupported(_, _)
AggSupported(e, d) ==
  LET x == Arguments(e, d)
      I == DOMAIN e.args
      Text(i) == x[i][1] = "str"
      Passing == {"AND", "OR", "NOT", "IF", "CASE", "IFNULL", "COALESCE", "IS NULL"} \cup Casts
  IN  IF Precomputed(e) THEN ValueSupported(e) /\ Embedded(Value(e)) = Value(e)
      ELSE
        /\ e.op \notin ConstFuncs \ AggFuncs
        /\ \A i \in I : AggSupported(e.args[i], d)
        /\ e.op = "lit" => Embedded(e.v) = e.v
        /\ e.op \notin Passing => \A i \in I : ToAggExpr(e.args[i], d)[1] # "bool"
        /\ e.op \in (Comparisons \ {"<=>"}) \cup {"AND", "OR", "NOT", "IN", "BETWEEN", "CONCAT_WS"} =>
             \A i \in I : x[i] # Null
        /\ e.op \in {"<=>", "IS NULL"} => \A i \in I : ToAggExpr(e.args[i], d) # Missing
        /\ e.op \in {"AND", "OR", "NOT", "neg"} => NoTextAt(x, I)
        /\ e.op \in Casts => HasType(e.op, x[1])
        /\ e.op \in {"IF", "CASE"} => NoTextAt(x, {i \in I : i % 2 = 1 /\ i < Len(x)})
        /\ e.op \in {"/", "%", "DIV", "MOD"} /\ x[1] # Null => x[2] = Null \/ x[2][2] # 0
        /\ e.op = "COALESCE" => Len(x) > 1
        /\ e.op = "CONCAT" => \A i \in I : Text(i) \/ x[i] = Null
        /\ e.op = "CONCAT_WS" => \A i \in I : Text(i)
        /\ e.op \in {"UPPER", "LENGTH"} => Text(1)
        /\ e.op \in {"LEFT", "RIGHT"} =>
             Text(1) /\ x[2] # Null /\ x[2][2] >= 0 /\ (e.op = "RIGHT" => x[2][2] <= Len(x[1][2]))
        /\ e.op = "SUBSTRING" =>
             Text(1) /\ x[2] # Null /\ x[2][2] > 0 /\ (Len(x) = 3 => x[3] # Null /\ x[3][2] >= 0)
        /\ e.op = "REVERSE" => x[1] = Null
=============================================================================
