---------------------------- MODULE WhereProofs ----------------------------
(***************************************************************************)
(* What the translations of a condition have in common with SQL, for every *)
(* condition, whatever its depth.                                          *)
(***************************************************************************)
EXTENDS Where, WellFoundedInduction, TLAPS

----------------------------------------------------------------------------
(* Conditions, and recursion over them.                                    *)

Truths == {"T", "F", "U"}

Ops == DOMAIN MongoOp

\* The operators of a comparison.
LEMMA OpNames == Ops = {"=", "<=>", "!=", "<", "<=", ">", ">="}
  BY Zenon DEF Ops, MongoOp

\* Every condition is of one of six kinds.
LEMMA Kinds ==
  ASSUME NEW e \in Conditions
  PROVE  \/ e.is = "and" /\ PartOf(e.l, e) /\ PartOf(e.r, e)
         \/ e.is = "or" /\ PartOf(e.l, e) /\ PartOf(e.r, e)
         \/ e.is = "not" /\ PartOf(e.e, e)
         \/ e.is = "cmp" /\ IsLeaf(e) /\ e.op \in Ops /\ IsComparison(e)
         \/ e.is = "cmp" /\ IsLeaf(e) /\ e.op \in InOps \cup PatternOps /\ IsMembership(e)
         \/ e.is = "between" /\ IsLeaf(e)
         \/ e.is = "is" /\ IsLeaf(e)
  BY ConditionsAssumption DEF IsLeaf, IsMembership, Ops

LEMMA LeastNumber ==
  ASSUME NEW T \in SUBSET Nat, T # {} PROVE \E m \in T : \A n \in T : m <= n
<1>1. IsWellFoundedOn(OpToRel(<, Nat), Nat)
  BY NatLessThanWellFounded
<1>2. PICK m \in T : \A y \in T : <<y, m>> \notin OpToRel(<, Nat)
  BY <1>1, WFMin, Zenon
<1>3. \A y \in T : ~(y < m)
  BY <1>2, Zenon DEF OpToRel
<1> QED BY <1>3

\* A condition for which a claim fails, though it holds for the condition's parts.
LEMMA Counterexample ==
  ASSUME NEW T, T \subseteq Conditions, T # {}
  PROVE  \E e \in T : \A p : PartOf(p, e) => p \notin T
<1> DEFINE D == {Depth[e] : e \in T}
<1>1. D \in SUBSET Nat /\ D # {}
  BY ConditionsAssumption
<1>2. PICK m \in D : \A n \in D : m <= n
  <2> HIDE DEF D
  <2> QED BY <1>1, LeastNumber
<1>3. PICK e \in T : Depth[e] = m
  BY <1>2
<1>4. ASSUME NEW p, PartOf(p, e), p \in T PROVE FALSE
  <2>1. Depth[p] \in D /\ Depth[p] \in Nat /\ m \in Nat
    BY <1>1, <1>4
  <2>2. m <= Depth[p]
    BY <1>2, <2>1
  <2> QED BY <1>3, <1>4, <2>1, <2>2 DEF PartOf
<1> QED BY <1>4

\* Induction on the depth of a condition, from its parts.
LEMMA DepthInduction ==
  ASSUME NEW G, \A e \in Conditions : (\A p : PartOf(p, e) => p \in G) => e \in G
  PROVE  Conditions \subseteq G
<1> DEFINE T == Conditions \ G
<1>1. SUFFICES ASSUME T # {} PROVE FALSE
  OBVIOUS
<1>2. PICK e \in T : \A p : PartOf(p, e) => p \notin T
  <2>1. T \subseteq Conditions
    OBVIOUS
  <2> HIDE DEF T
  <2> QED BY <1>1, <2>1, Counterexample
<1> QED BY <1>2 DEF PartOf

\* A step makes a value for a condition from a function on the conditions.
StepsTo(V) == [Conditions -> [[Conditions -> V] -> V]]

\* What step[e] makes of a function on the conditions depends on its values at
\* e's parts.
Descends(V, step) ==
  \A e \in Conditions : \A g, h \in [Conditions -> V] :
    (\A p : PartOf(p, e) => g[p] = h[p]) => step[e][g] = step[e][h]

\* g satisfies step's equation for conditions less deep than n.
Solves(step, g, n) == \A e \in Conditions : Depth[e] < n => g[e] = step[e][g]

LEMMA Agreement ==
  ASSUME NEW V, NEW step, Descends(V, step),
         NEW g \in [Conditions -> V], NEW h \in [Conditions -> V],
         NEW m \in Nat, NEW n \in Nat, Solves(step, g, m), Solves(step, h, n)
  PROVE  \A e \in Conditions : Depth[e] < m /\ Depth[e] < n => g[e] = h[e]
<1>1. Depth \in [Conditions -> Nat]
  BY ConditionsAssumption
<1> DEFINE T == {e \in Conditions : Depth[e] < m /\ Depth[e] < n /\ g[e] # h[e]}
<1>2. SUFFICES ASSUME T # {} PROVE FALSE
  OBVIOUS
<1>3. PICK e \in T : \A p : PartOf(p, e) => p \notin T
  <2>1. T \subseteq Conditions
    OBVIOUS
  <2> HIDE DEF T
  <2> QED BY <1>2, <2>1, Counterexample
<1>4. \A p : PartOf(p, e) => g[p] = h[p]
  BY <1>1, <1>3 DEF PartOf
<1>5. step[e][g] = step[e][h]
  BY <1>3, <1>4 DEF Descends
<1> QED BY <1>3, <1>5 DEF Solves

\* A step function that descends has a solution: recursion over conditions is
\* well defined.
LEMMA Solvable ==
  ASSUME NEW V, NEW step, V # {}, step \in StepsTo(V),
         Descends(V, step)
  PROVE  \E f \in [Conditions -> V] : \A e \in Conditions : f[e] = step[e][f]
<1>0. step \in [Conditions -> [[Conditions -> V] -> V]]
  BY DEF StepsTo
<1>1. Depth \in [Conditions -> Nat]
  BY ConditionsAssumption
<1>2. \A n \in Nat : \E g \in [Conditions -> V] : Solves(step, g, n)
  <2> DEFINE T == {k \in Nat : ~\E g \in [Conditions -> V] : Solves(step, g, k)}
  <2>1. SUFFICES ASSUME T # {} PROVE FALSE
    OBVIOUS
  <2>2. PICK m \in T : \A k \in T : m <= k
    <3>1. T \in SUBSET Nat
      OBVIOUS
    <3> HIDE DEF T
    <3> QED BY <2>1, <3>1, LeastNumber
  <2>3. m # 0
    <3>1. PICK v \in V : TRUE
      OBVIOUS
    <3> DEFINE g == [e \in Conditions |-> v]
    <3>2. g \in [Conditions -> V] /\ Solves(step, g, 0)
      BY <1>1, <3>1 DEF Solves
    <3> HIDE DEF g
    <3> QED BY <3>2, <2>2
  <2>4. m \in Nat /\ m - 1 \in Nat /\ m - 1 \notin T
    BY <2>2, <2>3
  <2>5. PICK g \in [Conditions -> V] : Solves(step, g, m - 1)
    BY <2>4
  <2> DEFINE h == [e \in Conditions |-> IF Depth[e] < m THEN step[e][g] ELSE g[e]]
  <2>6. h \in [Conditions -> V]
    BY <1>0, <2>5
  <2>7. ASSUME NEW e \in Conditions, Depth[e] < m PROVE h[e] = step[e][h]
    <3>1. \A p : PartOf(p, e) => p \in Conditions /\ Depth[p] < m - 1 /\ Depth[p] < m
      BY <1>1, <2>4, <2>7 DEF PartOf
    <3>2. \A p : PartOf(p, e) => h[p] = g[p]
      BY <2>5, <3>1 DEF Solves
    <3>3. step[e][h] = step[e][g]
      <4> HIDE DEF h
      <4> QED BY <2>5, <2>6, <3>2 DEF Descends
    <3> QED BY <2>7, <3>3
  <2>8. Solves(step, h, m)
    <3> HIDE DEF h
    <3> QED BY <2>7 DEF Solves
  <2> HIDE DEF h
  <2> QED BY <2>2, <2>6, <2>8
<1> DEFINE G(e) == CHOOSE g \in [Conditions -> V] : Solves(step, g, Depth[e] + 1)
           f == [e \in Conditions |-> G(e)[e]]
<1>3. \A e \in Conditions : G(e) \in [Conditions -> V] /\ Solves(step, G(e), Depth[e] + 1)
  BY <1>1, <1>2
<1> HIDE DEF G
<1>4. f \in [Conditions -> V]
  BY <1>3
<1>5. ASSUME NEW e \in Conditions PROVE f[e] = step[e][f]
  <2>1. G(e)[e] = step[e][G(e)]
    BY <1>1, <1>3 DEF Solves
  <2>2. ASSUME NEW p, PartOf(p, e) PROVE G(p)[p] = G(e)[p]
    <3>1. /\ p \in Conditions
          /\ Depth[p] + 1 \in Nat /\ Depth[e] + 1 \in Nat
          /\ Depth[p] < Depth[p] + 1 /\ Depth[p] < Depth[e] + 1
      BY <1>1, <2>2 DEF PartOf
    <3>2. \A q \in Conditions :
            Depth[q] < Depth[p] + 1 /\ Depth[q] < Depth[e] + 1 => G(p)[q] = G(e)[q]
      <4> HIDE DEF f
      <4>1. PICK g \in [Conditions -> V] : g = G(p) /\ Solves(step, g, Depth[p] + 1)
        BY <1>3, <3>1
      <4>2. PICK h \in [Conditions -> V] : h = G(e) /\ Solves(step, h, Depth[e] + 1)
        BY <1>3
      <4> QED BY <3>1, <4>1, <4>2, Agreement
    <3> QED BY <3>1, <3>2
  <2>3. \A p : PartOf(p, e) => G(e)[p] = f[p]
    BY <2>2 DEF PartOf
  <2>4. step[e][G(e)] = step[e][f]
    <3> HIDE DEF f
    <3> QED BY <1>3, <1>4, <2>3 DEF Descends
  <2> QED BY <2>1, <2>4
<1> QED BY <1>4, <1>5

----------------------------------------------------------------------------
(* The recursive functions of Where satisfy the equations that define them. *)
(* Each Step is the right-hand side of a definition.                       *)

SqlStep(g, e) ==
  [d \in Docs |->
     CASE e.is = "and" -> And3(g[e.l][d], g[e.r][d])
       [] e.is = "or" -> Or3(g[e.l][d], g[e.r][d])
       [] e.is = "not" -> Not3(g[e.e][d])
       [] e.is = "cmp" -> SqlCmp(e, d)
       [] e.is = "between" -> SqlBetween(Sql(d[e.col]), e.from, e.to, e.yes)
       [] e.is = "is" -> Truth((Sql(d[e.col]) = e.val) = e.yes)]

\* The three-valued connectives, and the comparisons, yield truth values.
LEMMA Connectives ==
  ASSUME NEW s \in Truths, NEW t \in Truths
  PROVE  /\ Not3(s) \in Truths
         /\ And3(s, t) \in Truths
         /\ Or3(s, t) \in Truths
  BY DEF Truths, Not3, And3, Or3

LEMMA Compare3Type ==
  ASSUME NEW op, NEW x, NEW y PROVE Compare3(op, x, y) \in Truths
  BY DEF Compare3, Truth, Truths

LEMMA SqlCmpType ==
  ASSUME NEW e \in Conditions, e.is = "cmp", NEW d \in Docs PROVE SqlCmp(e, d) \in Truths
<1> DEFINE x == SqlValue(e.l, d)
           y == SqlValue(e.r, d)
<1>1. Compare3(e.op, x, y) \in Truths
  BY Compare3Type
<1>2. In3(x, e.r.set) \in Truths /\ Match3(x, e.r.set) \in Truths
  BY DEF In3, Match3, Truth, Truths
<1>3. Not3(In3(x, e.r.set)) \in Truths /\ Not3(Match3(x, e.r.set)) \in Truths
  BY <1>2, Connectives
<1>4. e.op \in Ops \cup InOps \cup PatternOps
  BY Kinds
<1> HIDE DEF x, y
<1> QED BY <1>1, <1>2, <1>3, <1>4 DEF SqlCmp, x, y, Ops, InOps, PatternOps

LEMMA SqlBetweenType ==
  ASSUME NEW x, NEW from, NEW to, NEW yes PROVE SqlBetween(x, from, to, yes) \in Truths
  BY Compare3Type, Connectives DEF SqlBetween

\* What SqlStep yields, and what of g it looks at.
LEMMA SqlStepType ==
  ASSUME NEW e \in Conditions, NEW g,
         \A p : PartOf(p, e) => g[p] \in [Docs -> Truths]
  PROVE  SqlStep(g, e) \in [Docs -> Truths]
<1> SUFFICES ASSUME NEW d \in Docs PROVE SqlStep(g, e)[d] \in Truths
  BY DEF SqlStep
<1>1. CASE e.is = "and" /\ PartOf(e.l, e) /\ PartOf(e.r, e)
  BY <1>1, Connectives DEF SqlStep
<1>2. CASE e.is = "or" /\ PartOf(e.l, e) /\ PartOf(e.r, e)
  BY <1>2, Connectives DEF SqlStep
<1>3. CASE e.is = "not" /\ PartOf(e.e, e)
  BY <1>3, Connectives DEF SqlStep
<1>4. CASE e.is = "cmp"
  BY <1>4, SqlCmpType DEF SqlStep
<1>5. CASE e.is = "between"
  BY <1>5, SqlBetweenType DEF SqlStep
<1>6. CASE e.is = "is"
  BY <1>6 DEF SqlStep, Truth, Truths
<1> QED BY <1>1, <1>2, <1>3, <1>4, <1>5, <1>6, Kinds

LEMMA SqlStepLocal ==
  ASSUME NEW e \in Conditions, NEW g, NEW h, \A p : PartOf(p, e) => g[p] = h[p]
  PROVE  SqlStep(g, e) = SqlStep(h, e)
<1>1. CASE e.is = "and" /\ PartOf(e.l, e) /\ PartOf(e.r, e)
  BY <1>1 DEF SqlStep
<1>2. CASE e.is = "or" /\ PartOf(e.l, e) /\ PartOf(e.r, e)
  BY <1>2 DEF SqlStep
<1>3. CASE e.is = "not" /\ PartOf(e.e, e)
  BY <1>3 DEF SqlStep
<1>4. CASE e.is \in {"cmp", "between", "is"}
  BY <1>4 DEF SqlStep
<1> QED BY <1>1, <1>2, <1>3, <1>4, Kinds

LEMMA SqlTruthIs ==
  /\ SqlTruth \in [Conditions -> [Docs -> Truths]]
  /\ \A e \in Conditions : SqlTruth[e] = SqlStep(SqlTruth, e)
<1> DEFINE V == [Docs -> Truths]
           step == [e \in Conditions |-> [g \in [Conditions -> V] |-> SqlStep(g, e)]]
<1>1. step \in StepsTo(V)
  BY SqlStepType DEF PartOf, StepsTo
<1>2. Descends(V, step)
  BY SqlStepLocal DEF Descends
<1>3. PICK f \in [Conditions -> V] : \A e \in Conditions : f[e] = step[e][f]
  <2>1. [d \in Docs |-> "U"] \in V
    BY DEF Truths
  <2>2. Depth \in [Conditions -> Nat]
    BY ConditionsAssumption
  <2> HIDE DEF V, step
  <2>3. V # {}
    BY <2>1
  <2> QED BY <1>1, <1>2, <2>3, Solvable
<1>4. f = [e \in Conditions |-> SqlStep(f, e)]
  BY <1>3
<1>5. SqlTruth = [e \in Conditions |-> SqlStep(SqlTruth, e)]
  <2> HIDE DEF V
  <2> QED BY <1>4, Zenon DEF SqlTruth, SqlStep
<1>6. \A e \in Conditions :
        (\A p : PartOf(p, e) => SqlTruth[p] \in V) => SqlTruth[e] \in V
  <2>1. ASSUME NEW e \in Conditions, \A p : PartOf(p, e) => SqlTruth[p] \in V
        PROVE  SqlStep(SqlTruth, e) \in V
    BY <2>1, SqlStepType
  <2> HIDE DEF V
  <2> QED BY <1>5, <2>1
<1>7. SqlTruth \in [Conditions -> V]
  <2> DEFINE G == {e \in Conditions : SqlTruth[e] \in V}
  <2> HIDE DEF V
  <2>1. \A e \in Conditions : (\A p : PartOf(p, e) => p \in G) => e \in G
    BY <1>6
  <2>2. Conditions \subseteq G
    <3> HIDE DEF G
    <3> QED BY <2>1, DepthInduction
  <2> QED BY <1>5, <2>2
<1> QED BY <1>5, <1>7

TranslationStep(g, e) ==
  CASE e.is = "and" ->
         [where |-> Both(g[e.l].where, g[e.r].where),
          negated |-> Either(g[e.l].negated, g[e.r].negated)]
    [] e.is = "or" ->
         [where |-> Either(g[e.l].where, g[e.r].where),
          negated |-> Both(g[e.l].negated, g[e.r].negated)]
    [] e.is = "not" ->
         [where |-> g[e.e].negated, negated |-> g[e.e].where]
    [] e.is = "cmp" ->
         [where |-> TranslateComparison(e), negated |-> NegateComparison(e)]
    [] e.is = "between" ->
         [where |-> TranslateBetween(e.col, e.from, e.to, e.yes),
          negated |-> TranslateBetween(e.col, e.from, e.to, ~e.yes)]
    [] e.is = "is" ->
         [where |-> TranslateIs(e.col, e.val, e.yes),
          negated |-> TranslateIs(e.col, e.val, ~e.yes)]

Filters == SUBSET Docs
Pairings == [where : Filters, negated : Filters]

\* Everything a condition is translated to is a set of documents.
LEMMA FieldType == ASSUME NEW c, NEW op, NEW arg PROVE Field(c, op, arg) \in Filters
  BY DEF Field, Filters

LEMMA ExprType == ASSUME NEW op, NEW l, NEW r PROVE Expr(op, l, r) \in Filters
  BY DEF Expr, Filters

LEMMA FilterType ==
  ASSUME NEW f \in Filters, NEW g \in Filters
  PROVE  Both(f, g) \in Filters /\ Either(f, g) \in Filters /\ Nor(f) \in Filters
  BY DEF Both, Either, Nor, Filters

\* The cases of TranslateComparison.
LEMMA Comparisons ==
  ASSUME NEW e
  PROVE  /\ e.op \in Ops /\ ~FastPath(e)
              => TranslateComparison(e) = Expr(MongoOp[e.op], e.l, e.r)
         /\ e.op = "!=" /\ FastPath(e) => TranslateComparison(e) = NotEqual(e.l.col, e.r.val)
         /\ e.op \in Ops \ {"!="} /\ FastPath(e)
              => TranslateComparison(e) = Field(e.l.col, MongoOp[e.op], e.r.val)
         /\ e.op = "in" => TranslateComparison(e) = Field(e.l.col, "in", e.r.set)
         /\ e.op = "not in" => TranslateComparison(e) = Field(e.l.col, "nin", e.r.set)
         /\ e.op \in {"like", "regexp"}
              => TranslateComparison(e) = Field(e.l.col, "regex", e.r.set)
         /\ e.op \in {"not like", "not regexp"}
              => TranslateComparison(e) = Field(e.l.col, "not regex", e.r.set)
  BY OpNames DEF TranslateComparison, Ops

LEMMA NotEqualType == ASSUME NEW c, NEW v PROVE NotEqual(c, v) \in Filters
  BY FieldType, FilterType DEF NotEqual

LEMMA ComparisonType ==
  ASSUME NEW e, e.op \in Ops \cup InOps \cup PatternOps
  PROVE  TranslateComparison(e) \in Filters
<1>1. CASE e.op \in Ops
  BY <1>1, FieldType, ExprType, NotEqualType, Comparisons
<1>2. CASE e.op \in InOps \cup PatternOps
  <2>1. \E op : TranslateComparison(e) = Field(e.l.col, op, e.r.set)
    BY <1>2, Comparisons DEF InOps, PatternOps
  <2> QED BY <2>1, FieldType
<1> QED BY <1>1, <1>2

LEMMA BetweenType ==
  ASSUME NEW c, NEW from, NEW to, NEW yes PROVE TranslateBetween(c, from, to, yes) \in Filters
  BY FieldType, FilterType DEF TranslateBetween

LEMMA IsType == ASSUME NEW c, NEW val, NEW yes PROVE TranslateIs(c, val, yes) \in Filters
  BY FieldType DEF TranslateIs

\* Negation of a comparison changes its operator.
LEMMA Negation ==
  ASSUME NEW op \in (Ops \cup InOps \cup PatternOps) \ {"<=>"}
  PROVE  /\ NegateComparisonOp(op) \in (Ops \cup InOps \cup PatternOps) \ {"<=>"}
         /\ NegateComparisonOp(op) # "none"
         /\ NegateComparisonOp(op) \in Ops <=> op \in Ops
  BY OpNames DEF NegateComparisonOp, InOps, PatternOps

LEMMA ConditionOps ==
  ASSUME NEW e \in Conditions, e.is = "cmp"
  PROVE  /\ e.op \in Ops \cup InOps \cup PatternOps
         /\ e = Cmp(e.op, e.l, e.r)
  BY Kinds DEF IsLeaf

LEMMA NegatedComparison ==
  ASSUME NEW e \in Conditions, e.is = "cmp", e.op # "<=>"
  PROVE  NegateComparison(e) = TranslateComparison(Cmp(NegateComparisonOp(e.op), e.l, e.r))
<1>1. [e EXCEPT !.op = NegateComparisonOp(e.op)] = Cmp(NegateComparisonOp(e.op), e.l, e.r)
  BY ConditionOps DEF Cmp
<1> QED BY <1>1, Negation, ConditionOps DEF NegateComparison

LEMMA NegateComparisonType ==
  ASSUME NEW e \in Conditions, e.is = "cmp" PROVE NegateComparison(e) \in Filters
<1>1. CASE e.op = "<=>"
  BY <1>1, ComparisonType, ConditionOps, FilterType DEF NegateComparison, NegateComparisonOp
<1>2. CASE e.op # "<=>"
  <2>1. Cmp(NegateComparisonOp(e.op), e.l, e.r).op \in Ops \cup InOps \cup PatternOps
    BY <1>2, Negation, ConditionOps DEF Cmp
  <2> QED BY <1>2, <2>1, NegatedComparison, ComparisonType
<1> QED BY <1>1, <1>2

LEMMA TranslationStepType ==
  ASSUME NEW e \in Conditions, NEW g, \A p : PartOf(p, e) => g[p] \in Pairings
  PROVE  TranslationStep(g, e) \in Pairings
<1>1. CASE e.is \in {"and", "or"} /\ PartOf(e.l, e) /\ PartOf(e.r, e)
  BY <1>1, FilterType DEF TranslationStep, Pairings
<1>2. CASE e.is = "not" /\ PartOf(e.e, e)
  BY <1>2 DEF TranslationStep, Pairings
<1>3. CASE e.is = "cmp"
  BY <1>3, ConditionOps, ComparisonType, NegateComparisonType DEF TranslationStep, Pairings
<1>4. CASE e.is = "between"
  BY <1>4, BetweenType DEF TranslationStep, Pairings
<1>5. CASE e.is = "is"
  BY <1>5, IsType DEF TranslationStep, Pairings
<1> QED BY <1>1, <1>2, <1>3, <1>4, <1>5, Kinds

LEMMA TranslationStepLocal ==
  ASSUME NEW e \in Conditions, NEW g, NEW h, \A p : PartOf(p, e) => g[p] = h[p]
  PROVE  TranslationStep(g, e) = TranslationStep(h, e)
<1>1. CASE e.is \in {"and", "or"} /\ PartOf(e.l, e) /\ PartOf(e.r, e)
  BY <1>1 DEF TranslationStep
<1>2. CASE e.is = "not" /\ PartOf(e.e, e)
  BY <1>2 DEF TranslationStep
<1>3. CASE e.is \in {"cmp", "between", "is"}
  BY <1>3 DEF TranslationStep
<1> QED BY <1>1, <1>2, <1>3, Kinds

LEMMA TranslationIs ==
  /\ Translation \in [Conditions -> Pairings]
  /\ \A e \in Conditions : Translation[e] = TranslationStep(Translation, e)
<1> DEFINE V == Pairings
           step == [e \in Conditions |-> [g \in [Conditions -> V] |-> TranslationStep(g, e)]]
<1>1. step \in StepsTo(V)
  BY TranslationStepType DEF PartOf, StepsTo
<1>2. Descends(V, step)
  BY TranslationStepLocal DEF Descends
<1>3. PICK f \in [Conditions -> V] : \A e \in Conditions : f[e] = step[e][f]
  <2>1. [where |-> {}, negated |-> {}] \in V
    BY DEF Pairings, Filters
  <2> HIDE DEF V, step
  <2>2. V # {}
    BY <2>1
  <2> QED BY <1>1, <1>2, <2>2, Solvable
<1>4. f = [e \in Conditions |-> TranslationStep(f, e)]
  BY <1>3
<1>5. Translation = [e \in Conditions |-> TranslationStep(Translation, e)]
  <2> HIDE DEF V
  <2> QED BY <1>4, Zenon DEF Translation, TranslationStep
<1>6. \A e \in Conditions :
        (\A p : PartOf(p, e) => Translation[p] \in V) => Translation[e] \in V
  <2>1. ASSUME NEW e \in Conditions, \A p : PartOf(p, e) => Translation[p] \in V
        PROVE  TranslationStep(Translation, e) \in V
    BY <2>1, TranslationStepType
  <2> HIDE DEF V
  <2> QED BY <1>5, <2>1
<1>7. Translation \in [Conditions -> V]
  <2> DEFINE G == {e \in Conditions : Translation[e] \in V}
  <2> HIDE DEF V
  <2>1. \A e \in Conditions : (\A p : PartOf(p, e) => p \in G) => e \in G
    BY <1>6
  <2>2. Conditions \subseteq G
    <3> HIDE DEF G
    <3> QED BY <2>1, DepthInduction
  <2> QED BY <1>5, <2>2
<1> QED BY <1>5, <1>7

AggStep(g, e) ==
  CASE e.is = "and" -> Both(g[e.l], g[e.r])
    [] e.is = "or" -> Either(g[e.l], g[e.r])
    [] e.is = "not" -> Nor(g[e.e])
    [] e.is = "cmp" /\ e.op \in DOMAIN MongoOp -> Expr(MongoOp[e.op], e.l, e.r)
    [] e.is = "cmp" /\ e.op \notin DOMAIN MongoOp -> AggMembership(e)
    [] e.is = "between" -> AggBetween(e.col, e.from, e.to, e.yes)
    [] e.is = "is" -> Expr(IF e.yes THEN "eq" ELSE "ne", Col(e.col), Lit(e.val))

LEMMA AggStepType ==
  ASSUME NEW e \in Conditions, NEW g, \A p : PartOf(p, e) => g[p] \in Filters
  PROVE  AggStep(g, e) \in Filters
<1>1. CASE e.is \in {"and", "or"} /\ PartOf(e.l, e) /\ PartOf(e.r, e)
  BY <1>1, FilterType DEF AggStep
<1>2. CASE e.is = "not" /\ PartOf(e.e, e)
  BY <1>2, FilterType DEF AggStep
<1>3. CASE e.is = "cmp"
  <2>1. AggMembership(e) \in Filters
    BY DEF AggMembership, Nor, Filters
  <2> QED BY <1>3, <2>1, ExprType DEF AggStep
<1>4. CASE e.is = "between"
  <2>1. AggBetween(e.col, e.from, e.to, e.yes) \in Filters
    BY ExprType, FilterType DEF AggBetween
  <2> QED BY <1>4, <2>1 DEF AggStep
<1>5. CASE e.is = "is"
  BY <1>5, ExprType DEF AggStep
<1> QED BY <1>1, <1>2, <1>3, <1>4, <1>5, Kinds

LEMMA AggStepLocal ==
  ASSUME NEW e \in Conditions, NEW g, NEW h, \A p : PartOf(p, e) => g[p] = h[p]
  PROVE  AggStep(g, e) = AggStep(h, e)
<1>1. CASE e.is \in {"and", "or"} /\ PartOf(e.l, e) /\ PartOf(e.r, e)
  BY <1>1 DEF AggStep
<1>2. CASE e.is = "not" /\ PartOf(e.e, e)
  BY <1>2 DEF AggStep
<1>3. CASE e.is \in {"cmp", "between", "is"}
  BY <1>3 DEF AggStep
<1> QED BY <1>1, <1>2, <1>3, Kinds

LEMMA AggExprIs ==
  /\ AggExpr \in [Conditions -> Filters]
  /\ \A e \in Conditions : AggExpr[e] = AggStep(AggExpr, e)
<1> DEFINE V == Filters
           step == [e \in Conditions |-> [g \in [Conditions -> V] |-> AggStep(g, e)]]
<1>1. step \in StepsTo(V)
  BY AggStepType DEF PartOf, StepsTo
<1>2. Descends(V, step)
  BY AggStepLocal DEF Descends
<1>3. PICK f \in [Conditions -> V] : \A e \in Conditions : f[e] = step[e][f]
  <2>1. {} \in V
    BY DEF Filters
  <2> HIDE DEF V, step
  <2>2. V # {}
    BY <2>1
  <2> QED BY <1>1, <1>2, <2>2, Solvable
<1>4. f = [e \in Conditions |-> AggStep(f, e)]
  BY <1>3
<1>5. AggExpr = [e \in Conditions |-> AggStep(AggExpr, e)]
  <2> HIDE DEF V
  <2> QED BY <1>4, Zenon DEF AggExpr, AggStep
<1>6. \A e \in Conditions :
        (\A p : PartOf(p, e) => AggExpr[p] \in V) => AggExpr[e] \in V
  <2>1. ASSUME NEW e \in Conditions, \A p : PartOf(p, e) => AggExpr[p] \in V
        PROVE  AggStep(AggExpr, e) \in V
    BY <2>1, AggStepType
  <2> HIDE DEF V
  <2> QED BY <1>5, <2>1
<1>7. AggExpr \in [Conditions -> V]
  <2> DEFINE G == {e \in Conditions : AggExpr[e] \in V}
  <2> HIDE DEF V
  <2>1. \A e \in Conditions : (\A p : PartOf(p, e) => p \in G) => e \in G
    BY <1>6
  <2>2. Conditions \subseteq G
    <3> HIDE DEF G
    <3> QED BY <2>1, DepthInduction
  <2> QED BY <1>5, <2>2
<1> QED BY <1>5, <1>7

InAggStep(g, e) ==
  CASE e.is \in {"and", "or"} -> g[e.l] /\ g[e.r]
    [] e.is = "not" -> g[e.e]
    [] e.is = "cmp" -> e.op \notin {"regexp", "not regexp"}
    [] e.is \in {"between", "is"} -> TRUE

LEMMA InAggStepType ==
  ASSUME NEW e \in Conditions, NEW g, \A p : PartOf(p, e) => g[p] \in BOOLEAN
  PROVE  InAggStep(g, e) \in BOOLEAN
<1>1. CASE e.is \in {"and", "or"} /\ PartOf(e.l, e) /\ PartOf(e.r, e)
  BY <1>1 DEF InAggStep
<1>2. CASE e.is = "not" /\ PartOf(e.e, e)
  BY <1>2 DEF InAggStep
<1>3. CASE e.is \in {"cmp", "between", "is"}
  BY <1>3 DEF InAggStep
<1> QED BY <1>1, <1>2, <1>3, Kinds

LEMMA InAggStepLocal ==
  ASSUME NEW e \in Conditions, NEW g, NEW h, \A p : PartOf(p, e) => g[p] = h[p]
  PROVE  InAggStep(g, e) = InAggStep(h, e)
<1>1. CASE e.is \in {"and", "or"} /\ PartOf(e.l, e) /\ PartOf(e.r, e)
  BY <1>1 DEF InAggStep
<1>2. CASE e.is = "not" /\ PartOf(e.e, e)
  BY <1>2 DEF InAggStep
<1>3. CASE e.is \in {"cmp", "between", "is"}
  BY <1>3 DEF InAggStep
<1> QED BY <1>1, <1>2, <1>3, Kinds

LEMMA InAggIs ==
  /\ InAgg \in [Conditions -> BOOLEAN]
  /\ \A e \in Conditions : InAgg[e] = InAggStep(InAgg, e)
<1> DEFINE V == BOOLEAN
           step == [e \in Conditions |-> [g \in [Conditions -> V] |-> InAggStep(g, e)]]
<1>1. step \in StepsTo(V)
  BY InAggStepType DEF PartOf, StepsTo
<1>2. Descends(V, step)
  BY InAggStepLocal DEF Descends
<1>3. PICK f \in [Conditions -> V] : \A e \in Conditions : f[e] = step[e][f]
  <2>1. TRUE \in V
    OBVIOUS
  <2> HIDE DEF V, step
  <2>2. V # {}
    BY <2>1
  <2> QED BY <1>1, <1>2, <2>2, Solvable
<1>4. f = [e \in Conditions |-> InAggStep(f, e)]
  BY <1>3
<1>5. InAgg = [e \in Conditions |-> InAggStep(InAgg, e)]
  <2> HIDE DEF V
  <2> QED BY <1>4, Zenon DEF InAgg, InAggStep
<1>6. \A e \in Conditions :
        (\A p : PartOf(p, e) => InAgg[p] \in V) => InAgg[e] \in V
  <2>1. ASSUME NEW e \in Conditions, \A p : PartOf(p, e) => InAgg[p] \in V
        PROVE  InAggStep(InAgg, e) \in V
    BY <2>1, InAggStepType
  <2> HIDE DEF V
  <2> QED BY <1>5, <2>1
<1>7. InAgg \in [Conditions -> V]
  <2> DEFINE G == {e \in Conditions : InAgg[e] \in V}
  <2> HIDE DEF V
  <2>1. \A e \in Conditions : (\A p : PartOf(p, e) => p \in G) => e \in G
    BY <1>6
  <2>2. Conditions \subseteq G
    <3> HIDE DEF G
    <3> QED BY <2>1, DepthInduction
  <2> QED BY <1>5, <2>2
<1> QED BY <1>5, <1>7

PlainStep(g, e) ==
  [positive \in BOOLEAN |->
     CASE e.is \in {"and", "or"} -> g[e.l][positive] /\ g[e.r][positive]
       [] e.is = "not" -> g[e.e][~positive]
       [] OTHER -> PlainLeaf(e, positive)]

LEMMA PlainStepType ==
  ASSUME NEW e \in Conditions, NEW g, \A p : PartOf(p, e) => g[p] \in [BOOLEAN -> BOOLEAN]
  PROVE  PlainStep(g, e) \in [BOOLEAN -> BOOLEAN]
<1> SUFFICES ASSUME NEW positive \in BOOLEAN PROVE PlainStep(g, e)[positive] \in BOOLEAN
  BY DEF PlainStep
<1>1. CASE e.is \in {"and", "or"} /\ PartOf(e.l, e) /\ PartOf(e.r, e)
  BY <1>1 DEF PlainStep
<1>2. CASE e.is = "not" /\ PartOf(e.e, e)
  BY <1>2 DEF PlainStep
<1>3. CASE e.is \in {"cmp", "between", "is"}
  BY <1>3 DEF PlainStep, PlainLeaf
<1> QED BY <1>1, <1>2, <1>3, Kinds

LEMMA PlainStepLocal ==
  ASSUME NEW e \in Conditions, NEW g, NEW h, \A p : PartOf(p, e) => g[p] = h[p]
  PROVE  PlainStep(g, e) = PlainStep(h, e)
<1>1. CASE e.is \in {"and", "or"} /\ PartOf(e.l, e) /\ PartOf(e.r, e)
  BY <1>1 DEF PlainStep
<1>2. CASE e.is = "not" /\ PartOf(e.e, e)
  BY <1>2 DEF PlainStep
<1>3. CASE e.is \in {"cmp", "between", "is"}
  BY <1>3 DEF PlainStep
<1> QED BY <1>1, <1>2, <1>3, Kinds

LEMMA PlainIs ==
  /\ Plain \in [Conditions -> [BOOLEAN -> BOOLEAN]]
  /\ \A e \in Conditions : Plain[e] = PlainStep(Plain, e)
<1> DEFINE V == [BOOLEAN -> BOOLEAN]
           step == [e \in Conditions |-> [g \in [Conditions -> V] |-> PlainStep(g, e)]]
<1>1. step \in StepsTo(V)
  BY PlainStepType DEF PartOf, StepsTo
<1>2. Descends(V, step)
  BY PlainStepLocal DEF Descends
<1>3. PICK f \in [Conditions -> V] : \A e \in Conditions : f[e] = step[e][f]
  <2>1. [b \in BOOLEAN |-> TRUE] \in V
    OBVIOUS
  <2> HIDE DEF V, step
  <2>2. V # {}
    BY <2>1
  <2> QED BY <1>1, <1>2, <2>2, Solvable
<1>4. f = [e \in Conditions |-> PlainStep(f, e)]
  BY <1>3
<1>5. Plain = [e \in Conditions |-> PlainStep(Plain, e)]
  <2> HIDE DEF V
  <2> QED BY <1>4, Zenon DEF Plain, PlainStep
<1>6. \A e \in Conditions :
        (\A p : PartOf(p, e) => Plain[p] \in V) => Plain[e] \in V
  <2>1. ASSUME NEW e \in Conditions, \A p : PartOf(p, e) => Plain[p] \in V
        PROVE  PlainStep(Plain, e) \in V
    BY <2>1, PlainStepType
  <2> HIDE DEF V
  <2> QED BY <1>5, <2>1
<1>7. Plain \in [Conditions -> V]
  <2> DEFINE G == {e \in Conditions : Plain[e] \in V}
  <2> HIDE DEF V
  <2>1. \A e \in Conditions : (\A p : PartOf(p, e) => p \in G) => e \in G
    BY <1>6
  <2>2. Conditions \subseteq G
    <3> HIDE DEF G
    <3> QED BY <2>1, DepthInduction
  <2> QED BY <1>5, <2>2
<1> QED BY <1>5, <1>7

\* Which parts have to be plain.
LEMMA PlainOfParts ==
  ASSUME NEW e \in Conditions, e.is \in {"and", "or"}
  PROVE  \A b \in BOOLEAN : Plain[e][b] = (Plain[e.l][b] /\ Plain[e.r][b])
<1>1. ASSUME NEW g, NEW b \in BOOLEAN PROVE PlainStep(g, e)[b] = (g[e.l][b] /\ g[e.r][b])
  BY Zenon DEF PlainStep
<1>2. Plain[e] = PlainStep(Plain, e)
  BY PlainIs, Zenon
<1> QED BY <1>1, <1>2, Zenon

LEMMA PlainOfPart ==
  ASSUME NEW e \in Conditions, e.is = "not"
  PROVE  Plain[e][TRUE] = Plain[e.e][FALSE] /\ Plain[e][FALSE] = Plain[e.e][TRUE]
<1>1. ASSUME NEW g, NEW b \in BOOLEAN PROVE PlainStep(g, e)[b] = g[e.e][~b]
  BY DEF PlainStep
<1>2. Plain[e] = PlainStep(Plain, e)
  BY PlainIs, Zenon
<1>3. Plain[e][TRUE] = Plain[e.e][~TRUE] /\ Plain[e][FALSE] = Plain[e.e][~FALSE]
  BY <1>1, <1>2, Zenon
<1>4. ~TRUE = FALSE /\ ~FALSE = TRUE
  OBVIOUS
<1> QED BY <1>3, <1>4, Zenon

NoPathsStep(g, e) ==
  [inCase \in BOOLEAN |->
     CASE e.is \in {"and", "or"} -> g[e.l][inCase] /\ g[e.r][inCase]
       [] e.is = "not" -> g[e.e][inCase]
       [] OTHER -> EmbeddedValues(e, inCase) \cap DOMAIN Names = {}]

LEMMA NoPathsStepType ==
  ASSUME NEW e \in Conditions, NEW g, \A p : PartOf(p, e) => g[p] \in [BOOLEAN -> BOOLEAN]
  PROVE  NoPathsStep(g, e) \in [BOOLEAN -> BOOLEAN]
<1> SUFFICES ASSUME NEW inCase \in BOOLEAN PROVE NoPathsStep(g, e)[inCase] \in BOOLEAN
  BY DEF NoPathsStep
<1>1. CASE e.is \in {"and", "or"} /\ PartOf(e.l, e) /\ PartOf(e.r, e)
  BY <1>1 DEF NoPathsStep
<1>2. CASE e.is = "not" /\ PartOf(e.e, e)
  BY <1>2 DEF NoPathsStep
<1>3. CASE e.is \in {"cmp", "between", "is"}
  BY <1>3 DEF NoPathsStep
<1> QED BY <1>1, <1>2, <1>3, Kinds

LEMMA NoPathsStepLocal ==
  ASSUME NEW e \in Conditions, NEW g, NEW h, \A p : PartOf(p, e) => g[p] = h[p]
  PROVE  NoPathsStep(g, e) = NoPathsStep(h, e)
<1>1. CASE e.is \in {"and", "or"} /\ PartOf(e.l, e) /\ PartOf(e.r, e)
  BY <1>1 DEF NoPathsStep
<1>2. CASE e.is = "not" /\ PartOf(e.e, e)
  BY <1>2 DEF NoPathsStep
<1>3. CASE e.is \in {"cmp", "between", "is"}
  BY <1>3 DEF NoPathsStep
<1> QED BY <1>1, <1>2, <1>3, Kinds

LEMMA NoPathsIs ==
  /\ NoPaths \in [Conditions -> [BOOLEAN -> BOOLEAN]]
  /\ \A e \in Conditions : NoPaths[e] = NoPathsStep(NoPaths, e)
<1> DEFINE V == [BOOLEAN -> BOOLEAN]
           step == [e \in Conditions |-> [g \in [Conditions -> V] |-> NoPathsStep(g, e)]]
<1>1. step \in StepsTo(V)
  BY NoPathsStepType DEF PartOf, StepsTo
<1>2. Descends(V, step)
  BY NoPathsStepLocal DEF Descends
<1>3. PICK f \in [Conditions -> V] : \A e \in Conditions : f[e] = step[e][f]
  <2>1. [b \in BOOLEAN |-> TRUE] \in V
    OBVIOUS
  <2> HIDE DEF V, step
  <2>2. V # {}
    BY <2>1
  <2> QED BY <1>1, <1>2, <2>2, Solvable
<1>4. f = [e \in Conditions |-> NoPathsStep(f, e)]
  BY <1>3
<1>5. NoPaths = [e \in Conditions |-> NoPathsStep(NoPaths, e)]
  <2> HIDE DEF V
  <2> QED BY <1>4, Zenon DEF NoPaths, NoPathsStep
<1>6. \A e \in Conditions :
        (\A p : PartOf(p, e) => NoPaths[p] \in V) => NoPaths[e] \in V
  <2>1. ASSUME NEW e \in Conditions, \A p : PartOf(p, e) => NoPaths[p] \in V
        PROVE  NoPathsStep(NoPaths, e) \in V
    BY <2>1, NoPathsStepType
  <2> HIDE DEF V
  <2> QED BY <1>5, <2>1
<1>7. NoPaths \in [Conditions -> V]
  <2> DEFINE G == {e \in Conditions : NoPaths[e] \in V}
  <2> HIDE DEF V
  <2>1. \A e \in Conditions : (\A p : PartOf(p, e) => p \in G) => e \in G
    BY <1>6
  <2>2. Conditions \subseteq G
    <3> HIDE DEF G
    <3> QED BY <2>1, DepthInduction
  <2> QED BY <1>5, <2>2
<1> QED BY <1>5, <1>7

\* Which parts must have no path.
LEMMA NoPathsOfParts ==
  ASSUME NEW e \in Conditions, e.is \in {"and", "or"}
  PROVE  \A b \in BOOLEAN : NoPaths[e][b] = (NoPaths[e.l][b] /\ NoPaths[e.r][b])
<1>1. ASSUME NEW g, NEW b \in BOOLEAN PROVE NoPathsStep(g, e)[b] = (g[e.l][b] /\ g[e.r][b])
  BY Zenon DEF NoPathsStep
<1>2. NoPaths[e] = NoPathsStep(NoPaths, e)
  BY NoPathsIs, Zenon
<1> QED BY <1>1, <1>2, Zenon

LEMMA NoPathsOfPart ==
  ASSUME NEW e \in Conditions, e.is = "not"
  PROVE  \A b \in BOOLEAN : NoPaths[e][b] = NoPaths[e.e][b]
<1>1. ASSUME NEW g, NEW b \in BOOLEAN PROVE NoPathsStep(g, e)[b] = g[e.e][b]
  BY DEF NoPathsStep
<1>2. NoPaths[e] = NoPathsStep(NoPaths, e)
  BY NoPathsIs, Zenon
<1> QED BY <1>1, <1>2, Zenon

\* The values a leaf puts in an expression are no paths.
Clean(e, inCase) == EmbeddedValues(e, inCase) \cap DOMAIN Names = {}

LEMMA NoPathsOfLeaf ==
  ASSUME NEW e \in Conditions, e.is \in {"cmp", "between", "is"}
  PROVE  \A b \in BOOLEAN : NoPaths[e][b] = Clean(e, b)
<1>1. ASSUME NEW g, NEW b \in BOOLEAN PROVE NoPathsStep(g, e)[b] = Clean(e, b)
  BY DEF NoPathsStep, Clean
<1>2. NoPaths[e] = NoPathsStep(NoPaths, e)
  BY NoPathsIs, Zenon
<1> QED BY <1>1, <1>2, Zenon

LEMMA EmbeddedOf ==
  ASSUME NEW e, NEW b \in BOOLEAN
  PROVE  /\ e.is = "cmp" /\ e.op \in Ops /\ (b \/ ~FastPath(e))
              => EmbeddedValues(e, b) = Constant(e.l) \cup Constant(e.r)
         /\ e.is = "cmp" /\ e.op \in Ops /\ ~b /\ FastPath(e) => EmbeddedValues(e, b) = {}
         /\ e.is = "cmp" /\ e.op \in InOps => EmbeddedValues(e, TRUE) = e.r.set
         /\ e.is = "between" => EmbeddedValues(e, TRUE) = {e.from, e.to}
<1>1. CASE e.is = "cmp" /\ e.op \in Ops
  <2>1. e.op \in DOMAIN MongoOp /\ e.op \notin InOps /\ e.op \notin PatternOps
    BY <1>1, OpNames DEF Ops, InOps, PatternOps
  <2>2. EmbeddedValues(e, b) =
          IF FastPath(e) /\ ~b THEN {} ELSE Constant(e.l) \cup Constant(e.r)
    BY <1>1, <2>1 DEF EmbeddedValues
  <2> QED BY <1>1, <2>1, <2>2
<1>2. CASE e.is = "cmp" /\ e.op \in InOps
  <2>1. e.op \notin DOMAIN MongoOp /\ e.op \notin PatternOps
    BY <1>2, OpNames DEF Ops, InOps, PatternOps
  <2>2. EmbeddedValues(e, TRUE) = e.r.set
    BY <1>2, <2>1 DEF EmbeddedValues
  <2> QED BY <1>2, <2>1, <2>2 DEF Ops
<1>3. CASE e.is = "between"
  BY <1>3 DEF EmbeddedValues
<1> QED BY <1>1, <1>2, <1>3

----------------------------------------------------------------------------
(* Comparisons of values.                                                  *)

\* A two-valued answer m to a question SQL answers with t: right where SQL knows;
\* and right everywhere, unknown counted as no.
Agrees(t, m) == (t = "T" => m) /\ (t = "F" => ~m)
Exact(t, m) == m <=> t = "T"

Types == {Numbers, Strings, Booleans}

LEMMA TypeFacts ==
  ASSUME NEW T \in Types
  PROVE  Null \notin T /\ Missing \notin T /\ T \subseteq Values
  BY OrderAssumption DEF Types, Values

LEMMA Ordered ==
  ASSUME NEW x \in Values, NEW y \in Values
  PROVE  Rank[x] \in Int /\ (Rank[x] = Rank[y] <=> x = y)
  BY OrderAssumption

LEMMA NullFacts == Null \in Values /\ Missing \in Values /\ Missing # Null
  BY OrderAssumption DEF Values

LEMMA OpTable ==
  /\ MongoOp["="] = "eq" /\ MongoOp["<=>"] = "eq" /\ MongoOp["!="] = "ne"
  /\ MongoOp["<"] = "lt" /\ MongoOp["<="] = "lte"
  /\ MongoOp[">"] = "gt" /\ MongoOp[">="] = "gte"
  BY DEF MongoOp

LEMMA HoldsIs ==
  ASSUME NEW i \in Int, NEW j \in Int
  PROVE  /\ Holds("gte", i, j) <=> ~Holds("lt", i, j)
         /\ Holds("gt", i, j) <=> ~Holds("lte", i, j)
<1>1. /\ Holds("gte", i, j) <=> i >= j
      /\ Holds("gt", i, j) <=> i > j
      /\ Holds("lt", i, j) <=> i < j
      /\ Holds("lte", i, j) <=> i <= j
  BY DEF Holds
<1> QED BY <1>1

LEMMA NegatedNames ==
  /\ NegateComparisonOp("<") = ">=" /\ NegateComparisonOp(">=") = "<"
  /\ NegateComparisonOp("<=") = ">" /\ NegateComparisonOp(">") = "<="
  BY DEF NegateComparisonOp

\* NegateComparisonOp is SQL's NOT.
LEMMA OppositeComparison ==
  ASSUME NEW x \in Values, NEW y \in Values, NEW op \in Ops \ {"<=>"}
  PROVE  Compare3(NegateComparisonOp(op), x, y) = Not3(Compare3(op, x, y))
<1>1. Rank[x] \in Int /\ Rank[y] \in Int
  BY Ordered
<1>2. op \in {"=", "!=", "<", "<=", ">", ">="}
  BY OpNames
<1> DEFINE i == Rank[x]
           j == Rank[y]
<1>3. Holds(MongoOp[NegateComparisonOp(op)], i, j) <=> ~Holds(MongoOp[op], i, j)
  <2>1. i \in Int /\ j \in Int
    BY <1>1
  <2> HIDE DEF i, j
  <2>2. CASE op \in {"=", "!="}
    BY <2>2, OpTable DEF Holds, NegateComparisonOp
  <2>3. CASE op \in {"<", "<=", ">", ">="}
    BY <2>1, <2>3, OpTable, HoldsIs, NegatedNames
  <2> QED BY <1>2, <2>2, <2>3
<1>4. NegateComparisonOp(op) # "<=>"
  BY <1>2 DEF NegateComparisonOp
<1> HIDE DEF i, j
<1> QED BY <1>3, <1>4 DEF Compare3, Truth, Not3, i, j

\* A comparison of a field with a literal.
Selected(op, x, v) ==
  IF op = "!=" THEN ~Equals(x, v) /\ ~Equals(x, Null) ELSE FieldMatches(x, MongoOp[op], v)

LEMMA FieldComparison ==
  ASSUME NEW T \in Types, NEW x \in T \cup {Null, Missing}, NEW v \in T \cup {Null},
         NEW op \in Ops
  PROVE  /\ Agrees(Compare3(op, Sql(x), v), Selected(op, x, v))
         /\ op = "<=>" \/ v # Null => Exact(Compare3(op, Sql(x), v), Selected(op, x, v))
<1>1. x \in Values /\ v \in Values /\ Sql(x) \in Values /\ v # Missing /\ Sql(x) # Missing
  BY TypeFacts, NullFacts DEF Sql
<1>2. Rank[Sql(x)] = Rank[v] <=> Sql(x) = v
  BY <1>1, Ordered
<1>3. CASE op \in {"=", "<=>", "!="}
  BY <1>1, <1>2, <1>3, OpTable, NullFacts
  DEF Agrees, Exact, Compare3, Selected, FieldMatches, Equals, Truth, Holds, Sql
<1>4. CASE op \in {"<", "<=", ">", ">="}
  <2>1. Selected(op, x, v) <=> SameType(x, v) /\ Holds(MongoOp[op], Rank[Sql(x)], Rank[v])
    BY <1>4, OpTable DEF Selected, FieldMatches, Orders
  <2>2. CASE Null \notin {Sql(x), v}
    <3>1. SameType(x, v)
      BY <2>2, NullFacts DEF SameType, Types, Sql
    <3> QED BY <1>4, <2>1, <2>2, <3>1 DEF Agrees, Exact, Compare3, Truth
  <2>3. CASE v = Null
    BY <1>4, <2>3 DEF Agrees, Compare3
  <2>4. CASE v # Null /\ Sql(x) = Null
    <3>1. ~SameType(x, v)
      <4>1. x \in {Null, Missing}
        BY <2>4 DEF Sql
      <4>2. ~Equals(x, v)
        BY <1>1, <2>4, <4>1 DEF Equals
      <4>3. \A U \in Types : x \notin U
        BY <4>1, TypeFacts
      <4> QED BY <4>2, <4>3 DEF SameType, Types
    <3> QED BY <1>4, <2>1, <2>4, <3>1 DEF Agrees, Exact, Compare3
  <2> QED BY <2>2, <2>3, <2>4
<1> QED BY <1>3, <1>4, OpNames

\* A comparison in an aggregation expression, of operands with the values x and y.
LEMMA ExprComparison ==
  ASSUME NEW x \in Values, NEW y \in Values, NEW op \in Ops,
         op = "<=>" => (x = y \/ Missing \notin {x, y} \/ {Null, Missing} \cap {x} = {}
                                \/ {Null, Missing} \cap {y} = {})
  PROVE  Agrees(Compare3(op, Sql(x), Sql(y)), Compares(MongoOp[op], x, y))
<1>1. Sql(x) \in Values /\ Sql(y) \in Values
  BY NullFacts DEF Sql
<1>2. CASE op = "<=>"
  <2>1. Rank[Sql(x)] = Rank[Sql(y)] <=> Rank[x] = Rank[y]
    BY <1>1, <1>2, Ordered, NullFacts DEF Sql
  <2> QED BY <1>2, <2>1, OpTable DEF Agrees, Compare3, Truth, Holds, Compares
<1>3. CASE op # "<=>"
  <2>1. CASE Null \in {Sql(x), Sql(y)}
    BY <1>3, <2>1 DEF Agrees, Compare3
  <2>2. CASE Null \notin {Sql(x), Sql(y)}
    <3>1. Sql(x) = x /\ Sql(y) = y
      BY <2>2 DEF Sql
    <3> QED BY <1>3, <2>2, <3>1 DEF Agrees, Compare3, Truth, Compares
  <2> QED BY <2>1, <2>2
<1> QED BY <1>2, <1>3

----------------------------------------------------------------------------
(* Leaves.                                                                 *)

LEMMA DocValue ==
  ASSUME NEW d \in Docs, NEW c \in Cols
  PROVE  /\ Domain(c) \in Types
         /\ d[c] \in Domain(c) \cup {Null, Missing}
         /\ d[c] \in Values
  BY TypeFacts, NullFacts DEF Docs, Domain, Types

LEMMA Members ==
  ASSUME NEW d \in Docs, NEW c, NEW op, NEW arg
  PROVE  d \in Field(c, op, arg) <=> FieldMatches(d[c], op, arg)
  BY DEF Field

LEMMA ExprMembers ==
  ASSUME NEW d \in Docs, NEW op, NEW l, NEW r
  PROVE  d \in Expr(op, l, r) <=> Compares(op, Operand(l, d), Operand(r, d))
  BY DEF Expr

LEMMA OperandType ==
  ASSUME NEW T \in Types, NEW o, OfType(o, T), NEW d \in Docs
  PROVE  /\ SqlValue(o, d) \in Values
         /\ o.is = "col" => o.col \in Cols /\ T = Domain(o.col) /\ Operand(o, d) = d[o.col]
         /\ o.is # "col" => o.val \in T \cup {Null} /\ SqlValue(o, d) = o.val
<1>1. CASE o.is = "col"
  BY <1>1, DocValue, NullFacts DEF OfType, Operand, SqlValue, Sql
<1>2. CASE o.is # "col"
  BY <1>2, TypeFacts, NullFacts DEF OfType, SqlValue
<1> QED BY <1>1, <1>2

LEMMA OperandValue ==
  ASSUME NEW T \in Types, NEW o, OfType(o, T), NEW d \in Docs,
         Constant(o) \cap DOMAIN Names = {}
  PROVE  /\ Operand(o, d) \in T \cup {Null, Missing} /\ Operand(o, d) \in Values
         /\ SqlValue(o, d) = Sql(Operand(o, d))
         /\ o.is # "col" => Operand(o, d) = o.val
<1>1. CASE o.is = "col"
  BY <1>1, DocValue DEF OfType, Operand, SqlValue
<1>2. CASE o.is # "col"
  <2>1. o.val \notin DOMAIN Names
    BY <1>2 DEF Constant
  <2>2. Operand(o, d) = o.val
    BY <1>2, <2>1 DEF Operand, Embedded
  <2> QED BY <1>2, <2>2, OperandType, TypeFacts, NullFacts DEF Sql
<1> QED BY <1>1, <1>2

LEMMA ComparisonSql ==
  ASSUME NEW e, NEW d, e.op \in Ops
  PROVE  SqlCmp(e, d) = Compare3(e.op, SqlValue(e.l, d), SqlValue(e.r, d))
  BY OpNames DEF SqlCmp, Ops

\* The translation of "column OP literal" agrees with SQL, and is exact unless the
\* literal is NULL.
LEMMA FastComparison ==
  ASSUME NEW e, NEW d \in Docs, e.op \in Ops, IsComparison(e), FastPath(e)
  PROVE  /\ Agrees(SqlCmp(e, d), d \in TranslateComparison(e))
         /\ e.op = "<=>" \/ e.r.val # Null
              => Exact(SqlCmp(e, d), d \in TranslateComparison(e))
<1>1. PICK T \in Types : OfType(e.l, T) /\ OfType(e.r, T)
  BY DEF IsComparison, Types
<1> DEFINE x == d[e.l.col]
           y == e.r.val
<1>2. e.l.col \in Cols /\ T = Domain(e.l.col) /\ y \in T \cup {Null}
  BY <1>1, OperandType DEF FastPath
<1>3. x \in T \cup {Null, Missing}
  BY <1>2, DocValue
<1>4. SqlCmp(e, d) = Compare3(e.op, Sql(x), y)
  BY ComparisonSql DEF FastPath, SqlValue
<1>5. d \in TranslateComparison(e) <=> Selected(e.op, x, y)
  <2>1. CASE e.op = "!="
    <3>1. TranslateComparison(e) = NotEqual(e.l.col, y)
      BY <2>1, Comparisons
    <3>2. d \in NotEqual(e.l.col, y) <=> ~Equals(x, y) /\ ~Equals(x, Null)
      BY DEF NotEqual, Both, Field, FieldMatches
    <3> QED BY <2>1, <3>1, <3>2 DEF Selected
  <2>2. CASE e.op # "!="
    <3>1. TranslateComparison(e) = Field(e.l.col, MongoOp[e.op], y)
      BY <2>2, Comparisons
    <3> QED BY <2>2, <3>1, Members DEF Selected
  <2> QED BY <2>1, <2>2
<1> HIDE DEF x
<1>6. /\ Agrees(Compare3(e.op, Sql(x), y), Selected(e.op, x, y))
      /\ e.op = "<=>" \/ y # Null => Exact(Compare3(e.op, Sql(x), y), Selected(e.op, x, y))
  BY <1>2, <1>3, FieldComparison
<1> QED BY <1>4, <1>5, <1>6 DEF Agrees, Exact

\* That of another comparison, in $expr, agrees with SQL if no operand is a path.
LEMMA ExprTranslated ==
  ASSUME NEW e, NEW d \in Docs, e.is = "cmp", e.op \in Ops, IsComparison(e), ~FastPath(e),
         Clean(e, FALSE)
  PROVE  Agrees(SqlCmp(e, d), d \in TranslateComparison(e))
<1>1. PICK T \in Types : OfType(e.l, T) /\ OfType(e.r, T)
  BY DEF IsComparison, Types
<1> DEFINE x == Operand(e.l, d)
           y == Operand(e.r, d)
<1>c. Constant(e.l) \cap DOMAIN Names = {} /\ Constant(e.r) \cap DOMAIN Names = {}
  BY EmbeddedOf DEF Clean
<1>2. x \in T \cup {Null, Missing} /\ y \in T \cup {Null, Missing} /\ x \in Values /\ y \in Values
  BY <1>1, <1>c, OperandValue
<1>3. SqlCmp(e, d) = Compare3(e.op, Sql(x), Sql(y))
  BY <1>1, <1>c, OperandValue, ComparisonSql
<1>4. d \in TranslateComparison(e) <=> Compares(MongoOp[e.op], x, y)
  <2>1. TranslateComparison(e) = Expr(MongoOp[e.op], e.l, e.r)
    BY Comparisons
  <2> QED BY <2>1, ExprMembers
<1>5. ASSUME e.op = "<=>"
      PROVE  x = y \/ Missing \notin {x, y} \/ {Null, Missing} \cap {x} = {}
               \/ {Null, Missing} \cap {y} = {}
  <2>1. \A o, p \in {e.l, e.r} : o.is = "col" => o = p \/ (p.is # "col" /\ p.val # Null)
    BY <1>5 DEF IsComparison
  <2>2. /\ e.l.is # "col" => x = e.l.val /\ x \in T \cup {Null}
        /\ e.r.is # "col" => y = e.r.val /\ y \in T \cup {Null}
    BY <1>1, <1>c, OperandType, OperandValue
  <2>3. CASE e.l.is = "col"
    BY <2>1, <2>2, <2>3, TypeFacts
  <2>4. CASE e.r.is = "col"
    BY <2>1, <2>2, <2>4, TypeFacts
  <2>5. CASE e.l.is # "col" /\ e.r.is # "col"
    BY <2>2, <2>5, TypeFacts, NullFacts
  <2> QED BY <2>3, <2>4, <2>5
<1> HIDE DEF x, y
<1>6. Agrees(Compare3(e.op, Sql(x), Sql(y)), Compares(MongoOp[e.op], x, y))
  BY <1>2, <1>5, ExprComparison
<1> QED BY <1>3, <1>4, <1>6 DEF Agrees

\* The translation of a comparison.
LEMMA ComparisonTranslated ==
  ASSUME NEW e, NEW d \in Docs, e.is = "cmp", e.op \in Ops, IsComparison(e)
  PROVE  /\ Clean(e, FALSE) => Agrees(SqlCmp(e, d), d \in TranslateComparison(e))
         /\ FastPath(e) /\ (e.op = "<=>" \/ e.r.val # Null)
              => Exact(SqlCmp(e, d), d \in TranslateComparison(e))
  BY FastComparison, ExprTranslated

\* What SQL and the filters make of IN, LIKE and REGEXP.
LEMMA MembershipTranslated ==
  ASSUME NEW e, NEW d \in Docs, IsMembership(e)
  PROVE  /\ Agrees(SqlCmp(e, d), d \in TranslateComparison(e))
         /\ e.op \in {"in", "like", "regexp"} /\ (e.op \in InOps => Null \notin e.r.set)
              => Exact(SqlCmp(e, d), d \in TranslateComparison(e))
<1> DEFINE x == d[e.l.col]
           s == e.r.set
<1>1. /\ e.l.is = "col" /\ e.l.col \in Cols /\ SqlValue(e.l, d) = Sql(x)
      /\ x \in Domain(e.l.col) \cup {Null, Missing} /\ Domain(e.l.col) \in Types
  BY DocValue DEF IsMembership, Col, SqlValue
<1>2. Null \notin Domain(e.l.col) /\ Missing \notin Domain(e.l.col) /\ Missing # Null
  BY <1>1, TypeFacts, NullFacts
<1>3. CASE e.op \in InOps
  <2>1. Missing \notin s
    BY <1>2, <1>3 DEF IsMembership, InOps, PatternOps
  <2>2. CASE e.op = "in"
    <3>1. SqlCmp(e, d) = In3(Sql(x), s)
      BY <1>1, <2>2, OpNames DEF SqlCmp, Ops
    <3>2. d \in TranslateComparison(e) <=> \E w \in s : Equals(x, w)
      <4>1. TranslateComparison(e) = Field(e.l.col, "in", s)
        BY <2>2, Comparisons
      <4>2. FieldMatches(x, "in", s) <=> \E w \in s : Equals(x, w)
        BY DEF FieldMatches
      <4> HIDE DEF x, s
      <4> QED BY <4>1, <4>2, Members DEF x
    <3> HIDE DEF x, s
    <3> QED BY <1>1, <1>2, <2>1, <2>2, <3>1, <3>2 DEF Agrees, Exact, In3, Equals, Sql, InOps, x, s
  <2>3. CASE e.op = "not in"
    <3>1. SqlCmp(e, d) = Not3(In3(Sql(x), s))
      BY <1>1, <2>3, OpNames DEF SqlCmp, Ops
    <3>2. d \in TranslateComparison(e) <=> \A w \in s : ~Equals(x, w)
      <4>1. TranslateComparison(e) = Field(e.l.col, "nin", s)
        BY <2>3, Comparisons
      <4>2. FieldMatches(x, "nin", s) <=> \A w \in s : ~Equals(x, w)
        BY DEF FieldMatches
      <4> HIDE DEF x, s
      <4> QED BY <4>1, <4>2, Members DEF x
    <3> HIDE DEF x, s
    <3> QED BY <1>1, <1>2, <2>1, <2>3, <3>1, <3>2 DEF Agrees, In3, Not3, Equals, Sql
  <2> QED BY <1>3, <2>2, <2>3 DEF InOps
<1>4. CASE e.op \in PatternOps
  <2>1. Missing \notin s /\ Null \notin s
    BY <1>4, TypeFacts DEF IsMembership, InOps, PatternOps, Types
  <2>2. CASE e.op \in {"like", "regexp"}
    <3>1. SqlCmp(e, d) = Match3(Sql(x), s)
      BY <1>1, <2>2, OpNames DEF SqlCmp, Ops
    <3>2. d \in TranslateComparison(e) <=> x \in s
      <4>1. TranslateComparison(e) = Field(e.l.col, "regex", s)
        BY <2>2, Comparisons
      <4>2. FieldMatches(x, "regex", s) <=> x \in s
        BY DEF FieldMatches
      <4> HIDE DEF x, s
      <4> QED BY <4>1, <4>2, Members DEF x
    <3> HIDE DEF x, s
    <3> QED BY <1>1, <1>2, <2>1, <3>1, <3>2 DEF Agrees, Exact, Match3, Truth, Sql
  <2>3. CASE e.op \in {"not like", "not regexp"}
    <3>1. SqlCmp(e, d) = Not3(Match3(Sql(x), s))
      BY <1>1, <2>3, OpNames DEF SqlCmp, Ops
    <3>2. d \in TranslateComparison(e) <=> x \notin s
      <4>1. TranslateComparison(e) = Field(e.l.col, "not regex", s)
        BY <2>3, Comparisons
      <4>2. FieldMatches(x, "not regex", s) <=> x \notin s
        BY DEF FieldMatches
      <4> HIDE DEF x, s
      <4> QED BY <4>1, <4>2, Members DEF x
    <3> HIDE DEF x, s
    <3> QED BY <1>1, <1>2, <2>1, <2>3, <3>1, <3>2 DEF Agrees, Match3, Not3, Truth, Sql
  <2> QED BY <1>4, <2>2, <2>3 DEF PatternOps
<1> QED BY <1>3, <1>4 DEF IsMembership

\* Composition: what AND, OR and NOT make of agreeing answers agrees.
LEMMA AndAgrees ==
  ASSUME NEW t \in Truths, NEW u \in Truths, NEW m \in BOOLEAN, NEW n \in BOOLEAN
  PROVE  /\ Agrees(t, m) /\ Agrees(u, n) => Agrees(And3(t, u), m /\ n)
         /\ Exact(t, m) /\ Exact(u, n) => Exact(And3(t, u), m /\ n)
  BY DEF Agrees, Exact, And3, Truths

LEMMA OrAgrees ==
  ASSUME NEW t \in Truths, NEW u \in Truths, NEW m \in BOOLEAN, NEW n \in BOOLEAN
  PROVE  /\ Agrees(t, m) /\ Agrees(u, n) => Agrees(Or3(t, u), m \/ n)
         /\ Exact(t, m) /\ Exact(u, n) => Exact(Or3(t, u), m \/ n)
  BY DEF Agrees, Exact, And3, Or3, Not3, Truths

LEMMA NotAgrees ==
  ASSUME NEW t \in Truths, NEW m \in BOOLEAN
  PROVE  Agrees(t, m) => Agrees(Not3(t), ~m)
  BY DEF Agrees, Not3, Truths

LEMMA DeMorgan ==
  ASSUME NEW t \in Truths, NEW u \in Truths
  PROVE  /\ Not3(Not3(t)) = t
         /\ Not3(And3(t, u)) = Or3(Not3(t), Not3(u))
         /\ Not3(Or3(t, u)) = And3(Not3(t), Not3(u))
  BY DEF Not3, And3, Or3, Truths

\* NOT op is NegateComparisonOp(op), as negateWhere has it.
LEMMA NegatedSql ==
  ASSUME NEW e \in Conditions, e.is = "cmp", e.op # "<=>", NEW d \in Docs
  PROVE  SqlCmp(Cmp(NegateComparisonOp(e.op), e.l, e.r), d) = Not3(SqlCmp(e, d))
<1> DEFINE n == Cmp(NegateComparisonOp(e.op), e.l, e.r)
           x == SqlValue(e.l, d)
           y == SqlValue(e.r, d)
<1>1. n.op = NegateComparisonOp(e.op) /\ n.l = e.l /\ n.r = e.r
  BY DEF Cmp
<1>2. CASE e.op \in Ops /\ IsComparison(e)
  <2>1. PICK T \in Types : OfType(e.l, T) /\ OfType(e.r, T)
    BY <1>2 DEF IsComparison, Types
  <2>2. x \in Values /\ y \in Values
    BY <2>1, OperandType
  <2>3. n.op \in Ops
    BY <1>1, <1>2, Negation
  <2>4. SqlCmp(e, d) = Compare3(e.op, x, y)
    BY <1>2, ComparisonSql
  <2>5. SqlCmp(n, d) = Compare3(NegateComparisonOp(e.op), x, y)
    <3> HIDE DEF n
    <3> QED BY <1>1, <2>3, ComparisonSql
  <2> HIDE DEF x, y, n
  <2>6. Compare3(NegateComparisonOp(e.op), x, y) = Not3(Compare3(e.op, x, y))
    BY <1>2, <2>2, OppositeComparison
  <2> QED BY <2>4, <2>5, <2>6 DEF n
<1>3. CASE e.op \in InOps \cup PatternOps
  <2>1. In3(x, e.r.set) \in Truths /\ Match3(x, e.r.set) \in Truths
    BY DEF In3, Match3, Truth, Truths
  <2>2. /\ Not3(Not3(In3(x, e.r.set))) = In3(x, e.r.set)
        /\ Not3(Not3(Match3(x, e.r.set))) = Match3(x, e.r.set)
    BY <2>1, DeMorgan
  <2> HIDE DEF x, n
  <2>3. CASE e.op \in InOps
    BY <1>1, <2>2, <2>3, OpNames DEF SqlCmp, NegateComparisonOp, InOps, Ops, x, n
  <2>4. CASE e.op \in PatternOps
    BY <1>1, <2>2, <2>4, OpNames DEF SqlCmp, NegateComparisonOp, PatternOps, Ops, x, n
  <2> QED BY <1>3, <2>3, <2>4
<1> QED BY <1>2, <1>3, Kinds

\* A comparison and its negation, in a filter.
LEMMA CmpFollows ==
  ASSUME NEW e \in Conditions, e.is = "cmp", NEW d \in Docs
  PROVE  /\ Clean(e, FALSE) => Agrees(SqlCmp(e, d), d \in TranslateComparison(e))
         /\ Clean(e, FALSE) => Agrees(Not3(SqlCmp(e, d)), d \in NegateComparison(e))
         /\ PlainLeaf(e, TRUE) => Exact(SqlCmp(e, d), d \in TranslateComparison(e))
         /\ PlainLeaf(e, FALSE) => Exact(Not3(SqlCmp(e, d)), d \in NegateComparison(e))
<1> DEFINE n == Cmp(NegateComparisonOp(e.op), e.l, e.r)
           t == SqlCmp(e, d)
<1>0. t \in Truths
  BY SqlCmpType
<1>1. n.is = "cmp" /\ n.op = NegateComparisonOp(e.op) /\ n.l = e.l /\ n.r = e.r
  BY DEF Cmp
<1>2. CASE e.op \in Ops /\ IsComparison(e)
  <2>1. /\ Clean(e, FALSE) => Agrees(t, d \in TranslateComparison(e))
        /\ FastPath(e) /\ (e.op = "<=>" \/ e.r.val # Null)
             => Exact(t, d \in TranslateComparison(e))
    BY <1>2, ComparisonTranslated
  <2>2. PlainLeaf(e, TRUE) \/ PlainLeaf(e, FALSE)
          => FastPath(e) /\ (e.op = "<=>" \/ e.r.val # Null)
    BY <1>2 DEF PlainLeaf, Ops
  <2>3. CASE e.op = "<=>"
    <3>1. NegateComparison(e) = Nor(TranslateComparison(e))
      BY <2>3 DEF NegateComparison, NegateComparisonOp
    <3>2. t \in {"T", "F"}
      BY <1>2, <2>3, ComparisonSql DEF Compare3, Truth
    <3>3. d \in NegateComparison(e) <=> d \notin TranslateComparison(e)
      BY <3>1 DEF Nor
    <3> HIDE DEF t
    <3> QED BY <2>1, <2>2, <2>3, <3>2, <3>3 DEF Agrees, Exact, Not3, t
  <2>4. CASE e.op # "<=>"
    <3>1. n.op \in Ops /\ n.op # "<=>"
      BY <1>1, <1>2, <2>4, Negation
    <3>2. IsComparison(n) /\ (FastPath(n) <=> FastPath(e))
      <4> HIDE DEF n
      <4> QED BY <1>1, <1>2, <3>1 DEF IsComparison, FastPath
    <3>3. NegateComparison(e) = TranslateComparison(n) /\ SqlCmp(n, d) = Not3(t)
      BY <2>4, NegatedComparison, NegatedSql
    <3>c. Clean(e, FALSE) => Clean(n, FALSE)
      <4> HIDE DEF n
      <4>1. EmbeddedValues(n, FALSE) = EmbeddedValues(e, FALSE)
        BY <1>1, <1>2, <3>1, <3>2, EmbeddedOf
      <4> QED BY <4>1 DEF Clean
    <3>4. /\ Clean(n, FALSE) => Agrees(SqlCmp(n, d), d \in TranslateComparison(n))
          /\ FastPath(n) /\ n.r.val # Null => Exact(SqlCmp(n, d), d \in TranslateComparison(n))
      <4> HIDE DEF n
      <4> QED BY <1>1, <3>1, <3>2, ComparisonTranslated
    <3> HIDE DEF t, n
    <3> QED BY <1>1, <2>1, <2>2, <2>4, <3>2, <3>3, <3>c, <3>4 DEF t
  <2> QED BY <2>3, <2>4
<1>3. CASE e.op \in InOps \cup PatternOps /\ IsMembership(e)
  <2>1. e.op # "<=>" /\ e.op \notin DOMAIN MongoOp
    BY <1>3, OpNames DEF InOps, PatternOps, Ops
  <2>2. IsMembership(n)
    BY <1>1, <1>3 DEF IsMembership, InOps, PatternOps, NegateComparisonOp, Cmp
  <2>3. NegateComparison(e) = TranslateComparison(n) /\ SqlCmp(n, d) = Not3(t)
    BY <2>1, NegatedComparison, NegatedSql
  <2>4. PlainLeaf(e, TRUE) =>
          e.op \in {"in", "like", "regexp"} /\ (e.op \in InOps => Null \notin e.r.set)
    BY <2>1 DEF PlainLeaf
  <2>5. PlainLeaf(e, FALSE) =>
          n.op \in {"in", "like", "regexp"} /\ (n.op \in InOps => Null \notin n.r.set)
    BY <1>1, <1>3, <2>1 DEF PlainLeaf, InOps, PatternOps, NegateComparisonOp
  <2>6. /\ Agrees(t, d \in TranslateComparison(e))
        /\ e.op \in {"in", "like", "regexp"} /\ (e.op \in InOps => Null \notin e.r.set)
             => Exact(t, d \in TranslateComparison(e))
    BY <1>3, MembershipTranslated
  <2>7. /\ Agrees(SqlCmp(n, d), d \in TranslateComparison(n))
        /\ n.op \in {"in", "like", "regexp"} /\ (n.op \in InOps => Null \notin n.r.set)
             => Exact(SqlCmp(n, d), d \in TranslateComparison(n))
    <3> HIDE DEF n
    <3> QED BY <2>2, MembershipTranslated
  <2> HIDE DEF t, n
  <2> QED BY <2>3, <2>4, <2>5, <2>6, <2>7 DEF t, Agrees, Exact
<1> QED BY <1>2, <1>3, Kinds

\* BETWEEN, IS and their negations, in a filter.
LEMMA BetweenFollows ==
  ASSUME NEW c \in Cols, NEW from \in Domain(c) \cup {Null}, NEW to \in Domain(c) \cup {Null},
         NEW yes \in BOOLEAN, NEW d \in Docs
  PROVE  /\ Agrees(SqlBetween(Sql(d[c]), from, to, yes), d \in TranslateBetween(c, from, to, yes))
         /\ Null \notin {from, to}
              => Exact(SqlBetween(Sql(d[c]), from, to, yes),
                       d \in TranslateBetween(c, from, to, yes))
         /\ SqlBetween(Sql(d[c]), from, to, ~yes) = Not3(SqlBetween(Sql(d[c]), from, to, yes))
<1> DEFINE x == d[c]
           C(op, v) == Compare3(op, Sql(x), v)
           F(op, v) == FieldMatches(x, MongoOp[op], v)
<1>1. Domain(c) \in Types /\ x \in Domain(c) \cup {Null, Missing} /\ Sql(x) \in Values
      /\ from \in Values /\ to \in Values
  BY DocValue, TypeFacts, NullFacts DEF Sql
<1>2. \A op \in {"<", "<=", ">", ">="} : \A v \in {from, to} :
        /\ Agrees(C(op, v), F(op, v))
        /\ v # Null => Exact(C(op, v), F(op, v))
        /\ C(op, v) \in Truths /\ F(op, v) \in BOOLEAN
  <2> SUFFICES ASSUME NEW op \in {"<", "<=", ">", ">="}, NEW v \in {from, to}
               PROVE  /\ Agrees(C(op, v), F(op, v))
                      /\ v # Null => Exact(C(op, v), F(op, v))
                      /\ C(op, v) \in Truths /\ F(op, v) \in BOOLEAN
    OBVIOUS
  <2>1. op \in Ops /\ op \notin {"!=", "<=>"}
    BY OpNames
  <2>2. Selected(op, x, v) = F(op, v)
    BY <2>1 DEF Selected
  <2>3. F(op, v) \in BOOLEAN
    BY OpTable DEF FieldMatches, Orders, Holds
  <2>4. C(op, v) \in Truths
    BY Compare3Type
  <2> HIDE DEF x
  <2>5. /\ Agrees(Compare3(op, Sql(x), v), Selected(op, x, v))
        /\ v # Null => Exact(Compare3(op, Sql(x), v), Selected(op, x, v))
    BY <1>1, <2>1, FieldComparison
  <2> QED BY <2>2, <2>3, <2>4, <2>5
<1>3. C("<", from) = Not3(C(">=", from)) /\ C(">", to) = Not3(C("<=", to))
  <2>1. {">=", "<="} \subseteq Ops \ {"<=>"}
    BY OpNames
  <2> HIDE DEF x
  <2> QED BY <1>1, <2>1, NegatedNames, OppositeComparison
<1>4. /\ d \in TranslateBetween(c, from, to, TRUE) <=> F(">=", from) /\ F("<=", to)
      /\ d \in TranslateBetween(c, from, to, FALSE) <=> F("<", from) \/ F(">", to)
  BY Members, OpTable DEF TranslateBetween, Both, Either
<1>5. /\ SqlBetween(Sql(x), from, to, TRUE) = And3(C(">=", from), C("<=", to))
      /\ SqlBetween(Sql(x), from, to, FALSE) = Or3(C("<", from), C(">", to))
  BY <1>2, <1>3, DeMorgan DEF SqlBetween
<1>6. SqlBetween(Sql(x), from, to, FALSE) = Not3(SqlBetween(Sql(x), from, to, TRUE))
  BY DEF SqlBetween
<1>7. SqlBetween(Sql(x), from, to, TRUE) = Not3(SqlBetween(Sql(x), from, to, FALSE))
  BY <1>6, SqlBetweenType, DeMorgan
<1> HIDE DEF x, C, F
<1>8. CASE yes
  <2>1. /\ Agrees(And3(C(">=", from), C("<=", to)), F(">=", from) /\ F("<=", to))
        /\ Null \notin {from, to}
             => Exact(And3(C(">=", from), C("<=", to)), F(">=", from) /\ F("<=", to))
    BY <1>2, AndAgrees
  <2>2. yes = TRUE /\ ~yes = FALSE
    BY <1>8
  <2> QED BY <1>4, <1>5, <1>6, <2>1, <2>2 DEF x, Agrees, Exact
<1>9. CASE ~yes
  <2>1. /\ Agrees(Or3(C("<", from), C(">", to)), F("<", from) \/ F(">", to))
        /\ Null \notin {from, to}
             => Exact(Or3(C("<", from), C(">", to)), F("<", from) \/ F(">", to))
    BY <1>2, OrAgrees
  <2>2. yes = FALSE /\ ~yes = TRUE
    BY <1>9
  <2> QED BY <1>4, <1>5, <1>7, <2>1, <2>2 DEF x, Agrees, Exact
<1> QED BY <1>8, <1>9

LEMMA IsFollows ==
  ASSUME NEW c \in Cols, NEW val \in {Null} \cup Booleans, NEW yes \in BOOLEAN, NEW d \in Docs
  PROVE  /\ Exact(Truth((Sql(d[c]) = val) = yes), d \in TranslateIs(c, val, yes))
         /\ Truth((Sql(d[c]) = val) = (~yes)) = Not3(Truth((Sql(d[c]) = val) = yes))
<1>1. val # Missing /\ Missing # Null
  BY TypeFacts, NullFacts DEF Types
<1>2. Equals(d[c], val) <=> Sql(d[c]) = val
  BY <1>1 DEF Equals, Sql
<1>3. /\ d \in TranslateIs(c, val, TRUE) <=> Equals(d[c], val)
      /\ d \in TranslateIs(c, val, FALSE) <=> ~Equals(d[c], val)
  <2>1. TranslateIs(c, val, TRUE) = Field(c, "eq", val)
    BY DEF TranslateIs
  <2>2. TranslateIs(c, val, FALSE) = Field(c, "ne", val)
    BY DEF TranslateIs
  <2>3. /\ FieldMatches(d[c], "eq", val) <=> Equals(d[c], val)
        /\ FieldMatches(d[c], "ne", val) <=> ~Equals(d[c], val)
    BY DEF FieldMatches
  <2> QED BY <2>1, <2>2, <2>3, Members
<1>4. CASE yes = TRUE
  BY <1>2, <1>3, <1>4 DEF Exact, Truth, Not3
<1>5. CASE yes = FALSE
  BY <1>2, <1>3, <1>5 DEF Exact, Truth, Not3
<1> QED BY <1>4, <1>5

----------------------------------------------------------------------------
(* Filters: what holds of a condition follows from its parts.              *)

Follows(e, d) ==
  /\ NoPaths[e][FALSE] => Agrees(SqlTruth[e][d], d \in Translation[e].where)
  /\ NoPaths[e][FALSE] => Agrees(Not3(SqlTruth[e][d]), d \in Translation[e].negated)
  /\ Plain[e][TRUE] => Exact(SqlTruth[e][d], d \in Translation[e].where)
  /\ Plain[e][FALSE] => Exact(Not3(SqlTruth[e][d]), d \in Translation[e].negated)

LEMMA TruthType ==
  ASSUME NEW e \in Conditions, NEW d \in Docs
  PROVE  SqlTruth[e][d] \in Truths /\ Not3(SqlTruth[e][d]) \in Truths
<1>1. SqlTruth[e] \in [Docs -> Truths]
  BY SqlTruthIs
<1>2. SqlTruth[e][d] \in Truths
  BY <1>1
<1> QED BY <1>2, Connectives, DeMorgan DEF Not3, Truths

\* Which truth AND and OR give.
JoinedTruths(t, u) ==
  /\ And3(t, u) = "T" <=> t = "T" /\ u = "T"
  /\ And3(t, u) = "F" <=> t = "F" \/ u = "F"
  /\ Or3(t, u) = "T" <=> t = "T" \/ u = "T"
  /\ Or3(t, u) = "F" <=> t = "F" /\ u = "F"

LEMMA TruthsJoined == \A t \in Truths, u \in Truths : JoinedTruths(t, u)
  BY DEF JoinedTruths, And3, Or3, Not3, Truths

LEMMA AndFollows ==
  ASSUME NEW e \in Conditions, NEW d \in Docs, e.is = "and",
         e.l \in Conditions, e.r \in Conditions, Follows(e.l, d), Follows(e.r, d)
  PROVE  Follows(e, d)
<1> DEFINE t == SqlTruth[e.l][d]
           u == SqlTruth[e.r][d]
           f == Translation[e.l]
           g == Translation[e.r]
<1>1. SqlTruth[e][d] = And3(t, u) /\ Not3(SqlTruth[e][d]) = Or3(Not3(t), Not3(u))
  <2>1. SqlTruth[e][d] = And3(t, u)
    BY SqlTruthIs DEF SqlStep
  <2> QED BY <2>1, TruthType, DeMorgan
<1>2. /\ d \in Translation[e].where <=> d \in f.where /\ d \in g.where
      /\ d \in Translation[e].negated <=> d \in f.negated \/ d \in g.negated
  <2>1. Translation[e] = [where |-> Both(f.where, g.where),
                          negated |-> Either(f.negated, g.negated)]
    BY TranslationIs DEF TranslationStep
  <2> HIDE DEF f, g
  <2> QED BY <2>1 DEF Both, Either
<1>3. \A b \in BOOLEAN : Plain[e][b] = (Plain[e.l][b] /\ Plain[e.r][b])
  BY PlainOfParts, Zenon
<1>4. t \in Truths /\ u \in Truths /\ Not3(t) \in Truths /\ Not3(u) \in Truths
  BY TruthType
<1> HIDE DEF t, u, f, g
<1>j. JoinedTruths(t, u) /\ JoinedTruths(Not3(t), Not3(u))
  BY <1>4, TruthsJoined
<1>5. NoPaths[e][FALSE] =>
        /\ Agrees(And3(t, u), d \in f.where /\ d \in g.where)
        /\ Agrees(Or3(Not3(t), Not3(u)), d \in f.negated \/ d \in g.negated)
  <2>1. SUFFICES ASSUME NoPaths[e][FALSE]
                 PROVE  /\ Agrees(And3(t, u), d \in f.where /\ d \in g.where)
                        /\ Agrees(Or3(Not3(t), Not3(u)), d \in f.negated \/ d \in g.negated)
    OBVIOUS
  <2>2. FALSE \in BOOLEAN
    OBVIOUS
  <2>3. NoPaths[e.l][FALSE] /\ NoPaths[e.r][FALSE]
    BY <2>1, <2>2, NoPathsOfParts, Zenon
  <2>4. /\ Agrees(t, d \in f.where) /\ Agrees(Not3(t), d \in f.negated)
        /\ Agrees(u, d \in g.where) /\ Agrees(Not3(u), d \in g.negated)
    BY <2>3, Zenon DEF Follows, t, u, f, g
  <2> QED BY <1>j, <2>4, Zenon DEF JoinedTruths, Agrees
<1>6. Plain[e][TRUE] => Exact(And3(t, u), d \in f.where /\ d \in g.where)
  <2>1. SUFFICES ASSUME Plain[e][TRUE] PROVE Exact(And3(t, u), d \in f.where /\ d \in g.where)
    OBVIOUS
  <2>2. TRUE \in BOOLEAN
    OBVIOUS
  <2>3. Plain[e.l][TRUE] /\ Plain[e.r][TRUE]
    BY <1>3, <2>1, <2>2, Zenon
  <2>4. Exact(t, d \in f.where) /\ Exact(u, d \in g.where)
    BY <2>3, Zenon DEF Follows, t, u, f, g
  <2> QED BY <1>j, <2>4, Zenon DEF JoinedTruths, Exact
<1>7. Plain[e][FALSE] => Exact(Or3(Not3(t), Not3(u)), d \in f.negated \/ d \in g.negated)
  <2>1. SUFFICES ASSUME Plain[e][FALSE]
                 PROVE  Exact(Or3(Not3(t), Not3(u)), d \in f.negated \/ d \in g.negated)
    OBVIOUS
  <2>2. FALSE \in BOOLEAN
    OBVIOUS
  <2>3. Plain[e.l][FALSE] /\ Plain[e.r][FALSE]
    BY <1>3, <2>1, <2>2, Zenon
  <2>4. Exact(Not3(t), d \in f.negated) /\ Exact(Not3(u), d \in g.negated)
    BY <2>3, Zenon DEF Follows, t, u, f, g
  <2> QED BY <1>j, <2>4, Zenon DEF JoinedTruths, Exact
<1> QED BY <1>1, <1>2, <1>5, <1>6, <1>7 DEF Follows, Agrees, Exact

LEMMA OrFollows ==
  ASSUME NEW e \in Conditions, NEW d \in Docs, e.is = "or",
         e.l \in Conditions, e.r \in Conditions, Follows(e.l, d), Follows(e.r, d)
  PROVE  Follows(e, d)
<1> DEFINE t == SqlTruth[e.l][d]
           u == SqlTruth[e.r][d]
           f == Translation[e.l]
           g == Translation[e.r]
<1>1. SqlTruth[e][d] = Or3(t, u) /\ Not3(SqlTruth[e][d]) = And3(Not3(t), Not3(u))
  <2>1. SqlTruth[e][d] = Or3(t, u)
    BY SqlTruthIs DEF SqlStep
  <2> QED BY <2>1, TruthType, DeMorgan
<1>2. /\ d \in Translation[e].where <=> d \in f.where \/ d \in g.where
      /\ d \in Translation[e].negated <=> d \in f.negated /\ d \in g.negated
  <2>1. Translation[e] = [where |-> Either(f.where, g.where),
                          negated |-> Both(f.negated, g.negated)]
    BY TranslationIs DEF TranslationStep
  <2> HIDE DEF f, g
  <2> QED BY <2>1 DEF Both, Either
<1>3. \A b \in BOOLEAN : Plain[e][b] = (Plain[e.l][b] /\ Plain[e.r][b])
  BY PlainOfParts, Zenon
<1>4. t \in Truths /\ u \in Truths /\ Not3(t) \in Truths /\ Not3(u) \in Truths
  BY TruthType
<1> HIDE DEF t, u, f, g
<1>j. JoinedTruths(t, u) /\ JoinedTruths(Not3(t), Not3(u))
  BY <1>4, TruthsJoined
<1>5. NoPaths[e][FALSE] =>
        /\ Agrees(Or3(t, u), d \in f.where \/ d \in g.where)
        /\ Agrees(And3(Not3(t), Not3(u)), d \in f.negated /\ d \in g.negated)
  <2>1. SUFFICES ASSUME NoPaths[e][FALSE]
                 PROVE  /\ Agrees(Or3(t, u), d \in f.where \/ d \in g.where)
                        /\ Agrees(And3(Not3(t), Not3(u)), d \in f.negated /\ d \in g.negated)
    OBVIOUS
  <2>2. FALSE \in BOOLEAN
    OBVIOUS
  <2>3. NoPaths[e.l][FALSE] /\ NoPaths[e.r][FALSE]
    BY <2>1, <2>2, NoPathsOfParts, Zenon
  <2>4. /\ Agrees(t, d \in f.where) /\ Agrees(Not3(t), d \in f.negated)
        /\ Agrees(u, d \in g.where) /\ Agrees(Not3(u), d \in g.negated)
    BY <2>3, Zenon DEF Follows, t, u, f, g
  <2> QED BY <1>j, <2>4, Zenon DEF JoinedTruths, Agrees
<1>6. Plain[e][TRUE] => Exact(Or3(t, u), d \in f.where \/ d \in g.where)
  <2>1. SUFFICES ASSUME Plain[e][TRUE] PROVE Exact(Or3(t, u), d \in f.where \/ d \in g.where)
    OBVIOUS
  <2>2. TRUE \in BOOLEAN
    OBVIOUS
  <2>3. Plain[e.l][TRUE] /\ Plain[e.r][TRUE]
    BY <1>3, <2>1, <2>2, Zenon
  <2>4. Exact(t, d \in f.where) /\ Exact(u, d \in g.where)
    BY <2>3, Zenon DEF Follows, t, u, f, g
  <2> QED BY <1>j, <2>4, Zenon DEF JoinedTruths, Exact
<1>7. Plain[e][FALSE] => Exact(And3(Not3(t), Not3(u)), d \in f.negated /\ d \in g.negated)
  <2>1. SUFFICES ASSUME Plain[e][FALSE]
                 PROVE  Exact(And3(Not3(t), Not3(u)), d \in f.negated /\ d \in g.negated)
    OBVIOUS
  <2>2. FALSE \in BOOLEAN
    OBVIOUS
  <2>3. Plain[e.l][FALSE] /\ Plain[e.r][FALSE]
    BY <1>3, <2>1, <2>2, Zenon
  <2>4. Exact(Not3(t), d \in f.negated) /\ Exact(Not3(u), d \in g.negated)
    BY <2>3, Zenon DEF Follows, t, u, f, g
  <2> QED BY <1>j, <2>4, Zenon DEF JoinedTruths, Exact
<1> QED BY <1>1, <1>2, <1>5, <1>6, <1>7 DEF Follows, Agrees, Exact

LEMMA NotFollows ==
  ASSUME NEW e \in Conditions, NEW d \in Docs, e.is = "not",
         e.e \in Conditions, Follows(e.e, d)
  PROVE  Follows(e, d)
<1>1. SqlTruth[e][d] = Not3(SqlTruth[e.e][d]) /\ Not3(SqlTruth[e][d]) = SqlTruth[e.e][d]
  <2>1. SqlTruth[e][d] = Not3(SqlTruth[e.e][d])
    BY SqlTruthIs DEF SqlStep
  <2> QED BY <2>1, TruthType, DeMorgan
<1>2. Translation[e] = [where |-> Translation[e.e].negated, negated |-> Translation[e.e].where]
  BY TranslationIs DEF TranslationStep
<1>3. (Plain[e][TRUE] <=> Plain[e.e][FALSE]) /\ (Plain[e][FALSE] <=> Plain[e.e][TRUE])
  BY PlainOfPart
<1>4. /\ Translation[e].where = Translation[e.e].negated
      /\ Translation[e].negated = Translation[e.e].where
  BY <1>2
<1>5. NoPaths[e][FALSE] <=> NoPaths[e.e][FALSE]
  BY NoPathsOfPart
<1> QED BY <1>1, <1>3, <1>4, <1>5 DEF Follows, Agrees, Exact

LEMMA LeafFollows ==
  ASSUME NEW e \in Conditions, NEW d \in Docs, e.is \in {"cmp", "between", "is"}
  PROVE  Follows(e, d)
<1>1. /\ Plain[e][TRUE] <=> PlainLeaf(e, TRUE)
      /\ Plain[e][FALSE] <=> PlainLeaf(e, FALSE)
  BY PlainIs DEF PlainStep, PlainLeaf
<1>c. NoPaths[e][FALSE] <=> Clean(e, FALSE)
  BY NoPathsOfLeaf
<1>2. CASE e.is = "cmp"
  <2>1. SqlTruth[e][d] = SqlCmp(e, d)
    BY <1>2, SqlTruthIs DEF SqlStep
  <2>2. Translation[e] = [where |-> TranslateComparison(e), negated |-> NegateComparison(e)]
    BY <1>2, TranslationIs DEF TranslationStep
  <2>3. /\ Translation[e].where = TranslateComparison(e)
        /\ Translation[e].negated = NegateComparison(e)
    BY <2>2
  <2> QED BY <1>1, <1>c, <1>2, <2>1, <2>3, CmpFollows DEF Follows
<1>3. CASE e.is = "between"
  <2>1. e.col \in Cols /\ {e.from, e.to} \subseteq Domain(e.col) \cup {Null} /\ e.yes \in BOOLEAN
    BY <1>3, Kinds DEF IsLeaf
  <2>2. SqlTruth[e][d] = SqlBetween(Sql(d[e.col]), e.from, e.to, e.yes)
    BY <1>3, SqlTruthIs DEF SqlStep
  <2>3. Translation[e] = [where |-> TranslateBetween(e.col, e.from, e.to, e.yes),
                          negated |-> TranslateBetween(e.col, e.from, e.to, ~e.yes)]
    BY <1>3, TranslationIs DEF TranslationStep
  <2>4. e.from \in Domain(e.col) \cup {Null} /\ e.to \in Domain(e.col) \cup {Null}
    BY <2>1
  <2>5. PlainLeaf(e, TRUE) \/ PlainLeaf(e, FALSE) => Null \notin {e.from, e.to}
    BY <1>3 DEF PlainLeaf
  <2> DEFINE b == ~e.yes
             t(y) == SqlBetween(Sql(d[e.col]), e.from, e.to, y)
             F(y) == TranslateBetween(e.col, e.from, e.to, y)
  <2>6. b \in BOOLEAN
    OBVIOUS
  <2>7. Translation[e].where = F(e.yes) /\ Translation[e].negated = F(b)
    BY <2>3
  <2>8. t(b) = Not3(t(e.yes))
    BY <2>1, <2>4, BetweenFollows
  <2> HIDE DEF b
  <2>9. /\ Agrees(t(e.yes), d \in F(e.yes))
        /\ Null \notin {e.from, e.to} => Exact(t(e.yes), d \in F(e.yes))
    BY <2>1, <2>4, BetweenFollows
  <2>10. /\ Agrees(t(b), d \in F(b))
         /\ Null \notin {e.from, e.to} => Exact(t(b), d \in F(b))
    BY <2>1, <2>4, <2>6, BetweenFollows
  <2> HIDE DEF t, F
  <2> QED BY <1>1, <2>2, <2>5, <2>7, <2>8, <2>9, <2>10 DEF Follows, Agrees, Exact, t
<1>4. CASE e.is = "is"
  <2>1. e.col \in Cols /\ e.val \in {Null} \cup Booleans /\ e.yes \in BOOLEAN
    BY <1>4, Kinds DEF IsLeaf
  <2>2. SqlTruth[e][d] = Truth((Sql(d[e.col]) = e.val) = e.yes)
    BY <1>4, SqlTruthIs DEF SqlStep
  <2>3. Translation[e] = [where |-> TranslateIs(e.col, e.val, e.yes),
                          negated |-> TranslateIs(e.col, e.val, ~e.yes)]
    BY <1>4, TranslationIs DEF TranslationStep
  <2>4. SqlTruth[e][d] \in {"T", "F"} /\ Not3(SqlTruth[e][d]) \in {"T", "F"}
    BY <2>2 DEF Truth, Not3
  <2>5. /\ Exact(SqlTruth[e][d], d \in Translation[e].where)
        /\ Exact(Not3(SqlTruth[e][d]), d \in Translation[e].negated)
    <3> DEFINE b == ~e.yes
               F(y) == TranslateIs(e.col, e.val, y)
    <3>1. b \in BOOLEAN
      OBVIOUS
    <3>2. Translation[e].where = F(e.yes) /\ Translation[e].negated = F(b)
      BY <2>3
    <3>3. Truth((Sql(d[e.col]) = e.val) = b) = Not3(SqlTruth[e][d])
      BY <2>1, <2>2, IsFollows
    <3> HIDE DEF b
    <3>4. /\ Exact(SqlTruth[e][d], d \in F(e.yes))
          /\ Exact(Truth((Sql(d[e.col]) = e.val) = b), d \in F(b))
      BY <2>1, <2>2, <3>1, IsFollows
    <3> HIDE DEF F
    <3> QED BY <3>2, <3>3, <3>4 DEF Exact
  <2> QED BY <2>4, <2>5 DEF Follows, Agrees, Exact
<1> QED BY <1>2, <1>3, <1>4

\* Both translations, of every condition.
LEMMA EveryConditionFollows == \A e \in Conditions : \A d \in Docs : Follows(e, d)
<1> DEFINE G == {e \in Conditions : \A d \in Docs : Follows(e, d)}
<1>1. \A e \in Conditions : (\A p : PartOf(p, e) => p \in G) => e \in G
  <2> SUFFICES ASSUME NEW e \in Conditions, \A p : PartOf(p, e) => p \in G, NEW d \in Docs
               PROVE  Follows(e, d)
    OBVIOUS
  <2>1. CASE e.is = "and" /\ PartOf(e.l, e) /\ PartOf(e.r, e)
    BY <2>1, AndFollows DEF PartOf
  <2>2. CASE e.is = "or" /\ PartOf(e.l, e) /\ PartOf(e.r, e)
    BY <2>2, OrFollows DEF PartOf
  <2>3. CASE e.is = "not" /\ PartOf(e.e, e)
    BY <2>3, NotFollows DEF PartOf
  <2>4. CASE e.is \in {"cmp", "between", "is"}
    BY <2>4, LeafFollows
  <2> QED BY <2>1, <2>2, <2>3, <2>4, Kinds
<1>2. Conditions \subseteq G
  <2> HIDE DEF G
  <2> QED BY <1>1, DepthInduction
<1> QED BY <1>2

----------------------------------------------------------------------------
(* Aggregation expressions, of documents that have all their fields.       *)

AggFollows(e, d) == InAgg[e] /\ NoPaths[e][TRUE] => Agrees(SqlTruth[e][d], d \in AggExpr[e])

LEMMA AggComparison ==
  ASSUME NEW e, e.is = "cmp", e.op \in Ops, IsComparison(e), Clean(e, TRUE),
         NEW d \in Docs, Complete(d)
  PROVE  Agrees(SqlCmp(e, d), d \in Expr(MongoOp[e.op], e.l, e.r))
<1>1. PICK T \in Types : OfType(e.l, T) /\ OfType(e.r, T)
  BY DEF IsComparison, Types
<1> DEFINE x == Operand(e.l, d)
           y == Operand(e.r, d)
<1>c. Constant(e.l) \cap DOMAIN Names = {} /\ Constant(e.r) \cap DOMAIN Names = {}
  BY EmbeddedOf DEF Clean
<1>2. x \in Values /\ y \in Values
  BY <1>1, <1>c, OperandValue
<1>3. x # Missing
  BY <1>1, <1>c, OperandType, OperandValue, TypeFacts, NullFacts DEF Complete
<1>4. y # Missing
  BY <1>1, <1>c, OperandType, OperandValue, TypeFacts, NullFacts DEF Complete
<1>5. SqlCmp(e, d) = Compare3(e.op, Sql(x), Sql(y))
  BY <1>1, <1>c, OperandValue, ComparisonSql
<1>6. d \in Expr(MongoOp[e.op], e.l, e.r) <=> Compares(MongoOp[e.op], x, y)
  BY ExprMembers
<1> HIDE DEF x, y
<1>7. Agrees(Compare3(e.op, Sql(x), Sql(y)), Compares(MongoOp[e.op], x, y))
  BY <1>2, <1>3, <1>4, ExprComparison
<1> QED BY <1>5, <1>6, <1>7 DEF Agrees

LEMMA AggMembershipFollows ==
  ASSUME NEW e, e.is = "cmp", IsMembership(e), e.op \notin {"regexp", "not regexp"},
         Clean(e, TRUE), NEW d \in Docs, Complete(d)
  PROVE  Agrees(SqlCmp(e, d), d \in AggMembership(e))
<1> DEFINE x == d[e.l.col]
           s == e.r.set
<1>1. e.l.is = "col" /\ e.l.col \in Cols /\ Operand(e.l, d) = x
  BY DEF IsMembership, Col, Operand
<1>2. SqlValue(e.l, d) = x
  BY <1>1 DEF SqlValue, Sql, Complete
<1>3. In3(x, s) \in Truths /\ Match3(x, s) \in Truths
  BY DEF In3, Match3, Truth, Truths
<1>4. Agrees(In3(x, s), x \in s)
  BY DEF Agrees, In3
<1>5. Agrees(Match3(x, s), x \in s)
  BY DEF Agrees, Match3, Truth
<1>6. /\ e.op \in {"in", "like"} => (d \in AggMembership(e) <=> x \in s)
      /\ e.op \notin {"in", "like"} => (d \in AggMembership(e) <=> x \notin s)
  <2>1. Listed(e, d) = s
    <3>1. CASE e.op \in InOps
      <4>1. s \cap DOMAIN Names = {}
        BY <3>1, EmbeddedOf DEF Clean
      <4>2. Missing \notin s
        <5>1. s \subseteq Domain(e.l.col) \cup {Null}
          BY <3>1 DEF IsMembership, InOps, PatternOps
        <5> QED BY <1>1, <5>1, DocValue, TypeFacts, NullFacts
      <4>3. \A v \in s : Sql(Embedded(v, d)) = v
        BY <4>1, <4>2 DEF Sql, Embedded
      <4> HIDE DEF s
      <4> QED BY <3>1, <4>3 DEF Listed, s
    <3>2. CASE e.op \notin InOps
      BY <3>2 DEF Listed
    <3> QED BY <3>1, <3>2
  <2> QED BY <1>1, <2>1 DEF AggMembership, Nor
<1>7. /\ e.op = "in" => SqlCmp(e, d) = In3(x, s)
      /\ e.op = "not in" => SqlCmp(e, d) = Not3(In3(x, s))
      /\ e.op = "like" => SqlCmp(e, d) = Match3(x, s)
      /\ e.op = "not like" => SqlCmp(e, d) = Not3(Match3(x, s))
  BY <1>2, OpNames DEF SqlCmp, Ops
<1>8. e.op \in {"in", "not in", "like", "not like"}
  BY DEF IsMembership, InOps, PatternOps
<1> HIDE DEF x, s
<1> QED BY <1>3, <1>4, <1>5, <1>6, <1>7, <1>8 DEF Agrees, Not3, Truths

LEMMA AggBetweenFollows ==
  ASSUME NEW c \in Cols, NEW from \in Domain(c) \cup {Null}, NEW to \in Domain(c) \cup {Null},
         NEW yes \in BOOLEAN, {from, to} \cap DOMAIN Names = {}, NEW d \in Docs, Complete(d)
  PROVE  Agrees(SqlBetween(Sql(d[c]), from, to, yes), d \in AggBetween(c, from, to, yes))
<1> DEFINE x == d[c]
           C(op, v) == Compare3(op, Sql(x), v)
           E(op, v) == Compares(MongoOp[op], x, v)
<1>1. x \in Values /\ Sql(x) \in Values /\ x # Missing
      /\ from \in Values /\ to \in Values /\ from # Missing /\ to # Missing
  BY DocValue, TypeFacts, NullFacts DEF Sql, Complete
<1>2. \A op \in {"<", "<=", ">", ">="} : \A v \in {from, to} :
        Agrees(C(op, v), E(op, v)) /\ C(op, v) \in Truths
  <2> SUFFICES ASSUME NEW op \in {"<", "<=", ">", ">="}, NEW v \in {from, to}
               PROVE  Agrees(C(op, v), E(op, v)) /\ C(op, v) \in Truths
    OBVIOUS
  <2>1. op \in Ops
    BY OpNames
  <2>2. v \in Values /\ v # Missing /\ Sql(v) = v
    BY <1>1 DEF Sql
  <2> HIDE DEF x
  <2>3. Agrees(Compare3(op, Sql(x), Sql(v)), Compares(MongoOp[op], x, v))
    BY <1>1, <2>1, <2>2, ExprComparison
  <2> QED BY <2>2, <2>3, Compare3Type
<1>3. C("<", from) = Not3(C(">=", from)) /\ C(">", to) = Not3(C("<=", to))
  <2>1. {">=", "<="} \subseteq Ops \ {"<=>"}
    BY OpNames
  <2> HIDE DEF x
  <2> QED BY <1>1, <2>1, NegatedNames, OppositeComparison
<1>4. Operand(Col(c), d) = x /\ \A v \in {from, to} : Operand(Lit(v), d) = v
  BY DEF Operand, Embedded, Col, Lit
<1>5. /\ d \in AggBetween(c, from, to, TRUE) <=> E(">=", from) /\ E("<=", to)
      /\ d \in AggBetween(c, from, to, FALSE) <=> E("<", from) \/ E(">", to)
  BY <1>4, ExprMembers, OpTable DEF AggBetween, Both, Either
<1>6. /\ SqlBetween(Sql(x), from, to, TRUE) = And3(C(">=", from), C("<=", to))
      /\ SqlBetween(Sql(x), from, to, FALSE) = Or3(C("<", from), C(">", to))
  BY <1>2, <1>3, DeMorgan DEF SqlBetween
<1> HIDE DEF x, C, E
<1>7. CASE yes = TRUE
  BY <1>2, <1>5, <1>6, <1>7 DEF x, Agrees, And3, Truths
<1>8. CASE yes = FALSE
  BY <1>2, <1>5, <1>6, <1>8 DEF x, Agrees, Or3, And3, Not3, Truths
<1> QED BY <1>7, <1>8

LEMMA AggIsFollows ==
  ASSUME NEW c \in Cols, NEW val \in {Null} \cup Booleans, NEW yes \in BOOLEAN,
         NEW d \in Docs, Complete(d)
  PROVE  Agrees(Truth((Sql(d[c]) = val) = yes),
                d \in Expr(IF yes THEN "eq" ELSE "ne", Col(c), Lit(val)))
<1>1. d[c] \in Values /\ val \in Values /\ Sql(d[c]) = d[c]
  BY DocValue, TypeFacts, NullFacts DEF Sql, Complete, Types
<1>2. Rank[d[c]] = Rank[val] <=> d[c] = val
  BY <1>1, Ordered
<1>3. Operand(Col(c), d) = d[c] /\ Operand(Lit(val), d) = val
  <2>1. val \notin DOMAIN Names
    BY NamesAssumption, OrderAssumption
  <2> QED BY <2>1 DEF Operand, Embedded, Col, Lit
<1>4. /\ d \in Expr("eq", Col(c), Lit(val)) <=> d[c] = val
      /\ d \in Expr("ne", Col(c), Lit(val)) <=> d[c] # val
  <2>1. /\ Compares("eq", d[c], val) <=> Rank[d[c]] = Rank[val]
        /\ Compares("ne", d[c], val) <=> Rank[d[c]] # Rank[val]
    BY DEF Compares, Holds
  <2> QED BY <1>2, <1>3, <2>1, ExprMembers
<1>5. CASE yes = TRUE
  BY <1>1, <1>4, <1>5 DEF Agrees, Truth
<1>6. CASE yes = FALSE
  BY <1>1, <1>4, <1>6 DEF Agrees, Truth
<1> QED BY <1>5, <1>6

LEMMA AggLeafFollows ==
  ASSUME NEW e \in Conditions, NEW d \in Docs, Complete(d), e.is \in {"cmp", "between", "is"}
  PROVE  AggFollows(e, d)
<1>c. NoPaths[e][TRUE] <=> Clean(e, TRUE)
  BY NoPathsOfLeaf
<1>1. CASE e.is = "cmp" /\ e.op \in Ops /\ IsComparison(e)
  <2>1. SqlTruth[e][d] = SqlCmp(e, d)
    BY <1>1, SqlTruthIs DEF SqlStep
  <2>2. AggExpr[e] = Expr(MongoOp[e.op], e.l, e.r)
    BY <1>1, AggExprIs DEF AggStep, Ops
  <2> QED BY <1>c, <1>1, <2>1, <2>2, AggComparison DEF AggFollows
<1>2. CASE e.is = "cmp" /\ e.op \in InOps \cup PatternOps /\ IsMembership(e)
  <2>1. SqlTruth[e][d] = SqlCmp(e, d)
    BY <1>2, SqlTruthIs DEF SqlStep
  <2>2. e.op \notin DOMAIN MongoOp
    BY <1>2, OpNames DEF InOps, PatternOps, Ops
  <2>3. AggExpr[e] = AggMembership(e)
    BY <1>2, <2>2, AggExprIs DEF AggStep
  <2>4. InAgg[e] => e.op \notin {"regexp", "not regexp"}
    BY <1>2, InAggIs DEF InAggStep
  <2> QED BY <1>c, <1>2, <2>1, <2>3, <2>4, AggMembershipFollows DEF AggFollows
<1>3. CASE e.is = "between" /\ IsLeaf(e)
  <2>1. SqlTruth[e][d] = SqlBetween(Sql(d[e.col]), e.from, e.to, e.yes)
    BY <1>3, SqlTruthIs DEF SqlStep
  <2>2. AggExpr[e] = AggBetween(e.col, e.from, e.to, e.yes)
    BY <1>3, AggExprIs DEF AggStep
  <2>3. /\ e.col \in Cols /\ e.yes \in BOOLEAN
        /\ e.from \in Domain(e.col) \cup {Null} /\ e.to \in Domain(e.col) \cup {Null}
    BY <1>3 DEF IsLeaf
  <2>4. Clean(e, TRUE) => {e.from, e.to} \cap DOMAIN Names = {}
    BY <1>3, EmbeddedOf DEF Clean
  <2>5. ASSUME Clean(e, TRUE)
        PROVE  Agrees(SqlBetween(Sql(d[e.col]), e.from, e.to, e.yes),
                      d \in AggBetween(e.col, e.from, e.to, e.yes))
    BY <2>3, <2>4, <2>5, AggBetweenFollows
  <2> QED BY <1>c, <2>1, <2>2, <2>5, Zenon DEF AggFollows
<1>4. CASE e.is = "is" /\ IsLeaf(e)
  <2>1. SqlTruth[e][d] = Truth((Sql(d[e.col]) = e.val) = e.yes)
    BY <1>4, SqlTruthIs DEF SqlStep
  <2>2. AggExpr[e] = Expr(IF e.yes THEN "eq" ELSE "ne", Col(e.col), Lit(e.val))
    BY <1>4, AggExprIs DEF AggStep
  <2>3. e.col \in Cols /\ e.yes \in BOOLEAN /\ e.val \in {Null} \cup Booleans
    BY <1>4 DEF IsLeaf
  <2> QED BY <2>1, <2>2, <2>3, AggIsFollows DEF AggFollows
<1> QED BY <1>1, <1>2, <1>3, <1>4, Kinds

LEMMA AggInnerFollows ==
  ASSUME NEW e \in Conditions, NEW d \in Docs,
         \/ /\ e.is \in {"and", "or"} /\ e.l \in Conditions /\ e.r \in Conditions
            /\ AggFollows(e.l, d) /\ AggFollows(e.r, d)
         \/ e.is = "not" /\ e.e \in Conditions /\ AggFollows(e.e, d)
  PROVE  AggFollows(e, d)
<1>1. CASE e.is = "and" /\ e.l \in Conditions /\ e.r \in Conditions
           /\ AggFollows(e.l, d) /\ AggFollows(e.r, d)
  <2>1. SqlTruth[e][d] = And3(SqlTruth[e.l][d], SqlTruth[e.r][d])
    BY <1>1, SqlTruthIs DEF SqlStep
  <2>2. d \in AggExpr[e] <=> d \in AggExpr[e.l] /\ d \in AggExpr[e.r]
    BY <1>1, AggExprIs DEF AggStep, Both
  <2>3. InAgg[e] => InAgg[e.l] /\ InAgg[e.r]
    BY <1>1, InAggIs DEF InAggStep
  <2>5. NoPaths[e][TRUE] => NoPaths[e.l][TRUE] /\ NoPaths[e.r][TRUE]
    BY <1>1, NoPathsOfParts
  <2>4. SqlTruth[e.l][d] \in Truths /\ SqlTruth[e.r][d] \in Truths
    BY <1>1, TruthType
  <2> QED BY <1>1, <2>1, <2>2, <2>3, <2>4, <2>5 DEF AggFollows, Agrees, And3, Truths
<1>2. CASE e.is = "or" /\ e.l \in Conditions /\ e.r \in Conditions
           /\ AggFollows(e.l, d) /\ AggFollows(e.r, d)
  <2>1. SqlTruth[e][d] = Or3(SqlTruth[e.l][d], SqlTruth[e.r][d])
    BY <1>2, SqlTruthIs DEF SqlStep
  <2>2. d \in AggExpr[e] <=> d \in AggExpr[e.l] \/ d \in AggExpr[e.r]
    BY <1>2, AggExprIs DEF AggStep, Either
  <2>3. InAgg[e] => InAgg[e.l] /\ InAgg[e.r]
    BY <1>2, InAggIs DEF InAggStep
  <2>5. NoPaths[e][TRUE] => NoPaths[e.l][TRUE] /\ NoPaths[e.r][TRUE]
    BY <1>2, NoPathsOfParts
  <2>4. SqlTruth[e.l][d] \in Truths /\ SqlTruth[e.r][d] \in Truths
    BY <1>2, TruthType
  <2> QED BY <1>2, <2>1, <2>2, <2>3, <2>4, <2>5 DEF AggFollows, Agrees, Or3, And3, Not3, Truths
<1>3. CASE e.is = "not" /\ e.e \in Conditions /\ AggFollows(e.e, d)
  <2>1. SqlTruth[e][d] = Not3(SqlTruth[e.e][d])
    BY <1>3, SqlTruthIs DEF SqlStep
  <2>2. d \in AggExpr[e] <=> d \notin AggExpr[e.e]
    BY <1>3, AggExprIs DEF AggStep, Nor
  <2>3. InAgg[e] => InAgg[e.e]
    BY <1>3, InAggIs DEF InAggStep
  <2>5. NoPaths[e][TRUE] => NoPaths[e.e][TRUE]
    BY <1>3, NoPathsOfPart
  <2>4. SqlTruth[e.e][d] \in Truths
    BY <1>3, TruthType
  <2> QED BY <1>3, <2>1, <2>2, <2>3, <2>4, <2>5 DEF AggFollows, Agrees, Not3, Truths
<1> QED BY <1>1, <1>2, <1>3

LEMMA EveryExpressionFollows ==
  \A e \in Conditions : \A d \in Docs : Complete(d) => AggFollows(e, d)
<1> DEFINE G == {e \in Conditions : \A d \in Docs : Complete(d) => AggFollows(e, d)}
<1>1. \A e \in Conditions : (\A p : PartOf(p, e) => p \in G) => e \in G
  <2> SUFFICES ASSUME NEW e \in Conditions, \A p : PartOf(p, e) => p \in G,
                      NEW d \in Docs, Complete(d)
               PROVE  AggFollows(e, d)
    OBVIOUS
  <2>1. CASE e.is \in {"and", "or"} /\ PartOf(e.l, e) /\ PartOf(e.r, e)
    BY <2>1, AggInnerFollows DEF PartOf
  <2>2. CASE e.is = "not" /\ PartOf(e.e, e)
    BY <2>2, AggInnerFollows DEF PartOf
  <2>3. CASE e.is \in {"cmp", "between", "is"}
    BY <2>3, AggLeafFollows
  <2> QED BY <2>1, <2>2, <2>3, Kinds
<1>2. Conditions \subseteq G
  <2> HIDE DEF G
  <2> QED BY <1>1, DepthInduction
<1> QED BY <1>2

----------------------------------------------------------------------------
(* The specification.                                                      *)

\* What is found and taken is what the translations of the condition select.
Inv ==
  /\ where \in Conditions
  /\ phase = "found" => found = TranslateWhere(where)
  /\ phase = "taken" => taken = AggExpr[where] /\ InAgg[where]

LEMMA Invariant == Spec => []Inv
<1>1. Init => Inv
  BY DEF Init, Inv
<1>2. Inv /\ [Next]_vars => Inv'
  BY DEF Inv, Next, Find, Case, Done, vars
<1> QED BY <1>1, <1>2, PTL DEF Spec

LEMMA FoundFollows ==
  Inv => (phase = "found" =>
            /\ NoPaths[where][FALSE] => \A d \in Docs : Agrees(SqlTruth[where][d], d \in found)
            /\ Plain[where][TRUE] => \A d \in Docs : Exact(SqlTruth[where][d], d \in found)
            /\ found \subseteq Docs)
<1> SUFFICES ASSUME Inv, phase = "found"
             PROVE  /\ NoPaths[where][FALSE]
                         => \A d \in Docs : Agrees(SqlTruth[where][d], d \in found)
                    /\ Plain[where][TRUE] => \A d \in Docs : Exact(SqlTruth[where][d], d \in found)
                    /\ found \subseteq Docs
  OBVIOUS
<1>1. where \in Conditions /\ found = Translation[where].where
  BY DEF Inv, TranslateWhere
<1>2. found \subseteq Docs
  <2>1. Translation[where] \in Pairings
    BY <1>1, TranslationIs
  <2> QED BY <1>1, <2>1 DEF Pairings, Filters
<1> QED BY <1>1, <1>2, EveryConditionFollows DEF Follows, Agrees, Exact

\* Whatever a condition is built of and however deep, its filter selects every
\* document for which SQL finds it TRUE (TranslateWhere and negateWhere push NOT down
\* without losing a row), unless a text compared in $expr is a field path.
THEOREM LosesNothing == Spec => []NothingLost
<1>1. Inv => NothingLost
  BY FoundFollows DEF NothingLost, Agrees
<1> QED BY <1>1, Invariant, PTL

\* No filter selects a document for which SQL finds the condition FALSE, unless a text
\* compared in $expr is a field path.
THEOREM SelectsNothingFalse == Spec => []NothingFalse
<1>1. Inv => NothingFalse
  BY FoundFollows DEF NothingFalse, Agrees
<1> QED BY <1>1, Invariant, PTL

\* Conditions built of plain leaves select exactly SQL's rows.
THEOREM PlainConditionsAreExact == Spec => []PlainIsExact
<1>1. Inv => PlainIsExact
  BY FoundFollows DEF PlainIsExact, Exact
<1> QED BY <1>1, Invariant, PTL

\* A CASE none of whose texts is a field path takes a branch that is TRUE and none that
\* is FALSE, for a document that has all its fields (toAggExprInner puts texts in an
\* expression as they are).
THEOREM CaseIsSql == Spec => []CaseFollowsSql
<1>1. Inv => CaseFollowsSql
  BY EveryExpressionFollows DEF CaseFollowsSql, Inv, AggFollows, Complete, Agrees
<1> QED BY <1>1, Invariant, PTL
=============================================================================
