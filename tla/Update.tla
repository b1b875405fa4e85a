------------------------------- MODULE Update -------------------------------
(***************************************************************************)
(* INSERT ... VALUES and UPDATE ... SET: from the statement over the       *)
(* translator (translator/internal/write), the driver (execUpdate) and     *)
(* MongoDB to the answer.                                                  *)
(*                                                                         *)
(* An UPDATE with constants only becomes a $set of their values; as soon   *)
(* as one column is read, all of it becomes a pipeline, in which every     *)
(* value is an expression.  MongoDB updates document after document and    *)
(* stops at the first that fails.  The statements have no WHERE (module    *)
(* Where), and the inserted rows no columns with defaults (SchemaStore).   *)
(***************************************************************************)
EXTENDS Expressions

CONSTANTS
  Columns,
  OnUpdate,    \* the columns with ON UPDATE CURRENT_TIMESTAMP
  Statements,  \* kind and assignments: a sequence of column and expression
  Tables       \* sequences of documents, which map columns to values

Now == Whole(99)

ASSUME UpdateAssumption == OnUpdate \subseteq Columns

VARIABLES
  stmt,      \* the statement
  before,    \* the documents before it
  docs,      \* the documents
  sent,      \* what is sent to MongoDB
  at,        \* the documents updated so far
  modified,  \* those of them that have changed
  answer,
  phase

vars == <<stmt, before, docs, sent, at, modified, answer, phase>>

Assigned(s) == {s.set[i].col : i \in DOMAIN s.set}

\* Of two assignments to a column the last one counts.
SetDoc(s) ==
  [c \in Assigned(s) |->
     LET e == s.set[Max({i \in DOMAIN s.set : s.set[i].col = c})].e
     IN  IF HasColumnRef(e) THEN e ELSE Lit(EvalConst(e))]

\* Variant: only the first assignment is looked at.
IsPipelineFirst(s) == HasColumnRef(s.set[1].e)

IsPipeline(s) == \E i \in DOMAIN s.set : HasColumnRef(s.set[i].e)

\* What prevents the translation, in the order of the assignments.
Problems(s) ==
  LET ProblemOf(e) ==
        IF ~HasColumnRef(e) THEN EvalConst(e)
        ELSE IF s.kind = "insert" THEN Refused ELSE Translated(e)
      problems == [i \in DOMAIN s.set |-> ProblemOf(s.set[i].e)]
  IN  SelectSeq(problems, IsError)

ApplyOnUpdate(set) ==
  [c \in DOMAIN set \cup OnUpdate |-> IF c \in DOMAIN set THEN set[c] ELSE Lit(Now)]

\* The values for one document; an expression without a value removes the field.
Updated(s, d) ==
  [c \in Columns |->
     IF c \notin DOMAIN s.set THEN d[c]
     ELSE IF s.pipeline THEN ToAggExpr(s.set[c], d) ELSE s.set[c].v]

----------------------------------------------------------------------------
NoAnswer == [ok |-> FALSE, affected |-> 0]

Init ==
  /\ stmt \in Statements
  /\ before \in Tables
  /\ docs = before
  /\ sent = [set |-> <<>>, pipeline |-> FALSE]
  /\ at = 0
  /\ modified = 0
  /\ answer = NoAnswer
  /\ phase = "received"

\* Insert and Update: an error is the answer, a panic leaves none.
Translate ==
  /\ phase = "received"
  /\ IF Problems(stmt) = <<>>
     THEN /\ sent' = [set |-> SetDoc(stmt), pipeline |-> IsPipeline(stmt)]
          /\ phase' = "translated"
     ELSE /\ phase' = IF Problems(stmt)[1] = Panicked THEN "stopped" ELSE "answered"
          /\ UNCHANGED sent
  /\ UNCHANGED <<stmt, before, docs, at, modified, answer>>

\* execInsert, and what MongoDB does: a column that is not named is missing.
ExecInsert ==
  /\ phase = "translated"
  /\ stmt.kind = "insert"
  /\ docs' = Append(docs, [c \in Columns |-> IF c \in DOMAIN sent.set THEN sent.set[c].v ELSE Missing])
  /\ answer' = [ok |-> TRUE, affected |-> 1]
  /\ phase' = "answered"
  /\ UNCHANGED <<stmt, before, sent, at, modified>>

\* execUpdate, up to the call of UpdateMany.
ExecUpdate ==
  /\ phase = "translated"
  /\ stmt.kind = "update"
  /\ sent' = [sent EXCEPT !.set = ApplyOnUpdate(@)]
  /\ phase' = "updating"
  /\ UNCHANGED <<stmt, before, docs, at, modified, answer>>

\* MongoDB updates the next document, or fails.
UpdateNext ==
  /\ phase = "updating"
  /\ at < Len(docs)
  /\ LET d == Updated(sent, docs[at + 1])
     IN  IF \E c \in Columns : d[c] = Failed
         THEN /\ phase' = "answered"
              /\ UNCHANGED <<docs, at, modified>>
         ELSE /\ docs' = [docs EXCEPT ![at + 1] = d]
              /\ modified' = modified + (IF d = docs[at + 1] THEN 0 ELSE 1)
              /\ at' = at + 1
              /\ UNCHANGED phase
  /\ UNCHANGED <<stmt, before, sent, answer>>

\* resultToMySQL: the number of affected rows is ModifiedCount.
Reply ==
  /\ phase = "updating"
  /\ at = Len(docs)
  /\ answer' = [ok |-> TRUE, affected |-> modified]
  /\ phase' = "answered"
  /\ UNCHANGED <<stmt, before, docs, sent, at, modified>>

Next == Translate \/ ExecInsert \/ ExecUpdate \/ UpdateNext \/ Reply

Spec == Init /\ [][Next]_vars

----------------------------------------------------------------------------
(* SQL.                                                                    *)

\* An assignment sees those to its left.
SqlAssigned(s, d) ==
  FoldLeft(LAMBDA row, a : [row EXCEPT ![a.col] = Sql(a.e, row)], d, s.set)

Changes(s, d) == \E c \in Columns : ~Same(SqlAssigned(s, d)[c], d[c])

\* The stamp is set only if another column changes.
SqlUpdate(s, d) ==
  [c \in Columns |->
     IF c \in OnUpdate \ Assigned(s) /\ Changes(s, d) THEN Now ELSE SqlAssigned(s, d)[c]]

SameRow(d, row) == \A c \in Columns : Same(d[c], row[c])

ColumnsOf(e) == {p.v : p \in {q \in Parts(e) : q.op = "col"}}

\* No column is read after it was assigned, and a constant among expressions is
\* not taken for a field.
UpdateSupported(s, d) ==
  /\ \A i \in DOMAIN s.set :
       LET e == s.set[i].e
       IN  /\ \A j \in 1..(i - 1) : s.set[j].col \notin ColumnsOf(e)
           /\ IF HasColumnRef(e) THEN AggSupported(e, d) ELSE ConstSupported(e)
           /\ IsPipeline(s) /\ ~HasColumnRef(e) => Embedded(EvalConst(e)) = EvalConst(e)
  /\ OnUpdate \subseteq Assigned(s) \/ Changes(s, d)

\* An UPDATE of supported expressions succeeds, leaves in every row what MySQL
\* would, and counts at least the rows that differ (driver.go execUpdate,
\* write.go Update, agg_expr.go, expr.go).
UpdateIsSql ==
  phase # "received" /\ stmt.kind = "update" /\ (\A i \in DOMAIN before : UpdateSupported(stmt, before[i])) =>
    /\ phase # "stopped"
    /\ phase = "answered" =>
         /\ answer.ok
         /\ \A i \in DOMAIN before : SameRow(docs[i], SqlUpdate(stmt, before[i]))
         /\ answer.affected <= Len(before)
         /\ Cardinality({i \in DOMAIN before : Changes(stmt, before[i])}) <= answer.affected

\* An INSERT of supported constants adds one row with the values MySQL would
\* store (write.go Insert, expr.go Value, agg_expr.go evalConstExpr).
ValuesAreSql ==
  phase # "received" /\ stmt.kind = "insert" /\ (\A i \in DOMAIN stmt.set : ConstSupported(stmt.set[i].e)) =>
    /\ phase # "stopped"
    /\ phase = "answered" =>
         /\ answer = [ok |-> TRUE, affected |-> 1]
         /\ SubSeq(docs, 1, Len(before)) = before /\ Len(docs) = Len(before) + 1
         /\ \A c \in Assigned(stmt) :
              Same(docs[Len(docs)][c], SqlAssigned(stmt, [k \in Columns |-> Missing])[c])

\* An UPDATE with a CAST stores what it converts its argument to
\* (doc/sql-subset.md lists CAST and CONVERT among the functions it supports).
CastConverts ==
  phase = "answered" /\ answer.ok /\ (\A i \in DOMAIN stmt.set : stmt.set[i].e.op \in Casts)
    => \A i \in DOMAIN before, c \in Assigned(stmt) :
         Same(docs[i][c], SqlAssigned(stmt, before[i])[c])
=============================================================================
