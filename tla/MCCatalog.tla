------------------------------ MODULE MCCatalog ------------------------------
(***************************************************************************)
(* Small instances of Catalog for TLC.  The configurations choose one of   *)
(* the workloads below.                                                    *)
(***************************************************************************)
EXTENDS CatalogRefinement, TLC

CONSTANTS t1, t2, id, x, ix

\* Tables whose schema is fixed once they are created.
StaticWorkload ==
  {CreateTable(t1, {id}, FALSE), CreateTable(t1, {id, x}, TRUE),
   CreateTable(t2, {id}, TRUE),
   Insert(t1), Insert(t2), Update(t1), Delete(t1)}

\* One table that is altered, indexed, truncated and filled at the same time.
EvolvingWorkload ==
  {CreateTable(t1, {id}, FALSE), AlterTable(t1, <<AddItem("drop", id)>>),
   AlterTable(t1, <<AddItem("add", id), AddItem("addIndex", ix)>>),
   CreateIndex(t1, ix), DropIndex(t1, ix), Truncate(t1),
   Insert(t1), Delete(t1)}

\* Tables come, go, change and are renamed.
DDLWorkload ==
  {CreateTable(t1, {id, ix}, FALSE), CreateTable(t1, {id}, TRUE),
   DropTable(t1, TRUE), DropTable(t2, FALSE),
   AlterTable(t1, <<AddItem("modify", x), AddItem("drop", id)>>),
   AlterTable(t2, <<AddItem("addIndex", ix), AddItem("dropIndex", ix)>>),
   AlterTable(t1, <<RenameTo(t2), AddItem("add", x)>>),
   RenameTable(<<Pair(t1, t2)>>), RenameTable(<<Pair(t2, t1)>>),
   CreateIndex(t2, ix), Insert(t1), Insert(t2)}

\* The same, and rows are deleted.
SerialWorkload == DDLWorkload \cup {Delete(t2)}

\* The same and the statements whose repair after a failure is in question.
FaultyWorkload ==
  DDLWorkload \cup {DropIndex(t1, ix), Truncate(t1), DropDatabase}

\* Workloads of single questions.
DropRaceWorkload ==
  {CreateTable(t1, {id}, FALSE), DropTable(t1, TRUE), Update(t1)}

RenameRaceWorkload ==
  {CreateTable(t1, {id}, FALSE), RenameTable(<<Pair(t1, t2)>>),
   Insert(t1), Insert(t2)}

TruncateWorkload == {CreateTable(t1, {id, ix}, FALSE), Truncate(t1)}

IndexTwiceWorkload ==
  {CreateTable(t1, {id}, FALSE), CreateIndex(t1, ix), DropIndex(t1, ix)}

FailedAlterWorkload ==
  {CreateTable(t1, {id}, FALSE), CreateTable(t2, {id}, FALSE),
   AlterTable(t1, <<AddItem("add", x), RenameTo(t2)>>)}

Interchangeable == Permutations(Conns) \cup Permutations(Ptrs)
=============================================================================
