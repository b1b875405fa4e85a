-------------------------- MODULE CatalogRefinement --------------------------
(***************************************************************************)
(* Catalog implements AtomicCatalog: read in the right places, the         *)
(* collection, the schema document, the counter and the schema objects of  *)
(* a table are one table that each statement changes at once, although a   *)
(* handler changes them one round trip after the other.  Clients are       *)
(* Serial: the code does not keep overlapping DDL apart.                   *)
(***************************************************************************)
EXTENDS Catalog

\* What a handler is doing to table t, with its collection already there: store
\* its first schema, edit its schema, bring its schema or its counter along from
\* the old name; or it is there without its collection, between the two halves
\* of TRUNCATE.
Creates(c, t) == conn[c].pc = "createIndexes" /\ conn[c].tab = t /\ At(c, "upsert")
Edits(c, t) ==
  conn[c].pc \in {"option", "store", "finish"} /\ conn[c].tab = t /\ conn[c].ptr # None
BringsSchema(c, t) ==
  /\ conn[c].pc = "migrate" \/ (conn[c].pc = "dropOld" /\ At(c, "upsert"))
  /\ Opt(c).to = t
BringsCounter(c, t) ==
  conn[c].pc \in {"migrate", "dropOld", "findCounter", "setCounter"} /\ Opt(c).to = t
Recreates(c, t) == conn[c].pc = "recreate" /\ conn[c].tab = t

\* Until it has been stored under the new name, a renamed table's schema is the
\* one under the old name, and so for its counter.
Home(t, movers) == IF movers = {} THEN t ELSE conn[CHOOSE c \in movers : TRUE].tab

\* A table has its schema from the moment its collection is there, stored or not;
\* while it is edited, the handler's object is the schema.
SchemaNow(t) ==
  LET creators == {c \in Conns : Creates(c, t)}
      editors == {c \in Conns : Edits(c, t)}
  IN  IF creators # {} THEN heap[call[CHOOSE c \in creators : TRUE].ptr].items
      ELSE IF editors # {} THEN heap[conn[CHOOSE c \in editors : TRUE].ptr].items
      ELSE docs[Home(t, {c \in Conns : BringsSchema(c, t)})]

\* TRUNCATE drops a collection that for its clients is there all the time.
Exists(t) == t \in colls \/ \E c \in Conns : Recreates(c, t)

TableNow(t) ==
  IF Exists(t)
    THEN [schema |-> SchemaNow(t), rows |-> rows[t],
          counter |-> seq[Home(t, {c \in Conns : BringsCounter(c, t)})]]
    ELSE None

HeldNow(c) ==
  IF conn[c].pc = "insertMany"
    THEN [tab |-> conn[c].tab, id |-> conn[c].id, nr |-> conn[c].nr] ELSE None

SchemaOf(s) == IF s.items \subseteq Indexes THEN None ELSE Lists(s.items)

\* Neither a table nor a row on its way is nil.
ASSUME NoneIsNoTable ==
  /\ None \notin [schema : {None} \cup Listing, rows : SUBSET Row, counter : Nat]
  /\ None \notin [tab : Tables, id : Nat, nr : Nat]

Atomic == INSTANCE AtomicCatalog WITH
  Serials <- 1..MaxStmts,
  table <- [t \in Tables |-> TableNow(t)],
  held <- [c \in Conns |-> HeldNow(c)],
  intact <- Uninterrupted

----------------------------------------------------------------------------
(* Properties.                                                             *)

\* While nothing fails, CREATE, DROP, TRUNCATE and RENAME TABLE and each option of
\* ALTER TABLE change a table, with its schema and its counter, at once, and an
\* INSERT gives its row the next value of the table's own counter exactly if the
\* schema asks for it (alter.go: a rename "migrates any stored schema +
\* auto-increment counter to the new table name"; schema.go: ApplyDefaults "fills
\* in default values and auto_increment for INSERT docs").
ImplementsAtomic == Atomic!Spec
=============================================================================
