---------------------------- MODULE AtomicCatalog ----------------------------
(***************************************************************************)
(* What the statements of module Catalog promise, as a client sees them:   *)
(* a table is ONE thing, its schema, its rows and its counter, and a       *)
(* statement changes it at once.  Nothing is said any more once a process  *)
(* or a round trip has failed half-way: intact is then FALSE.              *)
(*                                                                         *)
(* Three statements are more than one step here too.  INSERT takes its     *)
(* AUTO_INCREMENT value first and adds the row later; the options of an    *)
(* ALTER TABLE take effect one after the other; and dropping the           *)
(* AUTO_INCREMENT column empties it before the schema says so.             *)
(***************************************************************************)
EXTENDS Naturals, Sequences

CONSTANTS
  Conns, Tables, AutoCol, None, Workload,
  Serials,          \* what tells the rows of a table apart
  SchemaOf(_),      \* the schema a CREATE TABLE stores, or None
  Edited(_, _, _)   \* what an option of ALTER TABLE makes of a schema

VARIABLES
  table,   \* table -> None, or its schema, rows and counter
  held,    \* connection -> the row it is about to add, or None
  intact   \* nothing has failed so far

vars == <<table, held, intact>>

Bare == [schema |-> None, rows |-> {}, counter |-> 0]

Init ==
  /\ table = [t \in Tables |-> None]
  /\ held = [c \in Conns |-> None]
  /\ intact = TRUE

\* No INSERT into t is under way: clients do not send DDL on t meanwhile.
Free(t) == \A c \in Conns : held[c] # None => held[c].tab # t

Sent(kind) == {s \in Workload : s.kind = kind}
Becomes(t, new) == table' = [table EXCEPT ![t] = new]

Create(t) ==
  /\ table[t] = None
  /\ \E s \in Sent("create") :
       s.tab = t /\ Becomes(t, [Bare EXCEPT !.schema = SchemaOf(s)])

\* MongoDB creates a collection when it is first written to or indexed.
Emerge(t) == table[t] = None /\ Becomes(t, Bare)

Drop(t) == table[t] # None /\ Becomes(t, None)

\* A table that TRUNCATE does not find is there afterwards.
Truncate(t) == Becomes(t, IF table[t] = None THEN Bare ELSE [table[t] EXCEPT !.rows = {}])

Rename(from, to) ==
  /\ table[from] # None /\ table[to] = None /\ Free(to)
  /\ table' = [table EXCEPT ![to] = table[from], ![from] = None]

\* An option of a statement takes effect.
Alter(t) ==
  /\ table[t] # None /\ table[t].schema # None
  /\ \E s \in Sent("alter") \cup Sent("index") : \E k \in DOMAIN s.opts :
       /\ s.opts[k].op # "rename"
       /\ Becomes(t, [table[t] EXCEPT !.schema = Edited(@, s.opts[k].op, s.opts[k].item)])

ForgetIds(t) ==
  /\ table[t] # None
  /\ Becomes(t, [table[t] EXCEPT !.rows = {[r EXCEPT !.id = 0] : r \in @}])

Delete(t) ==
  /\ table[t] # None
  /\ \E kept \in SUBSET table[t].rows : Becomes(t, [table[t] EXCEPT !.rows = kept])

Numbered(t) ==
  table[t] # None /\ table[t].schema # None /\ table[t].schema[AutoCol] > 0

Holds(c, t, id) == \E n \in Serials : held' = [held EXCEPT ![c] = [tab |-> t, id |-> id, nr |-> n]]

\* The schema says whether the row gets the next value of the counter, which
\* nobody else gets.
TakeId(c, t) ==
  /\ held[c] = None
  /\ \E s \in Sent("insert") :
       /\ s.tab = t
       /\ IF Numbered(t) /\ s.id = 0
            THEN /\ Becomes(t, [table[t] EXCEPT !.counter = @ + 1])
                 /\ Holds(c, t, table[t].counter + 1)
            ELSE UNCHANGED table /\ Holds(c, t, s.id)

Insert(c) ==
  /\ held[c] # None
  /\ LET t == held[c].tab
         at == IF table[t] = None THEN Bare ELSE table[t]
     IN  Becomes(t, [at EXCEPT !.rows = @ \cup {[id |-> held[c].id, nr |-> held[c].nr]}])
  /\ held' = [held EXCEPT ![c] = None]

Define(t) ==
  /\ Free(t)
  /\ \/ Create(t) \/ Emerge(t) \/ Drop(t) \/ Truncate(t)
     \/ Alter(t) \/ ForgetIds(t)
     \/ \E to \in Tables : Rename(t, to)
  /\ UNCHANGED held

Step ==
  \/ \E t \in Tables : Define(t)
  \/ \E t \in Tables : Delete(t) /\ UNCHANGED held
  \/ \E c \in Conns, t \in Tables : TakeId(c, t)
  \/ \E c \in Conns : Insert(c)

\* After a failure nothing is promised.
Next == intact' \in BOOLEAN /\ (intact' => intact /\ Step)

Spec == Init /\ [][Next]_vars
=============================================================================
