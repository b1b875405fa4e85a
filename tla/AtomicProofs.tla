---------------------------- MODULE AtomicProofs ----------------------------
(***************************************************************************)
(* What clients may conclude from the promise of module AtomicCatalog: the *)
(* AUTO_INCREMENT values of a table differ, although tables are dropped,   *)
(* truncated, altered and renamed between the inserts.                     *)
(*                                                                         *)
(* The values in the rows are not enough for an induction: one that an     *)
(* INSERT has taken and not stored yet must be new too, to the rows and to *)
(* the other connections, and neither may exceed the counter.              *)
(***************************************************************************)
EXTENDS AtomicCatalog, TLAPS

\* The clients leave the value to the server.
ValuesFromCounter == \A s \in Sent("insert") : s.id = 0

\* A table that is there is something.
NoneIsNoTable == \A s, r, n : [schema |-> s, rows |-> r, counter |-> n] # None

\* Two rows of a table that have a value have different ones.
UniqueValues ==
  \A t \in Tables : table[t] # None =>
    \A r, s \in table[t].rows : r.id = s.id /\ r.id # 0 => r = s

IsTable(x) ==
  /\ x = [schema |-> x.schema, rows |-> x.rows, counter |-> x.counter]
  /\ x.counter \in Nat
  /\ \A r \in x.rows : r = [id |-> r.id, nr |-> r.nr] /\ r.id \in Nat

IsHeld(h) ==
  /\ h = [tab |-> h.tab, id |-> h.id, nr |-> h.nr]
  /\ h.tab \in Tables /\ h.id \in Nat

Types ==
  /\ table = [t \in Tables |-> table[t]]
  /\ held = [c \in Conns |-> held[c]]
  /\ \A t \in Tables : table[t] # None => IsTable(table[t])
  /\ \A c \in Conns : held[c] # None => IsHeld(held[c])

Given(x) == \A r \in x.rows : r.id <= x.counter
Differ(x) == \A r, s \in x.rows : r.id = s.id /\ r.id # 0 => r = s

\* The row a connection is about to add: its value is the counter's, in no row
\* and in no other connection's hands.
New(c) ==
  held[c] # None /\ held[c].id # 0 =>
    /\ table[held[c].tab] # None
    /\ held[c].id <= table[held[c].tab].counter
    /\ \A r \in table[held[c].tab].rows : r.id # held[c].id
    /\ \A d \in Conns \ {c} :
         held[d] # None /\ held[d].tab = held[c].tab => held[d].id # held[c].id

ValueInv ==
  /\ Types
  /\ \A t \in Tables : table[t] # None => Given(table[t]) /\ Differ(table[t])
  /\ \A c \in Conns : New(c)

LEMMA ValueInitial == Init => ValueInv
BY DEF Init, ValueInv, Types, New

LEMMA TableChanges ==
  ASSUME NEW x, IsTable(x), NEW new
  PROVE  /\ [x EXCEPT !.schema = new] = [schema |-> new, rows |-> x.rows, counter |-> x.counter]
         /\ [x EXCEPT !.rows = new] = [schema |-> x.schema, rows |-> new, counter |-> x.counter]
         /\ [x EXCEPT !.counter = new] = [schema |-> x.schema, rows |-> x.rows, counter |-> new]
<1>1. x \in [schema : {x.schema}, rows : {x.rows}, counter : {x.counter}]
  BY DEF IsTable
<1>2. [x EXCEPT !.schema = new] = [schema |-> new, rows |-> x.rows, counter |-> x.counter]
  BY ONLY <1>1
<1>3. [x EXCEPT !.rows = new] = [schema |-> x.schema, rows |-> new, counter |-> x.counter]
  BY ONLY <1>1
<1>4. [x EXCEPT !.counter = new] = [schema |-> x.schema, rows |-> x.rows, counter |-> new]
  BY ONLY <1>1
<1> QED
  BY <1>2, <1>3, <1>4

LEMMA BareIsTable == IsTable(Bare) /\ Given(Bare) /\ Differ(Bare)
BY DEF Bare, IsTable, Given, Differ

\* A table that no INSERT is adding to may become any table whose own values
\* differ.
LEMMA Becoming ==
  ASSUME ValueInv, NEW t \in Tables, NEW x, Becomes(t, x), UNCHANGED held,
         x # None => IsTable(x) /\ Given(x) /\ Differ(x),
         \A c \in Conns : held[c] # None => held[c].tab # t
  PROVE  ValueInv'
<1>1. \A u \in Tables : table'[u] = IF u = t THEN x ELSE table[u]
  BY DEF Becomes, ValueInv, Types
<1>2. Types'
  BY <1>1 DEF Becomes, ValueInv, Types
<1>3. \A u \in Tables : table'[u] # None => Given(table'[u]) /\ Differ(table'[u])
  BY <1>1 DEF ValueInv
<1>4. \A c \in Conns : New(c)'
  BY <1>1 DEF New, ValueInv, Types, IsHeld
<1> QED
  BY <1>2, <1>3, <1>4 DEF ValueInv, Given, Differ
LEMMA DefinePreserves ==
  ASSUME ValueInv, NEW t \in Tables, Define(t) PROVE ValueInv'
<1> USE DEF Define, Free
<1>1. \A c \in Conns : held[c] # None => held[c].tab # t
  OBVIOUS
<1>2. table[t] # None => IsTable(table[t]) /\ Given(table[t]) /\ Differ(table[t])
  BY DEF ValueInv, Types
<1>3. CASE Create(t)
  <2>1. PICK s \in Sent("create") : Becomes(t, [Bare EXCEPT !.schema = SchemaOf(s)])
    BY <1>3 DEF Create
  <2>2. IsTable([Bare EXCEPT !.schema = SchemaOf(s)])
        /\ Given([Bare EXCEPT !.schema = SchemaOf(s)])
        /\ Differ([Bare EXCEPT !.schema = SchemaOf(s)])
    BY DEF Bare, IsTable, Given, Differ
  <2> QED
    BY <1>1, <2>1, <2>2, Becoming
<1>4. CASE Emerge(t) \/ Drop(t)
  BY <1>1, <1>4, BareIsTable, Becoming DEF Emerge, Drop
<1>5. CASE Truncate(t)
  <2> DEFINE x == [table[t] EXCEPT !.rows = {}]
  <2>1. ASSUME table[t] # None PROVE IsTable(x) /\ Given(x) /\ Differ(x)
    <3>1. IsTable(table[t])
      BY <1>2, <2>1
    <3>2. x = [schema |-> table[t].schema, rows |-> {}, counter |-> table[t].counter]
      BY <3>1, TableChanges
    <3> QED
      BY ONLY <3>1, <3>2 DEF IsTable, Given, Differ
  <2> QED
    BY <1>1, <1>5, <2>1, BareIsTable, Becoming DEF Truncate
<1>6. CASE Alter(t)
  <2>1. PICK listing : Becomes(t, [table[t] EXCEPT !.schema = listing])
    BY <1>6 DEF Alter
  <2> DEFINE x == [table[t] EXCEPT !.schema = listing]
  <2>2. IsTable(table[t]) /\ Given(table[t]) /\ Differ(table[t])
    BY <1>2, <1>6 DEF Alter
  <2>3. x = [schema |-> listing, rows |-> table[t].rows, counter |-> table[t].counter]
    BY <2>2, TableChanges
  <2>4. IsTable(x) /\ Given(x) /\ Differ(x)
    BY ONLY <2>2, <2>3 DEF IsTable, Given, Differ
  <2> QED
    BY <1>1, <2>1, <2>4, Becoming
<1>7. CASE ForgetIds(t)
  <2> DEFINE new == {[r EXCEPT !.id = 0] : r \in table[t].rows}
             x == [table[t] EXCEPT !.rows = new]
  <2>1. IsTable(table[t]) /\ Becomes(t, x)
    BY <1>2, <1>7 DEF ForgetIds
  <2>2. ASSUME NEW r \in table[t].rows
        PROVE  [r EXCEPT !.id = 0] = [id |-> 0, nr |-> r.nr]
    <3>1. r \in [id : {r.id}, nr : {r.nr}]
      BY <2>1 DEF IsTable
    <3> QED
      BY ONLY <3>1
  <2>3. ASSUME NEW q \in new PROVE q.id = 0 /\ q = [id |-> q.id, nr |-> q.nr]
    <3>1. PICK r \in table[t].rows : q = [r EXCEPT !.id = 0]
      BY <2>3, Zenon
    <3>2. q = [id |-> 0, nr |-> r.nr]
      BY <2>2, <3>1, Zenon
    <3> QED
      BY ONLY <3>2
  <2> HIDE DEF new
  <2>4. x = [schema |-> table[t].schema, rows |-> new, counter |-> table[t].counter]
    BY <2>1, TableChanges
  <2>5. IsTable(x) /\ Given(x) /\ Differ(x)
    BY ONLY <2>1, <2>3, <2>4 DEF IsTable, Given, Differ
  <2> QED
    BY <1>1, <2>1, <2>5, Becoming
<1>8. ASSUME NEW to \in Tables, Rename(t, to) PROVE ValueInv'
  <2>1. \A u \in Tables : table'[u] = IF u = t THEN None
                                     ELSE IF u = to THEN table[t] ELSE table[u]
    BY <1>8 DEF Rename, ValueInv, Types
  <2>2. \A c \in Conns : held[c] # None => held[c].tab \notin {t, to}
    BY <1>1, <1>8 DEF Rename
  <2>3. Types'
    BY <1>2, <1>8, <2>1 DEF Rename, ValueInv, Types
  <2>4. \A u \in Tables : table'[u] # None => Given(table'[u]) /\ Differ(table'[u])
    BY <1>2, <2>1 DEF ValueInv
  <2>5. \A c \in Conns : New(c)'
    BY <2>1, <2>2 DEF New, ValueInv, Types, IsHeld
  <2> QED
    BY <2>3, <2>4, <2>5 DEF ValueInv, Given, Differ
<1> QED
  BY <1>3, <1>4, <1>5, <1>6, <1>7, <1>8

LEMMA DeletePreserves ==
  ASSUME NoneIsNoTable, ValueInv, NEW t \in Tables, Delete(t), UNCHANGED held
  PROVE  ValueInv'
<1>1. PICK kept \in SUBSET table[t].rows :
        table[t] # None /\ Becomes(t, [table[t] EXCEPT !.rows = kept])
  BY DEF Delete
<1> DEFINE x == [table[t] EXCEPT !.rows = kept]
<1>2. IsTable(table[t]) /\ Given(table[t]) /\ Differ(table[t])
  BY <1>1 DEF ValueInv, Types
<1>3. x = [schema |-> table[t].schema, rows |-> kept, counter |-> table[t].counter]
  BY <1>2, TableChanges
<1>4. \A u \in Tables : table'[u] = IF u = t THEN x ELSE table[u]
  BY <1>1 DEF Becomes, ValueInv, Types
<1>5. /\ x # None
      /\ x.rows \subseteq table[t].rows /\ x.counter = table[t].counter
      /\ IsTable(x) /\ Given(x) /\ Differ(x)
  BY ONLY <1>2, <1>3, kept \in SUBSET table[t].rows, NoneIsNoTable
     DEF NoneIsNoTable, IsTable, Given, Differ
<1>6. Types'
  <2>1. table' = [u \in Tables |-> table'[u]]
    BY <1>1 DEF Becomes, ValueInv, Types
  <2> HIDE DEF x
  <2> QED
    BY <1>4, <1>5, <2>1 DEF ValueInv, Types
<1> HIDE DEF x
<1>7. \A u \in Tables : table'[u] # None => Given(table'[u]) /\ Differ(table'[u])
  BY <1>4, <1>5 DEF ValueInv
<1>8. ASSUME NEW c \in Conns PROVE New(c)'
  <2> SUFFICES ASSUME held[c] # None, held[c].id # 0 PROVE New(c)'
    BY DEF New
  <2>1. New(c) /\ held[c].tab \in Tables
    BY DEF ValueInv, Types, IsHeld
  <2> QED
    BY <2>1, <1>4, <1>5 DEF New
<1> QED
  BY <1>6, <1>7, <1>8 DEF ValueInv, Given, Differ

LEMMA TakePreserves ==
  ASSUME NoneIsNoTable, ValuesFromCounter, ValueInv,
         NEW c \in Conns, NEW t \in Tables, TakeId(c, t)
  PROVE  ValueInv'
<1>1. CASE table[t] # None
           /\ Becomes(t, [table[t] EXCEPT !.counter = @ + 1])
           /\ Holds(c, t, table[t].counter + 1)
  <2> DEFINE x == [table[t] EXCEPT !.counter = @ + 1]
  <2>1. IsTable(table[t]) /\ Given(table[t]) /\ Differ(table[t])
    BY <1>1 DEF ValueInv, Types
  <2>2. x = [schema |-> table[t].schema, rows |-> table[t].rows,
             counter |-> table[t].counter + 1]
    BY <2>1, TableChanges
  <2>3. \A u \in Tables : table'[u] = IF u = t THEN x ELSE table[u]
    BY <1>1 DEF Becomes, ValueInv, Types
  <2>4. table' = [u \in Tables |-> table'[u]]
    BY <1>1 DEF Becomes, ValueInv, Types
  <2>5. /\ x # None
        /\ x.rows = table[t].rows /\ x.counter = table[t].counter + 1
        /\ table[t].counter \in Nat /\ \A r \in x.rows : r.id \in Nat
        /\ IsTable(x) /\ Given(x) /\ Differ(x)
    BY ONLY <2>1, <2>2, NoneIsNoTable DEF NoneIsNoTable, IsTable, Given, Differ
  <2> HIDE DEF x
  <2>6. PICK n \in Serials : held' = [held EXCEPT ![c] =
                                [tab |-> t, id |-> table[t].counter + 1, nr |-> n]]
    BY <1>1 DEF Holds
  <2>7. /\ \A d \in Conns \ {c} : held'[d] = held[d]
        /\ held'[c] = [tab |-> t, id |-> table[t].counter + 1, nr |-> n]
        /\ held' = [d \in Conns |-> held'[d]]
    BY <2>6 DEF ValueInv, Types
  <2>8. Types'
    BY <2>3, <2>4, <2>5, <2>7 DEF ValueInv, Types, IsHeld
  <2>9. \A u \in Tables : table'[u] # None => Given(table'[u]) /\ Differ(table'[u])
    BY <2>3, <2>5 DEF ValueInv
  <2>10. New(c)'
    <3>1. ASSUME NEW d \in Conns \ {c}, held[d] # None, held[d].tab = t
          PROVE  held[d].id # table[t].counter + 1
      <4>1. New(d) /\ IsHeld(held[d])
        BY <3>1 DEF ValueInv, Types
      <4> QED
        BY <2>5, <3>1, <4>1 DEF New, IsHeld
    <3>2. \A r \in x.rows : r.id # table[t].counter + 1
      BY <2>1, <2>5 DEF Given
    <3> QED
      BY <2>3, <2>5, <2>7, <3>1, <3>2 DEF New
  <2>11. ASSUME NEW d \in Conns \ {c} PROVE New(d)'
    <3> SUFFICES ASSUME held[d] # None, held[d].id # 0 PROVE New(d)'
      BY <2>7 DEF New
    <3>1. New(d) /\ IsHeld(held[d])
      BY DEF ValueInv, Types
    <3>2. held[d].tab = t => held[d].id # table[t].counter + 1
      BY <2>5, <3>1 DEF New, IsHeld
    <3> QED
      BY <2>3, <2>5, <2>7, <3>1, <3>2 DEF New, IsHeld
  <2> QED
    BY <2>8, <2>9, <2>10, <2>11 DEF ValueInv, Given, Differ
<1>2. CASE UNCHANGED table /\ Holds(c, t, 0)
  <2>1. PICK n \in Serials : held' = [held EXCEPT ![c] = [tab |-> t, id |-> 0, nr |-> n]]
    BY <1>2 DEF Holds
  <2>2. /\ \A d \in Conns \ {c} : held'[d] = held[d]
        /\ held'[c] = [tab |-> t, id |-> 0, nr |-> n]
        /\ held' = [d \in Conns |-> held'[d]]
    BY <2>1 DEF ValueInv, Types
  <2>3. Types'
    BY <1>2, <2>2 DEF ValueInv, Types, IsHeld
  <2>4. New(c)'
    BY <2>2 DEF New
  <2>5. ASSUME NEW d \in Conns \ {c} PROVE New(d)'
    BY <1>2, <2>2 DEF ValueInv, New
  <2> QED
    BY <1>2, <2>3, <2>4, <2>5 DEF ValueInv, Given, Differ
<1> QED
  BY <1>1, <1>2 DEF TakeId, ValuesFromCounter, Numbered

LEMMA InsertPreserves ==
  ASSUME NoneIsNoTable, ValueInv, NEW c \in Conns, Insert(c)
  PROVE  ValueInv'
<1> DEFINE t == held[c].tab
           row == [id |-> held[c].id, nr |-> held[c].nr]
           at == IF table[t] = None THEN Bare ELSE table[t]
           x == [at EXCEPT !.rows = @ \cup {row}]
<1>1. held[c] # None /\ IsHeld(held[c]) /\ New(c) /\ t \in Tables
  BY DEF Insert, ValueInv, Types, IsHeld
<1>2. IsTable(at) /\ Given(at) /\ Differ(at) /\ (table[t] # None => at = table[t])
      /\ (table[t] = None => at.rows = {})
  BY <1>1, BareIsTable DEF ValueInv, Types, Bare
<1>3. x = [schema |-> at.schema, rows |-> at.rows \cup {row}, counter |-> at.counter]
  <2> HIDE DEF at, row
  <2> QED
    BY <1>2, TableChanges
<1>4. /\ \A u \in Tables : table'[u] = IF u = t THEN x ELSE table[u]
      /\ table' = [u \in Tables |-> table'[u]]
  BY DEF Insert, Becomes, ValueInv, Types
<1>5. /\ \A d \in Conns \ {c} : held'[d] = held[d]
      /\ held'[c] = None
      /\ held' = [d \in Conns |-> held'[d]]
  BY DEF Insert, ValueInv, Types
<1>6. row.id = held[c].id /\ row = [id |-> row.id, nr |-> row.nr] /\ row.id \in Nat
  BY <1>1 DEF IsHeld
<1>7. row.id # 0 => row.id <= at.counter /\ \A r \in at.rows : r.id # row.id
  BY <1>1, <1>2, <1>6 DEF New
<1> HIDE DEF x, at, row
<1>8. /\ x # None /\ x.counter = at.counter /\ x.rows = at.rows \cup {row}
      /\ IsTable(x) /\ Given(x) /\ Differ(x)
  BY ONLY <1>2, <1>3, <1>6, <1>7, NoneIsNoTable
     DEF NoneIsNoTable, IsTable, Given, Differ
<1>9. Types'
  BY <1>4, <1>5, <1>8 DEF ValueInv, Types
<1>10. \A u \in Tables : table'[u] # None => Given(table'[u]) /\ Differ(table'[u])
  BY <1>4, <1>8 DEF ValueInv
<1>11. ASSUME NEW d \in Conns PROVE New(d)'
  <2> SUFFICES ASSUME d # c, held[d] # None, held[d].id # 0 PROVE New(d)'
    BY <1>5 DEF New
  <2>1. New(d) /\ IsHeld(held[d])
    BY DEF ValueInv, Types
  <2>2. held[d].tab = t => held[d].id # row.id /\ at = table[t]
    BY <1>1, <1>2, <1>6, <2>1 DEF New
  <2> QED
    BY <1>4, <1>5, <1>8, <2>1, <2>2 DEF New, IsHeld
<1> QED
  BY <1>9, <1>10, <1>11 DEF ValueInv, Given, Differ

LEMMA StepPreserves ==
  ASSUME NoneIsNoTable, ValuesFromCounter, ValueInv, Step PROVE ValueInv'
BY DefinePreserves, DeletePreserves, TakePreserves, InsertPreserves DEF Step

\* For any tables, connections and statements, as long as the clients leave the
\* values to the server: two rows of a table have different values, whatever is
\* dropped, truncated, altered and renamed between the inserts (schema.go:
\* "NextAutoIncrement atomically increments and returns"; alter.go: a rename
\* "migrates any stored schema + auto-increment counter").
THEOREM PromiseKeepsValuesUnique ==
  NoneIsNoTable /\ ValuesFromCounter /\ Spec => [](intact => UniqueValues)
<1> DEFINE Inv == intact => ValueInv
<1>1. Init => Inv
  BY ValueInitial
<1>2. CASE NoneIsNoTable /\ ValuesFromCounter
  <2>1. Inv /\ [Next]_vars => Inv'
    <3> SUFFICES ASSUME Inv, [Next]_vars, intact' PROVE ValueInv'
      OBVIOUS
    <3>1. CASE Next
      BY <1>2, <3>1, StepPreserves DEF Next
    <3>2. CASE UNCHANGED vars
      BY <3>2 DEF vars, ValueInv, Types, New, Given, Differ
    <3> QED
      BY <3>1, <3>2
  <2>2. Inv => (intact => UniqueValues)
    BY DEF ValueInv, UniqueValues, Differ
  <2> QED
    BY <1>1, <2>1, <2>2, PTL DEF Spec
<1>3. CASE ~(NoneIsNoTable /\ ValuesFromCounter)
  BY <1>3
<1> QED
  BY <1>2, <1>3
=============================================================================
