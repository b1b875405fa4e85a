------------------------------ MODULE Catalog ------------------------------
(***************************************************************************)
(* The statements of mysql/ddl.go, mysql/alter.go and driver/driver.go     *)
(* that create, change, fill and remove tables, run by one goroutine per   *)
(* client connection over the shared schema store (module SchemaStore).    *)
(*                                                                         *)
(* A table is spread over five places, none of which is updated together   *)
(* with another: the MongoDB collection (colls, rows, phys), its document  *)
(* in _table_schemas (docs), its counter in _auto_increment (seq), the     *)
(* cache entry (cache) and the schema object other connections may hold    *)
(* (heap).  A handler is split into one action per MongoDB round trip;     *)
(* purely local code is part of the action before or after it.             *)
(***************************************************************************)
EXTENDS SchemaStore, Sequences

CONSTANTS
  Indexes,      \* the Items that are index definitions; the rest are columns
  AutoCol,      \* the AUTO_INCREMENT column
  Workload,     \* the statements the clients may send
  Serial,       \* TRUE: clients never overlap DDL on a table with other work
  MaxStmts,     \* bound: statements begun
  MaxRestarts,  \* bound: crashes of the server process
  MaxFaults     \* bound: failed MongoDB round trips

ASSUME ItemsAssumption == Indexes \subseteq Items /\ AutoCol \in Items \ Indexes
ASSUME SerialAssumption == Serial \in BOOLEAN
ASSUME BoundsAssumption == {MaxStmts, MaxRestarts, MaxFaults} \subseteq Nat

VARIABLES
  colls,     \* the collections that exist
  rows,      \* table -> its rows
  phys,      \* table -> the indexes that exist on the collection
  seq,       \* collection _auto_increment: table -> seq, 0 if no document
  conn,      \* connection -> the handler it is in
  begun,     \* statements begun so far; numbers the rows
  restarts,  \* crashes so far
  faults     \* failed round trips so far

collVars == <<colls, rows, phys>>
mongoVars == <<docs, colls, rows, phys, seq>>
budgets == <<begun, restarts, faults>>
vars == <<heap, cache, docs, call, colls, rows, phys, seq, conn,
          begun, restarts, faults>>

----------------------------------------------------------------------------
(* Statements, as the parsers hand them to the handlers.                   *)

AlterOption ==
       [op : {"add", "drop", "modify"}, item : Items \ Indexes]
  \cup [op : {"addIndex", "dropIndex"}, item : Indexes]
  \cup [op : {"rename"}, to : Tables]
IndexOption == [op : {"createIndex", "removeIndex"}, item : Indexes]
RenamePair == [op : {"rename"}, from : Tables, to : Tables]
DropName == [op : {"dropTable"}, tab : Tables]
Option == AlterOption \cup IndexOption \cup RenamePair \cup DropName

StatementOf(kinds, tabs, flags, opts, ids) ==
  [kind : kinds, tab : tabs, items : SUBSET Items, flag : flags, opts : opts,
   id : ids]

Statement ==
       StatementOf({"create"}, Tables, BOOLEAN, {<<>>}, {0})
  \cup StatementOf({"truncate", "update", "delete"}, Tables, {FALSE}, {<<>>}, {0})
  \cup StatementOf({"insert"}, Tables, {FALSE}, {<<>>}, Nat)
  \cup StatementOf({"alter"}, Tables, {FALSE}, Seq(AlterOption), {0})
  \cup StatementOf({"index"}, Tables, {FALSE}, {<<o>> : o \in IndexOption}, {0})
  \cup StatementOf({"rename"}, {None}, {FALSE}, Seq(RenamePair), {0})
  \cup StatementOf({"drop"}, {None}, BOOLEAN, Seq(DropName), {0})
  \cup StatementOf({"dropDatabase"}, {None}, {FALSE}, {<<>>}, {0})

ASSUME WorkloadAssumption == Workload \subseteq Statement /\ None \notin Workload

Stmt(kind, t, items, flag, opts, id) ==
  [kind |-> kind, tab |-> t, items |-> items, flag |-> flag, opts |-> opts,
   id |-> id]

\* flag: IF NOT EXISTS of CREATE TABLE, IF EXISTS of DROP TABLE
CreateTable(t, items, ifNotExists) ==
  Stmt("create", t, items, ifNotExists, <<>>, 0)
DropTable(t, ifExists) ==
  Stmt("drop", None, {}, ifExists, <<[op |-> "dropTable", tab |-> t]>>, 0)
DropDatabase == Stmt("dropDatabase", None, {}, FALSE, <<>>, 0)
Truncate(t) == Stmt("truncate", t, {}, FALSE, <<>>, 0)
AlterTable(t, opts) == Stmt("alter", t, {}, FALSE, opts, 0)
RenameTable(pairs) == Stmt("rename", None, {}, FALSE, pairs, 0)
CreateIndex(t, i) ==
  Stmt("index", t, {}, FALSE, <<[op |-> "createIndex", item |-> i]>>, 0)
DropIndex(t, i) ==
  Stmt("index", t, {}, FALSE, <<[op |-> "removeIndex", item |-> i]>>, 0)
Insert(t) == Stmt("insert", t, {}, FALSE, <<>>, 0)
InsertWithId(t, i) == Stmt("insert", t, {}, FALSE, <<>>, i)
Update(t) == Stmt("update", t, {}, FALSE, <<>>, 0)
Delete(t) == Stmt("delete", t, {}, FALSE, <<>>, 0)

AddItem(op, i) == [op |-> op, item |-> i]
RenameTo(to) == [op |-> "rename", to |-> to]
Pair(from, to) == [op |-> "rename", from |-> from, to |-> to]

IsDDL(s) == s.kind \notin {"insert", "update", "delete"}

TablesOf(s) ==
  CASE s.kind = "dropDatabase" -> Tables
    [] s.kind \in {"rename", "drop"} ->
         UNION {IF s.opts[k].op = "rename" THEN {s.opts[k].from, s.opts[k].to}
                                           ELSE {s.opts[k].tab}
                : k \in DOMAIN s.opts}
    [] OTHER ->
         {s.tab} \cup {s.opts[k].to : k \in {j \in DOMAIN s.opts :
                                               s.opts[j].op = "rename"}}

----------------------------------------------------------------------------
(* The state of a handler.                                                 *)

PCs == {"idle", "check", "create", "createIndexes", "truncate", "recreate",
        "dropDatabase", "start", "option", "load", "store", "dropCounter",
        "migrate", "dropOld", "findCounter", "setCounter", "deleteCounter",
        "applyDefaults", "insertMany", "updateMany", "deleteMany", "finish"}

Handler ==
  [pc : PCs, stmt : {None} \cup Workload, rest : Seq(Option),
   tab : {None} \cup Tables,   \* the table at hand
   ptr : {None} \cup Ptrs,     \* ALTER's schema variable
   seen : {None} \cup Listing, \* what an append or a removal starts from
   id : Nat,                   \* the id generated, or the counter being copied
   nr : Nat]                   \* serial number of the statement

Idle == [pc |-> "idle", stmt |-> None, rest |-> <<>>, tab |-> None,
         ptr |-> None, seen |-> None, id |-> 0, nr |-> 0]

Row == [id : Nat, nr : Nat]    \* id 0: the row has no AUTO_INCREMENT value

TypeOK ==
  /\ StoreTypeOK
  /\ colls \subseteq Tables
  /\ rows \in [Tables -> SUBSET Row]
  /\ phys \in [Tables -> SUBSET Indexes]
  /\ seq \in [Tables -> Nat]
  /\ conn \in [Conns -> Handler]
  /\ begun \in Nat /\ restarts \in Nat /\ faults \in Nat

Init ==
  /\ StoreInit
  /\ colls = {}
  /\ rows = [t \in Tables |-> {}]
  /\ phys = [t \in Tables |-> {}]
  /\ seq = [t \in Tables |-> 0]
  /\ conn = [c \in Conns |-> Idle]
  /\ begun = 0 /\ restarts = 0 /\ faults = 0

Running(c, pc) == conn[c].pc = pc /\ Returned(c)
Goto(c, pc) == conn' = [conn EXCEPT ![c].pc = pc]
Begins(c, op) == call' = [call EXCEPT ![c] = op]
Finish(c) == /\ conn' = [conn EXCEPT ![c] = Idle]
             /\ call' = [call EXCEPT ![c] = NoCall]

\* Addresses nothing refers to any more: the garbage collector's business.
Fresh == {p \in Ptrs : /\ \A t \in Tables : cache[t] # p
                       /\ \A c \in Conns : call[c].ptr # p /\ conn[c].ptr # p}

----------------------------------------------------------------------------
(* Dispatch: a connection sends its next statement.                        *)

FirstStep(s) ==
  CASE s.kind = "create" -> IF s.flag THEN "create" ELSE "check"
    [] s.kind = "truncate" -> "truncate"
    [] s.kind = "dropDatabase" -> "dropDatabase"
    [] s.kind = "alter" -> "start"
    [] s.kind \in {"index", "rename", "drop"} -> "option"
    [] s.kind = "insert" -> "applyDefaults"
    [] s.kind = "update" -> "updateMany"
    [] s.kind = "delete" -> "deleteMany"

\* ALTER TABLE, INSERT and UPDATE begin with Schemas.Get.
FirstCall(s) ==
  IF s.kind \in {"alter", "insert", "update"} THEN GetOf(s.tab) ELSE NoCall

Overlaps(s) ==
  \E d \in Conns : /\ conn[d].stmt # None
                   /\ TablesOf(conn[d].stmt) \cap TablesOf(s) # {}
                   /\ IsDDL(s) \/ IsDDL(conn[d].stmt)

Begin(c, s) ==
  /\ conn[c].pc = "idle"
  /\ begun < MaxStmts
  /\ Serial => ~Overlaps(s)
  /\ begun' = begun + 1
  /\ conn' = [conn EXCEPT ![c] =
                [pc |-> FirstStep(s), stmt |-> s, rest |-> s.opts,
                 tab |-> s.tab, ptr |-> None, seen |-> None, id |-> 0,
                 nr |-> begun + 1]]
  /\ Begins(c, FirstCall(s))
  /\ UNCHANGED <<heap, cache, mongoVars, restarts, faults>>

----------------------------------------------------------------------------
(* CREATE TABLE.                                                           *)

CheckExists(c) ==
  /\ Running(c, "check")
  /\ IF conn[c].tab \in colls
       THEN Finish(c)
       ELSE Goto(c, "create") /\ UNCHANGED call
  /\ UNCHANGED <<heap, cache, mongoVars, budgets>>

CreateFails(c) ==
  /\ Running(c, "create")
  /\ conn[c].tab \in colls
  /\ Finish(c)
  /\ UNCHANGED <<heap, cache, mongoVars, budgets>>

Lists(is) == [i \in Items |-> IF i \in is THEN 1 ELSE 0]

\* Variant: IF NOT EXISTS goes on with a collection that is already there.
CreateOverExisting(c, p) ==
  /\ Running(c, "create")
  /\ colls' = colls \cup {conn[c].tab}
  /\ Goto(c, "createIndexes")
  /\ heap' = [heap EXCEPT ![p] = [name |-> conn[c].tab,
                                  items |-> Lists(conn[c].stmt.items)]]
  /\ Begins(c, SaveOf(p))
  /\ UNCHANGED <<cache, docs, rows, phys, seq, budgets>>

\* A schema without columns (the fallback parser) is not stored.
CreateCollection(c, p) ==
  /\ Running(c, "create")
  /\ conn[c].tab \notin colls
  /\ colls' = colls \cup {conn[c].tab}
  /\ Goto(c, "createIndexes")
  /\ IF conn[c].stmt.items \subseteq Indexes
       THEN UNCHANGED <<heap, call>>
       ELSE /\ heap' = [heap EXCEPT ![p] = [name |-> conn[c].tab,
                                            items |-> Lists(conn[c].stmt.items)]]
            /\ Begins(c, SaveOf(p))
  /\ UNCHANGED <<cache, docs, rows, phys, seq, budgets>>

\* createIndexes: MongoDB creates a missing collection to index it.
Indexed(t, is) ==
  /\ phys' = [phys EXCEPT ![t] = @ \cup is]
  /\ colls' = IF is = {} THEN colls ELSE colls \cup {t}
  /\ UNCHANGED rows

CreateIndexes(c) ==
  /\ Running(c, "createIndexes")
  /\ Indexed(conn[c].tab, conn[c].stmt.items \cap Indexes)
  /\ Finish(c)
  /\ UNCHANGED <<heap, cache, docs, seq, budgets>>

----------------------------------------------------------------------------
(* TRUNCATE, DROP DATABASE.                                                *)

Dropped(t) ==
  /\ colls' = colls \ {t}
  /\ rows' = [rows EXCEPT ![t] = {}]
  /\ phys' = [phys EXCEPT ![t] = {}]

TruncateDrop(c) ==
  /\ Running(c, "truncate")
  /\ Dropped(conn[c].tab)
  /\ Goto(c, "recreate")
  /\ UNCHANGED <<heap, cache, docs, seq, call, budgets>>

TruncateCreate(c) ==
  /\ Running(c, "recreate")
  /\ colls' = colls \cup {conn[c].tab}
  /\ Finish(c)
  /\ UNCHANGED <<heap, cache, docs, rows, phys, seq, budgets>>

\* _table_schemas and _auto_increment go with the database; the cache stays.
DropWholeDatabase(c) ==
  /\ Running(c, "dropDatabase")
  /\ colls' = {}
  /\ rows' = [t \in Tables |-> {}]
  /\ phys' = [t \in Tables |-> {}]
  /\ docs' = [t \in Tables |-> None]
  /\ seq' = [t \in Tables |-> 0]
  /\ Finish(c)
  /\ UNCHANGED <<heap, cache, budgets>>

----------------------------------------------------------------------------
(* The option loop of ALTER TABLE, and the name and pair loops of DROP     *)
(* TABLE, RENAME TABLE, CREATE INDEX and DROP INDEX, which share its shape.*)

AtOption(c, op) ==
  /\ Running(c, "option")
  /\ conn[c].rest # <<>>
  /\ Head(conn[c].rest).op = op

Opt(c) == Head(conn[c].rest)

NextOption(c) == [conn[c] EXCEPT !.pc = "option", !.rest = Tail(@)]

\* Read the slice header of schema p, if there is a schema.
Loads(c, p) ==
  conn' = [conn EXCEPT ![c] =
             IF p = None THEN NextOption(c)
             ELSE [@ EXCEPT !.pc = "store", !.ptr = p,
                            !.seen = heap[p].items]]

Start(c) ==
  /\ Running(c, "start")
  /\ conn' = [conn EXCEPT ![c].pc = "option", ![c].ptr = call[c].ptr]
  /\ UNCHANGED <<heap, cache, call, mongoVars, budgets>>

AddColumn(c) ==
  /\ AtOption(c, "add")
  /\ Loads(c, conn[c].ptr)
  /\ UNCHANGED <<heap, cache, call, mongoVars, budgets>>

ModifyColumn(c) ==
  /\ AtOption(c, "modify")
  /\ Loads(c, conn[c].ptr)
  /\ UNCHANGED <<heap, cache, call, mongoVars, budgets>>

DropColumn(c) ==
  /\ AtOption(c, "drop")
  /\ rows' = [rows EXCEPT ![conn[c].tab] =
                IF Opt(c).item = AutoCol THEN {[r EXCEPT !.id = 0] : r \in @}
                                         ELSE @]
  /\ Loads(c, conn[c].ptr)
  /\ UNCHANGED <<heap, cache, call, docs, colls, phys, seq, budgets>>

AddIndex(c) ==
  /\ AtOption(c, "addIndex")
  /\ Indexed(conn[c].tab, {Opt(c).item})
  /\ Loads(c, conn[c].ptr)
  /\ UNCHANGED <<heap, cache, call, docs, seq, budgets>>

Unindexed(t, i) ==
  /\ phys' = [phys EXCEPT ![t] = @ \ {i}]
  /\ UNCHANGED <<colls, rows>>

\* Variant: only the schema forgets the index.
DropKeySchemaOnly(c) ==
  /\ AtOption(c, "dropIndex")
  /\ Loads(c, conn[c].ptr)
  /\ UNCHANGED <<heap, cache, call, mongoVars, budgets>>

DropKey(c) ==
  /\ AtOption(c, "dropIndex")
  /\ Unindexed(conn[c].tab, Opt(c).item)
  /\ Loads(c, conn[c].ptr)
  /\ UNCHANGED <<heap, cache, call, docs, seq, budgets>>

\* CREATE INDEX and DROP INDEX change the index first and then call Get.
IndexStatement(c) ==
  /\ \/ AtOption(c, "createIndex") /\ Indexed(conn[c].tab, {Opt(c).item})
     \/ AtOption(c, "removeIndex") /\ Unindexed(conn[c].tab, Opt(c).item)
  /\ Goto(c, "load")
  /\ Begins(c, GetOf(conn[c].tab))
  /\ UNCHANGED <<heap, cache, docs, seq, budgets>>

Load(c) ==
  /\ Running(c, "load")
  /\ Loads(c, call[c].ptr)
  /\ UNCHANGED <<heap, cache, call, mongoVars, budgets>>

\* append adds an entry, replaceColumn too if there is none; removeColumn and
\* removeIndex remove every entry of the name; the loop of handleDropIndex
\* stops at the first one.
Edited(listing, op, i) ==
  CASE \/ op \in {"add", "addIndex", "createIndex"}
       \/ op = "modify" /\ listing[i] = 0 -> [listing EXCEPT ![i] = @ + 1]
    [] op \in {"drop", "dropIndex"} -> [listing EXCEPT ![i] = 0]
    [] op = "removeIndex" /\ listing[i] > 0 -> [listing EXCEPT ![i] = @ - 1]
    [] OTHER -> listing

\* The edit is made in place, on the object the cache points to.
Store(c) ==
  /\ Running(c, "store")
  /\ heap' = [heap EXCEPT ![conn[c].ptr].items =
                Edited(conn[c].seen, Opt(c).op, Opt(c).item)]
  /\ conn' = [conn EXCEPT ![c] = NextOption(c)]
  /\ UNCHANGED <<cache, call, mongoVars, budgets>>

\* After the loop: Save, if there is a schema and an option has changed it.
EndOptions(c) ==
  /\ Running(c, "option")
  /\ conn[c].rest = <<>>
  /\ IF conn[c].ptr = None \/ conn[c].stmt.opts = <<>>
       THEN Finish(c)
       ELSE Goto(c, "finish") /\ Begins(c, SaveOf(conn[c].ptr))
  /\ UNCHANGED <<heap, cache, mongoVars, budgets>>

Finished(c) ==
  /\ Running(c, "finish")
  /\ Finish(c)
  /\ UNCHANGED <<heap, cache, mongoVars, budgets>>

----------------------------------------------------------------------------
(* DROP TABLE.                                                             *)

DropCollection(c) ==
  /\ AtOption(c, "dropTable")
  /\ Dropped(Opt(c).tab)
  /\ conn' = [conn EXCEPT ![c].pc = "dropCounter", ![c].tab = Opt(c).tab]
  /\ Begins(c, DeleteOf(Opt(c).tab))
  /\ UNCHANGED <<heap, cache, docs, seq, budgets>>

\* Variant: the counter is not cleaned up.
DropCounterKept(c) ==
  /\ Running(c, "dropCounter")
  /\ conn' = [conn EXCEPT ![c] = NextOption(c)]
  /\ UNCHANGED <<heap, cache, call, mongoVars, budgets>>

DropCounter(c) ==
  /\ Running(c, "dropCounter")
  /\ seq' = [seq EXCEPT ![conn[c].tab] = 0]
  /\ conn' = [conn EXCEPT ![c] = NextOption(c)]
  /\ UNCHANGED <<heap, cache, call, docs, collVars, budgets>>

----------------------------------------------------------------------------
(* renameCollection, for ALTER TABLE ... RENAME and RENAME TABLE.          *)

From(c) == IF conn[c].stmt.kind = "alter" THEN conn[c].tab ELSE Opt(c).from

RenameFails(c) ==
  /\ AtOption(c, "rename")
  /\ From(c) \notin colls \/ Opt(c).to \in colls
  /\ Finish(c)
  /\ UNCHANGED <<heap, cache, mongoVars, budgets>>

RenameCollection(c) ==
  /\ AtOption(c, "rename")
  /\ LET from == From(c)
         to == Opt(c).to
     IN  /\ from \in colls /\ to \notin colls
         /\ colls' = (colls \ {from}) \cup {to}
         /\ rows' = [rows EXCEPT ![to] = rows[from], ![from] = {}]
         /\ phys' = [phys EXCEPT ![to] = phys[from], ![from] = {}]
         /\ conn' = [conn EXCEPT ![c].pc = "migrate", ![c].tab = from]
         /\ Begins(c, GetOf(from))
  /\ UNCHANGED <<heap, cache, docs, seq, budgets>>

\* Variant: the schema is saved again before it has its new name.
MigrateNameKept(c) ==
  /\ Running(c, "migrate")
  /\ IF call[c].ptr = None
       THEN Goto(c, "findCounter") /\ UNCHANGED call
       ELSE Goto(c, "dropOld") /\ Begins(c, SaveOf(call[c].ptr))
  /\ UNCHANGED <<heap, cache, mongoVars, budgets>>

\* schema.TableName = to, on the cached object, before Save.
MigrateSchema(c) ==
  /\ Running(c, "migrate")
  /\ LET p == call[c].ptr
     IN  IF p = None
           THEN Goto(c, "findCounter") /\ UNCHANGED <<heap, call>>
           ELSE /\ heap' = [heap EXCEPT ![p].name = Opt(c).to]
                /\ Goto(c, "dropOld")
                /\ Begins(c, SaveOf(p))
  /\ UNCHANGED <<cache, mongoVars, budgets>>

\* Variant: the schema stays cached and stored under the old name too.
OldSchemaKept(c) ==
  /\ Running(c, "dropOld")
  /\ Goto(c, "findCounter")
  /\ UNCHANGED <<heap, cache, call, mongoVars, budgets>>

DropOldSchema(c) ==
  /\ Running(c, "dropOld")
  /\ Goto(c, "findCounter")
  /\ Begins(c, DeleteOf(conn[c].tab))
  /\ UNCHANGED <<heap, cache, mongoVars, budgets>>

\* ALTER goes on with the new name, in its own schema variable too.
Renamed(c) ==
  LET to == Opt(c).to
      p == conn[c].ptr
  IN  /\ conn' = [conn EXCEPT ![c] = [NextOption(c) EXCEPT !.tab = to,
                                                           !.id = 0]]
      /\ heap' = IF p = None THEN heap ELSE [heap EXCEPT ![p].name = to]

FindCounter(c) ==
  /\ Running(c, "findCounter")
  /\ IF seq[conn[c].tab] = 0
       THEN Renamed(c)
       ELSE /\ conn' = [conn EXCEPT ![c].pc = "setCounter",
                                    ![c].id = seq[conn[c].tab]]
            /\ UNCHANGED heap
  /\ UNCHANGED <<cache, call, mongoVars, budgets>>

\* Variant: the old counter is deleted without having been copied.
SetCounterLost(c) ==
  /\ Running(c, "setCounter")
  /\ Goto(c, "deleteCounter")
  /\ UNCHANGED <<heap, cache, call, mongoVars, budgets>>

SetCounter(c) ==
  /\ Running(c, "setCounter")
  /\ seq' = [seq EXCEPT ![Opt(c).to] = conn[c].id]
  /\ Goto(c, "deleteCounter")
  /\ UNCHANGED <<heap, cache, call, docs, collVars, budgets>>

DeleteCounter(c) ==
  /\ Running(c, "deleteCounter")
  /\ seq' = [seq EXCEPT ![conn[c].tab] = 0]
  /\ Renamed(c)
  /\ UNCHANGED <<cache, call, docs, collVars, budgets>>

----------------------------------------------------------------------------
(* INSERT, UPDATE, DELETE: driver.execInsert, execUpdate, execDelete.      *)

NeedsId(c) ==
  /\ call[c].ptr # None
  /\ heap[call[c].ptr].items[AutoCol] > 0
  /\ conn[c].stmt.id = 0

\* Variant: the next value is computed from the rows instead of a counter.
NextByCounting(c) ==
  /\ Running(c, "applyDefaults")
  /\ NeedsId(c)
  /\ conn' = [conn EXCEPT ![c].pc = "insertMany",
                          ![c].id = Cardinality(rows[conn[c].tab]) + 1]
  /\ UNCHANGED <<heap, cache, call, mongoVars, budgets>>

\* The counter is chosen by the schema's name, not by the INSERT's table.
NextAutoIncrement(c) ==
  /\ Running(c, "applyDefaults")
  /\ NeedsId(c)
  /\ LET t == heap[call[c].ptr].name
     IN  /\ seq' = [seq EXCEPT ![t] = @ + 1]
         /\ conn' = [conn EXCEPT ![c].pc = "insertMany", ![c].id = seq[t] + 1]
  /\ UNCHANGED <<heap, cache, call, docs, collVars, budgets>>

NoAutoIncrement(c) ==
  /\ Running(c, "applyDefaults")
  /\ ~NeedsId(c)
  /\ conn' = [conn EXCEPT ![c].pc = "insertMany", ![c].id = conn[c].stmt.id]
  /\ UNCHANGED <<heap, cache, call, mongoVars, budgets>>

InsertMany(c) ==
  /\ Running(c, "insertMany")
  /\ colls' = colls \cup {conn[c].tab}
  /\ rows' = [rows EXCEPT ![conn[c].tab] =
                @ \cup {[id |-> conn[c].id, nr |-> conn[c].nr]}]
  /\ Finish(c)
  /\ UNCHANGED <<heap, cache, docs, phys, seq, budgets>>

\* ApplyOnUpdate only adds timestamps, which rows do not carry.
UpdateMany(c) ==
  /\ Running(c, "updateMany")
  /\ Finish(c)
  /\ UNCHANGED <<heap, cache, mongoVars, budgets>>

DeleteMany(c) ==
  /\ Running(c, "deleteMany")
  /\ \E matched \in SUBSET rows[conn[c].tab] :
       rows' = [rows EXCEPT ![conn[c].tab] = @ \ matched]
  /\ Finish(c)
  /\ UNCHANGED <<heap, cache, docs, colls, phys, seq, budgets>>

----------------------------------------------------------------------------
(* What goes wrong around the handlers.                                    *)

\* The process stops and is started again: memory is lost, MongoDB is not.
Restart ==
  /\ restarts < MaxRestarts
  /\ restarts' = restarts + 1
  /\ heap' = [p \in Ptrs |-> None]
  /\ cache' = [t \in Tables |-> None]
  /\ call' = [c \in Conns |-> NoCall]
  /\ conn' = [c \in Conns |-> Idle]
  /\ UNCHANGED <<mongoVars, begun, faults>>

\* A round trip fails and changes nothing: the handler's error paths.
AbortsOnError == {"create", "insertMany", "updateMany", "deleteMany",
                  "truncate", "recreate", "dropDatabase", "createIndexes"}

HandlerFault(c) ==
  /\ Returned(c)
  /\ \/ /\ \/ conn[c].pc \in AbortsOnError
           \/ conn[c].pc = "applyDefaults" /\ NeedsId(c)
           \/ AtOption(c, "rename")
           \/ AtOption(c, "dropTable") /\ ~conn[c].stmt.flag
        /\ Finish(c)
        /\ UNCHANGED heap
     \/ /\ conn[c].pc = "check"
        /\ Goto(c, "create")
        /\ UNCHANGED <<heap, call>>
     \/ /\ \/ conn[c].pc = "dropCounter"
           \/ AtOption(c, "dropTable") /\ conn[c].stmt.flag
        /\ conn' = [conn EXCEPT ![c] = NextOption(c)]
        /\ UNCHANGED <<heap, call>>
     \/ /\ \E op \in {"drop", "addIndex", "dropIndex"} : AtOption(c, op)
        /\ Loads(c, conn[c].ptr)
        /\ UNCHANGED <<heap, call>>
     \/ /\ \E op \in {"createIndex", "removeIndex"} : AtOption(c, op)
        /\ Goto(c, "load")
        /\ Begins(c, GetOf(conn[c].tab))
        /\ UNCHANGED heap
     \/ /\ conn[c].pc = "setCounter"
        /\ Goto(c, "deleteCounter")
        /\ UNCHANGED <<heap, call>>
     \/ /\ conn[c].pc \in {"findCounter", "deleteCounter"}
        /\ Renamed(c)
        /\ UNCHANGED call
  /\ UNCHANGED <<cache, mongoVars>>

Fault(c) ==
  /\ faults < MaxFaults
  /\ faults' = faults + 1
  /\ \/ HandlerFault(c)
     \/ StoreFault(c) /\ UNCHANGED <<colls, rows, phys, seq, conn>>
  /\ UNCHANGED <<begun, restarts>>

----------------------------------------------------------------------------
(* The next-state relation.                                                *)

CallStep(c) ==
  /\ StoreStep(c, Fresh)
  /\ UNCHANGED <<colls, rows, phys, seq, conn, budgets>>

Handle(c) ==
  \/ CheckExists(c)
  \/ CreateFails(c)
  \/ \E p \in Fresh : CreateCollection(c, p)
  \/ CreateIndexes(c)
  \/ TruncateDrop(c)
  \/ TruncateCreate(c)
  \/ DropWholeDatabase(c)
  \/ Start(c)
  \/ AddColumn(c)
  \/ ModifyColumn(c)
  \/ DropColumn(c)
  \/ AddIndex(c)
  \/ DropKey(c)
  \/ IndexStatement(c)
  \/ Load(c)
  \/ Store(c)
  \/ EndOptions(c)
  \/ Finished(c)
  \/ DropCollection(c)
  \/ DropCounter(c)
  \/ RenameFails(c)
  \/ RenameCollection(c)
  \/ MigrateSchema(c)
  \/ DropOldSchema(c)
  \/ FindCounter(c)
  \/ SetCounter(c)
  \/ DeleteCounter(c)
  \/ NextAutoIncrement(c)
  \/ NoAutoIncrement(c)
  \/ InsertMany(c)
  \/ UpdateMany(c)
  \/ DeleteMany(c)

\* The clients may have nothing more to send; a handler may not get stuck.
Quiet ==
  /\ \A c \in Conns : conn[c].pc = "idle"
  /\ UNCHANGED vars

Next ==
  \/ \E c \in Conns, s \in Workload : Begin(c, s)
  \/ \E c \in Conns : CallStep(c)
  \/ \E c \in Conns : Handle(c)
  \/ \E c \in Conns : Fault(c)
  \/ Restart
  \/ Quiet

Spec == Init /\ [][Next]_vars
----------------------------------------------------------------------------
(* Properties.                                                             *)

\* What the cache holds for a table is what _table_schemas holds for it
\* (schema.go: "Save persists a table schema to MongoDB and caches it", "Get
\* retrieves a table schema, first from cache then from MongoDB").
CoherentOn(t) ==
  cache[t] # None => heap[cache[t]] = [name |-> t, items |-> docs[t]]

\* The cache agrees with MongoDB in EVERY state, fills and saves in flight
\* included.  Holds as long as no statement changes or removes a schema.
CacheCoherent == \A t \in Tables : CoherentOn(t)

\* handleCreateTable checks first and creates later, but of several
\* connections that create a table only one gets to store its schema.
OneCreator ==
  \A c, d \in Conns :
    /\ conn[c].pc = "createIndexes"
    /\ conn[d].pc = "createIndexes"
    /\ conn[c].tab = conn[d].tab
    => c = d

\* No two rows of a table got the same AUTO_INCREMENT value
\* (schema.go: "NextAutoIncrement atomically increments and returns").
UniqueIds ==
  \A t \in Tables : \A r, s \in rows[t] : r.id = s.id /\ r.id # 0 => r = s

\* No round trip has failed and no process has ended half-way.
Uninterrupted == restarts = 0 /\ faults = 0

\* The same, as far as RENAME TABLE keeps it: between two DDL statements a table
\* and its counter go together unless a rename was interrupted (alter.go:
\* "migrates any stored schema + auto-increment counter to the new table name").
IdsStayUnique == Uninterrupted => UniqueIds

\* t is not in the hands of a statement that changes tables.
Settled(t) ==
  \A c \in Conns : conn[c].stmt # None /\ IsDDL(conn[c].stmt)
                   => t \notin TablesOf(conn[c].stmt)

\* Between two DDL statements the cache agrees with MongoDB, whatever they did,
\* whichever connection did it and wherever the process ended meanwhile.
SettledCoherent == \A t \in Tables : Settled(t) => CoherentOn(t)

\* Between two DDL statements no schema and no counter is left behind for a
\* table that is gone: DROP TABLE and RENAME take both along
\* (ddl.go: "Clean up schema and auto_increment counter"; alter.go: "migrates
\* any stored schema + auto-increment counter to the new table name").
NothingLeftBehind ==
  Uninterrupted =>
    \A t \in Tables :
      Settled(t) /\ t \notin colls => docs[t] = None /\ seq[t] = 0

\* Between two DDL statements the indexes a schema lists are those that exist.
IndexesAgree ==
  Uninterrupted =>
    \A t \in Tables :
      Settled(t) /\ docs[t] # None
      => phys[t] = {i \in Indexes : docs[t][i] > 0}

\* A cached schema carries the name it is cached under: ApplyDefaults takes the
\* counter of the name in the schema, not of the table it is inserting into.
NamesAgree ==
  \A t \in Tables :
    Settled(t) /\ cache[t] # None => heap[cache[t]].name = t

\* Once every handler has returned, a table whose schema document is gone is
\* not cached either (schema.go: "Delete removes a table schema from both cache
\* and MongoDB").
DeletedIsGone ==
  (\A c \in Conns : conn[c].pc = "idle")
    => \A t \in Tables : docs[t] = None => cache[t] = None
=============================================================================
