# mongosql in TLA+

mongosql speaks the MySQL protocol to clients, translates their SQL to MongoDB
operations and runs these. This directory holds TLA+ models of the program, the
TLC runs that check them on small instances, and theorems about them that the
TLA+ proof system checks for every instance.

Run things from this directory:

    tlc -workers 2 -config Static.cfg MCCatalog     # a model-checking run
    tlapm WhereProofs.tla                           # a module's proofs

## 1. The system

One process. `mysql/main.go` accepts connections and starts one goroutine for
each; they all share one `driver.Driver`, and through it one `SchemaStore`.

| Part | Source | State | Operations |
|---|---|---|---|
| Server | `mysql/main.go` | listener, `activeConns`, wait group | accept, serve, shut down |
| Session | `mysql/handler.go` | `currentDB` per connection; `db` of the shared driver | `UseDB`, `HandleQuery` |
| Metadata queries | `mysql/meta.go` | none | dispatch by the text of the query; `SHOW`, `DESCRIBE`, `SET` and system SELECTs answered from MongoDB or from constants |
| DDL | `mysql/ddl.go`, `mysql/alter.go` | locals of the handler; collections, `_table_schemas` and `_auto_increment` in MongoDB | CREATE, ALTER, RENAME, TRUNCATE, DROP TABLE, CREATE/DROP INDEX, DROP DATABASE |
| Schema store | `driver/schema.go` | `cache` (under `mu`), the schema objects it points to | `Get`, `Save`, `Delete`, `NextAutoIncrement`, `ApplyDefaults`, `ApplyOnUpdate` |
| Driver | `driver/driver.go` | `client`, `db` | `Exec`: find, aggregate, insert, update, delete, insert-select |
| Translator | `translator/` | none | SQL text to a statement: `plan` and `sel` for SELECT, `write` for the rest, `expr` for expressions |
| Results | `mysql/result.go` | none | encoding of rows |

How they interact: a connection's goroutine calls its handler, the handler
calls the driver (DML) or does its own round trips (DDL), both call the schema
store. There are no messages between goroutines; everything they share is the
driver's `db`, the cache, the schema objects **behind the cached pointers**,
and MongoDB itself. The mutex of the store guards the map only: it is not held
across a round trip, and not while a schema object is read or edited.

What is hard here:

* A table lives in five places: collection, schema document, counter document,
  cache entry, schema object. Every handler changes several of them, one round
  trip after another, with other connections, failed round trips (network, the
  30 s deadline) and the end of the process in between.
* The cache hands out pointers and ALTER and RENAME edit through them, so
  changes are visible to others before they are stored, or though they never
  are.
* Most errors of the cleanup steps are logged or dropped, and the handler goes
  on.

What makes each part correct: the store, that the cache agrees with MongoDB;
the DDL handlers, that a table's five places agree once a statement is done,
and that a name can be used again as if it were new; AUTO_INCREMENT, that no
table gets a value twice; sessions, that a connection's statements run in the
database it selected; the server, that shutdown terminates; the translator,
that the rows selected are the rows SQL selects.

`PROJECT.json` lists each component with what is modelled of it, every hazard
at its line with the properties that cover it, and the source lines of every
definition.

## 2. The modules

    SchemaStore          the store: Get, Save, Delete
      Catalog            DDL and DML handlers over the store
        CatalogRefinement  Catalog read as AtomicCatalog
          MCCatalog        instances for TLC
        CatalogProofs    type correctness; the cache and AUTO_INCREMENT, whatever
                         overlaps, under smaller workloads
          SerialProofs     names, cache, ids, leftovers and indexes between DDL
                           statements
            RefinementProofs  Catalog implements AtomicCatalog (with
                              CatalogRefinement)
    AtomicCatalog        what the handlers promise: a table is one thing
      AtomicProofs       AUTO_INCREMENT, as promised
    Server               accept loop, workers, shutdown
      ServerProofs
    Session              USE and the database of the shared driver
      SessionProofs
    Dispatch             from the text of a query to the part that answers it
      MCDispatch
      DispatchProofs     comments change no token, each text goes where its
                         tokens call for, splitTopLevel counts the
                         expressions, for every text
    Where                conditions: SQL to filters and expressions
      MCWhere
      WhereProofs        both against SQL, for every condition
    Joins                FROM: sources, joins, $lookup
      Select             SELECT and INSERT ... SELECT
        MCSelect
    Expressions          value expressions, computed here and by MongoDB
      Update             INSERT ... VALUES and UPDATE
        MCUpdate

Catalog is the composition of the store with the handlers that call it. The
others share no state with it that their properties need: Server does not look
into statements, Session reduces them to the databases their round trips reach,
Dispatch to their text, and Where, Select and Update are the translator, which
has no state, with the driver and MongoDB behind it.

Where the program answers differently from MySQL, a condition whose name ends
in `Supported` (in Dispatch: `PlainHead`, `PlainSelect`) says for which
statements it does not. Each conjunct names one difference, and section 3 lists
them: the properties are about everything else.

### SchemaStore

`cache` and `docs` are the two maps, `heap` the schema objects; `call[c]` is the
call connection `c` is in. One action per round trip or critical section:
`Lookup`, `FindMissing`/`FindDocument`, `Fill` are `Get`; `Upsert`, `Publish`
are `Save`; `Evict`, `Erase` are `Delete`. `StoreFault` is a round trip that
fails. A schema is abstracted to its name and how often it lists each column
and index (`Listing`): nothing in the code looks for a name already listed, so
the count matters, the order does not.

### Catalog

`conn[c]` is the handler a connection is in: its program counter, statement,
options still to do and the locals that outlive a round trip. MongoDB is
`colls`, `rows`, `phys` (indexes that exist), `docs` and `seq`. There is one
action per round trip, each with the local code around it:

| Handler | Actions, in order |
|---|---|
| `handleCreateTable` | `CheckExists`, `CreateCollection`/`CreateFails`, (Save), `CreateIndexes` |
| `handleTruncate` | `TruncateDrop`, `TruncateCreate` |
| `handleDropTable` | per name: `DropCollection`, (Delete), `DropCounter` |
| `handleDropDatabase` | `DropWholeDatabase` |
| `handleCreateIndex`, `handleDropIndex` | `IndexStatement`, (Get), `Load`, `Store`, (Save), `Finished` |
| `handleAlterTable` | (Get), `Start`, per option `AddColumn`, `DropColumn`, `ModifyColumn`, `AddIndex`, `DropKey` followed by `Store`, or a rename; `EndOptions`, (Save), `Finished` |
| `renameCollection` | `RenameCollection`/`RenameFails`, (Get), `MigrateSchema`, (Save), `DropOldSchema`, (Delete), `FindCounter`, `SetCounter`, `DeleteCounter` |
| `execInsert` | (Get), `NextAutoIncrement`/`NoAutoIncrement`, `InsertMany` |
| `execUpdate`, `execDelete` | (Get), `UpdateMany`; `DeleteMany` |

`Load`/`Store` split `schema.Columns = append(schema.Columns, ...)` into the
read of the old slice and the write of the new one, because two goroutines can
do it at the same time. `HandlerFault` is each handler's error path: which
errors abort the statement, which are dropped and lead on. `Restart` is the end
of the process and a new one: memory is lost, MongoDB keeps what it has.

What Catalog leaves out, on purpose:

* One database. What `USE` does to a running statement is Session's subject;
  statements that name another database (`DROP TABLE other.t`) are left out.
* A failing round trip changes nothing. A round trip whose answer is lost after
  it took effect is not modelled.
* All indexes of a CREATE TABLE are created in one step, although they are
  separate round trips; unique indexes are not enforced on rows.
* INSERT has one row; rows carry their AUTO_INCREMENT value and nothing else,
  so defaults, ON UPDATE timestamps (they are in Update) and the backfill of ADD
  COLUMN, which change other columns only, do not show.
* The order of columns, and what a Go data race on a slice may show besides the
  old and the new value.
* CHANGE COLUMN, see "Not modelled".

### AtomicCatalog and CatalogRefinement

AtomicCatalog is the catalog as a client sees it: `table[t]` is nothing or a
schema, rows and a counter, and CREATE, DROP, TRUNCATE and RENAME change it in
one step. Three statements keep several: the options of an ALTER TABLE take
effect one after the other (`Alter`); dropping the AUTO_INCREMENT column empties
it in the rows before the schema says so (`ForgetIds`); and INSERT first takes
the next value of the table's counter, exactly if the schema has an
AUTO_INCREMENT column and the statement gives none (`TakeId`), and adds the row
later (`Insert`). Once a round trip or the process has failed, `intact` is FALSE
and nothing is promised.

CatalogRefinement reads Catalog as AtomicCatalog (`INSTANCE ... WITH`) and says
in which place a table is to be looked for at each point of a handler:

* a table being renamed has its schema and its counter under the old name until
  each has been stored under the new one (`Home`, `BringsSchema`,
  `BringsCounter`);
* a created table has its schema from the moment its collection is there
  (`Creates`);
* the schema of a table being altered is the object the handler edits, which is
  stored at the end (`Edits`);
* a table that TRUNCATE has dropped is still there (`Recreates`, `Exists`).

`ImplementsAtomic` is the abstract specification as a property: of the run
serial for TLC, of every `Serial` and `Orderly` instance for the prover.

### Server

The goroutines of `main.go` as program counters: `main` (`Accept`,
`AcceptFails`, `Register`, `Add`, `Spawn`, `Exit`), the `closer` that a signal
wakes (`CloseListener`, `LockTable`, `CloseConn` once per table entry,
`UnlockTable`) and one `worker` for each connection (`ReadCommand`, `Answer`,
`ReadFails`, `Rejected`, then the deferred `CloseOwn`, `Forget`, `Done`). The
closer holds `mu` over its loop, so workers and main wait for it; a section that
is a single map operation is one step. `net[c]` is the TCP state clients and the
server change.

Left out: what a command does, TLS and authentication (a refused handshake is
`Rejected`), and the 30 s deadline of a statement, which is why every `Answer`
comes at last.

### Session

`currentDB[c]` is the handler's, `db` the shared driver's. A statement is the
sequence of its round trips, each of which works in a handle taken when the
statement began (`"handle"`) or in `Driver.db` read again (`"driver"`):
`Insert` is Get, the counter, InsertMany. `touched[c]` collects the databases a
statement worked in. `Explicit` and `Agree` are what the clients do, not what
the code checks.

### Where

`TranslateWhere` and `negateWhere` of `expr.go` call each other, so
`Translation[e]` is the pair of what they make of `e`; `TranslateComparison`,
`NegateComparison`, `TranslateBetween` and `TranslateIs` are their cases.
`AggExpr` is `toAggExprInner` of `agg_expr.go`. `FieldMatches` and `Compares`
are MongoDB's side and external. `SqlTruth` is SQL's three-valued reading. The
actions only bring these together: a condition arrives, and selects documents
(`Find`) or decides a CASE (`Case`).

A filter is the set of documents it selects, so `$and`, `$or` and `$nor` are
intersection, union and complement. The functions recurse over a constant set
`Conditions`, which holds the parts of its members, each at a smaller `Depth`
(`ConditionsAssumption`: a parse tree is finite); that is what makes them
something to prove about.

A text is put in an aggregation expression as it is (`LiteralValue`, without
`$literal`), where MongoDB reads one that begins with `$` as a field path:
`Names` says which texts do, and which column each of them names, and `Embedded`
is what becomes of a value there. This concerns a CASE, and in a WHERE the
comparisons that are not column OP literal, which become a `$expr`. `NoPaths[e]`
says of a condition that none of its values is such a text, in a WHERE
(`FALSE`) or in a CASE (`TRUE`). `NothingLost`, `NothingFalse` and
`CaseFollowsSql` are about those conditions; `PathText.cfg` is the counterexample
without it. `PlainIsExact` needs no such exception, because plain conditions put
nothing in an expression.

Abstractions: a column has a type and is compared with values of it; a pattern
is the set of strings it matches; what is refused with an error is left out;
two numbers and four strings suffice for TLC because the translation only
distinguishes less, equal, greater, NULL and missing, and MongoDB the texts that
name a column, that name none, and others.

Left out: comparisons of values of two types, what Expressions has, and the texts
`$` and `$$...`, at which MongoDB may fail. SQL's texts are compared case
sensitively, as MongoDB compares them; `expr.go:1050` takes MySQL's default
collation to be case insensitive and makes LIKE so, but not `=`, `<` or IN. This
difference is in no model.

### Joins and Select

`FromPlan` is `extractFromPlan`, `LookupStages` the stages that become of its
joins; `SqlFrom` is SQL's reading of FROM. In a document of a joined row the
fields of the main table are at the top and those of the others inside a
document of their table's name, so a name is a column or a pair of table and
column, and `Path` is what becomes of it.

`Render` is `sel.Plan` and `sel.Render`, with `BuildFind` and `BuildAggregate`;
`InsertSelect` is the function of `write.go`; `ExecFind`, `ExecAggregate` and
`ExecInsertSelect` are the driver's, `Reply` and `CollectColumns` those of
`result.go`. A pipeline is a sequence of stages as the code builds it; the
`$project` behind `$group` and the `$facet` around both are one stage with it.
`Stage` and `Outcomes` are MongoDB's side and external.

A pipeline has a **set** of outcomes: rows that compare equal, groups and the
keys of a `$sort` document, which is a Go map, come in any order.
`SqlAnswers` is the set of answers SQL allows, and `SelectIsSql` says that the
program's answer is one of them for every statement that is `Supported`.

Left out: AVG, `_id`, expressions other than column + 1 (Expressions has them),
conditions other than column > n (Where has them), OR and arithmetic in ON.

### Expressions and Update

One expression has three meanings: `Value` and `EvalConst`, what the translator
computes itself if no column occurs in it; `ToAggExpr`, what MongoDB computes
from its translation for a document; and `Sql`. A refused expression, a panic
and an error of MongoDB are values too. CAST and CONVERT have a type, SIGNED or
CHAR, to which `Sql` converts and at which the code does not look: the properties
of the run update are about arguments that have the type already (`HasType`), and
`Cast.cfg` shows the others. Update puts them to work: `Translate` is
`write.Insert` or `write.Update`, which turns the whole SET into a pipeline as
soon as one assignment reads a column, `ExecUpdate` adds the ON UPDATE columns,
and `UpdateNext` is MongoDB updating one document, or failing at it and leaving
those before it changed.

Abstractions: numbers are exact fractions of the types int64 and float64, so
neither overflow nor rounding of floats occurs; strings are short and of
one-byte letters, and none spells a number. UPDATE has no WHERE.

### Dispatch

A query is a sequence of symbols: characters that matter to comments, quotes and
parentheses, and words the code looks for. `HandleQuery` takes comments, blanks
and semicolons away, `HandleMeta` chooses who answers (`Route`), `SystemSelect`
splits the list of a SELECT it answers itself. `Tokens` and `SqlRoute` are SQL's
reading of the same text. What a loop over the text computes is a function of the
text that is left (`Stripped`, `FromSeen`, `Separators`). `Queries` is what clients
send. Of statements that are recognised in the same way
there is one: SET for those that are only acknowledged, DROP TABLE for DDL.

## 3. The runs

| Run | Question | Result |
|---|---|---|
| static | Do cache and MongoDB agree in every state if schemas are only created and read, failed round trips and crashes included? Can two CREATE TABLEs both win? | `TypeOK`, `CacheCoherent`, `OneCreator` hold |
| evolving | Are ids unique while the table is altered, indexed, truncated and filled at once? | `UniqueIds` holds |
| serial | Do a table's five places agree between DDL statements? And if the process ends in between? Do the handlers implement a catalog in which every statement is one step? | `NothingLeftBehind`, `IndexesAgree`, `IdsStayUnique` and `ImplementsAtomic` hold without, `SettledCoherent` also with it |
| faulty | And with a failed round trip and a crash, TRUNCATE and DROP DATABASE? | `NamesAgree` holds |
| server | Is a statement cut off, a connection leaked or missed, and does shutdown end? | `TypeOK`, `NoStatementCut`, `TableIsExact`, `AtMostOneMissed`, `ShutdownUnlessMissed`, `ShutdownIfClientsLeave` hold |
| session | If clients select a database first, and the same one, does each statement work in it? | `TypeOK`, `OwnDatabase` hold |
| where | Which rows does a translated condition select that SQL does not, and the reverse? | `NothingLost`, `NothingFalse`, `PlainIsExact`, `CaseFollowsSql` hold |
| select | Is the answer to a supported SELECT, over one table or joined ones, one of SQL's, and is that what INSERT ... SELECT inserts? | `SelectIsSql`, `InsertIsSql` hold |
| update | Does an UPDATE or INSERT of supported expressions store what MySQL stores, whoever computes it? | `UpdateIsSql`, `ValuesAreSql` hold |
| dispatch | Does a text go to the part its tokens call for, whatever comments, quotes and blanks are in it? | `CommentsAreBlanks`, `RoutedByTokens`, `OneColumnEach` hold |
| rename_race | renameCollection "migrates any stored schema + auto-increment counter" | `UniqueIds` fails: INSERTs between the steps |
| shared_database | the handler "tracks the currently selected database" of its connection | `OwnDatabase` fails: USE moves every connection |

The last two are findings; `PROJECT.json` quotes the line of the repository
each one contradicts. Every property of the others is also checked to fail for a
plausible mistake in the code (`mutants`). The longest runs, serial, evolving and
faulty, take two to four minutes each, select about one, the others seconds.

### Bounds

* Catalog: two connections, two tables, one AUTO_INCREMENT column, one other
  column, one index, four addresses. Two connections are enough for every race
  of a pair of handlers; two tables are what RENAME needs; four addresses always
  leave a fresh one for two connections and two cache entries. `MaxStmts`
  (4 or 5) bounds the statements of a behaviour: five are create, fill, rename,
  create again, fill again. `MaxFaults` and `MaxRestarts` are at most 1.
* `Serial` (serial, faulty): a DDL statement does not overlap other statements
  on the tables it names. The code does not enforce this, it is how migrations
  are usually run, and a user of the program has to ensure it: rename_race shows
  what happens without.
* Server: three connections: one served, one in the hands of main, one queued.
  Each connects once, which makes the space finite.
* Session: two connections, two databases, seven steps: two connections, a USE
  of each, a statement of each overlapping, and a USE in between.
* serial: the workload of DDL statements, INSERT and DELETE. The rows an INSERT is
  about to add are numbered by the statements begun, so `Serials` is
  `1..MaxStmts`.
* Where: four columns, two numbers, four strings (one names a column, one begins
  with `$` and names none), every leaf, its single and
  double negation, and AND, OR, NOT over one leaf of each kind. Deeper conditions
  are WhereProofs' part.
* Select: about 3300 statements. Alone, a table has two columns and up to three
  rows, which gives groups of one and of two rows, ties, and a page that has rows
  before and behind it. Joins have two tables of up to two rows and a third of
  up to one, with a column of the same name in two tables, and fields that are
  missing: rows with no partner, one and two, on either side.
* Update: about 3800 statements over one and two rows: each operator with every
  combination of a column, 0, positive, negative and fractional numbers, NULL, or
  the empty, a shorter and a longer text; each pair of operators one inside the
  other; and lists of two and three assignments. An operator is translated
  without looking further into its arguments than whether they have a column.
* Dispatch: every text of up to four symbols behind a few beginnings. Four
  symbols open, fill and close a comment or a quoted text; the beginnings bring
  what would need more. Longer texts are DispatchProofs' part.
* Where, Select, Update and Dispatch have no deadlock to look for: a statement
  is translated, run and done (`CHECK_DEADLOCK FALSE` in their configurations).

### Fairness

Only Server has it: weak fairness of main, of the closer and of each worker,
because the Go runtime runs every goroutine that can run, and a lock that stays
free is taken. `ReadCommand`, clients and the signal are not fair. That clients
leave some day is a hypothesis inside `ShutdownIfClientsLeave`, not part of the
specification. Without it, `ShutdownUnlessMissed` says that the process ends
unless the closer has missed a connection, and `AtMostOneMissed` that this can
be one only.

There are no liveness properties about Catalog: a handler takes its steps
whenever MongoDB answers, and each round trip ends by the 30 s deadline. TLC
checks for deadlock: a handler always has a next step (`Quiet` lets clients stop
sending, and only with every connection idle).

### Known differences

What does not hold, found while modelling. The configurations named here are
kept beside the runs; each ends in a counterexample.

| Where | What | Configuration |
|---|---|---|
| `driver/schema.go:86` | A Get in flight fills the cache after Delete: the dropped table's schema stays | `DropRace.cfg` (MCCatalog) |
| `mysql/alter.go:314` | A failed copy of the counter is followed by its deletion | `RenameFault.cfg` (MCCatalog) |
| `mysql/ddl.go:393` | TRUNCATE drops the indexes the schema goes on listing | `TruncateIndexes.cfg` (MCCatalog) |
| `mysql/ddl.go:281` | An index created twice is listed twice and removed once | `IndexTwice.cfg` (MCCatalog) |
| `mysql/alter.go:54` | A failed ALTER leaves its columns in the cache | `FailedAlter.cfg` (MCCatalog) |
| `mysql/ddl.go:422` | DROP DATABASE leaves the cache as it is | |
| `mysql/ddl.go:70` | A schema that cannot be saved is only logged: the table stays without one | |
| `mysql/main.go:91` | A connection accepted while the closer walks the table is closed by nobody | `RudeClient.cfg` (Server) |
| `mysql/handler.go:28` | A new client is told it is in the default database and works in the last one selected by any other | `DefaultDatabase.cfg` (Session) |
| `expr.go:896` | NOT (a IN (1)) becomes `$nin`, which selects rows where a is NULL; the comment at 831-833 says they are excluded | `NotUnknown.cfg` (MCWhere) |
| `agg_expr.go:102` | A text that begins with `$` is a field path in an expression: in every comparison, list and bound of a CASE, and in a WHERE in comparisons other than column OP literal, such as `'$x' = s` | `PathText.cfg` (MCWhere) |
| `expr.go:101`, `agg_expr.go:160` | CAST and CONVERT return their argument as it is: CAST(-1.5 AS SIGNED) is -1.5, where MySQL has -2 | `Cast.cfg` (MCUpdate) |
| `expr.go:978` | Column against column: NULL is a value below all others | `ColumnComparison.cfg` (MCWhere) |
| `render_aggregate.go:156` | ORDER BY the alias of an expression: `$sort` comes before the `$project` that computes it, although `doc/sql-subset.md:80` says it is supported | `OrderByAlias.cfg` (MCSelect) |

SELECT and INSERT ... SELECT (conditions of Select and Joins):

| Where | What |
|---|---|
| `render_find.go:46` | A Find ignores column aliases, and takes `t.a` for the field a of a document t |
| `driver.go:154` | DISTINCT of a column ignores ORDER BY, LIMIT and OFFSET, and rows without the field |
| `render_aggregate.go:30` | A pipeline ignores DISTINCT |
| `render_aggregate.go:58` | HAVING without GROUP BY or an aggregate in the SELECT list is ignored |
| `render_aggregate.go:64` | Grouped answers have every column of GROUP BY under its own name, and no expressions |
| `render_aggregate.go:135` | Several sort keys in a pipeline: a Go map, so in any order |
| `render_aggregate.go:446` | GROUP BY puts rows with NULL and rows without the field in different groups |
| `render_aggregate.go:526` | SUM over a group of NULL is 0 |
| `render_aggregate.go:653` | `COUNT(a)` and `COUNT(DISTINCT a)` have the same name; one is lost |
| `render_aggregate.go:635` | An aggregate of a joined column has a dot in its name unless it has an alias, and MongoDB refuses it |
| `render_aggregate.go:177` | `SELECT b.x, a.x` with a the main table loses b.x (`todo.md:128`) |
| `render_aggregate.go:30` | `SELECT *` of a join has the joined rows as documents inside (`todo.md:145`) |
| `render_aggregate.go:227` | A chained JOIN reads the left column of an equality from the main table, whatever its qualifier, although `doc/sql-subset.md:107` lists it |
| `render_aggregate.go:227` | A JOIN on an equality pairs NULL with NULL; on other conditions NULL compares like a value |
| `render_aggregate.go:259` | In the other conditions columns of one name from two left tables share the variable `left_` + name |
| `render_aggregate.go:405` | A column of a joined table that has no qualifier is read from the main table |
| `plan.go:31` | Of tables between commas all but the first are ignored |
| `result.go:75` | A column no row has is missing from the answer, columns come in alphabetical order, and an answer without rows has the one column "(empty)" |
| `driver.go:316` | INSERT ... SELECT pairs columns by name; of several unmatched ones any may take any field, also for a row that lacks a column |
| `driver.go:337` | INSERT ... SELECT does not apply the schema's defaults: its rows get no AUTO_INCREMENT value |
| `write.go:181` | INSERT ... SELECT: LIMIT 0 copies everything, DISTINCT is ignored, rows are sorted after columns are dropped |

INSERT, UPDATE and expressions (conditions of Update and Expressions):

| Where | What |
|---|---|
| `write.go:16` | INSERT ignores ON DUPLICATE KEY, IGNORE and REPLACE |
| `write.go:72` | UPDATE and DELETE ignore ORDER BY and LIMIT |
| `write.go:95` | In an UPDATE that reads a column, a text that begins with `$` is the path of a field, as in every expression (`agg_expr.go:102`) |
| `write.go:101` | MySQL assigns from left to right; a pipeline reads the old values |
| `schema.go:147` | ON UPDATE columns are set even if the row does not change |
| `schema.go:186` | DEFAULT '' is NULL |
| `agg_expr.go:140` | x / 0 over columns fails in MongoDB; the rows before the failing one stay changed |
| `agg_expr.go:344` | Comparisons with NULL are true or false; `<=>` and IS NULL tell NULL from a missing field |
| `agg_expr.go:168` | The result of a comparison is a boolean, with which MongoDB computes nothing |
| `agg_expr.go:410` | UPPER of NULL is the empty text; UPPER and LENGTH of other types differ |
| `agg_expr.go:414` | CONCAT of a number fails; CONCAT_WS of NULL is NULL |
| `agg_expr.go:465` | LEFT, RIGHT and SUBSTRING fail for negative or NULL lengths and positions |
| `agg_expr.go:475` | REVERSE of a column always fails, although `doc/sql-subset.md:26` lists it |
| `agg_expr.go:525` | COALESCE of one argument fails; REPEAT, LPAD, GREATEST, LEAST and ISNULL of columns are refused |
| `agg_expr.go:669` | Constants: arithmetic with NULL and DIV of fractions are refused |
| `expr.go:45` | Constants: CASE, AND, OR, NOT, BETWEEN, IS and arithmetic inside functions are refused |
| `expr.go:104` | Constants: IN, NOT IN, LIKE and the other comparisons that the switch does not know are 0, without an error: `1 IN (1, 2)` stores 0 |
| `expr.go:113` | Constants: comparisons with NULL are 0 or 1, NULL being the empty text |
| `expr.go:149` | SUBSTRING from position 0, or from before the beginning, is not empty |
| `expr.go:475` | MOD(NULL, n) is 0 |
| `expr.go:679` | LPAD to a negative length panics |
| `expr.go:658` | A text is true unless it is empty |

The repository's documentation is behind its code in one place met on the way:
`doc/sql-subset.md:195` lists RIGHT JOIN among what is refused with an error,
while `source.go:57` plans it by swapping the sources and item 4 of `todo.md`
records that. Joins models the code.

Texts (conditions of Dispatch):

| Where | What |
|---|---|
| `handler.go:121` | `--` begins a comment without a blank behind it; `/*! */` is a comment |
| `handler.go:135` | `\` escapes in names too |
| `meta.go:29` | SET, USE and DDL are recognised with one blank only, SELECT and SHOW also as the beginning of a word |
| `meta.go:141` | A SELECT from a table with NOW(), `@@` or the like, or a digit in front, is answered as if it had no FROM, also if they are in a text |
| `meta.go:163` | A SELECT with `MYSQL.` or `SYS.` anywhere, also as a part of a name, gets an empty answer |
| `meta.go:196` | FROM next to `*` or a quote is not seen |
| `meta.go:612` | A text that ends in two backslashes runs on |

## 4. The proofs

`CatalogProofs`, first part: `Spec => []TypeOK`, for every value of the constants.
`TypeOK` is not inductive: `MigrateSchema` writes through `call[c].ptr` and
`Store` through `conn[c].ptr`, so an object must be there; `heap[p].name` is a
table only if `heap[p]` is not nil. `Shape` adds which program counters go with
which statement, what the head of the options is at each of them, and that the
cache, the calls and the handlers point to objects. `ShapeCorrect` proves
`TypeOK /\ Shape`.

`CatalogProofs`, second part: if the workload has only CREATE, INSERT, UPDATE and DELETE,
then `CacheCoherent` and `OneCreator` hold in every state. The inductive
invariant says that an object is written once, before anyone else can see it;
that a document stored is never changed, so what a fill in flight carries is
still what is stored; and that a Save in flight belongs to the one creator, for
a table that has no document, or the same one.

`CatalogProofs`, third part: if no statement renames, drops or gives explicit ids, then
`UniqueIds` holds. The invariant adds that every object is named as the table
it is cached for, that every row's id is at most the counter, and that an id in
the hands of an INSERT is at most the counter, differs from every row's and
from every other INSERT's. That is why the counter must be chosen by a name
that does not change, and why the theorem needs the assumption on renames:
rename_race is the counterexample without it.

These two parts assume something of `Workload` only. Overlap, faults and crashes
are unrestricted (`Serial` may be FALSE). SerialProofs and RefinementProofs are
about all statements, and assume `Serial`: the code has no lock that would keep
two statements on one table apart, and `DropRace.cfg` and rename_race are what
happens without it.

`SerialProofs`: that clients leave each other's tables alone is a fact about the
names in their statements. The handlers do not share names but schema objects,
which they edit in place, so it has to be proved that nobody holds an object of
another's table. `Named` says so: of two connections with DDL at work the
tables are disjoint (`Apart`); a handler's tables are among its statement's, what
is left of its options is a suffix of them, and a call in progress fits the
point the handler is at (`Stays`); each object it holds, and each one that is
cached, carries the name of its table, or of the name this table is being
renamed to (`HoldsNamed`, `CacheNamed`). `Keeps` is what follows for a step:
other connections' handlers, tables and objects are as before. Each action is
then proved for its own connection only, and `NamedFrame` and its likes carry
the rest. Failed round trips and crashes are included.

* `NamesCorrect`: `NamesAgree`.
* `SettledCorrect`: `SettledCoherent`, crashes included, as long as no round trip
  fails. `Open(c, t)` lists the points at which cache and document of t may
  differ; elsewhere they agree, and the schema variable of a handler is the
  cached object (`HoldsCached`), and so is what Get returns (`GetsCached`).
  `Orderly` excludes DROP DATABASE, which leaves the cache, and an ALTER TABLE
  whose RENAME is not its first option, which returns without Save if the rename
  fails: `FailedAlter.cfg` is the counterexample.

Three more, until a round trip or the process fails, because all three can be false
afterwards (`RenameFault.cfg` is one case):

* `IdsCorrect`: `IdsStayUnique`, if no statement gives an id itself (explicit
  values do not advance the counter). While a table is renamed its rows are under
  the new name and its counter under the old one: the rows of the new name are
  within the **old** name's counter until it has been copied (`CountedBy`), and
  the counter is not drawn from in between (`Carries`). A weaker invariant, that
  the rows are within one of the two counters, is not inductive: the step that
  copies the counter needs to know which.
* `NothingLeftCorrect`: `NothingLeftBehind`, without DROP DATABASE. `Cleared` and
  `Vanishing` say how far a table on its way out has been cleared, `Present` that
  who holds a schema has the collection. Without `Present` an INSERT could draw from
  the counter of a table that is gone.
* `IndexesCorrect`: `IndexesAgree`, for Orderly workloads without TRUNCATE, which
  drops the indexes but not their listing, and without DROP INDEX, which removes
  one of the entries of a name (`TruncateIndexes.cfg`, `IndexTwice.cfg`). `Behind`
  lists the points at which the document may differ from the indexes, and
  `Tracks` what these agree with instead: the schema object, what it is about to
  become, or what CREATE TABLE is about to create. A handler that got no schema
  must know that there is none (`TracksMissing`), or an index it creates would be
  missing from the listing.

`RefinementProofs`: `RefinesAtomic`, that is `ImplementsAtomic`, for Orderly
workloads. The mapping finds a table's schema and counter in different places at
different points of a handler; where it changes from one place to another, the
two must agree. `Faithful` adds what that takes to the invariants above
(`Consistent` is all of them together): what a handler has read and will use is
still so (`Knows`); a table's new name has no schema and no counter until those
of the old one are stored under it, and these are what will be stored
(`Arriving`); the collection of a name being cleared is gone (`Departed`). The
mapping asks about all connections. `TableSeen(c, t)` is the same table as one
handler sees it, and `Seen`, `InHand` and `Elsewhere` show that it is the mapped
one for the handler that works on it, and untouched for tables nobody works on.
So each step is looked at on its own connection, and is either a stutter
(`Unseen`) or one abstract step (the lemmas that end in `Mapped`). A step that
fails makes `intact` FALSE, after which AtomicCatalog allows everything.

`AtomicProofs`: as long as nothing fails, `UniqueValues` holds of AtomicCatalog:
the AUTO_INCREMENT values of a table's rows, and of the rows under way to it,
differ, if no statement gives a value itself. The invariant `ValueInv` adds to
the types that the values given are at most the counter and differ from those
under way, which differ from each other. That is why the promise is worth
having, and with `RefinesAtomic` it holds of what Catalog shows its clients.

`ServerProofs`: `TypeOK`, `NoStatementCut`, `TableIsExact` and `AtMostOneMissed`,
for any finite set of connections. The invariant `ServerInv` adds to the types that the
wait group counts exactly the workers that have not finished and the one about
to start (so that 0 means there is none), that the connection in the hands of
main has no worker yet, that every open connection is in those hands or has a
worker that has not closed it, and that, while the closer is at work, every open
connection is one it has still to close or the one main is about to register.

`SessionProofs`: `SessionTypes` is `TypeOK`, whatever clients do.
`AgreementIsSafe`: with `Explicit` and `Agree`, `OwnDatabase`
holds for any connections and databases. The invariant `SessionInv`: `db` is the
database of every client that has selected one, and a statement with round trips
to make belongs to such a client and has taken a handle of its database.

`WhereProofs`: all four properties of Where, for every set of conditions, so for
conditions of any depth, over any columns and values; conditions with texts that
are field paths are excluded by the properties themselves (`NoPaths`), except
from `PlainIsExact`. It assumes what the module
does: `NamesAssumption`, texts that are field paths are texts and name columns
or nothing; `OrderAssumption`, BSON's order tells any two values apart and has a missing
field below null and null below all else, as MongoDB's manual has it; and
`ConditionsAssumption`, a condition is a finite tree whose leaves compare
operands of one type. The argument:

* Induction. The library's induction theorems take a predicate as a parameter,
  but `WFMin` takes a set: it gives the least number of a set (`LeastNumber`),
  hence a condition of least depth for which a claim fails (`Counterexample`),
  hence induction from the parts of a condition (`DepthInduction`), with the
  claim as a set.
* Recursion. A definition `f[e \in Conditions] == ...` is a CHOOSE: that there is
  such a function is to be proved. `Solvable` does, for every step function
  that looks at its argument's parts only (`Descends`), by gluing together
  solutions up to each depth, which agree by `Agreement`. `SqlTruthIs`,
  `TranslationIs`, `NoPathsIs`, `AggExprIs`, `InAggIs` and `PlainIs` are the equations it
  yields.
* Leaves. For each kind of leaf, what its translation and the negation of it
  select, against SQL: all that is TRUE (FALSE), nothing that is FALSE (TRUE),
  and exactly it if the leaf is plain.
* `Follows` says that of a condition **and** of its negation, for documents of
  every kind. Neither half is inductive alone: the filter of NOT is the negated
  translation of its part, and that of a negated AND is an OR of negations.
  `AggFollows` is its counterpart for expressions, about complete documents.

`DispatchProofs`: `CommentsNeverMatter` (`CommentsAreBlanks`), `RoutedRight`
(`RoutedByTokens`) and `ColumnsCounted` (`OneColumnEach`), for every text of a
query. All they assume is that queries are texts (`QueriesAssumption`).
`stripSQLComments` looks at one character after another, SQL at tokens, and the
two do not move in step: the code takes out a blank too few or too many, and ends
a comment where the next one begins. The argument:

* Induction over the length of a text and recursion over texts, as in WhereProofs
  (`TextInduction`, `Solvable`): `ClosingIs`, `StrippedIs`, `SqlClosingIs` and
  `TokensIs` are the equations.
* Quotes. Where SQL finds the end of a quoted text, the code does, if it is not a
  name with a backslash (`SameClosing`), and where a quoted text ends does not
  depend on what follows it (`ClosingIsLocal`). So a token stays one if what
  follows it changes (`StripToken`, `TokenFirst`).
* `SplitTokens` is what is proved of every text: wherever the stripped text is cut
  in two such that only blanks and semicolons follow, its tokens are those of the
  front and those of the rest. That the stripped text has the tokens of the text
  is not inductive alone: `HandleQuery` cuts blanks and semicolons off the end
  afterwards, which must not cut a quoted text or leave the beginning of a word.
* `CleanedKeepsTokens` adds `TrimSpace` in front, and `TextInv` says at which step
  the text is cleaned.
* For the columns: what is left of a query has no comments any more (`CleanedIs`),
  so it is read symbol by symbol as well as token by token: a blank, the first
  symbol of a longer word, or a whole token (`Blank`, `WordGoesOn`, `WholeToken`).
  `At(t, c, d)` are the tokens c at the top level when d parentheses have been
  opened in front of t; `SeparatorsCount`, over all d, says that `splitTopLevel`'s
  loop counts the commas of them, and `AnswerInv` at which step it does.
* For the route: `FromSeenRight` says of every text, every depth and either
  boundary in front that `hasTopLevelFrom`'s loop sees FROM exactly if it is a
  token at the top level, if no parenthesis closes that is not open (`Nested`)
  and no FROM outside of literals stands next to other symbols than blanks,
  parentheses, separators and letters (`Bounded`). Both are what `PlainSelect`
  says, for the rest of the text at each step of the loop. `Begun` brings the
  names of system schemas, which the code looks for anywhere, back to the tokens,
  and `Agrees`, first word by first word, the prefixes `handleMeta` compares with.

Only model-checked, and why:

* `ShutdownUnlessMissed` and `ShutdownIfClientsLeave`: liveness.
* `SelectIsSql`, `InsertIsSql`: the answers of a pipeline are sets of sequences,
  built by folds and recursive operators over stages, rows and groups, and the
  properties compare them with other such sets. What would have to be proved is
  the library's theory of sorting, grouping and folding rather than this code.
* `UpdateIsSql`, `ValuesAreSql`: nine mutually recursive operators over
  expressions, with arithmetic on fractions and texts at the leaves, where the
  bounds of the run meet every pair of operators.

## 5. Not modelled

* CHANGE COLUMN. It drops the indexes of the column, renames the field and
  creates the indexes again; Catalog's indexes have no columns, and giving them
  some multiplies the states of every run by what this one option needs.
* The backfill of ADD COLUMN and the values of defaults: columns other than the
  AUTO_INCREMENT one do not show in Catalog's rows.
* Unique indexes on rows, and several rows in one INSERT.
* Round trips whose effect takes place although their answer is lost; the code
  treats them like any other error.
* Dates and times, POW, SQRT, logarithms, TRIM, REPLACE, LIKE with escapes, the
  text of numbers: computations on one value, for which unit tests are enough.
  64-bit overflow and the rounding of float64, beyond TLC's integers.
* Answers to SHOW, DESCRIBE and system variables, and the formatting of values:
  constants and layout.
* AVG, `_id`, OR and arithmetic in ON, other databases than the current one.
* TLS, authentication, the MySQL protocol: library code. Examples and scripts.

## 6. Plan

1. Lemmas about the operators of Joins and Select that are not recursive:
   `FromPlan`, `Unwind`, `PageStages`, `MapOf`.
2. CHANGE COLUMN as a module of its own over one table and its indexes.
