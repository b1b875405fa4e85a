--------------------------- MODULE RefinementProofs ---------------------------
(***************************************************************************)
(* Catalog implements AtomicCatalog: read through the mapping of module    *)
(* CatalogRefinement, a step of a handler is one step of the catalog in    *)
(* which a table is one thing, or none.                                    *)
(*                                                                         *)
(* The mapping looks for a table's schema and counter in different places  *)
(* at different points of a handler.  When it changes from one place to    *)
(* another the two must agree: a document that is read must not change     *)
(* until it is used, and the new name of a table must be free of the       *)
(* remains of an earlier one.  Faithful says so.                           *)
(***************************************************************************)
EXTENDS SerialProofs, CatalogRefinement

ArrivingPCs == {"migrate", "dropOld", "findCounter", "setCounter"}

\* The statement at hand has a number, and is of the kind its steps are for.
Stamped(c) ==
  /\ conn[c].pc # "idle" => conn[c].nr \in 1..MaxStmts
  /\ conn[c].pc \in {"check", "create"} => conn[c].stmt.kind = "create"
  /\ conn[c].pc = "applyDefaults" => conn[c].stmt.kind = "insert"

\* The collection of a name that is being cleared is gone.
Departed(c) == conn[c].pc \in RenamePCs \cup {"dropCounter"} => conn[c].tab \notin colls

\* The new name has no counter and no schema until those of the old name are
\* stored under it, and these are what will be stored.
Arriving(c) ==
  /\ conn[c].pc \in ArrivingPCs => seq[Opt(c).to] = 0
  /\ conn[c].pc = "migrate" => docs[Opt(c).to] = None
  /\ conn[c].pc = "setCounter" => conn[c].id = seq[conn[c].tab]
  /\ conn[c].pc = "dropOld" /\ At(c, "upsert") =>
       heap[call[c].ptr].items = docs[conn[c].tab]

\* What an INSERT or an option of ALTER TABLE has read is still so.
Knows(c) ==
  /\ conn[c].pc = "applyDefaults" /\ Returned(c) =>
       docs[conn[c].tab] = IF call[c].ptr = None THEN None ELSE heap[call[c].ptr].items
  /\ conn[c].pc = "store" => conn[c].seen = heap[conn[c].ptr].items

Faithful ==
  /\ begun <= MaxStmts
  /\ \A t \in Tables : t \in colls \/ rows[t] = {}
  /\ \A c \in Conns : Stamped(c) /\ Departed(c) /\ Arriving(c) /\ Knows(c)

FaithfulInv == Uninterrupted => Faithful

\* What a step of c has to show.
FaithfulStep(c) ==
  /\ begun' = begun
  /\ \A t \in Tables : t \in Reach(c) => t \in colls' \/ rows'[t] = {}
  /\ (Stamped(c) /\ Departed(c) /\ Arriving(c) /\ Knows(c))'

----------------------------------------------------------------------------
(* Faithful is kept.                                                       *)

\* What the other connections have, c leaves alone.
LEMMA FaithfulNext ==
  ASSUME TypeInv, Named, Faithful, NEW c \in Conns, Keeps(c), FaithfulStep(c)
  PROVE  Faithful'
<1>1. ASSUME NEW d \in Conns \ {c} PROVE (Stamped(d) /\ Departed(d) /\ Arriving(d) /\ Knows(d))'
  <2>t. /\ Stamped(d) /\ Departed(d) /\ Arriving(d) /\ Knows(d)
        /\ Stays(d) /\ HoldsNamed(d) /\ HandlerFits(conn[d]) /\ CallFits(call[d])
    BY Typed DEF Named, Faithful
  <2>1. conn'[d] = conn[d] /\ call'[d] = call[d] /\ Opt(d)' = Opt(d)
    BY DEF Keeps, Opt
  <2>2. \A p \in Owned(d) : heap'[p] = heap[p]
    BY Undisturbed
  <2>3. ASSUME conn[d].pc \in RenamePCs \cup {"dropCounter"}
        PROVE  /\ docs'[conn[d].tab] = docs[conn[d].tab] /\ seq'[conn[d].tab] = seq[conn[d].tab]
               /\ conn[d].tab \in colls' <=> conn[d].tab \in colls
    BY <2>3, Alone DEF Keeps
  <2>4. ASSUME conn[d].pc \in RenamePCs
        PROVE  docs'[Opt(d).to] = docs[Opt(d).to] /\ seq'[Opt(d).to] = seq[Opt(d).to]
    <3>1. Opt(d).to \in Tables \ Reach(c)
      BY <2>4, RenameReach DEF Named, Apart
    <3> QED BY <3>1 DEF Keeps
  <2>5. conn[d].pc = "applyDefaults" => docs'[conn[d].tab] = docs[conn[d].tab]
    <3>1. conn[d].pc = "applyDefaults" => conn[d].tab \in Tables /\ conn[d].tab \in Reach(d)
      BY <2>t, OwnTable DEF HandlerFits, OneTablePCs
    <3> QED BY <3>1 DEF Keeps, Named, Apart
  <2>6. Stamped(d)' /\ Departed(d)'
    BY <2>t, <2>1, <2>3 DEF Stamped, Departed
  <2>7. Arriving(d)'
    <3>1. At(d, "upsert") => heap'[call[d].ptr] = heap[call[d].ptr]
      BY <2>t, <2>2 DEF At, CallFits, Owned
    <3> QED BY <2>t, <2>1, <2>3, <2>4, <3>1 DEF Arriving, ArrivingPCs, RenamePCs, At
  <2>8. Knows(d)'
    <3>1. /\ call[d].ptr # None => heap'[call[d].ptr] = heap[call[d].ptr]
          /\ conn[d].pc = "store" => heap'[conn[d].ptr] = heap[conn[d].ptr]
      BY <2>t, <2>2 DEF HandlerFits, Owned
    <3> QED BY <2>t, <2>1, <2>5, <3>1 DEF Knows, Returned
  <2> QED BY <2>6, <2>7, <2>8
<1>2. ASSUME NEW t \in Tables PROVE t \in colls' \/ rows'[t] = {}
  BY DEF Faithful, FaithfulStep, Keeps
<1> QED BY <1>1, <1>2 DEF Faithful, FaithfulStep

\* What Get returns is what is stored.
LEMMA CallFaithful ==
  ASSUME TypeInv, Named, Coherent, Faithful, NEW c \in Conns, CallStep(c)
  PROVE  FaithfulStep(c)
<1> DEFINE k == call[c]
           h == conn[c]
<1>t. /\ Stays(c) /\ HoldsNamed(c) /\ GetsCached(c) /\ Stamped(c) /\ Departed(c) /\ Arriving(c)
      /\ Knows(c) /\ k \in Call /\ CallFits(k) /\ h \in Handler /\ HandlerFits(h)
      /\ call \in [Conns -> Call] /\ docs \in [Tables -> {None} \cup Listing]
      /\ cache \in [Tables -> {None} \cup Ptrs] /\ heap \in [Ptrs -> {None} \cup TableSchema]
  BY Typed DEF Named, Faithful, Coherent
<1>c. UNCHANGED <<conn, colls, rows, seq, begun>> /\ Opt(c)' = Opt(c)
  BY DEF CallStep, Opt, budgets
<1>r. \A p : Return(c, p) => call'[c].at = "returned" /\ call'[c].ptr = p
  BY <1>t DEF Return, NoCall
<1>a. \A at : call' = [call EXCEPT ![c].at = at] => call'[c].at = at
  BY <1>t DEF Call
<1>s. k.at # "returned" /\ h.pc # "store"
  <2>1. k.at # "returned"
    BY DEF CallStep, StoreStep, Lookup, FindMissing, FindDocument, Fill, Upsert, Publish, Evict,
       Erase, At
  <2> QED BY <1>t, <2>1 DEF Stays, CallPCs, Call, CallSteps
<1>g. /\ h.pc \in {"migrate", "applyDefaults"} => k.at \in {"lookup", "find", "fill"}
      /\ k.at \in {"lookup", "find", "fill"} => k.tab = h.tab /\ h.tab \in Tables /\ h.tab \in Reach(c)
  <2>1. h.pc \in {"migrate", "applyDefaults"} => k.at \in {"lookup", "find", "fill"}
    BY <1>t, <1>s DEF Stays, CallPCs, Call, CallSteps
  <2>2. k.at \in {"lookup", "find", "fill"} => k.tab = h.tab /\ h.tab # None
    BY <1>t DEF Stays, CallFits
  <2> QED BY <2>1, <2>2, <1>t, OwnTable
<1>u. call'[c].at # "upsert"
  BY <1>r, <1>a, <1>t DEF CallStep, StoreStep, Lookup, FindMissing, FindDocument, Fill, Upsert,
     Publish, Evict, Erase, Call
<1>d. k.at \in {"lookup", "find", "fill"} => UNCHANGED docs
  BY DEF CallStep, StoreStep, Lookup, FindMissing, FindDocument, Fill, Upsert, Publish, Evict,
     Erase, At
<1>1. Arriving(c)'
  BY <1>t, <1>c, <1>g, <1>u, <1>d DEF Arriving, At
<1>2. ASSUME h.pc = "applyDefaults", call'[c].at = "returned"
      PROVE  docs[h.tab] = IF call'[c].ptr = None THEN None ELSE heap'[call'[c].ptr].items
  <2>1. k.at \in {"lookup", "find", "fill"} /\ k.tab = h.tab /\ h.tab \in Tables /\ h.tab \in Reach(c)
    BY <1>2, <1>g
  <2>2. CASE Lookup(c)
    <3>1. cache[h.tab] # None
      BY <1>2, <1>a, <2>1, <2>2 DEF Lookup
    <3>2. call'[c].ptr = cache[h.tab] /\ heap' = heap
      BY <1>r, <2>1, <2>2, <3>1 DEF Lookup
    <3>3. CoherentOn(h.tab)
      BY <1>2, <2>1, OwnOpen DEF Open
    <3>4. heap[cache[h.tab]].items = docs[h.tab]
      BY <3>1, <3>3 DEF CoherentOn
    <3> QED BY <3>1, <3>2, <3>4
  <2>3. CASE FindMissing(c)
    BY <1>r, <2>1, <2>3 DEF FindMissing
  <2>4. CASE \E p \in Fresh : FindDocument(c, p)
    BY <1>2, <1>t, <2>4 DEF FindDocument, Call
  <2>5. CASE Fill(c)
    BY <1>r, <1>t, <2>1, <2>5 DEF Fill, GetsCached, CallFits, At
  <2> QED BY <2>1, <2>2, <2>3, <2>4, <2>5 DEF CallStep, StoreStep, Upsert, Publish, Evict, Erase, At
<1>3. Knows(c)'
  BY <1>c, <1>d, <1>g, <1>s, <1>2 DEF Knows, Returned
<1>4. Stamped(c)' /\ Departed(c)'
  BY <1>t, <1>c DEF Stamped, Departed
<1> QED BY <1>c, <1>1, <1>3, <1>4 DEF FaithfulStep, Faithful

\* Rows are in collections.
LEMMA HandleRows ==
  ASSUME TypeInv, Named, Faithful, NEW c \in Conns, Handle(c), NEW t \in Tables
  PROVE  t \in colls' \/ rows'[t] = {}
<1> DEFINE h == conn[c]
<1>t. /\ rows \in [Tables -> SUBSET Row] /\ (t \in colls \/ rows[t] = {})
      /\ h \in Handler /\ HandlerFits(h)
  BY Typed DEF TypeInv, TypeOK, Faithful
<1>1. CASE UNCHANGED rows /\ colls \subseteq colls'
  BY <1>t, <1>1
<1>2. CASE DropColumn(c)
  <2>1. h.tab \in Tables /\ colls' = colls
    <3>1. h.rest # <<>> /\ Opt(c).op = "drop"
      BY <1>2 DEF DropColumn, AtOption, Opt
    <3> QED BY <1>2, <3>1, OptionAtHand DEF DropColumn
  <2>2. rows'[t] = rows[t] \/ rows'[t] = {[r EXCEPT !.id = 0] : r \in rows[t]}
    BY <1>t, <1>2, <2>1 DEF DropColumn
  <2> QED BY <1>t, <2>1, <2>2
<1>3. CASE TruncateDrop(c) \/ DropCollection(c)
  <2>1. \E u : Dropped(u)
    BY <1>3 DEF TruncateDrop, DropCollection
  <2> QED BY <1>t, <2>1 DEF Dropped
<1>4. CASE DropWholeDatabase(c)
  BY <1>4 DEF DropWholeDatabase
<1>5. CASE RenameCollection(c)
  <2>1. /\ From(c) \in Tables
        /\ colls' = (colls \ {From(c)}) \cup {Opt(c).to}
        /\ rows' = [rows EXCEPT ![Opt(c).to] = rows[From(c)], ![From(c)] = {}]
    BY <1>5 DEF RenameCollection, TypeInv, TypeOK
  <2> QED BY <1>t, <2>1
<1>6. CASE InsertMany(c) \/ DeleteMany(c)
  <2>1. h.tab \in Tables
    BY <1>6, <1>t DEF InsertMany, DeleteMany, Running, HandlerFits, OneTablePCs, Handler
  <2>2. CASE InsertMany(c)
    BY <1>t, <2>1, <2>2 DEF InsertMany
  <2>3. CASE DeleteMany(c)
    <3>1. /\ colls' = colls
          /\ \E gone : rows' = [rows EXCEPT ![h.tab] = @ \ gone]
      BY <2>3 DEF DeleteMany
    <3> QED BY <1>t, <2>1, <3>1
  <2> QED BY <1>6, <2>2, <2>3
<1> QED
  BY <1>1, <1>2, <1>3, <1>4, <1>5, <1>6 DEF Handle, CheckExists, CreateFails, CreateCollection,
     CreateIndexes, TruncateCreate, Start, AddColumn, ModifyColumn, AddIndex, DropKey,
     IndexStatement, Load, Store, EndOptions, Finished, DropCounter, RenameFails, MigrateSchema,
     DropOldSchema, FindCounter, SetCounter, DeleteCounter, NextAutoIncrement, NoAutoIncrement,
     UpdateMany, mongoVars, collVars, Indexed, Unindexed

\* A handler keeps the serial number of its statement.
LEMMA HandleStamps ==
  ASSUME TypeInv, Faithful, NEW c \in Conns, Handle(c)
  PROVE  /\ conn'[c].pc = "idle" \/ conn'[c].nr \in 1..MaxStmts
         /\ begun' = begun
<1> DEFINE h == conn[c]
<1>t. h \in Handler /\ conn \in [Conns -> Handler] /\ Stamped(c)
  BY Typed DEF Faithful
<1>1. begun' = begun
  BY DEF Handle, CheckExists, CreateFails, CreateCollection, CreateIndexes, TruncateDrop,
     TruncateCreate, DropWholeDatabase, Start, AddColumn, ModifyColumn, DropColumn, AddIndex,
     DropKey, IndexStatement, Load, Store, EndOptions, Finished, DropCollection, DropCounter,
     RenameFails, RenameCollection, MigrateSchema, DropOldSchema, FindCounter, SetCounter,
     DeleteCounter, NextAutoIncrement, NoAutoIncrement, InsertMany, UpdateMany, DeleteMany, budgets
<1>2. h.pc # "idle"
  BY DEF Handle, CheckExists, CreateFails, CreateCollection, CreateIndexes, TruncateDrop,
     TruncateCreate, DropWholeDatabase, Start, AddColumn, ModifyColumn, DropColumn, AddIndex,
     DropKey, IndexStatement, Load, Store, EndOptions, Finished, DropCollection, DropCounter,
     RenameFails, RenameCollection, MigrateSchema, DropOldSchema, FindCounter, SetCounter,
     DeleteCounter, NextAutoIncrement, NoAutoIncrement, InsertMany, UpdateMany, DeleteMany,
     Running, AtOption
<1> DEFINE Same == conn'[c].nr = h.nr
<1>3. \A pc : Goto(c, pc) => Same
  BY GoesOn
<1>4. Finish(c) => conn'[c].pc = "idle"
  BY Ends
<1>5. \A p : Loads(c, p) => Same
  BY <1>t DEF Loads, NextOption, Handler
<1>6. Renamed(c) => Same
  BY <1>t DEF Renamed, NextOption, Handler
<1>7. ASSUME \/ Start(c) \/ DropCollection(c) \/ RenameCollection(c) \/ NextAutoIncrement(c)
             \/ NoAutoIncrement(c) \/ (FindCounter(c) /\ ~Renamed(c))
      PROVE  Same
  BY <1>7, <1>t DEF Start, DropCollection, RenameCollection, FindCounter, NextAutoIncrement,
     NoAutoIncrement, Handler
<1>8. Store(c) \/ DropCounter(c) => Same
  <2>1. NextOption(c).nr = h.nr
    BY <1>t DEF NextOption, Handler
  <2>2. conn' = [conn EXCEPT ![c] = NextOption(c)] => Same
    <3> HIDE DEF h
    <3> QED BY <1>t, <2>1
  <2> QED BY <2>2, Zenon DEF Store, DropCounter
<1>9. ASSUME \/ CheckExists(c) \/ CreateFails(c) \/ (\E p \in Fresh : CreateCollection(c, p))
             \/ CreateIndexes(c) \/ TruncateDrop(c) \/ TruncateCreate(c) \/ DropWholeDatabase(c)
             \/ IndexStatement(c) \/ EndOptions(c) \/ Finished(c) \/ RenameFails(c)
             \/ MigrateSchema(c) \/ DropOldSchema(c) \/ SetCounter(c)
             \/ InsertMany(c) \/ UpdateMany(c) \/ DeleteMany(c)
      PROVE  conn'[c].pc = "idle" \/ Same
  BY <1>9, <1>3, <1>4 DEF CheckExists, CreateFails, CreateCollection, CreateIndexes, TruncateDrop,
     TruncateCreate, DropWholeDatabase, IndexStatement, EndOptions, Finished, RenameFails,
     MigrateSchema, DropOldSchema, SetCounter, InsertMany, UpdateMany, DeleteMany
<1>10. ASSUME \/ AddColumn(c) \/ ModifyColumn(c) \/ DropColumn(c) \/ AddIndex(c) \/ DropKey(c) \/ Load(c)
              \/ DeleteCounter(c)
       PROVE  Same
  BY <1>10, <1>5, <1>6 DEF AddColumn, ModifyColumn, DropColumn, AddIndex, DropKey, Load, DeleteCounter
<1>11. conn'[c].pc = "idle" \/ Same
  <2> HIDE DEF Same
  <2> QED BY <1>6, <1>7, <1>8, <1>9, <1>10 DEF Handle
<1>12. h.nr \in 1..MaxStmts
  BY <1>t, <1>2 DEF Stamped
<1> QED BY <1>1, <1>11, <1>12

\* The steps of renameCollection and DROP TABLE that lead to another one of them.
MovingStep(c) ==
  \/ RenameCollection(c) \/ MigrateSchema(c) \/ DropOldSchema(c)
  \/ (FindCounter(c) /\ ~Renamed(c)) \/ SetCounter(c) \/ DropCollection(c)

\* All other steps leave these stages, except for the ones that load a schema.
LEMMA RestStays ==
  ASSUME TypeInv, NEW c \in Conns, Handle(c), ~MovingStep(c)
  PROVE  /\ conn'[c].pc \notin RenamePCs \cup {"dropCounter", "applyDefaults", "check"}
         /\ conn'[c].pc = "create" => conn[c].pc = "check" /\ conn'[c].stmt = conn[c].stmt
         /\ conn'[c].pc = "store" => conn'[c].seen = heap'[conn'[c].ptr].items
<1> DEFINE h == conn[c]
           Plainly ==
             conn'[c].pc \notin RenamePCs
                               \cup {"dropCounter", "applyDefaults", "check", "create", "store"}
           Rests ==
             /\ conn'[c].pc \notin RenamePCs \cup {"dropCounter", "applyDefaults", "check"}
             /\ conn'[c].pc = "create" => conn[c].pc = "check" /\ conn'[c].stmt = conn[c].stmt
             /\ conn'[c].pc = "store" => conn'[c].seen = heap'[conn'[c].ptr].items
<1>t. h \in Handler /\ conn \in [Conns -> Handler]
  BY Typed
<1>1. \A pc : Goto(c, pc) => conn'[c].pc = pc
  BY GoesOn
<1>2. Finish(c) => Plainly
  BY Ends DEF RenamePCs
<1>3. ASSUME NEW p, Loads(c, p), UNCHANGED heap PROVE Rests
  BY <1>3, LoadsOn DEF RenamePCs
<1>4. Renamed(c) => Plainly
  BY EndsRename DEF RenamePCs
<1>5. Start(c) \/ Store(c) \/ DropCounter(c) \/ NextAutoIncrement(c) \/ NoAutoIncrement(c) => Plainly
  <2>1. Store(c) \/ DropCounter(c) => conn'[c].pc = "option"
    BY GoesToNext DEF Store, DropCounter
  <2>2. Start(c) => conn'[c].pc = "option"
    BY <1>t DEF Start, Handler
  <2>3. NextAutoIncrement(c) \/ NoAutoIncrement(c) => conn'[c].pc = "insertMany"
    BY <1>t DEF NextAutoIncrement, NoAutoIncrement, Handler
  <2> QED BY <2>1, <2>2, <2>3 DEF RenamePCs
<1>6. ASSUME \/ CreateFails(c) \/ (\E p \in Fresh : CreateCollection(c, p))
             \/ CreateIndexes(c) \/ TruncateDrop(c) \/ TruncateCreate(c) \/ DropWholeDatabase(c)
             \/ IndexStatement(c) \/ EndOptions(c) \/ Finished(c) \/ RenameFails(c)
             \/ InsertMany(c) \/ UpdateMany(c) \/ DeleteMany(c)
      PROVE  Plainly
  BY <1>6, <1>1, <1>2 DEF CreateFails, CreateCollection, CreateIndexes, TruncateDrop,
     TruncateCreate, DropWholeDatabase, IndexStatement, EndOptions, Finished, RenameFails,
     InsertMany, UpdateMany, DeleteMany, RenamePCs
<1>7. ASSUME \/ AddColumn(c) \/ ModifyColumn(c) \/ DropColumn(c) \/ AddIndex(c) \/ DropKey(c) \/ Load(c)
      PROVE  Rests
  <2> HIDE DEF Rests
  <2> QED
    BY <1>3, <1>7 DEF AddColumn, ModifyColumn, DropColumn, AddIndex, DropKey, Load, mongoVars
<1>8. (FindCounter(c) /\ ~MovingStep(c)) \/ DeleteCounter(c) => Plainly
  BY <1>4 DEF MovingStep, DeleteCounter
<1>9. Plainly => Rests
  OBVIOUS
<1>10. ASSUME CheckExists(c) PROVE Rests
  <2>1. CASE Finish(c)
    BY <1>2, <1>9, <2>1
  <2>2. CASE Goto(c, "create")
    BY <1>10, <2>2, GoesOn DEF CheckExists, Running, RenamePCs
  <2> QED BY <1>10, <2>1, <2>2 DEF CheckExists
<1>11. Rests
  <2> HIDE DEF Plainly, Rests
  <2> QED
    BY <1>5, <1>6, <1>7, <1>8, <1>9, <1>10 DEF Handle, MovingStep
<1> QED BY <1>11

\* A rename begins with a new name that nothing is left under, and each of its
\* steps reads what the next one stores.
LEMMA MovesFaithfully ==
  ASSUME TypeInv, Named, Coherent, NothingLeft, Faithful, NEW c \in Conns, MovingStep(c)
  PROVE  /\ (Departed(c) /\ Arriving(c) /\ Knows(c))'
         /\ conn'[c].pc \in RenamePCs \cup {"dropCounter"}
<1> DEFINE h == conn[c]
           k == call[c]
<1>t. /\ h \in Handler /\ HandlerFits(h) /\ conn \in [Conns -> Handler] /\ call \in [Conns -> Call]
      /\ seq \in [Tables -> Nat] /\ Departed(c) /\ Arriving(c) /\ Stays(c) /\ HoldsNamed(c)
      /\ GetsCached(c) /\ CallFits(k) /\ k \in Call /\ heap \in [Ptrs -> {None} \cup TableSchema]
  BY Typed DEF Named, TypeInv, TypeOK, Faithful, Coherent
<1>p. /\ \A pc : Running(c, pc) => pc = h.pc /\ Returned(c)
      /\ \A op : AtOption(c, op) => h.pc = "option" /\ h.rest # <<>> /\ Opt(c).op = op
  BY DEF AtOption, Running, Opt
<1>g. \A pc : Goto(c, pc) => /\ conn'[c].pc = pc /\ conn'[c].tab = h.tab /\ conn'[c].rest = h.rest
                             /\ conn'[c].id = h.id /\ Opt(c)' = Opt(c)
  BY GoesOn DEF Opt
<1>1. CASE RenameCollection(c)
  <2>1. /\ h.pc = "option" /\ h.rest # <<>> /\ Opt(c).op = "rename"
        /\ From(c) \in colls /\ Opt(c).to \notin colls
        /\ colls' = (colls \ {From(c)}) \cup {Opt(c).to} /\ UNCHANGED <<docs, seq>>
        /\ conn' = [conn EXCEPT ![c].pc = "migrate", ![c].tab = From(c)]
    BY <1>p, <1>1 DEF RenameCollection
  <2>2. conn'[c].pc = "migrate" /\ conn'[c].tab = From(c) /\ Opt(c)' = Opt(c)
    BY <1>t, <2>1 DEF Handler, Opt
  <2>3. Opt(c).to \in Tables /\ Opt(c).to \in Reach(c)
    BY <1>t, <2>1, OptionAtHand, Reaching
  <2>4. Gone(Opt(c).to)
    BY <2>1, <2>3, OwnLeft DEF Vanishing, RenamePCs
  <2> QED BY <2>1, <2>2, <2>4 DEF Departed, Arriving, ArrivingPCs, RenamePCs, Knows, Gone
<1>2. CASE MigrateSchema(c) /\ k.ptr = None
  <2>1. h.pc = "migrate" /\ Goto(c, "findCounter") /\ UNCHANGED <<colls, docs, seq>>
    BY <1>p, <1>2 DEF MigrateSchema, mongoVars
  <2> QED BY <1>t, <1>g, <2>1 DEF Departed, Arriving, ArrivingPCs, RenamePCs, Knows
<1>3. CASE MigrateSchema(c) /\ k.ptr # None
  <2>1. /\ h.pc = "migrate" /\ Returned(c) /\ Goto(c, "dropOld") /\ UNCHANGED <<colls, docs, seq>>
        /\ heap' = [heap EXCEPT ![k.ptr].name = Opt(c).to] /\ call'[c] = SaveOf(k.ptr)
    BY <1>p, <1>t, <1>3 DEF MigrateSchema, mongoVars, Begins
  <2>2. call'[c].ptr = k.ptr /\ heap'[k.ptr].items = heap[k.ptr].items
    <3>1. k.ptr \in Ptrs /\ heap[k.ptr] \in TableSchema
      BY <1>t, <1>3 DEF CallFits, Call
    <3> QED BY <1>t, <2>1, <3>1 DEF SaveOf, TableSchema
  <2>3. heap[k.ptr].items = docs[h.tab]
    <3>1. cache[h.tab] = k.ptr /\ h.tab \in Tables /\ h.tab \in Reach(c)
      BY <1>t, <1>3, <2>1, Alone DEF GetsCached, RenamePCs
    <3>2. CoherentOn(h.tab)
      BY <2>1, <3>1, OwnOpen DEF Open
    <3> QED BY <1>3, <3>1, <3>2 DEF CoherentOn
  <2> QED
    BY <1>t, <1>g, <2>1, <2>2, <2>3 DEF Departed, Arriving, ArrivingPCs, RenamePCs, Knows
<1>4. CASE DropOldSchema(c)
  <2>1. h.pc = "dropOld" /\ Goto(c, "findCounter") /\ UNCHANGED <<colls, docs, seq>>
    BY <1>p, <1>4 DEF DropOldSchema, mongoVars
  <2> QED BY <1>t, <1>g, <2>1 DEF Departed, Arriving, ArrivingPCs, RenamePCs, Knows
<1>5. CASE FindCounter(c) /\ ~Renamed(c)
  <2>1. /\ h.pc = "findCounter" /\ UNCHANGED <<colls, docs, seq>>
        /\ conn' = [conn EXCEPT ![c].pc = "setCounter", ![c].id = seq[h.tab]]
    BY <1>p, <1>5 DEF FindCounter, mongoVars
  <2>2. /\ conn'[c].pc = "setCounter" /\ conn'[c].id = seq[h.tab] /\ conn'[c].tab = h.tab
        /\ Opt(c)' = Opt(c)
    BY <1>t, <2>1 DEF Handler, Opt
  <2> QED BY <1>t, <2>1, <2>2 DEF Departed, Arriving, ArrivingPCs, RenamePCs, Knows
<1>6. CASE SetCounter(c)
  <2>1. h.pc = "setCounter" /\ Goto(c, "deleteCounter") /\ colls' = colls
    BY <1>p, <1>6 DEF SetCounter, collVars
  <2> QED BY <1>t, <1>g, <2>1 DEF Departed, Arriving, ArrivingPCs, RenamePCs, Knows
<1>7. CASE DropCollection(c)
  <2>1. /\ colls' = colls \ {Opt(c).tab}
        /\ conn' = [conn EXCEPT ![c].pc = "dropCounter", ![c].tab = Opt(c).tab]
    BY <1>7 DEF DropCollection, Dropped
  <2>2. conn'[c].pc = "dropCounter" /\ conn'[c].tab = Opt(c).tab
    BY <1>t, <2>1 DEF Handler
  <2> QED BY <2>1, <2>2 DEF Departed, Arriving, ArrivingPCs, Knows
<1> QED BY <1>1, <1>2, <1>3, <1>4, <1>5, <1>6, <1>7 DEF MovingStep

\* Together: a handler's step keeps Faithful.
LEMMA HandleFaithful ==
  ASSUME TypeInv, Named, Coherent, NothingLeft, Faithful, NEW c \in Conns, Handle(c)
  PROVE  Faithful'
<1>1. (Stamped(c) /\ Departed(c) /\ Arriving(c) /\ Knows(c))'
  <2>1. CASE MovingStep(c)
    BY <2>1, MovesFaithfully, HandleStamps DEF Stamped, RenamePCs
  <2>2. CASE ~MovingStep(c)
    <3>1. (Departed(c) /\ Arriving(c) /\ Knows(c))'
      BY <2>2, RestStays DEF Departed, Arriving, ArrivingPCs, RenamePCs, Knows
    <3>2. Stamped(c)'
      BY <2>2, RestStays, HandleStamps DEF Stamped, Faithful
    <3> QED BY <3>1, <3>2
  <2> QED BY <2>1, <2>2
<1>2. FaithfulStep(c)
  BY <1>1, HandleRows, HandleStamps DEF FaithfulStep
<1> QED BY <1>2, HandleKeeps, FaithfulNext

\* A statement that begins gets a number within the bound.
LEMMA BeginFaithful ==
  ASSUME TypeInv, Faithful, NEW c \in Conns, NEW s \in Workload, Begin(c, s)
  PROVE  Faithful'
<1>1. /\ FirstStep(s) \notin RenamePCs \cup {"dropCounter", "store"}
      /\ FirstStep(s) = "applyDefaults" => s.kind = "insert" /\ FirstCall(s).at # "returned"
      /\ FirstStep(s) \in {"check", "create"} => s.kind = "create"
  <2>1. /\ FirstStep(s) = "applyDefaults" => s.kind = "insert"
        /\ FirstStep(s) \in {"check", "create"} => s.kind = "create"
    BY StatementItems DEF FirstStep, Kinds
  <2> QED BY <2>1, StatementShape DEF FirstCall, GetOf
<1>2. /\ begun < MaxStmts /\ begun' = begun + 1
      /\ conn[c].pc = "idle" /\ UNCHANGED <<heap, docs, colls, rows, seq>>
      /\ \A d \in Conns \ {c} : conn'[d] = conn[d] /\ call'[d] = call[d]
      /\ conn'[c].pc = FirstStep(s) /\ conn'[c].stmt = s /\ conn'[c].nr = begun + 1 /\ call'[c] = FirstCall(s)
  BY Typed DEF Begin, Begins, mongoVars
<1>3. begun \in Nat /\ MaxStmts \in Nat
  BY BoundsAssumption DEF TypeInv, TypeOK
<1>4. (Stamped(c) /\ Departed(c) /\ Arriving(c) /\ Knows(c))'
  BY <1>1, <1>2, <1>3, Typed DEF Stamped, Departed, Arriving, ArrivingPCs, RenamePCs, Knows, Returned
<1>5. ASSUME NEW d \in Conns \ {c} PROVE (Stamped(d) /\ Departed(d) /\ Arriving(d) /\ Knows(d))'
  BY <1>2 DEF Faithful, Stamped, Departed, Arriving, Knows, Opt, At, Returned
<1> QED BY <1>2, <1>3, <1>4, <1>5 DEF Faithful

\* And nothing else changes it.
LEMMA FaithfulStutter ==
  ASSUME Faithful, UNCHANGED vars
  PROVE  Faithful'
BY DEF vars, Faithful, Stamped, Departed, Arriving, Knows, Opt, At, Returned

\* Faithful lasts until something fails.
LEMMA FaithfulKept ==
  ASSUME TypeInv, Named, CoherentInv, NothingLeftInv, FaithfulInv, [Next]_vars
  PROVE  FaithfulInv'
<1> SUFFICES ASSUME Uninterrupted' PROVE Faithful'
  BY DEF FaithfulInv
<1>0. ASSUME UNCHANGED <<restarts, faults>> PROVE Faithful /\ NothingLeft /\ Coherent
  BY <1>0 DEF FaithfulInv, NothingLeftInv, CoherentInv, Uninterrupted
<1>1. ASSUME NEW c \in Conns, NEW s \in Workload, Begin(c, s) PROVE Faithful'
  BY <1>0, <1>1, BeginFaithful DEF Begin
<1>2. ASSUME NEW c \in Conns, CallStep(c) PROVE Faithful'
  BY <1>0, <1>2, CallKeeps, CallFaithful, FaithfulNext DEF CallStep, budgets
<1>3. ASSUME NEW c \in Conns, Handle(c) PROVE Faithful'
  BY <1>0, <1>3, HandleBudgets, HandleFaithful
<1>4. ASSUME NEW c \in Conns, Fault(c) PROVE FALSE
  BY <1>4 DEF Fault, TypeInv, TypeOK, Uninterrupted
<1>5. CASE Restart
  BY <1>5 DEF Restart, TypeInv, TypeOK, Uninterrupted
<1>6. CASE UNCHANGED vars
  BY <1>0, <1>6, FaithfulStutter DEF vars
<1> QED BY <1>1, <1>2, <1>3, <1>4, <1>5, <1>6 DEF Next, Quiet

----------------------------------------------------------------------------
(* The mapping.  Only the handler that has a table in hand decides where   *)
(* the table is to be looked for; a step of another one does not show.     *)

TablesNow == [t \in Tables |-> TableNow(t)]
HeldRows == [c \in Conns |-> HeldNow(c)]

Works(c, t) ==
  \/ Creates(c, t) \/ Edits(c, t) \/ BringsSchema(c, t) \/ BringsCounter(c, t)
  \/ Recreates(c, t)

\* A table as one handler sees it.
SchemaSeen(c, t) ==
  IF Creates(c, t) THEN heap[call[c].ptr].items
  ELSE IF Edits(c, t) THEN heap[conn[c].ptr].items
  ELSE docs[IF BringsSchema(c, t) THEN conn[c].tab ELSE t]

TableSeen(c, t) ==
  IF t \in colls \/ Recreates(c, t)
    THEN [schema |-> SchemaSeen(c, t), rows |-> rows[t],
          counter |-> seq[IF BringsCounter(c, t) THEN conn[c].tab ELSE t]]
    ELSE None

\* The one element of a set is the one that is chosen.
LEMMA OnlyOne ==
  ASSUME NEW S, NEW c \in S, NEW T \in SUBSET S, \A d \in S \ {c} : d \notin T
  PROVE  T = {} \/ (T # {} /\ c \in T /\ (CHOOSE d \in T : TRUE) = c)
<1>1. \A d : d \in T => (CHOOSE e \in T : TRUE) \in T
  OBVIOUS
<1> QED BY <1>1

\* Who works on a table changes schemas and has the table in hand.
LEMMA WorksReached ==
  ASSUME TypeInv, Named, NEW c \in Conns, NEW t \in Tables, Works(c, t)
  PROVE  Changes(c) /\ t \in Reach(c)
<1>t. Stays(c) /\ HandlerFits(conn[c])
  BY Typed DEF Named
<1>1. CASE conn[c].pc \in RenamePCs /\ t = Opt(c).to
  BY <1>1, RenameReach
<1>2. CASE conn[c].pc \in {"createIndexes", "option", "store", "finish", "recreate"} /\ t = conn[c].tab
  BY <1>t, <1>2, NoneIsDistinct DEF Stays, HandlerFits, Changes, DataPCs
<1> QED BY <1>1, <1>2 DEF Works, Creates, Edits, BringsSchema, BringsCounter, Recreates, RenamePCs

\* With nobody else at work on it, a table is what c sees of it.
LEMMA Seen ==
  ASSUME NEW c \in Conns, NEW t \in Tables, \A d \in Conns \ {c} : ~Works(d, t)
  PROVE  TableNow(t) = TableSeen(c, t)
<1> DEFINE creators == {d \in Conns : Creates(d, t)}
           editors == {d \in Conns : Edits(d, t)}
           schemas == {d \in Conns : BringsSchema(d, t)}
           counters == {d \in Conns : BringsCounter(d, t)}
           Sole(T) == T = {} \/ (T # {} /\ c \in T /\ (CHOOSE d \in T : TRUE) = c)
<1>1. Sole(creators) /\ Sole(editors) /\ Sole(schemas) /\ Sole(counters)
  <2>1. \A T \in SUBSET Conns : (\A d \in Conns \ {c} : d \notin T) => Sole(T)
    BY OnlyOne
  <2> HIDE DEF Sole
  <2> QED BY <2>1 DEF Works
<1>2. /\ creators = {} <=> ~Creates(c, t)
      /\ editors = {} <=> ~Edits(c, t)
      /\ schemas = {} <=> ~BringsSchema(c, t)
      /\ counters = {} <=> ~BringsCounter(c, t)
  BY DEF Works
<1>3. SchemaNow(t) = SchemaSeen(c, t)
  BY <1>1, <1>2 DEF SchemaNow, SchemaSeen, Home
<1>4. Home(t, counters) = IF BringsCounter(c, t) THEN conn[c].tab ELSE t
  BY <1>1, <1>2 DEF Home
<1>5. Exists(t) <=> t \in colls \/ Recreates(c, t)
  BY DEF Exists, Works
<1> QED BY <1>3, <1>4, <1>5 DEF TableNow, TableSeen

\* What the lemmas above say of the state a step leads to.
OwnWork == \A c \in Conns, t \in Tables : Works(c, t) => Changes(c) /\ t \in Reach(c)
OwnView ==
  \A c \in Conns, t \in Tables :
    (\A d \in Conns \ {c} : ~Works(d, t)) => TableNow(t) = TableSeen(c, t)

\* WorksReached and Seen, to be used of the next state.
LEMMA Views == TypeInv /\ Named => OwnWork /\ OwnView
BY WorksReached, Seen DEF OwnWork, OwnView

\* The same of the next state.
LEMMA ViewsNext == TypeInv' /\ Named' => OwnWork' /\ OwnView'
BY Views, PTL

\* What c sees of its own tables is all there is to see.
LEMMA InHand ==
  ASSUME TypeInv, Named, TypeInv', Named', NEW c \in Conns, Keeps(c),
         NEW t \in Tables, t \in Reach(c)
  PROVE  TableNow(t) = TableSeen(c, t) /\ TableNow(t)' = TableSeen(c, t)'
<1>1. ASSUME NEW d \in Conns \ {c} PROVE ~Works(d, t)
  BY Views DEF OwnWork, Named, Apart
<1>2. ASSUME NEW d \in Conns \ {c} PROVE Works(d, t)' <=> Works(d, t)
  BY DEF Keeps, Works, Creates, Edits, BringsSchema, BringsCounter, Recreates, At, Opt
<1> QED BY <1>1, <1>2, Views, ViewsNext DEF OwnView

\* And a table it does not work on looks the same after its step.
LEMMA Elsewhere ==
  ASSUME TypeInv, Named, TypeInv', Named', NEW c \in Conns, Keeps(c),
         NEW t \in Tables \ Reach(c)
  PROVE  TableNow(t)' = TableNow(t)
<1>t. UNCHANGED <<docs[t], rows[t], seq[t]>> /\ (t \in colls' <=> t \in colls)
  BY DEF Keeps
<1>1. ASSUME NEW d \in Conns \ {c}, Works(d, t)
      PROVE  TableNow(t)' = TableNow(t)
  <2>1. conn'[d] = conn[d] /\ call'[d] = call[d] /\ Opt(d)' = Opt(d)
    BY DEF Keeps, Opt
  <2>2. UNCHANGED <<Creates(d, t), Edits(d, t), BringsSchema(d, t), BringsCounter(d, t),
                    Recreates(d, t)>>
    BY <2>1 DEF Creates, Edits, BringsSchema, BringsCounter, Recreates, At
  <2>3. Works(d, t)'
    BY <1>1, <2>2 DEF Works
  <2>4. Changes(d) /\ t \in Reach(d) /\ Changes(d)' /\ t \in Reach(d)'
    BY <1>1, <2>3, Views, ViewsNext DEF OwnWork
  <2>5. ASSUME NEW e \in Conns \ {d} PROVE ~Works(e, t) /\ ~Works(e, t)'
    BY <2>4, Views, ViewsNext DEF OwnWork, Named, Apart
  <2>6. TableNow(t) = TableSeen(d, t) /\ TableNow(t)' = TableSeen(d, t)'
    BY <2>5, Views, ViewsNext DEF OwnView
  <2>7. /\ Creates(d, t) => heap'[call[d].ptr] = heap[call[d].ptr]
        /\ Edits(d, t) => heap'[conn[d].ptr] = heap[conn[d].ptr]
    <3>1. \A p \in Owned(d) : heap'[p] = heap[p]
      BY Undisturbed
    <3>2. At(d, "upsert") => call[d].ptr # None
      BY Typed DEF CallFits, At
    <3> QED BY <3>1, <3>2 DEF Creates, Edits, Owned
  <2>8. BringsSchema(d, t) \/ BringsCounter(d, t) =>
          docs'[conn[d].tab] = docs[conn[d].tab] /\ seq'[conn[d].tab] = seq[conn[d].tab]
    <3>1. BringsSchema(d, t) \/ BringsCounter(d, t) =>
            conn[d].tab \in Tables /\ conn[d].tab \notin Reach(c)
      BY Alone DEF BringsSchema, BringsCounter, RenamePCs
    <3> QED BY <3>1 DEF Keeps
  <2> QED BY <1>t, <2>1, <2>2, <2>6, <2>7, <2>8 DEF TableSeen, SchemaSeen
<1>2. ASSUME \A d \in Conns \ {c} : ~Works(d, t)
      PROVE  TableNow(t)' = TableNow(t)
  <2>1. ~Works(c, t) /\ ~Works(c, t)'
    <3>1. conn'[c].stmt \in {None, conn[c].stmt}
      BY DEF Keeps
    <3> QED BY <3>1, Views, ViewsNext DEF OwnWork, Reach, Changes
  <2>2. ASSUME NEW d \in Conns \ {c} PROVE ~Works(d, t)'
    BY <1>2 DEF Keeps, Works, Creates, Edits, BringsSchema, BringsCounter, Recreates, At, Opt
  <2>3. TableNow(t) = TableSeen(c, t) /\ TableNow(t)' = TableSeen(c, t)'
    BY <1>2, <2>2, Views, ViewsNext DEF OwnView
  <2> QED BY <1>t, <2>1, <2>3 DEF TableSeen, SchemaSeen, Works
<1> QED BY <1>1, <1>2

\* So a step that changes nothing of what c sees changes nothing at all, and one
\* that changes one table changes that table.
LEMMA NothingShows ==
  ASSUME TypeInv, Named, TypeInv', Named', NEW c \in Conns, Keeps(c),
         \A t \in Tables : t \in Reach(c) => TableSeen(c, t)' = TableSeen(c, t)
  PROVE  TablesNow' = TablesNow
<1>1. ASSUME NEW t \in Tables PROVE TableNow(t)' = TableNow(t)
  BY InHand, Elsewhere
<1> QED BY <1>1 DEF TablesNow

\* The same for one table.
LEMMA OneShows ==
  ASSUME TypeInv, Named, TypeInv', Named', NEW c \in Conns, Keeps(c),
         NEW t \in Tables, t \in Reach(c),
         \A u \in Tables \ {t} : u \in Reach(c) => TableSeen(c, u)' = TableSeen(c, u)
  PROVE  /\ TablesNow[t] = TableSeen(c, t)
         /\ TablesNow' = [TablesNow EXCEPT ![t] = TableSeen(c, t)']
<1>1. ASSUME NEW u \in Tables \ {t} PROVE TableNow(u)' = TableNow(u)
  BY <1>1, InHand, Elsewhere
<1>2. TableNow(t) = TableSeen(c, t) /\ TableNow(t)' = TableSeen(c, t)'
  BY InHand
<1> QED BY <1>1, <1>2 DEF TablesNow

\* And for the two names of a rename.
LEMMA TwoShow ==
  ASSUME TypeInv, Named, TypeInv', Named', NEW c \in Conns, Keeps(c),
         NEW t \in Tables, t \in Reach(c), NEW n \in Tables, n \in Reach(c), t # n,
         \A u \in Tables \ {t, n} : u \in Reach(c) => TableSeen(c, u)' = TableSeen(c, u)
  PROVE  /\ TablesNow[t] = TableSeen(c, t) /\ TablesNow[n] = TableSeen(c, n)
         /\ TablesNow' = [TablesNow EXCEPT ![n] = TableSeen(c, n)', ![t] = TableSeen(c, t)']
<1>1. ASSUME NEW u \in Tables \ {t, n} PROVE TableNow(u)' = TableNow(u)
  BY <1>1, InHand, Elsewhere
<1>2. /\ TableNow(t) = TableSeen(c, t) /\ TableNow(t)' = TableSeen(c, t)'
      /\ TableNow(n) = TableSeen(c, n) /\ TableNow(n)' = TableSeen(c, n)'
  BY InHand
<1> QED BY <1>1, <1>2 DEF TablesNow

\* Only an INSERT holds a row.
LEMMA NobodyHolds ==
  ASSUME NEW c \in Conns, Keeps(c), conn[c].pc # "insertMany", conn'[c].pc # "insertMany"
  PROVE  HeldRows' = HeldRows
<1>1. ASSUME NEW d \in Conns PROVE HeldNow(d)' = HeldNow(d)
  BY DEF Keeps, HeldNow
<1> QED BY <1>1 DEF HeldRows

\* No INSERT is under way into a table that a DDL statement works on.
LEMMA FreeHere ==
  ASSUME TypeInv, Named, NEW c \in Conns, Changes(c), NEW t \in Tables, t \in Reach(c)
  PROVE  Atomic!Free(t)
<1>1. ASSUME NEW d \in Conns, HeldRows[d] # None PROVE HeldRows[d].tab # t
  <2>1. conn[d].pc = "insertMany" /\ HeldRows[d].tab = conn[d].tab
    BY <1>1 DEF HeldRows, HeldNow
  <2>2. conn[d].tab # None /\ conn[d].tab \in Reach(d) /\ ~Changes(d)
    BY <2>1, Typed DEF HandlerFits, OneTablePCs, Named, Stays, DataPCs, Changes
  <2> QED BY <2>1, <2>2 DEF Named, Apart
<1> QED BY <1>1 DEF Atomic!Free, HeldRows

\* So a DDL statement may do to a table what the catalog lets one do.
LEMMA DefineStep ==
  ASSUME TypeInv, Named, NEW c \in Conns, Changes(c), NEW t \in Tables, t \in Reach(c),
         HeldRows' = HeldRows,
         \/ Atomic!Create(t) \/ Atomic!Emerge(t) \/ Atomic!Drop(t) \/ Atomic!Truncate(t)
         \/ Atomic!Alter(t) \/ Atomic!ForgetIds(t)
         \/ \E n \in Tables : Atomic!Rename(t, n)
  PROVE  Atomic!Step
BY FreeHere DEF Atomic!Step, Atomic!Define, HeldRows

----------------------------------------------------------------------------
(* The steps that do not show.                                             *)

Consistent == TypeInv /\ Named /\ Coherent /\ NothingLeft /\ Faithful

Unseen(c) == \A t \in Tables : t \in Reach(c) => TableSeen(c, t)' = TableSeen(c, t)

\* What a handler sees does not change while Get, Save and Delete run: Save stores
\* what the handler shows already, and Delete forgets what nobody sees.
LEMMA CallUnseen ==
  ASSUME Consistent, NEW c \in Conns, CallStep(c)
  PROVE  Unseen(c)
<1> DEFINE k == call[c]
           h == conn[c]
<1>t. /\ TypeInv /\ Named /\ Stays(c) /\ HoldsNamed(c) /\ HoldsCached(c) /\ Departed(c) /\ Arriving(c)
      /\ k \in Call /\ CallFits(k) /\ h \in Handler /\ HandlerFits(h)
      /\ call \in [Conns -> Call] /\ docs \in [Tables -> {None} \cup Listing]
      /\ heap \in [Ptrs -> {None} \cup TableSchema]
  BY Typed DEF Consistent, Named, Faithful, Coherent
<1>c. UNCHANGED <<conn, colls, rows, seq>> /\ Opt(c)' = Opt(c)
  BY DEF CallStep, Opt
<1>i. h.ptr # None => h.ptr \in Ptrs \ Fresh
  BY <1>t, InUse
<1>r. \A p : Return(c, p) => call'[c].at = "returned"
  BY <1>t DEF Return, NoCall
<1>a. \A at : call' = [call EXCEPT ![c].at = at] => call'[c].at = at /\ call'[c].ptr = k.ptr
  BY <1>t DEF Call
<1> SUFFICES ASSUME NEW t \in Tables, t \in Reach(c)
             PROVE  TableSeen(c, t)' = TableSeen(c, t)
  BY DEF Unseen
<1>w. /\ Edits(c, t)' <=> Edits(c, t)
      /\ BringsCounter(c, t)' <=> BringsCounter(c, t)
      /\ Recreates(c, t)' <=> Recreates(c, t)
  BY <1>c DEF Edits, BringsCounter, Recreates
<1>1. CASE Lookup(c) \/ FindMissing(c) \/ (\E p \in Fresh : FindDocument(c, p)) \/ Fill(c)
           \/ Publish(c) \/ Evict(c)
  <2>1. k.at # "upsert" /\ call'[c].at # "upsert" /\ UNCHANGED docs
    <3>1. k.at # "upsert" /\ UNCHANGED docs
      BY <1>1 DEF Lookup, FindMissing, FindDocument, Fill, Publish, Evict, At
    <3>2. CASE \E p \in Fresh : FindDocument(c, p)
      BY <1>t, <3>1, <3>2 DEF FindDocument, Call
    <3>3. CASE Lookup(c) \/ FindMissing(c) \/ Fill(c) \/ Publish(c) \/ Evict(c)
      BY <1>a, <1>r, <3>1, <3>3 DEF Lookup, FindMissing, Fill, Publish, Evict
    <3> QED BY <1>1, <3>1, <3>2, <3>3
  <2>2. \A p \in Ptrs \ Fresh : heap'[p] = heap[p]
    BY <1>1, <1>t DEF Lookup, FindMissing, FindDocument, Fill, Publish, Evict
  <2>3. ~Creates(c, t) /\ ~Creates(c, t)' /\ (BringsSchema(c, t)' <=> BringsSchema(c, t))
    BY <1>c, <2>1 DEF Creates, BringsSchema, At
  <2> QED BY <1>c, <1>i, <1>w, <2>1, <2>2, <2>3 DEF TableSeen, SchemaSeen, Edits
<1>2. CASE Upsert(c)
  <2>1. /\ At(c, "upsert") /\ heap' = heap /\ call'[c].at = "publish"
        /\ docs' = [docs EXCEPT ![heap[k.ptr].name] = heap[k.ptr].items]
        /\ h.pc \in {"createIndexes", "dropOld", "finish"} /\ k.ptr # None
    BY <1>2, <1>a, <1>t DEF Upsert, Stays, CallPCs, CallFits, At
  <2>2. h.tab # None
    <3>1. heap[k.ptr].name \in Tables
      BY <1>t, <2>1 DEF CallFits, Call, TableSchema
    <3> QED BY <1>t, <2>1, <3>1, NoneIsDistinct DEF HoldsNamed, HandlerFits, OneTablePCs, RenamePCs
  <2>3. h.tab \in Tables
    BY <1>t, <2>2, OwnTable
  <2>4. ~Creates(c, t)' /\ ~BringsSchema(c, t)'
    BY <1>c, <2>1 DEF Creates, BringsSchema, At
  <2>5. CASE h.pc \in {"createIndexes", "finish"}
    <3>1. heap[k.ptr].name = h.tab /\ docs' = [docs EXCEPT ![h.tab] = heap[k.ptr].items]
      BY <1>t, <2>1, <2>5 DEF HoldsNamed
    <3>2. ~BringsSchema(c, t)
      BY <2>5 DEF BringsSchema
    <3>3. h.pc = "finish" => h.ptr # None
      BY <1>t DEF HoldsCached
    <3>4. docs'[t] = IF t = h.tab THEN heap[k.ptr].items ELSE docs[t]
      BY <1>t, <2>3, <3>1
    <3>5. Edits(c, t) <=> h.pc = "finish" /\ t = h.tab
      BY <2>5, <3>3 DEF Edits
    <3>6. Creates(c, t) <=> h.pc = "createIndexes" /\ t = h.tab
      BY <2>1 DEF Creates
    <3> QED BY <1>c, <1>w, <2>1, <2>4, <2>5, <3>2, <3>4, <3>5, <3>6 DEF TableSeen, SchemaSeen
  <2>6. CASE h.pc = "dropOld"
    <3>1. /\ heap[k.ptr].name = Opt(c).to /\ heap[k.ptr].items = docs[h.tab]
          /\ h.tab \notin colls
      BY <1>t, <2>1, <2>6 DEF HoldsNamed, Arriving, Departed, RenamePCs
    <3>2. Opt(c).to \in Tables
      BY <1>t, <2>6, RenameReach DEF RenamePCs
    <3>3. docs'[t] = IF t = Opt(c).to THEN docs[h.tab] ELSE docs[t]
      BY <1>t, <2>1, <3>1, <3>2
    <3>4. ~Creates(c, t) /\ ~Edits(c, t) /\ (BringsSchema(c, t) <=> t = Opt(c).to)
      BY <2>1, <2>6 DEF Creates, Edits, BringsSchema
    <3> QED BY <1>c, <1>w, <2>4, <2>6, <3>3, <3>4 DEF TableSeen, SchemaSeen
  <2> QED BY <2>1, <2>5, <2>6
<1>3. CASE Erase(c)
  <2>1. /\ k.at = "erase" /\ heap' = heap /\ call'[c].at = "returned"
        /\ docs' = [docs EXCEPT ![k.tab] = None]
        /\ h.pc \in {"dropCounter", "findCounter"}
    BY <1>3, <1>r, <1>t DEF Erase, Stays, CallPCs, At
  <2>2. k.tab = h.tab /\ h.tab \notin colls
    BY <1>t, <2>1 DEF Stays, CallFits, Departed, RenamePCs
  <2>3. ~Creates(c, t) /\ ~Edits(c, t) /\ ~BringsSchema(c, t) /\ ~Recreates(c, t)
        /\ ~Creates(c, t)' /\ ~BringsSchema(c, t)'
    BY <1>c, <2>1 DEF Creates, Edits, BringsSchema, Recreates
  <2>4. t = h.tab \/ docs'[t] = docs[t]
    BY <1>t, <2>1, <2>2
  <2> QED BY <1>c, <1>w, <2>2, <2>3, <2>4 DEF TableSeen, SchemaSeen
<1> QED BY <1>1, <1>2, <1>3 DEF CallStep, StoreStep

\* Steps outside of the ones that edit, move or create a table.
LEMMA AsideUnseen ==
  ASSUME NEW c \in Conns, NEW t \in Tables, UNCHANGED <<docs, rows, seq>>,
         t \in colls' <=> t \in colls, ~Works(c, t), ~Works(c, t)'
  PROVE  TableSeen(c, t)' = TableSeen(c, t)
BY DEF TableSeen, SchemaSeen, Works

\* Where a handler stands that works on no table.
IdlingPCs ==
  {"idle", "check", "create", "truncate", "dropDatabase", "start", "load", "dropCounter",
   "deleteCounter"}
  \cup DataPCs

\* At these stages no table is in hand.
LEMMA Idling ==
  ASSUME NEW c \in Conns, NEW t,
         conn[c].pc \in IdlingPCs \/ (conn[c].pc = "option" /\ conn[c].ptr = None)
  PROVE  ~Works(c, t)
BY DEF IdlingPCs, DataPCs, Works, Creates, Edits, BringsSchema, BringsCounter, Recreates

\* What this says of the state a step leads to.
NoWork ==
  \A c \in Conns, t \in Tables :
    conn[c].pc \in IdlingPCs \/ (conn[c].pc = "option" /\ conn[c].ptr = None) => ~Works(c, t)

\* Idling, of both states of a step.
LEMMA IdlingNext == NoWork /\ NoWork'
<1>1. NoWork
  BY Idling DEF NoWork
<1> QED BY <1>1, PTL

\* Steps before and after the work on a table, and those that find it done.
LEMMA OutsideUnseen ==
  ASSUME Consistent, NEW c \in Conns,
         CheckExists(c) \/ CreateFails(c) \/ CreateIndexes(c) \/ TruncateCreate(c) \/ UpdateMany(c)
  PROVE  Unseen(c)
<1> DEFINE h == conn[c]
<1>t. /\ TypeInv /\ Named /\ Present(c) /\ HandlerFits(h) /\ Stays(c) /\ h \in Handler
  BY Typed DEF Consistent, Named, NothingLeft
<1>1. UNCHANGED <<docs, rows, seq>>
  BY DEF CheckExists, CreateFails, CreateIndexes, TruncateCreate, UpdateMany, Indexed, mongoVars
<1>2. conn'[c].pc \in IdlingPCs
  BY Ends, GoesOn, <1>t DEF CheckExists, CreateFails, CreateIndexes, TruncateCreate, UpdateMany,
     IdlingPCs
<1> SUFFICES ASSUME NEW t \in Tables, t \in Reach(c)
             PROVE  TableSeen(c, t)' = TableSeen(c, t)
  BY DEF Unseen
<1>3. ~Works(c, t)'
  BY <1>2, IdlingNext DEF NoWork
<1>4. CASE CheckExists(c) \/ CreateFails(c) \/ UpdateMany(c)
  <2>1. colls' = colls /\ h.pc \in IdlingPCs
    BY <1>4 DEF CheckExists, CreateFails, UpdateMany, Running, mongoVars, IdlingPCs, DataPCs
  <2> QED BY <1>1, <1>3, <2>1, Idling, AsideUnseen
<1>5. CASE CreateIndexes(c)
  <2>1. h.pc = "createIndexes" /\ Returned(c) /\ h.tab \in colls
    BY <1>t, <1>5 DEF CreateIndexes, Running, Present
  <2>2. colls' = colls
    BY <1>5, <2>1 DEF CreateIndexes, Indexed
  <2>3. ~Works(c, t)
    BY <2>1 DEF Works, Creates, Edits, BringsSchema, BringsCounter, Recreates, At, Returned
  <2> QED BY <1>1, <1>3, <2>2, <2>3, AsideUnseen
<1>6. CASE TruncateCreate(c)
  <2>1. h.pc = "recreate" /\ colls' = colls \cup {h.tab}
    BY <1>6 DEF TruncateCreate, Running
  <2>2. /\ ~Creates(c, t) /\ ~Edits(c, t) /\ ~BringsSchema(c, t) /\ ~BringsCounter(c, t)
        /\ Recreates(c, t) <=> t = h.tab
    BY <2>1 DEF Creates, Edits, BringsSchema, BringsCounter, Recreates
  <2> QED BY <1>1, <1>3, <2>1, <2>2 DEF TableSeen, SchemaSeen, Works
<1> QED BY <1>4, <1>5, <1>6

\* A handler that takes up the schema of its table finds it as it is stored.
LEMMA TakesUp ==
  ASSUME Consistent, NEW c \in Conns, Start(c) \/ Load(c)
  PROVE  Unseen(c)
<1> DEFINE h == conn[c]
           p == call[c].ptr
<1>t. /\ TypeInv /\ Named /\ Coherent /\ Stays(c) /\ HandlerFits(h) /\ HoldsCached(c) /\ GetsCached(c)
      /\ conn \in [Conns -> Handler] /\ h \in Handler /\ h.tab \in {None} \cup Tables
  BY Typed DEF Consistent, Named, Coherent
<1>1. /\ UNCHANGED <<heap, docs, colls, rows, seq>> /\ h.pc \in {"start", "load"} /\ Returned(c)
  BY DEF Start, Load, Running, mongoVars
<1>2. conn'[c].pc \in {"option", "store"} /\ conn'[c].tab = h.tab /\ conn'[c].ptr = p
  <2>1. CASE Start(c)
    BY <1>t, <2>1 DEF Start, Handler
  <2>2. CASE Load(c)
    <3>1. h.ptr = None
      <4>1. h.rest # <<>> /\ h.stmt.kind = "index"
        <5>1. h.pc = "load" /\ h.rest # <<>> /\ Opt(c).op \in {"createIndex", "removeIndex"}
          BY <1>t, <2>2 DEF Load, Running, HandlerFits, Opt
        <5>2. Opt(c) \notin AlterOption \cup RenamePair \cup DropName
          BY <5>1 DEF AlterOption, RenamePair, DropName
        <5> QED BY <1>t, <5>1, <5>2 DEF HandlerFits, OptionsFit, Opt
      <4> QED BY <1>t, <2>2, <4>1 DEF HoldsCached, Load, Running
    <3> QED BY <1>t, <2>2, <3>1, LoadsOn DEF Load
  <2> QED BY <2>1, <2>2
<1>3. h.tab \in Tables /\ h.tab \in Reach(c)
  BY <1>t, <1>1, OwnTable DEF HandlerFits, OneTablePCs
<1>4. p # None => heap[p].items = docs[h.tab]
  <2>1. p # None => cache[h.tab] = p
    BY <1>t, <1>1 DEF GetsCached
  <2>2. ~Open(c, h.tab)
    BY <1>1 DEF Open
  <2> QED BY <1>t, <1>3, <2>1, <2>2, HeldDocument
<1> SUFFICES ASSUME NEW t \in Tables, t \in Reach(c)
             PROVE  TableSeen(c, t)' = TableSeen(c, t)
  BY DEF Unseen
<1>5. ~Works(c, t)
  BY <1>1, Idling DEF IdlingPCs
<1>6. /\ ~Creates(c, t)' /\ ~BringsSchema(c, t)' /\ ~BringsCounter(c, t)' /\ ~Recreates(c, t)'
      /\ Edits(c, t)' => t = h.tab /\ p # None
  BY <1>2 DEF Creates, BringsSchema, BringsCounter, Recreates, Edits
<1> QED BY <1>1, <1>2, <1>4, <1>5, <1>6 DEF TableSeen, SchemaSeen, Works

\* An option reads the schema it will edit, and does not change it yet.
LEMMA LoadsUnseen ==
  ASSUME Consistent, NEW c \in Conns, conn[c].pc = "option", Loads(c, conn[c].ptr),
         UNCHANGED <<heap, docs, seq>>, NEW t \in Tables,
         t \in colls' <=> t \in colls, rows'[t] = rows[t]
  PROVE  TableSeen(c, t)' = TableSeen(c, t)
<1>1. /\ conn'[c].pc \in {"option", "store"} /\ conn'[c].tab = conn[c].tab
      /\ conn'[c].ptr = conn[c].ptr
  BY LoadsOn DEF Consistent
<1>2. /\ ~Creates(c, t) /\ ~BringsSchema(c, t) /\ ~BringsCounter(c, t) /\ ~Recreates(c, t)
      /\ ~Creates(c, t)' /\ ~BringsSchema(c, t)' /\ ~BringsCounter(c, t)' /\ ~Recreates(c, t)'
      /\ Edits(c, t)' <=> Edits(c, t)
  BY <1>1 DEF Creates, BringsSchema, BringsCounter, Recreates, Edits
<1> QED BY <1>1, <1>2 DEF TableSeen, SchemaSeen

\* Reading is all that ADD and MODIFY COLUMN and DROP INDEX do at first.
LEMMA OptionUnseen ==
  ASSUME Consistent, NEW c \in Conns, AddColumn(c) \/ ModifyColumn(c) \/ DropKey(c)
  PROVE  Unseen(c)
BY LoadsUnseen DEF Unseen, AddColumn, ModifyColumn, DropKey, Unindexed, AtOption, Running, mongoVars

\* A statement that ends leaves the schema as it has stored it, or as it found it.
LEMMA EndUnseen ==
  ASSUME Consistent, Orderly, NEW c \in Conns, EndOptions(c) \/ Finished(c) \/ RenameFails(c)
  PROVE  Unseen(c)
<1> DEFINE h == conn[c]
<1>t. /\ TypeInv /\ Named /\ Coherent /\ Stays(c) /\ HandlerFits(h) /\ HoldsCached(c)
  BY Typed DEF Consistent, Named, Coherent
<1>1. UNCHANGED <<heap, docs, colls, rows, seq>> /\ h.pc \in {"option", "finish"} /\ Returned(c)
  BY DEF EndOptions, Finished, RenameFails, Running, AtOption, mongoVars
<1> SUFFICES ASSUME NEW t \in Tables, t \in Reach(c)
             PROVE  TableSeen(c, t)' = TableSeen(c, t)
  BY DEF Unseen
<1>2. ~Creates(c, t) /\ ~BringsSchema(c, t) /\ ~BringsCounter(c, t) /\ ~Recreates(c, t)
  BY <1>1 DEF Creates, BringsSchema, BringsCounter, Recreates
<1>3. CASE Finish(c)
  <2>1. ~Works(c, t)'
    BY <1>t, <1>3, Ends, IdlingNext DEF NoWork, IdlingPCs
  <2>2. ASSUME h.ptr # None PROVE ~Open(c, h.tab)
    <3>1. CASE Finished(c)
      BY <1>1, <3>1 DEF Finished, Running, Open
    <3>2. CASE EndOptions(c)
      <4>1. h.rest = h.stmt.opts
        <5>1. conn'[c].pc = "idle"
          BY <1>t, <1>3, Ends
        <5>2. Goto(c, "finish") => conn'[c].pc = "finish"
          BY <1>t, GoesOn
        <5> QED BY <2>2, <3>2, <5>1, <5>2 DEF EndOptions
      <4> QED BY <1>1, <3>2, <4>1 DEF EndOptions, Running, Open
    <3>3. CASE RenameFails(c)
      <4>1. h.stmt.kind \in {"alter", "index"} /\ h.rest # <<>> /\ Opt(c).op = "rename"
            /\ h.pc = "option"
        BY <1>t, <2>2, <3>3 DEF Stays, RenameFails, AtOption, Opt, Running
      <4>2. h.rest = h.stmt.opts
        BY <1>t, <4>1, FirstOption
      <4> QED BY <4>1, <4>2 DEF Open
    <3> QED BY <3>1, <3>2, <3>3
  <2>3. Edits(c, t) => heap[h.ptr].items = docs[t]
    BY <1>t, <1>1, <2>2, HeldAtHand DEF Edits
  <2> QED BY <1>1, <1>2, <2>1, <2>3 DEF TableSeen, SchemaSeen, Works
<1>4. CASE ~Finish(c)
  <2>1. Goto(c, "finish") /\ h.pc = "option"
    BY <1>4 DEF EndOptions, Finished, RenameFails, Running
  <2>2. conn'[c].pc = "finish" /\ conn'[c].tab = h.tab /\ conn'[c].ptr = h.ptr
    BY <1>t, <2>1, GoesOn
  <2>3. /\ ~Creates(c, t)' /\ ~BringsSchema(c, t)' /\ ~BringsCounter(c, t)' /\ ~Recreates(c, t)'
        /\ Edits(c, t)' <=> Edits(c, t)
    BY <2>1, <2>2 DEF Creates, BringsSchema, BringsCounter, Recreates, Edits
  <2> QED BY <1>1, <1>2, <2>2, <2>3 DEF TableSeen, SchemaSeen
<1> QED BY <1>3, <1>4

\* The rest of renameCollection, and of DROP TABLE: the schema and the counter
\* of a table that has its new name already are moved.
LEMMA MovesUnseen ==
  ASSUME Consistent, NEW c \in Conns,
         \/ MigrateSchema(c) \/ DropOldSchema(c) \/ (FindCounter(c) /\ ~Renamed(c)) \/ SetCounter(c)
  PROVE  Unseen(c)
<1> DEFINE h == conn[c]
           p == call[c].ptr
           to == Opt(c).to
<1>t. /\ TypeInv /\ Named /\ Coherent /\ Stays(c) /\ HandlerFits(h) /\ CallFits(call[c])
      /\ Arriving(c) /\ Departed(c) /\ Cleared(c) /\ call[c] \in Call
      /\ conn \in [Conns -> Handler] /\ call \in [Conns -> Call] /\ h \in Handler
      /\ heap \in [Ptrs -> {None} \cup TableSchema] /\ seq \in [Tables -> Nat]
  BY Typed DEF Consistent, Named, Coherent, Faithful, NothingLeft, TypeInv, TypeOK
<1>1. /\ UNCHANGED <<docs, colls, rows>> /\ Returned(c)
      /\ h.pc \in {"migrate", "dropOld", "findCounter", "setCounter"}
  BY DEF MigrateSchema, DropOldSchema, FindCounter, SetCounter, Running, mongoVars, collVars
<1>2. to \in Tables /\ h.tab \in Tables /\ h.tab # to /\ h.tab \notin colls
  BY <1>t, <1>1, RenameReach DEF Departed, RenamePCs
<1>g. \A pc : Goto(c, pc) => conn'[c].pc = pc /\ conn'[c].tab = h.tab /\ Opt(c)' = Opt(c)
  BY <1>t, GoesOn DEF Opt
<1> SUFFICES ASSUME NEW t \in Tables, t \in Reach(c)
             PROVE  TableSeen(c, t)' = TableSeen(c, t)
  BY DEF Unseen
<1>3. /\ ~Creates(c, t) /\ ~Edits(c, t) /\ ~Recreates(c, t)
      /\ BringsSchema(c, t) <=> h.pc = "migrate" /\ t = to
      /\ BringsCounter(c, t) <=> t = to
  BY <1>1 DEF Creates, Edits, Recreates, BringsSchema, BringsCounter, At, Returned
<1>4. CASE MigrateSchema(c) /\ p = None
  <2>1. h.pc = "migrate" /\ Goto(c, "findCounter") /\ seq' = seq
    BY <1>4 DEF MigrateSchema, Running, mongoVars
  <2>2. docs[h.tab] = None /\ docs[to] = None
    BY <1>t, <1>1, <1>4, <2>1 DEF Cleared, Arriving
  <2>3. /\ ~Creates(c, t)' /\ ~Edits(c, t)' /\ ~Recreates(c, t)' /\ ~BringsSchema(c, t)'
        /\ BringsCounter(c, t)' <=> t = to
    BY <1>g, <2>1 DEF Creates, Edits, Recreates, BringsSchema, BringsCounter
  <2> QED BY <1>1, <1>2, <1>3, <1>g, <2>1, <2>2, <2>3 DEF TableSeen, SchemaSeen
<1>5. CASE MigrateSchema(c) /\ p # None
  <2>1. h.pc = "migrate" /\ Goto(c, "dropOld") /\ seq' = seq /\ call'[c].at = "upsert"
    BY <1>t, <1>5 DEF MigrateSchema, Running, mongoVars, Begins, SaveOf
  <2>2. /\ ~Creates(c, t)' /\ ~Edits(c, t)' /\ ~Recreates(c, t)' /\ (BringsSchema(c, t)' <=> t = to)
        /\ BringsCounter(c, t)' <=> t = to
    BY <1>g, <2>1 DEF Creates, Edits, Recreates, BringsSchema, BringsCounter, At
  <2> QED BY <1>1, <1>2, <1>3, <1>g, <2>1, <2>2 DEF TableSeen, SchemaSeen
<1>6. CASE DropOldSchema(c)
  <2>1. h.pc = "dropOld" /\ Goto(c, "findCounter") /\ seq' = seq
    BY <1>6 DEF DropOldSchema, Running, mongoVars
  <2>2. /\ ~Creates(c, t)' /\ ~Edits(c, t)' /\ ~Recreates(c, t)' /\ ~BringsSchema(c, t)'
        /\ BringsCounter(c, t)' <=> t = to
    BY <1>g, <2>1 DEF Creates, Edits, Recreates, BringsSchema, BringsCounter
  <2> QED BY <1>1, <1>2, <1>3, <1>g, <2>1, <2>2 DEF TableSeen, SchemaSeen
<1>7. CASE FindCounter(c) /\ ~Renamed(c)
  <2>1. /\ h.pc = "findCounter" /\ seq' = seq
        /\ conn' = [conn EXCEPT ![c].pc = "setCounter", ![c].id = seq[h.tab]]
    BY <1>7 DEF FindCounter, Running, mongoVars
  <2>2. conn'[c].pc = "setCounter" /\ conn'[c].tab = h.tab /\ Opt(c)' = Opt(c)
    BY <1>t, <2>1 DEF Handler, Opt
  <2>3. /\ ~Creates(c, t)' /\ ~Edits(c, t)' /\ ~Recreates(c, t)' /\ ~BringsSchema(c, t)'
        /\ BringsCounter(c, t)' <=> t = to
    BY <2>2 DEF Creates, Edits, Recreates, BringsSchema, BringsCounter
  <2> QED BY <1>1, <1>2, <1>3, <2>1, <2>2, <2>3 DEF TableSeen, SchemaSeen
<1>8. CASE SetCounter(c)
  <2>1. h.pc = "setCounter" /\ Goto(c, "deleteCounter") /\ seq' = [seq EXCEPT ![to] = h.id]
    BY <1>8 DEF SetCounter, Running
  <2>2. seq'[to] = seq[h.tab] /\ (t # to => seq'[t] = seq[t])
    BY <1>t, <1>2, <2>1 DEF Arriving
  <2>3. ~Works(c, t)'
    BY <1>g, <2>1, IdlingNext DEF NoWork, IdlingPCs
  <2> QED BY <1>1, <1>2, <1>3, <2>1, <2>2, <2>3 DEF TableSeen, SchemaSeen, Works
<1> QED BY <1>4, <1>5, <1>6, <1>7, <1>8

\* When they are there, ALTER TABLE goes on with the new name.
LEMMA RenamedUnseen ==
  ASSUME Consistent, NEW c \in Conns, Renamed(c), FindCounter(c) \/ DeleteCounter(c)
  PROVE  Unseen(c)
<1> DEFINE h == conn[c]
           to == Opt(c).to
<1>t. /\ TypeInv /\ Named /\ Coherent /\ HoldsNamed(c) /\ HoldsCached(c) /\ HandlerFits(h)
      /\ Arriving(c) /\ Departed(c)
      /\ heap \in [Ptrs -> {None} \cup TableSchema] /\ seq \in [Tables -> Nat] /\ h \in Handler
  BY Typed DEF Consistent, Named, Coherent, Faithful, TypeInv, TypeOK
<1>1. /\ UNCHANGED <<docs, colls, rows>> /\ Returned(c) /\ h.pc \in {"findCounter", "deleteCounter"}
  BY DEF FindCounter, DeleteCounter, Running, mongoVars, collVars
<1>2. /\ to \in Tables /\ to \in Reach(c) /\ h.tab \in Tables /\ h.tab # to /\ h.tab \notin colls
  BY <1>t, <1>1, RenameReach DEF Departed, RenamePCs
<1>3. conn'[c].pc = "option" /\ conn'[c].tab = to /\ conn'[c].ptr = h.ptr
  BY <1>t, EndsRename
<1>4. h.ptr # None => heap'[h.ptr].items = docs[to]
  <2>1. h.ptr # None => heap[h.ptr].items = docs[to] /\ h.ptr \in Ptrs /\ heap[h.ptr] \in TableSchema
    <3>1. h.ptr # None => cache[to] = h.ptr
      BY <1>t, <1>1 DEF HoldsCached, CounterPCs
    <3>2. ~Open(c, to)
      BY <1>1 DEF Open, At, Returned
    <3> QED BY <1>t, <1>2, <3>1, <3>2, HeldDocument
  <2> QED BY <1>t, <2>1 DEF Renamed, TableSchema
<1> SUFFICES ASSUME NEW t \in Tables, t \in Reach(c)
             PROVE  TableSeen(c, t)' = TableSeen(c, t)
  BY DEF Unseen
<1>5. /\ ~Creates(c, t) /\ ~Edits(c, t) /\ ~Recreates(c, t) /\ ~BringsSchema(c, t)
      /\ BringsCounter(c, t) <=> h.pc = "findCounter" /\ t = to
  BY <1>1 DEF Creates, Edits, Recreates, BringsSchema, BringsCounter
<1>6. /\ ~Creates(c, t)' /\ ~Recreates(c, t)' /\ ~BringsSchema(c, t)' /\ ~BringsCounter(c, t)'
      /\ Edits(c, t)' => t = to /\ h.ptr # None
  BY <1>3 DEF Creates, Edits, Recreates, BringsSchema, BringsCounter
<1>7. t \in colls => seq'[t] = IF BringsCounter(c, t) THEN seq[h.tab] ELSE seq[t]
  <2>1. CASE FindCounter(c)
    <3>1. h.pc = "findCounter" /\ seq' = seq
      BY <2>1 DEF FindCounter, Running, mongoVars
    <3>2. seq[h.tab] = 0
      <4>1. ~(conn' = [conn EXCEPT ![c].pc = "setCounter", ![c].id = seq[h.tab]])
        BY <1>t, <1>3, Typed DEF Handler
      <4> QED BY <2>1, <4>1 DEF FindCounter
    <3>3. seq[to] = 0
      BY <1>t, <3>1 DEF Arriving, ArrivingPCs
    <3> QED BY <1>5, <3>1, <3>2, <3>3
  <2>2. CASE DeleteCounter(c)
    <3>1. h.pc = "deleteCounter" /\ seq' = [seq EXCEPT ![h.tab] = 0]
      BY <2>2 DEF DeleteCounter, Running
    <3> QED BY <1>t, <1>2, <1>5, <3>1
  <2> QED BY <2>1, <2>2
<1> QED BY <1>1, <1>3, <1>4, <1>5, <1>6, <1>7 DEF TableSeen, SchemaSeen

\* DROP TABLE deletes the counter of a table that is gone already.
LEMMA DropCounterUnseen ==
  ASSUME Consistent, NEW c \in Conns, DropCounter(c)
  PROVE  Unseen(c)
<1>t. /\ TypeInv /\ Departed(c) /\ HoldsCached(c) /\ HandlerFits(conn[c]) /\ seq \in [Tables -> Nat]
  BY Typed DEF Consistent, Faithful, Coherent, TypeInv, TypeOK
<1>1. /\ conn[c].pc = "dropCounter" /\ UNCHANGED <<docs, colls, rows>>
      /\ seq' = [seq EXCEPT ![conn[c].tab] = 0] /\ conn[c].tab \notin colls /\ conn[c].ptr = None
  BY <1>t DEF DropCounter, Running, collVars, Departed, HoldsCached
<1>2. conn'[c].pc = "option" /\ conn'[c].ptr = None
  BY <1>t, <1>1, GoesToNext DEF DropCounter
<1> SUFFICES ASSUME NEW t \in Tables, t \in Reach(c)
             PROVE  TableSeen(c, t)' = TableSeen(c, t)
  BY DEF Unseen
<1>3. ~Works(c, t) /\ ~Works(c, t)'
  BY <1>1, <1>2, IdlingNext DEF NoWork, IdlingPCs
<1>4. t \in colls => seq'[t] = seq[t]
  BY <1>t, <1>1
<1> QED BY <1>1, <1>3, <1>4 DEF TableSeen, SchemaSeen, Works

----------------------------------------------------------------------------
(* The steps that show.                                                    *)

\* Any step of c is one of the catalog, or does not show.
Mapped == Atomic!Step \/ UNCHANGED <<TablesNow, HeldRows>>

\* Steps that do not show are stutters of the catalog.
LEMMA UnseenMapped ==
  ASSUME Consistent, TypeInv', Named', NEW c \in Conns, Keeps(c), Unseen(c),
         conn[c].pc # "insertMany", conn'[c].pc # "insertMany"
  PROVE  Mapped
BY NothingShows, NobodyHolds DEF Consistent, Unseen, Mapped

\* Nothing is left of an earlier table where a new one is created.
LEMMA NothingUnder ==
  ASSUME Consistent, NEW c \in Conns, NEW t \in Tables, t \in Reach(c), t \notin colls,
         conn[c].pc \notin RenamePCs \cup {"dropCounter", "recreate"}
  PROVE  docs[t] = None /\ rows[t] = {} /\ seq[t] = 0 /\ TableSeen(c, t) = None
<1>1. Gone(t)
  BY OwnLeft DEF Consistent, Vanishing
<1> QED BY <1>1 DEF Gone, Consistent, Faithful, TableSeen, Recreates

\* CREATE TABLE: with its collection a table has the schema that Save is about to
\* store.
LEMMA CreateMapped ==
  ASSUME Consistent, TypeInv', Named', NEW c \in Conns, Keeps(c),
         NEW p \in Fresh, CreateCollection(c, p)
  PROVE  Mapped
<1> DEFINE h == conn[c]
           s == h.stmt
<1>t. /\ TypeInv /\ Named /\ Stays(c) /\ Stamped(c) /\ HandlerFits(h) /\ h \in Handler
      /\ heap \in [Ptrs -> {None} \cup TableSchema] /\ p \in Ptrs /\ call \in [Conns -> Call]
  BY Typed DEF Consistent, Named, Faithful, Fresh
<1>0. h.pc = "create" /\ h.tab \in Tables /\ h.tab \in Reach(c) /\ s # None
  BY <1>t, OwnTable DEF CreateCollection, Running, HandlerFits, OneTablePCs
<1>z. PICK t \in Tables : t = h.tab
  BY <1>0
<1>1. /\ t \notin colls /\ colls' = colls \cup {t} /\ Returned(c)
      /\ UNCHANGED <<docs, rows, seq>> /\ Goto(c, "createIndexes")
      /\ IF s.items \subseteq Indexes
           THEN UNCHANGED <<heap, call>>
           ELSE /\ heap' = [heap EXCEPT ![p] = [name |-> t, items |-> Lists(s.items)]]
                /\ Begins(c, SaveOf(p))
  BY <1>z DEF CreateCollection, Running
<1>2. /\ t \in Tables /\ t \in Reach(c) /\ s \in Workload /\ s.kind = "create" /\ s.tab = t
      /\ Changes(c)
  <2>1. t \in Tables /\ t \in Reach(c) /\ s # None /\ s \in Workload /\ s.kind = "create"
    BY <1>t, <1>0, <1>z DEF Handler, Stamped
  <2>2. s.opts = <<>>
    BY <2>1, StatementShape
  <2>3. t \in TablesOf(s)
    BY <2>1 DEF Reach
  <2> QED BY <2>1, <2>2, <2>3 DEF TablesOf, Changes, IsDDL
<1>3. conn'[c].pc = "createIndexes" /\ conn'[c].tab = t
  BY <1>t, <1>1, <1>z, GoesOn
<1>4. docs[t] = None /\ rows[t] = {} /\ seq[t] = 0 /\ TableSeen(c, t) = None
  BY <1>0, <1>1, <1>2, NothingUnder DEF RenamePCs
<1>5. ASSUME NEW u \in Tables
      PROVE  /\ ~Edits(c, u)' /\ ~BringsSchema(c, u)' /\ ~BringsCounter(c, u)' /\ ~Recreates(c, u)'
             /\ Creates(c, u)' <=> u = t /\ At(c, "upsert")'
  BY <1>3 DEF Edits, BringsSchema, BringsCounter, Recreates, Creates
<1>6. SchemaSeen(c, t)' = SchemaOf(s)
  <2>1. CASE s.items \subseteq Indexes
    <3>1. ~At(c, "upsert")'
      BY <1>1, <2>1 DEF At, Returned
    <3> QED BY <1>1, <1>2, <1>4, <1>5, <2>1, <3>1 DEF SchemaSeen, SchemaOf
  <2>2. CASE ~(s.items \subseteq Indexes)
    <3>1. At(c, "upsert")' /\ call'[c].ptr = p /\ heap'[p].items = Lists(s.items)
      BY <1>t, <1>1, <2>2 DEF At, Begins, SaveOf
    <3> QED BY <1>2, <1>5, <2>2, <3>1 DEF SchemaSeen, SchemaOf
  <2> QED BY <2>1, <2>2
<1>7. TableSeen(c, t)' = [schema |-> SchemaOf(s), rows |-> {}, counter |-> 0]
  BY <1>1, <1>2, <1>4, <1>5, <1>6 DEF TableSeen
<1>8. ASSUME NEW u \in Tables \ {t} PROVE TableSeen(c, u)' = TableSeen(c, u)
  <2>1. ~Works(c, u)
    BY <1>0, Idling DEF IdlingPCs
  <2>2. ~Works(c, u)'
    BY <1>5 DEF Works
  <2> QED BY <1>1, <2>1, <2>2, AsideUnseen
<1>9. /\ TablesNow[t] = None
      /\ TablesNow' = [TablesNow EXCEPT ![t] = [schema |-> SchemaOf(s), rows |-> {}, counter |-> 0]]
  BY <1>t, <1>2, <1>4, <1>7, <1>8, OneShows
<1>10. Atomic!Create(t)
  <2>1. [Atomic!Bare EXCEPT !.schema = SchemaOf(s)] = [schema |-> SchemaOf(s), rows |-> {}, counter |-> 0]
    BY DEF Atomic!Bare
  <2>2. Atomic!Becomes(t, [Atomic!Bare EXCEPT !.schema = SchemaOf(s)])
    BY <1>9, <2>1 DEF Atomic!Becomes, TablesNow
  <2>3. s \in Atomic!Sent("create")
    BY <1>2 DEF Atomic!Sent
  <2> QED BY <1>2, <1>9, <2>2, <2>3 DEF Atomic!Create, TablesNow
<1>11. HeldRows' = HeldRows
  BY <1>0, <1>3, NobodyHolds
<1> QED BY <1>t, <1>2, <1>10, <1>11, DefineStep DEF Mapped

\* A collection comes up bare.
LEMMA EmergeMapped ==
  ASSUME Consistent, TypeInv', Named', NEW c \in Conns, Keeps(c), Changes(c),
         NEW t \in Tables, t \in Reach(c), t \notin colls,
         conn[c].pc \notin RenamePCs \cup {"dropCounter", "recreate", "insertMany"},
         conn'[c].pc # "insertMany",
         t \in colls' \/ Recreates(c, t)', UNCHANGED <<docs, seq>>, rows'[t] = {},
         ~Creates(c, t)', ~Edits(c, t)', ~BringsSchema(c, t)', ~BringsCounter(c, t)',
         \A u \in Tables \ {t} : u \in Reach(c) => TableSeen(c, u)' = TableSeen(c, u)
  PROVE  Mapped
<1>1. docs[t] = None /\ seq[t] = 0 /\ TableSeen(c, t) = None
  BY NothingUnder
<1>2. TableSeen(c, t)' = [schema |-> None, rows |-> {}, counter |-> 0]
  BY <1>1 DEF TableSeen, SchemaSeen
<1>3. /\ TablesNow[t] = None
      /\ TablesNow' = [TablesNow EXCEPT ![t] = [schema |-> None, rows |-> {}, counter |-> 0]]
  BY <1>1, <1>2, OneShows DEF Consistent
<1>4. Atomic!Emerge(t)
  BY <1>3 DEF Atomic!Emerge, Atomic!Becomes, Atomic!Bare, TablesNow
<1> QED BY <1>4, NobodyHolds, DefineStep DEF Mapped, Consistent

\* TRUNCATE: with its collection a table loses its rows.
LEMMA TruncateMapped ==
  ASSUME Consistent, TypeInv', Named', NEW c \in Conns, Keeps(c), TruncateDrop(c)
  PROVE  Mapped
<1> DEFINE h == conn[c]
<1>t. /\ TypeInv /\ Named /\ Stays(c) /\ HandlerFits(h) /\ rows \in [Tables -> SUBSET Row]
  BY Typed DEF Consistent, Named, TypeInv, TypeOK
<1>0. h.pc = "truncate" /\ h.tab \in Tables /\ h.tab \in Reach(c) /\ Changes(c)
  BY <1>t, OwnTable DEF TruncateDrop, Running, HandlerFits, OneTablePCs, Stays, DataPCs, Changes
<1>z. PICK t \in Tables : t = h.tab
  BY <1>0
<1>1. /\ colls' = colls \ {t} /\ rows' = [rows EXCEPT ![t] = {}] /\ UNCHANGED <<docs, seq>>
      /\ conn'[c].pc = "recreate" /\ conn'[c].tab = t
  BY <1>t, <1>z, GoesOn DEF TruncateDrop, Dropped
<1>2. ASSUME NEW u \in Tables
      PROVE  /\ ~Works(c, u) /\ (Recreates(c, u)' <=> u = t)
             /\ ~Creates(c, u)' /\ ~Edits(c, u)' /\ ~BringsSchema(c, u)' /\ ~BringsCounter(c, u)'
  <2>1. ~Works(c, u)
    BY <1>0, Idling DEF IdlingPCs
  <2> QED BY <1>1, <2>1 DEF Creates, Edits, BringsSchema, BringsCounter, Recreates
<1>3. ASSUME NEW u \in Tables \ {t} PROVE TableSeen(c, u)' = TableSeen(c, u)
  <2>1. rows'[u] = rows[u] /\ (u \in colls' <=> u \in colls)
    BY <1>t, <1>1
  <2> QED BY <1>1, <1>2, <2>1 DEF TableSeen, SchemaSeen, Works
<1>4. HeldRows' = HeldRows
  BY <1>0, <1>1, NobodyHolds
<1>5. CASE t \notin colls
  <2>1. rows'[t] = {}
    BY <1>t, <1>1
  <2> QED BY <1>0, <1>1, <1>2, <1>3, <1>5, <1>z, <2>1, EmergeMapped DEF RenamePCs
<1>6. CASE t \in colls
  <2>1. /\ TableSeen(c, t) = [schema |-> docs[t], rows |-> rows[t], counter |-> seq[t]]
        /\ TableSeen(c, t)' = [schema |-> docs[t], rows |-> {}, counter |-> seq[t]]
    <3>1. TableSeen(c, t) = [schema |-> docs[t], rows |-> rows[t], counter |-> seq[t]]
      BY <1>2, <1>6 DEF TableSeen, SchemaSeen, Works
    <3>2. TableSeen(c, t)' = [schema |-> docs[t], rows |-> {}, counter |-> seq[t]]
      <4>1. rows'[t] = {}
        BY <1>t, <1>1
      <4> QED BY <1>1, <1>2, <4>1 DEF TableSeen, SchemaSeen
    <3> QED BY <3>1, <3>2
  <2>2. /\ TablesNow[t] = [schema |-> docs[t], rows |-> rows[t], counter |-> seq[t]]
        /\ TablesNow' = [TablesNow EXCEPT
                           ![t] = [schema |-> docs[t], rows |-> {}, counter |-> seq[t]]]
    BY <1>t, <1>0, <1>3, <1>z, <2>1, OneShows
  <2>3. TablesNow[t] # None
    BY <1>6, <2>2, NoneIsNoTable, <1>t, Typed DEF TypeInv, TypeOK
  <2>4. Atomic!Truncate(t)
    <3>1. [TablesNow[t] EXCEPT !.rows = {}] = [schema |-> docs[t], rows |-> {}, counter |-> seq[t]]
      BY <2>2
    <3>2. TablesNow' = [TablesNow EXCEPT ![t] = IF TablesNow[t] = None
                                                  THEN Atomic!Bare
                                                  ELSE [TablesNow[t] EXCEPT !.rows = {}]]
      BY <2>2, <2>3, <3>1
    <3> QED BY <3>2 DEF Atomic!Truncate, Atomic!Becomes, TablesNow
  <2> QED BY <1>t, <1>0, <1>4, <1>z, <2>4, DefineStep DEF Mapped
<1> QED BY <1>5, <1>6

\* ALTER TABLE ... ADD INDEX and CREATE INDEX may be the first to write to a
\* collection.
LEMMA AddIndexMapped ==
  ASSUME Consistent, TypeInv', Named', NEW c \in Conns, Keeps(c), AddIndex(c)
  PROVE  Mapped
<1> DEFINE h == conn[c]
<1>t. /\ TypeInv /\ Named /\ Coherent /\ Stays(c) /\ HandlerFits(h) /\ Present(c)
      /\ rows \in [Tables -> SUBSET Row]
  BY Typed DEF Consistent, Named, NothingLeft, TypeInv, TypeOK
<1>0. /\ h.pc = "option" /\ h.rest # <<>> /\ Loads(c, h.ptr) /\ UNCHANGED <<heap, docs, seq, rows>>
      /\ colls' = colls \cup {h.tab} /\ Opt(c).op = "addIndex"
  BY DEF AddIndex, AtOption, Running, Opt, Indexed
<1>1. h.tab \in Tables /\ h.tab \in Reach(c) /\ Changes(c)
  <2>1. h.tab \in Tables
    BY <1>t, <1>0, OptionAtHand
  <2> QED BY <1>t, <1>0, <2>1, OwnTable, NoneIsDistinct DEF Stays, HandlerFits, DataPCs, Changes
<1>z. PICK t \in Tables : t = h.tab
  BY <1>1
<1>2. conn'[c].pc \in {"option", "store"} /\ conn'[c].ptr = h.ptr
  BY <1>t, <1>0, LoadsOn
<1>3. ASSUME NEW u \in Tables \ {t} PROVE TableSeen(c, u)' = TableSeen(c, u)
  BY <1>0, <1>z, LoadsUnseen
<1>4. CASE t \in colls
  <2>1. Unseen(c)
    BY <1>0, <1>z, <1>4, LoadsUnseen DEF Unseen
  <2> QED BY <1>0, <1>2, <2>1, UnseenMapped
<1>5. CASE t \notin colls
  <2>1. h.ptr = None
    BY <1>t, <1>0, <1>5, <1>z DEF Present, RenamePCs
  <2>2. conn'[c].pc = "option" /\ conn'[c].ptr = None
    BY <1>t, <1>0, <2>1, LoadsOn
  <2>3. ~Works(c, t)'
    BY <2>2, IdlingNext DEF NoWork
  <2>4. rows'[t] = {}
    BY <1>0, <1>5 DEF Consistent, Faithful
  <2> QED BY <1>0, <1>1, <1>3, <1>5, <1>z, <2>2, <2>3, <2>4, EmergeMapped DEF Works, RenamePCs
<1> QED BY <1>4, <1>5

\* CREATE INDEX and DROP INDEX: the schema's turn comes later.
LEMMA IndexMapped ==
  ASSUME Consistent, TypeInv', Named', NEW c \in Conns, Keeps(c), IndexStatement(c)
  PROVE  Mapped
<1> DEFINE h == conn[c]
<1>t. /\ TypeInv /\ Named /\ Stays(c) /\ HandlerFits(h) /\ HoldsCached(c) /\ rows \in [Tables -> SUBSET Row]
  BY Typed DEF Consistent, Named, Coherent, TypeInv, TypeOK
<1>0. /\ h.pc = "option" /\ h.rest # <<>> /\ UNCHANGED <<heap, docs, seq, rows>>
      /\ Opt(c).op \in {"createIndex", "removeIndex"} /\ Goto(c, "load")
      /\ colls' = colls \cup {h.tab} \/ colls' = colls
  BY DEF IndexStatement, AtOption, Running, Opt, Indexed, Unindexed
<1>1. h.tab \in Tables /\ h.tab \in Reach(c) /\ Changes(c)
  <2>1. h.tab \in Tables
    BY <1>t, <1>0, OptionAtHand
  <2> QED BY <1>t, <1>0, <2>1, OwnTable, NoneIsDistinct DEF Stays, HandlerFits, DataPCs, Changes
<1>2. h.ptr = None
  <2>1. Opt(c) \notin AlterOption \cup RenamePair \cup DropName
    BY <1>0 DEF AlterOption, RenamePair, DropName
  <2>2. h.stmt.kind = "index"
    BY <1>t, <1>0, <2>1 DEF HandlerFits, OptionsFit, Opt
  <2> QED BY <1>t, <1>0, <2>2 DEF HoldsCached
<1>3. conn'[c].pc = "load"
  BY <1>t, <1>0, GoesOn
<1>z. PICK t \in Tables : t = h.tab
  BY <1>1
<1>4. ASSUME NEW u \in Tables PROVE ~Works(c, u) /\ ~Works(c, u)'
  BY <1>0, <1>2, <1>3, IdlingNext DEF NoWork, IdlingPCs
<1>5. ASSUME NEW u \in Tables, u \in colls' <=> u \in colls PROVE TableSeen(c, u)' = TableSeen(c, u)
  BY <1>0, <1>4, <1>5, AsideUnseen
<1>6. CASE t \in colls \/ colls' = colls
  <2>1. Unseen(c)
    BY <1>0, <1>5, <1>6, <1>z DEF Unseen
  <2> QED BY <1>0, <1>3, <2>1, UnseenMapped
<1>7. CASE t \notin colls /\ t \in colls'
  <2>1. rows'[t] = {}
    BY <1>0, <1>7 DEF Consistent, Faithful
  <2>2. \A u \in Tables \ {t} : TableSeen(c, u)' = TableSeen(c, u)
    BY <1>0, <1>5, <1>z
  <2> QED BY <1>0, <1>1, <1>3, <1>4, <1>7, <1>z, <2>1, <2>2, EmergeMapped DEF Works, RenamePCs
<1> QED BY <1>0, <1>6, <1>7, <1>z

\* A table that is there is not None.
LEMMA IsTable ==
  ASSUME Consistent, NEW c \in Conns, NEW t \in Tables, t \in colls
  PROVE  /\ TableSeen(c, t) # None
         /\ TableSeen(c, t) = [schema |-> SchemaSeen(c, t), rows |-> rows[t],
                               counter |-> seq[IF BringsCounter(c, t) THEN conn[c].tab ELSE t]]
         /\ SchemaSeen(c, t) \in {None} \cup Listing
<1>t. /\ TypeInv /\ Named /\ HandlerFits(conn[c]) /\ CallFits(call[c])
      /\ rows \in [Tables -> SUBSET Row] /\ seq \in [Tables -> Nat]
      /\ docs \in [Tables -> {None} \cup Listing] /\ heap \in [Ptrs -> {None} \cup TableSchema]
      /\ call[c].ptr \in {None} \cup Ptrs /\ conn[c].ptr \in {None} \cup Ptrs
  BY Typed DEF Consistent, TypeInv, TypeOK
<1>1. BringsSchema(c, t) \/ BringsCounter(c, t) => conn[c].tab \in Tables
  BY <1>t, RenameReach DEF BringsSchema, BringsCounter, RenamePCs
<1>2. Creates(c, t) => heap[call[c].ptr].items \in Listing
  BY <1>t DEF Creates, CallFits, At, TableSchema
<1>3. Edits(c, t) => heap[conn[c].ptr].items \in Listing
  BY <1>t DEF Edits, HandlerFits, TableSchema
<1>4. SchemaSeen(c, t) \in {None} \cup Listing
  BY <1>t, <1>1, <1>2, <1>3 DEF SchemaSeen
<1>5. TableSeen(c, t) = [schema |-> SchemaSeen(c, t), rows |-> rows[t],
                         counter |-> seq[IF BringsCounter(c, t) THEN conn[c].tab ELSE t]]
  BY DEF TableSeen
<1> QED BY <1>t, <1>1, <1>4, <1>5, NoneIsNoTable

\* DROP COLUMN empties the AUTO_INCREMENT column in the rows; the schema follows.
LEMMA DropColumnMapped ==
  ASSUME Consistent, TypeInv', Named', NEW c \in Conns, Keeps(c), DropColumn(c)
  PROVE  Mapped
<1> DEFINE h == conn[c]
           Without(rs) == {[r EXCEPT !.id = 0] : r \in rs}
<1>t. /\ TypeInv /\ Named /\ Stays(c) /\ HandlerFits(h) /\ rows \in [Tables -> SUBSET Row]
  BY Typed DEF Consistent, Named, TypeInv, TypeOK
<1>0. /\ h.pc = "option" /\ h.rest # <<>> /\ Loads(c, h.ptr) /\ UNCHANGED <<heap, docs, colls, seq>>
      /\ rows' = [rows EXCEPT ![h.tab] = IF Opt(c).item = AutoCol THEN Without(@) ELSE @]
      /\ Opt(c).op = "drop"
  BY DEF DropColumn, AtOption, Running, Opt
<1>1. h.tab \in Tables /\ h.tab \in Reach(c) /\ Changes(c)
  <2>1. h.tab \in Tables
    BY <1>t, <1>0, OptionAtHand
  <2> QED BY <1>t, <1>0, <2>1, OwnTable, NoneIsDistinct DEF Stays, HandlerFits, DataPCs, Changes
<1>z. PICK t \in Tables : t = h.tab
  BY <1>1
<1>2. conn'[c].pc \in {"option", "store"} /\ conn'[c].ptr = h.ptr /\ conn'[c].tab = h.tab
  BY <1>t, <1>0, LoadsOn
<1>3. ASSUME NEW u \in Tables, rows'[u] = rows[u] PROVE TableSeen(c, u)' = TableSeen(c, u)
  BY <1>0, <1>3, LoadsUnseen
<1>4. ASSUME NEW u \in Tables \ {t} PROVE rows'[u] = rows[u]
  BY <1>t, <1>0, <1>z
<1>5. CASE rows'[t] = rows[t]
  <2>1. Unseen(c)
    BY <1>3, <1>4, <1>5 DEF Unseen
  <2> QED BY <1>0, <1>2, <2>1, UnseenMapped
<1>6. CASE rows'[t] # rows[t]
  <2>1. rows'[t] = Without(rows[t])
    BY <1>t, <1>0, <1>6, <1>z
  <2>2. t \in colls
    <3>1. rows[t] # {}
      BY <1>6, <2>1
    <3> QED BY <3>1 DEF Consistent, Faithful
  <2>3. PICK old : old = TableSeen(c, t)
    OBVIOUS
  <2>4. TableSeen(c, t)' = [old EXCEPT !.rows = Without(old.rows)] /\ old # None
    <3>1. /\ ~Creates(c, t) /\ ~BringsSchema(c, t) /\ ~BringsCounter(c, t) /\ ~Recreates(c, t)
          /\ ~Creates(c, t)' /\ ~BringsSchema(c, t)' /\ ~BringsCounter(c, t)' /\ ~Recreates(c, t)'
          /\ Edits(c, t)' <=> Edits(c, t)
      BY <1>0, <1>2 DEF Creates, BringsSchema, BringsCounter, Recreates, Edits
    <3>2. SchemaSeen(c, t)' = SchemaSeen(c, t)
      BY <1>0, <1>2, <3>1 DEF SchemaSeen
    <3>3. /\ old = [schema |-> SchemaSeen(c, t), rows |-> rows[t], counter |-> seq[t]]
          /\ TableSeen(c, t)' = [schema |-> SchemaSeen(c, t), rows |-> Without(rows[t]), counter |-> seq[t]]
      BY <1>0, <2>1, <2>2, <2>3, <3>1, <3>2 DEF TableSeen
    <3>4. PICK new : new = Without(rows[t])
      OBVIOUS
    <3> HIDE DEF Without
    <3>5. TableSeen(c, t)' = [old EXCEPT !.rows = new] /\ old.rows = rows[t]
      <4>1. TableSeen(c, t)' = [schema |-> SchemaSeen(c, t), rows |-> new, counter |-> seq[t]]
        BY <3>3, <3>4
      <4> QED BY <3>3, <4>1
    <3>6. old # None
      BY <2>2, <2>3, IsTable
    <3> QED BY <3>4, <3>5, <3>6
  <2>5. /\ TablesNow[t] = old
        /\ TablesNow' = [TablesNow EXCEPT ![t] = [old EXCEPT !.rows = Without(old.rows)]]
    BY <1>t, <1>1, <1>3, <1>4, <1>z, <2>3, <2>4, OneShows
  <2>6. Atomic!ForgetIds(t)
    BY <2>4, <2>5 DEF Atomic!ForgetIds, Atomic!Becomes, TablesNow
  <2>7. HeldRows' = HeldRows
    BY <1>0, <1>2, NobodyHolds
  <2> QED BY <1>t, <1>1, <1>z, <2>6, <2>7, DefineStep DEF Mapped
<1> QED BY <1>5, <1>6

\* The edit of an option: one of the statement's, made to the schema the handler
\* has read.
LEMMA StoreMapped ==
  ASSUME Consistent, TypeInv', Named', NEW c \in Conns, Keeps(c), Store(c)
  PROVE  Mapped
<1> DEFINE h == conn[c]
           s == h.stmt
           o == Opt(c)
<1>t. /\ TypeInv /\ Named /\ Coherent /\ Stays(c) /\ HandlerFits(h) /\ Knows(c) /\ Present(c)
      /\ h \in Handler /\ conn \in [Conns -> Handler] /\ heap \in [Ptrs -> {None} \cup TableSchema]
  BY Typed DEF Consistent, Named, Faithful, NothingLeft
<1>0. /\ h.pc = "store" /\ UNCHANGED <<docs, colls, rows, seq, call>>
      /\ heap' = [heap EXCEPT ![h.ptr].items = Edited(h.seen, o.op, o.item)]
      /\ h.rest # <<>> /\ h.ptr # None /\ o.op # "rename"
      /\ conn'[c].pc = "option" /\ conn'[c].ptr = h.ptr /\ conn'[c].tab = h.tab
  <2>1. h.pc = "store" /\ conn' = [conn EXCEPT ![c] = NextOption(c)]
    BY DEF Store, Running
  <2>2. conn'[c].pc = "option" /\ conn'[c].ptr = h.ptr /\ conn'[c].tab = h.tab
    BY <1>t, <2>1, GoesToNext
  <2> QED BY <1>t, <2>1, <2>2 DEF Store, mongoVars, HandlerFits, Opt
<1>1. /\ h.tab \in Tables /\ h.tab \in Reach(c) /\ Changes(c) /\ h.ptr \in Ptrs
      /\ heap[h.ptr] \in TableSchema
  BY <1>t, <1>0, HeldAtHand
<1>z. PICK t \in Tables : t = h.tab
  BY <1>1
<1>2. t \in colls
  BY <1>t, <1>0, <1>z DEF Present, RenamePCs
<1>3. PICK l \in Listing : l = heap[h.ptr].items
  BY <1>1 DEF TableSchema
<1>4. heap'[h.ptr].items = Edited(l, o.op, o.item)
  BY <1>t, <1>0, <1>1, <1>3 DEF Knows, TableSchema
<1>5. PICK k \in DOMAIN s.opts : s.opts[k] = o
  <2>1. s \in Workload /\ h.rest \in Seq(Option) /\ s.opts \in Seq(Option) /\ IsSuffix(h.rest, s.opts)
    BY <1>t, <1>0, StatementShape DEF HandlerFits, Handler, Stays, RestFits
  <2> QED BY <1>0, <2>1, SuffixHead DEF Opt
<1>6. s \in Workload /\ s.kind \in {"alter", "index"}
  BY <1>t, <1>0 DEF HandlerFits, Handler, Stays
<1>7. ASSUME NEW u \in Tables
      PROVE  /\ ~Creates(c, u) /\ ~BringsSchema(c, u) /\ ~BringsCounter(c, u) /\ ~Recreates(c, u)
             /\ ~Creates(c, u)' /\ ~BringsSchema(c, u)' /\ ~BringsCounter(c, u)' /\ ~Recreates(c, u)'
             /\ (Edits(c, u) <=> u = t) /\ (Edits(c, u)' <=> u = t)
  BY <1>0, <1>z DEF Creates, BringsSchema, BringsCounter, Recreates, Edits
<1>8. ASSUME NEW u \in Tables \ {t} PROVE TableSeen(c, u)' = TableSeen(c, u)
  BY <1>0, <1>7 DEF TableSeen, SchemaSeen
<1>9. /\ TableSeen(c, t) = [schema |-> l, rows |-> rows[t], counter |-> seq[t]]
      /\ TableSeen(c, t)' = [schema |-> Edited(l, o.op, o.item), rows |-> rows[t], counter |-> seq[t]]
  <2>1. SchemaSeen(c, t) = l /\ SchemaSeen(c, t)' = Edited(l, o.op, o.item)
    BY <1>0, <1>3, <1>4, <1>7 DEF SchemaSeen
  <2> QED BY <1>0, <1>2, <1>7, <2>1 DEF TableSeen
<1>10. /\ TablesNow[t] = [schema |-> l, rows |-> rows[t], counter |-> seq[t]]
       /\ TablesNow[t] # None /\ l # None
       /\ TablesNow' = [TablesNow EXCEPT ![t] =
                          [TablesNow[t] EXCEPT !.schema = Edited(l, o.op, o.item)]]
  <2>1. TableSeen(c, t) # None /\ l # None
    BY <1>2, IsTable, NoneIsDistinct
  <2>2. /\ TablesNow[t] = TableSeen(c, t)
        /\ TablesNow' = [TablesNow EXCEPT ![t] = TableSeen(c, t)']
    BY <1>t, <1>1, <1>8, <1>z, OneShows
  <2>3. TableSeen(c, t)' = [TableSeen(c, t) EXCEPT !.schema = Edited(l, o.op, o.item)]
    BY <1>9
  <2> QED BY <1>9, <2>1, <2>2, <2>3
<1>11. Atomic!Alter(t)
  <2>1. s \in Atomic!Sent("alter") \cup Atomic!Sent("index")
    BY <1>6 DEF Atomic!Sent
  <2>2. Atomic!Becomes(t, [TablesNow[t] EXCEPT !.schema = Edited(@, s.opts[k].op, s.opts[k].item)])
    <3>1. TablesNow[t].schema = l
      BY <1>10
    <3> QED BY <1>5, <1>10, <3>1 DEF Atomic!Becomes, TablesNow
  <2>3. TablesNow[t].schema # None
    BY <1>10
  <2> QED BY <1>0, <1>5, <1>10, <2>1, <2>2, <2>3 DEF Atomic!Alter, TablesNow
<1>12. HeldRows' = HeldRows
  BY <1>0, NobodyHolds
<1> QED BY <1>t, <1>1, <1>z, <1>11, <1>12, DefineStep DEF Mapped

\* DROP TABLE: with its collection a table is gone.
LEMMA DropMapped ==
  ASSUME Consistent, TypeInv', Named', NEW c \in Conns, Keeps(c), DropCollection(c)
  PROVE  Mapped
<1> DEFINE h == conn[c]
<1>t. /\ TypeInv /\ Named /\ Stays(c) /\ HandlerFits(h) /\ h \in Handler
      /\ conn \in [Conns -> Handler] /\ rows \in [Tables -> SUBSET Row]
  BY Typed DEF Consistent, Named, TypeInv, TypeOK
<1>0. /\ h.pc = "option" /\ h.rest # <<>> /\ Opt(c).op = "dropTable" /\ UNCHANGED <<docs, seq>>
      /\ colls' = colls \ {Opt(c).tab} /\ rows' = [rows EXCEPT ![Opt(c).tab] = {}]
      /\ conn' = [conn EXCEPT ![c].pc = "dropCounter", ![c].tab = Opt(c).tab]
  BY DEF DropCollection, AtOption, Running, Opt, Dropped
<1>1. Opt(c).tab \in Tables /\ Opt(c).tab \in Reach(c) /\ Changes(c)
  BY <1>t, <1>0, OptionAtHand, Reaching DEF Stays, HandlerFits, DataPCs, Changes
<1>z. PICK t \in Tables : t = Opt(c).tab
  BY <1>1
<1>2. conn'[c].pc = "dropCounter"
  BY <1>t, <1>0 DEF Handler
<1>3. h.ptr = None
  <2>1. Opt(c) \notin AlterOption \cup IndexOption
    BY <1>0 DEF AlterOption, IndexOption
  <2>2. h.stmt.kind \notin {"alter", "index"}
    BY <1>t, <1>0, <2>1 DEF HandlerFits, OptionsFit, Opt
  <2> QED BY <1>t, <2>2 DEF Stays
<1>4. ASSUME NEW u \in Tables PROVE ~Works(c, u) /\ ~Works(c, u)'
  BY <1>0, <1>2, <1>3, IdlingNext DEF NoWork, IdlingPCs
<1>5. ASSUME NEW u \in Tables \ {t} PROVE TableSeen(c, u)' = TableSeen(c, u)
  <2>1. rows'[u] = rows[u] /\ (u \in colls' <=> u \in colls)
    BY <1>t, <1>0, <1>z
  <2> QED BY <1>0, <1>4, <2>1 DEF TableSeen, SchemaSeen, Works
<1>6. TableSeen(c, t)' = None
  BY <1>0, <1>4, <1>z DEF TableSeen, Works
<1>7. CASE t \notin colls
  <2>1. TableSeen(c, t) = None
    BY <1>4, <1>7 DEF TableSeen, Works
  <2>2. Unseen(c)
    BY <1>5, <1>6, <2>1 DEF Unseen
  <2> QED BY <1>0, <1>2, <2>2, UnseenMapped
<1>8. CASE t \in colls
  <2>1. TablesNow[t] # None /\ TablesNow' = [TablesNow EXCEPT ![t] = None]
    BY <1>t, <1>1, <1>5, <1>6, <1>8, <1>z, IsTable, OneShows
  <2>2. Atomic!Drop(t)
    BY <2>1 DEF Atomic!Drop, Atomic!Becomes, TablesNow
  <2>3. HeldRows' = HeldRows
    BY <1>0, <1>2, NobodyHolds
  <2> QED BY <1>t, <1>1, <1>z, <2>2, <2>3, DefineStep DEF Mapped
<1> QED BY <1>7, <1>8

\* With its collection a table gets its new name; the schema and the counter are
\* looked for under the old one until they are moved.
LEMMA RenameMapped ==
  ASSUME Consistent, Orderly, TypeInv', Named', NEW c \in Conns, Keeps(c), RenameCollection(c)
  PROVE  Mapped
<1> DEFINE h == conn[c]
<1>t. /\ TypeInv /\ Named /\ Coherent /\ Stays(c) /\ HandlerFits(h) /\ h \in Handler
      /\ conn \in [Conns -> Handler] /\ rows \in [Tables -> SUBSET Row]
  BY Typed DEF Consistent, Named, TypeInv, TypeOK
<1>0. /\ h.pc = "option" /\ h.rest # <<>> /\ Opt(c).op = "rename" /\ UNCHANGED <<docs, seq, heap>>
      /\ From(c) \in colls /\ Opt(c).to \notin colls
      /\ colls' = (colls \ {From(c)}) \cup {Opt(c).to}
      /\ rows' = [rows EXCEPT ![Opt(c).to] = rows[From(c)], ![From(c)] = {}]
      /\ conn' = [conn EXCEPT ![c].pc = "migrate", ![c].tab = From(c)]
  BY DEF RenameCollection, AtOption, Running, Opt
<1>1. /\ From(c) \in Tables /\ From(c) \in Reach(c) /\ Opt(c).to \in Tables /\ Opt(c).to \in Reach(c)
      /\ Changes(c)
  BY <1>t, <1>0, OptionAtHand, Reaching DEF Stays, HandlerFits, DataPCs, Changes
<1>z. PICK t \in Tables, n \in Tables : t = From(c) /\ n = Opt(c).to
  BY <1>1
<1>2. conn'[c].pc = "migrate" /\ conn'[c].tab = t /\ Opt(c)'.to = n
  <2>1. conn'[c].pc = "migrate" /\ conn'[c].tab = t /\ conn'[c].rest = h.rest
    BY <1>t, <1>0, <1>z DEF Handler
  <2> QED BY <1>z, <2>1 DEF Opt
<1>3. t # n /\ t \in colls /\ n \notin colls /\ t \notin colls' /\ n \in colls'
  BY <1>0, <1>z
<1>4. ASSUME NEW u \in Tables
      PROVE  /\ ~Creates(c, u) /\ ~BringsSchema(c, u) /\ ~BringsCounter(c, u) /\ ~Recreates(c, u)
             /\ ~Creates(c, u)' /\ ~Edits(c, u)' /\ ~Recreates(c, u)'
             /\ (BringsSchema(c, u)' <=> u = n) /\ (BringsCounter(c, u)' <=> u = n)
  BY <1>0, <1>2 DEF Creates, Edits, BringsSchema, BringsCounter, Recreates
<1>5. ASSUME NEW u \in Tables PROVE SchemaSeen(c, u) = docs[u]
  <2>1. CASE Edits(c, u)
    <3>1. h.ptr # None /\ h.tab = u
      BY <2>1 DEF Edits
    <3>2. h.stmt.kind \in {"alter", "index"}
      BY <1>t, <3>1 DEF Stays
    <3>3. h.rest = h.stmt.opts
      BY <1>t, <1>0, <3>2, FirstOption
    <3>4. ~Open(c, u)
      BY <1>0, <3>3 DEF Open
    <3> QED BY <1>t, <1>0, <1>4, <2>1, <3>1, <3>4, HeldAtHand DEF SchemaSeen
  <2>2. CASE ~Edits(c, u)
    BY <1>4, <2>2 DEF SchemaSeen
  <2> QED BY <2>1, <2>2
<1>6. ASSUME NEW u \in Tables \ {t, n} PROVE TableSeen(c, u)' = TableSeen(c, u)
  <2>1. rows'[u] = rows[u] /\ (u \in colls' <=> u \in colls)
    BY <1>t, <1>0, <1>z
  <2>2. SchemaSeen(c, u)' = docs[u]
    BY <1>0, <1>4 DEF SchemaSeen
  <2> QED BY <1>0, <1>4, <1>5, <2>1, <2>2 DEF TableSeen
<1>7. TableSeen(c, t)' = None /\ TableSeen(c, n) = None
  BY <1>3, <1>4 DEF TableSeen
<1>8. TableSeen(c, n)' = TableSeen(c, t)
  <2>1. rows'[n] = rows[t]
    BY <1>t, <1>0, <1>3, <1>z
  <2>2. SchemaSeen(c, n)' = docs[t]
    BY <1>0, <1>2, <1>4 DEF SchemaSeen
  <2>3. TableSeen(c, n)' = [schema |-> docs[t], rows |-> rows[t], counter |-> seq[t]]
    BY <1>0, <1>2, <1>3, <1>4, <2>1, <2>2 DEF TableSeen
  <2>4. TableSeen(c, t) = [schema |-> docs[t], rows |-> rows[t], counter |-> seq[t]]
    BY <1>3, <1>4, <1>5 DEF TableSeen
  <2> QED BY <2>3, <2>4
<1>9. /\ TablesNow[t] # None /\ TablesNow[n] = None
      /\ TablesNow' = [TablesNow EXCEPT ![n] = TablesNow[t], ![t] = None]
  <2>1. /\ TablesNow[t] = TableSeen(c, t) /\ TablesNow[n] = TableSeen(c, n)
        /\ TablesNow' = [TablesNow EXCEPT ![n] = TableSeen(c, n)', ![t] = TableSeen(c, t)']
    BY <1>t, <1>1, <1>3, <1>6, <1>z, TwoShow
  <2> QED BY <1>3, <1>7, <1>8, <2>1, IsTable
<1>10. Atomic!Rename(t, n)
  BY <1>1, <1>9, <1>t, <1>z, FreeHere DEF Atomic!Rename, TablesNow
<1>11. HeldRows' = HeldRows
  BY <1>0, <1>2, NobodyHolds
<1> QED BY <1>t, <1>1, <1>z, <1>10, <1>11, DefineStep DEF Mapped

----------------------------------------------------------------------------
(* INSERT and DELETE.                                                      *)

\* Only c's row changes hands.
LEMMA OneHolds ==
  ASSUME NEW c \in Conns, Keeps(c)
  PROVE  HeldRows' = [HeldRows EXCEPT ![c] = HeldNow(c)']
<1>1. ASSUME NEW d \in Conns \ {c} PROVE HeldNow(d)' = HeldNow(d)
  BY DEF Keeps, HeldNow
<1> QED BY <1>1 DEF HeldRows

\* A table that no handler works on is what its collection, its document and its
\* counter say.
LEMMA PlainlySeen ==
  ASSUME NEW c \in Conns, NEW t \in Tables, ~Works(c, t)
  PROVE  TableSeen(c, t) = IF t \in colls
                             THEN [schema |-> docs[t], rows |-> rows[t], counter |-> seq[t]]
                             ELSE None
BY DEF TableSeen, SchemaSeen, Works

SeenPlain ==
  \A c \in Conns, t \in Tables :
    ~Works(c, t) => TableSeen(c, t) = IF t \in colls
                                        THEN [schema |-> docs[t], rows |-> rows[t], counter |-> seq[t]]
                                        ELSE None

\* PlainlySeen, of both states of a step.
LEMMA PlainNext == SeenPlain /\ SeenPlain'
<1>1. SeenPlain
  BY PlainlySeen DEF SeenPlain
<1> QED BY <1>1, PTL

\* INSERT asks the schema it has got from the store, which is the table's own.
LEMMA NeedsIdAsSeen ==
  ASSUME Consistent, NEW c \in Conns, conn[c].pc = "applyDefaults", Returned(c),
         NEW t \in Tables, t = conn[c].tab, TablesNow[t] = TableSeen(c, t)
  PROVE  /\ NeedsId(c) <=> Atomic!Numbered(t) /\ conn[c].stmt.id = 0
         /\ NeedsId(c) => heap[call[c].ptr].name = t /\ TablesNow[t] # None /\ t \in colls
<1> DEFINE p == call[c].ptr
<1>t. /\ TypeInv /\ Named /\ Knows(c) /\ HoldsNamed(c) /\ Present(c) /\ p \in {None} \cup Ptrs
      /\ HandlerFits(conn[c]) /\ CallFits(call[c]) /\ heap \in [Ptrs -> {None} \cup TableSchema]
      /\ docs \in [Tables -> {None} \cup Listing]
  BY Typed DEF Consistent, Named, Faithful, NothingLeft, Call
<1>1. ~Works(c, t)
  BY Idling DEF IdlingPCs, DataPCs
<1>2. TablesNow[t] = IF t \in colls
                       THEN [schema |-> docs[t], rows |-> rows[t], counter |-> seq[t]]
                       ELSE None
  BY <1>1, PlainlySeen
<1>3. CASE p = None
  <2>1. docs[t] = None
    BY <1>t, <1>3 DEF Knows
  <2>2. ~Atomic!Numbered(t)
    BY <1>2, <2>1 DEF Atomic!Numbered, TablesNow
  <2> QED BY <1>3, <2>2 DEF NeedsId
<1>4. CASE p # None
  <2>1. t \in colls /\ docs[t] = heap[p].items /\ heap[p].name = t
    BY <1>t, <1>4 DEF Knows, Present, HoldsNamed, RenamePCs
  <2>2. TablesNow[t] # None /\ TablesNow[t].schema = docs[t]
    <3>1. TableSeen(c, t) # None
      BY <2>1, IsTable
    <3>2. TablesNow[t] = [schema |-> docs[t], rows |-> rows[t], counter |-> seq[t]]
      BY <1>2, <2>1
    <3> QED BY <3>1, <3>2
  <2>3. docs[t] # None
    <3>1. heap[p].items \in Listing
      BY <1>t, <1>4 DEF CallFits, TableSchema
    <3> QED BY <2>1, <3>1, NoneIsDistinct
  <2>4. Atomic!Numbered(t) <=> docs[t][AutoCol] > 0
    BY <2>2, <2>3 DEF Atomic!Numbered, TablesNow
  <2> QED BY <1>4, <2>1, <2>2, <2>4 DEF NeedsId
<1> QED BY <1>3, <1>4

\* INSERT takes the next value of the counter, or the value it was given.
LEMMA TakeIdMapped ==
  ASSUME Consistent, TypeInv', Named', NEW c \in Conns, Keeps(c),
         NextAutoIncrement(c) \/ NoAutoIncrement(c)
  PROVE  Mapped
<1> DEFINE h == conn[c]
           s == h.stmt
<1>t. /\ TypeInv /\ Named /\ Stays(c) /\ Stamped(c) /\ HandlerFits(h) /\ h \in Handler
      /\ conn \in [Conns -> Handler] /\ seq \in [Tables -> Nat]
  BY Typed DEF Consistent, Named, Faithful, TypeInv, TypeOK
<1>0. /\ h.pc = "applyDefaults" /\ Returned(c) /\ UNCHANGED <<heap, docs, colls, rows>>
      /\ h.tab \in Tables /\ h.tab \in Reach(c)
  BY <1>t, OwnTable DEF NextAutoIncrement, NoAutoIncrement, Running, mongoVars, collVars, HandlerFits,
     OneTablePCs
<1>z. PICK t \in Tables : t = h.tab
  BY <1>0
<1>1. s \in Workload /\ s.kind = "insert" /\ s.tab = t
  <2>1. s # None /\ s \in Workload /\ s.kind = "insert"
    BY <1>t, <1>0 DEF Handler, Stamped, HandlerFits
  <2>2. s.opts = <<>>
    BY <2>1, StatementShape
  <2>3. t \in TablesOf(s)
    BY <1>0, <1>z, <2>1 DEF Reach
  <2> QED BY <2>1, <2>2, <2>3 DEF TablesOf
<1>2. /\ conn'[c].pc = "insertMany" /\ conn'[c].tab = t /\ conn'[c].nr = h.nr
      /\ NoAutoIncrement(c) => conn'[c].id = s.id
  BY <1>t, <1>z DEF NextAutoIncrement, NoAutoIncrement, Handler
<1>3. ASSUME NEW u \in Tables PROVE ~Works(c, u) /\ ~Works(c, u)'
  BY <1>0, <1>2, IdlingNext DEF NoWork, IdlingPCs, DataPCs
<1>4. h.nr \in 1..MaxStmts /\ HeldRows[c] = None
  BY <1>t, <1>0 DEF Stamped, HeldRows, HeldNow
<1>5. HeldRows' = [HeldRows EXCEPT ![c] = [tab |-> t, id |-> conn'[c].id, nr |-> h.nr]]
  BY <1>2, OneHolds DEF HeldNow
<1>6. TablesNow[t] = TableSeen(c, t)
  BY <1>t, <1>0, <1>z, InHand DEF TablesNow
<1>7. CASE NoAutoIncrement(c)
  <2>1. seq' = seq /\ ~NeedsId(c)
    BY <1>7 DEF NoAutoIncrement, mongoVars
  <2>2. \A u \in Tables : TableSeen(c, u)' = TableSeen(c, u)
    BY <1>0, <1>3, <2>1, AsideUnseen
  <2>3. TablesNow' = TablesNow
    BY <1>t, <2>2, NothingShows
  <2>4. ~(Atomic!Numbered(t) /\ s.id = 0)
    BY <1>0, <1>6, <1>z, <2>1, NeedsIdAsSeen
  <2>5. Atomic!Holds(c, t, s.id)
    BY <1>2, <1>4, <1>5, <1>7 DEF Atomic!Holds, HeldRows
  <2>6. Atomic!TakeId(c, t)
    BY <1>1, <1>4, <2>3, <2>4, <2>5 DEF Atomic!TakeId, Atomic!Sent, TablesNow, HeldRows
  <2> QED BY <2>6 DEF Mapped, Atomic!Step
<1>8. CASE NextAutoIncrement(c)
  <2>1. /\ Atomic!Numbered(t) /\ s.id = 0 /\ t \in colls
        /\ heap[call[c].ptr].name = t
    BY <1>0, <1>6, <1>8, <1>z, NeedsIdAsSeen DEF NextAutoIncrement
  <2>2. seq' = [seq EXCEPT ![t] = @ + 1] /\ conn'[c].id = seq[t] + 1
    BY <1>t, <1>8, <2>1 DEF NextAutoIncrement, Handler
  <2>3. /\ TableSeen(c, t) = [schema |-> docs[t], rows |-> rows[t], counter |-> seq[t]]
        /\ TableSeen(c, t)' = [schema |-> docs[t], rows |-> rows[t], counter |-> seq[t] + 1]
    <3>1. TableSeen(c, t) = [schema |-> docs[t], rows |-> rows[t], counter |-> seq[t]]
      BY <1>3, <2>1, PlainNext DEF SeenPlain
    <3>2. TableSeen(c, t)' = [schema |-> docs[t], rows |-> rows[t], counter |-> seq[t] + 1]
      <4>1. seq'[t] = seq[t] + 1
        BY <1>t, <2>2
      <4> QED BY <1>0, <1>3, <2>1, <4>1, PlainNext DEF SeenPlain
    <3> QED BY <3>1, <3>2
  <2>4. ASSUME NEW u \in Tables \ {t} PROVE TableSeen(c, u)' = TableSeen(c, u)
    <3>1. seq'[u] = seq[u]
      BY <1>t, <2>2
    <3> QED BY <1>0, <1>3, <3>1, PlainNext DEF SeenPlain
  <2>5. /\ TablesNow[t] = [schema |-> docs[t], rows |-> rows[t], counter |-> seq[t]]
        /\ TablesNow' = [TablesNow EXCEPT
                           ![t] = [schema |-> docs[t], rows |-> rows[t], counter |-> seq[t] + 1]]
    BY <1>t, <1>0, <1>z, <2>3, <2>4, OneShows
  <2>6. Atomic!Becomes(t, [TablesNow[t] EXCEPT !.counter = @ + 1])
    <3>1. [TablesNow[t] EXCEPT !.counter = @ + 1]
            = [schema |-> docs[t], rows |-> rows[t], counter |-> seq[t] + 1]
      BY <2>5
    <3> QED BY <2>5, <3>1 DEF Atomic!Becomes, TablesNow
  <2>7. Atomic!Holds(c, t, TablesNow[t].counter + 1)
    <3>1. TablesNow[t].counter = seq[t]
      BY <2>5
    <3> QED BY <1>4, <1>5, <2>2, <3>1 DEF Atomic!Holds, HeldRows
  <2>8. Atomic!TakeId(c, t)
    BY <1>1, <1>4, <2>1, <2>6, <2>7 DEF Atomic!TakeId, Atomic!Sent, TablesNow, HeldRows
  <2> QED BY <2>8 DEF Mapped, Atomic!Step
<1> QED BY <1>7, <1>8

\* The row arrives, in a collection that comes up with it if it has to.
LEMMA InsertMapped ==
  ASSUME Consistent, TypeInv', Named', NEW c \in Conns, Keeps(c), InsertMany(c)
  PROVE  Mapped
<1> DEFINE h == conn[c]
           row == [id |-> h.id, nr |-> h.nr]
<1>t. /\ TypeInv /\ Named /\ Stays(c) /\ HandlerFits(h) /\ h \in Handler
      /\ rows \in [Tables -> SUBSET Row]
  BY Typed DEF Consistent, Named, TypeInv, TypeOK
<1>0. /\ h.pc = "insertMany" /\ UNCHANGED <<docs, seq>> /\ conn'[c].pc = "idle"
      /\ h.tab \in Tables /\ h.tab \in Reach(c)
  BY <1>t, OwnTable, Ends DEF InsertMany, Running, HandlerFits, OneTablePCs
<1>z. PICK t \in Tables : t = h.tab
  BY <1>0
<1>1. colls' = colls \cup {t} /\ rows'[t] = rows[t] \cup {row}
      /\ \A u \in Tables \ {t} : rows'[u] = rows[u]
  BY <1>t, <1>z DEF InsertMany
<1>2. ASSUME NEW u \in Tables PROVE ~Works(c, u) /\ ~Works(c, u)'
  BY <1>0, IdlingNext DEF NoWork, IdlingPCs, DataPCs
<1>3. /\ HeldRows[c] = [tab |-> t, id |-> h.id, nr |-> h.nr] /\ HeldRows[c] # None
      /\ HeldRows' = [HeldRows EXCEPT ![c] = None]
  <2>1. HeldRows[c] = [tab |-> t, id |-> h.id, nr |-> h.nr]
    BY <1>0, <1>z DEF HeldRows, HeldNow
  <2>2. HeldRows[c] # None
    BY <1>t, <1>z, <2>1, NoneIsNoTable DEF Handler
  <2> QED BY <1>0, <2>1, <2>2, OneHolds DEF HeldNow
<1>4. ASSUME NEW u \in Tables \ {t} PROVE TableSeen(c, u)' = TableSeen(c, u)
  BY <1>0, <1>1, <1>2, PlainNext DEF SeenPlain
<1>5. /\ TablesNow[t] = TableSeen(c, t)
      /\ TablesNow' = [TablesNow EXCEPT ![t] = TableSeen(c, t)']
  BY <1>t, <1>0, <1>4, <1>z, OneShows
<1>6. TableSeen(c, t)' = [schema |-> docs[t], rows |-> rows[t] \cup {row}, counter |-> seq[t]]
  BY <1>0, <1>1, <1>2, PlainNext DEF SeenPlain
<1>7. PICK at : at = IF TablesNow[t] = None THEN Atomic!Bare ELSE TablesNow[t]
  OBVIOUS
<1>8. at = [schema |-> docs[t], rows |-> rows[t], counter |-> seq[t]]
  <2>1. CASE t \in colls
    <3>1. TableSeen(c, t) = [schema |-> docs[t], rows |-> rows[t], counter |-> seq[t]]
      BY <1>2, <2>1, PlainNext DEF SeenPlain
    <3>2. TablesNow[t] # None
      BY <1>5, <2>1, IsTable
    <3> QED BY <1>5, <1>7, <3>1, <3>2
  <2>2. CASE t \notin colls
    <3>1. docs[t] = None /\ rows[t] = {} /\ seq[t] = 0 /\ TableSeen(c, t) = None
      BY <1>0, <1>z, <2>2, NothingUnder DEF RenamePCs
    <3> QED BY <1>5, <1>7, <3>1 DEF Atomic!Bare
  <2> QED BY <2>1, <2>2
<1>9. TablesNow' = [TablesNow EXCEPT ![t] = [at EXCEPT !.rows = @ \cup {row}]]
  BY <1>5, <1>6, <1>8
<1>10. Atomic!Insert(c)
  <2>1. HeldRows[c].tab = t /\ HeldRows[c].id = h.id /\ HeldRows[c].nr = h.nr
    BY <1>3
  <2> QED BY <1>3, <1>7, <1>9, <2>1 DEF Atomic!Insert, Atomic!Becomes, TablesNow, HeldRows
<1> QED BY <1>10 DEF Mapped, Atomic!Step

\* DELETE takes rows away, of which a table that is not there has none.
LEMMA DeleteMapped ==
  ASSUME Consistent, TypeInv', Named', NEW c \in Conns, Keeps(c), DeleteMany(c)
  PROVE  Mapped
<1> DEFINE h == conn[c]
<1>t. /\ TypeInv /\ Named /\ Stays(c) /\ HandlerFits(h) /\ rows \in [Tables -> SUBSET Row]
  BY Typed DEF Consistent, Named, TypeInv, TypeOK
<1>0. /\ h.pc = "deleteMany" /\ UNCHANGED <<docs, colls, seq>> /\ conn'[c].pc = "idle"
      /\ h.tab \in Tables /\ h.tab \in Reach(c)
  BY <1>t, OwnTable, Ends DEF DeleteMany, Running, HandlerFits, OneTablePCs
<1>z. PICK t \in Tables : t = h.tab
  BY <1>0
<1>1. rows'[t] \subseteq rows[t] /\ \A u \in Tables \ {t} : rows'[u] = rows[u]
  <2>1. \E gone : rows' = [rows EXCEPT ![t] = @ \ gone]
    BY <1>z DEF DeleteMany
  <2> QED BY <1>t, <2>1
<1>2. ASSUME NEW u \in Tables PROVE ~Works(c, u) /\ ~Works(c, u)'
  BY <1>0, IdlingNext DEF NoWork, IdlingPCs, DataPCs
<1>3. ASSUME NEW u \in Tables \ {t} PROVE TableSeen(c, u)' = TableSeen(c, u)
  BY <1>0, <1>1, <1>2, PlainNext DEF SeenPlain
<1>4. HeldRows' = HeldRows
  BY <1>0, NobodyHolds
<1>5. CASE t \notin colls
  <2>1. TableSeen(c, t)' = TableSeen(c, t)
    BY <1>0, <1>2, <1>5, PlainNext DEF SeenPlain
  <2>2. Unseen(c)
    BY <1>3, <2>1 DEF Unseen
  <2> QED BY <1>0, <2>2, UnseenMapped
<1>6. CASE t \in colls
  <2>1. /\ TableSeen(c, t) = [schema |-> docs[t], rows |-> rows[t], counter |-> seq[t]]
        /\ TableSeen(c, t)' = [schema |-> docs[t], rows |-> rows'[t], counter |-> seq[t]]
    BY <1>0, <1>2, <1>6, PlainNext DEF SeenPlain
  <2>2. /\ TablesNow[t] = [schema |-> docs[t], rows |-> rows[t], counter |-> seq[t]]
        /\ TablesNow[t] # None
        /\ TablesNow' = [TablesNow EXCEPT
                           ![t] = [schema |-> docs[t], rows |-> rows'[t], counter |-> seq[t]]]
    <3>1. TableSeen(c, t) # None
      BY <1>6, IsTable
    <3> QED BY <1>t, <1>0, <1>3, <1>z, <2>1, <3>1, OneShows
  <2>3. Atomic!Delete(t)
    <3>1. [TablesNow[t] EXCEPT !.rows = rows'[t]]
            = [schema |-> docs[t], rows |-> rows'[t], counter |-> seq[t]]
      BY <2>2
    <3>2. rows'[t] \in SUBSET TablesNow[t].rows
      BY <1>1, <2>2
    <3> QED BY <2>2, <3>1, <3>2 DEF Atomic!Delete, Atomic!Becomes, TablesNow
  <2> QED BY <1>4, <2>3 DEF Mapped, Atomic!Step, HeldRows
<1> QED BY <1>5, <1>6

----------------------------------------------------------------------------
(* Every step.                                                             *)

\* Calls of the store do not show.
LEMMA CallMapped ==
  ASSUME Consistent, TypeInv', Named', NEW c \in Conns, CallStep(c)
  PROVE  Mapped
<1>1. Keeps(c)
  BY CallKeeps DEF Consistent
<1>2. TablesNow' = TablesNow
  BY <1>1, CallUnseen, NothingShows DEF Consistent, Unseen
<1>3. HeldRows' = HeldRows
  BY DEF CallStep, HeldRows, HeldNow
<1> QED BY <1>2, <1>3 DEF Mapped

\* A handler that does not show stands nowhere near InsertMany.
LEMMA UnseenHoldsNothing ==
  ASSUME Consistent, NEW c \in Conns,
         \/ CheckExists(c) \/ CreateFails(c) \/ CreateIndexes(c) \/ TruncateCreate(c)
         \/ UpdateMany(c) \/ Start(c) \/ Load(c) \/ AddColumn(c) \/ ModifyColumn(c) \/ DropKey(c)
         \/ EndOptions(c) \/ Finished(c) \/ RenameFails(c) \/ MigrateSchema(c)
         \/ DropOldSchema(c) \/ FindCounter(c) \/ SetCounter(c) \/ DeleteCounter(c)
         \/ DropCounter(c)
  PROVE  conn[c].pc # "insertMany" /\ conn'[c].pc # "insertMany"
<1>t. TypeInv /\ conn \in [Conns -> Handler] /\ conn[c] \in Handler
  BY Typed DEF Consistent
<1>1. conn[c].pc # "insertMany"
  BY DEF CheckExists, CreateFails, CreateIndexes, TruncateCreate, UpdateMany, Start, Load, AddColumn,
     ModifyColumn, DropKey, EndOptions, Finished, RenameFails, MigrateSchema, DropOldSchema,
     FindCounter, SetCounter, DeleteCounter, DropCounter, AtOption, Running
<1> SUFFICES conn'[c].pc # "insertMany"
  BY <1>1
<1>2. CASE Start(c) \/ DropCounter(c) \/ (FindCounter(c) /\ ~Renamed(c))
  <2>1. CASE Start(c)
    BY <1>t, <2>1 DEF Start, Handler
  <2>2. CASE DropCounter(c)
    BY <1>t, <2>2, GoesToNext DEF DropCounter
  <2>3. CASE FindCounter(c) /\ ~Renamed(c)
    BY <1>t, <2>3 DEF FindCounter, Handler
  <2> QED BY <1>2, <2>1, <2>2, <2>3
<1>3. CASE \/ CheckExists(c) \/ CreateFails(c) \/ CreateIndexes(c) \/ TruncateCreate(c)
           \/ UpdateMany(c) \/ EndOptions(c) \/ Finished(c) \/ RenameFails(c)
           \/ MigrateSchema(c) \/ DropOldSchema(c) \/ SetCounter(c)
  <2>1. \/ Finish(c) \/ Goto(c, "create") \/ Goto(c, "finish") \/ Goto(c, "findCounter")
        \/ Goto(c, "dropOld") \/ Goto(c, "deleteCounter")
    BY <1>3 DEF CheckExists, CreateFails, CreateIndexes, TruncateCreate, UpdateMany, EndOptions,
       Finished, RenameFails, MigrateSchema, DropOldSchema, SetCounter
  <2> QED BY <1>t, <2>1, Ends, GoesOn
<1>4. CASE AddColumn(c) \/ ModifyColumn(c) \/ DropKey(c) \/ Load(c)
  <2>1. \E p : Loads(c, p)
    BY <1>4 DEF AddColumn, ModifyColumn, DropKey, Load
  <2> QED BY <1>t, <2>1, LoadsOn
<1>5. CASE Renamed(c)
  BY <1>t, <1>5, EndsRename
<1> QED BY <1>1, <1>2, <1>3, <1>4, <1>5 DEF DeleteCounter

\* The steps of the handlers.
LEMMA HandleMapped ==
  ASSUME Orderly, Consistent, TypeInv', Named', NEW c \in Conns, Handle(c)
  PROVE  Mapped
<1>k. Keeps(c)
  BY HandleKeeps DEF Consistent
<1>t. conn[c] \in Handler /\ HandlerFits(conn[c]) /\ Stays(c)
  BY Typed DEF Consistent, Named
<1>1. CASE CheckExists(c) \/ CreateFails(c) \/ CreateIndexes(c) \/ TruncateCreate(c) \/ UpdateMany(c)
  BY <1>k, <1>1, OutsideUnseen, UnseenHoldsNothing, UnseenMapped
<1>2. CASE Start(c) \/ Load(c)
  BY <1>k, <1>2, TakesUp, UnseenHoldsNothing, UnseenMapped
<1>3. CASE AddColumn(c) \/ ModifyColumn(c) \/ DropKey(c)
  BY <1>k, <1>3, OptionUnseen, UnseenHoldsNothing, UnseenMapped
<1>4. CASE EndOptions(c) \/ Finished(c) \/ RenameFails(c)
  BY <1>k, <1>4, EndUnseen, UnseenHoldsNothing, UnseenMapped
<1>5. CASE MigrateSchema(c) \/ DropOldSchema(c) \/ (FindCounter(c) /\ ~Renamed(c)) \/ SetCounter(c)
  BY <1>k, <1>5, MovesUnseen, UnseenHoldsNothing, UnseenMapped
<1>6. CASE Renamed(c) /\ (FindCounter(c) \/ DeleteCounter(c))
  BY <1>k, <1>6, RenamedUnseen, UnseenHoldsNothing, UnseenMapped
<1>7. CASE DropCounter(c)
  BY <1>k, <1>7, DropCounterUnseen, UnseenHoldsNothing, UnseenMapped
<1>8. CASE \E p \in Fresh : CreateCollection(c, p)
  BY <1>k, <1>8, CreateMapped
<1>9. CASE TruncateDrop(c) \/ DropCollection(c) \/ RenameCollection(c)
  BY <1>k, <1>9, TruncateMapped, DropMapped, RenameMapped
<1>10. CASE AddIndex(c) \/ IndexStatement(c) \/ DropColumn(c) \/ Store(c)
  BY <1>k, <1>10, AddIndexMapped, IndexMapped, DropColumnMapped, StoreMapped
<1>11. CASE NextAutoIncrement(c) \/ NoAutoIncrement(c) \/ InsertMany(c) \/ DeleteMany(c)
  BY <1>k, <1>11, TakeIdMapped, InsertMapped, DeleteMapped
<1>12. ~DropWholeDatabase(c)
  BY <1>t DEF DropWholeDatabase, Running, Stays, Orderly, Handler, HandlerFits
<1> QED
  BY <1>1, <1>2, <1>3, <1>4, <1>5, <1>6, <1>7, <1>8, <1>9, <1>10, <1>11, <1>12 DEF Handle, DeleteCounter

\* A statement begins without touching anything.
LEMMA BeginMapped ==
  ASSUME Consistent, TypeInv', Named', NEW c \in Conns, NEW s \in Workload, Begin(c, s)
  PROVE  Mapped
<1>t. TypeInv /\ Named /\ conn \in [Conns -> Handler] /\ call \in [Conns -> Call]
  BY Typed DEF Consistent
<1>1. /\ conn[c].pc = "idle" /\ UNCHANGED <<heap, docs, colls, rows, seq>>
      /\ \A d \in Conns \ {c} : conn'[d] = conn[d] /\ call'[d] = call[d]
      /\ conn'[c].pc = FirstStep(s) /\ conn'[c].ptr = None
  BY <1>t DEF Begin, Begins, mongoVars
<1>2. FirstStep(s) \in (IdlingPCs \cup {"option"}) \ {"insertMany"}
  BY StatementItems DEF Kinds, FirstStep, IdlingPCs, DataPCs
<1>3. ASSUME NEW t \in Tables PROVE ~Works(c, t) /\ ~Works(c, t)'
  BY <1>1, <1>2, IdlingNext DEF NoWork, IdlingPCs
<1>4. ASSUME NEW d \in Conns, NEW t \in Tables
      PROVE  (Works(d, t)' <=> Works(d, t)) /\ TableSeen(d, t)' = TableSeen(d, t)
  <2>1. CASE d = c
    BY <1>1, <1>3, <2>1, AsideUnseen
  <2>2. CASE d # c
    BY <1>1, <2>2 DEF Works, Creates, Edits, BringsSchema, BringsCounter, Recreates, At, Opt,
       TableSeen, SchemaSeen
  <2> QED BY <2>1, <2>2
<1>5. ASSUME NEW t \in Tables PROVE TableNow(t)' = TableNow(t)
  <2>1. PICK d \in Conns : \A e \in Conns \ {d} : ~Works(e, t)
    <3>1. CASE \E d \in Conns : Works(d, t)
      <4>1. PICK d \in Conns : Works(d, t)
        BY <3>1
      <4> QED BY <1>t, <4>1, Views DEF OwnWork, Named, Apart
    <3>2. CASE \A d \in Conns : ~Works(d, t)
      BY <3>2
    <3> QED BY <3>1, <3>2
  <2> QED BY <1>t, <1>4, <2>1, Views, ViewsNext DEF OwnView
<1>6. ASSUME NEW d \in Conns PROVE HeldNow(d)' = HeldNow(d)
  BY <1>1, <1>2 DEF HeldNow
<1> QED BY <1>5, <1>6 DEF Mapped, TablesNow, HeldRows

\* Where nothing changes nothing shows.
LEMMA StutterMapped ==
  ASSUME UNCHANGED vars
  PROVE  UNCHANGED <<TablesNow, HeldRows, Uninterrupted>>
<1>1. UNCHANGED <<heap, docs, call, colls, rows, seq, conn, restarts, faults>>
  BY DEF vars
<1>2. ASSUME NEW t \in Tables PROVE TableNow(t)' = TableNow(t)
  BY <1>1 DEF TableNow, SchemaNow, Home, Exists, Creates, Edits, BringsSchema, BringsCounter,
     Recreates, At, Opt
<1>3. ASSUME NEW c \in Conns PROVE HeldNow(c)' = HeldNow(c)
  BY <1>1 DEF HeldNow
<1> QED BY <1>1, <1>2, <1>3 DEF TablesNow, HeldRows, Uninterrupted

\* Until something fails every step is one of the catalog, or does not show.
LEMMA StepMapped ==
  ASSUME Serial, Orderly, TypeInv, Named, CoherentInv, NothingLeftInv, FaithfulInv,
         [Next]_vars, TypeInv', Named'
  PROVE  [Atomic!Next]_(Atomic!vars)
<1>1. CASE ~Uninterrupted'
  BY <1>1 DEF Atomic!Next, Uninterrupted
<1>2. CASE Uninterrupted' /\ UNCHANGED vars
  BY <1>2, StutterMapped DEF Atomic!vars, TablesNow, HeldRows
<1>3. CASE Uninterrupted' /\ ~UNCHANGED vars
  <2>1. ASSUME UNCHANGED <<restarts, faults>> PROVE Consistent /\ Uninterrupted
    BY <1>3, <2>1 DEF Consistent, FaithfulInv, NothingLeftInv, CoherentInv, Uninterrupted
  <2>2. ASSUME NEW c \in Conns, NEW s \in Workload, Begin(c, s) PROVE Mapped /\ Uninterrupted
    BY <2>1, <2>2, BeginMapped DEF Begin
  <2>3. ASSUME NEW c \in Conns, CallStep(c) PROVE Mapped /\ Uninterrupted
    BY <2>1, <2>3, CallMapped DEF CallStep, budgets
  <2>4. ASSUME NEW c \in Conns, Handle(c) PROVE Mapped /\ Uninterrupted
    BY <2>1, <2>4, HandleBudgets, HandleMapped
  <2>5. ASSUME NEW c \in Conns, Fault(c) PROVE FALSE
    BY <1>3, <2>5 DEF Fault, TypeInv, TypeOK, Uninterrupted
  <2>6. ~Restart
    BY <1>3 DEF Restart, TypeInv, TypeOK, Uninterrupted
  <2>7. Mapped /\ Uninterrupted
    BY <1>3, <2>2, <2>3, <2>4, <2>5, <2>6 DEF Next, Quiet
  <2>8. CASE Atomic!Step
    BY <1>3, <2>7, <2>8 DEF Atomic!Next
  <2>9. CASE UNCHANGED <<TablesNow, HeldRows>>
    BY <1>3, <2>7, <2>9 DEF Atomic!vars, TablesNow, HeldRows, Uninterrupted
  <2> QED BY <2>7, <2>8, <2>9 DEF Mapped
<1> QED BY <1>1, <1>2, <1>3

\* At the start there are no tables.
LEMMA StartMapped == Init => Atomic!Init
<1> SUFFICES ASSUME Init PROVE Atomic!Init
  OBVIOUS
<1>1. colls = {} /\ conn = [c \in Conns |-> Idle] /\ Uninterrupted
  BY DEF Init, Uninterrupted
<1>2. ASSUME NEW c \in Conns PROVE conn[c].pc = "idle"
  BY <1>1 DEF Idle
<1>3. ASSUME NEW t \in Tables PROVE TableNow(t) = None
  BY <1>1, <1>2 DEF TableNow, Exists, Recreates
<1>4. ASSUME NEW c \in Conns PROVE HeldNow(c) = None
  BY <1>2 DEF HeldNow
<1> QED BY <1>1, <1>3, <1>4 DEF Atomic!Init

\* Until something fails, a client of Serial ones cannot tell the catalog from
\* one in which a table is one thing: CREATE, DROP, TRUNCATE and RENAME TABLE and
\* each option of ALTER TABLE change its schema, its rows and its counter at once,
\* in whatever order the handlers make their round trips and whatever the other
\* connections do meanwhile.  The workload is Orderly, as for SettledCorrect.
THEOREM RefinesAtomic ==
  ASSUME Serial, Orderly
  PROVE  Spec => ImplementsAtomic
<1>0. NoDropDatabase
  BY DEF Orderly, NoDropDatabase
<1>1. Init => CoherentInv
  BY StartCoherent DEF Init, StoreInit, CoherentInv
<1>2. TypeInv /\ Named /\ CoherentInv /\ [Next]_vars => CoherentInv'
  BY CoherentKept
<1>3. Init => NothingLeftInv
  BY DEF Init, StoreInit, NothingLeftInv, NothingLeft, Present, Cleared, Gone, Idle, NoCall,
     RenamePCs, CounterPCs
<1>4. TypeInv /\ Named /\ NothingLeftInv /\ [Next]_vars => NothingLeftInv'
  BY <1>0, NothingLeftKept
<1>5. Init => FaithfulInv
  BY BoundsAssumption DEF Init, FaithfulInv, Faithful, Stamped, Departed, Arriving, ArrivingPCs, Knows,
     Idle, RenamePCs
<1>6. TypeInv /\ Named /\ CoherentInv /\ NothingLeftInv /\ FaithfulInv /\ [Next]_vars => FaithfulInv'
  BY FaithfulKept
<1>7. /\ TypeInv /\ Named /\ CoherentInv /\ NothingLeftInv /\ FaithfulInv /\ [Next]_vars
      /\ TypeInv' /\ Named'
      => [Atomic!Next]_(Atomic!vars)
  BY StepMapped
<1>8. Init => Atomic!Init
  BY StartMapped
<1> QED
  BY <1>1, <1>2, <1>3, <1>4, <1>5, <1>6, <1>7, <1>8, ShapeCorrect, NamedInvariant, PTL
     DEF Spec, ImplementsAtomic, Atomic!Spec
=============================================================================
