--------------------------- MODULE CatalogProofs ---------------------------
(***************************************************************************)
(* Theorems about Catalog, for any number of connections, tables and       *)
(* items, any workload within the stated assumptions and any bounds: the   *)
(* shape of every state, and what holds although clients overlap freely.   *)
(***************************************************************************)
EXTENDS Catalog, TLAPS

----------------------------------------------------------------------------
(* The shape invariant: what every handler and every store call relies on  *)
(* when it dereferences a pointer or takes the next option.  TypeOK alone  *)
(* is not inductive: a pointer must point to a schema, and the option at   *)
(* hand must be one the program counter is made for.                       *)

CallFits(k) ==
  /\ k.ptr # None => heap[k.ptr] # None
  /\ k.at \in {"lookup", "find", "fill", "evict", "erase"} => k.tab # None
  /\ k.at \in {"fill", "upsert", "publish"} => k.ptr # None

RenamePCs == {"migrate", "dropOld", "findCounter", "setCounter", "deleteCounter"}

OneTablePCs == RenamePCs \cup
  {"check", "create", "createIndexes", "truncate", "recreate", "start", "load",
   "dropCounter", "applyDefaults", "insertMany", "updateMany", "deleteMany"}

OptionsFit(h) ==
  \/ h.rest = <<>>
  \/ h.stmt.kind = "alter" /\ h.tab \in Tables /\ h.rest \in Seq(AlterOption)
  \/ h.stmt.kind = "index" /\ h.tab \in Tables /\ h.rest \in Seq(IndexOption)
  \/ h.stmt.kind = "rename" /\ h.rest \in Seq(RenamePair)
  \/ h.stmt.kind = "drop" /\ h.rest \in Seq(DropName)

HandlerFits(h) ==
  /\ h.pc # "idle" => h.stmt # None
  /\ h.ptr # None => heap[h.ptr] # None
  /\ h.pc \in OneTablePCs => h.tab # None
  /\ h.pc \in {"load", "store", "dropCounter"} \cup RenamePCs => h.rest # <<>>
  /\ h.pc \in RenamePCs => Head(h.rest).op = "rename"
  /\ h.pc = "load" => Head(h.rest).op \in {"createIndex", "removeIndex"}
  /\ h.pc = "store" => /\ h.ptr # None /\ h.seen # None
                       /\ Head(h.rest).op \in {"add", "drop", "modify", "addIndex",
                              "dropIndex", "createIndex", "removeIndex"}
  /\ OptionsFit(h)

Shape ==
  /\ \A t \in Tables : cache[t] # None => heap[cache[t]] # None
  /\ \A c \in Conns : CallFits(call[c]) /\ HandlerFits(conn[c])

TypeInv == TypeOK /\ Shape

LEMMA TypeInit == Init => TypeInv
  BY NoneIsDistinct, WorkloadAssumption
     DEF Init, StoreInit, TypeInv, TypeOK, StoreTypeOK, Shape, CallFits, HandlerFits,
     OptionsFit, Call, CallSteps, NoCall, Handler, PCs, Idle, RenamePCs, OneTablePCs

\* A step of connection c disturbs nobody else as long as no object that is
\* referenced vanishes.
LEMMA Frame ==
  ASSUME TypeInv, NEW c \in Conns,
         \A p \in Ptrs : heap[p] # None => heap'[p] # None,
         \A t \in Tables : cache'[t] # None => heap'[cache'[t]] # None,
         \A d \in Conns \ {c} : call'[d] = call[d] /\ conn'[d] = conn[d],
         CallFits(call[c])', HandlerFits(conn[c])'
  PROVE  Shape'
<1> SUFFICES ASSUME NEW d \in Conns \ {c}
             PROVE  CallFits(call[d])' /\ HandlerFits(conn[d])'
  BY DEF Shape
<1>1. CallFits(call[d]) /\ HandlerFits(conn[d])
  BY DEF TypeInv, Shape
<1>2. call[d].ptr \in {None} \cup Ptrs /\ conn[d].ptr \in {None} \cup Ptrs
  BY DEF TypeInv, TypeOK, StoreTypeOK, Call, Handler
<1>3. call'[d] = call[d] /\ conn'[d] = conn[d]
  OBVIOUS
<1>4. CallFits(call[d])'
  BY <1>1, <1>2, <1>3 DEF CallFits
<1>5. HandlerFits(conn[d])'
  BY <1>1, <1>2, <1>3 DEF HandlerFits, OptionsFit
<1> QED BY <1>4, <1>5

\* The store's own steps.
LEMMA CallStepType ==
  ASSUME TypeInv, NEW c \in Conns, CallStep(c)
  PROVE  TypeInv'
<1> DEFINE Rest == UNCHANGED <<colls, rows, phys, seq, conn, budgets>>
<1>0. Rest
  BY DEF CallStep
<1>t. /\ call[c] \in Call /\ CallFits(call[c]) /\ HandlerFits(conn[c])
      /\ conn[c] \in Handler
  BY DEF TypeInv, TypeOK, StoreTypeOK, Shape
<1>k. StoreTypeOK' => TypeOK'
  BY <1>0 DEF TypeInv, TypeOK, budgets
<1>1. CASE Lookup(c)
  <2>0. call[c].tab \in Tables
    BY <1>1, <1>t DEF Lookup, At, CallFits, Call
  <2>1. StoreTypeOK'
    BY <1>1, <1>t, <2>0 DEF TypeInv, TypeOK, StoreTypeOK, Lookup, Return, NoCall, Call,
       CallSteps
  <2>2. CallFits(call[c])' /\ HandlerFits(conn[c])'
    BY <1>1, <1>0, <1>t, NoneIsDistinct DEF Lookup, At, Return, NoCall, Call, Handler, CallFits, TypeInv, TypeOK,
       StoreTypeOK, Shape, HandlerFits, OptionsFit
  <2>3. Shape'
    BY <1>0, <1>1, <1>t, <2>2, Frame, NoneIsDistinct DEF Lookup, At, Return, TypeInv, TypeOK, StoreTypeOK, Shape, CallFits, Call, TableSchema
  <2> QED BY <2>1, <2>3, <1>k DEF TypeInv
<1>2. CASE FindMissing(c)
  <2>1. StoreTypeOK'
    BY <1>2, <1>t, NoneIsDistinct DEF TypeInv, TypeOK, StoreTypeOK, FindMissing, At, Return, NoCall, Call,
       CallSteps, CallFits, TableSchema
  <2>2. CallFits(call[c])' /\ HandlerFits(conn[c])'
    BY <1>2, <1>0, <1>t, NoneIsDistinct DEF FindMissing, At, Return, NoCall, Call, Handler, CallFits, TypeInv, TypeOK,
       StoreTypeOK, Shape, HandlerFits, OptionsFit
  <2>3. Shape'
    BY <1>0, <1>2, <1>t, <2>2, Frame, NoneIsDistinct DEF FindMissing, At, Return, TypeInv, TypeOK, StoreTypeOK, Shape, CallFits, Call, TableSchema
  <2> QED BY <2>1, <2>3, <1>k DEF TypeInv
<1>3. ASSUME NEW p \in Fresh, FindDocument(c, p)
      PROVE  TypeInv'
  <2>1. StoreTypeOK'
    BY <1>3, <1>t, NoneIsDistinct DEF TypeInv, TypeOK, StoreTypeOK, FindDocument, At, Return, NoCall, Call,
       CallSteps, CallFits, TableSchema, Fresh
  <2>2. CallFits(call[c])' /\ HandlerFits(conn[c])'
    <3>0. [name |-> call[c].tab, items |-> docs[call[c].tab]] \in TableSchema
      BY <1>3, <1>t DEF FindDocument, At, CallFits, Call, TypeInv, TypeOK, StoreTypeOK, TableSchema
    <3>1. conn' = conn /\ \A q \in Ptrs : heap[q] # None => heap'[q] # None
      <4>1. \E r \in TableSchema : heap' = [heap EXCEPT ![p] = r]
        BY <1>3, <3>0, Zenon DEF FindDocument
      <4>2. heap \in [Ptrs -> {None} \cup TableSchema]
        BY DEF TypeInv, TypeOK, StoreTypeOK
      <4> QED BY <1>0, <4>1, <4>2, NoneIsDistinct
    <3>2. HandlerFits(conn[c])'
      BY <1>t, <3>1 DEF TypeInv, TypeOK, Handler, HandlerFits, OptionsFit
    <3>3. CallFits(call[c])'
      BY <1>3, <1>t, NoneIsDistinct DEF FindDocument, At, Call, CallFits, TypeInv, TypeOK, StoreTypeOK, Fresh
    <3> QED BY <3>2, <3>3
  <2>3. Shape'
    BY <1>0, <1>3, <1>t, <2>2, Frame, NoneIsDistinct DEF FindDocument, At, Return, TypeInv, TypeOK, StoreTypeOK, Shape, CallFits, Call, TableSchema, Fresh
  <2> QED BY <2>1, <2>3, <1>k DEF TypeInv
<1>4. CASE Fill(c)
  <2>1. StoreTypeOK'
    BY <1>4, <1>t, NoneIsDistinct DEF TypeInv, TypeOK, StoreTypeOK, Fill, At, Return, NoCall, Call,
       CallSteps, CallFits, TableSchema
  <2>2. CallFits(call[c])' /\ HandlerFits(conn[c])'
    BY <1>4, <1>0, <1>t, NoneIsDistinct DEF Fill, At, Return, NoCall, Call, Handler, CallFits, TypeInv, TypeOK,
       StoreTypeOK, Shape, HandlerFits, OptionsFit
  <2>3. Shape'
    BY <1>0, <1>4, <1>t, <2>2, Frame, NoneIsDistinct DEF Fill, At, Return, TypeInv, TypeOK, StoreTypeOK, Shape, CallFits, Call, TableSchema
  <2> QED BY <2>1, <2>3, <1>k DEF TypeInv
<1>5. CASE Upsert(c)
  <2>1. StoreTypeOK'
    BY <1>5, <1>t, NoneIsDistinct DEF TypeInv, TypeOK, StoreTypeOK, Upsert, At, Return, NoCall, Call,
       CallSteps, CallFits, TableSchema
  <2>2. CallFits(call[c])' /\ HandlerFits(conn[c])'
    BY <1>5, <1>0, <1>t, NoneIsDistinct DEF Upsert, At, Return, NoCall, Call, Handler, CallFits, TypeInv, TypeOK,
       StoreTypeOK, Shape, HandlerFits, OptionsFit
  <2>3. Shape'
    BY <1>0, <1>5, <1>t, <2>2, Frame, NoneIsDistinct DEF Upsert, At, Return, TypeInv, TypeOK, StoreTypeOK, Shape, CallFits, Call, TableSchema
  <2> QED BY <2>1, <2>3, <1>k DEF TypeInv
<1>6. CASE Publish(c)
  <2>1. StoreTypeOK'
    BY <1>6, <1>t, NoneIsDistinct DEF TypeInv, TypeOK, StoreTypeOK, Publish, At, Return, NoCall, Call,
       CallSteps, CallFits, TableSchema
  <2>2. CallFits(call[c])' /\ HandlerFits(conn[c])'
    BY <1>6, <1>0, <1>t, NoneIsDistinct DEF Publish, At, Return, NoCall, Call, Handler, CallFits, TypeInv, TypeOK,
       StoreTypeOK, Shape, HandlerFits, OptionsFit
  <2>3. Shape'
    BY <1>0, <1>6, <1>t, <2>2, Frame, NoneIsDistinct DEF Publish, At, Return, TypeInv, TypeOK, StoreTypeOK, Shape, CallFits, Call, TableSchema
  <2> QED BY <2>1, <2>3, <1>k DEF TypeInv
<1>7. CASE Evict(c)
  <2>1. StoreTypeOK'
    BY <1>7, <1>t, NoneIsDistinct DEF TypeInv, TypeOK, StoreTypeOK, Evict, At, Return, NoCall, Call,
       CallSteps, CallFits, TableSchema
  <2>2. CallFits(call[c])' /\ HandlerFits(conn[c])'
    BY <1>7, <1>0, <1>t, NoneIsDistinct DEF Evict, At, Return, NoCall, Call, Handler, CallFits, TypeInv, TypeOK,
       StoreTypeOK, Shape, HandlerFits, OptionsFit
  <2>3. Shape'
    BY <1>0, <1>7, <1>t, <2>2, Frame, NoneIsDistinct DEF Evict, At, Return, TypeInv, TypeOK, StoreTypeOK, Shape, CallFits, Call, TableSchema
  <2> QED BY <2>1, <2>3, <1>k DEF TypeInv
<1>8. CASE Erase(c)
  <2>1. StoreTypeOK'
    BY <1>8, <1>t, NoneIsDistinct DEF TypeInv, TypeOK, StoreTypeOK, Erase, At, Return, NoCall, Call,
       CallSteps, CallFits, TableSchema
  <2>2. CallFits(call[c])' /\ HandlerFits(conn[c])'
    BY <1>8, <1>0, <1>t, NoneIsDistinct DEF Erase, At, Return, NoCall, Call, Handler, CallFits, TypeInv, TypeOK,
       StoreTypeOK, Shape, HandlerFits, OptionsFit
  <2>3. Shape'
    BY <1>0, <1>8, <1>t, <2>2, Frame, NoneIsDistinct DEF Erase, At, Return, TypeInv, TypeOK, StoreTypeOK, Shape, CallFits, Call, TableSchema
  <2> QED BY <2>1, <2>3, <1>k DEF TypeInv
<1> QED
  BY <1>1, <1>2, <1>3, <1>4, <1>5, <1>6, <1>7, <1>8 DEF CallStep, StoreStep
\* The option at hand, and what is left when it is done, suit the handler.
LEMMA OptionAtHand ==
  ASSUME TypeInv, NEW c \in Conns, conn[c].rest # <<>>
  PROVE  /\ Opt(c) \in Option
         /\ Tail(conn[c].rest) \in Seq(Option)
         /\ \A t \in Tables : /\ OptionsFit([conn[c] EXCEPT !.tab = t])
                              /\ OptionsFit([NextOption(c) EXCEPT !.tab = t])
         /\ OptionsFit(NextOption(c))
         /\ Opt(c).op \in {"add", "drop", "modify"}
              => conn[c].tab \in Tables /\ Opt(c).item \in Items
         /\ Opt(c).op \in {"addIndex", "dropIndex", "createIndex", "removeIndex"}
              => conn[c].tab \in Tables /\ Opt(c).item \in Indexes
         /\ Opt(c).op = "rename" => Opt(c).to \in Tables /\ From(c) \in Tables
         /\ Opt(c).op = "dropTable" => Opt(c).tab \in Tables
<1> DEFINE h == conn[c]
           o == Head(h.rest)
           r == Tail(h.rest)
<1>1. /\ h \in Handler /\ OptionsFit(h) /\ h.rest # <<>>
  BY DEF TypeInv, TypeOK, Shape, HandlerFits
<1>2. /\ h.rest \in Seq(Option) /\ r \in Seq(Option) /\ o \in Option
  BY <1>1 DEF Handler
<1>n. /\ NextOption(c).rest = r /\ NextOption(c).stmt = h.stmt
      /\ NextOption(c).tab = h.tab
  BY <1>1 DEF NextOption, Handler
<1>m. ASSUME NEW t \in Tables
      PROVE  /\ [h EXCEPT !.tab = t].rest = h.rest
             /\ [h EXCEPT !.tab = t].stmt = h.stmt
             /\ [h EXCEPT !.tab = t].tab = t
             /\ [NextOption(c) EXCEPT !.tab = t].rest = r
             /\ [NextOption(c) EXCEPT !.tab = t].stmt = h.stmt
             /\ [NextOption(c) EXCEPT !.tab = t].tab = t
  BY <1>1 DEF NextOption, Handler
<1> DEFINE Goal(os) == /\ o \in os
                       /\ r \in Seq(os)
<1>3. \/ h.stmt.kind = "alter" /\ h.tab \in Tables /\ Goal(AlterOption) /\ h.rest \in Seq(AlterOption)
      \/ h.stmt.kind = "index" /\ h.tab \in Tables /\ Goal(IndexOption) /\ h.rest \in Seq(IndexOption)
      \/ h.stmt.kind = "rename" /\ Goal(RenamePair) /\ h.rest \in Seq(RenamePair)
      \/ h.stmt.kind = "drop" /\ Goal(DropName) /\ h.rest \in Seq(DropName)
  BY <1>1 DEF OptionsFit
<1>4. OptionsFit(NextOption(c))
  BY <1>3, <1>n DEF OptionsFit
<1>5. ASSUME NEW t \in Tables
      PROVE  /\ OptionsFit([h EXCEPT !.tab = t])
             /\ OptionsFit([NextOption(c) EXCEPT !.tab = t])
  BY <1>3, <1>m DEF OptionsFit
<1> HIDE DEF h, o, r
<1>6. /\ o.op \in {"add", "drop", "modify"} => h.tab \in Tables /\ o.item \in Items
      /\ o.op \in {"addIndex", "dropIndex", "createIndex", "removeIndex"}
           => h.tab \in Tables /\ o.item \in Indexes
      /\ o.op = "rename"
           => /\ o.to \in Tables
              /\ IF h.stmt.kind = "alter" THEN h.tab \in Tables ELSE o.from \in Tables
      /\ o.op = "dropTable" => o.tab \in Tables
  BY <1>3, ItemsAssumption DEF AlterOption, IndexOption, RenamePair, DropName
<1> QED BY <1>2, <1>4, <1>5, <1>6 DEF Opt, From, h, o, r

\* An INSERT's explicit id is a number.
LEMMA StatementId == \A s \in Workload : s # None /\ s.id \in Nat
<1> SUFFICES ASSUME NEW s \in Workload PROVE s # None /\ s.id \in Nat
  OBVIOUS
<1>1. s \in Statement /\ s # None
  BY WorkloadAssumption
<1>2. ASSUME NEW ks, NEW ts, NEW fs, NEW os, NEW is, is \subseteq Nat,
             s \in StatementOf(ks, ts, fs, os, is)
      PROVE  s.id \in Nat
  BY <1>2 DEF StatementOf
<1>3. {0} \subseteq Nat /\ Nat \subseteq Nat
  OBVIOUS
<1>4. \E ks, ts, fs, os, is : /\ is \subseteq Nat
                             /\ s \in StatementOf(ks, ts, fs, os, is)
  BY <1>1, <1>3, Zenon DEF Statement
<1> QED BY <1>1, <1>2, <1>4

\* Going on to the next option, with or without a schema edited in between.
LEMMA NextOptionType ==
  ASSUME TypeInv, NEW c \in Conns, conn[c].rest # <<>>
  PROVE  /\ NextOption(c) \in Handler
         /\ NextOption(c).pc = "option" /\ NextOption(c).stmt = conn[c].stmt
         /\ NextOption(c).ptr = conn[c].ptr /\ NextOption(c).tab = conn[c].tab
         /\ NextOption(c).rest = Tail(conn[c].rest)
<1>1. conn[c] \in Handler /\ Tail(conn[c].rest) \in Seq(Option)
  BY OptionAtHand DEF TypeInv, TypeOK
<1> QED BY <1>1 DEF NextOption, Handler, PCs

LEMMA LoadsType ==
  ASSUME TypeInv, NEW c \in Conns, conn[c].rest # <<>>,
         NEW p \in {None} \cup Ptrs, p # None => heap[p] # None,
         conn[c].pc # "idle",
         Opt(c).op \in {"add", "drop", "modify", "addIndex", "dropIndex", "createIndex",
                       "removeIndex"},
         Loads(c, p), UNCHANGED heap
  PROVE  /\ conn' \in [Conns -> Handler]
         /\ \A d \in Conns \ {c} : conn'[d] = conn[d]
         /\ HandlerFits(conn[c])'
<1>1. /\ conn \in [Conns -> Handler] /\ HandlerFits(conn[c])
      /\ heap \in [Ptrs -> {None} \cup TableSchema]
  BY DEF TypeInv, TypeOK, StoreTypeOK, Shape
<1>2. CASE p = None
  <2>1. conn' = [conn EXCEPT ![c] = NextOption(c)]
    BY <1>2 DEF Loads
  <2>2. NextOption(c) \in Handler /\ OptionsFit(NextOption(c))
    BY NextOptionType, OptionAtHand
  <2>3. conn'[c] = NextOption(c)
    BY <2>1, <1>1
  <2>4. HandlerFits(conn[c])'
    BY <2>2, <2>3, <1>1, NextOptionType DEF HandlerFits, OneTablePCs, RenamePCs, OptionsFit
  <2> QED BY <2>1, <2>2, <2>4, <1>1
<1>3. CASE p # None
  <2> DEFINE h == [conn[c] EXCEPT !.pc = "store", !.ptr = p, !.seen = heap[p].items]
  <2>1. conn' = [conn EXCEPT ![c] = h]
    BY <1>3 DEF Loads
  <2>2. heap[p].items \in Listing
    BY <1>1, <1>3 DEF TableSchema
  <2>3. h \in Handler
    <3>1. conn[c] \in Handler
      BY <1>1
    <3> QED BY <3>1, <2>2 DEF Handler, PCs
  <2>4. conn'[c] = h
    BY <2>1, <1>1
  <2> HIDE DEF h
  <2>f. /\ h.pc = "store" /\ h.ptr = p /\ h.seen # None
        /\ h.rest = conn[c].rest /\ h.stmt = conn[c].stmt /\ h.tab = conn[c].tab
    BY <1>1, <2>2, NoneIsDistinct DEF h, Handler
  <2>g. OptionsFit(conn[c]) => OptionsFit(h)
    BY <2>f DEF OptionsFit
  <2>5. HandlerFits(conn[c])'
    BY <2>f, <2>g, <2>4, <1>1, <1>3 DEF HandlerFits, OneTablePCs, RenamePCs, Opt
  <2> QED BY <2>1, <2>3, <2>5, <1>1
<1> QED BY <1>2, <1>3

\* A decoded schema is not nil.
LEMMA ObjectIsNotNil == \A s \in TableSchema : s # None
  BY NoneIsDistinct

\* MongoDB's own state, and the counters of the bounds.
MongoFits ==
  /\ docs \in [Tables -> {None} \cup Listing]
  /\ colls \subseteq Tables
  /\ rows \in [Tables -> SUBSET Row]
  /\ phys \in [Tables -> SUBSET Indexes]
  /\ seq \in [Tables -> Nat]
  /\ begun \in Nat /\ restarts \in Nat /\ faults \in Nat

LEMMA MongoKept ==
  ASSUME TypeInv, UNCHANGED <<mongoVars, budgets>>
  PROVE  MongoFits'
BY DEF MongoFits, TypeInv, TypeOK, StoreTypeOK, mongoVars, budgets

\* The end of a handler.
LEMMA FinishType ==
  ASSUME TypeInv, NEW c \in Conns, Finish(c), UNCHANGED <<heap, cache>>, MongoFits'
  PROVE  TypeInv'
<1>1. /\ call' = [call EXCEPT ![c] = NoCall] /\ conn' = [conn EXCEPT ![c] = Idle]
  BY DEF Finish
<1>2. NoCall \in Call /\ Idle \in Handler
  BY DEF NoCall, Call, CallSteps, Idle, Handler, PCs
<1>3. TypeOK'
  BY <1>1, <1>2 DEF TypeInv, TypeOK, StoreTypeOK, MongoFits
<1>4. CallFits(call[c])' /\ HandlerFits(conn[c])'
  BY <1>1 DEF TypeInv, TypeOK, StoreTypeOK, NoCall, Idle, CallFits, HandlerFits, OptionsFit,
     RenamePCs, OneTablePCs
<1>5. Shape'
  BY <1>1, <1>4, Frame DEF TypeInv, TypeOK, StoreTypeOK, Shape
<1> QED BY <1>3, <1>5 DEF TypeInv

\* Going on at another label with the same table, options and schema.
LEMMA GotoType ==
  ASSUME TypeInv, NEW c \in Conns, NEW pc \in PCs \ {"idle", "load", "store"},
         conn' = [conn EXCEPT ![c].pc = pc], UNCHANGED <<heap, cache>>, MongoFits',
         pc \in OneTablePCs => conn[c].pc \in OneTablePCs,
         pc \in RenamePCs => conn[c].pc \in RenamePCs,
         pc # "dropCounter", conn[c].pc # "idle",
         call' \in [Conns -> Call], CallFits(call[c])',
         \A d \in Conns \ {c} : call'[d] = call[d]
  PROVE  TypeInv'
<1>1. conn \in [Conns -> Handler] /\ conn[c] \in Handler /\ HandlerFits(conn[c])
  BY DEF TypeInv, TypeOK, Shape
<1>2. conn' \in [Conns -> Handler]
  BY <1>1 DEF Handler
<1>3. /\ conn'[c].pc = pc /\ conn'[c].stmt = conn[c].stmt /\ conn'[c].tab = conn[c].tab
      /\ conn'[c].rest = conn[c].rest /\ conn'[c].ptr = conn[c].ptr
  BY <1>1 DEF Handler
<1>4. HandlerFits(conn[c])'
  BY <1>1, <1>3 DEF HandlerFits, OptionsFit
<1>5. TypeOK'
  BY <1>2 DEF TypeInv, TypeOK, StoreTypeOK, MongoFits
<1>6. Shape'
  BY <1>1, <1>4, Frame DEF TypeInv, TypeOK, StoreTypeOK, Shape
<1> QED BY <1>5, <1>6 DEF TypeInv

\* Going on to the next option, for a handler whose schema variable is still
\* good.
LEMMA NextOfOption ==
  ASSUME TypeInv, NEW c \in Conns, conn[c].rest # <<>>, conn[c].pc # "idle",
         UNCHANGED heap, conn' = [conn EXCEPT ![c] = NextOption(c)]
  PROVE  conn' \in [Conns -> Handler] /\ HandlerFits(conn[c])'
<1>1. /\ conn \in [Conns -> Handler] /\ HandlerFits(conn[c])
  BY DEF TypeInv, TypeOK, Shape
<1>2. NextOption(c) \in Handler /\ conn'[c] = NextOption(c)
  BY <1>1, NextOptionType
<1>3. OptionsFit(conn'[c])
  BY <1>2, OptionAtHand
<1>4. /\ conn'[c].pc = "option" /\ conn'[c].ptr = conn[c].ptr
      /\ conn'[c].stmt = conn[c].stmt
      /\ conn[c].ptr \in {None} \cup Ptrs
      /\ conn[c].pc # "idle" => conn[c].stmt # None
  BY <1>1, <1>2, NextOptionType DEF HandlerFits, Handler
<1>5. conn[c].pc # "idle" => HandlerFits(conn[c])'
  BY <1>1, <1>3, <1>4 DEF HandlerFits, OneTablePCs, RenamePCs, OptionsFit
<1> QED BY <1>1, <1>2, <1>5

\* The end of renameCollection.
LEMMA RenamedType ==
  ASSUME TypeInv, NEW c \in Conns, conn[c].pc \in RenamePCs, Renamed(c),
         seq' \in [Tables -> Nat],
         UNCHANGED <<cache, call, docs, colls, rows, phys>>,
         begun' \in Nat, restarts' \in Nat, faults' \in Nat
  PROVE  TypeInv'
<1> DEFINE p == conn[c].ptr
           s == [heap[p] EXCEPT !.name = Opt(c).to]
           h == [NextOption(c) EXCEPT !.tab = Opt(c).to, !.id = 0]
<1>1. /\ conn[c] \in Handler /\ HandlerFits(conn[c]) /\ CallFits(call[c])
      /\ call[c] \in Call
      /\ heap \in [Ptrs -> {None} \cup TableSchema]
  BY DEF TypeInv, TypeOK, StoreTypeOK, Shape
<1>2. conn[c].rest # <<>> /\ Opt(c).op = "rename" /\ Opt(c).to \in Tables
  BY <1>1, OptionAtHand DEF HandlerFits, RenamePCs, Opt
<1>3. /\ h \in Handler /\ h.pc = "option" /\ h.ptr = p
      /\ h.rest = Tail(conn[c].rest) /\ h.stmt = conn[c].stmt /\ h.tab = Opt(c).to
      /\ conn[c].stmt # None
  BY <1>1, <1>2, NextOptionType DEF Handler, HandlerFits, RenamePCs
<1>4. OptionsFit([NextOption(c) EXCEPT !.tab = Opt(c).to])
  BY <1>2, OptionAtHand
<1>5. /\ [NextOption(c) EXCEPT !.tab = Opt(c).to].rest = h.rest
      /\ [NextOption(c) EXCEPT !.tab = Opt(c).to].stmt = h.stmt
      /\ [NextOption(c) EXCEPT !.tab = Opt(c).to].tab = h.tab
  BY <1>2, <1>3, NextOptionType DEF Handler
<1>6. OptionsFit(h)
  <2> HIDE DEF h
  <2> QED BY <1>4, <1>5 DEF OptionsFit
<1>7. conn' = [conn EXCEPT ![c] = h]
  BY DEF Renamed
<1> HIDE DEF h
<1>8. conn' \in [Conns -> Handler] /\ conn'[c] = h
  BY <1>3, <1>7 DEF TypeInv, TypeOK
<1>9. /\ heap' \in [Ptrs -> {None} \cup TableSchema]
      /\ \A q \in Ptrs : heap[q] # None => heap'[q] # None
  <2>1. CASE p = None
    BY <1>1, <2>1 DEF Renamed
  <2>2. CASE p # None
    <3>1. p \in Ptrs /\ s \in TableSchema
      BY <1>1, <1>2, <2>2 DEF HandlerFits, Handler, TableSchema
    <3>2. s # None
      BY <3>1, ObjectIsNotNil
    <3>3. heap' = [heap EXCEPT ![p] = s]
      BY <2>2 DEF Renamed
    <3> HIDE DEF s
    <3> QED BY <1>1, <3>1, <3>2, <3>3
  <2> QED BY <2>1, <2>2
<1>10. HandlerFits(conn[c])'
  BY <1>1, <1>3, <1>6, <1>8, <1>9
     DEF HandlerFits, OneTablePCs, RenamePCs, OptionsFit, Handler
<1>11. CallFits(call[c])'
  BY <1>1, <1>9 DEF CallFits, Call
<1>12. TypeOK'
  BY <1>8, <1>9 DEF TypeInv, TypeOK, StoreTypeOK
<1>13. Shape'
  BY <1>7, <1>9, <1>10, <1>11, Frame DEF TypeInv, TypeOK, StoreTypeOK, Shape
<1> QED BY <1>12, <1>13 DEF TypeInv

\* The handlers' steps.
LEMMA HandleType ==
  ASSUME TypeInv, NEW c \in Conns, Handle(c)
  PROVE  TypeInv'
<1>t. /\ call[c] \in Call /\ CallFits(call[c]) /\ HandlerFits(conn[c])
      /\ conn[c] \in Handler
  BY DEF TypeInv, TypeOK, StoreTypeOK, Shape
<1>1. CASE CreateFails(c) \/ Finished(c) \/ RenameFails(c) \/ UpdateMany(c)
  <2>1. Finish(c) /\ UNCHANGED <<heap, cache, mongoVars, budgets>>
    BY <1>1 DEF CreateFails, Finished, RenameFails, UpdateMany
  <2> QED BY <2>1, MongoKept, FinishType
<1>2. CASE \/ CreateIndexes(c) \/ TruncateCreate(c) \/ DropWholeDatabase(c)
           \/ InsertMany(c) \/ DeleteMany(c)
  <2>1. Finish(c) /\ UNCHANGED <<heap, cache>>
    BY <1>2 DEF CreateIndexes, TruncateCreate, DropWholeDatabase, InsertMany, DeleteMany
  <2>2. conn[c].pc # "dropDatabase" => conn[c].tab \in Tables
    BY <1>2, <1>t DEF CreateIndexes, TruncateCreate, DropWholeDatabase, InsertMany, DeleteMany,
       Running, HandlerFits, OneTablePCs, Handler
  <2>3. MongoFits'
    <3>1. CASE CreateIndexes(c)
      BY <2>2, <3>1 DEF CreateIndexes, Running, Indexed, MongoFits, TypeInv, TypeOK, StoreTypeOK,
         budgets
    <3>2. CASE TruncateCreate(c)
      BY <2>2, <3>2 DEF TruncateCreate, Running, MongoFits, TypeInv, TypeOK, StoreTypeOK, budgets
    <3>3. CASE DropWholeDatabase(c)
      BY <3>3 DEF DropWholeDatabase, MongoFits, TypeInv, TypeOK, StoreTypeOK, budgets
    <3>4. CASE InsertMany(c)
      <4>1. [id |-> conn[c].id, nr |-> conn[c].nr] \in Row
        BY <1>t DEF Handler, Row
      <4> QED
        BY <2>2, <3>4, <4>1 DEF InsertMany, Running, MongoFits, TypeInv, TypeOK, StoreTypeOK, budgets
    <3>5. CASE DeleteMany(c)
      BY <2>2, <3>5 DEF DeleteMany, Running, MongoFits, TypeInv, TypeOK, StoreTypeOK, budgets
    <3> QED BY <1>2, <3>1, <3>2, <3>3, <3>4, <3>5
  <2> QED BY <2>1, <2>3, FinishType
<1>3. CASE CheckExists(c)
  <2>1. CASE conn[c].tab \in colls
    BY <1>3, <2>1, MongoKept, FinishType DEF CheckExists
  <2>2. CASE conn[c].tab \notin colls
    <3>1. /\ conn' = [conn EXCEPT ![c].pc = "create"] /\ conn[c].pc = "check"
          /\ UNCHANGED <<heap, cache, call>> /\ MongoFits'
      BY <1>3, <2>2, MongoKept DEF CheckExists, Goto, Running
    <3> QED BY <1>t, <3>1, GotoType
         DEF PCs, OneTablePCs, RenamePCs, CallFits, TypeInv, TypeOK, StoreTypeOK
  <2> QED BY <2>1, <2>2
<1>4. CASE TruncateDrop(c)
  <2>1. conn[c].pc = "truncate" /\ conn[c].tab \in Tables
    BY <1>4, <1>t DEF TruncateDrop, Running, HandlerFits, OneTablePCs, Handler
  <2>2. MongoFits'
    BY <1>4, <2>1 DEF TruncateDrop, Dropped, MongoFits, TypeInv, TypeOK, StoreTypeOK, budgets
  <2>3. conn' = [conn EXCEPT ![c].pc = "recreate"] /\ UNCHANGED <<heap, cache, call>>
    BY <1>4 DEF TruncateDrop, Goto
  <2> QED BY <1>t, <2>1, <2>2, <2>3, GotoType
       DEF PCs, OneTablePCs, RenamePCs, CallFits, TypeInv, TypeOK, StoreTypeOK
<1>5. CASE SetCounter(c)
  <2>1. conn[c].pc = "setCounter" /\ Opt(c).to \in Tables /\ conn[c].id \in Nat
    BY <1>5, <1>t, OptionAtHand DEF SetCounter, Running, HandlerFits, RenamePCs, Opt, Handler
  <2>2. MongoFits'
    BY <1>5, <2>1 DEF SetCounter, collVars, MongoFits, TypeInv, TypeOK, StoreTypeOK, budgets
  <2>3. conn' = [conn EXCEPT ![c].pc = "deleteCounter"] /\ UNCHANGED <<heap, cache, call>>
    BY <1>5 DEF SetCounter, Goto
  <2> QED BY <1>t, <2>1, <2>2, <2>3, GotoType
       DEF PCs, OneTablePCs, RenamePCs, CallFits, TypeInv, TypeOK, StoreTypeOK
<1>6. CASE DropOldSchema(c)
  <2>1. conn[c].pc = "dropOld" /\ conn[c].tab \in Tables
    BY <1>6, <1>t DEF DropOldSchema, Running, HandlerFits, OneTablePCs, RenamePCs, Handler
  <2>2. /\ conn' = [conn EXCEPT ![c].pc = "findCounter"] /\ UNCHANGED <<heap, cache>>
        /\ call' = [call EXCEPT ![c] = DeleteOf(conn[c].tab)] /\ MongoFits'
    BY <1>6, MongoKept DEF DropOldSchema, Goto, Begins
  <2>3. call' \in [Conns -> Call] /\ CallFits(call[c])'
    BY <2>1, <2>2, NoneIsDistinct
       DEF DeleteOf, Call, CallSteps, CallFits, TypeInv, TypeOK, StoreTypeOK
  <2> QED BY <2>1, <2>2, <2>3, GotoType
       DEF PCs, OneTablePCs, RenamePCs, TypeInv, TypeOK, StoreTypeOK
<1>7. CASE EndOptions(c)
  <2>1. CASE conn[c].ptr = None \/ conn[c].stmt.opts = <<>>
    BY <1>7, <2>1, MongoKept, FinishType DEF EndOptions
  <2>2. CASE conn[c].ptr # None /\ conn[c].stmt.opts # <<>>
    <3>1. /\ conn' = [conn EXCEPT ![c].pc = "finish"] /\ conn[c].pc = "option"
          /\ call' = [call EXCEPT ![c] = SaveOf(conn[c].ptr)]
          /\ UNCHANGED <<heap, cache>> /\ MongoFits'
      BY <1>7, <2>2, MongoKept DEF EndOptions, Goto, Begins, Running
    <3>2. call' \in [Conns -> Call] /\ CallFits(call[c])'
      BY <1>t, <2>2, <3>1 DEF SaveOf, Call, CallSteps, CallFits, HandlerFits,
         TypeInv, TypeOK, StoreTypeOK, Handler
    <3> QED BY <3>1, <3>2, GotoType
         DEF PCs, OneTablePCs, RenamePCs, TypeInv, TypeOK, StoreTypeOK
  <2> QED BY <2>1, <2>2
<1>8. CASE Start(c)
  <2>1. /\ conn' = [conn EXCEPT ![c].pc = "option", ![c].ptr = call[c].ptr]
        /\ UNCHANGED <<heap, cache, call>> /\ conn[c].pc = "start" /\ MongoFits'
    BY <1>8, MongoKept DEF Start, Running
  <2>2. call[c].ptr \in {None} \cup Ptrs /\ (call[c].ptr # None => heap[call[c].ptr] # None)
    BY <1>t DEF CallFits, Call
  <2>3. conn' \in [Conns -> Handler] /\ HandlerFits(conn[c])' /\ CallFits(call[c])'
    <3>1. conn' \in [Conns -> Handler]
      BY <1>t, <2>1, <2>2 DEF TypeInv, TypeOK, Handler, PCs
    <3>2. HandlerFits(conn[c])'
      BY <1>t, <2>1, <2>2 DEF TypeInv, TypeOK, HandlerFits, OptionsFit, OneTablePCs, RenamePCs
    <3>3. CallFits(call[c])'
      BY <1>t, <2>1 DEF CallFits
    <3> QED BY <3>1, <3>2, <3>3
  <2>4. TypeOK'
    BY <2>1, <2>3 DEF MongoFits, TypeInv, TypeOK, StoreTypeOK
  <2>5. Shape'
    BY <2>1, <2>3, Frame DEF TypeInv, TypeOK, StoreTypeOK, Shape
  <2> QED BY <2>4, <2>5 DEF TypeInv
<1>9. ASSUME NEW p \in Fresh, CreateCollection(c, p)
      PROVE  TypeInv'
  <2>1. /\ conn' \in [Conns -> Handler] /\ HandlerFits(conn[c])'
        /\ \A d \in Conns \ {c} : conn'[d] = conn[d]
    <3>1. conn' = [conn EXCEPT ![c].pc = "createIndexes"] /\ conn[c].pc = "create"
      BY <1>9 DEF CreateCollection, Goto, Running
    <3>2. conn' \in [Conns -> Handler] /\ \A d \in Conns \ {c} : conn'[d] = conn[d]
      BY <3>1, <1>t DEF TypeInv, TypeOK, Handler, PCs
    <3>3. conn[c].ptr # None => heap'[conn[c].ptr] # None
      BY <1>9, <1>t DEF CreateCollection, HandlerFits, TypeInv, TypeOK, StoreTypeOK, Fresh, Handler
    <3>4. HandlerFits(conn[c])'
      BY <3>1, <3>3, <1>t DEF TypeInv, TypeOK, HandlerFits, OptionsFit, OneTablePCs, RenamePCs
    <3> QED BY <3>2, <3>4
  <2>2. p \in Ptrs /\ p # None /\ conn[c].tab \in Tables
    BY <1>9, <1>t, NoneIsDistinct
       DEF CreateCollection, Running, Fresh, HandlerFits, OneTablePCs, Handler
  <2>3. CASE conn[c].stmt.items \subseteq Indexes
    <3>1. TypeOK'
      BY <1>9, <2>1, <2>2, <2>3 DEF CreateCollection, TypeInv, TypeOK, StoreTypeOK, budgets
    <3>2. Shape'
      BY <1>9, <1>t, <2>1, <2>3, Frame
         DEF CreateCollection, TypeInv, TypeOK, StoreTypeOK, Shape, CallFits
    <3> QED BY <3>1, <3>2 DEF TypeInv
  <2>4. CASE ~(conn[c].stmt.items \subseteq Indexes)
    <3> DEFINE s == [name |-> conn[c].tab, items |-> Lists(conn[c].stmt.items)]
    <3>1. s \in TableSchema
      BY <2>2 DEF TableSchema, Lists, Listing
    <3>s. s # None
      <4>1. s.items \in Listing
        BY DEF Lists, Listing
      <4> QED BY <3>1, ObjectIsNotNil
    <3> HIDE DEF s
    <3>2. heap' = [heap EXCEPT ![p] = s] /\ call' = [call EXCEPT ![c] = SaveOf(p)]
      BY <1>9, <2>4 DEF CreateCollection, Begins, s
    <3>3. call' \in [Conns -> Call] /\ CallFits(call[c])'
      BY <2>2, <3>2, <3>s, <1>t DEF SaveOf, Call, CallSteps, CallFits, TypeInv, TypeOK, StoreTypeOK
    <3>4. TypeOK'
      BY <1>9, <2>1, <2>2, <3>1, <3>2, <3>3
         DEF CreateCollection, TypeInv, TypeOK, StoreTypeOK, budgets
    <3>5. Shape'
      BY <1>9, <1>t, <2>1, <2>2, <3>s, <3>2, <3>3, Frame
         DEF CreateCollection, TypeInv, TypeOK, StoreTypeOK, Shape
    <3> QED BY <3>4, <3>5 DEF TypeInv
  <2> QED BY <2>3, <2>4
<1>10. CASE AddColumn(c) \/ ModifyColumn(c)
  <2>0. /\ conn[c].rest # <<>> /\ conn[c].pc # "idle" /\ UNCHANGED heap
        /\ Opt(c).op \in {"add", "drop", "modify", "addIndex", "dropIndex", "createIndex",
                         "removeIndex"}
        /\ Loads(c, conn[c].ptr)
    BY <1>10, <1>t DEF AddColumn, ModifyColumn, AtOption, Running, Returned, HandlerFits, Opt, mongoVars
  <2>p. /\ conn[c].ptr \in {None} \cup Ptrs
        /\ conn[c].ptr # None => heap[conn[c].ptr] # None
    BY <1>t DEF HandlerFits, CallFits, Handler, Call
  <2>1. /\ conn' \in [Conns -> Handler] /\ HandlerFits(conn[c])'
        /\ \A d \in Conns \ {c} : conn'[d] = conn[d]
    BY <2>0, <2>p, LoadsType
  <2>2. TypeOK'
    BY <1>10, <2>1 DEF AddColumn, ModifyColumn, TypeInv, TypeOK, StoreTypeOK, mongoVars, budgets
  <2>3. CallFits(call[c])'
    BY <1>10, <1>t DEF AddColumn, ModifyColumn, CallFits, mongoVars
  <2>4. Shape'
    BY <1>10, <1>t, <2>0, <2>1, <2>3, Frame DEF AddColumn, ModifyColumn, TypeInv, Shape, TypeOK, StoreTypeOK, mongoVars
  <2> QED BY <2>2, <2>4 DEF TypeInv
<1>11. CASE DropColumn(c)
  <2>0. /\ conn[c].rest # <<>> /\ conn[c].pc # "idle" /\ UNCHANGED heap
        /\ Opt(c).op \in {"add", "drop", "modify", "addIndex", "dropIndex", "createIndex",
                         "removeIndex"}
        /\ Loads(c, conn[c].ptr)
    BY <1>11, <1>t DEF DropColumn, AtOption, Running, Returned, HandlerFits, Opt, mongoVars
  <2>p. /\ conn[c].ptr \in {None} \cup Ptrs
        /\ conn[c].ptr # None => heap[conn[c].ptr] # None
    BY <1>t DEF HandlerFits, CallFits, Handler, Call
  <2>1. /\ conn' \in [Conns -> Handler] /\ HandlerFits(conn[c])'
        /\ \A d \in Conns \ {c} : conn'[d] = conn[d]
    BY <2>0, <2>p, LoadsType
  <2>2. TypeOK'
    <3> DEFINE old == rows[conn[c].tab]
           new == IF Opt(c).item = AutoCol THEN {[r EXCEPT !.id = 0] : r \in old}
                                           ELSE old
    <3>1. conn[c].tab \in Tables /\ rows \in [Tables -> SUBSET Row]
      BY <1>11, <2>0, OptionAtHand DEF DropColumn, AtOption, Opt, TypeInv, TypeOK
    <3>2. old \in SUBSET Row
      BY <3>1
    <3>3. \A r \in Row : [r EXCEPT !.id = 0] \in Row
      BY DEF Row
    <3>4. new \in SUBSET Row
      BY <3>2, <3>3
    <3>5. rows' = [rows EXCEPT ![conn[c].tab] = new]
      BY <1>11 DEF DropColumn
    <3> HIDE DEF new
    <3>6. rows' \in [Tables -> SUBSET Row]
      BY <3>1, <3>4, <3>5
    <3> QED BY <1>11, <2>1, <3>6 DEF DropColumn, TypeInv, TypeOK, StoreTypeOK, budgets
  <2>3. CallFits(call[c])'
    BY <1>11, <1>t DEF DropColumn, CallFits, mongoVars
  <2>4. Shape'
    BY <1>11, <1>t, <2>0, <2>1, <2>3, Frame DEF DropColumn, TypeInv, Shape, TypeOK, StoreTypeOK, mongoVars
  <2> QED BY <2>2, <2>4 DEF TypeInv
<1>12. CASE AddIndex(c)
  <2>0. /\ conn[c].rest # <<>> /\ conn[c].pc # "idle" /\ UNCHANGED heap
        /\ Opt(c).op \in {"add", "drop", "modify", "addIndex", "dropIndex", "createIndex",
                         "removeIndex"}
        /\ Loads(c, conn[c].ptr)
    BY <1>12, <1>t DEF AddIndex, AtOption, Running, Returned, HandlerFits, Opt, mongoVars
  <2>p. /\ conn[c].ptr \in {None} \cup Ptrs
        /\ conn[c].ptr # None => heap[conn[c].ptr] # None
    BY <1>t DEF HandlerFits, CallFits, Handler, Call
  <2>1. /\ conn' \in [Conns -> Handler] /\ HandlerFits(conn[c])'
        /\ \A d \in Conns \ {c} : conn'[d] = conn[d]
    BY <2>0, <2>p, LoadsType
  <2>2. TypeOK'
    <3>1. conn[c].tab \in Tables /\ Opt(c).item \in Indexes
      BY <1>12, <2>0, OptionAtHand DEF AddIndex, AtOption, Opt
    <3> QED BY <1>12, <2>1, <3>1 DEF AddIndex, Indexed, TypeInv, TypeOK, StoreTypeOK, budgets
  <2>3. CallFits(call[c])'
    BY <1>12, <1>t DEF AddIndex, CallFits, mongoVars
  <2>4. Shape'
    BY <1>12, <1>t, <2>0, <2>1, <2>3, Frame DEF AddIndex, TypeInv, Shape, TypeOK, StoreTypeOK, mongoVars
  <2> QED BY <2>2, <2>4 DEF TypeInv
<1>13. CASE DropKey(c)
  <2>0. /\ conn[c].rest # <<>> /\ conn[c].pc # "idle" /\ UNCHANGED heap
        /\ Opt(c).op \in {"add", "drop", "modify", "addIndex", "dropIndex", "createIndex",
                         "removeIndex"}
        /\ Loads(c, conn[c].ptr)
    BY <1>13, <1>t DEF DropKey, AtOption, Running, Returned, HandlerFits, Opt, mongoVars
  <2>p. /\ conn[c].ptr \in {None} \cup Ptrs
        /\ conn[c].ptr # None => heap[conn[c].ptr] # None
    BY <1>t DEF HandlerFits, CallFits, Handler, Call
  <2>1. /\ conn' \in [Conns -> Handler] /\ HandlerFits(conn[c])'
        /\ \A d \in Conns \ {c} : conn'[d] = conn[d]
    BY <2>0, <2>p, LoadsType
  <2>2. TypeOK'
    <3>1. conn[c].tab \in Tables /\ Opt(c).item \in Indexes
      BY <1>13, <2>0, OptionAtHand DEF DropKey, AtOption, Opt
    <3> QED BY <1>13, <2>1, <3>1 DEF DropKey, Unindexed, TypeInv, TypeOK, StoreTypeOK, budgets
  <2>3. CallFits(call[c])'
    BY <1>13, <1>t DEF DropKey, CallFits, mongoVars
  <2>4. Shape'
    BY <1>13, <1>t, <2>0, <2>1, <2>3, Frame DEF DropKey, TypeInv, Shape, TypeOK, StoreTypeOK, mongoVars
  <2> QED BY <2>2, <2>4 DEF TypeInv
<1>14. CASE IndexStatement(c)
  <2>0. /\ conn[c].rest # <<>> /\ conn[c].pc = "option"
        /\ Opt(c).op \in {"createIndex", "removeIndex"}
    BY <1>14 DEF IndexStatement, AtOption, Running, Opt
  <2>1. conn[c].tab \in Tables /\ Opt(c).item \in Indexes
    BY <2>0, OptionAtHand
  <2>2. /\ conn' = [conn EXCEPT ![c].pc = "load"]
        /\ call' = [call EXCEPT ![c] = GetOf(conn[c].tab)]
    BY <1>14 DEF IndexStatement, Goto, Begins
  <2>3. conn' \in [Conns -> Handler] /\ HandlerFits(conn[c])'
    BY <1>14, <1>t, <2>0, <2>1, <2>2, NoneIsDistinct
       DEF IndexStatement, Opt, TypeInv, TypeOK, Handler, PCs,
       HandlerFits, OptionsFit, OneTablePCs, RenamePCs
  <2>4. call' \in [Conns -> Call] /\ CallFits(call[c])'
    BY <2>1, <2>2, NoneIsDistinct
       DEF TypeInv, TypeOK, StoreTypeOK, GetOf, Call, CallSteps, CallFits
  <2>5. /\ colls' \subseteq Tables /\ phys' \in [Tables -> SUBSET Indexes]
        /\ UNCHANGED rows
    BY <1>14, <2>1 DEF IndexStatement, Indexed, Unindexed, TypeInv, TypeOK
  <2>6. TypeOK'
    BY <1>14, <2>3, <2>4, <2>5 DEF IndexStatement, TypeInv, TypeOK, StoreTypeOK, budgets
  <2>7. Shape'
    BY <1>14, <1>t, <2>2, <2>3, <2>4, Frame
       DEF IndexStatement, TypeInv, TypeOK, StoreTypeOK, Shape
  <2> QED BY <2>6, <2>7 DEF TypeInv
<1>15. CASE Load(c)
  <2>0. /\ conn[c].rest # <<>> /\ conn[c].pc # "idle" /\ UNCHANGED heap
        /\ Opt(c).op \in {"add", "drop", "modify", "addIndex", "dropIndex", "createIndex",
                         "removeIndex"}
        /\ Loads(c, call[c].ptr)
    BY <1>15, <1>t DEF Load, Running, Returned, HandlerFits, Opt, mongoVars
  <2>p. /\ call[c].ptr \in {None} \cup Ptrs
        /\ call[c].ptr # None => heap[call[c].ptr] # None
    BY <1>t DEF HandlerFits, CallFits, Handler, Call
  <2>1. /\ conn' \in [Conns -> Handler] /\ HandlerFits(conn[c])'
        /\ \A d \in Conns \ {c} : conn'[d] = conn[d]
    BY <2>0, <2>p, LoadsType
  <2>2. TypeOK'
    BY <1>15, <2>1 DEF Load, TypeInv, TypeOK, StoreTypeOK, mongoVars, budgets
  <2>3. CallFits(call[c])'
    BY <1>15, <1>t DEF Load, CallFits, mongoVars
  <2>4. Shape'
    BY <1>15, <1>t, <2>0, <2>1, <2>3, Frame DEF Load, TypeInv, Shape, TypeOK, StoreTypeOK, mongoVars
  <2> QED BY <2>2, <2>4 DEF TypeInv
<1>16. CASE Store(c)
  <2> DEFINE p == conn[c].ptr
             s == [heap[p] EXCEPT !.items = Edited(conn[c].seen, Opt(c).op, Opt(c).item)]
  <2>0. /\ conn[c].rest # <<>> /\ conn[c].pc = "store"
        /\ p \in Ptrs /\ heap[p] \in TableSchema /\ conn[c].seen \in Listing
        /\ Opt(c).op \in {"add", "drop", "modify", "addIndex", "dropIndex", "createIndex",
                         "removeIndex"}
    BY <1>16, <1>t DEF Store, Running, HandlerFits, Handler, Opt, TypeInv, TypeOK, StoreTypeOK
  <2>1. Opt(c).item \in Items
    BY <2>0, OptionAtHand, ItemsAssumption
  <2>2. Edited(conn[c].seen, Opt(c).op, Opt(c).item) \in Listing
    BY <2>0, <2>1 DEF Edited, Listing
  <2>3. s \in TableSchema
    BY <2>0, <2>2 DEF TableSchema
  <2>4. s # None
    BY <2>3, ObjectIsNotNil
  <2>5. /\ heap' = [heap EXCEPT ![p] = s]
        /\ conn' = [conn EXCEPT ![c] = NextOption(c)]
    BY <1>16 DEF Store
  <2> HIDE DEF s
  <2>6. heap' \in [Ptrs -> {None} \cup TableSchema] /\ heap'[p] # None
    BY <2>0, <2>3, <2>4, <2>5 DEF TypeInv, TypeOK, StoreTypeOK
  <2>7. /\ conn' \in [Conns -> Handler] /\ conn'[c] = NextOption(c)
    BY <2>0, <2>5, NextOptionType DEF TypeInv, TypeOK
  <2>8. HandlerFits(conn[c])'
    BY <2>0, <2>6, <2>7, <1>t, NextOptionType, OptionAtHand
       DEF HandlerFits, OneTablePCs, RenamePCs, OptionsFit
  <2>9. CallFits(call[c])'
    BY <1>16, <1>t, <2>0, <2>4, <2>5 DEF Store, CallFits, Call, TypeInv, TypeOK, StoreTypeOK
  <2>10. TypeOK'
    BY <1>16, <2>6, <2>7 DEF Store, TypeInv, TypeOK, StoreTypeOK, mongoVars, budgets
  <2>11. Shape'
    BY <1>16, <1>t, <2>0, <2>4, <2>5, <2>8, <2>9, Frame
       DEF Store, TypeInv, TypeOK, StoreTypeOK, Shape
  <2> QED BY <2>10, <2>11 DEF TypeInv
<1>17. CASE DropCollection(c)
  <2>0. /\ conn[c].rest # <<>> /\ conn[c].pc = "option" /\ Opt(c).op = "dropTable"
    BY <1>17 DEF DropCollection, AtOption, Running, Opt
  <2>1. Opt(c).tab \in Tables /\ OptionsFit([conn[c] EXCEPT !.tab = Opt(c).tab])
    BY <2>0, OptionAtHand
  <2> DEFINE h == [conn[c] EXCEPT !.pc = "dropCounter", !.tab = Opt(c).tab]
  <2>2. /\ conn' = [conn EXCEPT ![c] = h]
        /\ call' = [call EXCEPT ![c] = DeleteOf(Opt(c).tab)]
    BY <1>17 DEF DropCollection, Begins
  <2>3. /\ h \in Handler /\ h.pc = "dropCounter" /\ h.tab = Opt(c).tab
        /\ h.rest = conn[c].rest /\ h.stmt = conn[c].stmt /\ h.ptr = conn[c].ptr
    BY <1>t, <2>1 DEF Handler, PCs
  <2>f. OptionsFit(h)
    BY <1>t, <2>1, <2>3 DEF OptionsFit, Handler
  <2> HIDE DEF h
  <2>4. /\ conn' \in [Conns -> Handler] /\ conn'[c] = h
    BY <2>2, <2>3 DEF TypeInv, TypeOK
  <2>5. HandlerFits(conn[c])'
    BY <1>17, <1>t, <2>0, <2>1, <2>3, <2>f, <2>4, NoneIsDistinct
       DEF DropCollection, HandlerFits, OptionsFit, OneTablePCs, RenamePCs, Opt
  <2>6. call' \in [Conns -> Call] /\ CallFits(call[c])'
    BY <2>1, <2>2, NoneIsDistinct
       DEF TypeInv, TypeOK, StoreTypeOK, DeleteOf, Call, CallSteps, CallFits
  <2>7. /\ colls' \subseteq Tables /\ phys' \in [Tables -> SUBSET Indexes]
        /\ rows' \in [Tables -> SUBSET Row]
    BY <1>17, <2>1 DEF DropCollection, Dropped, TypeInv, TypeOK
  <2>8. TypeOK'
    BY <1>17, <2>4, <2>6, <2>7 DEF DropCollection, TypeInv, TypeOK, StoreTypeOK, budgets
  <2>9. Shape'
    BY <1>17, <1>t, <2>2, <2>5, <2>6, Frame
       DEF DropCollection, TypeInv, TypeOK, StoreTypeOK, Shape
  <2> QED BY <2>8, <2>9 DEF TypeInv
<1>18. CASE DropCounter(c)
  <2>0. /\ conn[c].rest # <<>> /\ conn[c].tab \in Tables /\ conn[c].pc # "idle"
    BY <1>18, <1>t DEF DropCounter, Running, HandlerFits, OneTablePCs, Handler
  <2>1. conn' = [conn EXCEPT ![c] = NextOption(c)] /\ UNCHANGED heap
    BY <1>18 DEF DropCounter
  <2>2. conn' \in [Conns -> Handler] /\ HandlerFits(conn[c])'
    BY <2>0, <2>1, NextOfOption
  <2>3. TypeOK'
    BY <1>18, <2>0, <2>2 DEF DropCounter, TypeInv, TypeOK, StoreTypeOK, collVars, budgets
  <2>4. Shape'
    BY <1>18, <1>t, <2>1, <2>2, Frame DEF DropCounter, TypeInv, TypeOK, StoreTypeOK, Shape, CallFits
  <2> QED BY <2>3, <2>4 DEF TypeInv
<1>19. CASE RenameCollection(c)
  <2>0. /\ conn[c].rest # <<>> /\ conn[c].pc = "option" /\ Opt(c).op = "rename"
    BY <1>19 DEF RenameCollection, AtOption, Running, Opt
  <2>1. /\ From(c) \in Tables /\ Opt(c).to \in Tables
        /\ OptionsFit([conn[c] EXCEPT !.tab = From(c)])
    BY <2>0, OptionAtHand
  <2> DEFINE h == [conn[c] EXCEPT !.pc = "migrate", !.tab = From(c)]
  <2>2. /\ conn' = [conn EXCEPT ![c] = h]
        /\ call' = [call EXCEPT ![c] = GetOf(From(c))]
    BY <1>19 DEF RenameCollection, Begins
  <2>3. /\ h \in Handler /\ h.pc = "migrate" /\ h.tab = From(c)
        /\ h.rest = conn[c].rest /\ h.stmt = conn[c].stmt /\ h.ptr = conn[c].ptr
    BY <1>t, <2>1 DEF Handler, PCs
  <2>f. OptionsFit(h)
    BY <1>t, <2>1, <2>3 DEF OptionsFit, Handler
  <2> HIDE DEF h
  <2>4. /\ conn' \in [Conns -> Handler] /\ conn'[c] = h
    BY <2>2, <2>3 DEF TypeInv, TypeOK
  <2>5. HandlerFits(conn[c])'
    BY <1>19, <1>t, <2>0, <2>1, <2>3, <2>f, <2>4, NoneIsDistinct
       DEF RenameCollection, HandlerFits, OptionsFit, OneTablePCs, RenamePCs, Opt
  <2>6. call' \in [Conns -> Call] /\ CallFits(call[c])'
    BY <2>1, <2>2, NoneIsDistinct
       DEF TypeInv, TypeOK, StoreTypeOK, GetOf, Call, CallSteps, CallFits
  <2>7. /\ colls' \subseteq Tables /\ phys' \in [Tables -> SUBSET Indexes]
        /\ rows' \in [Tables -> SUBSET Row]
    BY <1>19, <2>1 DEF RenameCollection, TypeInv, TypeOK
  <2>8. TypeOK'
    BY <1>19, <2>4, <2>6, <2>7 DEF RenameCollection, TypeInv, TypeOK, StoreTypeOK, budgets
  <2>9. Shape'
    BY <1>19, <1>t, <2>2, <2>5, <2>6, Frame
       DEF RenameCollection, TypeInv, TypeOK, StoreTypeOK, Shape
  <2> QED BY <2>8, <2>9 DEF TypeInv
<1>20. CASE MigrateSchema(c)
  <2> DEFINE q == call[c].ptr
             s == [heap[q] EXCEPT !.name = Opt(c).to]
  <2>0. /\ conn[c].rest # <<>> /\ conn[c].pc = "migrate" /\ Opt(c).op = "rename"
        /\ conn[c].tab # None
    BY <1>20, <1>t DEF MigrateSchema, Running, HandlerFits, RenamePCs, OneTablePCs, Opt
  <2>1. Opt(c).to \in Tables
    BY <2>0, OptionAtHand
  <2>2. conn' = [conn EXCEPT ![c].pc = IF q = None THEN "findCounter" ELSE "dropOld"]
    BY <1>20 DEF MigrateSchema, Goto
  <2>3. /\ conn' \in [Conns -> Handler]
        /\ conn[c].ptr # None => conn[c].ptr \in Ptrs
    BY <1>t, <2>2 DEF TypeInv, TypeOK, Handler, PCs
  <2>4. ASSUME conn[c].ptr # None => heap'[conn[c].ptr] # None
        PROVE  HandlerFits(conn[c])'
    BY <1>t, <2>0, <2>2, <2>4 DEF TypeInv, TypeOK, HandlerFits, OptionsFit, OneTablePCs,
       RenamePCs, Opt
  <2>5. CASE q = None
    <3>1. UNCHANGED <<heap, call>>
      BY <1>20, <2>5 DEF MigrateSchema
    <3>2. HandlerFits(conn[c])' /\ CallFits(call[c])'
      BY <1>t, <2>4, <3>1 DEF HandlerFits, CallFits
    <3>3. TypeOK'
      BY <1>20, <2>3, <3>1 DEF MigrateSchema, TypeInv, TypeOK, StoreTypeOK, mongoVars, budgets
    <3>4. Shape'
      BY <1>20, <2>2, <3>1, <3>2, Frame DEF MigrateSchema, TypeInv, TypeOK, StoreTypeOK, Shape
    <3> QED BY <3>3, <3>4 DEF TypeInv
  <2>6. CASE q # None
    <3>1. q \in Ptrs /\ s \in TableSchema
      BY <1>t, <2>1, <2>6 DEF CallFits, Call, TableSchema, TypeInv, TypeOK, StoreTypeOK
    <3>2. s # None
      BY <3>1, ObjectIsNotNil
    <3>3. heap' = [heap EXCEPT ![q] = s] /\ call' = [call EXCEPT ![c] = SaveOf(q)]
      BY <1>20, <2>6 DEF MigrateSchema, Begins
    <3> HIDE DEF s
    <3>4. call' \in [Conns -> Call] /\ CallFits(call[c])'
      BY <2>6, <3>1, <3>2, <3>3 DEF SaveOf, Call, CallSteps, CallFits, TypeInv, TypeOK, StoreTypeOK
    <3>5. HandlerFits(conn[c])'
      BY <1>t, <2>3, <2>4, <3>2, <3>3 DEF HandlerFits, TypeInv, TypeOK, StoreTypeOK
    <3>6. TypeOK'
      BY <1>20, <2>3, <3>1, <3>3, <3>4 DEF MigrateSchema, TypeInv, TypeOK, StoreTypeOK, mongoVars,
         budgets
    <3>7. Shape'
      BY <1>20, <2>2, <3>1, <3>2, <3>3, <3>4, <3>5, Frame
         DEF MigrateSchema, TypeInv, TypeOK, StoreTypeOK, Shape
    <3> QED BY <3>6, <3>7 DEF TypeInv
  <2> QED BY <2>5, <2>6
<1>21. CASE FindCounter(c)
  <2>0. conn[c].pc \in RenamePCs /\ conn[c].tab \in Tables
    BY <1>21, <1>t DEF FindCounter, Running, RenamePCs, HandlerFits, OneTablePCs, Handler
  <2>1. CASE seq[conn[c].tab] = 0
    <3>1. Renamed(c) /\ UNCHANGED <<cache, call, mongoVars, budgets>>
      BY <1>21, <2>1 DEF FindCounter
    <3>2. begun' \in Nat /\ restarts' \in Nat /\ faults' \in Nat
      BY <3>1 DEF budgets, TypeInv, TypeOK
    <3>3. UNCHANGED <<cache, call, docs, colls, rows, phys>> /\ seq' \in [Tables -> Nat]
      BY <3>1 DEF mongoVars, TypeInv, TypeOK
    <3> QED BY <2>0, <3>1, <3>2, <3>3, RenamedType
  <2>2. CASE seq[conn[c].tab] # 0
    <3>1. /\ conn' = [conn EXCEPT ![c].pc = "setCounter", ![c].id = seq[conn[c].tab]]
          /\ UNCHANGED heap
      BY <1>21, <2>2 DEF FindCounter
    <3>2. seq[conn[c].tab] \in Nat
      BY <2>0 DEF TypeInv, TypeOK
    <3>3. conn' \in [Conns -> Handler]
      <4>1. [conn[c] EXCEPT !.pc = "setCounter", !.id = seq[conn[c].tab]] \in Handler
        BY <1>t, <3>2 DEF Handler, PCs
      <4> QED BY <3>1, <4>1 DEF TypeInv, TypeOK
    <3>4. HandlerFits(conn[c])'
      BY <1>t, <2>0, <3>1 DEF TypeInv, TypeOK, HandlerFits, OptionsFit, OneTablePCs, RenamePCs,
         Handler
    <3>5. TypeOK'
      BY <1>21, <3>1, <3>3 DEF FindCounter, TypeInv, TypeOK, StoreTypeOK, mongoVars, budgets
    <3>6. Shape'
      BY <1>21, <1>t, <3>1, <3>4, Frame
         DEF FindCounter, TypeInv, TypeOK, StoreTypeOK, Shape, CallFits
    <3> QED BY <3>5, <3>6 DEF TypeInv
  <2> QED BY <2>1, <2>2
<1>22. CASE DeleteCounter(c)
  <2>0. conn[c].pc \in RenamePCs /\ conn[c].tab \in Tables
    BY <1>22, <1>t DEF DeleteCounter, Running, RenamePCs, HandlerFits, OneTablePCs, Handler
  <2>1. seq' \in [Tables -> Nat] /\ Renamed(c)
    BY <1>22 DEF DeleteCounter, TypeInv, TypeOK
  <2>2. begun' \in Nat /\ restarts' \in Nat /\ faults' \in Nat
    BY <1>22 DEF DeleteCounter, budgets, TypeInv, TypeOK
  <2>3. UNCHANGED <<cache, call, docs, colls, rows, phys>>
    BY <1>22 DEF DeleteCounter, collVars
  <2> QED BY <2>0, <2>1, <2>2, <2>3, RenamedType
<1>23. CASE NextAutoIncrement(c)
  <2>1. conn[c].pc = "applyDefaults"
    BY <1>23 DEF NextAutoIncrement, Running
  <2>2. seq[heap[call[c].ptr].name] + 1 \in Nat
    BY <1>23, <1>t, <2>1, StatementId DEF NextAutoIncrement, NeedsId, Running, CallFits, HandlerFits, Handler,
       TypeInv, TypeOK, StoreTypeOK, TableSchema, Call
  <2>3. conn' = [conn EXCEPT ![c].pc = "insertMany", ![c].id = seq[heap[call[c].ptr].name] + 1]
    BY <1>23 DEF NextAutoIncrement
  <2> HIDE DEF TypeInv
  <2>4. conn' \in [Conns -> Handler]
    <3>1. conn \in [Conns -> Handler] /\ conn[c] \in Handler
      BY <1>t DEF TypeInv, TypeOK
    <3>2. [conn[c] EXCEPT !.pc = "insertMany", !.id = seq[heap[call[c].ptr].name] + 1] \in Handler
      BY <3>1, <2>2 DEF Handler, PCs
    <3> QED BY <3>1, <3>2, <2>3
  <2>5. HandlerFits(conn[c])'
    <3>1. heap' = heap /\ HandlerFits(conn[c]) /\ conn \in [Conns -> Handler] /\ conn[c] \in Handler
      BY <1>23, <1>t DEF NextAutoIncrement, TypeInv, TypeOK
    <3>2. /\ conn'[c].pc = "insertMany" /\ conn'[c].stmt = conn[c].stmt /\ conn'[c].rest = conn[c].rest
          /\ conn'[c].tab = conn[c].tab /\ conn'[c].ptr = conn[c].ptr
      BY <2>3, <3>1 DEF Handler
    <3> QED BY <2>1, <3>1, <3>2 DEF HandlerFits, OptionsFit, OneTablePCs, RenamePCs
  <2>6. TypeOK'
    BY <1>23, <1>t, <2>4 DEF NextAutoIncrement, NeedsId, TypeInv, TypeOK, StoreTypeOK, CallFits, Call, TableSchema,
       mongoVars, collVars, budgets
  <2>7. Shape'
    BY <1>23, <1>t, <2>3, <2>5, Frame DEF NextAutoIncrement, TypeInv, TypeOK, StoreTypeOK, Shape, CallFits, mongoVars
  <2> QED BY <2>6, <2>7 DEF TypeInv
<1>24. CASE NoAutoIncrement(c)
  <2>1. conn[c].pc = "applyDefaults"
    BY <1>24 DEF NoAutoIncrement, Running
  <2>2. conn[c].stmt.id \in Nat
    BY <1>24, <1>t, <2>1, StatementId DEF NoAutoIncrement, Running, CallFits, HandlerFits, Handler,
       TypeInv, TypeOK, StoreTypeOK, TableSchema, Call
  <2>3. conn' = [conn EXCEPT ![c].pc = "insertMany", ![c].id = conn[c].stmt.id]
    BY <1>24 DEF NoAutoIncrement
  <2> HIDE DEF TypeInv
  <2>4. conn' \in [Conns -> Handler]
    <3>1. conn \in [Conns -> Handler] /\ conn[c] \in Handler
      BY <1>t DEF TypeInv, TypeOK
    <3>2. [conn[c] EXCEPT !.pc = "insertMany", !.id = conn[c].stmt.id] \in Handler
      BY <3>1, <2>2 DEF Handler, PCs
    <3> QED BY <3>1, <3>2, <2>3
  <2>5. HandlerFits(conn[c])'
    BY <1>24, <1>t, <2>1, <2>3 DEF NoAutoIncrement, TypeInv, TypeOK, HandlerFits, OptionsFit, OneTablePCs,
       RenamePCs, Handler, mongoVars
  <2>6. TypeOK'
    BY <1>24, <1>t, <2>4 DEF NoAutoIncrement, TypeInv, TypeOK, StoreTypeOK, CallFits, Call, TableSchema,
       mongoVars, collVars, budgets
  <2>7. Shape'
    BY <1>24, <1>t, <2>3, <2>5, Frame DEF NoAutoIncrement, TypeInv, TypeOK, StoreTypeOK, Shape, CallFits, mongoVars
  <2> QED BY <2>6, <2>7 DEF TypeInv
<1> QED
  BY <1>1, <1>2, <1>3, <1>4, <1>5, <1>6, <1>7, <1>8, <1>9, <1>10, <1>11, <1>12, <1>13, <1>14, <1>15, <1>16, <1>17, <1>18, <1>19, <1>20, <1>21, <1>22, <1>23, <1>24 DEF Handle

\* A statement as it arrives: the first step, and the options of its kind.
LEMMA StatementShape ==
  \A s \in Workload :
    /\ s # None /\ FirstStep(s) \in PCs \ {"idle", "load", "store", "dropCounter"}
    /\ FirstStep(s) \notin RenamePCs
    /\ s.tab \in {None} \cup Tables /\ s.opts \in Seq(Option)
    /\ FirstStep(s) \in OneTablePCs => s.tab # None
    /\ s.kind \in {"alter", "insert", "update"} => s.tab # None
    /\ \/ s.opts = <<>>
       \/ s.kind = "alter" /\ s.tab \in Tables /\ s.opts \in Seq(AlterOption)
       \/ s.kind = "index" /\ s.tab \in Tables /\ s.opts \in Seq(IndexOption)
       \/ s.kind = "rename" /\ s.opts \in Seq(RenamePair)
       \/ s.kind = "drop" /\ s.opts \in Seq(DropName)
<1> SUFFICES ASSUME NEW s \in Workload
             PROVE  /\ s # None
                    /\ FirstStep(s) \in PCs \ {"idle", "load", "store", "dropCounter"}
                    /\ FirstStep(s) \notin RenamePCs
                    /\ s.tab \in {None} \cup Tables /\ s.opts \in Seq(Option)
                    /\ FirstStep(s) \in OneTablePCs => s.tab # None
                    /\ s.kind \in {"alter", "insert", "update"} => s.tab # None
                    /\ \/ s.opts = <<>>
                       \/ s.kind = "alter" /\ s.tab \in Tables /\ s.opts \in Seq(AlterOption)
                       \/ s.kind = "index" /\ s.tab \in Tables /\ s.opts \in Seq(IndexOption)
                       \/ s.kind = "rename" /\ s.opts \in Seq(RenamePair)
                       \/ s.kind = "drop" /\ s.opts \in Seq(DropName)
  OBVIOUS
<1>1. s # None /\ s \in Statement
  BY WorkloadAssumption
<1>2. /\ Seq(AlterOption) \subseteq Seq(Option) /\ Seq(IndexOption) \subseteq Seq(Option)
      /\ Seq(RenamePair) \subseteq Seq(Option) /\ Seq(DropName) \subseteq Seq(Option)
      /\ <<>> \in Seq(Option)
  BY DEF Option
<1>i. {<<o>> : o \in IndexOption} \subseteq Seq(IndexOption)
  OBVIOUS
<1>3. ASSUME NEW ks, NEW ts, NEW fs, NEW os, NEW is, s \in StatementOf(ks, ts, fs, os, is)
      PROVE  s.kind \in ks /\ s.tab \in ts /\ s.opts \in os
  BY <1>3 DEF StatementOf
<1>4. \/ s.kind = "create" /\ s.tab \in Tables /\ s.opts = <<>>
      \/ s.kind \in {"truncate", "update", "delete"} /\ s.tab \in Tables /\ s.opts = <<>>
      \/ s.kind = "insert" /\ s.tab \in Tables /\ s.opts = <<>>
      \/ s.kind = "alter" /\ s.tab \in Tables /\ s.opts \in Seq(AlterOption)
      \/ s.kind = "index" /\ s.tab \in Tables /\ s.opts \in Seq(IndexOption)
      \/ s.kind = "rename" /\ s.tab = None /\ s.opts \in Seq(RenamePair)
      \/ s.kind = "drop" /\ s.tab = None /\ s.opts \in Seq(DropName)
      \/ s.kind = "dropDatabase" /\ s.tab = None /\ s.opts = <<>>
  <2>1. CASE s \in StatementOf({"create"}, Tables, BOOLEAN, {<<>>}, {0})
    BY <2>1, <1>3
  <2>2. CASE s \in StatementOf({"truncate", "update", "delete"}, Tables, {FALSE}, {<<>>}, {0})
    BY <2>2, <1>3
  <2>3. CASE s \in StatementOf({"insert"}, Tables, {FALSE}, {<<>>}, Nat)
    BY <2>3, <1>3
  <2>4. CASE s \in StatementOf({"alter"}, Tables, {FALSE}, Seq(AlterOption), {0})
    BY <2>4, <1>3
  <2>5. CASE s \in StatementOf({"index"}, Tables, {FALSE}, {<<o>> : o \in IndexOption}, {0})
    BY <2>5, <1>3, <1>i
  <2>6. CASE s \in StatementOf({"rename"}, {None}, {FALSE}, Seq(RenamePair), {0})
    BY <2>6, <1>3
  <2>7. CASE s \in StatementOf({"drop"}, {None}, BOOLEAN, Seq(DropName), {0})
    BY <2>7, <1>3
  <2>8. CASE s \in StatementOf({"dropDatabase"}, {None}, {FALSE}, {<<>>}, {0})
    BY <2>8, <1>3
  <2> QED BY <1>1, <2>1, <2>2, <2>3, <2>4, <2>5, <2>6, <2>7, <2>8, Zenon DEF Statement
<1>5. None \notin Tables
  BY NoneIsDistinct
<1> QED BY <1>1, <1>2, <1>4, <1>5 DEF FirstStep, PCs, OneTablePCs, RenamePCs

\* A connection sends its next statement.
LEMMA BeginType ==
  ASSUME TypeInv, NEW c \in Conns, NEW s \in Workload, Begin(c, s)
  PROVE  TypeInv'
<1> DEFINE h == [pc |-> FirstStep(s), stmt |-> s, rest |-> s.opts, tab |-> s.tab,
                 ptr |-> None, seen |-> None, id |-> 0, nr |-> begun + 1]
<1>1. /\ conn' = [conn EXCEPT ![c] = h] /\ call' = [call EXCEPT ![c] = FirstCall(s)]
      /\ begun' = begun + 1
      /\ UNCHANGED <<heap, cache, docs, colls, rows, phys, seq, restarts, faults>>
  BY DEF Begin, Begins, mongoVars
<1>2. begun \in Nat
  BY DEF TypeInv, TypeOK
<1>3. /\ h \in Handler /\ h.pc = FirstStep(s) /\ h.stmt = s /\ h.rest = s.opts
      /\ h.tab = s.tab /\ h.ptr = None /\ h.seen = None
  <2>1. /\ FirstStep(s) \in PCs /\ s.tab \in {None} \cup Tables
        /\ s.opts \in Seq(Option) /\ begun + 1 \in Nat
    BY <1>2, StatementShape
  <2> QED BY <2>1 DEF Handler
<1> HIDE DEF h
<1>4. conn' \in [Conns -> Handler] /\ conn'[c] = h
  BY <1>1, <1>3 DEF TypeInv, TypeOK
<1>5. OptionsFit(h)
  BY <1>3, StatementShape DEF OptionsFit
<1>6. HandlerFits(conn[c])'
  <2>1. /\ h.stmt # None /\ h.pc \notin {"load", "store", "dropCounter"}
        /\ h.pc \notin RenamePCs
        /\ h.pc \in OneTablePCs => h.tab # None
    BY <1>3, StatementShape
  <2> QED BY <1>3, <1>4, <1>5, <2>1 DEF HandlerFits, OptionsFit
<1>7. /\ FirstCall(s) \in Call /\ FirstCall(s).ptr = None
      /\ FirstCall(s).at \in {"lookup", "returned"}
      /\ FirstCall(s).at = "lookup" => FirstCall(s).tab # None
  BY StatementShape DEF FirstCall, GetOf, NoCall, Call, CallSteps
<1>8. call' \in [Conns -> Call] /\ CallFits(call[c])'
  BY <1>1, <1>7 DEF TypeInv, TypeOK, StoreTypeOK, CallFits
<1>9. TypeOK'
  BY <1>1, <1>2, <1>4, <1>8 DEF TypeInv, TypeOK, StoreTypeOK
<1>10. Shape'
  BY <1>1, <1>6, <1>8, Frame DEF TypeInv, TypeOK, StoreTypeOK, Shape
<1> QED BY <1>9, <1>10 DEF TypeInv

\* A round trip that fails.
LEMMA FaultType ==
  ASSUME TypeInv, NEW c \in Conns, Fault(c)
  PROVE  TypeInv'
<1>t. /\ call[c] \in Call /\ CallFits(call[c]) /\ HandlerFits(conn[c])
      /\ conn[c] \in Handler /\ conn \in [Conns -> Handler] /\ call \in [Conns -> Call]
  BY DEF TypeInv, TypeOK, StoreTypeOK, Shape
<1>b. begun' \in Nat /\ restarts' \in Nat /\ faults' \in Nat
  BY DEF Fault, TypeInv, TypeOK
<1>1. CASE StoreFault(c) /\ UNCHANGED <<colls, rows, phys, seq, conn>>
  <2>1. /\ call' = [call EXCEPT ![c] = [NoCall EXCEPT !.ptr = None]]
        /\ UNCHANGED <<heap, cache, docs, colls, rows, phys, seq, conn>>
    BY <1>1 DEF StoreFault, Return
  <2>2. [NoCall EXCEPT !.ptr = None] = NoCall /\ NoCall \in Call
    BY DEF NoCall, Call, CallSteps
  <2>3. TypeOK'
    BY <1>b, <2>1, <2>2 DEF TypeInv, TypeOK, StoreTypeOK
  <2>4. CallFits(call[c])' /\ HandlerFits(conn[c])'
    BY <1>t, <2>1, <2>2 DEF CallFits, NoCall, HandlerFits, OptionsFit
  <2>5. Shape'
    BY <2>1, <2>4, Frame DEF TypeInv, TypeOK, StoreTypeOK, Shape
  <2> QED BY <2>3, <2>5 DEF TypeInv
<1>2. CASE HandlerFault(c)
  <2>0. UNCHANGED <<cache, docs, colls, rows, phys, seq>>
    BY <1>2 DEF HandlerFault, mongoVars
  \* Enough: a good handler and a good call, over an unchanged heap.
  <2>q. ASSUME UNCHANGED heap, conn' \in [Conns -> Handler], HandlerFits(conn[c])',
               \A d \in Conns \ {c} : conn'[d] = conn[d] /\ call'[d] = call[d],
               call' \in [Conns -> Call], CallFits(call[c])'
        PROVE  TypeInv'
    <3>1. TypeOK'
      BY <1>b, <2>0, <2>q DEF TypeInv, TypeOK, StoreTypeOK
    <3>2. Shape'
      BY <2>0, <2>q, Frame DEF TypeInv, TypeOK, StoreTypeOK, Shape
    <3> QED BY <3>1, <3>2 DEF TypeInv
  <2>u. ASSUME UNCHANGED <<heap, call>>, conn' \in [Conns -> Handler],
               HandlerFits(conn[c])', \A d \in Conns \ {c} : conn'[d] = conn[d]
        PROVE  TypeInv'
    <3>1. CallFits(call[c])'
      BY <1>t, <2>u DEF CallFits
    <3> QED BY <1>t, <2>q, <2>u, <3>1
  <2>g. ASSUME NEW pc, Goto(c, pc), UNCHANGED heap,
               \/ conn[c].pc = "check" /\ pc = "create"
               \/ conn[c].pc = "option" /\ pc = "load" /\ conn[c].rest # <<>>
                  /\ Opt(c).op \in {"createIndex", "removeIndex"}
               \/ conn[c].pc = "setCounter" /\ pc = "deleteCounter"
        PROVE  /\ conn' \in [Conns -> Handler] /\ HandlerFits(conn[c])'
               /\ \A d \in Conns \ {c} : conn'[d] = conn[d]
    <3>1. conn' = [conn EXCEPT ![c].pc = pc] /\ pc \in PCs
      BY <2>g DEF Goto, PCs
    <3>2. conn' \in [Conns -> Handler]
      BY <1>t, <3>1 DEF Handler
    <3>3. /\ conn'[c].pc = pc /\ conn'[c].stmt = conn[c].stmt /\ conn'[c].tab = conn[c].tab
          /\ conn'[c].rest = conn[c].rest /\ conn'[c].ptr = conn[c].ptr
      BY <1>t, <3>1 DEF Handler
    <3>4. pc = "load" => conn[c].tab \in Tables
      BY <2>g, OptionAtHand
    <3>5. HandlerFits(conn[c])'
      BY <1>t, <2>g, <3>3, <3>4, NoneIsDistinct
         DEF HandlerFits, OptionsFit, OneTablePCs, RenamePCs, Opt
    <3> QED BY <1>t, <3>1, <3>2, <3>5
  <2>1. CASE Finish(c) /\ UNCHANGED heap
    <3>1. /\ call' = [call EXCEPT ![c] = NoCall] /\ conn' = [conn EXCEPT ![c] = Idle]
      BY <2>1 DEF Finish
    <3>2. NoCall \in Call /\ Idle \in Handler
      BY DEF NoCall, Call, CallSteps, Idle, Handler, PCs
    <3>3. CallFits(call[c])' /\ HandlerFits(conn[c])'
      BY <1>t, <3>1 DEF NoCall, Idle, CallFits, HandlerFits, OptionsFit, RenamePCs, OneTablePCs
    <3> QED BY <1>t, <2>1, <2>q, <3>1, <3>2, <3>3
  <2>2. CASE conn[c].pc = "check" /\ Goto(c, "create") /\ UNCHANGED <<heap, call>>
    BY <2>2, <2>g, <2>u
  <2>3. CASE /\ \/ conn[c].pc = "dropCounter"
                \/ AtOption(c, "dropTable") /\ conn[c].stmt.flag
             /\ conn' = [conn EXCEPT ![c] = NextOption(c)]
             /\ UNCHANGED <<heap, call>>
    <3>1. conn[c].rest # <<>> /\ conn[c].pc # "idle"
      BY <1>t, <2>3 DEF AtOption, Running, HandlerFits
    <3> QED BY <1>t, <2>3, <2>u, <3>1, NextOfOption
  <2>4. CASE /\ \E op \in {"drop", "addIndex", "dropIndex"} : AtOption(c, op)
             /\ Loads(c, conn[c].ptr)
             /\ UNCHANGED <<heap, call>>
    <3>1. /\ conn[c].rest # <<>> /\ conn[c].pc # "idle"
          /\ Opt(c).op \in {"add", "drop", "modify", "addIndex", "dropIndex", "createIndex",
                           "removeIndex"}
      BY <2>4 DEF AtOption, Running, Opt
    <3>2. conn[c].ptr \in {None} \cup Ptrs /\ (conn[c].ptr # None => heap[conn[c].ptr] # None)
      BY <1>t DEF Handler, HandlerFits
    <3> QED BY <2>4, <2>u, <3>1, <3>2, LoadsType
  <2>5. CASE /\ \E op \in {"createIndex", "removeIndex"} : AtOption(c, op)
             /\ Goto(c, "load")
             /\ Begins(c, GetOf(conn[c].tab))
             /\ UNCHANGED heap
    <3>1. /\ conn[c].rest # <<>> /\ conn[c].pc = "option"
          /\ Opt(c).op \in {"createIndex", "removeIndex"}
      BY <2>5 DEF AtOption, Running, Opt
    <3>2. conn[c].tab \in Tables
      BY <3>1, OptionAtHand
    <3>3. call' = [call EXCEPT ![c] = GetOf(conn[c].tab)]
      BY <2>5 DEF Begins
    <3>4. call' \in [Conns -> Call] /\ CallFits(call[c])'
      BY <1>t, <3>2, <3>3, NoneIsDistinct DEF GetOf, Call, CallSteps, CallFits
    <3> QED BY <1>t, <2>5, <2>g, <2>q, <3>1, <3>3, <3>4
  <2>6. CASE conn[c].pc = "setCounter" /\ Goto(c, "deleteCounter") /\ UNCHANGED <<heap, call>>
    BY <2>6, <2>g, <2>u
  <2>7. CASE conn[c].pc \in {"findCounter", "deleteCounter"} /\ Renamed(c) /\ UNCHANGED call
    <3>1. conn[c].pc \in RenamePCs /\ seq' \in [Tables -> Nat]
      BY <2>0, <2>7 DEF RenamePCs, TypeInv, TypeOK
    <3> QED BY <1>b, <2>0, <2>7, <3>1, RenamedType
  <2> QED BY <1>2, <2>1, <2>2, <2>3, <2>4, <2>5, <2>6, <2>7 DEF HandlerFault
<1> QED BY <1>1, <1>2 DEF Fault

\* The server process stops and starts again.
LEMMA RestartType ==
  ASSUME TypeInv, Restart
  PROVE  TypeInv'
<1>1. NoCall \in Call /\ Idle \in Handler
  BY DEF NoCall, Call, CallSteps, Idle, Handler, PCs
<1>2. TypeOK'
  BY <1>1 DEF Restart, mongoVars, TypeInv, TypeOK, StoreTypeOK
<1>3. Shape'
  BY DEF Restart, Shape, NoCall, Idle, CallFits, HandlerFits, OptionsFit, RenamePCs, OneTablePCs
<1> QED BY <1>2, <1>3 DEF TypeInv

LEMMA StutterType ==
  ASSUME TypeInv, UNCHANGED vars
  PROVE  TypeInv'
BY DEF vars, TypeInv, TypeOK, StoreTypeOK, Shape, CallFits, HandlerFits, OptionsFit

\* Every handler and every store call finds what it dereferences: no statement,
\* no crash and no failing round trip leads to a nil pointer or to an option
\* the program counter is not made for.
THEOREM ShapeCorrect == Spec => []TypeInv
<1>1. Init => TypeInv
  BY TypeInit
<1>2. TypeInv /\ [Next]_vars => TypeInv'
  <2> SUFFICES ASSUME TypeInv, [Next]_vars PROVE TypeInv'
    OBVIOUS
  <2> QED
    BY BeginType, CallStepType, HandleType, FaultType, RestartType, StutterType
       DEF Next, Quiet
<1> QED BY <1>1, <1>2, PTL DEF Spec

\* Type correctness, for every workload and every number of connections.
THEOREM TypeCorrect == Spec => []TypeOK
<1>1. TypeInv => TypeOK
  BY DEF TypeInv
<1> QED BY <1>1, ShapeCorrect, PTL

----------------------------------------------------------------------------
(* What holds although clients overlap freely, the server crashes and      *)
(* round trips fail anywhere.                                              *)
(*                                                                         *)
(* The first part is about the cache.  As long as clients only create,     *)
(* fill, update and empty tables, it agrees with MongoDB in EVERY state,   *)
(* and a table has one creator.  Neither property is inductive.  A fill in *)
(* flight carries a document read some steps ago, a save in flight has     *)
(* written a document it has not published yet; both are harmless because  *)
(* a document, once written, is never written again, and that holds        *)
(* because only the connection that created the collection gets to save,   *)
(* and a collection stays.                                                 *)
(*                                                                         *)
(* The second part is about AUTO_INCREMENT.  Two inserts never get the     *)
(* same value, although the schema that asks for a value is edited in      *)
(* place by other connections meanwhile and tables are truncated: as long  *)
(* as no statement drops or renames a table or gives the value itself.     *)
(* UniqueIds alone is not inductive: values are taken from the counter in  *)
(* one step and stored in another, and the counter is found through the    *)
(* name in a shared schema object.  IdInv adds that the names are right    *)
(* (NamedConn) and that values in flight are new (InFlight).               *)

\* The workload the theorems are about: no statement changes a schema.
Static == \A s \in Workload : s.kind \in {"create", "insert", "update", "delete"}

StaticPCs == {"idle", "check", "create", "createIndexes", "applyDefaults",
              "insertMany", "updateMany", "deleteMany"}

\* A save is that of the table's creator: nothing is stored before the upsert,
\* and what is stored afterwards is what will be published.
Saves(c) ==
  call[c].at \in {"upsert", "publish"} =>
    /\ conn[c].pc = "createIndexes"
    /\ heap[call[c].ptr].name = conn[c].tab
    /\ docs[conn[c].tab] = IF call[c].at = "upsert" THEN None
                                                    ELSE heap[call[c].ptr].items

\* A fill carries the document that is still stored.
Fills(c) ==
  call[c].at = "fill" =>
    heap[call[c].ptr] = [name |-> call[c].tab, items |-> docs[call[c].tab]]

ConnStatic(c) ==
  /\ conn[c].pc \in StaticPCs /\ call[c].at \notin {"evict", "erase"}
  /\ conn[c].pc = "createIndexes" => conn[c].tab \in colls
  /\ Saves(c)
  /\ Fills(c)

StaticInv ==
  /\ \A c \in Conns : ConnStatic(c)
  /\ \A t \in Tables : docs[t] # None => t \in colls
  /\ OneCreator
  /\ CacheCoherent

----------------------------------------------------------------------------

LEMMA StaticInit == Init => StaticInv
BY DEF Init, StoreInit, StaticInv, ConnStatic, StaticPCs, Saves, Fills, Idle, NoCall,
   OneCreator, CacheCoherent, CoherentOn

\* A step that leaves the store alone and creates no table.
LEMMA LocalStep ==
  ASSUME TypeInv, StaticInv, NEW c \in Conns, UNCHANGED <<heap, cache, docs>>,
         colls \subseteq colls',
         \A d \in Conns \ {c} : conn'[d] = conn[d] /\ call'[d] = call[d],
         ConnStatic(c)', conn'[c].pc # "createIndexes"
  PROVE  StaticInv'
<1>1. ASSUME NEW d \in Conns \ {c} PROVE ConnStatic(d)'
  BY DEF StaticInv, ConnStatic, Saves, Fills
<1>2. CacheCoherent'
  BY DEF StaticInv, CacheCoherent, CoherentOn
<1>3. OneCreator'
  BY DEF StaticInv, OneCreator
<1> QED BY <1>1, <1>2, <1>3 DEF StaticInv

\* The same, in the form most steps have: the handler ends.
LEMMA FinishStatic ==
  ASSUME TypeInv, StaticInv, NEW c \in Conns, UNCHANGED <<heap, cache, docs>>,
         colls \subseteq colls', Finish(c)
  PROVE  StaticInv'
<1>1. /\ conn' = [conn EXCEPT ![c] = Idle] /\ call' = [call EXCEPT ![c] = NoCall]
      /\ conn \in [Conns -> Handler] /\ call \in [Conns -> Call]
  BY DEF Finish, TypeInv, TypeOK, StoreTypeOK
<1>2. conn'[c].pc = "idle" /\ call'[c].at = "returned"
  BY <1>1 DEF Idle, NoCall
<1>3. ConnStatic(c)'
  BY <1>2 DEF ConnStatic, StaticPCs, Saves, Fills
<1> QED BY <1>1, <1>2, <1>3, LocalStep

\* The same, for a step that goes on outside of a call.
LEMMA GotoStatic ==
  ASSUME TypeInv, StaticInv, NEW c \in Conns, UNCHANGED <<heap, cache, docs, call>>,
         Returned(c), colls \subseteq colls',
         \A d \in Conns \ {c} : conn'[d] = conn[d],
         conn'[c].pc \in StaticPCs \ {"createIndexes"}
  PROVE  StaticInv'
<1>1. ConnStatic(c)'
  BY DEF ConnStatic, StaticPCs, Saves, Fills, Returned
<1> QED BY <1>1, LocalStep

\* A listing that is stored, or listed by a schema, is not nil.
LEMMA StoredIsNotNil ==
  ASSUME TypeInv
  PROVE  /\ \A t \in Tables : docs[t] \in {None} \cup Listing
         /\ \A p \in Ptrs : heap[p] # None => /\ heap[p] \in TableSchema
                                              /\ heap[p].items # None
                                              /\ heap[p].name \in Tables
BY NoneIsDistinct DEF TypeInv, TypeOK, StoreTypeOK, TableSchema

LEMMA CallStatic ==
  ASSUME TypeInv, StaticInv, NEW c \in Conns, CallStep(c)
  PROVE  StaticInv'
<1>t. /\ call[c] \in Call /\ CallFits(call[c]) /\ ConnStatic(c)
      /\ call \in [Conns -> Call] /\ cache \in [Tables -> {None} \cup Ptrs]
      /\ docs \in [Tables -> {None} \cup Listing]
      /\ heap \in [Ptrs -> {None} \cup TableSchema]
  BY DEF TypeInv, TypeOK, StoreTypeOK, Shape, StaticInv
<1>u. UNCHANGED <<colls, conn>>
  BY DEF CallStep
<1>1. CASE Lookup(c)
  <2>1. /\ UNCHANGED <<heap, cache, docs>>
        /\ \A d \in Conns \ {c} : call'[d] = call[d]
        /\ call'[c].at \in {"returned", "find"}
        /\ call[c].at = "lookup"
    BY <1>1, <1>t DEF Lookup, Return, NoCall, Call, At
  <2>2. ConnStatic(c)'
    BY <1>t, <1>u, <2>1 DEF ConnStatic, Saves, Fills
  <2>3. \A d \in Conns \ {c} : ConnStatic(d)'
    BY <1>u, <2>1 DEF StaticInv, ConnStatic, Saves, Fills
  <2> QED BY <1>u, <2>1, <2>2, <2>3 DEF StaticInv, OneCreator, CacheCoherent, CoherentOn
<1>2. CASE FindMissing(c)
  <2>1. /\ UNCHANGED <<heap, cache, docs>>
        /\ \A d \in Conns \ {c} : call'[d] = call[d]
        /\ call'[c].at = "returned"
    BY <1>2, <1>t DEF FindMissing, Return, NoCall, Call, At
  <2>2. ConnStatic(c)'
    BY <1>t, <1>u, <2>1 DEF ConnStatic, Saves, Fills
  <2>3. \A d \in Conns \ {c} : ConnStatic(d)'
    BY <1>u, <2>1 DEF StaticInv, ConnStatic, Saves, Fills
  <2> QED BY <1>u, <2>1, <2>2, <2>3 DEF StaticInv, OneCreator, CacheCoherent, CoherentOn
<1>3. ASSUME NEW p \in Fresh, FindDocument(c, p)
      PROVE  StaticInv'
  <2>1. /\ UNCHANGED <<cache, docs>>
        /\ heap' = [heap EXCEPT ![p] = [name |-> call[c].tab, items |-> docs[call[c].tab]]]
        /\ call' = [call EXCEPT ![c].at = "fill", ![c].ptr = p]
        /\ p \in Ptrs
    BY <1>3 DEF FindDocument, Fresh
  <2>2. ConnStatic(c)'
    <3>1. call'[c].at = "fill" /\ call'[c].ptr = p /\ call'[c].tab = call[c].tab
      BY <1>t, <2>1 DEF Call
    <3>2. Fills(c)'
      BY <1>t, <2>1, <3>1 DEF Fills
    <3> QED BY <1>t, <1>u, <3>1, <3>2 DEF ConnStatic, Saves
  <2>3. ASSUME NEW d \in Conns \ {c} PROVE ConnStatic(d)'
    <3>1. call[d].ptr # p /\ call'[d] = call[d] /\ ConnStatic(d) /\ CallFits(call[d])
          /\ call[d] \in Call
      BY <1>3, <1>t, <2>1 DEF Fresh, StaticInv, TypeInv, Shape
    <3>2. call[d].at \in {"fill", "upsert", "publish"}
            => call[d].ptr \in Ptrs /\ heap'[call[d].ptr] = heap[call[d].ptr]
      BY <1>t, <2>1, <3>1 DEF CallFits, Call
    <3> QED BY <1>u, <2>1, <3>1, <3>2 DEF ConnStatic, Saves, Fills
  <2>4. CacheCoherent'
    <3>1. \A t \in Tables : cache[t] # None => cache[t] # p /\ cache[t] \in Ptrs
      BY <1>3, <1>t DEF Fresh
    <3> QED BY <1>t, <2>1, <3>1 DEF StaticInv, CacheCoherent, CoherentOn
  <2> QED BY <1>u, <2>1, <2>2, <2>3, <2>4 DEF StaticInv, OneCreator
<1>4. CASE Fill(c)
  <2>1. /\ UNCHANGED <<heap, docs>>
        /\ cache' = [cache EXCEPT ![call[c].tab] = call[c].ptr]
        /\ \A d \in Conns \ {c} : call'[d] = call[d]
        /\ call'[c].at = "returned"
        /\ heap[call[c].ptr] = [name |-> call[c].tab, items |-> docs[call[c].tab]]
    BY <1>4, <1>t DEF Fill, Return, NoCall, Call, At, ConnStatic, Fills
  <2>2. ConnStatic(c)'
    BY <1>t, <1>u, <2>1 DEF ConnStatic, Saves, Fills
  <2>3. \A d \in Conns \ {c} : ConnStatic(d)'
    BY <1>u, <2>1 DEF StaticInv, ConnStatic, Saves, Fills
  <2>4. CacheCoherent'
    BY <1>t, <2>1 DEF StaticInv, CacheCoherent, CoherentOn
  <2> QED BY <1>u, <2>1, <2>2, <2>3, <2>4 DEF StaticInv, OneCreator
<1>5. CASE Upsert(c)
  <2> DEFINE t == conn[c].tab
             s == heap[call[c].ptr]
  <2>1. /\ call[c].ptr \in Ptrs /\ s \in TableSchema /\ s.items # None
        /\ s.name = t /\ t \in Tables /\ t \in colls /\ docs[t] = None
        /\ conn[c].pc = "createIndexes" /\ call[c].at = "upsert"
    BY <1>5, <1>t, StoredIsNotNil DEF Upsert, At, CallFits, Call, ConnStatic, Saves
  <2>2. /\ UNCHANGED <<heap, cache>>
        /\ docs' = [docs EXCEPT ![t] = s.items]
        /\ call' = [call EXCEPT ![c].at = "publish"]
    BY <1>5, <2>1 DEF Upsert
  <2>3. ConnStatic(c)'
    BY <1>t, <1>u, <2>1, <2>2 DEF ConnStatic, Saves, Fills, Call
  <2>4. ASSUME NEW d \in Conns \ {c} PROVE ConnStatic(d)'
    <3>1. /\ call'[d] = call[d] /\ ConnStatic(d) /\ CallFits(call[d]) /\ call[d] \in Call
      BY <1>t, <2>2 DEF StaticInv, TypeInv, Shape
    <3>2. conn[d].pc = "createIndexes" => conn[d].tab # t
      BY <2>1 DEF StaticInv, OneCreator
    <3>3. call[d].at = "fill" => call[d].tab # t
      <4>1. call[d].at = "fill" => heap[call[d].ptr].items = docs[call[d].tab]
        BY <3>1 DEF ConnStatic, Fills
      <4>2. call[d].at = "fill" => heap[call[d].ptr].items # None
        BY <3>1, StoredIsNotNil DEF CallFits, Call
      <4> QED BY <2>1, <4>1, <4>2
    <3>4. Saves(d)'
      BY <1>t, <1>u, <2>2, <3>1, <3>2 DEF ConnStatic, Saves
    <3>5. Fills(d)'
      BY <1>t, <1>u, <2>2, <3>1, <3>3 DEF ConnStatic, Fills
    <3> QED BY <1>u, <3>1, <3>4, <3>5 DEF ConnStatic
  <2>5. CacheCoherent'
    <3>1. cache[t] = None
      <4>0. CoherentOn(t)
        BY <2>1 DEF StaticInv, CacheCoherent
      <4>1. cache[t] # None => heap[cache[t]].items = docs[t]
        BY <4>0 DEF CoherentOn
      <4>2. cache[t] # None => heap[cache[t]].items # None
        BY <1>t, <2>1, StoredIsNotNil DEF TypeInv, Shape
      <4> QED BY <2>1, <4>1, <4>2
    <3> QED BY <1>t, <2>2, <3>1 DEF StaticInv, CacheCoherent, CoherentOn
  <2>6. \A u \in Tables : docs'[u] # None => u \in colls'
    BY <1>t, <1>u, <2>1, <2>2 DEF StaticInv
  <2> QED BY <1>u, <2>3, <2>4, <2>5, <2>6 DEF StaticInv, OneCreator
<1>6. CASE Publish(c)
  <2> DEFINE t == conn[c].tab
             s == heap[call[c].ptr]
  <2>1. /\ call[c].ptr \in Ptrs /\ s \in TableSchema
        /\ s.name = t /\ t \in Tables /\ docs[t] = s.items
    BY <1>6, <1>t, StoredIsNotNil DEF Publish, At, CallFits, Call, ConnStatic, Saves
  <2>2. /\ UNCHANGED <<heap, docs>>
        /\ cache' = [cache EXCEPT ![t] = call[c].ptr]
        /\ \A d \in Conns \ {c} : call'[d] = call[d]
        /\ call'[c].at = "returned"
    BY <1>6, <1>t, <2>1 DEF Publish, Return, NoCall
  <2>3. ConnStatic(c)'
    BY <1>t, <1>u, <2>2 DEF ConnStatic, Saves, Fills
  <2>4. \A d \in Conns \ {c} : ConnStatic(d)'
    BY <1>u, <2>2 DEF StaticInv, ConnStatic, Saves, Fills
  <2>5. CacheCoherent'
    <3>1. s = [name |-> t, items |-> docs[t]]
      BY <2>1 DEF TableSchema
    <3> QED BY <1>t, <2>1, <2>2, <3>1 DEF StaticInv, CacheCoherent, CoherentOn
  <2> QED BY <1>u, <2>2, <2>3, <2>4, <2>5 DEF StaticInv, OneCreator
<1>7. CASE Evict(c) \/ Erase(c)
  BY <1>7, <1>t DEF Evict, Erase, At, ConnStatic
<1> QED BY <1>1, <1>2, <1>3, <1>4, <1>5, <1>6, <1>7 DEF CallStep, StoreStep

\* CREATE TABLE: the collection is new, so nobody else is its creator and no
\* schema is stored or cached for it.
LEMMA CreateStatic ==
  ASSUME TypeInv, StaticInv, NEW c \in Conns, NEW p \in Fresh, CreateCollection(c, p)
  PROVE  StaticInv'
<1> DEFINE t == conn[c].tab
           s == [name |-> t, items |-> Lists(conn[c].stmt.items)]
<1>1. /\ conn \in [Conns -> Handler] /\ call \in [Conns -> Call] /\ ConnStatic(c)
      /\ heap \in [Ptrs -> {None} \cup TableSchema] /\ p \in Ptrs
      /\ cache \in [Tables -> {None} \cup Ptrs]
  BY DEF TypeInv, TypeOK, StoreTypeOK, StaticInv, Fresh
<1>2. /\ conn' = [conn EXCEPT ![c].pc = "createIndexes"] /\ t \notin colls
      /\ colls' = colls \cup {t} /\ UNCHANGED <<cache, docs>>
      /\ call[c].at = "returned"
  BY DEF CreateCollection, Goto, Running, Returned
<1>3. t \in Tables
  <2>1. HandlerFits(conn[c]) /\ conn[c] \in Handler
    BY <1>1 DEF TypeInv, Shape
  <2> QED BY <2>1 DEF CreateCollection, Running, HandlerFits, OneTablePCs, Handler
<1>4. docs[t] = None
  BY <1>2, <1>3 DEF StaticInv
<1>5. /\ \/ UNCHANGED <<heap, call>>
         \/ /\ heap' = [heap EXCEPT ![p] = s]
            /\ call' = [call EXCEPT ![c] = SaveOf(p)]
      /\ \A q \in Ptrs : q # p => heap'[q] = heap[q]
      /\ \A d \in Conns \ {c} : call'[d] = call[d] /\ conn'[d] = conn[d]
  BY <1>1, <1>2 DEF CreateCollection, Begins
<1>6. ConnStatic(c)'
  <2>1. conn'[c].pc = "createIndexes" /\ conn'[c].tab = t
    BY <1>1, <1>2 DEF Handler
  <2>2. CASE UNCHANGED <<heap, call>>
    BY <1>2, <2>1, <2>2 DEF ConnStatic, StaticPCs, Saves, Fills
  <2>3. CASE /\ heap' = [heap EXCEPT ![p] = s] /\ call' = [call EXCEPT ![c] = SaveOf(p)]
    <3>1. call'[c].at = "upsert" /\ call'[c].ptr = p /\ heap'[p].name = t
      BY <1>1, <2>3 DEF SaveOf
    <3> QED BY <1>2, <1>4, <2>1, <3>1 DEF ConnStatic, StaticPCs, Saves, Fills
  <2> QED BY <1>5, <2>2, <2>3
<1>7. ASSUME NEW d \in Conns \ {c} PROVE ConnStatic(d)'
  <2>1. /\ ConnStatic(d) /\ CallFits(call[d]) /\ call[d] \in Call /\ call[d].ptr # p
    BY <1>1 DEF StaticInv, TypeInv, Shape, Fresh
  <2>2. call[d].at \in {"fill", "upsert", "publish"}
          => heap'[call[d].ptr] = heap[call[d].ptr]
    BY <1>5, <2>1 DEF CallFits, Call
  <2> QED BY <1>2, <1>5, <2>1, <2>2 DEF ConnStatic, Saves, Fills
<1>8. OneCreator'
  <2>1. \A d \in Conns \ {c} : conn[d].pc = "createIndexes" => conn[d].tab # t
    BY <1>2 DEF StaticInv, ConnStatic
  <2>2. conn'[c].tab = t
    BY <1>1, <1>2 DEF Handler
  <2> QED BY <1>5, <2>1, <2>2 DEF StaticInv, OneCreator
<1>9. CacheCoherent'
  <2>1. \A u \in Tables : cache[u] # None => cache[u] \in Ptrs /\ cache[u] # p
    BY <1>1 DEF Fresh
  <2> QED BY <1>2, <1>5, <2>1 DEF StaticInv, CacheCoherent, CoherentOn
<1> QED BY <1>2, <1>6, <1>7, <1>8, <1>9 DEF StaticInv

LEMMA HandleStatic ==
  ASSUME TypeInv, StaticInv, NEW c \in Conns, Handle(c)
  PROVE  StaticInv'
<1>t. /\ conn[c] \in Handler /\ conn[c].pc \in StaticPCs
      /\ conn \in [Conns -> Handler]
  BY DEF TypeInv, TypeOK, StaticInv, ConnStatic
<1>1. CASE CheckExists(c)
  <2>1. CASE conn[c].tab \in colls
    BY <1>1, <2>1, FinishStatic DEF CheckExists, mongoVars
  <2>2. CASE conn[c].tab \notin colls
    BY <1>1, <1>t, <2>2, GotoStatic DEF CheckExists, Goto, Running, mongoVars, StaticPCs, Handler
  <2> QED BY <2>1, <2>2
<1>2. CASE CreateFails(c) \/ UpdateMany(c)
  BY <1>2, FinishStatic DEF CreateFails, UpdateMany, mongoVars
<1>3. ASSUME NEW p \in Fresh, CreateCollection(c, p)
      PROVE  StaticInv'
  BY <1>3, CreateStatic
<1>4. CASE CreateIndexes(c)
  BY <1>4, FinishStatic DEF CreateIndexes, Indexed
<1>5. CASE NextAutoIncrement(c) \/ NoAutoIncrement(c)
  <2>1. /\ Returned(c) /\ UNCHANGED <<heap, cache, docs, call, colls>>
        /\ \E i : conn' = [conn EXCEPT ![c].pc = "insertMany", ![c].id = i]
    BY <1>5 DEF NextAutoIncrement, NoAutoIncrement, Running, mongoVars, collVars
  <2> QED BY <1>t, <2>1, GotoStatic DEF StaticPCs, Handler
<1>6. CASE InsertMany(c)
  BY <1>6, FinishStatic DEF InsertMany
<1>7. CASE DeleteMany(c)
  BY <1>7, FinishStatic DEF DeleteMany
<1>8. ASSUME NEW pc \in PCs \ StaticPCs, Running(c, pc)
      PROVE  FALSE
  BY <1>8, <1>t DEF Running
<1> QED
  BY <1>1, <1>2, <1>3, <1>4, <1>5, <1>6, <1>7, <1>8
     DEF Handle, PCs, StaticPCs, TruncateDrop, TruncateCreate, DropWholeDatabase, Start,
     AddColumn, ModifyColumn, DropColumn, AddIndex, DropKey, IndexStatement, Load, Store, EndOptions,
     Finished, DropCollection, DropCounter, RenameFails, RenameCollection, MigrateSchema,
     DropOldSchema, FindCounter, SetCounter, DeleteCounter, AtOption

LEMMA FaultStatic ==
  ASSUME TypeInv, StaticInv, NEW c \in Conns, Fault(c)
  PROVE  StaticInv'
<1>t. /\ conn[c] \in Handler /\ conn[c].pc \in StaticPCs /\ ConnStatic(c)
      /\ conn \in [Conns -> Handler] /\ call \in [Conns -> Call]
  BY DEF TypeInv, TypeOK, StoreTypeOK, StaticInv, ConnStatic
<1>1. CASE StoreFault(c) /\ UNCHANGED <<colls, rows, phys, seq, conn>>
  <2>1. /\ UNCHANGED <<heap, cache, docs, colls, conn>>
        /\ \A d \in Conns \ {c} : call'[d] = call[d]
        /\ call'[c].at = "returned"
    BY <1>1, <1>t DEF StoreFault, Return, NoCall
  <2>2. ConnStatic(c)'
    BY <1>t, <2>1 DEF ConnStatic, Saves, Fills
  <2>3. \A d \in Conns \ {c} : ConnStatic(d)'
    BY <2>1 DEF StaticInv, ConnStatic, Saves, Fills
  <2> QED BY <2>1, <2>2, <2>3 DEF StaticInv, OneCreator, CacheCoherent, CoherentOn
<1>2. CASE HandlerFault(c)
  <2>1. Returned(c) /\ UNCHANGED <<cache, docs, colls>>
    BY <1>2 DEF HandlerFault, mongoVars
  <2>2. CASE Finish(c) /\ UNCHANGED heap
    BY <2>1, <2>2, FinishStatic
  <2>3. CASE Goto(c, "create") /\ UNCHANGED <<heap, call>>
    BY <1>t, <2>1, <2>3, GotoStatic DEF Goto, StaticPCs, Handler
  <2>4. /\ \A op : ~AtOption(c, op)
        /\ conn[c].pc # "dropCounter"
        /\ conn[c].pc \notin {"setCounter", "findCounter", "deleteCounter"}
    BY <1>t DEF AtOption, Running, StaticPCs
  <2> QED BY <1>2, <2>2, <2>3, <2>4 DEF HandlerFault
<1> QED BY <1>1, <1>2 DEF Fault

LEMMA BeginStatic ==
  ASSUME Static, TypeInv, StaticInv, NEW c \in Conns, NEW s \in Workload, Begin(c, s)
  PROVE  StaticInv'
<1>1. /\ conn \in [Conns -> Handler] /\ call \in [Conns -> Call]
      /\ s.kind \in {"create", "insert", "update", "delete"}
  BY DEF TypeInv, TypeOK, StoreTypeOK, Static
<1>2. /\ conn'[c].pc \in StaticPCs \ {"createIndexes"}
      /\ call'[c].at \in {"lookup", "returned"}
      /\ \A d \in Conns \ {c} : conn'[d] = conn[d] /\ call'[d] = call[d]
      /\ UNCHANGED <<heap, cache, docs, colls>>
  BY <1>1 DEF Begin, Begins, FirstStep, FirstCall, GetOf, NoCall, StaticPCs, mongoVars
<1>3. ConnStatic(c)'
  BY <1>2 DEF ConnStatic, StaticPCs, Saves, Fills
<1> QED BY <1>2, <1>3, LocalStep

LEMMA RestartStatic ==
  ASSUME TypeInv, StaticInv, Restart
  PROVE  StaticInv'
BY DEF Restart, mongoVars, StaticInv, ConnStatic, StaticPCs, Saves, Fills, Idle, NoCall,
   OneCreator, CacheCoherent, CoherentOn

LEMMA StutterStatic ==
  ASSUME StaticInv, UNCHANGED vars
  PROVE  StaticInv'
BY DEF vars, StaticInv, ConnStatic, Saves, Fills, OneCreator, CacheCoherent, CoherentOn

LEMMA StaticCorrect ==
  ASSUME Static
  PROVE  Spec => []StaticInv
<1>1. Init => StaticInv
  BY StaticInit
<1>2. TypeInv /\ StaticInv /\ [Next]_vars => StaticInv'
  <2> SUFFICES ASSUME TypeInv, StaticInv, [Next]_vars PROVE StaticInv'
    OBVIOUS
  <2> QED
    BY BeginStatic, CallStatic, HandleStatic, FaultStatic, RestartStatic, StutterStatic
       DEF Next, Quiet
<1> QED BY <1>1, <1>2, ShapeCorrect, PTL DEF Spec

\* While no statement changes a schema, whatever is cached is what is stored.
THEOREM StaticCoherent ==
  ASSUME Static
  PROVE  Spec => []CacheCoherent
<1>1. StaticInv => CacheCoherent
  BY DEF StaticInv
<1> QED BY <1>1, StaticCorrect, PTL

\* ... and however the check and the creation of several CREATE TABLEs
\* interleave, one of them gets to store the schema.
THEOREM StaticOneCreator ==
  ASSUME Static
  PROVE  Spec => []OneCreator
<1>1. StaticInv => OneCreator
  BY DEF StaticInv
<1> QED BY <1>1, StaticCorrect, PTL

----------------------------------------------------------------------------
(* AUTO_INCREMENT.                                                         *)

ItemOption ==
       [op : {"add", "drop", "modify"}, item : Items \ Indexes]
  \cup [op : {"addIndex", "dropIndex", "createIndex", "removeIndex"},
        item : Indexes]

\* The workload the theorem is about.
Evolving ==
  \A s \in Workload :
    /\ s.kind \in {"create", "insert", "update", "delete", "alter", "index", "truncate"}
    /\ s.id = 0
    /\ s.opts \in Seq(ItemOption)

PlainConn(c) ==
  /\ conn[c].rest \in Seq(ItemOption)
  /\ conn[c].pc \notin {"dropDatabase", "dropCounter"} \cup RenamePCs
  /\ call[c].at \notin {"evict", "erase"}

\* Every schema a connection holds or is about to cache is that of its table.
NamedConn(c) ==
  /\ call[c].at # "returned" => call[c].tab \in {None, conn[c].tab}
  /\ call[c].ptr # None => heap[call[c].ptr].name = conn[c].tab
  /\ conn[c].ptr # None => heap[conn[c].ptr].name = conn[c].tab

\* The value a connection is about to store: taken from the counter, in no row
\* and in no other connection's hands.
InFlight(c) ==
  conn[c].pc = "insertMany" /\ conn[c].id # 0 =>
    /\ conn[c].id <= seq[conn[c].tab]
    /\ \A r \in rows[conn[c].tab] : r.id # conn[c].id
    /\ \A d \in Conns \ {c} :
         conn[d].pc = "insertMany" /\ conn[d].tab = conn[c].tab
           => conn[d].id # conn[c].id

Plain == \A c \in Conns : PlainConn(c)

WellNamed ==
  /\ \A t \in Tables : cache[t] # None => heap[cache[t]].name = t
  /\ \A c \in Conns : NamedConn(c)

Numbered ==
  /\ \A t \in Tables : \A r \in rows[t] : r.id <= seq[t]
  /\ \A c \in Conns : InFlight(c)
  /\ UniqueIds

IdInv == Plain /\ WellNamed /\ Numbered

LEMMA IdInit == Init => IdInv
<1>1. Init => Plain
  <2>1. <<>> \in Seq(ItemOption)
    OBVIOUS
  <2>2. Init => \A c \in Conns : conn[c] = Idle /\ call[c] = NoCall
    BY DEF Init, StoreInit
  <2>3. Idle.rest = <<>> /\ Idle.pc = "idle" /\ NoCall.at = "returned"
    BY DEF Idle, NoCall
  <2> QED BY <2>1, <2>2, <2>3 DEF Plain, PlainConn, RenamePCs
<1>2. Init => WellNamed
  BY DEF Init, StoreInit, WellNamed, NamedConn, Idle, NoCall
<1>3. Init => Numbered
  BY DEF Init, Numbered, InFlight, UniqueIds, Idle
<1> QED BY <1>1, <1>2, <1>3 DEF IdInv

----------------------------------------------------------------------------
(* What the connections can be doing.                                      *)

\* The steps of handlers this workload can reach.
PlainHandle(c) ==
  \/ CheckExists(c) \/ CreateFails(c)
  \/ \E p \in Fresh : CreateCollection(c, p)
  \/ CreateIndexes(c) \/ TruncateDrop(c) \/ TruncateCreate(c)
  \/ Start(c) \/ AddColumn(c) \/ ModifyColumn(c) \/ DropColumn(c) \/ AddIndex(c) \/ DropKey(c)
  \/ IndexStatement(c) \/ Load(c) \/ Store(c) \/ EndOptions(c) \/ Finished(c)
  \/ NextAutoIncrement(c) \/ NoAutoIncrement(c)
  \/ InsertMany(c) \/ UpdateMany(c) \/ DeleteMany(c)

LEMMA ItemOptionsOnly ==
  ASSUME NEW c \in Conns, PlainConn(c), conn[c].rest # <<>>
  PROVE  /\ Opt(c).op \in {"add", "drop", "modify", "addIndex", "dropIndex", "createIndex",
                          "removeIndex"}
         /\ Tail(conn[c].rest) \in Seq(ItemOption)
<1>1. Opt(c) \in ItemOption /\ Tail(conn[c].rest) \in Seq(ItemOption)
  BY DEF PlainConn, Opt
<1> QED BY <1>1 DEF ItemOption

LEMMA PlainHandles ==
  ASSUME NEW c \in Conns, PlainConn(c), Handle(c)
  PROVE  PlainHandle(c)
<1>1. \A op \in {"rename", "dropTable"} : ~AtOption(c, op)
  BY ItemOptionsOnly DEF AtOption, Opt
<1>2. \A pc \in {"dropDatabase", "dropCounter"} \cup RenamePCs : ~Running(c, pc)
  BY DEF PlainConn, Running
<1> QED
  BY <1>1, <1>2 DEF Handle, PlainHandle, RenamePCs, DropWholeDatabase, DropCollection,
     DropCounter, RenameFails, RenameCollection, MigrateSchema, DropOldSchema, FindCounter,
     SetCounter, DeleteCounter

LEMMA PlainRest ==
  ASSUME TypeInv, NEW c \in Conns, PlainConn(c),
         \/ conn' = [conn EXCEPT ![c] = Idle]
         \/ conn[c].rest # <<>> /\ conn' = [conn EXCEPT ![c] = NextOption(c)]
         \/ \E p : conn[c].rest # <<>> /\ Loads(c, p)
         \/ \E pc \in PCs \ ({"dropDatabase", "dropCounter"} \cup RenamePCs) :
               \/ conn' = [conn EXCEPT ![c].pc = pc]
               \/ \E p : conn' = [conn EXCEPT ![c].pc = pc, ![c].ptr = p]
               \/ \E i : conn' = [conn EXCEPT ![c].pc = pc, ![c].id = i],
         call'[c].at \notin {"evict", "erase"}
  PROVE  /\ PlainConn(c)'
         /\ \A d \in Conns \ {c} : conn'[d] = conn[d]
<1>1. conn \in [Conns -> Handler] /\ conn[c].rest \in Seq(ItemOption)
  BY DEF TypeInv, TypeOK, PlainConn
<1>2. CASE conn' = [conn EXCEPT ![c] = Idle]
  BY <1>1, <1>2 DEF Idle, PlainConn, RenamePCs
<1>n. conn[c].rest # <<>> => /\ NextOption(c).rest \in Seq(ItemOption)
                             /\ NextOption(c).pc = "option"
  BY <1>1, ItemOptionsOnly DEF NextOption, Handler
<1>3. CASE conn[c].rest # <<>> /\ conn' = [conn EXCEPT ![c] = NextOption(c)]
  BY <1>1, <1>3, <1>n DEF PlainConn, RenamePCs
<1>4. ASSUME NEW p, conn[c].rest # <<>>, Loads(c, p)
      PROVE  /\ PlainConn(c)'
             /\ \A d \in Conns \ {c} : conn'[d] = conn[d]
  <2>1. CASE p = None
    BY <1>3, <1>4, <2>1 DEF Loads
  <2>2. CASE p # None
    <3> DEFINE h == [conn[c] EXCEPT !.pc = "store", !.ptr = p, !.seen = heap[p].items]
    <3>1. conn' = [conn EXCEPT ![c] = h]
      BY <1>4, <2>2 DEF Loads
    <3>2. conn[c] \in Handler
      BY <1>1
    <3>3. h.pc = "store" /\ h.rest = conn[c].rest
      BY <3>2 DEF Handler
    <3> HIDE DEF h
    <3> QED BY <1>1, <3>1, <3>3 DEF PlainConn, RenamePCs
  <2> QED BY <2>1, <2>2
<1>5. ASSUME NEW pc \in PCs \ ({"dropDatabase", "dropCounter"} \cup RenamePCs),
             \/ conn' = [conn EXCEPT ![c].pc = pc]
             \/ \E p : conn' = [conn EXCEPT ![c].pc = pc, ![c].ptr = p]
             \/ \E i : conn' = [conn EXCEPT ![c].pc = pc, ![c].id = i]
      PROVE  /\ PlainConn(c)'
             /\ \A d \in Conns \ {c} : conn'[d] = conn[d]
  <2>1. conn'[c].pc = pc /\ conn'[c].rest = conn[c].rest
    BY <1>1, <1>5 DEF Handler
  <2> QED BY <1>1, <1>5, <2>1 DEF PlainConn
<1> QED BY <1>2, <1>3, <1>4, <1>5

\* A handler step: the connection stays within what the workload can reach,
\* and the others are not moved.
LEMMA HandlePlain ==
  ASSUME TypeInv, NEW c \in Conns, PlainConn(c), PlainHandle(c)
  PROVE  /\ PlainConn(c)'
         /\ \A d \in Conns \ {c} : conn'[d] = conn[d] /\ call'[d] = call[d]
<1>t. /\ call \in [Conns -> Call] /\ call[c].at \notin {"evict", "erase"}
      /\ conn[c] \in Handler /\ HandlerFits(conn[c])
  BY DEF TypeInv, TypeOK, StoreTypeOK, PlainConn, Shape
<1>r. /\ \A op : AtOption(c, op) => conn[c].rest # <<>>
      /\ \A pc \in {"load", "store"} : Running(c, pc) => conn[c].rest # <<>>
  BY <1>t DEF AtOption, Running, HandlerFits
<1> DEFINE Calls == /\ call'[c].at \notin {"evict", "erase"}
                    /\ \A d \in Conns \ {c} : call'[d] = call[d]
<1>c. /\ \A op : op.at \notin {"evict", "erase"} /\ Begins(c, op) => Calls
      /\ UNCHANGED call => Calls
      /\ Finish(c) => Calls /\ conn' = [conn EXCEPT ![c] = Idle]
      /\ \A t : GetOf(t).at = "lookup"
      /\ \A p : SaveOf(p).at = "upsert"
  BY <1>t DEF Begins, Finish, NoCall, GetOf, SaveOf
<1> HIDE DEF Calls
<1>1. CASE \/ CreateFails(c) \/ CreateIndexes(c) \/ TruncateCreate(c) \/ Finished(c)
           \/ InsertMany(c) \/ UpdateMany(c) \/ DeleteMany(c)
  <2>1. Finish(c)
    BY <1>1 DEF CreateFails, CreateIndexes, TruncateCreate, Finished, InsertMany, UpdateMany,
       DeleteMany
  <2> QED BY <2>1, <1>c, PlainRest DEF Calls
<1>2. CASE \/ AddColumn(c) \/ ModifyColumn(c) \/ DropColumn(c) \/ AddIndex(c) \/ DropKey(c) \/ Load(c)
  <2>1. /\ UNCHANGED call /\ conn[c].rest # <<>>
        /\ \E p : Loads(c, p)
    BY <1>2, <1>r DEF AddColumn, ModifyColumn, DropColumn, AddIndex, DropKey, Load
  <2> QED BY <2>1, <1>c, PlainRest DEF Calls
<1>3. CASE Store(c)
  <2>1. /\ UNCHANGED call /\ conn[c].rest # <<>>
        /\ conn' = [conn EXCEPT ![c] = NextOption(c)]
    BY <1>3, <1>r DEF Store
  <2> QED BY <2>1, <1>c, PlainRest DEF Calls
<1> DEFINE Quits == PCs \ ({"dropDatabase", "dropCounter"} \cup RenamePCs)
<1>q. {"create", "createIndexes", "recreate", "option", "load", "finish", "insertMany"}
        \subseteq Quits
  BY DEF PCs, RenamePCs
<1> HIDE DEF Quits
<1>4. CASE \/ CheckExists(c) \/ (\E p \in Fresh : CreateCollection(c, p)) \/ TruncateDrop(c)
           \/ IndexStatement(c) \/ EndOptions(c)
  <2>1. \/ Finish(c)
        \/ \E pc \in Quits : conn' = [conn EXCEPT ![c].pc = pc] /\ Calls
    <3>1. CASE CheckExists(c)
      BY <3>1, <1>c, <1>q DEF CheckExists, Goto
    <3>2. ASSUME NEW p \in Fresh, CreateCollection(c, p)
          PROVE  \E pc \in Quits : conn' = [conn EXCEPT ![c].pc = pc] /\ Calls
      BY <3>2, <1>c, <1>q DEF CreateCollection, Goto
    <3>3. CASE TruncateDrop(c)
      BY <3>3, <1>c, <1>q DEF TruncateDrop, Goto
    <3>4. CASE IndexStatement(c)
      BY <3>4, <1>c, <1>q DEF IndexStatement, Goto
    <3>5. CASE EndOptions(c)
      BY <3>5, <1>c, <1>q DEF EndOptions, Goto
    <3> QED BY <1>4, <3>1, <3>2, <3>3, <3>4, <3>5
  <2> QED BY <2>1, <1>c, PlainRest DEF Calls, Quits
<1>5. CASE Start(c)
  <2>1. UNCHANGED call /\ \E p : conn' = [conn EXCEPT ![c].pc = "option", ![c].ptr = p]
    BY <1>5 DEF Start
  <2> QED BY <2>1, <1>c, <1>q, PlainRest DEF Calls, Quits
<1>6. CASE NextAutoIncrement(c) \/ NoAutoIncrement(c)
  <2>1. UNCHANGED call /\ \E i : conn' = [conn EXCEPT ![c].pc = "insertMany", ![c].id = i]
    BY <1>6 DEF NextAutoIncrement, NoAutoIncrement
  <2> QED BY <2>1, <1>c, <1>q, PlainRest DEF Calls, Quits
<1> QED BY <1>1, <1>2, <1>3, <1>4, <1>5, <1>6 DEF PlainHandle

----------------------------------------------------------------------------
(* Names.                                                                  *)

\* Enough for WellNamed: no schema somebody holds changes its name, the cache
\* gets no wrong entry, and the connection itself goes on with right names.
LEMMA WellNamedFrame ==
  ASSUME TypeInv, WellNamed, NEW c \in Conns,
         \A p \in Ptrs \ Fresh : heap[p] # None => heap'[p].name = heap[p].name,
         \A t \in Tables : cache'[t] # None /\ cache'[t] # cache[t]
                             => heap'[cache'[t]].name = t,
         \A d \in Conns \ {c} : conn'[d] = conn[d] /\ call'[d] = call[d],
         NamedConn(c)'
  PROVE  WellNamed'
<1>1. ASSUME NEW t \in Tables, cache'[t] # None
      PROVE  heap'[cache'[t]].name = t
  <2>1. CASE cache'[t] = cache[t]
    <3>1. cache[t] \in Ptrs \ Fresh /\ heap[cache[t]] # None /\ heap[cache[t]].name = t
      BY <1>1, <2>1 DEF TypeInv, TypeOK, StoreTypeOK, Shape, Fresh, WellNamed
    <3> QED BY <2>1, <3>1
  <2> QED BY <1>1, <2>1
<1>2. ASSUME NEW d \in Conns \ {c}
      PROVE  NamedConn(d)'
  <2>1. /\ conn'[d] = conn[d] /\ call'[d] = call[d]
        /\ NamedConn(d) /\ CallFits(call[d]) /\ HandlerFits(conn[d])
        /\ call[d] \in Call /\ conn[d] \in Handler
    BY DEF WellNamed, TypeInv, TypeOK, StoreTypeOK, Shape
  <2>2. call[d].ptr # None => call[d].ptr \in Ptrs \ Fresh /\ heap[call[d].ptr] # None
    BY <2>1 DEF Call, CallFits, Fresh
  <2>3. conn[d].ptr # None => conn[d].ptr \in Ptrs \ Fresh /\ heap[conn[d].ptr] # None
    BY <2>1 DEF Handler, HandlerFits, Fresh
  <2> QED BY <2>1, <2>2, <2>3 DEF NamedConn
<1> QED BY <1>1, <1>2 DEF WellNamed

\* The pointers a connection holds are not up for reuse.
LEMMA HeldPointers ==
  ASSUME TypeInv, NEW c \in Conns
  PROVE  /\ call[c].ptr # None => call[c].ptr \in Ptrs \ Fresh /\ heap[call[c].ptr] # None
         /\ conn[c].ptr # None => conn[c].ptr \in Ptrs \ Fresh /\ heap[conn[c].ptr] # None
<1>1. CallFits(call[c]) /\ HandlerFits(conn[c]) /\ call[c] \in Call /\ conn[c] \in Handler
  BY DEF TypeInv, TypeOK, StoreTypeOK, Shape
<1> QED BY <1>1 DEF Call, CallFits, Handler, HandlerFits, Fresh

LEMMA CallWellNamed ==
  ASSUME TypeInv, WellNamed, NEW c \in Conns, PlainConn(c), CallStep(c)
  PROVE  /\ WellNamed'
         /\ PlainConn(c)' /\ UNCHANGED conn
         /\ \A d \in Conns \ {c} : call'[d] = call[d]
<1>t. /\ call[c] \in Call /\ CallFits(call[c]) /\ NamedConn(c)
      /\ call \in [Conns -> Call] /\ cache \in [Tables -> {None} \cup Ptrs]
      /\ heap \in [Ptrs -> {None} \cup TableSchema] /\ UNCHANGED conn
      /\ conn[c].ptr # None => conn[c].ptr \in Ptrs \ Fresh
      /\ call[c].ptr # None => call[c].ptr \in Ptrs \ Fresh
  BY HeldPointers DEF TypeInv, TypeOK, StoreTypeOK, Shape, WellNamed, CallStep
<1> DEFINE Goal == /\ WellNamed' /\ PlainConn(c)'
                   /\ \A d \in Conns \ {c} : call'[d] = call[d]
<1>f. ASSUME UNCHANGED <<heap, cache>>, \A d \in Conns \ {c} : call'[d] = call[d],
             NamedConn(c)', call'[c].at \notin {"evict", "erase"}
      PROVE  Goal
  <2>1. WellNamed'
    BY <1>t, <1>f, WellNamedFrame
  <2> QED BY <1>t, <1>f, <2>1 DEF PlainConn
<1>1. CASE Lookup(c)
  <2>1. call[c].tab = conn[c].tab /\ call[c].tab \in Tables
    BY <1>1, <1>t DEF Lookup, At, CallFits, NamedConn, Call
  <2>2. CASE cache[call[c].tab] # None
    <3>1. /\ call' = [call EXCEPT ![c] = [NoCall EXCEPT !.ptr = cache[call[c].tab]]]
          /\ UNCHANGED <<heap, cache>>
      BY <1>1, <2>2 DEF Lookup, Return
    <3>2. call'[c].at = "returned" /\ call'[c].ptr = cache[call[c].tab]
      BY <1>t, <3>1 DEF NoCall
    <3>3. NamedConn(c)'
      BY <1>t, <2>1, <2>2, <3>1, <3>2 DEF WellNamed, NamedConn
    <3> QED BY <1>f, <1>t, <3>1, <3>2, <3>3
  <2>3. CASE cache[call[c].tab] = None
    <3>1. call' = [call EXCEPT ![c].at = "find"] /\ UNCHANGED <<heap, cache>>
      BY <1>1, <2>3 DEF Lookup
    <3>2. NamedConn(c)' /\ call'[c].at = "find"
      BY <1>t, <2>1, <3>1 DEF NamedConn, Call
    <3> QED BY <1>f, <1>t, <3>1, <3>2
  <2> QED BY <2>2, <2>3
<1>2. CASE FindMissing(c)
  <2>1. /\ call' = [call EXCEPT ![c] = [NoCall EXCEPT !.ptr = None]]
        /\ UNCHANGED <<heap, cache>>
    BY <1>2 DEF FindMissing, Return
  <2>2. NamedConn(c)' /\ call'[c].at = "returned"
    BY <1>t, <2>1 DEF NamedConn, NoCall
  <2> QED BY <1>f, <1>t, <2>1, <2>2
<1>3. ASSUME NEW p \in Fresh, FindDocument(c, p)
      PROVE  Goal
  <2>1. /\ heap' = [heap EXCEPT ![p] = [name |-> call[c].tab, items |-> docs[call[c].tab]]]
        /\ call' = [call EXCEPT ![c].at = "fill", ![c].ptr = p] /\ UNCHANGED cache
        /\ p \in Ptrs /\ call[c].tab = conn[c].tab
    BY <1>3, <1>t DEF FindDocument, At, Fresh, CallFits, NamedConn
  <2>2. /\ call'[c].at = "fill" /\ call'[c].ptr = p /\ call'[c].tab = call[c].tab
        /\ \A d \in Conns \ {c} : call'[d] = call[d]
        /\ heap'[p].name = conn[c].tab
        /\ \A q \in Ptrs \ Fresh : heap'[q] = heap[q]
    BY <1>t, <2>1 DEF Call
  <2>3. NamedConn(c)'
    BY <1>t, <2>1, <2>2 DEF NamedConn
  <2>4. WellNamed'
    BY <1>t, <2>1, <2>2, <2>3, WellNamedFrame
  <2> QED BY <1>t, <2>2, <2>4 DEF PlainConn
<1>4. CASE Fill(c)
  <2>1. /\ cache' = [cache EXCEPT ![call[c].tab] = call[c].ptr] /\ UNCHANGED heap
        /\ call' = [call EXCEPT ![c] = [NoCall EXCEPT !.ptr = call[c].ptr]]
        /\ call[c].ptr \in Ptrs /\ heap[call[c].ptr].name = call[c].tab
    BY <1>4, <1>t DEF Fill, Return, At, CallFits, NamedConn, Call
  <2>2. NamedConn(c)' /\ call'[c].at = "returned"
    BY <1>t, <2>1 DEF NamedConn, NoCall
  <2>3. WellNamed'
    BY <1>t, <2>1, <2>2, WellNamedFrame
  <2> QED BY <1>t, <2>1, <2>2, <2>3 DEF PlainConn
<1>5. CASE Upsert(c)
  <2>1. call' = [call EXCEPT ![c].at = "publish"] /\ UNCHANGED <<heap, cache>> /\ At(c, "upsert")
    BY <1>5 DEF Upsert
  <2>2. NamedConn(c)' /\ call'[c].at = "publish"
    BY <1>t, <2>1 DEF NamedConn, Call, At
  <2> QED BY <1>f, <1>t, <2>1, <2>2
<1>6. CASE Publish(c)
  <2>1. /\ cache' = [cache EXCEPT ![heap[call[c].ptr].name] = call[c].ptr]
        /\ UNCHANGED heap
        /\ call' = [call EXCEPT ![c] = [NoCall EXCEPT !.ptr = call[c].ptr]]
    BY <1>6 DEF Publish, Return
  <2>2. NamedConn(c)' /\ call'[c].at = "returned"
    BY <1>t, <2>1 DEF NamedConn, NoCall
  <2>3. WellNamed'
    BY <1>t, <2>1, <2>2, WellNamedFrame
  <2> QED BY <1>t, <2>1, <2>2, <2>3 DEF PlainConn
<1>7. CASE Evict(c) \/ Erase(c)
  BY <1>7 DEF Evict, Erase, At, PlainConn
<1> QED
  BY <1>t, <1>1, <1>2, <1>3, <1>4, <1>5, <1>6, <1>7 DEF CallStep, StoreStep

\* A step that goes on with the table at hand and with schemas it had.
LEMMA NamedKeep ==
  ASSUME TypeInv, WellNamed, NEW c \in Conns,
         \A p \in Ptrs \ Fresh : heap[p] # None => heap'[p].name = heap[p].name,
         UNCHANGED cache,
         \A d \in Conns \ {c} : conn'[d] = conn[d] /\ call'[d] = call[d],
         conn'[c].tab = conn[c].tab,
         conn'[c].ptr \in {conn[c].ptr, call[c].ptr},
         call'[c] \in {call[c], NoCall, GetOf(conn[c].tab), SaveOf(conn[c].ptr)}
  PROVE  WellNamed'
<1>1. NamedConn(c)
  BY DEF WellNamed
<1>2. NamedConn(c)'
  BY <1>1, HeldPointers DEF NamedConn, NoCall, GetOf, SaveOf
<1> QED BY <1>2, WellNamedFrame

LEMMA NamedFinish ==
  ASSUME TypeInv, WellNamed, NEW c \in Conns, UNCHANGED <<heap, cache>>, Finish(c)
  PROVE  WellNamed'
<1>1. /\ conn \in [Conns -> Handler] /\ call \in [Conns -> Call]
      /\ conn' = [conn EXCEPT ![c] = Idle] /\ call' = [call EXCEPT ![c] = NoCall]
  BY DEF TypeInv, TypeOK, StoreTypeOK, Finish
<1>2. NamedConn(c)'
  BY <1>1 DEF NamedConn, Idle, NoCall
<1> QED BY <1>1, <1>2, WellNamedFrame

LEMMA LoadsKeeps ==
  ASSUME TypeInv, NEW c \in Conns, NEW p, Loads(c, p)
  PROVE  conn'[c].tab = conn[c].tab /\ conn'[c].ptr \in {conn[c].ptr, p}
<1>1. conn \in [Conns -> Handler] /\ conn[c] \in Handler
  BY DEF TypeInv, TypeOK
<1>2. CASE p = None
  <2>1. conn' = [conn EXCEPT ![c] = NextOption(c)]
    BY <1>2 DEF Loads
  <2>2. NextOption(c).tab = conn[c].tab /\ NextOption(c).ptr = conn[c].ptr
    BY <1>1 DEF NextOption, Handler
  <2> QED BY <1>1, <2>1, <2>2
<1>3. CASE p # None
  <2> DEFINE h == [conn[c] EXCEPT !.pc = "store", !.ptr = p, !.seen = heap[p].items]
  <2>1. conn' = [conn EXCEPT ![c] = h]
    BY <1>3 DEF Loads
  <2>2. h.tab = conn[c].tab /\ h.ptr = p
    BY <1>1 DEF Handler
  <2> HIDE DEF h
  <2> QED BY <1>1, <2>1, <2>2
<1> QED BY <1>2, <1>3

LEMMA HandleWellNamed ==
  ASSUME TypeInv, WellNamed, NEW c \in Conns, PlainConn(c), PlainHandle(c)
  PROVE  WellNamed'
<1>t. /\ conn[c] \in Handler /\ conn \in [Conns -> Handler] /\ call \in [Conns -> Call]
      /\ HandlerFits(conn[c]) /\ heap \in [Ptrs -> {None} \cup TableSchema]
  BY DEF TypeInv, TypeOK, StoreTypeOK, Shape
<1>o. \A d \in Conns \ {c} : conn'[d] = conn[d] /\ call'[d] = call[d]
  BY HandlePlain
<1>1. CASE \/ CreateFails(c) \/ CreateIndexes(c) \/ TruncateCreate(c) \/ Finished(c)
           \/ InsertMany(c) \/ UpdateMany(c) \/ DeleteMany(c)
  <2>1. Finish(c) /\ UNCHANGED <<heap, cache>>
    BY <1>1 DEF CreateFails, CreateIndexes, TruncateCreate, Finished, InsertMany, UpdateMany,
       DeleteMany
  <2> QED BY <2>1, NamedFinish
<1>2. CASE \/ AddColumn(c) \/ ModifyColumn(c) \/ DropColumn(c) \/ AddIndex(c) \/ DropKey(c) \/ Load(c)
  <2>1. UNCHANGED <<heap, cache, call>> /\ \E p \in {conn[c].ptr, call[c].ptr} : Loads(c, p)
    BY <1>2 DEF AddColumn, ModifyColumn, DropColumn, AddIndex, DropKey, Load
  <2>2. conn'[c].tab = conn[c].tab /\ conn'[c].ptr \in {conn[c].ptr, call[c].ptr}
    BY <2>1, LoadsKeeps
  <2> QED BY <1>o, <2>1, <2>2, NamedKeep
<1>3. CASE Store(c)
  <2>1. conn' = [conn EXCEPT ![c] = NextOption(c)] /\ UNCHANGED <<cache, call>>
    BY <1>3 DEF Store
  <2>2. NextOption(c).tab = conn[c].tab /\ NextOption(c).ptr = conn[c].ptr
    BY <1>t DEF NextOption, Handler
  <2>3. conn[c].ptr \in Ptrs /\ heap[conn[c].ptr] \in TableSchema
    BY <1>3, <1>t DEF Store, Running, HandlerFits, Handler
  <2>4. \A p \in Ptrs : heap[p] # None => heap'[p].name = heap[p].name
    BY <1>3, <1>t, <2>3 DEF Store, TableSchema
  <2> QED BY <1>o, <1>t, <2>1, <2>2, <2>4, NamedKeep
<1>4. CASE CheckExists(c)
  <2>1. CASE conn[c].tab \in colls
    BY <1>4, <2>1, NamedFinish DEF CheckExists
  <2>2. CASE conn[c].tab \notin colls
    <3>1. conn' = [conn EXCEPT ![c].pc = "create"] /\ UNCHANGED <<heap, cache, call>>
      BY <1>4, <2>2 DEF CheckExists, Goto
    <3>2. conn'[c].tab = conn[c].tab /\ conn'[c].ptr = conn[c].ptr
      BY <1>t, <3>1 DEF Handler
    <3> QED BY <1>o, <3>1, <3>2, NamedKeep
  <2> QED BY <2>1, <2>2
<1>5. CASE TruncateDrop(c)
  <2>1. conn' = [conn EXCEPT ![c].pc = "recreate"] /\ UNCHANGED <<heap, cache, call>>
    BY <1>5 DEF TruncateDrop, Goto
  <2>2. conn'[c].tab = conn[c].tab /\ conn'[c].ptr = conn[c].ptr
    BY <1>t, <2>1 DEF Handler
  <2> QED BY <1>o, <2>1, <2>2, NamedKeep
<1>6. CASE IndexStatement(c)
  <2>1. /\ conn' = [conn EXCEPT ![c].pc = "load"] /\ UNCHANGED <<heap, cache>>
        /\ call' = [call EXCEPT ![c] = GetOf(conn[c].tab)]
    BY <1>6 DEF IndexStatement, Goto, Begins
  <2>2. conn'[c].tab = conn[c].tab /\ conn'[c].ptr = conn[c].ptr
    BY <1>t, <2>1 DEF Handler
  <2> QED BY <1>o, <1>t, <2>1, <2>2, NamedKeep
<1>7. CASE EndOptions(c)
  <2>1. CASE conn[c].ptr = None \/ conn[c].stmt.opts = <<>>
    BY <1>7, <2>1, NamedFinish DEF EndOptions
  <2>2. CASE conn[c].ptr # None /\ conn[c].stmt.opts # <<>>
    <3>1. /\ conn' = [conn EXCEPT ![c].pc = "finish"] /\ UNCHANGED <<heap, cache>>
          /\ call' = [call EXCEPT ![c] = SaveOf(conn[c].ptr)]
      BY <1>7, <2>2 DEF EndOptions, Goto, Begins
    <3>2. conn'[c].tab = conn[c].tab /\ conn'[c].ptr = conn[c].ptr
      BY <1>t, <3>1 DEF Handler
    <3> QED BY <1>o, <1>t, <3>1, <3>2, NamedKeep
  <2> QED BY <2>1, <2>2
<1>8. CASE Start(c)
  <2>1. /\ conn' = [conn EXCEPT ![c].pc = "option", ![c].ptr = call[c].ptr]
        /\ UNCHANGED <<heap, cache, call>>
    BY <1>8 DEF Start
  <2>2. conn'[c].tab = conn[c].tab /\ conn'[c].ptr = call[c].ptr
    BY <1>t, <2>1 DEF Handler
  <2> QED BY <1>o, <2>1, <2>2, NamedKeep
<1>9. CASE NextAutoIncrement(c) \/ NoAutoIncrement(c)
  <2>1. /\ \E i : conn' = [conn EXCEPT ![c].pc = "insertMany", ![c].id = i]
        /\ UNCHANGED <<heap, cache, call>>
    BY <1>9 DEF NextAutoIncrement, NoAutoIncrement
  <2>2. conn'[c].tab = conn[c].tab /\ conn'[c].ptr = conn[c].ptr
    BY <1>t, <2>1 DEF Handler
  <2> QED BY <1>o, <2>1, <2>2, NamedKeep
<1>10. ASSUME NEW p \in Fresh, CreateCollection(c, p)
       PROVE  WellNamed'
  <2>1. conn' = [conn EXCEPT ![c].pc = "createIndexes"] /\ UNCHANGED cache
    BY <1>10 DEF CreateCollection, Goto
  <2>2. conn'[c].tab = conn[c].tab /\ conn'[c].ptr = conn[c].ptr
    BY <1>t, <2>1 DEF Handler
  <2>3. CASE UNCHANGED <<heap, call>>
    BY <1>o, <2>1, <2>2, <2>3, NamedKeep
  <2>4. CASE /\ heap' = [heap EXCEPT ![p] = [name |-> conn[c].tab,
                                            items |-> Lists(conn[c].stmt.items)]]
             /\ call' = [call EXCEPT ![c] = SaveOf(p)]
    <3>1. /\ \A q \in Ptrs \ Fresh : heap'[q] = heap[q]
          /\ heap'[p].name = conn[c].tab
          /\ call'[c].ptr = p /\ call'[c].tab = None
      BY <1>t, <2>4 DEF Fresh, SaveOf
    <3>2. NamedConn(c)
      BY DEF WellNamed
    <3>3. NamedConn(c)'
      BY <2>2, <3>1, <3>2, HeldPointers DEF NamedConn
    <3> QED BY <1>o, <2>1, <3>1, <3>3, WellNamedFrame
  <2> QED BY <1>10, <2>3, <2>4 DEF CreateCollection, Begins
<1> QED
  BY <1>1, <1>2, <1>3, <1>4, <1>5, <1>6, <1>7, <1>8, <1>9, <1>10 DEF PlainHandle

----------------------------------------------------------------------------
(* Numbers.                                                                *)

\* A step that stores no row and takes no value: rows of the table may go.
LEMMA NumberedFrame ==
  ASSUME TypeInv, Numbered, NEW c \in Conns, UNCHANGED seq,
         \A t \in Tables : rows'[t] \subseteq rows[t],
         \A d \in Conns \ {c} : conn'[d] = conn[d],
         conn'[c].pc # "insertMany"
  PROVE  Numbered'
<1>1. ASSUME NEW d \in Conns PROVE InFlight(d)'
  <2>1. CASE d = c
    BY <2>1 DEF InFlight
  <2>2. CASE d # c
    <3>1. conn'[d] = conn[d] /\ InFlight(d)
      BY <2>2 DEF Numbered
    <3>2. conn[d].pc = "insertMany" => conn[d].tab \in Tables
      BY DEF TypeInv, TypeOK, Shape, HandlerFits, OneTablePCs, Handler
    <3>3. \A e \in Conns : conn'[e].pc = "insertMany" => conn'[e] = conn[e]
      OBVIOUS
    <3> QED BY <3>1, <3>2, <3>3 DEF InFlight
  <2> QED BY <2>1, <2>2
<1>2. UniqueIds'
  BY DEF Numbered, UniqueIds
<1>3. \A t \in Tables : \A r \in rows'[t] : r.id <= seq'[t]
  BY DEF Numbered
<1> QED BY <1>1, <1>2, <1>3 DEF Numbered

LEMMA HandleNumbered ==
  ASSUME Evolving, TypeInv, WellNamed, Numbered, NEW c \in Conns, PlainConn(c), PlainHandle(c)
  PROVE  Numbered'
<1>t. /\ conn[c] \in Handler /\ conn \in [Conns -> Handler] /\ HandlerFits(conn[c])
      /\ rows \in [Tables -> SUBSET Row] /\ seq \in [Tables -> Nat]
      /\ CallFits(call[c]) /\ call[c] \in Call
      /\ heap \in [Ptrs -> {None} \cup TableSchema]
  BY DEF TypeInv, TypeOK, StoreTypeOK, Shape
<1>o. \A d \in Conns \ {c} : conn'[d] = conn[d]
  BY HandlePlain
<1>1. CASE \/ CreateFails(c) \/ CreateIndexes(c) \/ TruncateCreate(c) \/ Finished(c)
           \/ UpdateMany(c) \/ DeleteMany(c)
  <2>1. conn'[c].pc # "insertMany"
    BY <1>1, <1>t DEF CreateFails, CreateIndexes, TruncateCreate, Finished, UpdateMany,
       DeleteMany, Finish, Idle
  <2>2. UNCHANGED seq
    BY <1>1 DEF CreateFails, CreateIndexes, TruncateCreate, Finished, UpdateMany, DeleteMany,
       mongoVars
  <2>3. CASE DeleteMany(c)
    <3>1. conn[c].tab \in Tables
      BY <1>t, <2>3 DEF DeleteMany, Running, HandlerFits, OneTablePCs, Handler
    <3>2. \A t \in Tables : rows'[t] \subseteq rows[t]
      BY <1>t, <2>3, <3>1 DEF DeleteMany
    <3> QED BY <1>o, <2>1, <2>2, <3>2, NumberedFrame
  <2>4. CASE ~DeleteMany(c)
    <3>1. UNCHANGED rows
      BY <1>1, <2>4 DEF CreateFails, CreateIndexes, TruncateCreate, Finished, UpdateMany,
         Indexed, mongoVars
    <3> QED BY <1>o, <2>1, <2>2, <3>1, NumberedFrame
  <2> QED BY <2>3, <2>4
<1>l. ASSUME NEW p, Loads(c, p)
      PROVE  conn'[c].pc # "insertMany"
  <2>1. NextOption(c).pc = "option"
    BY <1>t DEF NextOption, Handler
  <2>2. [conn[c] EXCEPT !.pc = "store", !.ptr = p, !.seen = heap[p].items].pc = "store"
    BY <1>t DEF Handler
  <2> QED BY <1>t, <1>l, <2>1, <2>2 DEF Loads
<1>2. CASE \/ AddColumn(c) \/ ModifyColumn(c) \/ AddIndex(c) \/ DropKey(c) \/ Load(c)
  <2>1. UNCHANGED <<rows, seq>> /\ \E p : Loads(c, p)
    BY <1>2 DEF AddColumn, ModifyColumn, AddIndex, DropKey, Load, Indexed, Unindexed, mongoVars
  <2> QED BY <1>o, <1>l, <2>1, NumberedFrame
<1>3. CASE DropColumn(c)
  <2>1. conn'[c].pc # "insertMany" /\ UNCHANGED seq
    BY <1>3, <1>l DEF DropColumn
  <2>2. conn[c].rest # <<>> /\ Opt(c).op = "drop"
    BY <1>3 DEF DropColumn, AtOption, Opt
  <2>3. conn[c].tab \in Tables
    BY <2>2, OptionAtHand
  <2>4. CASE Opt(c).item = AutoCol
    <3> DEFINE t == conn[c].tab
    <3>1. rows' = [rows EXCEPT ![t] = {[r EXCEPT !.id = 0] : r \in rows[t]}]
      BY <1>3, <2>4 DEF DropColumn
    <3>2. \A r \in Row : [r EXCEPT !.id = 0].id = 0
      BY DEF Row
    <3>3. rows[t] \subseteq Row
      BY <1>t, <2>3
    <3>4. /\ \A r \in rows'[t] : r.id = 0
          /\ \A u \in Tables \ {t} : rows'[u] = rows[u]
      BY <1>t, <2>3, <3>1, <3>2, <3>3
    <3>5. ASSUME NEW d \in Conns PROVE InFlight(d)'
      <4>1. conn'[d].pc = "insertMany" => conn'[d] = conn[d] /\ conn[d].tab \in Tables
        BY <1>o, <2>1 DEF TypeInv, TypeOK, Shape, HandlerFits, OneTablePCs, Handler
      <4>2. InFlight(d)
        BY DEF Numbered
      <4>3. \A e \in Conns : conn'[e].pc = "insertMany" => conn'[e] = conn[e]
        BY <1>o, <2>1
      <4> QED BY <2>1, <3>4, <4>1, <4>2, <4>3 DEF InFlight
    <3>6. UniqueIds'
      BY <3>4 DEF Numbered, UniqueIds
    <3>7. \A u \in Tables : \A r \in rows'[u] : r.id <= seq'[u]
      BY <1>t, <2>1, <3>4 DEF Numbered
    <3> QED BY <3>5, <3>6, <3>7 DEF Numbered
  <2>5. CASE Opt(c).item # AutoCol
    <3>1. \A t \in Tables : rows'[t] = rows[t]
      BY <1>3, <1>t, <2>3, <2>5 DEF DropColumn
    <3> QED BY <1>o, <2>1, <3>1, NumberedFrame
  <2> QED BY <2>4, <2>5
<1>4. CASE Store(c)
  <2>1. UNCHANGED <<rows, seq>> /\ conn' = [conn EXCEPT ![c] = NextOption(c)]
    BY <1>4 DEF Store, mongoVars
  <2>2. NextOption(c).pc = "option"
    BY <1>t DEF NextOption, Handler
  <2> QED BY <1>o, <1>t, <2>1, <2>2, NumberedFrame
<1>5. CASE CheckExists(c) \/ EndOptions(c)
  <2>1. UNCHANGED <<rows, seq>> /\ conn'[c].pc # "insertMany"
    BY <1>5, <1>t DEF CheckExists, EndOptions, Finish, Goto, Idle, mongoVars, Handler
  <2> QED BY <1>o, <2>1, NumberedFrame
<1>6. CASE TruncateDrop(c)
  <2>1. UNCHANGED seq /\ conn'[c].pc # "insertMany"
    BY <1>6, <1>t DEF TruncateDrop, Goto, Handler
  <2>2. \A t \in Tables : rows'[t] \subseteq rows[t]
    BY <1>6, <1>t DEF TruncateDrop, Dropped
  <2> QED BY <1>o, <2>1, <2>2, NumberedFrame
<1>7. CASE IndexStatement(c) \/ Start(c)
  <2>1. UNCHANGED <<rows, seq>> /\ conn'[c].pc # "insertMany"
    BY <1>7, <1>t DEF IndexStatement, Start, Indexed, Unindexed, Goto, mongoVars, Handler
  <2> QED BY <1>o, <2>1, NumberedFrame
<1>8. ASSUME NEW p \in Fresh, CreateCollection(c, p)
      PROVE  Numbered'
  <2>1. UNCHANGED <<rows, seq>> /\ conn'[c].pc # "insertMany"
    BY <1>8, <1>t DEF CreateCollection, Goto, Handler
  <2> QED BY <1>o, <2>1, NumberedFrame
\* The next value is greater than all there are.
<1>9. CASE NextAutoIncrement(c)
  <2> DEFINE t == conn[c].tab
             n == seq[t] + 1
  <2>1. t \in Tables /\ conn[c].pc = "applyDefaults"
    BY <1>9, <1>t DEF NextAutoIncrement, Running, HandlerFits, OneTablePCs, Handler
  <2>2. heap[call[c].ptr].name = t
    BY <1>9 DEF NextAutoIncrement, NeedsId, WellNamed, NamedConn
  <2>3. /\ seq' = [seq EXCEPT ![t] = n] /\ UNCHANGED rows
        /\ conn' = [conn EXCEPT ![c].pc = "insertMany", ![c].id = n]
    BY <1>9, <2>2 DEF NextAutoIncrement, collVars
  <2>4. /\ conn'[c].pc = "insertMany" /\ conn'[c].id = n /\ conn'[c].tab = t
        /\ seq'[t] = n /\ seq[t] \in Nat /\ n \in Nat /\ seq[t] < n
        /\ \A u \in Tables : seq[u] \in Nat /\ seq'[u] \in Nat /\ seq[u] <= seq'[u]
    BY <1>t, <2>1, <2>3 DEF Handler
  <2> HIDE DEF n
  <2>5. \A r \in rows[t] : r.id \in Nat /\ r.id < n
    BY <1>t, <2>1, <2>4 DEF Numbered, Row
  <2>6. \A d \in Conns \ {c} : /\ conn[d].id \in Nat
                               /\ conn[d].pc = "insertMany" /\ conn[d].tab = t
                                    => conn[d].id < n
    <3> TAKE d \in Conns \ {c}
    <3>1. InFlight(d) /\ conn[d] \in Handler /\ conn[d].id \in Nat
      BY DEF Numbered, TypeInv, TypeOK, Handler
    <3> QED BY <2>4, <3>1 DEF InFlight
  <2>7. InFlight(c)'
    <3>1. \A r \in rows'[t] : r.id # n
      BY <2>3, <2>4, <2>5
    <3>2. ASSUME NEW d \in Conns \ {c}, conn'[d].pc = "insertMany", conn'[d].tab = t
          PROVE  conn'[d].id # n
      BY <1>o, <2>4, <2>6, <3>2
    <3> QED BY <2>4, <3>1, <3>2 DEF InFlight
  <2>8. ASSUME NEW d \in Conns \ {c} PROVE InFlight(d)'
    <3>1. /\ conn'[d] = conn[d] /\ InFlight(d) /\ conn[d].id \in Nat
          /\ conn[d].pc = "insertMany" => conn[d].tab \in Tables
      BY <1>o, <2>6 DEF Numbered, TypeInv, TypeOK, Shape, HandlerFits, OneTablePCs, Handler
    <3>2. \A e \in Conns \ {d} : e # c => conn'[e] = conn[e]
      BY <1>o
    <3>3. conn[d].pc = "insertMany" /\ conn[d].id # 0
            => conn[d].id <= seq'[conn[d].tab]
      <4> SUFFICES ASSUME conn[d].pc = "insertMany", conn[d].id # 0
                   PROVE  conn[d].id <= seq'[conn[d].tab]
        OBVIOUS
      <4>1. conn[d].tab \in Tables /\ conn[d].id <= seq[conn[d].tab]
        BY <3>1 DEF InFlight
      <4> QED BY <2>4, <3>1, <4>1
    <3>4. conn[d].tab = t => conn[d].id # conn'[c].id \/ conn[d].pc # "insertMany"
      BY <2>4, <2>6
    <3> QED BY <2>3, <2>4, <3>1, <3>2, <3>3, <3>4 DEF InFlight
  <2>9. \A u \in Tables : \A r \in rows'[u] : r.id <= seq'[u]
    BY <1>t, <2>3, <2>4 DEF Numbered, Row
  <2> QED BY <2>3, <2>7, <2>8, <2>9 DEF Numbered, UniqueIds
<1>10. CASE NoAutoIncrement(c)
  <2>1. /\ conn' = [conn EXCEPT ![c].pc = "insertMany", ![c].id = conn[c].stmt.id]
        /\ UNCHANGED <<rows, seq>> /\ conn[c].pc = "applyDefaults"
    BY <1>10 DEF NoAutoIncrement, Running, mongoVars
  <2>2. conn[c].stmt.id = 0
    BY <1>t, <2>1 DEF HandlerFits, Handler, Evolving
  <2>3. conn'[c].id = 0 /\ conn'[c].tab = conn[c].tab
    BY <1>t, <2>1, <2>2 DEF Handler
  <2>4. InFlight(c)'
    BY <2>3 DEF InFlight
  <2>5. ASSUME NEW d \in Conns \ {c} PROVE InFlight(d)'
    <3>1. conn'[d] = conn[d] /\ InFlight(d)
      BY <1>o DEF Numbered
    <3>2. \A e \in Conns \ {d} : e # c => conn'[e] = conn[e]
      BY <1>o
    <3> QED BY <2>1, <2>3, <3>1, <3>2 DEF InFlight
  <2> QED BY <2>1, <2>4, <2>5 DEF Numbered, UniqueIds
<1>11. CASE InsertMany(c)
  <2> DEFINE t == conn[c].tab
             new == [id |-> conn[c].id, nr |-> conn[c].nr]
  <2>1. t \in Tables /\ conn[c].pc = "insertMany" /\ InFlight(c)
    BY <1>11, <1>t DEF InsertMany, Running, HandlerFits, OneTablePCs, Handler, Numbered
  <2>2. /\ rows' = [rows EXCEPT ![t] = @ \cup {new}] /\ UNCHANGED seq
        /\ conn' = [conn EXCEPT ![c] = Idle]
    BY <1>11 DEF InsertMany, Finish
  <2>3. /\ conn'[c].pc = "idle" /\ rows'[t] = rows[t] \cup {new}
        /\ \A u \in Tables \ {t} : rows'[u] = rows[u]
    BY <1>t, <2>1, <2>2 DEF Idle
  <2>4. ASSUME NEW d \in Conns \ {c} PROVE InFlight(d)'
    <3>1. /\ conn'[d] = conn[d] /\ InFlight(d)
          /\ conn[d].pc = "insertMany" => conn[d].tab \in Tables
      BY <1>o DEF Numbered, TypeInv, TypeOK, Shape, HandlerFits, OneTablePCs, Handler
    <3>2. \A e \in Conns : conn'[e].pc = "insertMany" => conn'[e] = conn[e]
      BY <1>o, <2>3
    <3> QED BY <2>1, <2>2, <2>3, <3>1, <3>2 DEF InFlight
  <2>5. InFlight(c)'
    BY <2>3 DEF InFlight
  <2>6. UniqueIds'
    <3>1. \A r \in rows[t] : r.id = new.id => r.id = 0
      BY <2>1 DEF InFlight
    <3> HIDE DEF new
    <3> QED BY <2>1, <2>3, <3>1 DEF Numbered, UniqueIds
  <2>7. \A u \in Tables : \A r \in rows'[u] : r.id <= seq'[u]
    <3>1. new.id <= seq[t]
      BY <1>t, <2>1 DEF InFlight, Handler
    <3> HIDE DEF new
    <3> QED BY <2>2, <2>3, <3>1 DEF Numbered
  <2> QED BY <2>4, <2>5, <2>6, <2>7 DEF Numbered
<1> QED
  BY <1>1, <1>2, <1>3, <1>4, <1>5, <1>6, <1>7, <1>8, <1>9, <1>10, <1>11 DEF PlainHandle

----------------------------------------------------------------------------
(* The other steps, and the theorem.                                       *)

LEMMA HandleIdInv ==
  ASSUME Evolving, TypeInv, IdInv, NEW c \in Conns, Handle(c)
  PROVE  IdInv'
<1>1. PlainConn(c) /\ PlainHandle(c)
  BY PlainHandles DEF IdInv, Plain
<1>2. Plain'
  BY <1>1, HandlePlain DEF IdInv, Plain, PlainConn
<1> QED BY <1>1, <1>2, HandleWellNamed, HandleNumbered DEF IdInv

LEMMA CallIdInv ==
  ASSUME TypeInv, IdInv, NEW c \in Conns, CallStep(c)
  PROVE  IdInv'
<1>1. /\ WellNamed' /\ PlainConn(c)' /\ UNCHANGED conn
      /\ \A d \in Conns \ {c} : call'[d] = call[d]
  BY CallWellNamed DEF IdInv, Plain
<1>2. Plain'
  BY <1>1 DEF IdInv, Plain, PlainConn
<1>3. Numbered'
  BY <1>1 DEF CallStep, IdInv, Numbered, InFlight, UniqueIds
<1> QED BY <1>1, <1>2, <1>3 DEF IdInv

LEMMA BeginIdInv ==
  ASSUME Evolving, TypeInv, IdInv, NEW c \in Conns, NEW s \in Workload, Begin(c, s)
  PROVE  IdInv'
<1> DEFINE h == [pc |-> FirstStep(s), stmt |-> s, rest |-> s.opts, tab |-> s.tab,
                 ptr |-> None, seen |-> None, id |-> 0, nr |-> begun + 1]
<1>1. /\ conn' = [conn EXCEPT ![c] = h] /\ call' = [call EXCEPT ![c] = FirstCall(s)]
      /\ UNCHANGED <<heap, cache, rows, seq>>
      /\ conn \in [Conns -> Handler] /\ call \in [Conns -> Call]
  BY DEF Begin, Begins, mongoVars, TypeInv, TypeOK, StoreTypeOK
<1>2. /\ s.kind \in {"create", "insert", "update", "delete", "alter", "index", "truncate"}
      /\ s.opts \in Seq(ItemOption)
  BY DEF Evolving
<1>3. /\ h.pc \notin {"dropDatabase", "dropCounter", "insertMany"} \cup RenamePCs
      /\ h.rest \in Seq(ItemOption) /\ h.ptr = None /\ h.tab = s.tab
  BY <1>2 DEF FirstStep, RenamePCs
<1>4. /\ FirstCall(s).ptr = None /\ FirstCall(s).at \in {"lookup", "returned"}
      /\ FirstCall(s).tab \in {None, s.tab}
  BY DEF FirstCall, GetOf, NoCall
<1> HIDE DEF h
<1>5. Plain'
  BY <1>1, <1>3, <1>4 DEF IdInv, Plain, PlainConn
<1>6. NamedConn(c)'
  BY <1>1, <1>3, <1>4 DEF NamedConn
<1>7. WellNamed'
  BY <1>1, <1>6, WellNamedFrame DEF IdInv
<1>8. Numbered'
  BY <1>1, <1>3, NumberedFrame DEF IdInv
<1> QED BY <1>5, <1>7, <1>8 DEF IdInv

\* A handler's error paths leave the store and the numbers alone.
LEMMA FaultIdInv ==
  ASSUME TypeInv, IdInv, NEW c \in Conns, Fault(c)
  PROVE  IdInv'
<1>t. /\ conn \in [Conns -> Handler] /\ call \in [Conns -> Call] /\ conn[c] \in Handler
      /\ PlainConn(c) /\ NamedConn(c)
  BY DEF TypeInv, TypeOK, StoreTypeOK, IdInv, Plain, WellNamed
<1>1. CASE StoreFault(c) /\ UNCHANGED <<colls, rows, phys, seq, conn>>
  <2>1. /\ call' = [call EXCEPT ![c] = [NoCall EXCEPT !.ptr = None]]
        /\ UNCHANGED <<heap, cache, conn, rows, seq>>
    BY <1>1 DEF StoreFault, Return
  <2>2. NamedConn(c)' /\ PlainConn(c)'
    BY <1>t, <2>1, HeldPointers DEF NamedConn, NoCall, PlainConn
  <2>3. WellNamed'
    BY <1>t, <2>1, <2>2, WellNamedFrame DEF IdInv
  <2>4. Plain'
    BY <1>t, <2>1, <2>2 DEF IdInv, Plain, PlainConn
  <2>5. Numbered'
    BY <2>1 DEF IdInv, Numbered, InFlight, UniqueIds
  <2> QED BY <2>3, <2>4, <2>5 DEF IdInv
<1>2. CASE HandlerFault(c)
  <2>0. UNCHANGED <<cache, rows, seq>>
    BY <1>2 DEF HandlerFault, mongoVars
  <2>k. ASSUME UNCHANGED heap, PlainConn(c)', conn'[c].pc # "insertMany",
               \A d \in Conns \ {c} : conn'[d] = conn[d] /\ call'[d] = call[d],
               conn'[c].tab = conn[c].tab, conn'[c].ptr = conn[c].ptr,
               call'[c] \in {call[c], GetOf(conn[c].tab)}
        PROVE  IdInv'
    <3>1. Plain'
      BY <2>k DEF IdInv, Plain, PlainConn
    <3>2. WellNamed'
      BY <2>0, <2>k, NamedKeep DEF IdInv
    <3>3. Numbered'
      BY <2>0, <2>k, NumberedFrame DEF IdInv
    <3> QED BY <3>1, <3>2, <3>3 DEF IdInv
  <2>1. CASE Finish(c) /\ UNCHANGED heap
    <3>1. /\ conn'[c] = Idle /\ call'[c] = NoCall
          /\ \A d \in Conns \ {c} : conn'[d] = conn[d] /\ call'[d] = call[d]
      BY <1>t, <2>1 DEF Finish
    <3>2. PlainConn(c)'
      BY <1>t, <2>1, <3>1, PlainRest DEF Finish, NoCall
    <3>3. Plain'
      BY <3>1, <3>2 DEF IdInv, Plain, PlainConn
    <3>4. WellNamed'
      BY <2>0, <2>1, NamedFinish DEF IdInv
    <3>5. Numbered'
      BY <2>0, <3>1, NumberedFrame DEF IdInv, Idle
    <3> QED BY <3>3, <3>4, <3>5 DEF IdInv
  <2>2. CASE conn[c].pc = "check" /\ Goto(c, "create") /\ UNCHANGED <<heap, call>>
    <3>1. conn' = [conn EXCEPT ![c].pc = "create"] /\ "create" \in PCs \ ({"dropDatabase", "dropCounter"} \cup RenamePCs)
      BY <2>2 DEF Goto, PCs, RenamePCs
    <3>2. /\ PlainConn(c)' /\ \A d \in Conns \ {c} : conn'[d] = conn[d]
      BY <1>t, <2>2, <3>1, PlainRest DEF PlainConn
    <3>3. conn'[c].pc = "create" /\ conn'[c].tab = conn[c].tab /\ conn'[c].ptr = conn[c].ptr
      BY <1>t, <3>1 DEF Handler
    <3> QED BY <2>2, <2>k, <3>2, <3>3
  <2>3. CASE /\ \E op \in {"drop", "addIndex", "dropIndex"} : AtOption(c, op)
             /\ Loads(c, conn[c].ptr)
             /\ UNCHANGED <<heap, call>>
    <3>1. conn[c].rest # <<>>
      BY <2>3 DEF AtOption
    <3>2. /\ PlainConn(c)' /\ \A d \in Conns \ {c} : conn'[d] = conn[d]
      BY <1>t, <2>3, <3>1, PlainRest DEF PlainConn
    <3>3. conn'[c].tab = conn[c].tab /\ conn'[c].ptr = conn[c].ptr
      BY <2>3, LoadsKeeps
    <3>4. conn'[c].pc # "insertMany"
      <4>1. NextOption(c).pc = "option"
        BY <1>t DEF NextOption, Handler
      <4>2. \A p : [conn[c] EXCEPT !.pc = "store", !.ptr = p, !.seen = heap[p].items].pc = "store"
        BY <1>t DEF Handler
      <4> QED BY <1>t, <2>3, <4>1, <4>2 DEF Loads
    <3> QED BY <2>3, <2>k, <3>2, <3>3, <3>4
  <2>4. CASE /\ \E op \in {"createIndex", "removeIndex"} : AtOption(c, op)
             /\ Goto(c, "load")
             /\ Begins(c, GetOf(conn[c].tab))
             /\ UNCHANGED heap
    <3>1. /\ conn' = [conn EXCEPT ![c].pc = "load"]
          /\ call' = [call EXCEPT ![c] = GetOf(conn[c].tab)]
          /\ "load" \in PCs \ ({"dropDatabase", "dropCounter"} \cup RenamePCs)
      BY <2>4 DEF Goto, Begins, PCs, RenamePCs
    <3>2. call'[c] = GetOf(conn[c].tab) /\ GetOf(conn[c].tab).at = "lookup"
      BY <1>t, <3>1 DEF GetOf
    <3>3. /\ PlainConn(c)' /\ \A d \in Conns \ {c} : conn'[d] = conn[d]
      BY <1>t, <3>1, <3>2, PlainRest
    <3>4. conn'[c].pc = "load" /\ conn'[c].tab = conn[c].tab /\ conn'[c].ptr = conn[c].ptr
      BY <1>t, <3>1 DEF Handler
    <3> QED BY <1>t, <2>4, <2>k, <3>1, <3>2, <3>3, <3>4
  <2>5. /\ \A op \in {"rename", "dropTable"} : ~AtOption(c, op)
        /\ conn[c].pc \notin {"dropCounter", "setCounter", "findCounter", "deleteCounter"}
    BY <1>t, ItemOptionsOnly DEF AtOption, Opt, PlainConn, RenamePCs
  <2> QED BY <1>2, <2>1, <2>2, <2>3, <2>4, <2>5 DEF HandlerFault
<1> QED BY <1>1, <1>2 DEF Fault

LEMMA RestartIdInv ==
  ASSUME TypeInv, IdInv, Restart
  PROVE  IdInv'
<1>1. Plain'
  <2>1. <<>> \in Seq(ItemOption)
    OBVIOUS
  <2>2. \A c \in Conns : conn'[c] = Idle /\ call'[c] = NoCall
    BY DEF Restart
  <2>3. Idle.rest = <<>> /\ Idle.pc = "idle" /\ NoCall.at = "returned"
    BY DEF Idle, NoCall
  <2> QED BY <2>1, <2>2, <2>3 DEF Plain, PlainConn, RenamePCs
<1>2. WellNamed'
  BY DEF Restart, WellNamed, NamedConn, Idle, NoCall
<1>3. Numbered'
  BY DEF Restart, mongoVars, IdInv, Numbered, InFlight, UniqueIds, Idle
<1> QED BY <1>1, <1>2, <1>3 DEF IdInv

LEMMA StutterIdInv ==
  ASSUME IdInv, UNCHANGED vars
  PROVE  IdInv'
BY DEF vars, IdInv, Plain, PlainConn, WellNamed, NamedConn, Numbered, InFlight, UniqueIds

LEMMA IdCorrect ==
  ASSUME Evolving
  PROVE  Spec => []IdInv
<1>1. Init => IdInv
  BY IdInit
<1>2. TypeInv /\ IdInv /\ [Next]_vars => IdInv'
  <2> SUFFICES ASSUME TypeInv, IdInv, [Next]_vars PROVE IdInv'
    OBVIOUS
  <2> QED
    BY BeginIdInv, CallIdInv, HandleIdInv, FaultIdInv, RestartIdInv, StutterIdInv DEF Next, Quiet
<1> QED BY <1>1, <1>2, ShapeCorrect, PTL DEF Spec

\* As long as tables keep their names and inserts leave the value to the
\* counter, no AUTO_INCREMENT value is given twice.
THEOREM CounterUnique ==
  ASSUME Evolving
  PROVE  Spec => []UniqueIds
<1>1. IdInv => UniqueIds
  BY DEF IdInv, Numbered
<1> QED BY <1>1, IdCorrect, PTL
=============================================================================
